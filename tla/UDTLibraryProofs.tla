--------------------------- MODULE UDTLibraryProofs ---------------------------
(***************************************************************************)
(* Theorems about the library of module UDTLibrary, for any amount of      *)
(* data, any windows, and any loss, delay, reordering, duplication and     *)
(* refused packet.                                                         *)
(***************************************************************************)
EXTENDS UDTLibrary, UDTCCProofs, FiniteSetTheorems

USE LibraryAssumption, CwndAssumption
------------------------------------------------------------------------------
(* Type correctness. *)

LEMMA TypeInit == Init => TypeOK
<1>1. NewUDTCC \in CCState
  BY DEF NewUDTCC, CCState, CwndRange
<1>2. QED
  BY <1>1 DEF Init, TypeOK, SeqNum

LEMMA TypeStep == TypeOK /\ [Next]_vars => TypeOK'
<1> SUFFICES ASSUME TypeOK, [Next]_vars PROVE TypeOK'
  OBVIOUS
<1> USE DEF TypeOK
<1>1. CASE TxExpires
  <2>1. cc' \in CCState
    BY <1>1, ControllerType DEF TxExpires
  <2>2. txMissing' \in SUBSET SeqNum
    BY <1>1 DEF TxExpires, MissingAfterExpiration
  <2>3. QED
    BY <1>1, <2>1, <2>2 DEF TxExpires, rxVars
<1>2. ASSUME NEW seq \in txMissing, TxSendMissing(seq)
      PROVE  TypeOK'
  <2>1. Data(seq) \in Packets
    BY DEF Data, Packets
  <2>2. network' \in SUBSET Packets
    BY <1>2, <2>1 DEF TxSendMissing, Send
  <2>3. QED
    BY <1>2, <2>2 DEF TxSendMissing, rxVars
<1>3. ASSUME NEW seq \in txMissing, TxMissingRefused(seq)
      PROVE  TypeOK'
  BY <1>3 DEF TxMissingRefused, PushedBack, rxVars
<1>4. CASE TxSendNew
  <2>1. txNextSeq \in SeqNum /\ txNextSeq + 1 \in 0..TxMaxSeq
    BY <1>4 DEF TxSendNew, SeqNum
  <2>2. cc' \in CCState
    BY <1>4, ControllerType DEF TxSendNew
  <2>3. Data(txNextSeq) \in Packets
    BY <2>1 DEF Data, Packets
  <2>4. network' \in SUBSET Packets
    BY <1>4, <2>3 DEF TxSendNew, Send
  <2>5. QED
    BY <1>4, <2>1, <2>2, <2>4 DEF TxSendNew, rxVars
<1>5. CASE TxWaits
  BY <1>5 DEF TxWaits, rxVars
<1>6. CASE RxTick
  <2>1. \A p \in RxOutput : p \in Packets
    <3>1. rxHighestContig # -1 => AckPacket \in Packets
      BY DEF AckPacket, Packets
    <3>2. NakPacket \in Packets
      BY DEF NakPacket, Packets
    <3>3. QED
      BY <3>1, <3>2 DEF RxOutput
  <2>2. network' \in SUBSET Packets
    BY <1>6, <2>1 DEF RxTick, Send
  <2>3. QED
    BY <1>6, <2>2 DEF RxTick, txVars, rxVars
<1>7. ASSUME NEW p \in network, Deliver(p)
      PROVE  TypeOK'
  <2>1. p \in Packets /\ network' \in SUBSET Packets
    BY <1>7 DEF Deliver
  <2>2. ASSUME p.type = "DATA", OnRxDataDuplicate(p.seq) \/ OnRxDataNew(p.seq)
        PROVE  TypeOK'
    <3>1. p.seq \in SeqNum
      BY <2>1, <2>2 DEF Packets
    <3>2. CASE OnRxDataDuplicate(p.seq)
      BY <2>1, <3>2 DEF OnRxDataDuplicate, txVars
    <3>3. CASE OnRxDataNew(p.seq)
      <4>1. rxReceived' \in SUBSET SeqNum /\ rxMissing' \in SUBSET SeqNum
        BY <3>1, <3>3 DEF OnRxDataNew, MissingAfter, GapBelow
      <4>2. rxHighestContig' \in -1..(TxMaxSeq - 1)
        BY <3>3 DEF OnRxDataNew, AdvanceContig
      <4>3. QED
        BY <2>1, <3>3, <4>1, <4>2 DEF OnRxDataNew, txVars
    <3>4. QED
      BY <2>2, <3>2, <3>3
  <2>3. ASSUME p.type = "ACK", OnTxAckIgnored(p.ackSeq) \/ OnTxAckAccepted(p.ackSeq)
        PROVE  TypeOK'
    <3>1. p.ackSeq \in 1..TxMaxSeq
      BY <2>1, <2>3 DEF Packets
    <3>2. CASE OnTxAckIgnored(p.ackSeq)
      BY <2>1, <3>2 DEF OnTxAckIgnored, rxVars
    <3>3. CASE OnTxAckAccepted(p.ackSeq)
      <4>1. cc' \in CCState
        BY <3>1, <3>3, ControllerType DEF OnTxAckAccepted
      <4>2. QED
        BY <2>1, <3>1, <3>3, <4>1 DEF OnTxAckAccepted, rxVars
    <3>4. QED
      BY <2>3, <3>2, <3>3
  <2>4. ASSUME p.type = "NAK", OnTxNakReceived(p.missing)
        PROVE  TypeOK'
    <3>1. p.missing \in SUBSET SeqNum
      BY <2>1, <2>4 DEF Packets
    <3>2. cc' \in CCState
      BY <2>4, ControllerType DEF OnTxNakReceived
    <3>3. QED
      BY <2>1, <2>4, <3>1, <3>2 DEF OnTxNakReceived, rxVars
  <2>5. QED
    BY <1>7, <2>2, <2>3, <2>4 DEF Deliver
<1>8. ASSUME NEW p \in network, Lose(p)
      PROVE  TypeOK'
  BY <1>8 DEF Lose, txVars, rxVars
<1>9. CASE UNCHANGED vars
  BY <1>9 DEF vars, txVars, rxVars
<1>10. QED
  BY <1>1, <1>2, <1>3, <1>4, <1>5, <1>6, <1>7, <1>8, <1>9 DEF Next

\* Every variable of the two instances and the network keeps its type.
THEOREM LibraryTypeCorrect == Spec => []TypeOK
BY TypeInit, TypeStep, PTL DEF Spec
------------------------------------------------------------------------------
(* The inductive invariant. *)

\* No map or packet names a number that was not sent, and no acknowledgement
\* under way, or taken, is ahead of the receiver's prefix.
Named ==
  /\ rxReceived \cup txMissing \subseteq 0..(txNextSeq - 1)
  /\ txLastAcked <= rxHighestContig + 1
  /\ \A p \in network :
       /\ p.type = "DATA" => p.seq < txNextSeq
       /\ p.type = "ACK"  => p.ackSeq <= rxHighestContig + 1
       /\ p.type = "NAK"  => p.missing \subseteq 0..(txNextSeq - 1)

\* The sender's window and the receiver's maps, each by itself.
Windows == txLastAcked <= txNextSeq /\ InFlightWindow

Maps == 0..rxHighestContig \subseteq rxReceived /\ MissingAreGaps

IndInv == TypeOK /\ Windows /\ Maps /\ Named

LEMMA IndInvInit == Init => IndInv
<1> SUFFICES ASSUME Init PROVE IndInv
  OBVIOUS
<1>1. TypeOK
  BY TypeInit
<1>2. Windows /\ Maps /\ Named
  BY DEF Init, Windows, InFlightWindow, Maps, MissingAreGaps, Named
<1>3. QED
  BY <1>1, <1>2 DEF IndInv

\* Data keeps the receiver's maps exact, and never shortens the prefix.
LEMMA DataKeepsMaps ==
  ASSUME TypeOK, Maps, NEW seq \in SeqNum, OnRxDataDuplicate(seq) \/ OnRxDataNew(seq)
  PROVE  /\ Maps'
         /\ rxHighestContig' \in Int
         /\ rxHighestContig' >= rxHighestContig
         /\ rxReceived' \subseteq rxReceived \cup {seq}
<1> USE DEF TypeOK, Maps, MissingAreGaps, SeqNum
<1>1. CASE OnRxDataDuplicate(seq)
  <2>1. rxMissing' = rxMissing
    BY <1>1 DEF OnRxDataDuplicate
  <2>2. QED
    BY <1>1, <2>1 DEF OnRxDataDuplicate
<1>2. CASE OnRxDataNew(seq)
  <2>1. rxReceived' = rxReceived \cup {seq}
    BY <1>2 DEF OnRxDataNew
  <2>2. PICK last \in rxHighestContig..(TxMaxSeq - 1) :
          /\ (rxHighestContig + 1)..last \subseteq rxReceived'
          /\ rxHighestContig' = last
    BY <1>2 DEF OnRxDataNew, AdvanceContig
  <2>3. 0..rxHighestContig' \subseteq rxReceived'
    BY <2>1, <2>2
  <2>4. rxMissing' = {s \in SeqNum : /\ s \notin rxReceived /\ s # seq
                                     /\ \/ \E r \in rxReceived : s < r
                                        \/ rxHighestContig < s /\ s < seq}
    BY <1>2 DEF OnRxDataNew, MissingAfter, GapBelow
  <2>5. ASSUME NEW s \in SeqNum, s \notin rxReceived, s < seq
        PROVE  rxHighestContig < s
    BY <2>5
  <2>6. MissingAreGaps'
    BY <2>1, <2>4, <2>5
  <2>7. QED
    BY <2>1, <2>2, <2>3, <2>6
<1>3. QED
  BY <1>1, <1>2

LEMMA IndInvStep == IndInv /\ [Next]_vars => IndInv'
<1> SUFFICES ASSUME IndInv, [Next]_vars PROVE IndInv'
  OBVIOUS
<1>1. TypeOK /\ TypeOK'
  BY TypeStep DEF IndInv
<1>2. /\ txNextSeq \in Nat /\ txLastAcked \in Nat /\ rxHighestContig \in Int
      /\ txNextSeq' \in Nat /\ txLastAcked' \in Nat /\ rxHighestContig' \in Int
  BY <1>1 DEF TypeOK
<1>3. Windows /\ Maps /\ Named
  BY DEF IndInv
<1> SUFFICES Windows' /\ Maps' /\ Named'
  BY <1>1 DEF IndInv
<1>4. CASE TxExpires
  <2>1. UNCHANGED <<txNextSeq, txLastAcked, txInFlight, rxReceived, rxMissing,
                    rxHighestContig, network>>
    BY <1>4 DEF TxExpires, rxVars
  <2>2. txMissing' \subseteq 0..(txNextSeq - 1)
    BY <1>2, <1>3, <1>4
    DEF TxExpires, MissingAfterExpiration, Windows, InFlightWindow, Named
  <2>3. QED
    BY <1>3, <2>1, <2>2 DEF Windows, InFlightWindow, Maps, MissingAreGaps, Named
<1>5. ASSUME NEW seq \in txMissing, TxSendMissing(seq)
      PROVE  Windows' /\ Maps' /\ Named'
  <2>1. /\ UNCHANGED <<txNextSeq, txLastAcked, txInFlight, rxReceived, rxMissing,
                       rxHighestContig>>
        /\ txMissing' \subseteq txMissing
    BY <1>5 DEF TxSendMissing, rxVars
  <2>2. \A p \in network' : p \in network \/ p = Data(seq)
    BY <1>5 DEF TxSendMissing, Send
  <2>3. seq < txNextSeq
    BY <1>2, <1>3 DEF Named
  <2>4. Data(seq).type = "DATA" /\ Data(seq).seq = seq
    BY DEF Data
  <2>5. QED
    BY <1>3, <2>1, <2>2, <2>3, <2>4 DEF Windows, InFlightWindow, Maps, MissingAreGaps, Named
<1>6. ASSUME NEW seq \in txMissing, TxMissingRefused(seq)
      PROVE  Windows' /\ Maps' /\ Named'
  BY <1>3, <1>6 DEF TxMissingRefused, PushedBack, rxVars, Windows, InFlightWindow, Maps,
                    MissingAreGaps, Named
<1>7. CASE TxSendNew
  <2>1. /\ UNCHANGED <<txLastAcked, txMissing, rxReceived, rxMissing, rxHighestContig>>
        /\ txNextSeq' = txNextSeq + 1
        /\ txInFlight' = txInFlight \cup {txNextSeq}
    BY <1>7 DEF TxSendNew, rxVars
  <2>2. \A p \in network' : p \in network \/ p = Data(txNextSeq)
    BY <1>7 DEF TxSendNew, Send
  <2>3. Data(txNextSeq).type = "DATA" /\ Data(txNextSeq).seq = txNextSeq
    BY DEF Data
  <2>4. Windows'
    BY <1>2, <1>3, <2>1 DEF Windows, InFlightWindow
  <2>5. ASSUME NEW p \in network'
        PROVE  /\ p.type = "DATA" => p.seq < txNextSeq + 1
               /\ p.type = "ACK"  => p.ackSeq <= rxHighestContig + 1
               /\ p.type = "NAK"  => p.missing \subseteq 0..txNextSeq
    <3>1. CASE p \in network
      <4>1. p.type = "DATA" => p.seq \in Nat /\ p.seq < txNextSeq
        BY <1>1, <1>3, <3>1 DEF Named, TypeOK, Packets, SeqNum
      <4>2. p.type = "NAK" => p.missing \subseteq 0..(txNextSeq - 1)
        BY <1>3, <3>1 DEF Named
      <4>3. p.type = "ACK" => p.ackSeq <= rxHighestContig + 1
        BY <1>3, <3>1 DEF Named
      <4>4. QED
        BY <1>2, <4>1, <4>2, <4>3
    <3>2. CASE p = Data(txNextSeq)
      BY <1>2, <2>3, <3>2
    <3>3. QED
      BY <2>2, <3>1, <3>2
  <2>6. rxReceived \cup txMissing \subseteq 0..txNextSeq
    BY <1>2, <1>3 DEF Named
  <2>7. QED
    BY <1>2, <1>3, <2>1, <2>4, <2>5, <2>6 DEF Maps, MissingAreGaps, Named
<1>8. CASE TxWaits
  BY <1>3, <1>8 DEF TxWaits, rxVars, Windows, InFlightWindow, Maps, MissingAreGaps, Named
<1>9. CASE RxTick
  <2>1. UNCHANGED <<txNextSeq, txLastAcked, txInFlight, txMissing, rxReceived, rxMissing,
                    rxHighestContig>>
    BY <1>9 DEF RxTick, txVars, rxVars
  <2>2. \A p \in network' : p \in network \/ p = AckPacket \/ p = NakPacket
    BY <1>9 DEF RxTick, RxOutput, Send
  <2>3. /\ AckPacket.type = "ACK" /\ AckPacket.ackSeq = rxHighestContig + 1
        /\ NakPacket.type = "NAK" /\ NakPacket.missing = rxMissing
    BY DEF AckPacket, NakPacket
  <2>4. rxMissing \subseteq 0..(txNextSeq - 1)
    <3>1. ASSUME NEW s \in rxMissing
          PROVE  s \in 0..(txNextSeq - 1)
      <4>1. PICK r \in rxReceived : s < r
        BY <1>3 DEF Maps, MissingAreGaps
      <4>2. s \in Nat /\ r \in Nat /\ r < txNextSeq
        BY <1>1, <1>2, <1>3 DEF Named, TypeOK, SeqNum
      <4>3. QED
        BY <1>2, <4>1, <4>2
    <3>2. QED
      BY <3>1
  <2>5. rxHighestContig + 1 <= rxHighestContig + 1
    BY <1>2
  <2>6. QED
    BY <1>3, <2>1, <2>2, <2>3, <2>4, <2>5
    DEF Windows, InFlightWindow, Maps, MissingAreGaps, Named
<1>10. ASSUME NEW p \in network, Deliver(p)
       PROVE  Windows' /\ Maps' /\ Named'
  <2>1. p \in Packets /\ network' \subseteq network
    BY <1>1, <1>10 DEF TypeOK, Deliver
  <2>2. ASSUME p.type = "DATA", OnRxDataDuplicate(p.seq) \/ OnRxDataNew(p.seq)
        PROVE  Windows' /\ Maps' /\ Named'
    <3>1. p.seq \in SeqNum /\ p.seq < txNextSeq
      BY <1>3, <2>1, <2>2 DEF Packets, Named
    <3>2. UNCHANGED <<txNextSeq, txLastAcked, txInFlight, txMissing>>
      BY <2>2 DEF OnRxDataDuplicate, OnRxDataNew, txVars
    <3>3. /\ Maps'
          /\ rxHighestContig' >= rxHighestContig
          /\ rxReceived' \subseteq rxReceived \cup {p.seq}
      BY <1>1, <1>3, <2>2, <3>1, DataKeepsMaps
    <3>4. ASSUME NEW q \in network'
          PROVE  q.type = "ACK" => q.ackSeq <= rxHighestContig' + 1
      <4>1. q.type = "ACK" => q.ackSeq \in Nat /\ q.ackSeq <= rxHighestContig + 1
        BY <1>1, <1>3, <2>1 DEF Named, TypeOK, Packets
      <4>2. QED
        BY <1>2, <3>3, <4>1
    <3>5. txLastAcked <= rxHighestContig' + 1
      <4>1. PICK h \in Int : h = rxHighestContig'
        BY <1>2
      <4>2. h >= rxHighestContig
        BY <3>3, <4>1
      <4>3. txLastAcked <= rxHighestContig + 1
        BY <1>3 DEF Named
      <4>4. txLastAcked <= h + 1
        BY <1>2, <4>2, <4>3
      <4>5. QED
        BY <4>1, <4>4
    <3>6. rxReceived' \subseteq 0..(txNextSeq - 1)
      BY <1>2, <1>3, <3>1, <3>3 DEF Named, SeqNum
    <3>7. QED
      BY <1>3, <2>1, <3>2, <3>3, <3>4, <3>5, <3>6 DEF Windows, InFlightWindow, Named
  <2>3. ASSUME p.type = "ACK", OnTxAckIgnored(p.ackSeq)
        PROVE  Windows' /\ Maps' /\ Named'
    BY <1>3, <2>1, <2>3 DEF OnTxAckIgnored, rxVars, Windows, InFlightWindow, Maps,
                            MissingAreGaps, Named
  <2>4. ASSUME p.type = "ACK", OnTxAckAccepted(p.ackSeq)
        PROVE  Windows' /\ Maps' /\ Named'
    <3>1. p.ackSeq \in Nat /\ p.ackSeq <= rxHighestContig + 1
      BY <1>3, <2>1, <2>4 DEF Packets, Named
    <3>2. txLastAcked < p.ackSeq /\ p.ackSeq <= txNextSeq
      BY <2>4 DEF OnTxAckAccepted, IsNewAck
    <3>3. /\ UNCHANGED <<txNextSeq, rxReceived, rxMissing, rxHighestContig>>
          /\ txLastAcked' = p.ackSeq
          /\ txMissing' \subseteq txMissing
          /\ txInFlight' = txInFlight \ AckedRange(p.ackSeq)
      BY <2>4 DEF OnTxAckAccepted, rxVars
    <3>4. Windows'
      BY <1>2, <1>3, <3>1, <3>2, <3>3 DEF Windows, InFlightWindow, AckedRange
    <3>5. QED
      BY <1>3, <2>1, <3>1, <3>3, <3>4 DEF Maps, MissingAreGaps, Named
  <2>5. ASSUME p.type = "NAK", OnTxNakReceived(p.missing)
        PROVE  Windows' /\ Maps' /\ Named'
    <3>1. /\ UNCHANGED <<txNextSeq, txLastAcked, txInFlight, rxReceived, rxMissing,
                         rxHighestContig>>
          /\ txMissing' = txMissing \cup p.missing
      BY <2>5 DEF OnTxNakReceived, rxVars
    <3>2. p.missing \subseteq 0..(txNextSeq - 1)
      BY <1>3, <2>5 DEF Named
    <3>3. QED
      BY <1>3, <2>1, <3>1, <3>2 DEF Windows, InFlightWindow, Maps, MissingAreGaps, Named
  <2>6. QED
    BY <1>10, <2>2, <2>3, <2>4, <2>5 DEF Deliver
<1>11. ASSUME NEW p \in network, Lose(p)
       PROVE  Windows' /\ Maps' /\ Named'
  BY <1>3, <1>11 DEF Lose, txVars, rxVars, Windows, InFlightWindow, Maps, MissingAreGaps,
                     Named
<1>12. CASE UNCHANGED vars
  BY <1>3, <1>12 DEF vars, txVars, rxVars, Windows, InFlightWindow, Maps, MissingAreGaps,
                     Named
<1>13. QED
  BY <1>4, <1>5, <1>6, <1>7, <1>8, <1>9, <1>10, <1>11, <1>12 DEF Next

LEMMA IndInvAlways == Spec => []IndInv
BY IndInvInit, IndInvStep, PTL DEF Spec
------------------------------------------------------------------------------
\* What is outstanding is exactly the range between the two counters.
THEOREM LibraryWindowIsExact == Spec => []InFlightWindow
<1>1. IndInv => InFlightWindow
  BY DEF IndInv, Windows
<1>2. QED
  BY <1>1, IndInvAlways, PTL

\* The sender never takes for delivered a packet the receiver lacks.
THEOREM LibraryAckIsReceived == Spec => []NoFalseAck
<1>1. IndInv => NoFalseAck
  <2> SUFFICES ASSUME IndInv PROVE NoFalseAck
    OBVIOUS
  <2>1. txLastAcked \in Int /\ rxHighestContig \in Int
    BY DEF IndInv, TypeOK
  <2>2. txLastAcked <= rxHighestContig + 1 /\ 0..rxHighestContig \subseteq rxReceived
    BY DEF IndInv, Maps, Named
  <2>3. QED
    BY <2>1, <2>2 DEF NoFalseAck
<1>2. QED
  BY <1>1, IndInvAlways, PTL

\* The missing map is the set of holes below what was received.
THEOREM LibraryGapsAreExact == Spec => []MissingAreGaps
<1>1. IndInv => MissingAreGaps
  BY DEF IndInv, Maps
<1>2. QED
  BY <1>1, IndInvAlways, PTL

LEMMA InFlightFinite == IndInv => IsFiniteSet(txInFlight) /\ Cardinality(txInFlight) \in Nat
<1> SUFFICES ASSUME IndInv PROVE IsFiniteSet(txInFlight) /\ Cardinality(txInFlight) \in Nat
  OBVIOUS
<1>1. txLastAcked \in Int /\ txNextSeq - 1 \in Int
  BY DEF IndInv, TypeOK
<1>2. IsFiniteSet(txInFlight)
  BY <1>1, FS_Interval DEF IndInv, Windows, InFlightWindow
<1>3. QED
  BY <1>2, FS_CardinalityType

\* No order of ticks and feedback brings more than the larger of the two flow
\* windows outstanding.
THEOREM LibraryOutstandingBounded == Spec => []OutstandingIsBounded
<1>1. Init => OutstandingIsBounded
  BY FS_EmptySet DEF Init, OutstandingIsBounded
<1>2. ASSUME IndInv, OutstandingIsBounded, [Next]_vars
      PROVE  OutstandingIsBounded'
  <2>1. PICK before \in Nat : before = Cardinality(txInFlight)
    BY <1>2, InFlightFinite
  <2>2. CASE TxSendNew
    <3>1. txInFlight' = txInFlight \cup {txNextSeq}
      BY <2>2 DEF TxSendNew
    <3>2. IsFiniteSet(txInFlight)
      BY <1>2, InFlightFinite
    <3>3. \/ Cardinality(txInFlight \cup {txNextSeq}) = before
          \/ Cardinality(txInFlight \cup {txNextSeq}) = before + 1
      BY <2>1, <3>2, FS_AddElement
    <3>4. PICK after \in Nat : after = Cardinality(txInFlight')
      BY <3>1, <3>3
    <3>5. after <= before + 1
      <4>1. after = before \/ after = before + 1
        BY <3>1, <3>3, <3>4
      <4>2. QED
        BY <4>1
    <3>6. before < txFlowWindow
      BY <2>1, <2>2 DEF TxSendNew, WindowHasRoom
    <3>7. txFlowWindow \in {TxInitialFlowWindow, RxInitialFlowWindow}
      BY <1>2 DEF IndInv, TypeOK
    <3>8. after <= TxInitialFlowWindow \/ after <= RxInitialFlowWindow
      BY <3>5, <3>6, <3>7
    <3>9. QED
      BY <3>4, <3>8 DEF OutstandingIsBounded
  <2>3. ASSUME txInFlight' \subseteq txInFlight
        PROVE  OutstandingIsBounded'
    <3>1. IsFiniteSet(txInFlight)
      BY <1>2, InFlightFinite
    <3>2. IsFiniteSet(txInFlight') /\ Cardinality(txInFlight') <= before
      BY <2>1, <2>3, <3>1, FS_Subset
    <3>3. PICK after \in Nat : after = Cardinality(txInFlight')
      BY <3>2, FS_CardinalityType
    <3>4. after <= TxInitialFlowWindow \/ after <= RxInitialFlowWindow
      BY <1>2, <2>1, <3>2, <3>3 DEF OutstandingIsBounded
    <3>5. QED
      BY <3>3, <3>4 DEF OutstandingIsBounded
  <2>4. TxSendNew \/ txInFlight' \subseteq txInFlight
    <3>1. ASSUME NEW p \in network, Deliver(p)
          PROVE  txInFlight' \subseteq txInFlight
      BY <3>1 DEF Deliver, OnRxDataDuplicate, OnRxDataNew, OnTxAckIgnored,
                  OnTxAckAccepted, OnTxNakReceived, txVars
    <3>2. QED
      BY <1>2, <3>1 DEF Next, TxExpires, TxSendMissing, TxMissingRefused, TxWaits, RxTick,
                        Lose, vars, txVars
  <2>5. QED
    BY <2>2, <2>3, <2>4
<1>3. QED
  BY <1>1, <1>2, IndInvAlways, PTL DEF Spec

\* No map, packet or report names a number that was not sent, and no
\* acknowledgement is ahead of the receiver.
THEOREM LibraryNamesAreSent == Spec => []OnlySentIsNamed
<1>1. IndInv => OnlySentIsNamed
  <2> SUFFICES ASSUME IndInv PROVE OnlySentIsNamed
    OBVIOUS
  <2>1. Named /\ MissingAreGaps /\ txNextSeq \in Nat /\ rxReceived \subseteq SeqNum
    BY DEF IndInv, Maps, TypeOK
  <2>2. ASSUME NEW s \in rxMissing
        PROVE  s \in 0..(txNextSeq - 1)
    <3>1. PICK r \in rxReceived : s < r
      BY <2>1 DEF MissingAreGaps
    <3>2. s \in Nat /\ r \in Nat /\ r < txNextSeq
      BY <2>1 DEF Named, MissingAreGaps, SeqNum
    <3>3. QED
      BY <2>1, <3>1, <3>2
  <2>3. QED
    BY <2>1, <2>2 DEF Named, OnlySentIsNamed
<1>2. QED
  BY <1>1, IndInvAlways, PTL

\* What the controller remembers of the sender: an expiration zeroes its count
\* with everything still outstanding, so the count is only bounded.
ControllerInv ==
  /\ cc.lastAckSeq = txLastAcked
  /\ cc.inFlight <= txNextSeq - txLastAcked

LEMMA ControllerInvStep ==
  ASSUME IndInv, IndInv', ControllerInv, [Next]_vars
  PROVE  ControllerInv'
<1>1. /\ cc \in CCState
      /\ txNextSeq \in Nat /\ txLastAcked \in Nat /\ txLastAcked <= txNextSeq
  BY DEF IndInv, TypeOK, Windows
<1>2. cc.lastAckSeq \in Nat /\ cc.inFlight \in Nat
  BY <1>1 DEF CCState
<1>3. ASSUME UNCHANGED <<txNextSeq, txLastAcked, cc>>
      PROVE  ControllerInv'
  BY <1>3 DEF ControllerInv
<1>4. CASE TxExpires
  <2>1. cc'.inFlight = 0 /\ cc'.lastAckSeq = cc.lastAckSeq
    BY <1>1, <1>4, ControllerCount DEF TxExpires
  <2>2. UNCHANGED <<txNextSeq, txLastAcked>>
    BY <1>4 DEF TxExpires
  <2>3. QED
    BY <1>1, <2>1, <2>2 DEF ControllerInv
<1>5. CASE TxSendNew
  <2>1. cc'.inFlight = cc.inFlight + 1 /\ cc'.lastAckSeq = cc.lastAckSeq
    BY <1>1, <1>5, ControllerCount DEF TxSendNew
  <2>2. txNextSeq' = txNextSeq + 1 /\ txLastAcked' = txLastAcked
    BY <1>5 DEF TxSendNew
  <2>3. QED
    BY <1>1, <1>2, <2>1, <2>2 DEF ControllerInv
<1>6. ASSUME NEW p \in network, Deliver(p)
      PROVE  ControllerInv'
  <2>1. p \in Packets
    BY DEF IndInv, TypeOK
  <2>2. CASE p.type = "DATA" /\ (OnRxDataDuplicate(p.seq) \/ OnRxDataNew(p.seq))
    BY <1>3, <2>2 DEF OnRxDataDuplicate, OnRxDataNew, txVars
  <2>3. CASE p.type = "ACK" /\ OnTxAckIgnored(p.ackSeq)
    BY <1>3, <2>3 DEF OnTxAckIgnored
  <2>4. CASE p.type = "ACK" /\ OnTxAckAccepted(p.ackSeq)
    <3> DEFINE ackSeq == p.ackSeq
    <3>1. ackSeq \in Nat
      BY <2>1, <2>4 DEF Packets
    <3> HIDE DEF ackSeq
    <3>2. /\ txLastAcked < ackSeq /\ ackSeq <= txNextSeq
          /\ txLastAcked' = ackSeq /\ txNextSeq' = txNextSeq
      BY <2>4 DEF OnTxAckAccepted, IsNewAck, ackSeq
    <3>3. PICK rcOpen \in BOOLEAN : cc' = OnAck(cc, ackSeq, rcOpen)
      BY <2>4 DEF OnTxAckAccepted, ackSeq
    <3>4. /\ cc'.lastAckSeq = ackSeq
          /\ cc'.inFlight = IF ackSeq - cc.lastAckSeq >= cc.inFlight
                            THEN 0 ELSE cc.inFlight - (ackSeq - cc.lastAckSeq)
      BY <1>1, <3>1, <3>2, <3>3, ControllerCount DEF ControllerInv
    <3>5. QED
      BY <1>1, <1>2, <3>1, <3>2, <3>4 DEF ControllerInv
  <2>5. CASE p.type = "NAK" /\ OnTxNakReceived(p.missing)
    <3>1. cc'.inFlight = cc.inFlight /\ cc'.lastAckSeq = cc.lastAckSeq
      BY <1>1, <2>5, ControllerCount DEF OnTxNakReceived
    <3>2. QED
      BY <2>5, <3>1 DEF OnTxNakReceived, ControllerInv
  <2>6. QED
    BY <1>6, <2>2, <2>3, <2>4, <2>5 DEF Deliver
<1>7. QED
  BY <1>3, <1>4, <1>5, <1>6 DEF Next, TxSendMissing, TxMissingRefused, TxWaits, RxTick, Lose,
                                vars, txVars

\* The controller never counts more than what is outstanding, and knows the same
\* cumulative acknowledgement as the sender.
THEOREM LibraryCongestionCount == Spec => []CongestionCount
<1>1. Init => ControllerInv
  BY DEF Init, NewUDTCC, ControllerInv
<1>2. IndInv /\ ControllerInv => CongestionCount
  <2> SUFFICES ASSUME IndInv, ControllerInv PROVE CongestionCount
    OBVIOUS
  <2>1. txNextSeq \in Nat /\ txLastAcked \in Nat /\ txLastAcked <= txNextSeq
    BY DEF IndInv, TypeOK, Windows
  <2>2. Cardinality(txInFlight) = txNextSeq - txLastAcked
    <3>1. CASE txLastAcked = txNextSeq
      BY <2>1, <3>1, FS_Interval DEF IndInv, Windows, InFlightWindow
    <3>2. CASE txLastAcked < txNextSeq
      BY <2>1, <3>2, FS_Interval DEF IndInv, Windows, InFlightWindow
    <3>3. QED
      BY <2>1, <3>1, <3>2
  <2>3. QED
    BY <2>2 DEF ControllerInv, CongestionCount
<1>3. QED
  BY <1>1, <1>2, IndInvAlways, ControllerInvStep, PTL DEF Spec

\* The accounts of the sender, its controller and the flow windows agree.
THEOREM LibraryAccountsAgree == Spec => []AccountsAgree
<1>1. InFlightWindow /\ CongestionCount /\ OutstandingIsBounded => AccountsAgree
  BY DEF AccountsAgree
<1>2. QED
  BY <1>1, LibraryWindowIsExact, LibraryCongestionCount, LibraryOutstandingBounded, PTL

\* What either end believes of the other is true.
THEOREM LibraryReportsAreTrue == Spec => []ReportsAreTrue
<1>1. NoFalseAck /\ OnlySentIsNamed => ReportsAreTrue
  BY DEF ReportsAreTrue
<1>2. QED
  BY <1>1, LibraryAckIsReceived, LibraryNamesAreSent, PTL

\* Data the receiver holds already, and everything that is not data, leaves it
\* as it is.
THEOREM LibraryOnlyNewDataCounts == Spec => OnlyNewDataCounts
<1>1. ASSUME IndInv, [Next]_vars, rxReceived' = rxReceived
      PROVE  UNCHANGED rxVars
  <2>1. ASSUME NEW p \in network, Deliver(p)
        PROVE  UNCHANGED rxVars
    <3>1. ASSUME OnRxDataDuplicate(p.seq)
          PROVE  UNCHANGED rxVars
      <4>1. rxMissing' = rxMissing
        BY <1>1, <3>1 DEF OnRxDataDuplicate, IndInv, Maps, MissingAreGaps
      <4>2. QED
        BY <3>1, <4>1 DEF OnRxDataDuplicate, rxVars
    <3>2. ~OnRxDataNew(p.seq)
      BY <1>1 DEF OnRxDataNew
    <3>3. QED
      BY <2>1, <3>1, <3>2 DEF Deliver, OnTxAckIgnored, OnTxAckAccepted, OnTxNakReceived
  <2>2. QED
    BY <1>1, <2>1 DEF Next, TxExpires, TxSendMissing, TxMissingRefused, TxSendNew, TxWaits,
                      RxTick, Lose, vars
<1>2. IndInv /\ [Next]_vars => [rxReceived' = rxReceived => UNCHANGED rxVars]_vars
  BY <1>1
<1>3. QED
  BY <1>2, IndInvAlways, PTL DEF Spec, OnlyNewDataCounts

\* A number queued for retransmission leaves the queue only in a packet or
\* acknowledged, whatever the builder refuses.
THEOREM LibraryQueuedIsNotLost == Spec => QueuedIsNotLost
<1>1. ASSUME IndInv, [Next]_vars, NEW s \in txMissing \ txMissing'
      PROVE  Data(s) \in network' \/ s < txLastAcked'
  <2>1. ASSUME NEW seq \in txMissing, TxSendMissing(seq)
        PROVE  Data(s) \in network'
    BY <1>1, <2>1 DEF TxSendMissing, Send
  <2>2. ASSUME NEW seq \in txMissing, TxMissingRefused(seq)
        PROVE  FALSE
    BY <1>1, <2>2 DEF TxMissingRefused, PushedBack
  <2>3. ASSUME NEW p \in network, Deliver(p)
        PROVE  s < txLastAcked'
    <3>1. p.type = "ACK" /\ OnTxAckAccepted(p.ackSeq)
      BY <1>1, <2>3 DEF Deliver, OnRxDataDuplicate, OnRxDataNew, OnTxAckIgnored,
                        OnTxNakReceived, txVars
    <3>2. txLastAcked' = p.ackSeq /\ s \in txLastAcked..(p.ackSeq - 1)
      BY <1>1, <3>1 DEF OnTxAckAccepted, AckedRange
    <3>3. txLastAcked \in Int /\ p.ackSeq \in Int
      BY <1>1, <3>1 DEF IndInv, TypeOK, Packets
    <3>4. s < p.ackSeq
      BY <3>2, <3>3
    <3>5. QED
      BY <3>2, <3>4
  <2>4. ~TxExpires
    BY <1>1 DEF TxExpires, MissingAfterExpiration
  <2>5. QED
    BY <1>1, <2>1, <2>2, <2>3, <2>4 DEF Next, TxSendNew, TxWaits, RxTick, Lose, vars, txVars
<1>2. IndInv /\ [Next]_vars =>
        [\A s \in txMissing \ txMissing' : Data(s) \in network' \/ s < txLastAcked']_vars
  BY <1>1
<1>3. QED
  BY <1>2, IndInvAlways, PTL DEF Spec, QueuedIsNotLost

\* Over a network that loses, reorders and duplicates, the library implements
\* the abstract transfer.
THEOREM LibraryImplementsReliableDelivery == Spec => RefinesReliableDelivery
<1>1. Init => RD!RDInit
  BY DEF Init, RD!RDInit
<1>2. ASSUME IndInv, IndInv', [Next]_vars
      PROVE  [RD!RDNext]_(RD!rdVars)
  <2> USE DEF RD!rdVars
  <2>1. /\ txNextSeq \in Nat /\ txLastAcked \in Nat
        /\ txNextSeq' \in Nat /\ txLastAcked' \in Nat
        /\ rxHighestContig \in Int /\ rxHighestContig >= -1
        /\ rxHighestContig' \in Int
    BY <1>2 DEF IndInv, TypeOK
  <2>2. CASE TxSendNew
    BY <2>2 DEF TxSendNew, rxVars, RD!RDNext, RD!Send
  <2>3. ASSUME NEW p \in network, Deliver(p), p.type = "DATA"
        PROVE  [RD!RDNext]_(RD!rdVars)
    <3>1. p.seq \in SeqNum /\ (OnRxDataDuplicate(p.seq) \/ OnRxDataNew(p.seq))
      BY <1>2, <2>3 DEF Deliver, IndInv, TypeOK, Packets
    <3>2. txNextSeq' = txNextSeq /\ txLastAcked' = txLastAcked
      BY <3>1 DEF OnRxDataDuplicate, OnRxDataNew, txVars
    <3>3. PICK h \in Int : h = rxHighestContig'
      BY <2>1
    <3>4. h >= rxHighestContig
      BY <1>2, <3>1, <3>3, DataKeepsMaps DEF IndInv
    <3>5. h + 1 <= txNextSeq
      <4>1. 0..h \subseteq rxReceived' /\ rxReceived' \subseteq 0..(txNextSeq - 1)
        BY <1>2, <3>2, <3>3 DEF IndInv, Maps, Named
      <4>2. h >= 0 => h \in 0..(txNextSeq - 1)
        BY <4>1
      <4>3. QED
        BY <2>1, <4>2
    <3>6. h = rxHighestContig \/ h + 1 \in (rxHighestContig + 1 + 1)..txNextSeq
      BY <2>1, <3>4, <3>5
    <3>7. QED
      BY <3>2, <3>3, <3>6 DEF RD!RDNext, RD!Deliver
  <2>4. ASSUME NEW p \in network, Deliver(p), p.type = "ACK"
        PROVE  [RD!RDNext]_(RD!rdVars)
    <3>1. p.ackSeq \in Nat /\ p.ackSeq <= rxHighestContig + 1
      BY <1>2, <2>4 DEF IndInv, TypeOK, Packets, Named
    <3>2. CASE OnTxAckIgnored(p.ackSeq)
      BY <3>2 DEF OnTxAckIgnored, rxVars
    <3>3. CASE OnTxAckAccepted(p.ackSeq)
      <4>1. /\ txLastAcked' = p.ackSeq /\ txLastAcked < p.ackSeq
            /\ txNextSeq' = txNextSeq /\ rxHighestContig' = rxHighestContig
        BY <3>3 DEF OnTxAckAccepted, IsNewAck, rxVars
      <4>2. p.ackSeq \in (txLastAcked + 1)..(rxHighestContig + 1)
        BY <2>1, <3>1, <4>1
      <4>3. QED
        BY <4>1, <4>2 DEF RD!RDNext, RD!Acknowledge
    <3>4. QED
      BY <2>4, <3>2, <3>3 DEF Deliver
  <2>5. ASSUME NEW p \in network, Deliver(p), p.type = "NAK"
        PROVE  [RD!RDNext]_(RD!rdVars)
    BY <2>5 DEF Deliver, OnTxNakReceived, rxVars
  <2>6. TxSendNew \/ UNCHANGED RD!rdVars \/ \E p \in network : Deliver(p)
    BY <1>2 DEF Next, TxExpires, TxSendMissing, TxMissingRefused, TxWaits, RxTick, Lose,
                vars, txVars, rxVars
  <2>7. QED
    BY <2>2, <2>3, <2>4, <2>5, <2>6 DEF Deliver
<1>3. QED
  BY <1>1, <1>2, IndInvAlways, PTL DEF Spec, RefinesReliableDelivery, RD!RDSpec
==============================================================================
