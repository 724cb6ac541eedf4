------------------------------ MODULE UDTProofs ------------------------------
(***************************************************************************)
(* Theorems about the transfer of module UDT, for every value of the       *)
(* constants: type correctness, the window, prefix and gap invariants, and *)
(* the implementation of ReliableDelivery.                                 *)
(***************************************************************************)
EXTENDS UDT, UDTCCProofs, SequencePolicyProofs, FiniteSetTheorems

USE ConfigAssumption, CwndAssumption, SenderAssumption, ReceiverAssumption,
    LatencyAssumption, LossAssumption
------------------------------------------------------------------------------
(* The pipes. *)

\* Enqueue adds at most the given packets, each with a legal latency, and
\* stays within the loss bound.
LEMMA EnqueueEffect ==
  ASSUME NEW queue, NEW after, NEW packets, IsFiniteSet(packets),
         losses \in 0..MaxLoss, Enqueue(queue, after, packets)
  PROVE  /\ losses' \in 0..MaxLoss
         /\ \A q \in after :
              \/ q \in queue
              \/ \E p \in packets, d \in Latencies : q = [pkt |-> p, due |-> d]
<1>1. PICK dropped \in SUBSET packets :
        /\ losses + Cardinality(dropped) <= MaxLoss
        /\ losses' = losses + Cardinality(dropped)
        /\ after \in Enqueued(queue, packets \ dropped)
  BY DEF Enqueue
<1>2. Cardinality(dropped) \in Nat
  BY FS_Subset, FS_CardinalityType
<1>3. losses' \in 0..MaxLoss
  BY <1>1, <1>2
<1>4. PICK latency \in [packets \ dropped -> Latencies] :
        after = queue \cup {[pkt |-> p, due |-> latency[p]] : p \in packets \ dropped}
  BY <1>1 DEF Enqueued
<1>5. QED
  BY <1>3, <1>4

\* RxTick sends at most two packets.
LEMMA RxTickOutputFinite == IsFiniteSet(RxTickOutput)
<1>1. IsFiniteSet(IF AckNow THEN {AckPacket(rxHighestContig + 1)} ELSE {})
  BY FS_EmptySet, FS_Singleton
<1>2. IsFiniteSet(RxTickOutput)
  <2>1. CASE NakNow
    BY <1>1, <2>1, FS_AddElement DEF RxTickOutput
  <2>2. CASE ~NakNow
    BY <1>1, <2>2, FS_AddElement DEF RxTickOutput
  <2>3. QED
    BY <2>1, <2>2
<1>3. QED
  BY <1>2

\* Time passing keeps the packets and leaves each a legal latency, given that
\* none is due.
LEMMA TickPassesType ==
  ASSUME NEW packets, NEW queue \in SUBSET InTransit(packets), DuePackets(queue) = {}
  PROVE  TickPasses(queue) \subseteq InTransit(packets)
BY DEF InTransit, DuePackets, TickPasses, Latencies
------------------------------------------------------------------------------
(* Type correctness. *)

\* TypeOK is not inductive: that a packet to the receiver never becomes
\* overdue rests on ReceiverTick having waited for the pipe to empty.
TypeInv ==
  /\ TypeOK
  /\ phase = "ToSender" => DuePackets(fwd) = {}

LEMMA TypeInvInit == Init => TypeInv
<1> SUFFICES ASSUME Init PROVE TypeInv
  OBVIOUS
<1>1. NewUDTCC \in CCState
  BY DEF NewUDTCC, CCState, CwndRange
<1>2. TxTypeOK
  BY <1>1 DEF Init, TxInit, TxTypeOK, SeqNum
<1>3. RxTypeOK
  BY DEF Init, RxInit, RxTypeOK, SeqNum
<1>4. QED
  BY <1>2, <1>3 DEF Init, TypeOK, TypeInv

LEMMA TypeInvStep == TypeInv /\ [Next]_vars => TypeInv'
<1> SUFFICES ASSUME TypeInv, [Next]_vars PROVE TypeInv'
  OBVIOUS
<1> USE DEF TypeOK, TypeInv
<1>1. CASE SenderTick
  <2>1. ASSUME NEW seq \in SeqNum, Transmit(seq)
        PROVE  fwd' \subseteq InTransit(DataPackets) /\ losses' \in 0..MaxLoss
    <3>1. IsFiniteSet({[type |-> "DATA", seq |-> seq]})
      BY FS_Singleton
    <3>2. QED
      BY <2>1, <3>1, EnqueueEffect DEF Transmit, InTransit, DataPackets
  <2>2. TxQuietTick => TxTypeOK'
    <3>1. TxWaiting \/ TxPaced => TxTypeOK'
      BY DEF TxWaiting, TxPaced, txVars, TxTypeOK
    <3>2. ASSUME TxTimeout PROVE TxTypeOK'
      <4>1. cc' \in CCState
        BY <3>2, ControllerType DEF TxTimeout, TxTypeOK
      <4>2. txMissing' \in SUBSET SeqNum
        BY <3>2 DEF TxTimeout, MissingAfterExpiration, TxTypeOK
      <4>3. txPaceTimer' \in 0..MaxPacing
        BY <3>2 DEF TxTimeout, Pace
      <4>4. QED
        BY <3>2, <4>1, <4>2, <4>3 DEF TxTimeout, TxTypeOK
    <3>3. TxCongestionBlocked \/ TxNothingToSend => TxTypeOK'
      BY DEF TxCongestionBlocked, TxNothingToSend, EnterWait, TxTypeOK
    <3>4. QED
      BY <3>1, <3>2, <3>3 DEF TxQuietTick
  <2>3. ASSUME NEW seq \in txMissing, TxSendMissing(seq)
        PROVE  TxTypeOK' /\ seq \in SeqNum
    <3>1. seq \in SeqNum
      BY DEF TxTypeOK
    <3>2. (seq + 1) % TxMaxSeq \in SeqNum
      BY <3>1 DEF SeqNum
    <3>3. QED
      BY <2>3, <3>1, <3>2 DEF TxSendMissing, Pace, TxTypeOK
  <2>4. ASSUME TxSendNew(txNextSeq)
        PROVE  TxTypeOK' /\ txNextSeq \in SeqNum
    <3>1. txNextSeq \in SeqNum /\ txNextSeq + 1 \in 0..TxMaxSeq
      BY <2>4 DEF TxSendNew, CanSendNew, TxTypeOK, SeqNum
    <3>2. cc' \in CCState
      BY <2>4, ControllerType DEF TxSendNew, TxTypeOK
    <3>3. QED
      BY <2>4, <3>1, <3>2 DEF TxSendNew, Pace, EnterWait, TxTypeOK
  <2>5. QED
    BY <1>1, <2>1, <2>2, <2>3, <2>4 DEF SenderTick, rxVars, RxTypeOK
<1>2. ASSUME NEW q \in fwd, DeliverToReceiver(q)
      PROVE  TypeInv'
  <2>1. q.pkt.seq \in SeqNum
    BY DEF InTransit, DataPackets
  <2>2. OnRxDataReceived(q.pkt.seq) => RxTypeOK'
    <3>1. OnRxDataDuplicate(q.pkt.seq) => RxTypeOK'
      BY DEF OnRxDataDuplicate, RxTypeOK
    <3>2. ASSUME OnRxDataNew(q.pkt.seq) PROVE RxTypeOK'
      <4>1. rxReceived' \in SUBSET SeqNum /\ rxMissing' \in SUBSET SeqNum
        BY <2>1, <3>2 DEF OnRxDataNew, RxTypeOK, GapBelow
      <4>2. rxHighestContig' \in -1..(TxMaxSeq - 1)
        BY <3>2 DEF OnRxDataNew, AdvanceContig, RxTypeOK
      <4>3. rxNakTimer' \in 0..NakMaxInt /\ rxAckTimer' \in 0..AckInt
        BY <3>2 DEF OnRxDataNew, RxTypeOK
      <4>4. QED
        BY <4>1, <4>2, <4>3 DEF RxTypeOK
    <3>3. QED
      BY <3>1, <3>2 DEF OnRxDataReceived
  <2>3. QED
    BY <1>2, <2>2 DEF DeliverToReceiver, txVars, TxTypeOK
<1>3. CASE ReceiverTick
  <2>1. \A p \in RxTickOutput : p \in FeedbackPackets
    BY DEF RxTickOutput, AckNow, AckPacket, NakPacket, RxTypeOK, FeedbackPackets
  <2>2. rev' \subseteq InTransit(FeedbackPackets) /\ losses' \in 0..MaxLoss
    BY <1>3, <2>1, EnqueueEffect, RxTickOutputFinite DEF ReceiverTick, InTransit
  <2>3. RxTypeOK'
    BY <1>3 DEF ReceiverTick, RxTick, NakWindowIntervals, RxTypeOK
  <2>4. QED
    BY <1>3, <2>2, <2>3 DEF ReceiverTick, txVars, TxTypeOK
<1>4. ASSUME NEW q \in rev, DeliverToSender(q)
      PROVE  TypeInv'
  <2>1. q.pkt \in FeedbackPackets
    BY DEF InTransit
  <2>2. ASSUME q.pkt.type = "ACK", OnTxAckReceived(q.pkt.ackSeq)
        PROVE  TxTypeOK'
    <3>1. q.pkt.ackSeq \in 1..TxMaxSeq
      BY <2>1, <2>2 DEF FeedbackPackets
    <3>2. CASE OnTxAckIgnored(q.pkt.ackSeq)
      <4>1. cc \in CCState /\ q.pkt.ackSeq \in Nat /\ FALSE \in BOOLEAN
        BY <3>1 DEF TxTypeOK
      <4>2. OnAck(cc, q.pkt.ackSeq, FALSE) \in CCState
        BY <4>1, ControllerType, Zenon
      <4>3. cc' \in CCState
        BY <3>2, <4>1, <4>2 DEF OnTxAckIgnored
      <4>4. QED
        BY <3>2, <4>3 DEF OnTxAckIgnored, TxTypeOK
    <3>3. CASE OnTxAckAccepted(q.pkt.ackSeq)
      <4>1. cc' \in CCState
        BY <3>1, <3>3, ControllerType DEF OnTxAckAccepted, TxTypeOK
      <4>2. QED
        BY <3>1, <3>3, <4>1 DEF OnTxAckAccepted, TxTypeOK
    <3>4. QED
      BY <2>2, <3>2, <3>3 DEF OnTxAckReceived
  <2>3. ASSUME q.pkt.type = "NAK", OnTxNakReceived(q.pkt.missing)
        PROVE  TxTypeOK'
    <3>1. q.pkt.missing \in SUBSET SeqNum
      BY <2>1, <2>3 DEF FeedbackPackets
    <3>2. cc' \in CCState
      BY <2>3, ControllerType DEF OnTxNakReceived, TxTypeOK
    <3>3. QED
      BY <2>3, <3>1, <3>2 DEF OnTxNakReceived, Pace, TxTypeOK
  <2>4. QED
    BY <1>4, <2>2, <2>3 DEF DeliverToSender, rxVars, RxTypeOK
<1>5. CASE Stop
  BY <1>5 DEF Stop, txVars, rxVars, TxTypeOK, RxTypeOK
<1>6. CASE Advance
  <2>1. TxTypeOK' /\ RxTypeOK'
    BY <1>6 DEF Advance, TxTimePasses, RxTimePasses, TxTypeOK, RxTypeOK
  <2>2. /\ fwd' \subseteq InTransit(DataPackets)
        /\ rev' \subseteq InTransit(FeedbackPackets)
    <3>1. DuePackets(rev) = {} /\ fwd' = TickPasses(fwd) /\ rev' = TickPasses(rev)
      BY <1>6 DEF Advance
    <3>2. DuePackets(fwd) = {}
      BY <1>6 DEF Advance
    <3>3. QED
      BY <3>1, <3>2, TickPassesType
  <2>3. QED
    BY <1>6, <2>1, <2>2 DEF Advance
<1>7. CASE UNCHANGED vars
  BY <1>7 DEF vars, txVars, rxVars, TxTypeOK, RxTypeOK
<1>8. QED
  BY <1>1, <1>2, <1>3, <1>4, <1>5, <1>6, <1>7 DEF Next, Terminated

\* Every variable of the transfer keeps its type.
THEOREM TypeCorrect == Spec => []TypeOK
<1>1. TypeInv => TypeOK
  BY DEF TypeInv
<1>2. QED
  BY <1>1, TypeInvInit, TypeInvStep, PTL DEF Spec
------------------------------------------------------------------------------
(* The invariants of the transfer. *)

\* What the sender's own state satisfies.
SenderInv ==
  /\ txNextSeq <= DataCount
  /\ txLastAcked <= txNextSeq
  /\ InFlightWindow
  /\ cc.lastAckSeq = txLastAcked
  /\ cc.inFlight <= txNextSeq - txLastAcked

\* What the receiver's own state satisfies.
ReceiverInv == ContigIsPrefix /\ MissingAreGaps

\* What relates the two ends and the pipes.  NoFalseAck is not inductive: it
\* rests on no acknowledgement under way being ahead of the prefix.
LinkInv ==
  /\ txLastAcked <= ReceivedPacketCount
  /\ OnlySentIsNamed
  /\ phase = "Done" => TransferComplete

IndInv == TypeInv /\ SenderInv /\ ReceiverInv /\ LinkInv

LEMMA IndInvInit == Init => IndInv
<1> SUFFICES ASSUME Init PROVE IndInv
  OBVIOUS
<1>1. TypeInv
  BY TypeInvInit
<1>2. SenderInv
  BY DEF Init, TxInit, SenderInv, InFlightWindow, NewUDTCC
<1>3. ReceiverInv
  BY DEF Init, RxInit, ReceiverInv, ContigIsPrefix, MissingAreGaps
<1>4. LinkInv
  BY DEF Init, TxInit, RxInit, LinkInv, ReceivedPacketCount, OnlySentIsNamed
<1>5. QED
  BY <1>1, <1>2, <1>3, <1>4 DEF IndInv

\* The sender's tick keeps the window and the controller's count.
LEMMA SenderTickInv ==
  ASSUME IndInv, TxTypeOK', SenderTick
  PROVE  SenderInv' /\ txMissing' \subseteq 0..(txNextSeq' - 1)
<1> USE DEF IndInv, TypeInv, TypeOK, TxTypeOK, SenderInv, InFlightWindow
<1>1. txMissing \subseteq 0..(txNextSeq - 1)
  BY DEF LinkInv, OnlySentIsNamed
<1>2. CASE TxQuietTick
  <2>1. CASE TxTimeout
    <3>1. cc'.inFlight = 0 /\ cc'.lastAckSeq = cc.lastAckSeq
      BY <2>1, ControllerCount DEF TxTimeout
    <3>2. txMissing' \subseteq 0..(txNextSeq - 1)
      BY <1>1, <2>1 DEF TxTimeout, MissingAfterExpiration
    <3>3. QED
      BY <2>1, <3>1, <3>2 DEF TxTimeout
  <2>2. CASE ~TxTimeout
    <3>1. UNCHANGED <<txNextSeq, txLastAcked, txInFlight, txMissing, cc>>
      BY <1>2, <2>2 DEF TxQuietTick, TxWaiting, TxCongestionBlocked, TxPaced,
                        TxNothingToSend, txVars
    <3>2. QED
      BY <1>1, <3>1
  <2>3. QED
    BY <2>1, <2>2
<1>3. ASSUME NEW seq \in txMissing, TxSendMissing(seq)
      PROVE  SenderInv' /\ txMissing' \subseteq 0..(txNextSeq' - 1)
  BY <1>1, <1>3 DEF TxSendMissing
<1>4. CASE TxSendNew(txNextSeq)
  <2>1. /\ cc'.inFlight = cc.inFlight + 1
        /\ cc'.lastAckSeq = cc.lastAckSeq
    BY <1>4, ControllerCount DEF TxSendNew
  <2>2. txNextSeq' = txNextSeq + 1 /\ txNextSeq' <= DataCount
    BY <1>4 DEF TxSendNew, CanSendNew, BuildData
  <2>3. txInFlight' = txLastAcked'..(txNextSeq' - 1)
    BY <1>4, <2>2 DEF TxSendNew
  <2>4. QED
    BY <1>4, <2>1, <2>2, <2>3 DEF TxSendNew, CCState
<1>5. QED
  BY <1>2, <1>3, <1>4 DEF SenderTick

\* Feedback keeps them too, given that an acknowledgement is not ahead of the
\* receiver and a report names only numbers that were sent.
LEMMA FeedbackInv ==
  ASSUME IndInv, TxTypeOK', NEW q \in rev, DeliverToSender(q)
  PROVE  /\ SenderInv'
         /\ txLastAcked' <= ReceivedPacketCount
         /\ txNextSeq' = txNextSeq
         /\ txMissing' \subseteq 0..(txNextSeq - 1)
<1> USE DEF IndInv, TypeInv, TypeOK, TxTypeOK, SenderInv, InFlightWindow
<1>1. txMissing \subseteq 0..(txNextSeq - 1)
  BY DEF LinkInv, OnlySentIsNamed
<1>2. q.pkt \in FeedbackPackets
  BY DEF InTransit
<1>3. ASSUME q.pkt.type = "ACK", OnTxAckReceived(q.pkt.ackSeq)
      PROVE  /\ SenderInv'
             /\ txLastAcked' <= ReceivedPacketCount
             /\ txNextSeq' = txNextSeq
             /\ txMissing' \subseteq 0..(txNextSeq - 1)
  <2> DEFINE ackSeq == q.pkt.ackSeq
  <2>1. ackSeq \in Nat /\ ackSeq <= ReceivedPacketCount
    BY <1>2, <1>3 DEF FeedbackPackets, LinkInv, OnlySentIsNamed
  <2> HIDE DEF ackSeq
  <2>2. CASE OnTxAckIgnored(ackSeq)
    <3>1. ackSeq <= txLastAcked => OnAck(cc, ackSeq, FALSE) = cc
      BY <2>1, ControllerCount
    <3>2. cc' = cc
      <4>1. CASE ackSeq > txNextSeq
        BY <2>2, <4>1 DEF OnTxAckIgnored
      <4>2. CASE ~(ackSeq > txNextSeq)
        <5>1. ackSeq <= txLastAcked
          BY <2>1, <2>2, <4>2 DEF OnTxAckIgnored, IsNewAck
        <5>2. cc' = OnAck(cc, ackSeq, FALSE)
          BY <2>2, <4>2 DEF OnTxAckIgnored
        <5>3. QED
          BY <3>1, <5>1, <5>2
      <4>3. QED
        BY <4>1, <4>2
    <3>3. QED
      BY <1>1, <2>2, <3>2 DEF OnTxAckIgnored, LinkInv
  <2>3. CASE OnTxAckAccepted(ackSeq)
    <3>1. txLastAcked < ackSeq /\ ackSeq <= txNextSeq
      BY <2>3 DEF OnTxAckAccepted, IsNewAck
    <3>2. PICK rcOpen \in BOOLEAN : cc' = OnAck(cc, ackSeq, rcOpen)
      BY <2>3 DEF OnTxAckAccepted
    <3>3. /\ cc'.lastAckSeq = ackSeq
          /\ cc'.inFlight = IF ackSeq - cc.lastAckSeq >= cc.inFlight
                            THEN 0 ELSE cc.inFlight - (ackSeq - cc.lastAckSeq)
      BY <2>1, <3>1, <3>2, ControllerCount
    <3>4. cc'.inFlight <= txNextSeq - ackSeq
      <4>1. cc.inFlight \in Nat /\ cc.inFlight <= txNextSeq - cc.lastAckSeq
        BY DEF CCState
      <4>2. cc.lastAckSeq \in Nat
        BY DEF CCState
      <4>3. QED
        BY <2>1, <3>1, <3>3, <4>1, <4>2
    <3>5. txInFlight' = ackSeq..(txNextSeq - 1)
      BY <2>1, <2>3, <3>1 DEF OnTxAckAccepted, AckedRange
    <3>6. QED
      BY <1>1, <2>1, <2>3, <3>1, <3>3, <3>4, <3>5 DEF OnTxAckAccepted
  <2>4. QED
    BY <1>3, <2>2, <2>3 DEF OnTxAckReceived, ackSeq
<1>4. ASSUME q.pkt.type = "NAK", OnTxNakReceived(q.pkt.missing)
      PROVE  /\ SenderInv'
             /\ txLastAcked' <= ReceivedPacketCount
             /\ txNextSeq' = txNextSeq
             /\ txMissing' \subseteq 0..(txNextSeq - 1)
  <2>1. q.pkt.missing \subseteq 0..(txNextSeq - 1)
    BY <1>4 DEF LinkInv, OnlySentIsNamed
  <2>2. cc'.inFlight = cc.inFlight /\ cc'.lastAckSeq = cc.lastAckSeq
    BY <1>4, ControllerCount DEF OnTxNakReceived
  <2>3. QED
    BY <1>1, <1>4, <2>1, <2>2 DEF OnTxNakReceived, LinkInv
<1>5. QED
  BY <1>3, <1>4 DEF DeliverToSender

\* Data keeps the prefix and the gaps, and never shortens the prefix.
LEMMA DataInv ==
  ASSUME RxTypeOK, RxTypeOK', ReceiverInv, NEW seq \in SeqNum, OnRxDataReceived(seq)
  PROVE  /\ ReceiverInv'
         /\ rxHighestContig' >= rxHighestContig
         /\ rxReceived' \subseteq rxReceived \cup {seq}
         /\ rxMissing' \subseteq rxMissing \cup 0..(seq - 1)
<1> USE DEF RxTypeOK, ReceiverInv, ContigIsPrefix, MissingAreGaps, SeqNum
<1>1. CASE OnRxDataDuplicate(seq)
  <2>1. rxMissing' = rxMissing
    BY <1>1 DEF OnRxDataDuplicate
  <2>2. QED
    BY <1>1, <2>1 DEF OnRxDataDuplicate
<1>2. CASE OnRxDataNew(seq)
  <2>1. rxReceived' = rxReceived \cup {seq}
    BY <1>2 DEF OnRxDataNew
  <2>2. PICK last \in rxHighestContig..(TxMaxSeq - 1) :
          /\ (rxHighestContig + 1)..last \subseteq rxReceived'
          /\ last + 1 \notin rxReceived'
          /\ rxHighestContig' = last
    BY <1>2 DEF OnRxDataNew, AdvanceContig
  <2>3. ContigIsPrefix'
    BY <2>1, <2>2
  <2>4. rxMissing' = {s \in SeqNum : /\ s \notin rxReceived /\ s # seq
                                     /\ \/ \E r \in rxReceived : s < r
                                        \/ rxHighestContig < s /\ s < seq}
    BY <1>2, <2>1 DEF OnRxDataNew, GapBelow
  <2>5. ASSUME NEW s \in SeqNum, s \notin rxReceived, s < seq
        PROVE  rxHighestContig < s
    BY <2>5
  <2>6. MissingAreGaps'
    BY <2>1, <2>4, <2>5
  <2>7. QED
    BY <1>2, <2>1, <2>2, <2>3, <2>4, <2>6
<1>3. QED
  BY <1>1, <1>2 DEF OnRxDataReceived

\* The packets SenderTick adds to the forward pipe were sent.
LEMMA TransmittedWasSent ==
  ASSUME losses \in 0..MaxLoss, NEW seq, Transmit(seq)
  PROVE  \A q \in fwd' : q \in fwd \/ q.pkt.seq = seq
<1>1. IsFiniteSet({[type |-> "DATA", seq |-> seq]})
  BY FS_Singleton
<1>2. QED
  BY <1>1, EnqueueEffect DEF Transmit

LEMMA IndInvStep == IndInv /\ [Next]_vars => IndInv'
<1> SUFFICES ASSUME IndInv, [Next]_vars PROVE IndInv'
  OBVIOUS
<1> USE DEF IndInv
<1>1. TypeInv'
  BY TypeInvStep
<1>2. TxTypeOK /\ TxTypeOK' /\ RxTypeOK /\ RxTypeOK' /\ losses \in 0..MaxLoss
  BY <1>1 DEF TypeInv, TypeOK
<1>3. CASE SenderTick
  <2>1. SenderInv' /\ txMissing' \subseteq 0..(txNextSeq' - 1)
    BY <1>2, <1>3, SenderTickInv
  <2>2. ReceiverInv' /\ ReceivedPacketCount' = ReceivedPacketCount
    BY <1>3 DEF SenderTick, rxVars, ReceiverInv, ContigIsPrefix, MissingAreGaps,
                ReceivedPacketCount
  <2>3. txNextSeq \in Nat /\ txNextSeq' \in Nat /\ txNextSeq' >= txNextSeq
        /\ txLastAcked' = txLastAcked
    BY <1>2, <1>3 DEF SenderTick, TxQuietTick, TxWaiting, TxTimeout, TxCongestionBlocked,
                      TxPaced, TxNothingToSend, TxSendMissing, TxSendNew, txVars, TxTypeOK
  <2>4. \A q \in fwd' : q.pkt.seq < txNextSeq'
    <3>1. \A q \in fwd : q.pkt.seq \in Nat /\ q.pkt.seq < txNextSeq
      BY DEF LinkInv, OnlySentIsNamed, TypeInv, TypeOK, InTransit, DataPackets, SeqNum
    <3>2. CASE TxQuietTick /\ UNCHANGED <<fwd, losses>>
      BY <2>3, <3>1, <3>2
    <3>3. ASSUME NEW seq \in txMissing, TxSendMissing(seq), Transmit(seq)
          PROVE  \A q \in fwd' : q.pkt.seq < txNextSeq'
      <4>1. seq \in Nat /\ seq < txNextSeq
        BY <1>2 DEF LinkInv, OnlySentIsNamed, TxTypeOK
      <4>2. \A q \in fwd' : q \in fwd \/ q.pkt.seq = seq
        BY <1>2, <3>3, TransmittedWasSent
      <4>3. QED
        BY <2>3, <3>1, <4>1, <4>2
    <3>4. CASE TxSendNew(txNextSeq) /\ Transmit(txNextSeq)
      <4>1. \A q \in fwd' : q \in fwd \/ q.pkt.seq = txNextSeq
        BY <1>2, <3>4, TransmittedWasSent
      <4>2. txNextSeq' = txNextSeq + 1
        BY <3>4 DEF TxSendNew
      <4>3. QED
        BY <2>3, <3>1, <4>1, <4>2
    <3>5. QED
      BY <1>3, <3>2, <3>3, <3>4 DEF SenderTick
  <2>5. \A q \in rev : q.pkt.type = "NAK" => q.pkt.missing \subseteq 0..(txNextSeq' - 1)
    BY <2>3 DEF LinkInv, OnlySentIsNamed
  <2>6. rxReceived \cup rxMissing \subseteq 0..(txNextSeq' - 1)
    BY <2>3 DEF LinkInv, OnlySentIsNamed
  <2>7. LinkInv'
    BY <1>3, <2>1, <2>2, <2>3, <2>4, <2>5, <2>6
    DEF SenderTick, LinkInv, OnlySentIsNamed, rxVars
  <2>8. QED
    BY <1>1, <2>1, <2>2, <2>7
<1>4. ASSUME NEW q \in fwd, DeliverToReceiver(q)
      PROVE  IndInv'
  <2>1. q.pkt.seq \in SeqNum /\ q.pkt.seq < txNextSeq
    BY DEF TypeInv, TypeOK, InTransit, DataPackets, LinkInv, OnlySentIsNamed
  <2>2. /\ ReceiverInv'
        /\ rxHighestContig' >= rxHighestContig
        /\ rxReceived' \subseteq rxReceived \cup {q.pkt.seq}
        /\ rxMissing' \subseteq rxMissing \cup 0..(q.pkt.seq - 1)
    BY <1>2, <1>4, <2>1, DataInv DEF DeliverToReceiver
  <2>3. SenderInv'
    BY <1>4 DEF DeliverToReceiver, txVars, SenderInv, InFlightWindow
  <2>4. rxReceived' \cup rxMissing' \subseteq 0..(txNextSeq - 1)
    BY <1>2, <2>1, <2>2 DEF LinkInv, OnlySentIsNamed, SeqNum, TxTypeOK
  <2>5. \A r \in rev : r.pkt.type = "ACK" => r.pkt.ackSeq <= rxHighestContig' + 1
    <3>1. \A r \in rev : r.pkt.type = "ACK" => r.pkt.ackSeq \in Nat
      BY DEF TypeInv, TypeOK, InTransit, FeedbackPackets
    <3>2. QED
      BY <1>2, <2>2, <3>1 DEF LinkInv, OnlySentIsNamed, ReceivedPacketCount, RxTypeOK
  <2>6. txLastAcked <= rxHighestContig' + 1
    BY <1>2, <2>2 DEF LinkInv, ReceivedPacketCount, TxTypeOK, RxTypeOK
  <2>7. LinkInv'
    BY <1>4, <2>4, <2>5, <2>6
    DEF DeliverToReceiver, txVars, LinkInv, OnlySentIsNamed, ReceivedPacketCount
  <2>8. QED
    BY <1>1, <2>2, <2>3, <2>7
<1>5. CASE ReceiverTick
  <2>1. SenderInv' /\ ReceiverInv'
    BY <1>5 DEF ReceiverTick, RxTick, txVars, SenderInv, InFlightWindow, ReceiverInv,
                ContigIsPrefix, MissingAreGaps
  <2>2. ASSUME NEW q \in rev'
        PROVE  /\ q.pkt.type = "ACK" => q.pkt.ackSeq <= ReceivedPacketCount
               /\ q.pkt.type = "NAK" => q.pkt.missing \subseteq 0..(txNextSeq - 1)
    <3>1. q \in rev \/ \E p \in RxTickOutput : q.pkt = p
      BY <1>2, <1>5, EnqueueEffect, RxTickOutputFinite DEF ReceiverTick
    <3>2. CASE q \in rev
      BY <3>2 DEF LinkInv, OnlySentIsNamed
    <3>3. CASE q.pkt = AckPacket(rxHighestContig + 1)
      BY <1>2, <3>3 DEF AckPacket, ReceivedPacketCount, RxTypeOK
    <3>4. CASE q.pkt = NakPacket(rxMissing)
      BY <3>4 DEF NakPacket, LinkInv, OnlySentIsNamed
    <3>5. QED
      BY <3>1, <3>2, <3>3, <3>4 DEF RxTickOutput
  <2>3. LinkInv'
    BY <1>5, <2>2
    DEF ReceiverTick, RxTick, txVars, LinkInv, OnlySentIsNamed, ReceivedPacketCount
  <2>4. QED
    BY <1>1, <2>1, <2>3
<1>6. ASSUME NEW q \in rev, DeliverToSender(q)
      PROVE  IndInv'
  <2>1. /\ SenderInv'
        /\ txLastAcked' <= ReceivedPacketCount
        /\ txNextSeq' = txNextSeq
        /\ txMissing' \subseteq 0..(txNextSeq - 1)
    BY <1>2, <1>6, FeedbackInv
  <2>2. ReceiverInv'
    BY <1>6 DEF DeliverToSender, rxVars, ReceiverInv, ContigIsPrefix, MissingAreGaps
  <2>3. LinkInv'
    BY <1>6, <2>1
    DEF DeliverToSender, rxVars, LinkInv, OnlySentIsNamed, ReceivedPacketCount
  <2>4. QED
    BY <1>1, <2>1, <2>2, <2>3
<1>7. CASE Stop \/ UNCHANGED vars
  <2>1. UNCHANGED <<txVars, rxVars, fwd, rev, losses>>
    BY <1>7 DEF Stop, vars
  <2>2. SenderInv' /\ ReceiverInv' /\ OnlySentIsNamed'
    BY <2>1 DEF txVars, rxVars, SenderInv, InFlightWindow, ReceiverInv, ContigIsPrefix,
                MissingAreGaps, LinkInv, OnlySentIsNamed, ReceivedPacketCount
  <2>3. LinkInv'
    BY <1>7, <2>1, <2>2 DEF Stop, vars, txVars, rxVars, LinkInv, ReceivedPacketCount,
                            AckedPacketCount, TransferComplete
  <2>4. QED
    BY <1>1, <2>2, <2>3
<1>8. CASE Advance
  <2>1. /\ UNCHANGED <<txNextSeq, txLastAcked, txInFlight, txMissing, cc>>
        /\ UNCHANGED <<rxReceived, rxMissing, rxHighestContig>>
        /\ phase' = "TxTick"
    BY <1>8 DEF Advance, TxTimePasses, RxTimePasses
  <2>2. /\ \A q \in fwd' : \E r \in fwd : q.pkt = r.pkt
        /\ \A q \in rev' : \E r \in rev : q.pkt = r.pkt
    BY <1>8 DEF Advance, TickPasses, TypeInv, TypeOK, InTransit
  <2>3. SenderInv' /\ ReceiverInv'
    BY <2>1 DEF SenderInv, InFlightWindow, ReceiverInv, ContigIsPrefix, MissingAreGaps
  <2>4. LinkInv'
    BY <2>1, <2>2 DEF LinkInv, OnlySentIsNamed, ReceivedPacketCount
  <2>5. QED
    BY <1>1, <2>3, <2>4
<1>9. QED
  BY <1>3, <1>4, <1>5, <1>6, <1>7, <1>8 DEF Next, Terminated

LEMMA IndInvAlways == Spec => []IndInv
BY IndInvInit, IndInvStep, PTL DEF Spec
------------------------------------------------------------------------------
(* The theorems. *)

\* Feedback in any order, repeated or stale, never makes the sender lose or
\* regain an outstanding number.
THEOREM WindowIsExact == Spec => []InFlightWindow
<1>1. IndInv => InFlightWindow
  BY DEF IndInv, SenderInv
<1>2. QED
  BY <1>1, IndInvAlways, PTL

\* The cumulative acknowledgement never covers a packet the receiver lacks.
THEOREM AcknowledgedIsReceived == Spec => []NoFalseAck
<1>1. IndInv => NoFalseAck
  BY DEF IndInv, TypeInv, TypeOK, TxTypeOK, RxTypeOK, ReceiverInv, ContigIsPrefix,
         LinkInv, ReceivedPacketCount, NoFalseAck
<1>2. QED
  BY <1>1, IndInvAlways, PTL

\* The receiver's counter is the length of the received prefix.
THEOREM PrefixIsExact == Spec => []ContigIsPrefix
<1>1. IndInv => ContigIsPrefix
  BY DEF IndInv, ReceiverInv
<1>2. QED
  BY <1>1, IndInvAlways, PTL

\* The receiver's missing map is the set of holes below what it received.
THEOREM GapsAreExact == Spec => []MissingAreGaps
<1>1. IndInv => MissingAreGaps
  BY DEF IndInv, ReceiverInv
<1>2. QED
  BY <1>1, IndInvAlways, PTL

\* The number outstanding is the width of the window.
LEMMA WindowWidth ==
  ASSUME IndInv
  PROVE  /\ txNextSeq - txLastAcked \in Nat
         /\ Cardinality(txInFlight) = txNextSeq - txLastAcked
<1>1. txLastAcked \in Nat /\ txNextSeq \in Nat /\ txLastAcked <= txNextSeq
  BY DEF IndInv, TypeInv, TypeOK, TxTypeOK, SenderInv
<1>2. CASE txLastAcked = txNextSeq
  BY <1>1, <1>2, FS_Interval DEF IndInv, SenderInv, InFlightWindow
<1>3. CASE txLastAcked < txNextSeq
  BY <1>1, <1>3, FS_Interval DEF IndInv, SenderInv, InFlightWindow
<1>4. QED
  BY <1>1, <1>2, <1>3

\* The controller counts no more than what is outstanding.
THEOREM CongestionCountBounded == Spec => []CongestionCount
<1>1. IndInv => CongestionCount
  BY WindowWidth DEF IndInv, SenderInv, CongestionCount
<1>2. QED
  BY <1>1, IndInvAlways, PTL

\* Retransmissions, expirations and a window that changes under way never bring
\* more than the larger flow window outstanding.
THEOREM OutstandingStaysBounded == Spec => []OutstandingIsBounded
<1>1. Init => OutstandingIsBounded
  BY FS_EmptySet DEF Init, TxInit, OutstandingIsBounded
<1>2. ASSUME IndInv, IndInv', OutstandingIsBounded, [Next]_vars
      PROVE  OutstandingIsBounded'
  <2>1. PICK before \in Nat : before = Cardinality(txInFlight)
    BY <1>2, WindowWidth
  <2>2. PICK after \in Nat : after = Cardinality(txInFlight')
    <3>1. IsFiniteSet(txInFlight')
      <4>1. (txLastAcked \in Int /\ txNextSeq \in Int)'
        BY <1>2 DEF IndInv, TypeInv, TypeOK, TxTypeOK
      <4>2. txInFlight' = txLastAcked'..(txNextSeq' - 1)
        BY <1>2 DEF IndInv, SenderInv, InFlightWindow
      <4>3. QED
        BY <4>1, <4>2, FS_Interval
    <3>2. QED
      BY <3>1, FS_CardinalityType
  <2>3. IsFiniteSet(txInFlight)
    <3>1. txLastAcked \in Int /\ txNextSeq \in Int
      BY <1>2 DEF IndInv, TypeInv, TypeOK, TxTypeOK
    <3>2. QED
      BY <1>2, <3>1, FS_Interval DEF IndInv, SenderInv, InFlightWindow
  <2>4. ASSUME txInFlight' \subseteq txInFlight
        PROVE  OutstandingIsBounded'
    <3>1. after <= before
      BY <2>1, <2>2, <2>3, <2>4, FS_Subset
    <3>2. QED
      BY <1>2, <2>1, <2>2, <3>1 DEF OutstandingIsBounded
  <2>5. ASSUME TxSendNew(txNextSeq)
        PROVE  OutstandingIsBounded'
    <3>1. after <= before + 1
      <4>1. txInFlight' = txInFlight \cup {txNextSeq}
        BY <2>5 DEF TxSendNew
      <4>2. \/ Cardinality(txInFlight \cup {txNextSeq}) = before
            \/ Cardinality(txInFlight \cup {txNextSeq}) = before + 1
        BY <2>1, <2>3, FS_AddElement
      <4>3. after = before \/ after = before + 1
        BY <2>2, <4>1, <4>2
      <4>4. QED
        BY <4>3
    <3>2. before < txFlowWindow
      BY <2>1, <2>5 DEF TxSendNew, CanSendNew
    <3>3. txFlowWindow \in {TxInitialFlowWindow, RxInitialFlowWindow}
      BY <1>2 DEF IndInv, TypeInv, TypeOK, TxTypeOK
    <3>4. after <= TxInitialFlowWindow \/ after <= RxInitialFlowWindow
      BY <3>1, <3>2, <3>3
    <3>5. QED
      BY <2>2, <3>4 DEF OutstandingIsBounded
  <2>6. txInFlight' \subseteq txInFlight \/ TxSendNew(txNextSeq)
    <3>1. SenderTick => txInFlight' = txInFlight \/ TxSendNew(txNextSeq)
      BY DEF SenderTick, TxQuietTick, TxWaiting, TxTimeout, TxCongestionBlocked, TxPaced,
             TxNothingToSend, TxSendMissing, txVars
    <3>2. ASSUME NEW q \in rev, DeliverToSender(q)
          PROVE  txInFlight' \subseteq txInFlight
      BY <3>2 DEF DeliverToSender, OnTxAckReceived, OnTxAckIgnored, OnTxAckAccepted,
                  OnTxNakReceived
    <3>3. ASSUME NEW q \in fwd, DeliverToReceiver(q)
          PROVE  txInFlight' = txInFlight
      BY <3>3 DEF DeliverToReceiver, txVars
    <3>4. ReceiverTick \/ Stop \/ Advance \/ UNCHANGED vars => txInFlight' = txInFlight
      BY DEF ReceiverTick, Stop, Advance, TxTimePasses, vars, txVars
    <3>5. QED
      BY <1>2, <3>1, <3>2, <3>3, <3>4 DEF Next, Terminated
  <2>7. QED
    BY <2>4, <2>5, <2>6
<1>3. QED
  BY <1>1, <1>2, IndInvAlways, PTL DEF Spec

\* The accounts of the sender, its controller and the flow windows agree.
THEOREM AccountsAlwaysAgree == Spec => []AccountsAgree
<1>1. InFlightWindow /\ CongestionCount /\ OutstandingIsBounded => AccountsAgree
  BY DEF AccountsAgree
<1>2. QED
  BY <1>1, WindowIsExact, CongestionCountBounded, OutstandingStaysBounded, PTL

\* The receiver's prefix and its missing map are exact together.
THEOREM ReceiverStaysExact == Spec => []ReceiverIsExact
<1>1. ContigIsPrefix /\ MissingAreGaps => ReceiverIsExact
  BY DEF ReceiverIsExact
<1>2. QED
  BY <1>1, PrefixIsExact, GapsAreExact, PTL

\* No map and no packet names a number that was not sent.
THEOREM NamesAreSent == Spec => []OnlySentIsNamed
<1>1. IndInv => OnlySentIsNamed
  BY DEF IndInv, LinkInv
<1>2. QED
  BY <1>1, IndInvAlways, PTL

\* When the simulator stops, everything is delivered and nothing outstanding.
THEOREM DoneIsDelivered == Spec => []CompleteMeansDelivered
<1>1. IndInv => CompleteMeansDelivered
  <2> SUFFICES ASSUME IndInv, phase = "Done"
               PROVE  /\ rxReceived = 0..(DataCount - 1)
                      /\ rxMissing = {}
                      /\ txInFlight = {}
    BY DEF CompleteMeansDelivered
  <2>1. txLastAcked = DataCount /\ txNextSeq = DataCount /\ rxHighestContig + 1 >= DataCount
    BY DEF IndInv, TypeInv, TypeOK, TxTypeOK, SenderInv, LinkInv, TransferComplete,
           AckedPacketCount, ReceivedPacketCount
  <2>2. txInFlight = {}
    BY <2>1 DEF IndInv, SenderInv, InFlightWindow
  <2>3. rxReceived = 0..(DataCount - 1)
    <3>1. 0..rxHighestContig \subseteq rxReceived /\ rxReceived \subseteq 0..(DataCount - 1)
      BY <2>1 DEF IndInv, ReceiverInv, ContigIsPrefix, LinkInv, OnlySentIsNamed
    <3>2. rxHighestContig \in Int
      BY DEF IndInv, TypeInv, TypeOK, RxTypeOK
    <3>3. 0..(DataCount - 1) \subseteq 0..rxHighestContig
      BY <2>1, <3>2
    <3>4. QED
      BY <3>1, <3>3
  <2>4. rxMissing = {}
    BY <2>3 DEF IndInv, ReceiverInv, MissingAreGaps, SeqNum
  <2>5. QED
    BY <2>2, <2>3, <2>4
<1>2. QED
  BY <1>1, IndInvAlways, PTL

\* Data received before changes nothing at the receiver.
THEOREM DuplicatesAreIdempotent == Spec => DuplicateIsIdempotent
<1>1. ASSUME IndInv, [Next]_vars, NEW q \in fwd \ fwd', phase = "RxTick",
             q.pkt.seq \in rxReceived
      PROVE  UNCHANGED rxVars
  <2>1. DeliverToReceiver(q)
    BY <1>1 DEF Next, SenderTick, DeliverToReceiver, ReceiverTick, DeliverToSender, Stop,
                Advance, Terminated, vars
  <2>2. OnRxDataDuplicate(q.pkt.seq)
    BY <1>1, <2>1 DEF DeliverToReceiver, OnRxDataReceived, OnRxDataNew
  <2>3. rxMissing' = rxMissing
    BY <1>1, <2>2 DEF OnRxDataDuplicate, IndInv, ReceiverInv, MissingAreGaps
  <2>4. QED
    BY <2>2, <2>3 DEF OnRxDataDuplicate, rxVars
<1>2. IndInv /\ [Next]_vars =>
        [\A q \in fwd \ fwd' :
           phase = "RxTick" /\ q.pkt.seq \in rxReceived => UNCHANGED rxVars]_vars
  BY <1>1
<1>3. QED
  BY <1>2, IndInvAlways, PTL DEF Spec, DuplicateIsIdempotent

\* A sender that waits has nothing it may send: a full or closed window puts it
\* to sleep, and whatever changes budget, room or the missing map wakes it.
LEMMA WakeupStep == NoLostWakeup /\ [Next]_vars => NoLostWakeup'
<1> SUFFICES ASSUME NoLostWakeup, [Next]_vars PROVE NoLostWakeup'
  OBVIOUS
<1>1. ASSUME UNCHANGED <<txState, txMissing, txNextSeq, txInFlight, txFlowWindow, cc>>
      PROVE  NoLostWakeup'
  BY <1>1 DEF NoLostWakeup, CanSendNew
<1>2. ASSUME txState' = "ACTIVE"
      PROVE  NoLostWakeup'
  BY <1>2 DEF NoLostWakeup
<1>3. CASE SenderTick
  <2>1. CASE TxWaiting \/ TxPaced
    BY <1>1, <2>1 DEF TxWaiting, TxPaced, txVars
  <2>2. CASE TxTimeout
    BY <1>2, <2>2 DEF TxTimeout
  <2>3. CASE TxCongestionBlocked
    BY <2>3 DEF TxCongestionBlocked, NoLostWakeup
  <2>4. CASE TxNothingToSend
    BY <2>4 DEF TxNothingToSend, NoLostWakeup, CanSendNew
  <2>5. ASSUME NEW seq \in txMissing, TxSendMissing(seq)
        PROVE  NoLostWakeup'
    BY <1>2, <2>5 DEF TxSendMissing, TxMaySend
  <2>6. CASE TxSendNew(txNextSeq)
    <3>1. CASE BudgetBeforeCongestion(cc') = 0
      BY <3>1 DEF NoLostWakeup
    <3>2. CASE BudgetBeforeCongestion(cc') # 0
      BY <1>2, <2>6, <3>2 DEF TxSendNew, TxMaySend
    <3>3. QED
      BY <3>1, <3>2
  <2>7. QED
    BY <1>3, <2>1, <2>2, <2>3, <2>4, <2>5, <2>6 DEF SenderTick, TxQuietTick
<1>4. ASSUME NEW q \in rev, DeliverToSender(q)
      PROVE  NoLostWakeup'
  BY <1>2, <1>4 DEF DeliverToSender, OnTxAckReceived, OnTxAckIgnored, OnTxAckAccepted,
                    OnTxNakReceived
<1>5. ASSUME NEW q \in fwd, DeliverToReceiver(q)
      PROVE  NoLostWakeup'
  BY <1>1, <1>5 DEF DeliverToReceiver, txVars
<1>6. CASE ReceiverTick \/ Stop \/ Advance \/ UNCHANGED vars
  BY <1>1, <1>6 DEF ReceiverTick, Stop, Advance, TxTimePasses, vars, txVars
<1>7. QED
  BY <1>3, <1>4, <1>5, <1>6 DEF Next, Terminated

\* No wake-up is lost.
THEOREM WaitsForNothingLost == Spec => []NoLostWakeup
<1>1. Init => NoLostWakeup
  BY DEF Init, TxInit, NoLostWakeup
<1>2. QED
  BY <1>1, WakeupStep, PTL DEF Spec

\* Only a tick of the sender takes a number out of the missing map to send it,
\* and the number is the round-robin pick.
LEMMA PickedByTick ==
  ASSUME [Next]_vars, phase = "TxTick", ~(txMissing \subseteq txMissing')
  PROVE  \E seq \in txMissing : TxSendMissing(seq)
<1>1. SenderTick
  BY DEF Next, DeliverToReceiver, ReceiverTick, DeliverToSender, Stop, Advance,
         Terminated, vars, txVars
<1>2. ~TxQuietTick
  BY DEF TxQuietTick, TxWaiting, TxTimeout, MissingAfterExpiration, TxCongestionBlocked,
         TxPaced, TxNothingToSend, txVars
<1>3. ~TxSendNew(txNextSeq)
  BY DEF TxSendNew
<1>4. QED
  BY <1>1, <1>2, <1>3 DEF SenderTick

\* No retransmission overtakes a number that waits.
THEOREM RetransmissionIsFair == Spec => NoOvertaking
<1>1. ASSUME TypeInv, [Next]_vars, phase = "TxTick", ~(txMissing \subseteq txMissing'),
             NEW s \in txMissing'
      PROVE  RoundRobinDistance(txMissingCursor', s, TxMaxSeq)
               < RoundRobinDistance(txMissingCursor, s, TxMaxSeq)
  <2>1. PICK seq \in txMissing : TxSendMissing(seq)
    BY <1>1, PickedByTick
  <2>2. /\ txMissing \in SUBSET (0..(TxMaxSeq - 1))
        /\ txMissingCursor \in 0..(TxMaxSeq - 1)
    BY <1>1 DEF TypeInv, TypeOK, TxTypeOK, SeqNum
  <2>3. /\ IsNextSetFrom(txMissing, txMissingCursor, seq)
        /\ txMissingCursor' = (seq + 1) % TxMaxSeq
        /\ s \in txMissing /\ s # seq
    BY <1>1, <2>1 DEF TxSendMissing
  <2>4. QED
    BY <2>2, <2>3, RoundRobinProgress
<1>2. TypeInv /\ [Next]_vars =>
        [phase = "TxTick" /\ ~(txMissing \subseteq txMissing') =>
           \A s \in txMissing' :
             RoundRobinDistance(txMissingCursor', s, TxMaxSeq)
               < RoundRobinDistance(txMissingCursor, s, TxMaxSeq)]_vars
  BY <1>1
<1>3. QED
  BY <1>2, TypeInvInit, TypeInvStep, PTL DEF Spec, NoOvertaking

\* The transfer implements ReliableDelivery: each step is a step of the
\* abstract transfer or leaves its three prefixes alone.
THEOREM ImplementsReliableDelivery == Spec => RefinesReliableDelivery
<1> USE DEF AckedPacketCount, ReceivedPacketCount
<1>1. Init => RD!RDInit
  BY DEF Init, TxInit, RxInit, RD!RDInit
<1>2. ASSUME IndInv, IndInv', [Next]_vars
      PROVE  [RD!RDNext]_(RD!rdVars)
  <2> USE DEF RD!rdVars
  <2>1. /\ txNextSeq \in Nat /\ txLastAcked \in Nat
        /\ txNextSeq' \in Nat /\ txLastAcked' \in Nat
        /\ rxHighestContig \in Int /\ rxHighestContig >= -1
        /\ rxHighestContig' \in Int /\ rxHighestContig' >= -1
    <3>1. TxTypeOK /\ RxTypeOK /\ TxTypeOK' /\ RxTypeOK'
      BY <1>2 DEF IndInv, TypeInv, TypeOK
    <3>2. QED
      BY <3>1 DEF TxTypeOK, RxTypeOK
  <2>2. CASE SenderTick
    <3>1. UNCHANGED <<txLastAcked, rxHighestContig>>
      BY <2>2 DEF SenderTick, TxQuietTick, TxWaiting, TxTimeout, TxCongestionBlocked,
                  TxPaced, TxNothingToSend, TxSendMissing, TxSendNew, txVars, rxVars
    <3>2. \/ txNextSeq' = txNextSeq
          \/ txNextSeq' = txNextSeq + 1 /\ txNextSeq < DataCount
      BY <2>2 DEF SenderTick, TxQuietTick, TxWaiting, TxTimeout, TxCongestionBlocked,
                  TxPaced, TxNothingToSend, TxSendMissing, TxSendNew, txVars,
                  CanSendNew, BuildData
    <3>3. QED
      BY <3>1, <3>2 DEF RD!RDNext, RD!Send
  <2>3. ASSUME NEW q \in fwd, DeliverToReceiver(q)
        PROVE  [RD!RDNext]_(RD!rdVars)
    <3>1. q.pkt.seq \in SeqNum
      BY <1>2 DEF IndInv, TypeInv, TypeOK, InTransit, DataPackets
    <3>2. txNextSeq' = txNextSeq /\ txLastAcked' = txLastAcked
      BY <2>3 DEF DeliverToReceiver, txVars
    <3>3. PICK h \in Int : h = rxHighestContig'
      BY <2>1
    <3>4. h >= rxHighestContig
      BY <1>2, <2>3, <3>1, <3>3, DataInv DEF DeliverToReceiver, IndInv, TypeInv, TypeOK
    <3>5. h + 1 <= txNextSeq
      <4>1. 0..h \subseteq rxReceived' /\ rxReceived' \subseteq 0..(txNextSeq - 1)
        BY <1>2, <3>2, <3>3 DEF IndInv, ReceiverInv, ContigIsPrefix, LinkInv, OnlySentIsNamed
      <4>2. h >= 0 => h \in 0..(txNextSeq - 1)
        BY <4>1
      <4>3. QED
        BY <2>1, <4>2
    <3>6. h = rxHighestContig \/ h + 1 \in (rxHighestContig + 1 + 1)..txNextSeq
      BY <2>1, <3>4, <3>5
    <3>7. QED
      BY <3>2, <3>3, <3>6 DEF RD!RDNext, RD!Deliver
  <2>4. ASSUME NEW q \in rev, DeliverToSender(q)
        PROVE  [RD!RDNext]_(RD!rdVars)
    <3>1. txLastAcked' <= rxHighestContig + 1 /\ txNextSeq' = txNextSeq
      BY <1>2, <2>4, FeedbackInv DEF IndInv, TypeInv, TypeOK
    <3>2. txLastAcked' >= txLastAcked
      <4>1. ASSUME NEW ackSeq, OnTxAckReceived(ackSeq)
            PROVE  txLastAcked' = txLastAcked \/ txLastAcked' > txLastAcked
        BY <2>1, <4>1 DEF OnTxAckReceived, OnTxAckIgnored, OnTxAckAccepted, IsNewAck
      <4>2. ASSUME NEW missing, OnTxNakReceived(missing)
            PROVE  txLastAcked' = txLastAcked
        BY <4>2 DEF OnTxNakReceived
      <4>3. QED
        BY <2>1, <2>4, <4>1, <4>2 DEF DeliverToSender
    <3>3. rxHighestContig' = rxHighestContig
      BY <2>4 DEF DeliverToSender, rxVars
    <3>4. QED
      BY <2>1, <3>1, <3>2, <3>3 DEF RD!RDNext, RD!Acknowledge
  <2>5. CASE ReceiverTick \/ Stop \/ Advance \/ UNCHANGED vars
    BY <2>5 DEF ReceiverTick, RxTick, Stop, Advance, TxTimePasses, RxTimePasses, vars,
                txVars, rxVars
  <2>6. QED
    BY <1>2, <2>2, <2>3, <2>4, <2>5 DEF Next, Terminated
<1>3. QED
  BY <1>1, <1>2, IndInvAlways, PTL DEF Spec, RefinesReliableDelivery, RD!RDSpec
==============================================================================
