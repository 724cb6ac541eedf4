-------------------------- MODULE UDTRefinementProofs --------------------------
(***************************************************************************)
(* The simulated transfer of module UDT implements the library of module   *)
(* UDTLibrary, for every value of the constants.                           *)
(*                                                                         *)
(* The library keeps no clock: a step of the simulator that only moves its *)
(* clocks, its pipes' delays or its loop is a stutter, and every other one *)
(* is a call the library's owners, or its network, may make.               *)
(***************************************************************************)
EXTENDS UDTProofs
------------------------------------------------------------------------------
(* The controllers and the state of the sender. *)

\* Both transports have the same controller.
LEMMA SameController ==
  ASSUME NEW c, NEW ackSeq, NEW rcOpen
  PROVE  /\ Library!NewUDTCC = NewUDTCC
         /\ Library!BudgetBeforeCongestion(c) = BudgetBeforeCongestion(c)
         /\ Library!OnPacketSent(c) = OnPacketSent(c)
         /\ Library!OnAck(c, ackSeq, rcOpen) = OnAck(c, ackSeq, rcOpen)
         /\ Library!OnLoss(c) = OnLoss(c)
         /\ Library!OnTimeout(c) = OnTimeout(c)
BY DEF Library!NewUDTCC, NewUDTCC, Library!BudgetBeforeCongestion, BudgetBeforeCongestion,
       Library!OnPacketSent, OnPacketSent, Library!OnAck, OnAck, Library!OnLoss, OnLoss,
       Library!OnTimeout, OnTimeout, Library!Acknowledged, Acknowledged,
       Library!SlowStartGrowth, SlowStartGrowth, Library!RateControlGrowth,
       RateControlGrowth, Library!ClampCwnd, ClampCwnd

\* Both count in the same way.
LEMMA SameCount == ASSUME NEW S PROVE Library!Cardinality(S) = Cardinality(S)
BY DEF Cardinality, Library!Cardinality, IsFiniteSet, Library!IsFiniteSet

\* A sender that is active, or has just begun to wait, is active to its owner.
LEMMA StateWhenActive ==
  /\ txState = "ACTIVE" => LibraryState = "ACTIVE"
  /\ txExpTimer = TxExp => LibraryState = "ACTIVE"
BY SenderAssumption DEF LibraryState

LEMMA StateKept ==
  UNCHANGED <<txState, txExpTimer>> => LibraryState' = LibraryState
BY DEF LibraryState
------------------------------------------------------------------------------
(* The network. *)

LEMMA NetworkKept ==
  UNCHANGED <<txNextSeq, rev>> => LibraryNetwork' = LibraryNetwork
BY DEF LibraryNetwork

\* Whatever was sent may be delivered, now or again.
LEMMA SentIsUnderWay ==
  ASSUME NEW seq \in 0..(txNextSeq - 1)
  PROVE  Library!Data(seq) \in LibraryNetwork
BY DEF LibraryNetwork, Library!Data

LEMMA NetworkGrows ==
  ASSUME txNextSeq \in Nat, txNextSeq' = txNextSeq + 1, rev' = rev
  PROVE  LibraryNetwork' = LibraryNetwork \cup {Library!Data(txNextSeq)}
<1>1. 0..(txNextSeq' - 1) = 0..(txNextSeq - 1) \cup {txNextSeq}
  OBVIOUS
<1>2. QED
  BY <1>1 DEF LibraryNetwork, Library!Data

\* The pipe to the sender keeps some of the packets it is given.
LEMMA NetworkTakesReports ==
  ASSUME NEW packets, Enqueue(rev, rev', packets), txNextSeq' = txNextSeq
  PROVE  \E kept \in SUBSET packets : LibraryNetwork' = LibraryNetwork \cup kept
<1>1. PICK dropped \in SUBSET packets : rev' \in Enqueued(rev, packets \ dropped)
  BY DEF Enqueue
<1> DEFINE kept == packets \ dropped
<1>2. PICK latency \in [kept -> Latencies] :
        rev' = rev \cup {[pkt |-> p, due |-> latency[p]] : p \in kept}
  BY <1>1 DEF Enqueued
<1>3. {q.pkt : q \in rev'} = {q.pkt : q \in rev} \cup kept
  <2>1. {q.pkt : q \in {[pkt |-> p, due |-> latency[p]] : p \in kept}} = kept
    <3>1. ASSUME NEW p \in kept
          PROVE  p \in {q.pkt : q \in {[pkt |-> r, due |-> latency[r]] : r \in kept}}
      <4>1. [pkt |-> p, due |-> latency[p]] \in
              {[pkt |-> r, due |-> latency[r]] : r \in kept}
        OBVIOUS
      <4>2. [pkt |-> p, due |-> latency[p]].pkt = p
        OBVIOUS
      <4>3. QED
        BY <4>1, <4>2
    <3>2. QED
      BY <3>1
  <2>2. QED
    BY <1>2, <2>1
<1>4. LibraryNetwork' = LibraryNetwork \cup kept
  BY <1>3 DEF LibraryNetwork
<1>5. QED
  BY <1>4

\* A delivery takes one packet out, unless an equal one stays under way.
LEMMA NetworkDelivers ==
  ASSUME NEW q \in rev, q.pkt \in FeedbackPackets, rev' = rev \ {q}, txNextSeq' = txNextSeq
  PROVE  /\ q.pkt \in LibraryNetwork
         /\ LibraryNetwork' \in {LibraryNetwork, LibraryNetwork \ {q.pkt}}
<1> DEFINE data == {[type |-> "DATA", seq |-> s] : s \in 0..(txNextSeq - 1)}
           reports == {r.pkt : r \in rev}
<1>1. q.pkt \notin data
  BY DEF FeedbackPackets
<1>2. {r.pkt : r \in rev'} \in {reports, reports \ {q.pkt}}
  <2>1. CASE \E r \in rev' : r.pkt = q.pkt
    <3>1. {r.pkt : r \in rev'} = reports
      BY <2>1
    <3>2. QED
      BY <3>1
  <2>2. CASE ~ \E r \in rev' : r.pkt = q.pkt
    <3>1. {r.pkt : r \in rev'} = reports \ {q.pkt}
      BY <2>2
    <3>2. QED
      BY <3>1
  <2>3. QED
    BY <2>1, <2>2
<1>3. LibraryNetwork = data \cup reports /\ LibraryNetwork' = data \cup {r.pkt : r \in rev'}
  BY DEF LibraryNetwork
<1>4. q.pkt \in reports
  OBVIOUS
<1> HIDE DEF data, reports
<1>5. QED
  BY <1>1, <1>2, <1>3, <1>4

LEMMA NetworkAges ==
  ASSUME rev \subseteq InTransit(FeedbackPackets), rev' = TickPasses(rev),
         txNextSeq' = txNextSeq
  PROVE  LibraryNetwork' = LibraryNetwork
<1>1. \A q \in rev : [q EXCEPT !.due = @ - 1].pkt = q.pkt
  BY DEF InTransit
<1>2. {q.pkt : q \in rev'} = {q.pkt : q \in rev}
  BY <1>1 DEF TickPasses
<1>3. QED
  BY <1>2 DEF LibraryNetwork
------------------------------------------------------------------------------
(* The steps. *)

LEMMA LibraryInit == Init => Library!Init
<1> SUFFICES ASSUME Init PROVE Library!Init
  OBVIOUS
<1>1. LibraryState = "ACTIVE"
  BY StateWhenActive DEF Init, TxInit
<1>2. LibraryNetwork = {}
  BY DEF Init, TxInit, LibraryNetwork
<1>3. cc = Library!NewUDTCC
  BY SameController DEF Init, TxInit
<1>4. QED
  BY <1>1, <1>2, <1>3 DEF Init, TxInit, RxInit, Library!Init

\* What the library keeps of the two ends, its network apart.
LibraryEnds == <<txNextSeq, txLastAcked, LibraryState, txInFlight, txMissing, txFlowWindow,
                 cc, rxReceived, rxMissing, rxHighestContig>>

LEMMA StutterOf ==
  UNCHANGED LibraryEnds /\ UNCHANGED LibraryNetwork => UNCHANGED Library!vars
BY DEF LibraryEnds, Library!vars, Library!txVars, Library!rxVars

\* A quiet tick of the sender expires its wait or stutters.
LEMMA QuietTickStep ==
  ASSUME TxTypeOK, TxQuietTick, UNCHANGED <<rxVars, rev>>
  PROVE  Library!TxExpires \/ UNCHANGED Library!vars
<1>1. UNCHANGED txNextSeq
  BY DEF TxQuietTick, TxWaiting, TxTimeout, TxCongestionBlocked, TxPaced, TxNothingToSend,
         txVars
<1>2. LibraryNetwork' = LibraryNetwork
  BY <1>1, NetworkKept
<1>3. CASE TxWaiting \/ TxPaced
  <2>1. UNCHANGED LibraryEnds
    BY <1>3, StateKept DEF TxWaiting, TxPaced, txVars, rxVars, LibraryEnds
  <2>2. QED
    BY <1>2, <2>1, StutterOf
<1>4. CASE TxTimeout
  <2>1. LibraryState = "WAIT" /\ LibraryState' = "ACTIVE"
    BY <1>4, SenderAssumption DEF TxTimeout, LibraryState
  <2>2. cc' = Library!OnTimeout(cc)
    BY <1>4, SameController DEF TxTimeout
  <2>3. txMissing' = Library!MissingAfterExpiration
    BY <1>4 DEF TxTimeout, MissingAfterExpiration, Library!MissingAfterExpiration
  <2>4. Library!TxExpires
    BY <1>2, <1>4, <2>1, <2>2, <2>3 DEF TxTimeout, rxVars, Library!TxExpires, Library!rxVars
  <2>5. QED
    BY <2>4
<1>5. CASE TxCongestionBlocked \/ TxNothingToSend
  <2>1. LibraryState = "ACTIVE" /\ LibraryState' = "ACTIVE"
    BY <1>5, SenderAssumption DEF TxCongestionBlocked, TxNothingToSend, TxMaySend, EnterWait, LibraryState
  <2>2. UNCHANGED LibraryEnds
    BY <1>5, <2>1 DEF TxCongestionBlocked, TxNothingToSend, rxVars, LibraryEnds
  <2>3. QED
    BY <1>2, <2>2, StutterOf
<1>6. QED
  BY <1>3, <1>4, <1>5 DEF TxQuietTick

\* A retransmission is one of the library's: everything missing was sent.
LEMMA SendMissingStep ==
  ASSUME IndInv, NEW seq \in txMissing, TxSendMissing(seq), UNCHANGED <<rxVars, rev>>
  PROVE  Library!TxSendMissing(seq)
<1>1. LibraryState = "ACTIVE" /\ LibraryState' = "ACTIVE"
  BY DEF TxSendMissing, TxMaySend, LibraryState
<1>2. Library!Data(seq) \in LibraryNetwork
  BY SentIsUnderWay DEF IndInv, LinkInv, OnlySentIsNamed
<1>3. LibraryNetwork' = LibraryNetwork
  BY NetworkKept DEF TxSendMissing
<1>4. Library!Send({Library!Data(seq)})
  BY <1>2, <1>3 DEF Library!Send
<1>5. Library!TxMaySend
  BY <1>1, SameController DEF TxSendMissing, TxMaySend, Library!TxMaySend
<1>6. QED
  BY <1>1, <1>4, <1>5 DEF TxSendMissing, rxVars, Library!TxSendMissing, Library!rxVars

\* A new packet is one of the library's, which finds out at its next tick that
\* the window is full.
LEMMA SendNewStep ==
  ASSUME IndInv, TxSendNew(txNextSeq), UNCHANGED <<rxVars, rev>>
  PROVE  Library!TxSendNew
<1>1. LibraryState = "ACTIVE" /\ LibraryState' = "ACTIVE"
  BY SenderAssumption DEF TxSendNew, TxMaySend, EnterWait, LibraryState
<1>2. txNextSeq \in Nat /\ txNextSeq' = txNextSeq + 1
  BY DEF TxSendNew, IndInv, TypeInv, TypeOK, TxTypeOK
<1>3. Library!Send({Library!Data(txNextSeq)})
  BY <1>2, NetworkGrows DEF Library!Send
<1>4. Library!TxMaySend
  BY <1>1, SameController DEF TxSendNew, TxMaySend, Library!TxMaySend
<1>5. txNextSeq < TxMaxSeq /\ Library!WindowHasRoom
  BY SameCount DEF TxSendNew, CanSendNew, Library!WindowHasRoom
<1>6. cc' = Library!OnPacketSent(cc)
  BY SameController DEF TxSendNew
<1>7. QED
  BY <1>1, <1>2, <1>3, <1>4, <1>5, <1>6 DEF TxSendNew, rxVars, Library!TxSendNew, Library!rxVars

\* Data handed to the receiver stays under way.
LEMMA DataStep ==
  ASSUME IndInv, NEW q \in fwd, DeliverToReceiver(q)
  PROVE  \E p \in LibraryNetwork : Library!Deliver(p)
<1> DEFINE seq == q.pkt.seq
<1>1. q.pkt \in DataPackets
  BY DEF IndInv, TypeInv, TypeOK, InTransit
<1>2. seq \in SeqNum /\ seq < txNextSeq
  BY <1>1 DEF DataPackets, IndInv, LinkInv, OnlySentIsNamed
<1>3. Library!Data(seq) \in LibraryNetwork
  BY <1>2, SentIsUnderWay DEF SeqNum, IndInv, TypeInv, TypeOK, TxTypeOK
<1>4. UNCHANGED Library!txVars
  BY StateKept DEF DeliverToReceiver, txVars, Library!txVars
<1>5. LibraryNetwork' = LibraryNetwork
  BY NetworkKept DEF DeliverToReceiver, txVars
<1> HIDE DEF seq
<1>6. ASSUME OnRxDataDuplicate(seq)
      PROVE  Library!OnRxDataDuplicate(seq)
  BY <1>4, <1>6 DEF OnRxDataDuplicate, Library!OnRxDataDuplicate
<1>7. ASSUME OnRxDataNew(seq)
      PROVE  Library!OnRxDataNew(seq)
  <2>1. rxMissing' = Library!MissingAfter(seq)
    <3>1. GapBelow(seq, rxReceived') = Library!GapBelow(seq)
      BY <1>2, <1>7 DEF OnRxDataNew, GapBelow, Library!GapBelow, SeqNum, Library!SeqNum
    <3>2. QED
      BY <1>7, <3>1 DEF OnRxDataNew, Library!MissingAfter
  <2>2. Library!AdvanceContig(rxReceived')
    BY <1>7 DEF OnRxDataNew, AdvanceContig, Library!AdvanceContig
  <2>3. QED
    BY <1>4, <1>7, <2>1, <2>2 DEF OnRxDataNew, Library!OnRxDataNew
<1>8. Library!OnRxDataDuplicate(seq) \/ Library!OnRxDataNew(seq)
  BY <1>6, <1>7 DEF DeliverToReceiver, OnRxDataReceived, seq
<1>9. Library!Data(seq).type = "DATA" /\ Library!Data(seq).seq = seq
  BY DEF Library!Data
<1>10. Library!Deliver(Library!Data(seq))
  BY <1>5, <1>8, <1>9 DEF Library!Deliver
<1>11. QED
  BY <1>3, <1>10

\* The reports of a tick are among those the library may send.
LEMMA ReportStep ==
  ASSUME IndInv, ReceiverTick
  PROVE  Library!RxTick
<1>1. RxTickOutput \subseteq Library!RxOutput
  BY DEF RxTickOutput, AckNow, NakNow, AckPacket, NakPacket, Library!RxOutput,
         Library!AckPacket, Library!NakPacket
<1>2. PICK kept \in SUBSET RxTickOutput : LibraryNetwork' = LibraryNetwork \cup kept
  BY NetworkTakesReports DEF ReceiverTick, txVars
<1>3. UNCHANGED <<Library!txVars, Library!rxVars>>
  BY StateKept DEF ReceiverTick, RxTick, txVars, Library!txVars, Library!rxVars
<1>4. QED
  BY <1>1, <1>2, <1>3 DEF Library!RxTick, Library!Send

\* Feedback handed to the sender is one of the library's deliveries.
LEMMA FeedbackStep ==
  ASSUME IndInv, NEW q \in rev, DeliverToSender(q)
  PROVE  \E p \in LibraryNetwork : Library!Deliver(p)
<1>1. q.pkt \in FeedbackPackets
  BY DEF IndInv, TypeInv, TypeOK, InTransit
<1>2. txNextSeq' = txNextSeq /\ LibraryState' = "ACTIVE"
  BY StateWhenActive DEF DeliverToSender, OnTxAckReceived, OnTxAckIgnored, OnTxAckAccepted,
                         OnTxNakReceived, LibraryState
<1>3. /\ q.pkt \in LibraryNetwork
      /\ LibraryNetwork' \in {LibraryNetwork, LibraryNetwork \ {q.pkt}}
  BY <1>1, <1>2, NetworkDelivers DEF DeliverToSender
<1>4. UNCHANGED Library!rxVars
  BY DEF DeliverToSender, rxVars, Library!rxVars
<1>5. ASSUME q.pkt.type = "ACK", OnTxAckReceived(q.pkt.ackSeq)
      PROVE  Library!OnTxAckIgnored(q.pkt.ackSeq) \/ Library!OnTxAckAccepted(q.pkt.ackSeq)
  <2> DEFINE ackSeq == q.pkt.ackSeq
  <2>1. ackSeq \in Nat
    BY <1>1, <1>5 DEF FeedbackPackets
  <2> HIDE DEF ackSeq
  <2>2. Library!IsNewAck(ackSeq) <=> IsNewAck(ackSeq)
    BY DEF IsNewAck, Library!IsNewAck
  <2>3. ASSUME OnTxAckIgnored(ackSeq)
        PROVE  Library!OnTxAckIgnored(ackSeq)
    <3>1. cc' = cc
      <4>1. CASE ackSeq > txNextSeq
        BY <2>3, <4>1 DEF OnTxAckIgnored
      <4>2. CASE ~(ackSeq > txNextSeq)
        <5>1. ackSeq <= cc.lastAckSeq
          BY <2>1, <2>3, <4>2
          DEF OnTxAckIgnored, IsNewAck, IndInv, SenderInv, TypeInv, TypeOK, TxTypeOK
        <5>2. OnAck(cc, ackSeq, FALSE) = cc
          BY <5>1 DEF OnAck
        <5>3. QED
          BY <2>3, <4>2, <5>2 DEF OnTxAckIgnored
      <4>3. QED
        BY <4>1, <4>2
    <3>2. QED
      BY <1>2, <1>4, <2>2, <2>3, <3>1 DEF OnTxAckIgnored, Library!OnTxAckIgnored
  <2>4. ASSUME OnTxAckAccepted(ackSeq)
        PROVE  Library!OnTxAckAccepted(ackSeq)
    <3>1. \E rcOpen \in BOOLEAN : cc' = Library!OnAck(cc, ackSeq, rcOpen)
      BY <2>4, SameController DEF OnTxAckAccepted
    <3>2. QED
      BY <1>2, <1>4, <2>2, <2>4, <3>1
      DEF OnTxAckAccepted, AckedRange, Library!OnTxAckAccepted, Library!AckedRange
  <2>5. QED
    BY <1>5, <2>3, <2>4 DEF OnTxAckReceived, ackSeq
<1>6. ASSUME q.pkt.type = "NAK", OnTxNakReceived(q.pkt.missing)
      PROVE  Library!OnTxNakReceived(q.pkt.missing)
  <2>1. cc' = Library!OnLoss(cc)
    BY <1>6, SameController DEF OnTxNakReceived
  <2>2. QED
    BY <1>2, <1>4, <1>6, <2>1 DEF OnTxNakReceived, Library!OnTxNakReceived
<1>7. Library!Deliver(q.pkt)
  BY <1>3, <1>5, <1>6 DEF DeliverToSender, Library!Deliver
<1>8. QED
  BY <1>3, <1>7

\* When time passes, a sender that has begun to wait is found waiting; by
\* NoLostWakeup it has a reason the library knows.
LEMMA AdvanceStep ==
  ASSUME IndInv, NoLostWakeup, Advance
  PROVE  Library!TxWaits \/ UNCHANGED Library!vars
<1>1. /\ txState \in {"ACTIVE", "WAIT"} /\ txExpTimer \in 0..TxExp
      /\ txExpTimer' = IF txState = "WAIT" /\ txExpTimer > 0
                       THEN txExpTimer - 1 ELSE txExpTimer
      /\ txState' = txState
  BY DEF Advance, TxTimePasses, IndInv, TypeInv, TypeOK, TxTypeOK
<1>2. LibraryNetwork' = LibraryNetwork
  BY NetworkAges DEF Advance, TxTimePasses, IndInv, TypeInv, TypeOK
<1>3. CASE txState = "WAIT" /\ txExpTimer = TxExp
  <2>1. LibraryState = "ACTIVE" /\ LibraryState' = "WAIT"
    BY <1>1, <1>3, SenderAssumption DEF LibraryState
  <2>2. Library!BudgetBeforeCongestion(cc) = 0 \/ txMissing = {}
    BY <1>3, SameController DEF NoLostWakeup
  <2>3. Library!TxWaits
    BY <1>2, <2>1, <2>2
    DEF Advance, TxTimePasses, RxTimePasses, Library!TxWaits, Library!rxVars
  <2>4. QED
    BY <2>3
<1>4. CASE ~(txState = "WAIT" /\ txExpTimer = TxExp)
  <2>1. LibraryState' = LibraryState
    BY <1>1, <1>4, SenderAssumption DEF LibraryState
  <2>2. UNCHANGED LibraryEnds
    BY <2>1 DEF Advance, TxTimePasses, RxTimePasses, LibraryEnds
  <2>3. QED
    BY <1>2, <2>2, StutterOf
<1>5. QED
  BY <1>3, <1>4

LEMMA LibraryStep ==
  ASSUME IndInv, NoLostWakeup, [Next]_vars
  PROVE  [Library!Next]_(Library!vars)
<1>1. CASE SenderTick
  <2>1. UNCHANGED <<rxVars, rev>>
    BY <1>1 DEF SenderTick
  <2>2. CASE TxQuietTick
    BY <2>1, <2>2, QuietTickStep DEF Library!Next, IndInv, TypeInv, TypeOK
  <2>3. ASSUME NEW seq \in txMissing, TxSendMissing(seq)
        PROVE  Library!Next
    BY <2>1, <2>3, SendMissingStep DEF Library!Next
  <2>4. CASE TxSendNew(txNextSeq)
    BY <2>1, <2>4, SendNewStep DEF Library!Next
  <2>5. QED
    BY <1>1, <2>2, <2>3, <2>4 DEF SenderTick
<1>2. ASSUME NEW q \in fwd, DeliverToReceiver(q)
      PROVE  Library!Next
  BY <1>2, DataStep DEF Library!Next
<1>3. CASE ReceiverTick
  BY <1>3, ReportStep DEF Library!Next
<1>4. ASSUME NEW q \in rev, DeliverToSender(q)
      PROVE  Library!Next
  BY <1>4, FeedbackStep DEF Library!Next
<1>5. CASE Advance
  BY <1>5, AdvanceStep DEF Library!Next
<1>6. CASE Stop \/ UNCHANGED vars
  <2>1. UNCHANGED LibraryEnds /\ LibraryNetwork' = LibraryNetwork
    BY <1>6, StateKept, NetworkKept DEF Stop, vars, txVars, rxVars, LibraryEnds
  <2>2. QED
    BY <2>1, StutterOf
<1>7. QED
  BY <1>1, <1>2, <1>3, <1>4, <1>5, <1>6 DEF Next, Terminated

\* The simulator does only what the library may do: every property of the
\* library over an unreliable network is one of the simulated transfer.
THEOREM SimulatorImplementsLibrary == Spec => RefinesLibrary
<1>1. IndInv /\ NoLostWakeup /\ [Next]_vars => [Library!Next]_(Library!vars)
  BY LibraryStep
<1>2. QED
  BY <1>1, LibraryInit, IndInvAlways, WaitsForNothingLost, PTL
  DEF Spec, RefinesLibrary, Library!Spec
==============================================================================
