--------------------------------- MODULE UDT ---------------------------------
(***************************************************************************)
(* The udtsim transfer: sender, receiver and the two pipes composed the    *)
(* way the loop of tools/udtsim/main.go runs them.  Each iteration is one  *)
(* tick of simulated time:                                                 *)
(*                                                                         *)
(*   sender.TxTick; deliver what is due to the receiver; receiver.RxTick;  *)
(*   deliver what is due to the sender; stop if complete, else advance.    *)
(***************************************************************************)
EXTENDS UDTSender, UDTReceiver, MessagePipe

CONSTANT MaxLoss   \* bound: packets the two pipes drop in one behaviour

ASSUME LossAssumption == MaxLoss \in Nat

VARIABLES
  phase,   \* the next step of the driver loop
  fwd,     \* senderToReceiverPipe
  rev,     \* receiverToSenderPipe
  losses   \* packets dropped so far

vars == <<txVars, rxVars, phase, fwd, rev, losses>>

DataPackets == [type : {"DATA"}, seq : SeqNum]

FeedbackPackets == [type : {"ACK"}, ackSeq : 1..TxMaxSeq]
                     \cup [type : {"NAK"}, missing : SUBSET SeqNum]

TypeOK ==
  /\ TxTypeOK
  /\ RxTypeOK
  /\ phase \in {"TxTick", "RxTick", "ToSender", "Done"}
  /\ fwd \subseteq InTransit(DataPackets)
  /\ rev \subseteq InTransit(FeedbackPackets)
  /\ losses \in 0..MaxLoss

Init ==
  /\ TxInit
  /\ RxInit
  /\ phase = "TxTick"
  /\ fwd = {}
  /\ rev = {}
  /\ losses = 0

AckedPacketCount == txLastAcked

ReceivedPacketCount == rxHighestContig + 1

\* MessagePipe.Enqueue for each of `packets`: dropped, or queued with some
\* latency.
Enqueue(queue, queueAfter, packets) ==
  \E dropped \in SUBSET packets :
    /\ losses + Cardinality(dropped) <= MaxLoss
    /\ losses' = losses + Cardinality(dropped)
    /\ queueAfter \in Enqueued(queue, packets \ dropped)
------------------------------------------------------------------------------
\* sender.TxTick, with the packet it hands to senderSend.
Transmit(seq) == Enqueue(fwd, fwd', {[type |-> "DATA", seq |-> seq]})

SenderTick ==
  /\ phase = "TxTick"
  /\ phase' = "RxTick"
  /\ \/ TxQuietTick /\ UNCHANGED <<fwd, losses>>
     \/ \E seq \in txMissing : TxSendMissing(seq) /\ Transmit(seq)
     \/ TxSendNew(txNextSeq) /\ Transmit(txNextSeq)
  /\ UNCHANGED <<rxVars, rev>>

\* senderToReceiverPipe.Tick: one delivery.
DeliverToReceiver(q) ==
  /\ phase = "RxTick"
  /\ q \in DuePackets(fwd)
  /\ fwd' = fwd \ {q}
  /\ OnRxDataReceived(q.pkt.seq)
  /\ UNCHANGED <<txVars, phase, rev, losses>>

\* receiver.RxTick, once nothing more is due to the receiver.
ReceiverTick ==
  /\ phase = "RxTick"
  /\ DuePackets(fwd) = {}
  /\ phase' = "ToSender"
  /\ RxTick
  /\ Enqueue(rev, rev', RxTickOutput)
  /\ UNCHANGED <<txVars, fwd>>

\* receiverToSenderPipe.Tick: one delivery.
DeliverToSender(q) ==
  /\ phase = "ToSender"
  /\ q \in DuePackets(rev)
  /\ rev' = rev \ {q}
  /\ \/ q.pkt.type = "ACK" /\ OnTxAckReceived(q.pkt.ackSeq)
     \/ q.pkt.type = "NAK" /\ OnTxNakReceived(q.pkt.missing)
  /\ UNCHANGED <<rxVars, phase, fwd, losses>>

\* Mutant: the simulator stops as soon as the receiver has everything.
ReceiverComplete == ReceivedPacketCount >= DataCount

TransferComplete == AckedPacketCount >= DataCount /\ ReceivedPacketCount >= DataCount

Stop ==
  /\ phase = "ToSender"
  /\ DuePackets(rev) = {}
  /\ TransferComplete
  /\ phase' = "Done"
  /\ UNCHANGED <<txVars, rxVars, fwd, rev, losses>>

Advance ==
  /\ phase = "ToSender"
  /\ DuePackets(rev) = {}
  /\ ~TransferComplete
  /\ phase' = "TxTick"
  /\ TxTimePasses
  /\ RxTimePasses
  /\ fwd' = TickPasses(fwd)
  /\ rev' = TickPasses(rev)
  /\ UNCHANGED losses

\* The simulator has left its loop.
Terminated == phase = "Done" /\ UNCHANGED vars

Next ==
  \/ SenderTick
  \/ \E q \in fwd : DeliverToReceiver(q)
  \/ ReceiverTick
  \/ \E q \in rev : DeliverToSender(q)
  \/ Stop
  \/ Advance
  \/ Terminated

Spec == Init /\ [][Next]_vars

\* The driver loop is one thread that runs until the transfer is complete.
FairSpec == Spec /\ WF_vars(Next)
------------------------------------------------------------------------------
(* Safety. *)

\* What is outstanding at the sender is exactly the range between the
\* cumulative acknowledgement and the next new number: retransmission,
\* expiration, and stale or reordered feedback never make it lose or regain
\* a number.
InFlightWindow == txInFlight = txLastAcked..(txNextSeq - 1)

\* The sender never takes for delivered a packet the receiver lacks, so
\* together with InFlightWindow a lost packet always stays in txInFlight,
\* the set the expiration retransmits from.
NoFalseAck == 0..(txLastAcked - 1) \subseteq rxReceived

\* ReceivedPacketCount, which acknowledgements and the driver's completion
\* test report, is the length of the received prefix: all of it received,
\* the next one not.
ContigIsPrefix ==
  /\ 0..rxHighestContig \subseteq rxReceived
  /\ rxHighestContig + 1 \notin rxReceived

\* Loss reports are complete and precise: the receiver's missing map is the
\* set of holes below the highest number received.
MissingAreGaps ==
  rxMissing = {s \in SeqNum : s \notin rxReceived /\ \E r \in rxReceived : s < r}

\* Retransmissions look at no flow window, expirations and reports fill
\* txMissing at will, and the receiver's window replaces the sender's under
\* way: what is outstanding still stays within the larger of the two windows.
OutstandingIsBounded ==
  \/ Cardinality(txInFlight) <= TxInitialFlowWindow
  \/ Cardinality(txInFlight) <= RxInitialFlowWindow

\* The controller's own count never exceeds what is outstanding (it may be
\* lower: an expiration zeroes it), and its cumulative acknowledgement is the
\* sender's.
CongestionCount ==
  /\ cc.inFlight <= Cardinality(txInFlight)
  /\ cc.lastAckSeq = txLastAcked

\* Sender, controller and flow windows keep separate accounts of what is
\* outstanding.  They agree: the map is the range, the controller counts no more
\* and the windows hold it, in every order of feedback and expirations.
AccountsAgree == InFlightWindow /\ CongestionCount /\ OutstandingIsBounded

\* The receiver's prefix and its missing map are exact together: what it does not
\* acknowledge and does not report is beyond all it has received.
ReceiverIsExact == ContigIsPrefix /\ MissingAreGaps

\* No map, packet or report ever names a number that was not sent, and no
\* acknowledgement under way is ahead of the receiver.
OnlySentIsNamed ==
  /\ rxReceived \cup rxMissing \cup txMissing \subseteq 0..(txNextSeq - 1)
  /\ \A q \in fwd : q.pkt.seq < txNextSeq
  /\ \A q \in rev :
       /\ q.pkt.type = "ACK" => q.pkt.ackSeq <= ReceivedPacketCount
       /\ q.pkt.type = "NAK" => q.pkt.missing \subseteq 0..(txNextSeq - 1)

\* When the simulator stops, the receiver holds all of the data and neither
\* end has a number outstanding.
CompleteMeansDelivered ==
  phase = "Done" =>
    /\ rxReceived = 0..(DataCount - 1)
    /\ rxMissing = {}
    /\ txInFlight = {}

\* c_udt.cpp, core invariant 16: data for a number already received has no
\* side effect on the receiver.
DuplicateIsIdempotent ==
  [][\A q \in fwd \ fwd' :
       phase = "RxTick" /\ q.pkt.seq \in rxReceived => UNCHANGED rxVars]_vars

\* No wake-up is lost: a sender that waits has nothing it may send.  Whatever
\* would give it budget, room or a number to retransmit also ends its wait.
NoLostWakeup ==
  txState = "WAIT" =>
    \/ BudgetBeforeCongestion(cc) = 0
    \/ txMissing = {} /\ ~CanSendNew

\* Retransmission starves no number (c_udt.cpp, core invariant 8): each one brings
\* every number that goes on waiting nearer to its turn, whatever reports,
\* expirations and acknowledgements do to the map in between.
NoOvertaking ==
  [][phase = "TxTick" /\ ~(txMissing \subseteq txMissing') =>
       \A s \in txMissing' :
         RoundRobinDistance(txMissingCursor', s, TxMaxSeq)
           < RoundRobinDistance(txMissingCursor, s, TxMaxSeq)]_vars

\* The transfer implements the abstract one: sent, delivered and acknowledged
\* prefixes only grow, one at a time, and stay ordered.
RD == INSTANCE ReliableDelivery
        WITH Count     <- DataCount,
             sent      <- txNextSeq,
             delivered <- ReceivedPacketCount,
             acked     <- AckedPacketCount

RefinesReliableDelivery == RD!RDSpec

\* The state of a sender of the C++ library, which returns after each packet:
\* it is found waiting by its next tick.
LibraryState == IF txState = "WAIT" /\ txExpTimer < TxExp THEN "WAIT" ELSE "ACTIVE"

\* A network that may deliver again whatever was sent.
LibraryNetwork ==
  {[type |-> "DATA", seq |-> s] : s \in 0..(txNextSeq - 1)} \cup {q.pkt : q \in rev}

Library == INSTANCE UDTLibrary WITH txState <- LibraryState, network <- LibraryNetwork

\* The simulator is a simulator of the library: with clocks, pacing and pipes
\* left out, all it does is what c_udt.cpp may do over an unreliable network.
RefinesLibrary == Library!Spec
------------------------------------------------------------------------------
(* Liveness, under FairSpec. *)

\* The loop of main.go ends: everything is delivered and acknowledged.
Completes == <>(phase = "Done")

\* A hole the receiver has noticed is filled, through loss reports and
\* retransmission.
GapsAreRepaired ==
  \A s \in SeqNum : s \in rxMissing ~> s \in rxReceived

\* What the receiver holds becomes known to the sender although
\* acknowledgements may be lost.
ReceiptIsAcknowledged ==
  \A n \in 1..DataCount : ReceivedPacketCount >= n ~> AckedPacketCount >= n
==============================================================================
