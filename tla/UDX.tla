--------------------------------- MODULE UDX ---------------------------------
(***************************************************************************)
(* A UDX transfer (tools/udtsim/udx.go): the two ends over two pipes of    *)
(* the simulated network.  No driver calls UDX yet, so the driver here is  *)
(* an assumption: it calls Process of both ends periodically, as the       *)
(* interfaces SenderProtocol and ReceiverProtocol say, in the loop of      *)
(* tools/udtsim/main.go.                                                   *)
(***************************************************************************)
EXTENDS UDXSender, UDXReceiver, MessagePipe

CONSTANT MaxLoss   \* bound: packets the two pipes drop in one behaviour

ASSUME LossAssumption == MaxLoss \in Nat

VARIABLES
  phase,   \* the next step of the driver
  fwd,     \* data under way
  rev,     \* acknowledgements and loss reports under way
  losses   \* packets dropped so far

vars == <<txVars, rxVars, phase, fwd, rev, losses>>

DataPackets == [type : {"DATA"}, seq : SeqNum]

FeedbackPackets ==
  [type : {"ACK"}, seq : 0..(SeqSpan - 1), sampled : BOOLEAN]
    \cup [type : {"NAK"}, missing : SUBSET SeqNum]

TypeOK ==
  /\ TxTypeOK
  /\ RxTypeOK
  /\ phase \in {"Sender", "Receiver", "Feedback"}
  /\ fwd \subseteq InTransit(DataPackets)
  /\ rev \subseteq InTransit(FeedbackPackets)
  /\ losses \in 0..MaxLoss

Init ==
  /\ TxInit
  /\ RxInit
  /\ phase = "Sender"
  /\ fwd = {}
  /\ rev = {}
  /\ losses = 0

\* PacketIO.SendPacket of each of `packets`: dropped, or under way for a while.
SendPackets(queue, queueAfter, packets) ==
  \E dropped \in SUBSET packets :
    /\ losses + Cardinality(dropped) <= MaxLoss
    /\ losses' = losses + Cardinality(dropped)
    /\ queueAfter \in Enqueued(queue, packets \ dropped)
------------------------------------------------------------------------------
SendData(seq) == SendPackets(fwd, fwd', {[type |-> "DATA", seq |-> seq]})

SenderProcess ==
  /\ phase = "Sender"
  /\ phase' = "Receiver"
  /\ \/ TxQuiet /\ UNCHANGED <<fwd, losses>>
     \/ \E seq \in QueuedMissing : TxSendMissing(seq) /\ SendData(seq)
     \/ TxSendNew(txCurrentSeq) /\ SendData(txCurrentSeq)
  /\ UNCHANGED <<rxVars, rev>>

DeliverData(q) ==
  /\ phase = "Receiver"
  /\ q \in DuePackets(fwd)
  /\ fwd' = fwd \ {q}
  /\ OnDataPacketReceived(q.pkt.seq)
  /\ UNCHANGED <<txVars, phase, rev, losses>>

ReceiverProcess ==
  /\ phase = "Receiver"
  /\ DuePackets(fwd) = {}
  /\ phase' = "Feedback"
  /\ RxProcess
  /\ SendPackets(rev, rev', RxOutput)
  /\ UNCHANGED <<txVars, fwd>>

\* SenderUDX.OnPacketReceived.
DeliverFeedback(q) ==
  /\ phase = "Feedback"
  /\ q \in DuePackets(rev)
  /\ rev' = rev \ {q}
  /\ \/ q.pkt.type = "ACK" /\ OnAckReceived(q.pkt.seq, q.pkt.sampled)
     \/ q.pkt.type = "NAK" /\ OnNakReceived(q.pkt.missing)
  /\ UNCHANGED <<rxVars, phase, fwd, losses>>

Advance ==
  /\ phase = "Feedback"
  /\ DuePackets(rev) = {}
  /\ phase' = "Sender"
  /\ TxTimePasses
  /\ RxTimePasses
  /\ fwd' = TickPasses(fwd)
  /\ rev' = TickPasses(rev)
  /\ UNCHANGED losses

Next ==
  \/ SenderProcess
  \/ \E q \in fwd : DeliverData(q)
  \/ ReceiverProcess
  \/ \E q \in rev : DeliverFeedback(q)
  \/ Advance

Spec == Init /\ [][Next]_vars

\* The driver keeps calling.
FairSpec == Spec /\ WF_vars(Next)
------------------------------------------------------------------------------
(* Safety. *)

\* Loss reports are complete and precise although the end of the prefix is not:
\* the receiver's missing map is the set of holes below the highest number
\* received, whatever the contiguous search answered before.
MissingAreGaps ==
  rxMissing = {s \in SeqNum : s \notin rxReceived /\ \E r \in rxReceived : s < r}

\* The end of the prefix may be too high, and it may fall back, but it always
\* names a number the receiver holds, or none.
ContigIsReceived == rxHighestContig \in rxReceived \cup {NoContig}

\* The end of the prefix is right.
ContigIsPrefix ==
  \/ rxHighestContig = NoContig /\ rxReceived = {}
  \/ /\ rxHighestContig \in SeqNum
     /\ 0..rxHighestContig \subseteq rxReceived
     /\ rxHighestContig + 1 \notin rxReceived

\* The search is only misled by holes: as long as nothing is missing before and
\* after a packet, a right end of the prefix stays right, wherever it falls in a
\* word and at the capacity.
OnlyHolesMislead ==
  [][ContigIsPrefix /\ rxMissing = {} /\ rxMissing' = {} => ContigIsPrefix']_vars

\* No map, packet or report names a number that was not sent, except the
\* acknowledgement of a receiver that has no prefix.
OnlySentIsNamed ==
  /\ txInFlight \cup txMissing \cup rxReceived \subseteq 0..(txCurrentSeq - 1)
  /\ \A q \in fwd : q.pkt.seq < txCurrentSeq
  /\ \A q \in rev :
       /\ q.pkt.type = "ACK" => q.pkt.seq < txCurrentSeq \/ q.pkt.seq = OnWire(NoContig)
       /\ q.pkt.type = "NAK" => q.pkt.missing \subseteq 0..(txCurrentSeq - 1)

\* Timeouts and loss reports shrink the windows beneath what is outstanding, and
\* queue numbers without regard to them, the timeout in the very call that sends.
\* A step that leaves windows no larger than what was outstanding puts nothing
\* under way, neither new nor queued: until acknowledgements have made room, what
\* is outstanding only becomes less.
ShrunkWindowsDrain ==
  [][Cardinality(txInFlight) >= txCwnd' \/ Cardinality(txInFlight) >= FlowWindow(txCwnd)' =>
       /\ txInFlight' \subseteq txInFlight
       /\ {q.pkt : q \in fwd'} \subseteq {q.pkt : q \in fwd}]_vars
------------------------------------------------------------------------------
(* Liveness, under FairSpec. *)

\* A hole the receiver has noticed is filled, unless from some time on no call of
\* Process finds room: a retransmission needs room in both windows like new data,
\* and nothing makes any when they are full, or shrunk, behind the hole.
GapsAreRepaired ==
  \A s \in SeqNum :
    s \in rxMissing ~>
      (s \in rxReceived \/ [](phase = "Sender" => ~AllowsPacket(CwndInCall)))
==============================================================================
