------------------------------ MODULE UDTLibrary ------------------------------
(***************************************************************************)
(* The C++ transport library (source/main/cpp/c_udt.cpp): one udt_t that   *)
(* sends an object and one that receives it, called by their owners.       *)
(*                                                                         *)
(* Nothing orders the calls: the owners tick, and hand over what the       *)
(* network brings, whenever they like.  The network drops, delays,         *)
(* reorders and duplicates.  A builder callback may refuse to build.  The  *)
(* owner passes the time, so "the timer has run out" is free: a tick that  *)
(* finds no timer run out changes nothing.  Only on_timeout forces         *)
(* something, since it moves the next send past now.                       *)
(*                                                                         *)
(* A sequence map is the set of its members, popped in any order           *)
(* (c_udt.cpp, core invariant 8).  The congestion controller of            *)
(* c_udt_cc.cpp is that of cc.go but for its pacing, which is free here.   *)
(* rx_highest_contig = 0xFFFFFFFF is -1.                                   *)
(***************************************************************************)
EXTENDS FiniteSets, UDTCC

CONSTANTS
  TxMaxSeq,
  TxInitialFlowWindow,
  RxInitialFlowWindow

ASSUME LibraryAssumption ==
  /\ TxMaxSeq \in Nat \ {0}
  /\ TxInitialFlowWindow \in Nat
  /\ RxInitialFlowWindow \in Nat

VARIABLES
  txNextSeq,
  txLastAcked,
  txState,
  txInFlight,
  txMissing,
  txFlowWindow,
  cc,
  rxReceived,
  rxMissing,
  rxHighestContig,
  network           \* packets under way

txVars == <<txNextSeq, txLastAcked, txState, txInFlight, txMissing, txFlowWindow, cc>>

rxVars == <<rxReceived, rxMissing, rxHighestContig>>

vars == <<txVars, rxVars, network>>

SeqNum == 0..(TxMaxSeq - 1)

Packets ==
  [type : {"DATA"}, seq : SeqNum]
    \cup [type : {"ACK"}, ackSeq : 1..TxMaxSeq]
    \cup [type : {"NAK"}, missing : SUBSET SeqNum]

TypeOK ==
  /\ txNextSeq \in 0..TxMaxSeq
  /\ txLastAcked \in 0..TxMaxSeq
  /\ txState \in {"ACTIVE", "WAIT"}
  /\ txInFlight \in SUBSET SeqNum
  /\ txMissing \in SUBSET SeqNum
  /\ txFlowWindow \in {TxInitialFlowWindow, RxInitialFlowWindow}
  /\ cc \in CCState
  /\ rxReceived \in SUBSET SeqNum
  /\ rxMissing \in SUBSET SeqNum
  /\ rxHighestContig \in -1..(TxMaxSeq - 1)
  /\ network \in SUBSET Packets

Init ==
  /\ txNextSeq = 0
  /\ txLastAcked = 0
  /\ txState = "ACTIVE"
  /\ txInFlight = {}
  /\ txMissing = {}
  /\ txFlowWindow = TxInitialFlowWindow
  /\ cc = NewUDTCC
  /\ rxReceived = {}
  /\ rxMissing = {}
  /\ rxHighestContig = -1
  /\ network = {}

Send(packets) == network' = network \cup packets

Data(seq) == [type |-> "DATA", seq |-> seq]
------------------------------------------------------------------------------
(* tx_tick, one action per way through it that changes something. *)

MissingAfterExpiration == IF txMissing = {} THEN txInFlight ELSE txMissing

\* WAIT has expired.  on_timeout leaves budget, and a next send past now.
TxExpires ==
  /\ txState = "WAIT"
  /\ txMissing' = MissingAfterExpiration
  /\ txState' = "ACTIVE"
  /\ cc' = OnTimeout(cc)
  /\ UNCHANGED <<txNextSeq, txLastAcked, txInFlight, txFlowWindow, rxVars, network>>

TxMaySend == txState = "ACTIVE" /\ BudgetBeforeCongestion(cc) > 0

TxSendMissing(seq) ==
  /\ TxMaySend
  /\ seq \in txMissing
  /\ txMissing' = txMissing \ {seq}
  /\ Send({Data(seq)})
  /\ UNCHANGED <<txNextSeq, txLastAcked, txState, txInFlight, txFlowWindow, cc, rxVars>>

\* Mutant: a full window may take one packet more.
WindowHasOneMore == Cardinality(txInFlight) <= txFlowWindow

WindowHasRoom == Cardinality(txInFlight) < txFlowWindow

TxSendNew ==
  /\ TxMaySend
  /\ txMissing = {}
  /\ txNextSeq < TxMaxSeq
  /\ WindowHasRoom
  /\ txInFlight' = txInFlight \cup {txNextSeq}
  /\ cc' = OnPacketSent(cc)
  /\ Send({Data(txNextSeq)})
  /\ txNextSeq' = txNextSeq + 1
  /\ UNCHANGED <<txLastAcked, txState, txMissing, txFlowWindow, rxVars>>

\* Mutant: a number whose packet was not built is not pushed back.
NotPushedBack(seq) == txMissing \ {seq}

PushedBack(seq) == (txMissing \ {seq}) \cup {seq}

\* The builder refuses the packet of a retransmission.
TxMissingRefused(seq) ==
  /\ TxMaySend
  /\ seq \in txMissing
  /\ txMissing' = PushedBack(seq)
  /\ txState' = "WAIT"
  /\ UNCHANGED <<txNextSeq, txLastAcked, txInFlight, txFlowWindow, cc, rxVars, network>>

\* No budget; or nothing to retransmit, and nothing new, no room for it, or the
\* builder refuses it.
TxWaits ==
  /\ txState = "ACTIVE"
  /\ BudgetBeforeCongestion(cc) = 0 \/ txMissing = {}
  /\ txState' = "WAIT"
  /\ UNCHANGED <<txNextSeq, txLastAcked, txInFlight, txMissing, txFlowWindow, cc,
                 rxVars, network>>
------------------------------------------------------------------------------
(* on_tx_ack_received, on_tx_nak_received. *)

\* Mutant: the stale and duplicate case is not singled out.
AckNotBeyondSent(ackSeq) == ackSeq <= txNextSeq

IsNewAck(ackSeq) == txLastAcked < ackSeq /\ ackSeq <= txNextSeq

\* A stale acknowledgement still ends the latched WAIT.
OnTxAckIgnored(ackSeq) ==
  /\ ~IsNewAck(ackSeq)
  /\ txState' = "ACTIVE"
  /\ UNCHANGED <<txNextSeq, txLastAcked, txInFlight, txMissing, txFlowWindow, cc, rxVars>>

AckedRange(ackSeq) == txLastAcked..(ackSeq - 1)

OnTxAckAccepted(ackSeq) ==
  /\ IsNewAck(ackSeq)
  /\ txInFlight' = txInFlight \ AckedRange(ackSeq)
  /\ txMissing' = txMissing \ AckedRange(ackSeq)
  /\ txLastAcked' = ackSeq
  /\ txFlowWindow' = RxInitialFlowWindow
  /\ txState' = "ACTIVE"
  /\ \E rcOpen \in BOOLEAN : cc' = OnAck(cc, ackSeq, rcOpen)
  /\ UNCHANGED <<txNextSeq, rxVars>>

OnTxNakReceived(missing) ==
  /\ txMissing' = txMissing \cup missing
  /\ cc' = OnLoss(cc)
  /\ txFlowWindow' = RxInitialFlowWindow
  /\ txState' = "ACTIVE"
  /\ UNCHANGED <<txNextSeq, txLastAcked, txInFlight, rxVars>>
------------------------------------------------------------------------------
(* on_rx_data_received, rx_tick. *)

OnRxDataDuplicate(seq) ==
  /\ seq \in rxReceived
  /\ rxMissing' = rxMissing \ {seq}
  /\ UNCHANGED <<rxReceived, rxHighestContig, txVars>>

GapBelow(seq) == {s \in SeqNum \ rxReceived : rxHighestContig < s /\ s < seq}

\* Mutant: the number that was missing stays in the missing map.
MissingWithGap(seq) == rxMissing \cup GapBelow(seq)

MissingAfter(seq) == (rxMissing \cup GapBelow(seq)) \ {seq}

AdvanceContig(received) ==
  \E last \in rxHighestContig..(TxMaxSeq - 1) :
    /\ (rxHighestContig + 1)..last \subseteq received
    /\ last + 1 \notin received
    /\ rxHighestContig' = last

OnRxDataNew(seq) ==
  /\ seq \notin rxReceived
  /\ rxReceived' = rxReceived \cup {seq}
  /\ rxMissing' = MissingAfter(seq)
  /\ AdvanceContig(rxReceived')
  /\ UNCHANGED txVars

\* Mutant: the number of the next packet but one.
AckAhead == [type |-> "ACK", ackSeq |-> rxHighestContig + 2]

AckPacket == [type |-> "ACK", ackSeq |-> rxHighestContig + 1]

NakPacket == [type |-> "NAK", missing |-> rxMissing]

RxOutput ==
  (IF rxHighestContig # -1 THEN {AckPacket} ELSE {})
    \cup (IF rxMissing # {} THEN {NakPacket} ELSE {})

\* Of the reports due, those whose builder does not refuse.
RxTick ==
  \E packets \in SUBSET RxOutput :
    /\ Send(packets)
    /\ UNCHANGED <<txVars, rxVars>>
------------------------------------------------------------------------------
(* The network. *)

\* The owner hands over a packet, which may come again.
Deliver(p) ==
  /\ network' \in {network, network \ {p}}
  /\ \/ p.type = "DATA" /\ (OnRxDataDuplicate(p.seq) \/ OnRxDataNew(p.seq))
     \/ p.type = "ACK" /\ (OnTxAckIgnored(p.ackSeq) \/ OnTxAckAccepted(p.ackSeq))
     \/ p.type = "NAK" /\ OnTxNakReceived(p.missing)

Lose(p) ==
  /\ network' = network \ {p}
  /\ UNCHANGED <<txVars, rxVars>>

Next ==
  \/ TxExpires
  \/ \E seq \in txMissing : (TxSendMissing(seq) \/ TxMissingRefused(seq))
  \/ TxSendNew
  \/ TxWaits
  \/ RxTick
  \/ \E p \in network : Deliver(p)
  \/ \E p \in network : Lose(p)

Spec == Init /\ [][Next]_vars
------------------------------------------------------------------------------
\* What is outstanding is exactly the range from the cumulative acknowledgement
\* to the next new number, whatever order, and however often, feedback arrives.
InFlightWindow == txInFlight = txLastAcked..(txNextSeq - 1)

\* The sender never takes for delivered a packet the receiver lacks.
NoFalseAck == 0..(txLastAcked - 1) \subseteq rxReceived

\* The receiver's missing map is the set of holes below what it received, so data
\* for a number received before has no side effect (core invariant 16).
MissingAreGaps ==
  rxMissing = {s \in SeqNum : s \notin rxReceived /\ \E r \in rxReceived : s < r}

\* Retransmissions pass the flow window by, expirations and reports fill the
\* missing map at will, and the window is replaced by the receiver's under way:
\* what is outstanding still stays within the larger of the two windows.
OutstandingIsBounded ==
  \/ Cardinality(txInFlight) <= TxInitialFlowWindow
  \/ Cardinality(txInFlight) <= RxInitialFlowWindow

\* The controller's own count never exceeds what is outstanding, and its
\* cumulative acknowledgement is the sender's, however feedback and expirations
\* follow each other.
CongestionCount ==
  /\ cc.inFlight <= Cardinality(txInFlight)
  /\ cc.lastAckSeq = txLastAcked

\* No map, packet or report ever names a number that was not sent, however late
\* or often it arrives, and no acknowledgement is ahead of the receiver.
OnlySentIsNamed ==
  /\ rxReceived \cup rxMissing \cup txMissing \subseteq 0..(txNextSeq - 1)
  /\ \A p \in network :
       /\ p.type = "DATA" => p.seq < txNextSeq
       /\ p.type = "ACK" => p.ackSeq <= rxHighestContig + 1
       /\ p.type = "NAK" => p.missing \subseteq 0..(txNextSeq - 1)

\* Sender, controller and flow windows keep separate accounts of what is
\* outstanding.  They agree in every order of the owner's calls.
AccountsAgree == InFlightWindow /\ CongestionCount /\ OutstandingIsBounded

\* What either end believes of the other is true, or was when it was sent: nothing
\* lacking is taken for delivered and nothing unsent is reported.
ReportsAreTrue == NoFalseAck /\ OnlySentIsNamed

\* Core invariant 16: only a number it lacked changes anything at the receiver,
\* although a duplicate does clear its number in the missing map.
OnlyNewDataCounts == [][rxReceived' = rxReceived => UNCHANGED rxVars]_vars

\* A number queued for retransmission leaves the queue only in a packet or
\* acknowledged: a builder that refuses does not lose it.
QueuedIsNotLost ==
  [][\A s \in txMissing \ txMissing' : Data(s) \in network' \/ s < txLastAcked']_vars

\* The library implements the abstract transfer over this network.
RD == INSTANCE ReliableDelivery
        WITH Count     <- TxMaxSeq,
             sent      <- txNextSeq,
             delivered <- rxHighestContig + 1,
             acked     <- txLastAcked

RefinesReliableDelivery == RD!RDSpec
==============================================================================
