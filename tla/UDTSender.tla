------------------------------ MODULE UDTSender ------------------------------
(***************************************************************************)
(* The sending half of the udtsim transport (tools/udtsim/udt.go, type UDT *)
(* with isSender): TxTick, OnTxAckReceived and OnTxNakReceived.            *)
(*                                                                         *)
(* A SequenceMap is the set of the sequence numbers whose bit is set.      *)
(* Time is in driver ticks, and a deadline is the number of ticks left:    *)
(* "now < deadline" in the code is "the countdown is positive" here.       *)
(* The flow window is in packets: inFlight * avgPacketSize < window.       *)
(*                                                                         *)
(* The pacing interval is at least one microsecond (NewUDTCC gets 64 for   *)
(* the default packet size and bandwidth; OnAck, OnLoss and OnTimeout keep *)
(* it positive), and every send and timeout moves nextSendUs past now.  So *)
(* the loop of TxTick transmits at most once per call, and one action is   *)
(* the whole handler.                                                      *)
(***************************************************************************)
EXTENDS FiniteSets, UDTConfig, UDTCC, SequencePolicy

CONSTANTS
  TxInitialFlowWindow,  \* the sender's initial flow window, in packets
  RxInitialFlowWindow,  \* the window the receiver advertises, in packets
  TxExp,                \* txExpUs, in ticks
  MaxPacing             \* bound: ticks a send, a loss or a timeout may pace for

ASSUME SenderAssumption ==
  /\ TxInitialFlowWindow \in Nat
  /\ RxInitialFlowWindow \in Nat
  /\ TxExp \in Nat \ {0}
  /\ MaxPacing \in Nat \ {0}

VARIABLES
  txNextSeq,       \* next new sequence number
  txLastAcked,     \* cumulative acknowledgement received
  txState,         \* "ACTIVE" or "WAIT"
  txInFlight,      \* txInFlight map
  txMissing,       \* txMissing map
  txMissingCursor, \* its round-robin cursor
  txFlowWindow,    \* txFlowWindowSizeInBytes, in packets
  txExpTimer,      \* ticks until txExpTimeoutUs
  txPaceTimer,     \* ticks until the controller's next send time
  cc               \* the congestion controller

txVars == <<txNextSeq, txLastAcked, txState, txInFlight, txMissing,
            txMissingCursor, txFlowWindow, txExpTimer, txPaceTimer, cc>>

TxTypeOK ==
  /\ txNextSeq \in 0..TxMaxSeq
  /\ txLastAcked \in 0..TxMaxSeq
  /\ txState \in {"ACTIVE", "WAIT"}
  /\ txInFlight \in SUBSET SeqNum
  /\ txMissing \in SUBSET SeqNum
  /\ txMissingCursor \in SeqNum
  /\ txFlowWindow \in {TxInitialFlowWindow, RxInitialFlowWindow}
  /\ txExpTimer \in 0..TxExp
  /\ txPaceTimer \in 0..MaxPacing
  /\ cc \in CCState

\* The pacing check adds the interval to txLastSendUs = 0, so the first send
\* waits too.
TxInit ==
  /\ txNextSeq = 0
  /\ txLastAcked = 0
  /\ txState = "ACTIVE"
  /\ txInFlight = {}
  /\ txMissing = {}
  /\ txMissingCursor = 0
  /\ txFlowWindow = TxInitialFlowWindow
  /\ txExpTimer = 0
  /\ txPaceTimer \in 1..MaxPacing
  /\ cc = NewUDTCC

\* The driver's buildData: data exists for the first DataCount numbers.
BuildData(seq) == seq < DataCount

EnterWait == txState' = "WAIT" /\ txExpTimer' = TxExp

Pace == txPaceTimer' \in 1..MaxPacing
------------------------------------------------------------------------------
(* TxTick, one action per way through it. *)

\* WAIT is latched until the expiration time.
TxWaiting ==
  /\ txState = "WAIT"
  /\ txExpTimer > 0
  /\ UNCHANGED txVars

\* Mutant: expiration without the merge of what is in flight.
ExpirationWithoutMerge == txMissing

MissingAfterExpiration == IF txMissing = {} THEN txInFlight ELSE txMissing

\* Expiration: unless retransmissions are queued already, everything in
\* flight is taken as lost.  The controller then has budget (its count is
\* zero) but paces, so the call returns without sending.
TxTimeout ==
  /\ txState = "WAIT"
  /\ txExpTimer = 0
  /\ txMissing' = MissingAfterExpiration
  /\ txState' = "ACTIVE"
  /\ cc' = OnTimeout(cc)
  /\ Pace
  /\ UNCHANGED <<txNextSeq, txLastAcked, txInFlight, txMissingCursor,
                 txFlowWindow, txExpTimer>>

TxCongestionBlocked ==
  /\ txState = "ACTIVE"
  /\ BudgetBeforeCongestion(cc) = 0
  /\ EnterWait
  /\ UNCHANGED <<txNextSeq, txLastAcked, txInFlight, txMissing,
                 txMissingCursor, txFlowWindow, txPaceTimer, cc>>

TxPaced ==
  /\ txState = "ACTIVE"
  /\ BudgetBeforeCongestion(cc) > 0
  /\ txPaceTimer > 0
  /\ UNCHANGED txVars

TxMaySend ==
  /\ txState = "ACTIVE"
  /\ BudgetBeforeCongestion(cc) > 0
  /\ txPaceTimer = 0

\* Retransmission goes first and looks at no flow window.  Everything in
\* txMissing was sent before, so buildData supplies it again.
TxSendMissing(seq) ==
  /\ TxMaySend
  /\ IsNextSetFrom(txMissing, txMissingCursor, seq)
  /\ txMissing' = txMissing \ {seq}
  /\ txMissingCursor' = (seq + 1) % TxMaxSeq
  /\ Pace
  /\ UNCHANGED <<txNextSeq, txLastAcked, txState, txInFlight, txFlowWindow,
                 txExpTimer, cc>>

CanSendNew ==
  /\ txNextSeq < TxMaxSeq
  /\ Cardinality(txInFlight) < txFlowWindow
  /\ BuildData(txNextSeq)

\* After a new packet the loop tests the budget before the pacing: it leaves
\* in WAIT when the packet used the last of the window, else still ACTIVE.
TxSendNew(seq) ==
  /\ TxMaySend
  /\ txMissing = {}
  /\ CanSendNew
  /\ seq = txNextSeq
  /\ txInFlight' = txInFlight \cup {seq}
  /\ cc' = OnPacketSent(cc)
  /\ txNextSeq' = txNextSeq + 1
  /\ Pace
  /\ IF BudgetBeforeCongestion(cc') = 0
     THEN EnterWait
     ELSE UNCHANGED <<txState, txExpTimer>>
  /\ UNCHANGED <<txLastAcked, txMissing, txMissingCursor, txFlowWindow>>

TxNothingToSend ==
  /\ TxMaySend
  /\ txMissing = {}
  /\ ~CanSendNew
  /\ EnterWait
  /\ UNCHANGED <<txNextSeq, txLastAcked, txInFlight, txMissing,
                 txMissingCursor, txFlowWindow, txPaceTimer, cc>>

\* TxTick when it transmits nothing.
TxQuietTick ==
  \/ TxWaiting
  \/ TxTimeout
  \/ TxCongestionBlocked
  \/ TxPaced
  \/ TxNothingToSend
------------------------------------------------------------------------------
(* Acknowledgements and loss reports. *)

\* Mutant: the stale and duplicate case is not singled out.
AckNotBeyondSent(ackSeq) == ackSeq <= txNextSeq

IsNewAck(ackSeq) == txLastAcked < ackSeq /\ ackSeq <= txNextSeq

\* Every acknowledgement, even one that is ignored, ends the latched WAIT.
OnTxAckIgnored(ackSeq) ==
  /\ ~IsNewAck(ackSeq)
  /\ txState' = "ACTIVE"
  /\ cc' = IF ackSeq > txNextSeq THEN cc ELSE OnAck(cc, ackSeq, FALSE)
  /\ UNCHANGED <<txNextSeq, txLastAcked, txInFlight, txMissing,
                 txMissingCursor, txFlowWindow, txExpTimer, txPaceTimer>>

AckedRange(ackSeq) == txLastAcked..(ackSeq - 1)

OnTxAckAccepted(ackSeq) ==
  /\ IsNewAck(ackSeq)
  /\ txInFlight' = txInFlight \ AckedRange(ackSeq)
  /\ txMissing' = txMissing \ AckedRange(ackSeq)
  /\ txLastAcked' = ackSeq
  /\ txFlowWindow' = RxInitialFlowWindow
  /\ txState' = "ACTIVE"
  /\ \E rcOpen \in BOOLEAN : cc' = OnAck(cc, ackSeq, rcOpen)
  /\ UNCHANGED <<txNextSeq, txMissingCursor, txExpTimer, txPaceTimer>>

OnTxAckReceived(ackSeq) == OnTxAckIgnored(ackSeq) \/ OnTxAckAccepted(ackSeq)

\* Mutant: a loss report leaves a waiting sender asleep.
NakWithoutWakeup(missing) ==
  /\ txMissing' = txMissing \cup missing
  /\ cc' = OnLoss(cc)
  /\ txFlowWindow' = RxInitialFlowWindow
  /\ txExpTimer' = TxExp
  /\ Pace
  /\ UNCHANGED <<txNextSeq, txLastAcked, txState, txInFlight, txMissingCursor>>

\* The reported numbers are merged as they are, whatever has been
\* acknowledged since the report was made.
OnTxNakReceived(missing) ==
  /\ txMissing' = txMissing \cup missing
  /\ cc' = OnLoss(cc)
  /\ txFlowWindow' = RxInitialFlowWindow
  /\ txState' = "ACTIVE"
  /\ txExpTimer' = TxExp
  /\ Pace
  /\ UNCHANGED <<txNextSeq, txLastAcked, txInFlight, txMissingCursor>>
------------------------------------------------------------------------------
\* One driver tick passes.  The expiration time is read only in WAIT, and
\* every entry to WAIT sets it: it stands still otherwise.
TxTimePasses ==
  /\ txExpTimer' = IF txState = "WAIT" /\ txExpTimer > 0 THEN txExpTimer - 1 ELSE txExpTimer
  /\ txPaceTimer' = IF txPaceTimer > 0 THEN txPaceTimer - 1 ELSE txPaceTimer
  /\ UNCHANGED <<txNextSeq, txLastAcked, txState, txInFlight, txMissing,
                 txMissingCursor, txFlowWindow, cc>>
==============================================================================
