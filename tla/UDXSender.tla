------------------------------ MODULE UDXSender ------------------------------
(***************************************************************************)
(* The sender of the UDX protocol (tools/udtsim/udx.go, type SenderUDX     *)
(* with its CongestionWindow, FlowWindow and PacketPacing): Process and    *)
(* OnPacketReceived.                                                       *)
(*                                                                         *)
(* A SequenceMap is the set of its members.  Time is in calls of Process:  *)
(* a deadline is the number of calls left, and it is due at zero.  The     *)
(* flow window is counted in packets of averagePktSizeBytes.  nakMissing   *)
(* is rebuilt for every loss report and kept by nothing.                   *)
(***************************************************************************)
EXTENDS UDXConfig, SequencePolicy

CONSTANTS
  CWndMin, CWndMax, CWndInitial,
  FWndMin, FWndMax,  \* in packets
  PacingMin, PacingMax,
  TimeOutInterval

ASSUME SenderAssumption ==
  /\ CWndMin \in Nat \ {0}
  /\ CWndMax \in Nat
  /\ CWndInitial \in CWndMin..CWndMax
  /\ FWndMin \in Nat
  /\ FWndMax \in Nat
  /\ FWndMin <= FWndMax
  /\ PacingMin \in Nat
  /\ PacingMax \in Nat
  /\ PacingMin <= PacingMax
  /\ TimeOutInterval \in Nat \ {0}

VARIABLES
  txInFlight,       \* inFlight map
  txMissing,        \* missing map
  txMissingCursor,  \* its round-robin cursor
  txCwnd,           \* cwnd.Current
  txPacing,         \* pp.PacingUs
  txSendTimer,      \* until pp.NextSendUs
  txCurrentSeq,
  txTimeOut         \* until timeOutUs

txVars == <<txInFlight, txMissing, txMissingCursor, txCwnd, txPacing,
            txSendTimer, txCurrentSeq, txTimeOut>>

Clamp(v, lo, hi) == IF v < lo THEN lo ELSE IF v > hi THEN hi ELSE v

TxTypeOK ==
  /\ txInFlight \in SUBSET SeqNum
  /\ txMissing \in SUBSET SeqNum
  /\ txMissingCursor \in SeqNum
  /\ txCwnd \in CWndMin..CWndMax
  /\ txPacing \in PacingMin..PacingMax
  /\ txSendTimer \in 0..PacingMax
  /\ txCurrentSeq \in 0..MaxSeq
  /\ txTimeOut \in Nat

\* NewSenderUDX and Begin, at time zero.
TxInit ==
  /\ txInFlight = {}
  /\ txMissing = {}
  /\ txMissingCursor = 0
  /\ txCwnd = CWndInitial
  /\ txPacing = PacingMin
  /\ txSendTimer = 0
  /\ txCurrentSeq = 0
  /\ txTimeOut = TimeOutInterval
------------------------------------------------------------------------------
(* The two windows. *)

\* Mutant: the new window is not held to its bounds.
CwndUnclamped(cwnd) == cwnd + 1

CwndOnAck(cwnd) == Clamp(cwnd + 1, CWndMin, CWndMax)

CwndOnNak(cwnd) == Clamp(cwnd - (cwnd \div 8), CWndMin, CWndMax)

\* Every change of the congestion window is followed by an update of the flow
\* window to the same number of packets, within the flow window's own bounds.
FlowWindow(cwnd) == Clamp(cwnd, FWndMin, FWndMax)

AllowsPacket(cwnd) ==
  /\ Cardinality(txInFlight) < cwnd
  /\ Cardinality(txInFlight) + 1 <= FlowWindow(cwnd)
------------------------------------------------------------------------------
(* Process: first the timeout, then at most one packet. *)

TimedOut == txTimeOut = 0

\* What is in flight is queued for retransmission, and stays in flight.
QueuedMissing == IF TimedOut /\ txMissing = {} THEN txInFlight ELSE txMissing

CwndInCall == IF TimedOut THEN CwndOnNak(txCwnd) ELSE txCwnd

PacingInCall == IF TimedOut /\ txPacing = 0 THEN PacingMin ELSE txPacing

\* After its own timeout a call leaves timeOutUs at or past now, so the branches
\* that send never set it.
ProcessTimeout ==
  /\ txCwnd' = CwndInCall
  /\ txPacing' = PacingInCall
  /\ txTimeOut' = IF TimedOut THEN PacingInCall * CwndInCall ELSE txTimeOut

\* Mutant: the room is that of the windows before the timeout of this call.
MaySendBeforeTimeout == txSendTimer = 0 /\ AllowsPacket(txCwnd)

TxMaySend == txSendTimer = 0 /\ AllowsPacket(CwndInCall)

\* Retransmission goes first.
TxSendMissing(seq) ==
  /\ TxMaySend
  /\ IsNextSetFrom(QueuedMissing, txMissingCursor, seq)
  /\ txMissing' = QueuedMissing \ {seq}
  /\ txMissingCursor' = (seq + 1) % MaxSeq
  /\ txInFlight' = txInFlight \cup {seq}
  /\ txSendTimer' = PacingInCall
  /\ ProcessTimeout
  /\ UNCHANGED txCurrentSeq

TxSendNew(seq) ==
  /\ TxMaySend
  /\ QueuedMissing = {}
  /\ txCurrentSeq < MaxSeq
  /\ seq = txCurrentSeq
  /\ txMissing' = {}
  /\ txInFlight' = txInFlight \cup {seq}
  /\ txCurrentSeq' = txCurrentSeq + 1
  /\ txSendTimer' = PacingInCall
  /\ ProcessTimeout
  /\ UNCHANGED txMissingCursor

\* Paced, no room in a window, or nothing left to send.
TxQuiet ==
  /\ \/ ~TxMaySend
     \/ QueuedMissing = {} /\ txCurrentSeq = MaxSeq
  /\ txMissing' = QueuedMissing
  /\ ProcessTimeout
  /\ UNCHANGED <<txInFlight, txMissingCursor, txSendTimer, txCurrentSeq>>
------------------------------------------------------------------------------
(* OnPacketReceived. *)

\* RemoveRange(0, ackSeq+1).
UnackedMissing(ackSeq) == txMissing \ (0..ackSeq)

\* `sampled`: the acknowledgement carries a round-trip sample, which may give
\* any pacing between the bounds.
OnAckReceived(ackSeq, sampled) ==
  /\ txInFlight' = txInFlight \ (0..ackSeq)
  /\ txMissing' = UnackedMissing(ackSeq)
  /\ txCwnd' = CwndOnAck(txCwnd)
  /\ IF sampled THEN txPacing' \in PacingMin..PacingMax ELSE UNCHANGED txPacing
  /\ txTimeOut' = TimeOutInterval
  /\ UNCHANGED <<txMissingCursor, txSendTimer, txCurrentSeq>>

\* Mutant: a loss report queues nothing.
NotMerged(reported) == txMissing

MergedMissing(reported) == txMissing \cup reported

OnNakReceived(reported) ==
  /\ txMissing' = MergedMissing(reported)
  /\ txCwnd' = CwndOnNak(txCwnd)
  /\ txTimeOut' = txPacing * CwndOnNak(txCwnd)
  /\ UNCHANGED <<txInFlight, txMissingCursor, txPacing, txSendTimer, txCurrentSeq>>

\* The time of one call passes.
TxTimePasses ==
  /\ txSendTimer' = Clamp(txSendTimer - 1, 0, PacingMax)
  /\ txTimeOut' = IF txTimeOut > 0 THEN txTimeOut - 1 ELSE 0
  /\ UNCHANGED <<txInFlight, txMissing, txMissingCursor, txCwnd, txPacing, txCurrentSeq>>
==============================================================================
