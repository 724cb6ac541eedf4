-------------------------------- MODULE UDTCC --------------------------------
(***************************************************************************)
(* The congestion controller of the udtsim sender (tools/udtsim/cc.go,     *)
(* type UDTCC) as operators on a record.                                   *)
(*                                                                         *)
(* Kept: the congestion window, the controller's own count of packets in   *)
(* flight, its cumulative acknowledgement, the slow-start and              *)
(* loss-since-rate-control flags.  Abstracted: the pacing interval         *)
(* (pacingUs, nextSendUs), which the sender module turns into a countdown, *)
(* and the rate-control clock (lastRCUs), whose answer "an interval has    *)
(* passed" is the argument rcOpen of OnAck, left free by the caller.       *)
(***************************************************************************)
EXTENDS Integers

CONSTANTS
  MinCwnd,      \* minCwnd, 2 in cc.go
  MaxCwnd,      \* maxCwnd, 8192 in cc.go
  InitialCwnd   \* the flag -initial-cwnd

ASSUME CwndAssumption ==
  /\ MinCwnd \in Nat \ {0}
  /\ MaxCwnd \in Nat
  /\ MinCwnd <= MaxCwnd
  /\ InitialCwnd \in Nat \ {0}

\* NewUDTCC does not clamp its argument, so the window may start outside
\* MinCwnd..MaxCwnd.
CwndRange == 1..(IF InitialCwnd > MaxCwnd THEN InitialCwnd ELSE MaxCwnd)

CCState == [cwnd        : CwndRange,
            inFlight    : Nat,
            lastAckSeq  : Nat,
            slowStart   : BOOLEAN,
            lossSinceRC : BOOLEAN]

NewUDTCC == [cwnd        |-> InitialCwnd,
             inFlight    |-> 0,
             lastAckSeq  |-> 0,
             slowStart   |-> TRUE,
             lossSinceRC |-> FALSE]

\* Mutant: clampU32 left out.
UnclampedCwnd(v) == v

ClampCwnd(v) == IF v < MinCwnd THEN MinCwnd ELSE IF v > MaxCwnd THEN MaxCwnd ELSE v

BudgetBeforeCongestion(c) == IF c.inFlight >= c.cwnd THEN 0 ELSE c.cwnd - c.inFlight

OnPacketSent(c) == [c EXCEPT !.inFlight = @ + 1]

\* Mutant: the last packet acknowledged stays in the controller's count.
AcknowledgedShort(c, ackSeq) ==
  LET acked == ackSeq - c.lastAckSeq - 1
  IN  [c EXCEPT !.lastAckSeq = ackSeq,
                !.inFlight   = IF acked >= @ THEN 0 ELSE @ - acked]

\* The part of OnAck that runs when the acknowledgement is new: `acked`
\* packets leave the controller's count, which stops at zero.
Acknowledged(c, ackSeq) ==
  LET acked == ackSeq - c.lastAckSeq
  IN  [c EXCEPT !.lastAckSeq = ackSeq,
                !.inFlight   = IF acked >= @ THEN 0 ELSE @ - acked]

\* Slow start: two packets of window for each packet acknowledged, until the
\* window reaches its maximum.
SlowStartGrowth(c, acked) ==
  LET cwnd == ClampCwnd(c.cwnd + 2 * acked)
  IN  [c EXCEPT !.cwnd = cwnd, !.slowStart = cwnd < MaxCwnd]

\* Rate control: the first interval after a loss only forgets the loss.
RateControlGrowth(c) ==
  IF c.lossSinceRC
  THEN [c EXCEPT !.lossSinceRC = FALSE]
  ELSE [c EXCEPT !.cwnd = ClampCwnd(@ + (IF @ >= 1024 THEN @ \div 1024 ELSE 1))]

OnAck(c, ackSeq, rcOpen) ==
  IF ackSeq <= c.lastAckSeq THEN c
  ELSE LET d == Acknowledged(c, ackSeq)
       IN  IF c.slowStart THEN SlowStartGrowth(d, ackSeq - c.lastAckSeq)
           ELSE IF rcOpen THEN RateControlGrowth(d)
           ELSE d

OnLoss(c) == [c EXCEPT !.slowStart   = FALSE,
                       !.lossSinceRC = TRUE,
                       !.cwnd        = ClampCwnd(@ - (@ \div 8))]

OnTimeout(c) == [c EXCEPT !.slowStart   = FALSE,
                          !.lossSinceRC = TRUE,
                          !.cwnd        = ClampCwnd(IF @ > 1 THEN @ \div 2 ELSE @),
                          !.inFlight    = 0]
==============================================================================
