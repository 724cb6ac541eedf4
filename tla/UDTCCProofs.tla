----------------------------- MODULE UDTCCProofs -----------------------------
(***************************************************************************)
(* Lemmas about the operators of module UDTCC, for every window setting:   *)
(* the transports that use the controller cite them.                       *)
(***************************************************************************)
EXTENDS UDTCC, TLAPS

USE CwndAssumption

\* A clamped value is a window the controller may have.
LEMMA ClampInRange ==
  ASSUME NEW v \in Int
  PROVE  ClampCwnd(v) \in CwndRange
BY DEF ClampCwnd, CwndRange

\* Every event of cc.go maps controller states to controller states.
LEMMA ControllerType ==
  ASSUME NEW c \in CCState, NEW ackSeq \in Nat, NEW rcOpen \in BOOLEAN
  PROVE  /\ OnPacketSent(c) \in CCState
         /\ OnAck(c, ackSeq, rcOpen) \in CCState
         /\ OnLoss(c) \in CCState
         /\ OnTimeout(c) \in CCState
<1>1. c.cwnd \in Nat
  BY DEF CCState, CwndRange
<1>2. OnPacketSent(c) \in CCState
  BY DEF OnPacketSent, CCState
<1>3. OnLoss(c) \in CCState
  <2>1. c.cwnd - (c.cwnd \div 8) \in Int
    BY <1>1
  <2>2. QED
    BY <2>1, ClampInRange DEF OnLoss, CCState
<1>4. OnTimeout(c) \in CCState
  <2>1. (IF c.cwnd > 1 THEN c.cwnd \div 2 ELSE c.cwnd) \in Int
    BY <1>1
  <2>2. QED
    BY <2>1, ClampInRange DEF OnTimeout, CCState
<1>5. ASSUME ackSeq > c.lastAckSeq
      PROVE  Acknowledged(c, ackSeq) \in CCState
  <2> DEFINE left == IF ackSeq - c.lastAckSeq >= c.inFlight
                     THEN 0 ELSE c.inFlight - (ackSeq - c.lastAckSeq)
  <2>1. left \in Nat
    BY <1>5 DEF CCState
  <2>2. Acknowledged(c, ackSeq) = [c EXCEPT !.lastAckSeq = ackSeq, !.inFlight = left]
    BY DEF Acknowledged
  <2> HIDE DEF left
  <2>3. QED
    BY <2>1, <2>2 DEF CCState
<1>6. ASSUME NEW d \in CCState, NEW acked \in Int
      PROVE  SlowStartGrowth(d, acked) \in CCState
  <2> DEFINE cwnd == ClampCwnd(d.cwnd + 2 * acked)
             more == cwnd < MaxCwnd
  <2>1. cwnd \in CwndRange
    BY ClampInRange DEF CCState, CwndRange
  <2>2. more \in BOOLEAN
    OBVIOUS
  <2>3. SlowStartGrowth(d, acked) = [d EXCEPT !.cwnd = cwnd, !.slowStart = more]
    BY DEF SlowStartGrowth
  <2> HIDE DEF cwnd, more
  <2>4. QED
    BY <2>1, <2>2, <2>3 DEF CCState
<1>7. ASSUME NEW d \in CCState
      PROVE  RateControlGrowth(d) \in CCState
  <2> DEFINE cwnd == ClampCwnd(d.cwnd + (IF d.cwnd >= 1024 THEN d.cwnd \div 1024 ELSE 1))
  <2>1. cwnd \in CwndRange
    BY ClampInRange DEF CCState, CwndRange
  <2>2. RateControlGrowth(d) \in {[d EXCEPT !.lossSinceRC = FALSE], [d EXCEPT !.cwnd = cwnd]}
    BY DEF RateControlGrowth
  <2> HIDE DEF cwnd
  <2>3. QED
    BY <2>1, <2>2 DEF CCState
<1>8. OnAck(c, ackSeq, rcOpen) \in CCState
  <2>1. ackSeq - c.lastAckSeq \in Int
    BY DEF CCState
  <2>2. c.lastAckSeq \in Nat
    BY DEF CCState
  <2>3. QED
    BY <1>5, <1>6, <1>7, <2>1, <2>2 DEF OnAck
<1>9. QED
  BY <1>2, <1>3, <1>4, <1>8

\* What the events do to the two fields the invariants speak of.
LEMMA ControllerCount ==
  ASSUME NEW c \in CCState, NEW ackSeq \in Nat, NEW rcOpen \in BOOLEAN
  PROVE  /\ OnPacketSent(c).inFlight = c.inFlight + 1
         /\ OnPacketSent(c).lastAckSeq = c.lastAckSeq
         /\ OnLoss(c).inFlight = c.inFlight
         /\ OnLoss(c).lastAckSeq = c.lastAckSeq
         /\ OnTimeout(c).inFlight = 0
         /\ OnTimeout(c).lastAckSeq = c.lastAckSeq
         /\ ackSeq <= c.lastAckSeq => OnAck(c, ackSeq, rcOpen) = c
         /\ ackSeq > c.lastAckSeq =>
              LET acked == ackSeq - c.lastAckSeq
                  d     == OnAck(c, ackSeq, rcOpen)
              IN  /\ d.lastAckSeq = ackSeq
                  /\ d.inFlight = IF acked >= c.inFlight THEN 0 ELSE c.inFlight - acked
<1>1. /\ OnPacketSent(c).inFlight = c.inFlight + 1
      /\ OnPacketSent(c).lastAckSeq = c.lastAckSeq
  BY DEF OnPacketSent, CCState
<1>2. /\ OnLoss(c).inFlight = c.inFlight
      /\ OnLoss(c).lastAckSeq = c.lastAckSeq
  BY DEF OnLoss, CCState
<1>3. /\ OnTimeout(c).inFlight = 0
      /\ OnTimeout(c).lastAckSeq = c.lastAckSeq
  BY DEF OnTimeout, CCState
<1>4. ackSeq <= c.lastAckSeq => OnAck(c, ackSeq, rcOpen) = c
  BY DEF OnAck
<1>5. ASSUME ackSeq > c.lastAckSeq
      PROVE  LET acked == ackSeq - c.lastAckSeq
                 d     == OnAck(c, ackSeq, rcOpen)
             IN  /\ d.lastAckSeq = ackSeq
                 /\ d.inFlight = IF acked >= c.inFlight THEN 0 ELSE c.inFlight - acked
  <2> DEFINE b == Acknowledged(c, ackSeq)
  <2>1. /\ b.lastAckSeq = ackSeq
        /\ b.inFlight = IF ackSeq - c.lastAckSeq >= c.inFlight
                        THEN 0 ELSE c.inFlight - (ackSeq - c.lastAckSeq)
        /\ DOMAIN b = {"cwnd", "inFlight", "lastAckSeq", "slowStart", "lossSinceRC"}
    BY DEF Acknowledged, CCState
  <2>2. ~(ackSeq <= c.lastAckSeq)
    BY <1>5 DEF CCState
  <2>3. /\ SlowStartGrowth(b, ackSeq - c.lastAckSeq).lastAckSeq = b.lastAckSeq
        /\ SlowStartGrowth(b, ackSeq - c.lastAckSeq).inFlight = b.inFlight
    BY <2>1 DEF SlowStartGrowth
  <2>4. /\ RateControlGrowth(b).lastAckSeq = b.lastAckSeq
        /\ RateControlGrowth(b).inFlight = b.inFlight
    BY <2>1 DEF RateControlGrowth
  <2>5. OnAck(c, ackSeq, rcOpen) \in
          {SlowStartGrowth(b, ackSeq - c.lastAckSeq), RateControlGrowth(b), b}
    BY <2>2 DEF OnAck
  <2>6. QED
    BY <2>1, <2>3, <2>4, <2>5
<1>6. QED
  BY <1>1, <1>2, <1>3, <1>4, <1>5
==============================================================================
