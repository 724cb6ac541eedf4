------------------------------ MODULE UOBPSender ------------------------------
(***************************************************************************)
(* The sender of docs/tools/uobp/uobp_sim.go (type tx), one per object, as *)
(* operators on its record.                                                *)
(*                                                                         *)
(* Time is in passes of the driver loop, and a time limit is the number of *)
(* passes left.  The round-trip estimate only chooses a wait between five  *)
(* milliseconds and AckTimeoutMs, so a wait is any number of passes up to  *)
(* MaxWait.  NoProgressRounds is only compared with zero, beside the wait  *)
(* it scales: it is a Boolean.  AckedBlocks counts the bits of AckBitmap.  *)
(***************************************************************************)
EXTENDS UOBPObject, SequencePolicy

CONSTANTS
  AckLevelK,     \* data packets per ack level
  MinInflight,
  MaxInflight,
  AckTimeout,    \* AckTimeoutMs + 1, in passes
  InfoResend,    \* INFO_RESEND_MS, in passes
  MaxWait        \* the longest wait of a resend round, in passes

ASSUME SenderAssumption ==
  /\ AckLevelK \in Nat \ {0}
  /\ MinInflight \in Nat \ {0}
  /\ MaxInflight \in Nat
  /\ MinInflight <= MaxInflight
  /\ InfoResend \in Nat \ {0}
  /\ MaxWait \in Nat \ {0}
  /\ AckTimeout \in Nat
  /\ MaxWait < AckTimeout

Tx == [state          : {"INIT", "SENDING", "AWAITING_ACK", "CONFIRMED"},
       acked          : SUBSET Blocks,      \* AckBitmap
       sent           : SUBSET Blocks,      \* SentBitmap
       inFlight       : Nat,
       inflightLimit  : MinInflight..MaxInflight,
       nextSendIdx    : Blocks,
       ackReqLevel    : Levels,
       sentSinceBump  : 0..(AckLevelK - 1),
       inResendRounds : BOOLEAN,
       lastRoundAcked : 0..NumBlocks,
       noProgress     : BOOLEAN,            \* NoProgressRounds > 0
       wait           : 0..MaxWait,         \* until WaitUntilMs
       progress       : 0..AckTimeout,      \* until LastProgressMs times out
       info           : 0..InfoResend]      \* until OBJECT_INFO is sent again

NewTx ==
  [state |-> "INIT", acked |-> {}, sent |-> {}, inFlight |-> 0,
   inflightLimit |-> MinInflight, nextSendIdx |-> 0, ackReqLevel |-> 1,
   sentSinceBump |-> 0, inResendRounds |-> FALSE, lastRoundAcked |-> 0,
   noProgress |-> FALSE, wait |-> 0, progress |-> AckTimeout, info |-> 0]

\* Mutant: what was sent is taken for acknowledged.
IsFullySent(t) == t.sent = Blocks

IsFullyAcked(t) == t.acked = Blocks
------------------------------------------------------------------------------
(* Acknowledgements. *)

\* Mutant: blocks acknowledged before are counted again.
AllAcked(t, blocks) == blocks

NewlyAcked(t, blocks) == blocks \ t.acked

\* onAckBitmap with the onAck of each block.
OnAckBitmap(t, blocks) ==
  LET new   == NewlyAcked(t, blocks)
      count == Cardinality(new)
  IN  [t EXCEPT !.acked         = @ \cup new,
                !.inFlight      = IF count >= @ THEN 0 ELSE @ - count,
                !.inflightLimit = IF @ + count > MaxInflight THEN MaxInflight ELSE @ + count,
                !.progress      = IF new = {} THEN @ ELSE AckTimeout]

\* A late acknowledgement takes a confirmed sender back to AWAITING_ACK.
StepOnAck(t, level, blocks) ==
  LET u == OnAckBitmap(t, blocks)
  IN  [u EXCEPT !.noProgress = @ /\ level = 0,
                !.state      = IF IsFullyAcked(u) \/ u.inFlight > 0
                               THEN "AWAITING_ACK" ELSE "SENDING"]
------------------------------------------------------------------------------
(* A pass of the driver: stepTick. *)

InfoDue(t) == t.info = 0 /\ t.acked = {}

InfoSent(t) == IF InfoDue(t) THEN [t EXCEPT !.info = InfoResend] ELSE t

TimedOut(t) == t.progress = 0

TimeoutChecked(t) ==
  IF TimedOut(t)
  THEN [t EXCEPT !.inflightLimit = IF @ \div 2 < MinInflight THEN MinInflight ELSE @ \div 2,
                 !.progress      = AckTimeout]
  ELSE t

Unacked(t) == Blocks \ t.acked

Unsent(t) == Unacked(t) \ t.sent

Waits == 1..MaxWait

\* Mutant: the next index does not wrap.
NextUnwrapped(block) == block + 1

NextOf(block) == (block + 1) % NumBlocks

\* What the sender becomes by sending `block`; `wait` is the wait that the end
\* of a resend round sets.
BlockSent(t, block, wait) ==
  LET roundEnds == t.inResendRounds /\ NextOf(block) = 0
      bumps     == t.sentSinceBump + 1 >= AckLevelK
  IN  [t EXCEPT !.sent           = @ \cup {block},
                !.inFlight       = IF block \in t.sent THEN @ ELSE @ + 1,
                !.nextSendIdx    = NextOf(block),
                !.noProgress     = IF roundEnds
                                   THEN Cardinality(t.acked) = t.lastRoundAcked ELSE @,
                !.lastRoundAcked = IF roundEnds THEN Cardinality(t.acked) ELSE @,
                !.wait           = IF roundEnds THEN wait ELSE @,
                !.ackReqLevel    = IF bumps THEN (@ + 1) % LevelSpan ELSE @,
                !.sentSinceBump  = IF bumps THEN 0 ELSE @ + 1]

\* The first pass after everything was sent once; when few blocks are missing
\* it only sets a wait.
EntersRounds(t) == Unsent(t) = {} /\ ~t.inResendRounds

InRounds(t) ==
  IF EntersRounds(t)
  THEN [t EXCEPT !.inResendRounds = TRUE, !.lastRoundAcked = Cardinality(t.acked)]
  ELSE t

DefersResend(t) == EntersRounds(t) /\ Cardinality(Unacked(t)) < AckLevelK

\* Mutant: a timeout forces no retransmission.
HeldEvenIfForced(t, force) == t.noProgress /\ t.inFlight > 0

\* After a round without progress only a timeout forces a retransmission.
HeldBack(t, force) == ~force /\ t.noProgress /\ t.inFlight > 0

\* Blocks never sent go first.
Candidates(t) == IF Unsent(t) # {} THEN Unsent(t) ELSE Unacked(t)

\* Which block maybeSendData picks, if any.
Picks(t, force, block) ==
  /\ t.wait = 0
  /\ ~DefersResend(t)
  /\ Unsent(t) = {} => ~HeldBack(t, force)
  /\ IsNextSetFrom(Candidates(t), t.nextSendIdx, block)

\* The sender after maybeSendData when it sends nothing.
NothingSent(t, wait) ==
  LET u == IF t.wait > 0 THEN t
           ELSE [InRounds(t) EXCEPT !.wait = IF DefersResend(t) THEN wait ELSE @]
  IN  [u EXCEPT !.state = IF t.inFlight > 0 THEN "AWAITING_ACK" ELSE "SENDING"]

TimePasses(t) ==
  [t EXCEPT !.wait     = IF @ > 0 THEN @ - 1 ELSE 0,
            !.progress = IF @ > 0 THEN @ - 1 ELSE 0,
            !.info     = IF @ > 0 THEN @ - 1 ELSE 0]
==============================================================================
