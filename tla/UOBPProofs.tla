------------------------------ MODULE UOBPProofs ------------------------------
(***************************************************************************)
(* Theorems about the object transfer of module UOBP, for every value of   *)
(* the constants: type correctness, the exact count in flight, and the     *)
(* implementation of ObjectTransfer.                                       *)
(***************************************************************************)
EXTENDS UOBP, SequencePolicyProofs, FiniteSetTheorems

USE ObjectAssumption, SenderAssumption, ReceiverAssumption, LatencyAssumption,
    DriverAssumption
------------------------------------------------------------------------------
(* Blocks are finitely many, and counted. *)

LEMMA BlocksFinite ==
  /\ IsFiniteSet(Blocks)
  /\ Cardinality(Blocks) = NumBlocks
BY FS_Interval DEF Blocks

LEMMA BlockCount ==
  ASSUME NEW S, S \subseteq Blocks
  PROVE  /\ IsFiniteSet(S)
         /\ Cardinality(S) \in 0..NumBlocks
         /\ Cardinality(S) \in Nat
<1>1. IsFiniteSet(S) /\ Cardinality(S) <= Cardinality(Blocks)
  BY BlocksFinite, FS_Subset
<1>2. Cardinality(S) \in Nat
  BY <1>1, FS_CardinalityType
<1>3. QED
  BY <1>1, <1>2, BlocksFinite

\* Adding one new block to a set of blocks, and taking out a part of it.
LEMMA CountAdded ==
  ASSUME NEW S, S \subseteq Blocks, NEW b \in Blocks, b \notin S
  PROVE  Cardinality(S \cup {b}) = Cardinality(S) + 1
BY BlockCount, FS_AddElement

LEMMA CountRemoved ==
  ASSUME NEW S, S \subseteq Blocks, NEW T, T \subseteq S
  PROVE  /\ Cardinality(S \ T) = Cardinality(S) - Cardinality(T)
         /\ Cardinality(T) <= Cardinality(S)
<1>1. IsFiniteSet(S)
  BY BlockCount
<1>2. Cardinality(T) <= Cardinality(S)
  BY <1>1, FS_Subset
<1>3. S \cap T = T
  OBVIOUS
<1>4. Cardinality(S \ T) = Cardinality(S) - Cardinality(S \cap T)
  BY <1>1, FS_Difference
<1>5. QED
  BY <1>2, <1>3, <1>4
------------------------------------------------------------------------------
(* The sender's operators keep its record's type. *)

LEMMA ModRange ==
  ASSUME NEW a \in Nat, NEW n \in Nat \ {0}
  PROVE  a % n \in 0..(n - 1)
OBVIOUS

LEMMA TickTypes ==
  ASSUME NEW t \in Tx
  PROVE  /\ InfoSent(t) \in Tx
         /\ TimeoutChecked(t) \in Tx
         /\ InRounds(t) \in Tx
         /\ TimePasses(t) \in Tx
<1>1. InfoSent(t) \in Tx
  BY DEF InfoSent, Tx
<1>2. TimeoutChecked(t) \in Tx
  <2> DEFINE limit == IF t.inflightLimit \div 2 < MinInflight
                      THEN MinInflight ELSE t.inflightLimit \div 2
  <2>1. t.inflightLimit \in MinInflight..MaxInflight
    BY DEF Tx
  <2>2. t.inflightLimit \div 2 <= t.inflightLimit /\ t.inflightLimit \div 2 \in Nat
    BY <2>1
  <2>3. limit \in MinInflight..MaxInflight
    BY <2>1, <2>2
  <2>4. TimeoutChecked(t) \in {t, [t EXCEPT !.inflightLimit = limit, !.progress = AckTimeout]}
    BY DEF TimeoutChecked
  <2> HIDE DEF limit
  <2>5. [t EXCEPT !.inflightLimit = limit, !.progress = AckTimeout] \in Tx
    <3>1. AckTimeout \in 0..AckTimeout
      OBVIOUS
    <3>2. [t EXCEPT !.inflightLimit = limit] \in Tx
      BY <2>3 DEF Tx
    <3>3. QED
      BY <3>1, <3>2 DEF Tx
  <2>6. QED
    BY <2>4, <2>5
<1>3. InRounds(t) \in Tx
  <2>1. Cardinality(t.acked) \in 0..NumBlocks
    BY BlockCount DEF Tx
  <2>2. QED
    BY <2>1 DEF InRounds, Tx
<1>4. TimePasses(t) \in Tx
  <2>1. /\ (IF t.wait > 0 THEN t.wait - 1 ELSE 0) \in 0..MaxWait
        /\ (IF t.progress > 0 THEN t.progress - 1 ELSE 0) \in 0..AckTimeout
        /\ (IF t.info > 0 THEN t.info - 1 ELSE 0) \in 0..InfoResend
    BY DEF Tx
  <2>2. QED
    BY <2>1 DEF TimePasses, Tx
<1>5. QED
  BY <1>1, <1>2, <1>3, <1>4

LEMMA SendTypes ==
  ASSUME NEW t \in Tx, NEW block \in Blocks, NEW wait \in Waits
  PROVE  /\ BlockSent(t, block, wait) \in Tx
         /\ NothingSent(t, wait) \in Tx
<1>1. wait \in 0..MaxWait
  BY DEF Waits
<1>2. BlockSent(t, block, wait) \in Tx
  <2> DEFINE roundEnds == t.inResendRounds /\ NextOf(block) = 0
             bumps     == t.sentSinceBump + 1 >= AckLevelK
             count     == IF block \in t.sent THEN t.inFlight ELSE t.inFlight + 1
             same      == IF roundEnds THEN Cardinality(t.acked) = t.lastRoundAcked
                          ELSE t.noProgress
             last      == IF roundEnds THEN Cardinality(t.acked) ELSE t.lastRoundAcked
             waits     == IF roundEnds THEN wait ELSE t.wait
             level     == IF bumps THEN (t.ackReqLevel + 1) % LevelSpan ELSE t.ackReqLevel
             since     == IF bumps THEN 0 ELSE t.sentSinceBump + 1
  <2>1. Cardinality(t.acked) \in 0..NumBlocks
    BY BlockCount DEF Tx
  <2>2. NextOf(block) \in Blocks
    BY ModRange DEF NextOf, Blocks
  <2>3. count \in Nat
    BY DEF Tx
  <2>4. level \in Levels
    <3>1. t.ackReqLevel \in Levels
      BY DEF Tx
    <3>2. t.ackReqLevel + 1 \in Nat /\ LevelSpan \in Nat \ {0}
      BY <3>1 DEF Levels
    <3>3. QED
      BY <3>1, <3>2, ModRange DEF Levels
  <2>5. since \in 0..(AckLevelK - 1)
    BY DEF Tx
  <2>6. same \in BOOLEAN /\ last \in 0..NumBlocks /\ waits \in 0..MaxWait
    BY <1>1, <2>1 DEF Tx
  <2>7. t.sent \cup {block} \in SUBSET Blocks
    BY DEF Tx
  <2>8. BlockSent(t, block, wait) =
          [t EXCEPT !.sent = t.sent \cup {block}, !.inFlight = count,
                    !.nextSendIdx = NextOf(block), !.noProgress = same,
                    !.lastRoundAcked = last, !.wait = waits, !.ackReqLevel = level,
                    !.sentSinceBump = since]
    BY DEF BlockSent, Tx
  <2> HIDE DEF roundEnds, bumps, count, same, last, waits, level, since
  <2>9. [t EXCEPT !.sent = t.sent \cup {block}, !.inFlight = count] \in Tx
    BY <2>3, <2>7 DEF Tx
  <2>10. ASSUME NEW u \in Tx
         PROVE  [u EXCEPT !.nextSendIdx = NextOf(block), !.noProgress = same] \in Tx
    BY <2>2, <2>6 DEF Tx
  <2>11. ASSUME NEW u \in Tx
         PROVE  [u EXCEPT !.lastRoundAcked = last, !.wait = waits] \in Tx
    BY <2>6 DEF Tx
  <2>12. ASSUME NEW u \in Tx
         PROVE  [u EXCEPT !.ackReqLevel = level, !.sentSinceBump = since] \in Tx
    BY <2>4, <2>5 DEF Tx
  <2>13. BlockSent(t, block, wait) =
           [[[[t EXCEPT !.sent = t.sent \cup {block}, !.inFlight = count]
                 EXCEPT !.nextSendIdx = NextOf(block), !.noProgress = same]
                 EXCEPT !.lastRoundAcked = last, !.wait = waits]
                 EXCEPT !.ackReqLevel = level, !.sentSinceBump = since]
    BY <2>8 DEF Tx
  <2>14. QED
    BY <2>9, <2>10, <2>11, <2>12, <2>13
<1>3. NothingSent(t, wait) \in Tx
  <2> DEFINE w == IF DefersResend(t) THEN wait ELSE InRounds(t).wait
             u == IF t.wait > 0 THEN t ELSE [InRounds(t) EXCEPT !.wait = w]
             s == IF t.inFlight > 0 THEN "AWAITING_ACK" ELSE "SENDING"
  <2>1. InRounds(t) \in Tx
    BY TickTypes
  <2>2. w \in 0..MaxWait
    BY <1>1, <2>1 DEF Tx
  <2>3. NothingSent(t, wait) = [u EXCEPT !.state = s]
    BY DEF NothingSent
  <2> HIDE DEF w
  <2>4. u \in Tx
    BY <2>1, <2>2 DEF Tx
  <2> HIDE DEF u
  <2>5. QED
    BY <2>3, <2>4 DEF Tx
<1>4. QED
  BY <1>2, <1>3

LEMMA AckTypes ==
  ASSUME NEW t \in Tx, NEW level \in Levels, NEW blocks, blocks \subseteq Blocks
  PROVE  StepOnAck(t, level, blocks) \in Tx
<1> DEFINE count == Cardinality(NewlyAcked(t, blocks))
           left  == IF count >= t.inFlight THEN 0 ELSE t.inFlight - count
           limit == IF t.inflightLimit + count > MaxInflight
                    THEN MaxInflight ELSE t.inflightLimit + count
           time  == IF NewlyAcked(t, blocks) = {} THEN t.progress ELSE AckTimeout
           u     == OnAckBitmap(t, blocks)
<1>1. NewlyAcked(t, blocks) \subseteq Blocks
  BY DEF NewlyAcked
<1>2. count \in Nat
  BY <1>1, BlockCount
<1>3. left \in Nat /\ limit \in MinInflight..MaxInflight /\ time \in 0..AckTimeout
  BY <1>2 DEF Tx
<1>4. u = [t EXCEPT !.acked = t.acked \cup NewlyAcked(t, blocks), !.inFlight = left,
                    !.inflightLimit = limit, !.progress = time]
  BY DEF OnAckBitmap
<1> HIDE DEF count, left, limit, time
<1>5. u \in Tx
  BY <1>1, <1>3, <1>4 DEF Tx
<1> HIDE DEF u
<1>6. StepOnAck(t, level, blocks) =
        [u EXCEPT !.noProgress = u.noProgress /\ level = 0,
                  !.state = IF IsFullyAcked(u) \/ u.inFlight > 0
                            THEN "AWAITING_ACK" ELSE "SENDING"]
  BY DEF StepOnAck, u
<1>7. (u.noProgress /\ level = 0) \in BOOLEAN
  OBVIOUS
<1>8. QED
  BY <1>5, <1>6, <1>7 DEF Tx
------------------------------------------------------------------------------
(* What the sender's operators do to the fields the invariant speaks of. *)

Counts(u, t) == u.acked = t.acked /\ u.sent = t.sent /\ u.inFlight = t.inFlight

LEMMA TickCounts ==
  ASSUME NEW t \in Tx, NEW wait \in Waits
  PROVE  /\ Counts(InfoSent(t), t)
         /\ Counts(TimeoutChecked(t), t)
         /\ Counts(InRounds(t), t)
         /\ Counts(TimePasses(t), t)
         /\ Counts(NothingSent(t, wait), t)
<1>1. Counts(InfoSent(t), t)
  BY DEF InfoSent, Counts, Tx
<1>2. Counts(TimeoutChecked(t), t)
  BY DEF TimeoutChecked, Counts, Tx
<1>3. Counts(InRounds(t), t)
  BY DEF InRounds, Counts, Tx
<1>4. Counts(TimePasses(t), t)
  BY DEF TimePasses, Counts, Tx
<1>5. Counts(NothingSent(t, wait), t)
  <2>1. InRounds(t) \in Tx
    BY TickTypes
  <2>2. QED
    BY <1>3, <2>1 DEF NothingSent, Counts, Tx
<1>6. QED
  BY <1>1, <1>2, <1>3, <1>4, <1>5

LEMMA SendCounts ==
  ASSUME NEW t \in Tx, NEW block \in Blocks, NEW wait \in Waits
  PROVE  LET u == BlockSent(t, block, wait)
         IN  /\ u.acked = t.acked
             /\ u.sent = t.sent \cup {block}
             /\ u.inFlight = IF block \in t.sent THEN t.inFlight ELSE t.inFlight + 1
BY DEF BlockSent, Tx

LEMMA AckCounts ==
  ASSUME NEW t \in Tx, NEW level \in Levels, NEW blocks, blocks \subseteq Blocks
  PROVE  LET u == StepOnAck(t, level, blocks)
             n == Cardinality(blocks \ t.acked)
         IN  /\ u.acked = t.acked \cup blocks
             /\ u.sent = t.sent
             /\ u.inFlight = IF n >= t.inFlight THEN 0 ELSE t.inFlight - n
<1>1. /\ OnAckBitmap(t, blocks).acked = t.acked \cup blocks
      /\ OnAckBitmap(t, blocks).sent = t.sent
      /\ OnAckBitmap(t, blocks).inFlight =
           IF Cardinality(blocks \ t.acked) >= t.inFlight THEN 0
           ELSE t.inFlight - Cardinality(blocks \ t.acked)
      /\ DOMAIN OnAckBitmap(t, blocks) = DOMAIN t
  BY DEF OnAckBitmap, NewlyAcked, Tx
<1>2. Counts(StepOnAck(t, level, blocks), OnAckBitmap(t, blocks))
  BY <1>1 DEF StepOnAck, Counts, Tx
<1>3. QED
  BY <1>1, <1>2 DEF Counts
------------------------------------------------------------------------------
(* The inductive invariant. *)

\* The blocks an acknowledgement names.
NamedBy(q) == 0..(q.pkt.prefix - 1) \cup q.pkt.blocks

\* A slot that is complete was counted, a free slot is empty.
SlotsInv ==
  \A o \in Objects :
    /\ slots[o].state = "COMPLETED_AWAIT_CONFIRM" => o \in seen
    /\ slots[o].state = "IDLE" => slots[o].bitmap = {}

\* What is known was stored, and what was stored was sent.
ChainInv == \A o \in Objects : tx[o].acked \subseteq Held[o] /\ Held[o] \subseteq tx[o].sent

\* Data under way was sent, and what acknowledgements under way name was stored.
PipesInv ==
  /\ \A q \in a2b : q.pkt.type = "DATA" => q.pkt.block \in tx[q.pkt.object].sent
  /\ \A q \in b2a : NamedBy(q) \subseteq Held[q.pkt.object]

IndInv == TypeOK /\ InFlightIsExact /\ SlotsInv /\ ChainInv /\ PipesInv
------------------------------------------------------------------------------
(* The pipes. *)

\* Enqueue adds at most the given packets, each with a legal latency, and
\* stays within the loss bound.
LEMMA EnqueueEffect ==
  ASSUME NEW queue, NEW after, NEW packets, IsFiniteSet(packets),
         losses \in 0..MaxLoss, Enqueue(queue, after, packets)
  PROVE  /\ losses' \in 0..MaxLoss
         /\ \A q \in after :
              q \in queue \/ \E p \in packets, d \in Latencies : q = [pkt |-> p, due |-> d]
<1>1. PICK dropped \in SUBSET packets :
        /\ losses + Cardinality(dropped) <= MaxLoss
        /\ losses' = losses + Cardinality(dropped)
        /\ after \in Enqueued(queue, packets \ dropped)
  BY DEF Enqueue
<1>2. Cardinality(dropped) \in Nat
  BY FS_Subset, FS_CardinalityType
<1>3. losses' \in 0..MaxLoss
  BY <1>1, <1>2
<1>4. PICK latency \in [packets \ dropped -> Latencies] :
        after = queue \cup {[pkt |-> p, due |-> latency[p]] : p \in packets \ dropped}
  BY <1>1 DEF Enqueued
<1>5. QED
  BY <1>3, <1>4

\* The same, for the type of the queue.
LEMMA EnqueueType ==
  ASSUME NEW kinds, NEW queue \in SUBSET InTransit(kinds), NEW after,
         NEW packets \in SUBSET kinds, IsFiniteSet(packets),
         losses \in 0..MaxLoss, Enqueue(queue, after, packets)
  PROVE  after \subseteq InTransit(kinds)
<1>1. \A q \in after :
        q \in queue \/ \E p \in packets, d \in Latencies : q = [pkt |-> p, due |-> d]
  BY EnqueueEffect
<1>2. QED
  BY <1>1 DEF InTransit

LEMMA TickPassesType ==
  ASSUME NEW kinds, NEW queue \in SUBSET InTransit(kinds), DuePackets(queue) = {}
  PROVE  TickPasses(queue) \subseteq InTransit(kinds)
BY DEF InTransit, DuePackets, TickPasses, Latencies

\* Time leaves the packets under way what they are.
LEMMA TickPassesPackets ==
  ASSUME NEW kinds, NEW queue \in SUBSET InTransit(kinds), NEW q \in TickPasses(queue)
  PROVE  \E p \in queue : p.pkt = q.pkt
BY DEF InTransit, TickPasses
------------------------------------------------------------------------------
(* The steps of the senders. *)

\* A sender that sends `packets`, acknowledges nothing new and keeps its count
\* exact preserves the invariant.
LEMMA SenderSends ==
  ASSUME IndInv, NEW o \in Objects, NEW u \in Tx,
         tx' = [tx EXCEPT ![o] = u],
         u.acked = tx[o].acked, tx[o].sent \subseteq u.sent,
         u.inFlight = Cardinality(u.sent \ u.acked),
         NEW packets \in SUBSET DataPackets, IsFiniteSet(packets),
         \A p \in packets : p.type = "DATA" => p.object = o /\ p.block \in u.sent,
         Enqueue(a2b, a2b', packets),
         turn' \in 0..Stopped,
         UNCHANGED <<slots, b2a, completed, seen>>
  PROVE  IndInv'
<1> USE DEF IndInv
<1>1. tx \in [Objects -> Tx] /\ losses \in 0..MaxLoss /\ a2b \in SUBSET InTransit(DataPackets)
  BY DEF TypeOK
<1>2. \A i \in Objects :
        /\ tx'[i].acked = tx[i].acked
        /\ tx[i].sent \subseteq tx'[i].sent
  BY <1>1
<1>3. Held' = Held
  BY DEF Held
<1>4. TypeOK'
  BY <1>1, EnqueueEffect, EnqueueType DEF TypeOK
<1>5. InFlightIsExact'
  BY <1>1 DEF InFlightIsExact
<1>6. SlotsInv' /\ ChainInv'
  BY <1>2, <1>3 DEF SlotsInv, ChainInv
<1>7. PipesInv'
  <2>1. \A q \in a2b' :
          q \in a2b \/ \E p \in packets, d \in Latencies : q = [pkt |-> p, due |-> d]
    BY <1>1, EnqueueEffect
  <2>2. ASSUME NEW q \in a2b', q.pkt.type = "DATA"
        PROVE  q.pkt.block \in tx'[q.pkt.object].sent
    <3>1. CASE q \in a2b
      <4>1. q.pkt.object \in Objects
        BY <1>1, <3>1 DEF InTransit, DataPackets
      <4>2. QED
        BY <1>2, <2>2, <3>1, <4>1 DEF PipesInv
    <3>2. CASE \E p \in packets, d \in Latencies : q = [pkt |-> p, due |-> d]
      <4>1. PICK p \in packets : q.pkt = p
        BY <3>2
      <4>2. p.object = o /\ p.block \in u.sent
        BY <2>2, <4>1
      <4>3. QED
        BY <1>1, <4>1, <4>2
    <3>3. QED
      BY <2>1, <3>1, <3>2
  <2>3. \A q \in b2a' : NamedBy(q)' \subseteq Held'[q.pkt.object]
    BY <1>3 DEF PipesInv, NamedBy
  <2>4. QED
    BY <2>2, <2>3 DEF PipesInv
<1>8. QED
  BY <1>4, <1>5, <1>6, <1>7

LEMMA TurnType ==
  ASSUME NEW o \in Objects, Turn(o)
  PROVE  turn' \in 0..Stopped
BY DEF Turn, Objects, Stopped

LEMMA IdleTickInv ==
  ASSUME IndInv, NEW o \in Objects, IdleTick(o)
  PROVE  IndInv'
<1>1. turn' \in 0..Stopped /\ UNCHANGED <<tx, slots, a2b, b2a, completed, seen, losses>>
  BY TurnType DEF IdleTick
<1>2. QED
  BY <1>1 DEF IndInv, TypeOK, InFlightIsExact, SlotsInv, ChainInv, PipesInv, Held, NamedBy

LEMMA ConfirmTickInv ==
  ASSUME IndInv, NEW o \in Objects, ConfirmTick(o)
  PROVE  IndInv'
<1> DEFINE u == [tx[o] EXCEPT !.state = "CONFIRMED"]
<1>1. tx \in [Objects -> Tx]
  BY DEF IndInv, TypeOK
<1>2. tx' = [tx EXCEPT ![o] = u]
  BY <1>1 DEF ConfirmTick
<1>3. u \in Tx /\ Counts(u, tx[o])
  BY <1>1 DEF Tx, Counts
<1>4. u.inFlight = Cardinality(u.sent \ u.acked)
  BY <1>3 DEF Counts, IndInv, InFlightIsExact
<1>5. {ConfirmPacket(o)} \in SUBSET DataPackets /\ IsFiniteSet({ConfirmPacket(o)})
  <2>1. ConfirmPacket(o) \in DataPackets
    BY DEF ConfirmPacket, DataPackets
  <2>2. IsFiniteSet({ConfirmPacket(o)})
    BY FS_Singleton, Zenon
  <2>3. QED
    BY <2>1, <2>2, Zenon
<1>6. \A p \in {ConfirmPacket(o)} : p.type # "DATA"
  BY DEF ConfirmPacket
<1>7. /\ Enqueue(a2b, a2b', {ConfirmPacket(o)})
      /\ turn' \in 0..Stopped
      /\ UNCHANGED <<slots, b2a, completed, seen>>
  BY TurnType DEF ConfirmTick
<1> HIDE DEF u
<1>8. QED
  BY <1>2, <1>3, <1>4, <1>5, <1>6, <1>7, SenderSends DEF Counts

LEMMA TransferTickInv ==
  ASSUME IndInv, NEW o \in Objects, TransferTick(o)
  PROVE  IndInv'
<1> DEFINE t     == TimeoutChecked(InfoSent(tx[o]))
           info  == IF InfoDue(tx[o]) THEN {InfoPacket(o)} ELSE {}
           force == TimedOut(tx[o])
<1>1. tx[o] \in Tx
  BY DEF IndInv, TypeOK
<1>2. t \in Tx /\ Counts(t, tx[o])
  <2>1. PICK wait : wait \in Waits
    BY DEF Waits
  <2>2. InfoSent(tx[o]) \in Tx /\ Counts(InfoSent(tx[o]), tx[o])
    BY <1>1, <2>1, TickTypes, TickCounts
  <2>3. t \in Tx /\ Counts(t, InfoSent(tx[o]))
    BY <2>1, <2>2, TickTypes, TickCounts
  <2>4. QED
    BY <2>2, <2>3 DEF Counts
<1>3. info \in SUBSET DataPackets /\ IsFiniteSet(info) /\ \A p \in info : p.type # "DATA"
  <2>1. InfoPacket(o) \in DataPackets /\ InfoPacket(o).type # "DATA"
    BY DEF InfoPacket, DataPackets
  <2>2. IsFiniteSet({InfoPacket(o)}) /\ IsFiniteSet({})
    BY FS_Singleton, FS_EmptySet, Zenon
  <2>3. info = {InfoPacket(o)} \/ info = {}
    OBVIOUS
  <2> HIDE DEF info
  <2>4. QED
    BY <2>1, <2>2, <2>3
<1>4. tx[o].inFlight = Cardinality(tx[o].sent \ tx[o].acked)
  BY DEF IndInv, InFlightIsExact
<1>5. turn' \in 0..Stopped /\ UNCHANGED <<slots, b2a, completed, seen>>
  BY TurnType DEF TransferTick
<1>6. PICK wait \in Waits :
        \/ \E block \in Blocks :
             LET u == BlockSent(InRounds(t), block, wait)
             IN  /\ Picks(t, force, block)
                 /\ tx' = [tx EXCEPT ![o] = [u EXCEPT !.state = "SENDING"]]
                 /\ Enqueue(a2b, a2b', info \cup {DataPacket(o, block, u.ackReqLevel)})
        \/ /\ tx' = [tx EXCEPT ![o] = NothingSent(t, wait)]
           /\ Enqueue(a2b, a2b', info)
  BY DEF TransferTick
<1> HIDE DEF t, info, force
<1>7. ASSUME NEW block \in Blocks, Picks(t, force, block),
             tx' = [tx EXCEPT ![o] = [BlockSent(InRounds(t), block, wait) EXCEPT !.state = "SENDING"]],
             Enqueue(a2b, a2b',
                     info \cup {DataPacket(o, block, BlockSent(InRounds(t), block, wait).ackReqLevel)})
      PROVE  IndInv'
  <2> DEFINE b      == BlockSent(InRounds(t), block, wait)
             u      == [b EXCEPT !.state = "SENDING"]
             packet == DataPacket(o, block, b.ackReqLevel)
  <2>1. InRounds(t) \in Tx /\ Counts(InRounds(t), t)
    BY <1>2, TickTypes, TickCounts
  <2>2. b \in Tx
    BY <2>1, SendTypes
  <2>3. /\ b.acked = t.acked
        /\ b.sent = t.sent \cup {block}
        /\ b.inFlight = IF block \in t.sent THEN t.inFlight ELSE t.inFlight + 1
    BY <2>1, SendCounts DEF Counts
  <2>4. b.ackReqLevel \in Levels
    BY <2>2 DEF Tx
  <2> HIDE DEF b
  <2>5. u \in Tx /\ Counts(u, b)
    BY <2>2 DEF Tx, Counts
  <2>6. block \notin t.acked
    BY <1>7, <1>2 DEF Picks, IsNextSetFrom, IsLowest, Candidates, Unsent, Unacked, Tx
  <2>7. u.inFlight = Cardinality(u.sent \ u.acked)
    <3>1. t.inFlight = Cardinality(t.sent \ t.acked)
      BY <1>2, <1>4 DEF Counts
    <3>2. t.sent \ t.acked \subseteq Blocks
      BY <1>2 DEF Tx
    <3>3. CASE block \in t.sent
      <4>1. u.sent \ u.acked = t.sent \ t.acked
        BY <2>3, <2>5, <3>3 DEF Counts
      <4>2. QED
        BY <2>3, <2>5, <3>1, <3>3, <4>1 DEF Counts
    <3>4. CASE block \notin t.sent
      <4>1. u.sent \ u.acked = (t.sent \ t.acked) \cup {block}
        BY <2>3, <2>5, <2>6 DEF Counts
      <4>2. Cardinality((t.sent \ t.acked) \cup {block}) = Cardinality(t.sent \ t.acked) + 1
        BY <3>2, <3>4, CountAdded
      <4>3. QED
        BY <2>3, <2>5, <3>1, <3>4, <4>1, <4>2 DEF Counts
    <3>5. QED
      BY <3>3, <3>4
  <2>8. packet \in DataPackets /\ packet.type = "DATA" /\ packet.object = o /\ packet.block = block
    BY <2>4 DEF DataPacket, DataPackets
  <2> HIDE DEF packet
  <2>9. info \cup {packet} \in SUBSET DataPackets /\ IsFiniteSet(info \cup {packet})
    BY <1>3, <2>8, FS_AddElement
  <2>10. \A p \in info \cup {packet} : p.type = "DATA" => p.object = o /\ p.block \in u.sent
    BY <1>3, <2>3, <2>5, <2>8 DEF Counts
  <2>11. u.acked = tx[o].acked /\ tx[o].sent \subseteq u.sent
    BY <1>2, <2>3, <2>5 DEF Counts
  <2>12. tx' = [tx EXCEPT ![o] = u] /\ Enqueue(a2b, a2b', info \cup {packet})
    BY <1>7 DEF b, packet
  <2> HIDE DEF u
  <2>13. QED
    BY <1>5, <2>5, <2>7, <2>9, <2>10, <2>11, <2>12, SenderSends
<1>8. ASSUME tx' = [tx EXCEPT ![o] = NothingSent(t, wait)], Enqueue(a2b, a2b', info)
      PROVE  IndInv'
  <2>1. NothingSent(t, wait) \in Tx /\ Counts(NothingSent(t, wait), tx[o])
    <3>1. 0 \in Blocks
      BY DEF Blocks
    <3>2. NothingSent(t, wait) \in Tx
      BY <1>2, <3>1, SendTypes
    <3>3. Counts(NothingSent(t, wait), t)
      BY <1>2, TickCounts
    <3>4. QED
      BY <1>2, <3>2, <3>3 DEF Counts
  <2>2. QED
    BY <1>3, <1>4, <1>5, <1>8, <2>1, SenderSends DEF Counts
<1>9. QED
  BY <1>6, <1>7, <1>8
------------------------------------------------------------------------------
(* The arrival of acknowledgements. *)

\* The packet types: an acknowledgement names blocks of its object.
LEMMA AckPacketType ==
  ASSUME TypeOK, NEW q \in b2a
  PROVE  /\ q.pkt.object \in Objects
         /\ q.pkt.level \in Levels
         /\ NamedBy(q) \subseteq Blocks
<1>1. q.pkt \in AckPackets
  BY DEF TypeOK, InTransit
<1>2. q.pkt.prefix \in 0..NumBlocks /\ q.pkt.blocks \subseteq Blocks
  BY <1>1 DEF AckPackets
<1>3. 0..(q.pkt.prefix - 1) \subseteq Blocks
  BY <1>2 DEF Blocks
<1>4. QED
  BY <1>1, <1>2, <1>3 DEF AckPackets, NamedBy

LEMMA HandleAckInv ==
  ASSUME IndInv, NEW q \in b2a, HandleAck(q)
  PROVE  IndInv'
<1> DEFINE o == q.pkt.object
           b == NamedBy(q)
           t == tx[o]
           u == StepOnAck(t, q.pkt.level, b)
           n == Cardinality(b \ t.acked)
<1> USE DEF IndInv
<1>1. o \in Objects /\ q.pkt.level \in Levels /\ b \subseteq Blocks
  BY AckPacketType
<1>2. t \in Tx /\ tx \in [Objects -> Tx]
  BY <1>1 DEF TypeOK
<1>3. u \in Tx
  BY <1>1, <1>2, AckTypes
<1>4. u.acked = t.acked \cup b /\ u.sent = t.sent /\ u.inFlight = IF n >= t.inFlight THEN 0 ELSE t.inFlight - n
  BY <1>1, <1>2, AckCounts
<1>5. /\ tx' = [tx EXCEPT ![o] = u]
      /\ b2a' = b2a \ {q}
      /\ UNCHANGED <<slots, a2b, turn, completed, seen, losses>>
  BY <1>1, <1>2 DEF HandleAck, NamedBy
<1>6. b \subseteq Held[o] /\ t.acked \subseteq Held[o] /\ Held[o] \subseteq t.sent
  BY <1>1 DEF PipesInv, ChainInv
<1>7. t.inFlight = Cardinality(t.sent \ t.acked)
  BY <1>1 DEF InFlightIsExact
<1> HIDE DEF o, b, t, u, n
<1>8. u.inFlight = Cardinality(u.sent \ u.acked)
  <2>1. t.sent \ t.acked \subseteq Blocks /\ b \ t.acked \subseteq t.sent \ t.acked
    BY <1>2, <1>6 DEF Tx
  <2>2. /\ Cardinality((t.sent \ t.acked) \ (b \ t.acked)) = t.inFlight - n
        /\ n <= t.inFlight
    BY <1>7, <2>1, CountRemoved DEF n
  <2>3. (t.sent \ t.acked) \ (b \ t.acked) = u.sent \ u.acked
    BY <1>4
  <2>4. n \in Nat /\ t.inFlight \in Nat
    BY <1>2, <2>1, BlockCount DEF n, Tx
  <2>5. u.inFlight = t.inFlight - n
    BY <1>4, <2>2, <2>4
  <2>6. QED
    BY <2>2, <2>3, <2>5
<1>9. Held' = Held
  BY <1>5 DEF Held
<1>10. TypeOK'
  BY <1>1, <1>2, <1>3, <1>5 DEF TypeOK
<1>11. InFlightIsExact'
  BY <1>1, <1>2, <1>5, <1>8 DEF InFlightIsExact
<1>12. SlotsInv'
  BY <1>5 DEF SlotsInv
<1>13. ChainInv'
  <2>1. u.acked \subseteq Held[o] /\ Held[o] \subseteq u.sent
    BY <1>4, <1>6
  <2>2. ASSUME NEW i \in Objects
        PROVE  tx'[i].acked \subseteq Held[i] /\ Held[i] \subseteq tx'[i].sent
    BY <1>1, <1>2, <1>5, <2>1 DEF ChainInv
  <2>3. QED
    BY <1>9, <2>2 DEF ChainInv
<1>14. PipesInv'
  <2>1. ASSUME NEW p \in a2b, p.pkt.type = "DATA"
        PROVE  p.pkt.block \in tx'[p.pkt.object].sent
    <3>1. p.pkt.object \in Objects
      BY DEF TypeOK, InTransit, DataPackets
    <3>2. p.pkt.block \in tx[p.pkt.object].sent
      BY <2>1 DEF PipesInv
    <3>3. QED
      BY <1>1, <1>2, <1>4, <1>5, <3>1, <3>2 DEF t
  <2>2. \A p \in b2a' : NamedBy(p)' \subseteq Held'[p.pkt.object]
    BY <1>5, <1>9 DEF PipesInv, NamedBy
  <2>3. QED
    BY <1>5, <2>1, <2>2 DEF PipesInv
<1>15. QED
  BY <1>10, <1>11, <1>12, <1>13, <1>14
------------------------------------------------------------------------------
(* The steps of the receiver. *)

\* A packet to the receiver has the fields of its type.
LEMMA DataPacketType ==
  ASSUME TypeOK, NEW q \in a2b
  PROVE  /\ q.pkt.object \in Objects
         /\ q.pkt.type = "DATA" => q.pkt.block \in Blocks /\ q.pkt.level \in Levels
BY DEF TypeOK, InTransit, DataPackets

\* A step of the receiver that changes one slot, loses nothing stored, stores
\* only what was sent, and acknowledges only what is stored then.
LEMMA ReceiverSteps ==
  ASSUME IndInv, NEW q \in a2b, a2b' = a2b \ {q}, UNCHANGED tx, turn' \in 0..Stopped,
         completed' \in Nat, seen' \subseteq Objects,
         NEW o \in Objects, NEW slot \in Slot, slots' = [slots EXCEPT ![o] = slot],
         NEW acks \in SUBSET AckPackets, IsFiniteSet(acks),
         \A p \in acks : p.object = o /\ 0..(p.prefix - 1) \cup p.blocks \subseteq Held'[o],
         \/ Enqueue(b2a, b2a', acks)
         \/ UNCHANGED <<b2a, losses>>,
         \A i \in Objects : i # o => (i \in seen' <=> i \in seen),
         Held[o] \subseteq Held'[o], Held'[o] \subseteq tx[o].sent,
         slot.state = "COMPLETED_AWAIT_CONFIRM" => o \in seen',
         slot.state = "IDLE" => slot.bitmap = {}
  PROVE  IndInv'
<1> USE DEF IndInv
<1>1. /\ slots \in [Objects -> Slot] /\ losses \in 0..MaxLoss
      /\ b2a \in SUBSET InTransit(AckPackets) /\ tx \in [Objects -> Tx]
  BY DEF TypeOK
<1>2. /\ b2a' \subseteq InTransit(AckPackets)
      /\ losses' \in 0..MaxLoss
      /\ \A p \in b2a' :
           p \in b2a \/ \E k \in acks, d \in Latencies : p = [pkt |-> k, due |-> d]
  <2>1. CASE Enqueue(b2a, b2a', acks)
    BY <1>1, <2>1, EnqueueEffect, EnqueueType
  <2>2. CASE UNCHANGED <<b2a, losses>>
    BY <1>1, <2>2
  <2>3. QED
    BY <2>1, <2>2
<1>3. TypeOK'
  BY <1>1, <1>2 DEF TypeOK
<1>4. \A i \in Objects : i # o => Held'[i] = Held[i]
  BY <1>1 DEF Held
<1>5. InFlightIsExact'
  BY DEF InFlightIsExact
<1>6. SlotsInv'
  BY <1>1 DEF SlotsInv
<1>7. ChainInv'
  <2>1. ASSUME NEW i \in Objects
        PROVE  tx[i].acked \subseteq Held'[i] /\ Held'[i] \subseteq tx[i].sent
    <3>1. tx[i].acked \subseteq Held[i] /\ Held[i] \subseteq tx[i].sent
      BY DEF ChainInv
    <3>2. CASE i = o
      BY <3>1, <3>2
    <3>3. CASE i # o
      BY <1>4, <3>1, <3>3
    <3>4. QED
      BY <3>2, <3>3
  <2>2. QED
    BY <2>1 DEF ChainInv
<1>8. PipesInv'
  <2>1. \A p \in a2b' : p.pkt.type = "DATA" => p.pkt.block \in tx'[p.pkt.object].sent
    BY DEF PipesInv
  <2>2. ASSUME NEW p \in b2a'
        PROVE  0..(p.pkt.prefix - 1) \cup p.pkt.blocks \subseteq Held'[p.pkt.object]
    <3>1. CASE p \in b2a
      <4>1. p.pkt.object \in Objects
        BY <3>1, AckPacketType
      <4>2. 0..(p.pkt.prefix - 1) \cup p.pkt.blocks \subseteq Held[p.pkt.object]
        BY <3>1 DEF PipesInv, NamedBy
      <4>3. QED
        BY <1>4, <4>1, <4>2
    <3>2. CASE \E k \in acks, d \in Latencies : p = [pkt |-> k, due |-> d]
      BY <3>2
    <3>3. QED
      BY <1>2, <3>1, <3>2
  <2>3. QED
    BY <2>1, <2>2 DEF PipesInv, NamedBy
<1>9. QED
  BY <1>3, <1>5, <1>6, <1>7, <1>8

\* What the receiver's operators make of a slot, by the value of its state.
LEMMA SlotTypes ==
  ASSUME NEW slot \in Slot, NEW block \in Blocks, NEW level \in Levels
  PROVE  /\ FreeSlot \in Slot /\ OpenSlot \in Slot
         /\ Noted(slot, level) \in Slot
         /\ Noted(slot, level).bitmap = slot.bitmap
         /\ Noted(slot, level).state = slot.state
         /\ Stored(slot, block) \in Slot
         /\ Stored(slot, block).bitmap = slot.bitmap \cup {block}
         /\ Stored(slot, block).state = IF slot.bitmap \cup {block} = Blocks
                                        THEN "COMPLETED_AWAIT_CONFIRM" ELSE slot.state
<1>1. FreeSlot \in Slot /\ OpenSlot \in Slot
  BY DEF FreeSlot, OpenSlot, Slot, Levels
<1>2. /\ Noted(slot, level) \in Slot
      /\ Noted(slot, level).bitmap = slot.bitmap
      /\ Noted(slot, level).state = slot.state
  BY DEF Noted, Slot
<1>3. /\ Stored(slot, block) \in Slot
      /\ Stored(slot, block).bitmap = slot.bitmap \cup {block}
      /\ Stored(slot, block).state = IF slot.bitmap \cup {block} = Blocks
                                     THEN "COMPLETED_AWAIT_CONFIRM" ELSE slot.state
  BY DEF Stored, Slot
<1>4. QED
  BY <1>1, <1>2, <1>3

\* An acknowledgement has its type, and names only blocks of the slot's bitmap.
LEMMA MakeAckEffect ==
  ASSUME NEW o \in Objects, NEW slot \in Slot
  PROVE  /\ MakeAck(o, slot) \in SUBSET AckPackets
         /\ IsFiniteSet(MakeAck(o, slot))
         /\ \A p \in MakeAck(o, slot) :
              p.object = o /\ 0..(p.prefix - 1) \cup p.blocks \subseteq slot.bitmap
<1> DEFINE Ack(n) == [type |-> "ACK", object |-> o, level |-> slot.lastAckLevelSent,
                      prefix |-> n, blocks |-> AckWindow(slot.bitmap, n)]
           prefixes == {n \in 0..NumBlocks : IsPrefixLen(slot.bitmap, n)}
<1>1. MakeAck(o, slot) = {Ack(n) : n \in prefixes}
  BY DEF MakeAck
<1>2. IsFiniteSet(prefixes)
  <2>1. IsFiniteSet(0..NumBlocks)
    BY FS_Interval
  <2>2. QED
    BY <2>1, FS_Subset
<1>3. IsFiniteSet(MakeAck(o, slot))
  <2> DEFINE f == [n \in prefixes |-> Ack(n)]
  <2> HIDE DEF prefixes, Ack
  <2>1. f \in [prefixes -> MakeAck(o, slot)] /\ \A p \in MakeAck(o, slot) : \E n \in prefixes : f[n] = p
    BY <1>1
  <2>2. f \in Surjection(prefixes, MakeAck(o, slot))
    BY <2>1 DEF Surjection
  <2>3. QED
    BY <1>2, <2>2, FS_Surjection
<1>4. ASSUME NEW n \in prefixes
      PROVE  /\ Ack(n) \in AckPackets
             /\ Ack(n).object = o
             /\ 0..(Ack(n).prefix - 1) \cup Ack(n).blocks \subseteq slot.bitmap
  <2>1. AckWindow(slot.bitmap, n) \subseteq slot.bitmap /\ slot.bitmap \subseteq Blocks
    BY DEF AckWindow, Slot
  <2>2. n \in 0..NumBlocks /\ 0..(n - 1) \subseteq slot.bitmap
    BY DEF IsPrefixLen
  <2>3. slot.lastAckLevelSent \in Levels
    BY DEF Slot
  <2>4. Ack(n) \in AckPackets
    BY <2>1, <2>2, <2>3 DEF AckPackets
  <2>5. QED
    BY <2>1, <2>2, <2>4
<1>5. QED
  <2> HIDE DEF prefixes, Ack
  <2>1. QED
    BY <1>1, <1>3, <1>4

\* What has been stored of an object after a step, when its slot becomes `slot`.
LEMMA HeldAfter ==
  ASSUME TypeOK, NEW o \in Objects, NEW slot \in Slot, slots' = [slots EXCEPT ![o] = slot]
  PROVE  Held'[o] = IF o \in seen' THEN Blocks ELSE slot.bitmap
BY DEF Held, TypeOK

LEMMA HandleInfoInv ==
  ASSUME IndInv, NEW q \in a2b, HandleInfo(q)
  PROVE  IndInv'
<1> DEFINE o == q.pkt.object
           slot == OnObjectInfo(slots[o])
<1>1. TypeOK /\ o \in Objects /\ slots[o] \in Slot /\ turn \in 0..Stopped /\ completed \in Nat
  BY DataPacketType DEF IndInv, TypeOK
<1>2. /\ a2b' = a2b \ {q}
      /\ slots' = [slots EXCEPT ![o] = slot]
      /\ UNCHANGED <<tx, b2a, turn, completed, seen, losses>>
  BY <1>1 DEF HandleInfo, Receives, TypeOK
<1>3. slot \in Slot /\ slot.bitmap = slots[o].bitmap /\ slot.state # "IDLE"
  <2>1. OpenSlot \in Slot /\ OpenSlot.bitmap = {} /\ OpenSlot.state = "RECEIVING"
    BY DEF OpenSlot, FreeSlot, Slot, Levels
  <2>2. slots[o].state = "IDLE" => slots[o].bitmap = {}
    BY <1>1 DEF SlotsInv, IndInv
  <2>3. QED
    BY <1>1, <2>1, <2>2 DEF OnObjectInfo
<1>4. slot.state = "COMPLETED_AWAIT_CONFIRM" => o \in seen
  BY <1>1 DEF OnObjectInfo, OpenSlot, FreeSlot, SlotsInv, IndInv
<1> HIDE DEF o, slot
<1>5. Held'[o] = Held[o]
  BY <1>1, <1>2, <1>3, HeldAfter DEF Held
<1>6. Held[o] \subseteq tx[o].sent
  BY <1>1 DEF IndInv, ChainInv
<1>7. IsFiniteSet({}) /\ {} \in SUBSET AckPackets
  BY FS_EmptySet
<1>8. QED
  BY <1>1, <1>2, <1>3, <1>4, <1>5, <1>6, <1>7, ReceiverSteps DEF IndInv, TypeOK

LEMMA HandleConfirmInv ==
  ASSUME IndInv, NEW q \in a2b, HandleConfirm(q)
  PROVE  IndInv'
<1> DEFINE o == q.pkt.object
           slot == OnAckConfirm(slots[o])
<1>1. TypeOK /\ o \in Objects /\ slots[o] \in Slot /\ turn \in 0..Stopped /\ completed \in Nat
  BY DataPacketType DEF IndInv, TypeOK
<1>2. /\ a2b' = a2b \ {q}
      /\ slots' = [slots EXCEPT ![o] = slot]
      /\ UNCHANGED <<tx, b2a, turn, completed, seen, losses>>
  BY <1>1 DEF HandleConfirm, Receives, TypeOK
<1>3. /\ slot \in Slot
      /\ slot.bitmap = slots[o].bitmap \/ o \in seen
      /\ slot.state = "COMPLETED_AWAIT_CONFIRM" => o \in seen
      /\ slot.state = "IDLE" => slot.bitmap = {}
  BY <1>1 DEF OnAckConfirm, FreeSlot, Slot, Levels, SlotsInv, IndInv
<1> HIDE DEF o, slot
<1>4. Held'[o] = Held[o]
  BY <1>1, <1>2, <1>3, HeldAfter DEF Held
<1>5. Held[o] \subseteq tx[o].sent
  BY <1>1 DEF IndInv, ChainInv
<1>6. IsFiniteSet({}) /\ {} \in SUBSET AckPackets
  BY FS_EmptySet
<1>7. QED
  BY <1>1, <1>2, <1>3, <1>4, <1>5, <1>6, ReceiverSteps DEF IndInv, TypeOK

\* Data adds its block to what is stored, or nothing.
LEMMA HandleDataStores ==
  ASSUME IndInv, NEW q \in a2b, HandleData(q)
  PROVE  LET o    == q.pkt.object
             slot == OnObjectData(slots[o], q.pkt.block, q.pkt.level)
         IN  /\ o \in Objects /\ q.pkt.block \in Blocks /\ slot \in Slot
             /\ slot.state = "COMPLETED_AWAIT_CONFIRM" => o \in seen'
             /\ slot.state = "IDLE" => slot.bitmap = {}
             /\ \A i \in Objects : i # o => (i \in seen' <=> i \in seen)
             /\ seen' \subseteq Objects
             /\ slot.bitmap \subseteq Held'[o]
             /\ Held'[o] = Held[o] \/ Held'[o] = Held[o] \cup {q.pkt.block}
<1> DEFINE o     == q.pkt.object
           block == q.pkt.block
           level == q.pkt.level
           old   == slots[o]
           slot  == OnObjectData(old, block, level)
           done  == Completes(old, block, level)
<1>1. q.pkt.type = "DATA" /\ slots' = [slots EXCEPT ![o] = slot]
      /\ seen' = IF done THEN seen \cup {o} ELSE seen
  BY DEF HandleData, Receives
<1>2. TypeOK /\ o \in Objects /\ block \in Blocks /\ level \in Levels /\ old \in Slot
      /\ seen \subseteq Objects
  BY <1>1, DataPacketType DEF IndInv, TypeOK
<1>3. /\ old.state = "COMPLETED_AWAIT_CONFIRM" => o \in seen
      /\ old.state = "IDLE" => old.bitmap = {}
  BY <1>2 DEF IndInv, SlotsInv
<1>4. /\ Noted(old, level) \in Slot
      /\ Noted(old, level).bitmap = old.bitmap
      /\ Noted(old, level).state = old.state
  BY <1>2, SlotTypes
<1>5. slot \in Slot
  BY <1>2, <1>4, SlotTypes DEF OnObjectData
<1>6. Held'[o] = IF o \in seen' THEN Blocks ELSE slot.bitmap
  BY <1>1, <1>2, <1>5, HeldAfter
<1>7. Held[o] = IF o \in seen THEN Blocks ELSE old.bitmap
  BY <1>2 DEF Held
<1>8. CASE old.state = "RECEIVING"
  <2>1. /\ slot.bitmap = old.bitmap \cup {block}
        /\ slot.state = IF slot.bitmap = Blocks THEN "COMPLETED_AWAIT_CONFIRM" ELSE "RECEIVING"
    <3>1. slot = Stored(Noted(old, level), block)
      BY <1>8 DEF OnObjectData
    <3>2. /\ Stored(Noted(old, level), block).bitmap = old.bitmap \cup {block}
          /\ Stored(Noted(old, level), block).state =
               IF old.bitmap \cup {block} = Blocks THEN "COMPLETED_AWAIT_CONFIRM" ELSE old.state
      BY <1>2, <1>4, SlotTypes
    <3> HIDE DEF slot, old
    <3>3. QED
      BY <1>8, <3>1, <3>2
  <2>2. done <=> slot.bitmap = Blocks
    BY <1>8, <2>1 DEF Completes
  <2>3. slot.bitmap \subseteq Blocks
    BY <1>5 DEF Slot
  <2> HIDE DEF o, block, slot, done, old
  <2>4. seen' \subseteq Objects /\ (\A i \in Objects : i # o => (i \in seen' <=> i \in seen))
    BY <1>1, <1>2
  <2>5. CASE done
    <3>1. o \in seen'
      BY <1>1, <2>5
    <3>2. Held'[o] = Held[o] \/ Held'[o] = Held[o] \cup {block}
      BY <1>6, <1>7, <2>1, <2>2, <2>5, <3>1
    <3>3. QED
      BY <1>2, <1>5, <1>6, <2>1, <2>3, <2>4, <3>1, <3>2 DEF o, block, slot, old
  <2>6. CASE ~done
    <3>1. seen' = seen /\ slot.state = "RECEIVING"
      BY <1>1, <2>1, <2>2, <2>6
    <3>2. slot.bitmap \subseteq Held'[o]
      BY <1>6, <2>3
    <3>3. Held'[o] = Held[o] \/ Held'[o] = Held[o] \cup {block}
      BY <1>6, <1>7, <2>1, <3>1
    <3>4. QED
      BY <1>2, <1>5, <2>4, <3>1, <3>2, <3>3 DEF o, block, slot, old
  <2>7. QED
    BY <2>5, <2>6
<1>9. CASE old.state # "RECEIVING"
  <2>1. ~done /\ slot.bitmap = old.bitmap /\ slot.state = old.state
    BY <1>4, <1>9 DEF Completes, OnObjectData
  <2>2. seen' = seen
    BY <1>1, <2>1
  <2>3. slot.bitmap \subseteq Blocks
    BY <1>5 DEF Slot
  <2>4. Held'[o] = Held[o] /\ slot.bitmap \subseteq Held'[o]
    BY <1>6, <1>7, <2>1, <2>2, <2>3
  <2> HIDE DEF o, block, slot, done, old
  <2>5. QED
    BY <1>2, <1>3, <1>5, <2>1, <2>2, <2>4 DEF o, block, slot, old
<1>10. QED
  BY <1>8, <1>9

LEMMA HandleDataInv ==
  ASSUME IndInv, NEW q \in a2b, HandleData(q)
  PROVE  IndInv'
<1> DEFINE o    == q.pkt.object
           slot == OnObjectData(slots[o], q.pkt.block, q.pkt.level)
           acks == IF AckTriggered(slots[o], q.pkt.level) THEN MakeAck(o, slot) ELSE {}
<1>1. /\ o \in Objects /\ q.pkt.block \in Blocks /\ slot \in Slot
      /\ slot.state = "COMPLETED_AWAIT_CONFIRM" => o \in seen'
      /\ slot.state = "IDLE" => slot.bitmap = {}
      /\ \A i \in Objects : i # o => (i \in seen' <=> i \in seen)
      /\ seen' \subseteq Objects
      /\ slot.bitmap \subseteq Held'[o]
      /\ Held'[o] = Held[o] \/ Held'[o] = Held[o] \cup {q.pkt.block}
  BY HandleDataStores
<1>2. /\ a2b' = a2b \ {q}
      /\ q.pkt.type = "DATA"
      /\ slots' = [slots EXCEPT ![o] = slot]
      /\ Enqueue(b2a, b2a', acks)
      /\ UNCHANGED <<tx, turn>>
  BY DEF HandleData, Receives
<1>3. turn' \in 0..Stopped /\ completed' \in Nat
  BY DEF HandleData, IndInv, TypeOK
<1>4. /\ MakeAck(o, slot) \in SUBSET AckPackets
      /\ IsFiniteSet(MakeAck(o, slot))
      /\ \A p \in MakeAck(o, slot) :
           p.object = o /\ 0..(p.prefix - 1) \cup p.blocks \subseteq slot.bitmap
  BY <1>1, MakeAckEffect
<1>5. Held[o] \subseteq tx[o].sent /\ q.pkt.block \in tx[o].sent
  BY <1>1, <1>2 DEF IndInv, ChainInv, PipesInv
<1> HIDE DEF o, slot
<1>6. Held[o] \subseteq Held'[o] /\ Held'[o] \subseteq tx[o].sent
  BY <1>1, <1>5
<1>7. /\ acks \in SUBSET AckPackets
      /\ IsFiniteSet(acks)
      /\ \A p \in acks : p.object = o /\ 0..(p.prefix - 1) \cup p.blocks \subseteq Held'[o]
  <2>1. acks = MakeAck(o, slot) \/ acks = {}
    OBVIOUS
  <2> HIDE DEF acks
  <2>2. CASE acks = MakeAck(o, slot)
    BY <1>1, <1>4, <2>2
  <2>3. CASE acks = {}
    BY <2>3, FS_EmptySet
  <2>4. QED
    BY <2>1, <2>2, <2>3
<1> HIDE DEF acks
<1>8. QED
  BY <1>1, <1>2, <1>3, <1>6, <1>7, ReceiverSteps
------------------------------------------------------------------------------
(* The loop. *)

LEMMA StopInv ==
  ASSUME IndInv, Stop
  PROVE  IndInv'
<1>1. turn' \in 0..Stopped /\ UNCHANGED <<tx, slots, a2b, b2a, completed, seen, losses>>
  BY DEF Stop, Stopped
<1>2. QED
  BY <1>1 DEF IndInv, TypeOK, InFlightIsExact, SlotsInv, ChainInv, PipesInv, Held, NamedBy

LEMMA SleepInv ==
  ASSUME IndInv, Sleep
  PROVE  IndInv'
<1> USE DEF IndInv
<1>1. /\ tx' = [o \in Objects |-> TimePasses(tx[o])]
      /\ a2b' = TickPasses(a2b)
      /\ b2a' = TickPasses(b2a)
      /\ DuePackets(a2b) = {} /\ DuePackets(b2a) = {}
      /\ turn' = 0
      /\ UNCHANGED <<slots, completed, seen, losses>>
  BY DEF Sleep, NothingDue
<1>2. /\ tx \in [Objects -> Tx]
      /\ a2b \in SUBSET InTransit(DataPackets) /\ b2a \in SUBSET InTransit(AckPackets)
  BY DEF TypeOK
<1>3. \A o \in Objects : tx'[o] \in Tx /\ Counts(tx'[o], tx[o])
  <2>1. ASSUME NEW o \in Objects
        PROVE  TimePasses(tx[o]) \in Tx /\ Counts(TimePasses(tx[o]), tx[o])
    <3>1. tx[o] \in Tx /\ MaxWait \in Waits
      BY <1>2 DEF Waits
    <3>2. QED
      BY <3>1, TickTypes, TickCounts
  <2>2. QED
    BY <1>1, <2>1
<1>4. a2b' \subseteq InTransit(DataPackets) /\ b2a' \subseteq InTransit(AckPackets)
  BY <1>1, <1>2, TickPassesType
<1>5. TypeOK'
  BY <1>1, <1>3, <1>4 DEF TypeOK, Stopped
<1>6. Held' = Held
  BY <1>1 DEF Held
<1>7. InFlightIsExact'
  BY <1>3 DEF InFlightIsExact, Counts
<1>8. SlotsInv' /\ ChainInv'
  BY <1>1, <1>3, <1>6 DEF SlotsInv, ChainInv, Counts
<1>9. PipesInv'
  <2>1. ASSUME NEW q \in a2b', q.pkt.type = "DATA"
        PROVE  q.pkt.block \in tx'[q.pkt.object].sent
    <3>1. PICK p \in a2b : p.pkt = q.pkt
      BY <1>1, <1>2, TickPassesPackets
    <3>2. p.pkt.object \in Objects
      BY DataPacketType
    <3>3. QED
      BY <1>3, <2>1, <3>1, <3>2 DEF PipesInv, Counts
  <2>2. ASSUME NEW q \in b2a'
        PROVE  0..(q.pkt.prefix - 1) \cup q.pkt.blocks \subseteq Held[q.pkt.object]
    <3>1. PICK p \in b2a : p.pkt = q.pkt
      BY <1>1, <1>2, TickPassesPackets
    <3>2. QED
      BY <3>1 DEF PipesInv, NamedBy
  <2>3. QED
    BY <1>6, <2>1, <2>2 DEF PipesInv, NamedBy
<1>10. QED
  BY <1>5, <1>7, <1>8, <1>9
------------------------------------------------------------------------------
(* The invariant holds always. *)

LEMMA IndInvInit ==
  ASSUME Init
  PROVE  IndInv
<1>1. NewTx \in Tx
  <2>1. /\ {} \in SUBSET Blocks /\ 0 \in Nat /\ 0 \in Blocks /\ 1 \in Levels
        /\ MinInflight \in MinInflight..MaxInflight
        /\ 0 \in 0..(AckLevelK - 1) /\ 0 \in 0..NumBlocks /\ 0 \in 0..MaxWait
        /\ AckTimeout \in 0..AckTimeout /\ 0 \in 0..InfoResend
    BY DEF Blocks, Levels
  <2>2. QED
    BY <2>1 DEF NewTx, Tx
<1>2. FreeSlot \in Slot
  BY DEF FreeSlot, Slot, Levels
<1>3. TypeOK
  BY <1>1, <1>2 DEF Init, TypeOK, Objects, Stopped
<1>4. \A o \in Objects : Held[o] = {} /\ tx[o].acked = {} /\ tx[o].sent = {} /\ tx[o].inFlight = 0
  BY DEF Init, Held, FreeSlot, NewTx
<1>5. InFlightIsExact
  BY <1>4, FS_EmptySet DEF InFlightIsExact
<1>6. SlotsInv /\ PipesInv
  BY DEF Init, SlotsInv, PipesInv, FreeSlot
<1>7. ChainInv
  BY <1>4 DEF ChainInv
<1>8. QED
  BY <1>3, <1>5, <1>6, <1>7 DEF IndInv

LEMMA IndInvStep ==
  ASSUME IndInv, [Next]_vars
  PROVE  IndInv'
<1>1. CASE \E o \in Objects : IdleTick(o) \/ ConfirmTick(o) \/ TransferTick(o)
  BY <1>1, IdleTickInv, ConfirmTickInv, TransferTickInv
<1>2. CASE \E q \in a2b : HandleInfo(q) \/ HandleData(q) \/ HandleConfirm(q)
  BY <1>2, HandleInfoInv, HandleDataInv, HandleConfirmInv
<1>3. CASE \E q \in b2a : HandleAck(q)
  BY <1>3, HandleAckInv
<1>4. CASE Stop \/ Sleep
  BY <1>4, StopInv, SleepInv
<1>5. CASE UNCHANGED vars
  BY <1>5 DEF vars, IndInv, TypeOK, InFlightIsExact, SlotsInv, ChainInv, PipesInv, Held, NamedBy
<1>6. QED
  BY <1>1, <1>2, <1>3, <1>4, <1>5 DEF Next, Terminated

\* The inductive invariant holds in every reachable state.
THEOREM IndInvAlways == Spec => []IndInv
<1>1. Init => IndInv
  BY IndInvInit
<1>2. IndInv /\ [Next]_vars => IndInv'
  BY IndInvStep
<1>3. QED
  BY <1>1, <1>2, PTL DEF Spec

\* Every variable of a transfer keeps its type: the window of each sender
\* stays between its limits, no countdown and no index leaves its range, and
\* the pipes carry only packets of this protocol about objects there are.
THEOREM TypeCorrect == Spec => []TypeOK
<1>1. IndInv => TypeOK
  BY DEF IndInv
<1>2. QED
  BY <1>1, IndInvAlways, PTL

\* The count of blocks in flight is exact whatever the pipes lose, delay and
\* reorder: the test against zero of onAckBitmap never hides a miscount.
THEOREM CountInFlightExact == Spec => []InFlightIsExact
<1>1. IndInv => InFlightIsExact
  BY DEF IndInv
<1>2. QED
  BY <1>1, IndInvAlways, PTL
------------------------------------------------------------------------------
(* The transfer implements ObjectTransfer. *)

\* A step in which no slot, no acknowledged block and no completion changes.
LEMMA NothingStored ==
  ASSUME UNCHANGED <<slots, seen>>, \A o \in Objects : tx'[o].acked = tx[o].acked
  PROVE  UNCHANGED <<Held, Known>>
BY DEF Held, Known

LEMMA SenderStutters ==
  ASSUME IndInv, NEW o \in Objects, IdleTick(o) \/ ConfirmTick(o) \/ TransferTick(o)
  PROVE  UNCHANGED <<Held, Known>>
<1>1. tx \in [Objects -> Tx] /\ tx[o] \in Tx
  BY DEF IndInv, TypeOK
<1>2. CASE IdleTick(o)
  BY <1>2, NothingStored DEF IdleTick
<1>3. CASE ConfirmTick(o)
  <2>1. [tx[o] EXCEPT !.state = "CONFIRMED"].acked = tx[o].acked
    BY <1>1 DEF Tx
  <2>2. \A i \in Objects : tx'[i].acked = tx[i].acked
    BY <1>1, <1>3, <2>1 DEF ConfirmTick
  <2>3. QED
    BY <1>3, <2>2, NothingStored DEF ConfirmTick
<1>4. CASE TransferTick(o)
  <2> DEFINE t == TimeoutChecked(InfoSent(tx[o]))
  <2>1. PICK wait \in Waits :
          \/ \E block \in Blocks :
               tx' = [tx EXCEPT ![o] = [BlockSent(InRounds(t), block, wait)
                                          EXCEPT !.state = "SENDING"]]
          \/ tx' = [tx EXCEPT ![o] = NothingSent(t, wait)]
    BY <1>4 DEF TransferTick
  <2>2. InfoSent(tx[o]) \in Tx /\ Counts(InfoSent(tx[o]), tx[o])
    BY <1>1, TickTypes, TickCounts
  <2>3. t \in Tx /\ t.acked = tx[o].acked
    BY <2>2, TickTypes, TickCounts DEF Counts
  <2>4. InRounds(t) \in Tx /\ InRounds(t).acked = tx[o].acked
    BY <2>3, TickTypes, TickCounts DEF Counts
  <2> HIDE DEF t
  <2>5. ASSUME NEW block \in Blocks
        PROVE  [BlockSent(InRounds(t), block, wait) EXCEPT !.state = "SENDING"].acked
                 = tx[o].acked
    <3> DEFINE b == BlockSent(InRounds(t), block, wait)
    <3>1. b \in Tx /\ b.acked = tx[o].acked
      BY <2>4, SendTypes, SendCounts
    <3> HIDE DEF b
    <3>2. [b EXCEPT !.state = "SENDING"].acked = tx[o].acked
      BY <3>1 DEF Tx
    <3>3. QED
      BY <3>2 DEF b
  <2>6. NothingSent(t, wait).acked = tx[o].acked
    BY <2>3, TickCounts DEF Counts
  <2>7. \A i \in Objects : tx'[i].acked = tx[i].acked
    BY <1>1, <2>1, <2>5, <2>6
  <2>8. UNCHANGED <<slots, seen>>
    BY <1>4 DEF TransferTick
  <2>9. QED
    BY <2>7, <2>8, NothingStored
<1>5. QED
  BY <1>2, <1>3, <1>4

\* The arrival of an acknowledgement is Learn, for the blocks it names.
LEMMA AckLearns ==
  ASSUME IndInv, NEW q \in b2a, HandleAck(q)
  PROVE  Promise!TransferNext
<1> DEFINE o == q.pkt.object
           b == NamedBy(q)
           u == StepOnAck(tx[o], q.pkt.level, b)
<1>1. o \in Objects /\ q.pkt.level \in Levels /\ b \subseteq Blocks
  BY AckPacketType DEF IndInv
<1>2. tx[o] \in Tx /\ tx \in [Objects -> Tx]
  BY <1>1 DEF IndInv, TypeOK
<1>3. u.acked = tx[o].acked \cup b
  <2>1. \A t \in Tx, level \in Levels, blocks \in SUBSET Blocks :
          StepOnAck(t, level, blocks).acked = t.acked \cup blocks
    BY AckCounts
  <2> HIDE DEF o, b
  <2>2. QED
    BY <1>1, <1>2, <2>1
<1>4. tx' = [tx EXCEPT ![o] = u] /\ UNCHANGED <<slots, seen>>
  BY <1>1, <1>2 DEF HandleAck, NamedBy
<1>5. b \subseteq Held[o]
  BY DEF IndInv, PipesInv
<1> HIDE DEF o, b, u
<1>6. Known' = [Known EXCEPT ![o] = Known[o] \cup b]
  BY <1>1, <1>2, <1>3, <1>4 DEF Known
<1>7. Held' = Held
  BY <1>4 DEF Held
<1>8. QED
  BY <1>1, <1>5, <1>6, <1>7 DEF Promise!TransferNext, Promise!Learn

\* The arrival of data is Store, for its block, or a stutter.
LEMMA DataStores ==
  ASSUME IndInv, NEW q \in a2b, HandleData(q)
  PROVE  Promise!TransferNext \/ UNCHANGED <<Held, Known>>
<1> DEFINE o     == q.pkt.object
           block == q.pkt.block
<1>1. /\ o \in Objects /\ block \in Blocks
      /\ \A i \in Objects : i # o => (i \in seen' <=> i \in seen)
      /\ Held'[o] = Held[o] \/ Held'[o] = Held[o] \cup {block}
  BY HandleDataStores
<1>2. \A i \in Objects : i # o => slots'[i] = slots[i]
  BY DEF HandleData, IndInv, TypeOK
<1>3. Known' = Known
  BY DEF HandleData, Known
<1>4. \A i \in Objects : i # o => Held'[i] = Held[i]
  BY <1>1, <1>2 DEF Held
<1>5. Held' = [i \in Objects |-> Held'[i]] /\ Held = [i \in Objects |-> Held[i]]
  BY DEF Held
<1> HIDE DEF o, block
<1>6. CASE Held'[o] = Held[o]
  <2>1. Held' = Held
    BY <1>4, <1>5, <1>6
  <2>2. QED
    BY <1>3, <2>1
<1>7. CASE Held'[o] = Held[o] \cup {block}
  <2>1. Held' = [Held EXCEPT ![o] = Held[o] \cup {block}]
    BY <1>4, <1>5, <1>7
  <2>2. QED
    BY <1>1, <1>3, <2>1 DEF Promise!TransferNext, Promise!Store
<1>8. QED
  BY <1>1, <1>6, <1>7

\* An OBJECT_INFO or an ACK_CONFIRM stores nothing and loses nothing stored.
LEMMA ControlStutters ==
  ASSUME IndInv, NEW q \in a2b, HandleInfo(q) \/ HandleConfirm(q)
  PROVE  UNCHANGED <<Held, Known>>
<1> DEFINE o    == q.pkt.object
           slot == IF q.pkt.type = "INFO" THEN OnObjectInfo(slots[o]) ELSE OnAckConfirm(slots[o])
<1>1. slots \in [Objects -> Slot] /\ o \in Objects
  BY DataPacketType DEF IndInv, TypeOK
<1>2. slots' = [slots EXCEPT ![o] = slot] /\ UNCHANGED <<tx, seen>>
  BY DEF HandleInfo, HandleConfirm, Receives
<1>3. slot.bitmap = slots[o].bitmap \/ o \in seen
  <2>1. /\ slots[o].state = "IDLE" => slots[o].bitmap = {}
        /\ slots[o].state = "COMPLETED_AWAIT_CONFIRM" => o \in seen
    BY <1>1 DEF IndInv, SlotsInv
  <2>2. OpenSlot.bitmap = {}
    BY DEF OpenSlot, FreeSlot
  <2>3. QED
    BY <2>1, <2>2 DEF OnObjectInfo, OnAckConfirm
<1> HIDE DEF o, slot
<1>4. \A i \in Objects : i \notin seen => slots'[i].bitmap = slots[i].bitmap
  BY <1>1, <1>2, <1>3
<1>5. QED
  BY <1>2, <1>4 DEF Held, Known

LEMMA SleepStutters ==
  ASSUME IndInv, Sleep
  PROVE  UNCHANGED <<Held, Known>>
<1>1. \A o \in Objects : TimePasses(tx[o]).acked = tx[o].acked
  <2>1. ASSUME NEW o \in Objects
        PROVE  TimePasses(tx[o]).acked = tx[o].acked
    <3>1. tx[o] \in Tx /\ MaxWait \in Waits
      BY DEF IndInv, TypeOK, Waits
    <3>2. QED
      BY <3>1, TickCounts DEF Counts
  <2>2. QED
    BY <2>1
<1>2. UNCHANGED <<slots, seen>> /\ tx' = [o \in Objects |-> TimePasses(tx[o])]
  BY DEF Sleep
<1>3. QED
  BY <1>1, <1>2, NothingStored

LEMMA TransferStep ==
  ASSUME IndInv, [Next]_vars
  PROVE  Promise!TransferNext \/ UNCHANGED <<Held, Known>>
<1>1. CASE \E o \in Objects : IdleTick(o) \/ ConfirmTick(o) \/ TransferTick(o)
  BY <1>1, SenderStutters
<1>2. CASE \E q \in a2b : HandleInfo(q) \/ HandleData(q) \/ HandleConfirm(q)
  BY <1>2, ControlStutters, DataStores
<1>3. CASE \E q \in b2a : HandleAck(q)
  BY <1>3, AckLearns
<1>4. CASE Stop
  BY <1>4, NothingStored DEF Stop
<1>5. CASE Sleep
  BY <1>5, SleepStutters
<1>6. CASE UNCHANGED vars
  BY <1>6 DEF vars, Held, Known
<1>7. QED
  BY <1>1, <1>2, <1>3, <1>4, <1>5, <1>6 DEF Next, Terminated

\* The transfer implements ObjectTransfer: no stored block of an object is ever
\* lost, and the sender takes no block for stored that the receiver does not
\* hold, whatever the pipes lose, delay and reorder.
THEOREM ImplementsObjectTransfer == Spec => RefinesObjectTransfer
<1>1. Init => Promise!TransferInit
  <2>1. ASSUME Init
        PROVE  Held = [o \in Objects |-> {}] /\ Known = [o \in Objects |-> {}]
    BY <2>1 DEF Init, Held, Known, NewTx, FreeSlot
  <2>2. QED
    BY <2>1 DEF Promise!TransferInit
<1>2. IndInv /\ [Next]_vars => [Promise!TransferNext]_<<Held, Known>>
  BY TransferStep
<1>3. QED
  BY <1>1, <1>2, IndInvAlways, PTL
     DEF Spec, RefinesObjectTransfer, Promise!TransferSpec, Promise!transferVars
------------------------------------------------------------------------------
(* Whose turn it is, and when a sender is done. *)

SameTurn(u, t) ==
  /\ u.ackReqLevel = t.ackReqLevel
  /\ u.sentSinceBump = t.sentSinceBump
  /\ u.nextSendIdx = t.nextSendIdx

LEMMA TickTurns ==
  ASSUME NEW t \in Tx, NEW wait \in Waits
  PROVE  /\ SameTurn(InfoSent(t), t)
         /\ SameTurn(TimeoutChecked(t), t)
         /\ SameTurn(InRounds(t), t)
         /\ SameTurn(TimePasses(t), t) /\ TimePasses(t).state = t.state
         /\ SameTurn(NothingSent(t, wait), t) /\ NothingSent(t, wait).state # "CONFIRMED"
<1>1. SameTurn(InfoSent(t), t)
  BY DEF InfoSent, SameTurn, Tx
<1>2. SameTurn(TimeoutChecked(t), t)
  BY DEF TimeoutChecked, SameTurn, Tx
<1>3. SameTurn(InRounds(t), t)
  BY DEF InRounds, SameTurn, Tx
<1>4. SameTurn(TimePasses(t), t) /\ TimePasses(t).state = t.state
  BY DEF TimePasses, SameTurn, Tx
<1>5. SameTurn(NothingSent(t, wait), t) /\ NothingSent(t, wait).state # "CONFIRMED"
  <2>1. InRounds(t) \in Tx
    BY TickTypes
  <2>2. QED
    BY <1>3, <2>1 DEF NothingSent, SameTurn, Tx
<1>6. QED
  BY <1>1, <1>2, <1>3, <1>4, <1>5

\* An acknowledgement sends nothing and never ends a transfer.
LEMMA AckTurns ==
  ASSUME NEW t \in Tx, NEW level, NEW blocks
  PROVE  SameTurn(StepOnAck(t, level, blocks), t) /\ StepOnAck(t, level, blocks).state # "CONFIRMED"
<1> DEFINE u == OnAckBitmap(t, blocks)
<1>1. SameTurn(u, t) /\ DOMAIN u = DOMAIN t
  BY DEF OnAckBitmap, SameTurn, Tx
<1>2. StepOnAck(t, level, blocks) =
        [u EXCEPT !.noProgress = u.noProgress /\ level = 0,
                  !.state = IF IsFullyAcked(u) \/ u.inFlight > 0
                            THEN "AWAITING_ACK" ELSE "SENDING"]
  BY DEF StepOnAck
<1> HIDE DEF u
<1>3. QED
  BY <1>1, <1>2 DEF SameTurn, Tx

\* What a step does to the record of one sender.
SentNext(o) ==
  \E block \in Blocks :
    /\ IsNextSetFrom(Candidates(tx[o]), tx[o].nextSendIdx, block)
    /\ tx'[o].nextSendIdx = NextOf(block)
    /\ tx'[o].state # "CONFIRMED"

LEMMA TransferTurn ==
  ASSUME IndInv, NEW o \in Objects, TransferTick(o)
  PROVE  SentNext(o) \/ (SameTurn(tx'[o], tx[o]) /\ tx'[o].state # "CONFIRMED")
<1> DEFINE t     == TimeoutChecked(InfoSent(tx[o]))
           force == TimedOut(tx[o])
<1>1. tx[o] \in Tx /\ tx \in [Objects -> Tx]
  BY DEF IndInv, TypeOK
<1>2. t \in Tx /\ Counts(t, tx[o]) /\ SameTurn(t, tx[o])
  <2>1. PICK wait : wait \in Waits
    BY DEF Waits
  <2>2. /\ InfoSent(tx[o]) \in Tx
        /\ Counts(InfoSent(tx[o]), tx[o]) /\ SameTurn(InfoSent(tx[o]), tx[o])
    BY <1>1, <2>1, TickTypes, TickCounts, TickTurns
  <2>3. /\ t \in Tx
        /\ Counts(t, InfoSent(tx[o])) /\ SameTurn(t, InfoSent(tx[o]))
    BY <2>1, <2>2, TickTypes, TickCounts, TickTurns
  <2>4. QED
    BY <2>2, <2>3 DEF Counts, SameTurn
<1>3. PICK wait \in Waits :
        \/ \E block \in Blocks :
             /\ Picks(t, force, block)
             /\ tx' = [tx EXCEPT ![o] =
                         [BlockSent(InRounds(t), block, wait) EXCEPT !.state = "SENDING"]]
        \/ tx' = [tx EXCEPT ![o] = NothingSent(t, wait)]
  BY DEF TransferTick
<1> HIDE DEF t, force
<1>4. ASSUME NEW block \in Blocks, Picks(t, force, block),
             tx' = [tx EXCEPT ![o] =
                      [BlockSent(InRounds(t), block, wait) EXCEPT !.state = "SENDING"]]
      PROVE  SentNext(o)
  <2> DEFINE b == BlockSent(InRounds(t), block, wait)
  <2>1. InRounds(t) \in Tx
    BY <1>2, TickTypes
  <2>2. b \in Tx
    BY <2>1, SendTypes
  <2>3. b.nextSendIdx = NextOf(block)
    BY <2>1 DEF BlockSent, Tx
  <2> HIDE DEF b
  <2>4. tx'[o] = [b EXCEPT !.state = "SENDING"]
    BY <1>1, <1>4 DEF b
  <2>5. tx'[o].nextSendIdx = NextOf(block) /\ tx'[o].state = "SENDING"
    BY <2>2, <2>3, <2>4 DEF Tx
  <2>6. Candidates(t) = Candidates(tx[o]) /\ t.nextSendIdx = tx[o].nextSendIdx
    BY <1>2 DEF Counts, SameTurn, Candidates, Unsent, Unacked
  <2>7. IsNextSetFrom(Candidates(tx[o]), tx[o].nextSendIdx, block)
    BY <1>4, <2>6 DEF Picks
  <2>8. QED
    BY <2>5, <2>7 DEF SentNext
<1>5. ASSUME tx' = [tx EXCEPT ![o] = NothingSent(t, wait)]
      PROVE  SameTurn(tx'[o], tx[o]) /\ tx'[o].state # "CONFIRMED"
  BY <1>1, <1>2, <1>5, TickTurns DEF SameTurn
<1>6. QED
  BY <1>3, <1>4, <1>5

\* A step sends the next candidate of the sender, finds it done, or leaves its
\* turn as it is.
LEMMA SenderTurn ==
  ASSUME IndInv, [Next]_vars, NEW o \in Objects
  PROVE  \/ SentNext(o)
         \/ ConfirmTick(o) /\ SameTurn(tx'[o], tx[o])
         \/ SameTurn(tx'[o], tx[o]) /\ tx'[o].state # "CONFIRMED"
         \/ /\ SameTurn(tx'[o], tx[o])
            /\ tx'[o].state = tx[o].state
            /\ tx'[o].acked = tx[o].acked
<1>1. tx \in [Objects -> Tx]
  BY DEF IndInv, TypeOK
<1>2. ASSUME tx'[o] = tx[o]
      PROVE  /\ SameTurn(tx'[o], tx[o])
             /\ tx'[o].state = tx[o].state
             /\ tx'[o].acked = tx[o].acked
  BY <1>2 DEF SameTurn
<1>3. ASSUME NEW i \in Objects, ConfirmTick(i)
      PROVE  tx'[o] = tx[o] \/ (ConfirmTick(o) /\ SameTurn(tx'[o], tx[o]))
  <2>1. CASE i = o
    BY <1>1, <1>3, <2>1 DEF ConfirmTick, SameTurn, Tx
  <2>2. CASE i # o
    BY <1>1, <1>3, <2>2 DEF ConfirmTick
  <2>3. QED
    BY <2>1, <2>2
<1>4. ASSUME NEW i \in Objects, TransferTick(i), i # o
      PROVE  tx'[o] = tx[o]
  BY <1>1, <1>4 DEF TransferTick
<1>5. ASSUME NEW q \in b2a, HandleAck(q)
      PROVE  \/ tx'[o] = tx[o]
             \/ SameTurn(tx'[o], tx[o]) /\ tx'[o].state # "CONFIRMED"
  <2>1. tx' = [tx EXCEPT ![q.pkt.object] = StepOnAck(@, q.pkt.level, NamedBy(q))]
    BY <1>5 DEF HandleAck, NamedBy
  <2>2. CASE q.pkt.object = o
    <3>1. tx'[o] = StepOnAck(tx[o], q.pkt.level, NamedBy(q))
      BY <1>1, <2>1, <2>2
    <3>2. QED
      BY <1>1, <3>1, AckTurns
  <2>3. CASE q.pkt.object # o
    BY <1>1, <2>1, <2>3
  <2>4. QED
    BY <2>2, <2>3
<1>6. CASE Sleep
  <2>1. tx'[o] = TimePasses(tx[o]) /\ tx[o] \in Tx /\ MaxWait \in Waits
    BY <1>1, <1>6 DEF Sleep, Waits
  <2>2. QED
    BY <2>1, TickTurns, TickCounts DEF Counts
<1>7. ASSUME NEW q \in a2b, HandleInfo(q) \/ HandleData(q) \/ HandleConfirm(q)
      PROVE  tx'[o] = tx[o]
  BY <1>7 DEF HandleInfo, HandleData, HandleConfirm
<1>8. CASE UNCHANGED vars \/ Stop \/ \E i \in Objects : IdleTick(i)
  BY <1>2, <1>8 DEF vars, Stop, IdleTick
<1>9. QED
  BY <1>2, <1>3, <1>4, <1>5, <1>6, <1>7, <1>8, TransferTurn DEF Next, Terminated

\* No block of an object overtakes another one that waits to be sent.
THEOREM BlocksTakeTurns == Spec => NoOvertaking
<1>1. ASSUME IndInv, [Next]_vars, NEW o \in Objects, SendsBlock(tx[o], tx'[o]),
             NEW b \in Candidates(tx[o]) \cap Candidates(tx'[o]),
             NextOf(b) # tx'[o].nextSendIdx
      PROVE  RoundRobinDistance(tx'[o].nextSendIdx, b, NumBlocks)
               < RoundRobinDistance(tx[o].nextSendIdx, b, NumBlocks)
  <2>1. ~SameTurn(tx'[o], tx[o])
    BY <1>1 DEF SendsBlock, SameTurn
  <2>2. PICK block \in Blocks :
          /\ IsNextSetFrom(Candidates(tx[o]), tx[o].nextSendIdx, block)
          /\ tx'[o].nextSendIdx = NextOf(block)
    BY <1>1, <2>1, SenderTurn DEF SentNext
  <2>3. tx[o] \in Tx
    BY <1>1 DEF IndInv, TypeOK
  <2>4. /\ Candidates(tx[o]) \in SUBSET (0..(NumBlocks - 1))
        /\ tx[o].nextSendIdx \in 0..(NumBlocks - 1)
    BY <2>3 DEF Candidates, Unsent, Unacked, Blocks, Tx
  <2>5. b # block /\ tx'[o].nextSendIdx = (block + 1) % NumBlocks
    BY <1>1, <2>2 DEF NextOf
  <2>6. QED
    BY <1>1, <2>2, <2>4, <2>5, RoundRobinProgress
<1>2. IndInv /\ [Next]_vars =>
        [\A o \in Objects : SendsBlock(tx[o], tx'[o]) =>
           \A b \in Candidates(tx[o]) \cap Candidates(tx'[o]) :
             NextOf(b) # tx'[o].nextSendIdx =>
               RoundRobinDistance(tx'[o].nextSendIdx, b, NumBlocks)
                 < RoundRobinDistance(tx[o].nextSendIdx, b, NumBlocks)]_vars
  BY <1>1
<1>3. QED
  BY <1>2, IndInvAlways, PTL DEF Spec, NoOvertaking
------------------------------------------------------------------------------
(* A sender is only done when the receiver has stored the object. *)

\* A slot that has every block was counted.
FullInv == \A o \in Objects : slots[o].bitmap = Blocks => o \in seen

LEMMA FullDisturbed ==
  ASSUME IndInv, FullInv, NEW q \in a2b, HandleInfo(q) \/ HandleData(q) \/ HandleConfirm(q)
  PROVE  FullInv' /\ seen \subseteq seen'
<1> DEFINE o == q.pkt.object
<1>1. TypeOK /\ slots \in [Objects -> Slot] /\ seen \subseteq Objects
  BY DEF IndInv, TypeOK
<1>2. Blocks # {}
  BY ObjectAssumption DEF Blocks
<1>3. CASE HandleInfo(q)
  <2>1. slots' = [slots EXCEPT ![o] = OnObjectInfo(@)] /\ seen' = seen
    BY <1>3 DEF HandleInfo
  <2>2. OpenSlot.bitmap = {}
    BY DEF OpenSlot, FreeSlot
  <2>3. QED
    BY <1>1, <1>2, <2>1, <2>2 DEF FullInv, OnObjectInfo
<1>4. CASE HandleConfirm(q)
  <2>1. slots' = [slots EXCEPT ![o] = OnAckConfirm(@)] /\ seen' = seen
    BY <1>4 DEF HandleConfirm
  <2>2. FreeSlot.bitmap = {}
    BY DEF FreeSlot
  <2>3. QED
    BY <1>1, <1>2, <2>1, <2>2 DEF FullInv, OnAckConfirm
<1>5. CASE HandleData(q)
  <2> DEFINE slot == OnObjectData(slots[o], q.pkt.block, q.pkt.level)
  <2>1. /\ q.pkt.type = "DATA"
        /\ slots' = [slots EXCEPT ![o] = slot]
        /\ seen \subseteq seen'
    BY <1>5 DEF HandleData, Receives
  <2>2. /\ o \in Objects /\ q.pkt.block \in Blocks /\ q.pkt.level \in Levels
        /\ slots[o] \in Slot
    BY <1>1, <2>1, DataPacketType
  <2>3. slot.state = "COMPLETED_AWAIT_CONFIRM" => o \in seen'
    BY <1>5, HandleDataStores
  <2>4. slot.bitmap = Blocks => o \in seen'
    <3>1. CASE slots[o].state = "RECEIVING"
      <4>1. /\ Noted(slots[o], q.pkt.level) \in Slot
            /\ slot = Stored(Noted(slots[o], q.pkt.level), q.pkt.block)
        BY <2>2, <3>1, SlotTypes DEF OnObjectData
      <4>2. slot.bitmap = Blocks => slot.state = "COMPLETED_AWAIT_CONFIRM"
        BY <2>2, <4>1, SlotTypes
      <4>3. QED
        BY <2>3, <4>2
    <3>2. CASE slots[o].state # "RECEIVING"
      <4>1. slot = Noted(slots[o], q.pkt.level)
        BY <3>2 DEF OnObjectData
      <4>2. slot.bitmap = slots[o].bitmap
        BY <2>2, <4>1, SlotTypes
      <4>3. QED
        BY <2>1, <2>2, <4>2 DEF FullInv
    <3>3. QED
      BY <3>1, <3>2
  <2>5. QED
    <3> HIDE DEF slot, o
    <3>1. QED
      BY <1>1, <2>1, <2>2, <2>4 DEF FullInv
<1>6. QED
  BY <1>3, <1>4, <1>5

LEMMA FullStep ==
  ASSUME IndInv, FullInv, [Next]_vars
  PROVE  FullInv' /\ seen \subseteq seen'
<1>1. UNCHANGED <<slots, seen>> => FullInv' /\ seen \subseteq seen'
  BY DEF FullInv
<1>2. \/ UNCHANGED <<slots, seen>>
      \/ \E q \in a2b : HandleInfo(q) \/ HandleData(q) \/ HandleConfirm(q)
  BY DEF Next, vars, IdleTick, ConfirmTick, TransferTick, HandleAck, Stop, Sleep, Terminated
<1>3. QED
  BY <1>1, <1>2, FullDisturbed

\* The only new CONFIRM packet is that of a sender that finds itself done.
LEMMA ConfirmsUnderWay ==
  ASSUME IndInv, [Next]_vars, NEW r \in a2b', r.pkt.type = "CONFIRM"
  PROVE  \/ \E q \in a2b : q.pkt = r.pkt
         \/ \E o \in Objects : ConfirmTick(o) /\ r.pkt.object = o
<1>1. a2b \in SUBSET InTransit(DataPackets) /\ losses \in 0..MaxLoss
  BY DEF IndInv, TypeOK
<1>2. ASSUME NEW o \in Objects, ConfirmTick(o)
      PROVE  r \in a2b \/ r.pkt.object = o
  <2>1. IsFiniteSet({ConfirmPacket(o)})
    BY FS_Singleton, Zenon
  <2>2. Enqueue(a2b, a2b', {ConfirmPacket(o)})
    BY <1>2 DEF ConfirmTick
  <2>3. \/ r \in a2b
        \/ \E p \in {ConfirmPacket(o)}, d \in Latencies : r = [pkt |-> p, due |-> d]
    BY <1>1, <2>1, <2>2, EnqueueEffect
  <2>4. QED
    BY <2>3 DEF ConfirmPacket
<1>3. ASSUME NEW o \in Objects, TransferTick(o)
      PROVE  r \in a2b
  <2> DEFINE info == IF InfoDue(tx[o]) THEN {InfoPacket(o)} ELSE {}
             t    == TimeoutChecked(InfoSent(tx[o]))
  <2>1. IsFiniteSet(info) /\ \A p \in info : p.type = "INFO"
    <3>1. IsFiniteSet({}) /\ IsFiniteSet({InfoPacket(o)})
      BY FS_EmptySet, FS_Singleton, Zenon
    <3>2. info = {} \/ info = {InfoPacket(o)}
      OBVIOUS
    <3>3. InfoPacket(o).type = "INFO"
      BY DEF InfoPacket
    <3> HIDE DEF info
    <3>4. QED
      BY <3>1, <3>2, <3>3
  <2>2. PICK packets :
          /\ Enqueue(a2b, a2b', packets)
          /\ \/ packets = info
             \/ \E block, level : packets = info \cup {DataPacket(o, block, level)}
    <3>1. \E wait \in Waits :
            \/ \E block \in Blocks :
                 LET u == BlockSent(InRounds(t), block, wait)
                 IN  Enqueue(a2b, a2b', info \cup {DataPacket(o, block, u.ackReqLevel)})
            \/ Enqueue(a2b, a2b', info)
      BY <1>3 DEF TransferTick
    <3> HIDE DEF info, t
    <3>2. QED
      BY <3>1
  <2> HIDE DEF info
  <2>3. IsFiniteSet(packets) /\ \A p \in packets : p.type # "CONFIRM"
    <3>1. ASSUME NEW block, NEW level, packets = info \cup {DataPacket(o, block, level)}
          PROVE  IsFiniteSet(packets) /\ \A p \in packets : p.type # "CONFIRM"
      <4>1. DataPacket(o, block, level).type = "DATA"
        BY DEF DataPacket
      <4>2. IsFiniteSet(packets)
        BY <2>1, <3>1, FS_AddElement
      <4>3. QED
        BY <2>1, <3>1, <4>1, <4>2
    <3>2. QED
      BY <2>1, <2>2, <3>1
  <2>4. r \in a2b \/ \E p \in packets, d \in Latencies : r = [pkt |-> p, due |-> d]
    BY <1>1, <2>2, <2>3, EnqueueEffect
  <2>5. QED
    BY <2>3, <2>4
<1>4. CASE Sleep
  <2>1. r \in TickPasses(a2b)
    BY <1>4 DEF Sleep
  <2>2. QED
    BY <1>1, <2>1, TickPassesPackets
<1>5. \/ a2b' \subseteq a2b
      \/ Sleep
      \/ \E o \in Objects : ConfirmTick(o) \/ TransferTick(o)
  BY DEF Next, vars, IdleTick, HandleAck, HandleInfo, HandleData, HandleConfirm, Receives,
         Stop, Terminated
<1>6. QED
  BY <1>2, <1>3, <1>4, <1>5

\* A sender that finds itself done has its object stored.
LEMMA ConfirmedIsStored ==
  ASSUME IndInv, FullInv, NEW o \in Objects, ConfirmTick(o)
  PROVE  tx'[o].acked = Blocks /\ o \in seen
<1>1. tx \in [Objects -> Tx] /\ slots \in [Objects -> Slot]
  BY DEF IndInv, TypeOK
<1>2. tx[o].acked = Blocks /\ tx' = [tx EXCEPT ![o].state = "CONFIRMED"]
  BY DEF ConfirmTick, IsFullyAcked
<1>3. tx'[o].acked = Blocks
  BY <1>1, <1>2 DEF Tx
<1>4. Blocks \subseteq Held[o]
  BY <1>2 DEF IndInv, ChainInv
<1>5. o \in seen
  <2> SUFFICES ASSUME o \notin seen PROVE FALSE
    OBVIOUS
  <2>1. Held[o] = slots[o].bitmap
    BY DEF Held
  <2>2. slots[o].bitmap \subseteq Blocks
    BY <1>1 DEF Slot
  <2>3. slots[o].bitmap = Blocks
    BY <1>4, <2>1, <2>2
  <2>4. QED
    BY <2>3 DEF FullInv
<1>6. QED
  BY <1>3, <1>5

\* A sender is only done, and only lets the receiver free the slot, when the
\* receiver has completed the object, however late acknowledgements arrive.
THEOREM ConfirmedWasStored == Spec => []ConfirmMeansStored
<1>1. Init => FullInv /\ ConfirmMeansStored
  <2>1. Blocks # {}
    BY ObjectAssumption DEF Blocks
  <2>2. QED
    BY <2>1 DEF Init, FullInv, ConfirmMeansStored, FreeSlot, NewTx
<1>2. ASSUME IndInv, FullInv, ConfirmMeansStored, [Next]_vars
      PROVE  FullInv' /\ ConfirmMeansStored'
  <2>1. FullInv' /\ seen \subseteq seen'
    BY <1>2, FullStep
  <2>2. ASSUME NEW o \in Objects, tx'[o].state = "CONFIRMED"
        PROVE  tx'[o].acked = Blocks /\ o \in seen'
    <3>1. \/ ConfirmTick(o)
          \/ tx[o].state = "CONFIRMED" /\ tx'[o].acked = tx[o].acked
      BY <1>2, <2>2, SenderTurn DEF SentNext
    <3>2. QED
      BY <1>2, <2>1, <3>1, ConfirmedIsStored DEF ConfirmMeansStored
  <2>3. ASSUME NEW r \in a2b', r.pkt.type = "CONFIRM"
        PROVE  r.pkt.object \in seen'
    BY <1>2, <2>1, <2>3, ConfirmsUnderWay, ConfirmedIsStored DEF ConfirmMeansStored
  <2>4. QED
    BY <2>1, <2>2, <2>3 DEF ConfirmMeansStored
<1>3. QED
  BY <1>1, <1>2, IndInvAlways, PTL DEF Spec
==============================================================================
