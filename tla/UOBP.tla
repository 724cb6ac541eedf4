--------------------------------- MODULE UOBP ---------------------------------
(***************************************************************************)
(* The object transfer of docs/tools/uobp/uobp_sim.go: one sender per      *)
(* object, a receiver with one slot per object, and two pipes.  A pass of  *)
(* the loop of main is                                                     *)
(*                                                                         *)
(*   stepTick of each sender; handle what the pipes hand over, in any      *)
(*   order; stop when the count of completed objects is right; sleep.      *)
(*                                                                         *)
(* The goroutines of a pipe drop, delay and reorder; their channels never  *)
(* fill (4096 packets, and the loop handles 64 for at most six it sends),  *)
(* and a pass never meets that limit.                                      *)
(***************************************************************************)
EXTENDS UOBPSender, UOBPReceiver, MessagePipe

CONSTANTS
  NumObjects,
  MaxLoss      \* bound: packets the pipes drop in one behaviour

ASSUME DriverAssumption ==
  /\ NumObjects \in Nat \ {0}
  /\ MaxLoss \in Nat

Objects == 0..(NumObjects - 1)

Stopped == NumObjects + 1

VARIABLES
  tx,         \* object -> its sender
  slots,      \* object -> its slot at the receiver
  a2b,        \* packets to the receiver
  b2a,        \* packets to the senders
  turn,       \* the object whose sender is next, NumObjects: the pipes, then Stopped
  completed,  \* stats.Rx.CompletedObjects
  seen,       \* objects that were ever completed
  losses      \* packets dropped so far

vars == <<tx, slots, a2b, b2a, turn, completed, seen, losses>>

DataPackets ==
  [type : {"INFO", "CONFIRM"}, object : Objects]
    \cup [type : {"DATA"}, object : Objects, block : Blocks, level : Levels]

AckPackets ==
  [type : {"ACK"}, object : Objects, level : Levels, prefix : 0..NumBlocks,
   blocks : SUBSET Blocks]

TypeOK ==
  /\ tx \in [Objects -> Tx]
  /\ slots \in [Objects -> Slot]
  /\ a2b \subseteq InTransit(DataPackets)
  /\ b2a \subseteq InTransit(AckPackets)
  /\ turn \in 0..Stopped
  /\ completed \in Nat
  /\ seen \subseteq Objects
  /\ losses \in 0..MaxLoss

Init ==
  /\ tx = [o \in Objects |-> NewTx]
  /\ slots = [o \in Objects |-> FreeSlot]
  /\ a2b = {}
  /\ b2a = {}
  /\ turn = 0
  /\ completed = 0
  /\ seen = {}
  /\ losses = 0

\* pipe.run for each of `packets`: dropped, or handed over after some delay.
Enqueue(queue, queueAfter, packets) ==
  \E dropped \in SUBSET packets :
    /\ losses + Cardinality(dropped) <= MaxLoss
    /\ losses' = losses + Cardinality(dropped)
    /\ queueAfter \in Enqueued(queue, packets \ dropped)
------------------------------------------------------------------------------
(* The senders. *)

InfoPacket(o) == [type |-> "INFO", object |-> o]

ConfirmPacket(o) == [type |-> "CONFIRM", object |-> o]

DataPacket(o, block, level) ==
  [type |-> "DATA", object |-> o, block |-> block, level |-> level]

Turn(o) == turn = o /\ turn' = o + 1

IdleTick(o) ==
  /\ Turn(o)
  /\ tx[o].state = "CONFIRMED"
  /\ UNCHANGED <<tx, slots, a2b, b2a, completed, seen, losses>>

ConfirmTick(o) ==
  /\ Turn(o)
  /\ tx[o].state # "CONFIRMED"
  /\ IsFullyAcked(tx[o])
  /\ tx' = [tx EXCEPT ![o].state = "CONFIRMED"]
  /\ Enqueue(a2b, a2b', {ConfirmPacket(o)})
  /\ UNCHANGED <<slots, b2a, completed, seen>>

\* maybeSendInfo, checkTimeout, maybeSendData.
TransferTick(o) ==
  LET t     == TimeoutChecked(InfoSent(tx[o]))
      info  == IF InfoDue(tx[o]) THEN {InfoPacket(o)} ELSE {}
      force == TimedOut(tx[o])
  IN  /\ Turn(o)
      /\ tx[o].state # "CONFIRMED"
      /\ ~IsFullyAcked(tx[o])
      /\ \E wait \in Waits :
           \/ \E block \in Blocks :
                LET u == BlockSent(InRounds(t), block, wait)
                IN  /\ Picks(t, force, block)
                    /\ tx' = [tx EXCEPT ![o] = [u EXCEPT !.state = "SENDING"]]
                    /\ Enqueue(a2b, a2b', info \cup {DataPacket(o, block, u.ackReqLevel)})
           \/ /\ \A block \in Blocks : ~Picks(t, force, block)
              /\ tx' = [tx EXCEPT ![o] = NothingSent(t, wait)]
              /\ Enqueue(a2b, a2b', info)
      /\ UNCHANGED <<slots, b2a, completed, seen>>

\* Acknowledgements name the prefix and the blocks of the bitmap.
HandleAck(q) ==
  /\ turn = NumObjects
  /\ q \in DuePackets(b2a)
  /\ b2a' = b2a \ {q}
  /\ tx' = [tx EXCEPT ![q.pkt.object] =
              StepOnAck(@, q.pkt.level, 0..(q.pkt.prefix - 1) \cup q.pkt.blocks)]
  /\ UNCHANGED <<slots, a2b, turn, completed, seen, losses>>
------------------------------------------------------------------------------
(* The receiver. *)

Receives(q, type) ==
  /\ turn = NumObjects
  /\ q \in DuePackets(a2b)
  /\ q.pkt.type = type
  /\ a2b' = a2b \ {q}

HandleInfo(q) ==
  /\ Receives(q, "INFO")
  /\ slots' = [slots EXCEPT ![q.pkt.object] = OnObjectInfo(@)]
  /\ UNCHANGED <<tx, b2a, turn, completed, seen, losses>>

HandleConfirm(q) ==
  /\ Receives(q, "CONFIRM")
  /\ slots' = [slots EXCEPT ![q.pkt.object] = OnAckConfirm(@)]
  /\ UNCHANGED <<tx, b2a, turn, completed, seen, losses>>

HandleData(q) ==
  LET o    == q.pkt.object
      slot == OnObjectData(slots[o], q.pkt.block, q.pkt.level)
      done == Completes(slots[o], q.pkt.block, q.pkt.level)
  IN  /\ Receives(q, "DATA")
      /\ slots' = [slots EXCEPT ![o] = slot]
      /\ completed' = IF done THEN completed + 1 ELSE completed
      /\ seen' = IF done THEN seen \cup {o} ELSE seen
      /\ Enqueue(b2a, b2a', IF AckTriggered(slots[o], q.pkt.level) THEN MakeAck(o, slot) ELSE {})
      /\ UNCHANGED <<tx, turn>>
------------------------------------------------------------------------------
(* The loop. *)

NothingDue == turn = NumObjects /\ DuePackets(a2b) = {} /\ DuePackets(b2a) = {}

Stop ==
  /\ NothingDue
  /\ completed = NumObjects
  /\ turn' = Stopped
  /\ UNCHANGED <<tx, slots, a2b, b2a, completed, seen, losses>>

Sleep ==
  /\ NothingDue
  /\ completed # NumObjects
  /\ turn' = 0
  /\ tx' = [o \in Objects |-> TimePasses(tx[o])]
  /\ a2b' = TickPasses(a2b)
  /\ b2a' = TickPasses(b2a)
  /\ UNCHANGED <<slots, completed, seen, losses>>

Terminated == turn = Stopped /\ UNCHANGED vars

Next ==
  \/ \E o \in Objects : IdleTick(o) \/ ConfirmTick(o) \/ TransferTick(o)
  \/ \E q \in a2b : HandleInfo(q) \/ HandleData(q) \/ HandleConfirm(q)
  \/ \E q \in b2a : HandleAck(q)
  \/ Stop
  \/ Sleep
  \/ Terminated

Spec == Init /\ [][Next]_vars

\* The loop of main runs until it stops.
FairSpec == Spec /\ WF_vars(Next)
------------------------------------------------------------------------------
\* The count of blocks in flight is exact: each first transmission counted
\* once, each acknowledged block taken out once, although acknowledgements are
\* lost, repeated and reordered and blocks are sent again.
InFlightIsExact ==
  \A o \in Objects : tx[o].inFlight = Cardinality(tx[o].sent \ tx[o].acked)

\* A sender is only done, and only lets the receiver free the slot, when the
\* receiver has completed the object, however late acknowledgements arrive.
ConfirmMeansStored ==
  /\ \A o \in Objects :
       tx[o].state = "CONFIRMED" => tx[o].acked = Blocks /\ o \in seen
  /\ \A q \in a2b : q.pkt.type = "CONFIRM" => q.pkt.object \in seen

\* Every block sent moves the count of data packets on.
SendsBlock(t, u) ==
  <<t.ackReqLevel, t.sentSinceBump>> # <<u.ackReqLevel, u.sentSinceBump>>

\* In the first pass and in resend rounds a block sent brings every other
\* candidate nearer to its turn, although acknowledgements take blocks out and
\* rounds begin and end.
NoOvertaking ==
  [][\A o \in Objects : SendsBlock(tx[o], tx'[o]) =>
       \A b \in Candidates(tx[o]) \cap Candidates(tx'[o]) :
         NextOf(b) # tx'[o].nextSendIdx =>
           RoundRobinDistance(tx'[o].nextSendIdx, b, NumBlocks)
             < RoundRobinDistance(tx[o].nextSendIdx, b, NumBlocks)]_vars

\* The blocks of each object that have been handed over or stored.
Held == [o \in Objects |-> IF o \in seen THEN Blocks ELSE slots[o].bitmap]

Known == [o \in Objects |-> tx[o].acked]

Promise == INSTANCE ObjectTransfer
             WITH Items <- Objects, Pieces <- Blocks, held <- Held, known <- Known

\* The transfer keeps the promise of an object transfer: no stored block of an
\* unfinished object is lost, and no block is acknowledged that was not stored.
RefinesObjectTransfer == Promise!TransferSpec

\* Each object is completed, unless the loop has ended before.
EveryObjectArrives == \A o \in Objects : <>(o \in seen \/ turn = Stopped)

\* UOBP_v1.md, section 6: "Loss, duplication, and reordering are fully
\* tolerated".  The loop ends with every object complete.
StopsWithEveryObject == turn = Stopped => seen = Objects
==============================================================================
