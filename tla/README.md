# cp2p: verification project

TLA+ models of the transports of cp2p, the TLC configurations that check them
and the TLAPS proofs about them. Paths below are relative to the repository.

## 1. The system

cp2p is a peer-to-peer messaging library in C++ (`source/main`) with Go
simulators of its transports (`tools/udtsim`, `docs/tools/uobp`).

| Part | State | Operations | Talks to |
|---|---|---|---|
| **UDT, udtsim** `udt.go` | sender: next number, cumulative ack, ACTIVE/WAIT, in-flight and missing maps, flow window, expiration time; receiver: received and missing maps, contiguous prefix, ACK and NAK times | `TxTick`, `OnTxAckReceived`, `OnTxNakReceived`; `RxTick`, `OnRxDataReceived` | controller by calls, the pipes by `send`, the driver by ticks |
| **Congestion controller** `cc.go` | cwnd, own in-flight count, last ack, pacing, slow-start and loss flags | `OnPacketSent`, `OnMissingPacketSent`, `OnAck`, `OnLoss`, `OnTimeout`, budget and pacing queries | called by the UDT sender |
| **Pipe** `pipe.go` | queue of packets with delivery times, link occupancy | `Enqueue` (drop, delay, swap), `Tick` (deliver what is due) | between the two UDT ends |
| **Driver** `main.go` | simulated time, the two ends and pipes | the tick loop, completion test | runs everything, single-threaded |
| **Sequence map** `seqmap.go` | bit words, cached min, max and count, cursor | push, remove, range and bulk removal, pop, merge, serialise | used by both UDT ends and UDX |
| **UDX** `udx.go` | congestion window, flow window and pacing objects; sender and receiver with retransmit queue and 20-bit sequence numbers | `Process`, `OnPacketReceived` on both sides | not wired to a driver |
| **UOBP simulator** `uobp_sim.go` | sender: fragments sent, acked, inflight, round, ack-request level; receiver: object slots, received bitmap, reported state | OBJECT_INFO, OBJECT_DATA, OBJECT_ACK (range, bitmap), OBJECT_ACK_CONFIRM; resend rounds | pipe with loss, delay, reorder |
| **UOBP library** `c_uobp_{tx,rx}.cpp` | per-object send cursor and in-flight count; build buffer and bitmap | begin, next packet, on_ack, on_timeout; on_info, on_data | caller's packet loop |
| **UDT library** `c_udt*.cpp` | as udtsim's | as udtsim's, by return value | C++ caller |
| **TCP I/O** `c_netio_tcp.cpp` | connection table partitioned by state, sockets, pollfds | start, connect, disconnect, accept, poll, wakeup | the P2P node by callbacks |
| **P2P node** `c_p2p.cpp`, **queues** `c_lqueue.h`, `c_msg.cpp`, **registry** `c_peer_registry.cpp` | peers and status; intrusive circular lists of messages; peer table | start, connect_to, send, event loop; enqueue, dequeue, garbage collection; register, find, remove | each other by calls |
| **Instrumentation** `events.go`, `stats.go`, `font5x7.go` | counters, samples | record, print, draw | written by everything, read by nothing |

### What is hard in it

* *Unreliable delivery.* Data, acknowledgements and loss reports are lost,
  delayed and reordered; both directions carry state (cumulative acks, missing
  sets) that may be stale when it arrives.
* *Timers against late answers.* The expiration time is set when the sender
  finds nothing to do and is set again whenever feedback wakes it.
* *Two views of one thing.* The controller counts packets in flight, the sender
  keeps them in a map; a timeout resets only the first. A number can be in the
  in-flight map and the missing map at once. The sequence map caches its
  minimum, maximum and count beside the bits.
* *Boundary values.* The receiver's prefix starts at 0xFFFFFFFF and adds one; a
  search for contiguous numbers subtracts one from the first number of a word;
  UDX puts twenty bits of either on the wire.
* *Refusal.* The library's builders may decline a packet whose number has been
  taken from a queue already.
* *Completion.* The driver stops on two counters at two ends with packets under
  way.

### What makes each part correct

* UDT sender: outstanding numbers are exactly the range between the cumulative
  acknowledgement and the next number; nothing is taken for delivered that is
  not; nothing unsent is ever named.
* UDT receiver: the prefix counter is the length of the received prefix; the
  missing map is exactly the set of holes; a duplicate has no effect.
* Transfer: prefixes sent, delivered and acknowledged only grow and stay
  ordered; it stops only when complete; it makes progress after loss.
* Controller: the window stays in its range, the count never exceeds what is
  outstanding.
* Sequence map: it is a set, whatever its caches say; count, minimum and
  maximum are those of the bits.
* UDX: nothing is sent beyond either window as it stands, also when it shrinks
  beneath what is outstanding; loss
  reports hold every hole and nothing else, whatever the receiver believes its
  prefix to be; a hole is repaired.
* UDT library: what the UDT parts promise, in any order of calls, and also when
  a packet is duplicated or a builder refuses to build one. The simulator does
  nothing that the library may not do.
* Popping: who waits to be sent, in a sequence map or among the blocks of an
  object, is passed by no more often than there are others.
* UOBP: a stored block is never lost, a block is acknowledged only when it is
  stored, each object is completed once and every object is; the count in
  flight is exact.
* TCP I/O: each connection is in exactly one partition of the table, and is
  served by each poll; queues: first in, first out, each message in one queue.

## 2. Plan

| | Modules | Status |
|---|---|---|
| 1 | UDT transfer: sender, receiver, controller, pipes, driver; `ReliableDelivery` as its abstract specification; `UDTProofs`, `UDTCCProofs`; `UDTRefinementProofs` for the refinement of the library | done: the refinement of the library and all that the runs check about safety |
| 2 | `SequenceMap`, with `SequenceSet` as its abstract specification; `SequenceMapProofs`; `SequencePolicyProofs` about the popping that three transports share | done, the refinement among the theorems |
| 3 | UOBP simulator, with `ObjectTransfer` as its abstract specification; `UOBPProofs` | done, the refinement among the theorems |
| 4 | UDX (`udx.go`): both ends, with `SequenceSearch` as the search its receiver uses; `UDXProofs` | done, with a theorem on when the search can be trusted |
| 5 | UDT library (`c_udt.cpp`), which implements `ReliableDelivery` too; `UDTLibraryProofs` | `c_udt.cpp` done, the refinement among the theorems; pacing and the maps are abstracted |
| 6 | UOBP library, TCP I/O, P2P node, queues, registry | not modelled: section 6 says why |

What would be next: the arithmetic of the library's NAK window, and the pacing
of the controllers, which are free choices now.

## 3. The modules and the code

### UDT: `UDTConfig`, `UDTCC`, `UDTSender`, `UDTReceiver`, `MessagePipe`, `UDT`

| Code | Model |
|---|---|
| `udt.go` sender fields | `txNextSeq`, `txLastAcked`, `txState`, `txInFlight`, `txMissing`, `txMissingCursor`, `txFlowWindow`, `txExpTimer`, `txPaceTimer` |
| `UDTCC` | record `cc`; one operator per method |
| `TxTick` | `TxWaiting`, `TxTimeout`, `TxCongestionBlocked`, `TxPaced`, `TxSendMissing`, `TxSendNew`, `TxNothingToSend`: one per way through it |
| `OnTxAckReceived`, `OnTxNakReceived` | `OnTxAckIgnored` or `OnTxAckAccepted`; `OnTxNakReceived` |
| receiver fields | `rxReceived`, `rxMissing`, `rxHighestContig`, `rxAckTimer`, `rxNakTimer` |
| `OnRxDataReceived`, `RxTick` | `OnRxDataDuplicate`, `OnRxDataNew`; `RxTick` with `RxTickOutput` |
| `MessagePipe.Enqueue`, `Tick` | `Enqueue` in `UDT`, with `Enqueued`; `DuePackets`, `TickPasses` |
| the loop of `main.go` | `phase`: `SenderTick`, `DeliverToReceiver`, `ReceiverTick`, `DeliverToSender`, then `Stop` or `Advance` |

Abstractions:

* Time is in driver ticks, and a deadline is the number of ticks left. Delivery
  times within one tick only order the deliveries of that tick, and any order is
  allowed.
* A pipe is a set of packets. A packet may be dropped, whatever the reason
  (`MaxLoss` in all), and takes any latency up to `MaxLatency`. The pipe never
  duplicates; equal packets due at the same time are one member, as if one had
  been dropped: a second equal loss report in the same tick (in UDX a second
  acknowledgement, too) would move the congestion window once more.
* The pacing interval is at least a microsecond, so that a call of `TxTick`
  sends at most one packet. Its length is any number of ticks up to `MaxPacing`.
* The flow window counts packets, not bytes. A retransmission does not look at
  it, in the code (`udt.go:158`) and so in the model.
* The urgency of the NAK window is replaced by the interval it yields, any
  length between the base and the longest. The rate-control clock is a free
  answer.
* A sequence map is the set of its members; `SequenceMap` shows that it is one.
* 0xFFFFFFFF, "nothing received", is -1; it is only compared and incremented.
* The flag that stops the simulation after a number of ticks is not modelled.

### Sequence map: `SequenceMap`, `SequenceSearch`, `SequencePolicy`, `SequenceSet`

A word is the set of the positions of its bits; the masks of the first and the
last word, the cached count, minimum, maximum and cursor and the early returns
are those of `seqmap.go`, one action per operation. The count is a number
modulo `CountSpan`. `TransportNext` is what the transports do with a map;
`RebuildNext` is `RemoveAll` and `Deserialize`, which they do only with maps
they never merge into (`merged`). `SequenceSearch` is `SearchContiguesSet`;
`SequencePolicy`, which member a pop yields, is shared with the UDT sender, the
UDX sender and the UOBP sender.

### UDX: `UDXConfig`, `UDXSender`, `UDXReceiver`, `UDX`

| Code | Model |
|---|---|
| `SenderUDX` and its `CongestionWindow`, `FlowWindow`, `PacketPacing` | `txInFlight`, `txMissing`, `txMissingCursor`, `txCwnd`, `txPacing`, `txSendTimer`, `txCurrentSeq`, `txTimeOut`; the flow window is `FlowWindow(txCwnd)`, since every change of the one sets the other |
| `SenderUDX.Process` | `TxSendMissing`, `TxSendNew`, `TxQuiet`, each with `ProcessTimeout` before it |
| `SenderUDX.OnPacketReceived` | `OnAckReceived`, `OnNakReceived` |
| `ReceiverUDX` | `rxReceived`, `rxMissing`, `rxHighestContig`, `rxAckTimer`, `rxNakTimer`, `rxSampled` |
| `ReceiverUDX.Process` | `RxProcess` with `RxOutput` |
| `OnDataPacketReceived` | `OnDuplicateData`, `OnNewData` |
| packet header | `OnWire`: twenty bits of a number (`SeqSpan`) |

Abstractions:

* Nothing in the repository drives UDX. The driver of the model is an
  assumption: it calls `Process` of both ends periodically, as the interfaces
  in `udx.go` say, in the order of `main.go`, over the pipes of the simulator.
* Time is in calls of `Process`; a deadline is the number of calls left.
* The flow window counts packets, not bytes.
* Of the round-trip sample of an acknowledgement only its presence is kept: a
  sampled acknowledgement sets any pacing within the bounds. Without a sample
  the pacing stays.
* `highestReceivedSeq` and its time are written and feed nothing; they are left
  out. So is the branch of `Process` that would set `timeOutUs` when it sends:
  after its own timeout a call never leaves it in the past.
* Numbers are `uint32`, modulo `CountSpan`: the "no prefix yet" of the receiver,
  0xFFFFFFFF, and the answer of the search for an empty word do wrap.

### UDT library: `UDTLibrary`

| Code (`c_udt.cpp`) | Model |
|---|---|
| `tx_tick` | `TxExpires`, `TxSendMissing`, `TxMissingRefused`, `TxSendNew`, `TxWaits` |
| `on_tx_ack_received`, `on_tx_nak_received` | `OnTxAckIgnored` or `OnTxAckAccepted`; `OnTxNakReceived` |
| `on_rx_data_received`, `rx_tick` | `OnRxDataDuplicate`, `OnRxDataNew`; `RxTick` |
| the owner and its network | `Deliver`, `Lose`, and the choice of the next call |

The library has no loop of its own: its owner ticks it, hands it what arrives
and passes the time. So the model lets the calls come in any order, takes "the
timer has run out" for a free answer, and lets the network lose, delay, reorder
and duplicate (`network` is a set; delivering a packet may leave it there). A
builder callback may refuse. `c_udt_cc.cpp` is the controller of `cc.go` except
for its pacing, which is free; the map is the set that
`c_udt_sequence_map.h` promises, popped in any order.

`UDT` instantiates `UDTLibrary` as `Library`: the simulator is shown to do only
what the library may do. The variables of the two ends map to themselves. The
network of the library, which may deliver again whatever it carried, is every
data packet sent so far and every report under way. The state of the sender is
mapped by `LibraryState`: the call of `TxTick` that finds nothing to do waits at
once in the simulator, while the library returns after each packet and is found
waiting by its next tick. So the library waits from the tick after, when the
expiration time has begun to run down.

`MessagePipe` is shared by UDT, UDX and UOBP. `SequencePolicyProofs` holds what
four of the proof modules need of least and greatest elements and of round-robin
popping.

### UOBP simulator: `UOBPObject`, `UOBPSender`, `UOBPReceiver`, `UOBP`

| Code | Model |
|---|---|
| `tx`, one per object | record `tx[o]`; its bitmaps are sets of blocks |
| `stepTick` | `IdleTick`, `ConfirmTick`, `TransferTick` (`maybeSendInfo`, `checkTimeout`, `maybeSendData` with `bumpAckReqLevel` and `onResendRoundEnd`, in that order) |
| `onAck`, `onAckBitmap`, `stepOnAck` | `OnAckBitmap`, `StepOnAck`; `HandleAck` |
| `rxCtx`, one slot per object | record `slots[o]` |
| `onObjectInfo`, `onObjectData`, `makeAck`, `onAckConfirm` | `OnObjectInfo`, `OnObjectData`, `MakeAck`, `OnAckConfirm`; `HandleInfo`, `HandleData`, `HandleConfirm` |
| the loop of `main` | `turn`: each sender, then the packets that are due in any order, then `Stop` or `Sleep` |

Abstractions:

* Time is in passes of the loop. The round-trip estimate only chooses a wait,
  so a wait is any number of passes up to `MaxWait`.
* `NoProgressRounds` is a Boolean: it is only compared with zero.
* The driver gives every object generation 1: it has no variable.
* The goroutines of a pipe drop, delay and reorder; their channels never fill,
  and a pass never meets its limit of 64 packets.
* The 16-bit level wraps at `LevelSpan`.
* `InflightLimit` is kept as the code keeps it and guards nothing, as in the
  code (`uobp_sim.go:729`); `docs/designs/UOBP_v1.md`, section 12.2, has it
  limit the sender.

## 4. The runs

| Run | Instance | States | Shows |
|---|---|---|---|
| `udt_safety` | 4 packets, latency 0 to 2, 2 losses, window 2 to 5 | 545,000 | the invariants of both ends and of what is under way, no lost wake-up, no overtaking, and the refinements of `ReliableDelivery` and of the library |
| `udt_repair` | 4 packets, latency 0 to 1, 2 losses, a congestion window that never fills | 9,000 | holes are repaired, receipts become known |
| `udt_rare_acks` | 4 packets, 2 losses, acknowledgements rarer than the expiration | 93,000 | every transfer completes |
| `udt_livelock`, `udt_stall` | 3 packets, 1 or 2 losses | 170 | findings, below |
| `seqmap_set` | 4 numbers in words of 3 bits | 7,000 | the map is a set; no member is overtaken or starves |
| `uobp_transfer` | 2 objects of 2 blocks, latency 0 to 1, 1 loss | 543,000 | the exact count, no sender done too early, and the refinement of `ObjectTransfer` |
| `uobp_arrival` | 1 object of 3 blocks, latency 0 to 2, 2 losses | 184,000 | no block overtakes another; every object arrives |
| `uobp_early_stop` | 2 objects of 1 block, latency 0 to 2, no loss | 2,000,000 | finding, below |
| `udx_transfer` | 10 packets in words of 3 bits, latency 0 to 1, 2 losses, congestion window 1 to 10 from 10, flow window 1 to 9 | 196,000 | loss reports are exact, the search is misled by holes only, nothing is sent beyond a window that shrank, holes are repaired unless no call finds room any more |
| `udx_false_ack` | 3 packets in words of 4 bits, 2 losses | 500 | finding, below |
| `udt_library` | 4 packets, windows of 3 and 2, congestion window 1 to 3 | 158,000 | the invariants of both ends and the controller under any order of calls, that only new data counts, and the refinement of `ReliableDelivery` |

Why the bounds are enough. *UDT*: four packets give a hole with a packet on
each side and one more in flight, and a partial acknowledgement of a window with
holes; latency 2 lets any packet overtake two that were sent before it, and an
acknowledgement be overtaken by a later one; two losses take a packet and its
retransmission, or a packet and the report of it; the window starts below the
number of packets, so that it grows, fills and shrinks; the expiration is
longer than the acknowledgement and NAK intervals in `udt_safety` and shorter
in `udt_rare_acks`. *Sequence map*: the second word is partial, and a range
begins and ends inside a word, at a boundary and past the capacity. *UOBP*: a
window of one bit in an acknowledgement, levels that wrap, an INFO that arrives
before, during and after the object, waits of resend rounds that meet a timeout.
*UDX*: ten numbers are three full words and a partial one, so that the search
ends inside a word, at its end, in an empty word and at the capacity, and
answers 0xFFFFFFFF after it had a prefix; numbers on the wire have fewer bits
than numbers in memory. The congestion window falls from 10 to 7 (below 8 an
eighth of it is zero and a report no longer shrinks it) and grows again. At 10
the flow window of 9 is the one that fills; then both fall together, by up to
two beneath nine packets outstanding, also by a timeout in a call that could
have sent before it. Acknowledgements are rare enough for the windows to fill
first. *UDT library*: the flow window of the receiver is smaller
than the one the sender starts with, so that it shrinks under what is
outstanding; the network is unbounded in losses and duplicates.

### Fairness

`WF_vars(Next)` for UDT and UOBP: one thread runs the loop until it stops, and
every step belongs to it. Nothing more is assumed: no packet is promised to
arrive; the bound on losses, `MaxLoss`, says that the network does not lose
for ever, and the latency bound that what is not lost arrives. For UDX the same
`WF_vars(Next)`, which is the assumption that its driver keeps calling. For the
sequence map `WF_vars(Pop)`: its owner keeps popping (`TxTick` does while the
map has members). No fairness is assumed of pushes and removals. The UDT library
has none, and no liveness is checked of it: what its owner does is not in the
repository.

### Findings

* `udt_livelock`: the last packet is lost, the receiver sees no gap, and its
  repeated acknowledgements re-arm the sender's expiration for ever.
* `udt_stall`: with a full congestion window a reported hole waits in the
  missing map, for there is no budget, and stale acknowledgements re-arm the
  expiration that would give one. `udt_repair` and `udt_rare_acks` show the
  same properties where these two conditions are absent.
* `uobp_early_stop`: packets of a finished object, delayed past its
  confirmation, open its slot again; it is completed and counted twice, and the
  loop ends without another object.
* `udx_false_ack`: the receiver of UDX takes what `SearchContiguesSet` answers
  for the end of the received prefix. The answer is the highest number of the
  first word that is not full, also behind a hole, or, wrapped, the number
  before that word when it holds none: the receiver acknowledges what it lacks,
  the sender forgets a packet that was lost, and it is never sent again.

Differences and oddities met on the way, which no run is spent on:

* UDT: a loss report overtaken by an acknowledgement puts acknowledged numbers
  back into the missing map; they are sent again, without harm
  (`DuplicateIsIdempotent`).
* Sequence map: `RemoveAll` after `Merge` leaves members behind, since `Merge`
  does not move the minimum and maximum that `RemoveAll` trusts. Neither
  transport does the one to a map it does the other to, and the model only
  rebuilds maps that were never merged into.
* UOBP: `InflightLimit` is compared with nothing, and OBJECT_ACK_CONFIRM is
  repeated by no timer (`docs/designs/UOBP_sender_receiver.md:190`); nothing in
  the simulator waits for either. A level that wraps silences the receiver,
  which compares levels as numbers; the loop ends on its count all the same.
* UDX: an acknowledgement sent before anything arrived, or after a search that
  ended in an empty first word, carries 0xFFFFF and clears everything in flight.
  `cwnd - cwnd/8` does not shrink a window below eight. On timeout what is in
  flight is copied to the missing map and stays in flight; with the windows full
  behind a hole a retransmission has no room either, and nothing makes any. A
  window that shrank beneath what is outstanding does the same: each stale
  acknowledgement lets it grow by one, and the loss report of the same tick
  takes that back before the next call. Both are the exception in
  `GapsAreRepaired`. `Begin` overwrites the initial flow window.
* UDT library: two of the core invariants listed in `c_udt.cpp` are not what the
  code does. An expiration merges what is in flight into the missing map, and a
  retransmission goes out without a look at the flow window; that the second does
  no harm is the part `OutstandingIsBounded` of `AccountsAgree`.

## 5. The proofs

The proof modules prove for every value of the constants what the safety runs
check on one. They rest on the named assumptions of the modules, all of them
ranges of the parameters (positive intervals, a minimum not above its maximum, a
wait of a UOBP round shorter than the acknowledgement timeout, as the code caps
it, a wire number that can name every packet), and on the library's facts on
finite sets.

**UDT.** `TypeOK` is not inductive: a countdown in the pipe could pass zero.
`TypeInv` adds that nothing is due to the receiver once its tick is over. The
invariants of the two ends need each other through the pipes: `NoFalseAck`
holds because no acknowledgement under way is ahead of the receiver's prefix,
and that because the prefix only grows. `IndInv` is `TypeInv`, `SenderInv` (the
window, the controller's count against the window), `ReceiverInv` (prefix and
gaps) and `LinkInv` (acknowledged, received and sent are ordered; nothing under
way names more). One lemma per actor shows what its step does to each part. The
theorems `TypeCorrect`, `WindowIsExact`, `AcknowledgedIsReceived`,
`PrefixIsExact`, `GapsAreExact`, `CongestionCountBounded`, `NamesAreSent`,
`DoneIsDelivered`, `DuplicatesAreIdempotent` and `ImplementsReliableDelivery`
follow from it. `OutstandingStaysBounded` needs a step of its own: a new packet
goes out only below the present window, and any other step only takes packets
out of flight. The run checks the accounts of the sender together, and those of
the receiver: `AccountsAlwaysAgree` (`AccountsAgree`: window, count and bound)
and `ReceiverStaysExact` (`ReceiverIsExact`: prefix and gaps) put the single
theorems together. `UDTCCProofs` has what the controller's operators keep and
bound, for both users of it.

`WaitsForNothingLost`: a sender that waits has nothing it may send
(`NoLostWakeup`). This one is inductive as it stands: the wait begins when there
is no budget or nothing to send, and each step that may change the budget, the
window or the missing map leaves the sender active (`WakeupStep`).

**From the simulator to the library.** `SimulatorImplementsLibrary` goes step by
step: a tick of the sender is a tick of the library that expires or sends, or
changes nothing of it; a delivery of data leaves the packet in the network, one
of a report takes it out unless the same report is under way twice; the reports
of a tick are among those the library may send. The passing of time is the step
that needs an invariant: when the wait of the simulator becomes visible to the
library, the library must be allowed to wait too, and that is `NoLostWakeup`.
Retransmissions and acknowledgements need `IndInv`: the library's network only
holds what was sent, and its controller is asked about acknowledgements the
simulator's sender ignores. `ImplementsReliableDelivery` and
`LibraryImplementsReliableDelivery` relate both to the abstract transfer.

**Round-robin popping.** `RoundRobinProgress` in `SequencePolicyProofs`: taking
the next member from a cursor on and moving the cursor past it brings every
other member nearer. With it, `RetransmissionIsFair` (UDT), `MapPopsInTurn`
(sequence map) and `BlocksTakeTurns` (UOBP) show that nothing is overtaken, while
members come and go. This bounds how often one is passed by; that the turn comes
at all needs fairness, and is `NoStarvation` in the run of the map.

**UOBP.** That the count in flight is the number of blocks sent and not
acknowledged is not inductive: an acknowledgement of a block that was never sent
would be taken out of the count. `IndInv` adds the chain it rests on: what is
acknowledged was stored and what was stored was sent (`ChainInv`), data under
way was sent and what an acknowledgement under way names was stored
(`PipesInv`), and, so that freeing a slot forgets nothing, a slot is only
complete when its object has been counted, and is empty when it is free
(`SlotsInv`). `SenderSends` and `ReceiverSteps` show once what every step of a
sender, and of the receiver, preserves. `TypeCorrect`, `CountInFlightExact` and
`ImplementsObjectTransfer` follow. `ConfirmedWasStored` needs one more fact, that
a slot that has every block was counted (`FullInv`): a sender is done when all
its blocks are acknowledged, so they were all stored, so the object was
completed, in its slot or before.

**Sequence map.** The abstract set is `Held(words)`. The bits of the words and
the numbers they stand for are in bijection, so the number of bits is the
cardinality of the set and the cached count follows operation by operation,
masks included (`MapCountIsExact`); `NoStrays`, no bit past the capacity in the
last word, is what the masks of the ranges keep. For a pop, the words are
ordered as their numbers are (`WordOrder`), so that the first bit found by the
search that wraps is the next member in round-robin order (`FoundIsNext`). With
`MapTypeCorrect` and `MapBoundsCover` this gives `MapRefinesSequenceSet`.

**UDX.** `MissingAreGaps` looks as if it depended on a correct prefix, which UDX
does not have. The strengthening is about the answers of the search: an answer
is a member or none, and every word that ends below it ends in a member
(`IsAnswer`, `WordsClosed`). So the next gap test, which starts after the
answer, may skip only numbers that an earlier test has recorded. With it,
`OnlySentIsNamed` and the fact that nothing is due once its turn is over
(`NothingDue`), `IndInv` is inductive, and `UDXTypeCorrect`, `UDXGapsAreExact`,
`UDXContigIsReceived` and `UDXNamesAreSent` follow. `UDXShrunkWindowsDrain`
compares what is outstanding with the windows as the sending call leaves them
(`SentIntoRoom`): the timeout comes first, and the room is looked up after it.

How far the receiver's prefix can be trusted is `UDXOnlyHolesMislead`. Exact loss
reports mean that without holes the numbers received are those up to some number
(`PrefixWithoutHoles`). A new number that leaves no hole is then the next one,
and on such a map the search answers its last number, whether that falls inside
a word, at its end, in the partial word or at the capacity (`SearchOnPrefix`).
So a transfer in which nothing is ever missing has the right prefix throughout
(`UDXPrefixWithoutHoles`), and the finding `udx_false_ack` needs a hole.

**UDT library.** `IndInv` is `TypeOK`, `Windows` (what is outstanding is a
range), `Maps` (prefix and gaps) and `Named` (what is under way names what was
sent and received). No clock and no order of calls enters, so one argument
covers duplicates and refused builders alike: the theorems are
`LibraryTypeCorrect`, `LibraryWindowIsExact`, `LibraryAckIsReceived`,
`LibraryGapsAreExact`, `LibraryOutstandingBounded`, `LibraryNamesAreSent`,
`LibraryOnlyNewDataCounts`, `LibraryQueuedIsNotLost` and
`LibraryImplementsReliableDelivery`. `LibraryCongestionCount` adds
`ControllerInv`: the controller's acknowledgement is the sender's, and its count
is at most the range that is outstanding. `LibraryAccountsAgree` and
`LibraryReportsAreTrue` put these together as the run checks them
(`AccountsAgree`, `ReportsAreTrue`).

Only model-checked: all liveness (progress under fairness, and `ENABLED`, are out
of the provers' reach) and deadlock freedom. Every invariant and every safety
property of the passing runs is proved.

## 6. What is not modelled

* **UOBP library** (`c_uobp_tx.cpp`, `c_uobp_rx.cpp`). A draft:
  `decode_ack_bitmap` has no body, the receiver never sends the acknowledgement
  its sender waits for, and no owner calls either side. What a transfer does is
  not determined by the source.
* **TCP I/O** (`c_netio_tcp.cpp`). The loop over the connections has no
  increment and the lookup assigns instead of comparing, so that what follows
  is not reached; the rest is calls of the operating system.
* **P2P node, queues, messages** (`c_p2p.cpp`, `c_lqueue.h`, `c_msg.cpp`).
  Bodies that are empty or do not compile; the queues serve only them. The
  readers and writers of messages convert bytes and keep no protocol state.
* **Peer registry** (`c_peer_registry.cpp`). `register` is an empty body: the
  table is never filled.
* **Bit set** (`bitset.go`). Nothing uses it, so nothing says which sequences of
  calls are legal. `SequenceMap.Clone` is used by one test only, and
  `udx_seqWnd.go` declares types that nothing uses.
* **Simulated network.** Queue limits, bandwidth and the accounting of bytes
  decide only whether and when a packet arrives; both are free within bounds.
* **Arithmetic of timing.** Pacing intervals, round-trip estimates and the
  urgency of the NAK window are replaced by the range of what they yield.
* **Output** (`events.go`, `stats.go`, `font5x7.go`), which nothing reads back;
  the usage sketch, unit tests and build descriptions.

`docs/designs` describes more of UOBP than the simulator does (credits, the
level 0xFFFF, a receiver timeout). The hazards found in the drafts are listed in
`PROJECT.json`.
