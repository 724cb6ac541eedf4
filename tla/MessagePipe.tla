----------------------------- MODULE MessagePipe -----------------------------
(***************************************************************************)
(* One direction of the simulated network (tools/udtsim/pipe.go, type      *)
(* MessagePipe) as operators on its queue: the set of packets under way,   *)
(* each with the ticks left until deliverAtUs.                             *)
(*                                                                         *)
(* Enqueue drops a packet (queue full, drop probability, bytes full) or    *)
(* gives it a delivery time; the reordering swap exchanges two delivery    *)
(* times of the queue.  Base latency, jitter, serialisation and the swap   *)
(* are abstracted to "any latency up to MaxLatency".  The pipe never       *)
(* duplicates.  Two equal packets with the same delivery time are one      *)
(* member of the set, which is as if one had been dropped.  A second equal *)
(* packet in the same tick would change nothing else than a congestion     *)
(* window, which reacts to each loss report (and in UDX to each            *)
(* acknowledgement); in different ticks both are delivered.                *)
(***************************************************************************)
EXTENDS Integers, FiniteSets

CONSTANT MaxLatency     \* bound: ticks a packet may be under way

ASSUME LatencyAssumption == MaxLatency \in Nat

Latencies == 0..MaxLatency

InTransit(packets) == [pkt : packets, due : Latencies]

\* The queues Enqueue may leave when it accepts the packets `kept`.
Enqueued(queue, kept) ==
  {queue \cup {[pkt |-> p, due |-> latency[p]] : p \in kept} :
     latency \in [kept -> Latencies]}

\* Tick hands over everything that is due, in any order within the tick.
DuePackets(queue) == {q \in queue : q.due = 0}

TickPasses(queue) == {[q EXCEPT !.due = @ - 1] : q \in queue}
==============================================================================
