---------------------------- MODULE SequencePolicy ----------------------------
(***************************************************************************)
(* Which member a sequence map yields next (SequenceMap.Pop of             *)
(* tools/udtsim/seqmap.go), on the set of its members.                     *)
(***************************************************************************)
EXTENDS Integers

IsLowest(members, seq) == seq \in members /\ \A s \in members : seq <= s

\* Mutant: the cursor is not looked at.
IsLowestAnyway(members, cursor, seq) == IsLowest(members, seq)

\* Round-robin: the first member at or after the cursor, else the lowest.
IsNextSetFrom(members, cursor, seq) ==
  LET ahead == {s \in members : s >= cursor}
  IN  IF ahead # {} THEN IsLowest(ahead, seq) ELSE IsLowest(members, seq)

\* How far a number below `count` is ahead of the cursor, going round.
RoundRobinDistance(cursor, seq, count) ==
  IF seq >= cursor THEN seq - cursor ELSE seq - cursor + count
==============================================================================
