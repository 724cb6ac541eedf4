---------------------------- MODULE SequenceSearch ----------------------------
(***************************************************************************)
(* SequenceMap.SearchContiguesSet of tools/udtsim/seqmap.go on the set of  *)
(* a map's members: the search goes word by word and answers from the      *)
(* first word that is not full.                                            *)
(***************************************************************************)
EXTENDS Integers, FiniteSetsExt

CONSTANTS
  WordBits,   \* 64 in the code
  CountSpan   \* 2^32: numbers and counts are uint32

\* The numbers of one word, and the word's first number.
WordBase(seq) == WordBits * (seq \div WordBits)

WordAt(base) == base..(base + WordBits - 1)

\* The answer from a part of a word that is not full.  No bit set gives a
\* highest bit of -1, added as a uint32 to the word's first number.
HighestOf(members, part, base) ==
  IF members \cap part = {} THEN (base - 1) % CountSpan ELSE Max(members \cap part)

\* The head goes to the end of its word, whatever `end` is.
SearchContiguesSet(members, start, end) ==
  LET aligned == start = WordBase(start)
      head    == start..(WordBase(start) + WordBits - 1)
      from    == IF aligned THEN start ELSE WordBase(start) + WordBits
      holes   == {base \in from..(WordBase(end) - 1) :
                    base = WordBase(base) /\ ~(WordAt(base) \subseteq members)}
      tail    == WordBase(end)..(end - 1)
  IN  IF ~aligned /\ ~(head \subseteq members)
      THEN HighestOf(members, head, WordBase(start))
      ELSE IF holes # {} THEN HighestOf(members, WordAt(Min(holes)), Min(holes))
      ELSE IF ~(tail \subseteq members) THEN HighestOf(members, tail, WordBase(end))
      ELSE end - 1
==============================================================================
