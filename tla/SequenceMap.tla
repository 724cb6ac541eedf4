------------------------------ MODULE SequenceMap ------------------------------
(***************************************************************************)
(* The sequence map of both transports (tools/udtsim/seqmap.go): bits in   *)
(* words of WordBits, with a cached count, minimum and maximum and the     *)
(* cursor of round-robin pops.                                             *)
(*                                                                         *)
(* A word is the set of the positions of its set bits, and a mask is a set *)
(* of positions.  A random pop may start anywhere the code lets it.        *)
(***************************************************************************)
EXTENDS FiniteSetsExt, SequencePolicy, SequenceSearch

CONSTANT MaxSeq   \* capacity

ASSUME MapAssumption ==
  /\ MaxSeq \in Nat \ {0}
  /\ WordBits \in Nat \ {0}
  /\ CountSpan \in Nat
  /\ CountSpan > MaxSeq

VARIABLES
  bits,      \* word -> positions set
  setCount,
  minSet,
  maxSet,
  cursor,
  mode,
  ret,       \* the last operation and what it returned
  merged     \* whether the map was ever the target of Merge

vars == <<bits, setCount, minSet, maxSet, cursor, mode, ret, merged>>

SeqNum == 0..(MaxSeq - 1)

WordCount == (MaxSeq + WordBits - 1) \div WordBits

Words == 0..(WordCount - 1)

Positions == 0..(WordBits - 1)

WordOf(seq) == seq \div WordBits

BitOf(seq) == seq % WordBits

SeqAt(word, bit) == word * WordBits + bit

Has(seq) == seq \in SeqNum /\ BitOf(seq) \in bits[WordOf(seq)]

Members == {seq \in SeqNum : Has(seq)}

TypeOK ==
  /\ bits \in [Words -> SUBSET Positions]
  /\ setCount \in 0..(CountSpan - 1)
  /\ minSet \in 0..MaxSeq
  /\ maxSet \in SeqNum
  /\ cursor \in SeqNum
  /\ mode \in {"Lowest", "RoundRobin", "Random"}
  /\ ret \in [op : {"New", "Push", "Remove", "RemoveRange", "Merge", "Pop",
                    "RemoveAll", "Deserialize"},
              out : -1..MaxSeq]
  /\ merged \in BOOLEAN

Init ==
  /\ bits = [w \in Words |-> {}]
  /\ setCount = 0
  /\ minSet = MaxSeq
  /\ maxSet = 0
  /\ cursor = 0
  /\ mode \in {"Lowest", "RoundRobin", "Random"}
  /\ ret = [op |-> "New", out |-> 0]
  /\ merged = FALSE

Returns(op, out) ==
  /\ ret' = [op |-> op, out |-> out]
  /\ merged' = (merged \/ op = "Merge")
------------------------------------------------------------------------------
(* One number at a time. *)

\* Mutant: the maximum is not kept up to date.
MaxUnkept(seq) == maxSet

MaxWith(seq) == IF seq > maxSet THEN seq ELSE maxSet

PushRefused(seq) ==
  /\ seq \notin SeqNum \/ Has(seq)
  /\ Returns("Push", 0)
  /\ UNCHANGED <<bits, setCount, minSet, maxSet, cursor, mode>>

PushAccepted(seq) ==
  /\ seq \in SeqNum
  /\ ~Has(seq)
  /\ bits' = [bits EXCEPT ![WordOf(seq)] = @ \cup {BitOf(seq)}]
  /\ setCount' = (setCount + 1) % CountSpan
  /\ minSet' = IF seq < minSet THEN seq ELSE minSet
  /\ maxSet' = MaxWith(seq)
  /\ Returns("Push", 1)
  /\ UNCHANGED <<cursor, mode>>

Push(seq) == PushRefused(seq) \/ PushAccepted(seq)

ClearBit(seq) ==
  /\ bits' = [bits EXCEPT ![WordOf(seq)] = @ \ {BitOf(seq)}]
  /\ setCount' = (setCount - 1) % CountSpan

Remove(seq) ==
  /\ IF Has(seq) THEN ClearBit(seq) ELSE UNCHANGED <<bits, setCount>>
  /\ Returns("Remove", 0)
  /\ UNCHANGED <<minSet, maxSet, cursor, mode>>
------------------------------------------------------------------------------
(* A range, a whole map. *)

\* Mutant: the last word is cleared to its end.
MaskToEnd(first, end, word) ==
  (IF word = WordOf(first) THEN BitOf(first) ELSE 0)..(WordBits - 1)

\* The positions of `word` that [first, end) covers.
RangeMask(first, end, word) ==
  (IF word = WordOf(first) THEN BitOf(first) ELSE 0)
    ..(IF word = WordOf(end - 1) THEN BitOf(end - 1) ELSE WordBits - 1)

\* What RemoveRange takes out of each word, `end` clamped to the capacity.
RangeBits(first, end) ==
  LET stop == IF end > MaxSeq THEN MaxSeq ELSE end
  IN  [w \in Words |->
         IF first < stop /\ w \in WordOf(first)..WordOf(stop - 1)
         THEN bits[w] \cap RangeMask(first, stop, w)
         ELSE {}]

\* OnesCount64 over the words.
CountBits(words) == Cardinality({wb \in Words \X Positions : wb[2] \in words[wb[1]]})

RemoveRange(first, end) ==
  LET removed == RangeBits(first, end)
  IN  /\ bits' = [w \in Words |-> bits[w] \ removed[w]]
      /\ setCount' = (setCount - CountBits(removed)) % CountSpan
      /\ Returns("RemoveRange", 0)
      /\ UNCHANGED <<minSet, maxSet, cursor, mode>>

\* The words of a map of the same capacity that holds `seqs`.
BitsOf(seqs) == [w \in Words |-> {b \in Positions : SeqAt(w, b) \in seqs}]

\* Mutant: every bit of the source is counted.
MergedAll(src) == src

MergedBits(src) == [w \in Words |-> src[w] \ bits[w]]

\* Merge leaves the cached minimum and maximum as they are.
Merge(src) ==
  /\ bits' = [w \in Words |-> bits[w] \cup src[w]]
  /\ setCount' = (setCount + CountBits(MergedBits(src))) % CountSpan
  /\ Returns("Merge", 0)
  /\ UNCHANGED <<minSet, maxSet, cursor, mode>>

\* RemoveAll clears the words between the cached minimum and maximum.
ClearedBits ==
  IF setCount = 0 THEN bits
  ELSE [w \in Words |-> IF w \in WordOf(minSet)..WordOf(maxSet) THEN {} ELSE bits[w]]

RemoveAll ==
  /\ bits' = ClearedBits
  /\ setCount' = 0
  /\ minSet' = IF setCount = 0 THEN minSet ELSE MaxSeq
  /\ maxSet' = IF setCount = 0 THEN maxSet ELSE 0
  /\ cursor' = 0
  /\ Returns("RemoveAll", 0)
  /\ UNCHANGED mode

\* Deserialize of what Serialize wrote for a map that holds `seqs`: RemoveAll,
\* then a push of each.  The returns before RemoveAll, for a buffer that is too
\* short or a map of another capacity, change nothing and are left out.
Deserialize(seqs) ==
  LET pushed == {s \in seqs : BitOf(s) \notin ClearedBits[WordOf(s)]}
      low    == IF setCount = 0 THEN minSet ELSE MaxSeq
      high   == IF setCount = 0 THEN maxSet ELSE 0
  IN  /\ bits' = [w \in Words |-> ClearedBits[w] \cup BitsOf(seqs)[w]]
      /\ setCount' = Cardinality(pushed)
      /\ minSet' = Min({low} \cup pushed)
      /\ maxSet' = Max({high} \cup pushed)
      /\ cursor' = 0
      /\ Returns("Deserialize", 0)
      /\ UNCHANGED mode
------------------------------------------------------------------------------
(* Pop. *)

\* The positions of a word that number a member: the last word may be partial.
UsedPositions(word) ==
  IF word = WordCount - 1 /\ MaxSeq % WordBits # 0
  THEN 0..((MaxSeq % WordBits) - 1)
  ELSE Positions

\* findNextSetFrom visits every word once from the start's word, wrapping
\* around, and then every word once from the first.
Visits == 0..(2 * WordCount - 1)

VisitedWord(visit, start) ==
  IF visit < WordCount THEN (WordOf(start) + visit) % WordCount ELSE visit - WordCount

\* Mutant: the first word is not masked.
VisitedUnmasked(visit, start) ==
  bits[VisitedWord(visit, start)] \cap UsedPositions(VisitedWord(visit, start))

\* Only the first visit masks the positions before the start.
VisitedBits(visit, start) ==
  {b \in bits[VisitedWord(visit, start)] \cap UsedPositions(VisitedWord(visit, start)) :
     visit = 0 => b >= BitOf(start)}

FoundFrom(start, seq) ==
  \E visit \in Visits :
    /\ seq \in {SeqAt(VisitedWord(visit, start), b) : b \in VisitedBits(visit, start)}
    /\ \A b \in VisitedBits(visit, start) : BitOf(seq) <= b
    /\ \A earlier \in 0..(visit - 1) : VisitedBits(earlier, start) = {}

\* Where the search of a pop may start.
PopStarts ==
  CASE mode = "Lowest"     -> {0}
    [] mode = "RoundRobin" -> {cursor}
    [] mode = "Random"     -> IF minSet <= maxSet THEN minSet..maxSet ELSE SeqNum

\* Mutants: the cursor stays at the number popped; it does not wrap.
CursorAt(seq) == seq

CursorUnwrapped(seq) == seq + 1

CursorAfter(seq) == (seq + 1) % MaxSeq

PopMember(start, seq) ==
  /\ setCount # 0
  /\ FoundFrom(start, seq)
  /\ ClearBit(seq)
  /\ cursor' = IF mode = "RoundRobin" THEN CursorAfter(seq) ELSE cursor
  /\ Returns("Pop", seq)
  /\ UNCHANGED <<minSet, maxSet, mode>>

PopNothing ==
  /\ setCount = 0 \/ Members = {}
  /\ Returns("Pop", -1)
  /\ UNCHANGED <<bits, setCount, minSet, maxSet, cursor, mode>>

Pop ==
  \/ PopNothing
  \/ \E start \in PopStarts, seq \in SeqNum : PopMember(start, seq)
------------------------------------------------------------------------------
\* What udt.go does with its maps, one number past the capacity included.
TransportNext ==
  \/ \E seq \in 0..MaxSeq : Push(seq)
  \/ \E seq \in 0..MaxSeq : Remove(seq)
  \/ \E first, end \in 0..(MaxSeq + 1) : RemoveRange(first, end)
  \/ \E seqs \in SUBSET SeqNum : Merge(BitsOf(seqs))
  \/ Pop

\* What refills a map from a received report, as nakMissing of udx.go.
RebuildNext ==
  \/ RemoveAll
  \/ \E seqs \in SUBSET SeqNum : Deserialize(seqs)

\* Neither transport rebuilds a map it merges into.
Next == TransportNext \/ (~merged /\ RebuildNext)

Spec == Init /\ [][Next]_vars

\* The owner of the map keeps popping.
FairSpec == Spec /\ WF_vars(Pop)
------------------------------------------------------------------------------
\* The cached count is the number of bits set, so Size and the emptiness test
\* of Pop answer for the bits.
CountIsExact == setCount = Cardinality(Members)

\* The cached bounds enclose every member of a map that was not merged into, so
\* what RemoveAll clears is all there is.
BoundsCover == ~merged => \A seq \in Members : minSet <= seq /\ seq <= maxSet

\* The map behaves as a set of numbers, answers included: words, masks, the
\* wrapping search and the caches never show.
Contract == INSTANCE SequenceSet WITH members <- Members

RefinesSequenceSet == Contract!SetSpec

\* Each round-robin pop brings every member it leaves nearer to its turn: none
\* is passed by more often than there are numbers.
NoOvertaking ==
  [][ret'.op = "Pop" /\ mode = "RoundRobin" /\ Members' # Members =>
       \A s \in Members' :
         RoundRobinDistance(cursor', s, MaxSeq) < RoundRobinDistance(cursor, s, MaxSeq)]_vars

\* Round-robin popping starves no member, whatever is pushed, merged and removed
\* meanwhile.  (A rebuild moves the cursor back to zero: a map that is rebuilt
\* again and again may starve its high numbers.)
NoStarvation ==
  \A seq \in SeqNum :
    mode = "RoundRobin" /\ merged /\ seq \in Members ~> seq \notin Members
==============================================================================
