--------------------------- MODULE SequenceMapProofs ---------------------------
(***************************************************************************)
(* Theorems about the sequence map of module SequenceMap, for any capacity *)
(* and word size.                                                          *)
(***************************************************************************)
EXTENDS SequenceMap, SequencePolicyProofs, FiniteSetTheorems

USE MapAssumption
------------------------------------------------------------------------------
(* Words and positions. *)

LEMMA WordAndBit ==
  ASSUME NEW seq \in Nat
  PROVE  /\ WordOf(seq) \in Nat
         /\ BitOf(seq) \in Positions
         /\ seq = SeqAt(WordOf(seq), BitOf(seq))
<1>1. PICK q \in Nat : q = seq \div WordBits
  OBVIOUS
<1>2. WordBits * q <= seq /\ seq < WordBits * q + WordBits
  BY <1>1
<1>3. seq % WordBits = seq - WordBits * q
  BY <1>1
<1>4. QED
  BY <1>1, <1>2, <1>3 DEF WordOf, BitOf, SeqAt, Positions

LEMMA SeqAtInverse ==
  ASSUME NEW word \in Nat, NEW bit \in Positions
  PROVE  /\ SeqAt(word, bit) \in Nat
         /\ WordOf(SeqAt(word, bit)) = word
         /\ BitOf(SeqAt(word, bit)) = bit
<1>1. PICK n \in Nat : n = WordBits * word
  OBVIOUS
<1>2. SeqAt(word, bit) = n + bit /\ n + bit \in Nat
  BY <1>1 DEF SeqAt, Positions
<1>3. bit \in Nat /\ bit < WordBits
  BY DEF Positions
<1>4. (n + bit) \div WordBits = word
  BY <1>1, <1>3
<1>5. (n + bit) % WordBits = bit
  BY <1>1, <1>3, <1>4
<1>6. QED
  BY <1>2, <1>4, <1>5 DEF WordOf, BitOf

\* Numbers are ordered by word, and within a word by position.
LEMMA WordOrder ==
  ASSUME NEW s \in Nat, NEW t \in Nat
  PROVE  s < t <=> \/ WordOf(s) < WordOf(t)
                   \/ WordOf(s) = WordOf(t) /\ BitOf(s) < BitOf(t)
<1> DEFINE v == WordOf(s)
           b == BitOf(s)
           w == WordOf(t)
           c == BitOf(t)
<1>1. v \in Nat /\ b \in Nat /\ s = v * WordBits + b /\ b < WordBits
  BY WordAndBit DEF SeqAt, Positions
<1>2. w \in Nat /\ c \in Nat /\ t = w * WordBits + c /\ c < WordBits
  BY WordAndBit DEF SeqAt, Positions
<1> HIDE DEF v, b, w, c
<1>3. ASSUME v < w
      PROVE  s < t
  <2>1. (v + 1) * WordBits <= w * WordBits
    BY <1>1, <1>2, <1>3
  <2>2. QED
    BY <1>1, <1>2, <2>1
<1>4. ASSUME w < v
      PROVE  t < s
  <2>1. (w + 1) * WordBits <= v * WordBits
    BY <1>1, <1>2, <1>4
  <2>2. QED
    BY <1>1, <1>2, <2>1
<1>5. v < w \/ w < v \/ v = w
  BY <1>1, <1>2
<1>6. ASSUME v = w
      PROVE  s < t <=> b < c
  BY <1>1, <1>2, <1>6
<1>7. ASSUME v < w
      PROVE  s < t <=> v < w \/ (v = w /\ b < c)
  BY <1>1, <1>2, <1>3, <1>7
<1>8. ASSUME w < v
      PROVE  s < t <=> v < w \/ (v = w /\ b < c)
  BY <1>1, <1>2, <1>4, <1>8
<1>9. s < t <=> v < w \/ (v = w /\ b < c)
  BY <1>1, <1>2, <1>5, <1>6, <1>7, <1>8
<1>10. QED
  BY <1>9 DEF v, b, w, c

LEMMA WordsOfNumbers ==
  /\ WordCount \in Nat \ {0}
  /\ \A s \in SeqNum : s \in Nat /\ WordOf(s) \in Words /\ BitOf(s) \in Positions
<1>1. PICK q \in Nat : q = (MaxSeq + WordBits - 1) \div WordBits
  OBVIOUS
<1>2. WordBits * q <= MaxSeq + WordBits - 1 /\ MaxSeq + WordBits - 1 < WordBits * q + WordBits
  BY <1>1
<1>3. q # 0
  BY <1>2
<1>4. WordCount = q
  BY <1>1 DEF WordCount
<1>5. ASSUME NEW s \in SeqNum
      PROVE  s \in Nat /\ WordOf(s) \in Words /\ BitOf(s) \in Positions
  <2>1. s \in Nat /\ s < MaxSeq
    BY DEF SeqNum
  <2>2. PICK w \in Nat : w = WordOf(s) /\ w * WordBits <= s
    BY <2>1, WordAndBit DEF SeqAt, Positions
  <2>3. ~(w >= q)
    <3> SUFFICES ASSUME w >= q PROVE FALSE
      OBVIOUS
    <3>1. w * WordBits >= q * WordBits
      OBVIOUS
    <3>2. q * WordBits >= MaxSeq
      BY <1>2
    <3>3. QED
      BY <2>1, <2>2, <3>1, <3>2
  <2>4. QED
    BY <1>4, <2>1, <2>2, <2>3, WordAndBit DEF Words
<1>6. QED
  BY <1>3, <1>4, <1>5
------------------------------------------------------------------------------
(* The numbers that the words hold, and their count. *)

WordArrays == [Words -> SUBSET Positions]

Held(words) == {s \in SeqNum : BitOf(s) \in words[WordOf(s)]}

\* No bit is set past the capacity.
NoStrays(words) == \A w \in Words : \A b \in words[w] : SeqAt(w, b) \in SeqNum

LEMMA MembersAreHeld == Members = Held(bits)
BY DEF Members, Has, Held

LEMMA CountInRange ==
  ASSUME NEW T \in SUBSET SeqNum
  PROVE  /\ IsFiniteSet(T)
         /\ Cardinality(T) \in 0..MaxSeq
         /\ Cardinality(T) % CountSpan = Cardinality(T)
<1>1. IsFiniteSet(SeqNum) /\ Cardinality(SeqNum) = MaxSeq
  BY FS_Interval DEF SeqNum
<1>2. IsFiniteSet(T) /\ Cardinality(T) <= MaxSeq
  BY <1>1, FS_Subset
<1>3. PICK n \in Nat : n = Cardinality(T)
  BY <1>2, FS_CardinalityType
<1>4. n <= MaxSeq /\ n < CountSpan
  BY <1>2, <1>3
<1>5. n % CountSpan = n
  BY <1>4
<1>6. QED
  BY <1>2, <1>3, <1>4, <1>5

\* Counting bits is counting numbers.
LEMMA BitsAreCounted ==
  ASSUME NEW words \in WordArrays, NoStrays(words)
  PROVE  CountBits(words) = Cardinality(Held(words))
<1> DEFINE S == Held(words)
           T == {wb \in Words \X Positions : wb[2] \in words[wb[1]]}
           f == [s \in S |-> <<WordOf(s), BitOf(s)>>]
<1>1. ASSUME NEW s \in S
      PROVE  /\ s \in Nat /\ WordOf(s) \in Words /\ BitOf(s) \in Positions
             /\ <<WordOf(s), BitOf(s)>> \in T
  <2>1. s \in SeqNum /\ BitOf(s) \in words[WordOf(s)]
    BY DEF Held
  <2>2. QED
    BY <2>1, WordsOfNumbers
<1>2. f \in [S -> T]
  BY <1>1
<1>3. ASSUME NEW s \in S, NEW t \in S, f[s] = f[t]
      PROVE  s = t
  <2>1. WordOf(s) = WordOf(t) /\ BitOf(s) = BitOf(t)
    BY <1>3
  <2>2. QED
    BY <1>1, <2>1, WordAndBit
<1>4. ASSUME NEW wb \in T
      PROVE  \E s \in S : f[s] = wb
  <2>1. PICK w \in Words, b \in Positions : wb = <<w, b>> /\ b \in words[w]
    OBVIOUS
  <2>2. SeqAt(w, b) \in SeqNum
    BY <2>1 DEF NoStrays
  <2>3. w \in Nat
    BY WordsOfNumbers DEF Words
  <2>4. WordOf(SeqAt(w, b)) = w /\ BitOf(SeqAt(w, b)) = b
    BY <2>3, SeqAtInverse
  <2>5. SeqAt(w, b) \in S
    BY <2>1, <2>2, <2>4 DEF Held
  <2>6. f[SeqAt(w, b)] = <<w, b>>
    BY <2>4, <2>5
  <2>7. QED
    BY <2>1, <2>5, <2>6
<1>5. f \in Bijection(S, T)
  <2> HIDE DEF f, S, T
  <2>1. f \in Injection(S, T)
    BY <1>2, <1>3 DEF Injection, IsInjective
  <2>2. f \in Surjection(S, T)
    BY <1>2, <1>4 DEF Surjection
  <2>3. QED
    BY <2>1, <2>2 DEF Bijection
<1>6. S \in SUBSET SeqNum
  BY DEF Held
<1>7. Cardinality(T) = Cardinality(S)
  <2> HIDE DEF f, S, T
  <2>1. IsFiniteSet(S)
    BY <1>6, CountInRange
  <2>2. ExistsBijection(S, T)
    BY <1>5 DEF ExistsBijection
  <2>3. QED
    BY <2>1, <2>2, FS_Bijection
<1>8. QED
  BY <1>7 DEF CountBits
------------------------------------------------------------------------------
(* What a change of the words does to the numbers they hold. *)

LEMMA WordsWithout ==
  ASSUME NEW words \in WordArrays, NEW removed \in WordArrays, NoStrays(words),
         \A w \in Words : removed[w] \subseteq words[w]
  PROVE  LET after == [w \in Words |-> words[w] \ removed[w]]
         IN  /\ after \in WordArrays
             /\ NoStrays(after) /\ NoStrays(removed)
             /\ Held(after) = Held(words) \ Held(removed)
             /\ Held(removed) \subseteq Held(words)
<1> DEFINE after == [w \in Words |-> words[w] \ removed[w]]
<1>1. after \in WordArrays
  BY DEF WordArrays
<1>2. NoStrays(after) /\ NoStrays(removed)
  BY DEF NoStrays
<1>3. \A s \in SeqNum : WordOf(s) \in Words
  BY WordsOfNumbers
<1>4. Held(after) = Held(words) \ Held(removed) /\ Held(removed) \subseteq Held(words)
  BY <1>3 DEF Held
<1>5. QED
  BY <1>1, <1>2, <1>4

LEMMA WordsWith ==
  ASSUME NEW words \in WordArrays, NEW added \in WordArrays, NoStrays(words), NoStrays(added)
  PROVE  LET after == [w \in Words |-> words[w] \cup added[w]]
         IN  /\ after \in WordArrays
             /\ NoStrays(after)
             /\ Held(after) = Held(words) \cup Held(added)
<1> DEFINE after == [w \in Words |-> words[w] \cup added[w]]
<1>1. after \in WordArrays
  BY DEF WordArrays
<1>2. NoStrays(after)
  BY DEF NoStrays
<1>3. \A s \in SeqNum : WordOf(s) \in Words
  BY WordsOfNumbers
<1>4. Held(after) = Held(words) \cup Held(added)
  BY <1>3 DEF Held
<1>5. QED
  BY <1>1, <1>2, <1>4

LEMMA OneWordChanges ==
  ASSUME NEW words \in WordArrays, NEW seq \in SeqNum, NoStrays(words)
  PROVE  LET more == [words EXCEPT ![WordOf(seq)] = @ \cup {BitOf(seq)}]
             less == [words EXCEPT ![WordOf(seq)] = @ \ {BitOf(seq)}]
         IN  /\ more \in WordArrays /\ NoStrays(more) /\ Held(more) = Held(words) \cup {seq}
             /\ less \in WordArrays /\ NoStrays(less) /\ Held(less) = Held(words) \ {seq}
<1> DEFINE more == [words EXCEPT ![WordOf(seq)] = @ \cup {BitOf(seq)}]
           less == [words EXCEPT ![WordOf(seq)] = @ \ {BitOf(seq)}]
<1>1. seq \in Nat /\ WordOf(seq) \in Words /\ BitOf(seq) \in Positions
  BY WordsOfNumbers
<1>2. more \in WordArrays /\ less \in WordArrays
  BY <1>1 DEF WordArrays
<1>3. SeqAt(WordOf(seq), BitOf(seq)) = seq
  BY <1>1, WordAndBit
<1>4. NoStrays(more) /\ NoStrays(less)
  BY <1>1, <1>3 DEF NoStrays, WordArrays
<1>5. ASSUME NEW s \in SeqNum
      PROVE  /\ WordOf(s) \in Words
             /\ WordOf(s) = WordOf(seq) /\ BitOf(s) = BitOf(seq) => s = seq
  <2>1. s \in Nat /\ WordOf(s) \in Words
    BY WordsOfNumbers
  <2>2. s = SeqAt(WordOf(s), BitOf(s))
    BY <2>1, WordAndBit
  <2>3. QED
    BY <1>3, <2>1, <2>2
<1>6. ASSUME NEW s \in SeqNum
      PROVE  /\ BitOf(s) \in more[WordOf(s)] <=> s = seq \/ BitOf(s) \in words[WordOf(s)]
             /\ BitOf(s) \in less[WordOf(s)] <=> s # seq /\ BitOf(s) \in words[WordOf(s)]
  BY <1>1, <1>5 DEF WordArrays
<1>7. Held(more) = Held(words) \cup {seq} /\ Held(less) = Held(words) \ {seq}
  <2> HIDE DEF more, less
  <2>1. QED
    BY <1>6 DEF Held
<1>8. QED
  BY <1>2, <1>4, <1>7

LEMMA BitsOfHolds ==
  ASSUME NEW seqs \in SUBSET SeqNum
  PROVE  BitsOf(seqs) \in WordArrays /\ NoStrays(BitsOf(seqs)) /\ Held(BitsOf(seqs)) = seqs
<1>1. BitsOf(seqs) \in WordArrays
  BY DEF BitsOf, WordArrays
<1>2. NoStrays(BitsOf(seqs))
  BY DEF BitsOf, NoStrays
<1>3. ASSUME NEW s \in SeqNum
      PROVE  BitOf(s) \in BitsOf(seqs)[WordOf(s)] <=> s \in seqs
  <2>1. s \in Nat /\ WordOf(s) \in Words /\ BitOf(s) \in Positions
    BY WordsOfNumbers
  <2>2. SeqAt(WordOf(s), BitOf(s)) = s
    BY <2>1, WordAndBit
  <2>3. QED
    BY <2>1, <2>2 DEF BitsOf
<1>4. QED
  BY <1>1, <1>2, <1>3 DEF Held
------------------------------------------------------------------------------
(* The inductive invariant. *)

IndInv == TypeOK /\ NoStrays(bits) /\ CountIsExact /\ BoundsCover

LEMMA IndInvInit == Init => IndInv
<1> SUFFICES ASSUME Init PROVE IndInv
  OBVIOUS
<1>1. bits = [w \in Words |-> {}] /\ setCount = 0 /\ minSet = MaxSeq /\ maxSet = 0 /\ cursor = 0
  BY DEF Init
<1>2. 0 \in SeqNum /\ MaxSeq \in 0..MaxSeq /\ 0 \in 0..(CountSpan - 1)
  BY DEF SeqNum
<1>3. ret \in [op : {"New", "Push", "Remove", "RemoveRange", "Merge", "Pop",
                     "RemoveAll", "Deserialize"},
               out : -1..MaxSeq]
  BY DEF Init
<1>4. TypeOK
  BY <1>1, <1>2, <1>3 DEF Init, TypeOK
<1>5. Members = {}
  BY <1>1, WordsOfNumbers, MembersAreHeld DEF Held
<1>6. QED
  BY <1>1, <1>4, <1>5, FS_EmptySet DEF IndInv, NoStrays, CountIsExact, BoundsCover

\* What every operation leaves of the invariant, given what it does to the
\* numbers held, to the count and to the bounds.
LEMMA OperationKeepsInv ==
  ASSUME IndInv,
         bits' \in WordArrays, NoStrays(bits'),
         setCount' = Cardinality(Held(bits')),
         minSet' \in 0..MaxSeq, maxSet' \in SeqNum, cursor' \in SeqNum, mode' = mode,
         ret' \in [op : {"New", "Push", "Remove", "RemoveRange", "Merge", "Pop",
                         "RemoveAll", "Deserialize"},
                   out : -1..MaxSeq],
         merged' \in BOOLEAN,
         ~merged' => \A seq \in Held(bits') : minSet' <= seq /\ seq <= maxSet'
  PROVE  IndInv'
<1>1. Members' = Held(bits')
  BY DEF Members, Has, Held
<1>2. Cardinality(Held(bits')) \in 0..MaxSeq
  <2>1. Held(bits') \in SUBSET SeqNum
    BY DEF Held
  <2>2. QED
    BY <2>1, CountInRange
<1>3. setCount' \in 0..(CountSpan - 1)
  BY <1>2
<1>4. TypeOK'
  BY <1>3 DEF IndInv, TypeOK, WordArrays
<1>5. CountIsExact' /\ BoundsCover'
  BY <1>1 DEF CountIsExact, BoundsCover
<1>6. QED
  BY <1>4, <1>5 DEF IndInv, NoStrays

LEMMA ReturnsType ==
  ASSUME TypeOK, NEW op, NEW out \in -1..MaxSeq, Returns(op, out),
         op \in {"New", "Push", "Remove", "RemoveRange", "Merge", "Pop",
                 "RemoveAll", "Deserialize"}
  PROVE  /\ ret' \in [op : {"New", "Push", "Remove", "RemoveRange", "Merge", "Pop",
                            "RemoveAll", "Deserialize"},
                      out : -1..MaxSeq]
         /\ merged' \in BOOLEAN
         /\ merged' = (merged \/ op = "Merge")
BY DEF Returns, TypeOK

\* The invariant in terms of what the words hold.
LEMMA InvOfHeld ==
  ASSUME IndInv
  PROVE  /\ bits \in WordArrays /\ NoStrays(bits)
         /\ Held(bits) \in SUBSET SeqNum
         /\ IsFiniteSet(Held(bits))
         /\ setCount = Cardinality(Held(bits))
         /\ setCount \in 0..MaxSeq
         /\ setCount = 0 <=> Held(bits) = {}
         /\ ~merged => \A seq \in Held(bits) : minSet <= seq /\ seq <= maxSet
<1>1. Members = Held(bits) /\ Held(bits) \in SUBSET SeqNum
  BY MembersAreHeld DEF Held
<1>2. IsFiniteSet(Held(bits)) /\ Cardinality(Held(bits)) \in 0..MaxSeq
  BY <1>1, CountInRange
<1>3. QED
  BY <1>1, <1>2, FS_EmptySet DEF IndInv, TypeOK, WordArrays, CountIsExact, BoundsCover

LEMMA PushKeeps == ASSUME IndInv, NEW seq \in 0..MaxSeq, Push(seq) PROVE IndInv'
<1>1. CASE PushRefused(seq)
  <2>1. UNCHANGED <<bits, setCount, minSet, maxSet, cursor, mode>> /\ Returns("Push", 0)
    BY <1>1 DEF PushRefused
  <2>2. 0 \in -1..MaxSeq /\ TypeOK
    BY DEF IndInv
  <2>3. QED
    BY <2>1, <2>2, ReturnsType, InvOfHeld, OperationKeepsInv DEF TypeOK
<1>2. CASE PushAccepted(seq)
  <2>1. /\ seq \in SeqNum /\ ~Has(seq)
        /\ bits' = [bits EXCEPT ![WordOf(seq)] = @ \cup {BitOf(seq)}]
        /\ setCount' = (setCount + 1) % CountSpan
        /\ minSet' = IF seq < minSet THEN seq ELSE minSet
        /\ maxSet' = MaxWith(seq)
        /\ cursor' = cursor /\ mode' = mode
        /\ Returns("Push", 1)
    BY <1>2 DEF PushAccepted
  <2>2. bits' \in WordArrays /\ NoStrays(bits') /\ Held(bits') = Held(bits) \cup {seq}
    BY <2>1, InvOfHeld, OneWordChanges
  <2>3. seq \notin Held(bits)
    BY <2>1 DEF Has, Held
  <2>4. setCount' = Cardinality(Held(bits'))
    <3>1. Cardinality(Held(bits) \cup {seq}) = Cardinality(Held(bits)) + 1
      BY <2>3, InvOfHeld, FS_AddElement
    <3>2. Held(bits) \cup {seq} \in SUBSET SeqNum
      BY <2>1, InvOfHeld
    <3>3. Cardinality(Held(bits) \cup {seq}) % CountSpan = Cardinality(Held(bits) \cup {seq})
      BY <3>2, CountInRange
    <3>4. setCount' = Cardinality(Held(bits) \cup {seq}) % CountSpan
      BY <2>1, <3>1, InvOfHeld
    <3>5. QED
      BY <2>2, <3>3, <3>4
  <2>5. minSet \in 0..MaxSeq /\ maxSet \in SeqNum /\ cursor \in SeqNum /\ TypeOK
    BY DEF IndInv, TypeOK
  <2>6. minSet' \in 0..MaxSeq /\ maxSet' \in SeqNum
    BY <2>1, <2>5 DEF MaxWith, SeqNum
  <2>7. 1 \in -1..MaxSeq
    OBVIOUS
  <2>8. /\ ret' \in [op : {"New", "Push", "Remove", "RemoveRange", "Merge", "Pop",
                           "RemoveAll", "Deserialize"},
                     out : -1..MaxSeq]
        /\ merged' \in BOOLEAN
        /\ merged' = merged
    <3>1. Returns("Push", 1)
      BY <2>1
    <3>2. QED
      BY <2>5, <2>7, <3>1 DEF Returns, TypeOK
  <2>9. ASSUME ~merged', NEW s \in Held(bits')
        PROVE  minSet' <= s /\ s <= maxSet'
    <3>1. s = seq \/ (minSet <= s /\ s <= maxSet)
      BY <2>2, <2>8, <2>9, InvOfHeld
    <3>2. s \in SeqNum
      BY <2>9 DEF Held
    <3>3. QED
      BY <2>1, <2>5, <3>1, <3>2 DEF MaxWith, SeqNum
  <2>10. QED
    BY <2>1, <2>2, <2>4, <2>5, <2>6, <2>8, <2>9, OperationKeepsInv
<1>3. QED
  BY <1>1, <1>2 DEF Push

\* A member is taken out.
LEMMA ClearBitEffect ==
  ASSUME IndInv, NEW seq \in Held(bits), ClearBit(seq)
  PROVE  /\ bits' \in WordArrays /\ NoStrays(bits')
         /\ Held(bits') = Held(bits) \ {seq}
         /\ setCount' = Cardinality(Held(bits'))
<1>1. seq \in SeqNum
  BY DEF Held
<1>2. /\ bits' = [bits EXCEPT ![WordOf(seq)] = @ \ {BitOf(seq)}]
      /\ setCount' = (setCount - 1) % CountSpan
  BY DEF ClearBit
<1>3. bits' \in WordArrays /\ NoStrays(bits') /\ Held(bits') = Held(bits) \ {seq}
  BY <1>1, <1>2, InvOfHeld, OneWordChanges
<1>4. Cardinality(Held(bits) \ {seq}) = Cardinality(Held(bits)) - 1
  BY InvOfHeld, FS_RemoveElement
<1>5. Held(bits) \ {seq} \in SUBSET SeqNum
  BY InvOfHeld
<1>6. Cardinality(Held(bits) \ {seq}) % CountSpan = Cardinality(Held(bits) \ {seq})
  BY <1>5, CountInRange
<1>7. setCount' = Cardinality(Held(bits) \ {seq}) % CountSpan
  BY <1>2, <1>4, InvOfHeld
<1>8. QED
  BY <1>3, <1>6, <1>7

\* Taking numbers out leaves the bounds wide enough.
LEMMA ShrinkKeepsInv ==
  ASSUME IndInv,
         bits' \in WordArrays, NoStrays(bits'), Held(bits') \subseteq Held(bits),
         setCount' = Cardinality(Held(bits')),
         UNCHANGED <<minSet, maxSet, mode>>, cursor' \in SeqNum,
         NEW op \in {"Push", "Remove", "RemoveRange", "Pop"}, NEW out \in -1..MaxSeq,
         Returns(op, out)
  PROVE  IndInv'
<1>1. TypeOK /\ minSet \in 0..MaxSeq /\ maxSet \in SeqNum
  BY DEF IndInv, TypeOK
<1>2. /\ ret' \in [op : {"New", "Push", "Remove", "RemoveRange", "Merge", "Pop",
                         "RemoveAll", "Deserialize"},
                   out : -1..MaxSeq]
      /\ merged' \in BOOLEAN
      /\ merged' = (merged \/ op = "Merge")
  BY <1>1, ReturnsType
<1>3. ~merged' => \A seq \in Held(bits') : minSet' <= seq /\ seq <= maxSet'
  BY <1>2, InvOfHeld
<1>4. QED
  BY <1>1, <1>2, <1>3, OperationKeepsInv

LEMMA RemoveKeeps == ASSUME IndInv, NEW seq \in 0..MaxSeq, Remove(seq) PROVE IndInv'
<1>1. Returns("Remove", 0) /\ UNCHANGED <<minSet, maxSet, cursor, mode>> /\ 0 \in -1..MaxSeq
  BY DEF Remove
<1>2. cursor' \in SeqNum
  BY <1>1 DEF IndInv, TypeOK
<1>3. CASE Has(seq)
  <2>1. ClearBit(seq) /\ seq \in Held(bits)
    BY <1>3 DEF Remove, Has, Held
  <2>2. QED
    BY <1>1, <1>2, <2>1, ClearBitEffect, ShrinkKeepsInv
<1>4. CASE ~Has(seq)
  <2>1. bits' = bits /\ setCount' = setCount
    BY <1>4 DEF Remove
  <2>2. QED
    BY <1>1, <1>2, <2>1, InvOfHeld, ShrinkKeepsInv
<1>5. QED
  BY <1>3, <1>4

LEMMA RangeBitsAreBits ==
  ASSUME bits \in WordArrays, NEW first \in Nat, NEW end \in Nat
  PROVE  /\ RangeBits(first, end) \in WordArrays
         /\ \A w \in Words : RangeBits(first, end)[w] \subseteq bits[w]
BY DEF RangeBits, WordArrays

LEMMA RemoveRangeKeeps ==
  ASSUME IndInv, NEW first \in Nat, NEW end \in Nat, RemoveRange(first, end)
  PROVE  IndInv' /\ Held(bits') = Held(bits) \ Held(RangeBits(first, end))
<1> DEFINE removed == RangeBits(first, end)
           after == [w \in Words |-> bits[w] \ removed[w]]
<1>1. /\ bits' = after
      /\ setCount' = (setCount - CountBits(removed)) % CountSpan
      /\ Returns("RemoveRange", 0)
      /\ UNCHANGED <<minSet, maxSet, cursor, mode>>
  BY DEF RemoveRange
<1>2. removed \in WordArrays /\ \A w \in Words : removed[w] \subseteq bits[w]
  BY InvOfHeld, RangeBitsAreBits
<1> HIDE DEF removed
<1>3. /\ after \in WordArrays
      /\ NoStrays(after) /\ NoStrays(removed)
      /\ Held(after) = Held(bits) \ Held(removed)
      /\ Held(removed) \subseteq Held(bits)
  BY <1>2, InvOfHeld, WordsWithout
<1> HIDE DEF after
<1>4. CountBits(removed) = Cardinality(Held(removed))
  BY <1>2, <1>3, BitsAreCounted
<1>5. Cardinality(Held(after)) = Cardinality(Held(bits)) - Cardinality(Held(removed))
  <2>1. Held(bits) \cap Held(removed) = Held(removed)
    BY <1>3
  <2>2. QED
    BY <1>3, <2>1, InvOfHeld, FS_Difference
<1>6. setCount' = Cardinality(Held(after))
  <2>1. Held(after) \in SUBSET SeqNum
    BY DEF Held
  <2>2. Cardinality(Held(after)) % CountSpan = Cardinality(Held(after))
    BY <2>1, CountInRange
  <2>3. QED
    BY <1>1, <1>4, <1>5, <2>2, InvOfHeld
<1>7. 0 \in -1..MaxSeq /\ cursor' \in SeqNum
  BY <1>1 DEF IndInv, TypeOK
<1>8. IndInv'
  BY <1>1, <1>3, <1>6, <1>7, ShrinkKeepsInv
<1>9. QED
  BY <1>1, <1>3, <1>8 DEF removed

LEMMA MergeKeeps ==
  ASSUME IndInv, NEW seqs \in SUBSET SeqNum, Merge(BitsOf(seqs))
  PROVE  IndInv' /\ Held(bits') = Held(bits) \cup seqs
<1> DEFINE src == BitsOf(seqs)
           new == MergedBits(src)
           after == [w \in Words |-> bits[w] \cup src[w]]
<1>1. /\ bits' = after
      /\ setCount' = (setCount + CountBits(new)) % CountSpan
      /\ Returns("Merge", 0)
      /\ UNCHANGED <<minSet, maxSet, cursor, mode>>
  BY DEF Merge
<1>2. src \in WordArrays /\ NoStrays(src) /\ Held(src) = seqs
  BY BitsOfHolds
<1> HIDE DEF src
<1>3. after \in WordArrays /\ NoStrays(after) /\ Held(after) = Held(bits) \cup seqs
  BY <1>2, InvOfHeld, WordsWith
<1>4. new \in WordArrays /\ NoStrays(new) /\ Held(new) = seqs \ Held(bits)
  <2>1. new = [w \in Words |-> src[w] \ bits[w]]
    BY DEF MergedBits
  <2>2. \A s \in SeqNum : WordOf(s) \in Words
    BY WordsOfNumbers
  <2>3. new \in WordArrays /\ NoStrays(new)
    BY <1>2, <2>1 DEF WordArrays, NoStrays
  <2>4. Held(new) = Held(src) \ Held(bits)
    BY <2>1, <2>2 DEF Held
  <2>5. QED
    BY <1>2, <2>3, <2>4
<1> HIDE DEF after, new
<1>5. CountBits(new) = Cardinality(seqs \ Held(bits))
  BY <1>4, BitsAreCounted
<1>6. Cardinality(Held(after)) = Cardinality(Held(bits)) + Cardinality(seqs \ Held(bits))
  <2>1. IsFiniteSet(seqs \ Held(bits))
    <3>1. seqs \ Held(bits) \in SUBSET SeqNum
      OBVIOUS
    <3>2. QED
      BY <3>1, CountInRange
  <2>2. /\ Held(bits) \cap (seqs \ Held(bits)) = {}
        /\ Held(after) = Held(bits) \cup (seqs \ Held(bits))
    BY <1>3
  <2>3. Cardinality({}) = 0
    BY FS_EmptySet
  <2>4. PICK n \in Nat : n = Cardinality(Held(bits))
    BY InvOfHeld, FS_CardinalityType
  <2>5. PICK k \in Nat : k = Cardinality(seqs \ Held(bits))
    BY <2>1, FS_CardinalityType
  <2>6. Cardinality(Held(bits) \cup (seqs \ Held(bits))) =
          n + k - Cardinality(Held(bits) \cap (seqs \ Held(bits)))
    BY <2>1, <2>4, <2>5, InvOfHeld, FS_Union
  <2>7. Cardinality(Held(bits) \cap (seqs \ Held(bits))) = 0
    BY <2>2, <2>3
  <2>8. Cardinality(Held(bits) \cup (seqs \ Held(bits))) = n + k
    BY <2>6, <2>7
  <2>9. QED
    BY <2>2, <2>4, <2>5, <2>8
<1>7. setCount' = Cardinality(Held(after))
  <2>1. Held(after) \in SUBSET SeqNum
    BY DEF Held
  <2>2. Cardinality(Held(after)) % CountSpan = Cardinality(Held(after))
    BY <2>1, CountInRange
  <2>3. QED
    BY <1>1, <1>5, <1>6, <2>2, InvOfHeld
<1>8. /\ TypeOK /\ 0 \in -1..MaxSeq
      /\ minSet' \in 0..MaxSeq /\ maxSet' \in SeqNum /\ cursor' \in SeqNum
  BY <1>1 DEF IndInv, TypeOK
<1>9. merged' = TRUE /\ ret' = [op |-> "Merge", out |-> 0]
  BY <1>1 DEF Returns
<1>10. IndInv'
  BY <1>1, <1>3, <1>7, <1>8, <1>9, OperationKeepsInv
<1>11. QED
  BY <1>1, <1>3, <1>10

\* Clearing the words between the bounds clears all there is.
LEMMA ClearedBitsHoldNothing ==
  ASSUME IndInv, ~merged
  PROVE  ClearedBits \in WordArrays /\ NoStrays(ClearedBits) /\ Held(ClearedBits) = {}
<1>1. CASE setCount = 0
  BY <1>1, InvOfHeld DEF ClearedBits
<1>2. CASE setCount # 0
  <2> DEFINE cleared ==
        [w \in Words |-> IF w \in WordOf(minSet)..WordOf(maxSet) THEN {} ELSE bits[w]]
  <2>1. ClearedBits = cleared
    BY <1>2 DEF ClearedBits
  <2>2. cleared \in WordArrays /\ NoStrays(cleared)
    BY InvOfHeld DEF WordArrays, NoStrays
  <2>3. ASSUME NEW s \in SeqNum, BitOf(s) \in cleared[WordOf(s)]
        PROVE  FALSE
    <3>1. s \in Nat /\ WordOf(s) \in Words
      BY WordsOfNumbers
    <3>2. BitOf(s) \in bits[WordOf(s)] /\ WordOf(s) \notin WordOf(minSet)..WordOf(maxSet)
      BY <2>3, <3>1
    <3>3. s \in Held(bits)
      BY <3>2 DEF Held
    <3>4. minSet <= s /\ s <= maxSet /\ minSet \in Nat /\ maxSet \in Nat
      BY <3>3, InvOfHeld DEF IndInv, TypeOK, SeqNum
    <3>5. ~(s < minSet) /\ ~(maxSet < s)
      BY <3>1, <3>4
    <3>6. ~(WordOf(s) < WordOf(minSet)) /\ ~(WordOf(maxSet) < WordOf(s))
      BY <3>1, <3>4, <3>5, WordOrder
    <3>7. WordOf(s) \in Nat /\ WordOf(minSet) \in Nat /\ WordOf(maxSet) \in Nat
      BY <3>1, <3>4, WordAndBit
    <3>8. QED
      BY <3>2, <3>6, <3>7
  <2>4. Held(cleared) = {}
    BY <2>3 DEF Held
  <2>5. QED
    BY <2>1, <2>2, <2>4
<1>3. QED
  BY <1>1, <1>2

LEMMA RemoveAllKeeps ==
  ASSUME IndInv, ~merged, RemoveAll
  PROVE  IndInv' /\ Held(bits') = {}
<1>1. /\ bits' = ClearedBits
      /\ setCount' = 0
      /\ minSet' = IF setCount = 0 THEN minSet ELSE MaxSeq
      /\ maxSet' = IF setCount = 0 THEN maxSet ELSE 0
      /\ cursor' = 0 /\ mode' = mode
      /\ Returns("RemoveAll", 0)
  BY DEF RemoveAll
<1>2. ClearedBits \in WordArrays /\ NoStrays(ClearedBits) /\ Held(ClearedBits) = {}
  BY ClearedBitsHoldNothing
<1>3. minSet' \in 0..MaxSeq /\ maxSet' \in SeqNum /\ cursor' \in SeqNum
  BY <1>1 DEF IndInv, TypeOK, SeqNum
<1>4. merged' \in BOOLEAN /\ ret' = [op |-> "RemoveAll", out |-> 0] /\ 0 \in -1..MaxSeq
  BY <1>1 DEF Returns
<1>5. Held(bits') = {} /\ setCount' = Cardinality(Held(bits'))
  BY <1>1, <1>2, FS_EmptySet
<1>6. IndInv'
  BY <1>1, <1>2, <1>3, <1>4, <1>5, OperationKeepsInv
<1>7. QED
  BY <1>5, <1>6

LEMMA DeserializeKeeps ==
  ASSUME IndInv, ~merged, NEW seqs \in SUBSET SeqNum, Deserialize(seqs)
  PROVE  IndInv' /\ Held(bits') = seqs
<1> DEFINE pushed == {s \in seqs : BitOf(s) \notin ClearedBits[WordOf(s)]}
           low    == IF setCount = 0 THEN minSet ELSE MaxSeq
           high   == IF setCount = 0 THEN maxSet ELSE 0
           src    == BitsOf(seqs)
           after  == [w \in Words |-> ClearedBits[w] \cup src[w]]
<1>1. /\ bits' = after
      /\ setCount' = Cardinality(pushed)
      /\ minSet' = Min({low} \cup pushed)
      /\ maxSet' = Max({high} \cup pushed)
      /\ cursor' = 0 /\ mode' = mode
      /\ Returns("Deserialize", 0)
  BY DEF Deserialize
<1>2. ClearedBits \in WordArrays /\ NoStrays(ClearedBits) /\ Held(ClearedBits) = {}
  BY ClearedBitsHoldNothing
<1>3. pushed = seqs
  BY <1>2 DEF Held
<1>4. src \in WordArrays /\ NoStrays(src) /\ Held(src) = seqs
  BY BitsOfHolds
<1> HIDE DEF src
<1>5. after \in WordArrays /\ NoStrays(after) /\ Held(after) = seqs
  <2>1. /\ after \in WordArrays /\ NoStrays(after)
        /\ Held(after) = Held(ClearedBits) \cup Held(src)
    <3>1. PICK cleared : cleared = ClearedBits
      OBVIOUS
    <3>2. after = [w \in Words |-> cleared[w] \cup src[w]]
      BY <3>1
    <3>3. cleared \in WordArrays /\ NoStrays(cleared)
      BY <1>2, <3>1
    <3>4. QED
      BY <1>4, <3>1, <3>2, <3>3, WordsWith
  <2>2. QED
    BY <1>2, <1>4, <2>1
<1>6. low \in 0..MaxSeq /\ high \in SeqNum
  BY DEF IndInv, TypeOK, SeqNum
<1> HIDE DEF low, high, after, pushed
<1>7. {low} \cup seqs \in SUBSET Nat /\ {low} \cup seqs \subseteq 0..MaxSeq
  BY <1>6 DEF SeqNum
<1>8. /\ Min({low} \cup seqs) \in {low} \cup seqs
      /\ \A y \in {low} \cup seqs : Min({low} \cup seqs) <= y
  BY <1>7, MinIsLeast
<1>9. MaxSeq - 1 \in Nat /\ {high} \cup seqs \in SUBSET (0..(MaxSeq - 1)) /\ {high} \cup seqs # {}
  BY <1>6 DEF SeqNum
<1>10. /\ Max({high} \cup seqs) \in {high} \cup seqs
       /\ \A y \in {high} \cup seqs : Max({high} \cup seqs) >= y
  BY <1>9, MaxIsGreatest
<1>11. minSet' \in 0..MaxSeq /\ maxSet' \in SeqNum /\ cursor' \in SeqNum
  <2>1. minSet' = Min({low} \cup seqs) /\ maxSet' = Max({high} \cup seqs)
    BY <1>1, <1>3
  <2>2. minSet' \in 0..MaxSeq
    BY <1>7, <1>8, <2>1
  <2>3. maxSet' \in SeqNum
    BY <1>9, <1>10, <2>1 DEF SeqNum
  <2>4. cursor' \in SeqNum
    BY <1>1 DEF SeqNum
  <2>5. QED
    BY <2>2, <2>3, <2>4
<1>12. ASSUME NEW s \in Held(bits')
       PROVE  minSet' <= s /\ s <= maxSet'
  <2>1. s \in seqs
    BY <1>1, <1>5
  <2>2. Min({low} \cup seqs) <= s
    BY <1>8, <2>1
  <2>3. s <= Max({high} \cup seqs)
    <3>1. Max({high} \cup seqs) \in Nat /\ s \in Nat
      BY <1>9, <1>10, <2>1
    <3>2. QED
      BY <1>10, <2>1, <3>1
  <2>4. QED
    BY <1>1, <1>3, <2>2, <2>3
<1>13. merged' \in BOOLEAN /\ ret' = [op |-> "Deserialize", out |-> 0] /\ 0 \in -1..MaxSeq
  BY <1>1 DEF Returns
<1>14. Held(bits') = seqs /\ setCount' = Cardinality(Held(bits'))
  BY <1>1, <1>3, <1>5
<1>15. IndInv'
  BY <1>1, <1>5, <1>11, <1>12, <1>13, <1>14, OperationKeepsInv
<1>16. QED
  BY <1>14, <1>15
------------------------------------------------------------------------------
(* The search of a pop. *)

LEMMA UsedPositionsCover ==
  ASSUME NEW s \in SeqNum
  PROVE  BitOf(s) \in UsedPositions(WordOf(s))
<1>1. s \in Nat /\ s < MaxSeq /\ BitOf(s) \in Positions /\ WordOf(s) \in Nat
  BY WordsOfNumbers, WordAndBit DEF SeqNum
<1>2. CASE WordOf(s) = WordCount - 1 /\ MaxSeq % WordBits # 0
  <2> DEFINE w == WordOf(MaxSeq)
             b == BitOf(MaxSeq)
  <2>1. w \in Nat /\ b \in Positions /\ MaxSeq = SeqAt(w, b) /\ b = MaxSeq % WordBits
    BY WordAndBit DEF BitOf
  <2> HIDE DEF w, b
  <2>2. b - 1 \in Positions /\ w + 1 \in Nat
    BY <1>2, <2>1 DEF Positions
  <2>3. WordOf(SeqAt(w + 1, b - 1)) = w + 1
    BY <2>2, SeqAtInverse
  <2>4. SeqAt(w + 1, b - 1) = MaxSeq + WordBits - 1
    <3>1. (w + 1) * WordBits = w * WordBits + WordBits
      BY <2>1
    <3>2. MaxSeq = w * WordBits + b /\ b \in Nat
      BY <2>1 DEF SeqAt, Positions
    <3>3. SeqAt(w + 1, b - 1) = (w + 1) * WordBits + (b - 1)
      BY DEF SeqAt
    <3>4. w * WordBits \in Nat
      BY <2>1
    <3>5. QED
      BY <3>1, <3>2, <3>3, <3>4
  <2>5. WordCount = w + 1
    BY <2>3, <2>4 DEF WordCount, WordOf
  <2>6. WordOf(s) = WordOf(MaxSeq)
    BY <1>2, <2>1, <2>5 DEF w
  <2>7. BitOf(s) < BitOf(MaxSeq)
    BY <1>1, <2>6, WordOrder
  <2>8. BitOf(s) \in 0..((MaxSeq % WordBits) - 1)
    BY <1>1, <2>1, <2>7 DEF b, Positions
  <2>9. QED
    BY <1>2, <2>8 DEF UsedPositions
<1>3. CASE ~(WordOf(s) = WordCount - 1 /\ MaxSeq % WordBits # 0)
  BY <1>1, <1>3 DEF UsedPositions
<1>4. QED
  BY <1>2, <1>3

\* The first pass wraps around from the start's word, the second does not.
LEMMA VisitedWordIs ==
  ASSUME NEW start \in SeqNum, NEW visit \in Visits
  PROVE  /\ VisitedWord(visit, start) \in Words
         /\ VisitedWord(visit, start) =
              IF visit >= WordCount THEN visit - WordCount
              ELSE IF WordOf(start) + visit < WordCount THEN WordOf(start) + visit
              ELSE WordOf(start) + visit - WordCount
<1>1. PICK n \in Nat : n = WordCount /\ n > 0
  BY WordsOfNumbers
<1>2. PICK a \in 0..(n - 1) : a = WordOf(start)
  BY <1>1, WordsOfNumbers DEF Words
<1>3. visit \in 0..(2 * n - 1)
  BY <1>1 DEF Visits
<1>4. CASE visit >= n
  BY <1>1, <1>3, <1>4 DEF VisitedWord, Words
<1>5. CASE visit < n /\ a + visit < n
  <2>1. a + visit \in 0..(n - 1)
    BY <1>2, <1>3, <1>5
  <2>2. (a + visit) % n = a + visit
    BY <1>1, <2>1
  <2>3. VisitedWord(visit, start) = (a + visit) % n
    BY <1>1, <1>2, <1>5 DEF VisitedWord
  <2>4. QED
    BY <1>1, <1>2, <1>3, <1>5, <2>1, <2>2, <2>3 DEF Words
<1>6. CASE visit < n /\ ~(a + visit < n)
  <2>1. a + visit - n \in 0..(n - 1)
    BY <1>2, <1>3, <1>6
  <2>2. (a + visit) % n = a + visit - n
    <3>1. PICK k \in 0..(n - 1) : k = a + visit - n
      BY <2>1
    <3>2. a + visit = n + k
      BY <1>2, <1>3, <3>1
    <3>3. (n + k) % n = k
      BY <1>1, <3>1
    <3>4. QED
      BY <3>1, <3>2, <3>3
  <2>3. VisitedWord(visit, start) = (a + visit) % n
    BY <1>1, <1>2, <1>6 DEF VisitedWord
  <2>4. QED
    BY <1>1, <1>2, <1>3, <1>6, <2>1, <2>2, <2>3 DEF Words
<1>7. QED
  BY <1>1, <1>3, <1>4, <1>5, <1>6

\* A member is seen by every visit of its word, but for the first when it lies
\* before the start.
LEMMA VisitSees ==
  ASSUME NEW start \in SeqNum, NEW visit \in Visits, NEW s \in Held(bits),
         VisitedWord(visit, start) = WordOf(s), visit = 0 => s >= start
  PROVE  BitOf(s) \in VisitedBits(visit, start)
<1>1. s \in SeqNum /\ s \in Nat /\ BitOf(s) \in bits[WordOf(s)]
  BY WordsOfNumbers DEF Held
<1>2. BitOf(s) \in UsedPositions(WordOf(s)) /\ BitOf(s) \in Nat
  BY <1>1, UsedPositionsCover, WordAndBit DEF Positions
<1>3. ASSUME visit = 0
      PROVE  BitOf(s) >= BitOf(start)
  <2>1. start \in Nat /\ WordOf(start) \in Words /\ BitOf(start) \in Nat
    BY WordsOfNumbers DEF Positions
  <2>2. WordOf(s) = WordOf(start)
    <3>1. WordCount \in Nat /\ WordCount > 0 /\ WordOf(start) \in 0..(WordCount - 1)
      BY <2>1, WordsOfNumbers DEF Words
    <3>2. QED
      BY <1>3, <3>1, VisitedWordIs
  <2>3. ~(s < start)
    BY <1>1, <1>3, <2>1
  <2>4. ~(BitOf(s) < BitOf(start))
    BY <1>1, <2>1, <2>2, <2>3, WordOrder
  <2>5. QED
    BY <1>2, <2>1, <2>4
<1>4. QED
  BY <1>1, <1>2, <1>3 DEF VisitedBits

\* What the search finds is what the mode of the map promises.
LEMMA FoundIsNext ==
  ASSUME NEW start \in SeqNum, NEW seq \in SeqNum, FoundFrom(start, seq)
  PROVE  seq \in Held(bits) /\ IsNextSetFrom(Held(bits), start, seq)
<1>1. PICK visit \in Visits :
        /\ seq \in {SeqAt(VisitedWord(visit, start), b) : b \in VisitedBits(visit, start)}
        /\ \A b \in VisitedBits(visit, start) : BitOf(seq) <= b
        /\ \A earlier \in 0..(visit - 1) : VisitedBits(earlier, start) = {}
  BY DEF FoundFrom
<1>2. PICK n \in Nat : n = WordCount /\ n > 0 /\ Visits = 0..(2 * n - 1)
  BY WordsOfNumbers DEF Visits
<1>3. PICK a \in 0..(n - 1) : a = WordOf(start)
  BY <1>2, WordsOfNumbers DEF Words
<1>4. \A s \in SeqNum : s \in Nat /\ WordOf(s) \in 0..(n - 1) /\ BitOf(s) \in Nat
  BY <1>2, WordsOfNumbers DEF Words, Positions
<1>5. /\ WordOf(seq) = VisitedWord(visit, start)
      /\ BitOf(seq) \in VisitedBits(visit, start)
  <2>1. PICK b \in VisitedBits(visit, start) : seq = SeqAt(VisitedWord(visit, start), b)
    BY <1>1
  <2>2. VisitedWord(visit, start) \in Nat
    BY VisitedWordIs, WordsOfNumbers DEF Words
  <2>3. b \in Positions
    <3>1. b \in UsedPositions(VisitedWord(visit, start))
      BY <2>1 DEF VisitedBits
    <3>2. UsedPositions(VisitedWord(visit, start)) \subseteq Positions
      BY DEF UsedPositions, Positions
    <3>3. QED
      BY <3>1, <3>2
  <2>4. QED
    BY <2>1, <2>2, <2>3, SeqAtInverse
<1>6. seq \in Held(bits)
  BY <1>5 DEF VisitedBits, Held
<1>7. ASSUME NEW s \in Held(bits), NEW u \in Visits, u <= visit,
             VisitedWord(u, start) = WordOf(s), u = 0 => s >= start
      PROVE  u = visit /\ ~(s < seq)
  <2>1. BitOf(s) \in VisitedBits(u, start) /\ s \in SeqNum
    BY <1>7, VisitSees DEF Held
  <2>2. u = visit
    <3>1. u \in 0..(visit - 1) => VisitedBits(u, start) = {}
      BY <1>1
    <3>2. u \in Nat /\ visit \in Nat
      BY <1>2
    <3>3. QED
      BY <1>7, <2>1, <3>1, <3>2
  <2>3. BitOf(seq) <= BitOf(s) /\ WordOf(seq) = WordOf(s)
    BY <1>1, <1>5, <1>7, <2>1, <2>2
  <2>4. ~(s < seq)
    BY <1>4, <2>1, <2>3, WordOrder
  <2>5. QED
    BY <2>2, <2>4
<1>8. \A s \in Held(bits) : s \in SeqNum /\ s \in Nat /\ WordOf(s) \in 0..(n - 1)
  BY <1>4 DEF Held
<1>9. \A s, t \in SeqNum : ~(s < t) => WordOf(t) <= WordOf(s)
  BY <1>4, WordOrder
<1>10. \A s, t \in SeqNum : s < t => WordOf(s) <= WordOf(t)
  BY <1>4, WordOrder
<1>11. visit \in 0..(2 * n - 1)
  BY <1>2
<1>12. CASE visit < n /\ a + visit < n
  <2>1. WordOf(seq) = a + visit
    BY <1>2, <1>3, <1>5, <1>11, <1>12, VisitedWordIs
  <2>2. ~(seq < start)
    <3>1. CASE visit = 0
      <4>1. BitOf(seq) >= BitOf(start)
        BY <1>5, <3>1 DEF VisitedBits
      <4>2. QED
        BY <1>3, <1>4, <2>1, <3>1, <4>1, WordOrder
    <3>2. CASE visit # 0
      BY <1>3, <1>4, <1>11, <2>1, <3>2, WordOrder
    <3>3. QED
      BY <3>1, <3>2
  <2>3. ASSUME NEW s \in Held(bits), s >= start
        PROVE  seq <= s
    <3> SUFFICES ASSUME s < seq PROVE FALSE
      BY <1>4, <1>8
    <3>1. a <= WordOf(s) /\ WordOf(s) <= a + visit
      BY <1>3, <1>4, <1>8, <1>9, <1>10, <2>1, <2>3
    <3>2. PICK u \in Nat : u = WordOf(s) - a /\ u <= visit
      BY <1>3, <1>8, <1>11, <3>1
    <3>3. u \in Visits /\ u < n /\ a + u < n /\ a + u = WordOf(s)
      BY <1>2, <1>3, <1>8, <1>11, <1>12, <3>2
    <3>4. VisitedWord(u, start) = WordOf(s)
      BY <1>2, <1>3, <3>3, VisitedWordIs
    <3>5. QED
      BY <1>7, <2>3, <3>2, <3>3, <3>4
  <2>4. seq >= start
    BY <1>4, <2>2
  <2>5. QED
    BY <1>6, <2>3, <2>4 DEF IsNextSetFrom, IsLowest
<1>13. CASE ~(visit < n /\ a + visit < n)
  <2>1. ASSUME NEW s \in Held(bits), s >= start
        PROVE  FALSE
    <3>1. a <= WordOf(s)
      BY <1>3, <1>4, <1>8, <1>9, <2>1
    <3>2. PICK u \in Nat : u = WordOf(s) - a /\ a + u = WordOf(s) /\ a + u < n
      BY <1>3, <1>8, <3>1
    <3>3. u \in Visits /\ u < n /\ u < visit
      BY <1>2, <1>3, <1>11, <1>13, <3>2
    <3>4. VisitedWord(u, start) = WordOf(s)
      BY <1>2, <1>3, <3>2, <3>3, VisitedWordIs
    <3>5. u = visit
      <4>1. u <= visit
        BY <1>11, <3>3
      <4>2. QED
        BY <1>7, <2>1, <3>3, <3>4, <4>1
    <3>6. QED
      BY <1>11, <3>3, <3>5
  <2>2. ASSUME NEW s \in Held(bits)
        PROVE  seq <= s
    <3> SUFFICES ASSUME s < seq PROVE FALSE
      BY <1>4, <1>8
    <3>1. WordOf(s) <= WordOf(seq)
      BY <1>8, <1>10
    <3>2. CASE visit >= n
      <4>1. WordOf(seq) = visit - n
        BY <1>2, <1>5, <3>2, VisitedWordIs
      <4>2. PICK u \in Nat : u = n + WordOf(s) /\ u <= visit
        BY <1>2, <1>8, <1>11, <3>1, <4>1
      <4>3. u \in Visits /\ u >= n /\ u # 0 /\ u - n = WordOf(s)
        BY <1>2, <1>8, <1>11, <4>2
      <4>4. VisitedWord(u, start) = WordOf(s)
        BY <1>2, <4>3, VisitedWordIs
      <4>5. QED
        BY <1>7, <4>2, <4>3, <4>4
    <3>3. CASE visit < n /\ ~(a + visit < n)
      <4>1. WordOf(seq) = a + visit - n
        BY <1>2, <1>3, <1>5, <1>11, <3>3, VisitedWordIs
      <4>2. PICK u \in Nat : u = n - a + WordOf(s) /\ u <= visit
        BY <1>2, <1>3, <1>8, <1>11, <3>1, <4>1
      <4>3. u \in Visits /\ u < n /\ u # 0 /\ ~(a + u < n) /\ a + u - n = WordOf(s)
        <5>1. PICK w \in 0..(n - 1) : w = WordOf(s)
          BY <1>8
        <5>2. u = n - a + w /\ u <= visit /\ visit < n /\ visit \in Nat
          BY <1>11, <3>3, <4>2, <5>1
        <5>3. u < n /\ u # 0 /\ ~(a + u < n) /\ a + u - n = w /\ u \in 0..(2 * n - 1)
          <6>1. n \in Nat /\ a \in 0..(n - 1) /\ w \in 0..(n - 1) /\ u \in Nat
            BY <1>2, <1>3, <4>2, <5>1
          <6>2. u < n
            BY <5>2, <6>1
          <6>3. a + u = n + w
            BY <5>2, <6>1
          <6>4. QED
            BY <6>1, <6>2, <6>3
        <5>4. QED
          BY <1>2, <5>1, <5>3
      <4>4. VisitedWord(u, start) = WordOf(s)
        BY <1>2, <1>3, <4>3, VisitedWordIs
      <4>5. QED
        BY <1>7, <4>2, <4>3, <4>4
    <3>4. QED
      BY <1>11, <1>13, <3>2, <3>3
  <2>3. {s \in Held(bits) : s >= start} = {}
    BY <2>1
  <2>4. QED
    BY <1>6, <2>2, <2>3 DEF IsNextSetFrom, IsLowest
<1>14. QED
  BY <1>6, <1>12, <1>13
------------------------------------------------------------------------------
(* Pop, and every step. *)

LEMMA PopStartsAreNumbers ==
  ASSUME IndInv, NEW start \in PopStarts
  PROVE  /\ start \in SeqNum
         /\ mode = "Lowest" => start = 0
         /\ mode = "RoundRobin" => start = cursor
<1>1. /\ cursor \in SeqNum /\ minSet \in Nat /\ maxSet \in SeqNum
      /\ mode \in {"Lowest", "RoundRobin", "Random"}
  BY DEF IndInv, TypeOK
<1>2. CASE mode = "Lowest"
  BY <1>2 DEF PopStarts, SeqNum
<1>3. CASE mode = "RoundRobin"
  BY <1>1, <1>3 DEF PopStarts
<1>4. CASE mode = "Random"
  BY <1>1, <1>4 DEF PopStarts, SeqNum
<1>5. QED
  BY <1>1, <1>2, <1>3, <1>4

LEMMA PopMemberKeeps ==
  ASSUME IndInv, NEW start \in PopStarts, NEW seq \in SeqNum, PopMember(start, seq)
  PROVE  /\ IndInv'
         /\ Held(bits') = Held(bits) \ {seq}
         /\ seq \in Held(bits)
         /\ mode = "Lowest" => IsLowest(Held(bits), seq)
         /\ mode = "RoundRobin" => IsNextSetFrom(Held(bits), cursor, seq)
<1>1. /\ FoundFrom(start, seq)
      /\ ClearBit(seq)
      /\ cursor' = IF mode = "RoundRobin" THEN CursorAfter(seq) ELSE cursor
      /\ Returns("Pop", seq)
      /\ UNCHANGED <<minSet, maxSet, mode>>
  BY DEF PopMember
<1>2. start \in SeqNum
  BY PopStartsAreNumbers
<1>3. seq \in Held(bits) /\ IsNextSetFrom(Held(bits), start, seq)
  BY <1>1, <1>2, FoundIsNext
<1>4. /\ bits' \in WordArrays /\ NoStrays(bits')
      /\ Held(bits') = Held(bits) \ {seq}
      /\ setCount' = Cardinality(Held(bits'))
  BY <1>1, <1>3, ClearBitEffect
<1>5. CursorAfter(seq) \in SeqNum /\ seq \in -1..MaxSeq /\ cursor \in SeqNum
  BY DEF CursorAfter, SeqNum, IndInv, TypeOK
<1>6. IndInv'
  <2>1. Held(bits') \subseteq Held(bits) /\ cursor' \in SeqNum
    BY <1>1, <1>4, <1>5
  <2>2. QED
    BY <1>1, <1>4, <1>5, <2>1, ShrinkKeepsInv
<1>7. ASSUME mode = "Lowest"
      PROVE  IsLowest(Held(bits), seq)
  <2>1. IsNextSetFrom(Held(bits), 0, seq)
    BY <1>3, <1>7, PopStartsAreNumbers
  <2>2. {s \in Held(bits) : s >= 0} = Held(bits)
    BY WordsOfNumbers DEF Held
  <2>3. QED
    BY <2>1, <2>2 DEF IsNextSetFrom
<1>8. ASSUME mode = "RoundRobin"
      PROVE  IsNextSetFrom(Held(bits), cursor, seq)
  BY <1>3, <1>8, PopStartsAreNumbers
<1>9. QED
  BY <1>3, <1>4, <1>6, <1>7, <1>8

LEMMA PopNothingKeeps ==
  ASSUME IndInv, PopNothing
  PROVE  IndInv' /\ Held(bits) = {} /\ Held(bits') = {}
<1>1. UNCHANGED <<bits, setCount, minSet, maxSet, cursor, mode>> /\ Returns("Pop", -1)
  BY DEF PopNothing
<1>2. Held(bits) = {}
  BY InvOfHeld, MembersAreHeld DEF PopNothing
<1>3. -1 \in -1..MaxSeq /\ cursor' \in SeqNum
  BY <1>1 DEF IndInv, TypeOK
<1>4. IndInv'
  <2>1. bits' \in WordArrays /\ NoStrays(bits') /\ setCount' = Cardinality(Held(bits'))
    BY <1>1, InvOfHeld
  <2>2. Held(bits') \subseteq Held(bits)
    BY <1>1
  <2>3. QED
    BY <1>1, <1>3, <2>1, <2>2, ShrinkKeepsInv
<1>5. QED
  BY <1>1, <1>2, <1>4

LEMMA IndInvStep == IndInv /\ [Next]_vars => IndInv'
<1> SUFFICES ASSUME IndInv, [Next]_vars PROVE IndInv'
  OBVIOUS
<1>1. ASSUME TransportNext
      PROVE  IndInv'
  <2>1. ASSUME NEW first \in 0..(MaxSeq + 1), NEW end \in 0..(MaxSeq + 1), RemoveRange(first, end)
        PROVE  IndInv'
    <3>1. first \in Nat /\ end \in Nat
      OBVIOUS
    <3>2. QED
      BY <2>1, <3>1, RemoveRangeKeeps
  <2>2. ASSUME Pop
        PROVE  IndInv'
    BY <2>2, PopMemberKeeps, PopNothingKeeps DEF Pop
  <2>3. QED
    BY <1>1, <2>1, <2>2, PushKeeps, RemoveKeeps, MergeKeeps DEF TransportNext
<1>2. ASSUME ~merged, RebuildNext
      PROVE  IndInv'
  BY <1>2, RemoveAllKeeps, DeserializeKeeps DEF RebuildNext
<1>3. CASE UNCHANGED vars
  <2>1. UNCHANGED <<bits, setCount, minSet, maxSet, cursor, mode, ret, merged>>
    BY <1>3 DEF vars
  <2>2. TypeOK' /\ NoStrays(bits')
    BY <2>1 DEF IndInv, TypeOK
  <2>3. Members' = Members
    BY <2>1 DEF Members, Has
  <2>4. QED
    BY <2>1, <2>2, <2>3 DEF IndInv, CountIsExact, BoundsCover
<1>4. QED
  BY <1>1, <1>2, <1>3 DEF Next

LEMMA IndInvAlways == Spec => []IndInv
BY IndInvInit, IndInvStep, PTL DEF Spec
------------------------------------------------------------------------------
\* Every variable of the map keeps its type: no bit outside a word, no count, no
\* bound and no cursor out of range.
THEOREM MapTypeCorrect == Spec => []TypeOK
<1>1. IndInv => TypeOK
  BY DEF IndInv
<1>2. QED
  BY <1>1, IndInvAlways, PTL

\* The cached count, which the emptiness test of Pop trusts, is the number of
\* bits set, whatever ranges and masks the operations used.
THEOREM MapCountIsExact == Spec => []CountIsExact
<1>1. IndInv => CountIsExact
  BY DEF IndInv
<1>2. QED
  BY <1>1, IndInvAlways, PTL

\* The cached bounds, between which RemoveAll clears, enclose all members.
THEOREM MapBoundsCover == Spec => []BoundsCover
<1>1. IndInv => BoundsCover
  BY DEF IndInv
<1>2. QED
  BY <1>1, IndInvAlways, PTL
------------------------------------------------------------------------------
(* The map is a set. *)

\* The masks of RemoveRange cover the range.
LEMMA RangeBitsHold ==
  ASSUME bits \in WordArrays, NEW first \in Nat, NEW end \in Nat
  PROVE  Held(RangeBits(first, end)) = Held(bits) \cap (first..(end - 1))
<1> DEFINE stop == IF end > MaxSeq THEN MaxSeq ELSE end
<1>1. stop \in Nat /\ stop <= end /\ stop <= MaxSeq /\ (stop = end \/ stop = MaxSeq)
  OBVIOUS
<1>2. \A w \in Words : RangeBits(first, end)[w] =
        IF first < stop /\ w \in WordOf(first)..WordOf(stop - 1)
        THEN bits[w] \cap RangeMask(first, stop, w)
        ELSE {}
  BY DEF RangeBits
<1> HIDE DEF stop
<1>3. ASSUME NEW s \in SeqNum
      PROVE  BitOf(s) \in RangeBits(first, end)[WordOf(s)] <=>
               BitOf(s) \in bits[WordOf(s)] /\ s \in first..(end - 1)
  <2>1. s \in Nat /\ s < MaxSeq /\ WordOf(s) \in Words /\ WordOf(s) \in Nat
        /\ BitOf(s) \in Nat /\ BitOf(s) <= WordBits - 1
    BY WordsOfNumbers, WordAndBit DEF SeqNum, Positions
  <2>2. s \in first..(end - 1) <=> ~(s < first) /\ s < stop
    BY <1>1, <2>1
  <2>3. CASE ~(first < stop)
    BY <1>1, <1>2, <2>1, <2>2, <2>3
  <2>4. CASE first < stop
    <3>1. PICK last \in Nat : last = stop - 1
      BY <1>1, <2>4
    <3>2. s < stop <=> ~(last < s)
      BY <1>1, <2>1, <3>1
    <3>3. /\ WordOf(first) \in Nat /\ BitOf(first) \in Nat
          /\ WordOf(last) \in Nat /\ BitOf(last) \in Nat
      BY WordAndBit DEF Positions
    <3>4. s < first <=> \/ WordOf(s) < WordOf(first)
                        \/ WordOf(s) = WordOf(first) /\ BitOf(s) < BitOf(first)
      BY <2>1, WordOrder
    <3>5. last < s <=> \/ WordOf(last) < WordOf(s)
                       \/ WordOf(last) = WordOf(s) /\ BitOf(last) < BitOf(s)
      BY <2>1, WordOrder
    <3>6. RangeMask(first, stop, WordOf(s)) =
            (IF WordOf(s) = WordOf(first) THEN BitOf(first) ELSE 0)
              ..(IF WordOf(s) = WordOf(last) THEN BitOf(last) ELSE WordBits - 1)
      BY <3>1 DEF RangeMask
    <3>7. ~(s < first) /\ ~(last < s) <=>
            /\ WordOf(s) \in WordOf(first)..WordOf(last)
            /\ BitOf(s) \in RangeMask(first, stop, WordOf(s))
      BY <2>1, <3>3, <3>4, <3>5, <3>6
    <3>8. BitOf(s) \in RangeBits(first, end)[WordOf(s)] <=>
            /\ WordOf(s) \in WordOf(first)..WordOf(last)
            /\ BitOf(s) \in bits[WordOf(s)]
            /\ BitOf(s) \in RangeMask(first, stop, WordOf(s))
      BY <1>2, <2>1, <2>4, <3>1
    <3>9. QED
      BY <2>2, <3>2, <3>7, <3>8
  <2>5. QED
    BY <2>3, <2>4
<1>4. QED
  BY <1>3 DEF Held

\* Every step of the words is a step of the set.
LEMMA StepIsSetStep ==
  ASSUME IndInv, IndInv', [Next]_vars
  PROVE  [Contract!SetNext]_(Contract!setVars)
<1>1. Members = Held(bits) /\ Members' = Held(bits') /\ Held(bits) \in SUBSET SeqNum
  BY InvOfHeld DEF Members, Has, Held
<1>2. ASSUME NEW seq \in 0..MaxSeq, Push(seq)
      PROVE  Contract!SetPush(seq)
  <2>1. CASE PushRefused(seq)
    <3>1. seq \notin SeqNum \/ seq \in Members
      BY <2>1 DEF PushRefused, Members
    <3>2. Members' = Members
      BY <1>1, <2>1 DEF PushRefused
    <3>3. QED
      BY <2>1, <3>1, <3>2 DEF PushRefused, Returns, Contract!SetPush, Contract!Numbers, SeqNum
  <2>2. CASE PushAccepted(seq)
    <3>1. seq \in SeqNum /\ seq \notin Members
      BY <2>2 DEF PushAccepted, Members
    <3>2. bits' = [bits EXCEPT ![WordOf(seq)] = @ \cup {BitOf(seq)}]
      BY <2>2 DEF PushAccepted
    <3>3. Members' = Members \cup {seq}
      BY <1>1, <3>1, <3>2, InvOfHeld, OneWordChanges
    <3>4. QED
      BY <2>2, <3>1, <3>3 DEF PushAccepted, Returns, Contract!SetPush, Contract!Numbers, SeqNum
  <2>3. QED
    BY <1>2, <2>1, <2>2 DEF Push
<1>3. ASSUME NEW seq \in 0..MaxSeq, Remove(seq)
      PROVE  Contract!SetBecomes("Remove", Members \ {seq})
  <2>1. CASE Has(seq)
    <3>1. ClearBit(seq) /\ seq \in Held(bits)
      BY <1>3, <2>1 DEF Remove, Has, Held
    <3>2. Members' = Members \ {seq}
      BY <1>1, <3>1, ClearBitEffect
    <3>3. QED
      BY <1>3, <3>2 DEF Remove, Returns, Contract!SetBecomes
  <2>2. CASE ~Has(seq)
    <3>1. Members' = Members /\ seq \notin Members
      BY <1>1, <1>3, <2>2 DEF Remove, Members
    <3>2. QED
      BY <1>3, <3>1 DEF Remove, Returns, Contract!SetBecomes
  <2>3. QED
    BY <2>1, <2>2
<1>4. ASSUME NEW first \in 0..(MaxSeq + 1), NEW end \in 0..(MaxSeq + 1), RemoveRange(first, end)
      PROVE  Contract!SetBecomes("RemoveRange", Members \ (first..(end - 1)))
  <2>1. first \in Nat /\ end \in Nat
    OBVIOUS
  <2>2. Held(bits') = Held(bits) \ Held(RangeBits(first, end))
    BY <1>4, <2>1, RemoveRangeKeeps
  <2>3. Held(RangeBits(first, end)) = Held(bits) \cap (first..(end - 1))
    BY <2>1, InvOfHeld, RangeBitsHold
  <2>4. Members' = Members \ (first..(end - 1))
    BY <1>1, <2>2, <2>3
  <2>5. QED
    BY <1>4, <2>4 DEF RemoveRange, Returns, Contract!SetBecomes
<1>5. ASSUME NEW seqs \in SUBSET SeqNum, Merge(BitsOf(seqs))
      PROVE  Contract!SetBecomes("Merge", Members \cup seqs)
  BY <1>1, <1>5, MergeKeeps DEF Merge, Returns, Contract!SetBecomes
<1>6. ASSUME Pop
      PROVE  Contract!SetPop
  <2>1. CASE PopNothing
    BY <1>1, <2>1, PopNothingKeeps DEF PopNothing, Returns, Contract!SetPop
  <2>2. ASSUME NEW start \in PopStarts, NEW seq \in SeqNum, PopMember(start, seq)
        PROVE  Contract!SetPop
    <3>1. /\ seq \in Members
          /\ mode = "Lowest" => IsLowest(Members, seq)
          /\ mode = "RoundRobin" => IsNextSetFrom(Members, cursor, seq)
          /\ Members' = Members \ {seq}
      BY <1>1, <2>2, PopMemberKeeps
    <3>2. /\ cursor' = IF mode = "RoundRobin" THEN (seq + 1) % MaxSeq ELSE cursor
          /\ ret' = [op |-> "Pop", out |-> seq]
          /\ mode' = mode
      BY <2>2 DEF PopMember, CursorAfter, Returns
    <3>3. QED
      BY <3>1, <3>2 DEF Contract!SetPop, Contract!IsLowest, Contract!IsNextSetFrom, IsLowest,
                        IsNextSetFrom
  <2>3. QED
    BY <1>6, <2>1, <2>2 DEF Pop
<1>7. ASSUME ~merged, RemoveAll
      PROVE  Contract!SetRebuild("RemoveAll", {})
  BY <1>1, <1>7, RemoveAllKeeps DEF RemoveAll, Returns, Contract!SetRebuild
<1>8. ASSUME ~merged, NEW seqs \in SUBSET SeqNum, Deserialize(seqs)
      PROVE  Contract!SetRebuild("Deserialize", seqs)
  BY <1>1, <1>8, DeserializeKeeps DEF Deserialize, Returns, Contract!SetRebuild
<1>9. CASE UNCHANGED vars
  BY <1>1, <1>9 DEF vars, Contract!setVars
<1>10. ASSUME TransportNext
       PROVE  Contract!SetNext
  <2>1. CASE \E seq \in 0..MaxSeq : Push(seq)
    BY <1>2, <2>1 DEF Contract!SetNext
  <2>2. CASE \E seq \in 0..MaxSeq : Remove(seq)
    BY <1>3, <2>2 DEF Contract!SetNext
  <2>3. CASE \E first, end \in 0..(MaxSeq + 1) : RemoveRange(first, end)
    BY <1>4, <2>3 DEF Contract!SetNext
  <2>4. CASE \E seqs \in SUBSET SeqNum : Merge(BitsOf(seqs))
    BY <1>5, <2>4 DEF Contract!SetNext, Contract!Numbers, SeqNum
  <2>5. CASE Pop
    BY <1>6, <2>5 DEF Contract!SetNext
  <2>6. QED
    BY <1>10, <2>1, <2>2, <2>3, <2>4, <2>5 DEF TransportNext
<1>11. ASSUME ~merged, RebuildNext
       PROVE  Contract!SetNext
  <2>1. CASE RemoveAll
    BY <1>7, <1>11, <2>1 DEF Contract!SetNext
  <2>2. CASE \E seqs \in SUBSET SeqNum : Deserialize(seqs)
    BY <1>8, <1>11, <2>2 DEF Contract!SetNext, Contract!Numbers, SeqNum
  <2>3. QED
    BY <1>11, <2>1, <2>2 DEF RebuildNext
<1>12. QED
  BY <1>9, <1>10, <1>11 DEF Next

\* Words, masks, the wrapping search and the caches never show: the map behaves
\* as the set it stands for, and the transports may be modelled on sets.
THEOREM MapRefinesSequenceSet == Spec => RefinesSequenceSet
<1>1. Init => Contract!SetInit
  <2> SUFFICES ASSUME Init PROVE Contract!SetInit
    OBVIOUS
  <2>1. Members = {}
    <3>1. bits = [w \in Words |-> {}]
      BY DEF Init
    <3>2. QED
      BY <3>1, WordsOfNumbers, MembersAreHeld DEF Held
  <2>2. QED
    BY <2>1 DEF Init, Contract!SetInit
<1>2. QED
  BY <1>1, StepIsSetStep, IndInvAlways, PTL DEF Spec, RefinesSequenceSet, Contract!SetSpec

\* A pop that changes a round-robin map is the pick of its search.
LEMMA PopPicks ==
  ASSUME IndInv, [Next]_vars, ret'.op = "Pop", mode = "RoundRobin", Members' # Members
  PROVE  \E seq \in SeqNum :
           /\ IsNextSetFrom(Members, cursor, seq)
           /\ Members' = Members \ {seq}
           /\ cursor' = (seq + 1) % MaxSeq
<1>1. Members = Held(bits) /\ Members' = Held(bits')
  BY InvOfHeld DEF Members, Has, Held
<1>2. ~UNCHANGED vars
  BY <1>1 DEF vars
<1>3. Pop
  <2>1. ASSUME NEW seq, Push(seq)
        PROVE  FALSE
    BY <2>1 DEF Push, PushRefused, PushAccepted, Returns
  <2>2. ASSUME NEW seq, Remove(seq)
        PROVE  FALSE
    BY <2>2 DEF Remove, Returns
  <2>3. ASSUME NEW first, NEW end, RemoveRange(first, end)
        PROVE  FALSE
    BY <2>3 DEF RemoveRange, Returns
  <2>4. ASSUME NEW src, Merge(src)
        PROVE  FALSE
    BY <2>4 DEF Merge, Returns
  <2>5. ASSUME RebuildNext
        PROVE  FALSE
    <3>1. ~RemoveAll
      BY <1>1 DEF RemoveAll, Returns
    <3>2. ASSUME NEW seqs, Deserialize(seqs)
          PROVE  FALSE
      <4>1. Returns("Deserialize", 0)
        BY <3>2 DEF Deserialize
      <4>2. QED
        BY <4>1 DEF Returns
    <3>3. QED
      BY <2>5, <3>1, <3>2 DEF RebuildNext
  <2>6. QED
    BY <1>2, <2>1, <2>2, <2>3, <2>4, <2>5 DEF Next, TransportNext
<1>4. ~PopNothing
  BY <1>1 DEF PopNothing
<1>5. PICK start \in PopStarts, seq \in SeqNum : PopMember(start, seq)
  BY <1>3, <1>4 DEF Pop
<1>6. cursor' = (seq + 1) % MaxSeq
  BY <1>5 DEF PopMember, CursorAfter
<1>7. QED
  BY <1>1, <1>5, <1>6, PopMemberKeeps

\* No round-robin pop overtakes a member.
THEOREM MapPopsInTurn == Spec => NoOvertaking
<1>1. ASSUME IndInv, [Next]_vars, ret'.op = "Pop", mode = "RoundRobin", Members' # Members,
             NEW s \in Members'
      PROVE  RoundRobinDistance(cursor', s, MaxSeq) < RoundRobinDistance(cursor, s, MaxSeq)
  <2>1. PICK seq \in SeqNum :
          /\ IsNextSetFrom(Members, cursor, seq)
          /\ Members' = Members \ {seq}
          /\ cursor' = (seq + 1) % MaxSeq
    BY <1>1, PopPicks
  <2>2. /\ MaxSeq \in Nat \ {0}
        /\ Members \in SUBSET (0..(MaxSeq - 1))
        /\ cursor \in 0..(MaxSeq - 1)
    BY <1>1, MapAssumption DEF IndInv, TypeOK, Members, SeqNum
  <2>3. s \in Members /\ s # seq
    BY <1>1, <2>1
  <2>4. QED
    BY <2>1, <2>2, <2>3, RoundRobinProgress
<1>2. IndInv /\ [Next]_vars =>
        [ret'.op = "Pop" /\ mode = "RoundRobin" /\ Members' # Members =>
           \A s \in Members' :
             RoundRobinDistance(cursor', s, MaxSeq)
               < RoundRobinDistance(cursor, s, MaxSeq)]_vars
  BY <1>1
<1>3. QED
  BY <1>2, IndInvAlways, PTL DEF Spec, NoOvertaking
================================================================================
