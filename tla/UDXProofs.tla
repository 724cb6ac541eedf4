------------------------------ MODULE UDXProofs ------------------------------
(***************************************************************************)
(* Theorems about the UDX transfer of module UDX, for any amount of data,  *)
(* word size, loss, latency and timer settings.  The contiguous search is  *)
(* unreliable; what it answers is still enough for the gap test.           *)
(***************************************************************************)
EXTENDS UDX, SequencePolicyProofs, FiniteSetTheorems

USE ConfigAssumption, SenderAssumption, ReceiverAssumption, LatencyAssumption, LossAssumption
------------------------------------------------------------------------------
(* Words. *)

LEMMA WordBaseBounds ==
  ASSUME NEW seq \in Nat
  PROVE  /\ WordBase(seq) \in Nat
         /\ WordBase(seq) <= seq
         /\ seq < WordBase(seq) + WordBits
         /\ WordBase(WordBase(seq)) = WordBase(seq)
<1>1. PICK q \in Nat : q = seq \div WordBits
  OBVIOUS
<1>2. WordBits * q <= seq /\ seq < WordBits * q + WordBits
  BY <1>1
<1>3. WordBase(seq) = WordBits * q
  BY <1>1 DEF WordBase
<1>4. (WordBits * q) \div WordBits = q
  OBVIOUS
<1>5. WordBits * q \in Nat
  OBVIOUS
<1>6. QED
  BY <1>2, <1>3, <1>4, <1>5 DEF WordBase

\* Two words do not overlap.
LEMMA WordsApart ==
  ASSUME NEW a \in Nat, NEW b \in Nat, a = WordBase(a), b = WordBase(b), a < b
  PROVE  a + WordBits <= b
<1>1. PICK j \in Nat : j = a \div WordBits /\ a = WordBits * j
  BY DEF WordBase
<1>2. PICK k \in Nat : k = b \div WordBits /\ b = WordBits * k
  BY DEF WordBase
<1>3. j < k
  BY <1>1, <1>2
<1>4. WordBits * k >= WordBits * (j + 1)
  BY <1>3
<1>5. QED
  BY <1>1, <1>2, <1>4

\* The word before a word.
LEMMA WordBefore ==
  ASSUME NEW b \in Nat, b = WordBase(b), b > 0
  PROVE  b - WordBits \in Nat /\ b - WordBits = WordBase(b - WordBits)
<1>1. PICK k \in Nat : k = b \div WordBits /\ b = WordBits * k
  BY DEF WordBase
<1>2. k - 1 \in Nat /\ b - WordBits = WordBits * (k - 1)
  BY <1>1
<1>3. (WordBits * (k - 1)) \div WordBits = k - 1
  BY <1>2
<1>4. QED
  BY <1>2, <1>3 DEF WordBase
------------------------------------------------------------------------------
(* What the contiguous search answers. *)

\* The last number of each word that ends below n is a member.
WordsClosed(members, n) == \A b \in 1..n : b = WordBase(b) => b - 1 \in members

\* An answer names a member below which every word ends in a member, or nothing.
IsAnswer(answer, members) ==
  \/ answer = NoContig
  \/ answer \in members /\ WordsClosed(members, answer)

LEMMA HighestOfAnswer ==
  ASSUME NEW members \in SUBSET SeqNum, NEW base \in 0..MaxSeq, base = WordBase(base),
         NEW part \in SUBSET (base..(base + WordBits - 1)), WordsClosed(members, base)
  PROVE  IsAnswer(HighestOf(members, part, base), members)
<1>1. CASE members \cap part = {}
  <2>1. HighestOf(members, part, base) = (base - 1) % CountSpan
    BY <1>1 DEF HighestOf
  <2>2. CASE base = 0
    <3>1. (0 - 1) % CountSpan = CountSpan - 1
      OBVIOUS
    <3>2. QED
      BY <2>1, <2>2, <3>1 DEF IsAnswer, NoContig
  <2>3. CASE base # 0
    <3>1. base - 1 \in 0..(CountSpan - 1)
      BY <2>3
    <3>2. (base - 1) % CountSpan = base - 1
      BY <3>1
    <3>3. base - 1 \in members /\ WordsClosed(members, base - 1)
      BY <2>3 DEF WordsClosed
    <3>4. QED
      BY <2>1, <3>2, <3>3 DEF IsAnswer
  <2>4. QED
    BY <2>2, <2>3
<1>2. CASE members \cap part # {}
  <2>1. PICK m \in members \cap part : m = HighestOf(members, part, base)
    <3>1. MaxSeq - 1 \in Nat /\ members \cap part \in SUBSET (0..(MaxSeq - 1))
      BY DEF SeqNum
    <3>2. Max(members \cap part) \in members \cap part
      BY <1>2, <3>1, MaxIsGreatest
    <3>3. QED
      BY <1>2, <3>2 DEF HighestOf
  <2>2. m \in Nat /\ m < base + WordBits
    BY <2>1 DEF SeqNum
  <2>3. ASSUME NEW b \in 1..m, b = WordBase(b)
        PROVE  b - 1 \in members
    <3>1. b <= base
      BY <2>2, <2>3, WordsApart
    <3>2. QED
      BY <2>3, <3>1 DEF WordsClosed
  <2>4. QED
    BY <2>1, <2>3 DEF IsAnswer, WordsClosed
<1>3. QED
  BY <1>1, <1>2

\* The words the search has found full end in members.
LEMMA FullWordsClosed ==
  ASSUME NEW members \in SUBSET SeqNum, NEW start \in Nat, NEW upto \in Nat,
         WordsClosed(members, start),
         \/ start = WordBase(start)
         \/ start..(WordBase(start) + WordBits - 1) \subseteq members,
         \A b \in Nat : /\ b = WordBase(b) /\ b < upto
                        /\ start <= b \/ WordBase(start) + WordBits <= b
                        => WordAt(b) \subseteq members
  PROVE  WordsClosed(members, upto)
<1> SUFFICES ASSUME NEW b \in 1..upto, b = WordBase(b), start < b
             PROVE  b - 1 \in members
  BY DEF WordsClosed
<1>1. /\ b - WordBits \in Nat
      /\ b - WordBits = WordBase(b - WordBits)
      /\ b - WordBits < upto
  BY WordBefore
<1>2. /\ WordBase(start) \in Nat /\ WordBase(start) <= start
      /\ WordBase(WordBase(start)) = WordBase(start)
  BY WordBaseBounds
<1>3. CASE start <= b - WordBits
  <2>1. WordAt(b - WordBits) \subseteq members
    BY <1>1, <1>3
  <2>2. QED
    BY <1>1, <2>1 DEF WordAt
<1>4. CASE b - WordBits < start
  <2>1. WordBase(start) <= b - WordBits
    <3>1. WordBase(start) + WordBits <= b
      BY <1>2, WordsApart
    <3>2. QED
      BY <1>1, <1>2, <3>1
  <2>2. WordBase(start) = b - WordBits
    <3>1. ~(WordBase(start) < b - WordBits)
      <4> SUFFICES ASSUME WordBase(start) < b - WordBits PROVE FALSE
        OBVIOUS
      <4>1. WordBase(start) + WordBits <= b - WordBits
        BY <1>1, <1>2, WordsApart
      <4>2. start < WordBase(start) + WordBits
        BY WordBaseBounds
      <4>3. QED
        BY <1>1, <1>2, <1>4, <4>1, <4>2
    <3>2. QED
      BY <1>1, <1>2, <2>1, <3>1
  <2>3. start # WordBase(start)
    BY <1>4, <2>2
  <2>4. b - 1 \in start..(WordBase(start) + WordBits - 1)
    BY <1>1, <1>2, <2>2
  <2>5. QED
    BY <2>3, <2>4
<1>5. QED
  BY <1>1, <1>3, <1>4

\* Whatever the search answers, it is a member below which every word ends in a
\* member, or 0xFFFFFFFF.
LEMMA SearchAnswer ==
  ASSUME NEW members \in SUBSET SeqNum, NEW start \in Nat, start < MaxSeq,
         WordsClosed(members, start)
  PROVE  IsAnswer(SearchContiguesSet(members, start, MaxSeq), members)
<1> DEFINE aligned == start = WordBase(start)
           head    == start..(WordBase(start) + WordBits - 1)
           from    == IF aligned THEN start ELSE WordBase(start) + WordBits
           holes   == {base \in from..(WordBase(MaxSeq) - 1) :
                         base = WordBase(base) /\ ~(WordAt(base) \subseteq members)}
           tail    == WordBase(MaxSeq)..(MaxSeq - 1)
           answer  == SearchContiguesSet(members, start, MaxSeq)
<1>1. /\ WordBase(start) \in Nat /\ WordBase(start) <= start
      /\ start < WordBase(start) + WordBits
      /\ WordBase(WordBase(start)) = WordBase(start)
  BY WordBaseBounds
<1>2. /\ WordBase(MaxSeq) \in Nat /\ WordBase(MaxSeq) <= MaxSeq
      /\ MaxSeq < WordBase(MaxSeq) + WordBits
      /\ WordBase(WordBase(MaxSeq)) = WordBase(MaxSeq)
  BY WordBaseBounds
<1>3. from \in Nat /\ start <= from
  BY <1>1
<1>4. answer = IF ~aligned /\ ~(head \subseteq members)
               THEN HighestOf(members, head, WordBase(start))
               ELSE IF holes # {} THEN HighestOf(members, WordAt(Min(holes)), Min(holes))
               ELSE IF ~(tail \subseteq members) THEN HighestOf(members, tail, WordBase(MaxSeq))
               ELSE MaxSeq - 1
  BY DEF SearchContiguesSet
<1> HIDE DEF answer
<1>5. CASE ~aligned /\ ~(head \subseteq members)
  <2>1. head \in SUBSET (WordBase(start)..(WordBase(start) + WordBits - 1))
    BY <1>1
  <2>2. WordBase(start) \in 0..MaxSeq
    BY <1>1
  <2>3. WordsClosed(members, WordBase(start))
    BY <1>1 DEF WordsClosed
  <2>4. IsAnswer(HighestOf(members, head, WordBase(start)), members)
    BY <1>1, <2>1, <2>2, <2>3, HighestOfAnswer
  <2>5. QED
    BY <1>4, <1>5, <2>4 DEF answer
<1>6. ASSUME aligned \/ head \subseteq members, NEW upto \in Nat,
             \A base \in holes : upto <= base, upto <= WordBase(MaxSeq)
      PROVE  WordsClosed(members, upto)
  <2>1. ASSUME NEW b \in Nat, b = WordBase(b), b < upto,
               start <= b \/ WordBase(start) + WordBits <= b
        PROVE  WordAt(b) \subseteq members
    <3>1. from <= b
      <4>1. CASE aligned
        BY <1>1, <2>1, <4>1
      <4>2. CASE ~aligned
        <5>1. WordBase(start) < b
          BY <1>1, <2>1, <4>2
        <5>2. WordBase(start) + WordBits <= b
          BY <1>1, <2>1, <5>1, WordsApart
        <5>3. QED
          BY <4>2, <5>2
      <4>3. QED
        BY <4>1, <4>2
    <3>2. b \in from..(WordBase(MaxSeq) - 1)
      BY <1>2, <1>3, <1>6, <2>1, <3>1
    <3>3. b \notin holes
      BY <1>6, <2>1
    <3>4. QED
      BY <2>1, <3>2, <3>3
  <2>2. QED
    BY <1>6, <2>1, FullWordsClosed
<1>7. CASE (aligned \/ head \subseteq members) /\ holes # {}
  <2>1. holes \in SUBSET Nat
    BY <1>3
  <2>2. Min(holes) \in holes /\ \A base \in holes : Min(holes) <= base
    BY <1>7, <2>1, MinIsLeast
  <2>3. PICK h \in holes : h = Min(holes)
    BY <2>2
  <2>4. h \in Nat /\ h = WordBase(h) /\ h <= WordBase(MaxSeq) /\ h \in 0..MaxSeq
    BY <1>2, <1>3, <2>3
  <2>5. WordsClosed(members, h)
    BY <1>6, <1>7, <2>2, <2>3, <2>4
  <2>6. WordAt(h) \in SUBSET (h..(h + WordBits - 1))
    BY DEF WordAt
  <2>7. IsAnswer(HighestOf(members, WordAt(h), h), members)
    BY <2>4, <2>5, <2>6, HighestOfAnswer
  <2>8. answer = HighestOf(members, WordAt(h), h)
    BY <1>4, <1>7, <2>3
  <2>9. QED
    BY <2>7, <2>8 DEF answer
<1>8. CASE (aligned \/ head \subseteq members) /\ holes = {}
  <2>1. WordsClosed(members, WordBase(MaxSeq))
    BY <1>2, <1>6, <1>8
  <2>2. CASE ~(tail \subseteq members)
    <3>1. tail \in SUBSET (WordBase(MaxSeq)..(WordBase(MaxSeq) + WordBits - 1))
      BY <1>2
    <3>2. IsAnswer(HighestOf(members, tail, WordBase(MaxSeq)), members)
      BY <1>2, <2>1, <3>1, HighestOfAnswer
    <3>3. answer = HighestOf(members, tail, WordBase(MaxSeq))
      BY <1>4, <1>8, <2>2
    <3>4. QED
      BY <3>2, <3>3 DEF answer
  <2>3. CASE tail \subseteq members
    <3>1. MaxSeq - 1 \in members
      <4>1. CASE WordBase(MaxSeq) = MaxSeq
        BY <2>1, <4>1 DEF WordsClosed
      <4>2. CASE WordBase(MaxSeq) # MaxSeq
        BY <1>2, <2>3, <4>2
      <4>3. QED
        BY <4>1, <4>2
    <3>2. ASSUME NEW b \in 1..(MaxSeq - 1), b = WordBase(b)
          PROVE  b - 1 \in members
      <4>1. b <= WordBase(MaxSeq)
        <5> SUFFICES ASSUME WordBase(MaxSeq) < b PROVE FALSE
          BY <1>2
        <5>1. WordBase(MaxSeq) + WordBits <= b
          BY <1>2, <3>2, WordsApart
        <5>2. QED
          BY <1>2, <5>1
      <4>2. QED
        BY <2>1, <3>2, <4>1 DEF WordsClosed
    <3>3. answer = MaxSeq - 1
      BY <1>4, <1>8, <2>3
    <3>4. WordsClosed(members, MaxSeq - 1)
      BY <3>2 DEF WordsClosed
    <3>5. QED
      BY <3>1, <3>3, <3>4 DEF IsAnswer, answer
  <2>4. QED
    BY <2>2, <2>3
<1>9. QED
  BY <1>5, <1>7, <1>8
------------------------------------------------------------------------------
(* The pipes and the windows. *)

LEMMA SendEffect ==
  ASSUME NEW queue, NEW after, NEW packets, IsFiniteSet(packets),
         losses \in 0..MaxLoss, SendPackets(queue, after, packets)
  PROVE  /\ losses' \in 0..MaxLoss
         /\ \A q \in after :
              \/ q \in queue
              \/ \E p \in packets, d \in Latencies : q = [pkt |-> p, due |-> d]
<1>1. PICK dropped \in SUBSET packets :
        /\ losses + Cardinality(dropped) <= MaxLoss
        /\ losses' = losses + Cardinality(dropped)
        /\ after \in Enqueued(queue, packets \ dropped)
  BY DEF SendPackets
<1>2. Cardinality(dropped) \in Nat
  BY FS_Subset, FS_CardinalityType
<1>3. losses' \in 0..MaxLoss
  BY <1>1, <1>2
<1>4. PICK latency \in [packets \ dropped -> Latencies] :
        after = queue \cup {[pkt |-> p, due |-> latency[p]] : p \in packets \ dropped}
  BY <1>1 DEF Enqueued
<1>5. QED
  BY <1>3, <1>4

LEMMA RxOutputFinite == IsFiniteSet(RxOutput)
<1> DEFINE ack == [type |-> "ACK", seq |-> OnWire(rxHighestContig), sampled |-> rxSampled]
           nak == [type |-> "NAK", missing |-> rxMissing]
           acks == IF AckDue THEN {ack} ELSE {}
           naks == IF NakDue THEN {nak} ELSE {}
<1>1. IsFiniteSet({ack}) /\ IsFiniteSet({nak}) /\ IsFiniteSet({})
  BY FS_Singleton, FS_EmptySet
<1>2. IsFiniteSet(acks) /\ IsFiniteSet(naks)
  BY <1>1
<1>3. IsFiniteSet(acks \cup naks)
  <2> HIDE DEF acks, naks
  <2>1. QED
    BY <1>2, FS_Union
<1>4. QED
  BY <1>3 DEF RxOutput

LEMMA TickPassesType ==
  ASSUME NEW packets, NEW queue \in SUBSET InTransit(packets), DuePackets(queue) = {}
  PROVE  TickPasses(queue) \subseteq InTransit(packets)
BY DEF InTransit, DuePackets, TickPasses, Latencies

LEMMA ClampInBounds ==
  ASSUME NEW v \in Int, NEW lo \in Int, NEW hi \in Int, lo <= hi
  PROVE  Clamp(v, lo, hi) \in lo..hi
BY DEF Clamp

LEMMA WindowsInBounds ==
  ASSUME NEW cwnd \in CWndMin..CWndMax
  PROVE  /\ CwndOnAck(cwnd) \in CWndMin..CWndMax
         /\ CwndOnNak(cwnd) \in CWndMin..CWndMax
         /\ FlowWindow(cwnd) \in FWndMin..FWndMax
<1>1. cwnd + 1 \in Int /\ cwnd - (cwnd \div 8) \in Int /\ cwnd \in Int
  OBVIOUS
<1>2. CWndMin \in Int /\ CWndMax \in Int /\ CWndMin <= CWndMax
  OBVIOUS
<1>3. FWndMin \in Int /\ FWndMax \in Int /\ FWndMin <= FWndMax
  OBVIOUS
<1>4. QED
  BY <1>1, <1>2, <1>3, ClampInBounds DEF CwndOnAck, CwndOnNak, FlowWindow

LEMMA CallInBounds ==
  ASSUME TxTypeOK
  PROVE  /\ CwndInCall \in CWndMin..CWndMax
         /\ PacingInCall \in PacingMin..PacingMax
         /\ PacingInCall * CwndInCall \in Nat
<1>1. CwndInCall \in CWndMin..CWndMax
  BY WindowsInBounds DEF TxTypeOK, CwndInCall
<1>2. PacingInCall \in PacingMin..PacingMax
  BY DEF TxTypeOK, PacingInCall
<1>3. CwndInCall \in Nat /\ PacingInCall \in Nat
  BY <1>1, <1>2
<1>4. QED
  BY <1>1, <1>2, <1>3

LEMMA TimeoutType ==
  ASSUME TxTypeOK, ProcessTimeout
  PROVE  txCwnd' \in CWndMin..CWndMax /\ txPacing' \in PacingMin..PacingMax /\ txTimeOut' \in Nat
<1>1. txTimeOut' = IF TimedOut THEN PacingInCall * CwndInCall ELSE txTimeOut
  BY DEF ProcessTimeout
<1>2. txTimeOut' \in Nat
  BY <1>1, CallInBounds DEF TxTypeOK
<1>3. QED
  BY <1>2, CallInBounds DEF ProcessTimeout

LEMMA NextSetIsMember ==
  ASSUME NEW members, NEW cursor, NEW seq, IsNextSetFrom(members, cursor, seq)
  PROVE  seq \in members
BY DEF IsNextSetFrom, IsLowest
------------------------------------------------------------------------------
(* The two ends. *)

\* What one call of the sender's Process does to what it holds.
LEMMA ProcessEffect ==
  ASSUME TxTypeOK, NEW seq,
         TxQuiet \/ (seq \in QueuedMissing /\ TxSendMissing(seq)) \/ TxSendNew(seq)
  PROVE  /\ TxTypeOK'
         /\ txMissing' \subseteq txInFlight \cup txMissing
         /\ \/ /\ TxQuiet
               /\ txInFlight' = txInFlight
               /\ txCurrentSeq' = txCurrentSeq
            \/ /\ TxMaySend
               /\ seq \in SeqNum
               /\ txInFlight' = txInFlight \cup {seq}
               /\ \/ seq \in txInFlight \cup txMissing /\ txCurrentSeq' = txCurrentSeq
                  \/ seq = txCurrentSeq /\ txCurrentSeq' = txCurrentSeq + 1
<1>1. QueuedMissing \in SUBSET SeqNum /\ QueuedMissing \subseteq txInFlight \cup txMissing
  BY DEF TxTypeOK, QueuedMissing
<1>2. ProcessTimeout
  BY DEF TxQuiet, TxSendMissing, TxSendNew
<1>3. txCwnd' \in CWndMin..CWndMax /\ txPacing' \in PacingMin..PacingMax /\ txTimeOut' \in Nat
  BY <1>2, TimeoutType
<1>4. PacingInCall \in 0..PacingMax
  BY CallInBounds
<1>5. CASE TxQuiet
  BY <1>1, <1>3, <1>5 DEF TxQuiet, TxTypeOK
<1>6. CASE seq \in QueuedMissing /\ TxSendMissing(seq)
  <2>1. seq \in SeqNum /\ seq \in txInFlight \cup txMissing
    BY <1>1, <1>6
  <2>2. (seq + 1) % MaxSeq \in SeqNum
    BY <2>1 DEF SeqNum
  <2>3. /\ txMissing' = QueuedMissing \ {seq}
        /\ txMissingCursor' = (seq + 1) % MaxSeq
        /\ txInFlight' = txInFlight \cup {seq}
        /\ txSendTimer' = PacingInCall
        /\ txCurrentSeq' = txCurrentSeq
        /\ TxMaySend
    BY <1>6 DEF TxSendMissing
  <2>4. TxTypeOK'
    BY <1>1, <1>3, <1>4, <2>1, <2>2, <2>3 DEF TxTypeOK
  <2>5. QED
    BY <1>1, <2>1, <2>3, <2>4
<1>7. CASE TxSendNew(seq)
  <2>1. /\ txMissing' = {}
        /\ txMissingCursor' = txMissingCursor
        /\ txInFlight' = txInFlight \cup {seq}
        /\ txSendTimer' = PacingInCall
        /\ txCurrentSeq' = txCurrentSeq + 1
        /\ seq = txCurrentSeq
        /\ txCurrentSeq < MaxSeq
        /\ TxMaySend
    BY <1>7 DEF TxSendNew
  <2>2. seq \in SeqNum /\ txCurrentSeq + 1 \in 0..MaxSeq
    BY <2>1 DEF TxTypeOK, SeqNum
  <2>3. TxTypeOK'
    BY <1>3, <1>4, <2>1, <2>2 DEF TxTypeOK
  <2>4. QED
    BY <2>1, <2>2, <2>3
<1>8. QED
  BY <1>5, <1>6, <1>7

\* Feedback only takes numbers out of what is in flight.
LEMMA FeedbackEffect ==
  ASSUME TxTypeOK, NEW pkt \in FeedbackPackets,
         \/ pkt.type = "ACK" /\ OnAckReceived(pkt.seq, pkt.sampled)
         \/ pkt.type = "NAK" /\ OnNakReceived(pkt.missing)
  PROVE  /\ TxTypeOK'
         /\ txInFlight' \subseteq txInFlight
         /\ txCurrentSeq' = txCurrentSeq
         /\ \/ txMissing' \subseteq txMissing
            \/ pkt.type = "NAK" /\ txMissing' = txMissing \cup pkt.missing
<1>1. /\ CwndOnAck(txCwnd) \in CWndMin..CWndMax
      /\ CwndOnNak(txCwnd) \in CWndMin..CWndMax
  BY WindowsInBounds DEF TxTypeOK
<1>2. CASE pkt.type = "ACK" /\ OnAckReceived(pkt.seq, pkt.sampled)
  <2>1. txPacing' \in PacingMin..PacingMax
    BY <1>2 DEF OnAckReceived, TxTypeOK
  <2>2. TxTypeOK'
    BY <1>1, <1>2, <2>1 DEF OnAckReceived, UnackedMissing, TxTypeOK
  <2>3. QED
    BY <1>2, <2>2 DEF OnAckReceived, UnackedMissing
<1>3. CASE pkt.type = "NAK" /\ OnNakReceived(pkt.missing)
  <2>1. pkt.missing \in SUBSET SeqNum
    BY <1>3 DEF FeedbackPackets
  <2>2. txTimeOut' \in Nat
    <3>1. txPacing \in Nat /\ CwndOnNak(txCwnd) \in Nat
      BY <1>1 DEF TxTypeOK
    <3>2. txPacing * CwndOnNak(txCwnd) \in Nat
      BY <3>1
    <3>3. QED
      BY <1>3, <3>2 DEF OnNakReceived
  <2>3. TxTypeOK'
    BY <1>1, <1>3, <2>1, <2>2 DEF OnNakReceived, MergedMissing, TxTypeOK
  <2>4. QED
    BY <1>3, <2>3 DEF OnNakReceived, MergedMissing
<1>4. QED
  BY <1>2, <1>3

\* The end of the prefix is an answer of the search about what was received.
PrefixInv == IsAnswer(rxHighestContig, rxReceived)

ReceiverInv == RxTypeOK /\ PrefixInv /\ MissingAreGaps

LEMMA NextContigClosed ==
  ASSUME ReceiverInv
  PROVE  /\ NextContig \in 0..MaxSeq
         /\ WordsClosed(rxReceived, NextContig)
         /\ \A s \in SeqNum \ rxReceived :
              s < NextContig => \E r \in rxReceived : s < r
<1> USE DEF ReceiverInv, RxTypeOK, PrefixInv, IsAnswer
<1>1. CASE rxHighestContig = NoContig
  <2>1. NextContig = 0
    <3>1. CountSpan % CountSpan = 0
      OBVIOUS
    <3>2. rxHighestContig + 1 = CountSpan
      BY <1>1 DEF NoContig
    <3>3. QED
      BY <3>1, <3>2 DEF NextContig
  <2>2. QED
    BY <2>1 DEF WordsClosed, SeqNum
<1>2. CASE rxHighestContig \in rxReceived /\ WordsClosed(rxReceived, rxHighestContig)
  <2>1. rxHighestContig \in Nat /\ rxHighestContig < MaxSeq
    BY <1>2 DEF SeqNum
  <2>2. NextContig = rxHighestContig + 1
    <3>1. rxHighestContig + 1 \in 0..(CountSpan - 1)
      BY <2>1
    <3>2. QED
      BY <3>1 DEF NextContig
  <2>3. WordsClosed(rxReceived, NextContig)
    <3>1. ASSUME NEW b \in 1..(rxHighestContig + 1), b = WordBase(b)
          PROVE  b - 1 \in rxReceived
      <4>1. CASE b = rxHighestContig + 1
        BY <1>2, <2>1, <4>1
      <4>2. CASE b # rxHighestContig + 1
        BY <1>2, <2>1, <3>1, <4>2 DEF WordsClosed
      <4>3. QED
        BY <4>1, <4>2
    <3>2. QED
      BY <2>2, <3>1 DEF WordsClosed
  <2>4. ASSUME NEW s \in SeqNum \ rxReceived, s < NextContig
        PROVE  s < rxHighestContig
    BY <1>2, <2>1, <2>2, <2>4 DEF SeqNum
  <2>5. QED
    BY <1>2, <2>1, <2>2, <2>3, <2>4
<1>3. QED
  BY <1>1, <1>2

\* Data keeps the receiver's invariant.
LEMMA DataKeepsInv ==
  ASSUME ReceiverInv, NEW seq \in SeqNum, OnDataPacketReceived(seq)
  PROVE  ReceiverInv' /\ rxReceived' = rxReceived \cup {seq}
<1>1. CASE OnDuplicateData(seq)
  BY <1>1 DEF OnDuplicateData, ReceiverInv, RxTypeOK, PrefixInv, IsAnswer, MissingAreGaps
<1>2. CASE OnNewData(seq)
  <2> DEFINE received == rxReceived \cup {seq}
  <2>1. /\ rxReceived' = received
        /\ rxHighestContig' = ContigAfter(received)
        /\ rxMissing' = MissingAfter(seq)
        /\ rxSampled' = TRUE
        /\ rxAckTimer' = rxAckTimer /\ rxNakTimer' = rxNakTimer
    BY <1>2 DEF OnNewData
  <2>2. received \in SUBSET SeqNum /\ rxReceived \subseteq received
    BY DEF ReceiverInv, RxTypeOK
  <2>3. /\ NextContig \in 0..MaxSeq
        /\ WordsClosed(received, NextContig)
    BY <2>2, NextContigClosed DEF WordsClosed
  <2>4. IsAnswer(ContigAfter(received), received)
    <3>1. CASE NextContig < MaxSeq
      <4>1. NextContig \in Nat
        BY <2>3
      <4>2. IsAnswer(SearchContiguesSet(received, NextContig, MaxSeq), received)
        <5> HIDE DEF received
        <5>1. QED
          BY <2>2, <2>3, <3>1, <4>1, SearchAnswer
      <4>3. QED
        BY <3>1, <4>2 DEF ContigAfter
    <3>2. CASE ~(NextContig < MaxSeq)
      BY <2>2, <3>2 DEF ContigAfter, ReceiverInv, PrefixInv, IsAnswer, WordsClosed
    <3>3. QED
      BY <3>1, <3>2
  <2>5. PrefixInv'
    BY <2>1, <2>4 DEF PrefixInv, IsAnswer, WordsClosed
  <2>6. ContigAfter(received) \in 0..(CountSpan - 1)
    BY <2>2, <2>4 DEF IsAnswer, NoContig, SeqNum
  <2>7. MissingAreGaps'
    <3>1. rxMissing = {s \in SeqNum : s \notin rxReceived /\ \E r \in rxReceived : s < r}
      BY DEF ReceiverInv, MissingAreGaps
    <3>2. ASSUME NEW s \in SeqNum
          PROVE  s \in rxMissing' <=> s \notin received /\ \E r \in received : s < r
      <4>1. s \in rxMissing' <=>
              /\ s # seq
              /\ s \notin rxReceived
              /\ (\E r \in rxReceived : s < r) \/ (NextContig <= s /\ s < seq)
        BY <2>1, <2>3, <3>1 DEF MissingAfter, Gap, SeqNum
      <4>2. s \notin rxReceived /\ s < NextContig => \E r \in rxReceived : s < r
        BY NextContigClosed
      <4>3. s < NextContig \/ NextContig <= s
        BY <2>3 DEF SeqNum
      <4>4. QED
        BY <4>1, <4>2, <4>3
    <3>3. rxMissing' \subseteq SeqNum
      <4>1. Gap(seq) \subseteq SeqNum
        BY <2>3 DEF Gap, SeqNum
      <4>2. QED
        BY <2>1, <3>1, <4>1 DEF MissingAfter
    <3>4. QED
      BY <2>1, <3>2, <3>3 DEF MissingAreGaps
  <2>8. RxTypeOK'
    BY <2>1, <2>2, <2>6, <2>7 DEF RxTypeOK, MissingAreGaps, ReceiverInv
  <2>9. QED
    BY <2>1, <2>5, <2>7, <2>8 DEF ReceiverInv
<1>3. QED
  BY <1>1, <1>2 DEF OnDataPacketReceived

------------------------------------------------------------------------------
(* The inductive invariant.  Data and feedback are delivered until none is   *)
(* due, so that no packet is under way when the time passes that is due.     *)

NothingDue == phase = "Feedback" => DuePackets(fwd) = {}

IndInv == TypeOK /\ ReceiverInv /\ OnlySentIsNamed /\ NothingDue

LEMMA IndInvInit == Init => IndInv
<1> SUFFICES ASSUME Init PROVE IndInv
  OBVIOUS
<1>1. CWndInitial \in CWndMin..CWndMax /\ PacingMin \in PacingMin..PacingMax
  OBVIOUS
<1>2. TxTypeOK
  BY <1>1 DEF Init, TxInit, TxTypeOK, SeqNum
<1>3. NoContig \in 0..(CountSpan - 1)
  BY DEF NoContig
<1>4. RxTypeOK
  <2>1. /\ rxReceived = {} /\ rxMissing = {} /\ rxSampled = FALSE
        /\ rxHighestContig = NoContig
        /\ rxAckTimer = AckInterval /\ rxNakTimer = NakInterval
    BY DEF Init, RxInit
  <2>2. rxAckTimer \in 0..AckInterval /\ rxNakTimer \in 0..NakInterval
    BY <2>1
  <2>3. QED
    BY <1>3, <2>1, <2>2 DEF RxTypeOK
<1>5. TypeOK
  BY <1>2, <1>4 DEF Init, TypeOK
<1>6. ReceiverInv
  BY <1>4 DEF Init, RxInit, ReceiverInv, PrefixInv, IsAnswer, MissingAreGaps
<1>7. OnlySentIsNamed /\ NothingDue
  BY DEF Init, TxInit, RxInit, OnlySentIsNamed, NothingDue
<1>8. QED
  BY <1>5, <1>6, <1>7 DEF IndInv

\* What the receiver sends names numbers it holds, holes below them, or nothing.
LEMMA OutputIsNamed ==
  ASSUME ReceiverInv, TxTypeOK, rxReceived \subseteq 0..(txCurrentSeq - 1), NEW p \in RxOutput
  PROVE  /\ p \in FeedbackPackets
         /\ p.type = "ACK" => p.seq < txCurrentSeq \/ p.seq = OnWire(NoContig)
         /\ p.type = "NAK" => p.missing \subseteq 0..(txCurrentSeq - 1)
<1>1. /\ rxReceived \in SUBSET SeqNum
      /\ rxHighestContig \in 0..(CountSpan - 1)
      /\ rxSampled \in BOOLEAN
  BY DEF ReceiverInv, RxTypeOK
<1>2. txCurrentSeq \in Nat
  BY DEF TxTypeOK
<1>3. CASE p = [type |-> "ACK", seq |-> OnWire(rxHighestContig), sampled |-> rxSampled]
  <2>1. SeqSpan \in Nat \ {0}
    OBVIOUS
  <2>2. OnWire(rxHighestContig) \in 0..(SeqSpan - 1)
    BY <1>1, <2>1 DEF OnWire
  <2>3. rxHighestContig = NoContig \/ rxHighestContig \in rxReceived
    BY DEF ReceiverInv, PrefixInv, IsAnswer
  <2>4. ASSUME rxHighestContig \in rxReceived
        PROVE  OnWire(rxHighestContig) < txCurrentSeq
    <3>1. rxHighestContig \in 0..(SeqSpan - 1)
      BY <1>1, <2>4 DEF SeqNum
    <3>2. OnWire(rxHighestContig) = rxHighestContig
      BY <3>1 DEF OnWire
    <3>3. QED
      BY <1>2, <2>4, <3>2
  <2>5. QED
    BY <1>1, <1>3, <2>2, <2>3, <2>4 DEF FeedbackPackets
<1>4. CASE p = [type |-> "NAK", missing |-> rxMissing]
  <2>1. rxMissing \in SUBSET SeqNum
    BY DEF ReceiverInv, RxTypeOK
  <2>2. ASSUME NEW s \in rxMissing
        PROVE  s \in 0..(txCurrentSeq - 1)
    <3>1. PICK r \in rxReceived : s < r
      BY <2>2 DEF ReceiverInv, MissingAreGaps
    <3>2. s \in Nat /\ r \in 0..(txCurrentSeq - 1)
      BY <2>1, <2>2 DEF SeqNum
    <3>3. QED
      BY <1>2, <3>1, <3>2
  <2>3. rxMissing \subseteq 0..(txCurrentSeq - 1)
    BY <2>2
  <2>4. p.type = "NAK" /\ p.missing = rxMissing /\ p \in FeedbackPackets
    BY <1>4, <2>1 DEF FeedbackPackets
  <2>5. QED
    BY <2>3, <2>4
<1>5. QED
  BY <1>3, <1>4 DEF RxOutput

LEMMA SenderProcessKeeps == ASSUME IndInv, SenderProcess PROVE IndInv'
<1>1. TypeOK /\ TxTypeOK /\ RxTypeOK /\ losses \in 0..MaxLoss
  BY DEF IndInv, TypeOK
<1>2. /\ phase = "Sender" /\ phase' = "Receiver"
      /\ rev' = rev
      /\ rxReceived' = rxReceived /\ rxMissing' = rxMissing
      /\ rxHighestContig' = rxHighestContig
  BY DEF SenderProcess, rxVars
<1>3. RxTypeOK' /\ ReceiverInv'
  BY <1>1, <1>2 DEF SenderProcess, rxVars, RxTypeOK, IndInv, ReceiverInv, PrefixInv, IsAnswer,
                    MissingAreGaps
<1>4. PICK seq : /\ TxQuiet \/ (seq \in QueuedMissing /\ TxSendMissing(seq)) \/ TxSendNew(seq)
                 /\ \/ TxQuiet /\ UNCHANGED <<fwd, losses>>
                    \/ ~TxQuiet /\ SendData(seq)
  <2>1. CASE TxQuiet /\ UNCHANGED <<fwd, losses>>
    BY <2>1
  <2>2. ASSUME NEW seq \in QueuedMissing, TxSendMissing(seq), SendData(seq)
        PROVE  seq \in QueuedMissing /\ TxSendMissing(seq) /\ ~TxQuiet /\ SendData(seq)
    BY <2>2 DEF TxSendMissing, TxQuiet
  <2>3. ASSUME TxSendNew(txCurrentSeq), SendData(txCurrentSeq)
        PROVE  ~TxQuiet
    <3>1. txCurrentSeq < MaxSeq /\ txCurrentSeq # MaxSeq
      BY <1>1, <2>3 DEF TxSendNew, TxTypeOK
    <3>2. QED
      BY <2>3, <3>1 DEF TxSendNew, TxQuiet
  <2>4. QED
    BY <2>1, <2>2, <2>3 DEF SenderProcess
<1>5. /\ TxTypeOK'
      /\ txMissing' \subseteq txInFlight \cup txMissing
      /\ \/ /\ TxQuiet
            /\ txInFlight' = txInFlight
            /\ txCurrentSeq' = txCurrentSeq
         \/ /\ TxMaySend
            /\ seq \in SeqNum
            /\ txInFlight' = txInFlight \cup {seq}
            /\ \/ seq \in txInFlight \cup txMissing /\ txCurrentSeq' = txCurrentSeq
               \/ seq = txCurrentSeq /\ txCurrentSeq' = txCurrentSeq + 1
  BY <1>1, <1>4, ProcessEffect
<1>6. PICK n \in Nat : n = txCurrentSeq
  BY <1>1 DEF TxTypeOK
<1>7. PICK m \in Nat : m = txCurrentSeq' /\ n <= m
  BY <1>5, <1>6
<1>8. OnlySentIsNamed
  BY DEF IndInv
<1>9. txInFlight' \cup txMissing' \cup rxReceived' \subseteq 0..(m - 1)
  <2>1. txInFlight \cup txMissing \cup rxReceived \subseteq 0..(n - 1)
    BY <1>6, <1>8 DEF OnlySentIsNamed
  <2>2. txInFlight' \subseteq 0..(m - 1)
    BY <1>5, <1>6, <1>7, <2>1
  <2>3. 0..(n - 1) \subseteq 0..(m - 1)
    <3>1. n <= m
      BY <1>7
    <3>2. ASSUME NEW i \in 0..(n - 1)
          PROVE  i \in 0..(m - 1)
      BY <3>1
    <3>3. QED
      BY <3>2
  <2>4. txMissing' \subseteq 0..(n - 1) /\ rxReceived' \subseteq 0..(n - 1)
    BY <1>2, <1>5, <2>1
  <2>5. txMissing' \subseteq 0..(m - 1) /\ rxReceived' \subseteq 0..(m - 1)
    BY <2>3, <2>4, Zenon
  <2>6. QED
    BY <2>2, <2>5, Zenon
<1>10. /\ losses' \in 0..MaxLoss
       /\ \A q \in fwd' : q \in InTransit(DataPackets) /\ q.pkt.seq < m
  <2>1. ASSUME NEW q \in fwd
        PROVE  q \in InTransit(DataPackets) /\ q.pkt.seq < m
    <3>1. q \in InTransit(DataPackets)
      BY <1>1 DEF TypeOK
    <3>2. q.pkt.seq \in Nat
      BY <3>1 DEF InTransit, DataPackets, SeqNum
    <3>3. q.pkt.seq < n
      BY <1>6, <1>8 DEF OnlySentIsNamed
    <3>4. QED
      BY <1>7, <3>1, <3>2, <3>3
  <2>2. CASE TxQuiet /\ UNCHANGED <<fwd, losses>>
    BY <1>1, <2>1, <2>2
  <2>3. CASE ~TxQuiet /\ SendData(seq)
    <3>1. IsFiniteSet({[type |-> "DATA", seq |-> seq]})
      BY FS_Singleton
    <3>2. SendPackets(fwd, fwd', {[type |-> "DATA", seq |-> seq]})
      BY <2>3 DEF SendData
    <3>3. /\ losses' \in 0..MaxLoss
          /\ \A q \in fwd' :
               \/ q \in fwd
               \/ \E d \in Latencies : q = [pkt |-> [type |-> "DATA", seq |-> seq], due |-> d]
      BY <1>1, <3>1, <3>2, SendEffect
    <3>4. seq \in SeqNum /\ seq < m
      BY <1>5, <1>6, <1>7, <1>8, <2>3 DEF OnlySentIsNamed
    <3>5. [type |-> "DATA", seq |-> seq] \in DataPackets
      BY <3>4 DEF DataPackets
    <3>6. ASSUME NEW d \in Latencies
          PROVE  [pkt |-> [type |-> "DATA", seq |-> seq], due |-> d] \in InTransit(DataPackets)
      BY <3>5 DEF InTransit
    <3>7. QED
      BY <2>1, <3>3, <3>4, <3>6
  <2>4. QED
    BY <1>4, <2>2, <2>3
<1>11. ASSUME NEW q \in rev'
       PROVE  /\ q.pkt.type = "ACK" => q.pkt.seq < m \/ q.pkt.seq = OnWire(NoContig)
              /\ q.pkt.type = "NAK" => q.pkt.missing \subseteq 0..(m - 1)
  <2>1. q \in rev /\ q.pkt \in FeedbackPackets
    BY <1>1, <1>2 DEF TypeOK, InTransit
  <2>2. q.pkt.type = "ACK" => q.pkt.seq \in Nat
    BY <2>1 DEF FeedbackPackets
  <2>3. /\ q.pkt.type = "ACK" => q.pkt.seq < n \/ q.pkt.seq = OnWire(NoContig)
        /\ q.pkt.type = "NAK" => q.pkt.missing \subseteq 0..(n - 1)
    BY <1>6, <1>8, <2>1 DEF OnlySentIsNamed
  <2>4. QED
    BY <1>7, <2>2, <2>3
<1>12. OnlySentIsNamed'
  BY <1>7, <1>9, <1>10, <1>11 DEF OnlySentIsNamed
<1>13. TypeOK'
  BY <1>1, <1>2, <1>3, <1>5, <1>10 DEF TypeOK
<1>14. QED
  BY <1>2, <1>3, <1>12, <1>13 DEF IndInv, NothingDue

LEMMA DeliverDataKeeps == ASSUME IndInv, NEW q \in fwd, DeliverData(q) PROVE IndInv'
<1>1. /\ q.pkt.seq \in SeqNum /\ q.pkt.seq \in 0..(txCurrentSeq - 1)
      /\ txCurrentSeq \in Nat
  <2>1. q.pkt.seq \in SeqNum /\ txCurrentSeq \in Nat
    BY DEF IndInv, TypeOK, TxTypeOK, InTransit, DataPackets
  <2>2. q.pkt.seq < txCurrentSeq
    BY DEF IndInv, OnlySentIsNamed
  <2>3. QED
    BY <2>1, <2>2 DEF SeqNum
<1>2. ReceiverInv' /\ rxReceived' = rxReceived \cup {q.pkt.seq}
  BY <1>1, DataKeepsInv DEF IndInv, DeliverData
<1>3. UNCHANGED <<txVars, phase, rev, losses>> /\ fwd' \subseteq fwd /\ phase = "Receiver"
  BY DEF DeliverData
<1>4. TxTypeOK'
  BY <1>3 DEF IndInv, TypeOK, TxTypeOK, txVars
<1>5. TypeOK'
  BY <1>2, <1>3, <1>4 DEF IndInv, TypeOK, ReceiverInv
<1>6. OnlySentIsNamed'
  BY <1>1, <1>2, <1>3 DEF IndInv, OnlySentIsNamed, txVars
<1>7. QED
  BY <1>2, <1>3, <1>5, <1>6 DEF IndInv, NothingDue

LEMMA ReceiverProcessKeeps == ASSUME IndInv, ReceiverProcess PROVE IndInv'
<1>1. /\ UNCHANGED <<txVars, fwd, rxReceived, rxMissing, rxHighestContig>>
      /\ DuePackets(fwd) = {}
      /\ phase' = "Feedback"
  BY DEF ReceiverProcess, RxProcess
<1>2. TxTypeOK /\ TxTypeOK'
  BY <1>1 DEF IndInv, TypeOK, TxTypeOK, txVars
<1>3. RxTypeOK'
  BY DEF IndInv, TypeOK, RxTypeOK, ReceiverProcess, RxProcess
<1>4. ReceiverInv'
  BY <1>1, <1>3 DEF IndInv, ReceiverInv, PrefixInv, IsAnswer, MissingAreGaps
<1>5. /\ losses' \in 0..MaxLoss
      /\ \A q \in rev' :
           \/ q \in rev
           \/ \E p \in RxOutput, d \in Latencies : q = [pkt |-> p, due |-> d]
  BY RxOutputFinite, SendEffect DEF IndInv, TypeOK, ReceiverProcess
<1>6. ASSUME NEW p \in RxOutput
      PROVE  /\ p \in FeedbackPackets
             /\ p.type = "ACK" => p.seq < txCurrentSeq \/ p.seq = OnWire(NoContig)
             /\ p.type = "NAK" => p.missing \subseteq 0..(txCurrentSeq - 1)
  BY <1>2, OutputIsNamed DEF IndInv, OnlySentIsNamed
<1>7. ASSUME NEW q \in rev'
      PROVE  /\ q \in InTransit(FeedbackPackets)
             /\ q.pkt.type = "ACK" => q.pkt.seq < txCurrentSeq \/ q.pkt.seq = OnWire(NoContig)
             /\ q.pkt.type = "NAK" => q.pkt.missing \subseteq 0..(txCurrentSeq - 1)
  <2>1. CASE q \in rev
    BY <2>1 DEF IndInv, TypeOK, OnlySentIsNamed
  <2>2. ASSUME NEW p \in RxOutput, NEW d \in Latencies, q = [pkt |-> p, due |-> d]
        PROVE  q \in InTransit(FeedbackPackets) /\ q.pkt = p
    BY <1>6, <2>2 DEF InTransit
  <2>3. QED
    BY <1>5, <1>6, <2>1, <2>2
<1>8. TypeOK'
  BY <1>1, <1>2, <1>3, <1>5, <1>7 DEF IndInv, TypeOK
<1>9. OnlySentIsNamed'
  BY <1>1, <1>7 DEF IndInv, OnlySentIsNamed, txVars
<1>10. QED
  BY <1>1, <1>4, <1>8, <1>9 DEF IndInv, NothingDue

LEMMA DeliverFeedbackKeeps == ASSUME IndInv, NEW q \in rev, DeliverFeedback(q) PROVE IndInv'
<1>1. q.pkt \in FeedbackPackets /\ TxTypeOK
  BY DEF IndInv, TypeOK, InTransit
<1>2. /\ TxTypeOK'
      /\ txInFlight' \subseteq txInFlight
      /\ txCurrentSeq' = txCurrentSeq
      /\ \/ txMissing' \subseteq txMissing
         \/ q.pkt.type = "NAK" /\ txMissing' = txMissing \cup q.pkt.missing
  BY <1>1, FeedbackEffect DEF DeliverFeedback
<1>3. UNCHANGED <<rxVars, phase, fwd, losses>> /\ rev' \subseteq rev
  BY DEF DeliverFeedback
<1>4. RxTypeOK' /\ ReceiverInv'
  BY <1>3 DEF IndInv, ReceiverInv, RxTypeOK, PrefixInv, IsAnswer, MissingAreGaps, rxVars
<1>5. TypeOK'
  BY <1>2, <1>3, <1>4 DEF IndInv, TypeOK
<1>6. OnlySentIsNamed'
  BY <1>2, <1>3 DEF IndInv, OnlySentIsNamed, rxVars
<1>7. NothingDue'
  BY <1>3 DEF IndInv, NothingDue, DuePackets
<1>8. QED
  BY <1>4, <1>5, <1>6, <1>7 DEF IndInv

\* Time changes when a packet is due, and not what it carries.
LEMMA TickKeepsPackets ==
  ASSUME NEW packets, NEW queue \in SUBSET InTransit(packets), NEW r \in TickPasses(queue)
  PROVE  \E q \in queue : r.pkt = q.pkt
<1>1. PICK q \in queue : r = [q EXCEPT !.due = @ - 1]
  BY DEF TickPasses
<1>2. q \in InTransit(packets)
  OBVIOUS
<1>3. r.pkt = q.pkt
  BY <1>1, <1>2 DEF InTransit
<1>4. QED
  BY <1>3

LEMMA AdvanceKeeps == ASSUME IndInv, Advance PROVE IndInv'
<1>1. /\ UNCHANGED <<txInFlight, txMissing, txCurrentSeq, rxReceived, rxMissing, rxHighestContig>>
      /\ losses' = losses /\ phase' = "Sender" /\ phase = "Feedback"
      /\ fwd' = TickPasses(fwd) /\ rev' = TickPasses(rev)
      /\ DuePackets(rev) = {}
  BY DEF Advance, TxTimePasses, RxTimePasses
<1>2. TxTypeOK'
  <2>1. txSendTimer' \in 0..PacingMax
    <3>1. txSendTimer' = Clamp(txSendTimer - 1, 0, PacingMax)
      BY DEF Advance, TxTimePasses
    <3>2. txSendTimer - 1 \in Int /\ 0 <= PacingMax /\ PacingMax \in Int
      BY DEF IndInv, TypeOK, TxTypeOK
    <3>3. QED
      BY <3>1, <3>2, ClampInBounds
  <2>2. txTimeOut' \in Nat
    BY DEF Advance, TxTimePasses, IndInv, TypeOK, TxTypeOK
  <2>3. QED
    BY <2>1, <2>2 DEF Advance, TxTimePasses, IndInv, TypeOK, TxTypeOK
<1>3. RxTypeOK'
  BY DEF Advance, RxTimePasses, IndInv, TypeOK, RxTypeOK
<1>4. ReceiverInv'
  BY <1>1, <1>3 DEF IndInv, ReceiverInv, PrefixInv, IsAnswer, MissingAreGaps
<1>5. fwd' \subseteq InTransit(DataPackets) /\ rev' \subseteq InTransit(FeedbackPackets)
  BY <1>1, TickPassesType DEF IndInv, TypeOK, NothingDue
<1>6. TypeOK'
  BY <1>1, <1>2, <1>3, <1>5 DEF IndInv, TypeOK
<1>7. /\ \A r \in fwd' : \E q \in fwd : r.pkt = q.pkt
      /\ \A r \in rev' : \E q \in rev : r.pkt = q.pkt
  BY <1>1, TickKeepsPackets DEF IndInv, TypeOK
<1>8. OnlySentIsNamed'
  BY <1>1, <1>7 DEF IndInv, OnlySentIsNamed
<1>9. QED
  BY <1>1, <1>4, <1>6, <1>8 DEF IndInv, NothingDue

LEMMA IndInvStep == IndInv /\ [Next]_vars => IndInv'
<1> SUFFICES ASSUME IndInv, [Next]_vars PROVE IndInv'
  OBVIOUS
<1>1. CASE UNCHANGED vars
  <2>1. /\ UNCHANGED <<txInFlight, txMissing, txMissingCursor, txCwnd, txPacing, txSendTimer,
                       txCurrentSeq, txTimeOut>>
        /\ UNCHANGED <<rxReceived, rxMissing, rxHighestContig, rxAckTimer, rxNakTimer, rxSampled>>
        /\ UNCHANGED <<phase, fwd, rev, losses>>
    BY <1>1 DEF vars, txVars, rxVars
  <2>2. TypeOK'
    BY <2>1 DEF IndInv, TypeOK, TxTypeOK, RxTypeOK
  <2>3. ReceiverInv'
    BY <2>1 DEF IndInv, ReceiverInv, RxTypeOK, PrefixInv, IsAnswer, MissingAreGaps
  <2>4. OnlySentIsNamed' /\ NothingDue'
    BY <2>1 DEF IndInv, OnlySentIsNamed, NothingDue
  <2>5. QED
    BY <2>2, <2>3, <2>4 DEF IndInv
<1>2. QED
  BY <1>1, SenderProcessKeeps, DeliverDataKeeps, ReceiverProcessKeeps, DeliverFeedbackKeeps,
     AdvanceKeeps DEF Next

LEMMA IndInvAlways == Spec => []IndInv
BY IndInvInit, IndInvStep, PTL DEF Spec
------------------------------------------------------------------------------
\* Every variable of the two ends and the pipes keeps its type: the windows and
\* the pacing stay within their bounds, and no sequence number leaves the range.
THEOREM UDXTypeCorrect == Spec => []TypeOK
<1>1. IndInv => TypeOK
  BY DEF IndInv
<1>2. QED
  BY <1>1, IndInvAlways, PTL

\* Whatever the contiguous search answers, no hole below the highest number
\* received is left out of the loss reports, and nothing else is in them.
THEOREM UDXGapsAreExact == Spec => []MissingAreGaps
<1>1. IndInv => MissingAreGaps
  BY DEF IndInv, ReceiverInv
<1>2. QED
  BY <1>1, IndInvAlways, PTL

\* Whatever the contiguous search answers, an acknowledgement names a number the
\* receiver holds, or none.
THEOREM UDXContigIsReceived == Spec => []ContigIsReceived
<1>1. IndInv => ContigIsReceived
  BY DEF IndInv, ReceiverInv, PrefixInv, IsAnswer, ContigIsReceived
<1>2. QED
  BY <1>1, IndInvAlways, PTL

\* No map, packet or report names a number that was not sent.
THEOREM UDXNamesAreSent == Spec => []OnlySentIsNamed
<1>1. IndInv => OnlySentIsNamed
  BY DEF IndInv
<1>2. QED
  BY <1>1, IndInvAlways, PTL

LEMMA InFlightFinite ==
  ASSUME TxTypeOK
  PROVE  IsFiniteSet(txInFlight) /\ Cardinality(txInFlight) \in Nat
<1>1. IsFiniteSet(SeqNum)
  BY FS_Interval DEF SeqNum
<1>2. IsFiniteSet(txInFlight)
  BY <1>1, FS_Subset DEF TxTypeOK
<1>3. QED
  BY <1>2, FS_CardinalityType

\* A call that sends had room in the windows as its own timeout leaves them.
LEMMA SentIntoRoom ==
  ASSUME TxTypeOK, ProcessTimeout, TxMaySend
  PROVE  ~(Cardinality(txInFlight) >= txCwnd' \/ Cardinality(txInFlight) >= FlowWindow(txCwnd)')
<1>1. PICK before \in Nat : before = Cardinality(txInFlight)
  BY InFlightFinite
<1>2. CwndInCall \in CWndMin..CWndMax /\ FlowWindow(CwndInCall) \in FWndMin..FWndMax
  BY CallInBounds, WindowsInBounds
<1>3. before < CwndInCall /\ before < FlowWindow(CwndInCall)
  BY <1>1, <1>2 DEF TxMaySend, AllowsPacket
<1>4. txCwnd' = CwndInCall
  BY DEF ProcessTimeout
<1>5. FlowWindow(txCwnd)' = FlowWindow(CwndInCall)
  BY <1>4 DEF FlowWindow, Clamp
<1>6. QED
  BY <1>1, <1>2, <1>3, <1>4, <1>5

\* No order of timeouts, acknowledgements and loss reports, stale ones too, makes
\* the sender send while what is outstanding fills a window, as large as it is
\* after a timeout of the same call.
THEOREM UDXShrunkWindowsDrain == Spec => ShrunkWindowsDrain
<1> DEFINE Quiet == /\ txInFlight' \subseteq txInFlight
                    /\ {q.pkt : q \in fwd'} \subseteq {q.pkt : q \in fwd}
           Full  == \/ Cardinality(txInFlight) >= txCwnd'
                    \/ Cardinality(txInFlight) >= FlowWindow(txCwnd)'
<1>1. ASSUME IndInv, Next
      PROVE  Full => Quiet
  <2>1. TxTypeOK /\ fwd \subseteq InTransit(DataPackets)
    BY <1>1 DEF IndInv, TypeOK
  <2>2. CASE SenderProcess
    <3>1. CASE TxQuiet /\ UNCHANGED <<fwd, losses>>
      BY <3>1 DEF TxQuiet
    <3>2. ASSUME NEW seq, TxSendMissing(seq) \/ TxSendNew(seq)
          PROVE  ~Full
      <4>1. ProcessTimeout /\ TxMaySend
        BY <3>2 DEF TxSendMissing, TxSendNew
      <4>2. QED
        BY <2>1, <4>1, SentIntoRoom
    <3>3. QED
      BY <2>2, <3>1, <3>2 DEF SenderProcess
  <2>3. ASSUME NEW q \in fwd, DeliverData(q)
        PROVE  Quiet
    BY <2>3 DEF DeliverData, txVars
  <2>4. ASSUME NEW q \in rev, DeliverFeedback(q)
        PROVE  Quiet
    BY <2>4 DEF DeliverFeedback, OnAckReceived, OnNakReceived
  <2>5. CASE ReceiverProcess
    BY <2>5 DEF ReceiverProcess, txVars
  <2>6. CASE Advance
    <3>1. txInFlight' = txInFlight /\ fwd' = TickPasses(fwd)
      BY <2>6 DEF Advance, TxTimePasses
    <3>2. ASSUME NEW q \in fwd'
          PROVE  \E p \in fwd : q.pkt = p.pkt
      <4>1. PICK p \in fwd : q = [p EXCEPT !.due = @ - 1]
        BY <3>1, <3>2 DEF TickPasses
      <4>2. p \in [pkt : DataPackets, due : Latencies]
        BY <2>1 DEF InTransit
      <4>3. QED
        BY <4>1, <4>2
    <3>3. QED
      BY <3>1, <3>2
  <2>7. QED
    BY <1>1, <2>2, <2>3, <2>4, <2>5, <2>6 DEF Next
<1>2. IndInv /\ [Next]_vars => [Full => Quiet]_vars
  BY <1>1
<1>3. QED
  BY <1>2, IndInvAlways, PTL DEF Spec, ShrunkWindowsDrain
------------------------------------------------------------------------------
(* The search on a map without holes. *)

\* Looked up in a part that holds n, the numbers up to n answer n.
LEMMA HighestWithin ==
  ASSUME NEW n \in SeqNum, NEW lo \in Nat, NEW hi \in Int, NEW base, lo <= n, n <= hi
  PROVE  HighestOf(0..n, lo..hi, base) = n
<1> DEFINE both == (0..n) \cap (lo..hi)
<1>1. n \in Nat /\ n < MaxSeq
  BY DEF SeqNum
<1>2. n \in both /\ \A m \in both : m <= n
  BY <1>1
<1>3. MaxSeq - 1 \in Nat /\ both \in SUBSET (0..(MaxSeq - 1))
  BY <1>1
<1>4. HighestOf(0..n, lo..hi, base) = Max(both)
  BY <1>2 DEF HighestOf
<1> HIDE DEF both
<1>5. Max(both) \in both /\ \A m \in both : m <= Max(both)
  BY <1>2, <1>3, MaxIsGreatest
<1>6. PICK m \in both : m = Max(both)
  BY <1>5
<1>7. m \in Nat /\ m <= n /\ n <= m
  BY <1>2, <1>3, <1>5, <1>6
<1>8. QED
  BY <1>1, <1>4, <1>6, <1>7

\* The same, or in a word that begins right after n.
LEMMA HighestOfPrefix ==
  ASSUME NEW n \in SeqNum, NEW lo \in Nat, NEW hi \in Int,
         (lo <= n /\ n <= hi) \/ lo = n + 1
  PROVE  HighestOf(0..n, lo..hi, lo) = n
<1>1. n \in Nat /\ n < CountSpan
  BY DEF SeqNum
<1>2. CASE lo <= n /\ n <= hi
  BY <1>2, HighestWithin
<1>3. CASE lo = n + 1
  <2>1. (0..n) \cap (lo..hi) = {}
    BY <1>1, <1>3
  <2>2. (lo - 1) % CountSpan = n
    BY <1>1, <1>3
  <2>3. QED
    BY <2>1, <2>2 DEF HighestOf
<1>4. QED
  BY <1>2, <1>3

\* From n on, the search finds the end of a prefix that ends in n, wherever n
\* falls in a word and at the capacity.
LEMMA SearchOnPrefix ==
  ASSUME NEW n \in SeqNum
  PROVE  SearchContiguesSet(0..n, n, MaxSeq) = n
<1> DEFINE word    == WordBase(n)
           last    == word + WordBits - 1
           end     == WordBase(MaxSeq)
           aligned == n = word
           head    == n..last
           from    == IF aligned THEN n ELSE word + WordBits
           holes   == {base \in from..(end - 1) :
                         base = WordBase(base) /\ ~(WordAt(base) \subseteq 0..n)}
           tail    == end..(MaxSeq - 1)
           answer  == SearchContiguesSet(0..n, n, MaxSeq)
<1>1. n \in Nat /\ n < MaxSeq
  BY DEF SeqNum
<1>2. word \in Nat /\ word <= n /\ n <= last /\ word = WordBase(word) /\ last \in Nat
  BY <1>1, WordBaseBounds
<1>3. end \in Nat /\ end <= MaxSeq /\ end = WordBase(end)
  BY WordBaseBounds
<1>4. answer = IF ~aligned /\ ~(head \subseteq 0..n) THEN HighestOf(0..n, head, word)
               ELSE IF holes # {} THEN HighestOf(0..n, WordAt(Min(holes)), Min(holes))
               ELSE IF ~(tail \subseteq 0..n) THEN HighestOf(0..n, tail, end)
               ELSE MaxSeq - 1
  BY DEF SearchContiguesSet
<1>5. from \in Nat /\ n <= from
  BY <1>1, <1>2
<1> HIDE DEF answer, word, end
\* The first word that is not full is that of n, or the one that begins after n.
<1>6. ASSUME NEW h \in Nat, h = WordBase(h), ~(WordAt(h) \subseteq 0..n), from <= h,
             h = n \/ h = n + 1, \A base \in holes : h <= base,
             aligned \/ head \subseteq 0..n
      PROVE  answer = n
  <2>1. CASE h < end
    <3>1. h \in holes
      BY <1>3, <1>5, <1>6, <2>1
    <3>2. holes \in SUBSET Nat
      BY <1>3, <1>5
    <3>3. Min(holes) \in holes /\ \A base \in holes : Min(holes) <= base
      <4> HIDE DEF holes
      <4>1. QED
        BY <3>1, <3>2, MinIsLeast
    <3>4. Min(holes) = h
      <4> HIDE DEF holes
      <4>1. Min(holes) \in Nat /\ Min(holes) <= h /\ h <= Min(holes)
        BY <1>6, <3>1, <3>2, <3>3
      <4>2. QED
        BY <4>1
    <3>5. answer = HighestOf(0..n, h..(h + WordBits - 1), h)
      BY <1>4, <1>6, <3>1, <3>4 DEF WordAt
    <3>6. (h <= n /\ n <= h + WordBits - 1) \/ h = n + 1
      BY <1>1, <1>6
    <3>7. PICK hi \in Int : hi = h + WordBits - 1
      OBVIOUS
    <3>8. HighestOf(0..n, h..hi, h) = n
      <4>1. (h <= n /\ n <= hi) \/ h = n + 1
        BY <3>6, <3>7
      <4>2. QED
        BY <1>6, <4>1, HighestOfPrefix
    <3>9. QED
      BY <3>5, <3>7, <3>8
  <2>2. CASE end <= h
    <3>1. holes = {}
      <4> SUFFICES ASSUME NEW base \in holes PROVE FALSE
        OBVIOUS
      <4>1. base \in Nat /\ base < end
        BY <1>3, <1>5
      <4>2. QED
        BY <1>3, <1>6, <2>2, <4>1
    <3>2. h <= end
      <4> SUFFICES ASSUME end < h PROVE FALSE
        BY <1>3, <1>6
      <4>1. end + WordBits <= h
        BY <1>3, <1>6, WordsApart
      <4>2. MaxSeq < end + WordBits
        BY WordBaseBounds DEF end
      <4>3. QED
        BY <1>1, <1>3, <1>6, <4>1, <4>2
    <3>3. end = n \/ end = n + 1
      BY <1>3, <1>6, <2>2, <3>2
    <3>4. CASE ~(tail \subseteq 0..n)
      <4>1. answer = HighestOf(0..n, tail, end)
        BY <1>4, <1>6, <3>1, <3>4
      <4>2. (end <= n /\ n <= MaxSeq - 1) \/ end = n + 1
        BY <1>1, <3>3
      <4>3. PICK hi \in Int : hi = MaxSeq - 1
        BY <1>1
      <4>4. HighestOf(0..n, end..hi, end) = n
        BY <1>3, <4>2, <4>3, HighestOfPrefix
      <4>5. QED
        BY <4>1, <4>3, <4>4
    <3>5. CASE tail \subseteq 0..n
      <4>1. answer = MaxSeq - 1
        BY <1>4, <1>6, <3>1, <3>5
      <4>2. MaxSeq - 1 <= n
        BY <1>1, <1>3, <3>3, <3>5
      <4>3. QED
        BY <1>1, <4>1, <4>2
    <3>6. QED
      BY <3>4, <3>5
  <2>3. QED
    BY <1>3, <1>6, <2>1, <2>2
<1>7. CASE n < last
  <2>1. CASE ~aligned
    <3>1. ~(head \subseteq 0..n)
      <4>1. n + 1 \in head /\ n + 1 \notin 0..n
        BY <1>1, <1>2, <1>7
      <4>2. QED
        BY <4>1
    <3>2. answer = HighestOf(0..n, n..last, word)
      BY <1>4, <2>1, <3>1
    <3>3. PICK lo \in Nat, hi \in Int : lo = n /\ hi = last
      BY <1>1, <1>2
    <3>4. HighestOf(0..n, lo..hi, word) = n
      BY <1>1, <1>2, <3>3, HighestWithin
    <3>5. QED
      BY <3>2, <3>3, <3>4 DEF answer
  <2>2. CASE aligned
    <3>1. ~(WordAt(n) \subseteq 0..n)
      <4>1. n + 1 \in WordAt(n) /\ n + 1 \notin 0..n
        BY <1>1, <1>2, <1>7, <2>2 DEF WordAt
      <4>2. QED
        BY <4>1
    <3>2. n = WordBase(n)
      BY <2>2 DEF word
    <3>3. from = n
      BY <2>2
    <3>4. \A base \in holes : n <= base
      BY <1>1, <1>3, <3>3
    <3>5. answer = n
      BY <1>1, <1>6, <2>2, <3>1, <3>2, <3>3, <3>4
    <3>6. QED
      BY <3>5 DEF answer
  <2>3. QED
    BY <2>1, <2>2
<1>8. CASE n = last
  <2>1. n + 1 = word + WordBits
    BY <1>1, <1>2, <1>8
  <2>2. n + 1 = WordBase(n + 1)
    <3>1. PICK q \in Nat : q = n \div WordBits
      BY <1>1
    <3>2. word = WordBits * q
      BY <3>1 DEF word, WordBase
    <3>3. n + 1 = WordBits * (q + 1)
      BY <2>1, <3>1, <3>2
    <3>4. (WordBits * (q + 1)) \div WordBits = q + 1
      BY <3>1
    <3>5. QED
      BY <3>1, <3>3, <3>4 DEF WordBase
  <2>3. ~(WordAt(n + 1) \subseteq 0..n)
    <3>1. n + 1 \in WordAt(n + 1) /\ n + 1 \notin 0..n
      BY <1>1 DEF WordAt
    <3>2. QED
      BY <3>1
  <2>4. \A base \in holes : n + 1 <= base
    <3> SUFFICES ASSUME NEW base \in holes PROVE n + 1 <= base
      OBVIOUS
    <3>1. base \in Nat /\ n <= base /\ base = WordBase(base)
          /\ ~(WordAt(base) \subseteq 0..n)
      BY <1>1, <1>3, <1>5
    <3>2. base # n
      <4> SUFFICES ASSUME base = n PROVE FALSE
        OBVIOUS
      <4>1. word = n
        BY <3>1 DEF word
      <4>2. WordAt(n) = n..n
        BY <1>1, <1>8, <4>1 DEF WordAt
      <4>3. QED
        BY <1>1, <3>1, <4>2
    <3>3. QED
      BY <1>1, <3>1, <3>2
  <2>5. from <= n + 1
    BY <1>1, <2>1
  <2>6. head \subseteq 0..n
    BY <1>1, <1>8
  <2>7. n + 1 \in Nat
    BY <1>1
  <2>8. answer = n
    <3> HIDE DEF holes, head, from, aligned
    <3>1. QED
      BY <1>6, <2>2, <2>3, <2>4, <2>5, <2>6, <2>7
  <2>9. QED
    BY <2>8 DEF answer
<1>9. QED
  BY <1>1, <1>2, <1>7, <1>8 DEF answer

\* Without holes the numbers received are those up to some number.
LEMMA PrefixWithoutHoles ==
  ASSUME ReceiverInv, ContigIsPrefix, rxMissing = {}, rxReceived # {}
  PROVE  /\ rxHighestContig \in SeqNum
         /\ rxReceived = 0..rxHighestContig
<1>1. /\ rxHighestContig \in SeqNum
      /\ 0..rxHighestContig \subseteq rxReceived
      /\ rxHighestContig + 1 \notin rxReceived
  BY DEF ContigIsPrefix
<1>2. ASSUME NEW r \in rxReceived, rxHighestContig < r
      PROVE  FALSE
  <2>1. r \in Nat /\ r < MaxSeq /\ rxHighestContig \in Nat
    BY <1>1, <1>2 DEF ReceiverInv, RxTypeOK, SeqNum
  <2>2. rxHighestContig + 1 < r
    BY <1>1, <1>2, <2>1
  <2>3. rxHighestContig + 1 \in SeqNum
    BY <2>1, <2>2 DEF SeqNum
  <2>4. rxHighestContig + 1 \in rxMissing
    BY <1>1, <2>2, <2>3 DEF ReceiverInv, MissingAreGaps
  <2>5. QED
    BY <2>4
<1>3. rxReceived \in SUBSET SeqNum
  BY DEF ReceiverInv, RxTypeOK
<1>4. rxReceived \subseteq 0..rxHighestContig
  BY <1>1, <1>2, <1>3 DEF SeqNum
<1>5. QED
  BY <1>1, <1>4

\* New data that leaves no hole ends the prefix.
LEMMA DataExtendsPrefix ==
  ASSUME ReceiverInv, ContigIsPrefix, rxMissing = {}, rxMissing' = {},
         NEW seq \in SeqNum, OnNewData(seq)
  PROVE  ContigIsPrefix'
<1>1. /\ seq \notin rxReceived
      /\ rxReceived' = rxReceived \cup {seq}
      /\ rxHighestContig' = ContigAfter(rxReceived')
  BY DEF OnNewData
<1>2. ReceiverInv'
  BY DataKeepsInv DEF OnDataPacketReceived
<1>3. seq \in Nat /\ seq < MaxSeq
  BY DEF SeqNum
<1>4. \A s \in SeqNum : s < seq => s \in rxReceived
  BY <1>1, <1>2, <1>3 DEF ReceiverInv, MissingAreGaps, SeqNum
<1>5. rxReceived' = 0..seq /\ NextContig = seq
  <2>1. CASE rxReceived = {}
    <3>1. seq = 0
      BY <1>3, <1>4, <2>1 DEF SeqNum
    <3>2. rxHighestContig = NoContig
      BY <2>1 DEF ContigIsPrefix, SeqNum
    <3>3. rxHighestContig + 1 = CountSpan /\ CountSpan % CountSpan = 0
      BY <3>2 DEF NoContig
    <3>4. QED
      BY <1>1, <2>1, <3>1, <3>3 DEF NextContig
  <2>2. CASE rxReceived # {}
    <3>1. rxHighestContig \in SeqNum /\ rxReceived = 0..rxHighestContig
      BY <2>2, PrefixWithoutHoles
    <3>2. rxHighestContig \in Nat /\ rxHighestContig < MaxSeq
      BY <3>1 DEF SeqNum
    <3>3. rxHighestContig < seq
      BY <1>1, <1>3, <3>1, <3>2
    <3>4. ~(rxHighestContig + 1 < seq)
      <4> SUFFICES ASSUME rxHighestContig + 1 < seq PROVE FALSE
        OBVIOUS
      <4>1. rxHighestContig + 1 \in SeqNum
        BY <1>3, <3>2 DEF SeqNum
      <4>2. rxHighestContig + 1 \in rxReceived
        BY <1>4, <4>1
      <4>3. QED
        BY <3>1, <3>2, <4>2
    <3>5. seq = rxHighestContig + 1
      BY <1>3, <3>2, <3>3, <3>4
    <3>6. NextContig = seq
      <4>1. rxHighestContig + 1 \in 0..(CountSpan - 1)
        BY <1>3, <3>2, <3>5
      <4>2. QED
        BY <3>5, <4>1 DEF NextContig
    <3>7. rxReceived' = 0..seq
      BY <1>1, <1>3, <3>1, <3>2, <3>5
    <3>8. QED
      BY <3>6, <3>7
  <2>3. QED
    BY <2>1, <2>2
<1>6. rxHighestContig' = seq
  BY <1>1, <1>3, <1>5, SearchOnPrefix DEF ContigAfter
<1>7. QED
  BY <1>3, <1>5, <1>6 DEF ContigIsPrefix

LEMMA OnlyHolesMisleadStep ==
  ASSUME IndInv, [Next]_vars, ContigIsPrefix, rxMissing = {}, rxMissing' = {}
  PROVE  ContigIsPrefix'
<1>1. ASSUME UNCHANGED <<rxReceived, rxHighestContig>>
      PROVE  ContigIsPrefix'
  BY <1>1 DEF ContigIsPrefix
<1>2. ASSUME NEW q \in fwd, DeliverData(q)
      PROVE  ContigIsPrefix'
  <2>1. q.pkt.seq \in SeqNum
    BY DEF IndInv, TypeOK, InTransit, DataPackets
  <2>2. OnDuplicateData(q.pkt.seq) \/ OnNewData(q.pkt.seq)
    BY <1>2 DEF DeliverData, OnDataPacketReceived
  <2>3. OnDuplicateData(q.pkt.seq) => UNCHANGED <<rxReceived, rxHighestContig>>
    BY DEF OnDuplicateData
  <2>4. QED
    BY <1>1, <2>1, <2>2, <2>3, DataExtendsPrefix DEF IndInv
<1>3. \/ UNCHANGED <<rxReceived, rxHighestContig>>
      \/ \E q \in fwd : DeliverData(q)
  BY DEF Next, vars, rxVars, SenderProcess, ReceiverProcess, RxProcess, DeliverFeedback, Advance,
         RxTimePasses
<1>4. QED
  BY <1>1, <1>2, <1>3

\* The search is only misled by holes: as long as nothing is missing before and
\* after a packet, a right end of the prefix stays right.
THEOREM UDXOnlyHolesMislead == Spec => OnlyHolesMislead
<1>1. IndInv /\ [Next]_vars =>
        [ContigIsPrefix /\ rxMissing = {} /\ rxMissing' = {} => ContigIsPrefix']_vars
  BY OnlyHolesMisleadStep
<1>2. QED
  BY <1>1, IndInvAlways, PTL DEF Spec, OnlyHolesMislead

\* A transfer in which nothing is ever missing has the right end of the prefix
\* throughout.
THEOREM UDXPrefixWithoutHoles == Spec /\ [](rxMissing = {}) => []ContigIsPrefix
<1>1. Init => ContigIsPrefix
  BY DEF Init, RxInit, ContigIsPrefix
<1>2. IndInv /\ [Next]_vars /\ rxMissing = {} /\ (rxMissing = {})' /\ ContigIsPrefix
        => ContigIsPrefix'
  BY OnlyHolesMisleadStep
<1>3. QED
  BY <1>1, <1>2, IndInvAlways, PTL DEF Spec
==============================================================================
