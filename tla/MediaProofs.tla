------------------------------ MODULE MediaProofs ------------------------------
(***************************************************************************)
(* The requests of the media server, for any number of them.               *)
(*                                                                         *)
(* Streams: however many ask, a server runs no more live ffmpegs than its  *)
(* cap, none of them is forgotten, and only the oldest makes room.  The    *)
(* queue admit_transcode keeps is what carries both: it holds every ffmpeg *)
(* that may still run, once, in the order of their start.                  *)
(*                                                                         *)
(* Subtitles: the lock of a server serialises its conversions.  A session  *)
(* has a server, and a lock, for each restream; unless conversions of two  *)
(* of them cross, what is served is whole.                                 *)
(***************************************************************************)
EXTENDS MCMedia, FiniteSetTheorems, SequenceTheorems, TLAPS

-------------------------------------------------------------------------------
(* VecDeque::retain *)

\* Where the element at position i of a queue is once the positions I are kept.
Rank(I, i) == Cardinality({j \in I : j <= i})

\* Kept positions keep their order.
LEMMA RankIncreases ==
    ASSUME NEW n \in Nat, NEW I \in SUBSET (1..n), NEW i \in I, NEW k \in I, i < k
    PROVE  Rank(I, i) < Rank(I, k)
<1> DEFINE low == {j \in I : j <= i}
           high == {j \in I : j <= k}
<1>1. IsFiniteSet(1..n)
  BY FS_Interval
<1>2. IsFiniteSet(I)
  BY <1>1, FS_Subset
<1>3. IsFiniteSet(high) /\ low \in SUBSET high
  <2>1. high \in SUBSET I
    OBVIOUS
  <2>2. \A j \in I : j \in Int
    OBVIOUS
  <2>3. ASSUME NEW j \in I, j <= i PROVE j <= k
    BY <2>2, <2>3
  <2>4. low \subseteq high
    BY <2>3
  <2> QED
    BY <1>2, <2>1, <2>4, FS_Subset
<1>4. k \in high /\ k \notin low
  OBVIOUS
<1>5. /\ IsFiniteSet(low)
      /\ Cardinality(low) <= Cardinality(high)
      /\ Cardinality(low) # Cardinality(high)
  <2> HIDE DEF low, high
  <2> QED
    BY <1>3, <1>4, FS_Subset
<1>6. Cardinality(low) \in Nat /\ Cardinality(high) \in Nat
  <2> HIDE DEF low, high
  <2> QED
    BY <1>3, <1>5, FS_CardinalityType
<1> QED
  BY <1>5, <1>6 DEF Rank

\* The ranks of the kept positions are 1, 2, ... and each is that of one position.
LEMMA RanksAreOneToOne ==
    ASSUME NEW n \in Nat, NEW I \in SUBSET (1..n)
    PROVE  /\ Cardinality(I) \in Nat
           /\ \A i \in I : Rank(I, i) \in 1..Cardinality(I)
           /\ \A k \in 1..Cardinality(I) : \E i \in I : Rank(I, i) = k
           /\ \A i, j \in I : i < j => Rank(I, i) < Rank(I, j)
<1>1. IsFiniteSet(I)
  <2>1. IsFiniteSet(1..n)
    BY FS_Interval
  <2> QED
    BY <2>1, FS_Subset
<1>2. Cardinality(I) \in Nat
  BY <1>1, FS_CardinalityType
<1>3. ASSUME NEW i \in I PROVE Rank(I, i) \in 1..Cardinality(I)
  <2> DEFINE upTo == {j \in I : j <= i}
  <2>1. upTo \in SUBSET I /\ i \in upTo
    OBVIOUS
  <2> HIDE DEF upTo
  <2>2. IsFiniteSet(upTo) /\ Cardinality(upTo) <= Cardinality(I)
    BY <1>1, <2>1, FS_Subset
  <2>3. Cardinality(upTo) \in Nat /\ Cardinality(upTo) # 0
    BY <2>1, <2>2, FS_CardinalityType, FS_EmptySet
  <2> QED
    BY <1>2, <2>2, <2>3 DEF Rank, upTo
<1>4. \A i, j \in I : i < j => Rank(I, i) < Rank(I, j)
  BY RankIncreases
<1>5. \A i, j \in I : Rank(I, i) = Rank(I, j) => i = j
  <2>1. \A i \in I : i \in Int /\ Rank(I, i) \in Int
    BY <1>2, <1>3
  <2> QED
    BY <1>4, <2>1
<1>6. ASSUME NEW k \in 1..Cardinality(I) PROVE \E i \in I : Rank(I, i) = k
  <2> DEFINE T == 1..Cardinality(I)
             rank == [i \in I |-> Rank(I, i)]
  <2>1. rank \in [I -> T]
    BY <1>3
  <2>3. rank \in Injection(I, T)
    BY <1>5, <2>1 DEF Injection, IsInjective
  <2>4. IsFiniteSet(T) /\ Cardinality(T) = Cardinality(I)
    BY <1>2, FS_Interval
  <2>5. rank \in Surjection(I, T)
    <3> HIDE DEF rank, T
    <3> QED
      BY <2>3, <2>4, FS_Injection
  <2> QED
    BY <2>5 DEF Surjection
<1> QED
  BY <1>2, <1>3, <1>4, <1>6

\* The position in q of element k of Retained(q, I).
Kept(I, k) == CHOOSE i \in I : Rank(I, i) = k

\* Retained(q, I) has the elements of q at I, each from a position of its own, in
\* their order.
LEMMA RetainedProperties ==
    ASSUME NEW S, NEW q \in Seq(S), NEW I \in SUBSET DOMAIN q
    PROVE  /\ Cardinality(I) \in Nat
           /\ Retained(q, I) \in Seq(S)
           /\ Len(Retained(q, I)) = Cardinality(I)
           /\ \A k \in 1..Cardinality(I) :
                Kept(I, k) \in I /\ Retained(q, I)[k] = q[Kept(I, k)]
           /\ \A k, m \in 1..Cardinality(I) : k < m => Kept(I, k) < Kept(I, m)
           /\ \A i \in I : \E k \in 1..Cardinality(I) : Kept(I, k) = i
<1> DEFINE N == Cardinality(I)
<1>1. Len(q) \in Nat /\ I \in SUBSET (1..Len(q))
  OBVIOUS
<1>2. /\ N \in Nat
      /\ \A i \in I : Rank(I, i) \in 1..N
      /\ \A k \in 1..N : \E i \in I : Rank(I, i) = k
      /\ \A i, j \in I : i < j => Rank(I, i) < Rank(I, j)
      /\ \A i \in I : i \in Int
  <2>1. \A i \in I : i \in Int
    BY <1>1
  <2> QED
    BY <1>1, <2>1, RanksAreOneToOne
<1>3. \A k \in 1..N : Kept(I, k) \in I /\ Rank(I, Kept(I, k)) = k
  BY <1>2 DEF Kept
<1>4. Retained(q, I) = [k \in 1..N |-> q[Kept(I, k)]]
  BY DEF Retained, Kept, Rank
<1>5. \A k \in 1..N : q[Kept(I, k)] \in S
  BY <1>1, <1>3
<1>6. Retained(q, I) \in Seq(S) /\ Len(Retained(q, I)) = N
  BY <1>2, <1>4, <1>5, IsASeq
<1>7. ASSUME NEW k \in 1..N, NEW m \in 1..N, k < m
      PROVE  Kept(I, k) < Kept(I, m)
  <2> DEFINE i == Kept(I, k)
             j == Kept(I, m)
  <2>1. i \in I /\ j \in I /\ Rank(I, i) = k /\ Rank(I, j) = m
    BY <1>3
  <2> HIDE DEF i, j
  <2>2. i \in Int /\ j \in Int
    BY <1>1, <2>1
  <2>3. ~(j < i) /\ i # j
    BY <1>2, <1>7, <2>1
  <2> QED
    BY <2>2, <2>3 DEF i, j
<1>8. ASSUME NEW i \in I PROVE \E k \in 1..N : Kept(I, k) = i
  <2> DEFINE k == Rank(I, i)
             j == Kept(I, k)
  <2>1. k \in 1..N
    BY <1>2
  <2>2. j \in I /\ Rank(I, j) = Rank(I, i)
    BY <1>3, <2>1
  <2>3. j \in Int /\ i \in Int
    BY <1>1, <2>2
  <2>4. ~(j < i) /\ ~(i < j)
    <3> HIDE DEF j, k
    <3> QED
      BY <1>2, <2>2
  <2>5. j = i
    BY <2>3, <2>4
  <2> QED
    BY <2>1, <2>5
<1> QED
  BY <1>2, <1>3, <1>4, <1>6, <1>7, <1>8

-------------------------------------------------------------------------------
(* admit_transcode *)

\* No stream is in a queue twice.
Distinct(q) == \A i, k \in DOMAIN q : q[i] = q[k] => i = k

\* What admit_transcode makes of a queue q when stream s joins and the positions I
\* are kept: the queue that is left, and the streams that must go.
Joined(q, I, s) == Append(Retained(q, I), s)
Queue(q, I, s) ==
    SubSeq(Joined(q, I, s), Excess(Joined(q, I, s)) + 1, Len(Joined(q, I, s)))
Evicted(q, I, s) == SubSeq(Joined(q, I, s), 1, Excess(Joined(q, I, s)))

\* The joined queue, element by element, and how many of it must go.
LEMMA JoinedProperties ==
    ASSUME NEW q \in Seq(Streams), NEW I \in SUBSET DOMAIN q, NEW s \in Streams
    PROVE  LET kept == Joined(q, I, s)
               c == Cardinality(I)
               n == Excess(kept)
           IN  /\ c \in Nat /\ kept \in Seq(Streams) /\ Len(kept) = c + 1
               /\ \A k \in 1..c : Kept(I, k) \in I /\ kept[k] = q[Kept(I, k)]
               /\ kept[c + 1] = s
               /\ n \in 0..c /\ c + 1 - n <= MaxLive
               /\ n > 0 => c + 1 - n = MaxLive
<1> DEFINE r == Retained(q, I)
           c == Cardinality(I)
           kept == Joined(q, I, s)
           n == Excess(kept)
<1>1. /\ c \in Nat /\ r \in Seq(Streams) /\ Len(r) = c
      /\ \A k \in 1..c : Kept(I, k) \in I /\ r[k] = q[Kept(I, k)]
  BY RetainedProperties
<1>2. /\ kept \in Seq(Streams) /\ Len(kept) = c + 1
      /\ \A k \in 1..c : kept[k] = r[k]
      /\ kept[c + 1] = s
  <2> HIDE DEF r, c
  <2>1. kept = Append(r, s)
    BY DEF r, Joined
  <2> QED
    BY <1>1, <2>1, AppendProperties
<1>3. n \in 0..c /\ c + 1 - n <= MaxLive /\ (n > 0 => c + 1 - n = MaxLive)
  <2> HIDE DEF c, kept
  <2> QED
    BY <1>1, <1>2, BoundsAssumption DEF Excess
<1> QED
  BY <1>1, <1>2, <1>3

\* The two parts of the joined queue, element by element.
LEMMA PartsOfJoined ==
    ASSUME NEW q \in Seq(Streams), NEW I \in SUBSET DOMAIN q, NEW s \in Streams
    PROVE  LET kept == Joined(q, I, s)
               c == Cardinality(I)
               n == Excess(kept)
           IN  /\ Queue(q, I, s) \in Seq(Streams) /\ Len(Queue(q, I, s)) = c + 1 - n
               /\ \A k \in 1..(c + 1 - n) : Queue(q, I, s)[k] = kept[n + k]
               /\ Evicted(q, I, s) \in Seq(Streams) /\ Len(Evicted(q, I, s)) = n
               /\ \A k \in 1..n : Evicted(q, I, s)[k] = kept[k]
<1> DEFINE kept == Joined(q, I, s)
           c == Cardinality(I)
           n == Excess(kept)
<1>1. /\ c \in Nat /\ kept \in Seq(Streams) /\ Len(kept) = c + 1 /\ n \in 0..c
  BY JoinedProperties
<1> HIDE DEF kept, c, n
<1>2. \A k \in 1..(c + 1) : kept[k] \in Streams
  BY <1>1
<1>3. LET t == SubSeq(kept, n + 1, c + 1)
      IN  /\ t \in Seq(Streams) /\ Len(t) = c + 1 - n
          /\ \A k \in 1..(c + 1 - n) : t[k] = kept[n + k]
  <2>1. \A k \in (n + 1)..(c + 1) : kept[k] \in Streams
    BY <1>1, <1>2
  <2>2. n + 1 \in Int /\ c + 1 \in Int /\ n + 1 <= c + 1
    BY <1>1
  <2> DEFINE t == SubSeq(kept, n + 1, c + 1)
  <2>3. /\ t \in Seq(Streams)
        /\ Len(t) = (c + 1) - (n + 1) + 1
        /\ \A k \in 1..((c + 1) - (n + 1) + 1) : t[k] = kept[(n + 1) + k - 1]
    <3> HIDE DEF t
    <3> QED
      BY <2>1, <2>2, SubSeqProperties DEF t
  <2>4. \A k \in 1..(c + 1 - n) : t[k] = kept[n + k]
    <3> HIDE DEF t
    <3> SUFFICES ASSUME NEW k \in 1..(c + 1 - n) PROVE t[k] = kept[n + k]
      OBVIOUS
    <3>1. k \in 1..((c + 1) - (n + 1) + 1) /\ (n + 1) + k - 1 = n + k
      BY <1>1
    <3> QED
      BY <2>3, <3>1
  <2> QED
    BY <1>1, <2>3, <2>4
<1>4. LET t == SubSeq(kept, 1, n)
      IN  /\ t \in Seq(Streams) /\ Len(t) = n
          /\ \A k \in 1..n : t[k] = kept[k]
  BY <1>1, <1>2, SubSeqProperties
<1> QED
  BY <1>1, <1>3, <1>4 DEF Queue, Evicted, kept, c, n

\* The queue that is left is within the cap, and full when a stream had to go; it
\* has no stream twice.
LEMMA QueueWithinCap ==
    ASSUME NEW q \in Seq(Streams), NEW I \in SUBSET DOMAIN q, NEW s \in Streams,
           Distinct(q), s \notin ToSet(q)
    PROVE  /\ Queue(q, I, s) \in Seq(Streams)
           /\ Len(Queue(q, I, s)) <= MaxLive
           /\ Evicted(q, I, s) # <<>> => Len(Queue(q, I, s)) = MaxLive
           /\ Distinct(Queue(q, I, s))
<1> DEFINE kept == Joined(q, I, s)
           c == Cardinality(I)
           n == Excess(kept)
           left == Queue(q, I, s)
<1>1. /\ c \in Nat /\ n \in 0..c /\ c + 1 - n <= MaxLive
      /\ n > 0 => c + 1 - n = MaxLive
      /\ \A k \in 1..c : Kept(I, k) \in I /\ kept[k] = q[Kept(I, k)]
      /\ kept[c + 1] = s
  BY JoinedProperties
<1>2. /\ left \in Seq(Streams) /\ Len(left) = c + 1 - n
      /\ \A k \in 1..(c + 1 - n) : left[k] = kept[n + k]
      /\ Evicted(q, I, s) \in Seq(Streams) /\ Len(Evicted(q, I, s)) = n
  BY PartsOfJoined
<1>3. \A k, m \in 1..c : k < m => Kept(I, k) < Kept(I, m)
  BY RetainedProperties
<1> HIDE DEF kept, c, n, left
<1>4. \A k, m \in 1..(c + 1) : kept[k] = kept[m] => k = m
  <2>1. \A k, m \in 1..c : kept[k] = kept[m] => k = m
    <3> SUFFICES ASSUME NEW k \in 1..c, NEW m \in 1..c, kept[k] = kept[m] PROVE k = m
      OBVIOUS
    <3>1. Kept(I, k) = Kept(I, m) /\ Kept(I, k) \in Int
      BY <1>1 DEF Distinct
    <3>2. ~(k < m) /\ ~(m < k)
      BY <1>3, <3>1
    <3> QED
      BY <1>1, <3>2
  <2>2. \A k \in 1..c : kept[k] # s
    BY <1>1 DEF ToSet
  <2>3. \A k \in 1..(c + 1) : k \in 1..c \/ k = c + 1
    BY <1>1
  <2> QED
    BY <1>1, <2>1, <2>2, <2>3
<1>5. Distinct(left)
  <2> SUFFICES ASSUME NEW i \in DOMAIN left, NEW k \in DOMAIN left, left[i] = left[k]
               PROVE  i = k
    BY DEF Distinct
  <2>1. i \in 1..(c + 1 - n) /\ k \in 1..(c + 1 - n)
    BY <1>2
  <2>2. n + i \in 1..(c + 1) /\ n + k \in 1..(c + 1)
    BY <1>1, <2>1
  <2>3. n + i = n + k
    BY <1>2, <1>4, <2>1, <2>2
  <2> QED
    BY <1>1, <2>1, <2>3
<1>6. Evicted(q, I, s) # <<>> => n > 0
  BY <1>1, <1>2, EmptySeq
<1> QED
  BY <1>1, <1>2, <1>5, <1>6 DEF left

\* Every stream that was kept, and the new one, stays or is cancelled.
LEMMA NoneForgotten ==
    ASSUME NEW q \in Seq(Streams), NEW I \in SUBSET DOMAIN q, NEW s \in Streams
    PROVE  /\ \A i \in I : q[i] \in ToSet(Queue(q, I, s)) \cup ToSet(Evicted(q, I, s))
           /\ s \in ToSet(Queue(q, I, s))
           /\ ToSet(Queue(q, I, s)) \subseteq {q[i] : i \in I} \cup {s}
           /\ ToSet(Evicted(q, I, s)) \subseteq {q[i] : i \in I}
<1> DEFINE kept == Joined(q, I, s)
           c == Cardinality(I)
           n == Excess(kept)
           left == Queue(q, I, s)
           gone == Evicted(q, I, s)
<1>1. /\ c \in Nat /\ n \in 0..c
      /\ \A k \in 1..c : Kept(I, k) \in I /\ kept[k] = q[Kept(I, k)]
      /\ kept[c + 1] = s
  BY JoinedProperties
<1>2. /\ left \in Seq(Streams) /\ Len(left) = c + 1 - n
      /\ \A k \in 1..(c + 1 - n) : left[k] = kept[n + k]
      /\ gone \in Seq(Streams) /\ Len(gone) = n
      /\ \A k \in 1..n : gone[k] = kept[k]
  BY PartsOfJoined
<1>3. \A i \in I : \E k \in 1..c : Kept(I, k) = i
  BY RetainedProperties
<1> HIDE DEF kept, c, n, left, gone
<1>4. ASSUME NEW k \in 1..(c + 1), k > n PROVE kept[k] \in ToSet(left)
  <2>1. k - n \in 1..(c + 1 - n) /\ n + (k - n) = k
    BY <1>1, <1>4
  <2>2. left[k - n] = kept[k] /\ k - n \in DOMAIN left
    BY <1>2, <2>1
  <2> QED
    BY <2>2 DEF ToSet
<1>5. ASSUME NEW k \in 1..(c + 1), ~(k > n) PROVE kept[k] \in ToSet(gone)
  <2>1. k \in 1..n
    BY <1>1, <1>5
  <2> QED
    BY <1>2, <2>1 DEF ToSet
<1>6. \A i \in I : q[i] \in ToSet(left) \cup ToSet(gone)
  <2> SUFFICES ASSUME NEW i \in I PROVE q[i] \in ToSet(left) \cup ToSet(gone)
    OBVIOUS
  <2>1. PICK k \in 1..c : Kept(I, k) = i
    BY <1>3
  <2>2. kept[k] = q[i] /\ k \in 1..(c + 1)
    BY <1>1, <2>1
  <2> QED
    BY <1>4, <1>5, <2>2
<1>7. s \in ToSet(left)
  <2>1. c + 1 \in 1..(c + 1) /\ c + 1 > n
    BY <1>1
  <2> QED
    BY <1>1, <1>4, <2>1
<1>8. ToSet(left) \subseteq {q[i] : i \in I} \cup {s}
  <2> SUFFICES ASSUME NEW k \in DOMAIN left PROVE left[k] \in {q[i] : i \in I} \cup {s}
    BY DEF ToSet
  <2>1. k \in 1..(c + 1 - n) /\ left[k] = kept[n + k]
    BY <1>2
  <2>2. n + k \in 1..c \/ n + k = c + 1
    <3>1. c \in Nat /\ n \in 0..c /\ k \in 1..(c + 1 - n)
      BY <1>1, <2>1
    <3> QED
      BY <3>1
  <2>3. CASE n + k \in 1..c
    <3>1. kept[n + k] = q[Kept(I, n + k)] /\ Kept(I, n + k) \in I
      BY <1>1, <2>3
    <3> QED
      BY <2>1, <3>1
  <2>4. CASE n + k = c + 1
    BY <1>1, <2>1, <2>4
  <2> QED
    BY <2>2, <2>3, <2>4
<1>9. ToSet(gone) \subseteq {q[i] : i \in I}
  <2> SUFFICES ASSUME NEW k \in DOMAIN gone PROVE gone[k] \in {q[i] : i \in I}
    BY DEF ToSet
  <2>1. gone[k] = kept[k] /\ k \in 1..c
    BY <1>1, <1>2
  <2> QED
    BY <1>1, <2>1
<1> QED
  BY <1>6, <1>7, <1>8, <1>9 DEF left, gone

\* A stream that must go was before every stream that stays.
LEMMA OldestGo ==
    ASSUME NEW q \in Seq(Streams), NEW I \in SUBSET DOMAIN q, NEW s \in Streams,
           Distinct(q), s \notin ToSet(q), NEW t \in ToSet(Evicted(q, I, s))
    PROVE  \E i \in DOMAIN q :
              /\ q[i] = t
              /\ \A u \in ToSet(Queue(q, I, s)) : u \notin ToSet(SubSeq(q, 1, i))
<1> DEFINE kept == Joined(q, I, s)
           c == Cardinality(I)
           n == Excess(kept)
           left == Queue(q, I, s)
           gone == Evicted(q, I, s)
<1>1. /\ c \in Nat /\ n \in 0..c
      /\ \A k \in 1..c : Kept(I, k) \in I /\ kept[k] = q[Kept(I, k)]
      /\ kept[c + 1] = s
  BY JoinedProperties
<1>2. /\ left \in Seq(Streams) /\ Len(left) = c + 1 - n
      /\ \A k \in 1..(c + 1 - n) : left[k] = kept[n + k]
      /\ gone \in Seq(Streams) /\ Len(gone) = n
      /\ \A k \in 1..n : gone[k] = kept[k]
  BY PartsOfJoined
<1>3. \A k, m \in 1..c : k < m => Kept(I, k) < Kept(I, m)
  BY RetainedProperties
<1> HIDE DEF kept, c, n, left, gone
<1>4. PICK k \in 1..n : gone[k] = t
  BY <1>2 DEF ToSet, gone
<1> DEFINE i == Kept(I, k)
<1>5. k \in 1..c /\ i \in DOMAIN q /\ q[i] = t
  <2>1. k \in 1..c
    BY <1>1
  <2> QED
    BY <1>1, <1>2, <1>4, <2>1
<1>6. ASSUME NEW m \in DOMAIN left, NEW j \in 1..i PROVE left[m] # q[j]
  <2>1. m \in 1..(c + 1 - n) /\ left[m] = kept[n + m]
    BY <1>2
  <2>2. j \in DOMAIN q
    BY <1>5
  <2>3. CASE n + m = c + 1
    BY <1>1, <2>1, <2>2, <2>3 DEF ToSet
  <2>4. CASE n + m # c + 1
    <3>1. n + m \in 1..c /\ k < n + m
      <4>1. k \in Int /\ 1 <= k /\ k <= n /\ n \in Int /\ c \in Int
        BY <1>1
      <4>2. m \in Int /\ 1 <= m /\ m <= c + 1 - n
        BY <1>1, <2>1
      <4> QED
        BY <2>4, <4>1, <4>2
    <3>2. i < Kept(I, n + m) /\ Kept(I, n + m) \in DOMAIN q
      BY <1>1, <1>3, <1>5, <3>1
    <3>3. j # Kept(I, n + m)
      BY <1>5, <2>2, <3>2
    <3> QED
      BY <1>1, <2>1, <2>2, <3>1, <3>2, <3>3 DEF Distinct
  <2> QED
    BY <2>3, <2>4
<1>7. ToSet(SubSeq(q, 1, i)) = {q[j] : j \in 1..i}
  <2> HIDE DEF i
  <2>1. i \in 1..Len(q)
    BY <1>5
  <2>2. \A j \in 1..i : q[j] \in Streams
    BY <2>1
  <2>3. /\ SubSeq(q, 1, i) \in Seq(Streams) /\ Len(SubSeq(q, 1, i)) = i
        /\ \A j \in 1..i : SubSeq(q, 1, i)[j] = q[j]
    BY <2>1, <2>2, SubSeqProperties
  <2>4. DOMAIN SubSeq(q, 1, i) = 1..i
    BY <2>1, <2>3
  <2>5. ToSet(SubSeq(q, 1, i)) = {SubSeq(q, 1, i)[j] : j \in 1..i}
    BY <2>4 DEF ToSet
  <2> QED
    BY <2>3, <2>5
<1>8. \A u \in ToSet(left) : u \notin ToSet(SubSeq(q, 1, i))
  BY <1>6, <1>7 DEF ToSet
<1> QED
  BY <1>5, <1>8 DEF left

-------------------------------------------------------------------------------
(* The streams *)

StreamType ==
    [at : {"none", "spawned", "run", "exited", "over", "file"},
     server : {0} \cup Servers, read : BOOLEAN]

StreamsTypeOK ==
    /\ opened \in Servers /\ up \in BOOLEAN
    /\ stream \in [Streams -> StreamType]
    /\ cancelled \in SUBSET Streams
    /\ live \in [Servers -> Seq(Streams)]

\* A stream belongs to a server that was started.
OfAStartedServer ==
    \A s \in Streams :
       stream[s].at \in {"spawned", "run", "exited"} => stream[s].server \in 1..opened

\* A queue is within the cap and has streams of its own server that were admitted,
\* each once.
QueuesAreSound ==
    \A v \in Servers :
       /\ Len(live[v]) <= MaxLive
       /\ Distinct(live[v])
       /\ \A s \in ToSet(live[v]) :
            stream[s].server = v /\ stream[s].at \in {"run", "exited", "over"}

\* An ffmpeg that no token ends is in the queue of its server.
RunningAreQueued ==
    \A s \in Streams :
       At(s, "run") /\ ~IsCancelled(s) => s \in ToSet(live[stream[s].server])

StreamsInv == StreamsTypeOK /\ OfAStartedServer /\ QueuesAreSound /\ RunningAreQueued

LEMMA InitStreamsInv == Init => StreamsInv
<1> SUFFICES ASSUME Init PROVE StreamsInv
  OBVIOUS
<1> USE BoundsAssumption DEF Init, Servers
<1>1. <<>> \in Seq(Streams) /\ Len(<<>>) = 0 /\ ToSet(<<>>) = {} /\ Distinct(<<>>)
  BY EmptySeq DEF ToSet, Distinct
<1>2. StreamsTypeOK
  BY <1>1 DEF StreamsTypeOK, StreamType
<1>3. OfAStartedServer /\ RunningAreQueued
  BY DEF OfAStartedServer, RunningAreQueued, At
<1>4. QueuesAreSound
  BY <1>1 DEF QueuesAreSound
<1> QED
  BY <1>2, <1>3, <1>4 DEF StreamsInv

\* The kept positions are positions, and none that is dropped may still run.
LEMMA UncancelledPositions ==
    ASSUME NEW v \in Servers, live[v] \in Seq(Streams)
    PROVE  /\ Uncancelled(live[v]) \in SUBSET DOMAIN live[v]
           /\ \A s \in ToSet(live[v]) :
                ~IsCancelled(s) => \E i \in Uncancelled(live[v]) : live[v][i] = s
BY DEF Uncancelled, ToSet

\* An admission, in terms of the queue of its server.
LEMMA AdmitStep ==
    ASSUME StreamsInv, NEW s \in Streams, Admit(s)
    PROVE  LET v == stream[s].server
               q == live[v]
               I == Uncancelled(q)
           IN  /\ v \in Servers /\ q \in Seq(Streams) /\ I \in SUBSET DOMAIN q
               /\ Distinct(q) /\ s \notin ToSet(q)
               /\ live' = [live EXCEPT ![v] = Queue(q, I, s)]
               /\ cancelled' = cancelled \cup ToSet(Evicted(q, I, s))
               /\ stream' = [stream EXCEPT ![s].at = "run"]
               /\ UNCHANGED <<opened, up>>
<1> DEFINE v == stream[s].server
           q == live[v]
           I == Uncancelled(q)
<1>1. At(s, "spawned")
  BY DEF Admit
<1>2. v \in 1..opened /\ opened \in Servers
  BY <1>1 DEF StreamsInv, OfAStartedServer, StreamsTypeOK, At
<1>3. v \in Servers
  BY <1>2, BoundsAssumption DEF Servers
<1>4. q \in Seq(Streams) /\ Distinct(q)
  BY <1>3 DEF StreamsInv, StreamsTypeOK, QueuesAreSound
<1>5. s \notin ToSet(q)
  BY <1>1, <1>3 DEF StreamsInv, QueuesAreSound, At
<1>6. I \in SUBSET DOMAIN q
  BY <1>3, <1>4, UncancelledPositions
<1>7. /\ live' = [live EXCEPT ![v] = Queue(q, I, s)]
      /\ cancelled' = cancelled \cup ToSet(Evicted(q, I, s))
  BY DEF Admit, Queue, Evicted, Joined
<1>8. stream' = [stream EXCEPT ![s].at = "run"] /\ UNCHANGED <<opened, up>>
  BY DEF Admit, Go
<1> QED
  BY <1>3, <1>4, <1>5, <1>6, <1>7, <1>8

LEMMA AdmitInv ==
    ASSUME StreamsInv, NEW s \in Streams, Admit(s)
    PROVE  StreamsInv'
<1> DEFINE v == stream[s].server
           q == live[v]
           I == Uncancelled(q)
           left == Queue(q, I, s)
           gone == Evicted(q, I, s)
<1>1. /\ v \in Servers /\ q \in Seq(Streams) /\ I \in SUBSET DOMAIN q
      /\ Distinct(q) /\ s \notin ToSet(q)
      /\ live' = [live EXCEPT ![v] = left]
      /\ cancelled' = cancelled \cup ToSet(gone)
      /\ stream' = [stream EXCEPT ![s].at = "run"]
      /\ UNCHANGED <<opened, up>>
  BY AdmitStep
<1>2. left \in Seq(Streams) /\ Len(left) <= MaxLive /\ Distinct(left)
  BY <1>1, QueueWithinCap
<1>3. /\ \A i \in I : q[i] \in ToSet(left) \cup ToSet(gone)
      /\ s \in ToSet(left)
      /\ ToSet(left) \subseteq {q[i] : i \in I} \cup {s}
      /\ ToSet(gone) \subseteq {q[i] : i \in I}
  BY <1>1, NoneForgotten
<1>4. ToSet(left) \subseteq ToSet(q) \cup {s} /\ ToSet(gone) \subseteq ToSet(q)
  BY <1>1, <1>3 DEF ToSet
<1>5. \A t \in ToSet(q) : ~IsCancelled(t) => t \in ToSet(left) \cup ToSet(gone)
  <2> HIDE DEF v, left, gone
  <2>1. \A t \in ToSet(q) : ~IsCancelled(t) => \E i \in I : q[i] = t
    BY <1>1, UncancelledPositions
  <2> QED
    BY <1>3, <2>1
<1>6. ToSet(q) \subseteq Streams
  BY <1>1 DEF ToSet
<1>7. At(s, "spawned")
  BY DEF Admit
<1> HIDE DEF v, q, I, left, gone
<1>8. /\ \A t \in Streams : stream'[t].server = stream[t].server
      /\ \A t \in Streams \ {s} : stream'[t] = stream[t]
      /\ stream'[s].at = "run" /\ stream[s].server = v
  BY <1>1 DEF StreamsInv, StreamsTypeOK, StreamType, v
<1>9. StreamsTypeOK'
  BY <1>1, <1>2, <1>4, <1>6 DEF StreamsInv, StreamsTypeOK, StreamType
<1>10. OfAStartedServer'
  BY <1>1, <1>7, <1>8 DEF StreamsInv, OfAStartedServer, At
<1>11. /\ \A w \in Servers \ {v} : live'[w] = live[w]
       /\ live'[v] = left /\ live[v] = q
  BY <1>1 DEF StreamsInv, StreamsTypeOK, q
<1>12. QueuesAreSound'
  <2> SUFFICES ASSUME NEW w \in Servers
               PROVE  /\ Len(live'[w]) <= MaxLive
                      /\ Distinct(live'[w])
                      /\ \A t \in ToSet(live'[w]) :
                           stream'[t].server = w /\ stream'[t].at \in {"run", "exited", "over"}
    BY DEF QueuesAreSound
  <2>1. CASE w = v
    BY <1>2, <1>4, <1>6, <1>8, <1>11, <2>1 DEF StreamsInv, QueuesAreSound
  <2>2. CASE w # v
    <3>1. \A t \in ToSet(live[w]) : t \in Streams \ {s}
      BY <1>7, <2>2 DEF StreamsInv, StreamsTypeOK, QueuesAreSound, ToSet, At, v
    <3> QED
      BY <1>8, <1>11, <2>2, <3>1 DEF StreamsInv, QueuesAreSound
  <2> QED
    BY <2>1, <2>2
<1>13. RunningAreQueued'
  <2> SUFFICES ASSUME NEW t \in Streams, At(t, "run")', ~IsCancelled(t)'
               PROVE  t \in ToSet(live'[stream'[t].server])
    BY DEF RunningAreQueued
  <2>1. CASE t = s
    BY <1>3, <1>8, <1>11, <2>1
  <2>2. CASE t # s
    <3>1. At(t, "run") /\ ~IsCancelled(t) /\ t \notin ToSet(gone)
      BY <1>1, <1>8, <2>2 DEF At, IsCancelled, Down
    <3>2. t \in ToSet(live[stream[t].server])
      BY <3>1 DEF StreamsInv, RunningAreQueued
    <3>3. stream[t].server \in Servers
      <4>1. stream[t].server \in 1..opened /\ opened \in Servers
        BY <3>1 DEF StreamsInv, OfAStartedServer, StreamsTypeOK, At
      <4> QED
        BY <4>1, BoundsAssumption DEF Servers
    <3>4. CASE stream[t].server = v
      BY <1>5, <1>8, <1>11, <3>1, <3>2, <3>4
    <3>5. CASE stream[t].server # v
      BY <1>8, <1>11, <3>2, <3>3, <3>5
    <3> QED
      BY <3>4, <3>5
  <2> QED
    BY <2>1, <2>2
<1> QED
  BY <1>9, <1>10, <1>12, <1>13 DEF StreamsInv

\* Any other step of a stream: no queue changes, no token is given back, and no
\* stream starts to run.
LEMMA OtherStepsInv ==
    ASSUME StreamsInv, StreamsTypeOK', live' = live, cancelled \subseteq cancelled',
           OfAStartedServer',
           \A s \in Streams :
              /\ stream[s].at \in {"run", "exited", "over"} =>
                    /\ stream'[s].server = stream[s].server
                    /\ stream'[s].at \in {"run", "exited", "over"}
              /\ stream'[s].at = "run" => stream[s].at = "run",
           \A v \in 1..opened : Down(v) => Down(v)'
    PROVE  StreamsInv'
<1>1. QueuesAreSound'
  <2>1. \A v \in Servers : ToSet(live[v]) \subseteq Streams
    BY DEF StreamsInv, StreamsTypeOK, ToSet
  <2> QED
    BY <2>1 DEF StreamsInv, QueuesAreSound
<1>2. RunningAreQueued'
  <2> SUFFICES ASSUME NEW s \in Streams, At(s, "run")', ~IsCancelled(s)'
               PROVE  s \in ToSet(live'[stream'[s].server])
    BY DEF RunningAreQueued
  <2>1. At(s, "run") /\ stream'[s].server = stream[s].server
    BY DEF At
  <2>2. stream[s].server \in 1..opened
    BY <2>1 DEF StreamsInv, OfAStartedServer, At
  <2>3. ~IsCancelled(s)
    BY <2>1, <2>2 DEF IsCancelled
  <2> QED
    BY <2>1, <2>3 DEF StreamsInv, RunningAreQueued
<1> QED
  BY <1>1, <1>2 DEF StreamsInv

LEMMA StreamStepInv ==
    ASSUME StreamsInv, NEW s \in Streams,
           \/ Spawn(s) \/ Download(s) \/ Step(s)
           \/ FfmpegExits(s) \/ TvCloses(s) \/ TvReads(s) \/ Downloaded(s)
    PROVE  StreamsInv'
<1> USE DEF StreamsInv, StreamsTypeOK, OfAStartedServer, StreamType
<1> DEFINE Quiet == /\ UNCHANGED <<opened, up, live>>
                    /\ cancelled \subseteq cancelled' /\ cancelled' \subseteq Streams
<1>1. CASE Admit(s)
  BY <1>1, AdmitInv
<1>2. ASSUME NEW p \in {"over", "exited"}, Go(s, p), Quiet,
             stream[s].at \in {"run", "exited", "file"},
             p = "exited" => At(s, "run")
      PROVE  StreamsInv'
  <2>1. /\ stream' \in [Streams -> StreamType]
        /\ \A t \in Streams \ {s} : stream'[t] = stream[t]
        /\ stream'[s].at = p /\ stream'[s].server = stream[s].server
    BY <1>2 DEF Go
  <2>2. \A v \in 1..opened : Down(v) => Down(v)'
    BY <1>2 DEF Down
  <2> QED
    BY <1>2, <2>1, <2>2, OtherStepsInv DEF At
<1>3. ASSUME NEW v \in 1..opened, NEW p \in {"spawned", "file"}, Get(s, v, p)
      PROVE  StreamsInv'
  <2>1. v \in Servers
    BY BoundsAssumption DEF Servers
  <2>2. /\ stream' \in [Streams -> StreamType]
        /\ \A t \in Streams \ {s} : stream'[t] = stream[t]
        /\ stream[s].at = "none" /\ stream'[s].at = p /\ stream'[s].server = v
    BY <1>3, <2>1 DEF Get, At
  <2>3. UNCHANGED <<opened, up, cancelled, live>>
    BY <1>3 DEF Get
  <2>4. \A w \in 1..opened : Down(w) => Down(w)'
    BY <2>3 DEF Down
  <2> QED
    BY <2>2, <2>3, <2>4, OtherStepsInv
<1>4. CASE Spawn(s) \/ Download(s)
  BY <1>3, <1>4 DEF Spawn, Download
<1>5. CASE Tick(s) \/ Kill(s)
  BY <1>2, <1>5 DEF Tick, Kill, At
<1>6. CASE FfmpegExits(s) \/ BrokenPipe(s) \/ Downloaded(s)
  BY <1>2, <1>6 DEF FfmpegExits, BrokenPipe, Downloaded, At
<1>7. CASE TvReads(s)
  <2>1. CASE Down(stream[s].server)
    BY <1>2, <1>7, <2>1 DEF TvReads, At
  <2>2. CASE ~Down(stream[s].server)
    <3>1. UNCHANGED vars
      BY <1>7, <2>2 DEF TvReads, vars
    <3> QED
      BY <3>1 DEF vars, QueuesAreSound, RunningAreQueued, At, IsCancelled, Down
  <2> QED
    BY <2>1, <2>2
<1>8. CASE TvCloses(s)
  <2>1. UNCHANGED <<opened, up, cancelled, live>>
    BY <1>8 DEF TvCloses
  <2>2. /\ stream' \in [Streams -> StreamType]
        /\ \A t \in Streams \ {s} : stream'[t] = stream[t]
        /\ stream'[s].at = (IF stream[s].at = "file" THEN "over" ELSE stream[s].at)
        /\ stream'[s].server = stream[s].server
    BY <1>8 DEF TvCloses
  <2>3. \A v \in 1..opened : Down(v) => Down(v)'
    BY <2>1 DEF Down
  <2>4. OfAStartedServer'
    BY <2>1, <2>2
  <2>5. \A t \in Streams :
           /\ stream[t].at \in {"run", "exited", "over"} =>
                 /\ stream'[t].server = stream[t].server
                 /\ stream'[t].at \in {"run", "exited", "over"}
           /\ stream'[t].at = "run" => stream[t].at = "run"
    BY <2>2
  <2> QED
    BY <2>1, <2>2, <2>3, <2>4, <2>5, OtherStepsInv
<1> QED
  BY <1>1, <1>4, <1>5, <1>6, <1>7, <1>8 DEF Step

LEMMA ServerStepInv ==
    ASSUME StreamsInv, Stop \/ Start \/ Terminated
    PROVE  StreamsInv'
<1> USE BoundsAssumption DEF Servers, StreamsInv, StreamsTypeOK, OfAStartedServer, Down
<1>1. CASE Stop
  BY <1>1, OtherStepsInv DEF Stop
<1>2. CASE Start
  <2>1. /\ opened' = opened + 1 /\ opened' \in Servers /\ up' = TRUE /\ ~up
        /\ UNCHANGED <<stream, cancelled, live>>
    BY <1>2 DEF Start
  <2>2. \A v \in 1..opened : Down(v)'
    BY <2>1
  <2>3. OfAStartedServer'
    BY <2>1
  <2> QED
    BY <2>1, <2>2, <2>3, OtherStepsInv
<1>3. CASE Terminated
  BY <1>3 DEF Terminated, vars, QueuesAreSound, RunningAreQueued, At, IsCancelled
<1> QED
  BY <1>1, <1>2, <1>3

THEOREM StreamsInvHolds == Spec => []StreamsInv
<1>1. StreamsInv /\ [Next]_vars => StreamsInv'
  <2> SUFFICES ASSUME StreamsInv, [Next]_vars PROVE StreamsInv'
    OBVIOUS
  <2>1. CASE Next
    BY <2>1, StreamStepInv, ServerStepInv DEF Next
  <2>2. CASE UNCHANGED vars
    BY <2>2 DEF vars, StreamsInv, StreamsTypeOK, OfAStartedServer, QueuesAreSound,
                  RunningAreQueued, At, IsCancelled, Down
  <2> QED
    BY <2>1, <2>2
<1> QED
  BY InitStreamsInv, <1>1, PTL DEF Spec

\* A queue has no more members than elements.
LEMMA ToSetCardinality ==
    ASSUME NEW q \in Seq(Streams)
    PROVE  IsFiniteSet(ToSet(q)) /\ Cardinality(ToSet(q)) <= Len(q)
<1>1. q \in Surjection(1..Len(q), ToSet(q))
  <2>1. q \in [1..Len(q) -> ToSet(q)]
    BY DEF ToSet
  <2> QED
    BY <2>1 DEF Surjection, ToSet
<1>2. IsFiniteSet(1..Len(q)) /\ Cardinality(1..Len(q)) = Len(q)
  <2>1. Len(q) \in Nat
    OBVIOUS
  <2> QED
    BY <2>1, FS_Interval
<1> QED
  BY <1>1, <1>2, FS_Surjection

\* However many requests come in, a server runs no more live ffmpegs than its cap,
\* and each of them can still be evicted.
THEOREM CapHoldsHolds == Spec => []CapHolds
<1>1. StreamsInv => CapHolds
  <2> SUFFICES ASSUME StreamsInv, NEW v \in Servers
               PROVE  LET running == {s \in Streams :
                              stream[s].server = v /\ At(s, "run") /\ ~IsCancelled(s)}
                      IN  /\ Cardinality(running) <= MaxLive
                          /\ running \subseteq ToSet(live[v])
    BY DEF CapHolds
  <2> DEFINE running == {s \in Streams :
                              stream[s].server = v /\ At(s, "run") /\ ~IsCancelled(s)}
  <2>1. running \in SUBSET ToSet(live[v])
    BY DEF StreamsInv, RunningAreQueued
  <2> HIDE DEF running
  <2>2. live[v] \in Seq(Streams) /\ Len(live[v]) <= MaxLive
    BY DEF StreamsInv, StreamsTypeOK, QueuesAreSound
  <2>3. IsFiniteSet(ToSet(live[v])) /\ Cardinality(ToSet(live[v])) <= Len(live[v])
    BY <2>2, ToSetCardinality
  <2>4. IsFiniteSet(running) /\ Cardinality(running) <= Cardinality(ToSet(live[v]))
    BY <2>1, <2>3, FS_Subset
  <2>5. Cardinality(running) \in Nat /\ Cardinality(ToSet(live[v])) \in Nat
    BY <2>3, <2>4, FS_CardinalityType
  <2>6. Cardinality(running) <= MaxLive
    BY <2>2, <2>3, <2>4, <2>5, BoundsAssumption
  <2> QED
    BY <2>1, <2>6 DEF running
<1> QED
  BY StreamsInvHolds, <1>1, PTL

\* Only the oldest stream makes room.
THEOREM NewestIsKeptHolds == Spec => NewestIsKept
<1> DEFINE MakesRoom ==
      \A s \in Streams :
         stream'[s].at = "run" /\ s \in cancelled' \ cancelled =>
            LET v == stream[s].server IN
            /\ Len(live'[v]) = MaxLive
            /\ \E i \in DOMAIN live[v] :
                 /\ live[v][i] = s
                 /\ \A t \in ToSet(live'[v]) : t \notin ToSet(SubSeq(live[v], 1, i))
<1>1. ASSUME StreamsInv, NEW r \in Streams, Admit(r) PROVE MakesRoom
  <2> SUFFICES ASSUME NEW s \in Streams, s \in cancelled' \ cancelled
               PROVE  LET v == stream[s].server IN
                      /\ Len(live'[v]) = MaxLive
                      /\ \E i \in DOMAIN live[v] :
                           /\ live[v][i] = s
                           /\ \A t \in ToSet(live'[v]) :
                                t \notin ToSet(SubSeq(live[v], 1, i))
    OBVIOUS
  <2> DEFINE w == stream[r].server
             q == live[w]
             I == Uncancelled(q)
  <2>1. /\ w \in Servers /\ q \in Seq(Streams) /\ I \in SUBSET DOMAIN q
        /\ Distinct(q) /\ r \notin ToSet(q)
        /\ live' = [live EXCEPT ![w] = Queue(q, I, r)]
        /\ cancelled' = cancelled \cup ToSet(Evicted(q, I, r))
    BY <1>1, AdmitStep
  <2>2. s \in ToSet(Evicted(q, I, r))
    BY <2>1
  <2>3. ToSet(Evicted(q, I, r)) \subseteq {q[i] : i \in I}
    BY <2>1, NoneForgotten
  <2>4. stream[s].server = w
    BY <1>1, <2>1, <2>2, <2>3 DEF StreamsInv, QueuesAreSound, ToSet
  <2>5. live'[w] = Queue(q, I, r)
    BY <1>1, <2>1 DEF StreamsInv, StreamsTypeOK
  <2>6. Evicted(q, I, r) # <<>>
    BY <2>2 DEF ToSet
  <2>7. Len(live'[w]) = MaxLive
    BY <2>1, <2>5, <2>6, QueueWithinCap
  <2>8. \E i \in DOMAIN q :
           /\ q[i] = s
           /\ \A u \in ToSet(Queue(q, I, r)) : u \notin ToSet(SubSeq(q, 1, i))
    BY <2>1, <2>2, OldestGo
  <2> QED
    BY <2>4, <2>5, <2>7, <2>8
<1>2. ASSUME StreamsInv, NEW r \in Streams,
             \/ Spawn(r) \/ Download(r) \/ Tick(r) \/ Kill(r) \/ BrokenPipe(r)
             \/ FfmpegExits(r) \/ TvCloses(r) \/ TvReads(r) \/ Downloaded(r)
      PROVE  MakesRoom
  <2>1. CASE Tick(r) \/ Kill(r)
    <3>1. cancelled' = cancelled \cup {r} /\ stream' = [stream EXCEPT ![r].at = "over"]
      BY <2>1 DEF Tick, Kill, Go
    <3>2. stream'[r].at = "over"
      BY <1>2, <3>1 DEF StreamsInv, StreamsTypeOK, StreamType
    <3> QED
      BY <3>1, <3>2
  <2>2. CASE ~(Tick(r) \/ Kill(r))
    <3>1. cancelled' = cancelled
      BY <1>2, <2>2 DEF Spawn, Download, Get, BrokenPipe, FfmpegExits, TvCloses, TvReads,
                        Downloaded
    <3> QED
      BY <3>1
  <2> QED
    BY <2>1, <2>2
<1>3. ASSUME Stop \/ Start \/ Terminated \/ UNCHANGED vars PROVE MakesRoom
  <2>1. cancelled' = cancelled
    BY <1>3 DEF Stop, Start, Terminated, vars
  <2> QED
    BY <2>1
<1>4. StreamsInv /\ [Next]_vars => MakesRoom
  BY <1>1, <1>2, <1>3 DEF Next, Step
<1>5. StreamsInv /\ [Next]_vars => [MakesRoom]_vars
  BY <1>4
<1> QED
  BY StreamsInvHolds, <1>5, PTL DEF Spec, NewestIsKept

-------------------------------------------------------------------------------
(* Converted subtitles *)

Points ==
    {"none", "refused", "queue", "check", "look", "remove", "open", "ffmpeg", "verify",
     "rename", "cleanup", "ok", "failing", "mark", "read", "served", "garbled", "gone"}

Handlers == [at : Points, server : Nat, tries : Int, out : Requests \cup {None}]

SubsTypeOK ==
    /\ req \in [Requests -> Handlers]
    /\ server \in Nat /\ starts \in Nat \ {0}
    /\ partFile \in Requests \cup {None} /\ vtt \in Requests \cup {None}
    /\ file \in [Requests -> {"none", "partial", "mixed", "whole"}]

\* The lock of a server is held by one handler.
OneHolder ==
    \A r, q \in Requests :
       /\ req[r].at \in Subs!Locked /\ req[q].at \in Subs!Locked
       /\ req[r].server = req[q].server
       => r = q

LockInv == SubsTypeOK /\ OneHolder

\* What a conversion has made of its output so far; the output is a file of its own,
\* which `stop` may have taken from it.
OutputIsOwn ==
    \A r \in Requests :
       /\ req[r].at = "open" => partFile = None
       /\ req[r].at = "ffmpeg" =>
            partFile \in {r, None} /\ req[r].out = r /\ file[r] = "partial"
       /\ req[r].at \in {"verify", "rename"} =>
            partFile = None \/ (partFile = r /\ file[r] = "whole")

\* A track in its place is whole, and no conversion underway will write to it.
TrackIsWhole ==
    /\ vtt # None => file[vtt] = "whole"
    /\ \A r \in Requests :
         req[r].at \in {"none", "queue", "check", "look", "remove", "open", "ffmpeg",
                        "verify", "rename"} => vtt # r
    /\ \A r \in Requests : ~Subs!At(r, "garbled")

TrackInv == OutputIsOwn /\ TrackIsWhole

LEMMA InitSubsInv == Subs!Init => LockInv /\ TrackInv
BY SubsAssumption
   DEF Subs!BoundsAssumption, Subs!Init, Subs!Idle, Subs!At, Subs!Locked, LockInv, SubsTypeOK,
       Handlers, Points, OneHolder, TrackInv, OutputIsOwn, TrackIsWhole

\* A handler that changes the files holds its lock.
LEMMA ConvertersHoldTheLock ==
    ASSUME NEW r \in Requests
    PROVE  Subs!Converting(r) => req[r].at \in Subs!Locked
BY DEF Subs!Converting, Subs!Locked

\* So, while conversions do not cross, one handler at a time changes them.
LEMMA ConvertersAreAlone ==
    ASSUME LockInv, ~Subs!Crossing, NEW r \in Requests, NEW q \in Requests,
           Subs!Converting(r), Subs!Converting(q)
    PROVE  r = q
BY ConvertersHoldTheLock DEF LockInv, OneHolder, Subs!Crossing

\* One step of a handler keeps the types; it comes to hold the lock of its server
\* only by taking it.
LEMMA HandlerMoves ==
    ASSUME LockInv, NEW r \in Requests, Subs!Ask(r) \/ Subs!Step(r) \/ Subs!Drop(r)
    PROVE  /\ SubsTypeOK'
           /\ \A q \in Requests \ {r} : req'[q] = req[q]
           /\ req'[r].at \in Subs!Locked =>
                /\ req'[r].server = req[r].server
                /\ req[r].at \in Subs!Locked \/ Subs!Holder(req[r].server) = {}
<1> USE SubsAssumption
    DEF Subs!BoundsAssumption, Subs!At, Subs!Locked, Subs!diskVars, LockInv, SubsTypeOK,
        Handlers, Points, Subs!Go
<1>0. ASSUME Subs!NextAttempt(r)
      PROVE  /\ req' \in [Requests -> Handlers]
             /\ \A q \in Requests \ {r} : req'[q] = req[q]
             /\ req'[r].server = req[r].server
  BY <1>0 DEF Subs!NextAttempt
<1>1. CASE Subs!Ask(r)
  <2>1. PICK s \in 1..starts :
           req' = [req EXCEPT ![r] = [at |-> IF s \in failed THEN "refused" ELSE "queue",
                                      server |-> s, tries |-> Attempts, out |-> None]]
    BY <1>1 DEF Subs!Ask
  <2> QED
    BY <1>1, <2>1 DEF Subs!Ask
<1>2. CASE Subs!Lock(r)
  BY <1>2 DEF Subs!Lock
<1>3. CASE Subs!CheckFailed(r)
  BY <1>3 DEF Subs!CheckFailed
<1>4. CASE Subs!Look(r)
  BY <1>4 DEF Subs!Look
<1>5. CASE Subs!RemovePart(r)
  BY <1>5 DEF Subs!RemovePart
<1>6. CASE Subs!OpenPart(r)
  <2>1. PICK out \in Requests :
           /\ partFile' = out
           /\ file' = [file EXCEPT ![out] = IF Subs!Writing(out) THEN "mixed" ELSE "partial"]
           /\ req' = [req EXCEPT ![r].at = "ffmpeg", ![r].out = out]
           /\ UNCHANGED <<server, starts, vtt>> /\ req[r].at = "open"
    BY <1>6 DEF Subs!OpenPart
  <2> DEFINE h == [req[r] EXCEPT !.at = "ffmpeg", !.out = out]
  <2>2. h \in Handlers /\ h.at = "ffmpeg" /\ h.server = req[r].server
    OBVIOUS
  <2>3. req' = [req EXCEPT ![r] = h]
    BY <2>1, Zenon
  <2>4. file' \in [Requests -> {"none", "partial", "mixed", "whole"}]
    BY <2>1
  <2> HIDE DEF h
  <2>5. /\ req' \in [Requests -> Handlers] /\ \A q \in Requests \ {r} : req'[q] = req[q]
        /\ req'[r].at = "ffmpeg" /\ req'[r].server = req[r].server
    BY <2>2, <2>3 DEF Handlers
  <2>6. SubsTypeOK'
    BY <2>1, <2>4, <2>5
  <2> QED
    BY <2>1, <2>5, <2>6
<1>7. CASE Subs!OpenFails(r)
  BY <1>0, <1>7 DEF Subs!OpenFails
<1>8. CASE Subs!Convert(r)
  <2>1. CASE Subs!NextAttempt(r) /\ UNCHANGED file
    BY <1>0, <1>8, <2>1 DEF Subs!Convert
  <2>2. CASE /\ file' = [file EXCEPT ![req[r].out] = IF @ = "partial" THEN "whole" ELSE @]
             /\ Subs!Go(r, "verify")
    <3>1. req[r].at = "ffmpeg" /\ UNCHANGED <<server, starts, partFile, vtt>>
      BY <1>8 DEF Subs!Convert
    <3>2. file' \in [Requests -> {"none", "partial", "mixed", "whole"}]
      BY <2>2
    <3>3. /\ req' \in [Requests -> Handlers] /\ \A q \in Requests \ {r} : req'[q] = req[q]
          /\ req'[r].at = "verify" /\ req'[r].server = req[r].server
      BY <2>2
    <3> QED
      BY <3>1, <3>2, <3>3
  <2> QED
    BY <1>8, <2>1, <2>2 DEF Subs!Convert
<1>9. CASE Subs!Verify(r)
  BY <1>0, <1>9 DEF Subs!Verify
<1>10. CASE Subs!Rename(r)
  BY <1>0, <1>10 DEF Subs!Rename
<1>11. CASE Subs!CleanUp(r)
  BY <1>11 DEF Subs!CleanUp
<1>12. CASE Subs!Unlock(r)
  BY <1>12 DEF Subs!Unlock
<1>13. CASE Subs!Mark(r)
  BY <1>13 DEF Subs!Mark
<1>14. CASE Subs!Serve(r)
  BY <1>14 DEF Subs!Serve
<1>15. CASE Subs!Drop(r)
  BY <1>15 DEF Subs!Drop
<1> QED
  BY <1>1, <1>2, <1>3, <1>4, <1>5, <1>6, <1>7, <1>8, <1>9, <1>10, <1>11, <1>12, <1>13,
     <1>14, <1>15 DEF Subs!Step

\* The daemon's steps leave the handlers where they are.
LEMMA RestartMoves ==
    ASSUME LockInv, Subs!Stop \/ Subs!Start \/ UNCHANGED Subs!vars
    PROVE  SubsTypeOK' /\ UNCHANGED <<req, file>> /\ vtt' \in {vtt, None}
           /\ partFile' \in {partFile, None}
<1> USE SubsAssumption DEF Subs!BoundsAssumption, Subs!diskVars, LockInv, SubsTypeOK
<1>1. CASE Subs!Stop
  BY <1>1 DEF Subs!Stop
<1>2. CASE Subs!Start
  BY <1>2 DEF Subs!Start
<1>3. CASE UNCHANGED Subs!vars
  BY <1>3 DEF Subs!vars
<1> QED
  BY <1>1, <1>2, <1>3

LEMMA NextSubsCases ==
    ASSUME [Subs!Next]_(Subs!vars)
    PROVE  \/ \E r \in Requests : Subs!Ask(r) \/ Subs!Step(r) \/ Subs!Drop(r)
           \/ Subs!Stop \/ Subs!Start \/ UNCHANGED Subs!vars
BY DEF Subs!Next, Subs!Terminated

LEMMA LockInvNext ==
    ASSUME LockInv, [Subs!Next]_(Subs!vars)
    PROVE  LockInv'
<1>1. ASSUME NEW r \in Requests, Subs!Ask(r) \/ Subs!Step(r) \/ Subs!Drop(r)
      PROVE  LockInv'
  <2>1. /\ SubsTypeOK'
        /\ \A q \in Requests \ {r} : req'[q] = req[q]
        /\ req'[r].at \in Subs!Locked =>
             /\ req'[r].server = req[r].server
             /\ req[r].at \in Subs!Locked \/ Subs!Holder(req[r].server) = {}
    BY <1>1, HandlerMoves
  <2>2. OneHolder'
    BY <2>1 DEF LockInv, OneHolder, Subs!Holder, Subs!Locked
  <2> QED
    BY <2>1, <2>2 DEF LockInv
<1>2. CASE Subs!Stop \/ Subs!Start \/ UNCHANGED Subs!vars
  BY <1>2, RestartMoves DEF LockInv, OneHolder, Subs!Locked
<1> QED
  BY <1>1, <1>2, NextSubsCases

THEOREM LockInvHolds == Subs!Spec => []LockInv
<1>1. LockInv /\ [Subs!Next]_(Subs!vars) => LockInv'
  BY LockInvNext
<1>2. Subs!Init => LockInv
  BY InitSubsInv
<1> QED
  BY <1>1, <1>2, PTL DEF Subs!Spec

\* The files.  Those that convert are alone, while conversions do not cross.
LEMMA HandlerKeepsTracks ==
    ASSUME LockInv, TrackInv, ~Subs!Crossing, NEW r \in Requests,
           Subs!Ask(r) \/ Subs!Step(r) \/ Subs!Drop(r)
    PROVE  TrackInv'
<1>a. \A q \in Requests : Subs!Converting(r) /\ Subs!Converting(q) => q = r
  BY ConvertersAreAlone
<1>b. SubsTypeOK /\ SubsTypeOK' /\ \A q \in Requests \ {r} : req'[q] = req[q]
  BY HandlerMoves DEF LockInv
<1> USE SubsAssumption
    DEF Subs!BoundsAssumption, Subs!At, Subs!diskVars, Subs!Converting, SubsTypeOK, Handlers,
        TrackInv, OutputIsOwn, TrackIsWhole, Subs!Go
<1>1. CASE Subs!Ask(r)
  <2>1. req'[r].at \in {"refused", "queue"} /\ req[r].at = "none"
        /\ UNCHANGED <<partFile, vtt, file>>
    BY <1>1, <1>b DEF Subs!Ask
  <2> QED
    BY <1>b, <2>1
<1>2. CASE Subs!Lock(r)
  BY <1>2, <1>b DEF Subs!Lock
<1>3. CASE Subs!CheckFailed(r)
  BY <1>3, <1>b DEF Subs!CheckFailed
<1>4. CASE Subs!Look(r)
  BY <1>4, <1>b DEF Subs!Look
<1>5. CASE Subs!RemovePart(r)
  BY <1>5, <1>a, <1>b DEF Subs!RemovePart
<1>6. CASE Subs!OpenPart(r)
  <2>1. partFile = None /\ req[r].at = "open" /\ ~Subs!Writing(r)
    BY <1>6, <1>a DEF Subs!OpenPart, Subs!Writing
  <2>2. /\ partFile' = r /\ file' = [file EXCEPT ![r] = "partial"] /\ vtt # r
        /\ req' = [req EXCEPT ![r].at = "ffmpeg", ![r].out = r] /\ vtt' = vtt
    BY <1>6, <2>1 DEF Subs!OpenPart
  <2>3. \A q \in Requests \ {r} : req[q].at \notin {"open", "ffmpeg", "verify", "rename"}
    BY <1>a, <2>1
  <2>4. file'[r] = "partial" /\ \A q \in Requests \ {r} : file'[q] = file[q]
    BY <1>b, <2>2
  <2>5. req'[r].at = "ffmpeg" /\ req'[r].out = r
    BY <1>b, <2>2
  <2>6. OutputIsOwn'
    BY <1>b, <2>2, <2>3, <2>4, <2>5
  <2>7. TrackIsWhole'
    BY <1>b, <2>1, <2>2, <2>4, <2>5
  <2> QED
    BY <2>6, <2>7
<1>0. ASSUME Subs!NextAttempt(r), req[r].at \in {"open", "ffmpeg", "verify", "rename"},
             UNCHANGED <<partFile, vtt, file>>
      PROVE  TrackInv'
  <2>1. req'[r].at \in {"remove", "cleanup"}
    BY <1>0, <1>b DEF Subs!NextAttempt
  <2> QED
    BY <1>0, <1>b, <2>1
<1>7. CASE Subs!OpenFails(r)
  BY <1>0, <1>7 DEF Subs!OpenFails
<1>8. CASE Subs!Convert(r)
  <2>1. CASE Subs!NextAttempt(r) /\ UNCHANGED file
    BY <1>0, <1>8, <2>1 DEF Subs!Convert
  <2>2. CASE /\ file' = [file EXCEPT ![req[r].out] = IF @ = "partial" THEN "whole" ELSE @]
             /\ Subs!Go(r, "verify")
    <3>1. req[r].at = "ffmpeg" /\ UNCHANGED <<partFile, vtt>>
      BY <1>8 DEF Subs!Convert
    <3>2. req[r].out = r /\ file[r] = "partial" /\ vtt # r /\ partFile \in {r, None}
      BY <3>1
    <3>3. /\ file'[r] = "whole" /\ \A q \in Requests \ {r} : file'[q] = file[q]
          /\ req'[r].at = "verify"
      BY <1>b, <2>2, <3>2
    <3>4. OutputIsOwn'
      BY <1>a, <1>b, <3>1, <3>2, <3>3
    <3>5. TrackIsWhole'
      BY <1>b, <3>1, <3>2, <3>3
    <3> QED
      BY <3>4, <3>5
  <2> QED
    BY <1>8, <2>1, <2>2 DEF Subs!Convert
<1>9. CASE Subs!Verify(r)
  <2>1. CASE Subs!Go(r, "rename")
    BY <1>9, <1>b, <2>1 DEF Subs!Verify
  <2>2. CASE Subs!NextAttempt(r)
    BY <1>0, <1>9, <2>2 DEF Subs!Verify
  <2> QED
    BY <1>9, <2>1, <2>2 DEF Subs!Verify
<1>10. CASE Subs!Rename(r)
  <2>1. CASE partFile = None
    BY <1>0, <1>10, <2>1 DEF Subs!Rename
  <2>2. CASE partFile # None
    <3>1. partFile = r /\ file[r] = "whole" /\ req[r].at = "rename"
      BY <1>10, <2>2 DEF Subs!Rename
    <3>2. vtt' = r /\ partFile' = None /\ req'[r].at = "ok" /\ file' = file
      BY <1>10, <1>b, <3>1 DEF Subs!Rename
    <3>3. OutputIsOwn'
      BY <1>a, <1>b, <3>1, <3>2
    <3>4. TrackIsWhole'
      BY <1>b, <3>1, <3>2
    <3> QED
      BY <3>3, <3>4
  <2> QED
    BY <2>1, <2>2
<1>11. CASE Subs!CleanUp(r)
  BY <1>11, <1>a, <1>b DEF Subs!CleanUp
<1>12. CASE Subs!Unlock(r)
  BY <1>12, <1>b DEF Subs!Unlock
<1>13. CASE Subs!Mark(r)
  BY <1>13, <1>b DEF Subs!Mark
<1>14. CASE Subs!Serve(r)
  BY <1>14, <1>b DEF Subs!Serve
<1>15. CASE Subs!Drop(r)
  BY <1>15, <1>b DEF Subs!Drop
<1> QED
  BY <1>1, <1>2, <1>3, <1>4, <1>5, <1>6, <1>7, <1>8, <1>9, <1>10, <1>11, <1>12, <1>13,
     <1>14, <1>15 DEF Subs!Step

LEMMA TrackInvNext ==
    ASSUME LockInv, TrackInv, ~Subs!Crossing, [Subs!Next]_(Subs!vars)
    PROVE  TrackInv'
<1>1. CASE Subs!Stop \/ Subs!Start \/ UNCHANGED Subs!vars
  <2>1. /\ UNCHANGED <<req, file>> /\ vtt' \in {vtt, None} /\ partFile' \in {partFile, None}
        /\ None \notin Requests
    BY <1>1, RestartMoves, SubsAssumption DEF Subs!BoundsAssumption
  <2>2. OutputIsOwn'
    BY <2>1 DEF TrackInv, OutputIsOwn
  <2>3. TrackIsWhole'
    BY <2>1 DEF TrackInv, TrackIsWhole, Subs!At
  <2> QED
    BY <2>2, <2>3 DEF TrackInv
<1> QED
  BY <1>1, HandlerKeepsTracks, NextSubsCases

\* Unless conversions of two servers cross, what is served is whole, also when
\* handlers outlive their server and `stop` takes the files from under them
\* (media_server.rs, MediaServer::stop; subtitles.rs, ensure_vtt).
THEOREM WholeUnlessCrossedHolds == Subs!Spec => WholeUnlessCrossed
<1>1. Subs!Init => TrackInv
  BY InitSubsInv
<1>2. LockInv /\ ~Subs!Crossing /\ TrackInv /\ [Subs!Next]_(Subs!vars) => TrackInv'
  BY TrackInvNext
<1>3. TrackInv => Subs!ServedIsWhole
  BY DEF TrackInv, TrackIsWhole, Subs!ServedIsWhole
<1> QED
  BY <1>1, <1>2, <1>3, LockInvHolds, PTL
  DEF Subs!Spec, WholeUnlessCrossed, Subs!WholeUnlessCrossed

\* The lock of a server serialises its conversions, for any number of requests and
\* servers, also when the server has ended (media_server.rs, ServerConfig::convert).
THEOREM OneConversionOfAServerHolds == Subs!Spec => []OneConversionOfAServer
<1>1. LockInv => OneConversionOfAServer
  BY DEF LockInv, OneHolder, OneConversionOfAServer, Subs!OneConversionOfAServer, Subs!At,
         Subs!Locked
<1> QED
  BY LockInvHolds, <1>1, PTL
===============================================================================
