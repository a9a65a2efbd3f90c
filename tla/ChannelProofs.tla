--------------------------- MODULE ChannelProofs ---------------------------
(***************************************************************************)
(* Proofs about the channel layer of a node with one device: its positions *)
(* stay right, what it decodes are frames of the stream, and it misses     *)
(* none.                                                                   *)
(***************************************************************************)
EXTENDS ChannelInv, SequenceLemmas, FiniteSetTheorems, WellFoundedInduction

(***************************************************************************)
(* Least elements, and the choice of some elements of a list.              *)
(***************************************************************************)

\* A set of natural numbers has a least element.
LEMMA Least ==
  ASSUME NEW T, T \subseteq Nat, T # {}
  PROVE  \E x \in T : \A y \in T : x <= y
<1>1. PICK t \in T : TRUE
  OBVIOUS
<1> DEFINE S == 0 .. t
           F == {0 .. x : x \in {y \in T : y <= t}}
<1>2. IsWellFoundedOn(StrictSubsetOrdering(S), FiniteSubsetsOf(S))
  BY FS_StrictSubsetOrderingWellFounded
<1>3. F \subseteq FiniteSubsetsOf(S) /\ F # {}
  <2>1. IsFiniteSet(S)
    BY <1>1, FS_Interval
  <2> QED
    BY <1>1, <2>1, FS_Subset DEF FiniteSubsetsOf
<1>4. PICK m \in F : \A n \in F : <<n, m>> \notin StrictSubsetOrdering(S)
  <2> HIDE DEF F, S
  <2> QED
    BY <1>2, <1>3, WFMin
<1>5. PICK x \in T : x <= t /\ m = 0 .. x
  BY <1>4
<1>6. ASSUME NEW y \in T, y < x PROVE FALSE
  <2>1. 0 .. y \in F
    BY <1>5, <1>6
  <2>2. <<0 .. y, 0 .. x>> \notin StrictSubsetOrdering(S)
    BY <1>4, <1>5, <2>1
  <2>3. 0 .. y \subseteq 0 .. x /\ 0 .. x \subseteq S /\ x \in 0 .. x /\ x \notin 0 .. y
    BY <1>1, <1>5, <1>6
  <2> QED
    BY <2>2, <2>3 DEF StrictSubsetOrdering
<1> QED
  BY <1>5, <1>6

\* How many of a set of places are not behind place k.
Rank(K, k) == Cardinality(K \cap 1 .. k)

\* How ranks grow: by one at each place of the set.
LEMMA RankProperties ==
  ASSUME NEW n \in Nat, NEW K \in SUBSET (1 .. n)
  PROVE  /\ IsFiniteSet(K) /\ Cardinality(K) \in Nat
         /\ \A k \in 0 .. n : Rank(K, k) \in Nat /\ Rank(K, k) <= Cardinality(K)
         /\ Rank(K, 0) = 0 /\ Rank(K, n) = Cardinality(K)
         /\ \A k \in 1 .. n : Rank(K, k) = Rank(K, k - 1) + IF k \in K THEN 1 ELSE 0
<1>1. IsFiniteSet(K) /\ Cardinality(K) \in Nat
  <2>1. IsFiniteSet(1 .. n)
    BY FS_Interval
  <2>2. IsFiniteSet(K)
    BY <2>1, FS_Subset
  <2> QED
    BY <2>2, FS_CardinalityType
<1>2. \A k \in 0 .. n : /\ IsFiniteSet(K \cap 1 .. k) /\ Rank(K, k) \in Nat
                        /\ Rank(K, k) <= Cardinality(K)
  <2> TAKE k \in 0 .. n
  <2>1. K \cap 1 .. k \in SUBSET K
    OBVIOUS
  <2> QED
    BY <1>1, <2>1, FS_Subset, FS_CardinalityType DEF Rank
<1>3. Rank(K, 0) = 0 /\ Rank(K, n) = Cardinality(K)
  <2>1. 1 .. 0 = {}
    OBVIOUS
  <2>2. K \cap 1 .. 0 = {} /\ K \cap 1 .. n = K
    BY <2>1
  <2> QED
    BY <2>2, FS_EmptySet DEF Rank
<1>4. ASSUME NEW k \in 1 .. n
      PROVE  Rank(K, k) = Rank(K, k - 1) + IF k \in K THEN 1 ELSE 0
  <2>1. k - 1 \in 0 .. n /\ k \notin K \cap 1 .. (k - 1)
    BY <1>4
  <2>2. K \cap 1 .. k = IF k \in K THEN (K \cap 1 .. (k - 1)) \cup {k} ELSE K \cap 1 .. (k - 1)
    BY <1>4
  <2>3. Cardinality((K \cap 1 .. (k - 1)) \cup {k}) = Rank(K, k - 1) + 1
    BY <1>2, <2>1, FS_AddElement DEF Rank
  <2> QED
    BY <1>2, <2>1, <2>2, <2>3 DEF Rank
<1> QED
  BY <1>1, <1>2, <1>3, <1>4

\* Ranks do not decrease.
LEMMA RankMonotone ==
  ASSUME NEW n \in Nat, NEW K \in SUBSET (1 .. n), NEW j \in 0 .. n, NEW k \in 0 .. n, j <= k
  PROVE  Rank(K, j) <= Rank(K, k)
<1>1. K \cap 1 .. j \in SUBSET (K \cap 1 .. k) /\ IsFiniteSet(K \cap 1 .. k)
  BY RankProperties, FS_Subset
<1> QED
  BY <1>1, FS_Subset DEF Rank

\* Places of different elements have different ranks, in the same order.
LEMMA RankStrict ==
  ASSUME NEW n \in Nat, NEW K \in SUBSET (1 .. n), NEW j \in K, NEW k \in K, j < k
  PROVE  Rank(K, j) < Rank(K, k)
<1>1. k - 1 \in 0 .. n /\ j \in 0 .. n /\ j <= k - 1 /\ k \in 1 .. n /\ k \in 0 .. n
  OBVIOUS
<1>2. Rank(K, j) <= Rank(K, k - 1)
  BY <1>1, RankMonotone
<1>3. Rank(K, k) = Rank(K, k - 1) + 1 /\ Rank(K, j) \in Nat /\ Rank(K, k - 1) \in Nat
  BY <1>1, RankProperties
<1> QED
  BY <1>2, <1>3

\* Every rank up to the number of places is one of a place.
LEMMA RankExists ==
  ASSUME NEW n \in Nat, NEW K \in SUBSET (1 .. n), NEW i \in 1 .. Cardinality(K)
  PROVE  \E k \in K : Rank(K, k) = i
<1> DEFINE T == {k \in 0 .. n : i <= Rank(K, k)}
<1>1. n \in T /\ T \subseteq Nat
  <2>1. Cardinality(K) \in Nat /\ Rank(K, n) = Cardinality(K)
    BY RankProperties
  <2> QED
    BY <2>1
<1>2. PICK k \in T : \A j \in T : k <= j
  <2> HIDE DEF T
  <2> QED
    BY <1>1, Least
<1>3. k # 0
  <2>1. Rank(K, 0) = 0
    BY RankProperties
  <2> QED
    BY <2>1
<1>4. k \in 1 .. n /\ k - 1 \in 0 .. n /\ k - 1 \notin T
  BY <1>2, <1>3
<1>5. Rank(K, k) = Rank(K, k - 1) + IF k \in K THEN 1 ELSE 0
  BY <1>4, RankProperties
<1>6. Rank(K, k) \in Nat /\ Rank(K, k - 1) \in Nat /\ Cardinality(K) \in Nat
  BY <1>4, RankProperties, ZenonT(60)
<1>7. i <= Rank(K, k) /\ Rank(K, k - 1) < i
  BY <1>4, <1>6
<1>8. k \in K /\ Rank(K, k) = i
  BY <1>5, <1>6, <1>7
<1> QED
  BY <1>8

\* What Only leaves of a list: those elements and no others, in the same order.
IsPart(part, list, K) ==
    /\ \A i \in DOMAIN part : \E k \in K : part[i] = list[k]
    /\ \A k \in K : \E i \in DOMAIN part : part[i] = list[k]
    /\ \A i, j \in DOMAIN part :
          i < j => \E k, l \in K : k < l /\ part[i] = list[k] /\ part[j] = list[l]

\* Only picks the elements at its places and keeps their order.
LEMMA OnlyIsPart ==
  ASSUME NEW S, NEW list \in Seq(S), NEW K \in SUBSET (1 .. Len(list))
  PROVE  Only(list, K) \in Seq(S) /\ IsPart(Only(list, K), list, K)
<1> DEFINE n == Len(list)
           at(i) == CHOOSE k \in K : Rank(K, k) = i
           part == [i \in 1 .. Cardinality(K) |-> list[at(i)]]
<1>1. Only(list, K) = part
  BY DEF Only, Rank
<1>2. n \in Nat /\ Cardinality(K) \in Nat /\ list \in [1 .. n -> S]
  BY RankProperties, LenProperties
<1>3. \A i \in 1 .. Cardinality(K) : at(i) \in K /\ Rank(K, at(i)) = i
  BY <1>2, RankExists
<1>4. part \in Seq(S) /\ DOMAIN part = 1 .. Cardinality(K)
  <2> HIDE DEF at
  <2>1. part \in [1 .. Cardinality(K) -> S]
    BY <1>2, <1>3
  <2> QED
    BY <1>2, <2>1
<1>5. ASSUME NEW k \in K PROVE \E i \in DOMAIN part : part[i] = list[k]
  <2>1. Rank(K, k) \in 1 .. Cardinality(K)
    <3>1. k \in 1 .. n /\ k \in 0 .. n /\ k - 1 \in 0 .. n
      BY <1>2
    <3>2. /\ Rank(K, k) = Rank(K, k - 1) + 1 /\ Rank(K, k - 1) \in Nat
          /\ Rank(K, k) <= Cardinality(K)
      BY <1>2, <3>1, RankProperties
    <3> QED
      BY <1>2, <3>2
  <2>2. at(Rank(K, k)) \in K /\ Rank(K, at(Rank(K, k))) = Rank(K, k)
    BY <1>3, <2>1
  <2>3. at(Rank(K, k)) = k
    <3> HIDE DEF at
    <3> DEFINE l == at(Rank(K, k))
    <3>1. l \in K /\ Rank(K, l) = Rank(K, k)
      BY <2>2
    <3> HIDE DEF l
    <3>2. Rank(K, k) \in Nat /\ l \in 1 .. n /\ k \in 1 .. n
      BY <1>2, <2>1, <3>1
    <3>3. \A i, j \in K : i < j => Rank(K, i) < Rank(K, j)
      BY <1>2, RankStrict
    <3>4. ~ (l < k)
      BY <3>2, <3>1, <3>3
    <3>5. ~ (k < l)
      BY <3>2, <3>1, <3>3
    <3>6. l = k
      BY <3>2, <3>4, <3>5
    <3> QED
      BY <3>6 DEF l
  <2> QED
    BY <1>4, <2>1, <2>3
<1>6. ASSUME NEW i \in DOMAIN part, NEW j \in DOMAIN part, i < j
      PROVE  at(i) < at(j)
  <2>1. /\ at(i) \in K /\ at(j) \in K /\ Rank(K, at(i)) = i /\ Rank(K, at(j)) = j
        /\ i \in Nat /\ j \in Nat
    BY <1>2, <1>3, <1>4
  <2>2. at(i) \in 1 .. n /\ at(j) \in 1 .. n
    BY <2>1
  <2> SUFFICES ASSUME at(j) <= at(i) PROVE FALSE
    BY <1>2, <2>2
  <2> HIDE DEF at
  <2>3. CASE at(j) = at(i)
    BY <1>6, <2>1, <2>3
  <2>4. CASE at(j) # at(i)
    <3>1. at(j) < at(i)
      BY <1>2, <2>2, <2>4
    <3>2. j < i
      BY <1>2, <2>1, <3>1, RankStrict
    <3> QED
      BY <1>6, <2>1, <3>2
  <2> QED
    BY <2>3, <2>4
<1>7. ASSUME NEW i \in DOMAIN part PROVE part[i] = list[at(i)] /\ at(i) \in K
  BY <1>3, <1>4
<1> HIDE DEF at, part
<1>8. IsPart(part, list, K)
  BY <1>5, <1>6, <1>7 DEF IsPart
<1> QED
  BY <1>1, <1>4, <1>8

-----------------------------------------------------------------------------
(* Arithmetic, and bytes of a sequence that are the end of another *)

\* Sums and differences of sizes and offsets.
LEMMA Sums ==
  /\ \A a, b \in Nat : a + b \in Nat /\ a <= a + b /\ b <= a + b
  /\ \A a, b, c \in Nat : (a + b) + c = a + (b + c)
  /\ \A a, b, c \in Nat : (a + b - c) + c = a + b
  /\ \A a, b, c \in Nat : a + b <= c + b <=> a <= c
  /\ \A a, b, c \in Nat : a + b < a + c <=> b < c
OBVIOUS

\* A part of the end of a sequence is a part of the sequence.
LEMMA SubSeqOfEnd ==
  ASSUME NEW S, NEW long \in Seq(S), NEW short \in Seq(S), NEW offset \in Nat,
         Len(short) + offset = Len(long),
         \A i \in 1 .. Len(short) : short[i] = long[offset + i],
         NEW b \in Nat, NEW e \in Nat, b <= e, e <= Len(short)
  PROVE  /\ SubSeq(short, b + 1, e) = SubSeq(long, offset + b + 1, offset + e)
         /\ SubSeq(short, b + 1, e) \in Seq(S)
         /\ Len(SubSeq(short, b + 1, e)) = e - b
<1>1. Len(short) \in Nat /\ Len(long) \in Nat
  BY LenProperties
<1>2. /\ \A i \in b + 1 .. e : short[i] \in S
      /\ \A i \in offset + b + 1 .. offset + e : long[i] \in S
  BY <1>1, ElementOfSeq
<1>3. /\ SubSeq(short, b + 1, e) \in Seq(S)
      /\ Len(SubSeq(short, b + 1, e)) = e - b
      /\ \A i \in 1 .. e - b : SubSeq(short, b + 1, e)[i] = short[b + i]
  <2>1. /\ SubSeq(short, b + 1, e) \in Seq(S)
        /\ Len(SubSeq(short, b + 1, e)) = IF b + 1 <= e THEN e - (b + 1) + 1 ELSE 0
        /\ \A i \in 1 .. e - (b + 1) + 1 : SubSeq(short, b + 1, e)[i] = short[(b + 1) + i - 1]
    BY <1>2, SubSeqProperties
  <2>2. /\ e - (b + 1) + 1 = e - b
        /\ \A i \in 1 .. e - b : (b + 1) + i - 1 = b + i
    OBVIOUS
  <2> QED
    BY <2>1, <2>2
<1>4. /\ SubSeq(long, offset + b + 1, offset + e) \in Seq(S)
      /\ Len(SubSeq(long, offset + b + 1, offset + e)) = e - b
      /\ \A i \in 1 .. e - b :
            SubSeq(long, offset + b + 1, offset + e)[i] = long[offset + (b + i)]
  <2> DEFINE x == offset + b + 1
             y == offset + e
  <2>1. /\ SubSeq(long, x, y) \in Seq(S)
        /\ Len(SubSeq(long, x, y)) = IF x <= y THEN y - x + 1 ELSE 0
        /\ \A i \in 1 .. y - x + 1 : SubSeq(long, x, y)[i] = long[x + i - 1]
    <3>1. x \in Int /\ y \in Int /\ \A i \in x .. y : long[i] \in S
      BY <1>2
    <3> HIDE DEF x, y
    <3> QED
      BY <3>1, SubSeqProperties
  <2>2. /\ y - x + 1 = e - b
        /\ \A i \in 1 .. e - b : x + i - 1 = offset + (b + i)
        /\ (IF x <= y THEN y - x + 1 ELSE 0) = e - b
    OBVIOUS
  <2> HIDE DEF x, y
  <2>3. /\ SubSeq(long, x, y) \in Seq(S)
        /\ Len(SubSeq(long, x, y)) = e - b
        /\ \A i \in 1 .. e - b : SubSeq(long, x, y)[i] = long[offset + (b + i)]
    BY <2>1, <2>2
  <2> QED
    BY <2>3 DEF x, y
<1>5. \A i \in 1 .. e - b : short[b + i] = long[offset + (b + i)]
  BY <1>1
<1>6. SubSeq(short, b + 1, e) = SubSeq(long, offset + b + 1, offset + e)
  BY <1>3, <1>4, <1>5, SeqEqual
<1> QED
  BY <1>3, <1>6

-----------------------------------------------------------------------------
(* One device *)

\* A header has at least one byte.
LEMMA Sizes == HeaderSize \in Nat /\ 1 <= HeaderSize
BY ChannelAssumption

\* What the first byte of a header says.
LEMMA HeaderTypes ==
  \A b \in DOMAIN Header : Header[b] \in [size : Nat, checksum : Seq(Byte)]
BY ChannelAssumption

USE Sizes

\* With one device there is no other.
LEMMA OneDevice ==
  ASSUME Devices = 1
  PROVE  Device = {1}
BY DEF Device

\* What skip() leaves.
LEMMA SkipProperties ==
  ASSUME NEW S, NEW bytes \in Seq(S), NEW n \in 0 .. Len(bytes)
  PROVE  /\ Skip(bytes, n) \in Seq(S)
         /\ Len(Skip(bytes, n)) = Len(bytes) - n
         /\ \A i \in 1 .. Len(bytes) - n : Skip(bytes, n)[i] = bytes[n + i]
<1>1. n + 1 \in Int /\ Len(bytes) \in Int /\ n \in Nat /\ n <= Len(bytes)
  BY LenProperties
<1>2. \A i \in n + 1 .. Len(bytes) : bytes[i] \in S
  BY <1>1, ElementOfSeq
<1>3. /\ Skip(bytes, n) \in Seq(S)
      /\ Len(Skip(bytes, n)) = IF n + 1 <= Len(bytes) THEN Len(bytes) - (n + 1) + 1 ELSE 0
      /\ \A i \in 1 .. Len(bytes) - (n + 1) + 1 : Skip(bytes, n)[i] = bytes[(n + 1) + i - 1]
  BY <1>1, <1>2, SubSeqProperties DEF Skip
<1>4. \A i \in 1 .. Len(bytes) - n :
         i \in 1 .. Len(bytes) - (n + 1) + 1 /\ (n + 1) + i - 1 = n + i
  BY <1>1
<1> QED
  BY <1>1, <1>3, <1>4

\* What a header says, and where its frame ends.
LEMMA HeaderSays ==
  ASSUME NEW h, stream[1] \in Seq(Byte), HeaderAt(h)
  PROVE  /\ h \in Nat /\ h < Len(Bytes) /\ Len(Bytes) \in Nat
         /\ Header[Bytes[h + 1]] \in [size : Nat, checksum : Seq(Byte)]
         /\ EndOf(h) \in Nat /\ h + HeaderSize <= EndOf(h)
<1>1. Len(Bytes) \in Nat
  BY LenProperties DEF Bytes
<1>2. h \in Nat /\ h < Len(Bytes) /\ Header[Bytes[h + 1]] \in [size : Nat, checksum : Seq(Byte)]
  BY <1>1, HeaderTypes DEF HeaderAt
<1> QED
  BY <1>1, <1>2 DEF EndOf

\* Headers in the buffer are headers of the stream.
LEMMA HeadersInStream ==
  ASSUME stream[1] \in Seq(Byte),
         NEW bytes \in Seq(Byte), NEW offset \in Nat, BufferInStream(bytes, offset)
  PROVE  /\ \A p \in HeadersIn(bytes) :
              /\ HeaderAt(offset + p) /\ offset + p + HeaderSize < Len(Bytes)
              /\ bytes[p + 1] = Bytes[offset + p + 1]
              /\ p \in Nat /\ p < Limit(bytes)
         /\ \A h \in Nat : /\ HeaderAt(h) /\ offset <= h /\ h < offset + Limit(bytes)
                           => h - offset \in HeadersIn(bytes)
<1>1. /\ Len(bytes) \in Nat /\ Len(Bytes) \in Nat /\ Len(bytes) + offset = Len(Bytes)
      /\ \A i \in 1 .. Len(bytes) : bytes[i] = Bytes[offset + i]
  BY LenProperties DEF BufferInStream, Bytes
<1>2. ASSUME NEW p \in HeadersIn(bytes)
      PROVE  /\ HeaderAt(offset + p) /\ offset + p + HeaderSize < Len(Bytes)
             /\ bytes[p + 1] = Bytes[offset + p + 1]
             /\ p \in Nat /\ p < Limit(bytes)
  <2>1. p \in Nat /\ p < Len(bytes) - HeaderSize /\ bytes[p + 1] \in DOMAIN Header
    BY <1>1 DEF HeadersIn, Limit
  <2>2. p + 1 \in 1 .. Len(bytes) /\ offset + (p + 1) = offset + p + 1
    BY <1>1, <2>1
  <2>3. bytes[p + 1] = Bytes[offset + p + 1]
    BY <1>1, <2>2
  <2> QED
    BY <1>1, <2>1, <2>3 DEF HeaderAt, Limit
<1>3. ASSUME NEW h \in Nat, HeaderAt(h), offset <= h, h < offset + Limit(bytes)
      PROVE  h - offset \in HeadersIn(bytes)
  <2>1. h - offset \in 0 .. Limit(bytes) - 1
    BY <1>1, <1>3 DEF Limit
  <2>2. (h - offset) + 1 \in 1 .. Len(bytes) /\ offset + ((h - offset) + 1) = h + 1
    BY <1>1, <1>3, <2>1 DEF Limit
  <2>3. bytes[(h - offset) + 1] = Bytes[h + 1]
    BY <1>1, <2>2
  <2> QED
    BY <1>3, <2>1, <2>3 DEF HeadersIn, HeaderAt
<1> QED
  BY <1>2, <1>3

-----------------------------------------------------------------------------
(* find_next_headers *)

\* FirstHeader finds one, or the end of the search.
LEMMA FirstHeaderProperties ==
  ASSUME NEW bytes \in Seq(Byte), HeaderSize <= Len(bytes)
  PROVE  /\ FirstHeader(bytes) \in 0 .. Limit(bytes)
         /\ \A p \in HeadersIn(bytes) : FirstHeader(bytes) <= p
<1>1. Limit(bytes) \in Nat
  BY LenProperties DEF Limit
<1> DEFINE T == HeadersIn(bytes) \cup {Limit(bytes)}
<1>2. T \subseteq 0 .. Limit(bytes) /\ T # {}
  BY <1>1 DEF HeadersIn
<1>3. PICK x \in T : \A y \in T : x <= y
  <2> HIDE DEF T
  <2>1. T \subseteq Nat
    BY <1>1, <1>2
  <2> QED
    BY <1>2, <2>1, Least
<1>4. FirstHeader(bytes) \in T /\ \A p \in HeadersIn(bytes) : FirstHeader(bytes) <= p
  BY <1>3 DEF FirstHeader
<1> QED
  BY <1>2, <1>4

\* The candidates that the search from a position adds.
AreNew(new, bytes, search) ==
    /\ \A i \in DOMAIN new : \E p \in HeadersIn(bytes) :
          search <= p /\ new[i].body_begin = p + HeaderSize /\ new[i].header = Header[bytes[p + 1]]
    /\ \A p \in HeadersIn(bytes) :
          search <= p => \E i \in DOMAIN new : new[i].body_begin = p + HeaderSize
    /\ \A i, j \in DOMAIN new : i < j => new[i].body_begin < new[j].body_begin

\* The candidates that find_next_headers adds are the headers from the search position on.
LEMMA NewInstancesAreNew ==
  ASSUME Devices = 1, NEW bytes \in Seq(Byte), HeaderSize <= Len(bytes), NEW search \in Nat
  PROVE  NewInstances(bytes, search) \in Seq(Candidate)
         /\ AreNew(NewInstances(bytes, search), bytes, search)
<1> DEFINE n == Limit(bytes)
           list == [k \in 1 .. n |-> [body_begin |-> k - 1 + HeaderSize,
                                      header |-> Header[bytes[k]]]]
           K == {i + 1 : i \in HeadersIn(bytes) \ 0 .. search - 1}
           S == {list[k] : k \in 1 .. n}
           new == NewInstances(bytes, search)
<1>1. n \in Nat /\ Len(bytes) \in Nat
  BY LenProperties DEF Limit
<1>2. list \in Seq(S) /\ Len(list) = n
  <2>1. list \in [1 .. n -> S]
    OBVIOUS
  <2> HIDE DEF list, n, S
  <2> QED
    BY <1>1, <2>1
<1>3. K \in SUBSET (1 .. n)
  BY <1>1 DEF HeadersIn
<1>4. new = Only(list, K)
  BY DEF NewInstances
<1>5. new \in Seq(S) /\ IsPart(new, list, K)
  <2> HIDE DEF new, list, S, K, n
  <2> QED
    BY <1>2, <1>3, <1>4, OnlyIsPart
<1>6. \A p \in HeadersIn(bytes) : /\ p \in Nat /\ bytes[p + 1] \in DOMAIN Header
                                 /\ p + 1 \in 1 .. n
  BY <1>1 DEF HeadersIn
<1>7. ASSUME NEW k \in K
      PROVE  \E p \in HeadersIn(bytes) :
                /\ search <= p /\ k = p + 1
                /\ list[k] = [body_begin |-> p + HeaderSize, header |-> Header[bytes[p + 1]]]
  <2>1. PICK p \in HeadersIn(bytes) : p \notin 0 .. search - 1 /\ k = p + 1
    OBVIOUS
  <2>2. p \in Nat /\ k \in 1 .. n /\ k - 1 + HeaderSize = p + HeaderSize /\ search <= p
    BY <1>6, <2>1
  <2> QED
    BY <2>1, <2>2
<1>8. \A p \in HeadersIn(bytes) : search <= p => p + 1 \in K
  BY <1>6
<1>9. \A p \in HeadersIn(bytes) : search <= p =>
         list[p + 1].body_begin = p + HeaderSize
  <2> TAKE p \in HeadersIn(bytes)
  <2>1. (p + 1) - 1 + HeaderSize = p + HeaderSize /\ p + 1 \in 1 .. n
    BY <1>6
  <2>2. list[p + 1].body_begin = (p + 1) - 1 + HeaderSize
    BY <2>1
  <2> QED
    BY <2>1, <2>2
<1> HIDE DEF list, K, n, S, new
<1>10. \A k \in K : \E p \in HeadersIn(bytes) :
          /\ search <= p /\ k = p + 1 /\ p \in Nat
          /\ list[k].body_begin = p + HeaderSize /\ list[k].header = Header[bytes[p + 1]]
  <2> TAKE k \in K
  <2>1. PICK p \in HeadersIn(bytes) :
           /\ search <= p /\ k = p + 1
           /\ list[k] = [body_begin |-> p + HeaderSize, header |-> Header[bytes[p + 1]]]
    BY <1>7
  <2> WITNESS p \in HeadersIn(bytes)
  <2> QED
    BY <1>6, <2>1
<1>11. new \in Seq(Candidate)
  <2>1. ASSUME NEW i \in DOMAIN new PROVE new[i] \in Candidate
    <3>1. PICK k \in K : new[i] = list[k]
      BY <1>5 DEF IsPart
    <3>2. PICK p \in HeadersIn(bytes) :
             list[k] = [body_begin |-> p + HeaderSize, header |-> Header[bytes[p + 1]]]
      BY <1>7
    <3>3. p + HeaderSize \in Nat /\ Header[bytes[p + 1]] \in [size : Nat, checksum : Seq(Byte)]
      BY <1>6, HeaderTypes
    <3> QED
      BY <3>1, <3>2, <3>3, OneDevice DEF Candidate
  <2> QED
    BY <1>5, <2>1, SeqOver
<1>12. AreNew(new, bytes, search)
  <2>1. ASSUME NEW i \in DOMAIN new
        PROVE  \E p \in HeadersIn(bytes) :
                  /\ search <= p /\ new[i].body_begin = p + HeaderSize
                  /\ new[i].header = Header[bytes[p + 1]]
    <3>1. PICK k \in K : new[i] = list[k]
      BY <1>5 DEF IsPart
    <3> QED
      BY <1>10, <3>1
  <2>2. ASSUME NEW p \in HeadersIn(bytes), search <= p
        PROVE  \E i \in DOMAIN new : new[i].body_begin = p + HeaderSize
    <3>1. PICK i \in DOMAIN new : new[i] = list[p + 1]
      BY <1>5, <1>8, <2>2 DEF IsPart
    <3> QED
      BY <1>9, <2>2, <3>1
  <2>3. ASSUME NEW i \in DOMAIN new, NEW j \in DOMAIN new, i < j
        PROVE  new[i].body_begin < new[j].body_begin
    <3>1. PICK k \in K, l \in K : k < l /\ new[i] = list[k] /\ new[j] = list[l]
      BY <1>5, <2>3 DEF IsPart
    <3>2. PICK p \in HeadersIn(bytes) : k = p + 1 /\ list[k].body_begin = p + HeaderSize
      BY <1>10
    <3>3. PICK q \in HeadersIn(bytes) : l = q + 1 /\ list[l].body_begin = q + HeaderSize
      BY <1>10
    <3>4. p \in Nat /\ q \in Nat
      BY <1>6
    <3> QED
      BY <3>1, <3>2, <3>3, <3>4
  <2> QED
    BY <2>1, <2>2, <2>3 DEF AreNew
<1> QED
  BY <1>11, <1>12 DEF new

AllSearched(search, offset) ==
    \A h \in 0 .. Len(Bytes) - 1 : h + HeaderSize < Len(Bytes) => h < offset + search

\* What decode_single has found, before it looks for a frame.
FoundRight(found, offset) ==
    /\ found.bytes \in Seq(Byte) /\ found.instances \in Seq(Candidate) /\ found.search \in Nat
    /\ offset \in Nat
    /\ DecoderInv(found.bytes, found.instances, found.search, offset)
    /\ AllSearched(found.search, offset)

\* The place in the stream of a candidate.
LEMMA PlaceProperties ==
  ASSUME NEW c \in Candidate, NEW offset \in Nat
  PROVE  /\ c.body_begin \in Nat /\ c.header \in [size : Nat, checksum : Seq(Byte)]
         /\ Place(c, offset) \in Int /\ Place(c, offset) = offset + c.body_begin - HeaderSize
BY DEF Candidate, Place

\* New candidates go behind the others, and all has been searched.
LEMMA SearchOn ==
  ASSUME Devices = 1, stream[1] \in Seq(Byte),
         NEW bytes \in Seq(Byte), NEW instances \in Seq(Candidate), NEW search \in Nat,
         NEW offset \in Nat,
         DecoderInv(bytes, instances, search, offset), HeaderSize <= Len(bytes)
  PROVE  FoundRight([bytes |-> bytes, instances |-> instances \o NewInstances(bytes, search),
                     search |-> Limit(bytes)], offset)
<1> DEFINE new == NewInstances(bytes, search)
           all == instances \o new
           n == Len(instances)
<1>1. new \in Seq(Candidate) /\ AreNew(new, bytes, search)
  BY NewInstancesAreNew
<1>2. /\ BufferInStream(bytes, offset) /\ RoomBehind(bytes, search)
      /\ CandidatesInStream(instances, search, offset)
      /\ SearchedIsKnown(instances, search, offset)
  BY DEF DecoderInv
<1>3. /\ Len(bytes) \in Nat /\ Len(Bytes) \in Nat /\ Len(bytes) + offset = Len(Bytes)
      /\ Limit(bytes) = Len(bytes) - HeaderSize /\ Limit(bytes) \in Nat /\ search <= Limit(bytes)
  BY <1>2, LenProperties DEF BufferInStream, RoomBehind, Limit, Bytes
<1> HIDE DEF new
<1>4. /\ all \in Seq(Candidate) /\ n \in Nat /\ Len(new) \in Nat /\ Len(all) = n + Len(new)
      /\ \A i \in 1 .. n : all[i] = instances[i]
      /\ \A i \in n + 1 .. Len(all) : all[i] = new[i - n]
      /\ DOMAIN all = 1 .. Len(all) /\ DOMAIN instances = 1 .. n /\ DOMAIN new = 1 .. Len(new)
  BY <1>1, ConcatProperties, LenProperties
<1> HIDE DEF all, n
<1>5. \A p \in HeadersIn(bytes) :
         /\ HeaderAt(offset + p) /\ offset + p + HeaderSize < Len(Bytes)
         /\ bytes[p + 1] = Bytes[offset + p + 1]
         /\ p \in Nat /\ p < Limit(bytes)
  BY <1>2, HeadersInStream
\* Each candidate is an old one, or comes from a header at or behind the search position.
<1>6. ASSUME NEW i \in 1 .. n
      PROVE  /\ all[i] = instances[i] /\ i \in DOMAIN instances /\ instances[i] \in Candidate
             /\ HeaderAt(Place(all[i], offset)) /\ Place(all[i], offset) < offset + search
             /\ Place(all[i], offset) + HeaderSize < Len(Bytes)
             /\ all[i].header = Header[Bytes[Place(all[i], offset) + 1]]
  <2>1. all[i] = instances[i] /\ i \in DOMAIN instances
    BY <1>4
  <2>2. instances[i] \in Candidate
    BY <1>4, ElementOfSeq DEF n
  <2>3. /\ HeaderAt(Place(instances[i], offset)) /\ Place(instances[i], offset) < offset + search
        /\ Place(instances[i], offset) + HeaderSize < Len(Bytes)
        /\ instances[i].header = Header[Bytes[Place(instances[i], offset) + 1]]
    BY <1>2, <2>1 DEF CandidatesInStream
  <2> QED
    BY <2>1, <2>2, <2>3
<1>7. ASSUME NEW i \in n + 1 .. Len(all)
      PROVE  \E p \in HeadersIn(bytes) :
               /\ search <= p /\ all[i].body_begin = p + HeaderSize
               /\ Place(all[i], offset) = offset + p
               /\ all[i].header = Header[Bytes[offset + p + 1]]
               /\ all[i] = new[i - n] /\ i - n \in DOMAIN new
  <2>1. all[i] = new[i - n] /\ i - n \in DOMAIN new
    BY <1>4
  <2>2. PICK p \in HeadersIn(bytes) :
           /\ search <= p /\ new[i - n].body_begin = p + HeaderSize
           /\ new[i - n].header = Header[bytes[p + 1]]
    BY <1>1, <2>1 DEF AreNew
  <2>3. bytes[p + 1] = Bytes[offset + p + 1] /\ p \in Nat
    BY <1>5
  <2>4. Place(all[i], offset) = offset + p
    BY <2>1, <2>2, <2>3 DEF Place
  <2> QED
    BY <2>1, <2>2, <2>3, <2>4
<1>8. CandidatesInStream(all, Limit(bytes), offset)
  <2>1. ASSUME NEW i \in DOMAIN all
        PROVE  /\ HeaderAt(Place(all[i], offset))
               /\ Place(all[i], offset) < offset + Limit(bytes)
               /\ Place(all[i], offset) + HeaderSize < Len(Bytes)
               /\ all[i].header = Header[Bytes[Place(all[i], offset) + 1]]
    <3>1. CASE i \in 1 .. n
      <4>1. Place(all[i], offset) \in Int
        BY <1>6, <3>1, PlaceProperties
      <4> QED
        BY <1>3, <1>6, <3>1, <4>1, SMTT(60)
    <3>2. CASE i \in n + 1 .. Len(all)
      <4>1. PICK p \in HeadersIn(bytes) :
               /\ Place(all[i], offset) = offset + p
               /\ all[i].header = Header[Bytes[offset + p + 1]]
        BY <1>7, <3>2
      <4>2. /\ HeaderAt(offset + p) /\ offset + p + HeaderSize < Len(Bytes)
            /\ p \in Nat /\ p < Limit(bytes)
        BY <1>5
      <4> QED
        BY <1>3, <4>1, <4>2
    <3> QED
      BY <1>4, <3>1, <3>2
  <2>2. ASSUME NEW i \in DOMAIN all, NEW j \in DOMAIN all, i < j
        PROVE  all[i].body_begin < all[j].body_begin
    <3>1. CASE i \in 1 .. n /\ j \in 1 .. n
      BY <1>2, <1>6, <2>2, <3>1 DEF CandidatesInStream
    <3>2. CASE i \in 1 .. n /\ j \in n + 1 .. Len(all)
      <4>1. /\ all[i] \in Candidate /\ all[i].body_begin \in Nat
            /\ Place(all[i], offset) = offset + all[i].body_begin - HeaderSize
            /\ Place(all[i], offset) < offset + search
        BY <1>6, <3>2, PlaceProperties
      <4>2. PICK p \in HeadersIn(bytes) :
               search <= p /\ all[j].body_begin = p + HeaderSize
        BY <1>7, <3>2
      <4> QED
        BY <1>5, <4>1, <4>2, SMTT(60)
    <3>3. CASE i \in n + 1 .. Len(all) /\ j \in n + 1 .. Len(all)
      <4>1. all[i] = new[i - n] /\ i - n \in DOMAIN new
        BY <1>7, <3>3
      <4>2. all[j] = new[j - n] /\ j - n \in DOMAIN new
        BY <1>7, <3>3
      <4>3. i - n < j - n
        BY <1>4, <2>2
      <4> QED
        BY <1>1, <4>1, <4>2, <4>3 DEF AreNew
    <3> QED
      BY <1>4, <2>2, <3>1, <3>2, <3>3
  <2> QED
    BY <2>1, <2>2 DEF CandidatesInStream
<1>9. ASSUME NEW h \in 0 .. offset + Limit(bytes) - 1, HeaderAt(h)
      PROVE  \/ Waits(h, all, offset) \/ IsFalse(h)
             \/ \E k \in DOMAIN frames[1] : Overlaps(h, frames[1][k])
  <2>1. CASE h < offset + search
    <3>1. CASE Waits(h, instances, offset)
      <4>1. PICK k \in DOMAIN instances : Place(instances[k], offset) = h
        BY <3>1 DEF Waits
      <4>2. k \in DOMAIN all /\ all[k] = instances[k]
        BY <1>4
      <4> QED
        BY <4>1, <4>2 DEF Waits
    <3>2. h \in 0 .. offset + search - 1
      BY <2>1
    <3> QED
      BY <1>2, <1>9, <3>1, <3>2 DEF SearchedIsKnown
  <2>2. CASE offset + search <= h
    <3>1. h - offset \in HeadersIn(bytes)
      BY <1>2, <1>3, <1>9, <2>2, HeadersInStream
    <3>2. PICK i \in DOMAIN new : new[i].body_begin = h - offset + HeaderSize
      BY <1>1, <2>2, <3>1, SMTT(60) DEF AreNew
    <3>3. n + i \in DOMAIN all /\ all[n + i] = new[i]
      BY <1>4
    <3>4. Place(all[n + i], offset) = h
      BY <3>2, <3>3 DEF Place
    <3> QED
      BY <3>3, <3>4 DEF Waits
  <2> QED
    BY <2>1, <2>2
<1>10. DecoderInv(bytes, all, Limit(bytes), offset)
  BY <1>2, <1>3, <1>8, <1>9 DEF DecoderInv, RoomBehind, SearchedIsKnown
<1>11. AllSearched(Limit(bytes), offset)
  BY <1>3 DEF AllSearched
<1> QED
  BY <1>3, <1>4, <1>10, <1>11 DEF FoundRight, all, new

\* The types of what the only device has.
LEMMA Types ==
  ASSUME Devices = 1, TypeOK
  PROVE  /\ stream[1] \in Seq(Byte) /\ buffer[1] \in Seq(Byte)
         /\ m_decoding_instances \in Seq(Candidate) /\ m_header_search_pos \in Nat
         /\ frames[1] \in Seq([at : Nat, data : Seq(Byte)]) /\ settled[1] \in BOOLEAN
         /\ 1 \in Device /\ turn = 1 /\ decoding \in BOOLEAN
BY OneDevice DEF TypeOK

\* The buffer still holds the end of the stream when some of it has been skipped.
LEMMA SkipInStream ==
  ASSUME stream[1] \in Seq(Byte),
         NEW bytes \in Seq(Byte), NEW offset \in Nat, NEW n \in 0 .. Len(bytes),
         BufferInStream(bytes, offset)
  PROVE  /\ BufferInStream(Skip(bytes, n), offset + n)
         /\ Skip(bytes, n) \in Seq(Byte) /\ Len(Skip(bytes, n)) = Len(bytes) - n
<1> DEFINE rest == Skip(bytes, n)
<1>1. /\ rest \in Seq(Byte) /\ Len(rest) = Len(bytes) - n
      /\ \A i \in 1 .. Len(bytes) - n : rest[i] = bytes[n + i]
  BY SkipProperties
<1>2. /\ Len(bytes) \in Nat /\ Len(Bytes) \in Nat /\ Len(bytes) + offset = Len(Bytes)
      /\ \A i \in 1 .. Len(bytes) : bytes[i] = Bytes[offset + i]
  BY LenProperties DEF BufferInStream, Bytes
<1> HIDE DEF rest
<1>3. ASSUME NEW i \in 1 .. Len(rest) PROVE rest[i] = Bytes[(offset + n) + i]
  <2>1. n + i \in 1 .. Len(bytes) /\ offset + (n + i) = (offset + n) + i
    BY <1>1, <1>2
  <2> QED
    BY <1>1, <1>2, <2>1
<1>4. offset + n \in Nat
  BY <1>2
<1>5. (Len(bytes) - n) + (offset + n) = Len(bytes) + offset
  BY <1>2
<1>6. Len(rest) + (offset + n) = Len(Bytes)
  BY <1>1, <1>2, <1>5, Zenon
<1> QED
  BY <1>1, <1>3, <1>4, <1>6 DEF BufferInStream, rest

\* Skipping what holds no header that is not known.
LEMMA SkipKnown ==
  ASSUME stream[1] \in Seq(Byte),
         NEW bytes \in Seq(Byte), NEW offset \in Nat, NEW search \in Nat, NEW n \in 0 .. Len(bytes),
         BufferInStream(bytes, offset), SearchedIsKnown(<<>>, search, offset),
         \A h \in Nat : HeaderAt(h) /\ offset + search <= h => offset + n <= h
  PROVE  DecoderInv(Skip(bytes, n), <<>>, 0, offset + n)
<1>1. BufferInStream(Skip(bytes, n), offset + n) /\ Len(bytes) \in Nat
  BY SkipInStream, LenProperties
<1>2. ASSUME NEW h \in 0 .. (offset + n) + 0 - 1, HeaderAt(h)
      PROVE  \/ Waits(h, <<>>, offset + n) \/ IsFalse(h)
             \/ \E k \in DOMAIN frames[1] : Overlaps(h, frames[1][k])
  <2>1. h \in 0 .. offset + search - 1
    BY <1>1, <1>2
  <2>2. ~ Waits(h, <<>>, offset)
    BY DEF Waits
  <2> QED
    BY <1>2, <2>1, <2>2 DEF SearchedIsKnown
<1>3. CandidatesInStream(<<>>, 0, offset + n)
  BY DEF CandidatesInStream
<1>4. SearchedIsKnown(<<>>, 0, offset + n)
  BY <1>2 DEF SearchedIsKnown
<1> QED
  BY <1>1, <1>3, <1>4 DEF DecoderInv, RoomBehind

\* Cutting off what was searched in vain up to the next header loses no header.
LEMMA RewoundRight ==
  ASSUME Devices = 1, TypeOK, HeaderSize <= Len(buffer[1]), m_decoding_instances = <<>>,
         DecoderInv(buffer[1], <<>>, m_header_search_pos, Offset(1))
  PROVE  /\ Rewound(1) \in Seq(Byte) /\ HeaderSize <= Len(Rewound(1))
         /\ Offset(1) \in Nat /\ Len(stream[1]) - Len(Rewound(1)) \in Nat
         /\ Offset(1) <= Len(stream[1]) - Len(Rewound(1))
         /\ DecoderInv(Rewound(1), <<>>, 0, Len(stream[1]) - Len(Rewound(1)))
<1> DEFINE bytes == buffer[1]
           o == Offset(1)
           p == m_header_search_pos
           u == Skip(bytes, p)
           q == FirstHeader(u)
<1>1. /\ stream[1] \in Seq(Byte) /\ bytes \in Seq(Byte) /\ p \in Nat
      /\ Len(bytes) \in Nat /\ Len(Bytes) \in Nat /\ HeaderSize <= Len(bytes)
      /\ o = Len(Bytes) - Len(bytes)
  BY Types, LenProperties DEF Bytes, Offset
<1>2. /\ BufferInStream(bytes, o) /\ RoomBehind(bytes, p) /\ SearchedIsKnown(<<>>, p, o)
  BY DEF DecoderInv
<1>3. Rewound(1) = Skip(u, q)
  BY DEF Rewound
<1> HIDE DEF bytes, o, p
<1>4. o \in Nat /\ Len(bytes) + o = Len(Bytes) /\ p + HeaderSize <= Len(bytes)
      /\ p \in 0 .. Len(bytes)
  <2>1. Len(bytes) + o = Len(Bytes) /\ o \in Nat
    BY <1>2 DEF BufferInStream
  <2> QED
    BY <1>1, <1>2, <2>1 DEF RoomBehind
<1>5. DecoderInv(u, <<>>, 0, o + p)
  <2>1. \A h \in Nat : HeaderAt(h) /\ o + p <= h => o + p <= h
    OBVIOUS
  <2> QED
    BY <1>1, <1>2, <1>4, SkipKnown
<1>6. u \in Seq(Byte) /\ Len(u) = Len(bytes) - p /\ HeaderSize <= Len(u) /\ Len(u) \in Nat
  <2>1. u \in Seq(Byte) /\ Len(u) = Len(bytes) - p
    BY <1>1, <1>4, SkipProperties
  <2>2. \A a, b, n \in Nat : b + n <= a => n <= a - b /\ a - b \in Nat
    OBVIOUS
  <2>3. HeaderSize <= Len(bytes) - p /\ Len(bytes) - p \in Nat
    BY <1>1, <1>4, <2>2, Sizes, ZenonT(60)
  <2> QED
    BY <2>1, <2>3, Zenon
<1> HIDE DEF u
<1>7. q \in 0 .. Limit(u) /\ \A r \in HeadersIn(u) : q <= r
  BY <1>6, FirstHeaderProperties
<1>8. Limit(u) = Len(u) - HeaderSize /\ q \in 0 .. Len(u)
  BY <1>6, <1>7 DEF Limit
<1>9. BufferInStream(u, o + p) /\ SearchedIsKnown(<<>>, 0, o + p) /\ o + p \in Nat
  BY <1>1, <1>4, <1>5 DEF DecoderInv
<1> HIDE DEF q
<1>10. ASSUME NEW h \in Nat, HeaderAt(h), (o + p) + 0 <= h PROVE (o + p) + q <= h
  <2> SUFFICES ASSUME h < (o + p) + q PROVE FALSE
    BY <1>8, <1>9
  <2>1. h < (o + p) + Limit(u)
    BY <1>7, <1>8, <1>9
  <2>2. h - (o + p) \in HeadersIn(u)
    BY <1>1, <1>6, <1>9, <1>10, <2>1, HeadersInStream
  <2> QED
    BY <1>7, <1>8, <1>9, <2>2
<1>11. DecoderInv(Skip(u, q), <<>>, 0, (o + p) + q)
  BY <1>1, <1>6, <1>8, <1>9, <1>10, SkipKnown
<1>12. Skip(u, q) \in Seq(Byte) /\ Len(Skip(u, q)) = Len(u) - q
  BY <1>6, <1>8, SkipProperties
<1>13. /\ Len(stream[1]) - Len(Skip(u, q)) = (o + p) + q /\ HeaderSize <= Len(Skip(u, q))
       /\ (o + p) + q \in Nat /\ o <= (o + p) + q
  BY <1>1, <1>4, <1>6, <1>7, <1>8, <1>12, SMTT(60) DEF Bytes
<1> QED
  BY <1>3, <1>4, <1>11, <1>12, <1>13 DEF o

\* find_next_headers keeps the invariant and leaves nothing unsearched.
LEMMA FoundIsRight ==
  ASSUME Devices = 1, TypeOK,
         DecoderInv(buffer[1], m_decoding_instances, m_header_search_pos, Offset(1))
  PROVE  /\ FoundRight(Found(1), Len(stream[1]) - Len(Found(1).bytes))
         /\ Offset(1) \in Nat /\ Offset(1) <= Len(stream[1]) - Len(Found(1).bytes)
<1>1. /\ stream[1] \in Seq(Byte) /\ buffer[1] \in Seq(Byte)
      /\ Len(buffer[1]) \in Nat /\ Len(Bytes) \in Nat
      /\ m_decoding_instances \in Seq(Candidate) /\ m_header_search_pos \in Nat
      /\ Offset(1) = Len(Bytes) - Len(buffer[1])
  BY Types, LenProperties DEF Bytes, Offset
<1>2. /\ Len(buffer[1]) + Offset(1) = Len(Bytes) /\ RoomBehind(buffer[1], m_header_search_pos)
      /\ Offset(1) \in Nat
  BY DEF DecoderInv, BufferInStream
<1>3. CASE Len(buffer[1]) < HeaderSize
  <2>1. Found(1) = [bytes |-> buffer[1], instances |-> m_decoding_instances,
                    search |-> m_header_search_pos]
    BY <1>3 DEF Found
  <2>2. m_header_search_pos = 0
    BY <1>1, <1>2, <1>3 DEF RoomBehind
  <2>3. AllSearched(m_header_search_pos, Offset(1))
    BY <1>1, <1>2, <1>3, <2>2 DEF AllSearched
  <2> QED
    <3>1. Offset(1) = Len(stream[1]) - Len(buffer[1])
      BY DEF Offset
    <3>2. /\ Found(1).bytes = buffer[1] /\ Found(1).instances = m_decoding_instances
          /\ Found(1).search = m_header_search_pos
      BY <2>1
    <3>3. FoundRight(Found(1), Offset(1))
      BY <1>1, <1>2, <2>3, <3>2 DEF FoundRight
    <3>4. Offset(1) <= Offset(1)
      BY <1>2
    <3> QED
      BY <1>2, <3>1, <3>2, <3>3, <3>4, Zenon
<1>4. CASE HeaderSize <= Len(buffer[1]) /\ m_decoding_instances # <<>>
  <2>1. Found(1) = [bytes |-> buffer[1],
                    instances |-> m_decoding_instances
                                    \o NewInstances(buffer[1], m_header_search_pos),
                    search |-> Limit(buffer[1])]
    BY <1>1, <1>4 DEF Found, Rewound
  <2>2. Offset(1) = Len(stream[1]) - Len(buffer[1])
    BY DEF Offset
  <2>3. FoundRight([bytes |-> buffer[1],
                    instances |-> m_decoding_instances
                                    \o NewInstances(buffer[1], m_header_search_pos),
                    search |-> Limit(buffer[1])], Offset(1))
    BY <1>1, <1>2, <1>4, SearchOn
  <2>4. Found(1).bytes = buffer[1]
    BY <2>1
  <2>5. Offset(1) <= Offset(1)
    BY <1>2
  <2> QED
    BY <1>2, <2>1, <2>2, <2>3, <2>4, <2>5, Zenon
<1>5. CASE HeaderSize <= Len(buffer[1]) /\ m_decoding_instances = <<>>
  <2>1. Found(1) = [bytes |-> Rewound(1),
                    instances |-> <<>> \o NewInstances(Rewound(1), 0),
                    search |-> Limit(Rewound(1))]
    BY <1>1, <1>5 DEF Found
  <2>2. /\ Rewound(1) \in Seq(Byte) /\ HeaderSize <= Len(Rewound(1))
        /\ Len(stream[1]) - Len(Rewound(1)) \in Nat
        /\ Offset(1) <= Len(stream[1]) - Len(Rewound(1))
        /\ DecoderInv(Rewound(1), <<>>, 0, Len(stream[1]) - Len(Rewound(1)))
    BY <1>5, RewoundRight
  <2>3. <<>> \in Seq(Candidate)
    BY EmptySeq
  <2>4. FoundRight([bytes |-> Rewound(1), instances |-> <<>> \o NewInstances(Rewound(1), 0),
                    search |-> Limit(Rewound(1))], Len(stream[1]) - Len(Rewound(1)))
    BY <1>1, <2>2, <2>3, SearchOn
  <2>5. Found(1).bytes = Rewound(1)
    BY <2>1
  <2> QED
    BY <1>2, <2>1, <2>2, <2>4, <2>5
<1>6. Len(buffer[1]) < HeaderSize \/ HeaderSize <= Len(buffer[1])
  BY <1>1
<1> QED
  BY <1>3, <1>4, <1>5, <1>6

-----------------------------------------------------------------------------
(* find_sucessful_instance *)

\* The candidates of part are among others, in the same order, though their positions
\* are counted from another place.
IsMoved(part, to, instances, from) ==
    /\ \A i \in DOMAIN part : \E k \in DOMAIN instances :
          /\ Place(part[i], to) = Place(instances[k], from)
          /\ part[i].header = instances[k].header
    /\ \A i, j \in DOMAIN part : i < j => \E k, l \in DOMAIN instances :
          /\ k < l
          /\ Place(part[i], to) = Place(instances[k], from)
          /\ Place(part[j], to) = Place(instances[l], from)

\* Candidates stay headers of the stream when their positions are counted anew.
LEMMA MovedStayInStream ==
  ASSUME NEW instances \in Seq(Candidate), NEW from \in Nat, NEW search \in Nat,
         CandidatesInStream(instances, search, from),
         NEW part \in Seq(Candidate), NEW to \in Nat, NEW later \in Nat,
         from + search <= to + later, IsMoved(part, to, instances, from)
  PROVE  CandidatesInStream(part, later, to)
<1>1. ASSUME NEW i \in DOMAIN part
      PROVE  /\ HeaderAt(Place(part[i], to)) /\ Place(part[i], to) < to + later
             /\ Place(part[i], to) + HeaderSize < Len(Bytes)
             /\ part[i].header = Header[Bytes[Place(part[i], to) + 1]]
  <2>1. PICK k \in DOMAIN instances : /\ Place(part[i], to) = Place(instances[k], from)
                                      /\ part[i].header = instances[k].header
    BY DEF IsMoved
  <2>2. /\ HeaderAt(Place(instances[k], from)) /\ Place(instances[k], from) < from + search
        /\ Place(instances[k], from) + HeaderSize < Len(Bytes)
        /\ instances[k].header = Header[Bytes[Place(instances[k], from) + 1]]
    BY DEF CandidatesInStream
  <2>3. instances[k] \in Candidate
    BY ElementOfSeq
  <2>4. Place(instances[k], from) \in Int
    BY <2>3, PlaceProperties
  <2>5. Place(instances[k], from) < to + later
    BY <2>2, <2>4
  <2> QED
    BY <2>1, <2>2, <2>5
<1>2. ASSUME NEW i \in DOMAIN part, NEW j \in DOMAIN part, i < j
      PROVE  part[i].body_begin < part[j].body_begin
  <2>1. PICK k \in DOMAIN instances, l \in DOMAIN instances :
           /\ k < l
           /\ Place(part[i], to) = Place(instances[k], from)
           /\ Place(part[j], to) = Place(instances[l], from)
    BY <1>2 DEF IsMoved
  <2>2. instances[k].body_begin < instances[l].body_begin
    BY <2>1 DEF CandidatesInStream
  <2>3. /\ instances[k] \in Candidate /\ instances[l] \in Candidate
        /\ part[i] \in Candidate /\ part[j] \in Candidate
    BY ElementOfSeq
  <2>4. /\ instances[k].body_begin \in Nat /\ instances[l].body_begin \in Nat
        /\ part[i].body_begin \in Nat /\ part[j].body_begin \in Nat
        /\ Place(instances[k], from) = from + instances[k].body_begin - HeaderSize
        /\ Place(instances[l], from) = from + instances[l].body_begin - HeaderSize
        /\ Place(part[i], to) = to + part[i].body_begin - HeaderSize
        /\ Place(part[j], to) = to + part[j].body_begin - HeaderSize
    BY <2>3, PlaceProperties
  <2>5. \A a, b, x, y, e, f \in Nat :
           (/\ a < b /\ f + x - HeaderSize = e + a - HeaderSize
            /\ f + y - HeaderSize = e + b - HeaderSize) => x < y
    OBVIOUS
  <2> QED
    BY <2>1, <2>2, <2>4, <2>5, ZenonT(60)
<1> QED
  BY <1>1, <1>2 DEF CandidatesInStream

\* What a candidate is in terms of the stream.
CandidateIs(c, bytes, search, offset) ==
    LET h == Place(c, offset)
    IN  /\ c \in Candidate /\ c.body_begin \in Nat /\ c.header.size \in Nat
        /\ HeaderAt(h) /\ h \in Nat /\ h < offset + search
        /\ h = offset + c.body_begin - HeaderSize
        /\ c.header = Header[Bytes[h + 1]]
        /\ EndOf(h) = offset + End(c) /\ End(c) \in Nat /\ c.body_begin <= End(c)
        /\ Complete(c, bytes) <=> EndOf(h) <= Len(Bytes)
        /\ Complete(c, bytes) =>
             /\ Body(c, bytes) = SubSeq(Bytes, h + HeaderSize + 1, EndOf(h))
             /\ Body(c, bytes) \in Seq(Byte) /\ Len(Body(c, bytes)) = c.header.size
        /\ Complete(c, bytes) /\ ~ IsFrame(c, bytes) => IsFalse(h)

\* A candidate of the stream is what CandidateIs says.
LEMMA CandidateProperties ==
  ASSUME stream[1] \in Seq(Byte), NEW bytes \in Seq(Byte), NEW offset \in Nat,
         BufferInStream(bytes, offset),
         NEW instances \in Seq(Candidate), NEW search \in Nat,
         CandidatesInStream(instances, search, offset),
         NEW k \in DOMAIN instances
  PROVE  CandidateIs(instances[k], bytes, search, offset)
<1> DEFINE c == instances[k]
           h == Place(c, offset)
<1>1. c \in Candidate
  BY ElementOfSeq
<1>2. /\ c.body_begin \in Nat /\ c.header \in [size : Nat, checksum : Seq(Byte)]
      /\ h = offset + c.body_begin - HeaderSize
  BY <1>1, PlaceProperties
<1>3. HeaderAt(h) /\ h < offset + search /\ c.header = Header[Bytes[h + 1]]
  BY DEF CandidatesInStream
<1>4. h \in Nat /\ Len(Bytes) \in Nat
  BY <1>3, HeaderSays
<1> HIDE DEF c, h
<1>5. c.header.size \in Nat /\ c.header.checksum \in Seq(Byte)
  BY <1>2
<1>6. End(c) = c.body_begin + c.header.size /\ End(c) \in Nat /\ c.body_begin <= End(c)
  BY <1>2, <1>5, Sums, Zenon DEF End
<1>7. EndOf(h) = h + HeaderSize + c.header.size /\ h + HeaderSize = offset + c.body_begin
  <2>1. h + HeaderSize = offset + c.body_begin
    <3>1. \A b \in Nat : (offset + b - HeaderSize) + HeaderSize = offset + b
      OBVIOUS
    <3> QED
      BY <1>2, <3>1, Zenon
  <2> QED
    BY <1>3, <2>1 DEF EndOf
<1>8. EndOf(h) = offset + End(c)
  <2>1. \A b, e \in Nat : (offset + b) + e = offset + (b + e)
    OBVIOUS
  <2>2. (offset + c.body_begin) + c.header.size = offset + (c.body_begin + c.header.size)
    BY <1>2, <1>5, <2>1, Zenon
  <2>3. EndOf(h) = (offset + c.body_begin) + c.header.size
    BY <1>7, Zenon
  <2> QED
    BY <1>6, <2>2, <2>3, Zenon
<1>9. /\ Len(bytes) \in Nat /\ Len(bytes) + offset = Len(Bytes)
      /\ \A i \in 1 .. Len(bytes) : bytes[i] = Bytes[offset + i]
  BY LenProperties DEF BufferInStream
<1>10. Complete(c, bytes) <=> EndOf(h) <= Len(Bytes)
  <2>1. \A a, b \in Nat : a <= b <=> offset + a <= b + offset
    OBVIOUS
  <2>2. End(c) <= Len(bytes) <=> offset + End(c) <= Len(bytes) + offset
    BY <1>6, <1>9, <2>1, Zenon
  <2> QED
    BY <1>8, <1>9, <2>2, Zenon DEF Complete
<1>11. ASSUME Complete(c, bytes)
       PROVE  /\ Body(c, bytes) = SubSeq(Bytes, h + HeaderSize + 1, EndOf(h))
              /\ Body(c, bytes) \in Seq(Byte) /\ Len(Body(c, bytes)) = c.header.size
  <2>1. Bytes \in Seq(Byte) /\ End(c) <= Len(bytes)
    BY <1>11 DEF Bytes, Complete
  <2>2. /\ Body(c, bytes) = SubSeq(Bytes, offset + c.body_begin + 1, offset + End(c))
        /\ Body(c, bytes) \in Seq(Byte) /\ Len(Body(c, bytes)) = End(c) - c.body_begin
    <3> DEFINE b == c.body_begin
               e == End(c)
    <3>1. b \in Nat /\ e \in Nat /\ b <= e /\ e <= Len(bytes)
      BY <1>2, <1>6, <2>1
    <3> HIDE DEF b, e
    <3>2. /\ SubSeq(bytes, b + 1, e) = SubSeq(Bytes, offset + b + 1, offset + e)
          /\ SubSeq(bytes, b + 1, e) \in Seq(Byte)
          /\ Len(SubSeq(bytes, b + 1, e)) = e - b
      <4> HIDE DEF Bytes
      <4> QED
        BY <1>9, <2>1, <3>1, SubSeqOfEnd, SMTT(60)
    <3> QED
      BY <3>2, Zenon DEF b, e, Body
  <2>3. \A a, b \in Nat : (a + b) - a = b
    OBVIOUS
  <2>4. End(c) - c.body_begin = c.header.size
    BY <1>2, <1>5, <1>6, <2>3, Zenon
  <2> QED
    BY <1>7, <1>8, <2>2, <2>4, Zenon
<1>12. ASSUME Complete(c, bytes), ~ IsFrame(c, bytes) PROVE IsFalse(h)
  BY <1>3, <1>10, <1>11, <1>12 DEF IsFrame, IsFalse
<1> QED
  BY <1>1, <1>2, <1>3, <1>4, <1>5, <1>6, <1>8, <1>10, <1>11, <1>12 DEF c, h, CandidateIs

-----------------------------------------------------------------------------
(* Steps *)

\* Headers stay what they are while the stream does not grow.
LEMMA SameStream ==
  ASSUME stream' = stream, NEW h
  PROVE  /\ HeaderAt(h)' <=> HeaderAt(h)
         /\ EndOf(h)' = EndOf(h)
         /\ IsFalse(h)' <=> IsFalse(h)
         /\ \A f : Overlaps(h, f)' <=> Overlaps(h, f)
<1>1. (HeaderAt(h)' <=> HeaderAt(h)) /\ EndOf(h)' = EndOf(h)
  BY DEF HeaderAt, EndOf, Bytes
<1>2. IsFalse(h)' <=> IsFalse(h)
  BY DEF IsFalse, EndOf, Bytes
<1>3. \A f : Overlaps(h, f)' <=> Overlaps(h, f)
  BY DEF Overlaps, EndOf, Bytes, After
<1> QED
  BY <1>1, <1>2, <1>3

\* What decode_single leaves satisfies the invariant.
LEMMA DecoderInvAfter ==
  ASSUME NEW bytes, NEW instances, NEW search, NEW offset, stream' = stream,
         buffer'[1] = bytes, m_decoding_instances' = instances,
         m_header_search_pos' = search, Offset(1)' = offset,
         BufferInStream(bytes, offset), RoomBehind(bytes, search),
         CandidatesInStream(instances, search, offset),
         \A h \in 0 .. offset + search - 1 : HeaderAt(h) =>
            \/ Waits(h, instances, offset)
            \/ IsFalse(h)
            \/ \E k \in DOMAIN frames'[1] : Overlaps(h, frames'[1][k])
  PROVE  DecoderInv(buffer[1], m_decoding_instances, m_header_search_pos, Offset(1))'
<1>1. BufferInStream(buffer[1], Offset(1))'
  BY DEF BufferInStream, Bytes
<1>2. RoomBehind(buffer[1], m_header_search_pos)'
  BY DEF RoomBehind
<1>3. CandidatesInStream(m_decoding_instances, m_header_search_pos, Offset(1))'
  BY DEF CandidatesInStream, Bytes, HeaderAt, Place
<1>4. SearchedIsKnown(m_decoding_instances, m_header_search_pos, Offset(1))'
  <2>1. ASSUME NEW h \in 0 .. offset + search - 1, HeaderAt(h)'
        PROVE  \/ Waits(h, m_decoding_instances, Offset(1))'
               \/ IsFalse(h)'
               \/ \E k \in DOMAIN frames'[1] : Overlaps(h, frames[1][k])'
    <3>1. HeaderAt(h)
      BY <2>1, SameStream
    <3>2. CASE Waits(h, instances, offset)
      BY <3>2 DEF Waits, Place
    <3>3. CASE IsFalse(h)
      BY <3>3, SameStream
    <3>4. CASE \E k \in DOMAIN frames'[1] : Overlaps(h, frames'[1][k])
      BY <3>4 DEF Overlaps, EndOf, Bytes, After
    <3> QED
      BY <2>1, <3>1, <3>2, <3>3, <3>4
  <2> QED
    BY <2>1 DEF SearchedIsKnown
<1> QED
  BY <1>1, <1>2, <1>3, <1>4 DEF DecoderInv
\* The types of a decoded frame.
LEMMA FrameTypes ==
  ASSUME Devices = 1, TypeOK, NEW k \in DOMAIN frames[1]
  PROVE  /\ frames[1][k].at \in Nat /\ frames[1][k].data \in Seq(Byte)
         /\ After(frames[1][k]) \in Nat /\ frames[1][k].at <= After(frames[1][k])
<1>1. frames[1][k] \in [at : Nat, data : Seq(Byte)]
  <2>1. frames[1] \in Seq([at : Nat, data : Seq(Byte)])
    BY Types
  <2>2. \A S : \A q \in Seq(S) : \A i \in DOMAIN q : q[i] \in S
    BY ElementOfSeq
  <2> QED
    BY <2>1, <2>2, Zenon
<1>2. Len(frames[1][k].data) \in Nat
  BY <1>1, LenProperties
<1> QED
  BY <1>1, <1>2, Sums DEF After

\* Frames decoded before stay in the stream when the buffer loses its start.
LEMMA FramesKept ==
  ASSUME Devices = 1, TypeOK, FramesAreInStream, stream' = stream, frames' = frames,
         Offset(1) \in Nat, Offset(1)' \in Nat, Offset(1) <= Offset(1)'
  PROVE  FramesAreInStream'
<1>1. ASSUME NEW k \in DOMAIN frames[1] PROVE After(frames[1][k]) <= Offset(1)'
  <2>1. After(frames[1][k]) <= Offset(1)
    BY OneDevice DEF FramesAreInStream
  <2>2. \A a, b, c \in Nat : a <= b /\ b <= c => a <= c
    OBVIOUS
  <2> QED
    BY <2>1, <2>2, FrameTypes, Zenon
<1> QED
  BY <1>1, OneDevice, ZenonT(60) DEF FramesAreInStream, After

\* A call that finds no frame keeps the invariant.
LEMMA FailKeeps ==
  ASSUME Devices = 1, ChannelInv, NEW found, NEW offset, FoundRight(found, offset),
         offset = Len(stream[1]) - Len(found.bytes), Offset(1) <= offset, Fail(1, found)
  PROVE  ChannelInv'
<1> DEFINE bytes == found.bytes
           instances == found.instances
           search == found.search
           K == {k \in DOMAIN instances : ~ Complete(instances[k], bytes)}
           part == Only(instances, K)
<1>1. /\ TypeOK /\ FramesAreInStream
      /\ DecoderInv(buffer[1], m_decoding_instances, m_header_search_pos, Offset(1))
  BY DEF ChannelInv
<1>2. /\ stream[1] \in Seq(Byte) /\ buffer \in [Device -> Seq(Byte)] /\ 1 \in Device
      /\ Offset(1) \in Nat /\ turn \in Device /\ settled \in [Device -> BOOLEAN]
  BY <1>1, Types DEF TypeOK, DecoderInv, BufferInStream
<1>3. /\ bytes \in Seq(Byte) /\ instances \in Seq(Candidate) /\ search \in Nat
      /\ offset \in Nat
      /\ BufferInStream(bytes, offset) /\ RoomBehind(bytes, search)
      /\ CandidatesInStream(instances, search, offset)
      /\ SearchedIsKnown(instances, search, offset)
      /\ AllSearched(search, offset)
  BY DEF FoundRight, DecoderInv
<1>4. /\ \A k \in DOMAIN instances : ~ IsFrame(instances[k], bytes)
      /\ buffer' = [buffer EXCEPT ![1] = bytes] /\ m_decoding_instances' = part
      /\ m_header_search_pos' = search /\ decoding' = FALSE
      /\ turn' = (turn % Devices) + 1
      /\ settled' = [settled EXCEPT ![1] = TRUE] /\ stream' = stream /\ frames' = frames
  BY DEF Fail, NextTurn
<1>5. buffer'[1] = bytes
  BY <1>2, <1>4
<1>6. Offset(1)' = offset
  BY <1>4, <1>5 DEF Offset
<1> HIDE DEF bytes, instances, search, K, part
<1>7. part \in Seq(Candidate) /\ IsPart(part, instances, K)
  <2>1. K \in SUBSET (1 .. Len(instances))
    BY <1>3, LenProperties DEF K
  <2> QED
    BY <1>3, <2>1, OnlyIsPart DEF part
<1>8. IsMoved(part, offset, instances, offset)
  <2>1. K \subseteq DOMAIN instances
    BY DEF K
  <2>2. ASSUME NEW i \in DOMAIN part
        PROVE  \E k \in DOMAIN instances :
                  /\ Place(part[i], offset) = Place(instances[k], offset)
                  /\ part[i].header = instances[k].header
    <3>1. PICK k \in K : part[i] = instances[k]
      BY <1>7 DEF IsPart
    <3> QED
      BY <2>1, <3>1
  <2>3. ASSUME NEW i \in DOMAIN part, NEW j \in DOMAIN part, i < j
        PROVE  \E k, l \in DOMAIN instances :
                  /\ k < l
                  /\ Place(part[i], offset) = Place(instances[k], offset)
                  /\ Place(part[j], offset) = Place(instances[l], offset)
    <3>1. PICK k \in K, l \in K : k < l /\ part[i] = instances[k] /\ part[j] = instances[l]
      BY <1>7, <2>3 DEF IsPart
    <3> QED
      BY <2>1, <3>1
  <2> QED
    BY <2>2, <2>3 DEF IsMoved
<1>9. CandidatesInStream(part, search, offset)
  <2>1. offset + search <= offset + search
    BY <1>3
  <2> QED
    BY <1>3, <1>7, <1>8, <2>1, MovedStayInStream
<1>10. ASSUME NEW h \in 0 .. offset + search - 1, HeaderAt(h), Waits(h, instances, offset)
       PROVE  Waits(h, part, offset) \/ IsFalse(h)
  <2>1. PICK k \in DOMAIN instances : Place(instances[k], offset) = h
    BY <1>10 DEF Waits
  <2>2. CASE Complete(instances[k], bytes)
    <3>1. ~ IsFrame(instances[k], bytes)
      BY <1>4
    <3> QED
      BY <1>2, <1>3, <2>1, <2>2, <3>1, CandidateProperties DEF CandidateIs
  <2>3. CASE ~ Complete(instances[k], bytes)
    <3>1. k \in K
      BY <2>3 DEF K
    <3>2. PICK i \in DOMAIN part : part[i] = instances[k]
      BY <1>7, <3>1 DEF IsPart
    <3> QED
      BY <2>1, <3>2 DEF Waits
  <2> QED
    BY <2>2, <2>3
<1>11. \A h \in 0 .. offset + search - 1 : HeaderAt(h) =>
          \/ Waits(h, part, offset)
          \/ IsFalse(h)
          \/ \E k \in DOMAIN frames'[1] : Overlaps(h, frames'[1][k])
  BY <1>3, <1>4, <1>10 DEF SearchedIsKnown
<1>12. DecoderInv(buffer[1], m_decoding_instances, m_header_search_pos, Offset(1))'
  BY <1>3, <1>4, <1>5, <1>6, <1>9, <1>11, DecoderInvAfter
<1>13. TypeOK'
  <2>1. buffer' \in [Device -> Seq(Byte)]
    BY <1>2, <1>3, <1>4
  <2>2. m_header_search_pos' > 0 => m_header_search_pos' + HeaderSize <= Len(buffer'[1])
    BY <1>3, <1>4, <1>5 DEF RoomBehind
  <2>3. turn' \in Device
    <3>1. turn' = (1 % 1) + 1
      BY <1>1, <1>4, Types
    <3> QED
      BY <1>2, <3>1
  <2>4. settled' \in [Device -> BOOLEAN] /\ decoding' \in BOOLEAN
    BY <1>2, <1>4
  <2> QED
    BY <1>1, <1>3, <1>4, <1>7, <2>1, <2>2, <2>3, <2>4 DEF TypeOK
<1>14. FramesAreInStream'
  BY <1>1, <1>2, <1>3, <1>4, <1>6, FramesKept
<1>15. NothingLeft'
  <2>1. \A h \in 0 .. Len(Bytes') - 1 :
           h + HeaderSize < Len(Bytes') => h < Offset(1)' + m_header_search_pos'
    BY <1>3, <1>4, <1>6 DEF AllSearched, Bytes
  <2>2. ASSUME NEW i \in DOMAIN part PROVE ~ Complete(part[i], bytes)
    BY <1>7 DEF IsPart, K
  <2> QED
    BY <1>4, <1>5, <2>1, <2>2 DEF NothingLeft, Complete, End
<1> QED
  BY <1>12, <1>13, <1>14, <1>15 DEF ChannelInv
\* What remains of the candidates when one has been taken: those behind it that begin
\* behind its end.
LEMMA KeptProperties ==
  ASSUME NEW instances \in Seq(Candidate), NEW k \in DOMAIN instances,
         NEW end \in Nat, NEW offset \in Nat,
         NEW part, part = KeptAfter(Skip(instances, k), end)
  PROVE  /\ part \in Seq(Candidate)
         /\ IsMoved(part, offset + end, instances, offset)
         /\ \A m \in DOMAIN instances :
              k < m /\ end <= instances[m].body_begin =>
                 Waits(Place(instances[m], offset), part, offset + end)
<1> DEFINE rest == Skip(instances, k)
           K == {m \in DOMAIN rest : rest[m].body_begin >= end}
           kept == Only(rest, K)
<1>1. k \in Nat /\ Len(instances) \in Nat /\ k \in 0 .. Len(instances)
  BY LenProperties
<1>2. /\ rest \in Seq(Candidate) /\ Len(rest) = Len(instances) - k /\ Len(rest) \in Nat
      /\ \A i \in 1 .. Len(instances) - k : rest[i] = instances[k + i]
  <2>1. /\ rest \in Seq(Candidate) /\ Len(rest) = Len(instances) - k
        /\ \A i \in 1 .. Len(instances) - k : rest[i] = instances[k + i]
    BY <1>1, SkipProperties
  <2> HIDE DEF rest
  <2> QED
    BY <2>1, LenProperties
<1>3. part = [i \in DOMAIN kept |-> [kept[i] EXCEPT !.body_begin = @ - end]]
  BY DEF KeptAfter
<1> HIDE DEF rest
<1>4. K \in SUBSET (1 .. Len(rest)) /\ K \subseteq DOMAIN rest
  BY <1>2
<1>5. kept \in Seq(Candidate) /\ IsPart(kept, rest, K)
  <2> HIDE DEF K
  <2> QED
    BY <1>2, <1>4, OnlyIsPart
<1>6. \A m \in K : m \in DOMAIN rest /\ rest[m].body_begin >= end
  OBVIOUS
<1>7. \A m \in DOMAIN rest : rest[m].body_begin >= end => m \in K
  OBVIOUS
<1> HIDE DEF K, kept
<1>8. ASSUME NEW m \in K
      PROVE  /\ k + m \in DOMAIN instances /\ rest[m] = instances[k + m] /\ m \in Nat
             /\ rest[m].body_begin >= end
  BY <1>1, <1>2, <1>4, <1>6
<1>9. \A i \in DOMAIN kept : kept[i] \in Candidate /\ kept[i].body_begin >= end
  <2> TAKE i \in DOMAIN kept
  <2>1. kept[i] \in Candidate
    BY <1>5, ElementOfSeq
  <2>2. PICK m \in K : kept[i] = rest[m]
    BY <1>5 DEF IsPart
  <2> QED
    BY <1>8, <2>1, <2>2
\* An element of part is one of kept, whose position is counted from the end.
<1>10. ASSUME NEW i \in DOMAIN kept
       PROVE  /\ i \in DOMAIN part /\ part[i] \in Candidate
              /\ part[i].header = kept[i].header
              /\ Place(part[i], offset + end) = Place(kept[i], offset)
  <2>1. /\ kept[i] \in Candidate /\ kept[i].body_begin \in Nat
        /\ end <= kept[i].body_begin
    BY <1>9 DEF Candidate
  <2>2. part[i] = [kept[i] EXCEPT !.body_begin = kept[i].body_begin - end] /\ i \in DOMAIN part
    BY <1>3
  <2>3. kept[i].body_begin - end \in Nat
    BY <2>1
  <2>4. /\ part[i] \in Candidate /\ part[i].header = kept[i].header
        /\ part[i].body_begin = kept[i].body_begin - end
    BY <2>1, <2>2, <2>3 DEF Candidate
  <2>5. \A b \in Nat : (offset + end) + (b - end) - HeaderSize = offset + b - HeaderSize
    OBVIOUS
  <2>6. (offset + end) + part[i].body_begin - HeaderSize = offset + kept[i].body_begin - HeaderSize
    BY <2>1, <2>4, <2>5, Zenon
  <2> QED
    BY <2>2, <2>4, <2>6 DEF Place
<1>11. DOMAIN part = DOMAIN kept
  BY <1>3
<1>12. part \in Seq(Candidate)
  <2>1. Len(kept) \in Nat /\ DOMAIN kept = 1 .. Len(kept)
    BY <1>5, LenProperties
  <2>2. part \in [1 .. Len(kept) -> Candidate]
    BY <1>3, <1>10, <2>1
  <2> QED
    BY <2>1, <2>2
<1>13. ASSUME NEW i \in DOMAIN part
       PROVE  \E m \in DOMAIN instances :
                 /\ Place(part[i], offset + end) = Place(instances[m], offset)
                 /\ part[i].header = instances[m].header
  <2>1. PICK m \in K : kept[i] = rest[m]
    BY <1>5, <1>11 DEF IsPart
  <2>2. k + m \in DOMAIN instances /\ rest[m] = instances[k + m]
    BY <1>8
  <2> QED
    BY <1>10, <1>11, <2>1, <2>2
<1>14. ASSUME NEW i \in DOMAIN part, NEW j \in DOMAIN part, i < j
       PROVE  \E m, n \in DOMAIN instances :
                 /\ m < n
                 /\ Place(part[i], offset + end) = Place(instances[m], offset)
                 /\ Place(part[j], offset + end) = Place(instances[n], offset)
  <2>1. PICK m \in K, n \in K : m < n /\ kept[i] = rest[m] /\ kept[j] = rest[n]
    BY <1>5, <1>11, <1>14 DEF IsPart
  <2>2. /\ k + m \in DOMAIN instances /\ rest[m] = instances[k + m]
        /\ k + n \in DOMAIN instances /\ rest[n] = instances[k + n]
        /\ m \in Nat /\ n \in Nat
    BY <1>8
  <2>3. k + m < k + n
    BY <1>1, <2>1, <2>2
  <2>4. /\ Place(part[i], offset + end) = Place(instances[k + m], offset)
        /\ Place(part[j], offset + end) = Place(instances[k + n], offset)
    BY <1>10, <1>11, <2>1, <2>2
  <2> QED
    BY <2>2, <2>3, <2>4
<1>15. ASSUME NEW m \in DOMAIN instances, k < m, end <= instances[m].body_begin
       PROVE  Waits(Place(instances[m], offset), part, offset + end)
  <2>1. m - k \in 1 .. Len(instances) - k /\ k + (m - k) = m
    BY <1>1, <1>15
  <2>2. rest[m - k] = instances[m] /\ m - k \in DOMAIN rest
    BY <1>2, <2>1
  <2>3. instances[m].body_begin \in Nat
    <3>1. instances[m] \in Candidate
      BY ElementOfSeq
    <3> QED
      BY <3>1 DEF Candidate
  <2>4. m - k \in K
    BY <1>7, <1>15, <2>2, <2>3
  <2>5. PICK i \in DOMAIN kept : kept[i] = rest[m - k]
    BY <1>5, <2>4 DEF IsPart
  <2> QED
    BY <1>10, <2>2, <2>5 DEF Waits
<1> QED
  BY <1>12, <1>13, <1>14, <1>15 DEF IsMoved
\* The frame that the candidate c is.
FrameOf(c, bytes, offset) == [at |-> offset + c.body_begin, data |-> Body(c, bytes)]

FrameIs(c, f, bytes, offset) ==
    LET h == Place(c, offset)
    IN  /\ f \in [at : Nat, data : Seq(Byte)]
        /\ f.at = offset + c.body_begin /\ f.at = h + HeaderSize
        /\ f.data = c.header.checksum /\ Len(f.data) = c.header.size
        /\ f.data = SubSeq(Bytes, f.at + 1, After(f))
        /\ After(f) = EndOf(h) /\ After(f) = offset + End(c)
        /\ End(c) \in Nat /\ End(c) <= Len(bytes) /\ c.body_begin <= End(c)
        /\ h \in Nat /\ HeaderAt(h) /\ c.header = Header[Bytes[h + 1]]
        /\ c.header \in [size : Nat, checksum : Seq(Byte)]
        /\ EndOf(h) <= Len(Bytes) /\ EndOf(h) \in Nat
        /\ h + HeaderSize <= EndOf(h) /\ h < EndOf(h)

\* A candidate that passes the checks is a frame of the stream.
LEMMA FrameOfProperties ==
  ASSUME stream[1] \in Seq(Byte), NEW bytes \in Seq(Byte), NEW offset \in Nat,
         BufferInStream(bytes, offset),
         NEW instances \in Seq(Candidate), NEW search \in Nat,
         CandidatesInStream(instances, search, offset),
         NEW k \in DOMAIN instances, IsFrame(instances[k], bytes)
  PROVE  FrameIs(instances[k], FrameOf(instances[k], bytes, offset), bytes, offset)
<1> DEFINE c == instances[k]
           h == Place(c, offset)
           f == FrameOf(c, bytes, offset)
<1>1. /\ c \in Candidate /\ c.body_begin \in Nat /\ c.header.size \in Nat
      /\ HeaderAt(h) /\ h \in Nat
      /\ h = offset + c.body_begin - HeaderSize
      /\ c.header = Header[Bytes[h + 1]]
      /\ EndOf(h) = offset + End(c) /\ End(c) \in Nat /\ c.body_begin <= End(c)
      /\ Complete(c, bytes) <=> EndOf(h) <= Len(Bytes)
      /\ Complete(c, bytes) =>
           /\ Body(c, bytes) = SubSeq(Bytes, h + HeaderSize + 1, EndOf(h))
           /\ Body(c, bytes) \in Seq(Byte) /\ Len(Body(c, bytes)) = c.header.size
  <2>1. CandidateIs(c, bytes, search, offset)
    BY CandidateProperties
  <2> HIDE DEF c
  <2> QED
    BY <2>1 DEF CandidateIs
<1>2. Complete(c, bytes) /\ Body(c, bytes) = c.header.checksum
  BY DEF IsFrame
<1>3. /\ EndOf(h) \in Nat /\ h + HeaderSize <= EndOf(h)
      /\ c.header \in [size : Nat, checksum : Seq(Byte)]
  BY <1>1, HeaderSays
<1>4. EndOf(h) = h + HeaderSize + c.header.size
  BY <1>1 DEF EndOf
<1> HIDE DEF c, h
<1>5. f = [at |-> offset + c.body_begin, data |-> Body(c, bytes)]
  BY DEF FrameOf
<1> HIDE DEF f
<1>6. f.at = offset + c.body_begin /\ f.data = Body(c, bytes)
  BY <1>5
<1>7. f.at \in Nat /\ f.at = h + HeaderSize
  <2>1. \A b \in Nat : (offset + b - HeaderSize) + HeaderSize = offset + b
    OBVIOUS
  <2>2. h + HeaderSize = offset + c.body_begin
    BY <1>1, <2>1, Zenon
  <2>3. offset + c.body_begin \in Nat
    BY <1>1, Sums, Zenon
  <2> QED
    BY <1>6, <2>2, <2>3, Zenon
<1>8. f \in [at : Nat, data : Seq(Byte)]
  BY <1>5, <1>1, <1>2, <1>6, <1>7
<1>9. After(f) = EndOf(h)
  <2>1. After(f) = (h + HeaderSize) + c.header.size
    BY <1>1, <1>2, <1>6, <1>7, Zenon DEF After
  <2> QED
    BY <1>4, <2>1, Zenon
<1>10. f.data = SubSeq(Bytes, f.at + 1, After(f))
  BY <1>1, <1>2, <1>6, <1>7, <1>9, Zenon
<1>11. h < EndOf(h)
  <2>1. \A a, b \in Nat : a + HeaderSize <= b => a < b
    OBVIOUS
  <2> QED
    BY <1>1, <1>3, <2>1, Zenon
<1>12. End(c) <= Len(bytes)
  BY <1>2 DEF Complete
<1> QED
  BY <1>1, <1>2, <1>3, <1>6, <1>7, <1>8, <1>9, <1>10, <1>11, <1>12, Zenon DEF c, h, f, FrameIs
\* When the first frame among the candidates is taken, each of them is kept, or is false,
\* or has bytes of the frame.
LEMMA CandidatesAccounted ==
  ASSUME stream[1] \in Seq(Byte), NEW bytes \in Seq(Byte), NEW offset \in Nat,
         BufferInStream(bytes, offset),
         NEW instances \in Seq(Candidate), NEW search \in Nat,
         CandidatesInStream(instances, search, offset),
         NEW k \in DOMAIN instances, IsFrame(instances[k], bytes),
         \A j \in 1 .. k - 1 : ~ IsFrame(instances[j], bytes),
         NEW part, part = KeptAfter(Skip(instances, k), End(instances[k])),
         NEW m \in DOMAIN instances, NEW h, h = Place(instances[m], offset)
  PROVE  \/ Waits(h, part, offset + End(instances[k]))
         \/ IsFalse(h)
         \/ Overlaps(h, FrameOf(instances[k], bytes, offset))
<1> DEFINE c == instances[k]
           other == instances[m]
           f == FrameOf(c, bytes, offset)
           g == Place(c, offset)
<1>1. FrameIs(c, f, bytes, offset)
  BY FrameOfProperties
<1>2. CandidateIs(other, bytes, search, offset) /\ CandidateIs(c, bytes, search, offset)
  BY CandidateProperties
<1>3. /\ m < k => other.body_begin < c.body_begin
      /\ k < m => c.body_begin < other.body_begin
  BY DEF CandidatesInStream
<1>4. m \in Nat /\ k \in Nat /\ (m < k => m \in 1 .. k - 1)
  BY LenProperties
<1>5. k < m /\ End(c) <= other.body_begin => Waits(h, part, offset + End(c))
  <2>1. End(c) \in Nat
    BY <1>1 DEF FrameIs
  <2> QED
    BY <2>1, KeptProperties
<1>6. m < k => ~ IsFrame(other, bytes)
  BY <1>4
<1>7. m = k => other = c
  OBVIOUS
<1>8. Len(bytes) \in Nat /\ Len(Bytes) \in Nat
  BY LenProperties DEF Bytes
<1> HIDE DEF c, other, f
<1>9. /\ f.at = g + HeaderSize /\ g \in Nat /\ g < EndOf(g) /\ After(f) = EndOf(g)
      /\ EndOf(g) \in Nat /\ EndOf(g) <= Len(Bytes) /\ EndOf(g) = offset + End(c)
      /\ End(c) \in Nat /\ c.body_begin \in Nat /\ g = offset + c.body_begin - HeaderSize
  BY <1>1, <1>2 DEF FrameIs, CandidateIs
<1>10. /\ h \in Nat /\ HeaderAt(h) /\ other.body_begin \in Nat
       /\ h = offset + other.body_begin - HeaderSize
       /\ Complete(other, bytes) <=> EndOf(h) <= Len(Bytes)
       /\ Complete(other, bytes) /\ ~ IsFrame(other, bytes) => IsFalse(h)
  BY <1>2 DEF CandidateIs, other
<1>11. EndOf(h) \in Nat /\ h + HeaderSize <= EndOf(h)
  BY <1>10, HeaderSays
<1> HIDE DEF g
<1>12. f.at - HeaderSize = g
  BY <1>9
<1>13. g < EndOf(h) /\ h < EndOf(g) => Overlaps(h, f)
  BY <1>9, <1>12 DEF Overlaps
<1>14. /\ other.body_begin < c.body_begin => h < g
       /\ c.body_begin < other.body_begin => g < h
  <2>1. \A a, b \in Nat : a < b => offset + a - HeaderSize < offset + b - HeaderSize
    OBVIOUS
  <2> QED
    BY <1>9, <1>10, <2>1, Zenon
<1>15. \A a, b, n \in Nat : a < b /\ b < n => a < n
  OBVIOUS
<1>16. \A a, b \in Nat : a < b /\ b + HeaderSize <= EndOf(h) => a < EndOf(h)
  BY <1>11
<1>17. CASE m < k
  <2>1. CASE Complete(other, bytes)
    BY <1>6, <1>10, <1>17, <2>1
  <2>2. CASE ~ Complete(other, bytes)
    <3>1. Len(Bytes) < EndOf(h)
      BY <1>8, <1>10, <1>11, <2>2
    <3>2. g < EndOf(h)
      BY <1>8, <1>9, <1>11, <3>1
    <3>3. h < g
      BY <1>3, <1>17, <1>14, Zenon
    <3>4. h < EndOf(g)
      BY <1>9, <1>10, <1>15, <3>3, Zenon
    <3> QED
      BY <1>13, <3>2, <3>4 DEF f, c
  <2> QED
    BY <2>1, <2>2
<1>18. CASE m = k
  <2>1. h = g
    BY <1>7, <1>18 DEF g, other, c
  <2> QED
    BY <1>9, <1>13, <2>1 DEF f, c
<1>19. CASE k < m
  <2>1. CASE End(c) <= other.body_begin
    BY <1>5, <1>19, <2>1 DEF c
  <2>2. CASE other.body_begin < End(c)
    <3>1. h < EndOf(g)
      BY <1>9, <1>10, <2>2, SMTT(60)
    <3>2. g < h
      BY <1>3, <1>19, <1>14, Zenon
    <3>3. g < EndOf(h)
      BY <1>9, <1>10, <1>11, <1>16, <3>2, Zenon
    <3> QED
      BY <1>13, <3>1, <3>3 DEF f, c
  <2> QED
    BY <1>9, <1>10, <2>1, <2>2, SMTT(60)
<1> QED
  BY <1>4, <1>17, <1>18, <1>19

\* The search position after a frame: nothing searched is searched in vain again.
LEMMA SearchAfterProperties ==
  \A search, end, offset \in Nat :
     /\ SearchAfter(search, end) \in Nat
     /\ offset + search <= (offset + end) + SearchAfter(search, end)
     /\ \A x \in Nat :
          x < (offset + end) + SearchAfter(search, end) /\ offset + search <= x => x < offset + end
BY DEF SearchAfter

\* A call that finds a frame keeps the invariant.
LEMMA SucceedKeeps ==
  ASSUME Devices = 1, ChannelInv, NEW found, NEW offset, FoundRight(found, offset),
         offset = Len(stream[1]) - Len(found.bytes), Offset(1) <= offset,
         NEW k \in DOMAIN found.instances, Succeed(1, found, k)
  PROVE  ChannelInv'
<1> DEFINE bytes == found.bytes
           instances == found.instances
           search == found.search
           c == instances[k]
           end == End(c)
           rest == Skip(bytes, end)
           part == KeptAfter(Skip(instances, k), end)
           to == offset + end
           later == SearchAfter(search, end)
           f == FrameOf(c, bytes, offset)
           h == Place(c, offset)
<1>1. /\ TypeOK /\ FramesAreInStream
      /\ DecoderInv(buffer[1], m_decoding_instances, m_header_search_pos, Offset(1))
  BY DEF ChannelInv
<1>2. /\ stream[1] \in Seq(Byte) /\ buffer[1] \in Seq(Byte)
      /\ buffer \in [Device -> Seq(Byte)] /\ 1 \in Device
      /\ frames[1] \in Seq([at : Nat, data : Seq(Byte)])
      /\ frames \in [Device -> Seq([at : Nat, data : Seq(Byte)])]
      /\ Offset(1) \in Nat /\ settled \in [Device -> BOOLEAN]
  BY <1>1, Types DEF TypeOK, DecoderInv, BufferInStream
<1>3. /\ bytes \in Seq(Byte) /\ instances \in Seq(Candidate) /\ search \in Nat
      /\ offset \in Nat
      /\ BufferInStream(bytes, offset) /\ RoomBehind(bytes, search)
      /\ CandidatesInStream(instances, search, offset)
      /\ SearchedIsKnown(instances, search, offset)
      /\ AllSearched(search, offset)
  BY DEF FoundRight, DecoderInv
<1>4. IsFrame(c, bytes) /\ \A j \in 1 .. k - 1 : ~ IsFrame(instances[j], bytes)
  BY DEF Succeed, IsTaken
<1>5. FrameIs(c, f, bytes, offset)
  BY <1>2, <1>3, <1>4, FrameOfProperties
<1>6. /\ buffer' = [buffer EXCEPT ![1] = rest] /\ m_decoding_instances' = part
      /\ m_header_search_pos' = later /\ decoding' = TRUE /\ turn' = turn
      /\ settled' = [settled EXCEPT ![1] = FALSE] /\ stream' = stream
  BY DEF Succeed, Skip
<1>7. frames' = [frames EXCEPT ![1] = Append(frames[1], f)]
  <2>1. frames' = [frames EXCEPT ![1] =
           Append(frames[1], [at |-> Offset(1) + (Len(buffer[1]) - Len(bytes)) + c.body_begin,
                              data |-> Body(c, bytes)])]
    BY DEF Succeed
  <2>2. Offset(1) + (Len(buffer[1]) - Len(bytes)) = offset
    <3>1. Len(stream[1]) \in Nat /\ Len(buffer[1]) \in Nat /\ Len(bytes) \in Nat
      BY <1>2, <1>3, LenProperties
    <3> QED
      BY <3>1 DEF Offset
  <2> QED
    BY <2>1, <2>2, Zenon DEF FrameOf
<1> HIDE DEF bytes, instances, search, part, later, rest, f, h, c
<1>8. end \in Nat /\ end <= Len(bytes) /\ Len(bytes) \in Nat /\ Len(Bytes) \in Nat
      /\ Len(bytes) + offset = Len(Bytes)
  BY <1>2, <1>3, <1>5, LenProperties DEF FrameIs, BufferInStream, Bytes
<1>9. /\ f \in [at : Nat, data : Seq(Byte)] /\ f.at = offset + c.body_begin
      /\ f.at = h + HeaderSize /\ h \in Nat /\ HeaderAt(h)
      /\ f.data = SubSeq(Bytes, f.at + 1, After(f)) /\ f.data = c.header.checksum
      /\ Len(f.data) = c.header.size /\ c.header = Header[Bytes[h + 1]]
      /\ c.header \in [size : Nat, checksum : Seq(Byte)]
      /\ After(f) = to /\ After(f) = EndOf(h) /\ h < EndOf(h)
      /\ EndOf(h) <= Len(Bytes) /\ EndOf(h) \in Nat
  BY <1>5 DEF FrameIs, h
<1>10. c \in Candidate /\ c.body_begin \in Nat
  <2>1. CandidateIs(c, bytes, search, offset)
    BY <1>2, <1>3, CandidateProperties DEF instances, c
  <2> QED
    BY <2>1 DEF CandidateIs
<1> HIDE DEF end
<1>11. /\ BufferInStream(rest, to) /\ rest \in Seq(Byte) /\ Len(rest) = Len(bytes) - end
  <2>1. end \in 0 .. Len(bytes)
    BY <1>8
  <2> QED
    BY <1>2, <1>3, <2>1, SkipInStream DEF rest
<1>12. /\ part \in Seq(Candidate) /\ IsMoved(part, to, instances, offset)
  BY <1>3, <1>8, KeptProperties DEF part, instances
<1>13. to \in Nat /\ later \in Nat /\ offset + search <= to + later
  <2>1. later \in Nat /\ offset + search <= (offset + end) + later
    BY <1>3, <1>8, SearchAfterProperties, Zenon DEF later
  <2>2. offset + end \in Nat
    BY <1>3, <1>8, Sums, Zenon
  <2> QED
    BY <2>1, <2>2, Zenon DEF to
<1> HIDE DEF to
<1>14. CandidatesInStream(part, later, to)
  BY <1>3, <1>12, <1>13, MovedStayInStream
<1>15. RoomBehind(rest, later)
  BY <1>3, <1>8, <1>11 DEF RoomBehind, later, SearchAfter
<1>16. buffer'[1] = rest /\ frames'[1] = Append(frames[1], f)
  BY <1>2, <1>6, <1>7
<1>17. Offset(1)' = to
  <2>1. Offset(1)' = Len(Bytes) - Len(rest)
    BY <1>6, <1>16 DEF Offset, Bytes
  <2>2. Len(rest) + to = Len(Bytes) /\ Len(rest) \in Nat
    BY <1>11, LenProperties DEF BufferInStream
  <2> QED
    BY <1>8, <1>13, <2>1, <2>2
<1> DEFINE n == Len(frames[1])
\* Frames decoded before are still there, with the new one behind them.
<1>18. /\ n \in Nat /\ DOMAIN frames[1] = 1 .. n /\ DOMAIN frames'[1] = 1 .. n + 1
       /\ \A i \in 1 .. n : frames'[1][i] = frames[1][i]
       /\ frames'[1][n + 1] = f
       /\ \A i \in 1 .. n : i \in 1 .. n + 1 /\ \A j \in 1 .. i - 1 : j \in 1 .. n
       /\ frames'[1] \in Seq([at : Nat, data : Seq(Byte)])
  <2>1. Append(frames[1], f) \in Seq([at : Nat, data : Seq(Byte)])
    BY <1>2, <1>9, AppendProperties
  <2>2. n \in Nat /\ DOMAIN frames[1] = 1 .. n
    BY <1>2, LenProperties
  <2>3. /\ Len(Append(frames[1], f)) = n + 1 /\ Append(frames[1], f)[n + 1] = f
        /\ \A i \in 1 .. n : Append(frames[1], f)[i] = frames[1][i]
    BY <1>2, <1>9, AppendProperties
  <2>4. DOMAIN Append(frames[1], f) = 1 .. n + 1
    BY <2>1, <2>3, LenProperties
  <2>5. \A i \in 1 .. n : i \in 1 .. n + 1 /\ \A j \in 1 .. i - 1 : j \in 1 .. n
    BY <2>2
  <2> QED
    BY <1>16, <2>1, <2>2, <2>3, <2>4, <2>5, Zenon
<1>19. HeaderSize <= f.at /\ f.at - HeaderSize = h /\ f.at - HeaderSize + 1 = h + 1
  <2>1. \A a \in Nat : /\ HeaderSize <= a + HeaderSize /\ (a + HeaderSize) - HeaderSize = a
                       /\ (a + HeaderSize) - HeaderSize + 1 = a + 1
    OBVIOUS
  <2> QED
    BY <1>9, <2>1, Zenon
<1>20. ASSUME NEW x \in 0 .. to + later - 1, HeaderAt(x)
       PROVE  \/ Waits(x, part, to)
              \/ IsFalse(x)
              \/ \E i \in DOMAIN frames'[1] : Overlaps(x, frames'[1][i])
  <2>1. ASSUME Overlaps(x, f) PROVE \E i \in DOMAIN frames'[1] : Overlaps(x, frames'[1][i])
    <3>1. n + 1 \in DOMAIN frames'[1]
      BY <1>18
    <3> QED
      BY <1>18, <2>1, <3>1, Zenon
  <2>2. x \in Nat /\ x < to + later /\ offset + search \in Nat
    <3>1. x \in Nat /\ x < to + later
      BY <1>13
    <3> QED
      BY <1>3, <3>1, Sums, Zenon
  <2>3. CASE x < offset + search
    <3>1. CASE Waits(x, instances, offset)
      <4>1. PICK m \in DOMAIN instances : x = Place(instances[m], offset)
        BY <3>1 DEF Waits
      <4>2. \/ Waits(x, part, to) \/ IsFalse(x) \/ Overlaps(x, f)
        BY <1>2, <1>3, <1>4, <4>1, CandidatesAccounted DEF part, f, c, end, to, instances
      <4> QED
        BY <2>1, <4>2
    <3>2. CASE \E i \in DOMAIN frames[1] : Overlaps(x, frames[1][i])
      <4>1. PICK i \in DOMAIN frames[1] : Overlaps(x, frames[1][i])
        BY <3>2
      <4>2. i \in DOMAIN frames'[1] /\ frames'[1][i] = frames[1][i]
        BY <1>18, Zenon
      <4> QED
        BY <4>1, <4>2, Zenon
    <3>3. x \in 0 .. offset + search - 1
      <4>1. \A y, a, b \in Nat : y < a + b => y \in 0 .. a + b - 1
        OBVIOUS
      <4> QED
        BY <1>3, <2>3, <2>2, <4>1, Zenon
    <3> QED
      BY <1>3, <1>20, <3>1, <3>2, <3>3 DEF SearchedIsKnown
  <2>4. CASE offset + search <= x
    <3>1. x \in Nat /\ x < Len(Bytes) /\ EndOf(x) \in Nat /\ x + HeaderSize <= EndOf(x)
      BY <1>2, <1>20, HeaderSays
    <3>2. Len(Bytes) <= x + HeaderSize
      <4>1. x \in 0 .. Len(Bytes) - 1
        BY <1>8, <3>1
      <4>2. x + HeaderSize < Len(Bytes) => x < offset + search
        BY <1>3, <4>1, Zenon DEF AllSearched
      <4>3. ~ (x < offset + search)
        <5>1. \A y, a \in Nat : a <= y => ~ (y < a)
          OBVIOUS
        <5> QED
          BY <2>2, <2>4, <5>1, Zenon
      <4> QED
        <5>1. \A a, b \in Nat : a <= b + HeaderSize \/ b + HeaderSize < a
          OBVIOUS
        <5> QED
          BY <1>8, <2>2, <4>2, <4>3, <5>1, Zenon
    <3>3. x < to
      BY <1>3, <1>8, <2>2, <2>4, SearchAfterProperties, Zenon DEF later, to
    <3>4. f.at - HeaderSize < EndOf(x)
      <4>1. f.at - HeaderSize = h
        BY <1>19, Zenon
      <4>2. h < Len(Bytes)
        BY <1>8, <1>9
      <4>3. h < EndOf(x)
        BY <1>8, <1>9, <3>1, <3>2, <4>2
      <4> QED
        BY <4>1, <4>3, Zenon
    <3>5. Overlaps(x, f)
      BY <1>9, <3>3, <3>4, Zenon DEF Overlaps
    <3> QED
      BY <2>1, <3>5
  <2>5. \A a, b \in Nat : a < b \/ b <= a
    OBVIOUS
  <2> QED
    BY <2>3, <2>2, <2>4, <2>5, Zenon
<1>21. DecoderInv(buffer[1], m_decoding_instances, m_header_search_pos, Offset(1))'
  BY <1>6, <1>11, <1>14, <1>15, <1>16, <1>17, <1>20, DecoderInvAfter
<1>22. TypeOK'
  <2>1. buffer' \in [Device -> Seq(Byte)]
    BY <1>2, <1>6, <1>11
  <2>2. m_header_search_pos' > 0 => m_header_search_pos' + HeaderSize <= Len(buffer'[1])
    BY <1>6, <1>15, <1>16 DEF RoomBehind
  <2>3. settled' \in [Device -> BOOLEAN] /\ decoding' \in BOOLEAN
    BY <1>2, <1>6
  <2>4. frames' \in [Device -> Seq([at : Nat, data : Seq(Byte)])]
    <3>1. Append(frames[1], f) \in Seq([at : Nat, data : Seq(Byte)])
      BY <1>16, <1>18
    <3> QED
      BY <1>2, <1>7, <3>1
  <2> QED
    BY <1>1, <1>6, <1>12, <1>13, <2>1, <2>2, <2>3, <2>4 DEF TypeOK
<1>23. FramesAreInStream'
  <2>1. ASSUME NEW i \in 1 .. n
        PROVE  After(frames[1][i]) \in Nat /\ After(frames[1][i]) <= Offset(1)
               /\ After(frames[1][i]) <= to /\ After(frames[1][i]) <= f.at
    <3>1. After(frames[1][i]) \in Nat
      BY <1>1, <1>18, FrameTypes
    <3>2. After(frames[1][i]) <= Offset(1)
      BY <1>1, <1>18, OneDevice DEF FramesAreInStream
    <3>3. offset <= to /\ offset <= f.at
      <4>1. offset <= to
        BY <1>3, <1>8 DEF to
      <4>2. \A b \in Nat : offset <= offset + b
        BY <1>3
      <4> QED
        BY <1>9, <1>10, <4>1, <4>2, Zenon
    <3>4. f.at \in Nat
      BY <1>9
    <3>5. \A a, b, d \in Nat : a <= b /\ b <= d => a <= d
      OBVIOUS
    <3>6. After(frames[1][i]) <= offset
      BY <1>2, <1>3, <3>1, <3>2, <3>5, Zenon
    <3>7. After(frames[1][i]) <= to
      BY <1>3, <1>13, <3>1, <3>3, <3>5, <3>6, Zenon
    <3>8. After(frames[1][i]) <= f.at
      BY <1>3, <3>1, <3>3, <3>4, <3>5, <3>6, Zenon
    <3> QED
      BY <3>1, <3>2, <3>7, <3>8, Zenon
  <2>2. ASSUME NEW i \in 1 .. n + 1
        PROVE  LET g == frames'[1][i]
                   head == stream'[1][g.at - HeaderSize + 1]
               IN  /\ HeaderSize <= g.at /\ After(g) <= Offset(1)'
                   /\ g.data = SubSeq(stream'[1], g.at + 1, After(g))
                   /\ head \in DOMAIN Header
                   /\ Header[head] = [size |-> Len(g.data), checksum |-> g.data]
                   /\ \A j \in 1 .. i - 1 : After(frames'[1][j]) <= g.at
    <3>1. CASE i \in 1 .. n
      <4>1. frames'[1][i] = frames[1][i] /\ \A j \in 1 .. i - 1 : frames'[1][j] = frames[1][j]
        BY <1>18, <3>1, Zenon
      <4>2. LET g == frames[1][i]
                head == stream[1][g.at - HeaderSize + 1]
            IN  /\ HeaderSize <= g.at
                /\ g.data = SubSeq(stream[1], g.at + 1, After(g))
                /\ head \in DOMAIN Header
                /\ Header[head] = [size |-> Len(g.data), checksum |-> g.data]
                /\ \A j \in 1 .. i - 1 : After(frames[1][j]) <= g.at
        BY <1>1, <1>18, <3>1, OneDevice DEF FramesAreInStream
      <4> QED
        BY <1>6, <1>17, <2>1, <3>1, <4>1, <4>2
    <3>2. CASE i = n + 1
      <4>1. frames'[1][i] = f
        BY <1>18, <3>2
      <4>2. \A j \in 1 .. i - 1 : After(frames'[1][j]) <= f.at
        <5>1. \A j \in 1 .. i - 1 : j \in 1 .. n
          BY <1>18, <3>2
        <5> QED
          BY <1>18, <2>1, <5>1
      <4>3. HeaderSize <= f.at /\ f.at - HeaderSize + 1 = h + 1
        BY <1>19
      <4>4. After(f) <= Offset(1)'
        BY <1>9, <1>13, <1>17
      <4>5. stream'[1][f.at - HeaderSize + 1] = Bytes[h + 1]
        BY <1>6, <4>3 DEF Bytes
      <4>6. Header[Bytes[h + 1]] = [size |-> Len(f.data), checksum |-> f.data]
        BY <1>9
      <4>7. Bytes[h + 1] \in DOMAIN Header
        BY <1>9 DEF HeaderAt
      <4>8. f.data = SubSeq(stream'[1], f.at + 1, After(f))
        BY <1>6, <1>9 DEF Bytes
      <4> QED
        BY <4>1, <4>2, <4>3, <4>4, <4>5, <4>6, <4>7, <4>8, Zenon
    <3> QED
      <4>1. i \in 1 .. n \/ i = n + 1
        BY <1>18
      <4> QED
        BY <3>1, <3>2, <4>1, Zenon
  <2> QED
    BY <1>18, <2>2, OneDevice, ZenonT(60) DEF FramesAreInStream, After
<1>24. settled'[1] = FALSE
  BY <1>2, <1>6
<1> QED
  BY <1>21, <1>22, <1>23, <1>24 DEF ChannelInv
\* Bytes that come do not change what there is.
LEMMA SubSeqOfStart ==
  ASSUME NEW S, NEW q \in Seq(S), NEW r \in Seq(S), NEW a \in Nat, NEW b \in Nat, b <= Len(q)
  PROVE  SubSeq(q \o r, a + 1, b) = SubSeq(q, a + 1, b)
<1>1. /\ q \o r \in Seq(S) /\ Len(q) \in Nat /\ Len(r) \in Nat
      /\ Len(q \o r) = Len(q) + Len(r)
      /\ \A i \in 1 .. Len(q) : (q \o r)[i] = q[i]
  BY ConcatProperties, LenProperties
<1>2. \A i \in a + 1 .. b : i \in 1 .. Len(q)
  BY <1>1
<1>3. \A i \in a + 1 .. b : q[i] \in S /\ (q \o r)[i] \in S /\ (q \o r)[i] = q[i]
  BY <1>1, <1>2, ElementOfSeq
<1> DEFINE x == a + 1
           m == IF x <= b THEN b - x + 1 ELSE 0
           qr == q \o r
<1>4. x \in Int /\ \A i \in x .. b : q[i] \in S /\ qr[i] \in S /\ qr[i] = q[i]
  BY <1>3
<1> HIDE DEF x, qr
<1>5. /\ SubSeq(q, x, b) \in Seq(S) /\ Len(SubSeq(q, x, b)) = m
      /\ \A i \in 1 .. b - x + 1 : SubSeq(q, x, b)[i] = q[x + i - 1]
  BY <1>4, SubSeqProperties
<1>6. /\ SubSeq(qr, x, b) \in Seq(S) /\ Len(SubSeq(qr, x, b)) = m
      /\ \A i \in 1 .. b - x + 1 : SubSeq(qr, x, b)[i] = qr[x + i - 1]
  <2>1. qr \in Seq(S)
    BY <1>1 DEF qr
  <2> QED
    BY <1>4, <2>1, SubSeqProperties
<1>7. \A i \in 1 .. b - x + 1 : x + i - 1 \in x .. b
  BY <1>4
<1>8. \A i \in 1 .. m : i \in 1 .. b - x + 1
  BY <1>4
<1> HIDE DEF m
<1>9. \A i \in 1 .. m : SubSeq(qr, x, b)[i] = SubSeq(q, x, b)[i]
  BY <1>4, <1>5, <1>6, <1>7, <1>8
<1>10. SubSeq(qr, x, b) = SubSeq(q, x, b)
  BY <1>5, <1>6, <1>9, SeqEqual
<1> QED
  BY <1>10 DEF x, qr

\* The elements of a concatenation.
LEMMA ConcatShape ==
  ASSUME NEW S, NEW q \in Seq(S), NEW r \in Seq(S)
  PROVE  /\ q \o r \in Seq(S) /\ Len(q \o r) = Len(q) + Len(r)
         /\ Len(q) \in Nat /\ Len(r) \in Nat
         /\ \A i \in 1 .. Len(q) : (q \o r)[i] = q[i]
         /\ \A i \in 1 .. Len(r) : (q \o r)[Len(q) + i] = r[i]
<1>1. /\ q \o r \in Seq(S) /\ Len(q \o r) = Len(q) + Len(r)
      /\ Len(q) \in Nat /\ Len(r) \in Nat
      /\ \A i \in 1 .. Len(q) + Len(r) :
            (q \o r)[i] = IF i <= Len(q) THEN q[i] ELSE r[i - Len(q)]
  BY ConcatProperties, LenProperties
<1>2. \A i \in 1 .. Len(q) : (q \o r)[i] = q[i]
  BY <1>1
<1>3. ASSUME NEW i \in 1 .. Len(r) PROVE (q \o r)[Len(q) + i] = r[i]
  <2>1. /\ Len(q) + i \in 1 .. Len(q) + Len(r) /\ ~ (Len(q) + i <= Len(q))
        /\ (Len(q) + i) - Len(q) = i
    BY <1>1
  <2> QED
    BY <1>1, <2>1
<1> QED
  BY <1>1, <1>2, <1>3

\* Headers stay what they are when bytes come.
LEMMA StreamGrows ==
  ASSUME stream[1] \in Seq(Byte), NEW block \in Seq(Byte), stream'[1] = stream[1] \o block,
         NEW h \in Nat
  PROVE  /\ HeaderAt(h) => /\ HeaderAt(h)' /\ EndOf(h)' = EndOf(h) /\ Bytes'[h + 1] = Bytes[h + 1]
                           /\ \A f : Overlaps(h, f)' <=> Overlaps(h, f)
                           /\ IsFalse(h) => IsFalse(h)'
         /\ HeaderAt(h)' /\ h < Len(Bytes) => HeaderAt(h)
<1>1. /\ Len(Bytes) \in Nat /\ Len(block) \in Nat /\ Len(Bytes') = Len(Bytes) + Len(block)
      /\ \A i \in 1 .. Len(Bytes) : Bytes'[i] = Bytes[i]
  BY ConcatProperties, LenProperties DEF Bytes
<1>2. h < Len(Bytes) => /\ h + 1 \in 1 .. Len(Bytes)
                        /\ h \in 0 .. Len(Bytes) - 1 /\ h \in 0 .. Len(Bytes') - 1
  BY <1>1
<1>3. HeaderAt(h) => h < Len(Bytes)
  BY <1>1 DEF HeaderAt
<1>4. h < Len(Bytes) => Bytes'[h + 1] = Bytes[h + 1] /\ EndOf(h)' = EndOf(h)
  BY <1>1, <1>2 DEF EndOf
<1>5. /\ HeaderAt(h) => HeaderAt(h)'
      /\ HeaderAt(h)' /\ h < Len(Bytes) => HeaderAt(h)
  BY <1>2, <1>3, <1>4, Zenon DEF HeaderAt
<1>6. h < Len(Bytes) => \A f : Overlaps(h, f)' <=> Overlaps(h, f)
  BY <1>4, Zenon DEF Overlaps, After
<1>7. ASSUME HeaderAt(h), IsFalse(h) PROVE IsFalse(h)'
  <2>1. EndOf(h) \in Nat /\ EndOf(h) <= Len(Bytes)
    BY <1>7, HeaderSays DEF IsFalse
  <2>2. SubSeq(Bytes', h + HeaderSize + 1, EndOf(h)) = SubSeq(Bytes, h + HeaderSize + 1, EndOf(h))
    <3>1. h + HeaderSize \in Nat
      BY Sums, Sizes, Zenon
    <3>2. SubSeq(stream[1] \o block, h + HeaderSize + 1, EndOf(h))
            = SubSeq(stream[1], h + HeaderSize + 1, EndOf(h))
      <4> DEFINE a == h + HeaderSize
                 b == EndOf(h)
                 q == stream[1]
      <4>1. a \in Nat /\ b \in Nat /\ b <= Len(q) /\ q \in Seq(Byte)
        BY <2>1, <3>1 DEF Bytes
      <4> HIDE DEF a, b, q
      <4>2. SubSeq(q \o block, a + 1, b) = SubSeq(q, a + 1, b)
        BY <4>1, SubSeqOfStart
      <4>3. \A x, y \in Nat : x + y + 1 = (x + y) + 1
        OBVIOUS
      <4> QED
        BY <4>2, <4>3, Sizes DEF a, b, q
    <3> QED
      BY <3>2 DEF Bytes
  <2>3. EndOf(h) <= Len(Bytes')
    BY <1>1, <2>1
  <2>4. EndOf(h)' = EndOf(h) /\ Bytes'[h + 1] = Bytes[h + 1]
    BY <1>3, <1>4, <1>7
  <2>5. SubSeq(Bytes, h + HeaderSize + 1, EndOf(h)) # Header[Bytes[h + 1]].checksum
    BY <1>7 DEF IsFalse
  <2> QED
    BY <2>2, <2>3, <2>4, <2>5, Zenon DEF IsFalse
<1> QED
  BY <1>3, <1>4, <1>5, <1>6, <1>7

\* Bytes that come keep the invariant.
LEMMA ReceiveKeeps ==
  ASSUME Devices = 1, ChannelInv, NEW block \in Block, Receive(1, block)
  PROVE  ChannelInv'
<1> DEFINE bytes == buffer[1]
           o == Offset(1)
           search == m_header_search_pos
           instances == m_decoding_instances
<1>1. TypeOK /\ FramesAreInStream /\ DecoderInv(bytes, instances, search, o)
  BY DEF ChannelInv
<1>2. /\ stream[1] \in Seq(Byte) /\ bytes \in Seq(Byte) /\ 1 \in Device
      /\ instances \in Seq(Candidate) /\ search \in Nat
      /\ buffer \in [Device -> Seq(Byte)] /\ stream \in [Device -> Seq(Byte)]
      /\ frames[1] \in Seq([at : Nat, data : Seq(Byte)]) /\ settled \in [Device -> BOOLEAN]
  BY <1>1, Types DEF TypeOK
<1>3. /\ BufferInStream(bytes, o) /\ RoomBehind(bytes, search)
      /\ CandidatesInStream(instances, search, o) /\ SearchedIsKnown(instances, search, o)
  BY <1>1 DEF DecoderInv
<1>4. block \in Seq(Byte)
  BY ChannelAssumption
<1>5. /\ buffer' = [buffer EXCEPT ![1] = buffer[1] \o block]
      /\ stream' = [stream EXCEPT ![1] = stream[1] \o block]
      /\ settled' = [settled EXCEPT ![1] = FALSE]
      /\ instances' = instances /\ search' = search /\ turn' = turn
      /\ decoding' = decoding /\ frames' = frames
  BY DEF Receive
<1>6. buffer'[1] = bytes \o block /\ stream'[1] = stream[1] \o block /\ settled'[1] = FALSE
  BY <1>2, <1>5
<1>7. /\ Len(Bytes) \in Nat /\ Len(bytes) \in Nat /\ Len(block) \in Nat
      /\ Len(Bytes') = Len(Bytes) + Len(block) /\ Len(bytes') = Len(bytes) + Len(block)
      /\ \A i \in 1 .. Len(Bytes) : Bytes'[i] = Bytes[i]
      /\ \A i \in 1 .. Len(block) : Bytes'[Len(Bytes) + i] = block[i]
      /\ \A i \in 1 .. Len(bytes) : bytes'[i] = bytes[i]
      /\ \A i \in 1 .. Len(block) : bytes'[Len(bytes) + i] = block[i]
      /\ Bytes' \in Seq(Byte) /\ bytes' \in Seq(Byte)
  BY <1>2, <1>4, <1>6, ConcatShape, LenProperties DEF Bytes
<1>8. /\ o \in Nat /\ Len(bytes) + o = Len(Bytes)
      /\ \A i \in 1 .. Len(bytes) : bytes[i] = Bytes[o + i]
  BY <1>3 DEF BufferInStream
<1>9. o' = o
  <2>1. o' = Len(Bytes') - Len(bytes') /\ o = Len(Bytes) - Len(bytes)
    BY DEF Offset, Bytes
  <2>2. \A a, b, n \in Nat : (a + n) - (b + n) = a - b
    OBVIOUS
  <2>3. o' = (Len(Bytes) + Len(block)) - (Len(bytes) + Len(block))
    BY <1>7, <2>1, Zenon
  <2>4. (Len(Bytes) + Len(block)) - (Len(bytes) + Len(block)) = Len(Bytes) - Len(bytes)
    BY <1>7, <2>2, ZenonT(60)
  <2> QED
    BY <2>1, <2>3, <2>4, Zenon
<1> HIDE DEF bytes, o, search, instances
<1>10. /\ Len(Bytes) \in Nat /\ Len(bytes) \in Nat /\ Len(block) \in Nat /\ o \in Nat
       /\ Len(bytes) + o = Len(Bytes)
  BY <1>7, <1>8, Zenon
<1>11. BufferInStream(bytes, o)'
  <2>1. Len(bytes') + o' = Len(Bytes')
    <3>1. \A a, b, n, t \in Nat : a + b = t => (a + n) + b = t + n
      OBVIOUS
    <3>2. Len(bytes') + o' = (Len(bytes) + Len(block)) + o
      BY <1>7, <1>9, Zenon
    <3>3. (Len(bytes) + Len(block)) + o = Len(Bytes) + Len(block)
      BY <1>10, <3>1
    <3> QED
      BY <1>7, <3>2, <3>3, Zenon
  <2>2. ASSUME NEW i \in 1 .. Len(bytes') PROVE bytes'[i] = Bytes'[o + i]
    <3>1. CASE i \in 1 .. Len(bytes)
      <4>1. o + i \in 1 .. Len(Bytes)
        BY <1>7, <1>8, <3>1
      <4> QED
        BY <1>7, <1>8, <3>1, <4>1
    <3>2. CASE i \notin 1 .. Len(bytes)
      <4> DEFINE j == i - Len(bytes)
      <4>1. /\ j \in 1 .. Len(block) /\ Len(bytes) + j = i
            /\ Len(Bytes) + j = o + i
        <5>1. \A a, b, n, t \in Nat : \A m \in 1 .. a + n :
                 a + b = t /\ m \notin 1 .. a =>
                    /\ m - a \in 1 .. n /\ a + (m - a) = m /\ t + (m - a) = b + m
          OBVIOUS
        <5>2. i \in 1 .. Len(bytes) + Len(block)
          BY <1>7, Zenon
        <5> QED
          BY <1>10, <3>2, <5>1, <5>2
      <4> HIDE DEF j
      <4> QED
        BY <1>7, <4>1
    <3> QED
      BY <3>1, <3>2
  <2> QED
    BY <1>8, <1>9, <2>1, <2>2 DEF BufferInStream
<1>12. RoomBehind(bytes, search)'
  BY <1>2, <1>3, <1>5, <1>7 DEF RoomBehind
<1>13. o + search <= Len(Bytes) /\ o + search \in Nat
  BY <1>2, <1>3, <1>7, <1>8 DEF RoomBehind
<1>14. ASSUME NEW h \in Nat
       PROVE  /\ HeaderAt(h) => /\ HeaderAt(h)' /\ EndOf(h)' = EndOf(h)
                                /\ Bytes'[h + 1] = Bytes[h + 1]
                                /\ \A f : Overlaps(h, f)' <=> Overlaps(h, f)
                                /\ IsFalse(h) => IsFalse(h)'
              /\ HeaderAt(h)' /\ h < Len(Bytes) => HeaderAt(h)
  BY <1>2, <1>4, <1>6, StreamGrows
<1>15. CandidatesInStream(instances, search, o)'
  <2>1. ASSUME NEW k \in DOMAIN instances
        PROVE  \E h \in Nat :
                  /\ h = Place(instances[k], o)
                  /\ HeaderAt(h)' /\ h < o + search
                  /\ h + HeaderSize < Len(Bytes')
                  /\ instances[k].header = Header[Bytes'[h + 1]]
    <3>1. /\ HeaderAt(Place(instances[k], o)) /\ Place(instances[k], o) < o + search
          /\ Place(instances[k], o) + HeaderSize < Len(Bytes)
          /\ instances[k].header = Header[Bytes[Place(instances[k], o) + 1]]
      BY <1>3 DEF CandidatesInStream
    <3>2. PICK h \in Nat : h = Place(instances[k], o)
      BY <1>2, <3>1, HeaderSays
    <3>3. h + HeaderSize < Len(Bytes')
      BY <1>7, <3>1, <3>2
    <3> QED
      BY <1>14, <3>1, <3>2, <3>3
  <2> QED
    BY <1>3, <1>5, <1>9, <2>1 DEF CandidatesInStream, Place
<1>16. SearchedIsKnown(instances, search, o)'
  <2>1. ASSUME NEW h \in 0 .. o + search - 1, HeaderAt(h)'
        PROVE  \/ Waits(h, instances, o)'
               \/ IsFalse(h)'
               \/ \E k \in DOMAIN frames'[1] : Overlaps(h, frames[1][k])'
    <3>1. h \in Nat /\ h < Len(Bytes)
      BY <1>2, <1>7, <1>8, <1>13
    <3>2. HeaderAt(h)
      BY <1>14, <2>1, <3>1
    <3>3. CASE Waits(h, instances, o)
      BY <1>5, <1>9, <3>3 DEF Waits, Place
    <3>4. CASE IsFalse(h)
      BY <1>14, <3>1, <3>2, <3>4
    <3>5. CASE \E k \in DOMAIN frames[1] : Overlaps(h, frames[1][k])
      <4>1. PICK k \in DOMAIN frames[1] : Overlaps(h, frames[1][k])
        BY <3>5
      <4>2. EndOf(h)' = EndOf(h)
        BY <1>14, <3>1, <3>2
      <4> QED
        BY <1>5, <4>1, <4>2 DEF Overlaps, After
    <3> QED
      BY <1>3, <3>2, <3>3, <3>4, <3>5 DEF SearchedIsKnown
  <2> QED
    BY <1>5, <1>9, <2>1 DEF SearchedIsKnown
<1>17. DecoderInv(bytes, instances, search, o)'
  BY <1>11, <1>12, <1>15, <1>16 DEF DecoderInv
<1>18. TypeOK'
  <2>1. buffer' \in [Device -> Seq(Byte)] /\ stream' \in [Device -> Seq(Byte)]
    BY <1>2, <1>5, <1>6, <1>7 DEF bytes, Bytes
  <2>2. settled' \in [Device -> BOOLEAN]
    BY <1>2, <1>5
  <2>3. m_header_search_pos' > 0 => m_header_search_pos' + HeaderSize <= Len(buffer'[1])
    BY <1>12 DEF RoomBehind, bytes, search
  <2> QED
    BY <1>1, <1>5, <2>1, <2>2, <2>3 DEF TypeOK, instances, search
<1>19. FramesAreInStream'
  <2>1. ASSUME NEW k \in DOMAIN frames[1]
        PROVE  LET f == frames[1][k]
                   head == stream'[1][f.at - HeaderSize + 1]
               IN  /\ f.data = SubSeq(stream'[1], f.at + 1, After(f))
                   /\ head = stream[1][f.at - HeaderSize + 1]
    <3> DEFINE f == frames[1][k]
    <3>1. /\ f.at \in Nat /\ After(f) \in Nat /\ f.at <= After(f)
      BY <1>1, FrameTypes
    <3>2. /\ HeaderSize <= f.at /\ After(f) <= o
          /\ f.data = SubSeq(stream[1], f.at + 1, After(f))
      BY <1>1, OneDevice DEF FramesAreInStream, o
    <3> HIDE DEF f
    <3>3. After(f) <= Len(Bytes) /\ f.at <= Len(Bytes)
      BY <1>7, <1>8, <3>1, <3>2, SMTT(60)
    <3>4. SubSeq(stream'[1], f.at + 1, After(f)) = SubSeq(stream[1], f.at + 1, After(f))
      <4>1. After(f) <= Len(stream[1])
        BY <3>3 DEF Bytes
      <4> DEFINE a == f.at
                 b == After(f)
                 q == stream[1]
      <4>2. a \in Nat /\ b \in Nat /\ b <= Len(q) /\ q \in Seq(Byte)
        BY <1>2, <3>1, <4>1
      <4> HIDE DEF a, b, q
      <4>3. SubSeq(q \o block, a + 1, b) = SubSeq(q, a + 1, b)
        BY <1>4, <4>2, SubSeqOfStart
      <4> QED
        BY <1>6, <4>3 DEF a, b, q
    <3>5. f.at - HeaderSize + 1 \in 1 .. Len(Bytes)
      <4>1. \A a, n \in Nat : HeaderSize <= a /\ a <= n => a - HeaderSize + 1 \in 1 .. n
        OBVIOUS
      <4> QED
        BY <1>7, <3>1, <3>2, <3>3, <4>1, Zenon
    <3>6. stream'[1][f.at - HeaderSize + 1] = stream[1][f.at - HeaderSize + 1]
      BY <1>7, <3>5 DEF Bytes
    <3> QED
      BY <3>2, <3>4, <3>6 DEF f
  <2>2. ASSUME NEW k \in DOMAIN frames[1]
        PROVE  LET f == frames[1][k]
                   head == stream'[1][f.at - HeaderSize + 1]
               IN  /\ HeaderSize <= f.at /\ After(f) <= o
                   /\ f.data = SubSeq(stream'[1], f.at + 1, After(f))
                   /\ head \in DOMAIN Header
                   /\ Header[head] = [size |-> Len(f.data), checksum |-> f.data]
                   /\ \A j \in 1 .. k - 1 : After(frames[1][j]) <= f.at
    BY <1>1, <2>1, OneDevice DEF FramesAreInStream, o
  <2>3. frames' = frames /\ Offset(1)' = o
    BY <1>5, <1>9 DEF o
  <2> QED
    BY <2>2, <2>3, OneDevice, SMTT(60) DEF FramesAreInStream, After
<1> QED
  BY <1>6, <1>17, <1>18, <1>19 DEF ChannelInv, bytes, o, search, instances
\* The invariant holds at the start.
LEMMA InitHolds ==
  ASSUME Devices = 1, Init
  PROVE  ChannelInv
<1>1. /\ buffer = [d \in Device |-> <<>>] /\ m_decoding_instances = <<>>
      /\ m_header_search_pos = 0 /\ turn = 1 /\ decoding = FALSE
      /\ stream = [d \in Device |-> <<>>] /\ frames = [d \in Device |-> <<>>]
      /\ settled = [d \in Device |-> FALSE]
  BY DEF Init
<1>2. 1 \in Device /\ Device = {1}
  BY OneDevice
<1>3. buffer[1] = <<>> /\ stream[1] = <<>> /\ frames[1] = <<>> /\ settled[1] = FALSE
  BY <1>1, <1>2
<1>4. Offset(1) = 0
  BY <1>3 DEF Offset
<1>5. TypeOK
  <2>1. /\ <<>> \in Seq(Byte) /\ <<>> \in Seq(Candidate)
        /\ <<>> \in Seq([at : Nat, data : Seq(Byte)])
    BY EmptySeq
  <2>2. /\ buffer \in [Device -> Seq(Byte)] /\ stream \in [Device -> Seq(Byte)]
        /\ frames \in [Device -> Seq([at : Nat, data : Seq(Byte)])]
        /\ settled \in [Device -> BOOLEAN]
    BY <1>1, <2>1
  <2>3. m_decoding_instances \in Seq(Candidate)
    BY <1>1, <2>1, Zenon
  <2>4. m_header_search_pos \in Nat /\ ~ (m_header_search_pos > 0)
    <3>1. m_header_search_pos = 0
      BY <1>1, Zenon
    <3> QED
      BY <3>1
  <2>5. turn \in Device /\ decoding \in BOOLEAN
    BY <1>1, <1>2, Zenon
  <2> QED
    BY <2>2, <2>3, <2>4, <2>5, Zenon DEF TypeOK
<1>6. BufferInStream(buffer[1], Offset(1))
  BY <1>3, <1>4 DEF BufferInStream, Bytes
<1>7. /\ RoomBehind(buffer[1], m_header_search_pos)
      /\ CandidatesInStream(m_decoding_instances, m_header_search_pos, Offset(1))
      /\ SearchedIsKnown(m_decoding_instances, m_header_search_pos, Offset(1))
  BY <1>1, <1>4 DEF RoomBehind, CandidatesInStream, SearchedIsKnown
<1>8. FramesAreInStream
  BY <1>2, <1>3 DEF FramesAreInStream
<1> QED
  BY <1>3, <1>5, <1>6, <1>7, <1>8 DEF ChannelInv, DecoderInv

\* Every step keeps the invariant.
LEMMA NextKeeps ==
  ASSUME Devices = 1, ChannelInv, [Next]_vars
  PROVE  ChannelInv'
<1>1. CASE UNCHANGED vars
  BY <1>1, ZenonT(60) DEF vars, ChannelInv, TypeOK, DecoderInv, BufferInStream, RoomBehind,
              CandidatesInStream, SearchedIsKnown, Waits, IsFalse, Overlaps, HeaderAt, EndOf,
              Bytes, Place, FramesAreInStream, After, NothingLeft, Offset, Complete, End
<1>2. CASE PassBy(1)
  <2>1. turn' = (turn % Devices) + 1
    BY <1>2 DEF PassBy, NextTurn
  <2>2. turn = 1
    BY Types DEF ChannelInv
  <2>3. turn' = turn
    BY <2>1, <2>2
  <2> QED
    BY <1>1, <1>2, <2>3 DEF PassBy, vars
<1>3. CASE DecodeSingle(1)
  <2>1. /\ TypeOK
        /\ DecoderInv(buffer[1], m_decoding_instances, m_header_search_pos, Offset(1))
    BY DEF ChannelInv
  <2>2. PICK found \in {Found(1)} :
           (\E k \in DOMAIN found.instances : Succeed(1, found, k)) \/ Fail(1, found)
    BY <1>3 DEF DecodeSingle
  <2>3. PICK offset : offset = Len(stream[1]) - Len(found.bytes)
    OBVIOUS
  <2>4. FoundRight(found, offset) /\ Offset(1) <= offset
    BY <2>1, <2>2, <2>3, FoundIsRight
  <2>5. CASE Fail(1, found)
    BY <2>3, <2>4, <2>5, FailKeeps
  <2>6. CASE \E k \in DOMAIN found.instances : Succeed(1, found, k)
    BY <2>3, <2>4, <2>6, SucceedKeeps
  <2> QED
    BY <2>2, <2>5, <2>6
<1>4. CASE \E block \in Block : Receive(1, block)
  BY <1>4, ReceiveKeeps
<1> QED
  BY <1>1, <1>2, <1>3, <1>4, OneDevice DEF Next, Serve

-----------------------------------------------------------------------------
(* What follows from the invariant *)

\* When decode() has returned, the invariant leaves no frame that was missed.
LEMMA NothingLeftMissesNone ==
  ASSUME Devices = 1, ChannelInv
  PROVE  NoFrameMissed
<1>1. SUFFICES ASSUME settled[1], NEW h \in 0 .. Len(stream[1]) - 1, FrameAt(1, h)
               PROVE  \E k \in DOMAIN frames[1] : Overlaps(h, frames[1][k])
  BY OneDevice, SMTT(60) DEF NoFrameMissed, Overlaps, EndOf, Bytes
<1>2. /\ TypeOK /\ NothingLeft
      /\ DecoderInv(buffer[1], m_decoding_instances, m_header_search_pos, Offset(1))
  BY <1>1 DEF ChannelInv
<1>3. /\ stream[1] \in Seq(Byte) /\ buffer[1] \in Seq(Byte)
      /\ m_decoding_instances \in Seq(Candidate) /\ m_header_search_pos \in Nat
      /\ BufferInStream(buffer[1], Offset(1)) /\ Offset(1) \in Nat
      /\ CandidatesInStream(m_decoding_instances, m_header_search_pos, Offset(1))
      /\ SearchedIsKnown(m_decoding_instances, m_header_search_pos, Offset(1))
  BY <1>2, Types DEF DecoderInv, BufferInStream
<1>4. /\ HeaderAt(h) /\ h + HeaderSize < Len(Bytes)
      /\ EndOf(h) <= Len(Bytes)
      /\ SubSeq(Bytes, h + HeaderSize + 1, EndOf(h)) = Header[Bytes[h + 1]].checksum
  BY <1>1 DEF FrameAt, HeaderAt, IsFrame, Complete, Body, End, EndOf, Bytes
<1>5. ~ IsFalse(h)
  BY <1>4 DEF IsFalse
<1>6. h < Offset(1) + m_header_search_pos
  BY <1>2, <1>4 DEF NothingLeft, Bytes
<1>7. ~ Waits(h, m_decoding_instances, Offset(1))
  <2> SUFFICES ASSUME NEW k \in DOMAIN m_decoding_instances,
                      Place(m_decoding_instances[k], Offset(1)) = h
               PROVE  FALSE
    BY DEF Waits
  <2>1. CandidateIs(m_decoding_instances[k], buffer[1], m_header_search_pos, Offset(1))
    BY <1>3, CandidateProperties
  <2>2. Complete(m_decoding_instances[k], buffer[1])
    BY <1>4, <2>1 DEF CandidateIs
  <2> QED
    BY <1>2, <2>2 DEF NothingLeft
<1>8. h \in 0 .. Offset(1) + m_header_search_pos - 1
  <2>1. \A y, a, b \in Nat : y < a + b => y \in 0 .. a + b - 1
    OBVIOUS
  <2>2. h \in Nat
    BY <1>3, <1>4, HeaderSays
  <2> QED
    BY <1>3, <1>6, <2>1, <2>2
<1> QED
  BY <1>3, <1>4, <1>5, <1>7, <1>8 DEF SearchedIsKnown

\* The invariant holds in every run of a node with one device: the buffer, the candidates
\* and the search position of the decoder are where the stream says.
THEOREM DecoderCorrect ==
  ASSUME Devices = 1
  PROVE  Spec => []ChannelInv
<1>1. Init => ChannelInv
  BY InitHolds
<1>2. ChannelInv /\ [Next]_vars => ChannelInv'
  BY NextKeeps
<1> QED
  BY <1>1, <1>2, PTL DEF Spec

\* With one device the decoder never searches behind the bytes that it has.
THEOREM ChannelTypeCorrect ==
  ASSUME Devices = 1
  PROVE  Spec => []TypeOK
<1>1. ChannelInv => TypeOK
  BY DEF ChannelInv
<1> QED
  BY <1>1, DecoderCorrect, PTL

\* What decode() hands out are frames of the stream, in its order and apart from each other.
THEOREM FramesInStream ==
  ASSUME Devices = 1
  PROVE  Spec => []FramesAreInStream
<1>1. ChannelInv => FramesAreInStream
  BY DEF ChannelInv
<1> QED
  BY <1>1, DecoderCorrect, PTL

\* decode() leaves no frame of the stream that does not share bytes with one it has found.
THEOREM NoneMissed ==
  ASSUME Devices = 1
  PROVE  Spec => []NoFrameMissed
<1>1. ChannelInv => NoFrameMissed
  BY NothingLeftMissesNone
<1> QED
  BY <1>1, DecoderCorrect, PTL
=============================================================================
