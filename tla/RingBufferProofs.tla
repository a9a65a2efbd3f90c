-------------------------- MODULE RingBufferProofs --------------------------
(***************************************************************************)
(* For every capacity and every set of blocks: the positions of the ring   *)
(* buffer stay in range, and the ring buffer is a bounded byte queue.      *)
(***************************************************************************)
EXTENDS RingBuffer, SequenceTheorems, TLAPS

\* A function on 1 .. n is a sequence of length n.
LEMMA FunctionIsSeq ==
  ASSUME NEW S, NEW n \in Nat, NEW f \in [1 .. n -> S]
  PROVE  f \in Seq(S) /\ Len(f) = n
<1>1. f \in Seq(S)
  BY SeqDef
<1>2. DOMAIN f = 1 .. Len(f) /\ Len(f) \in Nat
  BY <1>1, LenProperties
<1>3. DOMAIN f = 1 .. n
  OBVIOUS
<1> QED
  BY <1>1, <1>2, <1>3

\* What size() and free_space() compute.
LEMMA Sizes ==
  ASSUME TypeOK
  PROVE  /\ Cells \in Nat \ {0}
         /\ m_p_write \in Nat /\ m_p_read \in Nat
         /\ m_p_write < Cells /\ m_p_read < Cells
         /\ Size \in 0 .. Capacity
         /\ FreeSpace = Capacity - Size
  BY RingBufferAssumption DEF TypeOK, Position, Cells, Size, FreeSpace

\* The bytes that wait are a sequence as long as size() says.
LEMMA WaitingSeq ==
  ASSUME TypeOK
  PROVE  /\ Waiting \in Seq(Byte)
         /\ Len(Waiting) = Size
         /\ \A k \in 1 .. Size : Cell(k) \in Position /\ Waiting[k] = m_contents[Cell(k)]
<1>1. Size \in Nat
  BY Sizes
<1>2. \A k \in 1 .. Size : Cell(k) \in Position
  BY RingBufferAssumption DEF TypeOK, Position, Cells, Size, Cell
<1>3. Waiting \in [1 .. Size -> Byte]
  BY <1>2 DEF Waiting, TypeOK
<1> QED
  BY <1>1, <1>2, <1>3, FunctionIsSeq DEF Waiting

\* The arithmetic of size() and of the position of a waiting byte.
LEMMA Ranges ==
  \A C \in Nat : \A w, r \in 0 .. C :
    /\ (IF r <= w THEN w - r ELSE C + 1 + w - r) \in Nat
    /\ \A k \in 1 .. (IF r <= w THEN w - r ELSE C + 1 + w - r) :
         (IF r + k - 1 >= C + 1 THEN r + k - 1 - (C + 1) ELSE r + k - 1) \in 0 .. C
  OBVIOUS

\* WaitingSeq after a step.
LEMMA WaitingSeqNext ==
  ASSUME TypeOK'
  PROVE  /\ Waiting' \in Seq(Byte)
         /\ Len(Waiting') = Size'
         /\ \A k \in 1 .. Size' : Cell(k)' \in Position /\ Waiting'[k] = m_contents'[Cell(k)']
<1>1. /\ Capacity \in Nat
      /\ m_p_write' \in 0 .. Capacity
      /\ m_p_read' \in 0 .. Capacity
  BY RingBufferAssumption DEF TypeOK, Position
<1>2. Size' = IF m_p_read' <= m_p_write' THEN m_p_write' - m_p_read'
                                        ELSE Capacity + 1 + m_p_write' - m_p_read'
  BY DEF Size, Cells
<1>3. Size' \in Nat
  BY <1>1, <1>2, Ranges
<1>4. ASSUME NEW k \in 1 .. Size'
      PROVE  Cell(k)' \in Position
  <2>1. Cell(k)' = IF m_p_read' + k - 1 >= Capacity + 1
                   THEN m_p_read' + k - 1 - (Capacity + 1) ELSE m_p_read' + k - 1
    BY DEF Cell, Cells
  <2> QED
    BY <1>1, <1>2, <2>1, Ranges DEF Position
<1>5. Waiting' \in [1 .. Size' -> Byte]
  BY <1>4 DEF Waiting, TypeOK
<1> QED
  BY <1>3, <1>4, <1>5, FunctionIsSeq DEF Waiting

-----------------------------------------------------------------------------
(* put() *)

\* The cells after a block that fits has been written: its bytes follow the
\* waiting ones around the end of the vector, and no other cell changes.
LEMMA PutCells ==
  ASSUME TypeOK, NEW data \in Seq(Byte), Put(data), WillFit(Len(data))
  PROVE  /\ m_contents' \in [Position -> Byte]
         /\ m_p_write' = IF m_p_write + Len(data) >= Cells
                         THEN m_p_write + Len(data) - Cells ELSE m_p_write + Len(data)
         /\ \A i \in Position :
              m_contents'[i] =
                IF i >= m_p_write /\ i < m_p_write + Len(data)
                THEN data[i - m_p_write + 1]
                ELSE IF i + Cells < m_p_write + Len(data)
                THEN data[i + Cells - m_p_write + 1]
                ELSE m_contents[i]
<1> DEFINE L == Len(data)
           tail == Cells - m_p_write
<1>1. L \in Nat /\ L <= Capacity /\ Capacity \in Nat /\ \A j \in 1 .. L : data[j] \in Byte
  BY Sizes, LenProperties, ElementOfSeq, RingBufferAssumption DEF WillFit
<1>2. tail \in Nat \ {0}
  BY Sizes
<1>3. CASE L < tail
  <2>1. m_contents' = Written(m_contents, m_p_write, data) /\ m_p_write' = m_p_write + L
    BY <1>1, <1>2, <1>3 DEF Put
  <2>2. m_contents' = [i \in Position |-> IF i \in m_p_write .. m_p_write + L - 1
                                          THEN data[i - m_p_write + 1] ELSE m_contents[i]]
    BY <2>1 DEF Written, TypeOK
  <2>3. \A i \in Position : i \in Nat /\ i < Cells
    BY <1>1 DEF Position, Cells
  <2>4. \A i \in Position : ~ (i + Cells < m_p_write + L)
    BY <1>1, <1>2, <1>3, <2>3, Sizes
  <2>5. \A i \in Position : i \in m_p_write .. m_p_write + L - 1 <=>
                            i >= m_p_write /\ i < m_p_write + L
    BY <1>1, <2>3, Sizes
  <2>6. \A i \in Position : i \in m_p_write .. m_p_write + L - 1 =>
                            data[i - m_p_write + 1] \in Byte
    <3>1. \A i \in Position : i \in m_p_write .. m_p_write + L - 1 => i - m_p_write + 1 \in 1 .. L
      BY <1>1, <2>3, Sizes
    <3> QED
      BY <1>1, <3>1
  <2>7. m_contents' \in [Position -> Byte]
    BY <2>2, <2>6 DEF TypeOK
  <2>8. m_p_write + L < Cells
    BY <1>1, <1>3, Sizes
  <2> QED
    BY <1>1, <2>1, <2>2, <2>4, <2>5, <2>7, <2>8, Sizes
<1>4. CASE L >= tail
  <2> DEFINE first == SubSeq(data, 1, tail)
             second == SubSeq(data, tail + 1, L)
             once == Written(m_contents, m_p_write, first)
  <2>1. m_contents' = Written(once, 0, second) /\ m_p_write' = L - tail
    BY <1>1, <1>2, <1>4 DEF Put
  <2>2. /\ Len(first) = tail
        /\ \A j \in 1 .. tail : first[j] = data[j]
    <3>1. \A j \in 1 .. tail : data[j] \in Byte
      BY <1>1, <1>2, <1>4
    <3>2. /\ Len(first) = IF 1 <= tail THEN tail - 1 + 1 ELSE 0
          /\ \A j \in 1 .. tail - 1 + 1 : first[j] = data[1 + j - 1]
      BY <1>2, <3>1, SubSeqProperties
    <3> QED
      BY <1>2, <3>2
  <2>3. /\ Len(second) = L - tail
        /\ \A j \in 1 .. L - tail : second[j] = data[tail + j]
    <3>1. \A j \in tail + 1 .. L : data[j] \in Byte
      BY <1>1, <1>2
    <3>2. /\ Len(second) = IF tail + 1 <= L THEN L - (tail + 1) + 1 ELSE 0
          /\ \A j \in 1 .. L - (tail + 1) + 1 : second[j] = data[tail + 1 + j - 1]
      BY <1>1, <1>2, <3>1, SubSeqProperties
    <3> QED
      BY <1>1, <1>2, <1>4, <3>2
  <2>4. \A i \in Position : i \in Nat /\ i < Cells
    BY <1>1 DEF Position, Cells
  <2>5. once = [i \in Position |-> IF i \in m_p_write .. m_p_write + tail - 1
                                   THEN first[i - m_p_write + 1] ELSE m_contents[i]]
    BY <2>2 DEF Written, TypeOK
  <2>6. m_contents' = [i \in Position |-> IF i \in 0 .. 0 + (L - tail) - 1
                                          THEN second[i - 0 + 1] ELSE once[i]]
    BY <2>1, <2>3, <2>5 DEF Written
  <2> HIDE DEF first, second, once
  <2>7. ASSUME NEW i \in Position
        PROVE  m_contents'[i] = IF i >= m_p_write /\ i < m_p_write + L
                                THEN data[i - m_p_write + 1]
                                ELSE IF i + Cells < m_p_write + L
                                THEN data[i + Cells - m_p_write + 1]
                                ELSE m_contents[i]
    <3>1. i \in Nat /\ i < Cells /\ m_p_write \in Nat /\ Cells \in Nat
          /\ L + m_p_write < m_p_write + Cells
      BY <1>1, <2>4, Sizes DEF Cells
    <3>2. CASE i >= m_p_write
      <4>1. i \notin 0 .. 0 + (L - tail) - 1 /\ i \in m_p_write .. m_p_write + tail - 1
        BY <1>1, <1>2, <3>1, <3>2
      <4>2. m_contents'[i] = first[i - m_p_write + 1]
        BY <2>5, <2>6, <4>1
      <4>3. i - m_p_write + 1 \in 1 .. tail
        BY <1>2, <3>1, <3>2
      <4>4. i < m_p_write + L
        BY <1>1, <1>2, <1>4, <3>1
      <4> QED
        BY <2>2, <3>2, <4>2, <4>3, <4>4
    <3>3. CASE i < m_p_write /\ i + Cells < m_p_write + L
      <4>1. i \in 0 .. 0 + (L - tail) - 1
        BY <1>1, <1>2, <3>1, <3>3
      <4>2. m_contents'[i] = second[i + 1]
        BY <2>6, <3>1, <4>1
      <4>3. i + 1 \in 1 .. L - tail /\ tail + (i + 1) = i + Cells - m_p_write + 1
        BY <1>1, <1>2, <3>1, <3>3
      <4>4. second[i + 1] = data[i + Cells - m_p_write + 1]
        BY <2>3, <4>3
      <4>5. ~ (i >= m_p_write)
        BY <3>1, <3>3
      <4> QED
        BY <3>3, <4>2, <4>4, <4>5
    <3>4. CASE i < m_p_write /\ ~ (i + Cells < m_p_write + L)
      <4>1. i \notin 0 .. 0 + (L - tail) - 1 /\ i \notin m_p_write .. m_p_write + tail - 1
        BY <1>1, <1>2, <3>1, <3>4
      <4>2. m_contents'[i] = m_contents[i]
        BY <2>5, <2>6, <4>1
      <4>3. ~ (i >= m_p_write)
        BY <3>1, <3>4
      <4> QED
        BY <3>4, <4>2, <4>3
    <3> QED
      BY <3>1, <3>2, <3>3, <3>4
  <2>8. \A i \in Position : m_contents'[i] \in Byte
    <3>1. \A i \in Position : i >= m_p_write /\ i < m_p_write + L => i - m_p_write + 1 \in 1 .. L
      BY <1>1, <2>4, Sizes
    <3>2. \A i \in Position : i + Cells < m_p_write + L => i + Cells - m_p_write + 1 \in 1 .. L
      BY <1>1, <2>4, Sizes
    <3> QED
      BY <1>1, <2>7, <3>1, <3>2 DEF TypeOK
  <2>9. m_contents' \in [Position -> Byte]
    <3>1. m_contents' = [i \in Position |-> m_contents'[i]]
      BY <2>6
    <3> QED
      BY <2>8, <3>1
  <2>10. m_p_write + L >= Cells /\ m_p_write' = m_p_write + L - Cells
    BY <1>1, <1>4, <2>1, Sizes
  <2> QED
    BY <2>7, <2>9, <2>10
<1> QED
  BY <1>1, <1>2, <1>3, <1>4

\* A block that fits is appended to the waiting bytes.
LEMMA PutAppends ==
  ASSUME TypeOK, NEW data \in Seq(Byte), Put(data), WillFit(Len(data))
  PROVE  TypeOK' /\ Waiting' = Waiting \o data
<1> DEFINE L == Len(data)
<1>1. L \in Nat /\ \A j \in 1 .. L : data[j] \in Byte
  BY LenProperties, ElementOfSeq
<1>2. m_p_read' = m_p_read
  BY DEF Put
<1>3. L <= Capacity - Size /\ Capacity \in Nat
  BY Sizes, RingBufferAssumption DEF WillFit
<1>4. TypeOK'
  <2>1. m_p_write' \in Position
    BY <1>1, <1>3, PutCells, Sizes DEF Position, Cells
  <2> QED
    BY <1>2, <2>1, PutCells DEF TypeOK
<1>5. Size' = Size + L
  <2>1. CASE m_p_write + L >= Cells
    BY <1>1, <1>2, <1>3, <2>1, PutCells, Sizes DEF Size, Cells
  <2>2. CASE m_p_write + L < Cells
    BY <1>1, <1>2, <1>3, <2>2, PutCells, Sizes DEF Size, Cells
  <2> QED
    BY <1>1, <2>1, <2>2, Sizes
<1>6. Waiting' \in Seq(Byte) /\ Len(Waiting') = Size + L
      /\ \A k \in 1 .. Size + L : Cell(k)' \in Position /\ Waiting'[k] = m_contents'[Cell(k)']
  BY <1>4, <1>5, WaitingSeqNext
<1>7. \A k : Cell(k)' = Cell(k)
  BY <1>2 DEF Cell, Cells
<1>8. ASSUME NEW k \in 1 .. Size + L
      PROVE  m_contents'[Cell(k)] = IF k <= Size THEN m_contents[Cell(k)] ELSE data[k - Size]
  <2>1. Cell(k) \in Position
    BY <1>6, <1>7
  <2>2. /\ k \in Nat \ {0} /\ k <= Size + L
        /\ L \in Nat /\ Size \in Nat /\ Size + L < Cells
        /\ Cells \in Nat /\ m_p_write \in Nat /\ m_p_read \in Nat
        /\ m_p_write < Cells /\ m_p_read < Cells
    BY <1>1, <1>3, Sizes DEF Cells
  <2>3. /\ Size = IF m_p_read <= m_p_write THEN m_p_write - m_p_read
                                           ELSE Cells + m_p_write - m_p_read
        /\ Cell(k) = IF m_p_read + k - 1 >= Cells THEN m_p_read + k - 1 - Cells
                                                  ELSE m_p_read + k - 1
    BY DEF Size, Cell
  <2> HIDE DEF L
  <2>4. CASE k <= Size
    <3>1. /\ ~ (Cell(k) >= m_p_write /\ Cell(k) < m_p_write + L)
          /\ ~ (Cell(k) + Cells < m_p_write + L)
      BY <2>2, <2>3, <2>4
    <3> QED
      BY <2>1, <2>4, <3>1, PutCells DEF L
  <2>5. CASE k > Size /\ m_p_write + (k - Size) - 1 >= Cells
    <3>1. Cell(k) = m_p_write + (k - Size) - 1 - Cells
      BY <2>2, <2>3, <2>5
    <3>2. /\ ~ (Cell(k) >= m_p_write)
          /\ Cell(k) + Cells < m_p_write + L
          /\ Cell(k) + Cells - m_p_write + 1 = k - Size
          /\ ~ (k <= Size)
      BY <2>2, <2>5, <3>1
    <3> QED
      BY <2>1, <3>2, PutCells DEF L
  <2>6. CASE k > Size /\ m_p_write + (k - Size) - 1 < Cells
    <3>1. Cell(k) = m_p_write + (k - Size) - 1
      BY <2>2, <2>3, <2>6
    <3>2. /\ Cell(k) >= m_p_write
          /\ Cell(k) < m_p_write + L
          /\ Cell(k) - m_p_write + 1 = k - Size
          /\ ~ (k <= Size)
      BY <2>2, <2>6, <3>1
    <3> QED
      BY <2>1, <3>2, PutCells DEF L
  <2> QED
    BY <2>2, <2>4, <2>5, <2>6
<1>9. /\ Waiting \o data \in Seq(Byte)
      /\ Len(Waiting \o data) = Size + L
      /\ \A k \in 1 .. Size + L :
           (Waiting \o data)[k] = IF k <= Size THEN Waiting[k] ELSE data[k - Size]
  <2>1. Waiting \in Seq(Byte) /\ Len(Waiting) = Size
    BY WaitingSeq
  <2>2. /\ Waiting \o data \in Seq(Byte)
        /\ Len(Waiting \o data) = Len(Waiting) + L
        /\ \A k \in 1 .. Len(Waiting) + L :
             (Waiting \o data)[k] = IF k <= Len(Waiting) THEN Waiting[k]
                                                        ELSE data[k - Len(Waiting)]
    BY <2>1, ConcatProperties
  <2> QED
    BY <2>1, <2>2
<1>10. \A k \in 1 .. Size + L : Waiting'[k] = (Waiting \o data)[k]
  <2>1. \A k \in 1 .. Size + L : k <= Size => k \in 1 .. Size
    BY <1>1, Sizes
  <2>2. \A k \in 1 .. Size + L : k <= Size => m_contents[Cell(k)] = Waiting[k]
    BY <2>1, WaitingSeq
  <2>3. \A k \in 1 .. Size + L : Waiting'[k] = m_contents'[Cell(k)]
    BY <1>6, <1>7
  <2> HIDE DEF L
  <2> QED
    BY <1>8, <1>9, <2>2, <2>3
<1>11. Waiting' = Waiting \o data
  BY <1>6, <1>9, <1>10, SeqEqual
<1> QED
  BY <1>4, <1>11

-----------------------------------------------------------------------------
(* get(), extract(), skip() and operator[] *)

\* The bytes copied out are the first ones that wait.
LEMMA FirstBytesWait ==
  ASSUME TypeOK, NEW n \in 0 .. Size
  PROVE  FirstBytes(n) = SubSeq(Waiting, 1, n)
<1> DEFINE tail == Cells - m_p_read
<1>1. /\ n \in Nat /\ n <= Size /\ Size \in Nat
      /\ Cells \in Nat /\ m_p_read \in Nat /\ m_p_write \in Nat
      /\ m_p_read < Cells /\ m_p_write < Cells
      /\ Size = IF m_p_read <= m_p_write THEN m_p_write - m_p_read
                                         ELSE Cells + m_p_write - m_p_read
  BY Sizes DEF Size
<1>2. \A k \in 1 .. n : k \in 1 .. Size
  BY <1>1
<1>3. Waiting \in Seq(Byte) /\ Len(Waiting) = Size
      /\ \A k \in 1 .. n : Cell(k) \in Position /\ Waiting[k] = m_contents[Cell(k)]
  BY <1>2, WaitingSeq
<1>4. /\ SubSeq(Waiting, 1, n) \in Seq(Byte)
      /\ Len(SubSeq(Waiting, 1, n)) = n
      /\ \A k \in 1 .. n : SubSeq(Waiting, 1, n)[k] = Waiting[k]
  <2>1. \A k \in 1 .. n : Waiting[k] \in Byte
    BY <1>3 DEF TypeOK
  <2>2. /\ SubSeq(Waiting, 1, n) \in Seq(Byte)
        /\ Len(SubSeq(Waiting, 1, n)) = IF 1 <= n THEN n - 1 + 1 ELSE 0
        /\ \A k \in 1 .. n - 1 + 1 : SubSeq(Waiting, 1, n)[k] = Waiting[1 + k - 1]
    BY <1>1, <2>1, SubSeqProperties
  <2> QED
    BY <1>1, <2>2
<1>5. CASE m_p_write >= m_p_read \/ tail > n
  <2>1. FirstBytes(n) = [k \in 1 .. n |-> m_contents[m_p_read + k - 1]]
    BY <1>5 DEF FirstBytes, Copied
  <2>2. \A k \in 1 .. n : Cell(k) = m_p_read + k - 1
    BY <1>1, <1>5 DEF Cell
  <2>3. \A k \in 1 .. n : m_contents[m_p_read + k - 1] = Waiting[k] /\ Waiting[k] \in Byte
    BY <1>3, <2>2 DEF TypeOK
  <2>4. FirstBytes(n) \in [1 .. n -> Byte] /\ \A k \in 1 .. n : FirstBytes(n)[k] = Waiting[k]
    BY <2>1, <2>3
  <2>5. FirstBytes(n) \in Seq(Byte) /\ Len(FirstBytes(n)) = n
    BY <1>1, <2>4, FunctionIsSeq
  <2> QED
    BY <1>4, <2>4, <2>5, SeqEqual
<1>6. CASE m_p_write < m_p_read /\ tail <= n
  <2> DEFINE one == Copied(m_p_read, tail)
             two == Copied(0, n - tail)
  <2>1. FirstBytes(n) = one \o two
    BY <1>1, <1>6 DEF FirstBytes
  <2>2. tail \in Nat /\ n - tail \in Nat
    BY <1>1, <1>6
  <2>3. \A k \in 1 .. tail : k \in 1 .. n /\ Cell(k) = m_p_read + k - 1
    BY <1>1, <1>6 DEF Cell
  <2>4. \A k \in 1 .. n - tail : tail + k \in 1 .. n /\ Cell(tail + k) = 0 + k - 1
    BY <1>1, <1>6 DEF Cell
  <2>5. \A k \in 1 .. tail : m_contents[m_p_read + k - 1] = Waiting[k] /\ Waiting[k] \in Byte
    BY <1>3, <2>3 DEF TypeOK
  <2>6. \A k \in 1 .. n - tail : m_contents[0 + k - 1] = Waiting[tail + k]
                                 /\ Waiting[tail + k] \in Byte
    BY <1>3, <2>4 DEF TypeOK
  <2>7. one \in [1 .. tail -> Byte] /\ \A k \in 1 .. tail : one[k] = Waiting[k]
    BY <2>5 DEF Copied
  <2>8. two \in [1 .. n - tail -> Byte]
        /\ \A k \in 1 .. n - tail : two[k] = Waiting[tail + k]
    BY <2>6 DEF Copied
  <2>9. one \in Seq(Byte) /\ Len(one) = tail
    BY <2>2, <2>7, FunctionIsSeq
  <2>10. two \in Seq(Byte) /\ Len(two) = n - tail
    BY <2>2, <2>8, FunctionIsSeq
  <2> HIDE DEF one, two
  <2>11. one \o two \in Seq(Byte) /\ Len(one \o two) = n
         /\ \A k \in 1 .. n : (one \o two)[k] = IF k <= tail THEN one[k] ELSE two[k - tail]
    <3>1. /\ one \o two \in Seq(Byte)
          /\ Len(one \o two) = tail + (n - tail)
          /\ \A k \in 1 .. tail + (n - tail) :
               (one \o two)[k] = IF k <= tail THEN one[k] ELSE two[k - tail]
      <4>1. /\ one \o two \in Seq(Byte)
            /\ Len(one \o two) = Len(one) + Len(two)
            /\ \A k \in 1 .. Len(one) + Len(two) :
                 (one \o two)[k] = IF k <= Len(one) THEN one[k] ELSE two[k - Len(one)]
        BY <2>9, <2>10, ConcatProperties
      <4> QED
        BY <2>9, <2>10, <4>1
    <3>2. tail + (n - tail) = n
      BY <1>1
    <3> QED
      BY <3>1, <3>2
  <2>12. ASSUME NEW k \in 1 .. n
         PROVE  (one \o two)[k] = Waiting[k]
    <3>1. CASE k <= tail
      <4>1. k \in 1 .. tail
        BY <2>2, <3>1
      <4> QED
        BY <2>7, <2>11, <3>1, <4>1
    <3>2. CASE k > tail
      <4>1. k - tail \in 1 .. n - tail /\ tail + (k - tail) = k /\ ~ (k <= tail)
        BY <1>1, <2>2, <3>2
      <4> QED
        BY <2>8, <2>11, <4>1
    <3>3. k \in Nat /\ tail \in Nat
      BY <1>1, <2>2
    <3>4. k <= tail \/ k > tail
      BY <3>3
    <3> QED
      BY <3>1, <3>2, <3>4
  <2> QED
    BY <1>4, <2>1, <2>11, <2>12, SeqEqual
<1> QED
  BY <1>1, <1>5, <1>6

\* Moving the read position over n waiting bytes leaves the others.
LEMMA ReadMoves ==
  ASSUME TypeOK, NEW n \in 0 .. Size,
         m_p_read' = IF m_p_read + n >= Cells THEN m_p_read + n - Cells ELSE m_p_read + n,
         UNCHANGED <<m_contents, m_p_write>>
  PROVE  TypeOK' /\ Waiting' = SubSeq(Waiting, n + 1, Size)
<1> DEFINE r == IF m_p_read + n >= Cells THEN m_p_read + n - Cells ELSE m_p_read + n
           size == IF r <= m_p_write THEN m_p_write - r ELSE Cells + m_p_write - r
<1>1. /\ n \in Nat /\ n <= Size /\ Size \in Nat
      /\ Cells \in Nat /\ m_p_read \in Nat /\ m_p_write \in Nat
      /\ m_p_read < Cells /\ m_p_write < Cells
      /\ Size = IF m_p_read <= m_p_write THEN m_p_write - m_p_read
                                         ELSE Cells + m_p_write - m_p_read
  BY Sizes DEF Size
<1>2. r \in Nat /\ r < Cells
  BY <1>1
<1>3. TypeOK'
  <2>1. r \in Position
    BY <1>2, RingBufferAssumption DEF Position, Cells
  <2> QED
    BY <2>1 DEF TypeOK
\* A read of everything may leave the two positions equal.
<1>4. size = Size - n
  BY <1>1
<1>5. Size' = Size - n
  BY <1>4 DEF Size, Cells
<1>6. Waiting' \in Seq(Byte) /\ Len(Waiting') = Size - n
      /\ \A k \in 1 .. Size - n : Waiting'[k] = m_contents[Cell(k)']
  BY <1>3, <1>5, WaitingSeqNext
<1>7. ASSUME NEW k \in 1 .. Size - n
      PROVE  n + k \in 1 .. Size /\ Cell(k)' = Cell(n + k)
  <2>1. Cell(k)' = IF r + k - 1 >= Cells THEN r + k - 1 - Cells ELSE r + k - 1
    BY DEF Cell, Cells
  <2>2. Cell(n + k) = IF m_p_read + (n + k) - 1 >= Cells THEN m_p_read + (n + k) - 1 - Cells
                                                         ELSE m_p_read + (n + k) - 1
    BY DEF Cell
  <2> QED
    BY <1>1, <2>1, <2>2
<1>8. \A k \in 1 .. Size - n : Waiting'[k] = Waiting[n + k]
  BY <1>6, <1>7, WaitingSeq
<1>9. /\ SubSeq(Waiting, n + 1, Size) \in Seq(Byte)
      /\ Len(SubSeq(Waiting, n + 1, Size)) = Size - n
      /\ \A k \in 1 .. Size - n : SubSeq(Waiting, n + 1, Size)[k] = Waiting[n + k]
  <2>1. \A k \in n + 1 .. Size : k \in 1 .. Size
    BY <1>1
  <2>2. \A k \in n + 1 .. Size : Waiting[k] \in Byte
    BY <2>1, WaitingSeq, ElementOfSeq
  <2>3. /\ SubSeq(Waiting, n + 1, Size) \in Seq(Byte)
        /\ Len(SubSeq(Waiting, n + 1, Size)) =
             IF n + 1 <= Size THEN Size - (n + 1) + 1 ELSE 0
        /\ \A k \in 1 .. Size - (n + 1) + 1 :
             SubSeq(Waiting, n + 1, Size)[k] = Waiting[n + 1 + k - 1]
    BY <1>1, <2>2, SubSeqProperties
  <2> QED
    BY <1>1, <2>3
<1>10. Waiting' = SubSeq(Waiting, n + 1, Size)
  BY <1>6, <1>8, <1>9, SeqEqual
<1> QED
  BY <1>3, <1>10

-----------------------------------------------------------------------------
(* The theorems *)

\* Every call keeps the types and is a call of the byte queue with the same
\* result.
LEMMA StepIsQueueStep ==
  ASSUME TypeOK, [Next]_vars
  PROVE  TypeOK' /\ [Queue!Next]_(Queue!vars)
<1>1. /\ Waiting \in Seq(Byte) /\ Len(Waiting) = Size
      /\ Size \in Nat /\ FreeSpace = Capacity - Size /\ Capacity \in Nat
  BY WaitingSeq, Sizes, RingBufferAssumption
<1>2. ASSUME NEW data \in Block, Put(data)
      PROVE  TypeOK' /\ Queue!Put(data)
  <2>1. data \in Seq(Byte) /\ Len(data) \in Nat
    BY RingBufferAssumption, LenProperties
  <2>2. WillFit(Len(data)) = (Len(Waiting) + Len(data) <= Capacity)
    BY <1>1, <2>1 DEF WillFit
  <2>3. CASE WillFit(Len(data))
    <3>1. TypeOK' /\ Waiting' = Waiting \o data
      BY <1>2, <2>1, <2>3, PutAppends
    <3> QED
      BY <1>2, <2>2, <2>3, <3>1 DEF Put, Returned, Queue!Put, Queue!Returned
  <2>4. CASE ~ WillFit(Len(data))
    <3>1. UNCHANGED <<m_contents, m_p_write, m_p_read>>
      BY <1>2, <2>4 DEF Put
    <3>2. TypeOK' /\ Waiting' = Waiting
      BY <3>1 DEF TypeOK, Waiting, Size, Cell
    <3> QED
      BY <1>2, <2>2, <2>4, <3>2 DEF Put, Returned, Queue!Put, Queue!Returned
  <2> QED
    BY <2>3, <2>4
<1>3. ASSUME NEW n \in Request, Get(n)
      PROVE  TypeOK' /\ Queue!Get(n)
  <2>1. n \in Nat
    BY RingBufferAssumption
  <2>2. UNCHANGED <<m_contents, m_p_write, m_p_read>>
    BY <1>3 DEF Get, positions
  <2>3. TypeOK' /\ Waiting' = Waiting
    BY <2>2 DEF TypeOK, Waiting, Size, Cell
  <2>4. (Size >= n) = (n <= Len(Waiting))
    BY <1>1, <2>1
  <2>5. Size >= n => FirstBytes(n) = SubSeq(Waiting, 1, n)
    BY <1>1, <2>1, FirstBytesWait
  <2> QED
    BY <1>3, <2>3, <2>4, <2>5 DEF Get, Returned, Queue!Get, Queue!Returned, Queue!Front
<1>4. ASSUME NEW n \in 0 .. Size, Extract(n)
      PROVE  TypeOK' /\ Queue!Extract(n)
  <2>1. UNCHANGED <<m_contents, m_p_write>>
    BY <1>4 DEF Extract
  <2>2. m_p_read' = IF m_p_read + n >= Cells THEN m_p_read + n - Cells ELSE m_p_read + n
    <3>1. /\ n \in Nat /\ n <= Size /\ Cells \in Nat
          /\ m_p_read \in Nat /\ m_p_write \in Nat /\ m_p_read < Cells /\ m_p_write < Cells
          /\ m_p_read <= m_p_write => Size = m_p_write - m_p_read
      BY Sizes DEF Size
    <3>2. m_p_read' = IF m_p_write >= m_p_read \/ Cells - m_p_read > n
                      THEN m_p_read + n ELSE n - (Cells - m_p_read)
      BY <1>4 DEF Extract
    <3> QED
      BY <3>1, <3>2
  <2>3. TypeOK' /\ Waiting' = SubSeq(Waiting, n + 1, Size)
    BY <2>1, <2>2, ReadMoves
  <2>4. FirstBytes(n) = SubSeq(Waiting, 1, n)
    BY FirstBytesWait
  <2> QED
    BY <1>1, <1>4, <2>3, <2>4
       DEF Extract, Returned, Queue!Extract, Queue!Returned, Queue!Front, Queue!Behind
<1>5. ASSUME NEW n \in 0 .. Size, Skip(n)
      PROVE  TypeOK' /\ Queue!Skip(n)
  <2>1. TypeOK' /\ Waiting' = SubSeq(Waiting, n + 1, Size)
    BY <1>5, ReadMoves DEF Skip
  <2> QED
    BY <1>1, <1>5, <2>1 DEF Skip, Queue!Skip, Queue!Behind
<1>6. ASSUME NEW pos \in 0 .. Size - 1, At(pos)
      PROVE  TypeOK' /\ Queue!At(pos)
  <2>1. UNCHANGED <<m_contents, m_p_write, m_p_read>>
    BY <1>6 DEF At, positions
  <2>2. TypeOK' /\ Waiting' = Waiting
    BY <2>1 DEF TypeOK, Waiting, Size, Cell
  <2>3. pos + 1 \in 1 .. Size
    BY <1>1
  <2>4. Cell(pos + 1) = Target(pos)
    BY <1>1, Sizes DEF Cell, Target
  <2>5. Waiting[pos + 1] = m_contents[Target(pos)]
    BY <2>3, <2>4, WaitingSeq
  <2>6. result' = [ok |-> TRUE, bytes |-> <<m_contents[Target(pos)]>>]
    BY <1>6 DEF At, Returned
  <2> QED
    BY <2>2, <2>5, <2>6 DEF Queue!At, Queue!Returned
<1>7. ASSUME Clear
      PROVE  TypeOK' /\ Queue!Clear
  <2>1. m_contents' = m_contents /\ m_p_write' = 0 /\ m_p_read' = 0 /\ result' = result
    BY <1>7 DEF Clear
  <2>2. TypeOK'
    BY <1>1, <2>1 DEF TypeOK, Position
  <2>3. Size' = 0
    BY <2>1 DEF Size, Cells
  <2>4. Waiting' = <<>>
    BY <2>2, <2>3, WaitingSeqNext, EmptySeq
  <2> QED
    BY <2>1, <2>2, <2>4 DEF Queue!Clear
<1>8. CASE UNCHANGED vars
  <2>1. Waiting' = Waiting /\ result' = result /\ TypeOK'
    BY <1>8 DEF vars, TypeOK, Waiting, Size, Cell
  <2> QED
    BY <2>1 DEF Queue!vars
<1>9. CASE Next
  <2>1. CASE \E data \in Block : Put(data)
    BY <1>2, <2>1 DEF Queue!Next
  <2>2. CASE \E n \in Request : Get(n)
    BY <1>3, <2>2 DEF Queue!Next
  <2>3. CASE \E n \in 0 .. Size : Extract(n) \/ Skip(n)
    BY <1>1, <1>4, <1>5, <2>3 DEF Queue!Next
  <2>4. CASE \E pos \in 0 .. Size - 1 : At(pos)
    BY <1>1, <1>6, <2>4 DEF Queue!Next
  <2>5. CASE Clear
    BY <1>7, <2>5 DEF Queue!Next
  <2> QED
    BY <1>9, <2>1, <2>2, <2>3, <2>4, <2>5 DEF Next
<1> QED
  BY <1>8, <1>9

\* The initial buffer is the empty queue.
LEMMA InitIsQueueInit == Init => TypeOK /\ Queue!Init
<1> SUFFICES ASSUME Init PROVE TypeOK /\ Queue!Init
  OBVIOUS
<1>1. TypeOK
  BY RingBufferAssumption DEF Init, TypeOK, Position
<1>2. Size = 0
  BY DEF Init, Size
<1>3. Waiting = <<>>
  BY <1>1, <1>2, WaitingSeq, EmptySeq
<1> QED
  BY <1>1, <1>3 DEF Init, Queue!Init

\* The positions of the ring buffer stay inside its vector.
THEOREM PositionsInRange == Spec => []TypeOK
<1>1. Init => TypeOK
  BY InitIsQueueInit
<1>2. TypeOK /\ [Next]_vars => TypeOK'
  BY StepIsQueueStep
<1> QED
  BY <1>1, <1>2, PTL DEF Spec

\* A ring buffer of any capacity is a bounded queue of bytes, for blocks and
\* reads of any size.
THEOREM RingBufferIsQueue == Spec => ImplementsByteQueue
<1>1. Init => Queue!Init
  BY InitIsQueueInit
<1>2. TypeOK /\ [Next]_vars => [Queue!Next]_(Queue!vars)
  BY StepIsQueueStep
<1> QED
  BY <1>1, <1>2, PositionsInRange, PTL DEF Spec, ImplementsByteQueue, Queue!Spec
=============================================================================
