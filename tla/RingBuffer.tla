----------------------------- MODULE RingBuffer -----------------------------
(***************************************************************************)
(* Class RingBuffer of ntdcp/src/utils.cpp, the receive buffer of every    *)
(* physical interface: a vector of one byte more than the capacity and two *)
(* positions in it.  A step is a call of one of its member functions.      *)
(***************************************************************************)
EXTENDS Integers, Sequences

CONSTANTS
    Byte,
    Capacity,   \* of the constructor: options.ring_buffer_size
    Block,      \* the blocks of bytes that callers put
    Request     \* bound: the sizes that callers ask get() for

ASSUME RingBufferAssumption ==
    /\ Capacity \in Nat
    /\ Block \subseteq Seq(Byte)
    /\ Request \subseteq Nat

VARIABLES
    m_contents,
    m_p_write,
    m_p_read,
    result      \* what the last call returned: whether it succeeded, and bytes

vars == <<m_contents, m_p_write, m_p_read, result>>
positions == <<m_p_write, m_p_read>>

Returned(ok, bytes) == result' = [ok |-> ok, bytes |-> bytes]

Cells == Capacity + 1
Position == 0 .. Capacity

\* std::vector fills its elements with zero, one of the bytes.
Init ==
    /\ \E zero \in Byte : m_contents = [i \in Position |-> zero]
    /\ m_p_write = 0
    /\ m_p_read = 0
    /\ result = [ok |-> TRUE, bytes |-> <<>>]

-----------------------------------------------------------------------------

\* Mutant: the cell that tells a full buffer from an empty one is used.
FreeSpaceWithoutGap == IF m_p_read <= m_p_write THEN Cells + m_p_read - m_p_write
                                                ELSE m_p_read - m_p_write

FreeSpace == IF m_p_read <= m_p_write THEN Cells + m_p_read - m_p_write - 1
                                      ELSE m_p_read - m_p_write - 1

Size == IF m_p_read <= m_p_write THEN m_p_write - m_p_read
                                 ELSE Cells + m_p_write - m_p_read

WillFit(size) == FreeSpace >= size

\* memcpy into the cells from position "at" on, and out of them.
Written(cells, at, data) ==
    [i \in DOMAIN cells |-> IF i \in at .. at + Len(data) - 1 THEN data[i - at + 1]
                                                              ELSE cells[i]]
Copied(at, n) == [k \in 1 .. n |-> m_contents[at + k - 1]]

Put(data) ==
    LET tail == Cells - m_p_write
        size == Len(data)
    IN  /\ Returned(WillFit(size), <<>>)
        /\ \/ /\ ~ WillFit(size)
              /\ UNCHANGED <<m_contents, m_p_write>>
           \/ /\ WillFit(size)
              /\ size < tail
              /\ m_contents' = Written(m_contents, m_p_write, data)
              /\ m_p_write' = m_p_write + size
           \/ /\ WillFit(size)
              /\ size >= tail
              /\ m_contents' = Written(Written(m_contents, m_p_write, SubSeq(data, 1, tail)),
                                       0, SubSeq(data, tail + 1, size))
              /\ m_p_write' = size - tail
        /\ UNCHANGED m_p_read

\* The bytes that get() and extract() copy, from one or two parts of the vector.
FirstBytes(n) ==
    LET tail == Cells - m_p_read
    IN  IF m_p_write >= m_p_read \/ tail > n
        THEN Copied(m_p_read, n)
        ELSE Copied(m_p_read, tail) \o Copied(0, n - tail)

Get(n) ==
    /\ Returned(Size >= n, IF Size >= n THEN FirstBytes(n) ELSE <<>>)
    /\ UNCHANGED <<m_contents, positions>>

\* extract() does not compare n with size(): its callers do.
Extract(n) ==
    LET tail == Cells - m_p_read
    IN  /\ Returned(TRUE, FirstBytes(n))
        /\ m_p_read' = IF m_p_write >= m_p_read \/ tail > n THEN m_p_read + n
                                                            ELSE n - tail
        /\ UNCHANGED <<m_contents, m_p_write>>

\* Mutant: the position may be left behind the last cell.
SkipPastEnd(n) ==
    /\ m_p_read' = IF m_p_read + n > Cells THEN m_p_read + n - Cells ELSE m_p_read + n
    /\ UNCHANGED <<m_contents, m_p_write, result>>

Skip(n) ==
    /\ m_p_read' = IF m_p_read + n >= Cells THEN m_p_read + n - Cells ELSE m_p_read + n
    /\ UNCHANGED <<m_contents, m_p_write, result>>

Target(pos) == IF pos + m_p_read >= Cells THEN pos + m_p_read - Cells ELSE pos + m_p_read

At(pos) ==
    /\ Returned(TRUE, <<m_contents[Target(pos)]>>)
    /\ UNCHANGED <<m_contents, positions>>

Clear ==
    /\ m_p_write' = 0
    /\ m_p_read' = 0
    /\ UNCHANGED <<m_contents, result>>

Next ==
    \/ \E data \in Block : Put(data)
    \/ \E n \in Request : Get(n)
    \/ \E n \in 0 .. Size : Extract(n) \/ Skip(n)
    \/ \E pos \in 0 .. Size - 1 : At(pos)
    \/ Clear

Spec == Init /\ [][Next]_vars
-----------------------------------------------------------------------------
(* Properties *)

\* The positions stay inside the vector, and the vector keeps its bytes.
TypeOK ==
    /\ m_contents \in [Position -> Byte]
    /\ m_p_write \in Position
    /\ m_p_read \in Position

\* The cell of the k-th byte that waits to be read.
Cell(k) == IF m_p_read + k - 1 >= Cells THEN m_p_read + k - 1 - Cells
                                        ELSE m_p_read + k - 1

Waiting == [k \in 1 .. Size |-> m_contents[Cell(k)]]

\* The ring buffer is a bounded queue: put() takes a block whole, if and only if
\* it fits, and get(), extract(), skip() and operator[] see the waiting bytes in
\* order, wherever the block and the reads meet the end of the vector.
Queue == INSTANCE ByteQueue WITH queue <- Waiting
ImplementsByteQueue == Queue!Spec
=============================================================================
