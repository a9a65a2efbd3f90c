--------------------------- MODULE SequenceLemmas ---------------------------
(***************************************************************************)
(* Facts about queues that are sequences, for the proofs about layers.     *)
(***************************************************************************)
EXTENDS SequenceTheorems, TLAPS

\* Taking the head of the second of two queues to the end of the first keeps the whole.
LEMMA MoveHead ==
  ASSUME NEW S, NEW q \in Seq(S), NEW r \in Seq(S), r # <<>>
  PROVE  Append(q, Head(r)) \o Tail(r) = q \o r
<1>1. /\ Head(r) \in S /\ Tail(r) \in Seq(S) /\ <<Head(r)>> \in Seq(S)
      /\ Append(q, Head(r)) = q \o <<Head(r)>>
  BY HeadTailProperties
<1>2. <<Head(r)>> \o Tail(r) = r
  <2>1. Len(<<Head(r)>>) = 1 /\ Len(Tail(r)) = Len(r) - 1 /\ Len(r) \in Nat \ {0}
    BY EmptySeq, HeadTailProperties
  <2>4. /\ <<Head(r)>> \o Tail(r) \in Seq(S)
        /\ Len(<<Head(r)>> \o Tail(r)) = Len(<<Head(r)>>) + Len(Tail(r))
    BY <1>1, ConcatProperties
  <2>5. 1 + (Len(r) - 1) = Len(r)
    BY <2>1
  <2>2. Len(<<Head(r)>> \o Tail(r)) = Len(r) /\ <<Head(r)>> \o Tail(r) \in Seq(S)
    BY <2>1, <2>4, <2>5
  <2>3. \A i \in 1 .. Len(r) : (<<Head(r)>> \o Tail(r))[i] = r[i]
    <3> TAKE i \in 1 .. Len(r)
    <3>1. (<<Head(r)>> \o Tail(r))[i] = IF i <= 1 THEN <<Head(r)>>[i] ELSE Tail(r)[i - 1]
      BY <1>1, <2>1, ConcatProperties
    <3>2. CASE i = 1
      BY <3>1, <3>2
    <3>3. CASE i # 1
      <4>1. i - 1 \in 1 .. Len(r) - 1 /\ ~ (i <= 1)
        BY <2>1, <3>3
      <4>2. Tail(r)[i - 1] = r[i]
        BY <2>1, <4>1
      <4> QED
        BY <3>1, <4>1, <4>2
    <3> QED
      BY <3>2, <3>3
  <2> QED
    BY <2>2, <2>3, SeqEqual
<1>3. (q \o <<Head(r)>>) \o Tail(r) = q \o (<<Head(r)>> \o Tail(r))
  BY <1>1, ConcatAssociative
<1> QED
  BY <1>1, <1>2, <1>3

-----------------------------------------------------------------------------
(* Messages *)

\* What is put behind the second of two queues is behind both.
LEMMA ConcatAppend ==
  ASSUME NEW S, NEW q \in Seq(S), NEW r \in Seq(S), NEW x \in S
  PROVE  q \o Append(r, x) = Append(q \o r, x)
<1>1. /\ q \o r \in Seq(S) /\ <<x>> \in Seq(S)
      /\ Append(r, x) = r \o <<x>>
  BY ConcatProperties, AppendIsConcat
<1>2. Append(q \o r, x) = (q \o r) \o <<x>>
  BY <1>1, AppendIsConcat
<1> QED
  BY <1>1, <1>2, ConcatAssociative

\* A sequence is one over a smaller set when its elements are of that set.
LEMMA SeqOver ==
  ASSUME NEW S, NEW q \in Seq(S), NEW T, \A i \in DOMAIN q : q[i] \in T
  PROVE  q \in Seq(T)
<1>1. q \in [1 .. Len(q) -> T] /\ Len(q) \in Nat
  OBVIOUS
<1> QED
  BY <1>1
=============================================================================
