---------------------------- MODULE HeaderProofs ----------------------------
(***************************************************************************)
(* decode() inverts encode(), for addresses whose four bytes do not have   *)
(* the highest bit set and for hop limits that fit the flag byte.          *)
(***************************************************************************)
EXTENDS Header, SequenceLemmas

Byte == 0 .. Base - 1

\* Addresses that four bytes carry without a sign.
Carried == 0 .. (Base \div 2) * Base * Base * Base - 1

-----------------------------------------------------------------------------
(* Numbers *)

LEMMA Division ==
  ASSUME NEW x \in Nat
  PROVE  /\ Low(x) \in Byte
         /\ Rest(x) \in Nat
         /\ x = Base * Rest(x) + Low(x)
BY HeaderAssumption DEF Low, Rest, Byte

LEMMA Monotone ==
  ASSUME NEW b \in Nat, NEW x \in Nat, NEW y \in Nat, x <= y
  PROVE  b * x <= b * y
BY SMT

LEMMA RestBelow ==
  ASSUME NEW x \in Nat, NEW c \in Nat, x < Base * c
  PROVE  Rest(x) < c
<1>1. Base \in Nat /\ Rest(x) \in Nat /\ Low(x) \in Nat /\ x = Base * Rest(x) + Low(x)
  BY Division, HeaderAssumption DEF Byte
<1> SUFFICES ASSUME c <= Rest(x) PROVE FALSE
  BY <1>1
<1>2. Base * c <= Base * Rest(x)
  BY <1>1, Monotone
<1>3. Base * c \in Nat /\ Base * Rest(x) \in Nat
  BY <1>1
<1> QED
  BY <1>1, <1>2, <1>3

\* A number of one byte is its own lowest byte.
LEMMA SmallNumber ==
  ASSUME NEW x \in Nat, x < Base
  PROVE  Low(x) = x
BY HeaderAssumption DEF Low

-----------------------------------------------------------------------------
(* Addresses *)

\* An address is read as it was put, from as many bytes as the flag byte says.
LEMMA AddressCarried ==
  ASSUME NEW a \in Carried
  PROVE  /\ AddressSize(a) \in 1 .. 4
         /\ PutAddress(a) \in Seq(Nat)
         /\ Len(PutAddress(a)) = AddressSize(a)
         /\ ReadAddress(PutAddress(a)) = a
<1> DEFINE b == Rest(a)
           c == Rest(b)
           d == Rest(c)
<1>1. /\ a \in Nat /\ b \in Nat /\ c \in Nat /\ d \in Nat
      /\ Low(a) \in Nat /\ Low(b) \in Nat /\ Low(c) \in Nat /\ Low(d) \in Nat
      /\ a = Base * b + Low(a) /\ b = Base * c + Low(b) /\ c = Base * d + Low(c)
  <2>1. Base \in Nat /\ a \in Nat
    BY HeaderAssumption DEF Carried
  <2>2. b \in Nat /\ Low(a) \in Nat /\ a = Base * b + Low(a)
    BY <2>1, Division DEF Byte
  <2>3. c \in Nat /\ Low(b) \in Nat /\ b = Base * c + Low(b)
    BY <2>1, <2>2, Division DEF Byte
  <2>4. d \in Nat /\ Low(c) \in Nat /\ c = Base * d + Low(c)
    BY <2>1, <2>3, Division DEF Byte
  <2>5. Low(d) \in Nat
    BY <2>1, <2>4, Division DEF Byte
  <2> QED
    BY <2>1, <2>2, <2>3, <2>4, <2>5
<1>2. /\ Base \in Nat \ {0, 1} /\ Base \div 2 \in Nat /\ Base \div 2 < Base
      /\ Base * Base \in Nat /\ Base * Base * Base \in Nat
      /\ a < (Base \div 2) * Base * Base * Base
  BY HeaderAssumption DEF Carried
<1>3. PutAddress(a) = CASE AddressSize(a) = 1 -> <<Low(a)>>
                        [] AddressSize(a) = 2 -> <<Low(b), Low(a)>>
                        [] AddressSize(a) = 3 -> <<Low(c), Low(b), Low(a)>>
                        [] OTHER -> <<Low(d), Low(c), Low(b), Low(a)>>
  BY DEF PutAddress
<1> HIDE DEF b, c, d
<1>4. CASE a < Base
  <2>1. AddressSize(a) = 1
    BY <1>1, <1>2, <1>4 DEF AddressSize
  <2>2. PutAddress(a) = <<Low(a)>> /\ Low(a) = a
    BY <1>1, <1>3, <1>4, <2>1, SmallNumber
  <2> QED
    BY <1>1, <2>1, <2>2 DEF ReadAddress
<1>5. CASE Base <= a /\ a < Base * Base
  <2>1. AddressSize(a) = 2
    BY <1>1, <1>2, <1>5 DEF AddressSize
  <2>2. b < Base
    BY <1>1, <1>2, <1>5, RestBelow DEF b
  <2>3. PutAddress(a) = <<b, Low(a)>>
    BY <1>1, <1>3, <2>1, <2>2, SmallNumber
  <2> QED
    BY <1>1, <2>1, <2>3 DEF ReadAddress
<1>6. CASE Base * Base <= a /\ a < Base * Base * Base
  <2>1. AddressSize(a) = 3
    BY <1>1, <1>2, <1>6 DEF AddressSize
  <2>2. b < Base * Base
    BY <1>1, <1>2, <1>6, RestBelow DEF b
  <2>3. c < Base
    BY <1>1, <1>2, <2>2, RestBelow DEF c
  <2>4. PutAddress(a) = <<c, Low(b), Low(a)>>
    BY <1>1, <1>3, <2>1, <2>3, SmallNumber
  <2> QED
    BY <1>1, <2>1, <2>4 DEF ReadAddress
<1>7. CASE Base * Base * Base <= a
  <2>1. AddressSize(a) = 4
    BY <1>1, <1>2, <1>7 DEF AddressSize
  <2>2. b < (Base \div 2) * Base * Base
    <3>1. Base * ((Base \div 2) * Base * Base) = (Base \div 2) * Base * Base * Base
      BY <1>2
    <3>2. (Base \div 2) * Base * Base \in Nat
      BY <1>2
    <3> QED
      BY <1>1, <1>2, <3>1, <3>2, RestBelow DEF b
  <2>3. c < (Base \div 2) * Base
    <3>1. Base * ((Base \div 2) * Base) = (Base \div 2) * Base * Base
      BY <1>2
    <3>2. (Base \div 2) * Base \in Nat
      BY <1>2
    <3> QED
      BY <1>1, <2>2, <3>1, <3>2, RestBelow DEF c
  <2>4. d < Base \div 2
    <3>1. Base * (Base \div 2) = (Base \div 2) * Base
      BY <1>2
    <3> QED
      BY <1>1, <1>2, <2>3, <3>1, RestBelow DEF d
  <2>5. Low(d) = d
    BY <1>1, <1>2, <2>4, SmallNumber
  <2>6. PutAddress(a) = <<d, Low(c), Low(b), Low(a)>>
    BY <1>3, <2>1, <2>5
  <2>7. SignOf(d) = 0
    BY <2>4 DEF SignOf
  <2>8. ReadAddress(PutAddress(a)) =
          Base * (Base * (Base * d + Low(c)) + Low(b)) + Low(a) + SignOf(d)
    BY <1>1, <2>6 DEF ReadAddress
  <2>9. ReadAddress(PutAddress(a)) = a
    BY <1>1, <2>7, <2>8
  <2> QED
    BY <1>1, <2>1, <2>6, <2>9
<1> QED
  BY <1>1, <1>2, <1>4, <1>5, <1>6, <1>7

-----------------------------------------------------------------------------
(* Parts of a sequence *)

\* A sequence that stands inside another one is what SubSeq cuts out there.
LEMMA CutOut ==
  ASSUME NEW S, NEW q \in Seq(S), NEW r \in Seq(S), NEW m \in Nat, NEW n \in Nat,
         n = m + Len(r), n <= Len(q),
         \A i \in 1 .. Len(r) : q[m + i] = r[i]
  PROVE  SubSeq(q, m + 1, n) = r
<1>1. Len(q) \in Nat /\ Len(r) \in Nat /\ n - m = Len(r)
  OBVIOUS
<1>2. \A i \in m + 1 .. n : q[i] \in S
  BY <1>1
<1>3. /\ SubSeq(q, m + 1, n) \in Seq(S)
      /\ Len(SubSeq(q, m + 1, n)) = Len(r)
  BY <1>1, <1>2, SubSeqProperties
<1>4. ASSUME NEW i \in 1 .. Len(r) PROVE SubSeq(q, m + 1, n)[i] = r[i]
  <2>1. SubSeq(q, m + 1, n)[i] = q[(m + 1) + i - 1]
    BY <1>1, <1>2, <1>4, SubSeqProperties
  <2>2. (m + 1) + i - 1 = m + i
    BY <1>1
  <2> QED
    BY <2>1, <2>2
<1> QED
  BY <1>3, <1>4, SeqEqual

LEMMA Joined ==
  ASSUME NEW S, NEW q \in Seq(S), NEW r \in Seq(S)
  PROVE  /\ q \o r \in Seq(S)
         /\ Len(q \o r) = Len(q) + Len(r)
         /\ \A i \in 1 .. Len(q) : (q \o r)[i] = q[i]
         /\ \A i \in 1 .. Len(r) : (q \o r)[Len(q) + i] = r[i]
<1>1. /\ q \o r \in Seq(S) /\ Len(q \o r) = Len(q) + Len(r)
      /\ \A i \in 1 .. Len(q) + Len(r) :
            (q \o r)[i] = IF i <= Len(q) THEN q[i] ELSE r[i - Len(q)]
  BY ConcatProperties
<1>2. PICK t : t = q \o r
  OBVIOUS
<1>3. Len(q) \in Nat /\ Len(r) \in Nat
  OBVIOUS
<1>4. ASSUME NEW i \in 1 .. Len(q) PROVE t[i] = q[i]
  BY <1>1, <1>2, <1>3
<1>5. ASSUME NEW i \in 1 .. Len(r) PROVE t[Len(q) + i] = r[i]
  <2>1. /\ Len(q) + i \in 1 .. Len(q) + Len(r)
        /\ ~ (Len(q) + i <= Len(q)) /\ (Len(q) + i) - Len(q) = i
    BY <1>3
  <2> QED
    BY <1>1, <1>2, <2>1
<1> QED
  BY <1>1, <1>2, <1>4, <1>5

\* The three bytes of a header in front of the addresses.
LEMMA FixedPart ==
  ASSUME NEW f \in Nat, NEW x \in Nat, NEW y \in Nat
  PROVE  /\ <<f>> \o <<x, y>> \o <<>> \in Seq(Nat)
         /\ Len(<<f>> \o <<x, y>> \o <<>>) = 3
         /\ (<<f>> \o <<x, y>> \o <<>>)[1] = f
         /\ (<<f>> \o <<x, y>> \o <<>>)[2] = x
         /\ (<<f>> \o <<x, y>> \o <<>>)[3] = y
<1>1. PICK u \in Seq(Nat) : u = <<f>> /\ Len(u) = 1 /\ u[1] = f
  <2>1. <<f>> \in Seq(Nat) /\ Len(<<f>>) = 1 /\ <<f>>[1] = f
    OBVIOUS
  <2> QED
    BY <2>1, Zenon
<1>2. PICK v \in Seq(Nat) : v = <<x, y>> /\ Len(v) = 2 /\ v[1] = x /\ v[2] = y
  <2>1. <<x, y>> \in Seq(Nat) /\ Len(<<x, y>>) = 2 /\ <<x, y>>[1] = x /\ <<x, y>>[2] = y
    OBVIOUS
  <2> QED
    BY <2>1, Zenon
<1>3. PICK w \in Seq(Nat) : w = u \o v
  BY ConcatProperties
<1>4. /\ Len(w) = 3 /\ w[1] = f
      /\ \A i \in 1 .. 2 : w[1 + i] = v[i]
  BY <1>1, <1>2, <1>3, Joined
<1>5. w[2] = x /\ w[3] = y
  <2>1. w[1 + 1] = v[1] /\ w[1 + 2] = v[2]
    BY <1>4
  <2> QED
    BY <1>2, <2>1
<1>6. w \o <<>> = w
  BY ConcatEmptySeq
<1>7. <<f>> \o <<x, y>> \o <<>> = w
  BY <1>1, <1>2, <1>3, <1>6, Zenon
<1> QED
  BY <1>4, <1>5, <1>7

\* What stands where behind them.
LaidOut(g, p, q, r, e) ==
    /\ e \in Seq(Nat)
    /\ Len(e) = Len(g) + Len(p) + Len(q) + Len(r)
    /\ \A i \in 1 .. Len(g) : e[i] = g[i]
    /\ SubSeq(e, Len(g) + 1, Len(g) + Len(p)) = p
    /\ SubSeq(e, Len(g) + Len(p) + 1, Len(g) + Len(p) + Len(q)) = q
    /\ SubSeq(e, Len(g) + Len(p) + Len(q) + 1, Len(g) + Len(p) + Len(q) + Len(r)) = r

LEMMA Layout ==
  ASSUME NEW g \in Seq(Nat), NEW p \in Seq(Nat), NEW q \in Seq(Nat), NEW r \in Seq(Nat)
  PROVE  LaidOut(g, p, q, r, g \o p \o q \o r)
<1> PICK c \in Nat, k \in Nat, l \in Nat, m \in Nat :
       c = Len(g) /\ k = Len(p) /\ l = Len(q) /\ m = Len(r)
  OBVIOUS
<1>1. PICK g1 \in Seq(Nat) : g1 = g \o p
  BY ConcatProperties
<1>2. PICK g2 \in Seq(Nat) : g2 = g1 \o q
  BY ConcatProperties
<1>3. PICK e \in Seq(Nat) : e = g2 \o r
  BY ConcatProperties
<1>4. e = g \o p \o q \o r
  BY <1>1, <1>2, <1>3
<1>5. Len(g1) = c + k /\ (\A i \in 1 .. c : g1[i] = g[i]) /\ (\A i \in 1 .. k : g1[c + i] = p[i])
  BY <1>1, Joined
<1>6. PICK c1 \in Nat : c1 = c + k
  OBVIOUS
<1>7. /\ Len(g2) = c1 + l
      /\ \A i \in 1 .. c1 : g2[i] = g1[i]
      /\ \A i \in 1 .. l : g2[c1 + i] = q[i]
  <2>1. /\ Len(g2) = Len(g1) + Len(q) /\ \A i \in 1 .. Len(g1) : g2[i] = g1[i]
        /\ \A i \in 1 .. Len(q) : g2[Len(g1) + i] = q[i]
    BY <1>2, Joined
  <2> QED
    BY <1>5, <1>6, <2>1
<1>8. PICK c2 \in Nat : c2 = c1 + l
  OBVIOUS
<1>9. Len(e) = c2 + m /\ (\A i \in 1 .. c2 : e[i] = g2[i]) /\ (\A i \in 1 .. m : e[c2 + i] = r[i])
  <2>1. /\ Len(e) = Len(g2) + Len(r) /\ \A i \in 1 .. Len(g2) : e[i] = g2[i]
        /\ \A i \in 1 .. Len(r) : e[Len(g2) + i] = r[i]
    BY <1>3, Joined
  <2> QED
    BY <1>7, <1>8, <2>1
<1>10. c <= c1 /\ c1 <= c2
  BY <1>6, <1>8
<1>11. \A i \in 1 .. c : e[i] = g[i]
  <2> TAKE i \in 1 .. c
  <2>1. i \in 1 .. c1 /\ i \in 1 .. c2
    BY <1>10
  <2> QED
    BY <1>5, <1>7, <1>9, <2>1
<1>12. SubSeq(e, c + 1, c1) = p
  <2>1. ASSUME NEW i \in 1 .. k PROVE e[c + i] = p[i]
    <3>1. c + i \in 1 .. c1 /\ c + i \in 1 .. c2
      BY <1>6, <1>10
    <3> QED
      BY <1>5, <1>7, <1>9, <3>1
  <2>2. c1 <= Len(e)
    BY <1>9, <1>10
  <2> QED
    BY <1>6, <2>1, <2>2, CutOut
<1>13. SubSeq(e, c1 + 1, c2) = q
  <2>1. ASSUME NEW i \in 1 .. l PROVE e[c1 + i] = q[i]
    <3>1. c1 + i \in 1 .. c2
      BY <1>8
    <3> QED
      BY <1>7, <1>9, <3>1
  <2>2. c2 <= Len(e)
    BY <1>9
  <2> QED
    BY <1>8, <2>1, <2>2, CutOut
<1>14. SubSeq(e, c2 + 1, c2 + m) = r
  <2>1. PICK n \in Nat : n = c2 + m
    OBVIOUS
  <2>2. SubSeq(e, c2 + 1, n) = r
    <3>1. n <= Len(e) /\ n = c2 + Len(r) /\ \A i \in 1 .. Len(r) : e[c2 + i] = r[i]
      BY <1>9, <2>1
    <3> QED
      BY <3>1, CutOut
  <2> QED
    BY <2>1, <2>2
<1> QED
  <2>1. /\ Len(e) = c + k + l + m
        /\ SubSeq(e, c + 1, c + k) = p
        /\ SubSeq(e, c + k + 1, c + k + l) = q
        /\ SubSeq(e, c + k + l + 1, c + k + l + m) = r
    BY <1>6, <1>8, <1>9, <1>12, <1>13, <1>14
  <2> QED
    BY <1>4, <1>11, <2>1 DEF LaidOut

\* The flag byte holds three numbers, each as it was.
LEMMA FlagHolds ==
  ASSUME NEW header, header.hop_limit \in 0 .. HopEscape - 1,
         AddressSize(header.source) \in 1 .. 4,
         AddressSize(header.destination) \in 1 .. 4
  PROVE  /\ Flag(header) \in Nat
         /\ SourceSize(Flag(header)) = AddressSize(header.source)
         /\ DestinationSize(Flag(header)) = AddressSize(header.destination)
         /\ Flag(header) \div 16 = header.hop_limit
         /\ HopSize(Flag(header)) = 0
<1> DEFINE s == AddressSize(header.source) - 1
           t == AddressSize(header.destination) - 1
           h == header.hop_limit
           f == s + 4 * t + 16 * h
<1>1. s \in 0 .. 3 /\ t \in 0 .. 3 /\ h \in Nat /\ h < HopEscape /\ HopEscape \in Nat
  BY HeaderAssumption
<1>2. Flag(header) = f
  BY <1>1 DEF Flag
<1>3. s + 1 = AddressSize(header.source) /\ t + 1 = AddressSize(header.destination)
  OBVIOUS
<1> HIDE DEF s, t, h
<1>4. f \in Nat /\ f % 4 = s /\ (f \div 4) % 4 = t /\ f \div 16 = h
  BY <1>1
<1> HIDE DEF f
<1>5. SourceSize(f) = s + 1 /\ DestinationSize(f) = t + 1
  BY <1>4 DEF SourceSize, DestinationSize
<1>6. HopSize(f) = 0
  BY <1>1, <1>4 DEF HopSize
<1>7. h = header.hop_limit
  BY DEF h
<1> QED
  BY <1>2, <1>3, <1>4, <1>5, <1>6, <1>7

\* What encode() puts in front of the data, decode() reads: the header that it is
\* given comes out as it was, and the data behind it.
THEOREM DecodeInvertsEncode ==
  ASSUME NEW header, NEW data \in Seq(Nat),
         header.hop_limit \in 0 .. HopEscape - 1,
         header.id \in 0 .. Base * Base - 1,
         header.source \in Carried,
         header.destination \in Carried
  PROVE  /\ Encode(header, data) \in Seq(Nat)
         /\ Decodes(Encode(header, data))
         /\ Decode(Encode(header, data)) =
              [hop_limit |-> header.hop_limit, id |-> header.id, source |-> header.source,
               destination |-> header.destination, data |-> data]
<1>1. PICK p \in Seq(Nat) : /\ p = PutAddress(header.source)
                            /\ Len(p) = AddressSize(header.source)
                            /\ Len(p) \in 1 .. 4
                            /\ ReadAddress(p) = header.source
  BY AddressCarried
<1>2. PICK q \in Seq(Nat) : /\ q = PutAddress(header.destination)
                            /\ Len(q) = AddressSize(header.destination)
                            /\ Len(q) \in 1 .. 4
                            /\ ReadAddress(q) = header.destination
  BY AddressCarried
<1>3. PICK f \in Nat : /\ f = Flag(header)
                       /\ SourceSize(f) = Len(p) /\ DestinationSize(f) = Len(q)
                       /\ f \div 16 = header.hop_limit /\ HopSize(f) = 0
  BY <1>1, <1>2, FlagHolds
<1>4. PICK x \in Nat, y \in Nat : /\ x = Low(header.id) /\ y = Rest(header.id)
                                  /\ x + Base * y = header.id
  <2>1. PICK i \in Nat : i = header.id
    BY HeaderAssumption
  <2>2. Low(i) \in Nat /\ Rest(i) \in Nat /\ i = Base * Rest(i) + Low(i)
    BY Division DEF Byte
  <2>3. Low(i) + Base * Rest(i) = i
    <3>1. PICK r \in Nat : r = Base * Rest(i)
      BY <2>2, HeaderAssumption
    <3> QED
      BY <2>2, <3>1
  <2> QED
    BY <2>1, <2>2, <2>3
<1>5. PICK e : e = Encode(header, data)
  OBVIOUS
<1>6. PICK g : g = <<f>> \o <<x, y>> \o <<>> /\ e = g \o p \o q \o data
  <2>1. header.hop_limit < HopEscape
    <3>1. PICK h \in Nat : h = header.hop_limit /\ h \in 0 .. HopEscape - 1
      BY HeaderAssumption
    <3> QED
      BY <3>1, HeaderAssumption
  <2> QED
    BY <1>1, <1>2, <1>3, <1>4, <1>5, <2>1, Zenon DEF Encode, PutId
<1>7. PICK k \in Nat, l \in Nat, m \in Nat : /\ k = Len(p) /\ k \in 1 .. 4
                                             /\ l = Len(q) /\ l \in 1 .. 4
                                             /\ m = Len(data)
  BY <1>1, <1>2
<1>8. /\ e \in Seq(Nat)
      /\ Len(e) = 3 + k + l + m
      /\ e[1] = f /\ e[2] = x /\ e[3] = y
      /\ SubSeq(e, 4, 3 + k) = p
      /\ SubSeq(e, 4 + k, 3 + k + l) = q
      /\ SubSeq(e, 4 + k + l, Len(e)) = data
  <2>1. g \in Seq(Nat) /\ Len(g) = 3 /\ g[1] = f /\ g[2] = x /\ g[3] = y
    BY <1>6, FixedPart
  <2>2. /\ e \in Seq(Nat) /\ Len(e) = 3 + k + l + m
        /\ \A i \in 1 .. 3 : e[i] = g[i]
        /\ SubSeq(e, 3 + 1, 3 + k) = p
        /\ SubSeq(e, 3 + k + 1, 3 + k + l) = q
        /\ SubSeq(e, 3 + k + l + 1, 3 + k + l + m) = data
    <3>1. PICK c \in Nat : c = 3
      OBVIOUS
    <3>2. c = Len(g) /\ k = Len(p) /\ l = Len(q) /\ m = Len(data)
      BY <1>7, <2>1, <3>1
    <3>3. LaidOut(g, p, q, data, g \o p \o q \o data)
      BY <2>1, Layout
    <3> QED
      BY <1>6, <3>1, <3>2, <3>3, Zenon DEF LaidOut
  <2>3. 3 + 1 = 4 /\ 3 + k + 1 = 4 + k /\ 3 + k + l + 1 = 4 + k + l
    BY <1>7
  <2>4. e[1] = f /\ e[2] = x /\ e[3] = y
    BY <2>1, <2>2
  <2> QED
    BY <2>2, <2>3, <2>4, Zenon
<1>9. Decodes(e)
  <2>1. HeaderSize(f) = 3 + k + l
    BY <1>3, <1>7 DEF HeaderSize
  <2>2. e # <<>>
    BY <1>7, <1>8
  <2> QED
    BY <1>8, <1>7, <2>1, <2>2 DEF Decodes
<1>10. Decode(e) = [hop_limit |-> header.hop_limit, id |-> header.id,
                    source |-> header.source, destination |-> header.destination,
                    data |-> data]
  <2>0. Decode(e) =
          [hop_limit |-> IF HopSize(e[1]) = 1 THEN e[2] ELSE e[1] \div 16,
           id |-> e[2 + HopSize(e[1])] + Base * e[2 + HopSize(e[1]) + 1],
           source |-> ReadAddress(SubSeq(e, 2 + HopSize(e[1]) + 2,
                                         (2 + HopSize(e[1]) + 2 + SourceSize(e[1])) - 1)),
           destination |-> ReadAddress(SubSeq(e, 2 + HopSize(e[1]) + 2 + SourceSize(e[1]),
                             (2 + HopSize(e[1]) + 2 + SourceSize(e[1]) + DestinationSize(e[1])) - 1)),
           data |-> SubSeq(e, 2 + HopSize(e[1]) + 2 + SourceSize(e[1]) + DestinationSize(e[1]), Len(e))]
    BY DEF Decode
  <2>1. Decode(e) =
          [hop_limit |-> IF HopSize(f) = 1 THEN e[2] ELSE f \div 16,
           id |-> e[2 + HopSize(f)] + Base * e[2 + HopSize(f) + 1],
           source |-> ReadAddress(SubSeq(e, 2 + HopSize(f) + 2,
                                         (2 + HopSize(f) + 2 + SourceSize(f)) - 1)),
           destination |-> ReadAddress(SubSeq(e, 2 + HopSize(f) + 2 + SourceSize(f),
                             (2 + HopSize(f) + 2 + SourceSize(f) + DestinationSize(f)) - 1)),
           data |-> SubSeq(e, 2 + HopSize(f) + 2 + SourceSize(f) + DestinationSize(f), Len(e))]
    BY <1>8, <2>0, Zenon
  <2>2. /\ HopSize(f) # 1 /\ 2 + HopSize(f) = 2 /\ 2 + HopSize(f) + 1 = 3
        /\ 2 + HopSize(f) + 2 = 4
        /\ (2 + HopSize(f) + 2 + SourceSize(f)) - 1 = 3 + k
        /\ 2 + HopSize(f) + 2 + SourceSize(f) = 4 + k
        /\ (2 + HopSize(f) + 2 + SourceSize(f) + DestinationSize(f)) - 1 = 3 + k + l
        /\ 2 + HopSize(f) + 2 + SourceSize(f) + DestinationSize(f) = 4 + k + l
    BY <1>3, <1>7
  <2>3. Decode(e) = [hop_limit |-> f \div 16, id |-> e[2] + Base * e[3],
                     source |-> ReadAddress(p), destination |-> ReadAddress(q),
                     data |-> data]
    BY <1>8, <2>1, <2>2, Zenon
  <2> QED
    BY <1>1, <1>2, <1>3, <1>4, <1>8, <2>3, Zenon
<1> QED
  BY <1>5, <1>8, <1>9, <1>10
=============================================================================
