--------------------------- MODULE NetworkProofs ---------------------------
(***************************************************************************)
(* No package is delivered twice, on every network of devices and media,   *)
(* for every size of the caches and however ids collide; and on a          *)
(* connected one that loses nothing, packages get to where they should.    *)
(***************************************************************************)
EXTENDS NetworkInv, CachingMapProofs, HeaderProofs

\* A checked element is held, and of the others at most the head is forgotten.
LEMMA CheckUpdateProperties ==
  ASSUME NEW S, NEW list \in Seq(S), NEW obj \in S, NEW size \in Nat \ {0},
         Len(list) <= size
  PROVE  /\ CheckUpdate(list, obj, size) \in Seq(S)
         /\ Len(CheckUpdate(list, obj, size)) <= size
         /\ Holds(CheckUpdate(list, obj, size), obj)
         /\ \A x : Holds(list, x) =>
               \/ Holds(CheckUpdate(list, obj, size), x)
               \/ Forgets(list, obj, size) /\ x = Head(list)
<1> DEFINE place == CHOOSE i \in DOMAIN list : list[i] = obj
           kept == IF Holds(list, obj) THEN WithoutPlace(list, place)
                   ELSE IF Forgets(list, obj, size) THEN Tail(list) ELSE list
<1>1. /\ kept \in Seq(S)
      /\ Len(kept) < size
      /\ \A x : Holds(list, x) =>
            \/ Holds(kept, x)
            \/ x = obj
            \/ Forgets(list, obj, size) /\ x = Head(list)
  <2>1. CASE Holds(list, obj)
    <3>1. place \in DOMAIN list /\ list[place] = obj
      BY <2>1 DEF Holds
    <3> HIDE DEF place
    <3>2. /\ WithoutPlace(list, place) \in Seq(S)
          /\ Len(WithoutPlace(list, place)) = Len(list) - 1
      BY <3>1, WithoutPlaceProperties
    <3>3. ASSUME NEW x, Holds(list, x), x # obj
          PROVE  Holds(WithoutPlace(list, place), x)
      <4>1. PICK j \in DOMAIN list : list[j] = x
        BY <3>3 DEF Holds
      <4>2. j # place
        BY <3>1, <3>3, <4>1
      <4> QED
        BY <3>1, <4>1, <4>2, WithoutPlaceKeeps DEF Holds
    <3>4. kept = WithoutPlace(list, place) /\ Len(list) \in Nat
      BY <2>1
    <3> HIDE DEF kept
    <3> QED
      BY <3>2, <3>3, <3>4
  <2>2. CASE ~ Holds(list, obj) /\ Len(list) = size
    <3>1. Forgets(list, obj, size) /\ kept = Tail(list) /\ list # <<>>
      BY <2>2 DEF Forgets
    <3>2. /\ Tail(list) \in Seq(S)
          /\ Len(Tail(list)) = Len(list) - 1
          /\ \A i \in 1 .. Len(Tail(list)) : Tail(list)[i] = list[i + 1]
      BY <3>1, HeadTailProperties
    <3>3. ASSUME NEW x, Holds(list, x), x # Head(list)
          PROVE  Holds(Tail(list), x)
      <4>1. PICK j \in 1 .. Len(list) : list[j] = x
        BY <3>3 DEF Holds
      <4>2. j # 1
        BY <3>1, <3>3, <4>1
      <4>3. j - 1 \in 1 .. Len(Tail(list)) /\ (j - 1) + 1 = j
        BY <3>2, <4>1, <4>2
      <4>4. Tail(list)[j - 1] = x /\ j - 1 \in DOMAIN Tail(list)
        BY <3>2, <4>1, <4>3
      <4> QED
        BY <4>4 DEF Holds
    <3> HIDE DEF kept
    <3> QED
      BY <2>2, <3>1, <3>2, <3>3
  <2>3. CASE ~ Holds(list, obj) /\ Len(list) # size
    <3>1. kept = list
      BY <2>3 DEF Forgets
    <3> HIDE DEF kept
    <3> QED
      BY <2>3, <3>1
  <2> QED
    BY <2>1, <2>2, <2>3
<1>2. CheckUpdate(list, obj, size) = Append(kept, obj)
  BY DEF CheckUpdate
<1> HIDE DEF kept
<1>3. /\ Append(kept, obj) \in Seq(S)
      /\ Len(Append(kept, obj)) = Len(kept) + 1 /\ Len(kept) \in Nat
      /\ \A i \in 1 .. Len(kept) : Append(kept, obj)[i] = kept[i]
      /\ Append(kept, obj)[Len(kept) + 1] = obj
  BY <1>1, AppendProperties
<1>4. \A x : Holds(kept, x) \/ x = obj => Holds(Append(kept, obj), x)
  <2>1. /\ DOMAIN kept = 1 .. Len(kept)
        /\ DOMAIN Append(kept, obj) = 1 .. Len(kept) + 1
    BY <1>1, <1>3
  <2> QED
    BY <1>3, <2>1 DEF Holds
<1>5. Len(Append(kept, obj)) <= size
  BY <1>1, <1>3
<1> QED
  BY <1>1, <1>2, <1>3, <1>4, <1>5

\* A node that checks an id knows it, and what it knew it knows or has forgotten.
LEMMA CheckKeeps ==
  ASSUME TypeOK, NEW n \in Node, NEW id \in PackageIds, Check(n, id)
  PROVE  /\ seen' \in [Node -> Seq(PackageIds)]
         /\ \A m \in Node : Len(seen'[m]) <= SeenMax
         /\ forgotten' \in [Node -> SUBSET PackageIds]
         /\ \A m \in Node : forgotten[m] \subseteq forgotten'[m]
         /\ Checked(n, id)'
         /\ \A m \in Node, x \in PackageIds : Checked(m, x) => Checked(m, x)'
<1> DEFINE new == CheckUpdate(seen[n], id, SeenMax)
<1>0. /\ seen \in [Node -> Seq(PackageIds)] /\ seen[n] \in Seq(PackageIds)
      /\ \A m \in Node : Len(seen[m]) <= SeenMax
      /\ forgotten \in [Node -> SUBSET PackageIds]
      /\ SeenMax \in Nat \ {0}
  BY NetworkAssumption DEF TypeOK
<1>1. /\ new \in Seq(PackageIds)
      /\ Len(new) <= SeenMax
      /\ Holds(new, id)
      /\ \A x : Holds(seen[n], x) =>
            Holds(new, x) \/ (Forgets(seen[n], id, SeenMax) /\ x = Head(seen[n]))
  BY <1>0, CheckUpdateProperties
<1>2. /\ seen' = [seen EXCEPT ![n] = new]
      /\ forgotten' = IF Forgets(seen[n], id, SeenMax)
                      THEN [forgotten EXCEPT ![n] = @ \cup {Head(seen[n])}]
                      ELSE forgotten
  BY DEF Check
<1> HIDE DEF new
<1>3. Forgets(seen[n], id, SeenMax) => Head(seen[n]) \in PackageIds
  <2>1. ASSUME Forgets(seen[n], id, SeenMax) PROVE seen[n] # <<>>
    BY <1>0, <2>1 DEF Forgets
  <2> QED
    BY <1>0, <2>1, HeadTailProperties
<1>4. /\ seen' \in [Node -> Seq(PackageIds)]
      /\ \A m \in Node : Len(seen'[m]) <= SeenMax
      /\ seen'[n] = new
      /\ \A m \in Node : m # n => seen'[m] = seen[m]
  BY <1>0, <1>1, <1>2
<1>5. /\ forgotten' \in [Node -> SUBSET PackageIds]
      /\ \A m \in Node : forgotten[m] \subseteq forgotten'[m]
      /\ Forgets(seen[n], id, SeenMax) => Head(seen[n]) \in forgotten'[n]
  BY <1>0, <1>2, <1>3
<1>6. Checked(n, id)'
  BY <1>1, <1>4 DEF Checked, Holds
<1>7. ASSUME NEW m \in Node, NEW x \in PackageIds, Checked(m, x)
      PROVE  Checked(m, x)'
  <2>1. CASE x \in forgotten[m]
    BY <1>5, <2>1 DEF Checked
  <2>2. CASE m # n
    BY <1>4, <1>5, <1>7, <2>2 DEF Checked, Holds
  <2>3. CASE m = n /\ Holds(seen[n], x)
    <3>1. Holds(new, x) \/ x \in forgotten'[n]
      BY <1>1, <1>5, <2>3
    <3> QED
      BY <1>4, <2>3, <3>1 DEF Checked, Holds
  <2> QED
    BY <1>7, <2>1, <2>2, <2>3 DEF Checked
<1> QED
  BY <1>4, <1>5, <1>6, <1>7

-----------------------------------------------------------------------------
(* What was delivered stays so; what else a step must keep of it. *)

Sound(n) == \A i \in DOMAIN Delivered(n) : Arrived(n, Delivered(n)[i])

Once(n) == \A i, j \in DOMAIN Delivered(n) :
              Delivered(n)[i].data = Delivered(n)[j].data =>
                 i = j \/ Delivered(n)[i].id \in forgotten[n]

\* Whether the packages sent, and what nodes know, go on to hold.
Grows ==
    /\ \A k \in DOMAIN sends : k \in DOMAIN sends' /\ sends'[k] = sends[k]
    /\ \A m \in Node, x \in PackageIds : Checked(m, x) => Checked(m, x)'
    /\ \A m \in Node : forgotten[m] \subseteq forgotten'[m]

\* What arrived has arrived, and what travels travels on.
LEMMA ArrivedStays ==
  ASSUME Grows, NEW n \in Node, NEW p \in Package, Arrived(n, p)
  PROVE  Arrived(n, p)'
<1>1. p.id \in PackageIds
  BY DEF Package
<1>2. PICK k \in DOMAIN sends :
         /\ p = Received(sends[k])
         /\ AddressAcceptable(n, sends[k].destination)
         /\ Checked(n, p.id) \/ sends[k].destination = sends[k].source
  BY DEF Arrived
<1>3. /\ k \in DOMAIN sends' /\ sends'[k] = sends[k]
      /\ Checked(n, p.id) => Checked(n, p.id)'
  BY <1>1 DEF Grows
<1> QED
  BY <1>2, <1>3 DEF Arrived

LEMMA TravelsOn ==
  ASSUME Grows, NEW frame, Travels(frame)
  PROVE  Travels(frame)'
BY DEF Grows, Travels

LEMMA DeliveredType ==
  ASSUME TypeOK, NEW n \in Node
  PROVE  Delivered(n) \in Seq(Package)
<1>1. taken[n] \in Seq(Package) /\ m_incoming[n] \in Seq(Package)
  BY DEF TypeOK
<1> QED
  BY <1>1, ConcatProperties DEF Delivered

\* A step that delivers nothing at node n.
LEMMA SameDelivered ==
  ASSUME TypeOK, Grows, NEW n \in Node, Sound(n), Once(n),
         Delivered(n)' = Delivered(n)
  PROVE  Sound(n)' /\ Once(n)'
<1> DEFINE q == Delivered(n)
<1>1. q \in Seq(Package)
  BY DeliveredType
<1>2. /\ \A i \in DOMAIN q : Arrived(n, q[i])
      /\ \A i, j \in DOMAIN q : q[i].data = q[j].data => i = j \/ q[i].id \in forgotten[n]
  BY DEF Sound, Once
<1>3. \A p \in Package : Arrived(n, p) => Arrived(n, p)'
  BY ArrivedStays
<1>4. PICK r \in Seq(Package) : r = q
  BY <1>1
<1>5. Delivered(n)' = r
  BY <1>4
<1> HIDE DEF q
<1>6. \A i \in DOMAIN r : r[i] \in Package
  OBVIOUS
<1>7. \A i \in DOMAIN r : Arrived(n, r[i])'
  BY <1>2, <1>3, <1>4, <1>6
<1>8. \A i, j \in DOMAIN r : r[i].data = r[j].data => i = j \/ r[i].id \in forgotten'[n]
  BY <1>2, <1>4 DEF Grows
<1> QED
  BY <1>5, <1>7, <1>8 DEF Sound, Once

\* A step that delivers p at node n: earlier copies of p have forgotten ids.
LEMMA MoreDelivered ==
  ASSUME TypeOK, Grows, NEW n \in Node, Sound(n), Once(n), NEW p \in Package,
         Delivered(n)' = Append(Delivered(n), p), Arrived(n, p)',
         \A i \in DOMAIN Delivered(n) : Delivered(n)[i].data = p.data =>
            Delivered(n)[i].id \in forgotten'[n] /\ p.id \in forgotten'[n]
  PROVE  Sound(n)' /\ Once(n)'
<1> DEFINE q == Delivered(n)
<1>1. q \in Seq(Package)
  BY DeliveredType
<1>2. /\ \A i \in DOMAIN q : Arrived(n, q[i])
      /\ \A i, j \in DOMAIN q : q[i].data = q[j].data => i = j \/ q[i].id \in forgotten[n]
      /\ \A i \in DOMAIN q : q[i].data = p.data =>
            q[i].id \in forgotten'[n] /\ p.id \in forgotten'[n]
  BY DEF Sound, Once
<1>3. \A x \in Package : Arrived(n, x) => Arrived(n, x)'
  BY ArrivedStays
<1>4. PICK r \in Seq(Package) : r = q
  BY <1>1
<1>5. Delivered(n)' = Append(r, p)
  BY <1>4
<1> HIDE DEF q
<1>6. PICK s \in Seq(Package) : s = Append(r, p)
  BY AppendProperties
<1>7. /\ Len(r) \in Nat
      /\ DOMAIN r = 1 .. Len(r) /\ DOMAIN s = 1 .. Len(r) + 1
      /\ \A i \in DOMAIN r : r[i] \in Package /\ s[i] = r[i]
      /\ s[Len(r) + 1] = p
  BY <1>6, AppendProperties
<1>8. \A i \in DOMAIN s : Arrived(n, s[i])'
  <2> SUFFICES ASSUME NEW i \in DOMAIN s PROVE Arrived(n, s[i])'
    OBVIOUS
  <2>1. CASE i \in DOMAIN r
    BY <1>2, <1>3, <1>4, <1>7, <2>1
  <2>2. CASE i = Len(r) + 1
    BY <1>7, <2>2
  <2> QED
    BY <1>7, <2>1, <2>2
<1>9. \A i, j \in DOMAIN s : s[i].data = s[j].data => i = j \/ s[i].id \in forgotten'[n]
  <2> SUFFICES ASSUME NEW i \in DOMAIN s, NEW j \in DOMAIN s, s[i].data = s[j].data
               PROVE  i = j \/ s[i].id \in forgotten'[n]
    OBVIOUS
  <2>1. CASE i \in DOMAIN r /\ j \in DOMAIN r
    BY <1>2, <1>4, <1>7, <2>1 DEF Grows
  <2>2. CASE i \in DOMAIN r /\ j = Len(r) + 1
    BY <1>2, <1>4, <1>7, <2>2
  <2>3. CASE i = Len(r) + 1 /\ j \in DOMAIN r
    BY <1>2, <1>4, <1>7, <2>3
  <2> QED
    BY <1>7, <2>1, <2>2, <2>3
<1> QED
  BY <1>5, <1>6, <1>8, <1>9 DEF Sound, Once

\* push() to m_incoming of node n.
LEMMA PushIncomingDelivers ==
  ASSUME TypeOK, NEW n \in Node, NEW p \in Package, PushIncoming(n, p), UNCHANGED taken
  PROVE  /\ m_incoming' \in [Node -> Seq(Package)]
         /\ Delivered(n)' = Append(Delivered(n), p)
         /\ \A m \in Node \ {n} : Delivered(m)' = Delivered(m)
<1>1. /\ m_incoming \in [Node -> Seq(Package)]
      /\ taken[n] \in Seq(Package) /\ m_incoming[n] \in Seq(Package)
  BY DEF TypeOK
<1>2. /\ m_incoming' = [m_incoming EXCEPT ![n] = Append(@, p)] /\ taken' = taken
      /\ m_incoming'[n] = Append(m_incoming[n], p)
  BY <1>1 DEF PushIncoming
<1>3. taken[n] \o Append(m_incoming[n], p) = Append(taken[n] \o m_incoming[n], p)
  <2> DEFINE q == taken[n]
             r == m_incoming[n]
  <2>1. q \in Seq(Package) /\ r \in Seq(Package)
    BY <1>1
  <2> HIDE DEF q, r
  <2>2. q \o Append(r, p) = Append(q \o r, p)
    BY <2>1, ConcatAppend
  <2> QED
    BY <2>2 DEF q, r
<1>4. m_incoming' \in [Node -> Seq(Package)]
  BY <1>1, <1>2
<1>5. Delivered(n)' = Append(Delivered(n), p)
  BY <1>2, <1>3 DEF Delivered
<1>6. ASSUME NEW m \in Node \ {n} PROVE Delivered(m)' = Delivered(m)
  <2>1. m_incoming'[m] = m_incoming[m]
    BY <1>1, <1>2
  <2> QED
    BY <1>2, <2>1 DEF Delivered
<1> QED
  BY <1>4, <1>5, <1>6

-----------------------------------------------------------------------------
(* Queues of frames that travel *)

TravelFrame == {b \in Seq(Nat) : Travels(b)}

\* NetworkInv, by devices and nodes.
QueuesTravel ==
    /\ ring \in [Device -> Seq(TravelFrame)]
    /\ m_outgoing \in [Device -> Seq(TravelFrame)]

LEMMA InvParts ==
  ASSUME TypeOK
  PROVE  NetworkInv <=> Numbered /\ QueuesTravel /\ \A n \in Node : Sound(n) /\ Once(n)
<1> DEFINE Frame == Seq(Nat)
           T == TravelFrame
<1>1. \A b \in Frame : b \in T <=> Travels(b)
  BY DEF TravelFrame
<1>2. T \subseteq Frame
  BY DEF TravelFrame
<1>3. /\ ring \in [Device -> Seq(Frame)]
      /\ m_outgoing \in [Device -> Seq(Frame)]
  BY DEF TypeOK
<1>4. QueuesTravel <=> ring \in [Device -> Seq(T)] /\ m_outgoing \in [Device -> Seq(T)]
  BY DEF QueuesTravel
<1> HIDE DEF Frame, T
<1>5. \A q \in Seq(Frame) : q \in Seq(T) <=> \A i \in DOMAIN q : Travels(q[i])
  <2> TAKE q \in Seq(Frame)
  <2>1. \A i \in DOMAIN q : q[i] \in Frame
    OBVIOUS
  <2>2. ASSUME \A i \in DOMAIN q : Travels(q[i]) PROVE q \in Seq(T)
    <3>1. \A i \in DOMAIN q : q[i] \in T
      BY <1>1, <2>1, <2>2
    <3> QED
      BY <3>1, SeqOver
  <2>3. ASSUME q \in Seq(T) PROVE \A i \in DOMAIN q : Travels(q[i])
    <3>1. \A i \in DOMAIN q : q[i] \in T
      BY <2>3
    <3> QED
      BY <1>1, <1>2, <3>1
  <2> QED
    BY <2>2, <2>3
<1>6. ring \in [Device -> Seq(T)]
        <=> \A d \in Device : \A i \in DOMAIN ring[d] : Travels(ring[d][i])
  <2>1. ring \in [Device -> Seq(T)] <=> \A d \in Device : ring[d] \in Seq(T)
    BY <1>3
  <2>2. \A d \in Device : ring[d] \in Seq(Frame)
    BY <1>3
  <2> QED
    BY <1>5, <2>1, <2>2
<1>7. m_outgoing \in [Device -> Seq(T)]
        <=> \A d \in Device : \A i \in DOMAIN m_outgoing[d] : Travels(m_outgoing[d][i])
  <2>1. m_outgoing \in [Device -> Seq(T)] <=> \A d \in Device : m_outgoing[d] \in Seq(T)
    BY <1>3
  <2>2. \A d \in Device : m_outgoing[d] \in Seq(Frame)
    BY <1>3
  <2> QED
    BY <1>5, <2>1, <2>2
<1> QED
  BY <1>4, <1>6, <1>7 DEF NetworkInv, Sound, Once, DeliveredOnce

\* What travels, travels on: put into the queues of some devices.
LEMMA PushOutgoingTravels ==
  ASSUME NEW S, m_outgoing \in [Device -> Seq(S)],
         NEW ds, NEW p \in S, PushOutgoing(ds, p)
  PROVE  m_outgoing' \in [Device -> Seq(S)]
<1>1. \A d \in Device : m_outgoing[d] \in Seq(S) /\ Append(m_outgoing[d], p) \in Seq(S)
  BY AppendProperties
<1> QED
  BY <1>1 DEF PushOutgoing

LEMMA LargerQueues ==
  ASSUME NEW S, NEW T, S \subseteq T, NEW f \in [Device -> Seq(S)]
  PROVE  f \in [Device -> Seq(T)]
<1>1. ASSUME NEW d \in Device PROVE f[d] \in Seq(T)
  <2>1. f[d] \in Seq(S) /\ \A i \in DOMAIN f[d] : f[d][i] \in T
    OBVIOUS
  <2> QED
    BY <2>1, SeqOver
<1> QED
  BY <1>1

LEMMA SameSends ==
  ASSUME UNCHANGED sends
  PROVE  TravelFrame' = TravelFrame
  BY DEF Travels, TravelFrame

LEMMA NothingNew ==
  ASSUME UNCHANGED <<sends, seen, forgotten>>
  PROVE  Grows
BY DEF Grows, Checked, Holds

LEMMA DeliveredStays ==
  ASSUME NetworkInv, Grows, UNCHANGED <<m_incoming, taken>>
  PROVE  \A m \in Node : Sound(m)' /\ Once(m)'
<1>1. TypeOK /\ \A m \in Node : Sound(m) /\ Once(m)
  BY InvParts DEF NetworkInv
<1>2. \A m \in Node : Delivered(m)' = Delivered(m)
  BY DEF Delivered
<1> QED
  BY <1>1, <1>2, SameDelivered

LEMMA DeliveredGrows ==
  ASSUME NetworkInv, Grows, NEW n \in Node, NEW p \in Package,
         PushIncoming(n, p), UNCHANGED taken, Arrived(n, p)',
         \A i \in DOMAIN Delivered(n) : Delivered(n)[i].data = p.data =>
            Delivered(n)[i].id \in forgotten'[n] /\ p.id \in forgotten'[n]
  PROVE  /\ m_incoming' \in [Node -> Seq(Package)]
         /\ \A m \in Node : Sound(m)' /\ Once(m)'
<1>1. TypeOK /\ \A m \in Node : Sound(m) /\ Once(m)
  BY InvParts DEF NetworkInv
<1>2. /\ m_incoming' \in [Node -> Seq(Package)]
      /\ Delivered(n)' = Append(Delivered(n), p)
      /\ \A m \in Node \ {n} : Delivered(m)' = Delivered(m)
  BY <1>1, PushIncomingDelivers
<1>3. Sound(n)' /\ Once(n)'
  BY <1>1, <1>2, MoreDelivered
<1>4. \A m \in Node \ {n} : Sound(m)' /\ Once(m)'
  BY <1>1, <1>2, SameDelivered
<1> QED
  BY <1>2, <1>3, <1>4

\* The invariant after a step, from its parts.
LEMMA InvAgain ==
  ASSUME TypeOK', Numbered', QueuesTravel', \A m \in Node : Sound(m)' /\ Once(m)'
  PROVE  NetworkInv'
<1>1. (\A n \in Node : Sound(n) /\ Once(n))'
  BY DEF Node
<1>2. (TypeOK => (NetworkInv <=>
          Numbered /\ QueuesTravel /\ \A n \in Node : Sound(n) /\ Once(n)))'
  BY InvParts, PTL
<1> QED
  BY <1>1, <1>2

LEMMA SameNumbers ==
  ASSUME Numbered, UNCHANGED sends
  PROVE  Numbered'
BY DEF Numbered

LEMMA DeviceNode == \A d \in Device : d[1] \in Node
BY DEF Node

\* Queues of frames that travel are queues of frames.
LEMMA QueuesType ==
  ASSUME QueuesTravel
  PROVE  ring \in [Device -> Seq(Seq(Nat))] /\ m_outgoing \in [Device -> Seq(Seq(Nat))]
<1>1. TravelFrame \subseteq Seq(Nat)
  BY DEF TravelFrame
<1> DEFINE T == TravelFrame
           S == Seq(Nat)
<1>2. T \subseteq S /\ ring \in [Device -> Seq(T)] /\ m_outgoing \in [Device -> Seq(T)]
  BY <1>1 DEF QueuesTravel
<1> HIDE DEF T, S
<1>3. ring \in [Device -> Seq(S)] /\ m_outgoing \in [Device -> Seq(S)]
  BY <1>2, LargerQueues
<1> QED
  BY <1>3 DEF S

-----------------------------------------------------------------------------
(* Frames *)

LEMMA AddressesCarried == Node \subseteq Carried /\ Address \subseteq Carried
<1>1. Address \subseteq Nat
  <2>1. Node \subseteq Nat
    BY NetworkAssumption DEF Node
  <2>2. \A s \in Sends : s[2] \in Nat
    BY NetworkAssumption
  <2>3. Everyone \in Nat
    BY HeaderAssumption DEF Everyone
  <2> QED
    BY <2>1, <2>2, <2>3 DEF Address
<1>2. (Base \div 2) * Base * Base * Base \in Nat
  <2>1. Base \in Nat /\ Base \div 2 \in Nat
    BY HeaderAssumption
  <2>2. (Base \div 2) * Base \in Nat
    BY <2>1
  <2>3. (Base \div 2) * Base * Base \in Nat
    BY <2>1, <2>2
  <2> QED
    BY <2>1, <2>3
<1>3. Address \subseteq Carried
  <2> SUFFICES ASSUME NEW a \in Address PROVE a \in Carried
    OBVIOUS
  <2>1. PICK c \in Nat : c = (Base \div 2) * Base * Base * Base
    BY <1>2
  <2>2. a < c /\ a \in Nat
    BY <1>1, <2>1, CarriedAssumption
  <2>3. a \in 0 .. c - 1
    BY <2>2
  <2> QED
    BY <2>1, <2>3 DEF Carried
<1> QED
  BY <1>3 DEF Address

\* The frame of a package with h hops left.
FrameOf(s, h) == Encode([s EXCEPT !.hop_limit = h], s.data)

\* It is decoded to that package.
LEMMA FrameCarries ==
  ASSUME NEW s \in Sent, NEW h \in 0 .. HopEscape - 1
  PROVE  /\ FrameOf(s, h) \in Seq(Nat)
         /\ Decodes(FrameOf(s, h))
         /\ Decode(FrameOf(s, h)) = [s EXCEPT !.hop_limit = h]
<1>1. PICK header : header = [s EXCEPT !.hop_limit = h]
  OBVIOUS
<1>2. /\ header.hop_limit = h /\ header.id = s.id
      /\ header.source = s.source /\ header.destination = s.destination
      /\ s.id \in PackageIds /\ s.source \in Node /\ s.destination \in Address
      /\ s.data \in Seq(Nat)
      /\ header = [hop_limit |-> h, id |-> s.id, source |-> s.source,
                   destination |-> s.destination, data |-> s.data]
  BY <1>1 DEF Sent, Data
<1>3. s.id \in 0 .. Base * Base - 1
  <2>1. PICK c \in Nat : c = Base * Base
    BY HeaderAssumption
  <2>2. s.id \in 1 .. c - 1
    BY <1>2, <2>1, NetworkAssumption
  <2>3. s.id \in 0 .. c - 1
    BY <2>2
  <2> QED
    BY <2>1, <2>3
<1>4. s.source \in Carried /\ s.destination \in Carried
  BY <1>2, AddressesCarried
<1>5. PICK data \in Seq(Nat) : data = s.data
  BY <1>2
<1>6. /\ Encode(header, data) \in Seq(Nat)
      /\ Decodes(Encode(header, data))
      /\ Decode(Encode(header, data)) =
           [hop_limit |-> header.hop_limit, id |-> header.id, source |-> header.source,
            destination |-> header.destination, data |-> data]
  <2>1. header.hop_limit \in 0 .. HopEscape - 1
    BY <1>2
  <2>2. header.id \in 0 .. Base * Base - 1
    BY <1>2, <1>3
  <2>3. header.source \in Carried /\ header.destination \in Carried
    BY <1>2, <1>4
  <2> QED
    BY <2>1, <2>2, <2>3, DecodeInvertsEncode
<1>7. FrameOf(s, h) = Encode(header, data)
  BY <1>1, <1>5 DEF FrameOf
<1> QED
  BY <1>1, <1>2, <1>5, <1>6, <1>7

\* What a frame that travels is decoded to.
LEMMA TravelDecodes ==
  ASSUME TypeOK, Numbered, NEW frame, Travels(frame)
  PROVE  /\ Decodes(frame)
         /\ \E k \in DOMAIN sends, h \in 0 .. HopEscape - 1 :
               /\ h <= sends[k].hop_limit
               /\ frame = FrameOf(sends[k], h)
               /\ Decode(frame) = [sends[k] EXCEPT !.hop_limit = h]
               /\ sends[k].destination # sends[k].source
<1>1. PICK k \in DOMAIN sends :
         /\ Decode(frame).hop_limit \in 0 .. sends[k].hop_limit
         /\ frame = FrameOf(sends[k], Decode(frame).hop_limit)
         /\ sends[k].destination # sends[k].source
  BY DEF Travels, FrameOf
<1>2. PICK h : h = Decode(frame).hop_limit
  OBVIOUS
<1>3. sends[k] \in Sent /\ sends[k].hop_limit \in Nat /\ sends[k].hop_limit < HopEscape
  <2>1. sends[k] \in Sent
    BY DEF TypeOK
  <2> QED
    BY <2>1 DEF Sent, Numbered
<1>4. h \in 0 .. HopEscape - 1 /\ h <= sends[k].hop_limit
  <2>1. PICK m \in Nat : m = sends[k].hop_limit
    BY <1>3
  <2>2. h \in 0 .. m /\ m < HopEscape
    BY <1>1, <1>2, <1>3, <2>1
  <2> QED
    BY <2>1, <2>2, HeaderAssumption
<1>5. Decodes(frame) /\ Decode(frame) = [sends[k] EXCEPT !.hop_limit = h]
  BY <1>1, <1>2, <1>3, <1>4, FrameCarries
<1> QED
  BY <1>1, <1>2, <1>4, <1>5

\* The frame of a package that was sent, with no more hops left, travels.
LEMMA FrameTravels ==
  ASSUME TypeOK, Numbered, NEW k \in DOMAIN sends, NEW h \in Nat, h <= sends[k].hop_limit,
         sends[k].destination # sends[k].source
  PROVE  FrameOf(sends[k], h) \in TravelFrame
<1>1. sends[k] \in Sent /\ sends[k].hop_limit \in Nat /\ sends[k].hop_limit < HopEscape
  <2>1. sends[k] \in Sent
    BY DEF TypeOK
  <2> QED
    BY <2>1 DEF Sent, Numbered
<1>2. h \in 0 .. HopEscape - 1 /\ h \in 0 .. sends[k].hop_limit
  <2>1. PICK m \in Nat : m = sends[k].hop_limit
    BY <1>1
  <2> QED
    BY <1>1, <2>1, HeaderAssumption
<1>3. PICK frame \in Seq(Nat) :
         frame = FrameOf(sends[k], h) /\ Decode(frame) = [sends[k] EXCEPT !.hop_limit = h]
  BY <1>1, <1>2, FrameCarries
<1>4. Decode(frame).hop_limit = h
  BY <1>1, <1>3 DEF Sent
<1>5. Travels(frame)
  BY <1>2, <1>3, <1>4 DEF Travels, FrameOf
<1> QED
  BY <1>3, <1>5 DEF TravelFrame

-----------------------------------------------------------------------------
(* The steps *)

LEMMA InitInv == Init => NetworkInv
<1> SUFFICES ASSUME Init PROVE NetworkInv
  OBVIOUS
<1>1. TypeOK
  <2>1. <<>> \in Seq(Package) /\ <<>> \in Seq(PackageIds) /\ Len(<<>>) = 0
    OBVIOUS
  <2>2. SeenMax \in Nat
    BY NetworkAssumption
  <2>3. /\ m_incoming \in [Node -> Seq(Package)] /\ taken \in [Node -> Seq(Package)]
        /\ m_outgoing \in [Device -> Seq(Seq(Nat))] /\ ring \in [Device -> Seq(Seq(Nat))]
        /\ sends \in Seq(Sent)
    BY DEF Init
  <2>4. /\ seen \in [Node -> Seq(PackageIds)]
        /\ forgotten \in [Node -> SUBSET PackageIds] /\ lost \in BOOLEAN
    BY <2>1 DEF Init
  <2>5. \A n \in Node : Len(seen[n]) <= SeenMax
    <3> TAKE n \in Node
    <3>1. seen[n] = <<>>
      BY DEF Init
    <3> QED
      BY <2>1, <2>2, <3>1, NetworkAssumption
  <2> QED
    BY <2>3, <2>4, <2>5 DEF TypeOK
<1>2. QueuesTravel
  BY DEF Init, QueuesTravel
<1>3. ASSUME NEW n \in Node PROVE Sound(n) /\ Once(n)
  <2>1. Delivered(n) = <<>>
    <3>1. taken[n] = <<>> /\ m_incoming[n] = <<>>
      BY <1>3 DEF Init
    <3> QED
      BY <3>1, ConcatEmptySeq, EmptySeq DEF Delivered
  <2> QED
    BY <2>1 DEF Sound, Once
<1>4. Numbered
  BY DEF Init, Numbered
<1> QED
  BY <1>1, <1>2, <1>3, <1>4, InvParts

\* What an application takes, it has been given before.
LEMMA IncomingDeliversNothing ==
  ASSUME NetworkInv, NEW n \in Node, Incoming(n)
  PROVE  \A m \in Node : Delivered(m)' = Delivered(m)
<1>1. TypeOK
  BY DEF NetworkInv
<1>2. /\ m_incoming \in [Node -> Seq(Package)] /\ taken \in [Node -> Seq(Package)]
      /\ m_incoming[n] \in Seq(Package) /\ taken[n] \in Seq(Package)
      /\ m_incoming[n] # <<>>
  BY <1>1 DEF TypeOK, Incoming
<1>3. Head(m_incoming[n]) \in Package /\ Tail(m_incoming[n]) \in Seq(Package)
  BY <1>2, HeadTailProperties
<1>4. Append(taken[n], Head(m_incoming[n])) \in Seq(Package)
  BY <1>2, <1>3, AppendProperties
<1>5. /\ taken'[n] = Append(taken[n], Head(m_incoming[n]))
      /\ m_incoming'[n] = Tail(m_incoming[n])
      /\ \A m \in Node \ {n} : taken'[m] = taken[m] /\ m_incoming'[m] = m_incoming[m]
      /\ taken' \in [Node -> Seq(Package)] /\ m_incoming' \in [Node -> Seq(Package)]
  BY <1>2, <1>3, <1>4 DEF Incoming
<1>6. Delivered(n)' = Delivered(n)
  <2> DEFINE q == taken[n]
             r == m_incoming[n]
  <2>1. q \in Seq(Package) /\ r \in Seq(Package) /\ r # <<>>
    BY <1>2
  <2>2. Delivered(n)' = Append(q, Head(r)) \o Tail(r) /\ Delivered(n) = q \o r
    BY <1>5 DEF Delivered
  <2> HIDE DEF q, r
  <2>3. Append(q, Head(r)) \o Tail(r) = q \o r
    BY <2>1, MoveHead
  <2> QED
    BY <2>2, <2>3
<1>7. \A m \in Node \ {n} : Delivered(m)' = Delivered(m)
  BY <1>5 DEF Delivered
<1> QED
  BY <1>6, <1>7

LEMMA IncomingKeeps ==
  ASSUME NetworkInv, NEW n \in Node, Incoming(n)
  PROVE  NetworkInv'
<1>1. TypeOK /\ Numbered /\ QueuesTravel /\ \A m \in Node : Sound(m) /\ Once(m)
  BY InvParts DEF NetworkInv
<1>2. \A m \in Node : Delivered(m)' = Delivered(m)
  BY IncomingDeliversNothing
<1>3. Grows /\ TravelFrame' = TravelFrame
  BY NothingNew, SameSends DEF Incoming
<1>4. \A m \in Node : Sound(m)' /\ Once(m)'
  BY <1>1, <1>2, <1>3, SameDelivered
<1>5. TypeOK'
  <2>1. /\ m_incoming \in [Node -> Seq(Package)] /\ taken \in [Node -> Seq(Package)]
        /\ m_incoming[n] \in Seq(Package) /\ taken[n] \in Seq(Package)
        /\ m_incoming[n] # <<>>
    BY <1>1 DEF TypeOK, Incoming
  <2>2. Head(m_incoming[n]) \in Package /\ Tail(m_incoming[n]) \in Seq(Package)
    BY <2>1, HeadTailProperties
  <2>3. Append(taken[n], Head(m_incoming[n])) \in Seq(Package)
    BY <2>1, <2>2, AppendProperties
  <2>4. taken' \in [Node -> Seq(Package)] /\ m_incoming' \in [Node -> Seq(Package)]
    BY <2>1, <2>2, <2>3 DEF Incoming
  <2> QED
    BY <1>1, <2>4 DEF TypeOK, Incoming
<1>6. QueuesTravel'
  BY <1>1, <1>3 DEF QueuesTravel, Incoming
<1>7. Numbered'
  BY <1>1, SameNumbers DEF Incoming
<1> QED
  BY <1>4, <1>5, <1>6, <1>7, InvAgain

LEMMA ServeOutgoingKeeps ==
  ASSUME NetworkInv, NEW d \in Device, NEW deaf \in SUBSET Hearers(d), ServeOutgoing(d, deaf)
  PROVE  NetworkInv'
<1>1. TypeOK /\ Numbered /\ QueuesTravel
  BY InvParts DEF NetworkInv
<1> DEFINE T == TravelFrame
<1>2. ring \in [Device -> Seq(T)] /\ m_outgoing \in [Device -> Seq(T)]
  BY <1>1 DEF QueuesTravel
<1>3. PICK p : p = Head(m_outgoing[d])
  OBVIOUS
<1>4. PICK got : ring' = [e \in Device |-> IF e \in got THEN Append(ring[e], p) ELSE ring[e]]
  BY <1>3 DEF ServeOutgoing
<1>5. m_outgoing' = [m_outgoing EXCEPT ![d] = Tail(@)] /\ m_outgoing[d] # <<>>
  BY DEF ServeOutgoing
<1>6. T' = T /\ Grows
  BY NothingNew, SameSends DEF ServeOutgoing
<1> HIDE DEF T
<1>7. p \in T /\ Tail(m_outgoing[d]) \in Seq(T)
  BY <1>2, <1>3, <1>5, HeadTailProperties
<1>8. \A e \in Device : Append(ring[e], p) \in Seq(T)
  BY <1>2, <1>7, AppendProperties
<1>9. ring' \in [Device -> Seq(T)] /\ m_outgoing' \in [Device -> Seq(T)]
  BY <1>2, <1>4, <1>5, <1>7, <1>8
<1>10. QueuesTravel'
  BY <1>6, <1>9 DEF QueuesTravel, T
<1>11. TypeOK'
  <2>1. (QueuesTravel =>
           ring \in [Device -> Seq(Seq(Nat))] /\ m_outgoing \in [Device -> Seq(Seq(Nat))])'
    BY QueuesType, PTL
  <2>2. lost' \in BOOLEAN
    BY <1>1 DEF ServeOutgoing, TypeOK
  <2> QED
    BY <1>1, <1>10, <2>1, <2>2 DEF TypeOK, ServeOutgoing
<1>12. \A m \in Node : Sound(m)' /\ Once(m)'
  BY <1>6, DeliveredStays DEF ServeOutgoing
<1>13. Numbered'
  BY <1>1, SameNumbers DEF ServeOutgoing
<1> QED
  BY <1>10, <1>11, <1>12, <1>13, InvAgain

LEMMA ReceivedType ==
  ASSUME NEW p \in Sent
  PROVE  /\ Received(p) \in Package
         /\ Received(p).id = p.id /\ Received(p).data = p.data
         /\ p.id \in PackageIds
BY DEF Sent, Package, Received

\* A node that takes a package of a frame has no copy of it, unless it forgot its id.
LEMMA NoCopyYet ==
  ASSUME TypeOK, Numbered, NEW n \in Node, Sound(n),
         NEW k \in DOMAIN sends, sends[k].destination # sends[k].source,
         ~ Holds(seen[n], sends[k].id),
         NEW i \in DOMAIN Delivered(n), Delivered(n)[i].data = sends[k].data
  PROVE  Delivered(n)[i].id = sends[k].id /\ sends[k].id \in forgotten[n]
<1>1. PICK x : x = Delivered(n)[i]
  OBVIOUS
<1>2. Arrived(n, x) /\ x.data = sends[k].data
  BY <1>1 DEF Sound
<1>3. PICK j \in DOMAIN sends :
         /\ x = Received(sends[j])
         /\ Checked(n, x.id) \/ sends[j].destination = sends[j].source
  BY <1>2 DEF Arrived
<1>4. x.data = sends[j].data /\ x.id = sends[j].id
  BY <1>3 DEF Received
<1>5. <<j>> = <<k>>
  BY <1>2, <1>4 DEF Numbered
<1>6. j = k
  BY <1>5
<1>7. Checked(n, sends[k].id)
  BY <1>3, <1>4, <1>6
<1> QED
  BY <1>1, <1>4, <1>6, <1>7 DEF Checked

\* What a step with a frame does: k-th package sent, h hops left.
LEMMA FrameServed ==
  ASSUME NetworkInv, NEW d \in Device, ServeIncoming(d)
  PROVE  \E k \in DOMAIN sends, h \in 0 .. HopEscape - 1 :
            /\ h <= sends[k].hop_limit
            /\ Head(ring[d]) = FrameOf(sends[k], h)
            /\ sends[k].destination # sends[k].source
            /\ Check(d[1], sends[k].id)
            /\ \/ /\ Holds(seen[d[1]], sends[k].id)
                  /\ UNCHANGED <<m_incoming, m_outgoing>>
               \/ /\ ~ Holds(seen[d[1]], sends[k].id)
                  /\ AddressAcceptable(d[1], sends[k].destination)
                  /\ PushIncoming(d[1], Received(sends[k]))
                  /\ UNCHANGED m_outgoing
               \/ /\ ~ AddressAcceptable(d[1], sends[k].destination)
                  /\ h = 0
                  /\ UNCHANGED <<m_incoming, m_outgoing>>
               \/ /\ ~ AddressAcceptable(d[1], sends[k].destination)
                  /\ h > 0
                  /\ PushOutgoing(ForwardTo(d), FrameOf(sends[k], h - 1))
                  /\ UNCHANGED m_incoming
<1>1. TypeOK /\ Numbered /\ QueuesTravel
  BY InvParts DEF NetworkInv
<1>2. PICK frame : frame = Head(ring[d])
  OBVIOUS
<1>3. frame \in TravelFrame
  <2> DEFINE T == TravelFrame
  <2>1. ring[d] \in Seq(T) /\ ring[d] # <<>>
    BY <1>1 DEF QueuesTravel, ServeIncoming
  <2> HIDE DEF T
  <2>2. frame \in T
    BY <1>2, <2>1, HeadTailProperties
  <2> QED
    BY <2>2 DEF T
<1>4. Travels(frame)
  BY <1>3 DEF TravelFrame
<1>5. Decodes(frame)
  BY <1>1, <1>4, TravelDecodes
<1>6. PICK k \in DOMAIN sends, h \in 0 .. HopEscape - 1 :
         /\ h <= sends[k].hop_limit
         /\ frame = FrameOf(sends[k], h)
         /\ Decode(frame) = [sends[k] EXCEPT !.hop_limit = h]
         /\ sends[k].destination # sends[k].source
  BY <1>1, <1>4, TravelDecodes
<1>7. PICK p : p = Decode(frame)
  OBVIOUS
<1>8. Handle(d, p)
  BY <1>2, <1>5, <1>7, Zenon DEF ServeIncoming
<1>9. PICK s : s = sends[k]
  OBVIOUS
<1>10. s \in Sent
  BY <1>1, <1>9 DEF TypeOK
<1>11. p = [s EXCEPT !.hop_limit = h]
  BY <1>6, <1>7, <1>9
<1>12. /\ p.id = s.id /\ p.source = s.source /\ p.destination = s.destination
       /\ p.data = s.data /\ p.hop_limit = h
  BY <1>10, <1>11 DEF Sent
<1>13. Received(p) = Received(s)
  BY <1>12 DEF Received
<1>14. [p EXCEPT !.hop_limit = @ - 1] = [s EXCEPT !.hop_limit = h - 1]
  BY <1>10, <1>11, <1>12 DEF Sent
<1>15. Check(d[1], s.id)
  BY <1>8, <1>12 DEF Handle
<1>16. \/ /\ Holds(seen[d[1]], s.id)
          /\ UNCHANGED <<m_incoming, m_outgoing>>
       \/ /\ ~ Holds(seen[d[1]], s.id)
          /\ AddressAcceptable(d[1], s.destination)
          /\ PushIncoming(d[1], Received(s))
          /\ UNCHANGED m_outgoing
       \/ /\ ~ AddressAcceptable(d[1], s.destination)
          /\ h = 0
          /\ UNCHANGED <<m_incoming, m_outgoing>>
       \/ /\ ~ AddressAcceptable(d[1], s.destination)
          /\ h > 0
          /\ PushOutgoing(ForwardTo(d), FrameOf(s, h - 1))
          /\ UNCHANGED m_incoming
  <2>1. CASE Holds(seen[d[1]], s.id)
    BY <1>8, <1>12, <2>1, Zenon DEF Handle
  <2>2. CASE ~ Holds(seen[d[1]], s.id) /\ AddressAcceptable(d[1], s.destination)
    <3>1. PushIncoming(d[1], Received(s)) /\ UNCHANGED m_outgoing
      BY <1>8, <1>12, <1>13, <2>2, Zenon DEF Handle
    <3> QED
      BY <2>2, <3>1, Zenon
  <2>3. CASE ~ Holds(seen[d[1]], s.id) /\ ~ AddressAcceptable(d[1], s.destination)
    <3>1. Retransmit(d, p) /\ UNCHANGED m_incoming
      BY <1>8, <1>12, <2>3, Zenon DEF Handle
    <3>2. CASE h = 0
      <4>1. UNCHANGED m_outgoing
        BY <1>12, <3>1, <3>2, Zenon DEF Retransmit
      <4> QED
        BY <2>3, <3>1, <3>2, <4>1, Zenon
    <3>3. CASE h # 0
      <4>1. h > 0
        BY <3>3, HeaderAssumption
      <4>2. PushOutgoing(ForwardTo(d), Encode([p EXCEPT !.hop_limit = @ - 1], p.data))
        BY <1>12, <3>1, <3>3, Zenon DEF Retransmit
      <4>3. Encode([p EXCEPT !.hop_limit = @ - 1], p.data) = FrameOf(s, h - 1)
        BY <1>12, <1>14, Zenon DEF FrameOf
      <4> QED
        BY <2>3, <3>1, <4>1, <4>2, <4>3, Zenon
    <3> QED
      BY <3>2, <3>3
  <2> QED
    BY <2>1, <2>2, <2>3
<1> QED
  BY <1>2, <1>6, <1>9, <1>15, <1>16, Zenon

LEMMA ServeIncomingKeeps ==
  ASSUME NetworkInv, NEW d \in Device, ServeIncoming(d)
  PROVE  NetworkInv'
<1>1. TypeOK /\ Numbered /\ QueuesTravel /\ \A m \in Node : Sound(m) /\ Once(m)
  BY InvParts DEF NetworkInv
<1> DEFINE T == TravelFrame
           n == d[1]
<1>2. /\ ring \in [Device -> Seq(T)] /\ m_outgoing \in [Device -> Seq(T)]
      /\ n \in Node /\ ring[d] # <<>>
  BY <1>1, DeviceNode DEF QueuesTravel, ServeIncoming
<1>3. PICK k \in DOMAIN sends, h \in 0 .. HopEscape - 1 :
         /\ h <= sends[k].hop_limit
         /\ sends[k].destination # sends[k].source
         /\ Check(n, sends[k].id)
         /\ \/ UNCHANGED <<m_incoming, m_outgoing>>
            \/ /\ ~ Holds(seen[n], sends[k].id)
               /\ AddressAcceptable(n, sends[k].destination)
               /\ PushIncoming(n, Received(sends[k]))
               /\ UNCHANGED m_outgoing
            \/ /\ h > 0
               /\ PushOutgoing(ForwardTo(d), FrameOf(sends[k], h - 1))
               /\ UNCHANGED m_incoming
  BY FrameServed
<1>4. ring' = [ring EXCEPT ![d] = Tail(@)] /\ UNCHANGED <<taken, sends, lost>>
  BY DEF ServeIncoming
<1>5. T' = T
  BY <1>4, SameSends
<1> HIDE DEF T, n
<1>6. Tail(ring[d]) \in Seq(T)
  BY <1>2, HeadTailProperties
<1>7. PICK p \in Package : /\ p = Received(sends[k])
                           /\ p.id = sends[k].id /\ p.data = sends[k].data
                           /\ p.id \in PackageIds
  <2>1. sends[k] \in Sent
    BY <1>1 DEF TypeOK
  <2> QED
    BY <2>1, ReceivedType
<1>8. /\ seen' \in [Node -> Seq(PackageIds)]
      /\ \A m \in Node : Len(seen'[m]) <= SeenMax
      /\ forgotten' \in [Node -> SUBSET PackageIds]
      /\ \A m \in Node : forgotten[m] \subseteq forgotten'[m]
      /\ Checked(n, p.id)'
      /\ \A m \in Node, x \in PackageIds : Checked(m, x) => Checked(m, x)'
  <2>1. Check(n, p.id)
    BY <1>3, <1>7
  <2> QED
    BY <1>1, <1>2, <1>7, <2>1, CheckKeeps
<1>9. Grows
  BY <1>4, <1>8 DEF Grows
<1>10. /\ m_incoming' \in [Node -> Seq(Package)]
       /\ \A m \in Node : Sound(m)' /\ Once(m)'
  <2>1. CASE UNCHANGED m_incoming
    BY <1>1, <1>4, <1>9, <2>1, DeliveredStays DEF TypeOK
  <2>2. CASE /\ ~ Holds(seen[n], sends[k].id)
             /\ AddressAcceptable(n, sends[k].destination)
             /\ PushIncoming(n, p)
    <3>1. Arrived(n, p)'
      BY <1>4, <1>7, <1>8, <2>2 DEF Arrived
    <3>2. ASSUME NEW i \in DOMAIN Delivered(n), Delivered(n)[i].data = p.data
          PROVE  Delivered(n)[i].id \in forgotten'[n] /\ p.id \in forgotten'[n]
      <4>1. Delivered(n)[i].id = sends[k].id /\ sends[k].id \in forgotten[n]
        BY <1>1, <1>2, <1>3, <1>7, <2>2, <3>2, NoCopyYet
      <4> QED
        BY <1>2, <1>7, <1>8, <4>1
    <3> QED
      BY <1>2, <1>4, <1>7, <1>9, <2>2, <3>1, <3>2, DeliveredGrows
  <2> QED
    BY <1>3, <1>7, <2>1, <2>2
<1>11. m_outgoing' \in [Device -> Seq(T)]
  <2>1. CASE UNCHANGED m_outgoing
    BY <1>2, <2>1
  <2>2. CASE h > 0 /\ PushOutgoing(ForwardTo(d), FrameOf(sends[k], h - 1))
    <3>1. PICK g \in Nat : g = h - 1 /\ g <= sends[k].hop_limit
      <4>0. sends[k] \in Sent
        BY <1>1 DEF TypeOK
      <4>1. sends[k].hop_limit \in Nat
        BY <4>0 DEF Sent
      <4>2. h - 1 \in Nat /\ h - 1 <= sends[k].hop_limit
        BY <1>3, <2>2, <4>1, HeaderAssumption
      <4> QED
        BY <4>2
    <3>2. FrameOf(sends[k], g) \in T
      BY <1>1, <1>3, <3>1, FrameTravels DEF T
    <3> QED
      BY <1>2, <2>2, <3>1, <3>2, PushOutgoingTravels
  <2> QED
    BY <1>3, <2>1, <2>2
<1>12. QueuesTravel'
  <2>1. ring' \in [Device -> Seq(T)]
    BY <1>2, <1>4, <1>6
  <2> QED
    BY <1>5, <1>11, <2>1 DEF QueuesTravel, T
<1>13. TypeOK'
  <2>1. (QueuesTravel =>
           ring \in [Device -> Seq(Seq(Nat))] /\ m_outgoing \in [Device -> Seq(Seq(Nat))])'
    BY QueuesType, PTL
  <2> QED
    BY <1>1, <1>4, <1>8, <1>10, <1>12, <2>1 DEF TypeOK
<1>14. Numbered'
  BY <1>1, <1>4, SameNumbers
<1> QED
  BY <1>10, <1>12, <1>13, <1>14, InvAgain

\* What send() does.
LEMMA SendServed ==
  ASSUME TypeOK, NEW s \in Sends, NEW id \in PackageIds, Send(s, id)
  PROVE  \E p \in Sent :
            /\ p = Submitted(s, id, Len(sends) + 1)
            /\ p.id = id /\ p.data = <<Len(sends) + 1>> /\ p.hop_limit < HopEscape
            /\ sends' = Append(sends, p)
            /\ IF AddressAcceptable(p.source, p.destination)
               THEN PushIncoming(p.source, Received(p)) ELSE UNCHANGED m_incoming
            /\ IF p.destination = p.source
               THEN UNCHANGED <<m_outgoing, seen, forgotten>>
               ELSE /\ Check(p.source, id)
                    /\ PushOutgoing(DevicesOf(p.source), FrameOf(p, p.hop_limit))
            /\ UNCHANGED <<ring, taken, lost>>
<1>1. PICK p : p = Submitted(s, id, Len(sends) + 1)
  OBVIOUS
<1>2. s[1] \in Node /\ s[2] \in Address /\ s[3] \in Nat /\ s[3] < HopEscape
  BY NetworkAssumption, CarriedAssumption DEF Address
<1>3. PICK k \in Nat : k = Len(sends) + 1
  BY DEF TypeOK
<1>4. /\ p = [source |-> s[1], destination |-> s[2], id |-> id, hop_limit |-> s[3],
              data |-> <<k>>]
      /\ <<k>> \in Data
  BY <1>1, <1>3 DEF Submitted, Data
<1>5. /\ p \in Sent
      /\ p.id = id /\ p.data = <<k>> /\ p.hop_limit < HopEscape
  BY <1>2, <1>4 DEF Sent
<1>6. [p EXCEPT !.hop_limit = p.hop_limit] = p
  BY <1>5 DEF Sent
<1>7. FrameOf(p, p.hop_limit) = Encode(p, p.data)
  BY <1>6, Zenon DEF FrameOf
<1>8. /\ sends' = Append(sends, p)
      /\ IF AddressAcceptable(p.source, p.destination)
         THEN PushIncoming(p.source, Received(p)) ELSE UNCHANGED m_incoming
      /\ IF p.destination = p.source
         THEN UNCHANGED <<m_outgoing, seen, forgotten>>
         ELSE /\ Check(p.source, id)
              /\ PushOutgoing(DevicesOf(p.source), Encode(p, p.data))
      /\ UNCHANGED <<ring, taken, lost>>
  BY <1>1, Zenon DEF Send
<1> QED
  BY <1>1, <1>3, <1>5, <1>7, <1>8, Zenon

\* A package that is sent is new: no node has its data.
LEMMA SendKeeps ==
  ASSUME NetworkInv, NEW s \in Sends, NEW id \in PackageIds, Send(s, id)
  PROVE  NetworkInv'
<1>1. TypeOK /\ Numbered /\ QueuesTravel /\ \A m \in Node : Sound(m) /\ Once(m)
  BY InvParts DEF NetworkInv
<1>2. PICK p \in Sent :
         /\ p.id = id /\ p.data = <<Len(sends) + 1>> /\ p.hop_limit < HopEscape
         /\ sends' = Append(sends, p)
         /\ IF AddressAcceptable(p.source, p.destination)
            THEN PushIncoming(p.source, Received(p)) ELSE UNCHANGED m_incoming
         /\ IF p.destination = p.source
            THEN UNCHANGED <<m_outgoing, seen, forgotten>>
            ELSE /\ Check(p.source, id)
                 /\ PushOutgoing(DevicesOf(p.source), FrameOf(p, p.hop_limit))
         /\ UNCHANGED <<ring, taken, lost>>
  BY <1>1, SendServed
<1>3. PICK n \in Node : n = p.source
  BY DEF Sent
<1>4. PICK r \in Package : r = Received(p) /\ r.data = p.data /\ r.id = p.id
  BY ReceivedType, Zenon
<1>5. sends \in Seq(Sent) /\ Len(sends) \in Nat /\ DOMAIN sends = 1 .. Len(sends)
  BY <1>1 DEF TypeOK
<1>6. /\ sends' \in Seq(Sent)
      /\ DOMAIN sends' = 1 .. Len(sends) + 1
      /\ \A k \in DOMAIN sends : sends'[k] = sends[k]
      /\ sends'[Len(sends) + 1] = p
  BY <1>2, <1>5, AppendProperties
<1>7. Numbered'
  BY <1>1, <1>2, <1>5, <1>6 DEF Numbered
<1>8. /\ seen' \in [Node -> Seq(PackageIds)]
      /\ \A m \in Node : Len(seen'[m]) <= SeenMax
      /\ forgotten' \in [Node -> SUBSET PackageIds]
      /\ \A m \in Node : forgotten[m] \subseteq forgotten'[m]
      /\ p.destination # n => Checked(n, id)'
      /\ \A m \in Node, x \in PackageIds : Checked(m, x) => Checked(m, x)'
  <2>1. CASE p.destination = n
    BY <1>1, <1>2, <1>3, <2>1 DEF TypeOK, Checked, Holds
  <2>2. CASE p.destination # n
    BY <1>1, <1>2, <1>3, <2>2, CheckKeeps
  <2> QED
    BY <2>1, <2>2
<1>9. Grows
  BY <1>5, <1>6, <1>8 DEF Grows
<1>10. /\ m_incoming' \in [Node -> Seq(Package)]
       /\ \A m \in Node : Sound(m)' /\ Once(m)'
  <2>1. CASE UNCHANGED m_incoming
    BY <1>1, <1>2, <1>9, <2>1, DeliveredStays DEF TypeOK
  <2>2. CASE AddressAcceptable(n, p.destination) /\ PushIncoming(n, r)
    <3>1. Arrived(n, r)'
      <4>1. Len(sends) + 1 \in DOMAIN sends'
        BY <1>5, <1>6
      <4> QED
        BY <1>2, <1>3, <1>4, <1>6, <1>8, <2>2, <4>1 DEF Arrived
    <3>2. \A i \in DOMAIN Delivered(n) : Delivered(n)[i].data # r.data
      <4> TAKE i \in DOMAIN Delivered(n)
      <4>1. PICK x : x = Delivered(n)[i]
        OBVIOUS
      <4>2. PICK k \in DOMAIN sends : x = Received(sends[k])
        BY <1>1, <4>1 DEF Sound, Arrived
      <4>3. x.data = <<k>>
        BY <1>1, <4>2 DEF Received, Numbered
      <4>4. k # Len(sends) + 1
        BY <1>5
      <4> QED
        BY <1>2, <1>4, <4>1, <4>3, <4>4
    <3> QED
      BY <1>2, <1>9, <2>2, <3>1, <3>2, DeliveredGrows
  <2> QED
    BY <1>2, <1>3, <1>4, <2>1, <2>2
<1>11. QueuesTravel'
  <2> DEFINE S == TravelFrame
             T == TravelFrame'
  <2>1. S \subseteq T
    BY <1>9, TravelsOn DEF TravelFrame
  <2>2. ring \in [Device -> Seq(S)] /\ m_outgoing \in [Device -> Seq(S)]
    BY <1>1 DEF QueuesTravel
  <2>3. p.destination # n => FrameOf(p, p.hop_limit) \in T
    <3> SUFFICES ASSUME p.destination # n PROVE FrameOf(p, p.hop_limit) \in T
      OBVIOUS
    <3>1. p.hop_limit \in 0 .. HopEscape - 1 /\ p.hop_limit \in 0 .. p.hop_limit
      <4>1. PICK h \in Nat : h = p.hop_limit
        BY DEF Sent
      <4> QED
        BY <1>2, <4>1, HeaderAssumption
    <3>2. PICK h : h = p.hop_limit
      OBVIOUS
    <3>3. PICK frame \in Seq(Nat) :
             frame = FrameOf(p, h) /\ Decode(frame) = [p EXCEPT !.hop_limit = h]
      BY <3>1, <3>2, FrameCarries
    <3>4. Decode(frame).hop_limit = h
      BY <3>3 DEF Sent
    <3>5. Len(sends) + 1 \in DOMAIN sends'
      BY <1>5, <1>6
    <3>6. Travels(frame)'
      BY <1>3, <1>6, <3>1, <3>2, <3>3, <3>4, <3>5 DEF Travels, FrameOf
    <3> QED
      BY <3>2, <3>3, <3>6 DEF TravelFrame
  <2> HIDE DEF S, T
  <2>4. ring \in [Device -> Seq(T)] /\ m_outgoing \in [Device -> Seq(T)]
    BY <2>1, <2>2, LargerQueues
  <2>5. m_outgoing' \in [Device -> Seq(T)]
    BY <1>2, <1>3, <2>3, <2>4, PushOutgoingTravels
  <2> QED
    BY <1>2, <2>4, <2>5 DEF QueuesTravel, T
<1>12. TypeOK'
  <2>1. (QueuesTravel =>
           ring \in [Device -> Seq(Seq(Nat))] /\ m_outgoing \in [Device -> Seq(Seq(Nat))])'
    BY QueuesType, PTL
  <2> QED
    BY <1>1, <1>2, <1>6, <1>8, <1>10, <1>11, <2>1 DEF TypeOK
<1> QED
  BY <1>7, <1>10, <1>11, <1>12, InvAgain

LEMMA NextInv == NetworkInv /\ [Next]_vars => NetworkInv'
<1> SUFFICES ASSUME NetworkInv, [Next]_vars PROVE NetworkInv'
  OBVIOUS
<1>1. CASE \E s \in Sends, id \in PackageIds : Send(s, id)
  BY <1>1, SendKeeps
<1>2. CASE \E n \in Node : Incoming(n)
  BY <1>2, IncomingKeeps
<1>3. CASE \E d \in Device : ServeIncoming(d)
  BY <1>3, ServeIncomingKeeps
<1>4. CASE \E d \in Device : \E deaf \in SUBSET Hearers(d) : ServeOutgoing(d, deaf)
  BY <1>4, ServeOutgoingKeeps
<1>5. CASE UNCHANGED vars
  <2>1. Grows /\ TravelFrame' = TravelFrame
    BY <1>5, NothingNew, SameSends DEF vars
  <2>2. TypeOK /\ Numbered /\ QueuesTravel
    BY InvParts DEF NetworkInv
  <2>3. TypeOK' /\ Numbered' /\ QueuesTravel'
    BY <1>5, <2>1, <2>2, SameNumbers DEF vars, TypeOK, QueuesTravel
  <2>4. \A m \in Node : Sound(m)' /\ Once(m)'
    BY <1>5, <2>1, DeliveredStays DEF vars
  <2> QED
    BY <2>3, <2>4, InvAgain
<1> QED
  BY <1>1, <1>2, <1>3, <1>4, <1>5, Zenon DEF Next

-----------------------------------------------------------------------------
(* The nodes deliver packages as Delivery says. *)

\* What nodes have for their applications, as Delivery sees it.
Deliveries == [n \in Node |-> Delivered(n)]

Ways == {Submitted(s, id, k) : s \in Sends, id \in PackageIds, k \in 1 .. MaxSends}

LEMMA InitDelivery == Init => NetworkDelivery!Init
<1> SUFFICES ASSUME Init PROVE NetworkDelivery!Init
  OBVIOUS
<1>1. ASSUME NEW n \in Node PROVE Delivered(n) = <<>>
  <2>1. taken[n] = <<>> /\ m_incoming[n] = <<>>
    BY <1>1 DEF Init
  <2> QED
    BY <2>1, ConcatEmptySeq, EmptySeq DEF Delivered
<1>2. Deliveries = [n \in Node |-> <<>>]
  BY <1>1 DEF Deliveries
<1> QED
  BY <1>2 DEF Init, NetworkDelivery!Init, Deliveries

\* Nodes forget nothing but ids.
LEMMA ForgetAllowed ==
  ASSUME TypeOK', \A m \in Node : forgotten[m] \subseteq forgotten'[m]
  PROVE  NetworkDelivery!Forget
<1>1. forgotten' \in [Node -> SUBSET PackageIds]
  BY DEF TypeOK
<1> QED
  BY <1>1 DEF NetworkDelivery!Forget

\* A package that is put to those that wait for an application is given to it.
LEMMA GiveAllowed ==
  ASSUME TypeOK, NEW n \in Node, NEW p \in Sent,
         PushIncoming(n, Received(p)), UNCHANGED taken
  PROVE  NetworkDelivery!Give(n, p)
<1>1. Received(p) \in Package
  BY ReceivedType
<1>2. /\ Delivered(n)' = Append(Delivered(n), Received(p))
      /\ \A m \in Node \ {n} : Delivered(m)' = Delivered(m)
  BY <1>1, PushIncomingDelivers
<1>3. Deliveries' = [Deliveries EXCEPT ![n] = Append(@, Received(p))]
  BY <1>2 DEF Deliveries
<1>4. NetworkDelivery!Received(p) = Received(p)
  BY DEF NetworkDelivery!Received, Received
<1> QED
  BY <1>3, <1>4 DEF NetworkDelivery!Give, Deliveries

LEMMA DeliveriesStay ==
  ASSUME UNCHANGED <<m_incoming, taken>>
  PROVE  Deliveries' = Deliveries
<1>1. \A n \in Node : Delivered(n)' = Delivered(n)
  BY DEF Delivered
<1> QED
  BY <1>1 DEF Deliveries

LEMMA SendDelivers ==
  ASSUME NetworkInv, TypeOK', NEW s \in Sends, NEW id \in PackageIds, Send(s, id)
  PROVE  NetworkDelivery!Next
<1>1. TypeOK
  BY DEF NetworkInv
<1>2. PICK p \in Sent :
         /\ p = Submitted(s, id, Len(sends) + 1) /\ p.id = id
         /\ sends' = Append(sends, p)
         /\ IF AddressAcceptable(p.source, p.destination)
            THEN PushIncoming(p.source, Received(p)) ELSE UNCHANGED m_incoming
         /\ IF p.destination = p.source
            THEN UNCHANGED <<m_outgoing, seen, forgotten>>
            ELSE /\ Check(p.source, id)
                 /\ PushOutgoing(DevicesOf(p.source), FrameOf(p, p.hop_limit))
         /\ UNCHANGED taken
  BY <1>1, SendServed
<1>3. p \in Ways
  <2>1. Len(sends) + 1 \in 1 .. MaxSends
    BY <1>1, NetworkAssumption DEF TypeOK, Send
  <2> QED
    BY <1>2, <2>1 DEF Ways
<1>4. PICK n \in Node : n = p.source
  BY DEF Sent
<1>5. NetworkDelivery!Forget
  <2>1. \A m \in Node : forgotten[m] \subseteq forgotten'[m]
    BY <1>1, <1>2, <1>4, CheckKeeps
  <2> QED
    BY <2>1, ForgetAllowed
<1>6. NetworkDelivery!IsFor(n, p) <=> AddressAcceptable(n, p.destination)
  BY DEF NetworkDelivery!IsFor, AddressAcceptable
<1>7. IF NetworkDelivery!IsFor(n, p) THEN NetworkDelivery!Give(n, p)
      ELSE Deliveries' = Deliveries
  <2>1. CASE NetworkDelivery!IsFor(n, p)
    <3>1. PushIncoming(n, Received(p))
      BY <1>2, <1>4, <1>6, <2>1
    <3> QED
      BY <1>1, <1>2, <2>1, <3>1, GiveAllowed
  <2>2. CASE ~ NetworkDelivery!IsFor(n, p)
    <3>1. UNCHANGED <<m_incoming, taken>>
      BY <1>2, <1>4, <1>6, <2>2
    <3> QED
      BY <2>2, <3>1, DeliveriesStay
  <2> QED
    BY <2>1, <2>2
<1>8. NetworkDelivery!Send(p)
  BY <1>2, <1>4, <1>5, <1>7 DEF NetworkDelivery!Send, Deliveries
<1> QED
  BY <1>3, <1>8 DEF NetworkDelivery!Next, Ways

LEMMA ServeIncomingDelivers ==
  ASSUME NetworkInv, TypeOK', NEW d \in Device, ServeIncoming(d)
  PROVE  NetworkDelivery!Next
<1>1. TypeOK /\ Numbered /\ \A m \in Node : Sound(m)
  BY InvParts DEF NetworkInv
<1>2. PICK n \in Node : n = d[1]
  BY DeviceNode
<1>3. PICK k \in DOMAIN sends :
         /\ sends[k].destination # sends[k].source
         /\ Check(n, sends[k].id)
         /\ \/ UNCHANGED m_incoming
            \/ /\ ~ Holds(seen[n], sends[k].id)
               /\ AddressAcceptable(n, sends[k].destination)
               /\ PushIncoming(n, Received(sends[k]))
  BY <1>2, FrameServed
<1>4. UNCHANGED <<taken, sends>>
  BY DEF ServeIncoming
<1>5. PICK p \in Sent : p = sends[k]
  BY <1>1 DEF TypeOK
<1>6. NetworkDelivery!Forget
  <2>1. p.id \in PackageIds
    BY ReceivedType
  <2>2. \A m \in Node : forgotten[m] \subseteq forgotten'[m]
    BY <1>1, <1>3, <1>5, <2>1, CheckKeeps
  <2> QED
    BY <2>2, ForgetAllowed
<1>7. CASE UNCHANGED m_incoming
  <2>1. Deliveries' = Deliveries
    BY <1>4, <1>7, DeliveriesStay
  <2> QED
    BY <1>4, <1>6, <2>1 DEF NetworkDelivery!Next, Deliveries
<1>8. CASE /\ ~ Holds(seen[n], p.id)
           /\ AddressAcceptable(n, p.destination)
           /\ PushIncoming(n, Received(p))
  <2>1. NetworkDelivery!IsFor(n, p)
    BY <1>8 DEF NetworkDelivery!IsFor, AddressAcceptable
  <2>2. NetworkDelivery!Give(n, p)
    BY <1>1, <1>4, <1>8, GiveAllowed
  <2>3. ASSUME NEW i \in DOMAIN Delivered(n), Delivered(n)[i] = Received(p)
        PROVE  p.id \in forgotten[n]
    <3>1. Delivered(n)[i].data = sends[k].data
      BY <1>5, <2>3, ReceivedType
    <3> QED
      BY <1>1, <1>3, <1>5, <1>8, <3>1, NoCopyYet
  <2>4. NetworkDelivery!Received(p) = Received(p)
    BY DEF NetworkDelivery!Received, Received
  <2>5. Deliveries[n] = Delivered(n)
    BY DEF Deliveries
  <2>6. \A i \in DOMAIN Deliveries[n] :
           Deliveries[n][i] = NetworkDelivery!Received(p) => p.id \in forgotten[n]
    BY <2>3, <2>4, <2>5
  <2>7. NetworkDelivery!Deliver(n, p)
    BY <1>4, <1>6, <2>1, <2>2, <2>6 DEF NetworkDelivery!Deliver, Deliveries
  <2> QED
    BY <1>5, <2>7 DEF NetworkDelivery!Next
<1> QED
  BY <1>3, <1>5, <1>7, <1>8

\* The other steps are none of Delivery's.
LEMMA IncomingStutters ==
  ASSUME NetworkInv, NEW n \in Node, Incoming(n)
  PROVE  Deliveries' = Deliveries
<1>1. ASSUME NEW m \in Node PROVE Delivered(m)' = Delivered(m)
  BY IncomingDeliversNothing
<1> QED
  BY <1>1 DEF Deliveries

LEMMA NextDelivery ==
  NetworkInv /\ NetworkInv' /\ [Next]_vars => [NetworkDelivery!Next]_(NetworkDelivery!vars)
<1> SUFFICES ASSUME NetworkInv, NetworkInv', [Next]_vars
             PROVE  NetworkDelivery!Next \/ UNCHANGED <<sends, Deliveries, forgotten>>
  BY DEF NetworkDelivery!vars, Deliveries
<1>1. TypeOK'
  BY DEF NetworkInv
<1>2. CASE \E s \in Sends, id \in PackageIds : Send(s, id)
  BY <1>1, <1>2, SendDelivers
<1>3. CASE \E n \in Node : Incoming(n)
  BY <1>3, IncomingStutters DEF Incoming
<1>4. CASE \E d \in Device : ServeIncoming(d)
  BY <1>1, <1>4, ServeIncomingDelivers
<1>5. CASE \E d \in Device : \E deaf \in SUBSET Hearers(d) : ServeOutgoing(d, deaf)
  BY <1>5, DeliveriesStay DEF ServeOutgoing
<1>6. CASE UNCHANGED vars
  BY <1>6, DeliveriesStay DEF vars
<1> QED
  BY <1>2, <1>3, <1>4, <1>5, <1>6, Zenon DEF Next

-----------------------------------------------------------------------------
(* Copies in queues *)

LEMMA HasAppended ==
  ASSUME NEW A, NEW S, NEW q \in Seq(A), NEW x \in A
  PROVE  Has(S, Append(q, x)) <=> Has(S, q) \/ x \in S
<1>1. PICK r \in Seq(A) : r = Append(q, x)
  BY AppendProperties
<1>2. /\ Len(q) \in Nat
      /\ DOMAIN q = 1 .. Len(q) /\ DOMAIN r = 1 .. Len(q) + 1
      /\ \A i \in DOMAIN q : r[i] = q[i]
      /\ r[Len(q) + 1] = x
  BY <1>1, AppendProperties
<1>3. \A i \in DOMAIN r : i \in DOMAIN q \/ i = Len(q) + 1
  BY <1>2
<1>4. \A i \in DOMAIN q : i \in DOMAIN r
  BY <1>2
<1>5. Len(q) + 1 \in DOMAIN r
  BY <1>2
<1>6. Has(S, r) <=> Has(S, q) \/ x \in S
  BY <1>2, <1>3, <1>4, <1>5, Zenon DEF Has
<1> QED
  BY <1>1, <1>6

\* The tail of a queue, place by place.
LEMMA TailPlaces ==
  ASSUME NEW A, NEW q \in Seq(A), q # <<>>
  PROVE  /\ 1 \in DOMAIN q /\ q[1] = Head(q)
         /\ \A i \in DOMAIN Tail(q) : i + 1 \in DOMAIN q /\ Tail(q)[i] = q[i + 1]
         /\ \A i \in DOMAIN q : i # 1 => i - 1 \in DOMAIN Tail(q) /\ Tail(q)[i - 1] = q[i]
<1>1. PICK r \in Seq(A) : r = Tail(q)
  BY HeadTailProperties
<1>2. /\ Len(q) \in Nat /\ Len(q) # 0
      /\ Len(r) = Len(q) - 1
      /\ \A i \in 1 .. Len(r) : r[i] = q[i + 1]
  BY <1>1, EmptySeq, HeadTailProperties
<1>3. DOMAIN q = 1 .. Len(q) /\ DOMAIN r = 1 .. Len(q) - 1
  BY <1>2
<1>4. 1 \in DOMAIN q /\ q[1] = Head(q)
  BY <1>2, <1>3, HeadTailProperties
<1>5. \A i \in DOMAIN r : i + 1 \in DOMAIN q /\ r[i] = q[i + 1]
  BY <1>2, <1>3
<1>6. ASSUME NEW i \in DOMAIN q, i # 1
      PROVE  i - 1 \in DOMAIN r /\ r[i - 1] = q[i]
  <2>1. i - 1 \in DOMAIN r /\ (i - 1) + 1 = i
    BY <1>2, <1>3, <1>6
  <2> QED
    BY <1>5, <2>1
<1> QED
  BY <1>1, <1>4, <1>5, <1>6

LEMMA HasInTail ==
  ASSUME NEW A, NEW S, NEW q \in Seq(A), q # <<>>
  PROVE  Has(S, q) <=> Head(q) \in S \/ Has(S, Tail(q))
<1>1. ASSUME Has(S, q), Head(q) \notin S PROVE Has(S, Tail(q))
  <2>1. PICK i \in DOMAIN q : q[i] \in S
    BY <1>1 DEF Has
  <2>2. i # 1
    BY <1>1, <2>1, TailPlaces
  <2>3. i - 1 \in DOMAIN Tail(q) /\ Tail(q)[i - 1] = q[i]
    BY <2>1, <2>2, TailPlaces
  <2> QED
    BY <2>1, <2>3 DEF Has
<1>2. ASSUME Head(q) \in S PROVE Has(S, q)
  BY <1>2, TailPlaces DEF Has
<1>3. ASSUME Has(S, Tail(q)) PROVE Has(S, q)
  <2>1. PICK i \in DOMAIN Tail(q) : Tail(q)[i] \in S
    BY <1>3 DEF Has
  <2>2. i + 1 \in DOMAIN q /\ Tail(q)[i] = q[i + 1]
    BY <2>1, TailPlaces
  <2> QED
    BY <2>1, <2>2 DEF Has
<1> QED
  BY <1>1, <1>2, <1>3

LEMMA FirstOfNone ==
  ASSUME NEW S, NEW T, NEW q, ~ Has(S, q)
  PROVE  FirstIn(S, T, q)
BY DEF Has, FirstIn

LEMMA FirstInMore ==
  ASSUME NEW S, NEW T, NEW U, T \subseteq U, NEW q, FirstIn(S, T, q)
  PROVE  FirstIn(S, U, q)
BY DEF FirstIn

\* What is put behind a queue is the first of S in it only if there was none.
LEMMA FirstInAppended ==
  ASSUME NEW A, NEW S, NEW T, NEW q \in Seq(A), NEW x \in A,
         FirstIn(S, T, q), Has(S, q) \/ x \notin S \/ x \in T
  PROVE  FirstIn(S, T, Append(q, x))
<1>1. PICK r \in Seq(A) : r = Append(q, x)
  BY AppendProperties
<1>2. /\ Len(q) \in Nat
      /\ DOMAIN q = 1 .. Len(q) /\ DOMAIN r = 1 .. Len(q) + 1
      /\ \A i \in DOMAIN q : r[i] = q[i]
      /\ r[Len(q) + 1] = x
  BY <1>1, AppendProperties
<1>3. ASSUME NEW i \in DOMAIN r, r[i] \in S, \A j \in 1 .. i - 1 : r[j] \notin S
      PROVE  r[i] \in T
  <2>1. CASE i = Len(q) + 1
    <3>1. 1 .. i - 1 = DOMAIN q
      BY <1>2, <2>1
    <3>2. ~ Has(S, q)
      BY <1>2, <1>3, <3>1 DEF Has
    <3> QED
      BY <1>2, <1>3, <2>1, <3>2
  <2>2. CASE i # Len(q) + 1
    <3>1. i \in DOMAIN q /\ \A j \in 1 .. i - 1 : j \in DOMAIN q
      BY <1>2, <2>2
    <3>2. q[i] \in S /\ \A j \in 1 .. i - 1 : q[j] \notin S
      BY <1>2, <1>3, <3>1
    <3>3. q[i] \in T
      BY <3>1, <3>2 DEF FirstIn
    <3> QED
      BY <1>2, <3>1, <3>3
  <2> QED
    BY <2>1, <2>2
<1>4. FirstIn(S, T, r)
  BY <1>3 DEF FirstIn
<1> QED
  BY <1>1, <1>4

LEMMA FirstInTail ==
  ASSUME NEW A, NEW S, NEW T, NEW q \in Seq(A), q # <<>>, FirstIn(S, T, q)
  PROVE  /\ Head(q) \in S => Head(q) \in T
         /\ Head(q) \notin S => FirstIn(S, T, Tail(q))
<1>1. ASSUME Head(q) \in S PROVE Head(q) \in T
  <2>1. 1 \in DOMAIN q /\ q[1] = Head(q) /\ 1 .. 1 - 1 = {}
    BY TailPlaces
  <2> QED
    BY <1>1, <2>1 DEF FirstIn
<1>2. ASSUME Head(q) \notin S PROVE FirstIn(S, T, Tail(q))
  <2> SUFFICES ASSUME NEW i \in DOMAIN Tail(q), Tail(q)[i] \in S,
                      \A j \in 1 .. i - 1 : Tail(q)[j] \notin S
               PROVE  Tail(q)[i] \in T
    BY DEF FirstIn
  <2>1. /\ i + 1 \in DOMAIN q /\ Tail(q)[i] = q[i + 1]
        /\ i \in Nat \ {0}
    <3>1. Tail(q) \in Seq(A)
      BY HeadTailProperties
    <3> QED
      BY <3>1, TailPlaces
  <2>2. ASSUME NEW j \in 1 .. (i + 1) - 1 PROVE q[j] \notin S
    <3>1. CASE j = 1
      BY <1>2, <3>1, TailPlaces
    <3>2. CASE j # 1
      <4>1. j \in DOMAIN q
        BY <2>1
      <4>2. Tail(q)[j - 1] = q[j]
        BY <3>2, <4>1, TailPlaces
      <4>3. j - 1 \in 1 .. i - 1
        BY <2>1, <3>2
      <4> QED
        BY <4>2, <4>3
    <3> QED
      BY <3>1, <3>2
  <2>3. q[i + 1] \in T
    BY <2>1, <2>2 DEF FirstIn
  <2> QED
    BY <2>1, <2>3
<1> QED
  BY <1>1, <1>2

-----------------------------------------------------------------------------
(* Who knows a package *)

LEMMA WithoutPlaceAddsNone ==
  ASSUME NEW S, NEW list \in Seq(S), NEW i \in DOMAIN list,
         NEW x, Holds(WithoutPlace(list, i), x)
  PROVE  Holds(list, x)
<1>1. /\ WithoutPlace(list, i) \in Seq(S)
      /\ Len(WithoutPlace(list, i)) = Len(list) - 1
      /\ \A j \in 1 .. Len(list) - 1 :
            WithoutPlace(list, i)[j] = IF j < i THEN list[j] ELSE list[j + 1]
  BY WithoutPlaceProperties
<1>2. PICK j \in DOMAIN WithoutPlace(list, i) : WithoutPlace(list, i)[j] = x
  BY DEF Holds
<1>3. j \in 1 .. Len(list) - 1 /\ Len(list) \in Nat
  BY <1>1, <1>2
<1>4. j \in DOMAIN list /\ j + 1 \in DOMAIN list
  BY <1>3
<1>5. list[j] = x \/ list[j + 1] = x
  BY <1>1, <1>2, <1>3
<1> QED
  BY <1>4, <1>5 DEF Holds

\* What a cache holds after a check, it held before or has been checked.
LEMMA CheckAddsOne ==
  ASSUME TypeOK, NEW n \in Node, NEW id \in PackageIds, Check(n, id),
         NEW m \in Node, NEW x \in PackageIds, Checked(m, x)'
  PROVE  Checked(m, x) \/ (m = n /\ x = id)
<1> DEFINE list == seen[n]
           new == CheckUpdate(list, id, SeenMax)
<1>1. /\ seen \in [Node -> Seq(PackageIds)] /\ list \in Seq(PackageIds)
      /\ Len(list) <= SeenMax
      /\ forgotten \in [Node -> SUBSET PackageIds]
      /\ SeenMax \in Nat \ {0}
  BY NetworkAssumption DEF TypeOK
<1>2. /\ seen' = [seen EXCEPT ![n] = new]
      /\ forgotten' = IF Forgets(list, id, SeenMax)
                      THEN [forgotten EXCEPT ![n] = @ \cup {Head(list)}]
                      ELSE forgotten
  BY DEF Check
<1>3. Forgets(list, id, SeenMax) => list # <<>> /\ Holds(list, Head(list))
  <2>1. ASSUME Forgets(list, id, SeenMax) PROVE list # <<>> /\ Holds(list, Head(list))
    <3>1. list # <<>>
      BY <1>1, <2>1 DEF Forgets
    <3> QED
      BY <1>1, <3>1, TailPlaces DEF Holds
  <2> QED
    BY <2>1
<1>4. ASSUME Holds(new, x), x # id PROVE Holds(list, x)
  <2> DEFINE place == CHOOSE i \in DOMAIN list : list[i] = id
             kept == IF Holds(list, id) THEN WithoutPlace(list, place)
                     ELSE IF Forgets(list, id, SeenMax) THEN Tail(list) ELSE list
  <2>1. new = Append(kept, id)
    BY DEF CheckUpdate
  <2>2. kept \in Seq(PackageIds) /\ (Holds(kept, x) => Holds(list, x))
    <3>1. CASE Holds(list, id)
      <4>1. place \in DOMAIN list
        BY <3>1 DEF Holds
      <4> HIDE DEF place
      <4>2. kept = WithoutPlace(list, place)
        BY <3>1
      <4> HIDE DEF list, kept
      <4>3. list \in Seq(PackageIds)
        BY <1>1
      <4> QED
        BY <4>1, <4>2, <4>3, WithoutPlaceProperties, WithoutPlaceAddsNone
    <3>2. CASE ~ Holds(list, id) /\ Forgets(list, id, SeenMax)
      <4>1. kept = Tail(list)
        BY <3>2
      <4> HIDE DEF list, kept
      <4>2. kept \in Seq(PackageIds)
        BY <1>1, <1>3, <3>2, <4>1, HeadTailProperties
      <4>3. \A i \in DOMAIN kept : i + 1 \in DOMAIN list /\ kept[i] = list[i + 1]
        BY <1>1, <1>3, <3>2, <4>1, TailPlaces
      <4> QED
        BY <4>2, <4>3 DEF Holds
    <3>3. CASE ~ Holds(list, id) /\ ~ Forgets(list, id, SeenMax)
      BY <1>1, <3>3
    <3> QED
      BY <3>1, <3>2, <3>3
  <2> HIDE DEF list, new, kept
  <2>3. Has({x}, new) <=> Has({x}, kept) \/ id \in {x}
    BY <2>1, <2>2, HasAppended
  <2>4. Has({x}, new)
    BY <1>4 DEF Has, Holds
  <2>5. Holds(kept, x)
    BY <1>4, <2>3, <2>4 DEF Has, Holds
  <2> QED
    BY <2>2, <2>5
<1> HIDE DEF new
<1>5. CASE m # n
  <2>1. seen'[m] = seen[m] /\ forgotten'[m] = forgotten[m]
    BY <1>1, <1>2, <1>5
  <2> QED
    BY <2>1 DEF Checked, Holds
<1>6. CASE m = n
  <2>1. seen'[n] = new
    BY <1>1, <1>2
  <2>2. \/ forgotten'[n] = forgotten[n]
        \/ Forgets(list, id, SeenMax) /\ forgotten'[n] = forgotten[n] \cup {Head(list)}
    BY <1>1, <1>2
  <2>3. Holds(new, x) \/ x \in forgotten'[n]
    BY <1>6, <2>1 DEF Checked, Holds
  <2>4. CASE Holds(new, x)
    BY <1>4, <1>6, <2>4 DEF Checked
  <2>5. CASE x \in forgotten'[n]
    BY <1>3, <1>6, <2>2, <2>5 DEF Checked
  <2> QED
    BY <2>3, <2>4, <2>5
<1> QED
  BY <1>5, <1>6

LEMMA CopiesStay ==
  ASSUME NEW k, sends'[k] = sends[k]
  PROVE  Copies(k)' = Copies(k)
BY DEF Copies

LEMMA LastingStays ==
  ASSUME NEW k, sends'[k] = sends[k], Knowing(k)' = Knowing(k)
  PROVE  Lasting(k)' = Lasting(k)
BY CopiesStay DEF Lasting

\* A queue has copies of the package as before, and their first is not another one.
Alike(k, queue, after) ==
    /\ Has(Copies(k), after) <=> Has(Copies(k), queue)
    /\ FirstIn(Copies(k), Lasting(k), queue) => FirstIn(Copies(k), Lasting(k), after)

\* What a step must keep of the queues that the package spreads by.
LEMMA FloodsAsBefore ==
  ASSUME NEW k, sends'[k] = sends[k], Knowing(k)' = Knowing(k), UNCHANGED lost,
         \A d \in Device : /\ Alike(k, ring[d], ring'[d])
                           /\ Alike(k, m_outgoing[d], m_outgoing'[d]),
         Flooding(k)
  PROVE  Flooding(k)'
<1> SUFFICES ASSUME ~ lost
             PROVE  CopiesHeard(k)' /\ SourceSpreads(k)' /\ Spreads(k)'
  BY DEF Flooding
<1>1. CopiesHeard(k) /\ SourceSpreads(k) /\ Spreads(k)
  BY DEF Flooding
<1>2. /\ Copies(k)' = Copies(k) /\ Lasting(k)' = Lasting(k) /\ Knowing(k)' = Knowing(k)
      /\ sends'[k] = sends[k]
  BY CopiesStay, LastingStays
<1>3. ASSUME NEW d \in Device
      PROVE  /\ Has(Copies(k)', ring'[d]) <=> Has(Copies(k), ring[d])
             /\ Has(Copies(k)', m_outgoing'[d]) <=> Has(Copies(k), m_outgoing[d])
             /\ FirstIn(Copies(k), Lasting(k), ring[d])
                   => FirstIn(Copies(k)', Lasting(k)', ring'[d])
             /\ FirstIn(Copies(k), Lasting(k), m_outgoing[d])
                   => FirstIn(Copies(k)', Lasting(k)', m_outgoing'[d])
  BY <1>2 DEF Alike
<1>4. CopiesHeard(k)'
  BY <1>1, <1>2, <1>3 DEF CopiesHeard
<1>5. ASSUME NEW d \in Device, NEW e \in Device
      PROVE  GetsFrom(k, d, e)' <=> GetsFrom(k, d, e)
  BY <1>2, <1>3 DEF GetsFrom
<1>6. SourceSpreads(k)'
  BY <1>1, <1>2, <1>5 DEF SourceSpreads, DevicesOf, Hearers
<1>7. Spreads(k)'
  BY <1>1, <1>2, <1>3, <1>5 DEF Spreads, Hearers
<1> QED
  BY <1>4, <1>6, <1>7

LEMMA QueuesHold ==
  ASSUME NetworkInv
  PROVE  \A d \in Device : ring[d] \in Seq(Seq(Nat)) /\ m_outgoing[d] \in Seq(Seq(Nat))
BY DEF NetworkInv, TypeOK

LEMMA AlikeAppended ==
  ASSUME NEW k, NEW q \in Seq(Seq(Nat)), NEW x \in Seq(Nat), x \notin Copies(k)
  PROVE  Alike(k, q, Append(q, x))
BY HasAppended, FirstInAppended DEF Alike

LEMMA AlikeTail ==
  ASSUME NEW k, NEW q \in Seq(Seq(Nat)), q # <<>>, Head(q) \notin Copies(k)
  PROVE  Alike(k, q, Tail(q))
BY HasInTail, FirstInTail DEF Alike

\* The frames of a package with an id of its own are the copies of it.
LEMMA FrameIsCopy ==
  ASSUME NetworkInv, NEW k \in DOMAIN sends, IdIsUnique(k),
         NEW j \in DOMAIN sends, NEW h \in 0 .. HopEscape - 1
  PROVE  /\ FrameOf(sends[j], h) \in Seq(Nat)
         /\ FrameOf(sends[j], h) \in Copies(k) <=> j = k
         /\ Decode(FrameOf(sends[j], h)).hop_limit = h
<1>1. sends[j] \in Sent
  BY DEF NetworkInv, TypeOK
<1>2. PICK frame \in Seq(Nat) :
         frame = FrameOf(sends[j], h) /\ Decode(frame) = [sends[j] EXCEPT !.hop_limit = h]
  BY <1>1, FrameCarries
<1>3. Decode(frame).id = sends[j].id /\ Decode(frame).hop_limit = h
  BY <1>1, <1>2 DEF Sent
<1>4. frame \in Copies(k) <=> sends[j].id = sends[k].id
  BY <1>3 DEF Copies
<1> QED
  BY <1>2, <1>3, <1>4 DEF IdIsUnique

\* What device e has been sent by device d, or will be, it is being sent.
LEMMA ServeOutgoingGets ==
  ASSUME NetworkInv, NEW k, Copies(k)' = Copies(k), Knowing(k)' = Knowing(k),
         NEW d \in Device, m_outgoing[d] # <<>>,
         m_outgoing' = [m_outgoing EXCEPT ![d] = Tail(@)],
         ring' = [e \in Device |-> IF e \in Hearers(d) THEN Append(ring[e], Head(m_outgoing[d]))
                                   ELSE ring[e]],
         NEW s \in Device, NEW e \in Hearers(s), GetsFrom(k, s, e)
  PROVE  GetsFrom(k, s, e)'
<1> DEFINE x == Head(m_outgoing[d])
<1>0. /\ e \in Device /\ ring[e] \in Seq(Seq(Nat))
      /\ m_outgoing[d] \in Seq(Seq(Nat)) /\ x \in Seq(Nat)
      /\ m_outgoing \in [Device -> Seq(Seq(Nat))]
  <2>1. e \in Device /\ ring[e] \in Seq(Seq(Nat)) /\ m_outgoing[d] \in Seq(Seq(Nat))
    BY QueuesHold DEF Hearers
  <2>2. m_outgoing \in [Device -> Seq(Seq(Nat))]
    BY DEF NetworkInv, TypeOK
  <2> QED
    BY <2>1, <2>2, HeadTailProperties
<1>1. CASE e[1] \in Knowing(k)
  BY <1>1 DEF GetsFrom
<1>2. CASE Has(Copies(k), ring[e])
  <2>1. Has(Copies(k), Append(ring[e], x))
    BY <1>0, <1>2, HasAppended
  <2>2. Has(Copies(k), ring'[e])
    BY <1>0, <1>2, <2>1
  <2> QED
    BY <2>2 DEF GetsFrom
<1>3. CASE Has(Copies(k), m_outgoing[s]) /\ s # d
  <2>1. m_outgoing'[s] = m_outgoing[s]
    BY <1>0, <1>3
  <2> QED
    BY <1>3, <2>1 DEF GetsFrom
<1>4. CASE Has(Copies(k), m_outgoing[s]) /\ s = d
  <2>1. x \in Copies(k) \/ Has(Copies(k), Tail(m_outgoing[d]))
    BY <1>0, <1>4, HasInTail
  <2>2. m_outgoing'[d] = Tail(m_outgoing[d]) /\ ring'[e] = Append(ring[e], x)
    BY <1>0, <1>4
  <2>3. CASE x \in Copies(k)
    <3>1. Has(Copies(k), ring'[e])
      BY <1>0, <2>2, <2>3, HasAppended
    <3> QED
      BY <3>1 DEF GetsFrom
  <2>4. CASE Has(Copies(k), Tail(m_outgoing[d]))
    BY <1>4, <2>2, <2>4 DEF GetsFrom
  <2> QED
    BY <2>1, <2>3, <2>4
<1> QED
  BY <1>1, <1>2, <1>3, <1>4 DEF GetsFrom

\* A copy that is sent becomes one of a ring buffer, behind those that were there.
LEMMA ServeOutgoingFloods ==
  ASSUME NetworkInv, NEW d \in Device, NEW deaf \in SUBSET Hearers(d),
         ServeOutgoing(d, deaf), NEW k, Flooding(k)
  PROVE  Flooding(k)'
<1> SUFFICES ASSUME ~ lost'
             PROVE  CopiesHeard(k)' /\ SourceSpreads(k)' /\ Spreads(k)'
  BY DEF Flooding
<1> DEFINE x == Head(m_outgoing[d])
           C == Copies(k)
           L == Lasting(k)
           K == Knowing(k)
<1>1. /\ ~ lost
      /\ m_outgoing[d] # <<>>
      /\ m_outgoing' = [m_outgoing EXCEPT ![d] = Tail(@)]
      /\ ring' = [e \in Device |-> IF e \in Hearers(d) THEN Append(ring[e], x) ELSE ring[e]]
      /\ UNCHANGED <<seen, sends, forgotten>>
  BY Zenon DEF ServeOutgoing
<1>2. CopiesHeard(k) /\ SourceSpreads(k) /\ Spreads(k)
  BY <1>1 DEF Flooding
<1>3. Knowing(k)' = K /\ Copies(k)' = C /\ Lasting(k)' = L /\ sends'[k] = sends[k]
  <2>1. Knowing(k)' = K /\ sends'[k] = sends[k]
    BY <1>1 DEF Knowing, Checked, Holds
  <2> QED
    BY <2>1, CopiesStay, LastingStays
<1>4. /\ \A e \in Device : ring[e] \in Seq(Seq(Nat)) /\ m_outgoing[e] \in Seq(Seq(Nat))
      /\ x \in Seq(Nat)
      /\ m_outgoing \in [Device -> Seq(Seq(Nat))]
  <2>1. m_outgoing \in [Device -> Seq(Seq(Nat))]
    BY DEF NetworkInv, TypeOK
  <2> QED
    BY <1>1, <2>1, QueuesHold, HeadTailProperties
<1>5. ASSUME NEW e \in Device
      PROVE  /\ e \in Hearers(d) => ring'[e] = Append(ring[e], x)
             /\ e \notin Hearers(d) => ring'[e] = ring[e]
             /\ Has(C, ring'[e]) <=> Has(C, ring[e]) \/ (e \in Hearers(d) /\ x \in C)
  BY <1>1, <1>4, HasAppended
<1>6. /\ m_outgoing'[d] = Tail(m_outgoing[d])
      /\ \A e \in Device : e # d => m_outgoing'[e] = m_outgoing[e]
  BY <1>1, <1>4
<1>7. Has(C, m_outgoing[d]) <=> x \in C \/ Has(C, m_outgoing'[d])
  BY <1>1, <1>4, <1>6, HasInTail
<1>8. ASSUME NEW s \in Device, NEW e \in Hearers(s), GetsFrom(k, s, e)
      PROVE  GetsFrom(k, s, e)'
  BY <1>1, <1>3, <1>8, ServeOutgoingGets
<1>9. CopiesHeard(k)'
  <2>1. ASSUME NEW e \in Device, Has(C, m_outgoing'[e]) PROVE e[1] \in K
    BY <1>2, <1>6, <1>7, <2>1 DEF CopiesHeard
  <2>2. ASSUME NEW a \in Device, NEW e \in Device, a[2] = e[2], e[1] \notin K, Has(C, ring'[a])
        PROVE  Has(C, ring'[e])
    <3>1. CASE Has(C, ring[a])
      BY <1>2, <1>5, <2>2, <3>1 DEF CopiesHeard
    <3>2. CASE a \in Hearers(d) /\ x \in C
      <4>1. d[1] \in K
        BY <1>2, <1>7, <3>2 DEF CopiesHeard
      <4>2. e \in Hearers(d)
        BY <2>2, <3>2, <4>1 DEF Hearers
      <4> QED
        BY <1>5, <3>2, <4>2
    <3> QED
      BY <1>5, <2>2, <3>1, <3>2
  <2> QED
    BY <1>3, <2>1, <2>2 DEF CopiesHeard
<1>10. SourceSpreads(k)'
  BY <1>2, <1>3, <1>8 DEF SourceSpreads, DevicesOf
<1>11. Spreads(k)'
  <2> SUFFICES ASSUME sends[k].destination \notin K \cup {sends[k].source, Everyone},
                      Cardinality(K) <= sends[k].hop_limit + 1,
                      NEW s \in Device
               PROVE  /\ s[1] \notin K => FirstIn(C, L, ring'[s])
                      /\ \A e \in Hearers(s) : e[1] \notin K =>
                            /\ Has(C, ring'[e]) \/ FirstIn(C, L, m_outgoing'[s])
                            /\ s[1] \in K => GetsFrom(k, s, e)'
    BY <1>3 DEF Spreads
  <2>1. ASSUME NEW a \in Device
        PROVE  /\ a[1] \notin K => FirstIn(C, L, ring[a])
               /\ \A e \in Hearers(a) : e[1] \notin K =>
                     /\ Has(C, ring[e]) \/ FirstIn(C, L, m_outgoing[a])
                     /\ a[1] \in K => GetsFrom(k, a, e)
    BY <1>2 DEF Spreads
  <2>2. ASSUME s[1] \notin K PROVE FirstIn(C, L, ring'[s])
    <3>1. CASE s \notin Hearers(d)
      BY <1>5, <2>1, <2>2, <3>1
    <3>2. CASE s \in Hearers(d)
      <4>1. Has(C, ring[s]) \/ FirstIn(C, L, m_outgoing[d])
        BY <2>1, <2>2, <3>2
      <4>2. Has(C, ring[s]) \/ (x \in C => x \in L)
        BY <1>1, <1>4, <4>1, FirstInTail
      <4>3. FirstIn(C, L, Append(ring[s], x))
        BY <1>4, <2>1, <2>2, <4>2, FirstInAppended
      <4> QED
        BY <1>5, <3>2, <4>3
    <3> QED
      BY <3>1, <3>2
  <2>3. ASSUME NEW e \in Hearers(s), e[1] \notin K
        PROVE  Has(C, ring'[e]) \/ FirstIn(C, L, m_outgoing'[s])
    <3>1. e \in Device
      BY DEF Hearers
    <3>2. CASE Has(C, ring[e])
      BY <1>5, <3>1, <3>2
    <3>3. CASE FirstIn(C, L, m_outgoing[s]) /\ s # d
      BY <1>6, <3>3
    <3>4. CASE FirstIn(C, L, m_outgoing[s]) /\ s = d /\ x \in C
      BY <1>5, <3>1, <3>4
    <3>5. CASE FirstIn(C, L, m_outgoing[s]) /\ s = d /\ x \notin C
      BY <1>1, <1>4, <1>6, <3>5, FirstInTail
    <3> QED
      BY <2>1, <2>3, <3>2, <3>3, <3>4, <3>5
  <2> QED
    BY <1>8, <2>1, <2>2, <2>3
<1> QED
  BY <1>9, <1>10, <1>11

LEMMA KnowingCount ==
  ASSUME IsFiniteSet(Node), NEW k
  PROVE  IsFiniteSet(Knowing(k)) /\ Cardinality(Knowing(k)) \in Nat
<1>1. Knowing(k) \in SUBSET Node
  BY DEF Knowing
<1> QED
  BY <1>1, FS_Subset, FS_CardinalityType

\* A node that checks the id of a package knows it; no other node learns it.
LEMMA KnowingServed ==
  ASSUME TypeOK, NEW n \in Node, NEW id \in PackageIds, Check(n, id),
         NEW k, sends'[k] = sends[k], sends[k].id \in PackageIds
  PROVE  Knowing(k)' = Knowing(k) \cup (IF sends[k].id = id THEN {n} ELSE {})
<1>1. PICK x \in PackageIds : x = sends[k].id
  OBVIOUS
<1>2. ASSUME NEW m \in Node
      PROVE  Checked(m, x)' <=> Checked(m, x) \/ (m = n /\ x = id)
  BY CheckKeeps, CheckAddsOne
<1>3. Knowing(k)' = {m \in Node : Checked(m, x)'}
  BY <1>1 DEF Knowing
<1>4. Knowing(k) = {m \in Node : Checked(m, x)}
  BY <1>1 DEF Knowing
<1> QED
  BY <1>1, <1>2, <1>3, <1>4

\* A copy that goes from a ring buffer to a node: the first that comes to a node has
\* a hop left when it must be forwarded, as no node lets it pass twice.
LEMMA CopyFloods ==
  ASSUME NetworkInv, IsFiniteSet(Node), NEW d \in Device,
         NEW k \in DOMAIN sends, IdIsUnique(k), Flooding(k),
         sends'[k] = sends[k], Knowing(k)' = Knowing(k) \cup {d[1]},
         UNCHANGED lost, ring[d] # <<>>, ring' = [ring EXCEPT ![d] = Tail(@)],
         NEW h \in 0 .. HopEscape - 1, Head(ring[d]) = FrameOf(sends[k], h),
         \/ /\ d[1] \in Knowing(k) \/ AddressAcceptable(d[1], sends[k].destination) \/ h = 0
            /\ UNCHANGED m_outgoing
         \/ h > 0 /\ PushOutgoing(ForwardTo(d), FrameOf(sends[k], h - 1))
  PROVE  Flooding(k)'
<1> SUFFICES ASSUME ~ lost
             PROVE  CopiesHeard(k)' /\ SourceSpreads(k)' /\ Spreads(k)'
  BY DEF Flooding
<1> DEFINE C == Copies(k)
           L == Lasting(k)
           K == Knowing(k)
           n == d[1]
<1>1. CopiesHeard(k) /\ SourceSpreads(k) /\ Spreads(k)
  BY DEF Flooding
<1>2. Copies(k)' = C
  BY CopiesStay
<1>3. n \in Node /\ K \subseteq Node
  BY DeviceNode DEF Knowing
<1>4. /\ IsFiniteSet(K) /\ Cardinality(K) \in Nat
      /\ Cardinality(K \cup {n}) = IF n \in K THEN Cardinality(K) ELSE Cardinality(K) + 1
  BY KnowingCount, FS_AddElement
<1>5. sends[k] \in Sent /\ sends[k].hop_limit \in Nat
  <2>1. sends[k] \in Sent
    BY DEF NetworkInv, TypeOK
  <2> QED
    BY <2>1 DEF Sent
<1>6. PICK H \in Nat, N \in Nat :
         /\ H = sends[k].hop_limit /\ N = Cardinality(K)
         /\ L = {b \in C : Decode(b).hop_limit \in H + 1 - N .. H}
         /\ n \in K => Lasting(k)' = L
         /\ n \notin K =>
               /\ Cardinality(K \cup {n}) = N + 1
               /\ Lasting(k)' = {b \in C : Decode(b).hop_limit \in H + 1 - (N + 1) .. H}
  BY <1>2, <1>4, <1>5 DEF Lasting
<1>7. /\ FrameOf(sends[k], h) \in C
      /\ Decode(FrameOf(sends[k], h)).hop_limit = h
  BY FrameIsCopy
<1>8. PICK x : x = FrameOf(sends[k], h - 1)
  OBVIOUS
<1>9. h > 0 => x \in Seq(Nat) /\ x \in C /\ Decode(x).hop_limit = h - 1
  <2>1. ASSUME h > 0 PROVE h - 1 \in 0 .. HopEscape - 1
    BY <2>1, HeaderAssumption
  <2>2. ASSUME NEW g \in 0 .. HopEscape - 1, g = h - 1
        PROVE  x \in Seq(Nat) /\ x \in C /\ Decode(x).hop_limit = g
    BY <1>8, <2>2, FrameIsCopy
  <2> QED
    BY <2>1, <2>2
<1>10. \A e \in Device : ring[e] \in Seq(Seq(Nat)) /\ m_outgoing[e] \in Seq(Seq(Nat))
  BY QueuesHold
<1>11. ring \in [Device -> Seq(Seq(Nat))]
  BY DEF NetworkInv, TypeOK
<1>12. /\ Has(C, ring[d])
       /\ \A e \in Device : /\ e # d => ring'[e] = ring[e]
                            /\ e[1] # n => e # d
                            /\ Has(C, ring'[e]) => Has(C, ring[e])
  <2>1. Has(C, ring[d])
    BY <1>7, <1>10, HasInTail
  <2>2. \A e \in Device : (e # d => ring'[e] = ring[e]) /\ (e[1] # n => e # d)
    BY <1>11
  <2> QED
    BY <2>1, <2>2
<1>13. ASSUME NEW s \in Device
       PROVE  \/ m_outgoing'[s] = m_outgoing[s]
              \/ h > 0 /\ s \in ForwardTo(d) /\ m_outgoing'[s] = Append(m_outgoing[s], x)
  BY <1>8 DEF PushOutgoing
<1>14. ASSUME NEW s \in Device
       PROVE  /\ Has(C, m_outgoing[s]) => Has(C, m_outgoing'[s])
              /\ Has(C, m_outgoing'[s]) => Has(C, m_outgoing[s]) \/ s[1] = n
  <2>1. s \in ForwardTo(d) => s[1] = n
    BY DEF ForwardTo, DevicesOf
  <2>2. CASE m_outgoing'[s] = m_outgoing[s]
    BY <2>2
  <2>3. CASE h > 0 /\ s \in ForwardTo(d) /\ m_outgoing'[s] = Append(m_outgoing[s], x)
    <3>1. Has(C, Append(m_outgoing[s], x))
      BY <1>9, <1>10, <2>3, HasAppended
    <3> QED
      BY <2>1, <2>3, <3>1
  <2> QED
    BY <1>13, <2>2, <2>3
<1>15. ASSUME NEW s \in Device, NEW e \in Device, GetsFrom(k, s, e)
       PROVE  GetsFrom(k, s, e)'
  BY <1>2, <1>12, <1>14, <1>15 DEF GetsFrom
<1>16. CopiesHeard(k)'
  <2>1. ASSUME NEW e \in Device, Has(C, m_outgoing'[e]) PROVE e[1] \in K \cup {n}
    BY <1>1, <1>14, <2>1 DEF CopiesHeard
  <2>2. ASSUME NEW a \in Device, NEW e \in Device, a[2] = e[2], e[1] \notin K \cup {n},
               Has(C, ring'[a])
        PROVE  Has(C, ring'[e])
    BY <1>1, <1>12, <2>2 DEF CopiesHeard
  <2> QED
    BY <1>2, <2>1, <2>2 DEF CopiesHeard
<1>17. SourceSpreads(k)'
  BY <1>1, <1>15 DEF SourceSpreads, DevicesOf, Hearers
<1>18. Spreads(k)'
  <2> DEFINE K2 == K \cup {n}
             L2 == Lasting(k)'
  <2> SUFFICES ASSUME sends[k].destination \notin K2 \cup {sends[k].source, Everyone},
                      Cardinality(K2) <= H + 1,
                      NEW s \in Device
               PROVE  /\ s[1] \notin K2 => FirstIn(C, L2, ring'[s])
                      /\ \A e \in Hearers(s) : e[1] \notin K2 =>
                            /\ Has(C, ring'[e]) \/ FirstIn(C, L2, m_outgoing'[s])
                            /\ s[1] \in K2 => GetsFrom(k, s, e)'
    BY <1>2, <1>6 DEF Spreads
  <2>1. L \subseteq L2 /\ Cardinality(K) <= H + 1
    BY <1>4, <1>6
  <2> HIDE DEF L2
  <2>2. ASSUME NEW a \in Device
        PROVE  /\ a[1] \notin K => FirstIn(C, L, ring[a])
               /\ \A e \in Hearers(a) : e[1] \notin K =>
                     /\ Has(C, ring[e]) \/ FirstIn(C, L, m_outgoing[a])
                     /\ a[1] \in K => GetsFrom(k, a, e)
    BY <1>1, <1>6, <2>1 DEF Spreads
  <2>3. ASSUME n \notin K PROVE  h > 0 /\ x \in L2 /\ PushOutgoing(ForwardTo(d), x)
    <3>1. FrameOf(sends[k], h) \in L
      <4>1. FirstIn(C, L, ring[d]) /\ ring[d] \in Seq(Seq(Nat))
        BY <1>10, <2>2, <2>3
      <4>2. Head(ring[d]) \in C => Head(ring[d]) \in L
        BY <4>1, FirstInTail
      <4> QED
        BY <1>7, <4>2
    <3>2. H + 1 - N <= h /\ h <= H
      BY <1>6, <1>7, <3>1
    <3>3. N + 1 <= H + 1
      BY <1>6, <2>3
    <3>4. h > 0
      BY <3>2, <3>3, HeaderAssumption
    <3>5. h - 1 \in H + 1 - (N + 1) .. H
      BY <3>2, <3>4, HeaderAssumption
    <3>6. x \in L2
      BY <1>6, <1>9, <2>3, <3>4, <3>5 DEF L2
    <3>7. ~ AddressAcceptable(n, sends[k].destination)
      BY DEF AddressAcceptable
    <3> QED
      BY <1>8, <2>3, <3>4, <3>6, <3>7
  <2>4. ASSUME s[1] \notin K2 PROVE FirstIn(C, L2, ring'[s])
    <3>1. s # d /\ ring'[s] = ring[s] /\ FirstIn(C, L, ring[s])
      BY <1>12, <2>2, <2>4
    <3> QED
      BY <2>1, <3>1, FirstInMore
  <2>5. ASSUME NEW e \in Hearers(s), e[1] \notin K2
        PROVE  Has(C, ring'[e]) \/ FirstIn(C, L2, m_outgoing'[s])
    <3>1. e \in Device /\ ring'[e] = ring[e]
      BY <1>12, <2>5 DEF Hearers
    <3>2. CASE Has(C, ring[e])
      BY <3>1, <3>2
    <3>3. CASE ~ Has(C, ring[e])
      <4>1. FirstIn(C, L2, m_outgoing[s])
        BY <2>1, <2>2, <2>5, <3>3, FirstInMore
      <4>2. CASE m_outgoing'[s] = m_outgoing[s]
        BY <4>1, <4>2
      <4>3. CASE /\ h > 0 /\ s \in ForwardTo(d)
                 /\ m_outgoing'[s] = Append(m_outgoing[s], x)
        <5>1. Has(C, m_outgoing[s]) \/ x \in L2
          <6>1. s[1] = n
            BY <4>3 DEF ForwardTo, DevicesOf
          <6>2. CASE n \in K
            BY <2>2, <2>5, <3>3, <6>1, <6>2 DEF GetsFrom
          <6>3. CASE n \notin K
            BY <2>3, <6>3
          <6> QED
            BY <6>2, <6>3
        <5>2. FirstIn(C, L2, Append(m_outgoing[s], x))
          BY <1>9, <1>10, <4>1, <4>3, <5>1, FirstInAppended
        <5> QED
          BY <4>3, <5>2
      <4> QED
        BY <1>13, <4>2, <4>3
    <3> QED
      BY <3>2, <3>3
  <2>6. ASSUME NEW e \in Hearers(s), e[1] \notin K2, s[1] \in K2
        PROVE  GetsFrom(k, s, e)'
    <3>1. e \in Device /\ e # s /\ e[2] = s[2]
      BY DEF Hearers
    <3>2. CASE s[1] \in K
      BY <1>15, <2>2, <2>6, <3>1, <3>2
    <3>3. CASE s[1] = n /\ n \notin K /\ s = d
      <4>1. Has(C, ring[e])
        BY <1>1, <1>12, <2>6, <3>1, <3>3 DEF CopiesHeard
      <4>2. Has(C, ring'[e])
        BY <1>12, <3>1, <3>3, <4>1
      <4> QED
        BY <1>2, <4>2 DEF GetsFrom
    <3>4. CASE s[1] = n /\ n \notin K /\ s # d
      <4>1. h > 0 /\ PushOutgoing(ForwardTo(d), x)
        BY <2>3, <3>4
      <4>2. s \in ForwardTo(d)
        BY <3>4 DEF ForwardTo, DevicesOf
      <4>3. m_outgoing'[s] = Append(m_outgoing[s], x)
        BY <4>1, <4>2 DEF PushOutgoing
      <4>4. Has(C, Append(m_outgoing[s], x))
        BY <1>9, <1>10, <4>1, HasAppended
      <4> QED
        BY <1>2, <4>3, <4>4 DEF GetsFrom
    <3> QED
      BY <2>6, <3>2, <3>3, <3>4
  <2> QED
    BY <2>4, <2>5, <2>6
<1> QED
  BY <1>16, <1>17, <1>18

\* What a node has for its application, it keeps when it gets more.
LEMMA DeliveredHas ==
  ASSUME TypeOK, UNCHANGED taken, NEW n \in Node, NEW p \in Package,
         UNCHANGED m_incoming \/ PushIncoming(n, p)
  PROVE  /\ \A m \in Node : \A S : Has(S, Delivered(m)) => Has(S, Delivered(m)')
         /\ PushIncoming(n, p) => Has({p}, Delivered(n)')
<1>1. CASE UNCHANGED m_incoming /\ ~ PushIncoming(n, p)
  <2>1. \A m \in Node : Delivered(m)' = Delivered(m)
    BY <1>1 DEF Delivered
  <2> QED
    BY <1>1, <2>1
<1>2. CASE PushIncoming(n, p)
  <2>1. /\ Delivered(n)' = Append(Delivered(n), p)
        /\ \A m \in Node \ {n} : Delivered(m)' = Delivered(m)
    BY <1>2, PushIncomingDelivers
  <2>2. \A S : Has(S, Append(Delivered(n), p)) <=> Has(S, Delivered(n)) \/ p \in S
    BY DeliveredType, HasAppended
  <2> QED
    BY <2>1, <2>2
<1> QED
  BY <1>1, <1>2

\* One package of a ring buffer: of those with an id of their own, only that package
\* is affected.
LEMMA ServeIncomingFloods ==
  ASSUME NetworkInv, IsFiniteSet(Node), NEW d \in Device, ServeIncoming(d),
         NEW k \in DOMAIN sends, IdIsUnique(k), Taken(k), Flooding(k)
  PROVE  Taken(k)' /\ Flooding(k)'
<1> DEFINE n == d[1]
<1>1. TypeOK /\ n \in Node /\ sends[k] \in Sent /\ sends[k].id \in PackageIds
  BY DeviceNode, ReceivedType DEF NetworkInv, TypeOK
<1>2. PICK j \in DOMAIN sends, h \in 0 .. HopEscape - 1 :
         /\ Head(ring[d]) = FrameOf(sends[j], h)
         /\ Check(n, sends[j].id)
         /\ \/ /\ Holds(seen[n], sends[j].id)
               /\ UNCHANGED <<m_incoming, m_outgoing>>
            \/ /\ AddressAcceptable(n, sends[j].destination)
               /\ PushIncoming(n, Received(sends[j]))
               /\ UNCHANGED m_outgoing
            \/ /\ ~ AddressAcceptable(n, sends[j].destination)
               /\ h = 0
               /\ UNCHANGED <<m_incoming, m_outgoing>>
            \/ /\ ~ AddressAcceptable(n, sends[j].destination)
               /\ h > 0
               /\ PushOutgoing(ForwardTo(d), FrameOf(sends[j], h - 1))
               /\ UNCHANGED m_incoming
  BY FrameServed
<1>3. /\ ring[d] # <<>> /\ ring' = [ring EXCEPT ![d] = Tail(@)]
      /\ UNCHANGED <<taken, sends, lost>>
  BY DEF ServeIncoming
<1>4. PICK p \in Package : p = Received(sends[j]) /\ p.id = sends[j].id /\ p.id \in PackageIds
  <2>1. sends[j] \in Sent
    BY <1>1 DEF TypeOK
  <2> QED
    BY <2>1, ReceivedType
<1>5. UNCHANGED m_incoming \/ PushIncoming(n, p)
  BY <1>2, <1>4
<1> HIDE DEF n
<1>6. Knowing(k)' = Knowing(k) \cup (IF sends[k].id = sends[j].id THEN {n} ELSE {})
  BY <1>1, <1>2, <1>3, <1>4, KnowingServed
<1>7. /\ \A m \in Node : \A S : Has(S, Delivered(m)) => Has(S, Delivered(m)')
      /\ PushIncoming(n, p) => Has({p}, Delivered(n)')
  BY <1>1, <1>3, <1>5, DeliveredHas
<1>8. CASE j # k
  <2>1. Knowing(k)' = Knowing(k)
    BY <1>2, <1>6, <1>8 DEF IdIsUnique
  <2>2. Taken(k)'
    <3>1. ASSUME NEW m \in Knowing(k) \cup {sends[k].source},
                 AddressAcceptable(m, sends[k].destination)
          PROVE  Has({Received(sends[k])}, Delivered(m)')
      <4>1. m \in Node
        BY <1>1 DEF Knowing, Sent
      <4> QED
        BY <1>7, <3>1, <4>1 DEF Taken
    <3> QED
      BY <1>3, <2>1, <3>1 DEF Taken, AddressAcceptable
  <2>3. ASSUME NEW e \in Device
        PROVE  Alike(k, ring[e], ring'[e]) /\ Alike(k, m_outgoing[e], m_outgoing'[e])
    <3>1. /\ ring[e] \in Seq(Seq(Nat)) /\ m_outgoing[e] \in Seq(Seq(Nat))
          /\ ring[d] \in Seq(Seq(Nat))
          /\ ring \in [Device -> Seq(Seq(Nat))]
      BY <1>1, QueuesHold DEF TypeOK
    <3>2. Alike(k, ring[e], ring[e]) /\ Alike(k, m_outgoing[e], m_outgoing[e])
      BY DEF Alike
    <3>3. Alike(k, ring[d], Tail(ring[d]))
      <4>1. Head(ring[d]) \notin Copies(k)
        BY <1>2, <1>8, FrameIsCopy
      <4> QED
        BY <1>3, <3>1, <4>1, AlikeTail
    <3>4. Alike(k, ring[e], ring'[e])
      BY <1>3, <3>1, <3>2, <3>3
    <3>5. CASE m_outgoing'[e] = m_outgoing[e]
      BY <3>2, <3>4, <3>5
    <3>6. CASE h > 0 /\ m_outgoing'[e] = Append(m_outgoing[e], FrameOf(sends[j], h - 1))
      <4>1. PICK g \in 0 .. HopEscape - 1 : g = h - 1
        BY <3>6, HeaderAssumption
      <4>2. FrameOf(sends[j], g) \in Seq(Nat) /\ FrameOf(sends[j], g) \notin Copies(k)
        BY <1>8, FrameIsCopy
      <4>3. Alike(k, m_outgoing[e], Append(m_outgoing[e], FrameOf(sends[j], g)))
        BY <3>1, <4>2, AlikeAppended
      <4> QED
        BY <3>4, <3>6, <4>1, <4>3
    <3> QED
      BY <1>2, <3>5, <3>6 DEF PushOutgoing
  <2>4. Flooding(k)'
    BY <1>3, <2>1, <2>3, FloodsAsBefore
  <2> QED
    BY <2>2, <2>4
<1>9. CASE j = k
  <2>1. Knowing(k)' = Knowing(k) \cup {n}
    BY <1>6, <1>9
  <2>2. Holds(seen[n], sends[k].id) => n \in Knowing(k)
    BY <1>1 DEF Knowing, Checked
  <2>3. Taken(k)'
    <3>1. ASSUME NEW m \in Knowing(k) \cup {n, sends[k].source},
                 AddressAcceptable(m, sends[k].destination)
          PROVE  Has({Received(sends[k])}, Delivered(m)')
      <4>1. CASE m \in Knowing(k) \cup {sends[k].source}
        <5>1. m \in Node
          BY <1>1, <4>1 DEF Knowing, Sent
        <5> QED
          BY <1>7, <3>1, <4>1, <5>1 DEF Taken
      <4>2. CASE m = n /\ n \notin Knowing(k)
        <5>1. PushIncoming(n, p)
          BY <1>2, <1>4, <1>9, <2>2, <3>1, <4>2
        <5> QED
          BY <1>4, <1>7, <1>9, <4>2, <5>1
      <4> QED
        BY <3>1, <4>1, <4>2
    <3> QED
      BY <1>3, <2>1, <3>1 DEF Taken, AddressAcceptable
  <2>4. \/ /\ n \in Knowing(k) \/ AddressAcceptable(n, sends[k].destination) \/ h = 0
           /\ UNCHANGED m_outgoing
        \/ h > 0 /\ PushOutgoing(ForwardTo(d), FrameOf(sends[k], h - 1))
    BY <1>2, <1>9, <2>2
  <2>5. Flooding(k)'
    BY <1>2, <1>3, <1>9, <2>1, <2>4, CopyFloods DEF n
  <2> QED
    BY <2>3, <2>5
<1> QED
  BY <1>8, <1>9

\* Nobody knows an id that no package was sent with, and no frame carries it.
LEMMA NewIsUnknown ==
  ASSUME NetworkInv, CheckedWasSent, NEW id \in PackageIds,
         \A j \in DOMAIN sends : sends[j].id # id
  PROVE  /\ \A n \in Node : ~ Checked(n, id)
         /\ \A d \in Device :
               /\ \A i \in DOMAIN ring[d] : Decode(ring[d][i]).id # id
               /\ \A i \in DOMAIN m_outgoing[d] : Decode(m_outgoing[d][i]).id # id
<1>1. TypeOK /\ Numbered
  BY DEF NetworkInv
<1>2. ASSUME NEW frame, Travels(frame) PROVE Decode(frame).id # id
  <2>1. PICK j \in DOMAIN sends, h \in 0 .. HopEscape - 1 :
           Decode(frame) = [sends[j] EXCEPT !.hop_limit = h]
    BY <1>1, <1>2, TravelDecodes
  <2>2. sends[j] \in Sent
    BY <1>1 DEF TypeOK
  <2>3. Decode(frame).id = sends[j].id
    BY <2>1, <2>2 DEF Sent
  <2> QED
    BY <2>3
<1>3. \A d \in Device :
         /\ \A i \in DOMAIN ring[d] : Travels(ring[d][i])
         /\ \A i \in DOMAIN m_outgoing[d] : Travels(m_outgoing[d][i])
  BY DEF NetworkInv
<1> QED
  BY <1>2, <1>3 DEF CheckedWasSent

\* What a step of send() means for the packages that were sent before.
LEMMA SendFloodsOthers ==
  ASSUME NetworkInv, NEW s \in Sends, NEW id \in PackageIds, Send(s, id),
         NEW k \in DOMAIN sends, IdIsUnique(k), sends'[k] = sends[k], sends[k].id # id,
         Taken(k), Flooding(k)
  PROVE  Taken(k)' /\ Flooding(k)'
<1>1. TypeOK /\ sends[k] \in Sent /\ sends[k].id \in PackageIds
  BY ReceivedType DEF NetworkInv, TypeOK
<1>2. PICK p \in Sent :
         /\ p.id = id /\ p.hop_limit < HopEscape
         /\ IF AddressAcceptable(p.source, p.destination)
            THEN PushIncoming(p.source, Received(p)) ELSE UNCHANGED m_incoming
         /\ IF p.destination = p.source
            THEN UNCHANGED <<m_outgoing, seen, forgotten>>
            ELSE /\ Check(p.source, id)
                 /\ PushOutgoing(DevicesOf(p.source), FrameOf(p, p.hop_limit))
         /\ UNCHANGED <<ring, taken, lost>>
  BY <1>1, SendServed
<1>3. PICK n \in Node : n = p.source
  BY DEF Sent
<1>4. PICK r \in Package : r = Received(p)
  BY ReceivedType
<1>5. UNCHANGED m_incoming \/ PushIncoming(n, r)
  BY <1>2, <1>3, <1>4
<1>6. \A m \in Node : \A S : Has(S, Delivered(m)) => Has(S, Delivered(m)')
  BY <1>1, <1>2, <1>5, DeliveredHas
<1>7. Knowing(k)' = Knowing(k)
  <2>1. CASE p.destination = n
    BY <1>2, <1>3, <2>1 DEF Knowing, Checked, Holds
  <2>2. CASE p.destination # n
    <3>1. Knowing(k)' = Knowing(k) \cup (IF sends[k].id = id THEN {n} ELSE {})
      BY <1>1, <1>2, <1>3, <2>2, KnowingServed
    <3> QED
      BY <3>1
  <2> QED
    BY <2>1, <2>2
<1>8. Taken(k)'
  <2>1. ASSUME NEW m \in Knowing(k) \cup {sends[k].source},
               AddressAcceptable(m, sends[k].destination)
        PROVE  Has({Received(sends[k])}, Delivered(m)')
    <3>1. m \in Node
      BY <1>1 DEF Knowing, Sent
    <3> QED
      BY <1>6, <2>1, <3>1 DEF Taken
  <2> QED
    BY <1>7, <2>1 DEF Taken, AddressAcceptable
<1>9. ASSUME NEW e \in Device
      PROVE  Alike(k, ring[e], ring'[e]) /\ Alike(k, m_outgoing[e], m_outgoing'[e])
  <2>1. m_outgoing[e] \in Seq(Seq(Nat))
    BY QueuesHold
  <2>2. Alike(k, ring[e], ring'[e]) /\ Alike(k, m_outgoing[e], m_outgoing[e])
    BY <1>2 DEF Alike
  <2>3. PICK x : x = FrameOf(p, p.hop_limit)
    OBVIOUS
  <2>4. x \in Seq(Nat) /\ x \notin Copies(k)
    <3>1. p.hop_limit \in 0 .. HopEscape - 1
      <4>1. p.hop_limit \in Nat
        BY DEF Sent
      <4> QED
        BY <1>2, <4>1, HeaderAssumption
    <3>2. x \in Seq(Nat) /\ Decode(x) = [p EXCEPT !.hop_limit = p.hop_limit]
      BY <2>3, <3>1, FrameCarries
    <3>3. Decode(x).id = id
      BY <1>2, <3>2 DEF Sent
    <3> QED
      BY <3>2, <3>3 DEF Copies
  <2>5. Alike(k, m_outgoing[e], Append(m_outgoing[e], x))
    BY <2>1, <2>4, AlikeAppended
  <2>6. m_outgoing'[e] \in {m_outgoing[e], Append(m_outgoing[e], x)}
    BY <1>2, <2>3 DEF PushOutgoing
  <2> QED
    BY <2>2, <2>5, <2>6
<1>10. Flooding(k)'
  BY <1>2, <1>7, <1>9, FloodsAsBefore
<1> QED
  BY <1>8, <1>10

\* The package that is sent waits at the devices of its source, which alone knows it.
LEMMA SendFloods ==
  ASSUME NetworkInv, CheckedWasSent, NEW s \in Sends, NEW id \in PackageIds, Send(s, id),
         NEW k \in DOMAIN sends', k = Len(sends) + 1,
         \A j \in DOMAIN sends : sends[j].id # id
  PROVE  Taken(k)' /\ Flooding(k)'
<1>1. TypeOK
  BY DEF NetworkInv
<1>2. PICK p \in Sent :
         /\ p.id = id /\ p.hop_limit < HopEscape
         /\ sends' = Append(sends, p)
         /\ IF AddressAcceptable(p.source, p.destination)
            THEN PushIncoming(p.source, Received(p)) ELSE UNCHANGED m_incoming
         /\ IF p.destination = p.source
            THEN UNCHANGED <<m_outgoing, seen, forgotten>>
            ELSE /\ Check(p.source, id)
                 /\ PushOutgoing(DevicesOf(p.source), FrameOf(p, p.hop_limit))
         /\ UNCHANGED <<ring, taken, lost>>
  BY <1>1, SendServed
<1>3. PICK n \in Node, H \in 0 .. HopEscape - 1 : n = p.source /\ H = p.hop_limit
  <2>1. p.source \in Node /\ p.hop_limit \in Nat
    BY DEF Sent
  <2> QED
    BY <1>2, <2>1, HeaderAssumption
<1>4. PICK r \in Package : r = Received(p)
  BY ReceivedType
<1>5. sends'[k] = p
  BY <1>1, <1>2, AppendProperties DEF TypeOK
<1>6. AddressAcceptable(n, p.destination) => Has({Received(p)}, Delivered(n)')
  <2>1. UNCHANGED m_incoming \/ PushIncoming(n, r)
    BY <1>2, <1>3, <1>4
  <2> QED
    BY <1>1, <1>2, <1>3, <1>4, <2>1, DeliveredHas
<1>7. Knowing(k)' = IF p.destination = n THEN {} ELSE {n}
  <2>1. Knowing(k)' = {m \in Node : Checked(m, id)'}
    BY <1>2, <1>5 DEF Knowing
  <2>2. \A m \in Node : ~ Checked(m, id)
    BY NewIsUnknown
  <2>3. CASE p.destination = n
    BY <1>2, <1>3, <2>1, <2>2, <2>3 DEF Checked, Holds
  <2>4. CASE p.destination # n
    <3>1. Check(n, id)
      BY <1>2, <1>3, <2>4
    <3>2. \A m \in Node : Checked(m, id)' <=> m = n
      BY <1>1, <2>2, <3>1, CheckKeeps, CheckAddsOne
    <3> QED
      BY <2>1, <2>4, <3>2
  <2> QED
    BY <2>3, <2>4
<1>8. Taken(k)'
  <2>1. \A m \in Knowing(k)' \cup {n} : m = n
    BY <1>7
  <2> QED
    BY <1>3, <1>5, <1>6, <2>1 DEF Taken, AddressAcceptable
<1>9. PICK C : C = Copies(k)' /\ C = {b \in Seq(Nat) : Decode(b).id = id}
  BY <1>2, <1>5 DEF Copies
<1>10. ASSUME NEW e \in Device PROVE ~ Has(C, ring[e]) /\ ~ Has(C, m_outgoing[e])
  BY <1>9, NewIsUnknown DEF Has
<1>11. UNCHANGED ring
  BY <1>2
<1>12. CASE p.destination = n
  <2>1. UNCHANGED m_outgoing
    BY <1>2, <1>3, <1>12
  <2>2. CopiesHeard(k)'
    BY <1>9, <1>10, <1>11, <2>1 DEF CopiesHeard
  <2>3. SourceSpreads(k)'
    BY <1>3, <1>5, <1>12 DEF SourceSpreads
  <2>4. Spreads(k)'
    BY <1>3, <1>5, <1>12 DEF Spreads
  <2> QED
    BY <1>8, <2>2, <2>3, <2>4 DEF Flooding
<1>13. CASE p.destination # n
  <2>1. Knowing(k)' = {n}
    BY <1>7, <1>13
  <2>2. PICK L : L = Lasting(k)' /\ L = {b \in C : Decode(b).hop_limit = H}
    <3>1. Cardinality({n}) = 1
      BY FS_Singleton
    <3>2. H + 1 - 1 = H /\ H .. H = {H}
      BY HeaderAssumption
    <3>3. Lasting(k)' = {b \in C : Decode(b).hop_limit \in H + 1 - 1 .. H}
      BY <1>3, <1>5, <1>9, <2>1, <3>1 DEF Lasting
    <3> QED
      BY <3>2, <3>3
  <2>3. PICK x \in Seq(Nat) : x = FrameOf(p, H) /\ x \in L /\ x \in C
    <3>1. PICK x \in Seq(Nat) : /\ x = FrameOf(p, H)
                                /\ Decode(x) = [p EXCEPT !.hop_limit = H]
      BY FrameCarries
    <3>2. Decode(x).id = id /\ Decode(x).hop_limit = H
      BY <1>2, <3>1 DEF Sent
    <3> QED
      BY <1>9, <2>2, <3>1, <3>2
  <2>4. PushOutgoing(DevicesOf(n), x)
    BY <1>2, <1>3, <1>13, <2>3
  <2>5. ASSUME NEW e \in Device
        PROVE  /\ ~ Has(C, ring'[e])
               /\ Has(C, m_outgoing'[e]) <=> e[1] = n
               /\ FirstIn(C, L, m_outgoing'[e])
    <3>1. ~ Has(C, ring'[e])
      BY <1>10, <1>11
    <3>2. CASE e[1] = n
      <4>1. m_outgoing'[e] = Append(m_outgoing[e], x)
        BY <2>4, <3>2 DEF PushOutgoing, DevicesOf
      <4>2. m_outgoing[e] \in Seq(Seq(Nat)) /\ FirstIn(C, L, m_outgoing[e])
        BY <1>10, QueuesHold, FirstOfNone
      <4>3. /\ Has(C, Append(m_outgoing[e], x))
            /\ FirstIn(C, L, Append(m_outgoing[e], x))
        BY <2>3, <4>2, HasAppended, FirstInAppended
      <4> QED
        BY <3>1, <3>2, <4>1, <4>3
    <3>3. CASE e[1] # n
      <4>1. m_outgoing'[e] = m_outgoing[e]
        BY <2>4, <3>3 DEF PushOutgoing, DevicesOf
      <4> QED
        BY <1>10, <3>1, <3>3, <4>1, FirstOfNone
    <3> QED
      BY <3>2, <3>3
  <2>6. CopiesHeard(k)'
    BY <1>9, <2>1, <2>5 DEF CopiesHeard
  <2>7. ASSUME NEW d \in Device, d[1] = n, NEW e PROVE GetsFrom(k, d, e)'
    BY <1>9, <2>5, <2>7 DEF GetsFrom
  <2>8. SourceSpreads(k)'
    BY <1>3, <1>5, <2>1, <2>7 DEF SourceSpreads, DevicesOf
  <2>9. Spreads(k)'
    <3>1. \A d \in Device : FirstIn(C, L, ring'[d])
      BY <2>5, FirstOfNone
    <3> QED
      BY <1>9, <2>1, <2>2, <2>5, <2>7, <3>1 DEF Spreads
  <2> QED
    BY <1>8, <2>6, <2>8, <2>9 DEF Flooding
<1> QED
  BY <1>12, <1>13

LEMMA InitFlood == Init => FloodInv
<1> SUFFICES ASSUME Init PROVE FloodInv
  OBVIOUS
<1>1. sends = <<>>
  BY DEF Init
<1>2. ASSUME NEW n \in Node, NEW id \in PackageIds PROVE ~ Checked(n, id)
  <2>1. seen[n] = <<>> /\ forgotten[n] = {}
    BY DEF Init
  <2> QED
    BY <2>1 DEF Checked, Holds
<1> QED
  BY <1>1, <1>2 DEF FloodInv, CheckedWasSent

\* A check makes known the id of a package that was sent.
LEMMA CheckOfSent ==
  ASSUME TypeOK, CheckedWasSent, NEW n \in Node, NEW id \in PackageIds, Check(n, id),
         \A k \in DOMAIN sends : k \in DOMAIN sends' /\ sends'[k] = sends[k],
         \E k \in DOMAIN sends' :
            sends'[k].id = id /\ sends'[k].destination # sends'[k].source
  PROVE  CheckedWasSent'
<1> SUFFICES ASSUME NEW m \in Node, NEW x \in PackageIds, Checked(m, x)'
             PROVE  \E k \in DOMAIN sends' :
                       sends'[k].id = x /\ sends'[k].destination # sends'[k].source
  BY DEF CheckedWasSent
<1>1. CASE Checked(m, x)
  <2>1. PICK k \in DOMAIN sends : sends[k].id = x /\ sends[k].destination # sends[k].source
    BY <1>1 DEF CheckedWasSent
  <2> QED
    BY <2>1
<1>2. CASE x = id
  BY <1>2
<1> QED
  BY <1>1, <1>2, CheckAddsOne

LEMMA KnownAsBefore ==
  ASSUME CheckedWasSent, UNCHANGED <<seen, forgotten>>,
         \A k \in DOMAIN sends : k \in DOMAIN sends' /\ sends'[k] = sends[k]
  PROVE  CheckedWasSent'
BY DEF CheckedWasSent, Checked, Holds

LEMMA SendKeepsFlood ==
  ASSUME NetworkInv, FloodInv, NEW s \in Sends, NEW id \in PackageIds, Send(s, id)
  PROVE  FloodInv'
<1>1. TypeOK /\ CheckedWasSent
  BY DEF NetworkInv, FloodInv
<1>2. PICK p \in Sent :
         /\ p.id = id
         /\ sends' = Append(sends, p)
         /\ IF p.destination = p.source
            THEN UNCHANGED <<m_outgoing, seen, forgotten>>
            ELSE /\ Check(p.source, id)
                 /\ PushOutgoing(DevicesOf(p.source), FrameOf(p, p.hop_limit))
  BY <1>1, SendServed
<1>3. sends \in Seq(Sent) /\ Len(sends) \in Nat /\ DOMAIN sends = 1 .. Len(sends)
  BY <1>1 DEF TypeOK
<1>4. /\ DOMAIN sends' = 1 .. Len(sends) + 1
      /\ sends'[Len(sends) + 1] = p
      /\ \A k \in DOMAIN sends : k \in DOMAIN sends' /\ sends'[k] = sends[k]
  <2>1. PICK q \in Seq(Sent) : q = Append(sends, p)
    BY <1>3, AppendProperties
  <2>2. /\ Len(q) = Len(sends) + 1 /\ q[Len(sends) + 1] = p
        /\ \A k \in 1 .. Len(sends) : q[k] = sends[k]
    BY <1>3, <2>1, AppendProperties
  <2>3. DOMAIN q = 1 .. Len(sends) + 1
    BY <2>2
  <2>4. \A k \in DOMAIN sends : k \in DOMAIN q /\ q[k] = sends[k]
    BY <1>3, <2>2, <2>3
  <2> QED
    BY <1>2, <2>1, <2>2, <2>3, <2>4
<1>5. CheckedWasSent'
  <2>1. CASE p.destination = p.source
    BY <1>1, <1>2, <1>4, <2>1, KnownAsBefore
  <2>2. CASE p.destination # p.source
    <3>1. p.source \in Node
      BY DEF Sent
    <3>2. Len(sends) + 1 \in DOMAIN sends'
      BY <1>3, <1>4
    <3>3. \E k \in DOMAIN sends' :
             sends'[k].id = id /\ sends'[k].destination # sends'[k].source
      BY <1>2, <1>4, <2>2, <3>2
    <3> QED
      BY <1>1, <1>2, <1>4, <2>2, <3>1, <3>3, CheckOfSent
  <2> QED
    BY <2>1, <2>2
<1>6. ASSUME NEW k \in DOMAIN sends', IdIsUnique(k)'
      PROVE  Taken(k)' /\ Flooding(k)'
  <2>1. \A j \in DOMAIN sends' : sends'[j].id = sends'[k].id => j = k
    BY <1>6 DEF IdIsUnique
  <2>2. CASE k \in DOMAIN sends
    <3>1. sends'[k] = sends[k] /\ IdIsUnique(k)
      BY <1>4, <2>1, <2>2 DEF IdIsUnique
    <3>2. sends[k].id # id
      <4>1. Len(sends) + 1 \in DOMAIN sends' /\ k # Len(sends) + 1
        BY <1>3, <1>4, <2>2
      <4> QED
        BY <1>2, <1>4, <2>1, <3>1, <4>1
    <3>3. Taken(k) /\ Flooding(k)
      BY <2>2, <3>1 DEF FloodInv
    <3> QED
      BY <2>2, <3>1, <3>2, <3>3, SendFloodsOthers
  <2>3. CASE k = Len(sends) + 1
    <3>1. \A j \in DOMAIN sends : sends[j].id # id
      <4> TAKE j \in DOMAIN sends
      <4>1. j # k /\ j \in DOMAIN sends' /\ sends'[j] = sends[j]
        BY <1>3, <1>4, <2>3
      <4> QED
        BY <1>2, <1>4, <2>1, <2>3, <4>1
    <3> QED
      BY <1>1, <2>3, <3>1, SendFloods
  <2> QED
    BY <1>3, <1>4, <2>2, <2>3
<1> QED
  BY <1>5, <1>6 DEF FloodInv

LEMMA NextFlood ==
  ASSUME IsFiniteSet(Node), NetworkInv, FloodInv, [Next]_vars
  PROVE  FloodInv'
<1>1. CASE \E s \in Sends, id \in PackageIds : Send(s, id)
  BY <1>1, SendKeepsFlood
<1>2. ASSUME UNCHANGED <<sends, seen, forgotten, lost, ring, m_outgoing>>,
             \A m \in Node : Delivered(m)' = Delivered(m)
      PROVE  FloodInv'
  <2>1. CheckedWasSent'
    BY <1>2, KnownAsBefore DEF FloodInv
  <2>2. ASSUME NEW k \in DOMAIN sends, IdIsUnique(k) PROVE Taken(k)' /\ Flooding(k)'
    <3>1. Taken(k) /\ Flooding(k) /\ sends[k] \in Sent
      BY <2>2 DEF FloodInv, NetworkInv, TypeOK
    <3>2. Knowing(k)' = Knowing(k) /\ sends'[k] = sends[k]
      BY <1>2 DEF Knowing, Checked, Holds
    <3>3. \A m \in Knowing(k) \cup {sends[k].source} : Delivered(m)' = Delivered(m)
      BY <1>2, <3>1 DEF Knowing, Sent
    <3>4. Taken(k)'
      BY <3>1, <3>2, <3>3 DEF Taken, AddressAcceptable
    <3>5. \A d \in Device : /\ Alike(k, ring[d], ring'[d])
                            /\ Alike(k, m_outgoing[d], m_outgoing'[d])
      BY <1>2 DEF Alike
    <3> QED
      BY <1>2, <3>1, <3>2, <3>4, <3>5, FloodsAsBefore
  <2> QED
    BY <1>2, <2>1, <2>2 DEF FloodInv, IdIsUnique
<1>3. CASE \E n \in Node : Incoming(n)
  <2>1. PICK n \in Node : Incoming(n)
    BY <1>3
  <2>2. \A m \in Node : Delivered(m)' = Delivered(m)
    BY <2>1, IncomingDeliversNothing
  <2> QED
    BY <1>2, <2>1, <2>2 DEF Incoming
<1>4. CASE \E d \in Device : ServeIncoming(d)
  <2>1. PICK d \in Device : ServeIncoming(d)
    BY <1>4
  <2>2. UNCHANGED sends
    BY <2>1 DEF ServeIncoming
  <2>3. ASSUME NEW k \in DOMAIN sends, IdIsUnique(k) PROVE Taken(k)' /\ Flooding(k)'
    <3>1. Taken(k) /\ Flooding(k)
      BY <2>3 DEF FloodInv
    <3> QED
      BY <2>1, <2>3, <3>1, ServeIncomingFloods
  <2>4. CheckedWasSent'
    <3>1. PICK j \in DOMAIN sends :
             Check(d[1], sends[j].id) /\ sends[j].destination # sends[j].source
      BY <2>1, FrameServed
    <3>2. TypeOK /\ CheckedWasSent /\ d[1] \in Node /\ sends[j] \in Sent
      BY DeviceNode DEF NetworkInv, TypeOK, FloodInv
    <3>3. sends[j].id \in PackageIds
      BY <3>2 DEF Sent
    <3> QED
      BY <2>2, <3>1, <3>2, <3>3, CheckOfSent
  <2> QED
    BY <2>2, <2>3, <2>4 DEF FloodInv, IdIsUnique
<1>5. CASE \E d \in Device : \E deaf \in SUBSET Hearers(d) : ServeOutgoing(d, deaf)
  <2>1. PICK d \in Device : \E deaf \in SUBSET Hearers(d) : ServeOutgoing(d, deaf)
    BY <1>5
  <2>2. PICK deaf \in SUBSET Hearers(d) : ServeOutgoing(d, deaf)
    BY <2>1
  <2>3. UNCHANGED <<m_incoming, seen, taken, sends, forgotten>>
    BY <2>2 DEF ServeOutgoing
  <2>4. CheckedWasSent'
    BY <2>3, KnownAsBefore DEF FloodInv
  <2>5. ASSUME NEW k \in DOMAIN sends, IdIsUnique(k) PROVE Taken(k)' /\ Flooding(k)'
    <3>1. Taken(k) /\ Flooding(k)
      BY <2>5 DEF FloodInv
    <3>2. Taken(k)'
      BY <2>3, <3>1 DEF Taken, Knowing, Checked, Holds, Delivered
    <3> QED
      BY <2>2, <3>1, <3>2, ServeOutgoingFloods
  <2> QED
    BY <2>3, <2>4, <2>5 DEF FloodInv, IdIsUnique
<1>6. CASE UNCHANGED vars
  BY <1>2, <1>6 DEF vars, Delivered
<1> QED
  BY <1>1, <1>3, <1>4, <1>5, <1>6, Zenon DEF Next

\* When nothing is on its way any more, whom a package spreads to knows it.
LEMMA FloodedReaches ==
  ASSUME Connected, Everyone \notin Node, NetworkInv, FloodInv
  PROVE  FloodingReaches
<1> SUFFICES ASSUME Quiet, ~ lost, NEW k \in DOMAIN sends, IdIsUnique(k),
                    NEW n \in Targets(k)
             PROVE  \E i \in DOMAIN Delivered(n) : Delivered(n)[i] = Received(sends[k])
  BY DEF FloodingReaches
<1> DEFINE p == sends[k]
           K == Knowing(k)
<1>1. Taken(k) /\ CopiesHeard(k) /\ SourceSpreads(k) /\ Spreads(k)
  BY DEF FloodInv, Flooding
<1>2. p \in Sent /\ p.source \in Node /\ p.hop_limit \in Nat /\ p.source # Everyone
  <2>1. p \in Sent
    BY DEF NetworkInv, TypeOK
  <2> QED
    BY <2>1 DEF Sent
<1>3. ASSUME NEW d \in Device, NEW e \in Hearers(d), GetsFrom(k, d, e)
      PROVE  e[1] \in K
  <2>1. ring[e] = <<>> /\ m_outgoing[d] = <<>>
    BY DEF Quiet, Hearers
  <2> QED
    BY <1>3, <2>1 DEF GetsFrom, Has
<1> SUFFICES n \in K \cup {p.source} /\ AddressAcceptable(n, p.destination)
  BY <1>1 DEF Taken, Has
<1>4. CASE p.destination = Everyone
  <2>1. AddressAcceptable(n, p.destination)
    BY <1>4 DEF AddressAcceptable
  <2>2. CASE n = p.source
    BY <2>1, <2>2
  <2>3. CASE n \in Neighbours(p.source)
    <3>1. PICK d \in DevicesOf(p.source) : \E e \in Hearers(d) : n = e[1]
      BY <2>3 DEF Neighbours
    <3>2. PICK e \in Hearers(d) : n = e[1]
      BY <3>1
    <3>3. GetsFrom(k, d, e) /\ d \in Device
      BY <1>1, <1>2, <1>4 DEF SourceSpreads, DevicesOf
    <3> QED
      BY <1>3, <2>1, <3>2, <3>3
  <2> QED
    BY <1>4, <2>2, <2>3 DEF Targets
<1>5. CASE p.destination # Everyone /\ p.destination = p.source
  BY <1>5 DEF Targets, AddressAcceptable
<1>6. CASE p.destination # Everyone /\ p.destination # p.source
  <2>1. n = p.destination /\ n \in Node /\ p.hop_limit + 2 >= Cardinality(Node)
    BY <1>6 DEF Targets
  <2>2. AddressAcceptable(n, p.destination)
    BY <2>1 DEF AddressAcceptable
  <2>3. ASSUME n \notin K PROVE FALSE
    <3>1. K \in SUBSET Node /\ K \subseteq Node \ {n} /\ p.source \in K
      BY <1>1, <1>6, <2>3 DEF Knowing, SourceSpreads
    <3>2. /\ IsFiniteSet(Node \ {n}) /\ Cardinality(Node \ {n}) = Cardinality(Node) - 1
          /\ Cardinality(Node) \in Nat /\ Cardinality(K) \in Nat
          /\ Cardinality(K) <= Cardinality(Node \ {n})
      <4>1. IsFiniteSet(Node)
        BY DEF Connected
      <4>2. /\ IsFiniteSet(Node \ {n}) /\ Cardinality(Node \ {n}) = Cardinality(Node) - 1
        BY <2>1, <4>1, FS_RemoveElement
      <4>3. Cardinality(K) <= Cardinality(Node \ {n})
        BY <3>1, <4>2, FS_Subset
      <4> QED
        BY <4>1, <4>2, <4>3, KnowingCount, FS_CardinalityType
    <3>3. Cardinality(K) <= p.hop_limit + 1
      BY <1>2, <2>1, <3>2
    <3>4. PICK d \in Device : \E e \in Hearers(d) : d[1] \in K /\ e[1] \notin K
      BY <2>1, <2>3, <3>1 DEF Connected
    <3>5. PICK e \in Hearers(d) : d[1] \in K /\ e[1] \notin K
      BY <3>4
    <3>6. GetsFrom(k, d, e)
      BY <1>1, <1>6, <2>1, <2>3, <3>3, <3>5 DEF Spreads
    <3> QED
      BY <1>3, <3>5, <3>6
  <2> QED
    BY <2>2, <2>3
<1> QED
  BY <1>4, <1>5, <1>6

-----------------------------------------------------------------------------
(* Theorems *)

\* Every copy carries the header of its package, and nodes remember what they took.
THEOREM NetworkInvariant == Spec => []NetworkInv
<1> QED
  BY InitInv, NextInv, PTL DEF Spec

\* The queues, the ring buffers and the caches keep their types.
THEOREM TypeCorrect == Spec => []TypeOK
<1>1. NetworkInv => TypeOK
  BY DEF NetworkInv
<1> QED
  BY <1>1, NetworkInvariant, PTL

\* A package gets to the application of a node once, unless its id was forgotten.
THEOREM NoCopyDelivered == Spec => []DeliveredOnce
<1>1. NetworkInv => DeliveredOnce
  BY DEF NetworkInv
<1> QED
  BY <1>1, NetworkInvariant, PTL

\* Whatever the topology, the nodes deliver packages as Delivery says: as they were
\* sent, to whom they were sent, and again only when their ids were forgotten.
THEOREM DeliveryImplemented == Spec => ImplementsDelivery
<1> QED
  BY InitDelivery, NextDelivery, NetworkInvariant, PTL
     DEF Spec, ImplementsDelivery, NetworkDelivery!Spec

\* Until a transmission is lost, a package with an id of its own is on its way from
\* every node that it has got to, to all that listen to it, while its hop limit allows
\* for the nodes it has got to.
THEOREM FloodInvariant ==
  ASSUME IsFiniteSet(Node)
  PROVE  Spec => []FloodInv
<1>1. NetworkInv /\ FloodInv /\ [Next]_vars => FloodInv'
  BY NextFlood
<1> QED
  BY <1>1, InitFlood, NetworkInvariant, PTL DEF Spec

\* When flooding has ended on a connected network and nothing was lost, a package for
\* one node is delivered if its hop limit allows for the longest way, a broadcast to all
\* neighbours.  No node has the broadcast address.
THEOREM FloodReaches ==
  ASSUME Connected, Everyone \notin Node
  PROVE  Spec => []FloodingReaches
<1>1. NetworkInv /\ FloodInv => FloodingReaches
  BY FloodedReaches
<1>2. Spec => []FloodInv
  BY FloodInvariant DEF Connected
<1> QED
  BY <1>1, <1>2, NetworkInvariant, PTL
=============================================================================
