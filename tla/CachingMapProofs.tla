-------------------------- MODULE CachingMapProofs --------------------------
(***************************************************************************)
(* The operations of CachingMap keep its list and its map together, and    *)
(* forget nothing while there is a place left.                             *)
(***************************************************************************)
EXTENDS CachingMap, SequenceTheorems, FiniteSetTheorems, TLAPS

\* Erasing one place of a sequence keeps every other element, in order.
LEMMA WithoutPlaceProperties ==
  ASSUME NEW S, NEW q \in Seq(S), NEW i \in DOMAIN q
  PROVE  /\ WithoutPlace(q, i) \in Seq(S)
         /\ Len(WithoutPlace(q, i)) = Len(q) - 1
         /\ \A j \in 1 .. Len(q) - 1 :
              WithoutPlace(q, i)[j] = IF j < i THEN q[j] ELSE q[j + 1]
<1> DEFINE front == SubSeq(q, 1, i - 1)
           back == SubSeq(q, i + 1, Len(q))
<1>1. /\ i \in 1 .. Len(q) /\ Len(q) \in Nat
      /\ \A j \in 1 .. Len(q) : q[j] \in S
  OBVIOUS
<1>2. /\ front \in Seq(S)
      /\ Len(front) = i - 1
      /\ \A j \in 1 .. i - 1 : front[j] = q[j]
  <2>1. \A j \in 1 .. i - 1 : q[j] \in S
    BY <1>1
  <2> QED
    BY <1>1, <2>1, SubSeqProperties
<1>3. /\ back \in Seq(S)
      /\ Len(back) = Len(q) - i
      /\ \A j \in 1 .. Len(q) - i : back[j] = q[i + j]
  <2>1. \A j \in i + 1 .. Len(q) : q[j] \in S
    BY <1>1
  <2>2. /\ back \in Seq(S)
        /\ Len(back) = IF i + 1 <= Len(q) THEN Len(q) - (i + 1) + 1 ELSE 0
        /\ \A j \in 1 .. Len(q) - (i + 1) + 1 : back[j] = q[i + 1 + j - 1]
    BY <1>1, <2>1, SubSeqProperties
  <2> QED
    BY <1>1, <2>2
<1> HIDE DEF front, back
<1>4. /\ front \o back \in Seq(S)
      /\ Len(front \o back) = Len(q) - 1
      /\ \A j \in 1 .. Len(q) - 1 :
           (front \o back)[j] = IF j <= i - 1 THEN front[j] ELSE back[j - (i - 1)]
  BY <1>1, <1>2, <1>3, ConcatProperties
<1>5. \A j \in 1 .. Len(q) - 1 : (front \o back)[j] = IF j < i THEN q[j] ELSE q[j + 1]
  <2> TAKE j \in 1 .. Len(q) - 1
  <2>1. CASE j < i
    BY <1>1, <1>2, <1>4, <2>1
  <2>2. CASE ~ (j < i)
    <3>1. j - (i - 1) \in 1 .. Len(q) - i /\ i + (j - (i - 1)) = j + 1
      BY <1>1, <2>2
    <3>2. (front \o back)[j] = back[j - (i - 1)]
      BY <1>1, <1>4, <2>2
    <3> QED
      BY <1>3, <2>2, <3>1, <3>2
  <2> QED
    BY <2>1, <2>2
<1> QED
  BY <1>4, <1>5 DEF WithoutPlace, front, back

\* What is in the sequence at another place is still in it.
LEMMA WithoutPlaceKeeps ==
  ASSUME NEW S, NEW q \in Seq(S), NEW i \in DOMAIN q, NEW j \in DOMAIN q, j # i
  PROVE  \E k \in DOMAIN WithoutPlace(q, i) : WithoutPlace(q, i)[k] = q[j]
<1> DEFINE k == IF j < i THEN j ELSE j - 1
<1>1. i \in 1 .. Len(q) /\ j \in 1 .. Len(q) /\ Len(q) \in Nat
  OBVIOUS
<1>2. k \in 1 .. Len(q) - 1
  BY <1>1
<1>3. DOMAIN WithoutPlace(q, i) = 1 .. Len(q) - 1
  BY WithoutPlaceProperties
<1>4. WithoutPlace(q, i)[k] = q[j]
  <2>1. WithoutPlace(q, i)[k] = IF k < i THEN q[k] ELSE q[k + 1]
    BY <1>2, WithoutPlaceProperties
  <2>2. IF k < i THEN k = j ELSE k + 1 = j
    BY <1>1
  <2> HIDE DEF k
  <2> QED
    BY <2>1, <2>2
<1>5. k \in DOMAIN WithoutPlace(q, i)
  BY <1>2, <1>3
<1> HIDE DEF k
<1> QED
  BY <1>4, <1>5, Zenon

LEMMA PlaceProperties ==
  ASSUME NEW c, NEW key, \E i \in DOMAIN c.list : c.list[i] = key
  PROVE  Place(c, key) \in DOMAIN c.list /\ c.list[Place(c, key)] = key
  BY DEF Place

\* The list left when a cached key is taken out still has all the other ones.
LEMMA OtherKeysStay ==
  ASSUME NEW Key, NEW Value, NEW c, IsCache(c, Key, Value),
         NEW key \in Cached(c)
  PROVE  /\ WithoutPlace(c.list, Place(c, key)) \in Seq(Key)
         /\ \A k \in Cached(c) \ {key} :
              \E i \in DOMAIN WithoutPlace(c.list, Place(c, key)) :
                 WithoutPlace(c.list, Place(c, key))[i] = k
<1>1. c.list \in Seq(Key)
  BY DEF IsCache
<1>2. Place(c, key) \in DOMAIN c.list /\ c.list[Place(c, key)] = key
  <2>1. \E i \in DOMAIN c.list : c.list[i] = key
    BY DEF IsCache
  <2> QED
    BY <2>1, PlaceProperties
<1>3. WithoutPlace(c.list, Place(c, key)) \in Seq(Key)
  BY <1>1, <1>2, WithoutPlaceProperties
<1>4. ASSUME NEW k \in Cached(c) \ {key}
      PROVE  \E i \in DOMAIN WithoutPlace(c.list, Place(c, key)) :
                WithoutPlace(c.list, Place(c, key))[i] = k
  <2>1. PICK j \in DOMAIN c.list : c.list[j] = k
    BY DEF IsCache
  <2>2. j # Place(c, key)
    BY <1>2, <2>1
  <2> QED
    BY <1>1, <1>2, <2>1, <2>2, WithoutPlaceKeeps
<1> QED
  BY <1>3, <1>4

\* erase() keeps the cache whole.
LEMMA EraseIsCache ==
  ASSUME NEW Key, NEW Value, NEW c, IsCache(c, Key, Value), NEW key
  PROVE  IsCache(Erase(c, key), Key, Value)
<1>1. CASE key \notin Cached(c)
  BY <1>1 DEF Erase
<1>2. CASE key \in Cached(c)
  <2> DEFINE list == WithoutPlace(c.list, Place(c, key))
             map == WithoutKey(c.map, key)
  <2>1. /\ list \in Seq(Key)
        /\ \A k \in Cached(c) \ {key} : \E i \in DOMAIN list : list[i] = k
    BY <1>2, OtherKeysStay
  <2>2. /\ DOMAIN map = Cached(c) \ {key}
        /\ \A k \in DOMAIN map : map[k] \in Value
    BY DEF WithoutKey, Cached, IsCache
  <2>3. Erase(c, key) = [list |-> list, map |-> map]
    BY <1>2 DEF Erase
  <2> HIDE DEF list, map
  <2>4. Erase(c, key).list = list /\ Erase(c, key).map = map
    BY <2>3
  <2> QED
    BY <2>1, <2>2, <2>3, <2>4 DEF IsCache, Cached
<1> QED
  BY <1>1, <1>2

\* get_update() keeps the cache whole, and what it caches.
LEMMA GetUpdateIsCache ==
  ASSUME NEW Key, NEW Value, NEW c, IsCache(c, Key, Value), NEW key
  PROVE  IsCache(GetUpdate(c, key), Key, Value) /\ GetUpdate(c, key).map = c.map
<1>1. CASE key \notin Cached(c)
  BY <1>1 DEF GetUpdate
<1>2. CASE key \in Cached(c)
  <2> DEFINE rest == WithoutPlace(c.list, Place(c, key))
             list == Append(rest, key)
  <2>1. /\ rest \in Seq(Key)
        /\ \A k \in Cached(c) \ {key} : \E i \in DOMAIN rest : rest[i] = k
    BY <1>2, OtherKeysStay
  <2>2. key \in Key
    BY <1>2 DEF IsCache
  <2> HIDE DEF rest
  <2>3. /\ list \in Seq(Key)
        /\ DOMAIN list = 1 .. Len(rest) + 1
        /\ \A i \in DOMAIN rest : list[i] = rest[i]
        /\ list[Len(rest) + 1] = key
    BY <2>1, <2>2, AppendProperties
  <2>4. \A k \in Cached(c) : \E i \in DOMAIN list : list[i] = k
    <3> TAKE k \in Cached(c)
    <3>1. CASE k = key
      BY <2>1, <2>3, <3>1
    <3>2. CASE k # key
      BY <2>1, <2>3, <3>2
    <3> QED
      BY <3>1, <3>2
  <2>5. GetUpdate(c, key) = [list |-> list, map |-> c.map]
    BY <1>2 DEF GetUpdate, IsCache, rest
  <2> HIDE DEF list
  <2>6. GetUpdate(c, key).list = list /\ GetUpdate(c, key).map = c.map
    BY <2>5
  <2> QED
    BY <2>3, <2>4, <2>5, <2>6 DEF IsCache, Cached
<1> QED
  BY <1>1, <1>2

\* put_update() keeps the cache whole.
LEMMA PutUpdateIsCache ==
  ASSUME NEW Key, NEW Value, NEW c, IsCache(c, Key, Value),
         NEW key \in Key, NEW value \in Value, NEW size \in Nat \ {0}
  PROVE  IsCache(PutUpdate(c, key, value, size), Key, Value)
<1> DEFINE put == PutUpdate(c, key, value, size)
<1>1. CASE key \in Cached(c)
  <2> DEFINE u == GetUpdate(c, key)
             map == WithKey(u.map, key, value)
  <2>1. IsCache(u, Key, Value) /\ u.map = c.map
    BY GetUpdateIsCache
  <2>2. put = [u EXCEPT !.map = map]
    BY <1>1 DEF PutUpdate
  <2>3. /\ DOMAIN map = Cached(c)
        /\ \A k \in DOMAIN map : map[k] \in Value
    BY <1>1, <2>1 DEF WithKey, Cached, IsCache
  <2> HIDE DEF u, map, put
  <2>4. put = [list |-> u.list, map |-> map]
    BY <2>1, <2>2 DEF IsCache
  <2>5. put.list = u.list /\ put.map = map
    BY <2>4
  <2>6. IsCache(put, Key, Value)
    BY <2>1, <2>3, <2>4, <2>5 DEF IsCache, Cached
  <2> QED
    BY <2>6 DEF put
<1>2. CASE key \notin Cached(c)
  <2> DEFINE full == Len(c.list) = size
             kept == IF full THEN [list |-> Tail(c.list),
                                   map |-> WithoutKey(c.map, Head(c.list))]
                             ELSE c
             list == Append(kept.list, key)
             map == WithKey(kept.map, key, value)
  <2>1. /\ kept.list \in Seq(Key)
        /\ Cached(kept) \subseteq Key
        /\ \A k \in Cached(kept) :
             kept.map[k] \in Value /\ \E i \in DOMAIN kept.list : kept.list[i] = k
    <3>1. CASE ~ full
      BY <3>1 DEF IsCache
    <3>2. CASE full
      <4>1. c.list \in Seq(Key) /\ c.list # <<>>
        BY <3>2 DEF IsCache
      <4>2. /\ Tail(c.list) \in Seq(Key)
            /\ Len(Tail(c.list)) = Len(c.list) - 1
            /\ \A i \in 1 .. Len(Tail(c.list)) : Tail(c.list)[i] = c.list[i + 1]
        BY <4>1, HeadTailProperties
      <4>3. kept.list = Tail(c.list) /\ kept.map = WithoutKey(c.map, Head(c.list))
        BY <3>2
      <4>4. /\ Cached(kept) = Cached(c) \ {Head(c.list)}
            /\ \A k \in Cached(kept) : kept.map[k] = c.map[k]
        BY <4>3 DEF Cached, WithoutKey
      <4>5. ASSUME NEW k \in Cached(kept)
            PROVE  \E i \in DOMAIN Tail(c.list) : Tail(c.list)[i] = k
        <5>1. k \in Cached(c) /\ k # Head(c.list)
          BY <4>4
        <5>2. PICK j \in DOMAIN c.list : c.list[j] = k
          BY <5>1 DEF IsCache
        <5>3. j # 1 /\ j \in 1 .. Len(c.list)
          BY <4>1, <5>1, <5>2
        <5>4. j - 1 \in 1 .. Len(Tail(c.list)) /\ (j - 1) + 1 = j
          BY <4>1, <4>2, <5>3
        <5>5. Tail(c.list)[j - 1] = k /\ j - 1 \in DOMAIN Tail(c.list)
          BY <4>2, <5>2, <5>4
        <5> QED
          BY <5>5
      <4> HIDE DEF kept
      <4> QED
        BY <4>2, <4>3, <4>4, <4>5 DEF IsCache
    <3> QED
      BY <3>1, <3>2
  <2>2. put = [list |-> list, map |-> map]
    BY <1>2 DEF PutUpdate
  <2> HIDE DEF kept
  <2>3. /\ list \in Seq(Key)
        /\ DOMAIN list = 1 .. Len(kept.list) + 1
        /\ \A i \in DOMAIN kept.list : list[i] = kept.list[i]
        /\ list[Len(kept.list) + 1] = key
    BY <2>1, AppendProperties
  <2>4. /\ DOMAIN map = Cached(kept) \cup {key}
        /\ \A k \in DOMAIN map : map[k] = IF k = key THEN value ELSE kept.map[k]
    BY DEF WithKey, Cached
  <2> HIDE DEF list, map, put
  <2>5. \A k \in DOMAIN map : map[k] \in Value /\ \E i \in DOMAIN list : list[i] = k
    <3> TAKE k \in DOMAIN map
    <3>1. CASE k = key
      BY <2>1, <2>3, <2>4, <3>1
    <3>2. CASE k # key
      BY <2>1, <2>3, <2>4, <3>2
    <3> QED
      BY <3>1, <3>2
  <2>6. put.list = list /\ put.map = map
    BY <2>2
  <2>7. IsCache(put, Key, Value)
    BY <2>1, <2>2, <2>3, <2>4, <2>5, <2>6 DEF IsCache, Cached
  <2> QED
    BY <2>7 DEF put
<1> QED
  BY <1>1, <1>2

-----------------------------------------------------------------------------
(* What is cached, and how many places it takes *)

\* What is left in the list has been in it, and is there once if it was.
LEMMA WithoutPlaceOnce ==
  ASSUME NEW S, NEW q \in Seq(S), NEW i \in DOMAIN q,
         \A j, k \in DOMAIN q : q[j] = q[k] => j = k
  PROVE  LET r == WithoutPlace(q, i)
         IN  /\ \A j \in DOMAIN r : r[j] # q[i] /\ \E k \in DOMAIN q : r[j] = q[k]
             /\ \A j, k \in DOMAIN r : r[j] = r[k] => j = k
<1> DEFINE r == WithoutPlace(q, i)
           At(j) == IF j < i THEN j ELSE j + 1
<1>1. i \in 1 .. Len(q) /\ Len(q) \in Nat /\ DOMAIN q = 1 .. Len(q)
  OBVIOUS
<1>2. DOMAIN r = 1 .. Len(q) - 1
  BY WithoutPlaceProperties
<1>3. \A j \in DOMAIN r : At(j) \in DOMAIN q /\ At(j) # i /\ j \in Nat
  BY <1>1, <1>2
<1>4. \A j \in DOMAIN r : r[j] = q[At(j)]
  BY <1>2, WithoutPlaceProperties
<1>5. \A j, k \in DOMAIN r : At(j) = At(k) => j = k
  BY <1>1, <1>2
<1> HIDE DEF r, At
<1>6. \A j \in DOMAIN r : r[j] # q[i] /\ \E k \in DOMAIN q : r[j] = q[k]
  BY <1>3, <1>4
<1>7. \A j, k \in DOMAIN r : r[j] = r[k] => j = k
  BY <1>3, <1>4, <1>5
<1> QED
  BY <1>6, <1>7 DEF r

\* erase() takes the key, and no other, out of the map.
LEMMA EraseUncaches ==
  ASSUME NEW c, NEW key
  PROVE  LET d == Erase(c, key)
         IN  /\ Cached(d) = Cached(c) \ {key}
             /\ \A k \in Cached(d) : d.map[k] = c.map[k]
<1>1. CASE key \notin Cached(c)
  BY <1>1 DEF Erase
<1>2. CASE key \in Cached(c)
  <2> DEFINE map == WithoutKey(c.map, key)
  <2>1. Erase(c, key).map = map
    BY <1>2 DEF Erase
  <2>2. DOMAIN map = Cached(c) \ {key} /\ \A k \in DOMAIN map : map[k] = c.map[k]
    BY DEF WithoutKey, Cached
  <2> HIDE DEF map
  <2> QED
    BY <2>1, <2>2 DEF Cached
<1> QED
  BY <1>1, <1>2

\* put_update() of a new key caches it, and forgets a key or none.
LEMMA PutUpdateCaches ==
  ASSUME NEW c, NEW key, key \notin Cached(c), NEW value, NEW size
  PROVE  LET d == PutUpdate(c, key, value, size)
         IN  /\ Cached(d) \subseteq Cached(c) \cup {key}
             /\ \A k \in Cached(d) : d.map[k] = IF k = key THEN value ELSE c.map[k]
<1> DEFINE kept == IF Len(c.list) = size THEN [list |-> Tail(c.list),
                                               map |-> WithoutKey(c.map, Head(c.list))]
                                         ELSE c
           map == WithKey(kept.map, key, value)
<1>1. PutUpdate(c, key, value, size).map = map
  BY DEF PutUpdate
<1>2. Cached(kept) \subseteq Cached(c) /\ \A k \in Cached(kept) : kept.map[k] = c.map[k]
  <2>1. CASE Len(c.list) = size
    <3> DEFINE rest == WithoutKey(c.map, Head(c.list))
    <3>1. kept.map = rest
      BY <2>1
    <3>2. DOMAIN rest = Cached(c) \ {Head(c.list)} /\ \A k \in DOMAIN rest : rest[k] = c.map[k]
      BY DEF WithoutKey, Cached
    <3> HIDE DEF rest, kept
    <3> QED
      BY <3>1, <3>2 DEF Cached
  <2>2. CASE Len(c.list) # size
    BY <2>2
  <2> QED
    BY <2>1, <2>2
<1> HIDE DEF kept
<1>3. /\ DOMAIN map = Cached(kept) \cup {key}
      /\ \A k \in DOMAIN map : map[k] = IF k = key THEN value ELSE kept.map[k]
  BY DEF WithKey, Cached
<1> HIDE DEF map
<1>4. Cached(PutUpdate(c, key, value, size)) = DOMAIN map
  BY <1>1 DEF Cached
<1> QED
  BY <1>1, <1>2, <1>3, <1>4

\* erase() takes the place of the key out of the list.
LEMMA EraseErases ==
  ASSUME NEW Key, NEW Value, NEW c, IsCache(c, Key, Value), ListsKeysOnce(c), NEW key
  PROVE  ListsKeysOnce(Erase(c, key))
<1> DEFINE d == Erase(c, key)
<1>1. CASE key \notin Cached(c)
  BY <1>1 DEF Erase
<1>2. CASE key \in Cached(c)
  <2> DEFINE list == WithoutPlace(c.list, Place(c, key))
  <2>1. d.list = list
    BY <1>2 DEF Erase
  <2>2. Place(c, key) \in DOMAIN c.list /\ c.list[Place(c, key)] = key
        /\ c.list \in Seq(Key)
    BY <1>2, PlaceProperties DEF IsCache
  <2>3. /\ \A j \in DOMAIN list : list[j] # key /\ \E k \in DOMAIN c.list : list[j] = c.list[k]
        /\ \A j, k \in DOMAIN list : list[j] = list[k] => j = k
    BY <2>2, WithoutPlaceOnce DEF ListsKeysOnce
  <2>4. Cached(d) = Cached(c) \ {key}
    BY EraseUncaches
  <2> HIDE DEF d, list
  <2>5. \A j \in DOMAIN list : list[j] \in Cached(d)
    BY <2>3, <2>4 DEF ListsKeysOnce
  <2>6. ListsKeysOnce(d)
    BY <2>1, <2>3, <2>5 DEF ListsKeysOnce
  <2> QED
    BY <2>6 DEF d
<1> QED
  BY <1>1, <1>2

\* get_update() moves the place of the key to the end of the list.
LEMMA GetUpdateMoves ==
  ASSUME NEW Key, NEW Value, NEW c, IsCache(c, Key, Value), ListsKeysOnce(c), NEW key
  PROVE  ListsKeysOnce(GetUpdate(c, key))
<1> DEFINE d == GetUpdate(c, key)
<1>1. CASE key \notin Cached(c)
  BY <1>1 DEF GetUpdate
<1>2. CASE key \in Cached(c)
  <2> DEFINE rest == WithoutPlace(c.list, Place(c, key))
             list == Append(rest, key)
  <2>1. d.list = list /\ d.map = c.map
    BY <1>2 DEF GetUpdate, IsCache
  <2>2. Place(c, key) \in DOMAIN c.list /\ c.list[Place(c, key)] = key
        /\ c.list \in Seq(Key) /\ key \in Key
    BY <1>2, PlaceProperties DEF IsCache
  <2>3. rest \in Seq(Key)
    BY <2>2, WithoutPlaceProperties
  <2>4. /\ \A j \in DOMAIN rest : rest[j] # key /\ \E k \in DOMAIN c.list : rest[j] = c.list[k]
        /\ \A j, k \in DOMAIN rest : rest[j] = rest[k] => j = k
    BY <2>2, WithoutPlaceOnce DEF ListsKeysOnce
  <2> HIDE DEF rest
  <2>5. /\ DOMAIN list = 1 .. Len(rest) + 1 /\ DOMAIN rest = 1 .. Len(rest)
        /\ Len(rest) \in Nat
        /\ \A i \in 1 .. Len(rest) : list[i] = rest[i]
        /\ list[Len(rest) + 1] = key
    BY <2>2, <2>3, AppendProperties
  <2> HIDE DEF d, list
  <2>6. \A i \in DOMAIN list : \/ i \in DOMAIN rest /\ list[i] = rest[i]
                               \/ i = Len(rest) + 1 /\ list[i] = key
    BY <2>5
  <2>7. \A j \in DOMAIN list : list[j] \in Cached(c)
    BY <1>2, <2>4, <2>6 DEF ListsKeysOnce
  <2>8. \A j, k \in DOMAIN list : list[j] = list[k] => j = k
    BY <2>4, <2>6
  <2> QED
    BY <2>1, <2>7, <2>8 DEF ListsKeysOnce, Cached, d
<1> QED
  BY <1>1, <1>2

\* put_update() of a new key forgets nothing while there is a place for it.
LEMMA PutUpdateAdds ==
  ASSUME NEW Key, NEW Value, NEW c, IsCache(c, Key, Value), ListsKeysOnce(c),
         NEW key \in Key, key \notin Cached(c), NEW value, NEW size, Len(c.list) # size
  PROVE  LET d == PutUpdate(c, key, value, size)
         IN  /\ ListsKeysOnce(d)
             /\ Cached(d) = Cached(c) \cup {key}
             /\ \A k \in Cached(d) : d.map[k] = IF k = key THEN value ELSE c.map[k]
<1> DEFINE d == PutUpdate(c, key, value, size)
           list == Append(c.list, key)
           map == WithKey(c.map, key, value)
<1>1. d.list = list /\ d.map = map
  BY DEF PutUpdate
<1>2. /\ DOMAIN map = Cached(c) \cup {key}
      /\ \A k \in DOMAIN map : map[k] = IF k = key THEN value ELSE c.map[k]
  BY DEF WithKey, Cached
<1>3. /\ DOMAIN list = 1 .. Len(c.list) + 1 /\ DOMAIN c.list = 1 .. Len(c.list)
      /\ Len(c.list) \in Nat
      /\ \A i \in 1 .. Len(c.list) : list[i] = c.list[i]
      /\ list[Len(c.list) + 1] = key
  BY AppendProperties DEF IsCache
<1> HIDE DEF d, list, map
<1>4. \A i \in DOMAIN list : \/ i \in DOMAIN c.list /\ list[i] = c.list[i]
                             \/ i = Len(c.list) + 1 /\ list[i] = key
  BY <1>3
<1>5. Cached(d) = Cached(c) \cup {key}
  BY <1>1, <1>2 DEF Cached
<1>6. \A j \in DOMAIN list : list[j] \in Cached(d)
  BY <1>4, <1>5 DEF ListsKeysOnce
<1>7. \A j, k \in DOMAIN list : list[j] = list[k] => j = k
  BY <1>4 DEF ListsKeysOnce
<1>8. ListsKeysOnce(d)
  BY <1>1, <1>6, <1>7 DEF ListsKeysOnce
<1> QED
  BY <1>1, <1>2, <1>5, <1>8 DEF d

\* A sequence of different elements of a finite set is not longer than the set is large.
LEMMA DistinctLength ==
  ASSUME NEW T, IsFiniteSet(T), NEW q, Len(q) \in Nat, DOMAIN q = 1 .. Len(q),
         \A i \in DOMAIN q : q[i] \in T,
         \A i, j \in DOMAIN q : q[i] = q[j] => i = j
  PROVE  Len(q) <= Cardinality(T)
<1> DEFINE g == [i \in 1 .. Len(q) |-> q[i]]
<1>1. g \in Injection(1 .. Len(q), T)
  BY DEF Injection, IsInjective
<1>2. Cardinality(1 .. Len(q)) <= Cardinality(T)
  BY <1>1, FS_Injection
<1>3. Cardinality(1 .. Len(q)) = Len(q)
  <2>1. Cardinality(1 .. Len(q)) = IF 1 > Len(q) THEN 0 ELSE Len(q) - 1 + 1
    BY FS_Interval
  <2> QED
    BY <2>1
<1> QED
  BY <1>2, <1>3

\* While the keys are among no more than size values and one of them is not cached,
\* the list has a place for it.
LEMMA PlaceLeft ==
  ASSUME NEW Key, NEW Value, NEW c, IsCache(c, Key, Value), ListsKeysOnce(c),
         NEW D, IsFiniteSet(D), NEW f, DOMAIN f = D, NEW size \in Nat, Cardinality(D) <= size,
         NEW key, key \notin Cached(c), NEW e \in D, key = f[e],
         \A k \in Cached(c) : \E x \in D : k = f[x]
  PROVE  Len(c.list) # size
<1> DEFINE T == {f[x] : x \in D}
           g == [x \in D |-> f[x]]
<1>1. g \in Surjection(D, T)
  BY DEF Surjection
<1>2. IsFiniteSet(T) /\ Cardinality(T) <= Cardinality(D)
  BY <1>1, FS_Surjection
<1>3. key \in T
  OBVIOUS
<1>4. IsFiniteSet(T \ {key}) /\ Cardinality(T \ {key}) = Cardinality(T) - 1
  BY <1>2, <1>3, FS_RemoveElement
<1>5. \A i \in DOMAIN c.list : c.list[i] \in T \ {key}
  BY DEF ListsKeysOnce
<1>6. Len(c.list) \in Nat /\ DOMAIN c.list = 1 .. Len(c.list)
  BY DEF IsCache
<1>7. \A i, j \in DOMAIN c.list : c.list[i] = c.list[j] => i = j
  BY DEF ListsKeysOnce
<1> HIDE DEF T, g
<1>8. Len(c.list) <= Cardinality(T \ {key})
  BY <1>4, <1>5, <1>6, <1>7, DistinctLength
<1>9. Cardinality(T) \in Nat /\ Cardinality(D) \in Nat
  BY <1>2, FS_CardinalityType
<1> QED
  BY <1>2, <1>4, <1>6, <1>8, <1>9
=============================================================================
