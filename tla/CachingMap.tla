----------------------------- MODULE CachingMap -----------------------------
(***************************************************************************)
(* Class CachingMap of ntdcp/ntdcp/caching-set.hpp: a map of bounded size  *)
(* that forgets its least recently used key.  m_list holds the keys from   *)
(* the least to the most recently used one; the iterator that m_map keeps  *)
(* beside each value is the place of the key in m_list.                    *)
(***************************************************************************)
EXTENDS Naturals, Sequences

EmptyCache == [list |-> <<>>, map |-> <<>>]

Cached(c) == DOMAIN c.map

Place(c, key) == CHOOSE i \in DOMAIN c.list : c.list[i] = key

\* m_list.erase(iterator)
WithoutPlace(list, i) == SubSeq(list, 1, i - 1) \o SubSeq(list, i + 1, Len(list))

WithoutKey(map, key) == [k \in DOMAIN map \ {key} |-> map[k]]

WithKey(map, key, value) ==
    [k \in DOMAIN map \cup {key} |-> IF k = key THEN value ELSE map[k]]

\* What every operation keeps true: the place of each key is a place in m_list.
IsCache(c, Key, Value) ==
    /\ c = [list |-> c.list, map |-> c.map]
    /\ c.list \in Seq(Key)
    /\ Cached(c) \subseteq Key
    /\ \A k \in Cached(c) : c.map[k] \in Value /\ \E i \in DOMAIN c.list : c.list[i] = k

\* m_list holds the keys of m_map only, each once.
ListsKeysOnce(c) ==
    /\ \A i \in DOMAIN c.list : c.list[i] \in Cached(c)
    /\ \A i, j \in DOMAIN c.list : c.list[i] = c.list[j] => i = j

Erase(c, key) ==
    IF key \in Cached(c)
    THEN [list |-> WithoutPlace(c.list, Place(c, key)),
          map |-> WithoutKey(c.map, key)]
    ELSE c

\* Mutant: the place of the key is erased and not taken again.
GetUpdateLosesPlace(c, key) ==
    IF key \in Cached(c) THEN [c EXCEPT !.list = WithoutPlace(@, Place(c, key))] ELSE c

GetUpdate(c, key) ==
    IF key \in Cached(c)
    THEN [c EXCEPT !.list = Append(WithoutPlace(@, Place(c, key)), key)]
    ELSE c

\* Size of the list, not of the map, decides whether a key is forgotten.
PutUpdate(c, key, value, size) ==
    IF key \in Cached(c)
    THEN [GetUpdate(c, key) EXCEPT !.map = WithKey(@, key, value)]
    ELSE LET full == Len(c.list) = size
             kept == IF full THEN [list |-> Tail(c.list),
                                   map |-> WithoutKey(c.map, Head(c.list))]
                             ELSE c
         IN  [list |-> Append(kept.list, key),
              map |-> WithKey(kept.map, key, value)]
=============================================================================
