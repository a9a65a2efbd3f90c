----------------------------- MODULE CachingSet -----------------------------
(***************************************************************************)
(* Class CachingSet of ntdcp/ntdcp/caching-set.hpp: a set of bounded size  *)
(* that forgets its least recently checked element.  m_list orders the     *)
(* elements from the least to the most recently checked one; m_map only    *)
(* finds their places in it.                                               *)
(***************************************************************************)
EXTENDS CachingMap

Holds(list, obj) == \E i \in DOMAIN list : list[i] = obj

Forgets(list, obj, size) == ~ Holds(list, obj) /\ Len(list) = size

\* Mutant: nothing is forgotten.
CheckUpdateUnbounded(list, obj, size) ==
    IF Holds(list, obj) THEN list ELSE Append(list, obj)

\* m_list after check_update(obj); the call returns Holds(list, obj).
CheckUpdate(list, obj, size) ==
    LET kept == IF Holds(list, obj)
                THEN WithoutPlace(list, CHOOSE i \in DOMAIN list : list[i] = obj)
                ELSE IF Forgets(list, obj, size) THEN Tail(list) ELSE list
    IN  Append(kept, obj)
=============================================================================
