------------------------------- MODULE HashRing -------------------------------
(***************************************************************************)
(* The std::map from hash values to nodes that both implementations of     *)
(* consistent hashing keep (common/consistent_hash.cc and the selector of  *)
(* net/load_balance.h), as a function from a set of points, which are hash *)
(* values, to nodes.                                                       *)
(***************************************************************************)
EXTENDS Naturals

EmptyRing == [p \in {} |-> {}]

\* Mutant of Insert: the first of the points is taken for done.
InsertShort(ring, ps, n) ==
    LET rest == IF ps = {} THEN {} ELSE ps \ {CHOOSE p \in ps : \A q \in ps : p <= q}
    IN  [p \in DOMAIN ring \cup rest |-> IF p \in DOMAIN ring THEN ring[p] ELSE n]

\* std::map::insert, which leaves a point alone that somebody has, for each of
\* the points ps of node n.
Insert(ring, ps, n) ==
    [p \in DOMAIN ring \cup ps |-> IF p \in DOMAIN ring THEN ring[p] ELSE n]

Least(S) == CHOOSE p \in S : \A q \in S : p <= q

\* lower_bound, and begin() if there is nothing at or above h.
Successor(ring, h) ==
    LET above == {p \in DOMAIN ring : p >= h}
    IN  IF above # {} THEN Least(above) ELSE Least(DOMAIN ring)

Lookup(ring, h) == ring[Successor(ring, h)]

\* Mutant of Erase: lower_bound for find, so that a point that is no longer there
\* takes the next one with it.
EraseNear(ring, ps) ==
    LET near(h) == {p \in DOMAIN ring : p >= h /\ \A q \in DOMAIN ring : q >= h => p <= q}
    IN  [p \in DOMAIN ring \ UNION {near(h) : h \in ps} |-> ring[p]]

\* find and erase, whoever has the point.
Erase(ring, ps) == [p \in DOMAIN ring \ ps |-> ring[p]]
=============================================================================
