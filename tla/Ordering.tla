------------------------------- MODULE Ordering -------------------------------
(***************************************************************************)
(* ORDER BY, stable sorts and filters of lists, by what they promise: each *)
(* element's place is the number of those before it.                       *)
(***************************************************************************)
EXTENDS Integers, Sequences, FiniteSets

\* A key is a list of numbers; the first difference decides.
LexLess(one, other) ==
    \E n \in DOMAIN one : one[n] < other[n] /\ \A k \in 1..(n - 1) : one[k] = other[k]

\* The elements of S by their keys, no two of which are alike.
OrderBy(S, key) ==
    LET keyed  == {<<key[c], c>> : c \in S}
        before(p) == {q \in keyed : LexLess(q[1], p[1])}
        placed == {<<Cardinality(before(p)) + 1, p[2]>> : p \in keyed}
    IN  [n \in 1..Cardinality(S) |-> (CHOOSE p \in placed : p[1] = n)[2]]

\* What stands at some places of a list, in its order.
Kept(list, places) ==
    LET order == OrderBy(places, [n \in places |-> <<n>>])
    IN  [n \in 1..Cardinality(places) |-> list[order[n]]]

\* A stable sort: elements of the same key keep their order.
SortedBy(list, key) ==
    LET order == OrderBy(DOMAIN list, [n \in DOMAIN list |-> Append(key[n], n)])
    IN  [n \in DOMAIN list |-> list[order[n]]]
===============================================================================
