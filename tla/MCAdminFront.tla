----------------------------- MODULE MCAdminFront -----------------------------
(* A small instance of AdminFront for TLC. *)
EXTENDS AdminFront, TLC

CONSTANTS r1, r2, r3, k1, k2, stray

Caller(key, dev, token) == [key |-> key, dev |-> dev, token |-> token]
Token(kid, claims) == [kid |-> kid, claims |-> claims]

\* An editor, and one of each way to be wrong.
MCCallers ==
    {Caller(TRUE, "none", Token(k1, claims)) : claims \in {"good", "bad", "other domain"}}
    \cup {Caller(TRUE, "none", Token(stray, "good")), Caller(FALSE, "none", NoToken),
          Caller(TRUE, "an address", NoToken), Caller(TRUE, "no address", NoToken)}

\* Nothing tells one place for a request from another.
Places == Permutations(Requests)
=============================================================================
