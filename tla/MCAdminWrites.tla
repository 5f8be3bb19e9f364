--------------------------- MODULE MCAdminWrites ---------------------------
(* Small instances of AdminWrites for TLC. *)
EXTENDS AdminWrites, TLC

CONSTANTS s1, s2, p1, p2

OnePerson == s1 :> p1 @@ s2 :> p1
TwoPeople == s1 :> p1 @@ s2 :> p2

=============================================================================
