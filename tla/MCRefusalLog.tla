----------------------------- MODULE MCRefusalLog -----------------------------
(* A small instance of RefusalLog for TLC. *)
EXTENDS RefusalLog, TLC

CONSTANTS k1, k2, k3, k4

\* The code tells keys apart and nothing more.
AnyKey == Permutations(Keys)
==============================================================================
