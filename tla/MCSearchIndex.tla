---------------------------- MODULE MCSearchIndex ----------------------------
(* A small instance of SearchIndex for TLC. *)
EXTENDS SearchIndex, TLC

CONSTANTS e1, i1, i2, h1, wal, bru

\* One document renames the catalog, the other keeps its title; hand-written SQL adds a
\* subdivision one of them has.
NewTitles == i1 :> "new" @@ i2 :> "old"
Places    == i1 :> {wal} @@ i2 :> {bru} @@ h1 :> {bru}

TwoPlaces == i1 :> {wal} @@ i2 :> {bru}
=============================================================================
