----------------------------- MODULE MCMigrations -----------------------------
(* A small instance of Migrations for TLC. *)
EXTENDS Migrations

CONSTANTS c1, c2, wal, idf, hand, belgium, belgie
=============================================================================
