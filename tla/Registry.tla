------------------------------- MODULE Registry -------------------------------
(***************************************************************************)
(* The stored catalogs, as the reads see them: what is written once, in    *)
(* contentOf, and what editors move, in rows (the variable of the modules  *)
(* that read).  A catalog's id is a number: ids and titles are only ever   *)
(* compared.                                                               *)
(***************************************************************************)
EXTENDS Naturals, FiniteSets, Lifecycle

CONSTANTS
    Catalogs,    \* the ids
    contentOf,   \* contentOf[c]: [title, created_at, languages, kinds, publication_types,
                 \*   coverage, country, links, words, alike]
    NoCountry

ASSUME RegistryAssumption ==
    /\ Catalogs \subseteq Nat /\ IsFiniteSet(Catalogs)
    /\ DOMAIN contentOf = Catalogs

Rows == [status : Statuses, recommended : BOOLEAN]

HasStatus(rows, statuses) == {c \in Catalogs : rows[c].status \in statuses}
=============================================================================
