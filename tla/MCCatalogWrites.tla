--------------------------- MODULE MCCatalogWrites ---------------------------
(* Small instances of CatalogWrites for TLC. *)
EXTENDS CatalogWrites

CONSTANTS s1, p1, c1, c2, i1, i2

OnePerson == s1 :> p1
NoTab     == << >>

\* Two documents that name the same catalog, one of them imported with --no-recommended.
SameCatalog   == i1 :> <<c1>> @@ i2 :> <<c1>>
OneOfEachFlag == i1 :> TRUE @@ i2 :> FALSE

\* Two documents that list the same catalogs in opposite orders.
OppositeOrders == i1 :> <<c1, c2>> @@ i2 :> <<c2, c1>>

OneImport      == i1 :> <<c1>>
OneRecommended == i1 :> TRUE
=============================================================================
