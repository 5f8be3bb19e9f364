---------------------------- MODULE MCSeedImport ----------------------------
(* Source files for TLC. *)
EXTENDS SeedImport, TLC

CONSTANTS x, y, none

Doc(title, identifier, links) == [title |-> title, identifier |-> identifier, links |-> links]

\* Every href belongs to one catalog for good.  The city library names its id and moves between
\* two URLs; the open one searches on the library's URL; the shop's shelf becomes its catalog.
OwnHrefs ==
    { Doc("city", x, {<<"catalog", "h1">>}),
      Doc("city", x, {<<"catalog", "h2">>}),
      Doc("open", none, {<<"catalog", "h3">>, <<"search", "h1">>}),
      Doc("shop", none, {<<"shelf", "h4">>}),
      Doc("shop", none, {<<"catalog", "h4">>, <<"shelf", "h5">>}) }

\* Hrefs that move from one catalog to another, and from one rel to the other.
MovingHrefs ==
    { Doc("city", x, {<<"catalog", "h1">>}),
      Doc("city", x, {<<"catalog", "h2">>}),
      Doc("open", y, {<<"catalog", "h2">>}),
      Doc("open", y, {<<"shelf", "h1">>}),
      Doc("shop", none, {<<"catalog", "h1">>, <<"shelf", "h3">>}),
      Doc("shop", none, {<<"catalog", "h3">>}) }

\* The shelf of one catalog is the other's catalog.
SharedShelf ==
    { Doc("city", none, {<<"catalog", "h1">>, <<"shelf", "h2">>}),
      Doc("open", none, {<<"catalog", "h2">>}) }

OwnAndMoving == {OwnHrefs, MovingHrefs}
ThreeOrTwo   == OwnHrefs :> 3 @@ MovingHrefs :> 2

Shared == {SharedShelf}
Two    == SharedShelf :> 2
=============================================================================
