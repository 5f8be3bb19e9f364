------------------------------ MODULE Languages ------------------------------
(***************************************************************************)
(* Accept-Language: domain/language.py.  How a header becomes ranges, and  *)
(* how well a catalog's languages answer them.                             *)
(*                                                                         *)
(* A language tag is the sequence of its subtags, already split at `-` or  *)
(* `_`.  An element of a header is [tag, q]; q is what stands after `q=`,  *)
(* in ten-thousandths where it is a number.  A parsed quality is in        *)
(* thousandths, or nan: `float` reads `nan`, and min, max and round keep   *)
(* it.                                                                     *)
(***************************************************************************)
EXTENDS Ordering, SequencesExt, FiniteSetsExt

CONSTANTS
    MAX_LANGUAGE_RANGES,
    Lowercase,   \* Lowercase[s]: a subtag in lower case
    Singletons   \* the subtags of one character

WILDCARD  == <<"*">>
Unstated  == [kind |-> "absent", value |-> 0]
Malformed == [kind |-> "malformed", value |-> 0]
NaN       == [kind |-> "nan", value |-> 0]
Number(n) == [kind |-> "number", value |-> n]

ASSUME LanguagesAssumption ==
    /\ MAX_LANGUAGE_RANGES \in Nat \ {0}
    /\ Singletons \subseteq DOMAIN Lowercase
    /\ \A s \in DOMAIN Lowercase : Lowercase[s] = "*" <=> s = "*"

normalise_language_tag(tag) == [n \in DOMAIN tag |-> Lowercase[tag[n]]]

\* min(max(q, 0), 1), rounded to three decimals.
parse_quality(q) ==
    CASE q.kind \in {"absent", "malformed"} -> Number(1000)
      [] q.kind = "nan"    -> NaN
      [] q.kind = "number" -> Number(Min({Max({(q.value + 5) \div 10, 0}), 1000}))

\* `sorted`, most preferred first: equal ones keep their order.  A nan is neither less nor greater than
\* anything, and around one any order may come out.
Sortings(ranges) ==
    LET places == DOMAIN ranges
    IN  IF \A n \in places : ranges[n].quality # NaN
          THEN {SortedBy(ranges, [n \in places |-> <<- ranges[n].quality.value>>])}
          ELSE {[n \in places |-> ranges[order[n]]] :
                   order \in {o \in [places -> places] : IsInjective(o)}}

\* What a header may be read as; blank elements count towards the bound and are then left out.
parse_accept_language(header) ==
    LET read   == 1..Min({Len(header), MAX_LANGUAGE_RANGES})
        ranges == [n \in read |-> [tag     |-> normalise_language_tag(header[n].tag),
                                   quality |-> parse_quality(header[n].q)]]
    IN  Sortings(Kept(ranges, {n \in read : header[n].tag # << >>}))

\* `de-a-value` is `de` with an extension.
strip_singleton_extensions(tag) ==
    LET singles == {n \in 2..Len(tag) : tag[n] \in Singletons}
    IN  IF singles = {} THEN tag ELSE SubSeq(tag, 1, Min(singles) - 1)

NoMatch == -1

\* The subtags the two share, when one is the beginning of the other.
match_depth(range_tag, available_tag) ==
    LET shared == Max({n \in 0..Min({Len(range_tag), Len(available_tag)}) :
                          \A k \in 1..n : range_tag[k] = available_tag[k]})
    IN  IF shared > 0 /\ shared \in {Len(range_tag), Len(available_tag)}
          THEN shared ELSE NoMatch

\* q=0 is "not acceptable": such a range ranks nothing.
Acceptable(range) == range.quality # Number(0)

\* The best of the pairs <<position, depth>> at which a range meets a tag: the earliest range,
\* then the deepest match; << >> when no range that is acceptable meets any.
rank_language_match(ranges, available) ==
    LET depth(n, tag) ==
            IF ranges[n].tag = WILDCARD THEN 0
              ELSE match_depth(strip_singleton_extensions(ranges[n].tag),
                               normalise_language_tag(tag))
        met  == {n \in DOMAIN ranges : /\ Acceptable(ranges[n])
                                       /\ \E tag \in available : depth(n, tag) # NoMatch}
        rank == Min(met)
    IN  IF met = {} THEN << >>
          ELSE <<rank, Max({depth(rank, tag) : tag \in available})>>
=============================================================================
