----------------------------- MODULE MCResponses -----------------------------
(* A small instance of Responses for TLC: headers of up to two parts. *)
EXTENDS Responses

Part(names, qs) == [name : names, q : qs]

\* Every way to write one quality, pairs that repeat a name, and pairs of two names.
MCHeaders ==
    {<<part>> : part \in Part(Names, DOMAIN Quality)}
    \cup {<<a, b>> : a, b \in Part(Names, {"none", "0.5", "0"})}
    \cup {<<a, b>> : a, b \in Part({"gzip", "identity"}, {"none", "0", "x"})}
    \cup (CLIENTS \ {NoHeader})
==============================================================================
