---- MODULE MCObjectCatalog ----
(* Instances of ObjectCatalog for TLC. *)
EXTENDS ObjectCatalog, TLC

CONSTANTS h1, h2, d1, d2, k1, direct

\* Nothing in the catalog tells one hash, or one day, from another.
MCSymmetry == Permutations({h1, h2}) \cup Permutations({d1, d2})
====
