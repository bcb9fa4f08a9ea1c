----------------------------- MODULE MCSessions -----------------------------
(* Instances of Sessions for TLC. *)
EXTENDS Sessions, TLC

\* Tokens and requests are interchangeable, and the properties tell none apart.
SessionSymmetry == Permutations(Tokens) \cup Permutations(Requests)
=============================================================================
