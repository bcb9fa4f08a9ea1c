--------------------------- MODULE MCIdentityOutbox ---------------------------
(* Instances of IdentityOutbox for TLC. *)
EXTENDS IdentityOutbox, TLC

CONSTANTS a, b

\* Two mutations, whose events meet in the relay's batch; or one alone.
MCEvents == {a, b}
MCOneEvent == {a}
=============================================================================
