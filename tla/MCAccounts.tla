----------------------------- MODULE MCAccounts -----------------------------
(* Instances of Accounts for TLC. *)
EXTENDS Accounts, TLC

\* Addresses, Google users and states are interchangeable.
AccountsSymmetry == Permutations(Emails) \cup Permutations(Subjects) \cup Permutations(States)
=============================================================================
