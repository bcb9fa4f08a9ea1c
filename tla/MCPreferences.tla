---------------------------- MODULE MCPreferences ----------------------------
(* Instances of Preferences for TLC. *)
EXTENDS Preferences, TLC

CONSTANTS x, y

\* Two artists, and an onboarding that follows both; or one alone.
MCItems == {x, y}
MCOneItem == {x}
MCLists == {<<x, y>>}
MCOneList == {<<x>>}
=============================================================================
