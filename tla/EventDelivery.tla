---------------------------- MODULE EventDelivery ----------------------------
(***************************************************************************)
(* What music-event-streaming-service promises of a consumer group         *)
(* (README.md:3, "at-least-once processing with explicit post-handler      *)
(* offset commits"): messages are handled, in any order and possibly more  *)
(* than once, and an offset is committed only when every message below it  *)
(* has been handled.  A committed offset may move back, which repeats work *)
(* and loses none.                                                         *)
(***************************************************************************)
EXTENDS Naturals, Sequences

CONSTANTS Partitions, Events, Log

VARIABLES
  handled,    \* events whose handler returned nil at least once
  committed   \* the group's offset in every partition

vars == <<handled, committed>>

Settled(p, n) == \A i \in 1..n : Log[p][i].id \in handled

Init ==
  /\ handled = {}
  /\ committed = [p \in Partitions |-> 0]

HandleEvent(e) ==
  /\ handled' = handled \cup {e}
  /\ UNCHANGED committed

CommitOffset(p, n) ==
  /\ Settled(p, n)
  /\ committed' = [committed EXCEPT ![p] = n]
  /\ UNCHANGED handled

Next ==
  \/ \E e \in Events : HandleEvent(e)
  \/ \E p \in Partitions : \E n \in 1..Len(Log[p]) : CommitOffset(p, n)

Spec == Init /\ [][Next]_vars
=============================================================================
