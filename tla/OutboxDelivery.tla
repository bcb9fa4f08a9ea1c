---------------------------- MODULE OutboxDelivery ----------------------------
(***************************************************************************)
(* What a transactional outbox promises (music-playback-service            *)
(* README.md:28): an event reaches Kafka only after it was accepted, that  *)
(* is committed to the database, and is settled, never to be published     *)
(* again by a later sweep, only after it has reached Kafka.                *)
(* Deliveries may repeat.                                                  *)
(***************************************************************************)
CONSTANT Events

VARIABLES accepted, delivered, settled

vars == <<accepted, delivered, settled>>

Init == accepted = {} /\ delivered = {} /\ settled = {}

Accept(e) ==
  /\ accepted' = accepted \cup {e}
  /\ UNCHANGED <<delivered, settled>>

Deliver(e) ==
  /\ e \in accepted
  /\ delivered' = delivered \cup {e}
  /\ UNCHANGED <<accepted, settled>>

Settle(e) ==
  /\ e \in delivered
  /\ settled' = settled \cup {e}
  /\ UNCHANGED <<accepted, delivered>>

Next == \E e \in Events : Accept(e) \/ Deliver(e) \/ Settle(e)

Spec == Init /\ [][Next]_vars
=============================================================================
