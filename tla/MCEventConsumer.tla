--------------------------- MODULE MCEventConsumer ---------------------------
(* Instances of EventConsumer for TLC. *)
EXTENDS EventConsumer, TLC

CONSTANTS w1, w2, w3, p1, p2, a, b

msg(e)         == [id |-> e, wire |-> "protobuf"]
identityMsg(e) == [id |-> e, wire |-> "protojson"]

\* The producer delivered event a twice (its outbox relay is at-least-once), then b.
MCDuplicateLog == (p1 :> <<msg(a), msg(a), msg(b)>>)
MCOneMessage == (p1 :> <<msg(a)>>)
\* docker-compose.yml subscribes the group to user.registered as well, whose messages
\* the identity gatekeeper encodes with protojson (internal/event/emitter.go).
MCIdentityLog == (p1 :> <<msg(a)>>) @@ (p2 :> <<identityMsg(b)>>)

=============================================================================
