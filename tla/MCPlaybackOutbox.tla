-------------------------- MODULE MCPlaybackOutbox --------------------------
(* Instances of PlaybackOutbox for TLC. *)
EXTENDS PlaybackOutbox, TLC

CONSTANTS a, b, bad, big, r1, r2, r3

\* Two batches and a malformed one race for the same events; one of them repeats an event
\* within itself and ends with an overgrown one.
MixedBody == (r1 :> <<a, b>>) @@ (r2 :> <<a, bad>>) @@ (r3 :> <<b, b, big>>)
OneBody   == r1 :> <<a>>
=============================================================================
