----------------------------- MODULE MCPlaylist -----------------------------
(* Instances of Playlist for TLC. *)
EXTENDS Playlist
=============================================================================
