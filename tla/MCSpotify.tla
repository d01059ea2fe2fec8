------------------------------ MODULE MCSpotify ------------------------------
(* Bounds for TLC. *)
EXTENDS SpotifyPlaylists

CONSTANTS p1, p2

=============================================================================
