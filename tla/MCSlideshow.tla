---------------------------- MODULE MCSlideshow ----------------------------
(***************************************************************************)
(* Slideshow on small instances: short playlists of two photos, one of     *)
(* them with a photo twice, and the empty one, a queue and a history that  *)
(* fill up, and two or three client requests.                              *)
(***************************************************************************)
EXTENDS Slideshow

CONSTANTS p1, p2

MCPhoto == {p1, p2}
MCCached == {p1}
MCPlaylists == {<<>>, <<p1, p2>>, <<p2, p2>>}
MCPlaylistsLong == {<<p1, p2, p1>>}
=============================================================================
