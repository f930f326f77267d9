---------------------------- MODULE MCAutoplay ----------------------------
(* Autoplay with a few songs. *)
EXTENDS Autoplay
===========================================================================
