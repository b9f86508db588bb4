---------------------------- MODULE MCPageSession ----------------------------
(* One organizer's browser; see the README for the bounds. *)
EXTENDS PageSession
=============================================================================
