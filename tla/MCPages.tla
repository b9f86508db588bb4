------------------------------ MODULE MCPages ------------------------------
(* One team that can come and go; see the README for the bounds. *)
EXTENDS Pages
=============================================================================
