------------------------------- MODULE MCForms -------------------------------
(* Every form, two fields at a time; see the README for the bounds. *)
EXTENDS Forms
=============================================================================
