------------------------------- MODULE MCSession -------------------------------
(* Session on a small instance. *)
EXTENDS Session
=============================================================================
