------------------------------ MODULE MCWarmTier ------------------------------
(* WarmTier on a small instance. *)
EXTENDS WarmTier
=============================================================================
