----------------------------- MODULE MCResources -----------------------------
(* Two threads on a pool of two connections. *)
EXTENDS ProcessResources
==============================================================================
