---------------------------- MODULE MCWarmPool ----------------------------
(* WarmPool on small sets. *)
EXTENDS WarmPool
===========================================================================
