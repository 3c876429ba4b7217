----------------------------- MODULE MCCoreSync -----------------------------
(* Instances of CoreSync for TLC: the constants are in the cfg files. *)
EXTENDS CoreSync
=============================================================================
