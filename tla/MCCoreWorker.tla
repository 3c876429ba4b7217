---------------------------- MODULE MCCoreWorker ----------------------------
(* Instances of CoreWorker for TLC. *)
EXTENDS CoreWorker

\* Five seconds and fifteen seconds, a minute, then longer: scaled like the
\* notice of 30 seconds (2 ticks), the limit and the lease.
Delays == <<1, 1, 4>>
=============================================================================
