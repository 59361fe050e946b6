---------------------------- MODULE MCThreadPool ----------------------------
(* The instances of ThreadPool for TLC.  A run checks liveness: no symmetry. *)
EXTENDS ThreadPool
=============================================================================
