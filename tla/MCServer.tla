------------------------------ MODULE MCServer ------------------------------
(* Instances of Server for TLC. *)
EXTENDS Server, TLC

\* Workers and addresses are interchangeable; used by the safety runs only.
Symmetry == Permutations(Worker) \cup Permutations(Ptr)
=============================================================================
