---------------------------- MODULE MCFileCache ----------------------------
(* Instances of FileCache for TLC. *)
EXTENDS FileCache, TLC

\* Responses and paths are interchangeable; used by the passing runs, which check invariants only.
Symmetry == Permutations(Response) \cup Permutations(Path)
=============================================================================
