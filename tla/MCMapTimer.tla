----------------------------- MODULE MCMapTimer -----------------------------
(* Instances of MapTimer for TLC. *)
EXTENDS MapTimer

Timings == {<<0, 2>>, <<1, -1>>}
=============================================================================
