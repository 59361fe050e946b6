----------------------------- MODULE MCHeapTimer -----------------------------
(***************************************************************************)
(* Instance of HeapTimer for TLC.  The first two timers repeat or not and   *)
(* may have the same key, so that one replaces the other while it is        *)
(* pending or its callback runs; four plain ones make the heap three levels *)
(* high.                                                                    *)
(***************************************************************************)
EXTENDS HeapTimer

CONSTANT k1

Keys == {k1}
Timeouts == {1, 2}
Repeats == {0, 2, -1}

Keyed == [key : Keys, ms : Timeouts, repeat : Repeats]
Unkeyed == [key : {NoKey}, ms : {1}, repeat : {2, -1}]
Plain(ms) == [key : {NoKey}, ms : {ms}, repeat : {0}]
RequestsOf == <<Keyed, Keyed \cup Unkeyed, Plain(1), Plain(2), Plain(2), Plain(1)>>
RequestsById == [id \in 0..5 |-> RequestsOf[id + 1]]
=============================================================================
