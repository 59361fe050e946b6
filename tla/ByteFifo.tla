------------------------------ MODULE ByteFifo ------------------------------
(***************************************************************************)
(* What Buffer promises its users: a queue of bytes.  The bytes handed in  *)
(* are numbered in the order of their arrival, so a byte that is lost,     *)
(* doubled or moved shows.                                                 *)
(***************************************************************************)
EXTENDS Naturals, Sequences

CONSTANTS
    MaxFed,    \* bound: bytes handed in altogether
    MayFail    \* whether an allocation may fail

VARIABLES
    fifo,      \* the bytes not consumed yet
    fed        \* how many bytes were handed in

(* The next k bytes of the input. *)
Input(k) == [i \in 1..k |-> fed + i]

Init == fifo = <<>> /\ fed = 0

Put(k) ==
    /\ fed' = fed + k
    /\ fifo' = fifo \o Input(k)

(* When memory runs out only the first j of the k bytes are kept. *)
PutTorn(k, j) ==
    /\ MayFail
    /\ fed' = fed + k
    /\ fifo' = fifo \o SubSeq(Input(k), 1, j)

Take(k) ==
    /\ fifo' = SubSeq(fifo, k + 1, Len(fifo))
    /\ UNCHANGED fed

Clear == fifo' = <<>> /\ UNCHANGED fed

Next ==
    \/ \E k \in 0 .. MaxFed - fed : Put(k) \/ \E j \in 0 .. k : PutTorn(k, j)
    \/ \E k \in 0 .. Len(fifo) : Take(k)
    \/ Clear

Spec == Init /\ [][Next]_<<fifo, fed>>
=============================================================================
