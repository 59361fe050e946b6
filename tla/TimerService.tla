---------------------------- MODULE TimerService ----------------------------
(***************************************************************************)
(* What a timer manager promises its callers, whatever it is built from:    *)
(* a set of pending timers, at most one for a key; a timer that is replaced *)
(* or cancelled never fires; timers fire one at a time, the earliest first  *)
(* and none a whole millisecond early; and a timer whose callback has       *)
(* returned is pending again if it repeats and its key was not given up.    *)
(***************************************************************************)
EXTENDS Integers

CONSTANTS
    Key,       \* what callers name timers by: the server's descriptors
    NoKey,     \* the key of a timer that Schedule made
    Timeout,   \* milliseconds a caller may ask for
    Repeat,    \* repeat counts a caller may ask for: 0 once, -1 for ever
    Res,       \* units of the clock in a millisecond
    MaxId,     \* bound: timers made
    MaxTime,   \* bound: the clock
    MayThrow   \* whether a callback may throw

VARIABLES
    now,       \* the clock
    nextId,    \* the number of the next timer
    pending,   \* the timers set
    firing     \* the timers whose callback runs: none or one

vars == <<now, nextId, pending, firing>>

(* left: how often the timer will still fire after this time, -1 being for   *)
(* ever; period: how much later each time.                                   *)
Shot(id, k, expires, left, period) ==
    [id |-> id, key |-> k, expires |-> expires, left |-> left,
     period |-> IF left = 0 THEN 0 ELSE period]

OneLess(left) == IF left > 0 THEN left - 1 ELSE left

Init == now = 0 /\ nextId = 0 /\ pending = {} /\ firing = {}

Advance == now < MaxTime /\ now' = now + 1 /\ UNCHANGED <<nextId, pending, firing>>

OfKey(S, k) == {t \in S : t.key = k /\ k # NoKey}

(* A timer that fires and whose key is given up does not repeat. *)
GivenUp(k) == {IF t.key = k /\ k # NoKey THEN [t EXCEPT !.left = 0, !.period = 0] ELSE t : t \in firing}

Schedule(k, ms, repeat) ==
    /\ nextId < MaxId
    /\ nextId' = nextId + 1
    /\ pending' = (pending \ OfKey(pending, k))
                    \cup {Shot(nextId, k, now + Res * ms, OneLess(repeat), Res * ms)}
    /\ firing' = GivenUp(k)
    /\ UNCHANGED now

Cancel(k) ==
    /\ pending' = pending \ OfKey(pending, k)
    /\ firing' = GivenUp(k)
    /\ UNCHANGED <<now, nextId>>

(* The clock is read in whole milliseconds. *)
Due(t) == t.expires - now < Res

Fire(t) ==
    /\ firing = {}
    /\ Due(t) /\ \A u \in pending : t.expires <= u.expires
    /\ pending' = pending \ {t}
    /\ firing' = {t}
    /\ UNCHANGED <<now, nextId>>

Return(t) ==
    /\ firing' = {}
    /\ \/ t.left = 0 /\ UNCHANGED pending
       \/ /\ t.left # 0
          /\ pending' = pending \cup {Shot(t.id, t.key, now + t.period, OneLess(t.left), t.period)}
    /\ UNCHANGED <<now, nextId>>

Throw == MayThrow /\ firing' = {} /\ UNCHANGED <<now, nextId, pending>>

Next ==
    \/ Advance
    \/ \E k \in Key \cup {NoKey}, ms \in Timeout, repeat \in Repeat : Schedule(k, ms, repeat)
    \/ \E k \in Key : Cancel(k)
    \/ \E t \in pending : Fire(t)
    \/ \E t \in firing : Return(t) \/ Throw

Spec == Init /\ [][Next]_vars
=============================================================================
