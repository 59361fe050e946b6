------------------------------ MODULE HeapTimer ------------------------------
(***************************************************************************)
(* v0::Timer and v0::TimerManager (src/task/timer/heaptimer.cpp,            *)
(* include/task/timer/heaptimer.h): a binary heap of nodes ordered by       *)
(* expiry, the table _ref from id to the node's place in it, and the        *)
(* manager's tables of keys and of repetitions.                             *)
(*                                                                          *)
(* Tick pops a node and runs its callback, which may call the manager       *)
(* again: the steps of ScheduleWithKey, Schedule and CancelByKey while a    *)
(* callback runs are its own.  The clock moves between any two steps.       *)
(* Places count from 1.  An empty callback is not scheduled.                *)
(***************************************************************************)
EXTENDS Integers, FiniteSets, Sequences, SequencesExt

CONSTANTS
    Key, NoKey, Timeout, Repeat, Res, MaxId, MaxTime, MayThrow,   \* see TimerService
    Limit,     \* callbacks one Tick runs at most: the 100 of Timer::Tick
    Requests   \* bound: what callers may ask of the timer with a given number

ASSUME LimitAssumption == Limit \in Nat \ {0}
ASSUME CallerAssumption ==
    NoKey \notin Key /\ Timeout \subseteq Nat /\ Repeat \subseteq Nat \cup {-1}
ASSUME BoundAssumption ==
    Res \in Nat \ {0} /\ MaxTime \in Nat /\ MaxId \in Nat /\ MayThrow \in BOOLEAN
ASSUME RequestAssumption ==
    Requests \in [0..(MaxId - 1) ->
                   SUBSET [key : Key \cup {NoKey}, ms : Timeout, repeat : Repeat]]

VARIABLES
    now,            \* Clock::now()
    timer,          \* _timer: [heap |-> _heap, ref |-> _ref]; place 0 is no entry
    nextId,         \* _nextId
    repeats,        \* _repeats
    keyToTimerId,   \* _keyToTimerId
    running,        \* the node whose callback runs: an empty sequence or one node
    processed,      \* callbacks this Tick has run; -1 outside Tick
    thrown          \* history: ids whose callback threw

manager == <<nextId, repeats, keyToTimerId>>
vars == <<now, timer, manager, running, processed, thrown>>

Id == 0..(MaxId - 1)
TimerNode == [id : Id, expires : Nat, key : Key \cup {NoKey}]
Counted == [remaining : (Nat \ {0}) \cup {-1}, period : Nat]

TypeOK ==
    /\ now \in 0..MaxTime
    /\ timer \in [heap : Seq(TimerNode), ref : [Id -> Nat]]
    /\ nextId \in 0..MaxId
    /\ DOMAIN repeats \subseteq Id /\ Range(repeats) \subseteq Counted
    /\ DOMAIN keyToTimerId \subseteq Key /\ Range(keyToTimerId) \subseteq Id
    /\ running \in Seq(TimerNode) /\ Len(running) <= 1
    /\ processed \in -1..Limit
    /\ thrown \subseteq Id

Init ==
    /\ now = 0
    /\ timer = [heap |-> <<>>, ref |-> [id \in Id |-> 0]]
    /\ nextId = 0 /\ repeats = <<>> /\ keyToTimerId = <<>>
    /\ running = <<>> /\ processed = -1 /\ thrown = {}

Without(f, x) == Restrict(f, DOMAIN f \ {x})
With(f, x, v) == [y \in DOMAIN f \cup {x} |-> IF y = x THEN v ELSE f[y]]

-----------------------------------------------------------------------------
(* Timer: the heap *)

Less(m, n) == m.expires < n.expires

\* Mutant of swapNode: the place of the second node is not recorded.
swapNodeOneRef(t, i, j) ==
    LET h == [t.heap EXCEPT ![i] = t.heap[j], ![j] = t.heap[i]]
    IN  [heap |-> h, ref |-> [t.ref EXCEPT ![h[i].id] = i]]

swapNode(t, i, j) ==
    LET h == [t.heap EXCEPT ![i] = t.heap[j], ![j] = t.heap[i]]
    IN  [heap |-> h, ref |-> [t.ref EXCEPT ![h[i].id] = i, ![h[j].id] = j]]

(* What the loops of siftUp and siftDown work on: the timer, and the code's  *)
(* i and n.                                                                  *)
Sifting ==
    {s \in [timer : [heap : Seq(TimerNode), ref : [Id -> Nat]], i : Nat \ {0}, n : Nat] :
        s.i <= Len(s.timer.heap) /\ s.n <= Len(s.timer.heap)}

Exchanged(s, j) == [timer |-> swapNode(s.timer, s.i, j), i |-> j, n |-> s.n]

siftUp[s \in Sifting] ==
    IF s.i = 1 \/ Less(s.timer.heap[s.i \div 2], s.timer.heap[s.i]) THEN s
    ELSE siftUp[Exchanged(s, s.i \div 2)]

(* The earlier of the two children. *)
Child(s) ==
    LET l == 2 * s.i
    IN  IF l + 1 <= s.n /\ Less(s.timer.heap[l + 1], s.timer.heap[l]) THEN l + 1 ELSE l

siftDown[s \in Sifting] ==
    IF 2 * s.i > s.n \/ Less(s.timer.heap[s.i], s.timer.heap[Child(s)]) THEN s
    ELSE siftDown[Exchanged(s, Child(s))]

Sift(t, i, n) == [timer |-> t, i |-> i, n |-> n]

\* Mutant of settle: a node that does not sink is left where it is.
settleDownOnly(t, i, n) == siftDown[Sift(t, i, n)].timer

(* if (!siftDown(i, n)) siftUp(i); *)
settle(t, i, n) ==
    LET d == siftDown[Sift(t, i, n)]
    IN  IF d.i > i THEN d.timer ELSE siftUp[Sift(t, i, n)].timer

\* Mutant of push: the new node stays at the end of the heap.
pushUnsifted(t, node) ==
    [heap |-> Append(t.heap, node), ref |-> [t.ref EXCEPT ![node.id] = Len(t.heap) + 1]]

push(t, node) ==
    LET n == Len(t.heap) + 1
    IN  siftUp[Sift([heap |-> Append(t.heap, node), ref |-> [t.ref EXCEPT ![node.id] = n]], n, n)].timer

Add(t, node) ==
    IF t.ref[node.id] = 0 \/ t.ref[node.id] > Len(t.heap) THEN push(t, node)
    ELSE LET i == t.ref[node.id]
         IN  settle([t EXCEPT !.heap[i] = node], i, Len(t.heap))

del(t, i) ==
    LET n == Len(t.heap)
        s == IF i < n THEN settle(swapNode(t, i, n), i, n - 1) ELSE t
    IN  [heap |-> Front(s.heap), ref |-> [s.ref EXCEPT ![t.heap[i].id] = 0]]

-----------------------------------------------------------------------------
(* TimerManager *)

Advance ==
    /\ now < MaxTime
    /\ now' = now + 1
    /\ UNCHANGED <<timer, manager, running, processed, thrown>>

(* What CancelByKey leaves of the heap, the repetitions and the keys. *)
cancelledTimer(k) ==
    IF k \in DOMAIN keyToTimerId /\ timer.ref[keyToTimerId[k]] # 0
    THEN del(timer, timer.ref[keyToTimerId[k]]) ELSE timer

cancelledRepeats(k) ==
    IF k \in DOMAIN keyToTimerId THEN Without(repeats, keyToTimerId[k]) ELSE repeats

\* Mutant of CancelByKey: the node is left in the heap.
CancelByKeyKeepsNode(k) ==
    /\ repeats' = cancelledRepeats(k)
    /\ keyToTimerId' = Without(keyToTimerId, k)
    /\ UNCHANGED <<now, timer, nextId, running, processed, thrown>>

CancelByKey(k) ==
    /\ timer' = cancelledTimer(k)
    /\ repeats' = cancelledRepeats(k)
    /\ keyToTimerId' = Without(keyToTimerId, k)
    /\ UNCHANGED <<now, nextId, running, processed, thrown>>

(* DoSchedule and DoScheduleWithKey, the tables being rs and ks and the heap t. *)
Scheduled(t, rs, k, ms, repeat) ==
    /\ nextId < MaxId /\ [key |-> k, ms |-> ms, repeat |-> repeat] \in Requests[nextId]
    /\ nextId' = nextId + 1
    /\ repeats' = IF repeat # 0 THEN With(rs, nextId, [remaining |-> repeat, period |-> Res * ms])
                  ELSE rs
    /\ timer' = Add(t, [id |-> nextId, expires |-> now + Res * ms, key |-> k])
    /\ UNCHANGED <<now, running, processed, thrown>>

\* Mutant of ScheduleWithKey: the old timer of the key is not cancelled.
ScheduleWithKeyNoCancel(k, ms, repeat) ==
    Scheduled(timer, repeats, k, ms, repeat) /\ keyToTimerId' = With(keyToTimerId, k, nextId)

ScheduleWithKey(k, ms, repeat) ==
    /\ Scheduled(cancelledTimer(k), cancelledRepeats(k), k, ms, repeat)
    /\ keyToTimerId' = With(keyToTimerId, k, nextId)

Schedule(ms, repeat) ==
    Scheduled(timer, repeats, NoKey, ms, repeat) /\ UNCHANGED keyToTimerId

TickBegin ==
    /\ processed = -1
    /\ processed' = 0
    /\ UNCHANGED <<now, timer, manager, running, thrown>>

(* duration_cast of the time remaining is not above 0 milliseconds. *)
FrontExpired == timer.heap # <<>> /\ timer.heap[1].expires - now < Res

(* The front is popped; its callback runs next. *)
TickPop ==
    /\ processed \in 0..(Limit - 1) /\ running = <<>>
    /\ FrontExpired
    /\ running' = <<timer.heap[1]>>
    /\ timer' = del(timer, 1)
    /\ UNCHANGED <<now, manager, processed, thrown>>

TickEnd ==
    /\ processed >= 0 /\ running = <<>>
    /\ processed = Limit \/ ~FrontExpired
    /\ processed' = -1
    /\ UNCHANGED <<now, timer, manager, running, thrown>>

(* The node's key, if it has one, is still this timer's. *)
KeyIsValid(node) ==
    node.key # NoKey => node.key \in DOMAIN keyToTimerId /\ keyToTimerId[node.key] = node.id

KeyErased(node) ==
    keyToTimerId' = IF node.key = NoKey THEN keyToTimerId ELSE Without(keyToTimerId, node.key)

Readded(node, period) ==
    timer' = Add(timer, [node EXCEPT !.expires = now + period]) /\ UNCHANGED keyToTimerId

(* The end of a callback: the last time, ... *)
CallbackLast(node) ==
    /\ KeyIsValid(node)
    /\ IF node.id \in DOMAIN repeats THEN repeats[node.id].remaining = 1 ELSE TRUE
    /\ repeats' = Without(repeats, node.id)
    /\ KeyErased(node)
    /\ UNCHANGED timer

\* Mutant of CallbackAgain: the count is lowered before, not after, the test for the last time.
CallbackAgainAny(node) ==
    /\ KeyIsValid(node) /\ node.id \in DOMAIN repeats
    /\ repeats[node.id].remaining # -1
    /\ repeats' = [repeats EXCEPT ![node.id].remaining = @ - 1]
    /\ Readded(node, repeats[node.id].period)

(* ... one of several, ... *)
CallbackAgain(node) ==
    /\ KeyIsValid(node) /\ node.id \in DOMAIN repeats
    /\ repeats[node.id].remaining > 1
    /\ repeats' = [repeats EXCEPT ![node.id].remaining = @ - 1]
    /\ Readded(node, repeats[node.id].period)

(* ... for ever, ... *)
CallbackForever(node) ==
    /\ KeyIsValid(node) /\ node.id \in DOMAIN repeats
    /\ repeats[node.id].remaining = -1
    /\ Readded(node, repeats[node.id].period)
    /\ UNCHANGED repeats

(* ... or the key was cancelled or given to another timer meanwhile. *)
CallbackReplaced(node) == ~KeyIsValid(node) /\ UNCHANGED <<timer, repeats, keyToTimerId>>

CallbackEnd ==
    /\ running # <<>>
    /\ LET node == running[1] IN
         CallbackLast(node) \/ CallbackAgain(node) \/ CallbackForever(node) \/ CallbackReplaced(node)
    /\ running' = <<>>
    /\ processed' = processed + 1
    /\ UNCHANGED <<now, nextId, thrown>>

(* The callback throws; the exception is caught and the rest skipped. *)
CallbackThrow ==
    /\ running # <<>> /\ MayThrow
    /\ thrown' = thrown \cup {running[1].id}
    /\ running' = <<>>
    /\ processed' = processed + 1
    /\ UNCHANGED <<now, timer, manager>>

TickStep == TickBegin \/ TickPop \/ TickEnd \/ CallbackEnd

Next ==
    \/ Advance
    \/ \E ms \in Timeout, repeat \in Repeat :
         Schedule(ms, repeat) \/ \E k \in Key : ScheduleWithKey(k, ms, repeat)
    \/ \E k \in Key : CancelByKey(k)
    \/ TickStep \/ CallbackThrow

(* Run ticks in every round of its loop, and time passes.  A step of Tick is *)
(* always possible, so that weak fairness is to take one again and again.    *)
Fairness == []<><<TickStep>>_vars /\ WF_now(Advance)

Spec == Init /\ [][Next]_vars /\ Fairness

-----------------------------------------------------------------------------

(* No node expires before its parent, whatever was inserted, cancelled in    *)
(* the middle of the heap or popped: GetNextTick and Tick look at the front  *)
(* only.                                                                     *)
HeapOrdered ==
    \A i \in 2..Len(timer.heap) : timer.heap[i \div 2].expires <= timer.heap[i].expires

(* _ref tells where each node is, and knows no other: CancelByKey deletes    *)
(* by the place it finds there.                                              *)
RefExact ==
    /\ Len(timer.heap) = Cardinality({id \in Id : timer.ref[id] # 0})
    /\ \A i \in 1..Len(timer.heap) : timer.ref[timer.heap[i].id] = i

(* The heap and its index, after every operation on either. *)
HeapSound == TypeOK /\ HeapOrdered /\ RefExact

Alive == {n.id : n \in ToSet(timer.heap) \cup ToSet(running)}

(* The manager's tables are in step with the heap: a keyed node is the one   *)
(* its key names, so that it can be cancelled; and no entry of a timer that  *)
(* is over stays behind, except where its callback threw.                    *)
TablesInStep ==
    /\ \A n \in ToSet(timer.heap) : KeyIsValid(n)
    /\ Range(keyToTimerId) \cup DOMAIN repeats \subseteq Alive \cup thrown

(* A timer that becomes due within the time looked at is popped, or was      *)
(* cancelled; the limit of callbacks per Tick starves nobody.                *)
EveryTimerFires ==
    \A id \in Id :
        (\E n \in ToSet(timer.heap) : n.id = id /\ n.expires <= MaxTime)
            ~> ~(\E n \in ToSet(timer.heap) : n.id = id /\ n.expires <= MaxTime)

(* The refinement mapping: how often a timer will fire after this time, and *)
(* what a node is to the caller.                                            *)
Left(id) ==
    IF id \notin DOMAIN repeats THEN 0
    ELSE IF repeats[id].remaining > 0 THEN repeats[id].remaining - 1 ELSE repeats[id].remaining

AsTimer(node) ==
    [id |-> node.id, key |-> node.key, expires |-> node.expires, left |-> Left(node.id),
     period |-> IF Left(node.id) = 0 THEN 0 ELSE repeats[node.id].period]

Service == INSTANCE TimerService WITH
    pending <- {AsTimer(n) : n \in ToSet(timer.heap)},
    firing <- {AsTimer(n) : n \in ToSet(running)}

(* The manager keeps the promises of TimerService: whatever a callback does  *)
(* to its own key or to others, a replaced or cancelled timer never fires,   *)
(* and one that repeats fires as often as it was asked to.                   *)
Implements == Service!Spec
=============================================================================
