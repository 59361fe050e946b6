------------------------------ MODULE MapTimer ------------------------------
(***************************************************************************)
(* The timer manager on a std::multimap, src/task/timer/maptimer.cpp: the   *)
(* thread that loops in Tick, which takes the due nodes out under the mutex *)
(* and runs their callbacks without it, and threads that schedule, replace  *)
(* and cancel timers meanwhile.                                             *)
(*                                                                          *)
(* A critical section of _timerMutex and a user's callback are steps.  The  *)
(* nodes are a sequence in the order of the multimap: by time, equal times  *)
(* in the order of insertion.  Every timer gets an id, from 1 on where      *)
(* _nextId counts from 0; that of one without a key is a name only.         *)
(* CleanupCancelledTimers copies all nodes and changes nothing; GetNextTick *)
(* only sets how long Tick sleeps.                                          *)
(***************************************************************************)
EXTENDS Integers, Sequences, FiniteSets

CONSTANTS
    Caller,      \* threads that use the manager
    Key,         \* keys (connection ids)
    NoKey,       \* marks a timer scheduled without a key
    Timing,      \* pairs <<milliseconds, repeat>> callers ask for; -1 repeats for ever
    BatchLimit,  \* the 100 of Update
    MaxId,       \* bound: timers scheduled
    MaxTime      \* bound: the clock; no timer is set that it would leave unfinished

ASSUME KeyAssumption == NoKey \notin Key
ASSUME TimingAssumption == Timing \subseteq Int \X (Nat \cup {-1})
ASSUME BoundAssumption == BatchLimit \in Nat \ {0} /\ MaxId \in Nat /\ MaxTime \in Nat

Id == 1..MaxId
Dummy == 0       \* the node Stop adds

VARIABLES
    now,           \* Timer::Now()
    timers,        \* _timers
    keyToTimerId,  \* _keyToTimerId; 0 is no entry
    repeats,       \* _repeats; 0 is no entry
    nextId,        \* _nextId
    bClosed,       \* _bClosed
    batch,         \* triggeredTimers of the running Update
    pc,            \* where the Tick thread is
    call,          \* the second half of ScheduleWithKey each caller has to do
    info,          \* history: how each timer was scheduled
    runs,          \* history: times its callback ran
    late           \* history: times it ran after the timer was cancelled or replaced

tables == <<timers, keyToTimerId, repeats>>
ticker == <<batch, pc>>
hist   == <<info, runs, late>>
vars   == <<now, tables, nextId, bClosed, ticker, call, hist>>

Node == [time : Int, id : Id \cup {Dummy}, period : Nat, repeat : Int]
Info == [key : Key \cup {NoKey}, ms : Nat, repeat : Int, start : Nat, ended : BOOLEAN]
NoCall == <<>>
NoInfo == [key |-> NoKey, ms |-> 1, repeat |-> 0, start |-> 0, ended |-> TRUE]

TypeOK ==
    /\ now \in 0..MaxTime /\ nextId \in 1..MaxId + 1 /\ bClosed \in BOOLEAN
    /\ timers \in Seq(Node) /\ batch \in Seq(Node) /\ Len(batch) <= BatchLimit
    /\ keyToTimerId \in [Key -> 0..MaxId] /\ repeats \in [Id -> Nat \cup {-1}]
    /\ pc \in {"loop", "update", "check", "wrap", "run", "after", "catch", "back", "ended"}
    /\ call \in [Caller -> {NoCall} \cup (Key \X Timing)]
    /\ info \in [Id -> Info] /\ runs \in [Id -> Nat] /\ late \in [Id -> Nat]

Init ==
    /\ now = 0 /\ nextId = 1 /\ bClosed = FALSE
    /\ timers = <<>> /\ batch = <<>> /\ pc = "loop"
    /\ keyToTimerId = [k \in Key |-> 0] /\ repeats = [i \in Id |-> 0]
    /\ call = [c \in Caller |-> NoCall]
    /\ info = [i \in Id |-> NoInfo]
    /\ runs = [i \in Id |-> 0] /\ late = [i \in Id |-> 0]

-----------------------------------------------------------------------------
(* The multimap and the tables *)

(* _timers.insert: after the nodes of the same time. *)
Insert(s, n) ==
    LET before == {i \in 1..Len(s) : s[i].time <= n.time}
        k      == IF before = {} THEN 0 ELSE CHOOSE i \in before : \A j \in before : j <= i
    IN  SubSeq(s, 1, k) \o <<n>> \o SubSeq(s, k + 1, Len(s))

NewNode(id, t, repeat, period) == [time |-> t, id |-> id, period |-> period, repeat |-> repeat]

(* DoSchedule and DoScheduleWithKey raise a timeout of 0 or less. *)
AtLeastOne(ms) == IF ms <= 0 THEN 1 ELSE ms

\* Mutant of Cancelled: the entry of _repeats is left behind.
CancelledKeepsRepeats(k) ==
    /\ keyToTimerId' = [keyToTimerId EXCEPT ![k] = 0]
    /\ UNCHANGED repeats

(* CancelByKeyInternal: the node stays in the multimap. *)
Cancelled(k) ==
    /\ keyToTimerId' = [keyToTimerId EXCEPT ![k] = 0]
    /\ repeats' = [i \in Id |-> IF i = keyToTimerId[k] THEN 0 ELSE repeats[i]]

(* The timer of key k is over, as far as the caller of the manager knows. *)
End(k) == [i \in Id |-> [info[i] EXCEPT !.ended = @ \/ info[i].key = k]]

-----------------------------------------------------------------------------
(* The callers *)

Fits(ms, repeat) == now + AtLeastOne(ms) * (IF repeat > 0 THEN repeat ELSE 1) <= MaxTime

(* Schedule: a timer without a key. *)
DoSchedule(c, ms, repeat) ==
    /\ call[c] = NoCall /\ nextId <= MaxId /\ Fits(ms, repeat)
    /\ timers' = Insert(timers, NewNode(nextId, now + AtLeastOne(ms), repeat, AtLeastOne(ms)))
    /\ info' = [info EXCEPT ![nextId] = [key |-> NoKey, ms |-> AtLeastOne(ms), repeat |-> repeat,
                                         start |-> now, ended |-> FALSE]]
    /\ nextId' = nextId + 1
    /\ UNCHANGED <<now, keyToTimerId, repeats, bClosed, ticker, call, runs, late>>

(* CancelByKey *)
CancelByKey(c, k) ==
    /\ call[c] = NoCall /\ keyToTimerId[k] # 0
    /\ Cancelled(k)
    /\ info' = End(k)
    /\ UNCHANGED <<now, timers, nextId, bClosed, ticker, call, runs, late>>

(* ScheduleWithKey cancels in a critical section of its own ... *)
ScheduleWithKey(c, k, t) ==
    /\ call[c] = NoCall /\ nextId <= MaxId
    /\ Cancelled(k)
    /\ info' = End(k)
    /\ call' = [call EXCEPT ![c] = <<k, t>>]
    /\ UNCHANGED <<now, timers, nextId, bClosed, ticker, runs, late>>

(* ... and DoScheduleWithKey cancels again and sets the new timer. *)
DoScheduleWithKey(c) ==
    LET k      == call[c][1]
        ms     == AtLeastOne(call[c][2][1])
        repeat == call[c][2][2]
    IN
    /\ call[c] # NoCall /\ nextId <= MaxId /\ Fits(ms, repeat)
    /\ call' = [call EXCEPT ![c] = NoCall]
    /\ keyToTimerId' = [keyToTimerId EXCEPT ![k] = nextId]
    /\ repeats' = [i \in Id |-> IF i = nextId THEN repeat
                                ELSE IF i = keyToTimerId[k] THEN 0 ELSE repeats[i]]
    /\ timers' = Insert(timers, NewNode(nextId, now + ms, repeat, ms))
    /\ info' = [End(k) EXCEPT ![nextId] = [key |-> k, ms |-> ms, repeat |-> repeat,
                                           start |-> now, ended |-> FALSE]]
    /\ nextId' = nextId + 1
    /\ UNCHANGED <<now, bClosed, ticker, runs, late>>

(* Stop sets the flag and adds a node that is due at once. *)
Stop ==
    /\ ~bClosed
    /\ bClosed' = TRUE
    /\ timers' = Insert(timers, NewNode(Dummy, now, 0, 0))
    /\ UNCHANGED <<now, keyToTimerId, repeats, nextId, ticker, call, hist>>

ClockTick ==
    /\ now < MaxTime
    /\ now' = now + 1
    /\ UNCHANGED <<tables, nextId, bClosed, ticker, call, hist>>

-----------------------------------------------------------------------------
(* The Tick thread *)

Due == {i \in 1..Len(timers) : timers[i].time <= now}
(* The nodes one Update takes: a prefix, the multimap being in order. *)
BatchSize == IF BatchLimit \in Due THEN BatchLimit ELSE Cardinality(Due)

\* Mutant of Collect: due nodes over the limit are erased with the others.
CollectDropsRest ==
    /\ pc = "update" /\ Due # {}
    /\ batch' = SubSeq(timers, 1, BatchSize)
    /\ timers' = SubSeq(timers, Cardinality(Due) + 1, Len(timers))
    /\ pc' = "check"
    /\ UNCHANGED <<now, keyToTimerId, repeats, nextId, bClosed, call, hist>>

\* Mutant of Collect: no limit.
CollectAll ==
    /\ pc = "update" /\ Due # {}
    /\ batch' = SubSeq(timers, 1, Cardinality(Due))
    /\ timers' = SubSeq(timers, Cardinality(Due) + 1, Len(timers))
    /\ pc' = "check"
    /\ UNCHANGED <<now, keyToTimerId, repeats, nextId, bClosed, call, hist>>

(* Tick tests the flag; Stop may come between the test and Update.          *)
Round ==
    /\ pc = "loop" /\ ~bClosed
    /\ pc' = "update"
    /\ UNCHANGED <<now, tables, nextId, bClosed, batch, call, hist>>

(* Update takes the due nodes out, at most BatchLimit of them; ...          *)
Collect ==
    /\ pc = "update" /\ Due # {}
    /\ batch' = SubSeq(timers, 1, BatchSize)
    /\ timers' = SubSeq(timers, BatchSize + 1, Len(timers))
    /\ pc' = "check"
    /\ UNCHANGED <<now, keyToTimerId, repeats, nextId, bClosed, call, hist>>

(* ... with nothing due it does nothing.                                    *)
NothingDue ==
    /\ pc = "update" /\ Due = {}
    /\ pc' = "loop"
    /\ UNCHANGED <<now, tables, nextId, bClosed, batch, call, hist>>

Cur == Head(batch)
CurKey == info[Cur.id].key

\* Mutant of IsValid: only the key is looked for, not the id.
IsValidAnyId(n) == info[n.id].key = NoKey \/ keyToTimerId[info[n.id].key] # 0

(* Whether the callback of node n may go on: its key still has its id. *)
IsValid(n) == info[n.id].key = NoKey \/ keyToTimerId[info[n.id].key] = n.id

(* OnTimer runs nothing for a node whose _repeat is 0, and Update drops it; *)
(* otherwise the callback checks its key.                                   *)
Check ==
    /\ pc = "check"
    /\ \/ /\ Cur.repeat = 0
          /\ batch' = Tail(batch)
          /\ pc' = IF batch' = <<>> THEN "loop" ELSE "check"
       \/ /\ Cur.repeat # 0
          /\ pc' = IF IsValid(Cur) THEN "wrap" ELSE "back"
          /\ UNCHANGED batch
    /\ UNCHANGED <<now, tables, nextId, bClosed, call, hist>>

(* The wrapper of ScheduleWithKey looks for the key once more, without the  *)
(* mutex and whatever its id; a timer without a key has neither test.       *)
Wrap ==
    /\ pc = "wrap"
    /\ pc' = IF CurKey = NoKey \/ keyToTimerId[CurKey] # 0 THEN "run" ELSE "after"
    /\ UNCHANGED <<now, tables, nextId, bClosed, batch, call, hist>>

(* The user's callback, which may throw. *)
Run(throws) ==
    LET i == Cur.id IN
    /\ pc = "run"
    /\ runs' = [runs EXCEPT ![i] = @ + 1]
    /\ late' = [late EXCEPT ![i] = IF info[i].ended THEN @ + 1 ELSE @]
    /\ pc' = IF CurKey = NoKey THEN "back" ELSE IF throws THEN "catch" ELSE "after"
    /\ info' = IF throws /\ CurKey # NoKey THEN [info EXCEPT ![i].ended = TRUE] ELSE info
    /\ UNCHANGED <<now, tables, nextId, bClosed, batch, call>>

\* Mutant of Again: the new node is due at once.
AgainAtOnce(n, left) == Insert(timers, NewNode(n.id, now, left, n.period))

(* A further node for the next execution, beside the one Update puts back. *)
Again(n, left) == Insert(timers, NewNode(n.id, now + n.period, left, n.period))

\* Mutant of After: the remaining count is not written back.
AfterNotCounted ==
    LET i == Cur.id
        mine == keyToTimerId[CurKey] = i
    IN
    /\ pc = "after"
    /\ \/ mine /\ repeats[i] = 1
          /\ Cancelled(CurKey) /\ UNCHANGED timers
       \/ mine /\ repeats[i] \notin {0, 1}
          /\ timers' = Again(Cur, repeats[i])
          /\ UNCHANGED <<repeats, keyToTimerId>>
       \/ ~mine /\ UNCHANGED tables
    /\ pc' = "back"
    /\ UNCHANGED <<now, nextId, bClosed, batch, call, hist>>

(* ... and what follows it under the mutex: the last repetition forgets the *)
(* key, the others count and add a node; nothing if the key is another's.   *)
(* A timer that runs has its count: one with _repeat 0 never gets here.     *)
After ==
    LET i == Cur.id
        mine == keyToTimerId[CurKey] = i
    IN
    /\ pc = "after"
    /\ \/ mine /\ repeats[i] = 1
          /\ Cancelled(CurKey) /\ UNCHANGED timers
       \/ mine /\ repeats[i] > 1
          /\ repeats' = [repeats EXCEPT ![i] = @ - 1]
          /\ timers' = Again(Cur, repeats'[i])
          /\ UNCHANGED keyToTimerId
       \/ mine /\ repeats[i] = -1
          /\ timers' = Again(Cur, -1) /\ UNCHANGED <<repeats, keyToTimerId>>
       \/ ~mine /\ UNCHANGED tables
    /\ pc' = "back"
    /\ UNCHANGED <<now, nextId, bClosed, batch, call, hist>>

(* An exception: the entries of this timer are erased. *)
Catch ==
    LET i == Cur.id IN
    /\ pc = "catch"
    /\ keyToTimerId' = [keyToTimerId EXCEPT ![CurKey] = IF @ = i THEN 0 ELSE @]
    /\ repeats' = [repeats EXCEPT ![i] = 0]
    /\ pc' = "back"
    /\ UNCHANGED <<now, timers, nextId, bClosed, batch, call, hist>>

(* The rest of OnTimer, and Update puts the node back unless it is done.    *)
(* It does so for a cancelled timer too.                                    *)
Back ==
    LET left == IF Cur.repeat > 0 THEN Cur.repeat - 1 ELSE Cur.repeat IN
    /\ pc = "back"
    /\ timers' = IF left = 0 THEN timers
                 ELSE Insert(timers, NewNode(Cur.id, Cur.time + Cur.period, left, Cur.period))
    /\ batch' = Tail(batch)
    /\ pc' = IF batch' = <<>> THEN "loop" ELSE "check"
    /\ UNCHANGED <<now, keyToTimerId, repeats, nextId, bClosed, call, hist>>

\* Mutant of TickEnds: the flag is looked at only when there are no timers.
TickEndsWhenIdle ==
    /\ pc = "loop" /\ bClosed /\ timers = <<>>
    /\ pc' = "ended"
    /\ UNCHANGED <<now, tables, nextId, bClosed, batch, call, hist>>

(* Tick sees the flag between two rounds. *)
TickEnds ==
    /\ pc = "loop" /\ bClosed
    /\ pc' = "ended"
    /\ UNCHANGED <<now, tables, nextId, bClosed, batch, call, hist>>

Tick ==
    \/ Round \/ NothingDue \/ Collect \/ Check \/ Wrap \/ (\E throws \in BOOLEAN : Run(throws)) \/ After \/ Catch
    \/ Back \/ TickEnds

-----------------------------------------------------------------------------

CallerStep ==
    \/ \E c \in Caller : DoScheduleWithKey(c)
    \/ \E c \in Caller, t \in Timing : DoSchedule(c, t[1], t[2])
    \/ \E c \in Caller, k \in Key : CancelByKey(c, k) \/ \E t \in Timing : ScheduleWithKey(c, k, t)

Next == ClockTick \/ Stop \/ CallerStep \/ Tick

(* Time passes and the Tick thread is scheduled; callers owe nothing. *)
Fairness == WF_vars(ClockTick) /\ WF_vars(Tick)

Spec == Init /\ [][Next]_vars /\ Fairness

-----------------------------------------------------------------------------
(* Properties *)

(* The tables stay in step although callbacks, callers and the Tick thread   *)
(* change them in turns: a count is kept only for the timer its key names,   *)
(* so that neither cancelling nor the last repetition nor an exception       *)
(* leaves an entry nobody will ever erase.                                   *)
TablesInStep ==
    /\ \A i \in Id : repeats[i] # 0 => info[i].key # NoKey /\ keyToTimerId[info[i].key] = i
    /\ \A k \in Key : keyToTimerId[k] # 0 => info[keyToTimerId[k]].key = k

(* A timer with a key runs no more often than it was asked to, although      *)
(* every execution leaves two nodes for the next one: Update puts its node   *)
(* back and the callback has inserted another (maptimer.cpp:314).            *)
AtMostRepeat ==
    \A i \in Id : info[i].key # NoKey /\ info[i].repeat > 0 => runs[i] <= info[i].repeat

(* A timer does not run before its first period has passed. *)
NotBefore == \A i \in Id : runs[i] > 0 => now >= info[i].start + info[i].ms

(* How often a timer may have run by now: the two nodes double the runs of   *)
(* every further period; without a key there is one run a period.            *)
NotEarly ==
    \A i \in Id : LET n == (now - info[i].start) \div info[i].ms IN
        runs[i] <= IF info[i].key = NoKey THEN n ELSE 2^n - 1

(* Cancelling or replacing a timer stops it, but for the one execution that  *)
(* is past its test of the key at that moment: the callback is called after  *)
(* the mutex is released (maptimer.cpp:287), and the nodes that stay behind  *)
(* never get past that test.                                                 *)
LateOnce == \A i \in Id : late[i] <= 1

(* No timer is lost: one asked to run n > 0 times does, unless it is         *)
(* cancelled, replaced, throws, or the manager is stopped, whatever the      *)
(* other timers and the limit of a round do.                                 *)
RunsAll ==
    \A i \in Id : (info[i].repeat > 0 /\ ~info[i].ended) ~>
        (runs[i] >= info[i].repeat \/ info[i].ended \/ bClosed)

(* Stop ends the thread, even while timers are due all the time. *)
StopEnds == bClosed ~> pc = "ended"

(* The tables stay in step, and with them a callback runs no more often than *)
(* asked for, not before its time, and at most once after its timer was      *)
(* cancelled or replaced.                                                    *)
TimersSound == TypeOK /\ TablesInStep /\ AtMostRepeat /\ NotBefore /\ LateOnce
=============================================================================
