----------------------------- MODULE ThreadPool -----------------------------
(***************************************************************************)
(* zener::v0::ThreadPool of include/task/threadpool_1.h, the pool the      *)
(* server hands its read and write tasks to: worker threads around one     *)
(* mutex, one condition variable and a FIFO of tasks; AddTask, called by   *)
(* any thread; Shutdown, called explicitly or by the destructor.           *)
(*                                                                         *)
(* A critical section of Pool::mtx is one step; what happens outside it    *)
(* (the task itself, AddTask's notify_one, the gap between the phases of   *)
(* Shutdown) is a step of its own, so that every interleaving the mutex    *)
(* admits is a behaviour.  Waiting on the condition variable is the        *)
(* control state "wait"; a spurious wakeup is a step no fairness obliges.  *)
(***************************************************************************)
EXTENDS Naturals, Sequences, FiniteSets, Functions

CONSTANTS
    Worker,         \* the threads the constructor starts
    Producer,       \* the threads that call AddTask
    Task,           \* the callables, each handed to AddTask at most once
    MaxShutdown     \* bound: calls of Shutdown (one explicit, one from ~ThreadPool)

ASSUME WorkerAssumption == Worker # {} /\ IsFiniteSet(Worker)
ASSUME MaxShutdownAssumption == MaxShutdown \in Nat
ASSUME NoTaskAssumption == "none" \notin Task

NoTask == "none"

VARIABLES
    tasks,          \* Pool::tasks
    isClosed,       \* Pool::isClosed
    activeThreads,  \* Pool::activeThreads
    wpc,            \* control state of each worker
    cur,            \* the task a worker popped and runs
    ppc,            \* control state of each producer: "idle", or "notify" after the unlock of AddTask
    spc,            \* control state of the thread in Shutdown (its std::async waiter included)
    shutdowns,      \* calls of Shutdown so far
    graceful,       \* what the latest finished wait of Shutdown returned
    submitted,      \* history: the tasks handed to AddTask, in the order of their critical sections
    started,        \* history: the tasks popped by workers, in that order
    finished,       \* history: the tasks that ran to their end
    early           \* history: the tasks submitted before the first Shutdown closed the pool

shut == <<spc, shutdowns, graceful>>
hist == <<submitted, started, finished, early>>
vars == <<tasks, isClosed, activeThreads, wpc, cur, ppc, shut, hist>>

WorkerStates   == {"top", "run", "back", "wait", "exit"}
ShutdownStates == {"none", "check", "wait", "expired", "drain"}

TypeOK ==
    /\ tasks \in Seq(Task)
    /\ isClosed \in BOOLEAN
    /\ activeThreads \in Nat
    /\ wpc \in [Worker -> WorkerStates]
    /\ cur \in [Worker -> Task \cup {NoTask}]
    /\ ppc \in [Producer -> {"idle", "notify"}]
    /\ spc \in ShutdownStates
    /\ shutdowns \in Nat
    /\ graceful \in BOOLEAN
    /\ submitted \in Seq(Task)
    /\ started \in Seq(Task)
    /\ finished \in SUBSET Task
    /\ early \in SUBSET Task

Init ==
    /\ tasks = <<>>
    /\ isClosed = FALSE
    /\ activeThreads = 0
    /\ wpc = [w \in Worker |-> "top"]
    /\ cur = [w \in Worker |-> NoTask]
    /\ ppc = [p \in Producer |-> "idle"]
    /\ spc = "none"
    /\ shutdowns = 0
    /\ graceful = FALSE
    /\ submitted = <<>>
    /\ started = <<>>
    /\ finished = {}
    /\ early = {}

-----------------------------------------------------------------------------
(* The worker's loop *)

(* The loop body with the mutex held, activeThreads being `active` on entry. *)
LoopExit(w, active) ==
    /\ isClosed
    /\ wpc' = [wpc EXCEPT ![w] = "exit"]
    /\ activeThreads' = active
    /\ UNCHANGED <<tasks, cur, started>>

Pop(w, active, rest) ==
    /\ tasks # <<>>
    /\ wpc' = [wpc EXCEPT ![w] = "run"]
    /\ cur' = [cur EXCEPT ![w] = Head(tasks)]
    /\ tasks' = rest
    /\ started' = Append(started, Head(tasks))
    /\ activeThreads' = active + 1

\* Mutant of LoopPop: the task is moved from but not popped.
LoopPopKeep(w, active) == ~isClosed /\ Pop(w, active, tasks)

LoopPop(w, active) == ~isClosed /\ Pop(w, active, Tail(tasks))

LoopWait(w, active) ==
    /\ ~isClosed
    /\ tasks = <<>>
    /\ wpc' = [wpc EXCEPT ![w] = "wait"]
    /\ activeThreads' = active
    /\ UNCHANGED <<tasks, cur, started>>

Loop(w, active) ==
    /\ LoopExit(w, active) \/ LoopPop(w, active) \/ LoopWait(w, active)
    /\ UNCHANGED <<isClosed, ppc, shut, submitted, finished, early>>

\* Mutant of WorkerTop: the decrement of the counter is done on every way to the top.
WorkerTopDec(w) == wpc[w] = "top" /\ Loop(w, activeThreads - 1)

(* Holds the mutex at the loop's top: on thread start or after cond.wait. *)
WorkerTop(w) == wpc[w] = "top" /\ Loop(w, activeThreads)

(* task() returns, outside the mutex. *)
WorkerFinish(w) ==
    /\ wpc[w] = "run"
    /\ wpc' = [wpc EXCEPT ![w] = "back"]
    /\ finished' = finished \cup {cur[w]}
    /\ cur' = [cur EXCEPT ![w] = NoTask]
    /\ UNCHANGED <<tasks, isClosed, activeThreads, ppc, shut, submitted, started, early>>

\* Mutant of WorkerBack: the decrement of activeThreads is missing.
WorkerBackNoDec(w) == wpc[w] = "back" /\ Loop(w, activeThreads)

(* Takes the mutex back, decrements activeThreads and goes round the loop. *)
WorkerBack(w) == wpc[w] = "back" /\ Loop(w, activeThreads - 1)

SpuriousWakeup(w) ==
    /\ wpc[w] = "wait"
    /\ wpc' = [wpc EXCEPT ![w] = "top"]
    /\ UNCHANGED <<tasks, isClosed, activeThreads, cur, ppc, shut, hist>>

-----------------------------------------------------------------------------
(* AddTask *)

AddTask(p, t) ==
    /\ ppc[p] = "idle"
    /\ t \notin Range(submitted)
    /\ tasks' = Append(tasks, t)
    /\ submitted' = Append(submitted, t)
    /\ early' = IF isClosed THEN early ELSE early \cup {t}
    /\ ppc' = [ppc EXCEPT ![p] = "notify"]
    /\ UNCHANGED <<isClosed, activeThreads, wpc, cur, shut, started, finished>>

(* cond.notify_one() wakes one of the threads that wait on cond, if any: a   *)
(* worker or the waiter of Shutdown.                                         *)
NobodyWaits == spc # "wait" /\ \A w \in Worker : wpc[w] # "wait"

\* Mutant of NotifyOne: the notification is dropped.
NotifyNobody(p) ==
    /\ ppc[p] = "notify"
    /\ ppc' = [ppc EXCEPT ![p] = "idle"]
    /\ UNCHANGED <<tasks, isClosed, activeThreads, wpc, cur, shut, hist>>

NotifyOne(p) ==
    /\ ppc[p] = "notify"
    /\ ppc' = [ppc EXCEPT ![p] = "idle"]
    /\ \/ \E w \in Worker : wpc[w] = "wait" /\ wpc' = [wpc EXCEPT ![w] = "top"] /\ UNCHANGED spc
       \/ spc = "wait" /\ spc' = "check" /\ UNCHANGED wpc
       \/ NobodyWaits /\ UNCHANGED <<wpc, spc>>
    /\ UNCHANGED <<tasks, isClosed, activeThreads, cur, shutdowns, graceful, hist>>

-----------------------------------------------------------------------------
(* Shutdown *)

\* Mutant of NotifyAll: at most one worker is woken.
NotifyAtMostOne ==
    \/ \E w \in Worker : wpc[w] = "wait" /\ wpc' = [wpc EXCEPT ![w] = "top"]
    \/ (\A w \in Worker : wpc[w] # "wait") /\ UNCHANGED wpc

NotifyAll == wpc' = [w \in Worker |-> IF wpc[w] = "wait" THEN "top" ELSE wpc[w]]

\* Mutant of AllDone: the running tasks are forgotten.
QueueDone == tasks = <<>>

(* What the wait of Shutdown asks for: nothing queued and nothing running. *)
AllDone == tasks = <<>> /\ activeThreads = 0

(* Phase 1: close the pool and notify_all, under the mutex. *)
ShutdownClose ==
    /\ spc = "none"
    /\ shutdowns < MaxShutdown
    /\ isClosed' = TRUE
    /\ NotifyAll
    /\ spc' = "check"
    /\ UNCHANGED <<tasks, activeThreads, cur, ppc, shutdowns, graceful, hist>>

(* The waiter tests the predicate, on entry of wait_for or after a wakeup.  *)
ShutdownCheck ==
    /\ spc = "check"
    /\ spc' = IF AllDone THEN "drain" ELSE "wait"
    /\ graceful' = AllDone
    /\ UNCHANGED <<tasks, isClosed, activeThreads, wpc, cur, ppc, shutdowns, hist>>

ShutdownSpurious ==
    /\ spc = "wait"
    /\ spc' = "check"
    /\ UNCHANGED <<tasks, isClosed, activeThreads, wpc, cur, ppc, shutdowns, graceful, hist>>

(* The timeout elapses; wait_for then returns the predicate, under the mutex. *)
ShutdownExpire ==
    /\ spc = "wait"
    /\ spc' = "expired"
    /\ UNCHANGED <<tasks, isClosed, activeThreads, wpc, cur, ppc, shutdowns, graceful, hist>>

ShutdownResult ==
    /\ spc = "expired"
    /\ spc' = "drain"
    /\ graceful' = AllDone
    /\ UNCHANGED <<tasks, isClosed, activeThreads, wpc, cur, ppc, shutdowns, hist>>

(* Phase 2: drop what is queued and detach the threads. *)
ShutdownDrain ==
    /\ spc = "drain"
    /\ spc' = "none"
    /\ tasks' = <<>>
    /\ shutdowns' = shutdowns + 1
    /\ UNCHANGED <<isClosed, activeThreads, wpc, cur, ppc, graceful, hist>>

-----------------------------------------------------------------------------

WorkerStep(w) == WorkerTop(w) \/ WorkerFinish(w) \/ WorkerBack(w)

ShutdownStep == ShutdownCheck \/ ShutdownExpire \/ ShutdownResult \/ ShutdownDrain

Next ==
    \/ \E w \in Worker : WorkerStep(w) \/ SpuriousWakeup(w)
    \/ \E p \in Producer : NotifyOne(p) \/ \E t \in Task : AddTask(p, t)
    \/ ShutdownClose \/ ShutdownStep \/ ShutdownSpurious

(* Every thread is scheduled and every task returns.  A spurious wakeup, a  *)
(* new task and a call of Shutdown are owed to nobody.  The timeout is an    *)
(* absolute deadline, so wakeups cannot postpone it for ever: it is strongly *)
(* fair.                                                                     *)
Fairness ==
    /\ \A w \in Worker : WF_vars(WorkerStep(w))
    /\ \A p \in Producer : WF_vars(NotifyOne(p))
    /\ WF_vars(ShutdownStep)
    /\ SF_vars(ShutdownExpire)

Spec == Init /\ [][Next]_vars /\ Fairness

-----------------------------------------------------------------------------
(* Safety *)

Busy == {w \in Worker : wpc[w] \in {"run", "back"}}

(* activeThreads, which Shutdown trusts to tell that nothing runs, is the   *)
(* number of workers between their pop and the end of their decrement.      *)
ActiveExact == activeThreads = Cardinality(Busy)

(* Workers start tasks in the order AddTask queued them, none twice and     *)
(* none skipped: the tasks popped are a prefix of the tasks submitted.      *)
StartOrder ==
    /\ Len(started) <= Len(submitted)
    /\ \A i \in 1..Len(started) : started[i] = submitted[i]

(* No wakeup is lost: AddTask notifies after it has released the mutex, and *)
(* a worker waits without a predicate; still, while the pool is open a      *)
(* queued task never faces workers that all sleep with no notify_one on its *)
(* way.                                                                     *)
NoLostWakeup ==
    ~isClosed /\ tasks # <<>> =>
        \/ \E w \in Worker : wpc[w] # "wait"
        \/ \E p \in Producer : ppc[p] = "notify"

(* When the first Shutdown reports "All tasks completed gracefully", every  *)
(* task handed over before it closed the pool has run to its end: the       *)
(* predicate it read cannot be true while a task is in flight.              *)
GracefulIsTrue == spc = "drain" /\ graceful /\ shutdowns = 0 => early \subseteq finished

-----------------------------------------------------------------------------
(* Liveness *)

(* While nobody shuts the pool down, a task handed to AddTask is run.       *)
EveryTaskRuns ==
    \A t \in Task : t \in Range(submitted) ~> (t \in finished \/ isClosed)

(* After Shutdown every worker leaves its loop, whatever it was doing, and  *)
(* with a timeout that elapses the call itself returns.                     *)
ShutdownEnds == isClosed ~> (spc = "none" /\ \A w \in Worker : wpc[w] = "exit")
=============================================================================
