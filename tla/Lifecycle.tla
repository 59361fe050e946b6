----------------------------- MODULE Lifecycle ------------------------------
(***************************************************************************)
(* From main() to the end of the process: NewServerFromConfig and the       *)
(* constructor of Server, whose every step may fail, the loop of Run, a     *)
(* thread that calls Server::Stop, ~Server, and the logger they and the     *)
(* workers share, with its one mutex.                                       *)
(*                                                                          *)
(* What a thread still has to do is a sequence of steps (todo): a function  *)
(* of the code that logs is spliced in as the steps of the logger it calls. *)
(* std::mutex is not recursive: a thread that locks it twice waits for      *)
(* itself.                                                                  *)
(***************************************************************************)
EXTENDS Integers, Sequences, FiniteSets

CONSTANTS
    Worker,      \* threads of the pool
    Stopper,     \* threads that call Stop, each at most once
    Fd,          \* descriptor numbers
    MaxLog       \* bound: log calls of the workers and of Run

ASSUME FdAssumption == Fd \subseteq Nat \ {0} /\ Fd # {} /\ IsFiniteSet(Fd)
ASSUME ThreadAssumption ==
    Worker \cap Stopper = {} /\ {"main", "nobody"} \cap (Worker \cup Stopper) = {}
ASSUME LogAssumption == MaxLog \in Nat

Main == "main"
NoOwner == "nobody"
Thread == Worker \cup Stopper \cup {Main}
NoFd == -1

VARIABLES
    stage,       \* where main() is
    todo,        \* the steps each thread has still to do
    mutex,       \* the owner of sLoggerMutex
    initialized, \* Logger::_sInitialized
    isClose,     \* Server::_isClose
    listenFd,    \* Server::_listenFd
    fds,         \* kernel: what each descriptor number is
    registered,  \* kernel: the listening socket is in the epoll set
    blocking,    \* kernel: accept on the listening socket waits for a connection
    sql,         \* the connection pool: "empty" if no connection could be opened
    event,       \* kernel: epoll_wait has something to return
    stopped,     \* the threads that have called Stop
    logs         \* environment: log calls of the workers and of Run so far

logger == <<mutex, initialized>>
kernel == <<fds, registered, blocking>>
vars   == <<stage, todo, logger, isClose, listenFd, kernel, sql, event, stopped, logs>>

-----------------------------------------------------------------------------
(* The logger and what calls it *)

\* Mutant of LogCall: the lock is not a guard, and nothing unlocks.
LogCallNoUnlock == <<"test", "lock">>

(* Logger::log tests, without the mutex, whether there is a logger. *)
LogCall == <<"test", "lock", "unlock">>

(* What is written with the mutex held nobody else can see. *)
Flush == <<"lock", "unlock">>
WriteToFile == <<"lock", "unlock">>

(* Logger::Shutdown calls Flush with the mutex held. *)
Shutdown == <<"lock">> \o Flush \o <<"spdShutdown", "unlock">>

StopCall == <<"closeListen", "sqlClose">> \o LogCall \o <<"setClose">> \o Flush \o Shutdown

(* ~Server.  The destructors of its members, and ~Logger, which calls Flush *)
(* and Shutdown again, come after it.                                       *)
Destructor == <<"closeListen", "setClose", "sqlClose">> \o LogCall \o Flush \o Shutdown

Op == {"test", "lock", "unlock", "spdShutdown", "closeListen", "sqlClose", "setClose"}

(* The start, in order: Config::Init, initSocket's steps, the connection    *)
(* pool and the log file.                                                   *)
Start == <<"config", "port", "socket", "linger", "reuse", "bind", "listen", "addFd", "nonblock",
           "sql", "logFile">>
StartStage == {Start[i] : i \in 1..Len(Start)}
Loop == {"top", "wait", "handle", "accept"}
After(s) == LET i == CHOOSE i \in 1..Len(Start) : Start[i] = s
            IN  IF i = Len(Start) THEN "top" ELSE Start[i + 1]

TypeOK ==
    /\ stage \in StartStage \cup Loop \cup {"left", "null", "failed"}
    /\ todo \in [Thread -> Seq(Op)]
    /\ mutex \in Thread \cup {NoOwner} /\ initialized \in BOOLEAN
    /\ isClose \in BOOLEAN /\ stopped \subseteq Stopper /\ event \in BOOLEAN
    /\ listenFd \in Fd \cup {0, NoFd} /\ fds \in [Fd -> {"free", "listen", "file"}]
    /\ registered \in BOOLEAN /\ blocking \in BOOLEAN
    /\ sql \in {"none", "open", "empty", "closed"} /\ logs \in 0..MaxLog

(* main() has called Logger::Init. *)
Init ==
    /\ stage = "config" /\ todo = [t \in Thread |-> <<>>]
    /\ mutex = NoOwner /\ initialized = TRUE
    /\ isClose = FALSE /\ stopped = {} /\ event = FALSE
    /\ listenFd = 0 /\ fds = [f \in Fd |-> "free"] /\ registered = FALSE /\ blocking = TRUE
    /\ sql = "none" /\ logs = 0

Free == {f \in Fd : fds[f] = "free"}
CloseFd(f) == fds' = [n \in Fd |-> IF n = f THEN "free" ELSE fds[n]]

-----------------------------------------------------------------------------
(* The start *)

(* What a step that succeeds writes.                                        *)
Says(s) ==
    CASE s = "sql"     -> LogCall
      [] s = "logFile" -> WriteToFile \o LogCall
      [] OTHER         -> <<>>

(* SqlConnector::Init logs of each connection whether it could be opened,   *)
(* and goes on: the pool may be left without any.                           *)
OpenSql == IF stage = "sql" THEN sql' \in {"open", "empty"} ELSE UNCHANGED sql

Starting(stages) == stage \in stages /\ todo[Main] = <<>>

\* Mutant of StartStep: the listening socket is never given to epoll.
StartStepNoEpoll ==
    /\ Starting(StartStage)
    /\ stage' = After(stage)
    /\ todo' = [todo EXCEPT ![Main] = Says(stage)]
    /\ \/ /\ stage = "socket"
          /\ \E f \in Free : listenFd' = f /\ fds' = [fds EXCEPT ![f] = "listen"]
       \/ stage # "socket" /\ UNCHANGED <<listenFd, fds>>
    /\ blocking' = (blocking /\ stage # "nonblock")
    /\ OpenSql
    /\ UNCHANGED <<logger, isClose, registered, event, stopped, logs>>

(* A step that succeeds. *)
StartStep ==
    /\ Starting(StartStage)
    /\ stage' = After(stage)
    /\ todo' = [todo EXCEPT ![Main] = Says(stage)]
    /\ \/ /\ stage = "socket"
          /\ \E f \in Free : listenFd' = f /\ fds' = [fds EXCEPT ![f] = "listen"]
       \/ stage # "socket" /\ UNCHANGED <<listenFd, fds>>
    /\ registered' = (registered \/ stage = "addFd")
    /\ blocking' = (blocking /\ stage # "nonblock")
    /\ OpenSql
    /\ UNCHANGED <<logger, isClose, event, stopped, logs>>

(* Config::Init fails: NewServerFromConfig returns nullptr, which main()    *)
(* does not test.                                                           *)
ConfigFails ==
    /\ Starting({"config"})
    /\ stage' = "null"
    /\ todo' = [todo EXCEPT ![Main] = LogCall]
    /\ UNCHANGED <<logger, isClose, listenFd, kernel, sql, event, stopped, logs>>

(* The port is out of range or socket() fails, ... *)
NoSocket ==
    /\ Starting({"port", "socket"})
    /\ stage' = "failed"
    /\ todo' = [todo EXCEPT ![Main] = LogCall]
    /\ listenFd' = IF stage = "socket" THEN NoFd ELSE listenFd
    /\ UNCHANGED <<logger, isClose, kernel, sql, event, stopped, logs>>

\* Mutant of SocketFails: a failed bind leaves the socket open.
SocketFailsKeepsFd ==
    /\ Starting({"linger", "reuse", "bind", "listen", "addFd"})
    /\ stage' = "failed"
    /\ todo' = [todo EXCEPT ![Main] = LogCall]
    /\ IF stage = "bind" THEN UNCHANGED fds ELSE CloseFd(listenFd)
    /\ UNCHANGED <<logger, isClose, listenFd, registered, blocking, sql, event, stopped, logs>>

(* ... or a later step of initSocket fails, and the socket is closed: the   *)
(* constructor throws, which main() does not catch.                         *)
SocketFails ==
    /\ Starting({"linger", "reuse", "bind", "listen", "addFd"})
    /\ stage' = "failed"
    /\ todo' = [todo EXCEPT ![Main] = LogCall]
    /\ CloseFd(listenFd)
    /\ UNCHANGED <<logger, isClose, listenFd, registered, blocking, sql, event, stopped, logs>>

(* setFdNonBlock or WriteToFile fails: it is logged and the start goes on,  *)
(* with a listening socket that blocks.                                     *)
StartLogs ==
    /\ Starting({"nonblock", "logFile"})
    /\ stage' = After(stage)
    /\ todo' = [todo EXCEPT ![Main] = (IF stage = "logFile" THEN WriteToFile ELSE <<>>) \o LogCall]
    /\ UNCHANGED <<logger, isClose, listenFd, kernel, sql, event, stopped, logs>>

-----------------------------------------------------------------------------
(* Run *)

\* Mutant of LoopTop: the flag is not looked at again.
LoopTopForever ==
    /\ stage = "top" /\ todo[Main] = <<>>
    /\ stage' = "wait"
    /\ UNCHANGED <<todo, logger, isClose, listenFd, kernel, sql, event, stopped, logs>>

(* Run returns once the flag is set: main() returns and ~Server runs. *)
LoopTop ==
    /\ stage = "top" /\ todo[Main] = <<>>
    /\ \/ isClose /\ stage' = "left" /\ todo' = [todo EXCEPT ![Main] = Destructor]
       \/ ~isClose /\ stage' = "wait" /\ UNCHANGED todo
    /\ UNCHANGED <<logger, isClose, listenFd, kernel, sql, event, stopped, logs>>

(* epoll_wait returns for an event or a timer, and for nothing else. *)
Wake ==
    /\ stage = "wait" /\ event
    /\ stage' = "handle"
    /\ event' = FALSE
    /\ UNCHANGED <<todo, logger, isClose, listenFd, kernel, sql, stopped, logs>>

(* dealListen accepts until there is no more connection or, with a socket   *)
(* that blocks, waits for one in accept.  Handling an event may log.        *)
CanBlock == blocking /\ listenFd \in Fd /\ fds[listenFd] = "listen"

Handled ==
    /\ todo[Main] = <<>>
    /\ stage' = "top" \/ (CanBlock /\ stage' = "accept")
    /\ \/ logs < MaxLog /\ logs' = logs + 1 /\ todo' = [todo EXCEPT ![Main] = LogCall]
       \/ UNCHANGED <<logs, todo>>
    /\ UNCHANGED <<logger, isClose, listenFd, kernel, sql, event, stopped>>

Handle == stage = "handle" /\ Handled

(* accept returns with a connection or an error; close(_listenFd) by another *)
(* thread does not end it.                                                  *)
AcceptReturns == stage = "accept" /\ Handled

-----------------------------------------------------------------------------
(* The other threads *)

Serving == stage \in Loop \cup {"left"}

Arrive ==
    /\ stage \in Loop /\ ~event
    /\ event' = TRUE
    /\ UNCHANGED <<stage, todo, logger, isClose, listenFd, kernel, sql, stopped, logs>>

(* A task logs, ... *)
WorkerLogs(w) ==
    /\ Serving /\ todo[w] = <<>> /\ logs < MaxLog
    /\ logs' = logs + 1
    /\ todo' = [todo EXCEPT ![w] = LogCall]
    /\ UNCHANGED <<stage, logger, isClose, listenFd, kernel, sql, event, stopped>>

(* ... or opens a file and closes it. *)
WorkerOpens(f) ==
    /\ Serving /\ fds[f] = "free"
    /\ fds' = [fds EXCEPT ![f] = "file"]
    /\ UNCHANGED <<stage, todo, logger, isClose, listenFd, registered, blocking, sql, event, stopped, logs>>

WorkerCloses(f) ==
    /\ fds[f] = "file"
    /\ CloseFd(f)
    /\ UNCHANGED <<stage, todo, logger, isClose, listenFd, registered, blocking, sql, event, stopped, logs>>

(* Stop does not look whether the server is being stopped already. *)
Stop(t) ==
    /\ Serving /\ t \notin stopped
    /\ stopped' = stopped \cup {t}
    /\ todo' = [todo EXCEPT ![t] = StopCall]
    /\ UNCHANGED <<stage, logger, isClose, listenFd, kernel, sql, event, logs>>

-----------------------------------------------------------------------------
(* The steps *)

Doing(t, op) == todo[t] # <<>> /\ Head(todo[t]) = op
Done(t) == todo' = [todo EXCEPT ![t] = Tail(@)]

(* The mutex is free: no thread, its owner neither, gets it twice. *)
Lock(t) ==
    /\ Doing(t, "lock") /\ mutex = NoOwner
    /\ mutex' = t
    /\ Done(t)
    /\ UNCHANGED <<stage, initialized, isClose, listenFd, kernel, sql, event, stopped, logs>>

\* Mutant of CloseListen: the number is compared with the result of close.
CloseListenResult(t) ==
    /\ Doing(t, "closeListen")
    /\ CloseFd(listenFd)
    /\ registered' = FALSE
    /\ listenFd' = (IF listenFd \in Fd /\ fds[listenFd] # "free" THEN 0 ELSE NoFd) - 1
    /\ Done(t)
    /\ UNCHANGED <<stage, logger, isClose, blocking, sql, event, stopped, logs>>

(* close(_listenFd): whatever has that number now.  Only Stop looks at the  *)
(* result, and forgets the number if there was nothing to close.            *)
CloseListen(t) ==
    LET found == listenFd \in Fd /\ fds[listenFd] # "free" IN
    /\ Doing(t, "closeListen")
    /\ CloseFd(listenFd)
    /\ registered' = (registered /\ ~(found /\ fds[listenFd] = "listen"))
    /\ \/ /\ found \/ t = Main
          /\ Done(t) /\ UNCHANGED listenFd
       \/ /\ ~found /\ t # Main
          /\ listenFd' = NoFd
          /\ todo' = [todo EXCEPT ![t] = LogCall \o Tail(@)]
    /\ UNCHANGED <<stage, logger, isClose, blocking, sql, event, stopped, logs>>

(* Every other step; a log call without a logger is over at once. *)
Step(t) ==
    LET op == Head(todo[t]) IN
    /\ todo[t] # <<>> /\ op \notin {"lock", "closeListen"}
    /\ mutex' = IF op = "unlock" THEN NoOwner ELSE mutex
    /\ initialized' = (initialized /\ op # "spdShutdown")
    /\ isClose' = (isClose \/ op = "setClose")
    /\ sql' = IF op = "sqlClose" THEN "closed" ELSE sql
    /\ todo' = [todo EXCEPT ![t] = IF op = "test" /\ ~initialized
                                   THEN SubSeq(@, Len(LogCall) + 1, Len(@)) ELSE Tail(@)]
    /\ UNCHANGED <<stage, listenFd, kernel, event, stopped, logs>>

-----------------------------------------------------------------------------

ThreadStep(t) == Lock(t) \/ CloseListen(t) \/ Step(t)

MainStep ==
    \/ StartStep \/ ConfigFails \/ NoSocket \/ SocketFails \/ StartLogs \/ LoopTop \/ Wake \/ Handle

Next ==
    \/ MainStep \/ Arrive \/ AcceptReturns
    \/ \E t \in Stopper : Stop(t)
    \/ \E t \in Thread : ThreadStep(t)
    \/ \E w \in Worker : WorkerLogs(w)
    \/ \E f \in Fd : WorkerOpens(f) \/ WorkerCloses(f)

(* Every thread is scheduled; nobody has to log, to connect or to call Stop. *)
Fairness == WF_vars(MainStep) /\ \A t \in Thread : WF_vars(ThreadStep(t))

Spec == Init /\ [][Next]_vars /\ Fairness

-----------------------------------------------------------------------------
(* Properties *)

(* A thread in Logger::Shutdown, waiting inside Flush for the mutex it owns. *)
InShutdown(t) == mutex = t /\ todo[t] = Tail(Shutdown)

(* When Run begins, and until somebody stops the server, _listenFd is the    *)
(* number of the listening socket, which is registered, and the connection   *)
(* pool has been set up and not closed: no thread reuses or closes what the  *)
(* start opened.  Not what failures that are only logged take away: that the *)
(* socket does not block (server.cpp:862), and that the pool has any         *)
(* connection (sql_connector.cpp:29).                                        *)
KeepsListening ==
    stage \in Loop /\ stopped = {} =>
        listenFd \in Fd /\ fds[listenFd] = "listen" /\ registered /\ sql \in {"open", "empty"}

(* A start that fails part of the way leaves no listening socket behind,     *)
(* and one that goes on has not lost the one it opened.                      *)
FailedLeavesNothing ==
    \A f \in Fd : fds[f] = "listen" => f = listenFd /\ stage \notin {"failed", "null"}

(* Nobody waits for the logger for ever, unless a thread is in Shutdown:     *)
(* there Flush locks the mutex Shutdown holds (use_spd_log.cpp:178), and     *)
(* that is the only way to block the logger.                                 *)
LogsEnd == \A t \in Thread : (todo[t] # <<>>) ~> (todo[t] = <<>> \/ \E u \in Thread : InShutdown(u))

(* Stop has no means to wake epoll_wait (server.h:164 has _wakeupFd for it,  *)
(* which nothing uses), but if events go on arriving Run sees the flag and   *)
(* leaves its loop.  Two things may be in its way: a logger in Shutdown, and *)
(* accept on a listening socket that blocks.                                 *)
StopIsSeen ==
    []<>event => (isClose ~> \/ stage = "left"
                             \/ todo[Main] # <<>> /\ \E u \in Thread : InShutdown(u)
                             \/ stage = "accept" /\ blocking)

(* What a start, failed or not, leaves behind. *)
StartSound == TypeOK /\ KeepsListening /\ FailedLeavesNothing
=============================================================================
