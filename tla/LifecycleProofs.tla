-------------------------- MODULE LifecycleProofs ---------------------------
(***************************************************************************)
(* Proofs about Lifecycle for any workers, any threads that call Stop, any  *)
(* descriptor numbers and any number of log calls.                          *)
(***************************************************************************)
EXTENDS Lifecycle, SequenceTheorems, TLAPS

BeforeSocket == {"config", "port", "socket"}
Opened       == {"linger", "reuse", "bind", "listen", "addFd", "nonblock", "sql", "logFile"} \cup Loop
LogOp        == {"test", "lock", "unlock"}

(* Until Stop is called or Run returns, threads only log: none of them has   *)
(* the listening socket or the connection pool to close.                     *)
OnlyLogs == stopped = {} /\ stage # "left" => \A t \in Thread : todo[t] \in Seq(LogOp)

(* What each stage of the start has behind it, as long as nobody stops. *)
StartedInOrder ==
    /\ stage \notin Loop \cup {"left"} => stopped = {}
    /\ stage \in Opened /\ stopped = {} => listenFd \in Fd /\ fds[listenFd] = "listen"
    /\ stage \in {"nonblock", "sql", "logFile"} \cup Loop /\ stopped = {} => registered
    /\ stage \in {"logFile"} \cup Loop /\ stopped = {} => sql \in {"open", "empty"}

(* The one listening socket is the one _listenFd names, from socket() on,    *)
(* and not after a failed start.                                             *)
OneListener ==
    \A f \in Fd : fds[f] = "listen" => f = listenFd /\ stage \notin BeforeSocket \cup {"failed", "null"}

(* The inductive invariant. *)
IInv == TypeOK /\ OnlyLogs /\ StartedInOrder /\ OneListener

-----------------------------------------------------------------------------
(* The sequences of steps *)

LEMMA LogSequences ==
    /\ LogOp \subseteq Op /\ Seq(LogOp) \subseteq Seq(Op) /\ <<>> \in Seq(LogOp)
    /\ LogCall \in Seq(LogOp) /\ Flush \in Seq(LogOp) /\ WriteToFile \in Seq(LogOp)
    /\ WriteToFile \o LogCall \in Seq(LogOp)
<1>1. LogOp \subseteq Op
  BY DEF LogOp, Op
<1>2. LogCall \in Seq(LogOp) /\ Flush \in Seq(LogOp) /\ WriteToFile \in Seq(LogOp) /\ <<>> \in Seq(LogOp)
  BY DEF LogCall, Flush, WriteToFile, LogOp
<1>3. Seq(LogOp) \subseteq Seq(Op)
  BY <1>1, SeqMonotonic
<1>4. WriteToFile \o LogCall \in Seq(LogOp)
  BY <1>2, ConcatProperties
<1> QED
  BY <1>1, <1>2, <1>3, <1>4

LEMMA SaysLogs == ASSUME NEW s PROVE Says(s) \in Seq(LogOp)
  BY LogSequences DEF Says

LEMMA CallSequences == StopCall \in Seq(Op) /\ Destructor \in Seq(Op)
<1>1. LogCall \in Seq(Op) /\ Flush \in Seq(Op)
  BY LogSequences
<1>2. /\ <<"lock">> \in Seq(Op) /\ <<"spdShutdown", "unlock">> \in Seq(Op)
      /\ <<"closeListen", "sqlClose">> \in Seq(Op) /\ <<"setClose">> \in Seq(Op)
      /\ <<"closeListen", "setClose", "sqlClose">> \in Seq(Op)
  BY DEF Op
<1>3. \A s, r \in Seq(Op) : s \o r \in Seq(Op)
  BY ConcatProperties
<1>4. Shutdown \in Seq(Op)
  BY <1>1, <1>2, <1>3 DEF Shutdown
<1> QED
  BY <1>1, <1>2, <1>3, <1>4 DEF StopCall, Destructor

(* The stages follow each other as listed. *)
LEMMA AfterIsNext ==
    /\ After("config") = "port" /\ After("port") = "socket" /\ After("socket") = "linger"
    /\ After("linger") = "reuse" /\ After("reuse") = "bind" /\ After("bind") = "listen"
    /\ After("listen") = "addFd" /\ After("addFd") = "nonblock" /\ After("nonblock") = "sql"
    /\ After("sql") = "logFile" /\ After("logFile") = "top"
<1>1. Len(Start) = 11
  BY DEF Start
<1>2. /\ Start[1] = "config" /\ Start[2] = "port" /\ Start[3] = "socket" /\ Start[4] = "linger"
      /\ Start[5] = "reuse" /\ Start[6] = "bind" /\ Start[7] = "listen" /\ Start[8] = "addFd"
      /\ Start[9] = "nonblock" /\ Start[10] = "sql" /\ Start[11] = "logFile"
  BY DEF Start
<1>3. \A i \in 1..11 : \/ i = 1 \/ i = 2 \/ i = 3 \/ i = 4 \/ i = 5 \/ i = 6
                       \/ i = 7 \/ i = 8 \/ i = 9 \/ i = 10 \/ i = 11
  OBVIOUS
<1>4. ASSUME NEW n \in 1..11, \A i \in 1..11 : Start[i] = Start[n] => i = n
      PROVE  After(Start[n]) = IF n = 11 THEN "top" ELSE Start[n + 1]
  <2>1. (CHOOSE i \in 1..Len(Start) : Start[i] = Start[n]) = n
    BY <1>1, <1>4
  <2> QED
    BY <1>1, <2>1 DEF After
<1>5. \A n, i \in 1..11 : Start[i] = Start[n] => i = n
  BY <1>2, <1>3
<1>6. \A n \in 1..11 : After(Start[n]) = IF n = 11 THEN "top" ELSE Start[n + 1]
  BY <1>4, <1>5
<1>7. /\ After(Start[1]) = Start[2] /\ After(Start[2]) = Start[3] /\ After(Start[3]) = Start[4]
      /\ After(Start[4]) = Start[5] /\ After(Start[5]) = Start[6] /\ After(Start[6]) = Start[7]
      /\ After(Start[7]) = Start[8] /\ After(Start[8]) = Start[9] /\ After(Start[9]) = Start[10]
      /\ After(Start[10]) = Start[11] /\ After(Start[11]) = "top"
  BY <1>6
<1> QED
  BY <1>2, <1>7

LEMMA Stages ==
    StartStage = {"config", "port", "socket", "linger", "reuse", "bind", "listen", "addFd",
                  "nonblock", "sql", "logFile"}
<1>1. Len(Start) = 11
  BY DEF Start
<1>2. /\ Start[1] = "config" /\ Start[2] = "port" /\ Start[3] = "socket" /\ Start[4] = "linger"
      /\ Start[5] = "reuse" /\ Start[6] = "bind" /\ Start[7] = "listen" /\ Start[8] = "addFd"
      /\ Start[9] = "nonblock" /\ Start[10] = "sql" /\ Start[11] = "logFile"
  BY DEF Start
<1>3. \A i \in 1..11 : \/ i = 1 \/ i = 2 \/ i = 3 \/ i = 4 \/ i = 5 \/ i = 6
                       \/ i = 7 \/ i = 8 \/ i = 9 \/ i = 10 \/ i = 11
  OBVIOUS
<1>4. StartStage \subseteq {"config", "port", "socket", "linger", "reuse", "bind", "listen",
                            "addFd", "nonblock", "sql", "logFile"}
  BY <1>1, <1>2, <1>3 DEF StartStage
<1>5. {1, 2, 3, 4, 5, 6, 7, 8, 9, 10, 11} \subseteq 1..Len(Start)
  BY <1>1
<1>6. {"config", "port", "socket", "linger", "reuse", "bind", "listen", "addFd", "nonblock",
       "sql", "logFile"} \subseteq StartStage
  BY <1>2, <1>5 DEF StartStage
<1> QED
  BY <1>4, <1>6

-----------------------------------------------------------------------------
(* What threads have to do *)

AllLog == \A t \in Thread : todo[t] \in Seq(LogOp)

LEMMA TodoSet ==
    ASSUME TypeOK, NEW t \in Thread, NEW s \in Seq(Op), todo' = [todo EXCEPT ![t] = s]
    PROVE  todo' \in [Thread -> Seq(Op)] /\ (AllLog /\ s \in Seq(LogOp) => AllLog')
<1>1. todo \in [Thread -> Seq(Op)]
  BY DEF TypeOK
<1> QED
  BY <1>1 DEF AllLog

(* What is left of a sequence of steps is of the same steps. *)
LEMMA RestOf ==
    ASSUME NEW S, NEW s \in Seq(S), s # <<>>
    PROVE  Head(s) \in S /\ Tail(s) \in Seq(S) /\ SubSeq(s, Len(LogCall) + 1, Len(s)) \in Seq(S)
<1>1. Head(s) \in S /\ Tail(s) \in Seq(S)
  BY HeadTailProperties
<1>2. Len(LogCall) = 3 /\ Len(s) \in Nat
  BY LenProperties DEF LogCall
<1>3. \A i \in 4..Len(s) : s[i] \in S
  BY <1>2, ElementOfSeq
<1> QED
  BY <1>1, <1>2, <1>3, SubSeqProperties

LEMMA MainThread == Main \in Thread /\ Worker \subseteq Thread /\ Stopper \subseteq Thread
  BY DEF Thread

LEMMA TodoStep ==
    ASSUME TypeOK, [Next]_vars
    PROVE  /\ todo' \in [Thread -> Seq(Op)]
           /\ AllLog => AllLog' \/ (LoopTop /\ stage' = "left") \/ \E t \in Stopper : Stop(t)
<1>0. todo \in [Thread -> Seq(Op)]
  BY DEF TypeOK
<1> DEFINE Kept == todo' \in [Thread -> Seq(Op)] /\ (AllLog => AllLog')
<1>1. ASSUME NEW t \in Thread, NEW s \in Seq(LogOp), todo' = [todo EXCEPT ![t] = s] PROVE Kept
  BY <1>1, TodoSet, LogSequences
<1>2. CASE todo' = todo
  BY <1>0, <1>2 DEF AllLog
<1>3. CASE StartStep \/ ConfigFails \/ NoSocket \/ SocketFails \/ StartLogs
  <2>1. PICK s \in Seq(LogOp) : todo' = [todo EXCEPT ![Main] = s]
    <3>1. (IF stage = "logFile" THEN WriteToFile ELSE <<>>) \o LogCall \in Seq(LogOp)
      BY LogSequences, ConcatProperties
    <3> QED
      BY <1>3, <3>1, LogSequences, SaysLogs
         DEF StartStep, ConfigFails, NoSocket, SocketFails, StartLogs
  <2> QED
    BY <1>1, <2>1, MainThread
<1>4. CASE LoopTop
  BY <1>2, <1>4, TodoSet, MainThread, CallSequences DEF LoopTop
<1>5. CASE Handle \/ AcceptReturns
  BY <1>1, <1>2, <1>5, MainThread, LogSequences DEF Handle, AcceptReturns, Handled
<1>6. ASSUME NEW w \in Worker, WorkerLogs(w) PROVE Kept
  BY <1>1, <1>6, MainThread, LogSequences DEF WorkerLogs
<1>7. ASSUME NEW t \in Stopper, Stop(t) PROVE todo' \in [Thread -> Seq(Op)]
  BY <1>7, TodoSet, MainThread, CallSequences DEF Stop
<1>8. ASSUME NEW t \in Thread, ThreadStep(t) PROVE Kept
  <2>1. todo[t] # <<>> /\ todo[t] \in Seq(Op)
    BY <1>0, <1>8 DEF ThreadStep, Lock, CloseListen, Step, Doing
  <2>2. PICK s : /\ todo' = [todo EXCEPT ![t] = s]
                 /\ \/ s = Tail(todo[t]) \/ s = LogCall \o Tail(todo[t])
                    \/ s = SubSeq(todo[t], Len(LogCall) + 1, Len(todo[t]))
    BY <1>0, <1>8 DEF ThreadStep, Lock, CloseListen, Step, Done
  <2>3. ASSUME NEW S, todo[t] \in Seq(S), LogOp \subseteq S PROVE s \in Seq(S)
    <3>1. LogCall \in Seq(S)
      BY <2>3, LogSequences, SeqMonotonic
    <3>2. Tail(todo[t]) \in Seq(S) /\ SubSeq(todo[t], Len(LogCall) + 1, Len(todo[t])) \in Seq(S)
      BY <2>1, <2>3, RestOf
    <3>3. LogCall \o Tail(todo[t]) \in Seq(S)
      BY <3>1, <3>2, ConcatProperties
    <3> QED
      BY <2>2, <3>2, <3>3
  <2>4. s \in Seq(Op) /\ (AllLog => s \in Seq(LogOp))
    BY <2>1, <2>3, LogSequences DEF AllLog
  <2> QED
    BY <2>2, <2>4, TodoSet
<1>9. ASSUME \/ Wake \/ Arrive \/ (\E f \in Fd : WorkerOpens(f) \/ WorkerCloses(f)) \/ UNCHANGED vars
      PROVE  todo' = todo
  BY <1>9 DEF Wake, Arrive, WorkerOpens, WorkerCloses, vars
<1> QED
  BY <1>2, <1>3, <1>4, <1>5, <1>6, <1>7, <1>8, <1>9 DEF Next, MainStep, LoopTop

-----------------------------------------------------------------------------
(* The start *)

Rest == StartedInOrder /\ OneListener

LEMMA StartStepKeeps ==
    ASSUME IInv, StartStep
    PROVE  /\ stage' \in StartStage \cup Loop /\ stopped' = {}
           /\ listenFd' \in Fd \cup {0, NoFd} /\ fds' \in [Fd -> {"free", "listen", "file"}]
           /\ registered' \in BOOLEAN /\ sql' \in {"none", "open", "empty", "closed"}
           /\ Rest'
<1>0. /\ fds \in [Fd -> {"free", "listen", "file"}] /\ sql \in {"none", "open", "empty", "closed"}
      /\ registered \in BOOLEAN /\ listenFd \in Fd \cup {0, NoFd} /\ StartedInOrder /\ OneListener
  BY DEF IInv, TypeOK
<1>1. /\ stage \in StartStage /\ stage' = After(stage) /\ stopped' = stopped
      /\ registered' = (registered \/ stage = "addFd")
      /\ stage = "sql" => sql' \in {"open", "empty"}
      /\ stage # "sql" => sql' = sql
  BY DEF StartStep, Starting, OpenSql
<1>2. stage \notin Loop \cup {"left"}
  BY <1>1, Stages DEF Loop
<1>3. stopped = {}
  BY <1>0, <1>2 DEF StartedInOrder
<1>4. CASE stage = "socket"
  <2>1. PICK f \in Free : listenFd' = f /\ fds' = [fds EXCEPT ![f] = "listen"]
    BY <1>4 DEF StartStep
  <2>2. f \in Fd /\ fds' \in [Fd -> {"free", "listen", "file"}] /\ fds'[f] = "listen"
    BY <1>0, <2>1 DEF Free
  <2>3. stage' = "linger"
    BY <1>1, <1>4, AfterIsNext
  <2>4. \A g \in Fd : fds[g] # "listen"
    BY <1>0, <1>4 DEF OneListener, BeforeSocket
  <2>5. \A g \in Fd : fds'[g] = "listen" => g = f
    BY <1>0, <2>1, <2>4
  <2>6. OneListener'
    BY <2>1, <2>3, <2>5 DEF OneListener, BeforeSocket
  <2>7. StartedInOrder'
    BY <1>1, <1>3, <2>1, <2>2, <2>3 DEF StartedInOrder, Loop
  <2>8. stage' \in StartStage /\ registered' \in BOOLEAN /\ sql' = sql
    BY <1>0, <1>1, <1>4, <2>3, Stages
  <2> QED
    BY <1>0, <1>1, <1>3, <2>1, <2>2, <2>6, <2>7, <2>8 DEF Rest
<1>5. CASE stage # "socket"
  <2>1. listenFd' = listenFd /\ fds' = fds
    BY <1>5 DEF StartStep
  <2>2. stage' \in StartStage \cup Loop
    BY <1>1, AfterIsNext, Stages DEF Loop
  <2>3. /\ stage' \in BeforeSocket => stage \in BeforeSocket
        /\ stage' \notin {"failed", "null", "left"}
        /\ stage' \in Opened => stage \in Opened
        /\ stage' \in {"nonblock", "sql", "logFile"} \cup Loop => stage = "addFd" \/ stage \in {"nonblock", "sql", "logFile"}
        /\ stage' \in {"logFile"} \cup Loop => stage = "sql" \/ stage = "logFile"
    BY <1>1, <1>5, AfterIsNext, Stages DEF BeforeSocket, Opened, Loop
  <2>4. OneListener'
    BY <1>0, <2>1, <2>3 DEF OneListener
  <2>5. StartedInOrder'
    BY <1>0, <1>1, <1>3, <2>1, <2>3 DEF StartedInOrder
  <2>6. registered' \in BOOLEAN
    BY <1>0, <1>1
  <2>7. sql' \in {"none", "open", "empty", "closed"}
    BY <1>0, <1>1
  <2> QED
    BY <1>0, <1>1, <1>3, <2>1, <2>2, <2>4, <2>5, <2>6, <2>7 DEF Rest
<1> QED
  BY <1>4, <1>5

(* The failures. *)
LEMMA FailureKeeps ==
    ASSUME IInv, ConfigFails \/ NoSocket \/ SocketFails
    PROVE  /\ stage' \in {"failed", "null"} /\ stopped' = {}
           /\ listenFd' \in Fd \cup {0, NoFd} /\ fds' \in [Fd -> {"free", "listen", "file"}]
           /\ registered' = registered /\ sql' = sql
           /\ Rest'
<1>0. /\ fds \in [Fd -> {"free", "listen", "file"}]
      /\ listenFd \in Fd \cup {0, NoFd} /\ StartedInOrder /\ OneListener
  BY DEF IInv, TypeOK
<1>1. /\ stage' \in {"failed", "null"} /\ stopped' = stopped /\ registered' = registered /\ sql' = sql
      /\ listenFd' \in {listenFd, NoFd}
      /\ stage \in {"config", "port", "socket", "linger", "reuse", "bind", "listen", "addFd"}
  BY DEF ConfigFails, NoSocket, SocketFails, Starting, kernel
<1>2. stopped = {}
  BY <1>0, <1>1 DEF StartedInOrder, Loop
<1>3. fds' \in [Fd -> {"free", "listen", "file"}] /\ \A f \in Fd : fds'[f] # "listen"
  <2>1. CASE ConfigFails \/ NoSocket
    <3>1. fds' = fds /\ stage \in BeforeSocket
      BY <2>1 DEF ConfigFails, NoSocket, Starting, BeforeSocket, kernel
    <3> QED
      BY <1>0, <3>1 DEF OneListener
  <2>2. CASE SocketFails
    BY <1>0, <2>2 DEF SocketFails, CloseFd, OneListener
  <2> QED
    BY <2>1, <2>2
<1>4. OneListener'
  BY <1>3 DEF OneListener
<1>5. StartedInOrder'
  BY <1>1, <1>2 DEF StartedInOrder, Opened, Loop
<1> QED
  BY <1>0, <1>1, <1>2, <1>3, <1>4, <1>5 DEF Rest

-----------------------------------------------------------------------------
(* The loop *)

(* A step of main() after which everything it holds is as it was: a failure  *)
(* of the start that is only logged, or a step of Run.                       *)
LEMMA LoopKeeps ==
    ASSUME IInv, StartLogs \/ LoopTop \/ Wake \/ Handle \/ AcceptReturns
    PROVE  /\ stage' \in StartStage \cup Loop \cup {"left"} /\ stopped' = stopped
           /\ listenFd' = listenFd /\ fds' = fds /\ registered' = registered /\ sql' = sql
           /\ Rest'
<1>0. StartedInOrder /\ OneListener
  BY DEF IInv
<1>1. stopped' = stopped /\ listenFd' = listenFd /\ fds' = fds /\ registered' = registered /\ sql' = sql
  BY DEF StartLogs, LoopTop, Wake, Handle, AcceptReturns, Handled, kernel
<1>2. CASE StartLogs
  <2>1. (stage = "nonblock" /\ stage' = "sql") \/ (stage = "logFile" /\ stage' = "top")
    <3>1. stage \in {"nonblock", "logFile"} /\ stage' = After(stage)
      BY <1>2 DEF StartLogs, Starting
    <3>2. CASE stage = "nonblock"
      BY <3>1, <3>2, AfterIsNext
    <3>3. CASE stage = "logFile"
      BY <3>1, <3>3, AfterIsNext
    <3> QED
      BY <3>1, <3>2, <3>3
  <2>2. OneListener'
    BY <1>0, <1>1, <2>1 DEF OneListener, BeforeSocket
  <2>3. StartedInOrder'
    BY <1>0, <1>1, <2>1 DEF StartedInOrder, Opened, Loop
  <2> QED
    BY <1>1, <2>1, <2>2, <2>3, Stages DEF Rest, Loop
<1>3. CASE LoopTop \/ Wake \/ Handle \/ AcceptReturns
  <2>1. stage \in Loop /\ stage' \in Loop \cup {"left"}
    BY <1>3 DEF LoopTop, Wake, Handle, AcceptReturns, Handled, Loop
  <2>2. OneListener'
    BY <1>0, <1>1, <2>1 DEF OneListener, BeforeSocket, Loop
  <2>3. StartedInOrder'
    BY <1>0, <1>1, <2>1 DEF StartedInOrder, Opened, Loop
  <2> QED
    BY <1>1, <2>1, <2>2, <2>3 DEF Rest
<1> QED
  BY <1>2, <1>3

-----------------------------------------------------------------------------
(* The other threads *)

(* Files come and go, and are never the listening socket. *)
LEMMA FilesKeep ==
    ASSUME IInv, NEW f \in Fd, WorkerOpens(f) \/ WorkerCloses(f)
    PROVE  /\ stage' = stage /\ stopped' = stopped /\ listenFd' = listenFd
           /\ fds' \in [Fd -> {"free", "listen", "file"}]
           /\ registered' = registered /\ sql' = sql
           /\ Rest'
<1>0. fds \in [Fd -> {"free", "listen", "file"}] /\ StartedInOrder /\ OneListener
  BY DEF IInv, TypeOK
<1>1. /\ stage' = stage /\ stopped' = stopped /\ listenFd' = listenFd
      /\ registered' = registered /\ sql' = sql
  BY DEF WorkerOpens, WorkerCloses
<1>2. /\ fds' \in [Fd -> {"free", "listen", "file"}]
      /\ \A g \in Fd : fds'[g] = "listen" <=> fds[g] = "listen"
  BY <1>0 DEF WorkerOpens, WorkerCloses, CloseFd
<1>3. OneListener'
  BY <1>0, <1>1, <1>2 DEF OneListener
<1>4. StartedInOrder'
  BY <1>0, <1>1, <1>2 DEF StartedInOrder
<1> QED
  BY <1>1, <1>2, <1>3, <1>4 DEF Rest

(* A thread that calls Stop has everything before it; from here on nothing   *)
(* is promised about the socket but that there is no second one.             *)
LEMMA StopKeeps ==
    ASSUME IInv, NEW t \in Stopper, Stop(t)
    PROVE  /\ stage' = stage /\ stopped' \subseteq Stopper /\ stopped' # {}
           /\ listenFd' = listenFd /\ fds' = fds /\ registered' = registered /\ sql' = sql
           /\ Rest'
<1>0. stopped \subseteq Stopper /\ StartedInOrder /\ OneListener
  BY DEF IInv, TypeOK
<1>1. /\ stage' = stage /\ stopped' = stopped \cup {t} /\ listenFd' = listenFd /\ fds' = fds
      /\ registered' = registered /\ sql' = sql /\ stage \in Loop \cup {"left"}
  BY DEF Stop, Serving, kernel
<1>2. OneListener'
  BY <1>0, <1>1 DEF OneListener
<1>3. StartedInOrder'
  BY <1>1 DEF StartedInOrder
<1> QED
  BY <1>0, <1>1, <1>2, <1>3 DEF Rest

LEMMA QuietKeeps ==
    ASSUME IInv,
           Arrive \/ (\E w \in Worker : WorkerLogs(w)) \/ (\E t \in Thread : Lock(t)) \/ UNCHANGED vars
    PROVE  /\ stage' = stage /\ stopped' = stopped /\ listenFd' = listenFd
           /\ fds' = fds /\ registered' = registered /\ sql' = sql
           /\ Rest'
<1>0. StartedInOrder /\ OneListener
  BY DEF IInv
<1>1. /\ stage' = stage /\ stopped' = stopped /\ listenFd' = listenFd
      /\ fds' = fds /\ registered' = registered /\ sql' = sql
  BY DEF Arrive, WorkerLogs, Lock, kernel, vars
<1>2. OneListener'
  BY <1>0, <1>1 DEF OneListener
<1>3. StartedInOrder'
  BY <1>0, <1>1 DEF StartedInOrder
<1> QED
  BY <1>1, <1>2, <1>3 DEF Rest

(* Only a thread in Stop, or main() in ~Server, has the socket or the pool   *)
(* to close: until then every step is one of the logger's.                   *)
LEMMA LoggingBeforeStop ==
    ASSUME IInv, NEW t \in Thread, todo[t] # <<>>, stopped = {}, stage # "left"
    PROVE  Head(todo[t]) \in LogOp
<1>1. todo[t] \in Seq(LogOp)
  BY DEF IInv, OnlyLogs
<1> QED
  BY <1>1, RestOf

(* close(_listenFd) frees the one descriptor that may be the listening       *)
(* socket, so the number may be forgotten.                                   *)
LEMMA CloseListenKeeps ==
    ASSUME IInv, NEW t \in Thread, CloseListen(t)
    PROVE  /\ stage' = stage /\ stopped' = stopped /\ listenFd' \in {listenFd, NoFd}
           /\ fds' \in [Fd -> {"free", "listen", "file"}]
           /\ registered' \in BOOLEAN /\ sql' = sql
           /\ Rest'
<1>0. fds \in [Fd -> {"free", "listen", "file"}] /\ StartedInOrder /\ OneListener
  BY DEF IInv, TypeOK
<1>1. /\ stage' = stage /\ stopped' = stopped /\ listenFd' \in {listenFd, NoFd} /\ sql' = sql
      /\ fds' = [n \in Fd |-> IF n = listenFd THEN "free" ELSE fds[n]]
      /\ todo[t] # <<>> /\ Head(todo[t]) = "closeListen"
  BY DEF CloseListen, CloseFd, Done, Doing
<1>2. registered' \in BOOLEAN
  BY DEF CloseListen
<1>3. stopped # {} \/ stage = "left"
  BY <1>1, LoggingBeforeStop DEF LogOp
<1>4. fds' \in [Fd -> {"free", "listen", "file"}] /\ \A g \in Fd : fds'[g] # "listen"
  BY <1>0, <1>1 DEF OneListener
<1>5. OneListener'
  BY <1>4 DEF OneListener
<1>6. StartedInOrder'
  BY <1>0, <1>1, <1>3 DEF StartedInOrder, Opened, Loop
<1> QED
  BY <1>1, <1>2, <1>4, <1>5, <1>6 DEF Rest

LEMMA StepKeeps ==
    ASSUME IInv, NEW t \in Thread, Step(t)
    PROVE  /\ stage' = stage /\ stopped' = stopped /\ listenFd' = listenFd
           /\ fds' = fds /\ registered' = registered /\ sql' \in {sql, "closed"}
           /\ Rest'
<1>0. StartedInOrder /\ OneListener
  BY DEF IInv
<1>1. /\ stage' = stage /\ stopped' = stopped /\ listenFd' = listenFd
      /\ fds' = fds /\ registered' = registered
      /\ sql' = IF Head(todo[t]) = "sqlClose" THEN "closed" ELSE sql
      /\ todo[t] # <<>>
  BY DEF Step, kernel
<1>2. stopped = {} /\ stage # "left" => sql' = sql
  BY <1>1, LoggingBeforeStop DEF LogOp
<1>3. OneListener'
  BY <1>0, <1>1 DEF OneListener
<1>4. StartedInOrder'
  BY <1>0, <1>1, <1>2 DEF StartedInOrder, Loop
<1> QED
  BY <1>1, <1>3, <1>4 DEF Rest

-----------------------------------------------------------------------------
(* The whole step *)

(* The mutex and the flags. *)
LEMMA FlagsTyped ==
    ASSUME TypeOK, [Next]_vars
    PROVE  /\ mutex' \in Thread \cup {NoOwner} /\ initialized' \in BOOLEAN
           /\ isClose' \in BOOLEAN /\ event' \in BOOLEAN /\ logs' \in 0..MaxLog
           /\ blocking' \in BOOLEAN
<1>0. /\ mutex \in Thread \cup {NoOwner} /\ initialized \in BOOLEAN
      /\ isClose \in BOOLEAN /\ event \in BOOLEAN /\ logs \in 0..MaxLog
  BY DEF TypeOK
<1> DEFINE Flags == /\ mutex' \in Thread \cup {NoOwner} /\ initialized' \in BOOLEAN
                    /\ isClose' \in BOOLEAN /\ event' \in BOOLEAN /\ logs' \in 0..MaxLog
<1>1. ASSUME /\ UNCHANGED <<mutex, initialized, isClose>>
             /\ event' \in {event, TRUE, FALSE}
             /\ logs' = logs \/ (logs < MaxLog /\ logs' = logs + 1)
      PROVE  Flags
  <2>1. logs' \in 0..MaxLog
    BY <1>0, <1>1, LogAssumption
  <2> QED
    BY <1>0, <1>1, <2>1
<1>2. ASSUME MainStep \/ Arrive \/ AcceptReturns \/ (\E t \in Stopper : Stop(t)) \/ UNCHANGED vars
      PROVE  /\ UNCHANGED <<mutex, initialized, isClose>>
             /\ event' \in {event, TRUE, FALSE}
             /\ logs' = logs \/ (logs < MaxLog /\ logs' = logs + 1)
  BY <1>2 DEF MainStep, StartStep, ConfigFails, NoSocket, SocketFails, StartLogs, LoopTop, Wake,
              Handle, AcceptReturns, Handled, Arrive, Stop, logger, vars
<1>3. ASSUME (\E w \in Worker : WorkerLogs(w)) \/ (\E f \in Fd : WorkerOpens(f) \/ WorkerCloses(f))
      PROVE  /\ UNCHANGED <<mutex, initialized, isClose>>
             /\ event' \in {event, TRUE, FALSE}
             /\ logs' = logs \/ (logs < MaxLog /\ logs' = logs + 1)
  BY <1>3 DEF WorkerLogs, WorkerOpens, WorkerCloses, logger
<1>4. ASSUME NEW t \in Thread, ThreadStep(t)
      PROVE  /\ mutex' \in {mutex, t, NoOwner} /\ event' = event /\ logs' = logs
             /\ initialized' \in {initialized, TRUE, FALSE} /\ isClose' \in {isClose, TRUE, FALSE}
  BY <1>4 DEF ThreadStep, Lock, CloseListen, Step, logger
<1>5. ASSUME \E t \in Thread : ThreadStep(t)
      PROVE  Flags
  <2>1. PICK t \in Thread : ThreadStep(t)
    BY <1>5
  <2> QED
    BY <1>0, <1>4, <2>1
<1>6. blocking' \in BOOLEAN
  <2>1. blocking' = blocking \/ blocking' = (blocking /\ stage # "nonblock")
    <3>1. ASSUME NEW t \in Thread, ThreadStep(t) PROVE blocking' = blocking
      BY <3>1 DEF ThreadStep, Lock, CloseListen, Step, kernel
    <3> QED
      BY <3>1 DEF Next, MainStep, StartStep, ConfigFails, NoSocket, SocketFails, StartLogs, LoopTop,
                  Wake, Handle, AcceptReturns, Handled, Arrive, Stop, WorkerLogs, WorkerOpens,
                  WorkerCloses, kernel, vars
  <2> QED
    BY <2>1 DEF TypeOK
<1> QED
  BY <1>1, <1>2, <1>3, <1>5, <1>6 DEF Next

LEMMA InitInv == Init => IInv
<1> SUFFICES ASSUME Init PROVE IInv
  OBVIOUS
<1>1. <<>> \in Seq(Op) /\ <<>> \in Seq(LogOp)
  BY LogSequences
<1>2. stage \in StartStage
  BY Stages DEF Init
<1>3. TypeOK
  <2>1. logs \in 0..MaxLog
    BY LogAssumption DEF Init
  <2>2. todo \in [Thread -> Seq(Op)] /\ fds \in [Fd -> {"free", "listen", "file"}]
    BY <1>1 DEF Init
  <2>3. /\ mutex \in Thread \cup {NoOwner} /\ initialized \in BOOLEAN /\ isClose \in BOOLEAN
        /\ stopped \subseteq Stopper /\ event \in BOOLEAN /\ listenFd \in Fd \cup {0, NoFd}
        /\ registered \in BOOLEAN /\ blocking \in BOOLEAN
        /\ sql \in {"none", "open", "empty", "closed"}
    BY DEF Init
  <2> QED
    BY <1>2, <2>1, <2>2, <2>3 DEF TypeOK
<1>4. OnlyLogs
  BY <1>1 DEF Init, OnlyLogs
<1>5. StartedInOrder
  BY DEF Init, StartedInOrder, Opened, Loop
<1>6. OneListener
  BY DEF Init, OneListener
<1> QED
  BY <1>3, <1>4, <1>5, <1>6 DEF IInv

LEMMA NextKeeps == IInv /\ [Next]_vars => IInv'
<1> SUFFICES ASSUME IInv, [Next]_vars PROVE IInv'
  OBVIOUS
<1>0. /\ stage \in StartStage \cup Loop \cup {"left", "null", "failed"} /\ stopped \subseteq Stopper
      /\ listenFd \in Fd \cup {0, NoFd} /\ fds \in [Fd -> {"free", "listen", "file"}]
      /\ registered \in BOOLEAN /\ sql \in {"none", "open", "empty", "closed"} /\ TypeOK
  BY DEF IInv, TypeOK
<1> DEFINE Kept == /\ stage' \in StartStage \cup Loop \cup {"left", "null", "failed"}
                   /\ stopped' \subseteq Stopper
                   /\ listenFd' \in Fd \cup {0, NoFd} /\ fds' \in [Fd -> {"free", "listen", "file"}]
                   /\ registered' \in BOOLEAN /\ sql' \in {"none", "open", "empty", "closed"}
                   /\ Rest'
<1>1. ASSUME StartStep PROVE Kept
  BY <1>1, <1>0, StartStepKeeps
<1>2. ASSUME ConfigFails \/ NoSocket \/ SocketFails PROVE Kept
  BY <1>2, <1>0, FailureKeeps
<1>3. ASSUME StartLogs \/ LoopTop \/ Wake \/ Handle \/ AcceptReturns PROVE Kept
  BY <1>3, <1>0, LoopKeeps
<1>4. ASSUME \E f \in Fd : WorkerOpens(f) \/ WorkerCloses(f) PROVE Kept
  BY <1>4, <1>0, FilesKeep
<1>5. ASSUME \E t \in Stopper : Stop(t) PROVE Kept
  BY <1>5, <1>0, StopKeeps
<1>6. ASSUME Arrive \/ (\E w \in Worker : WorkerLogs(w)) \/ (\E t \in Thread : Lock(t)) \/ UNCHANGED vars
      PROVE Kept
  BY <1>6, <1>0, QuietKeeps
<1>7. ASSUME \E t \in Thread : CloseListen(t) PROVE Kept
  BY <1>7, <1>0, CloseListenKeeps
<1>8. ASSUME \E t \in Thread : Step(t) PROVE Kept
  BY <1>8, <1>0, StepKeeps
<1>9. Kept
  BY <1>1, <1>2, <1>3, <1>4, <1>5, <1>6, <1>7, <1>8 DEF Next, MainStep, ThreadStep
<1>10. TypeOK'
  BY <1>0, <1>9, TodoStep, FlagsTyped DEF TypeOK
(* A step that leaves stopped empty and main() in Run began so. *)
<1>11. stopped \subseteq stopped' /\ (stage = "left" => stage' = "left")
  <2>1. CASE MainStep \/ AcceptReturns
    <3>1. stopped' = stopped
      BY <2>1 DEF MainStep, StartStep, ConfigFails, NoSocket, SocketFails, StartLogs, LoopTop, Wake,
                  Handle, AcceptReturns, Handled
    <3>2. stage # "left"
      BY <2>1, Stages DEF MainStep, StartStep, ConfigFails, NoSocket, SocketFails, StartLogs, LoopTop,
                          Wake, Handle, AcceptReturns, Starting
    <3> QED
      BY <3>1, <3>2
  <2>2. CASE Arrive \/ (\E w \in Worker : WorkerLogs(w)) \/ UNCHANGED vars
    BY <2>2 DEF Arrive, WorkerLogs, vars
  <2>3. CASE \E f \in Fd : WorkerOpens(f) \/ WorkerCloses(f)
    BY <2>3 DEF WorkerOpens, WorkerCloses
  <2>4. CASE \E t \in Stopper : Stop(t)
    BY <2>4 DEF Stop
  <2>5. CASE \E t \in Thread : ThreadStep(t)
    BY <2>5 DEF ThreadStep, Lock, CloseListen, Step
  <2> QED
    BY <2>1, <2>2, <2>3, <2>4, <2>5 DEF Next
<1>12. OnlyLogs'
  <2>1. SUFFICES ASSUME stopped' = {}, stage' # "left" PROVE AllLog'
    BY DEF OnlyLogs, AllLog
  <2>2. AllLog
    BY <1>11, <2>1 DEF IInv, OnlyLogs, AllLog
  <2>3. ~ \E t \in Stopper : Stop(t)
    BY <2>1 DEF Stop
  <2> QED
    BY <1>0, <2>1, <2>2, <2>3, TodoStep
<1> QED
  BY <1>9, <1>10, <1>12 DEF IInv, Rest

LEMMA AlwaysIInv == Spec => []IInv
<1>1. IInv /\ [Next]_vars => IInv'
  BY NextKeeps
<1> QED
  BY <1>1, InitInv, PTL DEF Spec

-----------------------------------------------------------------------------
(* The theorem *)

(* Whichever steps of NewServerFromConfig and of the constructor of Server   *)
(* fail, and whatever the workers open, close and log meanwhile: from its    *)
(* first wait until somebody calls Stop, Run has the listening socket, which *)
(* may block, registered, and a connection pool, which may be empty; and a   *)
(* start that failed has left no listening socket behind.                    *)
THEOREM StartIsSound == Spec => []StartSound
<1>1. IInv => StartSound
  <2> SUFFICES ASSUME IInv PROVE StartSound
    OBVIOUS
  <2>1. KeepsListening
    BY DEF IInv, StartedInOrder, KeepsListening, Opened, Loop
  <2>2. FailedLeavesNothing
    BY DEF IInv, OneListener, FailedLeavesNothing
  <2> QED
    BY <2>1, <2>2 DEF IInv, StartSound
<1> QED
  BY <1>1, AlwaysIInv, PTL
=============================================================================
