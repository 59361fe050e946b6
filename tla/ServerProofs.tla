---------------------------- MODULE ServerProofs ----------------------------
(***************************************************************************)
(* Proofs about Server for any workers, any finite sets of descriptors and  *)
(* addresses, and any limits, peers and failures.                           *)
(***************************************************************************)
EXTENDS Server, FiniteSetTheorems, SequenceTheorems, TLAPS

(* Where a thread is with a Conn, checked against the table by onRead,       *)
(* onWrite or onProcess or not; and where it has a descriptor.               *)
Unchecked == {"deal", "extent", "onRead", "onWrite", "onProcess", "close"}
CheckedPc == {"read", "again", "process", "mod", "write", "wextent", "wsched", "written"}
HasConn   == Unchecked \cup CheckedPc \cup {"isClosed", "erase"}
HasFd     == CheckedPc \cup {"erase", "sched", "register"}

(* The locals a thread uses at a point were set on its way there. *)
LocalsOK(t) ==
    /\ th[t].pc \in HasConn => th[t].conn \in Ptr
    /\ th[t].pc \in HasFd => th[t].fd \in Fd
    /\ th[t].pc \in {"deal", "extent"} => th[t].arg \in {"onRead", "onWrite"}

LocalsSet == \A t \in Thread : LocalsOK(t)

EventsSet == \A e \in batch : e.ev # "listen" <=> e.fd \in Fd

EntriesSet == \A f \in Fd : ~users[f].has => users[f].conn = Null

IdsSet == nextConnId # 0 /\ \A c \in Ptr : heap[c].live => heap[c].connId # 0

(* A thread will register descriptor f, which it has put into the table, or  *)
(* erase whatever entry f has.                                               *)
BeingAdded(t, f)  == t = Main /\ th[t].pc \in {"sched", "register"} /\ th[t].fd = f
BeingErased(t, f) == th[t].pc = "erase" /\ th[t].fd = f
Ending(t, f)      == BeingAdded(t, f) \/ BeingErased(t, f)

(* A thread has still to re-arm or close the connection of f: it has the     *)
(* Conn and, once it has checked it, the descriptor too.  A thread with a    *)
(* stale pointer or descriptor, or one in a timer's callback, is nobody to   *)
(* rely on.                                                                  *)
Cares(t, f) ==
    \/ Ending(t, f)
    \/ th[t].conn = users[f].conn /\ th[t].pc \in Unchecked
    \/ th[t].conn = users[f].conn /\ th[t].fd = f /\ th[t].pc \in CheckedPc

(* ... or an event or a task will make one of them do so. *)
CaredFor(f) ==
    \/ \E e \in batch : e.fd = f
    \/ \E t \in Thread : Cares(t, f)
    \/ \E i \in 1..Len(queue) : queue[i].conn = users[f].conn

Armed(f) == /\ interest[f] \notin {"none", "off"}
            /\ Reports(interest[f], sock[f]) => Ready(f)

(* An entry without a registration is about to get one or to be erased, and  *)
(* one that nobody cares for is armed.                                       *)
Watched(f) ==
    users[f].conn # Null =>
        /\ interest[f] = "none" => \E t \in Thread : Ending(t, f)
        /\ ~CaredFor(f) => Armed(f)

AllWatched == \A f \in Fd : Watched(f)

(* The inductive invariant.  TableInv is inductive by itself; AllWatched     *)
(* needs it.                                                                 *)
TableInv ==
    /\ TypeOK
    /\ LocalsSet
    /\ EventsSet
    /\ EntriesSet
    /\ IdsSet
    /\ TableOwns
    /\ UserCountExact
    /\ NothingLeaks

IInv == TableInv /\ AllWatched

-----------------------------------------------------------------------------
(* The steps *)

LEMMA NextCases ==
    ASSUME [Next]_vars
    PROVE  \/ \E f \in Fd : \/ FireAddTimer(f) \/ FireExtentTimer(f) \/ AddClientDuplicate(f)
                            \/ PeerSend(f) \/ \E how \in Hangup : PeerHangup(f, how)
           \/ \E f \in Fd, c \in Ptr : AddClient(f, c)
           \/ \E e \in batch : HandleEvent(e)
           \/ ExtentTimerIsClosed \/ Wait \/ HandleListen \/ Deal \/ DealExtent
           \/ AcceptEnd \/ AcceptFull \/ AddClientSchedule \/ AddClientRegister \/ AddClientFail
           \/ \E w \in Worker : \/ TakeTask(w) \/ OnRead(w) \/ OnProcess(w) \/ OnWrite(w)
                                \/ Read(w) \/ ReadAgain(w) \/ Process(w) \/ Rearm(w) \/ Write(w)
                                \/ WriteExtent(w) \/ WriteSchedule(w) \/ Written(w)
           \/ \E t \in Thread : CloseConn(t) \/ CloseConnErase(t)
           \/ Connect
           \/ UNCHANGED vars
  BY Zenon DEF Next, MainStep, WorkerStep, PeerStep, Thread, Main

-----------------------------------------------------------------------------
(* What a step does to the locals of threads *)

(* Only the locals of thread t change, and are set as they should. *)
Moves(t) == /\ th' \in [Thread -> Locals]
            /\ LocalsOK(t)'
            /\ \A u \in Thread : u # t => th'[u] = th[u]

Stays(t)   == th'[t].conn = th[t].conn /\ th'[t].fd = th[t].fd
Returns(t) == th'[t].pc \in {"loop", "idle"}

LEMMA MainThread == Main \in Thread /\ Worker \subseteq Thread /\ Main \notin Worker
  BY WorkerAssumption DEF Thread, Main

LEMMA IdleType == ASSUME NEW t \in Thread
                  PROVE  /\ Idle(t) \in Locals
                         /\ Idle(t).pc \in {"loop", "idle"}
  BY DEF Idle, Locals

LEMMA GotoMoves ==
    ASSUME th \in [Thread -> Locals], NEW t \in Thread, LocalsOK(t), NEW pc, Goto(t, pc),
           pc \in CheckedPc => th[t].pc \in CheckedPc,
           pc = "register" => th[t].pc = "sched",
           pc = "extent" => th[t].pc = "deal",
           pc \in {"onProcess", "close"} => th[t].pc \in HasConn,
           pc \in CheckedPc \cup {"register", "extent", "onProcess", "close", "accept"}
    PROVE  Moves(t) /\ Stays(t) /\ th'[t].pc = pc
<1>1. th'[t] = [th[t] EXCEPT !.pc = pc] /\ \A u \in Thread : u # t => th'[u] = th[u]
  BY DEF Goto
<1>0. th[t] \in Locals
  OBVIOUS
<1>a. pc \in {"read", "again", "process", "mod", "write", "wextent", "wsched", "written",
              "register", "extent", "onProcess", "close", "accept"}
  BY DEF CheckedPc
<1>2. th'[t] \in Locals /\ th'[t].pc = pc /\ Stays(t) /\ th'[t].arg = th[t].arg
  <2>1. th'[t].pc = pc /\ Stays(t) /\ th'[t].arg = th[t].arg
    BY <1>0, <1>1 DEF Locals, Stays
  <2>2. th'[t] \in Locals
    BY <1>0, <1>1, <1>a, ZenonT(60) DEF Locals
  <2> QED
    BY <2>1, <2>2
<1>3. LocalsOK(t)'
  BY <1>2 DEF LocalsOK, Stays, CheckedPc, HasConn, HasFd, Unchecked
<1> QED
  BY <1>1, <1>2, <1>3 DEF Moves, Goto

LEMMA ReturnMoves ==
    ASSUME th \in [Thread -> Locals], NEW t \in Thread, Return(t)
    PROVE  Moves(t) /\ Returns(t)
<1>1. th'[t] = Idle(t) /\ th' \in [Thread -> Locals] /\ \A u \in Thread : u # t => th'[u] = th[u]
  BY IdleType DEF Return
<1> QED
  BY <1>1, IdleType DEF Moves, Returns, LocalsOK, HasConn, HasFd, Unchecked, CheckedPc

(* A worker that has checked its Conn goes on with it, or has it closed or   *)
(* processed.                                                                *)
Carries(w) == /\ Moves(w) /\ Stays(w)
              /\ th[w].pc \in CheckedPc
              /\ th'[w].pc \in CheckedPc \cup {"onProcess", "close"}

LEMMA GotoCarries ==
    ASSUME th \in [Thread -> Locals], NEW w \in Thread, LocalsOK(w), NEW pc, Goto(w, pc),
           th[w].pc \in CheckedPc, pc \in CheckedPc \cup {"onProcess", "close"}
    PROVE  Carries(w)
<1>1. Moves(w) /\ Stays(w) /\ th'[w].pc = pc
  <2>1. pc \notin {"register", "extent"} /\ th[w].pc \in HasConn
    BY DEF CheckedPc, HasConn
  <2> QED
    BY <2>1, GotoMoves
<1> QED
  BY <1>1 DEF Carries

LEMMA ArgCarries ==
    ASSUME th \in [Thread -> Locals], NEW w \in Thread, LocalsOK(w), NEW pc, NEW a,
           th' = [th EXCEPT ![w].pc = pc, ![w].arg = a],
           th[w].pc \in CheckedPc, pc \in {"mod", "wextent"},
           a \in {"inOnce", "outOnce", "ok", "err", "outLog"}
    PROVE  Carries(w)
<1>0. th[w] \in Locals
  OBVIOUS
<1>1. th'[w] = [th[w] EXCEPT !.pc = pc, !.arg = a] /\ \A u \in Thread : u # w => th'[u] = th[u]
  OBVIOUS
<1>2. th'[w].pc = pc /\ Stays(w)
  BY <1>0, <1>1 DEF Locals, Stays
<1>3. th'[w] \in Locals
  <2>1. [th[w] EXCEPT !.pc = pc] \in Locals
    BY <1>0 DEF Locals
  <2>2. PICK l \in Locals : l = [th[w] EXCEPT !.pc = pc]
    BY <2>1
  <2>3. [l EXCEPT !.arg = a] \in Locals
    BY DEF Locals
  <2>4. th'[w] = [l EXCEPT !.arg = a]
    BY <1>1, <2>2
  <2> QED
    BY <2>3, <2>4
<1>4. LocalsOK(w)'
  BY <1>2 DEF LocalsOK, Stays, CheckedPc, HasConn, HasFd, Unchecked
<1>5. th' \in [Thread -> Locals]
  BY <1>3
<1> QED
  BY <1>1, <1>2, <1>4, <1>5 DEF Carries, Moves, CheckedPc

LEMMA FdReadType ==
    ASSUME TypeOK, NEW c \in Ptr
    PROVE  FdRead(c) \subseteq Fd \cup {BadFd}
  BY DEF TypeOK, Conn, FdRead

LEMMA ExtentIdsType ==
    ASSUME TypeOK, NEW c \in Ptr
    PROVE  ExtentIds(c) \subseteq {<<>>} \cup (Fd \X Nat)
<1>1. \A f \in FdRead(c) : HasEntry(f) => f \in Fd /\ users[f].connId \in Nat
  BY FdReadType DEF HasEntry, TypeOK, ConnInfo
<1> QED
  BY <1>1 DEF ExtentIds

LEMMA CarryingSteps ==
    ASSUME TypeOK, LocalsSet, NEW w \in Worker,
           \/ Process(w) \/ Read(w) \/ ReadAgain(w) \/ Write(w)
           \/ WriteExtent(w) \/ WriteSchedule(w) \/ Written(w)
    PROVE  Carries(w)
<1>0. w \in Thread /\ LocalsOK(w) /\ th \in [Thread -> Locals]
  BY MainThread DEF LocalsSet, TypeOK
<1>1. ASSUME NEW pc, Goto(w, pc), th[w].pc \in CheckedPc, pc \in CheckedPc \cup {"onProcess", "close"}
      PROVE  Carries(w)
  BY <1>0, <1>1, GotoCarries
<1>2. ASSUME NEW pc, NEW a, th' = [th EXCEPT ![w].pc = pc, ![w].arg = a],
             th[w].pc \in CheckedPc, pc \in {"mod", "wextent"},
             a \in {"inOnce", "outOnce", "ok", "err", "outLog"}
      PROVE  Carries(w)
  BY <1>0, <1>2, ArgCarries
<1>3. CASE Process(w)
  <2>1. th[w].pc \in CheckedPc /\ "close" \in CheckedPc \cup {"onProcess", "close"}
    BY <1>3, ZenonT(60) DEF Process, At, CheckedPc
  <2>2. \/ \E a \in {"inOnce", "outOnce"} : th' = [th EXCEPT ![w].pc = "mod", ![w].arg = a]
        \/ Goto(w, "close")
    BY <1>3 DEF Process
  <2> QED
    BY <2>1, <2>2, <1>1, <1>2
<1>4. CASE Read(w)
  <2>1. th[w].pc \in CheckedPc /\ {"close", "again", "onProcess"} \subseteq CheckedPc \cup {"onProcess", "close"}
    BY <1>4 DEF Read, At, CheckedPc
  <2>2. \E pc \in {"close", "again", "onProcess"} : Goto(w, pc)
    BY <1>4 DEF Read, ReadSome, ReadNothing
  <2> QED
    BY <2>1, <2>2, <1>1
<1>5. CASE ReadAgain(w)
  <2>1. th[w].pc \in CheckedPc
    BY <1>5 DEF ReadAgain, At, CheckedPc
  <2>2. CASE Goto(w, "close")
    BY <2>1, <2>2, <1>1
  <2>3. CASE th' = [th EXCEPT ![w].pc = "close", ![w].twice = TRUE]
    <3>1. th[w] \in Locals
      BY <1>0
    <3>2. th'[w] = [th[w] EXCEPT !.pc = "close", !.twice = TRUE] /\ \A u \in Thread : u # w => th'[u] = th[u]
      BY <1>0, <2>3
    <3>3. th'[w].pc = "close" /\ Stays(w) /\ th'[w] \in Locals
      BY <3>1, <3>2 DEF Locals, Stays
    <3>4. LocalsOK(w)'
      BY <1>0, <2>1, <3>3 DEF LocalsOK, Stays, CheckedPc, HasConn, HasFd, Unchecked
    <3>5. th' \in [Thread -> Locals]
      BY <1>0, <2>3, <3>2, <3>3
    <3> QED
      BY <2>1, <3>2, <3>3, <3>4, <3>5 DEF Carries, Moves
  <2> QED
    BY <1>5, <2>2, <2>3 DEF ReadAgain
<1>6. CASE Write(w)
  <2>1. th[w].pc \in CheckedPc
    BY <1>6 DEF Write, At, CheckedPc
  <2>2. \E a \in {"ok", "err"} : th' = [th EXCEPT ![w].pc = "wextent", ![w].arg = a]
    BY <1>6 DEF Write
  <2> QED
    BY <2>1, <2>2, <1>2
<1>7. ASSUME NEW pc \in {"wsched", "written"}, NEW x \in {<<>>} \cup (Fd \X Nat),
             th' = [th EXCEPT ![w].pc = pc, ![w].ext = x], th[w].pc \in CheckedPc
      PROVE  Carries(w)
  <2>1. th[w] \in Locals
    BY <1>0
  <2>2. th'[w] = [th[w] EXCEPT !.pc = pc, !.ext = x] /\ \A u \in Thread : u # w => th'[u] = th[u]
    BY <1>0, <1>7
  <2>3. th'[w].pc = pc /\ Stays(w)
    BY <2>1, <2>2 DEF Locals, Stays
  <2>6. th'[w] \in Locals
    BY <2>1, <2>2 DEF Locals
  <2>4. LocalsOK(w)'
    BY <1>0, <1>7, <2>3 DEF LocalsOK, Stays, CheckedPc, HasConn, HasFd, Unchecked
  <2>5. th' \in [Thread -> Locals]
    BY <1>0, <1>7, <2>2, <2>6
  <2> QED
    BY <1>7, <2>2, <2>3, <2>4, <2>5 DEF Carries, Moves, CheckedPc
<1>8. CASE WriteExtent(w)
  <2>1. th[w].pc \in CheckedPc
    BY <1>8 DEF WriteExtent, At, CheckedPc
  <2>2. th[w].conn \in Ptr
    BY <1>0, <2>1 DEF LocalsOK, HasConn
  <2>3. PICK x \in ExtentIds(th[w].conn) :
          th' = [th EXCEPT ![w].pc = IF x = <<>> THEN "written" ELSE "wsched", ![w].ext = x]
    BY <1>8 DEF WriteExtent
  <2> QED
    BY <1>7, <2>1, <2>2, <2>3, ExtentIdsType
<1>9. CASE WriteSchedule(w)
  BY <1>7, <1>9 DEF WriteSchedule, At, CheckedPc
<1>10. CASE Written(w)
  <2>1. th[w].pc \in CheckedPc /\ {"close", "onProcess"} \subseteq CheckedPc \cup {"onProcess", "close"}
    BY <1>10 DEF Written, At, CheckedPc
  <2>2. \/ Goto(w, "close") \/ Goto(w, "onProcess")
        \/ th' = [th EXCEPT ![w].pc = "mod", ![w].arg = "outLog"]
    BY <1>10 DEF Written
  <2> QED
    BY <2>1, <2>2, <1>1, <1>2
<1> QED
  BY <1>3, <1>4, <1>5, <1>6, <1>8, <1>9, <1>10

LEMMA TakeTaskMoves ==
    ASSUME TypeOK, LocalsSet, NEW w \in Worker, TakeTask(w)
    PROVE  /\ Moves(w)
           /\ th[w].pc = "idle" /\ th'[w].pc \in {"onRead", "onWrite"}
           /\ th'[w].conn = Head(queue).conn /\ Head(queue) \in Task
<1>0. w \in Thread /\ LocalsOK(w) /\ th \in [Thread -> Locals] /\ th[w] \in Locals
  BY MainThread DEF LocalsSet, TypeOK
<1>1. Head(queue) \in Task
  BY DEF TakeTask, TypeOK
<1>2. /\ th'[w] = [th[w] EXCEPT !.pc = Head(queue).op, !.conn = Head(queue).conn]
      /\ \A u \in Thread : u # w => th'[u] = th[u]
  BY <1>0 DEF TakeTask
<1>3. Head(queue).op \in {"onRead", "onWrite"} /\ Head(queue).conn \in Ptr
  BY <1>1 DEF Task
<1>4. th'[w].pc = Head(queue).op /\ th'[w].conn = Head(queue).conn
  BY <1>0, <1>2 DEF Locals
<1>5. th'[w] \in Locals
  BY <1>0, <1>2, <1>3 DEF Locals
<1>6. th' \in [Thread -> Locals]
  BY <1>0, <1>2, <1>5 DEF TakeTask
<1>7. LocalsOK(w)'
  BY <1>3, <1>4 DEF LocalsOK, HasConn, HasFd, Unchecked, CheckedPc
<1> QED
  BY <1>1, <1>2, <1>3, <1>4, <1>6, <1>7 DEF Moves, TakeTask, At

LEMMA CheckedMoves ==
    ASSUME TypeOK, LocalsSet, NEW w \in Worker, NEW from, NEW to,
           from \in {"onRead", "onWrite", "onProcess"}, to \in {"read", "write", "process"},
           Checked(w, from, to)
    PROVE  /\ Moves(w) /\ th[w].pc = from /\ th[w].conn \in Ptr
           /\ \/ /\ th'[w].pc = to /\ th'[w].conn = th[w].conn
                 /\ th'[w].fd = heap[th[w].conn].fd
              \/ ~CheckFdAndMatchId(th[w].conn) /\ Returns(w)
<1>0. w \in Thread /\ LocalsOK(w) /\ th \in [Thread -> Locals] /\ th[w] \in Locals
  BY MainThread DEF LocalsSet, TypeOK
<1>1. th[w].pc = from /\ th[w].conn \in Ptr
  BY <1>0 DEF Checked, At, LocalsOK, HasConn, Unchecked
<1> DEFINE c == th[w].conn
<1>2. CASE ~CheckFdAndMatchId(c) /\ Return(w)
  BY <1>0, <1>1, <1>2, ReturnMoves
<1>3. CASE /\ CheckFdAndMatchId(c)
           /\ th' = [th EXCEPT ![w].pc = to, ![w].fd = heap[c].fd, ![w].id = heap[c].connId]
  <2>1. heap[c].fd \in Fd /\ heap[c].connId \in Nat
    BY <1>1, <1>3 DEF CheckFdAndMatchId, HasEntry, TypeOK, Conn
  <2>2. /\ th'[w] = [th[w] EXCEPT !.pc = to, !.fd = heap[c].fd, !.id = heap[c].connId]
        /\ \A u \in Thread : u # w => th'[u] = th[u]
    BY <1>0, <1>3
  <2>3. th'[w].pc = to /\ th'[w].conn = c /\ th'[w].fd = heap[c].fd
    BY <1>0, <2>2 DEF Locals
  <2>4. th'[w] \in Locals
    BY <1>0, <2>1, <2>2 DEF Locals
  <2>5. th' \in [Thread -> Locals]
    BY <1>0, <1>3, <2>2, <2>4
  <2>6. LocalsOK(w)'
    BY <1>1, <2>1, <2>3 DEF LocalsOK, HasConn, HasFd, Unchecked, CheckedPc
  <2> QED
    BY <1>1, <2>2, <2>3, <2>5, <2>6 DEF Moves
<1> QED
  BY <1>2, <1>3 DEF Checked

LEMMA RearmMoves ==
    ASSUME TypeOK, LocalsSet, NEW w \in Worker, Rearm(w)
    PROVE  /\ Moves(w) /\ th[w].pc = "mod" /\ th[w].fd \in Fd
           /\ Returns(w) \/ (Carries(w) /\ interest[th[w].fd] = "none")
<1>0. w \in Thread /\ LocalsOK(w) /\ th \in [Thread -> Locals]
  BY MainThread DEF LocalsSet, TypeOK
<1>1. th[w].pc = "mod" /\ th[w].fd \in Fd /\ th[w].pc \in CheckedPc
  BY <1>0 DEF Rearm, At, LocalsOK, HasFd, CheckedPc
<1>2. CASE Return(w)
  BY <1>0, <1>1, <1>2, ReturnMoves
<1>3. CASE Goto(w, "close") /\ interest[th[w].fd] = "none"
  BY <1>0, <1>1, <1>3, GotoCarries DEF Carries
<1> QED
  BY <1>2, <1>3 DEF Rearm

(* The timer's callbacks. *)
LEMMA FireAddTimerMoves ==
    ASSUME TypeOK, LocalsSet, NEW f \in Fd, FireAddTimer(f)
    PROVE  Moves(Main) /\ th[Main].pc = "loop"
<1>0. Main \in Thread /\ LocalsOK(Main) /\ th \in [Thread -> Locals] /\ th[Main] \in Locals
  BY MainThread DEF LocalsSet, TypeOK
<1>1. th[Main].pc = "loop"
  BY DEF FireAddTimer, InLoop, At
<1>2. CASE UNCHANGED th
  BY <1>0, <1>1, <1>2 DEF Moves, LocalsOK
<1>3. CASE /\ users[f].conn # Null
           /\ th' = [th EXCEPT ![Main].pc = "close", ![Main].conn = users[f].conn,
                               ![Main].id = users[f].connId]
  <2>1. users[f].conn \in Ptr /\ users[f].connId \in Nat
    BY <1>3 DEF TypeOK, ConnInfo
  <2>2. /\ th'[Main] = [th[Main] EXCEPT !.pc = "close", !.conn = users[f].conn, !.id = users[f].connId]
        /\ \A u \in Thread : u # Main => th'[u] = th[u]
    BY <1>0, <1>3
  <2>3. th'[Main].pc = "close" /\ th'[Main].conn = users[f].conn
    BY <1>0, <2>2 DEF Locals
  <2>4. th'[Main] \in Locals
    BY <1>0, <2>1, <2>2 DEF Locals
  <2>5. th' \in [Thread -> Locals]
    BY <1>0, <1>3, <2>2, <2>4
  <2>6. LocalsOK(Main)'
    BY <2>1, <2>3 DEF LocalsOK, HasConn, HasFd, Unchecked, CheckedPc
  <2> QED
    BY <1>1, <2>2, <2>5, <2>6 DEF Moves
<1> QED
  BY <1>2, <1>3 DEF FireAddTimer

LEMMA SubscriptKeeps ==
    ASSUME TypeOK, EntriesSet, NEW f \in Fd, Subscript(f)
    PROVE  /\ users' \in [Fd -> ConnInfo]
           /\ EntriesSet'
           /\ \A g \in Fd : /\ users'[g].conn = users[g].conn
                            /\ users[g].conn # Null => users'[g] = users[g]
<1>1. Phantom \in ConnInfo /\ Phantom.has /\ Phantom.conn = Null
  BY DEF Phantom, ConnInfo
<1> QED
  BY <1>1 DEF Subscript, TypeOK, EntriesSet

LEMMA FireExtentTimerMoves ==
    ASSUME TypeOK, LocalsSet, EntriesSet, NEW f \in Fd, FireExtentTimer(f)
    PROVE  Moves(Main) /\ th[Main].pc = "loop"
<1>0. Main \in Thread /\ LocalsOK(Main) /\ th \in [Thread -> Locals] /\ th[Main] \in Locals
  BY MainThread DEF LocalsSet, TypeOK
<1>4. users[f] \in ConnInfo
  BY DEF TypeOK
<1>1. th[Main].pc = "loop"
  BY DEF FireExtentTimer, InLoop, At
<1>2. CASE UNCHANGED th
  BY <1>0, <1>1, <1>2 DEF Moves, LocalsOK
<1>3. CASE /\ users'[f].conn # Null
           /\ th' = [th EXCEPT ![Main].pc = "isClosed", ![Main].conn = users[f].conn,
                               ![Main].id = users[f].connId]
  <2>0. users[f] \in ConnInfo /\ users[f].conn = users'[f].conn
    <3>1. Subscript(f)
      BY DEF FireExtentTimer
    <3> QED
      <4>1. \A g \in Fd : users'[g].conn = users[g].conn
        BY <3>1, SubscriptKeeps
      <4> QED
        BY <1>4, <4>1
  <2>1. users[f].conn \in Ptr /\ users[f].connId \in Nat
    BY <1>3, <2>0 DEF ConnInfo
  <2>2. /\ th'[Main] = [th[Main] EXCEPT !.pc = "isClosed", !.conn = users[f].conn, !.id = users[f].connId]
        /\ \A u \in Thread : u # Main => th'[u] = th[u]
    BY <1>0, <1>3
  <2>3. th'[Main].pc = "isClosed" /\ th'[Main].conn = users[f].conn
    BY <1>0, <2>2 DEF Locals
  <2>4. th'[Main] \in Locals
    BY <1>0, <2>1, <2>2 DEF Locals
  <2>5. th' \in [Thread -> Locals]
    BY <1>0, <1>3, <2>2, <2>4
  <2>6. LocalsOK(Main)'
    BY <2>1, <2>3 DEF LocalsOK, HasConn, HasFd, Unchecked, CheckedPc
  <2> QED
    BY <1>1, <2>2, <2>5, <2>6 DEF Moves
<1> QED
  BY <1>2, <1>3 DEF FireExtentTimer

LEMMA ExtentTimerIsClosedMoves ==
    ASSUME TypeOK, LocalsSet, ExtentTimerIsClosed
    PROVE  Moves(Main) /\ th[Main].pc = "isClosed"
<1>0. Main \in Thread /\ LocalsOK(Main) /\ th \in [Thread -> Locals]
  BY MainThread DEF LocalsSet, TypeOK
<1>1. th[Main].pc = "isClosed" /\ th[Main].pc \in HasConn
  BY DEF ExtentTimerIsClosed, At, HasConn
<1>2. CASE Return(Main)
  BY <1>0, <1>1, <1>2, ReturnMoves
<1>3. CASE Goto(Main, "close")
  <2>1. "close" \notin CheckedPc
    BY DEF CheckedPc
  <2> QED
    BY <1>0, <1>1, <1>3, <2>1, GotoMoves
<1> QED
  BY <1>2, <1>3 DEF ExtentTimerIsClosed

LEMMA HandleListenMoves ==
    ASSUME TypeOK, LocalsSet, HandleListen
    PROVE  Moves(Main) /\ th[Main].pc = "loop"
<1>0. Main \in Thread /\ LocalsOK(Main) /\ th \in [Thread -> Locals]
  BY MainThread DEF LocalsSet, TypeOK
<1>1. th[Main].pc = "loop" /\ Goto(Main, "accept") /\ "accept" \notin CheckedPc
  BY DEF HandleListen, At, CheckedPc
<1> QED
  BY <1>0, <1>1, GotoMoves

(* Run looks the descriptor of an event up and keeps the Conn it finds. *)
LEMMA HandleEventMoves ==
    ASSUME TypeOK, LocalsSet, EntriesSet, EventsSet, NEW e \in batch, HandleEvent(e)
    PROVE  /\ Moves(Main) /\ th[Main].pc = "loop" /\ e.fd \in Fd
           /\ users[e.fd].conn # Null => /\ th'[Main].conn = users[e.fd].conn
                                         /\ th'[Main].pc \in {"close", "deal"}
<1>0. Main \in Thread /\ LocalsOK(Main) /\ th \in [Thread -> Locals] /\ th[Main] \in Locals
  BY MainThread DEF LocalsSet, TypeOK
<1>1. th[Main].pc = "loop" /\ e.ev # "listen" /\ e.fd \in Fd
  BY DEF HandleEvent, At, EventsSet
<1>5. users[e.fd] \in ConnInfo
  BY <1>1 DEF TypeOK
<1>2. users[e.fd] \in ConnInfo /\ users'[e.fd].conn = users[e.fd].conn
  <2>1. Subscript(e.fd)
    BY DEF HandleEvent
  <2> QED
    BY <1>1, <2>1, <1>5, SubscriptKeeps
<1>3. CASE users[e.fd].conn = Null
  <2>1. UNCHANGED th
    BY <1>2, <1>3 DEF HandleEvent
  <2> QED
    BY <1>0, <1>1, <1>3, <2>1 DEF Moves, LocalsOK
<1>4. CASE users[e.fd].conn # Null
  <2>1. PICK pc, arg :
          /\ pc = IF e.ev = "hup" THEN "close" ELSE "deal"
          /\ arg = CASE e.ev = "in" -> "onRead" [] e.ev = "out" -> "onWrite" [] e.ev = "hup" -> ""
    OBVIOUS
  <2>2. e.ev \in {"in", "out", "hup"}
    BY <1>1 DEF TypeOK, Event
  <2>3. \/ pc = "close" /\ arg = ""
        \/ pc = "deal" /\ arg \in {"onRead", "onWrite"}
    BY <2>1, <2>2
  <2>4. th' = [th EXCEPT ![Main].conn = users[e.fd].conn, ![Main].id = users[e.fd].connId,
                         ![Main].pc = pc, ![Main].arg = arg]
    BY <1>2, <1>4, <2>1 DEF HandleEvent
  <2>5. users[e.fd].conn \in Ptr /\ users[e.fd].connId \in Nat
    BY <1>2, <1>4 DEF ConnInfo
  <2>6. /\ th'[Main] = [th[Main] EXCEPT !.conn = users[e.fd].conn, !.id = users[e.fd].connId,
                                         !.pc = pc, !.arg = arg]
        /\ \A u \in Thread : u # Main => th'[u] = th[u]
    BY <1>0, <2>4
  <2>7. th'[Main].pc = pc /\ th'[Main].conn = users[e.fd].conn /\ th'[Main].arg = arg
    BY <1>0, <2>6 DEF Locals
  <2>8. th'[Main] \in Locals
    <3>1. PICK l : l = [th[Main] EXCEPT !.conn = users[e.fd].conn, !.id = users[e.fd].connId]
      OBVIOUS
    <3>2. l \in Locals
      BY <1>0, <2>5, <3>1 DEF Locals
    <3>3. th'[Main] = [l EXCEPT !.pc = pc, !.arg = arg]
      BY <2>6, <3>1
    <3> QED
      BY <2>3, <3>2, <3>3 DEF Locals
  <2>9. th' \in [Thread -> Locals]
    BY <1>0, <2>4, <2>6, <2>8
  <2>10. LocalsOK(Main)'
    BY <2>3, <2>5, <2>7 DEF LocalsOK, HasConn, HasFd, Unchecked, CheckedPc
  <2> QED
    BY <1>1, <2>3, <2>6, <2>7, <2>9, <2>10 DEF Moves
<1> QED
  BY <1>3, <1>4

LEMMA DealMoves ==
    ASSUME TypeOK, LocalsSet, Deal
    PROVE  /\ Moves(Main) /\ th[Main].pc = "deal" /\ th[Main].conn \in Ptr
           /\ \/ Stays(Main) /\ th'[Main].pc = "extent"
              \/ \E f \in FdRead(th[Main].conn) : ~HasEntry(f)
<1>0. Main \in Thread /\ LocalsOK(Main) /\ th \in [Thread -> Locals]
  BY MainThread DEF LocalsSet, TypeOK
<1>1. th[Main].pc = "deal" /\ th[Main].conn \in Ptr
  BY <1>0 DEF Deal, At, LocalsOK, HasConn, Unchecked
<1>2. CASE Return(Main) /\ \E f \in FdRead(th[Main].conn) : ~HasEntry(f)
  BY <1>0, <1>1, <1>2, ReturnMoves
<1>3. CASE Goto(Main, "extent")
  <2>1. "extent" \notin CheckedPc
    BY DEF CheckedPc
  <2> QED
    BY <1>0, <1>1, <1>3, <2>1, GotoMoves
<1> QED
  BY <1>2, <1>3 DEF Deal

LEMMA DealExtentMoves ==
    ASSUME TypeOK, LocalsSet, DealExtent
    PROVE  /\ Moves(Main) /\ th[Main].pc = "extent" /\ th[Main].conn \in Ptr
           /\ th[Main].arg \in {"onRead", "onWrite"}
<1>0. Main \in Thread /\ LocalsOK(Main) /\ th \in [Thread -> Locals]
  BY MainThread DEF LocalsSet, TypeOK
<1> QED
  BY <1>0, ReturnMoves DEF DealExtent, At, LocalsOK, HasConn, Unchecked

LEMMA AcceptEndMoves ==
    ASSUME TypeOK, LocalsSet, AcceptEnd
    PROVE  Moves(Main) /\ th[Main].pc = "accept"
<1>0. Main \in Thread /\ th \in [Thread -> Locals]
  BY MainThread DEF TypeOK
<1> QED
  BY <1>0, ReturnMoves DEF AcceptEnd, At

LEMMA AddClientMoves ==
    ASSUME TypeOK, LocalsSet, NEW f \in Fd, NEW c \in Ptr, AddClient(f, c)
    PROVE  /\ Moves(Main) /\ th[Main].pc = "accept"
           /\ th'[Main].pc = "sched" /\ th'[Main].fd = f
<1>0. Main \in Thread /\ th \in [Thread -> Locals] /\ th[Main] \in Locals /\ nextConnId \in Nat
  BY MainThread DEF TypeOK
<1>1. th[Main].pc = "accept"
  BY DEF AddClient, Accept, At
<1>2. th' = [th EXCEPT ![Main].pc = "sched", ![Main].fd = f, ![Main].id = nextConnId]
  BY DEF AddClient
<1>3. /\ th'[Main] = [th[Main] EXCEPT !.pc = "sched", !.fd = f, !.id = nextConnId]
      /\ \A u \in Thread : u # Main => th'[u] = th[u]
  BY <1>0, <1>2
<1>4. th'[Main].pc = "sched" /\ th'[Main].fd = f
  BY <1>0, <1>3 DEF Locals
<1>5. th'[Main] \in Locals
  BY <1>0, <1>3, ZenonT(60) DEF Locals
<1>6. th' \in [Thread -> Locals]
  BY <1>0, <1>2, <1>3, <1>5
<1>7. LocalsOK(Main)'
  BY <1>4 DEF LocalsOK, HasConn, HasFd, Unchecked, CheckedPc
<1> QED
  BY <1>1, <1>3, <1>4, <1>6, <1>7 DEF Moves

LEMMA AddClientScheduleMoves ==
    ASSUME TypeOK, LocalsSet, AddClientSchedule
    PROVE  /\ Moves(Main) /\ Stays(Main) /\ th[Main].pc = "sched" /\ th'[Main].pc = "register"
           /\ th[Main].fd \in Fd
<1>0. Main \in Thread /\ LocalsOK(Main) /\ th \in [Thread -> Locals]
  BY MainThread DEF LocalsSet, TypeOK
<1>1. /\ th[Main].pc = "sched" /\ Goto(Main, "register") /\ "register" \notin CheckedPc
      /\ th[Main].fd \in Fd
  BY <1>0 DEF AddClientSchedule, At, CheckedPc, LocalsOK, HasFd
<1> QED
  BY <1>0, <1>1, GotoMoves

LEMMA AddClientEnds ==
    ASSUME TypeOK, LocalsSet, AddClientRegister \/ AddClientFail
    PROVE  /\ Moves(Main) /\ th[Main].pc = "register" /\ th[Main].fd \in Fd
           /\ th'[Main].pc = "accept"
<1>0. Main \in Thread /\ LocalsOK(Main) /\ th \in [Thread -> Locals]
  BY MainThread DEF LocalsSet, TypeOK
<1>1. /\ th[Main].pc = "register"
      /\ th' = [th EXCEPT ![Main] = [Idle(Main) EXCEPT !.pc = "accept"]]
  BY DEF AddClientRegister, AddClientFail, At
<1>2. [Idle(Main) EXCEPT !.pc = "accept"] \in Locals /\ [Idle(Main) EXCEPT !.pc = "accept"].pc = "accept"
  BY <1>0 DEF Idle, Locals
<1>3. /\ th'[Main] = [Idle(Main) EXCEPT !.pc = "accept"] /\ th' \in [Thread -> Locals]
      /\ \A u \in Thread : u # Main => th'[u] = th[u]
  BY <1>0, <1>1, <1>2
<1>4. th[Main].fd \in Fd
  BY <1>0, <1>1 DEF LocalsOK, HasFd
<1> QED
  BY <1>1, <1>2, <1>3, <1>4 DEF Moves, LocalsOK, HasConn, HasFd, Unchecked, CheckedPc

(* closeConn. *)
LEMMA CloseReturnMoves ==
    ASSUME TypeOK, LocalsSet, NEW t \in Thread, CloseReturn(t), th[t].pc \in {"close", "erase"}
    PROVE  Moves(t)
<1>0. LocalsOK(t) /\ th \in [Thread -> Locals] /\ th[t] \in Locals
  BY DEF LocalsSet, TypeOK
<1>1. CASE Return(t)
  BY <1>0, <1>1, ReturnMoves
<1>2. CASE th' = [th EXCEPT ![t].pc = "close", ![t].twice = FALSE]
  <2>1. /\ th'[t] = [th[t] EXCEPT !.pc = "close", !.twice = FALSE]
        /\ \A u \in Thread : u # t => th'[u] = th[u]
    BY <1>0, <1>2
  <2>2. th'[t].pc = "close" /\ th'[t].conn = th[t].conn /\ th'[t] \in Locals
    BY <1>0, <2>1 DEF Locals
  <2>3. th' \in [Thread -> Locals]
    BY <1>0, <1>2, <2>1, <2>2
  <2>4. LocalsOK(t)'
    BY <1>0, <2>2 DEF LocalsOK, HasConn, HasFd, Unchecked, CheckedPc
  <2> QED
    BY <2>1, <2>3, <2>4 DEF Moves
<1> QED
  BY <1>1, <1>2 DEF CloseReturn

LEMMA CloseConnMoves ==
    ASSUME TypeOK, LocalsSet, NEW t \in Thread, CloseConn(t)
    PROVE  /\ Moves(t) /\ th[t].pc = "close" /\ th[t].conn \in Ptr
           /\ \/ BadFd \in FdRead(th[t].conn) /\ UNCHANGED <<interest, pending>>
              \/ \E f \in FdRead(th[t].conn) :
                   f \in Fd /\ DelFd(f) /\ th'[t].pc = "erase" /\ th'[t].fd = f
<1>0. LocalsOK(t) /\ th \in [Thread -> Locals] /\ th[t] \in Locals
  BY DEF LocalsSet, TypeOK
<1>1. th[t].pc = "close" /\ th[t].conn \in Ptr
  BY <1>0 DEF CloseConn, At, LocalsOK, HasConn, Unchecked
<1>2. CASE BadFd \in FdRead(th[t].conn) /\ CloseReturn(t) /\ UNCHANGED <<interest, pending>>
  BY <1>1, <1>2, CloseReturnMoves
<1>3. ASSUME NEW f \in FdRead(th[t].conn), f # BadFd, DelFd(f),
             th' = [th EXCEPT ![t].pc = "erase", ![t].fd = f]
      PROVE  Moves(t) /\ f \in Fd /\ th'[t].pc = "erase" /\ th'[t].fd = f
  <2>0. f \in Fd
    BY <1>1, <1>3, FdReadType
  <2>1. /\ th'[t] = [th[t] EXCEPT !.pc = "erase", !.fd = f]
        /\ \A u \in Thread : u # t => th'[u] = th[u]
    BY <1>0, <1>3
  <2>2. th'[t].pc = "erase" /\ th'[t].conn = th[t].conn /\ th'[t].fd = f
    BY <1>0, <2>1 DEF Locals
  <2>3. th'[t] \in Locals
    BY <1>0, <2>0, <2>1 DEF Locals
  <2>4. th' \in [Thread -> Locals]
    BY <1>0, <1>3, <2>1, <2>3
  <2>5. LocalsOK(t)'
    BY <1>1, <2>0, <2>2 DEF LocalsOK, HasConn, HasFd, Unchecked, CheckedPc
  <2> QED
    BY <2>0, <2>1, <2>2, <2>4, <2>5 DEF Moves
<1> QED
  BY <1>1, <1>2, <1>3 DEF CloseConn

LEMMA CloseConnEraseMoves ==
    ASSUME TypeOK, LocalsSet, NEW t \in Thread, CloseConnErase(t)
    PROVE  Moves(t) /\ th[t].pc = "erase" /\ th[t].fd \in Fd
<1>1. th[t].pc = "erase" /\ LocalsOK(t) /\ CloseReturn(t)
  BY DEF CloseConnErase, At, LocalsSet
<1> QED
  BY <1>1, CloseReturnMoves DEF LocalsOK, HasFd

-----------------------------------------------------------------------------
(* Which steps change a variable *)

LEMMA TimersStep ==
    ASSUME [Next]_vars
    PROVE  \/ \E f \in Fd : FireAddTimer(f) \/ FireExtentTimer(f)
           \/ DealExtent \/ AddClientSchedule \/ \E w \in Worker : WriteSchedule(w)
           \/ timers' = timers
  BY NextCases, ZenonT(60) DEF AddClientDuplicate, PeerSend, PeerHangup, Arrive, AddClient, HandleEvent,
     ExtentTimerIsClosed, Wait, HandleListen, Deal, AcceptEnd, AcceptFull, AddClientRegister,
     AddClientFail, TakeTask, OnRead, OnProcess, OnWrite, Checked, Read, ReadAgain, Process,
     Rearm, Write, WriteExtent, Written, CloseConn, CloseConnErase, Connect, vars

LEMMA QueueStep ==
    ASSUME [Next]_vars
    PROVE  DealExtent \/ (\E w \in Worker : TakeTask(w)) \/ queue' = queue
  BY NextCases, ZenonT(60) DEF FireAddTimer, FireExtentTimer, AddClientDuplicate, PeerSend, PeerHangup,
     Arrive, AddClient, HandleEvent, ExtentTimerIsClosed, Wait, HandleListen, Deal, AcceptEnd,
     AcceptFull, AddClientSchedule, AddClientRegister, AddClientFail, OnRead, OnProcess,
     OnWrite, Checked, Read, ReadAgain, Process, Rearm, Write, WriteExtent, WriteSchedule,
     Written, CloseConn, CloseConnErase, Connect, vars

LEMMA BatchStep ==
    ASSUME [Next]_vars
    PROVE  Wait \/ HandleListen \/ (\E e \in batch : HandleEvent(e)) \/ batch' = batch
  BY NextCases, ZenonT(60) DEF FireAddTimer, FireExtentTimer, AddClientDuplicate, PeerSend, PeerHangup,
     Arrive, AddClient, ExtentTimerIsClosed, Deal, DealExtent, AcceptEnd, AcceptFull,
     AddClientSchedule, AddClientRegister, AddClientFail, TakeTask, OnRead, OnProcess, OnWrite,
     Checked, Read, ReadAgain, Process, Rearm, Write, WriteExtent, WriteSchedule, Written,
     CloseConn, CloseConnErase, Connect, vars, run

LEMMA CountersStep ==
    ASSUME [Next]_vars
    PROVE  \/ Connect \/ Wait \/ HandleListen \/ AcceptEnd \/ AcceptFull \/ AddClientFail
           \/ \E f \in Fd : Accept(f) /\ UNCHANGED <<listenReady, connects, fails>>
           \/ UNCHANGED <<backlog, listenReady, connects, fails, quota>>
<1>1. ASSUME NEW f \in Fd, AddClientDuplicate(f) \/ \E c \in Ptr : AddClient(f, c)
      PROVE  Accept(f) /\ UNCHANGED <<listenReady, connects, fails>>
  BY <1>1 DEF AddClientDuplicate, AddClient, env
<1>2. ASSUME NEW w \in Worker,
             \/ TakeTask(w) \/ OnRead(w) \/ OnProcess(w) \/ OnWrite(w)
             \/ Read(w) \/ ReadAgain(w) \/ Process(w) \/ Rearm(w) \/ Write(w)
             \/ WriteExtent(w) \/ WriteSchedule(w) \/ Written(w)
      PROVE  UNCHANGED <<backlog, listenReady, connects, fails, quota>>
  BY <1>2 DEF TakeTask, OnRead, OnProcess, OnWrite, Checked, Read, ReadAgain, Process, Rearm,
     Write, WriteExtent, WriteSchedule, Written, run, env, kernel
<1>3. ASSUME NEW t \in Thread, CloseConn(t) \/ CloseConnErase(t)
      PROVE  UNCHANGED <<backlog, listenReady, connects, fails, quota>>
  BY <1>3 DEF CloseConn, CloseConnErase, run, env
<1>4. ASSUME NEW f \in Fd, \/ FireAddTimer(f) \/ FireExtentTimer(f) \/ PeerSend(f)
                           \/ \E how \in Hangup : PeerHangup(f, how)
      PROVE  UNCHANGED <<backlog, listenReady, connects, fails, quota>>
  BY <1>4 DEF FireAddTimer, FireExtentTimer, PeerSend, PeerHangup, Arrive, run, env, kernel
<1>5. ASSUME \/ \E e \in batch : HandleEvent(e)
             \/ ExtentTimerIsClosed \/ Deal \/ DealExtent \/ AddClientSchedule \/ AddClientRegister
             \/ UNCHANGED vars
      PROVE  UNCHANGED <<backlog, listenReady, connects, fails, quota>>
  BY <1>5 DEF HandleEvent, ExtentTimerIsClosed, Deal, DealExtent, AddClientSchedule,
     AddClientRegister, vars, run, env, kernel
<1> QED
  BY <1>1, <1>2, <1>3, <1>4, <1>5, NextCases

LEMMA CountersType ==
    ASSUME TypeOK, [Next]_vars
    PROVE  /\ backlog' \in Nat /\ listenReady' \in BOOLEAN /\ connects' \in Nat /\ fails' \in Nat
           /\ quota' \in Int
<1> USE DEF TypeOK
<1>1. CASE Connect
  BY <1>1 DEF Connect, run
<1>2. CASE Wait
  BY <1>2 DEF Wait, env
<1>3. CASE HandleListen
  BY <1>3, BoundAssumption DEF HandleListen, AcceptQuota, kernel, env
<1>4. CASE AcceptEnd
  BY <1>4 DEF AcceptEnd, kernel, env
<1>5. CASE AcceptFull
  BY <1>5 DEF AcceptFull, env
<1>6. CASE AddClientFail
  BY <1>6 DEF AddClientFail, run
<1>7. ASSUME NEW f \in Fd, Accept(f), UNCHANGED <<listenReady, connects, fails>>
      PROVE  /\ backlog' \in Nat /\ listenReady' \in BOOLEAN /\ connects' \in Nat /\ fails' \in Nat
             /\ quota' \in Int
  BY <1>7 DEF Accept
<1> QED
  BY <1>1, <1>2, <1>3, <1>4, <1>5, <1>6, <1>7, CountersStep

LEMMA TimersType ==
    ASSUME TypeOK, LocalsSet, [Next]_vars
    PROVE  timers' \in [Fd -> Timer]
<1>0. NoTimer \in Timer /\ timers \in [Fd -> Timer]
  BY DEF NoTimer, Timer, TypeOK
<1>1. ASSUME NEW f \in Fd, FireAddTimer(f) \/ FireExtentTimer(f)
      PROVE  timers' \in [Fd -> Timer]
  BY <1>0, <1>1 DEF FireAddTimer, FireExtentTimer
<1>2. ASSUME NEW x \in {<<>>} \cup (Fd \X Nat), ScheduleExtent(x)
      PROVE  timers' \in [Fd -> Timer]
  <2>1. CASE x = <<>>
    BY <1>0, <1>2, <2>1 DEF ScheduleExtent
  <2>2. CASE x \in Fd \X Nat
    <3>1. x # <<>> /\ x[1] \in Fd /\ [kind |-> "extent", connId |-> x[2]] \in Timer
      BY <2>2 DEF Timer
    <3> QED
      BY <1>0, <1>2, <3>1 DEF ScheduleExtent
  <2> QED
    BY <2>1, <2>2
<1>3. CASE DealExtent
  <2>1. PICK x \in ExtentIds(th[Main].conn) : ScheduleExtent(x)
    BY <1>3 DEF DealExtent
  <2> QED
    BY <1>2, <1>3, <2>1, DealExtentMoves, ExtentIdsType
<1>4. CASE AddClientSchedule
  <2>1. th[Main].fd \in Fd /\ th[Main].id \in Nat
    BY <1>4, AddClientScheduleMoves, MainThread DEF TypeOK, Locals
  <2>2. [kind |-> "add", connId |-> th[Main].id] \in Timer
    BY <2>1 DEF Timer
  <2> QED
    BY <1>0, <1>4, <2>1, <2>2 DEF AddClientSchedule
<1>5. ASSUME NEW w \in Worker, WriteSchedule(w)
      PROVE  timers' \in [Fd -> Timer]
  <2>1. th[w].ext \in {<<>>} \cup (Fd \X Nat)
    BY MainThread DEF TypeOK, Locals
  <2> QED
    BY <1>2, <1>5, <2>1 DEF WriteSchedule
<1> QED
  BY <1>0, <1>1, <1>3, <1>4, <1>5, TimersStep

LEMMA QueueType ==
    ASSUME TypeOK, LocalsSet, [Next]_vars
    PROVE  queue' \in Seq(Task)
<1>1. CASE DealExtent
  <2>1. [op |-> th[Main].arg, conn |-> th[Main].conn] \in Task
    BY <1>1, DealExtentMoves DEF Task
  <2>2. queue' = Append(queue, [op |-> th[Main].arg, conn |-> th[Main].conn]) /\ queue \in Seq(Task)
    BY <1>1 DEF DealExtent, TypeOK
  <2> QED
    BY <2>1, <2>2, AppendProperties
<1>2. ASSUME NEW w \in Worker, TakeTask(w) PROVE queue' \in Seq(Task)
  BY <1>2, HeadTailProperties DEF TakeTask, TypeOK
<1> QED
  BY <1>1, <1>2, QueueStep DEF TypeOK

LEMMA EventOfType == ASSUME NEW i, NEW s PROVE EventOf(i, s) \in {"in", "out", "hup"}
  BY DEF EventOf

LEMMA BatchType ==
    ASSUME TypeOK, EventsSet, [Next]_vars
    PROVE  batch' \subseteq Event /\ EventsSet'
<1>0. batch \subseteq Event
  BY DEF TypeOK
<1>1. CASE Wait
  <2>1. ASSUME NEW e \in batch' PROVE e \in Event /\ (e.ev # "listen" <=> e.fd \in Fd)
    <3>1. CASE \E f \in Fd : e = [fd |-> f, ev |-> EventOf(interest[f], sock[f])]
      BY <3>1, EventOfType DEF Event
    <3>2. CASE e = [fd |-> ListenFd, ev |-> "listen"]
      BY <3>2, FdAssumption DEF Event, ListenFd
    <3> QED
      BY <1>1, <2>1, <3>1, <3>2 DEF Wait
  <2> QED
    BY <2>1 DEF EventsSet
<1>2. CASE batch' \subseteq batch
  BY <1>0, <1>2 DEF EventsSet
<1>3. CASE HandleListen \/ \E e \in batch : HandleEvent(e)
  <2>1. batch' \subseteq batch
    BY <1>3 DEF HandleListen, HandleEvent
  <2> QED
    BY <1>2, <2>1
<1> QED
  BY <1>1, <1>2, <1>3, BatchStep

-----------------------------------------------------------------------------
(* What a step does to the table *)

(* Entries, objects and descriptors stay what they are. *)
TableSame ==
    /\ users' \in [Fd -> ConnInfo] /\ heap' \in [Ptr -> Conn] /\ sock' \in [Fd -> Socket]
    /\ userCount' = userCount /\ nextConnId' \in Nat \ {0}
    /\ EntriesSet'
    /\ \A f \in Fd : /\ users'[f].conn = users[f].conn
                     /\ users[f].conn # Null => users'[f] = users[f]
                     /\ sock'[f].open = sock[f].open
    /\ \A c \in Ptr : /\ heap'[c].live = heap[c].live /\ heap'[c].isClose = heap[c].isClose
                      /\ heap'[c].fd = heap[c].fd /\ heap'[c].connId = heap[c].connId

(* The entry of f goes, with its Conn and its descriptor. *)
TableDrops(f) ==
    /\ users[f].conn # Null
    /\ users' = [users EXCEPT ![f] = Absent]
    /\ heap' = [heap EXCEPT ![users[f].conn].live = FALSE, ![users[f].conn].isClose = TRUE]
    /\ userCount' = userCount - 1
    /\ CloseFd(f)
    /\ nextConnId' = nextConnId

LEMMA EraseDrops ==
    ASSUME TypeOK, TableOwns, NEW f \in Fd, Erase(f)
    PROVE  \/ /\ users[f].conn = Null
              /\ users' = [users EXCEPT ![f] = Absent]
              /\ UNCHANGED <<heap, userCount, sock, interest, pending>>
           \/ nextConnId' = nextConnId => TableDrops(f)
  BY DEF Erase, Destroy, TableOwns, TableDrops

LEMMA AbsentKeeps ==
    ASSUME TypeOK, EntriesSet, NEW f \in Fd, users[f].conn = Null,
           users' = [users EXCEPT ![f] = Absent]
    PROVE  /\ users' \in [Fd -> ConnInfo]
           /\ EntriesSet'
           /\ \A g \in Fd : /\ users'[g].conn = users[g].conn
                            /\ users[g].conn # Null => users'[g] = users[g]
<1>1. Absent \in ConnInfo /\ Absent.conn = Null
  BY DEF Absent, ConnInfo
<1> QED
  BY <1>1 DEF TypeOK, EntriesSet

LEMMA SameKeeps ==
    ASSUME TypeOK, IdsSet, TableOwns, UserCountExact, NothingLeaks, TableSame
    PROVE  IdsSet' /\ TableOwns' /\ UserCountExact' /\ NothingLeaks'
<1>0. ASSUME NEW f \in Fd, users[f].conn # Null PROVE users[f].conn \in Ptr
  BY <1>0 DEF TypeOK, ConnInfo
<1>1. IdsSet'
  BY DEF IdsSet, TableSame
<1>2. TableOwns'
  BY <1>0 DEF TableOwns, TableSame
<1>3. UserCountExact'
  <2>1. {f \in Fd : users'[f].conn # Null} = {f \in Fd : users[f].conn # Null}
    BY DEF TableSame
  <2> QED
    BY <2>1 DEF UserCountExact, TableSame
<1>4. NothingLeaks'
  BY DEF NothingLeaks, TableSame
<1> QED
  BY <1>1, <1>2, <1>3, <1>4

LEMMA DropKeeps ==
    ASSUME TypeOK, EntriesSet, IdsSet, TableOwns, UserCountExact, NothingLeaks,
           NEW f \in Fd, TableDrops(f)
    PROVE  /\ users' \in [Fd -> ConnInfo] /\ heap' \in [Ptr -> Conn] /\ sock' \in [Fd -> Socket]
           /\ userCount' \in Nat /\ nextConnId' \in Nat
           /\ EntriesSet' /\ IdsSet' /\ TableOwns' /\ UserCountExact' /\ NothingLeaks'
<1>1. PICK c \in Ptr : c = users[f].conn
  BY DEF TableDrops, TypeOK, ConnInfo
<1>2. Absent \in ConnInfo /\ Absent.conn = Null /\ NoSocket \in Socket /\ NoSocket.open = FALSE
  BY DEF Absent, NoSocket, ConnInfo, Socket
<1>3. /\ users' \in [Fd -> ConnInfo]
      /\ users'[f].conn = Null /\ \A g \in Fd : g # f => users'[g] = users[g]
  BY <1>2 DEF TableDrops, TypeOK
<1>4. /\ sock' \in [Fd -> Socket]
      /\ sock'[f].open = FALSE /\ \A g \in Fd : g # f => sock'[g] = sock[g]
  BY <1>2 DEF TableDrops, CloseFd, TypeOK
<1>5. /\ heap' \in [Ptr -> Conn]
      /\ heap'[c].live = FALSE /\ \A d \in Ptr : d # c => heap'[d] = heap[d]
  <2>1. heap' = [heap EXCEPT ![c].live = FALSE, ![c].isClose = TRUE] /\ heap[c] \in Conn
    BY <1>1 DEF TableDrops, TypeOK
  <2>2. /\ heap'[c] = [heap[c] EXCEPT !.live = FALSE, !.isClose = TRUE]
        /\ \A d \in Ptr : d # c => heap'[d] = heap[d]
    BY <2>1 DEF TypeOK
  <2>3. heap'[c] \in Conn /\ heap'[c].live = FALSE
    <3>1. [heap[c] EXCEPT !.live = FALSE] \in Conn /\ [heap[c] EXCEPT !.live = FALSE].live = FALSE
      BY <2>1 DEF Conn
    <3>2. PICK h \in Conn : h = [heap[c] EXCEPT !.live = FALSE] /\ h.live = FALSE
      BY <3>1
    <3>3. [h EXCEPT !.isClose = TRUE] \in Conn /\ [h EXCEPT !.isClose = TRUE].live = FALSE
      BY <3>2 DEF Conn
    <3>4. heap'[c] = [h EXCEPT !.isClose = TRUE]
      BY <2>2, <3>2
    <3> QED
      BY <3>3, <3>4
  <2> QED
    BY <2>1, <2>2, <2>3 DEF TypeOK
<1>6. \A g \in Fd : users[g].conn # Null => users[g].conn \in Ptr /\ (g # f => users[g].conn # c)
  <2>1. \A g \in Fd : users[g].conn # Null => users[g].conn \in Ptr
    BY DEF TypeOK, ConnInfo
  <2>2. \A g \in Fd : users[g].conn = c => heap[c].fd = g
    BY <1>1, PtrAssumption DEF TableOwns, Null
  <2> QED
    BY <1>1, <2>1, <2>2
<1>7. EntriesSet' /\ nextConnId' \in Nat
  BY <1>3 DEF EntriesSet, TableDrops, TypeOK
<1>8. IdsSet'
  BY <1>5 DEF IdsSet, TableDrops
<1>9. TableOwns'
  BY <1>3, <1>4, <1>5, <1>6 DEF TableOwns
<1>10. NothingLeaks'
  <2>1. \A g \in Fd : sock'[g].open => users'[g].conn # Null
    BY <1>3, <1>4 DEF NothingLeaks
  <2>2. ASSUME NEW d \in Ptr, heap'[d].live PROVE heap'[d].fd \in Fd /\ users'[heap'[d].fd].conn = d
    <3>1. d # c /\ heap'[d] = heap[d] /\ heap[d].live
      BY <1>5, <2>2
    <3>2. heap[d].fd \in Fd /\ users[heap[d].fd].conn = d
      BY <3>1 DEF NothingLeaks
    <3> QED
      BY <1>1, <1>3, <3>1, <3>2
  <2> QED
    BY <2>1, <2>2 DEF NothingLeaks
<1>11. userCount' \in Nat /\ UserCountExact'
  <2> DEFINE S == {g \in Fd : users[g].conn # Null}
  <2>1. IsFiniteSet(S) /\ f \in S
    BY <1>1, FdAssumption, FS_Subset DEF TableDrops
  <2>2. {g \in Fd : users'[g].conn # Null} = S \ {f}
    BY <1>3
  <2>3. Cardinality(S \ {f}) = Cardinality(S) - 1 /\ IsFiniteSet(S \ {f})
    BY <2>1, FS_RemoveElement
  <2>4. Cardinality(S \ {f}) \in Nat
    BY <2>3, FS_CardinalityType
  <2>5. userCount = Cardinality(S) /\ userCount' = userCount - 1
    BY DEF UserCountExact, TableDrops
  <2>6. userCount' = Cardinality(S \ {f})
    BY <2>3, <2>5
  <2> QED
    BY <2>2, <2>4, <2>6 DEF UserCountExact
<1> QED
  BY <1>3, <1>4, <1>5, <1>7, <1>8, <1>9, <1>10, <1>11

LEMMA AddKeeps ==
    ASSUME TypeOK, EntriesSet, IdsSet, TableOwns, UserCountExact, NothingLeaks,
           NEW f \in Fd, NEW c \in Ptr, AddClient(f, c)
    PROVE  /\ users' \in [Fd -> ConnInfo] /\ heap' \in [Ptr -> Conn] /\ sock' \in [Fd -> Socket]
           /\ userCount' \in Nat /\ nextConnId' \in Nat
           /\ EntriesSet' /\ IdsSet' /\ TableOwns' /\ UserCountExact' /\ NothingLeaks'
           /\ \A g \in Fd : g # f => users'[g] = users[g] /\ sock'[g] = sock[g]
<1> DEFINE conn == [live |-> TRUE, isClose |-> FALSE, fd |-> f, connId |-> nextConnId,
                    rbuf |-> "empty", out |-> FALSE, keep |-> FALSE]
           info == [has |-> TRUE, conn |-> c, connId |-> nextConnId]
           open == [NoSocket EXCEPT !.open = TRUE]
<1>1. nextConnId \in Nat \ {0} /\ nextConnId' = nextConnId + 1 /\ userCount \in Nat
  BY DEF TypeOK, IdsSet, AddClient, Accept
<1>2. conn \in Conn /\ info \in ConnInfo /\ open \in Socket /\ open.open
  BY <1>1 DEF Conn, ConnInfo, Socket, NoSocket
<1>3. /\ users' \in [Fd -> ConnInfo]
      /\ users'[f] = info /\ \A g \in Fd : g # f => users'[g] = users[g]
  BY <1>2 DEF AddClient, TypeOK
<1>4. /\ sock' \in [Fd -> Socket]
      /\ sock'[f] = open /\ \A g \in Fd : g # f => sock'[g] = sock[g]
  BY <1>2 DEF AddClient, TypeOK
<1>5. /\ heap' \in [Ptr -> Conn]
      /\ heap'[c] = conn /\ \A d \in Ptr : d # c => heap'[d] = heap[d]
  BY <1>2 DEF AddClient, TypeOK
<1>6. ~heap[c].live /\ ~sock[f].open /\ ~users[f].has /\ userCount' = userCount + 1
  BY DEF AddClient, Accept
<1>7. users[f].conn = Null /\ c # Null
  BY <1>6, PtrAssumption DEF EntriesSet, Null
<1>8. \A g \in Fd : users[g].conn # Null => users[g].conn \in Ptr \ {c}
  BY <1>6 DEF TypeOK, ConnInfo, TableOwns
<1>9. EntriesSet' /\ nextConnId' \in Nat
  BY <1>1, <1>3 DEF EntriesSet
<1>10. IdsSet'
  BY <1>1, <1>5 DEF IdsSet
<1>11. TableOwns'
  <2>1. ASSUME NEW g \in Fd, users'[g].conn # Null
        PROVE  LET d == users'[g].conn IN
               /\ heap'[d].live /\ ~heap'[d].isClose
               /\ heap'[d].fd = g /\ heap'[d].connId = users'[g].connId
               /\ sock'[g].open
    <3>1. CASE g = f
      <4>1. users'[g].conn = c /\ users'[g].connId = nextConnId
        BY <1>3, <3>1
      <4>2. sock'[g].open
        BY <1>2, <1>4, <3>1
      <4>3. /\ heap'[c].live /\ ~heap'[c].isClose /\ heap'[c].fd = f
            /\ heap'[c].connId = nextConnId
        BY <1>5
      <4> QED
        BY <3>1, <4>1, <4>2, <4>3
    <3>2. CASE g # f
      BY <1>3, <1>4, <1>5, <1>8, <2>1, <3>2 DEF TableOwns
    <3> QED
      BY <3>1, <3>2
  <2> QED
    BY <2>1 DEF TableOwns
<1>12. NothingLeaks'
  <2>1. \A g \in Fd : sock'[g].open => users'[g].conn # Null
    BY <1>3, <1>4, <1>7 DEF NothingLeaks
  <2>2. ASSUME NEW d \in Ptr, heap'[d].live PROVE heap'[d].fd \in Fd /\ users'[heap'[d].fd].conn = d
    <3>1. CASE d = c
      BY <1>3, <1>5, <3>1
    <3>2. CASE d # c
      <4>1. heap'[d] = heap[d] /\ heap[d].live /\ d # Null
        BY <1>5, <2>2, <3>2, PtrAssumption DEF Null
      <4>2. heap[d].fd \in Fd /\ users[heap[d].fd].conn = d
        BY <4>1 DEF NothingLeaks
      <4> QED
        BY <1>3, <1>7, <4>1, <4>2
    <3> QED
      BY <3>1, <3>2
  <2> QED
    BY <2>1, <2>2 DEF NothingLeaks
<1>13. userCount' \in Nat /\ UserCountExact'
  <2> DEFINE S == {g \in Fd : users[g].conn # Null}
  <2>1. IsFiniteSet(S) /\ f \notin S
    BY <1>7, FdAssumption, FS_Subset
  <2>2. {g \in Fd : users'[g].conn # Null} = S \cup {f}
    BY <1>3, <1>7
  <2>3. Cardinality(S \cup {f}) = Cardinality(S) + 1
    BY <2>1, FS_AddElement
  <2>4. userCount = Cardinality(S)
    BY DEF UserCountExact
  <2>5. userCount' = Cardinality(S \cup {f})
    BY <1>6, <2>3, <2>4
  <2>6. userCount' \in Nat
    BY <1>1, <1>6
  <2> QED
    BY <2>2, <2>5, <2>6 DEF UserCountExact
<1> QED
  BY <1>3, <1>4, <1>5, <1>9, <1>10, <1>11, <1>12, <1>13

(* The steps that leave table, objects and sockets as they are. *)
LEMMA TableStep ==
    ASSUME [Next]_vars
    PROVE  \/ \E f \in Fd : \/ FireExtentTimer(f) \/ AddClientDuplicate(f) \/ PeerSend(f)
                            \/ \E how \in Hangup : PeerHangup(f, how)
           \/ \E f \in Fd, c \in Ptr : AddClient(f, c)
           \/ \E e \in batch : HandleEvent(e)
           \/ AddClientFail
           \/ \E w \in Worker : Read(w) \/ Process(w) \/ Write(w)
           \/ \E t \in Thread : CloseConnErase(t)
           \/ UNCHANGED <<users, heap, userCount, nextConnId, sock>>
<1>1. ASSUME NEW w \in Worker,
             \/ TakeTask(w) \/ OnRead(w) \/ OnProcess(w) \/ OnWrite(w) \/ ReadAgain(w)
             \/ Rearm(w) \/ WriteExtent(w) \/ WriteSchedule(w) \/ Written(w)
      PROVE  UNCHANGED <<users, heap, userCount, nextConnId, sock>>
  BY <1>1 DEF TakeTask, OnRead, OnProcess, OnWrite, Checked, ReadAgain, Rearm,
     WriteExtent, WriteSchedule, Written, table, kernel
<1>2. ASSUME NEW t \in Thread, CloseConn(t)
      PROVE  UNCHANGED <<users, heap, userCount, nextConnId, sock>>
  BY <1>2 DEF CloseConn, table
<1>3. ASSUME \/ \E f \in Fd : FireAddTimer(f)
             \/ Connect \/ ExtentTimerIsClosed \/ Wait \/ HandleListen \/ Deal \/ DealExtent
             \/ AcceptEnd \/ AcceptFull \/ AddClientSchedule \/ AddClientRegister \/ UNCHANGED vars
      PROVE  UNCHANGED <<users, heap, userCount, nextConnId, sock>>
  BY <1>3 DEF FireAddTimer, Connect, ExtentTimerIsClosed, Wait, HandleListen, Deal, DealExtent,
     AcceptEnd, AcceptFull, AddClientSchedule, AddClientRegister, vars, table, kernel
<1> QED
  BY <1>1, <1>2, <1>3, NextCases

LEMMA ReadKeeps ==
    ASSUME TableInv, NEW w \in Worker, Read(w)
    PROVE  /\ TableSame
           /\ \A g \in Fd : sock'[g].peer = sock[g].peer /\ sock'[g].unread <= sock[g].unread
<1>0. /\ users \in [Fd -> ConnInfo] /\ heap \in [Ptr -> Conn] /\ sock \in [Fd -> Socket]
      /\ nextConnId \in Nat \ {0} /\ EntriesSet
  BY DEF TableInv, TypeOK, IdsSet
<1>1. /\ users' = users /\ userCount' = userCount /\ nextConnId' = nextConnId
      /\ At(w, "read")
  BY DEF Read
<1>2. TypeOK /\ LocalsOK(w)
  BY MainThread DEF TableInv, LocalsSet
<1>3. PICK c \in Ptr : c = th[w].conn
  BY <1>1, <1>2 DEF At, LocalsOK, HasConn, CheckedPc
<1>4. EntriesSet'
  BY <1>0, <1>1 DEF EntriesSet
<1>a. \A s \in Socket : s.open \in BOOLEAN /\ s.unread \in Nat
  BY DEF Socket
<1>5. CASE UNCHANGED <<sock, heap>>
  <2>1. TableSame
    BY <1>0, <1>1, <1>4, <1>5 DEF TableSame
  <2>2. \A g \in Fd : sock[g].unread \in Nat /\ sock'[g] = sock[g]
    BY <1>0, <1>a, <1>5
  <2> QED
    BY <2>1, <2>2
<1>6. ASSUME NEW f \in FdRead(c), f # BadFd, NEW k \in 1..sock[f].unread, ReadSome(w, f, k)
      PROVE  /\ TableSame
             /\ \A g \in Fd : sock'[g].peer = sock[g].peer /\ sock'[g].unread <= sock[g].unread
  <2>1. f \in Fd
    BY <1>2, <1>6, FdReadType
  <2>2. heap' = [heap EXCEPT ![c].rbuf = "data"] /\ sock' = [sock EXCEPT ![f].unread = @ - k]
    BY <1>3, <1>6 DEF ReadSome
  <2>3. /\ heap'[c] = [heap[c] EXCEPT !.rbuf = "data"] /\ heap[c] \in Conn
        /\ \A d \in Ptr : d # c => heap'[d] = heap[d]
    BY <1>0, <2>2
  <2>4. /\ heap'[c] \in Conn
        /\ heap'[c].live = heap[c].live /\ heap'[c].isClose = heap[c].isClose
        /\ heap'[c].fd = heap[c].fd /\ heap'[c].connId = heap[c].connId
    BY <2>3 DEF Conn
  <2>5. /\ sock'[f] = [sock[f] EXCEPT !.unread = @ - k] /\ sock[f] \in Socket
        /\ \A g \in Fd : g # f => sock'[g] = sock[g]
    BY <1>0, <2>1, <2>2
  <2>6. sock[f].unread \in Nat /\ sock[f].unread - k \in Nat /\ sock[f].unread - k <= sock[f].unread
    BY <1>a, <1>6, <2>5
  <2>7. /\ sock'[f] \in Socket /\ sock'[f].open = sock[f].open /\ sock'[f].peer = sock[f].peer
        /\ sock'[f].unread = sock[f].unread - k
    BY <2>5, <2>6 DEF Socket
  <2>8. heap' \in [Ptr -> Conn] /\ sock' \in [Fd -> Socket]
    BY <1>0, <2>2, <2>3, <2>4, <2>5, <2>7
  <2>9. TableSame
    BY <1>0, <1>1, <1>4, <2>3, <2>4, <2>5, <2>7, <2>8 DEF TableSame
  <2>10. \A g \in Fd : sock[g].unread \in Nat
    BY <1>0, <1>a
  <2>11. ASSUME NEW g \in Fd PROVE sock'[g].peer = sock[g].peer /\ sock'[g].unread <= sock[g].unread
    <3>1. CASE g = f
      BY <2>6, <2>7, <3>1
    <3>2. CASE g # f
      BY <2>5, <2>10, <3>2
    <3> QED
      BY <3>1, <3>2
  <2> QED
    BY <2>9, <2>11
<1> QED
  BY <1>3, <1>5, <1>6 DEF Read, ReadNothing

LEMMA ConnKeeps ==
    ASSUME TableInv, NEW c \in Ptr, NEW b \in {"empty", "data", "rest"}, NEW o \in BOOLEAN, NEW k \in BOOLEAN,
           \/ heap' = heap
           \/ heap' = [heap EXCEPT ![c].out = o]
           \/ heap' = [heap EXCEPT ![c].rbuf = b, ![c].out = o, ![c].keep = k],
           UNCHANGED <<users, userCount, nextConnId, sock>>
    PROVE  TableSame
<1>0. /\ users \in [Fd -> ConnInfo] /\ heap \in [Ptr -> Conn] /\ sock \in [Fd -> Socket]
      /\ nextConnId \in Nat \ {0} /\ EntriesSet /\ heap[c] \in Conn
  BY DEF TableInv, TypeOK, IdsSet
<1>1. EntriesSet'
  BY <1>0 DEF EntriesSet
<1>2. /\ \A d \in Ptr : d # c => heap'[d] = heap[d]
      /\ \/ heap'[c] = heap[c]
         \/ heap'[c] = [heap[c] EXCEPT !.out = o]
         \/ heap'[c] = [heap[c] EXCEPT !.rbuf = b, !.out = o, !.keep = k]
      /\ heap' = [d \in Ptr |-> heap'[d]]
  BY <1>0
<1>3. /\ heap'[c] \in Conn
      /\ heap'[c].live = heap[c].live /\ heap'[c].isClose = heap[c].isClose
      /\ heap'[c].fd = heap[c].fd /\ heap'[c].connId = heap[c].connId
  <2>1. CASE heap'[c] = heap[c]
    BY <1>0, <2>1
  <2>2. CASE heap'[c] = [heap[c] EXCEPT !.out = o]
    BY <1>0, <2>2 DEF Conn
  <2>3. CASE heap'[c] = [heap[c] EXCEPT !.rbuf = b, !.out = o, !.keep = k]
    <3>1. heap'[c] \in Conn
      BY <1>0, <2>3 DEF Conn
    <3>2. /\ heap'[c].live = heap[c].live /\ heap'[c].isClose = heap[c].isClose
          /\ heap'[c].fd = heap[c].fd /\ heap'[c].connId = heap[c].connId
      BY <1>0, <2>3 DEF Conn
    <3> QED
      BY <3>1, <3>2
  <2> QED
    BY <1>2, <2>1, <2>2, <2>3
<1>4. heap' \in [Ptr -> Conn]
  BY <1>0, <1>2, <1>3
<1> QED
  BY <1>0, <1>1, <1>2, <1>3, <1>4 DEF TableSame

LEMMA ProcessWriteKeeps ==
    ASSUME TableInv, NEW w \in Worker, Process(w) \/ Write(w)
    PROVE  TableSame
<1>1. UNCHANGED <<users, userCount, nextConnId, sock>> /\ th[w].pc \in {"process", "write"}
  BY DEF Process, Write, kernel, At
<1>2. LocalsOK(w)
  BY MainThread DEF TableInv, LocalsSet
<1>3. PICK c \in Ptr : c = th[w].conn
  BY <1>1, <1>2 DEF LocalsOK, HasConn, CheckedPc
<1>4. CASE Process(w)
  <2>1. \/ heap' = heap
        \/ \E b \in {"empty", "rest"}, k \in BOOLEAN :
             heap' = [heap EXCEPT ![c].rbuf = b, ![c].out = TRUE, ![c].keep = k]
    BY <1>3, <1>4, ZenonT(60) DEF Process
  <2> QED
    BY <1>1, <2>1, ConnKeeps, ZenonT(60)
<1>5. CASE Write(w)
  <2>1. \/ heap' = heap
        \/ \E o \in BOOLEAN : heap' = [heap EXCEPT ![c].out = o]
    BY <1>3, <1>5 DEF Write
  <2> QED
    BY <1>1, <2>1, ConnKeeps
<1> QED
  BY <1>4, <1>5

(* What a peer does to a socket, open or not, that is open. *)
LEMMA PeerArrives ==
    ASSUME TypeOK, NEW f \in Fd, PeerSend(f) \/ \E how \in Hangup : PeerHangup(f, how)
    PROVE  \E s \in Socket : Arrive(f, s) /\ s.open = sock[f].open
<1>0. sock[f] \in Socket
  BY DEF TypeOK
<1>1. CASE PeerSend(f)
  <2>1. PICK s : s = [sock[f] EXCEPT !.unread = @ + 1, !.sent = @ + 1]
    OBVIOUS
  <2>2. sock[f].unread + 1 \in Nat /\ sock[f].sent + 1 \in Nat
    BY <1>0 DEF Socket
  <2>3. PICK x \in Nat, y \in Nat : x = sock[f].unread + 1 /\ y = sock[f].sent + 1
    BY <2>2
  <2>4. s = [sock[f] EXCEPT !.unread = x, !.sent = y]
    BY <2>1, <2>3
  <2>5. s \in Socket /\ s.open = sock[f].open
    BY <1>0, <2>4 DEF Socket
  <2> QED
    BY <1>1, <2>1, <2>5 DEF PeerSend
<1>2. ASSUME NEW how \in Hangup, PeerHangup(f, how)
      PROVE  \E s \in Socket : Arrive(f, s) /\ s.open = sock[f].open
  <2>1. PICK s : s = [sock[f] EXCEPT !.peer = how]
    OBVIOUS
  <2>2. how \in {"fin", "rst"}
    BY SwitchAssumption
  <2>3. s \in Socket /\ s.open = sock[f].open
    BY <1>0, <2>1, <2>2 DEF Socket
  <2> QED
    BY <1>2, <2>1, <2>3 DEF PeerHangup
<1> QED
  BY <1>1, <1>2

LEMMA UsersKeep ==
    ASSUME TableInv, users' \in [Fd -> ConnInfo], EntriesSet',
           \A f \in Fd : /\ users'[f].conn = users[f].conn
                         /\ users[f].conn # Null => users'[f] = users[f],
           heap' = heap, userCount' = userCount, sock' \in [Fd -> Socket],
           \A f \in Fd : sock'[f].open = sock[f].open,
           nextConnId' \in Nat \ {0}
    PROVE  TableSame
  BY DEF TableSame, TableInv, TypeOK

LEMMA PeerKeeps ==
    ASSUME TableInv, NEW f \in Fd, NEW s \in Socket, Arrive(f, s), s.open = sock[f].open
    PROVE  TableSame
<1>1. /\ sock \in [Fd -> Socket] /\ users \in [Fd -> ConnInfo] /\ EntriesSet
      /\ nextConnId \in Nat \ {0}
  BY DEF TableInv, TypeOK, IdsSet
<1>2. sock' = [sock EXCEPT ![f] = s] /\ UNCHANGED <<users, heap, userCount, nextConnId>>
  BY DEF Arrive, table
<1>3. sock' \in [Fd -> Socket] /\ \A g \in Fd : sock'[g].open = sock[g].open
  BY <1>1, <1>2
<1>4. EntriesSet'
  BY <1>1, <1>2 DEF EntriesSet
<1> QED
  BY <1>1, <1>2, <1>3, <1>4, UsersKeep

LEMMA FireExtentTimerKeeps ==
    ASSUME TableInv, NEW f \in Fd, FireExtentTimer(f)
    PROVE  TableSame
<1>1. TypeOK /\ EntriesSet /\ sock \in [Fd -> Socket] /\ nextConnId \in Nat \ {0}
  BY DEF TableInv, TypeOK, IdsSet
<1>2. Subscript(f) /\ UNCHANGED <<heap, userCount, nextConnId, sock>>
  BY DEF FireExtentTimer, kernel
<1> QED
  BY <1>1, <1>2, SubscriptKeeps, UsersKeep

(* The descriptor that Run drops is closed already. *)
LEMMA HandleEventKeeps ==
    ASSUME TableInv, NEW e \in batch, HandleEvent(e)
    PROVE  /\ TableSame
           /\ \A g \in Fd : users[g].conn # Null =>
                sock'[g] = sock[g] /\ interest'[g] = interest[g] /\ pending'[g] = pending[g]
<1>1. /\ TypeOK /\ EntriesSet /\ sock \in [Fd -> Socket] /\ nextConnId \in Nat \ {0} /\ EventsSet
      /\ interest \in [Fd -> Interest] /\ pending \in [Fd -> BOOLEAN]
  BY DEF TableInv, TypeOK, IdsSet
<1>2. e.fd \in Fd /\ Subscript(e.fd) /\ UNCHANGED <<heap, userCount, nextConnId>>
  BY <1>1 DEF HandleEvent, EventsSet
<1>3. /\ users' \in [Fd -> ConnInfo] /\ EntriesSet'
      /\ \A g \in Fd : /\ users'[g].conn = users[g].conn
                       /\ users[g].conn # Null => users'[g] = users[g]
  BY <1>1, <1>2, SubscriptKeeps
<1>4. \/ UNCHANGED <<sock, interest, pending>>
      \/ users'[e.fd].conn = Null /\ CloseFd(e.fd)
  BY DEF HandleEvent
<1>5. CASE UNCHANGED <<sock, interest, pending>>
  BY <1>1, <1>2, <1>3, <1>5, UsersKeep
<1>6. CASE users'[e.fd].conn = Null /\ CloseFd(e.fd)
  <2>1. users[e.fd].conn = Null
    BY <1>2, <1>3, <1>6
  <2>2. ~sock[e.fd].open
    BY <1>2, <2>1 DEF TableInv, NothingLeaks
  <2>3. NoSocket \in Socket /\ NoSocket.open = FALSE /\ sock[e.fd].open \in BOOLEAN
    BY <1>1, <1>2 DEF NoSocket, Socket
  <2>4. /\ sock' \in [Fd -> Socket]
        /\ \A g \in Fd : sock'[g].open = sock[g].open
    BY <1>1, <1>2, <1>6, <2>2, <2>3 DEF CloseFd
  <2>5. TableSame
    BY <1>1, <1>2, <1>3, <2>4, UsersKeep
  <2>6. \A g \in Fd : g # e.fd => sock'[g] = sock[g] /\ interest'[g] = interest[g] /\ pending'[g] = pending[g]
    BY <1>1, <1>2, <1>6 DEF CloseFd, DelFd
  <2> QED
    BY <2>1, <2>5, <2>6
<1> QED
  BY <1>4, <1>5, <1>6

(* The entry that addClient finds for a descriptor of accept() is a phantom. *)
LEMMA AddClientDuplicateKeeps ==
    ASSUME TableInv, NEW f \in Fd, AddClientDuplicate(f)
    PROVE  TableSame /\ UNCHANGED <<sock, interest, pending>>
<1>1. /\ TypeOK /\ EntriesSet /\ TableOwns /\ sock \in [Fd -> Socket]
      /\ nextConnId \in Nat \ {0}
  BY DEF TableInv, TypeOK, IdsSet
<1>2. Erase(f) /\ ~sock[f].open /\ nextConnId' = nextConnId + 1
  BY DEF AddClientDuplicate, Accept
<1>3. users[f].conn = Null
  BY <1>1, <1>2 DEF TableOwns
<1>4. users' = [users EXCEPT ![f] = Absent] /\ UNCHANGED <<heap, userCount, sock, interest, pending>>
  BY <1>2, <1>3 DEF Erase, Destroy
<1>5. nextConnId' \in Nat \ {0}
  BY <1>1, <1>2
<1> QED
  BY <1>1, <1>3, <1>4, <1>5, AbsentKeeps, UsersKeep

LEMMA EraseKeeps ==
    ASSUME TableInv, NEW f \in Fd, Erase(f), nextConnId' = nextConnId
    PROVE  \/ /\ users[f].conn = Null /\ TableSame
              /\ UNCHANGED <<heap, sock, interest, pending>>
           \/ TableDrops(f)
<1>1. /\ TypeOK /\ EntriesSet /\ TableOwns /\ sock \in [Fd -> Socket]
      /\ nextConnId \in Nat \ {0}
  BY DEF TableInv, TypeOK, IdsSet
<1>2. CASE /\ users[f].conn = Null /\ users' = [users EXCEPT ![f] = Absent]
           /\ UNCHANGED <<heap, userCount, sock, interest, pending>>
  BY <1>1, <1>2, AbsentKeeps, UsersKeep
<1> QED
  BY <1>1, <1>2, EraseDrops

LEMMA CloseConnEraseKeeps ==
    ASSUME TableInv, NEW t \in Thread, CloseConnErase(t)
    PROVE  \/ TableSame /\ UNCHANGED <<heap, sock, interest, pending>> /\ users[th[t].fd].conn = Null
           \/ TableDrops(th[t].fd)
<1>1. /\ TypeOK /\ LocalsSet /\ EntriesSet /\ users \in [Fd -> ConnInfo] /\ sock \in [Fd -> Socket]
      /\ nextConnId \in Nat \ {0}
  BY DEF TableInv, TypeOK, IdsSet
<1>2. PICK f \in Fd : f = th[t].fd
  BY <1>1, CloseConnEraseMoves
<1>3. CASE users[f].has /\ Erase(f)
  BY <1>2, <1>3, EraseKeeps DEF CloseConnErase
<1>4. CASE ~users[f].has /\ UNCHANGED <<users, heap, userCount, sock, interest, pending, nextConnId>>
  <2>1. EntriesSet'
    BY <1>1, <1>4 DEF EntriesSet
  <2>2. users[f].conn = Null
    BY <1>1, <1>4 DEF EntriesSet
  <2>3. TableSame
    BY <1>1, <1>4, <2>1, UsersKeep
  <2> QED
    BY <1>2, <1>4, <2>2, <2>3
<1> QED
  BY <1>2, <1>3, <1>4 DEF CloseConnErase

LEMMA AddClientFailKeeps ==
    ASSUME TableInv, AddClientFail
    PROVE  \/ TableSame /\ UNCHANGED <<heap, sock, interest, pending>> /\ users[th[Main].fd].conn = Null
           \/ TableDrops(th[Main].fd)
<1>1. TypeOK /\ LocalsSet
  BY DEF TableInv
<1>2. PICK f \in Fd : f = th[Main].fd
  BY <1>1, AddClientEnds
<1>3. Erase(f) /\ nextConnId' = nextConnId
  BY <1>2 DEF AddClientFail
<1> QED
  BY <1>2, <1>3, EraseKeeps

LEMMA TableEffect ==
    ASSUME TableInv, [Next]_vars
    PROVE  \/ TableSame
           \/ \E f \in Fd : TableDrops(f)
           \/ \E f \in Fd, c \in Ptr : AddClient(f, c)
<1>1. /\ TypeOK /\ LocalsSet /\ EntriesSet /\ users \in [Fd -> ConnInfo] /\ sock \in [Fd -> Socket]
      /\ nextConnId \in Nat \ {0}
  BY DEF TableInv, TypeOK, IdsSet
<1>2. CASE UNCHANGED <<users, heap, userCount, nextConnId, sock>>
  <2>1. EntriesSet'
    BY <1>1, <1>2 DEF EntriesSet
  <2> QED
    BY <1>1, <1>2, <2>1, UsersKeep
<1>3. ASSUME NEW f \in Fd, PeerSend(f) \/ \E how \in Hangup : PeerHangup(f, how)
      PROVE  TableSame
  BY <1>1, <1>3, PeerArrives, PeerKeeps
<1>4. ASSUME NEW t \in Thread, CloseConnErase(t) PROVE TableSame \/ \E f \in Fd : TableDrops(f)
  BY <1>1, <1>4, CloseConnEraseKeeps, CloseConnEraseMoves
<1>5. ASSUME AddClientFail PROVE TableSame \/ \E f \in Fd : TableDrops(f)
  BY <1>1, <1>5, AddClientFailKeeps, AddClientEnds
<1> QED
  BY <1>2, <1>3, <1>4, <1>5, TableStep, FireExtentTimerKeeps, AddClientDuplicateKeeps,
     HandleEventKeeps, ReadKeeps, ProcessWriteKeeps

-----------------------------------------------------------------------------
(* What a step does to registrations *)

LEMMA ReportsType == ASSUME NEW i, NEW s PROVE Reports(i, s) \in BOOLEAN
  BY DEF Reports

LEMMA KernelStep ==
    ASSUME [Next]_vars
    PROVE  \/ \E f \in Fd : \/ AddClientDuplicate(f) \/ PeerSend(f)
                            \/ \E how \in Hangup : PeerHangup(f, how)
           \/ \E e \in batch : HandleEvent(e)
           \/ Wait \/ AddClientRegister \/ AddClientFail
           \/ \E w \in Worker : ReadAgain(w) \/ Rearm(w)
           \/ \E t \in Thread : CloseConn(t) \/ CloseConnErase(t)
           \/ UNCHANGED <<interest, pending>>
<1>1. ASSUME NEW w \in Worker,
             \/ TakeTask(w) \/ OnRead(w) \/ OnProcess(w) \/ OnWrite(w) \/ Read(w) \/ Process(w)
             \/ Write(w) \/ WriteExtent(w) \/ WriteSchedule(w) \/ Written(w)
      PROVE  UNCHANGED <<interest, pending>>
  BY <1>1, ZenonT(60) DEF TakeTask, OnRead, OnProcess, OnWrite, Checked, Read, Process, Write,
     WriteExtent, WriteSchedule, Written, kernel
<1>2. ASSUME \/ \E f \in Fd : FireAddTimer(f) \/ FireExtentTimer(f)
             \/ \E f \in Fd, c \in Ptr : AddClient(f, c)
             \/ Connect \/ ExtentTimerIsClosed \/ HandleListen \/ Deal \/ DealExtent
             \/ AcceptEnd \/ AcceptFull \/ AddClientSchedule \/ UNCHANGED vars
      PROVE  UNCHANGED <<interest, pending>>
  BY <1>2 DEF FireAddTimer, FireExtentTimer, AddClient, Connect, ExtentTimerIsClosed,
     HandleListen, Deal, DealExtent, AcceptEnd, AcceptFull, AddClientSchedule, vars, kernel
<1> QED
  BY <1>1, <1>2, NextCases

LEMMA KernelType ==
    ASSUME TableInv, [Next]_vars
    PROVE  interest' \in [Fd -> Interest] /\ pending' \in [Fd -> BOOLEAN]
<1>0. /\ TypeOK /\ LocalsSet /\ EntriesSet /\ EventsSet
      /\ interest \in [Fd -> Interest] /\ pending \in [Fd -> BOOLEAN]
  BY DEF TableInv, TypeOK
<1> DEFINE Typed == interest' \in [Fd -> Interest] /\ pending' \in [Fd -> BOOLEAN]
<1>1. ASSUME NEW f \in Fd, DelFd(f) PROVE Typed
  BY <1>0, <1>1 DEF DelFd, Interest
<1>2. ASSUME NEW f \in Fd, NEW i \in Interest, SetInterest(f, i) PROVE Typed
  BY <1>0, <1>2, ReportsType DEF SetInterest
<1>3. CASE UNCHANGED <<interest, pending>>
  BY <1>0, <1>3
<1>4. ASSUME NEW f \in Fd, TableDrops(f) PROVE Typed
  BY <1>1, <1>4 DEF TableDrops, CloseFd
<1>5. ASSUME NEW f \in Fd, NEW s, Arrive(f, s) PROVE Typed
  <2>1. interest' = interest /\ pending' = [pending EXCEPT ![f] = pending[f] \/ Reports(interest[f], s)]
    BY <1>0, <1>5 DEF Arrive
  <2>2. (pending[f] \/ Reports(interest[f], s)) \in BOOLEAN
    OBVIOUS
  <2> QED
    BY <1>0, <2>1, <2>2
<1>6. ASSUME NEW f \in Fd, PeerSend(f) \/ \E how \in Hangup : PeerHangup(f, how) PROVE Typed
  BY <1>0, <1>5, <1>6, PeerArrives
<1>7. ASSUME NEW e \in batch, HandleEvent(e) PROVE Typed
  <2>1. e.fd \in Fd
    BY <1>0, <1>7, HandleEventMoves
  <2>2. UNCHANGED <<interest, pending>> \/ DelFd(e.fd)
    BY <1>7 DEF HandleEvent, CloseFd
  <2> QED
    BY <1>1, <1>3, <2>1, <2>2
<1>8. CASE Wait
  BY <1>0, <1>8 DEF Wait, Interest
<1>9. CASE AddClientRegister
  BY <1>0, <1>2, <1>9, AddClientEnds DEF AddClientRegister, Interest
<1>10. CASE AddClientFail
  BY <1>0, <1>3, <1>4, <1>10, AddClientFailKeeps, AddClientEnds
<1>11. ASSUME NEW w \in Worker, ReadAgain(w) PROVE Typed
  <2>1. th[w].fd \in Fd
    BY <1>0, <1>11, MainThread DEF ReadAgain, At, LocalsSet, LocalsOK, HasFd, CheckedPc
  <2> QED
    BY <1>2, <1>3, <1>11, <2>1 DEF ReadAgain, Interest
<1>12. ASSUME NEW w \in Worker, Rearm(w) PROVE Typed
  <2>1. th[w].fd \in Fd
    BY <1>0, <1>12, RearmMoves
  <2>2. \/ UNCHANGED <<interest, pending>>
        \/ \E i \in {"inOnce", "outOnce"} : SetInterest(th[w].fd, i)
    BY <1>12 DEF Rearm
  <2> QED
    BY <1>2, <1>3, <2>1, <2>2 DEF Interest
<1>13. ASSUME NEW t \in Thread, CloseConn(t) PROVE Typed
  BY <1>0, <1>1, <1>3, <1>13, CloseConnMoves
<1>14. ASSUME NEW t \in Thread, CloseConnErase(t) PROVE Typed
  BY <1>0, <1>3, <1>4, <1>14, CloseConnEraseKeeps, CloseConnEraseMoves
<1> QED
  BY <1>3, <1>6, <1>7, <1>8, <1>9, <1>10, <1>11, <1>12, <1>13, <1>14, KernelStep,
     AddClientDuplicateKeeps

-----------------------------------------------------------------------------
(* The first part of the invariant *)

LEMMA ThreadStep ==
    ASSUME TableInv, [Next]_vars
    PROVE  th' = th \/ \E t \in Thread : Moves(t)
<1>0. TypeOK /\ LocalsSet /\ EntriesSet /\ EventsSet
  BY DEF TableInv
<1>1. ASSUME NEW w \in Worker,
             \/ TakeTask(w) \/ OnRead(w) \/ OnProcess(w) \/ OnWrite(w)
             \/ Read(w) \/ ReadAgain(w) \/ Process(w) \/ Rearm(w) \/ Write(w)
             \/ WriteExtent(w) \/ WriteSchedule(w) \/ Written(w)
      PROVE  Moves(w)
  <2>1. ASSUME OnRead(w) \/ OnProcess(w) \/ OnWrite(w) PROVE Moves(w)
    BY <1>0, <2>1, CheckedMoves DEF OnRead, OnProcess, OnWrite
  <2> QED
    BY <1>0, <1>1, <2>1, TakeTaskMoves, CarryingSteps, RearmMoves DEF Carries
<1>2. ASSUME \/ \E f \in Fd : AddClientDuplicate(f) \/ PeerSend(f) \/ \E how \in Hangup : PeerHangup(f, how)
             \/ Connect \/ Wait \/ AcceptFull \/ UNCHANGED vars
      PROVE  th' = th
  BY <1>2 DEF AddClientDuplicate, PeerSend, PeerHangup, Arrive, Connect, Wait, AcceptFull, vars
<1>3. Worker \subseteq Thread /\ Main \in Thread
  BY MainThread
<1> QED
  BY <1>0, <1>1, <1>2, <1>3, NextCases, FireAddTimerMoves, FireExtentTimerMoves,
     AddClientMoves, HandleEventMoves, ExtentTimerIsClosedMoves, HandleListenMoves, DealMoves,
     DealExtentMoves, AcceptEndMoves, AddClientScheduleMoves, AddClientEnds, CloseConnMoves,
     CloseConnEraseMoves

LEMMA LocalsKept ==
    ASSUME TableInv, [Next]_vars
    PROVE  th' \in [Thread -> Locals] /\ LocalsSet'
<1>1. CASE th' = th
  BY <1>1 DEF TableInv, TypeOK, LocalsSet, LocalsOK
<1>2. ASSUME NEW t \in Thread, Moves(t) PROVE th' \in [Thread -> Locals] /\ LocalsSet'
  <2>1. ASSUME NEW u \in Thread, u # t PROVE LocalsOK(u)'
    BY <1>2, <2>1 DEF Moves, TableInv, LocalsSet, LocalsOK
  <2> QED
    BY <1>2, <2>1 DEF Moves, LocalsSet
<1> QED
  BY <1>1, <1>2, ThreadStep

LEMMA TableInvStep == ASSUME TableInv, [Next]_vars PROVE TableInv'
<1>1. TypeOK /\ LocalsSet /\ EventsSet /\ EntriesSet /\ IdsSet /\ TableOwns /\ UserCountExact /\ NothingLeaks
  BY DEF TableInv
<1>2. /\ users' \in [Fd -> ConnInfo] /\ heap' \in [Ptr -> Conn] /\ sock' \in [Fd -> Socket]
      /\ userCount' \in Nat /\ nextConnId' \in Nat
      /\ EntriesSet' /\ IdsSet' /\ TableOwns' /\ UserCountExact' /\ NothingLeaks'
  <2>1. CASE TableSame
    <3>1. IdsSet' /\ TableOwns' /\ UserCountExact' /\ NothingLeaks'
      BY <1>1, <2>1, SameKeeps
    <3>2. userCount \in Nat
      BY <1>1 DEF TypeOK
    <3> QED
      BY <2>1, <3>1, <3>2 DEF TableSame
  <2> QED
    BY <1>1, <2>1, TableEffect, DropKeeps, AddKeeps
<1>3. TypeOK'
  BY <1>1, <1>2, CountersType, TimersType, QueueType, BatchType, KernelType, LocalsKept DEF TypeOK
<1> QED
  BY <1>1, <1>2, <1>3, BatchType, LocalsKept DEF TableInv

-----------------------------------------------------------------------------
(* The second part of the invariant: nobody is forgotten *)

(* The connection of g stays, and stays watched, when only thread t moves    *)
(* and what was to care for g still does.                                    *)
LEMMA WatchFrame ==
    ASSUME NEW g \in Fd, NEW t \in Thread, Watched(g),
           users'[g].conn = users[g].conn,
           \A u \in Thread : u # t => th'[u] = th[u],
           Cares(t, g) => CaredFor(g)',
           Ending(t, g) => Ending(t, g)',
           (\E e \in batch : e.fd = g) => CaredFor(g)',
           (\E i \in 1..Len(queue) : queue[i].conn = users[g].conn) => CaredFor(g)',
           interest'[g] = "none" => interest[g] = "none",
           Armed(g) => Armed(g)'
    PROVE  Watched(g)'
<1> SUFFICES ASSUME users'[g].conn # Null
             PROVE  /\ interest'[g] = "none" => \E u \in Thread : Ending(u, g)'
                    /\ ~CaredFor(g)' => Armed(g)'
  BY DEF Watched
<1>1. ASSUME NEW u \in Thread, u # t PROVE Ending(u, g) <=> Ending(u, g)'
  BY <1>1 DEF Ending, BeingAdded, BeingErased
<1>2. ASSUME NEW u \in Thread, u # t, Cares(u, g) PROVE Cares(u, g)'
  BY <1>1, <1>2 DEF Cares
<1>3. interest'[g] = "none" => \E u \in Thread : Ending(u, g)'
  BY <1>1 DEF Watched
<1>4. CaredFor(g) => CaredFor(g)'
  <2>1. ASSUME NEW u \in Thread, Cares(u, g) PROVE CaredFor(g)'
    <3>1. CASE u = t
      BY <2>1, <3>1
    <3>2. CASE u # t
      BY <1>2, <2>1, <3>2 DEF CaredFor
    <3> QED
      BY <3>1, <3>2
  <2> QED
    BY <2>1 DEF CaredFor
<1> QED
  BY <1>3, <1>4 DEF Watched

(* A registration that does not change stays armed while its socket gets no  *)
(* more to report.                                                           *)
LEMMA ArmedKept ==
    ASSUME TypeOK, NEW g \in Fd, interest'[g] = interest[g], pending'[g] = pending[g],
           \/ sock'[g] = sock[g]
           \/ /\ sock'[g].peer = sock[g].peer
              /\ sock'[g].unread <= sock[g].unread /\ sock'[g].unread \in Nat
    PROVE  Armed(g) => Armed(g)'
<1>1. CASE sock'[g] = sock[g]
  BY <1>1 DEF Armed, Ready
<1>2. CASE /\ sock'[g].peer = sock[g].peer
           /\ sock'[g].unread <= sock[g].unread /\ sock'[g].unread \in Nat
  <2>1. sock[g].unread \in Nat
    BY DEF TypeOK, Socket
  <2>2. Readable(sock'[g]) => Readable(sock[g])
    BY <1>2, <2>1 DEF Readable
  <2>3. ASSUME NEW i PROVE Reports(i, sock'[g]) => Reports(i, sock[g])
    BY <1>2, <2>2 DEF Reports
  <2>4. interest[g] = "inLevel" => Reports("inLevel", sock'[g]) = Reports(interest[g], sock'[g])
    OBVIOUS
  <2> QED
    BY <2>3, <2>4, Zenon DEF Armed, Ready
<1> QED
  BY <1>1, <1>2

LEMMA SetInterestArms ==
    ASSUME TypeOK, NEW f \in Fd, NEW i, i \notin {"none", "off"}, SetInterest(f, i), sock' = sock
    PROVE  /\ Armed(f)' /\ interest'[f] # "none"
           /\ \A g \in Fd : g # f => interest'[g] = interest[g] /\ pending'[g] = pending[g]
<1>1. /\ interest'[f] = i /\ pending'[f] = Reports(i, sock[f])
      /\ \A g \in Fd : g # f => interest'[g] = interest[g] /\ pending'[g] = pending[g]
  BY DEF SetInterest, TypeOK
<1> QED
  BY <1>1 DEF Armed, Ready

LEMMA FreeCares ==
    ASSUME NEW t \in Thread, NEW g \in Fd, th[t].pc \in {"loop", "accept", "isClosed", "idle"}
    PROVE  ~Cares(t, g) /\ ~Ending(t, g)
  BY DEF Cares, Ending, BeingAdded, BeingErased, Unchecked, CheckedPc

LEMMA CarryCares ==
    ASSUME NEW t \in Thread, NEW g \in Fd, Carries(t), users'[g].conn = users[g].conn
    PROVE  (Cares(t, g) => CaredFor(g)') /\ ~Ending(t, g)
<1>1. ~Ending(t, g)
  BY DEF Ending, BeingAdded, BeingErased, Carries, CheckedPc
<1>2. Cares(t, g) => Cares(t, g)'
  <2>1. th[t].pc \notin Unchecked
    BY DEF Carries, CheckedPc, Unchecked
  <2>2. th'[t].pc \in CheckedPc \cup Unchecked
    BY DEF Carries, Unchecked
  <2> QED
    BY <1>1, <2>1, <2>2 DEF Cares, Carries, Stays
<1> QED
  BY <1>1, <1>2 DEF CaredFor

LEMMA SameCares ==
    ASSUME NEW t \in Thread, NEW g \in Fd, th'[t] = th[t], users'[g].conn = users[g].conn
    PROVE  (Cares(t, g) => CaredFor(g)') /\ (Ending(t, g) => Ending(t, g)')
  BY DEF Cares, Ending, BeingAdded, BeingErased, CaredFor

(* Steps that touch neither registrations nor events nor tasks. *)
LEMMA QuietFrame ==
    ASSUME TypeOK, NEW g \in Fd, NEW t \in Thread, Watched(g),
           users'[g].conn = users[g].conn,
           \A u \in Thread : u # t => th'[u] = th[u],
           Cares(t, g) => CaredFor(g)',
           Ending(t, g) => Ending(t, g)',
           batch' = batch, queue' = queue,
           interest'[g] = interest[g], pending'[g] = pending[g],
           \/ sock'[g] = sock[g]
           \/ /\ sock'[g].peer = sock[g].peer
              /\ sock'[g].unread <= sock[g].unread /\ sock'[g].unread \in Nat
    PROVE  Watched(g)'
<1>1. Armed(g) => Armed(g)'
  BY ArmedKept
<1>2. (\E e \in batch : e.fd = g) => CaredFor(g)'
  BY DEF CaredFor
<1>3. (\E i \in 1..Len(queue) : queue[i].conn = users[g].conn) => CaredFor(g)'
  BY DEF CaredFor
<1> QED
  BY <1>1, <1>2, <1>3, WatchFrame

LEMMA FreeWatch ==
    ASSUME TableInv, NEW g \in Fd, Watched(g),
           \/ \E f \in Fd : FireAddTimer(f) \/ FireExtentTimer(f) \/ AddClientDuplicate(f)
           \/ ExtentTimerIsClosed \/ AcceptEnd \/ AcceptFull \/ Connect \/ UNCHANGED vars
    PROVE  Watched(g)'
<1>0. TypeOK /\ LocalsSet /\ EntriesSet /\ Main \in Thread
  BY MainThread DEF TableInv
<1>1. batch' = batch /\ queue' = queue
  BY DEF FireAddTimer, FireExtentTimer, AddClientDuplicate, ExtentTimerIsClosed, AcceptEnd,
     AcceptFull, Connect, vars, run
<1>2. UNCHANGED <<sock, interest, pending>>
  BY AddClientDuplicateKeeps DEF FireAddTimer, FireExtentTimer, ExtentTimerIsClosed, AcceptEnd,
     AcceptFull, Connect, vars, kernel
<1>3. users'[g].conn = users[g].conn
  <2>1. ASSUME NEW f \in Fd, FireExtentTimer(f) \/ AddClientDuplicate(f) PROVE users'[g].conn = users[g].conn
    BY <2>1, FireExtentTimerKeeps, AddClientDuplicateKeeps DEF TableSame
  <2> QED
    BY <2>1 DEF FireAddTimer, ExtentTimerIsClosed, AcceptEnd, AcceptFull, Connect, vars, table
<1>4. CASE th' = th
  BY <1>0, <1>1, <1>2, <1>3, <1>4, SameCares, QuietFrame
<1>5. CASE Moves(Main) /\ th[Main].pc \in {"loop", "accept", "isClosed", "idle"}
  <2>1. \A u \in Thread : u # Main => th'[u] = th[u]
    BY <1>5 DEF Moves
  <2> QED
    BY <1>0, <1>1, <1>2, <1>3, <1>5, <2>1, FreeCares, QuietFrame
<1>6. ASSUME AcceptFull \/ Connect \/ UNCHANGED vars \/ \E f \in Fd : AddClientDuplicate(f) PROVE th' = th
  BY <1>6 DEF AcceptFull, Connect, vars, AddClientDuplicate
<1> QED
  BY <1>0, <1>4, <1>5, <1>6, FireAddTimerMoves, FireExtentTimerMoves, ExtentTimerIsClosedMoves,
     AcceptEndMoves

LEMMA CarryWatch ==
    ASSUME TableInv, NEW g \in Fd, Watched(g), NEW w \in Worker,
           Process(w) \/ Read(w) \/ Write(w) \/ WriteExtent(w) \/ WriteSchedule(w) \/ Written(w)
    PROVE  Watched(g)'
<1>0. TypeOK /\ LocalsSet /\ w \in Thread
  BY MainThread DEF TableInv
<1>1. batch' = batch /\ queue' = queue /\ interest' = interest /\ pending' = pending
  BY ZenonT(60) DEF Process, Read, Write, WriteExtent, WriteSchedule, Written, run, kernel
<1>2. users' = users
  BY DEF Process, Read, Write, WriteExtent, WriteSchedule, Written, table
<1>3. \/ sock'[g] = sock[g]
      \/ /\ sock'[g].peer = sock[g].peer
         /\ sock'[g].unread <= sock[g].unread /\ sock'[g].unread \in Nat
  <2>1. CASE Read(w)
    <3>1. /\ sock' \in [Fd -> Socket]
          /\ sock'[g].peer = sock[g].peer /\ sock'[g].unread <= sock[g].unread
      BY <2>1, ReadKeeps DEF TableSame
    <3>2. sock'[g].unread \in Nat
      BY <3>1 DEF Socket
    <3> QED
      BY <3>1, <3>2
  <2>2. CASE ~Read(w)
    BY <2>2 DEF Process, Write, WriteExtent, WriteSchedule, Written, kernel
  <2> QED
    BY <2>1, <2>2
<1>4. Carries(w)
  BY <1>0, CarryingSteps
<1>5. \A u \in Thread : u # w => th'[u] = th[u]
  BY <1>4 DEF Carries, Moves
<1>6. (Cares(w, g) => CaredFor(g)') /\ ~Ending(w, g)
  BY <1>0, <1>2, <1>4, CarryCares
<1> QED
  BY <1>0, <1>1, <1>2, <1>3, <1>5, <1>6, QuietFrame

(* A Conn in the table is alive and passes the checks of onRead, onWrite,    *)
(* onProcess, dealRead and dealWrite.                                        *)
LEMMA TablePasses ==
    ASSUME TableInv, NEW g \in Fd, NEW c, c = users[g].conn, c # Null
    PROVE  c \in Ptr /\ heap[c].fd = g /\ FdRead(c) = {g} /\ HasEntry(g) /\ CheckFdAndMatchId(c)
<1>1. c \in Ptr
  BY DEF TableInv, TypeOK, ConnInfo
<1>2. /\ heap[c].live /\ ~heap[c].isClose /\ heap[c].fd = g /\ heap[c].connId = users[g].connId
      /\ heap[c].connId # 0
  BY <1>1 DEF TableInv, TableOwns, IdsSet
<1>3. users[g].has /\ g # BadFd
  BY FdAssumption DEF TableInv, EntriesSet, BadFd
<1> QED
  BY <1>1, <1>2, <1>3 DEF FdRead, HasEntry, CheckFdAndMatchId

LEMMA CheckedWatch ==
    ASSUME TableInv, NEW g \in Fd, Watched(g), NEW w \in Worker, OnRead(w) \/ OnProcess(w) \/ OnWrite(w)
    PROVE  Watched(g)'
<1>0. TypeOK /\ LocalsSet /\ w \in Thread
  BY MainThread DEF TableInv
<1>1. PICK from \in {"onRead", "onWrite", "onProcess"}, to \in {"read", "write", "process"} : Checked(w, from, to)
  BY DEF OnRead, OnProcess, OnWrite
<1>2. batch' = batch /\ queue' = queue /\ interest' = interest /\ pending' = pending /\ users' = users /\ sock' = sock
  BY <1>1 DEF Checked, run, kernel, table
<1>3. /\ Moves(w) /\ th[w].pc = from
      /\ \/ th'[w].pc = to /\ th'[w].conn = th[w].conn /\ th'[w].fd = heap[th[w].conn].fd
         \/ ~CheckFdAndMatchId(th[w].conn)
  BY <1>0, <1>1, CheckedMoves
<1>4. ~Ending(w, g)
  BY <1>3 DEF Ending, BeingAdded, BeingErased
<1>5. CASE users[g].conn = Null
  BY <1>2, <1>5 DEF Watched
<1>6. CASE users[g].conn # Null
  <2>1. ASSUME Cares(w, g) PROVE Cares(w, g)'
    <3>1. th[w].conn = users[g].conn
      BY <1>4, <2>1 DEF Cares
    <3>2. heap[th[w].conn].fd = g /\ CheckFdAndMatchId(th[w].conn)
      BY <1>6, <3>1, TablePasses
    <3>3. th'[w].pc = to /\ th'[w].conn = users'[g].conn /\ th'[w].fd = g
      BY <1>2, <1>3, <3>1, <3>2
    <3> QED
      BY <3>3 DEF Cares, CheckedPc
  <2>2. Cares(w, g) => CaredFor(g)'
    BY <1>0, <2>1 DEF CaredFor
  <2>3. \A u \in Thread : u # w => th'[u] = th[u]
    BY <1>3 DEF Moves
  <2> QED
    BY <1>0, <1>2, <1>4, <2>2, <2>3, QuietFrame
<1> QED
  BY <1>5, <1>6

LEMMA DealWatch ==
    ASSUME TableInv, NEW g \in Fd, Watched(g), Deal
    PROVE  Watched(g)'
<1>0. TypeOK /\ LocalsSet /\ Main \in Thread
  BY MainThread DEF TableInv
<1>2. batch' = batch /\ queue' = queue /\ interest' = interest /\ pending' = pending /\ users' = users /\ sock' = sock
  BY DEF Deal, run, kernel, table
<1>3. /\ Moves(Main) /\ th[Main].pc = "deal"
      /\ \/ Stays(Main) /\ th'[Main].pc = "extent"
         \/ \E f \in FdRead(th[Main].conn) : ~HasEntry(f)
  BY <1>0, DealMoves
<1>4. ~Ending(Main, g)
  BY <1>3 DEF Ending, BeingAdded, BeingErased
<1>5. CASE users[g].conn = Null
  BY <1>2, <1>5 DEF Watched
<1>6. CASE users[g].conn # Null
  <2>1. ASSUME Cares(Main, g) PROVE Cares(Main, g)'
    <3>1. th[Main].conn = users[g].conn
      BY <1>4, <2>1 DEF Cares
    <3>2. FdRead(th[Main].conn) = {g} /\ HasEntry(g)
      BY <1>6, <3>1, TablePasses
    <3>3. th'[Main].pc = "extent" /\ th'[Main].conn = users'[g].conn
      BY <1>2, <1>3, <3>1, <3>2 DEF Stays
    <3> QED
      BY <3>3 DEF Cares, Unchecked
  <2>2. Cares(Main, g) => CaredFor(g)'
    BY <1>0, <2>1 DEF CaredFor
  <2>3. \A u \in Thread : u # Main => th'[u] = th[u]
    BY <1>3 DEF Moves
  <2> QED
    BY <1>0, <1>2, <1>4, <2>2, <2>3, QuietFrame
<1> QED
  BY <1>5, <1>6

LEMMA DealExtentWatch ==
    ASSUME TableInv, NEW g \in Fd, Watched(g), DealExtent
    PROVE  Watched(g)'
<1>0. TypeOK /\ LocalsSet /\ Main \in Thread /\ queue \in Seq(Task)
  BY MainThread DEF TableInv, TypeOK
<1>1. batch' = batch /\ interest' = interest /\ pending' = pending /\ users' = users /\ sock' = sock
  BY DEF DealExtent, run, kernel, table
<1>2. /\ Moves(Main) /\ th[Main].pc = "extent"
      /\ [op |-> th[Main].arg, conn |-> th[Main].conn] \in Task
  BY <1>0, DealExtentMoves DEF Task
<1>3. PICK task \in Task : task.conn = th[Main].conn /\ queue' = Append(queue, task)
  BY <1>2 DEF DealExtent
<1>4. /\ Len(queue') = Len(queue) + 1 /\ Len(queue) \in Nat
      /\ queue'[Len(queue) + 1] = task
      /\ \A i \in 1..Len(queue) : queue'[i] = queue[i]
  BY <1>0, <1>3, AppendProperties, LenProperties
<1>5. ~Ending(Main, g)
  BY <1>2 DEF Ending, BeingAdded, BeingErased
<1>6. ASSUME Cares(Main, g) PROVE CaredFor(g)'
  <2>1. th[Main].conn = users[g].conn
    BY <1>5, <1>6 DEF Cares
  <2>2. Len(queue) + 1 \in 1..Len(queue') /\ queue'[Len(queue) + 1].conn = users'[g].conn
    BY <1>1, <1>3, <1>4, <2>1
  <2> QED
    BY <2>2 DEF CaredFor
<1>7. ASSUME NEW i \in 1..Len(queue), queue[i].conn = users[g].conn PROVE CaredFor(g)'
  <2>1. i \in 1..Len(queue') /\ queue'[i].conn = users'[g].conn
    BY <1>1, <1>4, <1>7
  <2> QED
    BY <2>1 DEF CaredFor
<1>8. (\E e \in batch : e.fd = g) => CaredFor(g)'
  BY <1>1 DEF CaredFor
<1>9. \A u \in Thread : u # Main => th'[u] = th[u]
  BY <1>2 DEF Moves
<1>10. Armed(g) => Armed(g)'
  BY <1>0, <1>1, ArmedKept
<1> QED
  BY <1>0, <1>1, <1>5, <1>6, <1>7, <1>8, <1>9, <1>10, WatchFrame

LEMMA TakeTaskWatch ==
    ASSUME TableInv, NEW g \in Fd, Watched(g), NEW w \in Worker, TakeTask(w)
    PROVE  Watched(g)'
<1>0. TypeOK /\ LocalsSet /\ w \in Thread /\ queue \in Seq(Task)
  BY MainThread DEF TableInv, TypeOK
<1>1. batch' = batch /\ interest' = interest /\ pending' = pending /\ users' = users /\ sock' = sock
  BY DEF TakeTask, run, kernel, table
<1>2. /\ Moves(w) /\ th[w].pc = "idle" /\ th'[w].pc \in {"onRead", "onWrite"}
      /\ th'[w].conn = Head(queue).conn
  BY <1>0, TakeTaskMoves
<1>3. ~Cares(w, g) /\ ~Ending(w, g)
  BY <1>0, <1>2, FreeCares
<1>4. /\ Head(queue) = queue[1] /\ Len(queue) \in Nat /\ Len(queue') = Len(queue) - 1
      /\ \A j \in 1..Len(queue') : queue'[j] = queue[j + 1]
  BY <1>0, HeadTailProperties, LenProperties DEF TakeTask
<1>7. ASSUME NEW i \in 1..Len(queue), queue[i].conn = users[g].conn PROVE CaredFor(g)'
  <2>1. CASE i = 1
    <3>1. Cares(w, g)'
      BY <1>1, <1>2, <1>4, <1>7, <2>1 DEF Cares, Unchecked
    <3> QED
      BY <1>0, <3>1 DEF CaredFor
  <2>2. CASE i # 1
    <3>1. i - 1 \in 1..Len(queue') /\ queue'[i - 1] = queue[i]
      BY <1>4, <2>2
    <3> QED
      BY <1>1, <1>7, <3>1 DEF CaredFor
  <2> QED
    BY <2>1, <2>2
<1>8. (\E e \in batch : e.fd = g) => CaredFor(g)'
  BY <1>1 DEF CaredFor
<1>9. \A u \in Thread : u # w => th'[u] = th[u]
  BY <1>2 DEF Moves
<1>10. Armed(g) => Armed(g)'
  BY <1>0, <1>1, ArmedKept
<1> QED
  BY <1>0, <1>1, <1>3, <1>7, <1>8, <1>9, <1>10, WatchFrame

LEMMA PeerWatch ==
    ASSUME TableInv, NEW g \in Fd, Watched(g), NEW f \in Fd,
           PeerSend(f) \/ \E how \in Hangup : PeerHangup(f, how)
    PROVE  Watched(g)'
<1>0. TypeOK /\ Main \in Thread /\ pending \in [Fd -> BOOLEAN] /\ sock \in [Fd -> Socket]
  BY MainThread DEF TableInv, TypeOK
<1>1. PICK s \in Socket : Arrive(f, s)
  BY <1>0, PeerArrives
<1>2. batch' = batch /\ queue' = queue /\ th' = th /\ users' = users /\ interest' = interest
  BY <1>1 DEF Arrive, run, table
<1>3. (Cares(Main, g) => CaredFor(g)') /\ (Ending(Main, g) => Ending(Main, g)')
  BY <1>0, <1>2, SameCares
<1>4. CASE g # f
  <2>1. sock'[g] = sock[g] /\ pending'[g] = pending[g]
    BY <1>0, <1>1, <1>4 DEF Arrive
  <2> QED
    BY <1>0, <1>2, <1>3, <2>1, QuietFrame
<1>5. CASE g = f
  <2>1. sock'[g] = s /\ (Reports(interest[g], s) => pending'[g])
    BY <1>0, <1>1, <1>5 DEF Arrive
  <2>2. Armed(g) => Armed(g)'
    BY <1>2, <2>1 DEF Armed, Ready
  <2>3. (\E e \in batch : e.fd = g) => CaredFor(g)'
    BY <1>2 DEF CaredFor
  <2>4. (\E i \in 1..Len(queue) : queue[i].conn = users[g].conn) => CaredFor(g)'
    BY <1>2 DEF CaredFor
  <2> QED
    BY <1>0, <1>2, <1>3, <2>2, <2>3, <2>4, WatchFrame
<1> QED
  BY <1>4, <1>5

(* Every descriptor on the ready list is in the batch; the others have       *)
(* nothing to report.                                                        *)
LEMMA WaitWatch ==
    ASSUME TableInv, NEW g \in Fd, Watched(g), Wait
    PROVE  Watched(g)'
<1>0. TypeOK /\ Main \in Thread
  BY MainThread DEF TableInv
<1>1. queue' = queue /\ th' = th /\ users' = users /\ sock' = sock /\ batch = {}
  BY DEF Wait, InLoop, table
<1>2. /\ interest'[g] = IF Ready(g) /\ interest[g] \in Once THEN "off" ELSE interest[g]
      /\ Ready(g) => [fd |-> g, ev |-> EventOf(interest[g], sock[g])] \in batch'
  BY DEF Wait
<1>3. Ready(g) => CaredFor(g)'
  <2>1. ASSUME Ready(g) PROVE \E e \in batch' : e.fd = g
    BY <1>2, <2>1
  <2> QED
    BY <2>1 DEF CaredFor
<1>4. ~Ready(g) /\ Armed(g) => Armed(g)'
  BY <1>1, <1>2 DEF Armed
<1>5. CaredFor(g) => CaredFor(g)'
  BY <1>1 DEF CaredFor, Cares, Ending, BeingAdded, BeingErased
<1>6. (\E t \in Thread : Ending(t, g)) => (\E t \in Thread : Ending(t, g)')
  BY <1>1 DEF Ending, BeingAdded, BeingErased
<1>7. interest'[g] = "none" => interest[g] = "none"
  BY <1>2
<1> QED
  BY <1>1, <1>3, <1>4, <1>5, <1>6, <1>7 DEF Watched

LEMMA HandleListenWatch ==
    ASSUME TableInv, NEW g \in Fd, Watched(g), HandleListen
    PROVE  Watched(g)'
<1>0. TypeOK /\ LocalsSet /\ EventsSet /\ Main \in Thread
  BY MainThread DEF TableInv
<1>1. queue' = queue /\ users' = users /\ sock' = sock /\ interest' = interest /\ pending' = pending
  BY DEF HandleListen, kernel, table
<1>2. Moves(Main) /\ ~Cares(Main, g) /\ ~Ending(Main, g)
  BY <1>0, HandleListenMoves, FreeCares
<1>3. PICK x \in batch : x.ev = "listen" /\ batch' = batch \ {x}
  BY DEF HandleListen
<1>4. (\E e \in batch : e.fd = g) => CaredFor(g)'
  BY <1>0, <1>3 DEF CaredFor, EventsSet
<1>5. (\E i \in 1..Len(queue) : queue[i].conn = users[g].conn) => CaredFor(g)'
  BY <1>1 DEF CaredFor
<1>6. Armed(g) => Armed(g)'
  BY <1>0, <1>1, ArmedKept
<1>7. \A u \in Thread : u # Main => th'[u] = th[u]
  BY <1>2 DEF Moves
<1> QED
  BY <1>0, <1>1, <1>2, <1>4, <1>5, <1>6, <1>7, WatchFrame

LEMMA HandleEventWatch ==
    ASSUME TableInv, NEW g \in Fd, Watched(g), NEW x \in batch, HandleEvent(x)
    PROVE  Watched(g)'
<1>0. TypeOK /\ LocalsSet /\ EntriesSet /\ EventsSet /\ Main \in Thread
  BY MainThread DEF TableInv
<1>1. queue' = queue /\ batch' = batch \ {x}
  BY DEF HandleEvent
<1>2. /\ Moves(Main) /\ th[Main].pc = "loop" /\ x.fd \in Fd
      /\ users[x.fd].conn # Null => /\ th'[Main].conn = users[x.fd].conn
                                    /\ th'[Main].pc \in {"close", "deal"}
  BY <1>0, HandleEventMoves
<1>3. /\ users'[g].conn = users[g].conn
      /\ users[g].conn # Null =>
           sock'[g] = sock[g] /\ interest'[g] = interest[g] /\ pending'[g] = pending[g]
  BY HandleEventKeeps DEF TableSame
<1>4. CASE users[g].conn = Null
  BY <1>3, <1>4 DEF Watched
<1>5. CASE users[g].conn # Null
  <2>1. ~Cares(Main, g) /\ ~Ending(Main, g)
    BY <1>0, <1>2, FreeCares
  <2>2. (\E e \in batch : e.fd = g) => CaredFor(g)'
    <3>1. ASSUME x.fd = g PROVE CaredFor(g)'
      <4>1. Cares(Main, g)'
        BY <1>2, <1>3, <1>5, <3>1 DEF Cares, Unchecked
      <4> QED
        BY <1>0, <4>1 DEF CaredFor
    <3>2. ASSUME NEW e \in batch, e.fd = g, e # x PROVE CaredFor(g)'
      BY <1>1, <3>2 DEF CaredFor
    <3> QED
      BY <3>1, <3>2
  <2>3. (\E i \in 1..Len(queue) : queue[i].conn = users[g].conn) => CaredFor(g)'
    BY <1>1, <1>3 DEF CaredFor
  <2>4. Armed(g) => Armed(g)'
    BY <1>0, <1>3, <1>5, ArmedKept
  <2>5. \A u \in Thread : u # Main => th'[u] = th[u]
    BY <1>2 DEF Moves
  <2> QED
    BY <1>0, <1>3, <1>5, <2>1, <2>2, <2>3, <2>4, <2>5, WatchFrame
<1> QED
  BY <1>4, <1>5

LEMMA AddClientWatch ==
    ASSUME TableInv, NEW g \in Fd, Watched(g), NEW f \in Fd, NEW c \in Ptr, AddClient(f, c)
    PROVE  Watched(g)'
<1>0. TypeOK /\ LocalsSet /\ Main \in Thread
  BY MainThread DEF TableInv
<1>1. batch' = batch /\ queue' = queue /\ interest' = interest /\ pending' = pending
  BY DEF AddClient
<1>2. /\ Moves(Main) /\ th[Main].pc = "accept" /\ th'[Main].pc = "sched" /\ th'[Main].fd = f
  BY <1>0, AddClientMoves
<1>3. CASE g = f
  <2>1. Ending(Main, g)' /\ Cares(Main, g)'
    BY <1>2, <1>3 DEF Cares, Ending, BeingAdded
  <2> QED
    BY <1>0, <2>1 DEF Watched, CaredFor
<1>4. CASE g # f
  <2>1. users'[g] = users[g] /\ sock'[g] = sock[g]
    BY <1>4, AddKeeps DEF TableInv
  <2>2. ~Cares(Main, g) /\ ~Ending(Main, g)
    BY <1>0, <1>2, FreeCares
  <2>3. \A u \in Thread : u # Main => th'[u] = th[u]
    BY <1>2 DEF Moves
  <2> QED
    BY <1>0, <1>1, <2>1, <2>2, <2>3, QuietFrame
<1> QED
  BY <1>3, <1>4

LEMMA AddClientScheduleWatch ==
    ASSUME TableInv, NEW g \in Fd, Watched(g), AddClientSchedule
    PROVE  Watched(g)'
<1>0. TypeOK /\ LocalsSet /\ Main \in Thread
  BY MainThread DEF TableInv
<1>1. batch' = batch /\ queue' = queue /\ interest' = interest /\ pending' = pending /\ users' = users /\ sock' = sock
  BY DEF AddClientSchedule, run, kernel, table
<1>2. /\ Moves(Main) /\ Stays(Main) /\ th[Main].pc = "sched" /\ th'[Main].pc = "register"
  BY <1>0, AddClientScheduleMoves
<1>3. Ending(Main, g) => Ending(Main, g)'
  BY <1>2 DEF Ending, BeingAdded, BeingErased, Stays
<1>4. Cares(Main, g) => Ending(Main, g)
  BY <1>2 DEF Cares, Unchecked, CheckedPc
<1>5. Cares(Main, g) => CaredFor(g)'
  BY <1>0, <1>3, <1>4 DEF CaredFor, Cares
<1>6. \A u \in Thread : u # Main => th'[u] = th[u]
  BY <1>2 DEF Moves
<1> QED
  BY <1>0, <1>1, <1>3, <1>5, <1>6, QuietFrame

LEMMA AddClientRegisterWatch ==
    ASSUME TableInv, NEW g \in Fd, Watched(g), AddClientRegister
    PROVE  Watched(g)'
<1>0. TypeOK /\ LocalsSet /\ Main \in Thread
  BY MainThread DEF TableInv
<1>1. batch' = batch /\ queue' = queue /\ users' = users /\ sock' = sock
  BY DEF AddClientRegister, run, table
<1>2. Moves(Main) /\ th[Main].pc = "register" /\ th[Main].fd \in Fd
  BY <1>0, AddClientEnds
<1>3. PICK f \in Fd : f = th[Main].fd
  BY <1>2
<1>4. /\ Armed(f)' /\ interest'[f] # "none"
      /\ \A h \in Fd : h # f => interest'[h] = interest[h] /\ pending'[h] = pending[h]
  BY <1>0, <1>1, <1>3, SetInterestArms DEF AddClientRegister
<1>5. CASE g = f
  BY <1>4, <1>5 DEF Watched
<1>6. CASE g # f
  <2>1. ~Cares(Main, g) /\ ~Ending(Main, g)
    BY <1>2, <1>3, <1>6 DEF Cares, Ending, BeingAdded, BeingErased, Unchecked, CheckedPc
  <2>2. \A u \in Thread : u # Main => th'[u] = th[u]
    BY <1>2 DEF Moves
  <2> QED
    BY <1>0, <1>1, <1>4, <1>6, <2>1, <2>2, QuietFrame
<1> QED
  BY <1>5, <1>6

(* Erasing an entry ends the connection it has, if any, and no other. *)
LEMMA EraseWatch ==
    ASSUME TableInv, NEW g \in Fd, Watched(g), NEW t \in Thread, NEW f \in Fd,
           \/ TableSame /\ UNCHANGED <<heap, sock, interest, pending>> /\ users[f].conn = Null
           \/ TableDrops(f),
           \A u \in Thread : u # t => th'[u] = th[u],
           th[t].pc \in {"erase", "register"}, th[t].fd = f,
           batch' = batch, queue' = queue
    PROVE  Watched(g)'
<1>0. /\ TypeOK /\ users \in [Fd -> ConnInfo] /\ sock \in [Fd -> Socket]
      /\ interest \in [Fd -> Interest] /\ pending \in [Fd -> BOOLEAN]
  BY DEF TableInv, TypeOK
<1>1. CASE g = f
  <2>1. users'[g].conn = Null
    BY <1>0, <1>1 DEF TableSame, TableDrops, Absent
  <2> QED
    BY <2>1 DEF Watched
<1>2. CASE g # f
  <2>1. /\ users'[g].conn = users[g].conn /\ sock'[g] = sock[g]
        /\ interest'[g] = interest[g] /\ pending'[g] = pending[g]
    BY <1>0, <1>2 DEF TableSame, TableDrops, CloseFd, DelFd
  <2>2. ~Cares(t, g) /\ ~Ending(t, g)
    BY <1>2 DEF Cares, Ending, BeingAdded, BeingErased, Unchecked, CheckedPc
  <2> QED
    BY <1>0, <2>1, <2>2, QuietFrame
<1> QED
  BY <1>1, <1>2

LEMMA AddClientFailWatch ==
    ASSUME TableInv, NEW g \in Fd, Watched(g), AddClientFail
    PROVE  Watched(g)'
<1>0. TypeOK /\ LocalsSet /\ Main \in Thread
  BY MainThread DEF TableInv
<1>1. batch' = batch /\ queue' = queue
  BY DEF AddClientFail, run
<1>2. Moves(Main) /\ th[Main].pc = "register" /\ th[Main].fd \in Fd
  BY <1>0, AddClientEnds
<1>3. \A u \in Thread : u # Main => th'[u] = th[u]
  BY <1>2 DEF Moves
<1>4. PICK f \in Fd : f = th[Main].fd
  BY <1>2
<1>5. \/ TableSame /\ UNCHANGED <<heap, sock, interest, pending>> /\ users[f].conn = Null
      \/ TableDrops(f)
  BY <1>4, AddClientFailKeeps
<1> QED
  BY <1>0, <1>1, <1>2, <1>3, <1>4, <1>5, EraseWatch

LEMMA CloseConnEraseWatch ==
    ASSUME TableInv, NEW g \in Fd, Watched(g), NEW t \in Thread, CloseConnErase(t)
    PROVE  Watched(g)'
<1>0. TypeOK /\ LocalsSet
  BY DEF TableInv
<1>1. batch' = batch /\ queue' = queue
  BY DEF CloseConnErase, run
<1>2. Moves(t) /\ th[t].pc = "erase" /\ th[t].fd \in Fd
  BY <1>0, CloseConnEraseMoves
<1>3. \A u \in Thread : u # t => th'[u] = th[u]
  BY <1>2 DEF Moves
<1>4. PICK f \in Fd : f = th[t].fd
  BY <1>2
<1>5. \/ TableSame /\ UNCHANGED <<heap, sock, interest, pending>> /\ users[f].conn = Null
      \/ TableDrops(f)
  BY <1>4, CloseConnEraseKeeps
<1> QED
  BY <1>0, <1>1, <1>2, <1>3, <1>4, <1>5, EraseWatch

(* A thread that is to close the connection of g reads g from its Conn. *)
LEMMA CloseConnWatch ==
    ASSUME TableInv, NEW g \in Fd, Watched(g), NEW t \in Thread, CloseConn(t)
    PROVE  Watched(g)'
<1>0. TypeOK /\ LocalsSet /\ interest \in [Fd -> Interest] /\ pending \in [Fd -> BOOLEAN]
  BY DEF TableInv, TypeOK
<1>1. batch' = batch /\ queue' = queue /\ users' = users /\ sock' = sock
  BY DEF CloseConn, run, table
<1>2. /\ Moves(t) /\ th[t].pc = "close" /\ th[t].conn \in Ptr
      /\ \/ BadFd \in FdRead(th[t].conn) /\ UNCHANGED <<interest, pending>>
         \/ \E f \in FdRead(th[t].conn) :
              f \in Fd /\ DelFd(f) /\ th'[t].pc = "erase" /\ th'[t].fd = f
  BY <1>0, CloseConnMoves
<1>3. \A u \in Thread : u # t => th'[u] = th[u]
  BY <1>2 DEF Moves
<1>4. ~Ending(t, g)
  BY <1>2 DEF Ending, BeingAdded, BeingErased
<1>5. CASE users[g].conn = Null
  BY <1>1, <1>5 DEF Watched
<1>6. CASE users[g].conn # Null
  <2>1. Cares(t, g) => FdRead(th[t].conn) = {g} /\ g # BadFd
    <3>1. ASSUME Cares(t, g) PROVE th[t].conn = users[g].conn
      BY <1>4, <3>1 DEF Cares
    <3> QED
      BY <1>6, <3>1, TablePasses, FdAssumption DEF BadFd
  <2>2. CASE BadFd \in FdRead(th[t].conn) /\ UNCHANGED <<interest, pending>>
    <3>1. ~Cares(t, g)
      BY <2>1, <2>2
    <3> QED
      BY <1>0, <1>1, <1>3, <1>4, <2>2, <3>1, QuietFrame
  <2>3. ASSUME NEW f \in FdRead(th[t].conn), f \in Fd, DelFd(f), th'[t].pc = "erase", th'[t].fd = f
        PROVE  Watched(g)'
    <3>1. CASE f = g
      <4>1. Ending(t, g)' /\ Cares(t, g)'
        BY <2>3, <3>1 DEF Cares, Ending, BeingErased
      <4> QED
        BY <4>1 DEF Watched, CaredFor
    <3>2. CASE f # g
      <4>1. ~Cares(t, g)
        BY <2>1, <2>3, <3>2
      <4>2. interest'[g] = interest[g] /\ pending'[g] = pending[g]
        BY <1>0, <2>3, <3>2 DEF DelFd
      <4> QED
        BY <1>0, <1>1, <1>3, <1>4, <4>1, <4>2, QuietFrame
    <3> QED
      BY <3>1, <3>2
  <2> QED
    BY <1>2, <2>2, <2>3
<1> QED
  BY <1>5, <1>6

LEMMA ReadAgainWatch ==
    ASSUME TableInv, NEW g \in Fd, Watched(g), NEW w \in Worker, ReadAgain(w)
    PROVE  Watched(g)'
<1>0. TypeOK /\ LocalsSet /\ w \in Thread /\ LocalsOK(w)
  BY MainThread DEF TableInv, LocalsSet
<1>1. batch' = batch /\ queue' = queue /\ users' = users /\ sock' = sock
  BY DEF ReadAgain, run, table
<1>2. Carries(w)
  BY <1>0, CarryingSteps
<1>3. (Cares(w, g) => CaredFor(g)') /\ ~Ending(w, g)
  BY <1>0, <1>1, <1>2, CarryCares
<1>4. \A u \in Thread : u # w => th'[u] = th[u]
  BY <1>2 DEF Carries, Moves
<1>5. PICK f \in Fd : f = th[w].fd
  BY <1>0 DEF ReadAgain, At, LocalsOK, HasFd, CheckedPc
<1>6. CASE UNCHANGED <<interest, pending>>
  BY <1>0, <1>1, <1>3, <1>4, <1>6, QuietFrame
<1>7. CASE SetInterest(f, "inLevel")
  <2>1. /\ Armed(f)' /\ interest'[f] # "none"
        /\ \A h \in Fd : h # f => interest'[h] = interest[h] /\ pending'[h] = pending[h]
    BY <1>0, <1>1, <1>7, SetInterestArms
  <2>2. CASE g = f
    BY <2>1, <2>2 DEF Watched
  <2>3. CASE g # f
    BY <1>0, <1>1, <1>3, <1>4, <2>1, <2>3, QuietFrame
  <2> QED
    BY <2>2, <2>3
<1> QED
  BY <1>5, <1>6, <1>7 DEF ReadAgain

(* A worker that cannot re-arm leaves the connection to whoever took its     *)
(* registration away.                                                        *)
LEMMA RearmWatch ==
    ASSUME TableInv, NEW g \in Fd, Watched(g), NEW w \in Worker, Rearm(w)
    PROVE  Watched(g)'
<1>0. TypeOK /\ LocalsSet /\ w \in Thread
  BY MainThread DEF TableInv
<1>1. batch' = batch /\ queue' = queue /\ users' = users /\ sock' = sock
  BY DEF Rearm, run, table
<1>2. Moves(w) /\ th[w].pc = "mod" /\ th[w].fd \in Fd
  BY <1>0, RearmMoves
<1>3. \A u \in Thread : u # w => th'[u] = th[u]
  BY <1>2 DEF Moves
<1>4. PICK f \in Fd : f = th[w].fd
  BY <1>2
<1>5. ~Ending(w, g)
  BY <1>2 DEF Ending, BeingAdded, BeingErased
<1>6. g # f => ~Cares(w, g)
  BY <1>2, <1>4, <1>5 DEF Cares, Unchecked
<1>7. CASE interest[f] = "none" /\ UNCHANGED <<interest, pending>>
  <2>1. CASE g # f
    BY <1>0, <1>1, <1>3, <1>5, <1>6, <1>7, <2>1, QuietFrame
  <2>2. CASE g = f /\ users[g].conn # Null
    <3>1. PICK u \in Thread : Ending(u, g)
      BY <1>7, <2>2 DEF Watched
    <3>2. u # w
      BY <1>5, <3>1
    <3>3. Ending(u, g)' /\ Cares(u, g)'
      BY <1>3, <3>1, <3>2 DEF Cares, Ending, BeingAdded, BeingErased
    <3> QED
      BY <3>3 DEF Watched, CaredFor
  <2>3. CASE users[g].conn = Null
    BY <1>1, <2>3 DEF Watched
  <2> QED
    BY <2>1, <2>2, <2>3
<1>8. ASSUME NEW i \in {"inOnce", "outOnce"}, SetInterest(f, i) PROVE Watched(g)'
  <2>1. /\ Armed(f)' /\ interest'[f] # "none"
        /\ \A h \in Fd : h # f => interest'[h] = interest[h] /\ pending'[h] = pending[h]
    BY <1>0, <1>1, <1>8, SetInterestArms
  <2>2. CASE g = f
    BY <2>1, <2>2 DEF Watched
  <2>3. CASE g # f
    BY <1>0, <1>1, <1>3, <1>5, <1>6, <2>1, <2>3, QuietFrame
  <2> QED
    BY <2>2, <2>3
<1> QED
  BY <1>4, <1>7, <1>8 DEF Rearm

LEMMA WatchedStep == ASSUME TableInv, AllWatched, [Next]_vars PROVE AllWatched'
<1> SUFFICES ASSUME NEW g \in Fd PROVE Watched(g)'
  BY DEF AllWatched
<1>1. Watched(g)
  BY DEF AllWatched
<1> QED
  BY <1>1, NextCases, FreeWatch, CarryWatch, CheckedWatch, DealWatch, DealExtentWatch,
     TakeTaskWatch, PeerWatch, WaitWatch, HandleListenWatch, HandleEventWatch, AddClientWatch,
     AddClientScheduleWatch, AddClientRegisterWatch, AddClientFailWatch, CloseConnWatch,
     CloseConnEraseWatch, ReadAgainWatch, RearmWatch

-----------------------------------------------------------------------------
(* The theorems *)

LEMMA InitInv == Init => IInv
<1> SUFFICES ASSUME Init PROVE IInv
  OBVIOUS
<1>1. \A t \in Thread : th[t] = Idle(t)
  BY DEF Init
<1>2. \A f \in Fd : users[f] = Absent /\ sock[f] = NoSocket
  BY DEF Init
<1>3. \A c \in Ptr : heap[c].live = FALSE
  BY DEF Init
<1>4. Absent \in ConnInfo /\ Absent.conn = Null /\ NoSocket \in Socket /\ NoSocket.open = FALSE
  BY DEF Absent, ConnInfo, NoSocket, Socket
<1>5. TypeOK
  <2>1. th \in [Thread -> Locals]
    BY IdleType DEF Init
  <2>2. heap \in [Ptr -> Conn]
    BY DEF Init, Conn
  <2>3. users \in [Fd -> ConnInfo] /\ sock \in [Fd -> Socket]
    BY <1>4 DEF Init
  <2>4. interest \in [Fd -> Interest] /\ pending \in [Fd -> BOOLEAN] /\ timers \in [Fd -> Timer]
    BY DEF Init, Interest, Timer, NoTimer
  <2>5. queue \in Seq(Task) /\ batch \subseteq Event
    BY DEF Init
  <2>6. /\ backlog \in Nat /\ listenReady \in BOOLEAN /\ connects \in Nat /\ fails \in Nat
        /\ userCount \in Nat /\ nextConnId \in Nat /\ quota \in Int
    <3>1. /\ backlog = 0 /\ listenReady = FALSE /\ connects = 0 /\ fails = 0
          /\ userCount = 0 /\ nextConnId = 1 /\ quota = 0
      BY DEF Init
    <3>2. listenReady \in BOOLEAN
      BY <3>1, Zenon
    <3>3. backlog \in Nat /\ connects \in Nat /\ fails \in Nat
      BY <3>1
    <3>4. userCount \in Nat /\ nextConnId \in Nat /\ quota \in Int
      BY <3>1
    <3> QED
      BY <3>2, <3>3, <3>4
  <2> QED
    BY <2>1, <2>2, <2>3, <2>4, <2>5, <2>6 DEF TypeOK
<1>6. LocalsSet
  BY <1>1, IdleType DEF LocalsSet, LocalsOK, HasConn, HasFd, Unchecked, CheckedPc
<1>7. EventsSet /\ EntriesSet /\ IdsSet /\ TableOwns /\ NothingLeaks
  BY <1>2, <1>3, <1>4 DEF Init, EventsSet, EntriesSet, IdsSet, TableOwns, NothingLeaks
<1>8. UserCountExact
  <2>1. {f \in Fd : users[f].conn # Null} = {}
    BY <1>2, <1>4
  <2> QED
    BY <2>1, FS_EmptySet DEF Init, UserCountExact
<1>9. AllWatched
  BY <1>2, <1>4 DEF AllWatched, Watched
<1> QED
  BY <1>5, <1>6, <1>7, <1>8, <1>9 DEF IInv, TableInv

LEMMA NextInv == IInv /\ [Next]_vars => IInv'
  BY TableInvStep, WatchedStep DEF IInv

LEMMA Inductive == Spec => []IInv
  BY InitInv, NextInv, PTL DEF Spec

(* Whoever cares for a connection refers to it. *)
LEMMA CaredIsReferred ==
    ASSUME TableInv, NEW f \in Fd, users[f].conn # Null, CaredFor(f)
    PROVE  RefersTo(f)
<1>1. PICK c : c = users[f].conn /\ c # Null /\ heap[c].fd = f
  BY TablePasses
<1>2. ASSUME NEW t \in Thread, Cares(t, f) PROVE RefersTo(f)
  BY <1>1, <1>2 DEF Cares, Ending, BeingAdded, BeingErased, RefersTo
<1> QED
  BY <1>1, <1>2 DEF CaredFor, RefersTo

LEMMA InvForgetsNone == IInv => NoneForgotten
<1> SUFFICES ASSUME IInv, NEW f \in Fd, users[f].conn # Null, ~RefersTo(f)
             PROVE  Armed(f)
  BY DEF NoneForgotten, Armed
<1> QED
  BY CaredIsReferred DEF IInv, AllWatched, Watched

(* What the table points to is alive, made for its descriptor and its        *)
(* connId, and the descriptor is open, although closeConn erases whatever    *)
(* entry the descriptor has by the time it holds the mutex (server.cpp       *)
(* closeConn), and tasks keep raw pointers to Conns.                         *)
THEOREM TableIsSound == Spec => []TableOwns
<1>1. IInv => TableOwns
  BY DEF IInv, TableInv
<1> QED
  BY <1>1, Inductive, PTL

(* Conn::userCount is the number of connections in the table, however many   *)
(* threads close the same connection and whichever descriptors they read.    *)
THEOREM CountIsExact == Spec => []UserCountExact
<1>1. IInv => UserCountExact
  BY DEF IInv, TableInv
<1> QED
  BY <1>1, Inductive, PTL

(* Every open descriptor and every live Conn has its entry: the failure      *)
(* paths of addClient and Run's dropping of events without an entry lose     *)
(* neither.                                                                  *)
THEOREM NothingIsLeaked == Spec => []NothingLeaks
<1>1. IInv => NothingLeaks
  BY DEF IInv, TableInv
<1> QED
  BY <1>1, Inductive, PTL

(* A connection no thread, task or event refers to is registered with epoll, *)
(* and on its ready list if it has something to report: every path of        *)
(* onRead, onWrite, onProcess and closeConn re-arms or erases, and a failed  *)
(* re-arm is left to the thread that removed the registration.               *)
THEOREM NobodyIsForgotten == Spec => []NoneForgotten
  BY InvForgetsNone, Inductive, PTL

(* The types of all variables and the four invariants above hold together,   *)
(* for any number of workers, descriptors, addresses and connections.        *)
THEOREM ServerIsConsistent == Spec => []Consistent
<1>1. IInv => Consistent
  BY InvForgetsNone DEF IInv, TableInv, Consistent
<1> QED
  BY <1>1, Inductive, PTL
=============================================================================
