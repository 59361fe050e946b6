------------------------------- MODULE Server -------------------------------
(***************************************************************************)
(* The reactor of src/core/server.cpp: the main thread in Server::Run, the  *)
(* worker threads that run onRead and onWrite, the table _users, the Conn   *)
(* objects it owns, the keyed timers, and, as the environment, the kernel's *)
(* descriptors and epoll instance and the peers.                            *)
(*                                                                          *)
(* A critical section of _connMutex, a system call and a dereference of a   *)
(* Conn outside the mutex are steps; steps that commute with every step of  *)
(* the other threads are joined.  Release build: assert() is absent.        *)
(*                                                                          *)
(* A Conn lives at an address (Ptr).  Freeing it leaves its fields in place *)
(* until make_unique hands the address out again, and raw pointers kept by  *)
(* tasks and by closeConn still read them: that, or an _fd overwritten by   *)
(* the allocator's link (BadFd, outside 1..MAX_FD), is what a dereference   *)
(* after free yields.  A crash, the other outcome, only cuts a behaviour    *)
(* short.                                                                   *)
(***************************************************************************)
EXTENDS Integers, Sequences, FiniteSets

CONSTANTS
    Worker,       \* the threads of the pool
    Fd,           \* descriptors accept() may return; all in use is EMFILE
    Ptr,          \* addresses make_unique<Conn> may return
    MaxUsers,     \* MAX_FD as checkServerNotFull compares it with userCount
    ListenET,     \* _listenEvent & EPOLLET (trig 2, 3); otherwise accepts are limited
    AcceptLimit,  \* the 50 of dealListen
    TimeoutOn,    \* _timeoutMS > 0
    MaxConn,      \* bound: connections peers open
    MaxSend,      \* bound: segments a peer sends on one connection
    Hangup,       \* what a peer may do to its end: a subset of {"fin", "rst"}
    MaxFail,      \* bound: failures of fcntl or of epoll_ctl(ADD)
    MaxQueue      \* bound: tasks queued when Run waits for events again

ASSUME FdAssumption == Fd \subseteq Nat \ {0} /\ IsFiniteSet(Fd)
ASSUME PtrAssumption == IsFiniteSet(Ptr) /\ "null" \notin Ptr
ASSUME WorkerAssumption == "main" \notin Worker
ASSUME BoundAssumption ==
    /\ MaxUsers \in Nat /\ AcceptLimit \in Nat
    /\ MaxConn \in Nat /\ MaxSend \in Nat /\ MaxFail \in Nat /\ MaxQueue \in Nat
ASSUME SwitchAssumption ==
    /\ ListenET \in BOOLEAN /\ TimeoutOn \in BOOLEAN
    /\ Hangup \subseteq {"fin", "rst"}

Null == "null"
BadFd == 0
ListenFd == -1
Main == "main"
Thread == Worker \cup {Main}

VARIABLES
    backlog,     \* kernel: completed connections accept() has not taken
    listenReady, \* kernel: _listenFd is on epoll's ready list
    connects,    \* environment: connections opened so far
    fails,       \* environment: injected failures so far
    sock,        \* kernel: the connected socket behind each descriptor
    interest,    \* kernel: epoll registration of each descriptor
    pending,     \* kernel: descriptor is on epoll's ready list
    users,       \* Server::_users
    heap,        \* the Conn objects
    userCount,   \* Conn::userCount
    nextConnId,  \* Server::_nextConnId
    timers,      \* the keyed timer of each descriptor
    queue,       \* tasks in the thread pool
    batch,       \* events of the last Wait that Run has not handled yet
    quota,       \* accepts the running dealListen may still do
    th           \* control state and locals of each thread

kernel == <<backlog, listenReady, sock, interest, pending>>
env    == <<connects, fails>>
table  == <<users, heap, userCount, nextConnId>>
run    == <<batch, quota>>
vars   == <<kernel, env, table, run, timers, queue, th>>

-----------------------------------------------------------------------------
(* Records *)

Socket   == [open : BOOLEAN, unread : Nat, sent : Nat, peer : {"up", "fin", "rst"}]
Interest == {"none", "off", "in", "inLevel", "inOnce", "outOnce"}
ConnInfo == [has : BOOLEAN, conn : Ptr \cup {Null}, connId : Nat]
Conn     == [live : BOOLEAN, isClose : BOOLEAN, fd : Fd \cup {BadFd}, connId : Nat,
             rbuf : {"empty", "data", "rest"}, out : BOOLEAN, keep : BOOLEAN]
Timer    == [kind : {"none", "add", "extent"}, connId : Nat]
Task     == [op : {"onRead", "onWrite"}, conn : Ptr]
Event    == [fd : Fd \cup {ListenFd}, ev : {"in", "out", "hup", "listen"}]
Locals   == [pc : {"loop", "accept", "sched", "register", "isClosed", "deal", "extent",
                   "idle", "onRead", "read", "again", "onProcess", "process", "mod",
                   "onWrite", "write", "wextent", "wsched", "written", "close", "erase"},
             conn : Ptr \cup {Null}, fd : Fd \cup {BadFd}, arg : {"", "onRead", "onWrite",
             "inOnce", "outOnce", "ok", "err", "outLog"}, twice : BOOLEAN, ext : {<<>>} \cup (Fd \X Nat), id : Nat]

NoSocket == [open |-> FALSE, unread |-> 0, sent |-> 0, peer |-> "up"]
Absent   == [has |-> FALSE, conn |-> Null, connId |-> 0]   \* no entry in _users
Phantom  == [has |-> TRUE, conn |-> Null, connId |-> 0]    \* what operator[] inserts
NoTimer  == [kind |-> "none", connId |-> 0]

TypeOK ==
    /\ backlog \in Nat /\ listenReady \in BOOLEAN /\ connects \in Nat /\ fails \in Nat
    /\ sock \in [Fd -> Socket] /\ interest \in [Fd -> Interest] /\ pending \in [Fd -> BOOLEAN]
    /\ users \in [Fd -> ConnInfo] /\ heap \in [Ptr -> Conn]
    /\ userCount \in Nat /\ nextConnId \in Nat
    /\ timers \in [Fd -> Timer] /\ queue \in Seq(Task)
    /\ batch \subseteq Event /\ quota \in Int
    /\ th \in [Thread -> Locals]

Idle(t) == [pc |-> IF t = Main THEN "loop" ELSE "idle", conn |-> Null, fd |-> BadFd,
            arg |-> "", twice |-> FALSE, ext |-> <<>>, id |-> 0]

Init ==
    /\ backlog = 0 /\ listenReady = FALSE /\ connects = 0 /\ fails = 0
    /\ sock = [f \in Fd |-> NoSocket]
    /\ interest = [f \in Fd |-> "none"]
    /\ pending = [f \in Fd |-> FALSE]
    /\ users = [f \in Fd |-> Absent]
    /\ heap = [c \in Ptr |-> [live |-> FALSE, isClose |-> TRUE, fd |-> BadFd, connId |-> 0,
                              rbuf |-> "empty", out |-> FALSE, keep |-> FALSE]]
    /\ userCount = 0 /\ nextConnId = 1
    /\ timers = [f \in Fd |-> NoTimer]
    /\ queue = <<>> /\ batch = {} /\ quota = 0
    /\ th = [t \in Thread |-> Idle(t)]

-----------------------------------------------------------------------------
(* The kernel: sockets and epoll *)

Readable(s) == s.unread > 0 \/ s.peer # "up"
InterestIn  == {"in", "inLevel", "inOnce"}
Once        == {"inOnce", "outOnce"}

(* Whether registration i reports something about socket s.  A socket is    *)
(* taken to be writable; EPOLLRDHUP is part of _connEvent, hence of Once.   *)
Reports(i, s) ==
    \/ i \in InterestIn /\ Readable(s)
    \/ i = "outOnce"
    \/ i \notin {"none", "off"} /\ s.peer = "rst"
    \/ i \in Once /\ s.peer = "fin"

EventOf(i, s) ==
    IF s.peer = "rst" \/ (i \in Once /\ s.peer = "fin") THEN "hup"
    ELSE IF i \in InterestIn THEN "in" ELSE "out"

(* epoll_ctl(ADD or MOD) puts the descriptor on the ready list if its        *)
(* condition already holds.                                                  *)
SetInterest(f, i) ==
    /\ interest' = [interest EXCEPT ![f] = i]
    /\ pending' = [pending EXCEPT ![f] = Reports(i, sock[f])]

DelFd(f) ==
    /\ interest' = [interest EXCEPT ![f] = "none"]
    /\ pending' = [pending EXCEPT ![f] = FALSE]

IsOpen(f) == f # BadFd /\ sock[f].open

(* close(f); closing an unused descriptor is EBADF and changes nothing. *)
CloseFd(f) == DelFd(f) /\ sock' = [sock EXCEPT ![f] = NoSocket]

\* Mutant of Destroy: userCount goes down for an entry without a Conn too.
DestroyCountsNull(c) ==
    /\ userCount' = userCount - 1
    /\ \/ c = Null /\ UNCHANGED <<heap, sock, interest, pending>>
       \/ c # Null /\ heap' = [heap EXCEPT ![c].live = FALSE, ![c].isClose = TRUE]
                   /\ CloseFd(heap[c].fd)

\* Mutant of Destroy: Conn::Close forgets close(_fd).
DestroyLeaksFd(c) ==
    \/ c = Null /\ UNCHANGED <<heap, userCount, sock, interest, pending>>
    \/ c # Null /\ heap' = [heap EXCEPT ![c].live = FALSE, ![c].isClose = TRUE]
                /\ userCount' = userCount - 1
                /\ DelFd(heap[c].fd) /\ UNCHANGED sock

\* Mutant of Destroy: Conn::Close forgets userCount--.
DestroyKeepsCount(c) ==
    /\ UNCHANGED userCount
    /\ \/ c = Null /\ UNCHANGED <<heap, sock, interest, pending>>
       \/ c # Null /\ heap' = [heap EXCEPT ![c].live = FALSE, ![c].isClose = TRUE]
                   /\ CloseFd(heap[c].fd)

(* ~ConnInfo frees the Conn, if any; ~Conn calls Close, which counts the     *)
(* connection out and closes the descriptor.                                 *)
Destroy(c) ==
    \/ c = Null /\ UNCHANGED <<heap, userCount, sock, interest, pending>>
    \/ c # Null /\ heap' = [heap EXCEPT ![c].live = FALSE, ![c].isClose = TRUE]
                /\ userCount' = userCount - 1
                /\ CloseFd(heap[c].fd)

\* Mutant of Erase: the Conn is closed but its entry stays in the table.
EraseKeepsEntry(f) == UNCHANGED users /\ Destroy(users[f].conn)

(* _users.erase(f) *)
Erase(f) == users' = [users EXCEPT ![f] = Absent] /\ Destroy(users[f].conn)

-----------------------------------------------------------------------------
(* The peers *)

Connect ==
    /\ connects < MaxConn
    /\ connects' = connects + 1
    /\ backlog' = backlog + 1
    /\ listenReady' = TRUE
    /\ UNCHANGED <<sock, interest, pending, fails, table, run, timers, queue, th>>

Arrive(f, s) ==
    /\ sock' = [sock EXCEPT ![f] = s]
    /\ pending' = [pending EXCEPT ![f] = @ \/ Reports(interest[f], s)]
    /\ UNCHANGED <<backlog, listenReady, interest, env, table, run, timers, queue, th>>

PeerSend(f) ==
    /\ sock[f].open /\ sock[f].peer = "up" /\ sock[f].sent < MaxSend
    /\ Arrive(f, [sock[f] EXCEPT !.unread = @ + 1, !.sent = @ + 1])

PeerHangup(f, how) ==
    /\ sock[f].open /\ sock[f].peer # "rst" /\ sock[f].peer # how
    /\ Arrive(f, [sock[f] EXCEPT !.peer = how])

-----------------------------------------------------------------------------
(* Threads *)

At(t, pc) == th[t].pc = pc
Goto(t, pc) == th' = [th EXCEPT ![t].pc = pc]
Return(t) == th' = [th EXCEPT ![t] = Idle(t)]

(* client->GetFd(), of a Conn that may be freed. *)
FdRead(c) == IF heap[c].live THEN {heap[c].fd} ELSE {heap[c].fd, BadFd}
HasEntry(f) == f # BadFd /\ users[f].has

(* checkFdAndMatchId *)
CheckFdAndMatchId(c) ==
    /\ ~heap[c].isClose
    /\ HasEntry(heap[c].fd)
    /\ heap[c].connId # 0
    /\ users[heap[c].fd].connId = heap[c].connId

(* closeConn returns: the second one of a failed re-arm in onRead follows. *)
CloseReturn(t) ==
    \/ ~th[t].twice /\ Return(t)
    \/ th[t].twice /\ th' = [th EXCEPT ![t].pc = "close", ![t].twice = FALSE]

(* closeConn up to the mutex: an invalid descriptor only erases itself from *)
(* _users, where it is not; otherwise the registration goes first.          *)
CloseConn(t) ==
    LET c == th[t].conn IN
    /\ At(t, "close")
    /\ \E f \in FdRead(c) :
         \/ /\ f = BadFd
            /\ CloseReturn(t)
            /\ UNCHANGED <<interest, pending>>
         \/ /\ f # BadFd
            /\ DelFd(f)
            /\ th' = [th EXCEPT ![t].pc = "erase", ![t].fd = f]
    /\ UNCHANGED <<backlog, listenReady, sock, env, table, run, timers, queue>>

(* ... and under it: whatever entry the descriptor has now is erased. *)
CloseConnErase(t) ==
    LET f == th[t].fd IN
    /\ At(t, "erase")
    /\ \/ users[f].has /\ Erase(f)
       \/ ~users[f].has /\ UNCHANGED <<users, heap, userCount, sock, interest, pending>>
    /\ CloseReturn(t)
    /\ UNCHANGED <<backlog, listenReady, env, nextConnId, run, timers, queue>>

(* extentTime up to ScheduleWithKey: the connId its callback will compare is *)
(* the one now in the table; none when it returns early.                     *)
ExtentIds(c) ==
    IF TimeoutOn THEN {IF HasEntry(f) THEN <<f, users[f].connId>> ELSE <<>> : f \in FdRead(c)}
    ELSE {<<>>}

(* ScheduleWithKey replaces the timer of the descriptor. *)
ScheduleExtent(x) ==
    timers' = IF x = <<>> THEN timers
              ELSE [timers EXCEPT ![x[1]] = [kind |-> "extent", connId |-> x[2]]]

-----------------------------------------------------------------------------
(* The main thread *)

InLoop == At(Main, "loop") /\ batch = {}

(* Tick, from GetNextTick: the callback addClient left.  It reads the table  *)
(* without the mutex.                                                        *)
FireAddTimer(f) ==
    /\ InLoop
    /\ timers[f].kind = "add"
    /\ timers' = [timers EXCEPT ![f] = NoTimer]
    /\ \/ /\ users[f].has /\ users[f].connId = timers[f].connId /\ users[f].conn # Null
          /\ th' = [th EXCEPT ![Main].pc = "close", ![Main].conn = users[f].conn,
                              ![Main].id = users[f].connId]
       \/ /\ ~(users[f].has /\ users[f].connId = timers[f].connId /\ users[f].conn # Null)
          /\ UNCHANGED th
    /\ UNCHANGED <<kernel, env, table, run, queue>>

(* _users[f]: operator[] inserts a default entry when there is none. *)
Subscript(f) == users' = IF users[f].has THEN users ELSE [users EXCEPT ![f] = Phantom]

(* The callback extentTime left: it looks the descriptor up with operator[]. *)
FireExtentTimer(f) ==
    /\ InLoop
    /\ timers[f].kind = "extent"
    /\ timers' = [timers EXCEPT ![f] = NoTimer]
    /\ Subscript(f)
    /\ \/ /\ users'[f].connId = timers[f].connId /\ users'[f].conn # Null
          /\ th' = [th EXCEPT ![Main].pc = "isClosed", ![Main].conn = users[f].conn,
                              ![Main].id = users[f].connId]
       \/ /\ ~(users'[f].connId = timers[f].connId /\ users'[f].conn # Null)
          /\ UNCHANGED th
    /\ UNCHANGED <<kernel, env, heap, userCount, nextConnId, run, queue>>

(* ... and closes the connection only if it is closed already. *)
ExtentTimerIsClosed ==
    LET c == th[Main].conn IN
    /\ At(Main, "isClosed")
    /\ \/ heap[c].isClose /\ Goto(Main, "close")
       \/ ~heap[c].isClose /\ Return(Main)
    /\ UNCHANGED <<kernel, env, table, run, timers, queue>>

Ready(f) == pending[f] \/ (interest[f] = "inLevel" /\ Reports("inLevel", sock[f]))

(* epoll_wait hands out the ready list; a one-shot registration is disarmed. *)
Wait ==
    /\ InLoop
    /\ listenReady \/ \E f \in Fd : Ready(f)
    /\ Len(queue) < MaxQueue
    /\ batch' = {[fd |-> f, ev |-> EventOf(interest[f], sock[f])] : f \in {g \in Fd : Ready(g)}}
                \cup (IF listenReady THEN {[fd |-> ListenFd, ev |-> "listen"]} ELSE {})
    /\ listenReady' = FALSE
    /\ pending' = [f \in Fd |-> FALSE]
    /\ interest' = [f \in Fd |-> IF Ready(f) /\ interest[f] \in Once THEN "off" ELSE interest[f]]
    /\ UNCHANGED <<backlog, sock, env, table, quota, timers, queue, th>>

\* Mutant of AcceptQuota: one accept per event, with no loop in ET mode.
AcceptQuotaOne == 1

(* How many connections one dealListen takes. *)
AcceptQuota ==
    IF ListenET THEN MaxConn + 1
    ELSE IF AcceptLimit < MaxUsers - userCount THEN AcceptLimit ELSE MaxUsers - userCount

(* Run takes the next event: _listenFd's ... *)
HandleListen ==
    /\ At(Main, "loop")
    /\ \E e \in batch : e.ev = "listen" /\ batch' = batch \ {e}
    /\ quota' = AcceptQuota
    /\ Goto(Main, "accept")
    /\ UNCHANGED <<kernel, env, table, timers, queue>>

(* ... or a connection's, whose pointer is looked up; an event whose entry   *)
(* is null makes Run drop the descriptor.                                    *)
HandleEvent(e) ==
    /\ At(Main, "loop")
    /\ e.ev # "listen"
    /\ batch' = batch \ {e}
    /\ Subscript(e.fd)
    /\ \/ /\ users'[e.fd].conn # Null
          /\ th' = [th EXCEPT ![Main].conn = users[e.fd].conn, ![Main].id = users[e.fd].connId,
                              ![Main].pc = IF e.ev = "hup" THEN "close" ELSE "deal",
                              ![Main].arg = CASE e.ev = "in" -> "onRead"
                                              [] e.ev = "out" -> "onWrite"
                                              [] e.ev = "hup" -> ""]
          /\ UNCHANGED <<sock, interest, pending>>
       \/ /\ users'[e.fd].conn = Null
          /\ \/ e.ev = "hup" /\ UNCHANGED <<sock, interest, pending>>
             \/ e.ev # "hup" /\ CloseFd(e.fd)
          /\ UNCHANGED th
    /\ UNCHANGED <<backlog, listenReady, env, heap, userCount, nextConnId, quota, timers, queue>>

(* dealRead, dealWrite: the entry is looked for again, ... *)
Deal ==
    LET c == th[Main].conn IN
    /\ At(Main, "deal")
    /\ \E f \in FdRead(c) :
         \/ HasEntry(f) /\ Goto(Main, "extent")
         \/ ~HasEntry(f) /\ Return(Main)
    /\ UNCHANGED <<kernel, env, table, run, timers, queue>>

(* ... the timer is extended, and the task gets the raw pointer. *)
DealExtent ==
    LET c == th[Main].conn IN
    /\ At(Main, "extent")
    /\ \E x \in ExtentIds(c) : ScheduleExtent(x)
    /\ queue' = Append(queue, [op |-> th[Main].arg, conn |-> c])
    /\ Return(Main)
    /\ UNCHANGED <<kernel, env, table, run>>

(* dealListen ends: nothing to accept, the limit is reached, or EMFILE. *)
AcceptEnd ==
    /\ At(Main, "accept")
    /\ backlog = 0 \/ quota <= 0 \/ \A f \in Fd : sock[f].open
    /\ Return(Main)
    /\ quota' = 0
    /\ UNCHANGED <<kernel, env, table, batch, timers, queue>>

(* accept() and checkServerNotFull: over the limit the peer is turned away. *)
AcceptFull ==
    /\ At(Main, "accept")
    /\ backlog > 0 /\ quota > 0 /\ \E f \in Fd : ~sock[f].open
    /\ userCount >= MaxUsers
    /\ backlog' = backlog - 1
    /\ quota' = quota - 1
    /\ UNCHANGED <<listenReady, sock, interest, pending, env, table, batch, timers, queue, th>>

(* accept() and addClient's critical section. *)
Accept(f) ==
    /\ At(Main, "accept")
    /\ backlog > 0 /\ quota > 0 /\ ~sock[f].open
    /\ userCount < MaxUsers
    /\ backlog' = backlog - 1
    /\ quota' = quota - 1
    /\ nextConnId' = nextConnId + 1

AddClient(f, c) ==
    /\ Accept(f)
    /\ ~users[f].has
    /\ ~heap[c].live
    /\ heap' = [heap EXCEPT ![c] = [live |-> TRUE, isClose |-> FALSE, fd |-> f,
                  connId |-> nextConnId, rbuf |-> "empty", out |-> FALSE, keep |-> FALSE]]
    /\ users' = [users EXCEPT ![f] = [has |-> TRUE, conn |-> c, connId |-> nextConnId]]
    /\ userCount' = userCount + 1
    /\ sock' = [sock EXCEPT ![f] = [NoSocket EXCEPT !.open = TRUE]]
    /\ th' = [th EXCEPT ![Main].pc = "sched", ![Main].fd = f, ![Main].id = nextConnId]
    /\ UNCHANGED <<listenReady, interest, pending, env, batch, timers, queue>>

(* "Duplicate fd": try_emplace found an entry; it is erased and the new      *)
(* connection is closed.                                                     *)
AddClientDuplicate(f) ==
    /\ Accept(f)
    /\ users[f].has
    /\ Erase(f)
    /\ UNCHANGED <<listenReady, env, batch, timers, queue, th>>

AddClientSchedule ==
    LET f == th[Main].fd IN
    /\ At(Main, "sched")
    /\ timers' = IF TimeoutOn
                 THEN [timers EXCEPT ![f] = [kind |-> "add", connId |-> th[Main].id]] ELSE timers
    /\ Goto(Main, "register")
    /\ UNCHANGED <<kernel, env, table, run, queue>>

(* AddFd registers EPOLLIN | EPOLLET, whatever events it is asked for. *)
AddClientRegister ==
    LET f == th[Main].fd IN
    /\ At(Main, "register")
    /\ sock[f].open
    /\ SetInterest(f, "in")
    /\ th' = [th EXCEPT ![Main] = [Idle(Main) EXCEPT !.pc = "accept"]]
    /\ UNCHANGED <<backlog, listenReady, sock, env, table, run, timers, queue>>

(* setFdNonBlock or AddFd fails: the entry is erased, which closes the       *)
(* descriptor, and the descriptor is closed once more.                       *)
AddClientFail ==
    LET f == th[Main].fd IN
    /\ At(Main, "register")
    /\ \/ ~sock[f].open /\ UNCHANGED fails
       \/ sock[f].open /\ fails < MaxFail /\ fails' = fails + 1
    /\ Erase(f)
    /\ th' = [th EXCEPT ![Main] = [Idle(Main) EXCEPT !.pc = "accept"]]
    /\ UNCHANGED <<backlog, listenReady, connects, nextConnId, run, timers, queue>>

-----------------------------------------------------------------------------
(* The workers *)

TakeTask(w) ==
    /\ At(w, "idle")
    /\ queue # <<>>
    /\ th' = [th EXCEPT ![w].pc = Head(queue).op, ![w].conn = Head(queue).conn]
    /\ queue' = Tail(queue)
    /\ UNCHANGED <<kernel, env, table, run, timers>>

(* onRead, onWrite and onProcess begin by taking the descriptor and checking *)
(* the Conn against the table.                                               *)
Checked(w, from, to) ==
    LET c == th[w].conn IN
    /\ At(w, from)
    /\ \/ /\ CheckFdAndMatchId(c)
          /\ th' = [th EXCEPT ![w].pc = to, ![w].fd = heap[c].fd, ![w].id = heap[c].connId]
       \/ ~CheckFdAndMatchId(c) /\ Return(w)
    /\ UNCHANGED <<kernel, env, table, run, timers, queue>>

OnRead(w)    == Checked(w, "onRead", "read")
OnWrite(w)   == Checked(w, "onWrite", "write")
OnProcess(w) == Checked(w, "onProcess", "process")

(* Conn::Read: up to its limits it takes what the socket holds.  f is the   *)
(* _fd it reads from.                                                       *)
ReadSome(w, f, k) ==
    /\ k < sock[f].unread \/ sock[f].peer # "rst"
    /\ sock' = [sock EXCEPT ![f].unread = @ - k]
    /\ heap' = [heap EXCEPT ![th[w].conn].rbuf = "data"]
    /\ Goto(w, "onProcess")

ReadNothing(w, f) ==
    /\ \/ ~IsOpen(f) /\ Goto(w, "close")                                    \* EBADF
       \/ IsOpen(f) /\ sock[f].peer = "rst" /\ Goto(w, "close")             \* ECONNRESET
       \/ /\ IsOpen(f) /\ sock[f].unread = 0 /\ sock[f].peer = "fin"        \* 0
          /\ Goto(w, "close")
       \/ /\ IsOpen(f) /\ sock[f].unread = 0 /\ sock[f].peer = "up"         \* EAGAIN
          /\ Goto(w, "again")
    /\ UNCHANGED <<sock, heap>>

Read(w) ==
    /\ At(w, "read")
    /\ \E f \in FdRead(th[w].conn) :
         \/ f # BadFd /\ \E k \in 1..sock[f].unread : ReadSome(w, f, k)
         \/ ReadNothing(w, f)
    /\ UNCHANGED <<backlog, listenReady, interest, pending, env, users, userCount, nextConnId,
                   run, timers, queue>>

(* onRead after EAGAIN: re-arm, close if that fails, and, handleReadError    *)
(* being outside the test, close in any case.                                *)
ReadAgain(w) ==
    LET f == th[w].fd IN
    /\ At(w, "again")
    /\ \/ interest[f] # "none" /\ SetInterest(f, "inLevel") /\ Goto(w, "close")
       \/ /\ interest[f] = "none"
          /\ th' = [th EXCEPT ![w].pc = "close", ![w].twice = TRUE]
          /\ UNCHANGED <<interest, pending>>
    /\ UNCHANGED <<backlog, listenReady, sock, env, table, run, timers, queue>>

(* Conn::Process and the switch of onProcess.  A request that left bytes     *)
(* behind ("rest") is parsed again as a request line, fails, and is answered *)
(* without keep-alive.                                                       *)
Process(w) ==
    LET c == th[w].conn
        Answer(keep, rest) ==
            /\ heap' = [heap EXCEPT ![c].rbuf = rest, ![c].out = TRUE, ![c].keep = keep]
            /\ th' = [th EXCEPT ![w].pc = "mod", ![w].arg = "outOnce"]
    IN
    /\ At(w, "process")
    /\ \/ /\ heap[c].rbuf = "empty"
          /\ th' = [th EXCEPT ![w].pc = "mod", ![w].arg = "inOnce"]
          /\ UNCHANGED heap
       \/ heap[c].rbuf = "data" /\ \E keep \in BOOLEAN, r \in {"empty", "rest"} : Answer(keep, r)
       \/ heap[c].rbuf = "rest" /\ Answer(FALSE, "rest")
       \/ heap[c].rbuf # "empty" /\ Goto(w, "close") /\ UNCHANGED heap      \* ERROR
    /\ UNCHANGED <<kernel, env, users, userCount, nextConnId, run, timers, queue>>

\* Mutant of Rearm: onProcess only logs a failed re-arm and a wait for data is not registered.
RearmOnlyOut(w) ==
    LET f == th[w].fd IN
    /\ At(w, "mod")
    /\ \/ /\ interest[f] # "none" /\ th[w].arg # "inOnce"
          /\ SetInterest(f, "outOnce")
       \/ /\ interest[f] = "none" \/ th[w].arg = "inOnce"
          /\ UNCHANGED <<interest, pending>>
    /\ Return(w)
    /\ UNCHANGED <<backlog, listenReady, sock, env, table, run, timers, queue>>

(* ModFd: fails when the descriptor is not registered.  onProcess then       *)
(* closes; onWrite only logs.                                                *)
Rearm(w) ==
    LET f == th[w].fd IN
    /\ At(w, "mod")
    /\ \/ /\ interest[f] # "none"
          /\ SetInterest(f, IF th[w].arg = "inOnce" THEN "inOnce" ELSE "outOnce")
          /\ Return(w)
       \/ /\ interest[f] = "none"
          /\ IF th[w].arg = "outLog" THEN Return(w) ELSE Goto(w, "close")
          /\ UNCHANGED <<interest, pending>>
    /\ UNCHANGED <<backlog, listenReady, sock, env, table, run, timers, queue>>

CanWrite(f) == IsOpen(f) /\ sock[f].peer # "rst"
WriteFails(f) == IsOpen(f) => sock[f].peer # "up"

(* Conn::Write: everything went out, something is left, or writev failed. *)
Write(w) ==
    LET c == th[w].conn IN
    /\ At(w, "write")
    /\ \E f \in FdRead(c) :
         \/ /\ ~heap[c].out
            /\ th' = [th EXCEPT ![w].pc = "wextent", ![w].arg = "ok"]
            /\ UNCHANGED heap
         \/ /\ heap[c].out /\ CanWrite(f)
            /\ \E left \in BOOLEAN : heap' = [heap EXCEPT ![c].out = left]
            /\ th' = [th EXCEPT ![w].pc = "wextent", ![w].arg = "ok"]
         \/ /\ heap[c].out /\ WriteFails(f)
            /\ th' = [th EXCEPT ![w].pc = "wextent", ![w].arg = "err"]
            /\ UNCHANGED heap
    /\ UNCHANGED <<kernel, env, users, userCount, nextConnId, run, timers, queue>>

WriteExtent(w) ==
    LET c == th[w].conn IN
    /\ At(w, "wextent")
    /\ \E x \in ExtentIds(c) :
         th' = [th EXCEPT ![w].pc = IF x = <<>> THEN "written" ELSE "wsched", ![w].ext = x]
    /\ UNCHANGED <<kernel, env, table, run, timers, queue>>

(* ... and ScheduleWithKey, after the mutex was released. *)
WriteSchedule(w) ==
    /\ At(w, "wsched")
    /\ ScheduleExtent(th[w].ext)
    /\ th' = [th EXCEPT ![w].pc = "written", ![w].ext = <<>>]
    /\ UNCHANGED <<kernel, env, table, run, queue>>

\* Mutant of Written: a keep-alive connection is not processed and re-armed.
WrittenNoRearm(w) ==
    LET c == th[w].conn IN
    /\ At(w, "written")
    /\ \/ ~heap[c].out /\ heap[c].keep /\ Return(w)
       \/ ~heap[c].out /\ ~heap[c].keep /\ Goto(w, "close")
       \/ heap[c].out /\ th[w].arg = "err" /\ Goto(w, "close")
       \/ /\ heap[c].out /\ th[w].arg = "ok"
          /\ th' = [th EXCEPT ![w].pc = "mod", ![w].arg = "outLog"]
    /\ UNCHANGED <<kernel, env, table, run, timers, queue>>

(* onWrite after the write: next request, close, or wait for EPOLLOUT. *)
Written(w) ==
    LET c == th[w].conn IN
    /\ At(w, "written")
    /\ \/ ~heap[c].out /\ heap[c].keep /\ Goto(w, "onProcess")
       \/ ~heap[c].out /\ ~heap[c].keep /\ Goto(w, "close")
       \/ heap[c].out /\ th[w].arg = "err" /\ Goto(w, "close")
       \/ /\ heap[c].out /\ th[w].arg = "ok"
          /\ th' = [th EXCEPT ![w].pc = "mod", ![w].arg = "outLog"]
    /\ UNCHANGED <<kernel, env, table, run, timers, queue>>

-----------------------------------------------------------------------------

MainStep ==
    \/ \E f \in Fd : FireAddTimer(f) \/ FireExtentTimer(f) \/ AddClientDuplicate(f)
    \/ \E f \in Fd, c \in Ptr : AddClient(f, c)
    \/ \E e \in batch : HandleEvent(e)
    \/ ExtentTimerIsClosed \/ Wait \/ HandleListen \/ Deal \/ DealExtent
    \/ AcceptEnd \/ AcceptFull \/ AddClientSchedule \/ AddClientRegister \/ AddClientFail
    \/ CloseConn(Main) \/ CloseConnErase(Main)

WorkerStep(w) ==
    \/ TakeTask(w) \/ OnRead(w) \/ Read(w) \/ ReadAgain(w) \/ OnProcess(w) \/ Process(w)
    \/ Rearm(w) \/ OnWrite(w) \/ Write(w) \/ WriteExtent(w) \/ WriteSchedule(w) \/ Written(w)
    \/ CloseConn(w) \/ CloseConnErase(w)

PeerStep == Connect \/ \E f \in Fd : PeerSend(f) \/ \E how \in Hangup : PeerHangup(f, how)

Next == MainStep \/ (\E w \in Worker : WorkerStep(w)) \/ PeerStep

(* The operating system schedules every thread; a timer that stays set       *)
(* expires and Run, which never blocks longer than GetNextTick, runs it.     *)
(* Peers owe nothing.                                                        *)
Fairness ==
    /\ WF_vars(MainStep)
    /\ \A w \in Worker : WF_vars(WorkerStep(w))
    /\ \A f \in Fd : WF_vars(FireAddTimer(f) \/ FireExtentTimer(f))

Spec == Init /\ [][Next]_vars /\ Fairness

-----------------------------------------------------------------------------
(* Safety *)

(* Conn::userCount is the number of connections the table holds: every       *)
(* connection that is closed, by whichever thread and however many of them   *)
(* try at once, is counted out exactly once (conn.cpp:27 suspects it is not).*)
UserCountExact == userCount = Cardinality({f \in Fd : users[f].conn # Null})

(* The table owns what it points to: the Conn is alive, it is the one made   *)
(* for this descriptor and this connId, and the descriptor is open.          *)
TableOwns ==
    \A f \in Fd : LET c == users[f].conn IN
        c # Null => /\ heap[c].live /\ ~heap[c].isClose
                    /\ heap[c].fd = f /\ heap[c].connId = users[f].connId
                    /\ sock[f].open

(* Nothing leaks: every descriptor accept() returned and every Conn still    *)
(* alive has its entry in the table, so that an erase can end it.            *)
NothingLeaks ==
    /\ \A f \in Fd : sock[f].open => users[f].conn # Null
    /\ \A c \in Ptr : heap[c].live => heap[c].fd \in Fd /\ users[heap[c].fd].conn = c

(* No connection is forgotten: one that no thread, task or event refers to   *)
(* is armed in epoll, and if it has something to report it is on the ready   *)
(* list.  Every path of onRead, onWrite and onProcess re-arms or closes.     *)
RefersTo(f) ==
    \/ \E t \in Thread : th[t].fd = f \/ (th[t].conn # Null /\ heap[th[t].conn].fd = f)
    \/ \E i \in 1..Len(queue) : heap[queue[i].conn].fd = f
    \/ \E e \in batch : e.fd = f

NoneForgotten ==
    \A f \in Fd : users[f].conn # Null /\ ~RefersTo(f) =>
        /\ interest[f] \notin {"none", "off"}
        /\ Reports(interest[f], sock[f]) => Ready(f)

(* Table, counter, objects, descriptors and registrations agree. *)
Consistent == TypeOK /\ TableOwns /\ UserCountExact /\ NothingLeaks /\ NoneForgotten

-----------------------------------------------------------------------------
(* Liveness *)

(* A connection whose peer has hung up is closed, whatever its requests were *)
(* doing and whichever registration it had at that moment.                   *)
HangupIsClosed ==
    \A f \in Fd : (sock[f].open /\ sock[f].peer # "up") ~> (~sock[f].open \/ sock[f].peer = "up")

(* dealListen drains the backlog (server.cpp:516): no connection waits there *)
(* for ever while a descriptor is free to take it.                           *)
AllAccepted == ~<>[](backlog > 0 /\ \E f \in Fd : ~sock[f].open)

-----------------------------------------------------------------------------
(* What comments and assertions of the code say, and the code does not do *)

(* server.cpp:388 assert(inserted): an accepted connection that passed       *)
(* checkServerNotFull enters the table.                                      *)
AcceptedIsInserted ==
    [][nextConnId' # nextConnId => \E f \in Fd : users'[f].connId = nextConnId]_vars

(* server.h:94, server.cpp:429: the timeout closes a connection nobody uses: *)
(* none stays open for ever with no thread, task or event referring to it.   *)
IdleIsClosed == \A f \in Fd : ~<>[](sock[f].open /\ ~RefersTo(f))
=============================================================================
