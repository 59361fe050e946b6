------------------------------ MODULE HttpConn ------------------------------
(***************************************************************************)
(* One HTTP connection, byte by byte: http::Conn with its Request, Response *)
(* and two buffers, the tasks onRead and onWrite that drive it, its epoll   *)
(* registration, and, as the environment, a peer that sends requests in     *)
(* segments of any size and reads its answers at any pace.                  *)
(*                                                                          *)
(* The tasks of the connection run one after the other, in the order of     *)
(* their events (a pool of one thread): two of them inside one Conn at once *)
(* would be a data race.  Closing, timers and hang-ups are module Server's. *)
(* The connection is edge-triggered (trig 1 or 3: Conn::isET) and no request*)
(* or answer comes near the 64 KB and 4 MB limits of Read and Write.        *)
(*                                                                          *)
(* Requests are sequences of symbols, answers sequences of pairs <<i, k>>:  *)
(* byte k of answer i.                                                      *)
(***************************************************************************)
EXTENDS Integers, Sequences, SequencesExt, TLC

CONSTANTS
    Script,       \* what the peer may send: a set of sequences of requests
    Missing,      \* paths without a file, or with a directory
    Denied,       \* paths of files others may not read
    Empty,        \* paths of files of size 0
    HeadLen,      \* bytes of status line and headers
    FileLen,      \* bytes of a file
    SendBuf,      \* bytes the kernel takes before writev says EAGAIN
    MaxTask,      \* bound: tasks of this connection queued at once
    MaxSegment    \* bound: segments the peer cuts its requests into

ASSUME LengthAssumption ==
    /\ HeadLen \in Nat \ {0} /\ FileLen \in Nat \ {0} /\ SendBuf \in Nat \ {0}
    /\ MaxTask \in Nat /\ MaxSegment \in Nat

ASSUME ScriptAssumption ==
    \A s \in Script :
        /\ s \in Seq(ToSet(s))
        /\ \A r \in ToSet(s) : r.keep \in BOOLEAN /\ r.form \in Seq(ToSet(r.form))

VARIABLES
    unsent,    \* peer: symbols still to be sent
    plan,      \* peer: the requests they encode (history)
    segments,  \* peer: segments sent so far
    net,       \* kernel: symbols received and not read
    room,      \* kernel: room in the send buffer
    armed,     \* kernel: epoll registration
    ready,     \* kernel: on epoll's ready list
    tasks,     \* pool: tasks of this connection
    pc,        \* worker: where the running task is
    rbuf,      \* Conn::_readBuff
    req,       \* Conn::_request
    wbuf,      \* Conn::_writeBuff
    iov,       \* Conn::_iov[0] and _iov[1]: the bytes they point to
    iovCnt,    \* Conn::_iovCnt
    closed,    \* closeConn has been called
    wire,      \* history: bytes sent to the peer
    answers,   \* history: the answers made
    doubled,   \* history: an event came while a task of the connection was under way
    seen,      \* history: the requests read ...
    torn       \* ... until a read did not find an empty buffer and one whole,
               \* well-formed request

peer   == <<unsent, plan, segments>>
epoll  == <<armed, ready>>
output == <<wbuf, iov, iovCnt>>
hist   == <<wire, answers, doubled, seen, torn>>
vars   == <<peer, net, room, epoll, tasks, pc, rbuf, req, output, closed, hist>>

-----------------------------------------------------------------------------
(* Requests *)

CR == <<"CR">>
LF == <<"LF">>
CRLF == <<CR, LF>>

FormType == "application/x-www-form-urlencoded"

(* The text of a request r: a request line that can be cut before "HTTP/",   *)
(* after it, and within the version; headers that can be cut before the      *)
(* colon; the body of a form, which no CRLF follows.                         *)
Header(n, v) == <<<<"name", n>>, <<"value", v>>>> \o CRLF
Encode(r) ==
    <<<<"start", r.method, r.path>>, <<"HTTP/1.">>, <<"1">>>> \o CRLF
    \o (IF r.keep THEN Header("Connection", "keep-alive") ELSE <<>>)
    \o (IF r.form # <<>> THEN Header("Content-Type", FormType) ELSE <<>>)
    \o CRLF \o r.form

(* A request whose method fits its body and whose body is fields key=value,  *)
(* separated by '&'; a value may be empty.                                   *)
WellFormed(r) ==
    /\ r.path # ""
    /\ r.form # <<>> => r.method = "POST"
    /\ \A i \in 1..Len(r.form) :
          \/ r.form[i] = <<"=">> \/ r.form[i][1] = "text"
          \/ /\ r.form[i] = <<"&">> /\ i + 2 <= Len(r.form)
             /\ r.form[i + 1][1] = "text" /\ r.form[i + 2] = <<"=">>

(* Request::Init *)
NoRequest == [state |-> "REQUEST_LINE", method |-> "", path |-> "", version |-> "",
              header |-> [n \in {"Connection", "Content-Type"} |-> ""],
              post |-> [k \in {} |-> <<>>], ok |-> TRUE]

IsKeepAlive(q) == q.header["Connection"] = "keep-alive" /\ q.version = "1.1"

(* std::search for CRLF: the line before it, and what follows it. *)
Ends(s) == {i \in 1..Len(s) - 1 : s[i] = CR /\ s[i + 1] = LF}
IsCut(s) == Ends(s) = {}
EndOf(s) == CHOOSE i \in Ends(s) : \A j \in Ends(s) : i <= j
Line(s) == IF IsCut(s) THEN s ELSE SubSeq(s, 1, EndOf(s) - 1)

\* Mutant of AfterLine: only the CR is skipped.
AfterLineKeepsLF(s) == IF IsCut(s) THEN s ELSE SubSeq(s, EndOf(s) + 1, Len(s))

(* A line that the end of the buffer cuts is parsed and left in the buffer. *)
AfterLine(s) == IF IsCut(s) THEN s ELSE SubSeq(s, EndOf(s) + 2, Len(s))

(* ReadableBytes() <= 2: CR, LF and the separators of a form are one byte    *)
(* long, every other symbol that can stand here is longer.                   *)
TwoBytesOrLess(s) == Len(s) <= 2 /\ \A i \in 1..Len(s) : s[i] \in {CR, LF}

DEFAULT_HTML == {"/index", "/register", "/login", "/welcome", "/video", "/picture"}
Html == [p \in DEFAULT_HTML |->
    CASE p = "/index"    -> "/index.html"    [] p = "/register" -> "/register.html"
      [] p = "/login"    -> "/login.html"    [] p = "/welcome"  -> "/welcome.html"
      [] p = "/video"    -> "/video.html"    [] p = "/picture"  -> "/picture.html"]

parsePath(p) ==
    IF p = "/" THEN "/index.html" ELSE IF p \in DEFAULT_HTML THEN Html[p] ELSE p

(* The regular expression takes any version, a truncated one or one with a   *)
(* CR behind it too.                                                         *)
IsRequestLine(l) == Len(l) >= 2 /\ l[1][1] = "start" /\ l[2] = <<"HTTP/1.">>

parseRequestLine(q, l) ==
    IF IsRequestLine(l)
    THEN [q EXCEPT !.method = l[1][2], !.path = parsePath(l[1][3]), !.state = "HEADERS",
                   !.version = IF Len(l) = 3 /\ l[3] = <<"1">> THEN "1.1" ELSE "other"]
    ELSE [q EXCEPT !.ok = FALSE]

(* A line without a colon ends the headers. *)
parseHeader(q, l) ==
    IF Len(l) >= 2 /\ l[1][1] = "name" /\ l[2][1] = "value"
    THEN [q EXCEPT !.header[l[1][2]] = IF Len(l) = 2 THEN l[2][2] ELSE "other"]
    ELSE [q EXCEPT !.state = "BODY"]

(* '=' ends a key and '&' a value, which is stored under the last key; the   *)
(* value no '&' ends is stored if its key has none yet.  Escapes are         *)
(* abstracted away with the texts.                                           *)
At(body, x, n)  == {i \in 1..n : body[i] = x}
LastOf(S)       == IF S = {} THEN 0 ELSE CHOOSE i \in S : \A j \in S : j <= i
Before(body, n) ==
    SubSeq(body, LastOf(At(body, <<"=">>, n - 1) \cup At(body, <<"&">>, n - 1)) + 1, n - 1)
Key(body, n) ==
    LET e == LastOf(At(body, <<"=">>, n - 1)) IN IF e = 0 THEN <<>> ELSE Before(body, e)

parseFromUrlencoded(body) ==
    LET amps == At(body, <<"&">>, Len(body))
        ends == amps \cup {i \in {Len(body) + 1} : Before(body, i) # <<>>}
        keys == {Key(body, i) : i \in amps}
    IN  [k \in {Key(body, i) : i \in ends} |->
            Before(body, IF k \in keys THEN LastOf({i \in amps : Key(body, i) = k})
                                       ELSE Len(body) + 1)]

DEFAULT_HTML_TAG == {"/register.html", "/login.html"}
Field(post, k) == IF <<<<"text", k>>>> \in DOMAIN post THEN post[<<<<"text", k>>>>] ELSE <<>>
IsForm(q) == q.method = "POST" /\ q.header["Content-Type"] = FormType

(* userVerify (module UserVerify): refuses an empty name or password, else   *)
(* granted or not.                                                           *)
parsePost(q, granted) ==
    IF q.path \notin DEFAULT_HTML_TAG THEN q
    ELSE [q EXCEPT !.path =
            IF granted /\ Field(q.post, "username") # <<>> /\ Field(q.post, "password") # <<>>
            THEN "/welcome.html" ELSE "/error.html"]

parseBody(q, l, granted) ==
    LET p == [q EXCEPT !.post = IF IsForm(q) THEN parseFromUrlencoded(l) ELSE @]
    IN  [(IF IsForm(q) THEN parsePost(p, granted) ELSE p) EXCEPT !.state = "FINISH"]

-----------------------------------------------------------------------------
(* Answers *)

Code == {200, 400, 403, 404}
ErrorPage == [c \in {400, 403, 404} |->
    CASE c = 400 -> "/400.html" [] c = 403 -> "/403.html" [] c = 404 -> "/404.html"]

\* Mutant of MakeResponse: a request without an error leaves the code at -1.
MakeResponseUnset(path, keep, code, mapped) ==
    LET c == IF path = "" \/ path \in Missing THEN 404 ELSE IF path \in Denied THEN 403 ELSE -1
        p == IF c \in DOMAIN ErrorPage THEN ErrorPage[c] ELSE path
    IN  [code |-> c, keep |-> keep, page |-> p, file |-> mapped /\ p \notin Empty]

(* MakeResponse: the path of a request that could not be parsed is empty,    *)
(* which names the directory itself.  The error pages exist.  mapped is      *)
(* whether the file cache returns a mapping.                                 *)
MakeResponse(path, keep, code, mapped) ==
    LET c == IF path = "" \/ path \in Missing THEN 404 ELSE IF path \in Denied THEN 403 ELSE code
        p == IF c \in DOMAIN ErrorPage THEN ErrorPage[c] ELSE path
    IN  [code |-> c, keep |-> keep, page |-> p, file |-> mapped /\ p \notin Empty]

Head_(i) == [k \in 1..HeadLen |-> <<i, k>>]
File_(i) == [k \in 1..FileLen |-> <<i, HeadLen + k>>]

(* The bytes of the answers made, and their order. *)
HeadBytes == (1..Len(answers)) \X (1..HeadLen)
FileBytes == {i \in 1..Len(answers) : answers[i].file} \X (HeadLen + 1..HeadLen + FileLen)
Precedes(b, c) == b[1] < c[1] \/ (b[1] = c[1] /\ b[2] < c[2])

-----------------------------------------------------------------------------

Init ==
    /\ plan \in Script
    /\ unsent = FlattenSeq([i \in 1..Len(plan) |-> Encode(plan[i])])
    /\ segments = 0 /\ net = <<>> /\ room = SendBuf
    /\ armed = "in" /\ ready = FALSE            \* AddFd: EPOLLIN | EPOLLET, not one-shot
    /\ tasks = <<>> /\ pc = "idle"
    /\ rbuf = <<>> /\ req = NoRequest
    /\ wbuf = <<>> /\ iov = [i \in {0, 1} |-> <<>>] /\ iovCnt = 0
    /\ closed = FALSE
    /\ wire = <<>> /\ answers = <<>> /\ doubled = FALSE /\ seen = <<>> /\ torn = FALSE

(* A segment of the peer's requests arrives; the last one is all the rest. *)
PeerSend(k) ==
    /\ ~closed
    /\ segments' = segments + 1
    /\ segments' = MaxSegment => k = Len(unsent)
    /\ net' = net \o SubSeq(unsent, 1, k)
    /\ unsent' = SubSeq(unsent, k + 1, Len(unsent))
    /\ ready' = (ready \/ armed \in {"in", "inOnce"})
    /\ UNCHANGED <<plan, room, armed, tasks, pc, rbuf, req, output, closed, hist>>

(* The peer reads k bytes. *)
PeerRead(k) ==
    /\ ~closed
    /\ room' = room + k
    /\ ready' = (ready \/ armed = "outOnce")
    /\ UNCHANGED <<peer, net, armed, tasks, pc, rbuf, req, output, closed, hist>>

\* Mutant of Event: the registration stays armed after its event.
EventStaysArmed ==
    /\ ~closed /\ ready /\ Len(tasks) < MaxTask
    /\ tasks' = Append(tasks, IF armed = "outOnce" THEN "onWrite" ELSE "onRead")
    /\ ready' = FALSE
    /\ doubled' = (doubled \/ tasks # <<>> \/ pc # "idle")
    /\ UNCHANGED <<peer, net, room, armed, pc, rbuf, req, output, closed, wire, answers, seen, torn>>

(* epoll_wait, then dealRead or dealWrite.  One-shot registrations are       *)
(* disarmed by their event.                                                  *)
Event ==
    /\ ~closed /\ ready /\ Len(tasks) < MaxTask
    /\ tasks' = Append(tasks, IF armed = "outOnce" THEN "onWrite" ELSE "onRead")
    /\ ready' = FALSE
    /\ armed' = IF armed = "in" THEN "in" ELSE "off"
    /\ doubled' = (doubled \/ tasks # <<>> \/ pc # "idle")
    /\ UNCHANGED <<peer, net, room, pc, rbuf, req, output, closed, wire, answers, seen, torn>>

-----------------------------------------------------------------------------
(* The tasks *)

(* ModFd: the descriptor is ready at once if its condition already holds. *)
ModFd(i) ==
    /\ armed' = i
    /\ ready' = IF i = "outOnce" THEN room > 0 ELSE net # <<>>

CloseConn == closed' = TRUE /\ pc' = "idle"

(* checkFdAndMatchId fails for a closed connection. *)
TakeTask ==
    /\ pc = "idle" /\ tasks # <<>>
    /\ tasks' = Tail(tasks)
    /\ pc' = IF closed THEN "idle" ELSE Head(tasks)
    /\ UNCHANGED <<peer, net, room, epoll, rbuf, req, output, closed, hist>>

(* onRead: Read takes all there is, ... *)
OnRead ==
    LET next == Len(seen) + 1 IN
    /\ pc = "onRead" /\ net # <<>>
    /\ rbuf' = rbuf \o net
    /\ net' = <<>>
    /\ torn' = (torn \/ rbuf # <<>> \/ ~(/\ next <= Len(plan) /\ WellFormed(plan[next])
                                         /\ net = Encode(plan[next])))
    /\ seen' = IF torn' THEN seen ELSE Append(seen, plan[next])
    /\ pc' = "process"
    /\ UNCHANGED <<peer, room, epoll, tasks, req, output, closed, wire, answers, doubled>>

(* ... and a read that finds nothing re-arms EPOLLIN, here without one-shot, *)
(* and closes.                                                               *)
OnReadNothing ==
    /\ pc = "onRead" /\ net = <<>>
    /\ ModFd("in")
    /\ CloseConn
    /\ UNCHANGED <<peer, net, room, tasks, rbuf, req, output, hist>>

(* onProcess with nothing to parse waits for more; ... *)
NeedMoreData ==
    /\ pc = "process" /\ rbuf = <<>>
    /\ ModFd("inOnce")
    /\ pc' = "idle"
    /\ UNCHANGED <<peer, net, room, tasks, rbuf, req, output, closed, hist>>

(* ... otherwise a request is parsed from its beginning. *)
StartParse ==
    /\ pc = "process" /\ rbuf # <<>>
    /\ req' = NoRequest
    /\ pc' = "parse"
    /\ UNCHANGED <<peer, net, room, epoll, tasks, rbuf, output, closed, hist>>

(* One turn of the loop of Request::parse gave q: a bad request line returns *)
(* with the line in the buffer, a cut line ends the loop, any other line is  *)
(* taken out, and the loop goes on while there are bytes and state # FINISH. *)
Parsed(q) ==
    /\ req' = q
    /\ rbuf' = IF req'.ok THEN AfterLine(rbuf) ELSE rbuf
    /\ pc' = IF ~req'.ok \/ IsCut(rbuf) \/ rbuf' = <<>> \/ req'.state = "FINISH"
             THEN "respond" ELSE "parse"
    /\ UNCHANGED <<peer, net, room, epoll, tasks, output, closed, hist>>

ParseRequestLine ==
    /\ pc = "parse" /\ req.state = "REQUEST_LINE"
    /\ Parsed(parseRequestLine(req, Line(rbuf)))

(* A header; nothing but a blank line in the buffer finishes the request. *)
ParseHeaders ==
    /\ pc = "parse" /\ req.state = "HEADERS"
    /\ LET q == parseHeader(req, Line(rbuf))
       IN  Parsed(IF TwoBytesOrLess(rbuf) THEN [q EXCEPT !.state = "FINISH"] ELSE q)

ParseBody(granted) ==
    /\ pc = "parse" /\ req.state = "BODY"
    /\ Parsed(parseBody(req, Line(rbuf), granted))

\* Mutant of Respond: the headers replace what is in the write buffer.
RespondOverwrites(mapped) ==
    LET i == Len(answers) + 1
        a == MakeResponse(req.path, req.ok /\ IsKeepAlive(req), IF req.ok THEN 200 ELSE 400, mapped)
    IN
    /\ pc = "respond"
    /\ answers' = Append(answers, a)
    /\ wbuf' = Head_(i)
    /\ iov' = [iov EXCEPT ![0] = wbuf', ![1] = IF a.file THEN File_(i) ELSE @]
    /\ iovCnt' = IF a.file THEN 2 ELSE 1
    /\ ModFd("outOnce")
    /\ pc' = "idle"
    /\ UNCHANGED <<peer, net, room, tasks, rbuf, req, closed, wire, doubled, seen, torn>>

(* Process after parse: the response is made and EPOLLOUT registered.  The   *)
(* second vector is set only if there is a file.                             *)
Respond(mapped) ==
    LET i == Len(answers) + 1
        a == MakeResponse(req.path, req.ok /\ IsKeepAlive(req), IF req.ok THEN 200 ELSE 400, mapped)
    IN
    /\ pc = "respond"
    /\ answers' = Append(answers, a)
    /\ wbuf' = wbuf \o Head_(i)
    /\ iov' = [iov EXCEPT ![0] = wbuf', ![1] = IF a.file THEN File_(i) ELSE @]
    /\ iovCnt' = IF a.file THEN 2 ELSE 1
    /\ ModFd("outOnce")
    /\ pc' = "idle"
    /\ UNCHANGED <<peer, net, room, tasks, rbuf, req, closed, wire, doubled, seen, torn>>

(* MakeResponse throws: ProcessResult::ERROR. *)
RespondFails ==
    /\ pc = "respond"
    /\ CloseConn
    /\ UNCHANGED <<peer, net, room, epoll, tasks, rbuf, req, output, hist>>

ToWrite(v) == v[0] \o v[1]

\* Mutant of Advance: the file is advanced by all that was written, headers included.
AdvanceByAll(v, b, n) ==
    IF n > Len(v[0])
    THEN <<[v EXCEPT ![0] = <<>>, ![1] = SubSeq(@, n + 1, Len(@))], <<>>>>
    ELSE <<[v EXCEPT ![0] = SubSeq(@, n + 1, Len(@))], SubSeq(b, n + 1, Len(b))>>

(* The vectors v and the buffer b after writev took n bytes. *)
Advance(v, b, n) ==
    IF n > Len(v[0])
    THEN <<[v EXCEPT ![0] = <<>>, ![1] = SubSeq(@, n - Len(v[0]) + 1, Len(@))], <<>>>>
    ELSE <<[v EXCEPT ![0] = SubSeq(@, n + 1, Len(@))], SubSeq(b, n + 1, Len(b))>>

(* One attempt of Conn::Write; writev takes what there is room for. *)
Writev(from, to) ==
    LET out == IF iovCnt = 2 THEN ToWrite(iov) ELSE iov[0]
        n   == IF room < Len(out) THEN room ELSE Len(out)
        adv == Advance(iov, wbuf, n)
    IN
    /\ pc = from /\ ToWrite(iov) # <<>> /\ room > 0
    /\ wire' = wire \o SubSeq(out, 1, n)
    /\ room' = room - n
    /\ iov' = adv[1] /\ wbuf' = adv[2]
    /\ pc' = IF ToWrite(iov') = <<>> THEN "written" ELSE to
    /\ UNCHANGED <<peer, net, epoll, tasks, rbuf, req, iovCnt, closed, answers, doubled, seen, torn>>

OnWrite == Writev("onWrite", "again")
OnWriteAgain == Writev("again", "written")

(* Nothing to write, or EAGAIN. *)
WriteNothing ==
    /\ pc \in {"onWrite", "again"} /\ (ToWrite(iov) = <<>> \/ room = 0)
    /\ pc' = "written"
    /\ UNCHANGED <<peer, net, room, epoll, tasks, rbuf, req, output, closed, hist>>

(* Another error of writev closes. *)
WriteError ==
    /\ pc \in {"onWrite", "again"} /\ ToWrite(iov) # <<>>
    /\ CloseConn
    /\ UNCHANGED <<peer, net, room, epoll, tasks, rbuf, req, output, hist>>

(* onWrite after Write: the next request, close, or wait to write the rest. *)
WrittenAll ==
    /\ pc = "written" /\ ToWrite(iov) = <<>>
    /\ \/ IsKeepAlive(req) /\ pc' = "process" /\ UNCHANGED closed
       \/ ~IsKeepAlive(req) /\ CloseConn
    /\ UNCHANGED <<peer, net, room, epoll, tasks, rbuf, req, output, hist>>

\* Mutant of WrittenSome: the rest is not waited for.
WrittenSomeForgets ==
    /\ pc = "written" /\ ToWrite(iov) # <<>>
    /\ pc' = "idle"
    /\ UNCHANGED <<peer, net, room, epoll, tasks, rbuf, req, output, closed, hist>>

WrittenSome ==
    /\ pc = "written" /\ ToWrite(iov) # <<>>
    /\ ModFd("outOnce")
    /\ pc' = "idle"
    /\ UNCHANGED <<peer, net, room, tasks, rbuf, req, output, closed, hist>>

-----------------------------------------------------------------------------

PeerStep == (\E k \in 1..Len(unsent) : PeerSend(k)) \/ (\E k \in 1..SendBuf - room : PeerRead(k))

Task ==
    \/ TakeTask \/ OnRead \/ OnReadNothing \/ NeedMoreData \/ StartParse
    \/ ParseRequestLine \/ ParseHeaders \/ (\E granted \in BOOLEAN : ParseBody(granted))
    \/ (\E mapped \in BOOLEAN : Respond(mapped)) \/ RespondFails
    \/ OnWrite \/ OnWriteAgain \/ WriteNothing \/ WriteError \/ WrittenAll \/ WrittenSome

Next == PeerStep \/ Event \/ Task

(* The main thread and the worker are scheduled; the peer owes nothing. *)
Fairness == WF_vars(Event) /\ WF_vars(Task)

Spec == Init /\ [][Next]_vars /\ Fairness

-----------------------------------------------------------------------------
(* Properties *)

TypeOK ==
    /\ room \in 0..SendBuf /\ iovCnt \in 0..2
    /\ armed \in {"in", "inOnce", "outOnce", "off"}
    /\ ready \in BOOLEAN /\ closed \in BOOLEAN /\ doubled \in BOOLEAN /\ torn \in BOOLEAN
    /\ \A i \in 1..Len(tasks) : tasks[i] \in {"onRead", "onWrite"}
    /\ pc \in {"idle", "onRead", "process", "parse", "respond", "onWrite", "again", "written"}
    /\ \A i \in 1..Len(answers) :
          answers[i].code \in Code /\ {answers[i].keep, answers[i].file} \subseteq BOOLEAN
    /\ req.state \in {"REQUEST_LINE", "HEADERS", "BODY", "FINISH"}

(* Whatever the partial writes, the bytes sent and those the two vectors     *)
(* still point to are the answers, one after the other, each with its        *)
(* headers before its file, nothing twice and nothing left out: Write        *)
(* advances the vectors and the buffer by what writev took.  Two tasks of    *)
(* one connection (doubled) may overwrite the second vector of an answer     *)
(* that is still being sent.                                                 *)
WireExact ==
    LET s == wire \o ToWrite(iov) IN
    /\ iov[0] = wbuf
    /\ ~doubled => /\ \A i, j \in 1..Len(s) : i < j => Precedes(s[i], s[j])
                   /\ {s[i] : i \in 1..Len(s)} = HeadBytes \cup FileBytes

(* The headers of every answer reach the wire once and in order even then:   *)
(* an answer made over an unsent one is appended to its headers.             *)
HeadsInOrder ==
    LET s     == wire \o wbuf
        heads == {i \in 1..Len(s) : s[i][2] <= HeadLen}
    IN  /\ \A i, j \in heads : i < j => Precedes(s[i], s[j])
        /\ {s[i] : i \in heads} = HeadBytes

(* The tasks of the connection, queued or running, and the one that its      *)
(* registration, if armed for one event, is still to bring.                  *)
Running  == IF pc = "idle" THEN 0 ELSE 1
Awaited  == IF armed \in {"inOnce", "outOnce"} THEN 1 ELSE 0
UnderWay == Len(tasks) + Running + Awaited

(* Tasks pile up only under the registration addClient makes, which is not   *)
(* one-shot (epoller.cpp:25).  From the first ModFd on their number does not *)
(* grow: a task comes only in the place of one that has ended and re-armed.  *)
(* One task stays the only one, which is what keeps two workers out of one   *)
(* Conn; of several that were queued by then none is ever joined by another. *)
(* Only onRead brings the first registration back, and it then closes.       *)
NoTaskAdded ==
    [][/\ armed' # "in" => UnderWay' <= UnderWay
       /\ armed' = "in" => armed = "in" \/ closed']_vars

(* The answer a whole request deserves, from the request and not its text. *)
HasField(form, k) ==
    \E i \in 1..Len(form) - 2 :
        form[i] = <<"text", k>> /\ form[i + 1] = <<"=">> /\ form[i + 2] # <<"&">>
Pages(r) ==
    IF r.form # <<>> /\ parsePath(r.path) \in DEFAULT_HTML_TAG
    THEN {"/error.html"} \cup
         {p \in {"/welcome.html"} : HasField(r.form, "username") /\ HasField(r.form, "password")}
    ELSE {parsePath(r.path)}
Deserves(r, a) ==
    \E p \in Pages(r) :
        /\ a.keep = r.keep
        /\ a.code = IF p \in Missing THEN 404 ELSE IF p \in Denied THEN 403 ELSE 200
        /\ a.page = IF p \in Missing THEN "/404.html" ELSE IF p \in Denied THEN "/403.html" ELSE p
        /\ a.file => a.page \notin Empty

(* A peer whose requests are well formed and arrive whole and one at a time  *)
(* gets, in order, the answer each deserves: status, page, keep-alive and    *)
(* the outcome of its form.  The one thing more it gets is a 404 after a     *)
(* keep-alive form: parse leaves a body that no CRLF ends in the buffer      *)
(* (request.cpp:66) and the next Process takes it for a request line.        *)
Served ==
    ~torn =>
        /\ \A i \in 1..Len(answers) : i <= Len(seen) => Deserves(seen[i], answers[i])
        /\ Len(answers) > Len(seen) =>
              /\ Len(answers) = Len(seen) + 1
              /\ seen[Len(seen)].form # <<>> /\ seen[Len(seen)].keep
              /\ answers[Len(answers)].code = 404 /\ ~answers[Len(answers)].keep

(* A connection served by one task at a time never gets stuck: if the peer   *)
(* goes on reading, what it sent is read, and what is to be sent to it is    *)
(* sent, unless the connection is closed.  Every path of onProcess and       *)
(* onWrite re-arms for what the connection waits for.                        *)
NothingStuck ==
    []<>(room > 0) =>
        /\ (net # <<>>) ~> (net = <<>> \/ closed \/ doubled)
        /\ (ToWrite(iov) # <<>>) ~> (ToWrite(iov) = <<>> \/ closed \/ doubled)

(* The output of a connection, partial writes and answers made over unsent   *)
(* ones included.                                                            *)
OutputSound == TypeOK /\ WireExact /\ HeadsInOrder
=============================================================================
