----------------------------- MODULE UserVerify -----------------------------
(***************************************************************************)
(* The database side of a login or registration: the connection pool       *)
(* SqlConnector (src/database/sql_connector.cpp), its guard SqlConnRAII,   *)
(* and Request::userVerify (src/http/request.cpp), which the workers run   *)
(* concurrently against the table `user` of database/bootstrap.sql.        *)
(*                                                                         *)
(* GetConn, each SQL statement and FreeConn are steps.  GetConn does not   *)
(* wait when the pool is empty: it takes front() and pop() of an empty     *)
(* std::queue.  With libstdc++'s deque the front is then whatever the slot *)
(* holds, possibly a connection that was in the slot before, and the pop   *)
(* moves the start past the end, so that the next push is out of reach     *)
(* (debt).  A slot without a valid pointer is a crash, which only cuts a   *)
(* behaviour short.                                                        *)
(*                                                                         *)
(* The statements are built by snprintf from the name and the password as  *)
(* they are, into 256 bytes.  A text is plain if it stands for itself      *)
(* there and in the table: a string literal, not cut short, that the       *)
(* column gives back unchanged.  With another text the statement is some   *)
(* other one: a SELECT that fails or returns anything, an INSERT that adds *)
(* any rows or none.  The table is searched by its collation, passwords    *)
(* are compared as they are.                                               *)
(***************************************************************************)
EXTENDS Naturals, Sequences, FiniteSets, SequencesExt

CONSTANTS
    Worker,        \* the threads that verify users
    Conn,          \* the MYSQL connections Init tries to open
    Name,          \* user names, none of them empty
    Password,      \* passwords, none of them empty
    PlainName,     \* the names that are plain
    PlainPassword, \* the passwords that are plain
    Folded,        \* what the collation of column username compares of each name
    MaxCalls,      \* bound: calls of userVerify
    ConnectFails,  \* whether mysql_init or mysql_real_connect may fail
    SqlFails       \* whether a statement may fail

ASSUME WorkerAssumption == IsFiniteSet(Worker)
ASSUME RowAssumption == Name # {} /\ Password # {}
ASSUME PlainAssumption == PlainName \subseteq Name /\ PlainPassword \subseteq Password
ASSUME ConnAssumption == IsFiniteSet(Conn) /\ "none" \notin Conn
ASSUME MaxCallsAssumption == MaxCalls \in Nat
ASSUME FailsAssumption == ConnectFails \in BOOLEAN /\ SqlFails \in BOOLEAN

NoConn == "none"

VARIABLES
    opened,     \* the connections Init has opened
    connQue,    \* _connQue
    debt,       \* pops of an empty _connQue that no push has made up for
    rows,       \* the rows of table user, equal ones counted once
    calls,      \* calls of userVerify so far
    call,       \* control state and locals of each worker's userVerify
    verified,   \* history: the calls that returned true
    stored      \* history: the names that INSERTs of plain text have stored, in order

pool == <<opened, connQue, debt>>
vars == <<pool, rows, calls, call, verified, stored>>

Row  == [username : Name, password : Password]
Call == [pc : {"idle", "select", "insert", "free"}, row : Row, isLogin : BOOLEAN,
         sql : Conn \cup {NoConn}, flag : BOOLEAN]

TypeOK ==
    /\ opened \subseteq Conn /\ connQue \in Seq(Conn) /\ debt \in Nat
    /\ rows \subseteq Row /\ calls \in Nat
    /\ call \in [Worker -> Call]
    /\ verified \subseteq [row : Row, isLogin : BOOLEAN]
    /\ stored \in Seq(PlainName)

NoCall == [pc |-> "idle", row |-> [username |-> CHOOSE n \in Name : TRUE,
                                   password |-> CHOOSE p \in Password : TRUE],
           isLogin |-> FALSE, sql |-> NoConn, flag |-> FALSE]

(* SqlConnector::Init: a connection that cannot be opened is skipped. *)
Init ==
    /\ opened \in IF ConnectFails THEN SUBSET Conn ELSE {Conn}
    /\ connQue = SetToSeq(opened)
    /\ debt = 0
    /\ rows = {} /\ calls = 0
    /\ call = [t \in Worker |-> NoCall]
    /\ verified = {} /\ stored = <<>>

-----------------------------------------------------------------------------
(* SqlConnector *)

\* Mutant of PopFront: the connection is handed out and stays in the queue.
PopFrontKeeps(sql) == connQue # <<>> /\ sql = Head(connQue) /\ UNCHANGED <<connQue, debt>>

(* sql = _connQue.front(); _connQue.pop(); *)
PopFront(sql) ==
    \/ connQue # <<>> /\ sql = Head(connQue) /\ connQue' = Tail(connQue) /\ UNCHANGED debt
    \/ connQue = <<>> /\ sql \in opened /\ debt' = debt + 1 /\ UNCHANGED connQue

Push(sql) ==
    \/ debt = 0 /\ connQue' = Append(connQue, sql) /\ UNCHANGED debt
    \/ debt > 0 /\ debt' = debt - 1 /\ UNCHANGED connQue

-----------------------------------------------------------------------------
(* userVerify *)

At(t, pc) == call[t].pc = pc

(* userVerify with a name and a password; SqlConnRAII calls GetConn. *)
GetConn(t, row, isLogin) ==
    /\ At(t, "idle")
    /\ calls < MaxCalls
    /\ calls' = calls + 1
    /\ \E sql \in Conn :
         /\ PopFront(sql)
         /\ call' = [call EXCEPT ![t] = [pc |-> "select", row |-> row, isLogin |-> isLogin,
                                         sql |-> sql, flag |-> ~isLogin]]
    /\ UNCHANGED <<opened, rows, verified, stored>>

SameName(m, n) == Folded[m] = Folded[n]

(* The rows of a name, of which LIMIT 1 returns any. *)
Matching(name) == {r \in rows : SameName(r.username, name)}

(* What SELECT ... WHERE username='name' LIMIT 1 fetches, if it succeeds.   *)
Fetchable(name) ==
    IF name \in PlainName
    THEN IF Matching(name) = {} THEN {{}} ELSE {{r} : r \in Matching(name)}
    ELSE {{}} \cup {{r} : r \in Row}

\* Mutant of Flag: a name that is not in the table is accepted.
FlagUnknown(c, found) ==
    IF found = {} THEN TRUE ELSE c.isLogin /\ \A r \in found : r.password = c.row.password

\* Mutant of Flag: a registration does not mind that the name is in use.
FlagReusesName(c, found) ==
    IF found = {} THEN c.flag ELSE c.isLogin => \A r \in found : r.password = c.row.password

(* What userVerify makes of the rows fetched. *)
Flag(c, found) ==
    IF found = {} THEN c.flag ELSE c.isLogin /\ \A r \in found : r.password = c.row.password

Select(t) ==
    LET c == call[t]
        Fetched(found) ==
            call' = [call EXCEPT ![t].flag = Flag(c, found),
                                 ![t].pc = IF ~c.isLogin /\ Flag(c, found) THEN "insert" ELSE "free"]
    IN
    /\ At(t, "select")
    /\ \/ /\ SqlFails \/ c.row.username \notin PlainName
          /\ call' = [call EXCEPT ![t].flag = FALSE, ![t].pc = "free"]
       \/ \E found \in Fetchable(c.row.username) : Fetched(found)
    /\ UNCHANGED <<pool, rows, calls, verified, stored>>

IsPlain(row) == row.username \in PlainName /\ row.password \in PlainPassword

InsertRow(row) ==
    /\ IsPlain(row)
    /\ rows' = rows \cup {row}
    /\ stored' = Append(stored, row.username)

(* The text makes it another INSERT.  The table has no key, so that even    *)
(* such a one only adds.                                                    *)
InsertOther(row) ==
    /\ ~IsPlain(row)
    /\ \E more \in SUBSET Row : rows' = rows \cup more
    /\ UNCHANGED stored

(* INSERT; flag is true whether or not it fails. *)
Insert(t) ==
    /\ At(t, "insert")
    /\ \/ InsertRow(call[t].row) \/ InsertOther(call[t].row)
       \/ SqlFails /\ UNCHANGED <<rows, stored>>
    /\ call' = [call EXCEPT ![t].flag = TRUE, ![t].pc = "free"]
    /\ UNCHANGED <<pool, calls, verified>>

(* The call is over and returns flag. *)
Returns(t) ==
    /\ call' = [call EXCEPT ![t] = NoCall]
    /\ verified' = IF call[t].flag
                   THEN verified \cup {[row |-> call[t].row, isLogin |-> call[t].isLogin]}
                   ELSE verified
    /\ UNCHANGED <<opened, rows, calls, stored>>

\* Mutant of FreeConn: the connection is not given back.
FreeConnForgets(t) == At(t, "free") /\ Returns(t) /\ UNCHANGED <<connQue, debt>>

\* Mutant of FreeConn: the guard gives back its cleared pointer.
FreeConnNull(t) == At(t, "free") /\ Push(NoConn) /\ Returns(t)

(* userVerify returns, and ~SqlConnRAII gives the connection back. *)
FreeConn(t) == At(t, "free") /\ Push(call[t].sql) /\ Returns(t)

Next == \E t \in Worker :
    \/ \E row \in Row, isLogin \in BOOLEAN : GetConn(t, row, isLogin)
    \/ Select(t) \/ Insert(t) \/ FreeConn(t)

Spec == Init /\ [][Next]_vars

-----------------------------------------------------------------------------

Using == {t \in Worker : ~At(t, "idle")}

(* With a connection for every worker none is lost or handed out twice: each *)
(* one that was opened is either queued, once, or used by exactly one worker.*)
PoolExact ==
  Cardinality(opened) >= Cardinality(Worker) =>
    /\ IsInjective(connQue)
    /\ \A c \in opened : c \in ToSet(connQue) <=> ~\E t \in Using : call[t].sql = c
    /\ \A s, t \in Using : s # t => call[s].sql # call[t].sql

(* Even when more workers verify than there are connections, the size of the *)
(* queue, counted below zero as the deque counts it, makes up for the calls  *)
(* in progress: the pool is full again when they have returned.              *)
SizeRecovers == Len(connQue) + Cardinality(Using) = Cardinality(opened) + debt

Known(row) == \E r \in Matching(row.username) : r.password = row.password

(* A login that was granted to a plain name is for a user in the table with  *)
(* that password: whatever other calls ran between the SELECT and the        *)
(* answer, failed, or had a text that made another statement of theirs.  Of  *)
(* logins under a name that is not plain nothing is claimed.                 *)
LoginHonest ==
    \A v \in verified : v.isLogin /\ v.row.username \in PlainName => Known(v.row)

(* request.cpp:250: a registration inserts only a name that is not in use.   *)
(* SELECT and INSERT being two statements, registrations that overlap may    *)
(* all insert, but only those: each must have passed its SELECT before the   *)
(* first of them inserted.  So plain INSERTs store a name, as the collation  *)
(* compares it, at most once per worker, whatever others add.                *)
OnceAWorker ==
    \A n \in PlainName :
        Cardinality({i \in 1..Len(stored) : SameName(stored[i], n)}) <= Cardinality(Worker)

(* The bookkeeping of the pool, with enough connections and with too few. *)
PoolSound == TypeOK /\ PoolExact /\ SizeRecovers
=============================================================================
