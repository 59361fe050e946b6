-------------------------- MODULE UserVerifyProofs --------------------------
(***************************************************************************)
(* Proofs about UserVerify for any finite sets of workers and connections,  *)
(* any names and passwords and any number of calls.                         *)
(***************************************************************************)
EXTENDS UserVerify, FiniteSetTheorems, SequenceTheorems, TLAPS

(* A call in progress uses a connection that was opened. *)
SqlOpened == \A t \in Using : call[t].sql \in opened

QueueOpened == connQue \in Seq(opened)

(* With a connection for every worker the queue is never popped empty. *)
NoDebt == Cardinality(opened) >= Cardinality(Worker) => debt = 0

(* What flag says of a login at each point of userVerify. *)
FlagHonest ==
    \A t \in Worker :
        /\ At(t, "select") => call[t].flag = ~call[t].isLogin
        /\ At(t, "insert") => ~call[t].isLogin
        /\ /\ At(t, "free") /\ call[t].isLogin /\ call[t].flag
           /\ call[t].row.username \in PlainName
           => Known(call[t].row)

(* The workers about to insert a name, and the insertions of it.            *)
Inserting(n) ==
    {t \in Worker : /\ At(t, "insert") /\ call[t].row.username \in PlainName
                    /\ SameName(call[t].row.username, n)}
Stored(n) == {i \in 1..Len(stored) : SameName(stored[i], n)}

(* What was stored is in the table. *)
StoredFound == \A i \in 1..Len(stored) : \E r \in rows : r.username = stored[i]

(* A name is paid for by a worker before it is inserted, and once it is     *)
(* stored nobody pays for it again.                                         *)
Paid == \A n \in PlainName : Cardinality(Stored(n)) + Cardinality(Inserting(n)) <= Cardinality(Worker)

(* The inductive invariant. *)
IInv ==
    /\ TypeOK
    /\ QueueOpened
    /\ SqlOpened
    /\ SizeRecovers
    /\ NoDebt
    /\ PoolExact
    /\ FlagHonest
    /\ LoginHonest
    /\ StoredFound
    /\ Paid

-----------------------------------------------------------------------------
(* Sets and sequences *)

LEMMA UsingFinite == IsFiniteSet(Using) /\ Cardinality(Using) \in Nat
  BY WorkerAssumption, FS_Subset, FS_CardinalityType DEF Using

LEMMA OpenedFinite ==
    ASSUME TypeOK PROVE IsFiniteSet(opened) /\ Cardinality(opened) \in Nat
  BY ConnAssumption, FS_Subset, FS_CardinalityType DEF TypeOK

LEMMA InsertingFinite ==
    ASSUME NEW n
    PROVE  /\ IsFiniteSet(Inserting(n)) /\ Cardinality(Inserting(n)) \in Nat
           /\ Cardinality(Inserting(n)) <= Cardinality(Worker)
  BY WorkerAssumption, FS_Subset, FS_CardinalityType DEF Inserting

LEMMA StoredFinite ==
    ASSUME TypeOK, NEW n
    PROVE  IsFiniteSet(Stored(n)) /\ Cardinality(Stored(n)) \in Nat
<1>1. Len(stored) \in Nat
  BY DEF TypeOK
<1>2. IsFiniteSet(1..Len(stored))
  BY <1>1, FS_Interval
<1> QED
  BY <1>2, FS_Subset, FS_CardinalityType DEF Stored

(* SqlConnector::Init queues each connection it has opened once. *)
LEMMA SetToSeqIsExact ==
    ASSUME NEW S, IsFiniteSet(S)
    PROVE  /\ SetToSeq(S) \in Seq(S) /\ Len(SetToSeq(S)) = Cardinality(S)
           /\ IsInjective(SetToSeq(S)) /\ ToSet(SetToSeq(S)) = S
<1>1. PICK f \in Bijection(1..Cardinality(S), S) : TRUE
  BY FS_CardinalityType DEF ExistsBijection
<1>2. f \in [1..Cardinality(S) -> S] /\ IsInjective(f)
  BY <1>1 DEF Bijection, Injection, IsInjective
<1> DEFINE q == SetToSeq(S)
<1>3. q \in [1..Cardinality(S) -> S] /\ IsInjective(q)
  BY <1>2 DEF SetToSeq
<1>4. Cardinality(S) \in Nat
  BY FS_CardinalityType
<1>5. q \in Seq(S) /\ Len(q) = Cardinality(S)
  BY <1>3, <1>4
<1>6. q \in Injection(1..Cardinality(S), S)
  BY <1>3 DEF Injection, IsInjective
<1>7. q \in Surjection(1..Cardinality(S), S)
  BY <1>4, <1>6, FS_Injection, FS_Interval
<1>8. ToSet(q) = S
  BY <1>3, <1>7 DEF Surjection, ToSet
<1> QED
  BY <1>3, <1>5, <1>8

(* A queue of distinct elements loses its head. *)
LEMMA TailIsExact ==
    ASSUME NEW S, NEW q \in Seq(S), q # <<>>, IsInjective(q)
    PROVE  /\ Tail(q) \in Seq(S) /\ Len(Tail(q)) = Len(q) - 1 /\ IsInjective(Tail(q))
           /\ Head(q) \in ToSet(q) /\ ToSet(Tail(q)) = ToSet(q) \ {Head(q)}
<1>1. /\ Tail(q) \in Seq(S) /\ Len(Tail(q)) = Len(q) - 1 /\ Len(q) \in Nat \ {0}
      /\ \A i \in 1..(Len(q) - 1) : Tail(q)[i] = q[i + 1]
      /\ DOMAIN q = 1..Len(q) /\ DOMAIN Tail(q) = 1..(Len(q) - 1) /\ Head(q) = q[1]
  OBVIOUS
<1>2. \A i, j \in 1..Len(q) : q[i] = q[j] => i = j
  BY <1>1 DEF IsInjective
<1>3. IsInjective(Tail(q))
  BY <1>1, <1>2 DEF IsInjective
<1>4. Head(q) \in ToSet(q)
  BY <1>1 DEF ToSet
<1>5. ASSUME NEW x \in ToSet(Tail(q)) PROVE x \in ToSet(q) \ {Head(q)}
  <2>1. PICK i \in 1..(Len(q) - 1) : x = q[i + 1]
    BY <1>1 DEF ToSet
  <2> QED
    BY <1>1, <1>2, <2>1 DEF ToSet
<1>6. ASSUME NEW x \in ToSet(q) \ {Head(q)} PROVE x \in ToSet(Tail(q))
  <2>1. PICK i \in 1..Len(q) : x = q[i]
    BY <1>1 DEF ToSet
  <2>2. i # 1 /\ i - 1 \in 1..(Len(q) - 1) /\ Tail(q)[i - 1] = x
    BY <1>1, <2>1
  <2> QED
    BY <1>1, <2>2 DEF ToSet
<1> QED
  BY <1>1, <1>3, <1>4, <1>5, <1>6

(* A queue of distinct elements gets a new one. *)
LEMMA AppendIsExact ==
    ASSUME NEW S, NEW q \in Seq(S), IsInjective(q), NEW x \in S, x \notin ToSet(q)
    PROVE  IsInjective(Append(q, x)) /\ ToSet(Append(q, x)) = ToSet(q) \cup {x}
<1>1. /\ Len(q) \in Nat /\ DOMAIN q = 1..Len(q) /\ DOMAIN Append(q, x) = 1..(Len(q) + 1)
      /\ \A i \in 1..Len(q) : Append(q, x)[i] = q[i] /\ q[i] # x
      /\ Append(q, x)[Len(q) + 1] = x
  BY DEF ToSet
<1> QED
  BY <1>1 DEF IsInjective, ToSet

-----------------------------------------------------------------------------
(* The initial states *)

LEMMA InitInv == Init => IInv
<1> SUFFICES ASSUME Init PROVE IInv
  OBVIOUS
<1>1. opened \subseteq Conn /\ IsFiniteSet(opened)
  BY ConnAssumption, FS_Subset DEF Init
<1>2. /\ connQue \in Seq(opened) /\ Len(connQue) = Cardinality(opened)
      /\ IsInjective(connQue) /\ ToSet(connQue) = opened
  BY <1>1, SetToSeqIsExact DEF Init
<1>3. NoCall \in Call
  BY RowAssumption DEF NoCall, Call, Row, NoConn
<1>4. TypeOK
  <2>1. connQue \in Seq(Conn)
    BY <1>1, <1>2, SeqMonotonic
  <2> QED
    BY <1>1, <1>3, <2>1 DEF Init, TypeOK
<1>5. \A t \in Worker : At(t, "idle")
  BY DEF Init, At, NoCall
<1>6. Using = {} /\ Cardinality(Using) = 0
  BY <1>5, FS_EmptySet DEF Using
<1>7. QueueOpened /\ SqlOpened /\ SizeRecovers /\ NoDebt /\ PoolExact
  BY <1>1, <1>2, <1>6, OpenedFinite, <1>4
     DEF QueueOpened, SqlOpened, SizeRecovers, NoDebt, PoolExact, Init
<1>8. FlagHonest /\ LoginHonest /\ StoredFound
  BY <1>5 DEF FlagHonest, LoginHonest, StoredFound, At, Init
<1>9. ASSUME NEW n \in PlainName
      PROVE  Cardinality(Stored(n)) + Cardinality(Inserting(n)) <= Cardinality(Worker)
  <2>1. Stored(n) = {} /\ Inserting(n) = {}
    BY <1>5 DEF Stored, Inserting, Init, At
  <2> QED
    BY <2>1, FS_EmptySet, WorkerAssumption, FS_CardinalityType
<1> QED
  BY <1>4, <1>7, <1>8, <1>9 DEF IInv, Paid

-----------------------------------------------------------------------------
(* Types *)

LEMMA FlagType ==
    ASSUME NEW c \in Call, NEW found PROVE Flag(c, found) \in BOOLEAN
  BY DEF Flag, Call

(* Select decides on flag and pc, and leaves the other locals alone. *)
Selected(t, flag, pc) ==
    /\ call' = [call EXCEPT ![t] = [call[t] EXCEPT !.flag = flag, !.pc = pc]]
    /\ pc = "insert" => ~call[t].isLogin
    /\ flag = FALSE \/ \E found \in Fetchable(call[t].row.username) : flag = Flag(call[t], found)

LEMMA SelectOutcome ==
    ASSUME TypeOK, NEW t \in Worker, Select(t)
    PROVE  \E flag \in BOOLEAN, pc \in {"free", "insert"} : Selected(t, flag, pc)
<1>1. call[t] \in Call
  BY DEF TypeOK
<1>2. ASSUME NEW found \in Fetchable(call[t].row.username),
             call' = [call EXCEPT ![t].flag = Flag(call[t], found),
                                  ![t].pc = IF ~call[t].isLogin /\ Flag(call[t], found)
                                            THEN "insert" ELSE "free"]
      PROVE  \E flag \in BOOLEAN, pc \in {"free", "insert"} : Selected(t, flag, pc)
  <2> DEFINE flag == Flag(call[t], found)
             pc == IF ~call[t].isLogin /\ flag THEN "insert" ELSE "free"
  <2>1. flag \in BOOLEAN /\ pc \in {"free", "insert"}
    BY <1>1, FlagType
  <2>2. call' = [call EXCEPT ![t] = [call[t] EXCEPT !.flag = flag, !.pc = pc]]
    BY <1>2 DEF TypeOK
  <2>3. Selected(t, flag, pc)
    BY <1>2, <2>2 DEF Selected
  <2> QED
    BY <2>1, <2>3
<1>3. CASE call' = [call EXCEPT ![t].flag = FALSE, ![t].pc = "free"]
  BY <1>3 DEF TypeOK, Selected
<1> QED
  BY <1>2, <1>3 DEF Select

LEMMA SelectType ==
    ASSUME TypeOK, NEW t \in Worker, Select(t)
    PROVE  call' \in [Worker -> Call]
<1>1. call[t] \in Call
  BY DEF TypeOK
<1>2. ASSUME NEW pc \in {"free", "insert"}, NEW flag \in BOOLEAN
      PROVE  [call[t] EXCEPT !.flag = flag, !.pc = pc] \in Call
  BY <1>1 DEF Call
<1> QED
  BY <1>2, SelectOutcome, ZenonT(60) DEF TypeOK, Selected

LEMMA TypeStep ==
    ASSUME TypeOK, QueueOpened, SqlOpened, [Next]_vars
    PROVE  TypeOK' /\ QueueOpened' /\ opened' = opened
<1> USE DEF TypeOK, QueueOpened
<1>1. ASSUME NEW t \in Worker, NEW row \in Row, NEW isLogin \in BOOLEAN, GetConn(t, row, isLogin)
      PROVE  TypeOK' /\ QueueOpened' /\ opened' = opened
  <2>1. PICK sql \in Conn :
          /\ PopFront(sql)
          /\ call' = [call EXCEPT ![t] = [pc |-> "select", row |-> row, isLogin |-> isLogin,
                                          sql |-> sql, flag |-> ~isLogin]]
    BY <1>1 DEF GetConn
  <2>2. [pc |-> "select", row |-> row, isLogin |-> isLogin, sql |-> sql, flag |-> ~isLogin] \in Call
    BY DEF Call
  <2>3. call' \in [Worker -> Call]
    BY <2>1, <2>2
  <2>4. connQue' \in Seq(opened) /\ connQue' \in Seq(Conn)
    BY <2>1, HeadTailProperties DEF PopFront
  <2>5. debt' \in Nat
    BY <2>1 DEF PopFront
  <2> QED
    BY <1>1, <2>3, <2>4, <2>5 DEF GetConn
<1>2. ASSUME NEW t \in Worker, Select(t)
      PROVE  TypeOK' /\ QueueOpened' /\ opened' = opened
  BY <1>2, SelectType DEF Select, pool
<1>3. ASSUME NEW t \in Worker, Insert(t)
      PROVE  TypeOK' /\ QueueOpened' /\ opened' = opened
  <2>1. call[t].row \in Row /\ [call[t] EXCEPT !.flag = TRUE, !.pc = "free"] \in Call
    BY DEF Call
  <2>2. call' \in [Worker -> Call]
    BY <1>3, <2>1 DEF Insert
  <2>3. rows' \subseteq Row
    BY <1>3, <2>1 DEF Insert, InsertRow, InsertOther
  <2>4. stored' \in Seq(PlainName)
    <3>1. ASSUME NEW name \in PlainName PROVE Append(stored, name) \in Seq(PlainName)
      BY AppendProperties
    <3> QED
      BY <1>3, <3>1 DEF Insert, InsertRow, InsertOther, IsPlain
  <2> QED
    BY <1>3, <2>2, <2>3, <2>4 DEF Insert, pool
<1>4. ASSUME NEW t \in Worker, FreeConn(t)
      PROVE  TypeOK' /\ QueueOpened' /\ opened' = opened
  <2>1. call[t].sql \in opened
    BY <1>4 DEF FreeConn, SqlOpened, Using, At
  <2>2. connQue' \in Seq(opened) /\ connQue' \in Seq(Conn)
    <3>1. Append(connQue, call[t].sql) \in Seq(opened) /\ Append(connQue, call[t].sql) \in Seq(Conn)
      BY <2>1, AppendProperties
    <3> QED
      BY <1>4, <3>1 DEF FreeConn, Push
  <2>7. debt' \in Nat
    BY <1>4 DEF FreeConn, Push
  <2>3. NoCall \in Call
    BY RowAssumption DEF NoCall, Call, Row, NoConn
  <2>4. call' \in [Worker -> Call]
    BY <1>4, <2>3 DEF FreeConn, Returns
  <2>5. [row |-> call[t].row, isLogin |-> call[t].isLogin] \in [row : Row, isLogin : BOOLEAN]
    BY DEF Call
  <2>6. verified' \subseteq [row : Row, isLogin : BOOLEAN]
    BY <1>4, <2>5 DEF FreeConn, Returns
  <2> QED
    BY <1>4, <2>2, <2>4, <2>6, <2>7 DEF FreeConn, Returns
<1>5. CASE UNCHANGED vars
  BY <1>5 DEF vars, pool
<1> QED
  BY <1>1, <1>2, <1>3, <1>4, <1>5 DEF Next

-----------------------------------------------------------------------------
(* The pool *)

(* What a step does to the workers that use a connection. *)
LEMMA GetConnUsing ==
    ASSUME TypeOK, NEW t \in Worker, NEW row, NEW isLogin, GetConn(t, row, isLogin)
    PROVE  /\ t \notin Using /\ Using' = Using \cup {t}
           /\ PopFront(call'[t].sql) /\ \A s \in Using : call'[s].sql = call[s].sql
  BY DEF TypeOK, GetConn, Using, At

LEMMA FreeConnUsing ==
    ASSUME TypeOK, NEW t \in Worker, FreeConn(t)
    PROVE  /\ t \in Using /\ Using' = Using \ {t}
           /\ Push(call[t].sql) /\ \A s \in Using' : call'[s].sql = call[s].sql
  BY DEF TypeOK, FreeConn, Returns, Using, At, NoCall

LEMMA StatementUsing ==
    ASSUME TypeOK, UNCHANGED vars \/ \E t \in Worker : Select(t) \/ Insert(t)
    PROVE  /\ Using' = Using /\ UNCHANGED pool
           /\ \A s \in Using : call'[s].sql = call[s].sql
<1>1. CASE UNCHANGED vars
  BY <1>1 DEF vars, Using, At
<1>2. ASSUME NEW t \in Worker, Select(t)
      PROVE  /\ Using' = Using /\ UNCHANGED pool
             /\ \A s \in Using : call'[s].sql = call[s].sql
  <2>1. PICK flag \in BOOLEAN, pc \in {"free", "insert"} : Selected(t, flag, pc)
    BY <1>2, SelectOutcome
  <2>2. \A s \in Worker : call'[s].sql = call[s].sql /\ (At(s, "idle")' <=> At(s, "idle"))
    BY <1>2, <2>1, ZenonT(60) DEF Selected, Select, TypeOK, Call, At
  <2> QED
    BY <1>2, <2>2 DEF Select, Using
<1>3. ASSUME NEW t \in Worker, Insert(t)
      PROVE  /\ Using' = Using /\ UNCHANGED pool
             /\ \A s \in Using : call'[s].sql = call[s].sql
  BY <1>3 DEF Insert, TypeOK, Using, At, Call
<1> QED
  BY <1>1, <1>2, <1>3

(* With a connection for every worker an idle one finds the queue filled. *)
LEMMA IdleFindsConn ==
    ASSUME TypeOK, SizeRecovers, Cardinality(opened) >= Cardinality(Worker),
           NEW t \in Worker, t \notin Using
    PROVE  connQue # <<>>
<1>1. Cardinality(Using \cup {t}) = Cardinality(Using) + 1
  BY UsingFinite, FS_AddElement
<1>2. Cardinality(Using \cup {t}) <= Cardinality(Worker) /\ Cardinality(Worker) \in Nat
  BY WorkerAssumption, FS_Subset, FS_CardinalityType DEF Using
<1> QED
  BY <1>1, <1>2, UsingFinite, OpenedFinite DEF SizeRecovers, TypeOK

LEMMA PoolStep ==
    ASSUME IInv, [Next]_vars
    PROVE  SqlOpened' /\ SizeRecovers' /\ NoDebt' /\ PoolExact'
<1> USE DEF IInv
<1>0. TypeOK' /\ QueueOpened' /\ opened' = opened
  BY TypeStep
<1>1. ASSUME NEW t \in Worker, NEW row \in Row, NEW isLogin \in BOOLEAN, GetConn(t, row, isLogin)
      PROVE  SqlOpened' /\ SizeRecovers' /\ NoDebt' /\ PoolExact'
  <2> DEFINE sql == call'[t].sql
  <2>1. /\ t \notin Using /\ Using' = Using \cup {t}
        /\ PopFront(sql) /\ \A s \in Using : call'[s].sql = call[s].sql
    BY <1>1, GetConnUsing
  <2> HIDE DEF sql
  <2>2. Cardinality(Using') = Cardinality(Using) + 1
    BY <2>1, UsingFinite, FS_AddElement
  <2>3. SqlOpened'
    <3>1. sql \in opened
      BY <2>1 DEF PopFront, QueueOpened
    <3> QED
      BY <1>0, <2>1, <3>1 DEF SqlOpened, sql
  <2>4. SizeRecovers'
    <3>1. Len(connQue) \in Nat /\ (connQue # <<>> => Len(Tail(connQue)) = Len(connQue) - 1)
      BY DEF TypeOK
    <3>2. connQue = <<>> => Len(connQue) = 0
      OBVIOUS
    <3>3. Len(connQue') - debt' = Len(connQue) - debt - 1
      BY <2>1, <3>1, <3>2 DEF PopFront, TypeOK
    <3>4. Len(connQue') \in Nat /\ debt \in Nat /\ debt' \in Nat
      BY <1>0, LenProperties DEF TypeOK
    <3>5. Len(connQue) + Cardinality(Using) = Cardinality(opened) + debt
      BY DEF SizeRecovers
    <3>6. Cardinality(Using) \in Nat /\ Cardinality(opened) \in Nat
      BY UsingFinite, OpenedFinite
    <3>7. Len(connQue') + Cardinality(Using') = Cardinality(opened) + debt'
      BY <2>2, <3>1, <3>3, <3>4, <3>5, <3>6
    <3> QED
      BY <1>0, <3>7 DEF SizeRecovers
  <2>5. ASSUME Cardinality(opened) >= Cardinality(Worker)
        PROVE  /\ debt' = 0 /\ IsInjective(connQue')
               /\ \A c \in opened : c \in ToSet(connQue') <=> ~\E s \in Using' : call'[s].sql = c
               /\ \A r, s \in Using' : r # s => call'[r].sql # call'[s].sql
    <3>1. connQue # <<>> /\ debt = 0
      BY <2>1, <2>5, IdleFindsConn DEF NoDebt
    <3>2. sql = Head(connQue) /\ connQue' = Tail(connQue) /\ debt' = debt
      BY <2>1, <3>1 DEF PopFront
    <3>3. /\ IsInjective(connQue)
          /\ \A c \in opened : c \in ToSet(connQue) <=> ~\E s \in Using : call[s].sql = c
          /\ \A r, s \in Using : r # s => call[r].sql # call[s].sql
      BY <2>5 DEF PoolExact
    <3>4. /\ IsInjective(connQue') /\ sql \in ToSet(connQue) /\ sql \in opened
          /\ ToSet(connQue') = ToSet(connQue) \ {sql}
      BY <3>1, <3>2, <3>3, TailIsExact DEF QueueOpened
    <3>5. \A s \in Using : call[s].sql # sql
      BY <3>3, <3>4
    <3>6. ASSUME NEW c \in opened
          PROVE  c \in ToSet(connQue') <=> ~\E s \in Using' : call'[s].sql = c
      BY <2>1, <3>3, <3>4, <3>5 DEF sql
    <3> QED
      BY <2>1, <3>1, <3>2, <3>4, <3>5, <3>6, <3>3 DEF sql
  <2> QED
    BY <1>0, <2>3, <2>4, <2>5 DEF NoDebt, PoolExact
<1>2. ASSUME NEW t \in Worker, FreeConn(t)
      PROVE  SqlOpened' /\ SizeRecovers' /\ NoDebt' /\ PoolExact'
  <2> DEFINE sql == call[t].sql
  <2>1. /\ t \in Using /\ Using' = Using \ {t}
        /\ Push(sql) /\ \A s \in Using' : call'[s].sql = call[s].sql
    BY <1>2, FreeConnUsing
  <2>2. Cardinality(Using') = Cardinality(Using) - 1 /\ Cardinality(Using') \in Int
    <3>1. Cardinality(Using \ {t}) = Cardinality(Using) - 1
      BY <2>1, UsingFinite, FS_RemoveElement
    <3>2. Cardinality(Using) - 1 \in Int
      BY UsingFinite
    <3> QED
      BY <2>1, <3>1, <3>2
  <2>3. sql \in opened
    BY <2>1 DEF SqlOpened
  <2>4. SqlOpened'
    BY <1>0, <2>1 DEF SqlOpened
  <2> HIDE DEF sql
  <2>5. SizeRecovers'
    <3>1. Len(connQue) \in Nat /\ Len(Append(connQue, sql)) = Len(connQue) + 1
      BY <2>3, AppendProperties DEF QueueOpened
    <3>2. Len(connQue') - debt' = Len(connQue) - debt + 1
      BY <2>1, <3>1 DEF Push, TypeOK
    <3>4. Len(connQue') \in Nat /\ debt \in Nat /\ debt' \in Nat
      BY <1>0, LenProperties DEF TypeOK
    <3>5. Len(connQue) + Cardinality(Using) = Cardinality(opened) + debt
      BY DEF SizeRecovers
    <3>6. Cardinality(Using) \in Nat /\ Cardinality(opened) \in Nat
      BY UsingFinite, OpenedFinite
    <3>7. Len(connQue') + Cardinality(Using') = Cardinality(opened) + debt'
      BY <2>2, <3>1, <3>2, <3>4, <3>5, <3>6
    <3> QED
      BY <1>0, <3>7 DEF SizeRecovers
  <2>6. ASSUME Cardinality(opened) >= Cardinality(Worker)
        PROVE  /\ debt' = 0 /\ IsInjective(connQue')
               /\ \A c \in opened : c \in ToSet(connQue') <=> ~\E s \in Using' : call'[s].sql = c
               /\ \A r, s \in Using' : r # s => call'[r].sql # call'[s].sql
    <3>1. debt = 0 /\ debt' = debt /\ connQue' = Append(connQue, sql)
      BY <2>1, <2>6 DEF NoDebt, Push
    <3>2. /\ IsInjective(connQue)
          /\ \A c \in opened : c \in ToSet(connQue) <=> ~\E s \in Using : call[s].sql = c
          /\ \A r, s \in Using : r # s => call[r].sql # call[s].sql
      BY <2>6 DEF PoolExact
    <3>3. sql \notin ToSet(connQue)
      BY <2>1, <2>3, <3>2 DEF sql
    <3>4. IsInjective(connQue') /\ ToSet(connQue') = ToSet(connQue) \cup {sql}
      BY <2>3, <3>1, <3>2, <3>3, AppendIsExact DEF QueueOpened
    <3>5. ASSUME NEW c \in opened
          PROVE  c \in ToSet(connQue') <=> ~\E s \in Using' : call'[s].sql = c
      BY <2>1, <3>2, <3>4 DEF sql
    <3> QED
      BY <2>1, <3>1, <3>2, <3>4, <3>5
  <2> QED
    BY <1>0, <2>4, <2>5, <2>6 DEF NoDebt, PoolExact
<1>3. CASE UNCHANGED vars \/ \E t \in Worker : Select(t) \/ Insert(t)
  <2>1. /\ Using' = Using /\ UNCHANGED pool
        /\ \A s \in Using : call'[s].sql = call[s].sql
    BY <1>3, StatementUsing
  <2> QED
    BY <2>1 DEF SqlOpened, SizeRecovers, NoDebt, PoolExact, pool
<1> QED
  BY <1>1, <1>2, <1>3 DEF Next

-----------------------------------------------------------------------------
(* Logins *)

(* A row that was stored stays. *)
LEMMA RowsKept ==
    ASSUME [Next]_vars PROVE rows \subseteq rows'
  BY DEF Next, GetConn, Select, Insert, InsertRow, InsertOther, FreeConn, Returns, vars

LEMMA KnownKept ==
    ASSUME [Next]_vars, NEW row, Known(row) PROVE Known(row)'
  BY RowsKept DEF Known, Matching

(* A SELECT of a login finds the row it grants. *)
LEMMA SelectHonest ==
    ASSUME TypeOK, FlagHonest, NEW t \in Worker, Select(t), call[t].isLogin, call'[t].flag,
           call[t].row.username \in PlainName
    PROVE  Known(call[t].row)
<1>1. call[t] \in Call /\ call[t].flag = FALSE
  BY DEF TypeOK, FlagHonest, Select, Call
<1>2. PICK flag \in BOOLEAN, pc \in {"free", "insert"} : Selected(t, flag, pc)
  BY SelectOutcome
<1>3. flag = TRUE
  BY <1>1, <1>2 DEF Selected, TypeOK, Call
<1>4. PICK r \in Matching(call[t].row.username) : Flag(call[t], {r})
  BY <1>1, <1>2, <1>3 DEF Selected, Flag, Fetchable
<1> QED
  BY <1>4 DEF Flag, Known

LEMMA LoginStep ==
    ASSUME TypeOK, FlagHonest, LoginHonest, [Next]_vars
    PROVE  FlagHonest' /\ LoginHonest'
<1> USE KnownKept DEF FlagHonest, LoginHonest
<1>1. ASSUME NEW t \in Worker, NEW row \in Row, NEW isLogin \in BOOLEAN, GetConn(t, row, isLogin)
      PROVE  FlagHonest' /\ LoginHonest'
  BY <1>1 DEF GetConn, TypeOK, At
<1>2. ASSUME NEW t \in Worker, Select(t)
      PROVE  FlagHonest' /\ LoginHonest'
  <2>1. PICK flag \in BOOLEAN, pc \in {"free", "insert"} : Selected(t, flag, pc)
    BY <1>2, SelectOutcome
  <2>2. UNCHANGED <<rows, verified>>
    BY <1>2 DEF Select
  <2>3. \A s \in Worker : s # t => call'[s] = call[s]
    BY <2>1 DEF TypeOK, Selected
  <2>4. /\ call'[t].isLogin = call[t].isLogin /\ call'[t].row = call[t].row
        /\ call'[t].pc \in {"free", "insert"}
    BY <2>1 DEF TypeOK, Call, Selected
  <2>5. call'[t].pc = "insert" => ~call[t].isLogin
    BY <2>1 DEF Selected, TypeOK, Call
  <2> QED
    BY <1>2, <2>2, <2>3, <2>4, <2>5, SelectHonest DEF At
<1>3. ASSUME NEW t \in Worker, Insert(t)
      PROVE  FlagHonest' /\ LoginHonest'
  BY <1>3 DEF Insert, TypeOK, At, Call
<1>4. ASSUME NEW t \in Worker, FreeConn(t)
      PROVE  FlagHonest' /\ LoginHonest'
  BY <1>4 DEF FreeConn, Returns, TypeOK, At, Call, NoCall
<1>5. CASE UNCHANGED vars
  BY <1>5 DEF vars, At
<1> QED
  BY <1>1, <1>2, <1>3, <1>4, <1>5 DEF Next

-----------------------------------------------------------------------------
(* Registrations *)

LEMMA InsertStored ==
    ASSUME TypeOK, NEW m \in PlainName, stored' = Append(stored, m), NEW n
    PROVE  /\ SameName(m, n) => Cardinality(Stored(n)') = Cardinality(Stored(n)) + 1
           /\ ~SameName(m, n) => Stored(n)' = Stored(n)
<1>1. /\ Len(stored) \in Nat /\ Len(stored') = Len(stored) + 1 /\ stored'[Len(stored) + 1] = m
      /\ \A i \in 1..Len(stored) : stored'[i] = stored[i]
  BY DEF TypeOK
<1>2. ~SameName(m, n) => Stored(n)' = Stored(n)
  BY <1>1 DEF Stored
<1>3. ASSUME SameName(m, n) PROVE Cardinality(Stored(n)') = Cardinality(Stored(n)) + 1
  <2>1. Stored(n)' = Stored(n) \cup {Len(stored) + 1} /\ Len(stored) + 1 \notin Stored(n)
    BY <1>1, <1>3 DEF Stored
  <2> QED
    BY <2>1, StoredFinite, FS_AddElement
<1> QED
  BY <1>2, <1>3

(* A worker passes its SELECT only if the name is not stored. *)
LEMMA SelectPasses ==
    ASSUME TypeOK, FlagHonest, NEW t \in Worker, Select(t), call'[t].pc = "insert",
           call[t].row.username \in PlainName
    PROVE  Matching(call[t].row.username) = {}
<1>1. call[t] \in Call
  BY DEF TypeOK
<1>2. PICK found \in Fetchable(call[t].row.username) :
        call' = [call EXCEPT ![t].flag = Flag(call[t], found),
                             ![t].pc = IF ~call[t].isLogin /\ Flag(call[t], found)
                                       THEN "insert" ELSE "free"]
  <2>1. call' # [call EXCEPT ![t].flag = FALSE, ![t].pc = "free"]
    BY <1>1 DEF TypeOK, Call
  <2> QED
    BY <2>1 DEF Select
<1>3. ~call[t].isLogin /\ Flag(call[t], found)
  BY <1>1, <1>2 DEF TypeOK, Call
<1>4. found = {}
  BY <1>3 DEF Flag
<1> QED
  BY <1>2, <1>4 DEF Fetchable

LEMMA StoredFoundStep ==
    ASSUME TypeOK, StoredFound, [Next]_vars
    PROVE  StoredFound'
<1>1. CASE stored' = stored
  BY <1>1, RowsKept DEF StoredFound
<1>2. ASSUME NEW row \in Row, InsertRow(row)
      PROVE  StoredFound'
  <2>1. /\ Len(stored) \in Nat /\ Len(stored') = Len(stored) + 1
        /\ stored'[Len(stored) + 1] = row.username
        /\ \A i \in 1..Len(stored) : stored'[i] = stored[i]
    BY <1>2 DEF InsertRow, TypeOK
  <2> QED
    BY <1>2, <2>1 DEF StoredFound, InsertRow
<1>3. stored' = stored \/ \E t \in Worker : InsertRow(call[t].row)
  BY DEF Next, GetConn, Select, Insert, InsertOther, FreeConn, Returns, vars
<1> QED
  BY <1>1, <1>2, <1>3 DEF TypeOK, Call

LEMMA PaidStep ==
    ASSUME TypeOK, FlagHonest, StoredFound, Paid, [Next]_vars
    PROVE  Paid'
<1> SUFFICES ASSUME NEW n \in PlainName
             PROVE  Cardinality(Stored(n)') + Cardinality(Inserting(n)') <= Cardinality(Worker)
  BY DEF Paid
<1>1. /\ Cardinality(Stored(n)) + Cardinality(Inserting(n)) <= Cardinality(Worker)
      /\ Cardinality(Worker) \in Nat
  BY WorkerAssumption, FS_CardinalityType DEF Paid
<1>2. ASSUME Inserting(n)' \subseteq Inserting(n), stored' = stored
      PROVE  Cardinality(Stored(n)') + Cardinality(Inserting(n)') <= Cardinality(Worker)
  <2>1. Stored(n)' = Stored(n)
    BY <1>2 DEF Stored
  <2>2. Cardinality(Inserting(n)') <= Cardinality(Inserting(n)) /\ Cardinality(Inserting(n)') \in Nat
    BY <1>2, InsertingFinite, FS_Subset, FS_CardinalityType
  <2> QED
    BY <1>1, <2>1, <2>2, InsertingFinite, StoredFinite
<1>3. ASSUME NEW t \in Worker, NEW row \in Row, NEW isLogin \in BOOLEAN, GetConn(t, row, isLogin)
      PROVE  Inserting(n)' \subseteq Inserting(n) /\ stored' = stored
  BY <1>3 DEF GetConn, Inserting, TypeOK, At
<1>4. ASSUME NEW t \in Worker, Select(t)
      PROVE  Cardinality(Stored(n)') + Cardinality(Inserting(n)') <= Cardinality(Worker)
  <2>1. PICK flag \in BOOLEAN, pc \in {"free", "insert"} : Selected(t, flag, pc)
    BY <1>4, SelectOutcome
  <2>2. \A s \in Worker : /\ s # t => call'[s] = call[s]
                          /\ call'[s].row = call[s].row
    BY <2>1 DEF TypeOK, Call, Selected
  <2>3. stored' = stored /\ Stored(n)' = Stored(n)
    BY <1>4 DEF Select, Stored
  <2> DEFINE passes == /\ call'[t].pc = "insert" /\ call[t].row.username \in PlainName
                       /\ SameName(call[t].row.username, n)
  <2>4. CASE passes
    <3>1. Matching(n) = {}
      BY <1>4, <2>4, SelectPasses DEF Matching, SameName
    <3>2. Stored(n) = {}
      BY <3>1 DEF Stored, StoredFound, Matching, SameName
    <3>3. Inserting(n)' \subseteq Worker
      BY DEF Inserting
    <3>4. Cardinality(Inserting(n)') <= Cardinality(Worker) /\ Cardinality(Inserting(n)') \in Nat
      BY <3>3, WorkerAssumption, FS_Subset, FS_CardinalityType
    <3> QED
      BY <1>1, <2>3, <3>2, <3>4, FS_EmptySet
  <2>5. CASE ~passes
    <3>1. Inserting(n)' \subseteq Inserting(n)
      BY <2>2, <2>5 DEF Inserting, At
    <3> QED
      BY <1>2, <2>3, <3>1
  <2> QED
    BY <2>4, <2>5
<1>5. ASSUME NEW t \in Worker, Insert(t)
      PROVE  Cardinality(Stored(n)') + Cardinality(Inserting(n)') <= Cardinality(Worker)
  <2>1. call[t].row \in Row
    BY DEF TypeOK, Call
  <2>2. \A s \in Worker : /\ s # t => call'[s] = call[s]
                          /\ call'[s].row = call[s].row
    BY <1>5 DEF Insert, TypeOK, Call
  <2>3. call[t].pc = "insert" /\ call'[t].pc = "free"
    BY <1>5 DEF Insert, At, TypeOK, Call
  <2>4. Inserting(n)' = Inserting(n) \ {t}
    BY <2>2, <2>3 DEF Inserting, At
  <2> DEFINE name == call[t].row.username
  <2>5. CASE InsertRow(call[t].row) /\ SameName(name, n)
    <3>1. t \in Inserting(n)
      BY <2>3, <2>5 DEF Inserting, InsertRow, IsPlain, At
    <3>2. Cardinality(Inserting(n) \ {t}) = Cardinality(Inserting(n)) - 1
      BY <3>1, InsertingFinite, FS_RemoveElement
    <3>3. Cardinality(Stored(n)') = Cardinality(Stored(n)) + 1
      BY <2>5, InsertStored DEF InsertRow, IsPlain
    <3> QED
      BY <1>1, <2>4, <3>2, <3>3, InsertingFinite, StoredFinite
  <2>6. CASE InsertRow(call[t].row) /\ ~SameName(name, n)
    <3>1. Stored(n)' = Stored(n)
      BY <2>6, InsertStored DEF InsertRow, IsPlain
    <3>2. Inserting(n)' = Inserting(n)
      BY <2>4, <2>6 DEF Inserting
    <3> QED
      BY <1>1, <3>1, <3>2
  <2>7. CASE stored' = stored
    BY <1>2, <2>4, <2>7
  <2> QED
    BY <1>5, <2>5, <2>6, <2>7 DEF Insert, InsertOther
<1>6. ASSUME NEW t \in Worker, FreeConn(t)
      PROVE  Inserting(n)' \subseteq Inserting(n) /\ stored' = stored
  BY <1>6 DEF FreeConn, Returns, Inserting, TypeOK, At, NoCall
<1>7. CASE UNCHANGED vars
  <2>1. Inserting(n)' \subseteq Inserting(n) /\ stored' = stored
    BY <1>7 DEF vars, Inserting, At
  <2> QED
    BY <1>2, <2>1
<1> QED
  BY <1>2, <1>3, <1>4, <1>5, <1>6, <1>7 DEF Next

-----------------------------------------------------------------------------

LEMMA InvStep == IInv /\ [Next]_vars => IInv'
  BY TypeStep, PoolStep, LoginStep, StoredFoundStep, PaidStep DEF IInv

LEMMA Invariance == Spec => []IInv
  BY InitInv, InvStep, PTL DEF Spec

(* The pool of SqlConnector, for any number of workers and connections and   *)
(* whatever fails to open: with a connection for every worker each is queued *)
(* or used by exactly one of them, and with too few, when GetConn pops an    *)
(* empty queue, the size still recovers as the calls return.                 *)
THEOREM PoolIsSound == Spec => []PoolSound
<1>1. IInv => PoolSound
  BY DEF IInv, PoolSound
<1> QED
  BY <1>1, Invariance, PTL

(* userVerify grants a plain name no login but with a password the table has *)
(* for it, whatever the texts of the other calls make of their statements.   *)
THEOREM LoginsAreHonest == Spec => []LoginHonest
<1>1. IInv => LoginHonest
  BY DEF IInv
<1> QED
  BY <1>1, Invariance, PTL

(* SELECT and INSERT being two statements, plain INSERTs store a name at     *)
(* most once for every worker, also beside INSERTs that add any other rows.  *)
THEOREM StoredOnceAWorker == Spec => []OnceAWorker
<1>1. IInv => OnceAWorker
  <2> SUFFICES ASSUME IInv, NEW n \in PlainName
               PROVE  Cardinality(Stored(n)) <= Cardinality(Worker)
    BY DEF OnceAWorker, Stored
  <2>1. Cardinality(Stored(n)) + Cardinality(Inserting(n)) <= Cardinality(Worker)
    BY DEF IInv, Paid
  <2> QED
    BY <2>1, InsertingFinite, StoredFinite, WorkerAssumption, FS_CardinalityType DEF IInv
<1> QED
  BY <1>1, Invariance, PTL
=============================================================================
