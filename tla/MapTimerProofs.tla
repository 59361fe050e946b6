--------------------------- MODULE MapTimerProofs ---------------------------
(***************************************************************************)
(* Proofs about MapTimer for any callers, keys, timeouts and repeats, any   *)
(* limit of a round and any number of timers: what TimersSound says, by an  *)
(* inductive invariant, and NotEarly, by the weight of the nodes: a node    *)
(* weighs what it can still run, and no step but the one that schedules a   *)
(* timer raises the weight of its nodes and its runs together.              *)
(***************************************************************************)
EXTENDS MapTimer, SequenceTheorems, FiniteSetTheorems, TLAPS

Elems(s)  == {s[j] : j \in 1..Len(s)}
Sorted(s) == \A j, k \in 1..Len(s) : j <= k => s[j].time <= s[k].time
Busy      == {"wrap", "run", "after", "catch", "back"}
Working   == Busy \cup {"check"}

(* Timer i is the one its key names. *)
Mine(i) == info[i].key # NoKey /\ keyToTimerId[info[i].key] = i

(* The Tick thread is at one of the places P of an execution of timer i. *)
At(i, P) == pc \in P /\ Cur.id = i

(* The multimap is in order, and a round in progress has nodes left. *)
Ordered == Sorted(timers) /\ (pc \in Working => batch # <<>>)

(* An id that was not given out yet has left no trace. *)
Issued ==
    /\ \A i \in Id : i >= nextId => info[i].key = NoKey /\ repeats[i] = 0 /\ runs[i] = 0 /\ late[i] = 0
    /\ \A k \in Key : keyToTimerId[k] < nextId

(* A node, also one that is left of a cancelled timer, belongs to a timer    *)
(* that was scheduled, has its period and is not due before the first of it. *)
GoodNode(n) ==
    /\ n.id < nextId
    /\ n.repeat # 0 => n.id # Dummy /\ info[n.id].repeat # 0
    /\ n.id # Dummy => n.period = info[n.id].ms /\ n.time >= info[n.id].start + info[n.id].ms

Nodes ==
    /\ \A n \in Elems(timers) : GoodNode(n)
    /\ \A n \in Elems(batch) : GoodNode(n) /\ n.time <= now
    /\ pc \in Busy => Cur.repeat # 0
    /\ pc \in {"after", "catch"} => CurKey # NoKey

(* The count of a keyed timer: as long as its key names it, what is left and *)
(* what has run make up what was asked for, one of them counted twice        *)
(* between the callback and the critical section after it; when the key is   *)
(* another's, at most one execution is still to come.                        *)
CountedAt(i) ==
    info[i].key # NoKey =>
        /\ Mine(i) /\ info[i].repeat # 0 => repeats[i] # 0
        /\ Mine(i) /\ info[i].repeat > 0 =>
               /\ repeats[i] > 0
               /\ runs[i] + repeats[i] = info[i].repeat + (IF At(i, {"after", "catch"}) THEN 1 ELSE 0)
        /\ ~Mine(i) /\ info[i].repeat > 0 =>
               /\ runs[i] <= info[i].repeat
               /\ At(i, {"wrap", "run"}) => runs[i] < info[i].repeat

(* A timer that is over is not its key's, but for one whose exception is     *)
(* being handled; one that ran after that has no execution under way.        *)
EndedAt(i) ==
    /\ i < nextId /\ info[i].key = NoKey => ~info[i].ended
    /\ info[i].key # NoKey /\ info[i].ended => ~Mine(i) \/ At(i, {"catch"})
    /\ late[i] > 0 => late[i] = 1 /\ info[i].ended /\ ~At(i, {"wrap", "run"})

(* The inductive invariant. *)
IInv ==
    /\ TypeOK /\ Ordered /\ Nodes
    /\ Issued /\ TablesInStep /\ NotBefore
    /\ \A i \in Id : CountedAt(i) /\ EndedAt(i)

-----------------------------------------------------------------------------
(* The multimap *)

(* A set of numbers up to n has a largest one. *)
LEMMA Largest ==
    ASSUME NEW n \in Nat, NEW T \in SUBSET (1..n), T # {}
    PROVE  \E m \in T : \A j \in T : j <= m
<1> DEFINE R == OpToRel(<, Nat)
           M == {n - j : j \in T}
<1>1. IsWellFoundedOn(R, Nat)
  BY NatLessThanWellFounded
<1>2. M \subseteq Nat /\ M # {}
  <2>1. \A j \in T : j \in 1..n
    OBVIOUS
  <2>2. \A j \in T : n - j \in Nat
    BY <2>1
  <2> QED
    BY <2>2
<1>3. PICK x \in M : \A y \in M : ~(<<y, x>> \in R)
  <2> HIDE DEF M, R
  <2> QED
    BY <1>1, <1>2, WFMin
<1>4. \A y \in M : ~(y < x)
  <2>1. \A y \in Nat : y < x => <<y, x>> \in R
    BY <1>2, <1>3 DEF OpToRel
  <2> HIDE DEF M, R
  <2> QED
    BY <1>2, <1>3, <2>1
<1>5. PICK m \in T : x = n - m
  BY <1>3
<1>6. \A j \in T : j <= m
  BY <1>4, <1>5
<1> QED
  BY <1>6

(* Insert keeps the order, and every node of the result is the new one or    *)
(* was there before.                                                         *)
LEMMA InsertProperties ==
    ASSUME NEW s \in Seq(Node), NEW n \in Node
    PROVE  /\ Insert(s, n) \in Seq(Node)
           /\ Elems(Insert(s, n)) \subseteq Elems(s) \cup {n}
           /\ Sorted(s) => Sorted(Insert(s, n))
<1> DEFINE before == {i \in 1..Len(s) : s[i].time <= n.time}
           choice == IF before = {} THEN 0 ELSE CHOOSE i \in before : \A j \in before : j <= i
<1>0. Len(s) \in Nat /\ (\A j \in 1..Len(s) : s[j] \in Node /\ s[j].time \in Int) /\ n.time \in Int
  <2>1. \A x \in Node : x.time \in Int
    BY DEF Node
  <2>2. Len(s) \in Nat /\ \A j \in 1..Len(s) : s[j] \in Node
    BY LenProperties, ElementOfSeq
  <2> QED
    BY <2>1, <2>2
<1>1. PICK k : k = choice
  OBVIOUS
<1>2. k \in 0..Len(s) /\ (\A j \in before : j <= k) /\ (k # 0 => k \in before)
  <2>1. CASE before = {}
    BY <1>0, <1>1, <2>1
  <2>2. CASE before # {}
    <3>1. \E m \in before : \A j \in before : j <= m
      BY <1>0, <2>2, Largest
    <3>2. k \in before /\ \A j \in before : j <= k
      BY <1>1, <2>2, <3>1
    <3> QED
      BY <1>0, <3>2
  <2> QED
    BY <2>1, <2>2
<1> DEFINE a == SubSeq(s, 1, k)
           b == SubSeq(s, k + 1, Len(s))
           r == a \o <<n>> \o b
<1>3. Insert(s, n) = r
  BY <1>1 DEF Insert
<1>4. /\ a \in Seq(Node) /\ Len(a) = k /\ (\A j \in 1..k : a[j] = s[j])
      /\ b \in Seq(Node) /\ Len(b) = Len(s) - k /\ (\A j \in 1..Len(s) - k : b[j] = s[k + j])
  <2>1. \A j \in 1..k : s[j] \in Node
    BY <1>0, <1>2
  <2>2. \A j \in k + 1..Len(s) : s[j] \in Node
    BY <1>0, <1>2
  <2>3. a \in Seq(Node) /\ Len(a) = k /\ (\A j \in 1..k : a[j] = s[j])
    BY <1>0, <1>2, <2>1, SubSeqProperties
  <2>4. b \in Seq(Node) /\ Len(b) = Len(s) - k /\ (\A j \in 1..Len(s) - k : b[j] = s[k + 1 + j - 1])
    BY <1>0, <1>2, <2>2, SubSeqProperties
  <2> QED
    BY <1>0, <1>2, <2>3, <2>4
<1> HIDE DEF a, b
<1>5. a \o <<n>> \in Seq(Node) /\ Len(a \o <<n>>) = k + 1
  BY <1>2, <1>4
<1>6. \A j \in 1..k + 1 : (a \o <<n>>)[j] = IF j <= k THEN s[j] ELSE n
  BY <1>2, <1>4
<1>7. /\ r \in Seq(Node) /\ Len(r) = Len(s) + 1
      /\ \A j \in 1..Len(s) + 1 : r[j] = IF j <= k + 1 THEN (a \o <<n>>)[j] ELSE b[j - (k + 1)]
  <2>1. r \in Seq(Node) /\ Len(r) = Len(a \o <<n>>) + Len(b)
    BY <1>4, <1>5, ConcatProperties
  <2>2. \A j \in 1..Len(a \o <<n>>) + Len(b) :
            r[j] = IF j <= Len(a \o <<n>>) THEN (a \o <<n>>)[j] ELSE b[j - Len(a \o <<n>>)]
    BY <1>4, <1>5, ConcatProperties
  <2> QED
    BY <1>0, <1>2, <1>4, <1>5, <2>1, <2>2
<1> HIDE DEF r
<1>8. \A j \in 1..Len(s) + 1 : r[j] = IF j <= k THEN s[j] ELSE IF j = k + 1 THEN n ELSE s[j - 1]
  <2> SUFFICES ASSUME NEW j \in 1..Len(s) + 1
               PROVE  r[j] = IF j <= k THEN s[j] ELSE IF j = k + 1 THEN n ELSE s[j - 1]
    OBVIOUS
  <2>0. Len(s) \in Nat /\ k \in 0..Len(s) /\ j \in 1..Len(s) + 1
    BY <1>0, <1>2
  <2> HIDE DEF before, choice
  <2>1. CASE j <= k + 1
    <3>1. j \in 1..k + 1
      BY <2>0, <2>1
    <3>2. r[j] = (a \o <<n>>)[j]
      BY <1>7, <2>1
    <3>3. r[j] = IF j <= k THEN s[j] ELSE n
      BY <1>6, <3>1, <3>2, Zenon
    <3> QED
      BY <2>0, <2>1, <3>3
  <2>2. CASE j > k + 1
    <3>1. j - (k + 1) \in 1..Len(s) - k /\ k + (j - (k + 1)) = j - 1
      BY <2>0, <2>2
    <3>2. r[j] = b[j - (k + 1)]
      BY <1>7, <2>0, <2>2
    <3>3. b[j - (k + 1)] = s[j - 1]
      BY <1>4, <3>1
    <3> QED
      BY <2>0, <2>2, <3>2, <3>3
  <2> QED
    BY <2>0, <2>1, <2>2
<1>9. Elems(r) \subseteq Elems(s) \cup {n}
  <2>1. ASSUME NEW j \in 1..Len(s) + 1 PROVE r[j] \in Elems(s) \cup {n}
    <3>1. CASE j <= k
      BY <1>0, <1>2, <1>8, <3>1 DEF Elems
    <3>2. CASE j = k + 1
      BY <1>0, <1>2, <1>8, <3>2
    <3>3. CASE j > k + 1
      <4>1. r[j] = s[j - 1] /\ j - 1 \in 1..Len(s)
        BY <1>0, <1>2, <1>8, <3>3
      <4> QED
        BY <4>1 DEF Elems
    <3> QED
      BY <1>0, <1>2, <3>1, <3>2, <3>3
  <2> QED
    BY <1>7, <2>1 DEF Elems
<1>10. ASSUME Sorted(s) PROVE Sorted(r)
  <2>1. \A j \in 1..k : s[j].time <= n.time
    <3>1. CASE k = 0
      BY <3>1
    <3>2. CASE k # 0
      <4>1. s[k].time <= n.time /\ k \in 1..Len(s)
        BY <1>2, <3>2
      <4>2. \A j \in 1..k : s[j].time <= s[k].time /\ j \in 1..Len(s)
        BY <1>0, <1>10, <4>1 DEF Sorted
      <4> QED
        BY <1>0, <4>1, <4>2
    <3> QED
      BY <3>1, <3>2
  <2>2. \A j \in k + 1..Len(s) : n.time <= s[j].time
    BY <1>0, <1>2
  <2>3. \A i, j \in 1..Len(s) : i <= j => s[i].time <= s[j].time
    BY <1>10 DEF Sorted
  <2>4. ASSUME NEW i \in 1..Len(s) + 1, NEW j \in 1..Len(s) + 1, i <= j
        PROVE  r[i].time <= r[j].time
    <3> HIDE DEF before, choice
    <3>0. Len(s) \in Nat /\ k \in 0..Len(s) /\ n.time \in Int
      BY <1>0, <1>2
    <3>1. CASE j <= k
      BY <1>8, <2>3, <2>4, <3>0, <3>1
    <3>2. CASE j = k + 1 /\ i <= k
      <4>1. r[i] = s[i] /\ r[j] = n
        BY <1>8, <3>0, <3>2
      <4> QED
        BY <2>1, <3>0, <3>2, <4>1
    <3>3. CASE j = k + 1 /\ i = k + 1
      BY <1>8, <3>0, <3>3
    <3>4. CASE j > k + 1 /\ i <= k
      <4>1. r[i] = s[i] /\ r[j] = s[j - 1] /\ i \in 1..Len(s) /\ j - 1 \in 1..Len(s) /\ i <= j - 1
        BY <1>8, <3>0, <3>4
      <4> QED
        BY <2>3, <4>1
    <3>5. CASE j > k + 1 /\ i = k + 1
      <4>1. r[i] = n /\ r[j] = s[j - 1] /\ j - 1 \in k + 1..Len(s)
        BY <1>8, <3>0, <3>5
      <4> QED
        BY <2>2, <4>1
    <3>6. CASE j > k + 1 /\ i > k + 1
      <4>1. r[i] = s[i - 1] /\ r[j] = s[j - 1] /\ i - 1 \in 1..Len(s) /\ j - 1 \in 1..Len(s) /\ i - 1 <= j - 1
        BY <1>8, <2>4, <3>0, <3>6
      <4> QED
        BY <2>3, <4>1
    <3> QED
      BY <2>4, <3>0, <3>1, <3>2, <3>3, <3>4, <3>5, <3>6
  <2> QED
    BY <1>7, <2>4 DEF Sorted
<1> QED
  BY <1>3, <1>7, <1>9, <1>10

(* The end of a round's batch, and its first node. *)
LEMMA HeadAndTail ==
    ASSUME NEW s \in Seq(Node), s # <<>>
    PROVE  /\ Head(s) \in Elems(s) /\ Head(s) \in Node
           /\ Tail(s) \in Seq(Node) /\ Len(Tail(s)) = Len(s) - 1
           /\ Elems(Tail(s)) \subseteq Elems(s)
<1>1. Len(s) \in Nat \ {0} /\ Head(s) = s[1]
  BY EmptySeq, HeadTailProperties
<1>2. Head(s) \in Elems(s)
  BY <1>1 DEF Elems
<1>3. /\ Head(s) \in Node /\ Tail(s) \in Seq(Node) /\ Len(Tail(s)) = Len(s) - 1
      /\ \A i \in 1..Len(Tail(s)) : Tail(s)[i] = s[i + 1]
  BY HeadTailProperties
<1>4. \A i \in 1..Len(Tail(s)) : Tail(s)[i] \in Elems(s)
  <2>1. \A i \in 1..Len(s) - 1 : i + 1 \in 1..Len(s)
    BY <1>1
  <2> QED
    BY <1>3, <2>1 DEF Elems
<1> QED
  BY <1>2, <1>3, <1>4 DEF Elems

LEMMA ElemsOfSeq ==
    ASSUME NEW s \in Seq(Node)
    PROVE  Elems(s) \subseteq Node
  BY ElementOfSeq DEF Elems

(* The due nodes are a prefix of the multimap, and a round takes at most     *)
(* BatchLimit of them.                                                       *)
LEMMA BatchProperties ==
    ASSUME timers \in Seq(Node), Sorted(timers), now \in Int
    PROVE  /\ BatchSize \in 0..Len(timers) /\ BatchSize <= BatchLimit
           /\ Due # {} => BatchSize > 0
           /\ \A j \in 1..BatchSize : timers[j].time <= now
<1>0. Len(timers) \in Nat /\ (\A j \in 1..Len(timers) : timers[j].time \in Int) /\ BatchLimit \in Nat \ {0}
  <2>1. \A x \in Node : x.time \in Int
    BY DEF Node
  <2>2. Len(timers) \in Nat /\ \A j \in 1..Len(timers) : timers[j] \in Node
    BY LenProperties, ElementOfSeq
  <2> QED
    BY <2>1, <2>2, BoundAssumption
<1>1. CASE Due = {}
  <2>1. Cardinality(Due) = 0
    BY <1>1, FS_EmptySet
  <2> QED
    BY <1>0, <1>1, <2>1 DEF BatchSize
<1>2. CASE Due # {}
  <2>1. Due \subseteq 1..Len(timers)
    BY DEF Due
  <2>2. PICK d \in Due : \A j \in Due : j <= d
    <3> HIDE DEF Due
    <3> QED
      BY <1>0, <1>2, <2>1, Largest
  <2>3. d \in 1..Len(timers) /\ timers[d].time <= now
    BY <2>2 DEF Due
  <2>4. \A j \in 1..d : j \in 1..Len(timers) /\ timers[j].time <= now
    <3>1. \A j \in 1..d : j \in 1..Len(timers) /\ timers[j].time <= timers[d].time
      BY <1>0, <2>3 DEF Sorted
    <3> QED
      BY <1>0, <2>3, <3>1
  <2>5. Due = 1..d
    <3>1. 1..d \subseteq Due
      BY <2>4 DEF Due
    <3>2. \A j \in Due : j \in 1..d
      BY <1>0, <2>1, <2>2, <2>3
    <3> QED
      BY <3>1, <3>2
  <2>6. Cardinality(Due) = d
    BY <2>3, <2>5, FS_Interval
  <2>7. BatchSize \in 1..d /\ BatchSize <= BatchLimit
    <3>1. CASE BatchLimit \in Due
      BY <1>0, <2>3, <2>5, <3>1 DEF BatchSize
    <3>2. CASE BatchLimit \notin Due
      <4>1. BatchSize = d
        BY <2>6, <3>2 DEF BatchSize
      <4>2. BatchLimit > d
        BY <1>0, <2>3, <2>5, <3>2
      <4> QED
        BY <1>0, <2>3, <4>1, <4>2
    <3> QED
      BY <3>1, <3>2
  <2> QED
    BY <1>0, <2>3, <2>4, <2>7
<1> QED
  BY <1>1, <1>2

(* The two parts a round makes of the multimap. *)
LEMMA PrefixProperties ==
    ASSUME NEW s \in Seq(Node), NEW b \in 0..Len(s)
    PROVE  /\ SubSeq(s, 1, b) \in Seq(Node) /\ Len(SubSeq(s, 1, b)) = b
           /\ \A n \in Elems(SubSeq(s, 1, b)) : \E j \in 1..b : j \in 1..Len(s) /\ n = s[j]
           /\ SubSeq(s, b + 1, Len(s)) \in Seq(Node)
           /\ Elems(SubSeq(s, b + 1, Len(s))) \subseteq Elems(s)
           /\ Sorted(s) => Sorted(SubSeq(s, b + 1, Len(s)))
<1>0. Len(s) \in Nat /\ (\A j \in 1..Len(s) : s[j] \in Node) /\ b \in Nat /\ b <= Len(s)
  BY LenProperties, ElementOfSeq
<1>1. PICK x : x = SubSeq(s, 1, b)
  OBVIOUS
<1>2. PICK y : y = SubSeq(s, b + 1, Len(s))
  OBVIOUS
<1>3. x \in Seq(Node) /\ Len(x) = b /\ \A j \in 1..b : x[j] = s[j] /\ j \in 1..Len(s)
  <2>1. \A j \in 1..b : s[j] \in Node
    BY <1>0
  <2>2. x \in Seq(Node) /\ Len(x) = b /\ \A j \in 1..b - 1 + 1 : x[j] = s[1 + j - 1]
    BY <1>0, <1>1, <2>1, SubSeqProperties
  <2> QED
    BY <1>0, <2>2
<1>4. y \in Seq(Node) /\ Len(y) = Len(s) - b /\ \A j \in 1..Len(s) - b : y[j] = s[b + j] /\ b + j \in 1..Len(s)
  <2>1. \A j \in b + 1..Len(s) : s[j] \in Node
    BY <1>0
  <2>2. y \in Seq(Node) /\ Len(y) = Len(s) - b /\ \A j \in 1..Len(s) - b : y[j] = s[b + 1 + j - 1]
    BY <1>0, <1>2, <2>1, SubSeqProperties
  <2> QED
    BY <1>0, <2>2
<1>5. Elems(y) \subseteq Elems(s)
  BY <1>4 DEF Elems
<1>6. \A n \in Elems(x) : \E j \in 1..b : j \in 1..Len(s) /\ n = s[j]
  BY <1>3 DEF Elems
<1>7. ASSUME Sorted(s) PROVE Sorted(y)
  <2>1. ASSUME NEW i \in 1..Len(s) - b, NEW j \in 1..Len(s) - b, i <= j
        PROVE  y[i].time <= y[j].time
    <3>1. y[i] = s[b + i] /\ y[j] = s[b + j] /\ b + i \in 1..Len(s) /\ b + j \in 1..Len(s) /\ b + i <= b + j
      BY <1>0, <1>4, <2>1
    <3>2. s[b + i].time <= s[b + j].time
      BY <1>7, <3>1 DEF Sorted
    <3> QED
      BY <3>1, <3>2
  <2> QED
    BY <1>4, <2>1 DEF Sorted
<1> QED
  BY <1>1, <1>2, <1>3, <1>4, <1>5, <1>6, <1>7

-----------------------------------------------------------------------------
(* What a step knows *)

LEMMA AtLeastOneIs ==
    ASSUME NEW ms \in Int
    PROVE  AtLeastOne(ms) \in Nat /\ AtLeastOne(ms) >= 1
  BY DEF AtLeastOne

(* The node whose callback is under way belongs to a timer. *)
LEMMA CurFacts ==
    ASSUME TypeOK, Ordered, Nodes, pc \in Working
    PROVE  /\ Cur \in Node /\ GoodNode(Cur) /\ Cur.time <= now
           /\ pc \in Busy => Cur.id \in Id /\ Cur.id < nextId /\ info[Cur.id] \in Info
           /\ pc \in Busy => info[Cur.id].repeat # 0 /\ CurKey \in Key \cup {NoKey}
           /\ pc \in {"after", "catch"} => CurKey \in Key
<1>1. batch \in Seq(Node) /\ batch # <<>>
  BY DEF TypeOK, Ordered
<1>2. Cur \in Node /\ Cur \in Elems(batch)
  BY <1>1, HeadAndTail DEF Cur
<1>3. GoodNode(Cur) /\ Cur.time <= now
  BY <1>2 DEF Nodes
<1>4. ASSUME pc \in Busy
      PROVE  Cur.id \in Id /\ Cur.id < nextId /\ info[Cur.id] \in Info /\ info[Cur.id].repeat # 0
  <2>1. Cur.repeat # 0
    BY <1>4 DEF Nodes
  <2>2. Cur.id \in Id \cup {Dummy} /\ Cur.id # Dummy /\ Cur.id < nextId /\ info[Cur.id].repeat # 0
    BY <1>2, <1>3, <2>1 DEF GoodNode, Node
  <2> QED
    BY <2>2 DEF TypeOK
<1>5. ASSUME pc \in Busy PROVE CurKey \in Key \cup {NoKey}
  BY <1>4, <1>5 DEF CurKey, Info
<1>6. ASSUME pc \in {"after", "catch"} PROVE CurKey \in Key
  BY <1>5, <1>6 DEF Nodes, Busy
<1> QED
  BY <1>2, <1>3, <1>4, <1>5, <1>6

LEMMA TimingFacts ==
    ASSUME NEW t \in Timing
    PROVE  t[1] \in Int /\ t[2] \in Nat \cup {-1}
<1>1. t \in Int \X (Nat \cup {-1})
  BY TimingAssumption
<1> QED
  BY <1>1

LEMMA CallFacts ==
    ASSUME TypeOK, NEW c \in Caller, call[c] # NoCall
    PROVE  /\ call[c][1] \in Key /\ call[c][2] \in Timing
           /\ call[c][2][1] \in Int /\ call[c][2][2] \in Nat \cup {-1}
<1>1. call[c] \in Key \X Timing
  BY DEF TypeOK
<1>2. call[c][1] \in Key /\ call[c][2] \in Timing
  BY <1>1
<1> QED
  BY <1>2, TimingFacts

(* Ending the timers of a key changes nothing else of them. *)
LEMMA EndProperties ==
    ASSUME TypeOK, NEW k \in Key
    PROVE  /\ End(k) \in [Id -> Info]
           /\ \A i \in Id : /\ End(k)[i].key = info[i].key /\ End(k)[i].ms = info[i].ms
                            /\ End(k)[i].repeat = info[i].repeat /\ End(k)[i].start = info[i].start
                            /\ End(k)[i].ended = (info[i].ended \/ info[i].key = k)
<1>1. info \in [Id -> Info]
  BY DEF TypeOK
<1>2. ASSUME NEW i \in Id
      PROVE  /\ End(k)[i] \in Info
             /\ End(k)[i].key = info[i].key /\ End(k)[i].ms = info[i].ms
             /\ End(k)[i].repeat = info[i].repeat /\ End(k)[i].start = info[i].start
             /\ End(k)[i].ended = (info[i].ended \/ info[i].key = k)
  <2>1. PICK x : x = info[i]
    OBVIOUS
  <2>2. x \in Info /\ End(k)[i] = [x EXCEPT !.ended = x.ended \/ x.key = k]
    BY <1>1, <2>1 DEF End
  <2>3. PICK v \in BOOLEAN : v = (x.ended \/ x.key = k)
    OBVIOUS
  <2>4. End(k)[i] = [x EXCEPT !.ended = v]
    BY <2>2, <2>3
  <2>5. /\ End(k)[i] \in Info /\ End(k)[i].key = x.key /\ End(k)[i].ms = x.ms
        /\ End(k)[i].repeat = x.repeat /\ End(k)[i].start = x.start /\ End(k)[i].ended = v
    BY <2>2, <2>3, <2>4 DEF Info
  <2> QED
    BY <2>1, <2>3, <2>5
<1> QED
  BY <1>2 DEF End

-----------------------------------------------------------------------------
(* The history of the timers *)

(* What was recorded of a timer stays, and once it is over it is. *)
Same(i) ==
    /\ info'[i].key = info[i].key /\ info'[i].ms = info[i].ms
    /\ info'[i].repeat = info[i].repeat /\ info'[i].start = info[i].start
    /\ info[i].ended => info'[i].ended

InfoGrows ==
    /\ nextId' \in 1..MaxId + 1 /\ nextId <= nextId'
    /\ info' \in [Id -> Info]
    /\ \A i \in Id : i < nextId => Same(i)
    /\ \A i \in Id : i >= nextId' => /\ info'[i].key = info[i].key
                                     /\ info'[i].ms = info[i].ms /\ info'[i].start = info[i].start

(* Steps that neither schedule, end nor run a timer. *)
QuietStep ==
    \/ ClockTick \/ Stop \/ Round \/ NothingDue \/ Collect \/ Check \/ Wrap \/ After \/ Catch \/ Back \/ TickEnds
    \/ UNCHANGED vars

LEMMA Steps ==
    ASSUME [Next]_vars
    PROVE  \/ QuietStep
           \/ \E c \in Caller : DoScheduleWithKey(c)
           \/ \E c \in Caller, t \in Timing : DoSchedule(c, t[1], t[2])
           \/ \E c \in Caller, k \in Key : CancelByKey(c, k)
           \/ \E c \in Caller, k \in Key, t \in Timing : ScheduleWithKey(c, k, t)
           \/ \E throws \in BOOLEAN : Run(throws)
  BY DEF Next, Tick, CallerStep, QuietStep

LEMMA QuietKeeps ==
    ASSUME QuietStep
    PROVE  UNCHANGED <<nextId, info, runs, late, call>>
  BY DEF QuietStep, ClockTick, Stop, Round, NothingDue, Collect, Check, Wrap, After, Catch, Back, TickEnds,
         vars, hist, tables, ticker

(* A timer that starts: its record. *)
LEMMA StartedIsInfo ==
    ASSUME TypeOK, NEW k \in Key \cup {NoKey}, NEW ms \in Nat, NEW repeat \in Int
    PROVE  [key |-> k, ms |-> ms, repeat |-> repeat, start |-> now, ended |-> FALSE] \in Info
<1>1. now \in Nat
  BY BoundAssumption DEF TypeOK
<1> QED
  BY <1>1 DEF Info

LEMMA RunInfo ==
    ASSUME TypeOK, Ordered, Nodes, NEW throws \in BOOLEAN, Run(throws)
    PROVE  /\ info' \in [Id -> Info]
           /\ \A i \in Id : Same(i) /\ info'[i].ended \in BOOLEAN
           /\ \A i \in Id : i # Cur.id => info'[i] = info[i]
           /\ info'[Cur.id].ended = (info[Cur.id].ended \/ (throws /\ CurKey # NoKey))
<1>1. info \in [Id -> Info]
  BY DEF TypeOK
<1>2. pc = "run" /\ (info' = IF throws /\ CurKey # NoKey THEN [info EXCEPT ![Cur.id].ended = TRUE] ELSE info)
  BY DEF Run
<1>3. PICK j : j = Cur.id
  OBVIOUS
<1>4. j \in Id
  BY <1>2, <1>3, CurFacts DEF Working, Busy
<1>5. \A i \in Id : info[i] \in Info /\ info[i].ended \in BOOLEAN
  BY <1>1 DEF Info
<1>6. CASE throws /\ CurKey # NoKey
  <2>1. info' = [info EXCEPT ![j].ended = TRUE]
    BY <1>2, <1>3, <1>6
  <2>2. PICK x \in Info : x = info[j]
    BY <1>4, <1>5
  <2>3. info' = [info EXCEPT ![j] = [x EXCEPT !.ended = TRUE]]
    BY <2>1, <2>2
  <2>4. PICK y : y = [x EXCEPT !.ended = TRUE]
    OBVIOUS
  <2>5. /\ y \in Info /\ y.key = x.key /\ y.ms = x.ms /\ y.repeat = x.repeat /\ y.start = x.start
        /\ y.ended = TRUE
    BY <2>2, <2>4 DEF Info
  <2>6. info' \in [Id -> Info] /\ info'[j] = y /\ \A i \in Id : i # j => info'[i] = info[i]
    BY <1>1, <1>4, <2>3, <2>4, <2>5
  <2> QED
    BY <1>3, <1>4, <1>5, <1>6, <2>2, <2>5, <2>6 DEF Same
<1>7. CASE ~(throws /\ CurKey # NoKey)
  <2>1. info' = info
    BY <1>2, <1>7
  <2> QED
    BY <1>1, <1>3, <1>4, <1>5, <1>7, <2>1 DEF Same
<1> QED
  BY <1>6, <1>7

LEMMA InfoStep ==
    ASSUME TypeOK, Ordered, Nodes, [Next]_vars
    PROVE  InfoGrows
<1>0. nextId \in 1..MaxId + 1 /\ MaxId \in Nat /\ info \in [Id -> Info]
  BY BoundAssumption DEF TypeOK
<1>1. CASE QuietStep
  BY <1>0, <1>1, QuietKeeps DEF InfoGrows, Same
<1>2. ASSUME NEW c \in Caller, DoScheduleWithKey(c) PROVE InfoGrows
  <2>1. PICK k \in Key : k = call[c][1]
    BY <1>2, CallFacts DEF DoScheduleWithKey
  <2>2. PICK r \in Nat \cup {-1} : r = call[c][2][2]
    BY <1>2, CallFacts DEF DoScheduleWithKey
  <2>3. PICK ms \in Nat : ms = AtLeastOne(call[c][2][1])
    BY <1>2, CallFacts, AtLeastOneIs DEF DoScheduleWithKey
  <2>4. PICK x : x = [key |-> k, ms |-> ms, repeat |-> r, start |-> now, ended |-> FALSE]
    OBVIOUS
  <2>5. x \in Info
    BY <2>1, <2>2, <2>3, <2>4, StartedIsInfo
  <2>6. nextId <= MaxId /\ nextId' = nextId + 1 /\ info' = [End(k) EXCEPT ![nextId] = x]
    BY <1>2, <2>1, <2>2, <2>3, <2>4 DEF DoScheduleWithKey
  <2>7. PICK e : e = End(k)
    OBVIOUS
  <2>8. /\ e \in [Id -> Info]
        /\ \A i \in Id : /\ e[i].key = info[i].key /\ e[i].ms = info[i].ms
                         /\ e[i].repeat = info[i].repeat /\ e[i].start = info[i].start
                         /\ e[i].ended = (info[i].ended \/ info[i].key = k)
    BY <2>1, <2>7, EndProperties
  <2>9. info' \in [Id -> Info] /\ \A i \in Id : i # nextId => info'[i] = e[i]
    BY <2>5, <2>6, <2>7, <2>8
  <2>10. \A i \in Id : info[i].ended => e[i].ended
    BY <2>8, Zenon
  <2>11. \A i \in Id : i < nextId => i # nextId
    BY <1>0 DEF Id
  <2>12. \A i \in Id : i < nextId => Same(i)
    BY <2>8, <2>9, <2>10, <2>11, Zenon DEF Same
  <2>13. \A i \in Id : i >= nextId' => /\ info'[i].key = info[i].key
                                       /\ info'[i].ms = info[i].ms /\ info'[i].start = info[i].start
    BY <1>0, <2>6, <2>8, <2>9 DEF Id
  <2> QED
    BY <1>0, <2>6, <2>9, <2>12, <2>13 DEF InfoGrows
<1>3. ASSUME NEW c \in Caller, NEW t \in Timing, DoSchedule(c, t[1], t[2]) PROVE InfoGrows
  <2>1. PICK r \in Nat \cup {-1} : r = t[2]
    BY TimingFacts
  <2>2. PICK ms \in Nat : ms = AtLeastOne(t[1])
    BY TimingFacts, AtLeastOneIs
  <2>3. PICK x : x = [key |-> NoKey, ms |-> ms, repeat |-> r, start |-> now, ended |-> FALSE]
    OBVIOUS
  <2>4. x \in Info
    BY <2>1, <2>2, <2>3, StartedIsInfo
  <2>5. nextId <= MaxId /\ nextId' = nextId + 1 /\ info' = [info EXCEPT ![nextId] = x]
    BY <1>3, <2>1, <2>2, <2>3 DEF DoSchedule
  <2>6. info' \in [Id -> Info] /\ \A i \in Id : i # nextId => info'[i] = info[i]
    BY <1>0, <2>4, <2>5
  <2> QED
    BY <1>0, <2>5, <2>6 DEF InfoGrows, Same, Id
<1>4. ASSUME NEW k \in Key, info' = End(k), UNCHANGED nextId PROVE InfoGrows
  <2>1. /\ info' \in [Id -> Info]
        /\ \A i \in Id : /\ info'[i].key = info[i].key /\ info'[i].ms = info[i].ms
                         /\ info'[i].repeat = info[i].repeat /\ info'[i].start = info[i].start
                         /\ info'[i].ended = (info[i].ended \/ info[i].key = k)
    BY <1>4, EndProperties
  <2>2. \A i \in Id : Same(i)
    BY <2>1, Zenon DEF Same
  <2> QED
    BY <1>0, <1>4, <2>1, <2>2 DEF InfoGrows
<1>5. ASSUME NEW throws \in BOOLEAN, Run(throws) PROVE InfoGrows
  <2>1. UNCHANGED nextId
    BY <1>5 DEF Run
  <2>2. info' \in [Id -> Info] /\ \A i \in Id : Same(i)
    BY <1>5, RunInfo
  <2>3. \A i \in Id : /\ info'[i].key = info[i].key
                      /\ info'[i].ms = info[i].ms /\ info'[i].start = info[i].start
    BY <2>2 DEF Same
  <2> QED
    BY <1>0, <2>1, <2>2, <2>3 DEF InfoGrows
<1> QED
  BY <1>1, <1>2, <1>3, <1>4, <1>5, Steps DEF CancelByKey, ScheduleWithKey

-----------------------------------------------------------------------------
(* The nodes *)

TimersGood == timers \in Seq(Node) /\ Sorted(timers) /\ \A n \in Elems(timers) : GoodNode(n)

BatchGood ==
    /\ batch \in Seq(Node) /\ Len(batch) <= BatchLimit
    /\ pc \in Working => batch # <<>>
    /\ \A n \in Elems(batch) : GoodNode(n) /\ n.time <= now
    /\ pc \in Busy => Cur.repeat # 0
    /\ pc \in {"after", "catch"} => CurKey # NoKey

LEMMA NodesAreGood == TypeOK /\ Ordered /\ Nodes => TimersGood /\ BatchGood
  BY DEF TypeOK, Ordered, Nodes, TimersGood, BatchGood

(* A good node stays one, whatever is scheduled. *)
LEMMA GoodStays ==
    ASSUME TypeOK, InfoGrows
    PROVE  \A n \in Node : GoodNode(n) => GoodNode(n)'
<1> SUFFICES ASSUME NEW n \in Node, GoodNode(n) PROVE GoodNode(n)'
  OBVIOUS
<1>1. n.id \in Id \cup {Dummy} /\ n.id < nextId /\ Id \subseteq Int /\ Dummy = 0
  BY DEF GoodNode, Node, Id, Dummy
<1>2. n.id < nextId'
  <2>1. nextId \in Int /\ nextId' \in Int /\ nextId <= nextId'
    BY BoundAssumption DEF InfoGrows, TypeOK
  <2>2. n.id \in Int
    <3>1. n.id \in Id \/ n.id = 0
      BY <1>1
    <3> QED
      BY <3>1, BoundAssumption DEF Id
  <2> QED
    BY <1>1, <2>1, <2>2
<1>3. CASE n.id = Dummy
  BY <1>2, <1>3 DEF GoodNode
<1>4. CASE n.id # Dummy
  <2>1. Same(n.id)
    BY <1>1, <1>4 DEF InfoGrows
  <2> QED
    BY <1>2, <2>1 DEF GoodNode, Same
<1> QED
  BY <1>3, <1>4

LEMMA InsertGood ==
    ASSUME TypeOK, TimersGood, InfoGrows, NEW n \in Node, GoodNode(n)', timers' = Insert(timers, n)
    PROVE  TimersGood'
<1>1. timers' \in Seq(Node) /\ Elems(timers') \subseteq Elems(timers) \cup {n} /\ Sorted(timers')
  BY InsertProperties DEF TimersGood
<1>2. Elems(timers) \subseteq Node
  BY ElemsOfSeq DEF TimersGood
<1>3. \A m \in Elems(timers) : GoodNode(m)'
  BY <1>2, GoodStays DEF TimersGood
<1>4. \A m \in Elems(timers') : GoodNode(m)'
  BY <1>1, <1>3
<1> QED
  BY <1>1, <1>4 DEF TimersGood, Sorted, Elems

LEMMA TimersKept ==
    ASSUME TypeOK, TimersGood, InfoGrows, UNCHANGED timers
    PROVE  TimersGood'
<1>1. Elems(timers) \subseteq Node
  BY ElemsOfSeq DEF TimersGood
<1>2. \A m \in Elems(timers) : GoodNode(m)'
  BY <1>1, GoodStays DEF TimersGood
<1> QED
  BY <1>2 DEF TimersGood, Sorted, Elems

(* Nodes of the batch that are left of it stay good and due. *)
LEMMA DueStays ==
    ASSUME TypeOK, BatchGood, InfoGrows, now' \in Int, now <= now'
    PROVE  \A n \in Elems(batch) : GoodNode(n)' /\ n.time <= now'
<1>1. Elems(batch) \subseteq Node /\ \A n \in Node : n.time \in Int
  BY ElemsOfSeq DEF BatchGood, Node
<1>2. now \in Int
  BY BoundAssumption DEF TypeOK
<1>3. \A n \in Elems(batch) : n.time <= now'
  BY <1>1, <1>2 DEF BatchGood
<1> QED
  BY <1>1, <1>3, GoodStays DEF BatchGood

(* The batch does not change, and the place is no later one. *)
LEMMA BatchKept ==
    ASSUME TypeOK, Ordered, Nodes, InfoGrows, now' \in Int, now <= now', UNCHANGED batch,
           pc' \in Working => pc \in Working,
           pc' \in Busy => Cur.repeat # 0,
           pc' \in {"after", "catch"} => pc \in Busy /\ CurKey # NoKey
    PROVE  BatchGood'
<1>1. BatchGood
  BY NodesAreGood
<1>2. \A n \in Elems(batch) : GoodNode(n)' /\ n.time <= now'
  BY <1>1, DueStays
<1>3. Cur' = Cur
  BY DEF Cur
<1>4. ASSUME pc' \in {"after", "catch"} PROVE CurKey' # NoKey
  <2>1. pc \in Busy /\ CurKey # NoKey
    BY <1>4
  <2>2. Cur.id \in Id /\ Cur.id < nextId
    BY <2>1, CurFacts DEF Working
  <2>3. Same(Cur.id)
    BY <2>2 DEF InfoGrows
  <2> QED
    BY <1>3, <2>1, <2>3 DEF CurKey, Same
<1>5. \A n \in Elems(batch)' : GoodNode(n)' /\ n.time <= now'
  BY <1>2 DEF Elems
<1> QED
  BY <1>1, <1>3, <1>4, <1>5 DEF BatchGood

(* A node of the batch is done with. *)
LEMMA BatchShrinks ==
    ASSUME TypeOK, Ordered, Nodes, InfoGrows, UNCHANGED now, pc \in Working,
           batch' = Tail(batch), pc' = IF batch' = <<>> THEN "loop" ELSE "check"
    PROVE  BatchGood'
<1>1. BatchGood /\ now \in Int
  BY NodesAreGood, BoundAssumption DEF TypeOK
<1>2. \A n \in Elems(batch) : GoodNode(n)' /\ n.time <= now'
  BY <1>1, DueStays
<1>3. batch \in Seq(Node) /\ batch # <<>> /\ Len(batch) <= BatchLimit
  BY <1>1 DEF BatchGood
<1>4. batch' \in Seq(Node) /\ Len(batch') = Len(batch) - 1 /\ Elems(batch') \subseteq Elems(batch)
  BY <1>3, HeadAndTail
<1>5. Len(batch') <= BatchLimit
  BY <1>3, <1>4, LenProperties, BoundAssumption
<1>6. \A n \in Elems(batch') : GoodNode(n)' /\ n.time <= now'
  BY <1>2, <1>4
<1>7. pc' \notin Busy /\ pc' \notin {"after", "catch"} /\ (pc' \in Working => batch' # <<>>)
  BY DEF Busy, Working
<1> QED
  BY <1>4, <1>5, <1>6, <1>7 DEF BatchGood, Elems

LEMMA CollectGood ==
    ASSUME TypeOK, Ordered, Nodes, InfoGrows, Collect
    PROVE  TimersGood' /\ BatchGood'
<1>1. TimersGood /\ now \in Int /\ UNCHANGED now /\ pc' = "check"
  BY NodesAreGood, BoundAssumption DEF TypeOK, Collect
<1>2. PICK b : b = BatchSize
  OBVIOUS
<1>3. b \in 0..Len(timers) /\ b <= BatchLimit /\ b > 0 /\ \A j \in 1..b : timers[j].time <= now
  BY <1>1, <1>2, BatchProperties DEF TimersGood, Collect
<1>4. batch' = SubSeq(timers, 1, b) /\ timers' = SubSeq(timers, b + 1, Len(timers))
  BY <1>2 DEF Collect
<1>5. /\ batch' \in Seq(Node) /\ Len(batch') = b
      /\ \A n \in Elems(batch') : \E j \in 1..b : j \in 1..Len(timers) /\ n = timers[j]
      /\ timers' \in Seq(Node) /\ Elems(timers') \subseteq Elems(timers) /\ Sorted(timers')
  BY <1>1, <1>3, <1>4, PrefixProperties DEF TimersGood
<1>6. Elems(timers) \subseteq Node
  BY <1>1, ElemsOfSeq DEF TimersGood
<1>7. \A n \in Elems(timers) : GoodNode(n)'
  BY <1>1, <1>6, GoodStays DEF TimersGood
<1>8. \A n \in Elems(batch') : n \in Elems(timers) /\ n.time <= now
  BY <1>3, <1>5 DEF Elems
<1>9. TimersGood'
  <2>1. \A n \in Elems(timers') : GoodNode(n)'
    BY <1>5, <1>7
  <2> QED
    BY <1>5, <2>1 DEF TimersGood, Sorted, Elems
<1>10. BatchGood'
  <2>1. \A n \in Elems(batch') : GoodNode(n)' /\ n.time <= now'
    BY <1>1, <1>7, <1>8
  <2>2. batch' # <<>>
    BY <1>3, <1>5
  <2>3. pc' \notin Busy /\ pc' \notin {"after", "catch"}
    BY <1>1 DEF Busy
  <2> QED
    BY <1>3, <1>5, <2>1, <2>2, <2>3 DEF BatchGood, Elems
<1> QED
  BY <1>9, <1>10

(* A node that is made for timer i. *)
LEMMA NewNodeIsNode ==
    ASSUME NEW i \in Id \cup {Dummy}, NEW t \in Int, NEW r \in Int, NEW p \in Nat
    PROVE  /\ NewNode(i, t, r, p) \in Node
           /\ NewNode(i, t, r, p).id = i /\ NewNode(i, t, r, p).time = t
           /\ NewNode(i, t, r, p).repeat = r /\ NewNode(i, t, r, p).period = p
  BY DEF NewNode, Node

(* The node of a timer that is just scheduled. *)
LEMMA ScheduledGood ==
    ASSUME TypeOK, TimersGood, InfoGrows, NEW ms \in Nat, NEW r \in Int,
           nextId <= MaxId, nextId' = nextId + 1,
           info'[nextId].ms = ms, info'[nextId].repeat = r, info'[nextId].start = now,
           timers' = Insert(timers, NewNode(nextId, now + ms, r, ms))
    PROVE  TimersGood'
<1>1. nextId \in Id /\ nextId \in Int /\ now \in Int /\ nextId # Dummy
  BY BoundAssumption DEF TypeOK, Id, Dummy
<1>2. PICK i : i = nextId
  OBVIOUS
<1>3. PICK n : n = NewNode(i, now + ms, r, ms)
  OBVIOUS
<1>4. n \in Node /\ n.id = i /\ n.time = now + ms /\ n.repeat = r /\ n.period = ms
  <2>1. i \in Id \cup {Dummy} /\ now + ms \in Int
    BY <1>1, <1>2
  <2> QED
    BY <1>3, <2>1, NewNodeIsNode
<1>5. GoodNode(n)'
  BY <1>1, <1>2, <1>4 DEF GoodNode
<1>6. timers' = Insert(timers, n)
  BY <1>2, <1>3
<1> QED
  BY <1>4, <1>5, <1>6, InsertGood

(* A further node for the timer whose callback is under way. *)
LEMMA FurtherGood ==
    ASSUME TypeOK, Ordered, Nodes, InfoGrows, pc \in Busy,
           NEW t \in Int, t >= Cur.time, NEW r \in Int,
           timers' = Insert(timers, NewNode(Cur.id, t + Cur.period, r, Cur.period))
    PROVE  TimersGood'
<1>1. Cur \in Node /\ GoodNode(Cur) /\ Cur.id \in Id /\ info[Cur.id] \in Info /\ info[Cur.id].repeat # 0
  BY CurFacts DEF Working
<1>2. PICK i \in Id : i = Cur.id
  BY <1>1
<1>3. PICK p \in Nat : p = Cur.period
  BY <1>1 DEF Node
<1>4. PICK n : n = NewNode(i, t + p, r, p)
  OBVIOUS
<1>5. n \in Node /\ n.id = i /\ n.time = t + p /\ n.repeat = r /\ n.period = p
  BY <1>2, <1>3, <1>4, NewNodeIsNode
<1>6. timers' = Insert(timers, n)
  BY <1>2, <1>3, <1>4
<1>7. i # Dummy
  BY <1>2 DEF Id, Dummy
<1>8. info[i].ms = p /\ Cur.time >= info[i].start + info[i].ms /\ i < nextId
  BY <1>1, <1>2, <1>3, <1>7 DEF GoodNode
<1>9. t + p >= info[i].start + info[i].ms
  <2>1. info[i].start \in Int /\ info[i].ms \in Int /\ Cur.time \in Int
    BY <1>1, <1>2 DEF Info, Node
  <2> QED
    BY <1>3, <1>8, <2>1
<1>10. GoodNode(n)
  BY <1>1, <1>2, <1>5, <1>7, <1>8, <1>9 DEF GoodNode
<1>11. GoodNode(n)'
  BY <1>5, <1>10, GoodStays
<1> QED
  BY <1>5, <1>6, <1>11, InsertGood, NodesAreGood

LEMMA NodesStep ==
    ASSUME TypeOK, Ordered, Nodes, [Next]_vars
    PROVE  TimersGood' /\ BatchGood'
<1>0. InfoGrows /\ TimersGood /\ BatchGood /\ now \in Int
  BY InfoStep, NodesAreGood, BoundAssumption DEF TypeOK
<1>1. ASSUME UNCHANGED <<batch, pc>>, now' \in Int, now <= now' PROVE BatchGood'
  <2>1. /\ pc' \in Working => pc \in Working
        /\ pc' \in Busy => Cur.repeat # 0
        /\ pc' \in {"after", "catch"} => pc \in Busy /\ CurKey # NoKey
    BY <1>1 DEF Nodes, Busy
  <2> QED
    BY <1>0, <1>1, <2>1, BatchKept
<1>2. CASE ClockTick
  <2>1. UNCHANGED <<batch, pc, timers>> /\ now' = now + 1
    BY <1>2 DEF ClockTick, tables, ticker
  <2>2. now' \in Int /\ now <= now'
    BY <1>0, <2>1
  <2> QED
    BY <1>0, <1>1, <2>1, <2>2, TimersKept
<1>3. CASE Stop
  <2>1. UNCHANGED <<batch, pc, now>> /\ timers' = Insert(timers, NewNode(Dummy, now, 0, 0))
    BY <1>3 DEF Stop, ticker
  <2>2. PICK n : n = NewNode(Dummy, now, 0, 0)
    OBVIOUS
  <2>3. n \in Node /\ n.id = Dummy /\ n.repeat = 0
    BY <1>0, <2>2, NewNodeIsNode
  <2>4. GoodNode(n)'
    <3>1. Dummy < nextId'
      BY <1>0, BoundAssumption DEF InfoGrows, Dummy
    <3> QED
      BY <2>3, <3>1 DEF GoodNode
  <2>5. TimersGood'
    BY <1>0, <2>1, <2>2, <2>3, <2>4, InsertGood
  <2> QED
    BY <1>0, <1>1, <2>1, <2>5
<1>4. CASE Collect
  BY <1>0, <1>4, CollectGood
<1>5. CASE Check
  <2>1. pc = "check" /\ UNCHANGED <<timers, now>>
    BY <1>5 DEF Check, tables
  <2>2. CASE Cur.repeat = 0 /\ batch' = Tail(batch) /\ pc' = IF batch' = <<>> THEN "loop" ELSE "check"
    BY <1>0, <2>1, <2>2, BatchShrinks, TimersKept DEF Working
  <2>3. CASE Cur.repeat # 0 /\ pc' \in {"wrap", "back"} /\ UNCHANGED batch
    BY <1>0, <2>1, <2>3, BatchKept, TimersKept DEF Working
  <2> QED
    BY <1>5, <2>2, <2>3 DEF Check
<1>6. CASE Wrap
  <2>1. UNCHANGED <<timers, now, batch>> /\ pc = "wrap" /\ pc' \in {"run", "after"}
    BY <1>6 DEF Wrap, tables
  <2>2. pc' = "after" => CurKey # NoKey
    BY <1>6 DEF Wrap
  <2>3. Cur.repeat # 0
    BY <2>1 DEF Nodes, Busy
  <2> QED
    BY <1>0, <2>1, <2>2, <2>3, BatchKept, TimersKept DEF Working, Busy
<1>7. ASSUME NEW throws \in BOOLEAN, Run(throws) PROVE TimersGood' /\ BatchGood'
  <2>1. UNCHANGED <<timers, now, batch>> /\ pc = "run" /\ pc' \in {"back", "catch", "after"}
    BY <1>7 DEF Run, tables
  <2>2. pc' \in {"after", "catch"} => CurKey # NoKey
    BY <1>7 DEF Run
  <2>3. Cur.repeat # 0
    BY <2>1 DEF Nodes, Busy
  <2> QED
    BY <1>0, <2>1, <2>2, <2>3, BatchKept, TimersKept DEF Working, Busy
<1>8. CASE After
  <2>1. UNCHANGED <<now, batch>> /\ pc = "after" /\ pc' = "back"
    BY <1>8 DEF After
  <2>2. Cur.repeat # 0 /\ pc \in Busy /\ Cur.id \in Id /\ Cur.time <= now /\ Cur.time \in Int
    BY <2>1, CurFacts DEF Nodes, Busy, Working, Node
  <2>3. BatchGood'
    BY <1>0, <2>1, <2>2, BatchKept DEF Working, Busy
  <2>4. CASE UNCHANGED timers
    BY <1>0, <2>3, <2>4, TimersKept
  <2>5. ASSUME NEW r \in Int, timers' = Again(Cur, r) PROVE TimersGood'
    <3>1. timers' = Insert(timers, NewNode(Cur.id, now + Cur.period, r, Cur.period))
      BY <2>5 DEF Again
    <3> QED
      BY <1>0, <2>2, <3>1, FurtherGood
  <2>6. \/ UNCHANGED timers
        \/ \E r \in Int : timers' = Again(Cur, r)
    <3>1. \/ UNCHANGED timers
          \/ timers' = Again(Cur, -1)
          \/ /\ timers' = Again(Cur, repeats'[Cur.id])
             /\ repeats' = [repeats EXCEPT ![Cur.id] = repeats[Cur.id] - 1]
      BY <1>8 DEF After, tables
    <3>2. repeats \in [Id -> Int]
      BY DEF TypeOK
    <3>3. ASSUME repeats' = [repeats EXCEPT ![Cur.id] = repeats[Cur.id] - 1] PROVE repeats'[Cur.id] \in Int
      BY <2>2, <3>2, <3>3
    <3> QED
      BY <3>1, <3>3
  <2> QED
    BY <2>3, <2>4, <2>5, <2>6
<1>9. CASE Catch
  <2>1. UNCHANGED <<timers, now, batch>> /\ pc = "catch" /\ pc' = "back"
    BY <1>9 DEF Catch
  <2>2. Cur.repeat # 0
    BY <2>1 DEF Nodes, Busy
  <2> QED
    BY <1>0, <2>1, <2>2, BatchKept, TimersKept DEF Working, Busy
<1>10. CASE Back
  <2>1. /\ UNCHANGED now /\ pc = "back" /\ batch' = Tail(batch)
        /\ pc' = IF batch' = <<>> THEN "loop" ELSE "check"
    BY <1>10 DEF Back
  <2>2. pc \in Busy /\ pc \in Working /\ Cur \in Node
    BY <2>1, CurFacts DEF Busy, Working
  <2>3. BatchGood'
    BY <1>0, <2>1, <2>2, BatchShrinks
  <2>4. Cur.time \in Int /\ Cur.repeat \in Int
    BY <2>2 DEF Node
  <2>5. PICK left \in Int : left = IF Cur.repeat > 0 THEN Cur.repeat - 1 ELSE Cur.repeat
    BY <2>4
  <2>6. \/ UNCHANGED timers
        \/ timers' = Insert(timers, NewNode(Cur.id, Cur.time + Cur.period, left, Cur.period))
    BY <1>10, <2>5 DEF Back
  <2>7. TimersGood'
    BY <1>0, <2>2, <2>4, <2>6, TimersKept, FurtherGood
  <2> QED
    BY <2>3, <2>7
<1>11. CASE Round \/ NothingDue \/ TickEnds
  <2>1. UNCHANGED <<timers, now, batch>> /\ pc' \in {"loop", "update", "ended"}
    BY <1>11 DEF Round, NothingDue, TickEnds, tables
  <2> QED
    BY <1>0, <2>1, BatchKept, TimersKept DEF Working, Busy
<1>12. CASE UNCHANGED vars
  <2>1. UNCHANGED <<timers, now, batch, pc>>
    BY <1>12 DEF vars, tables, ticker
  <2> QED
    BY <1>0, <1>1, <2>1, TimersKept
<1>13. ASSUME NEW c \in Caller, DoScheduleWithKey(c) PROVE TimersGood' /\ BatchGood'
  <2>0. UNCHANGED <<now, batch, pc>> /\ nextId <= MaxId /\ nextId' = nextId + 1
    BY <1>13 DEF DoScheduleWithKey, ticker
  <2>1. PICK k \in Key : k = call[c][1]
    BY <1>13, CallFacts DEF DoScheduleWithKey
  <2>2. PICK r \in Nat \cup {-1} : r = call[c][2][2]
    BY <1>13, CallFacts DEF DoScheduleWithKey
  <2>3. PICK ms \in Nat : ms = AtLeastOne(call[c][2][1])
    BY <1>13, CallFacts, AtLeastOneIs DEF DoScheduleWithKey
  <2>4. timers' = Insert(timers, NewNode(nextId, now + ms, r, ms))
    BY <1>13, <2>2, <2>3 DEF DoScheduleWithKey
  <2>5. info' = [End(k) EXCEPT ![nextId] = [key |-> k, ms |-> ms, repeat |-> r, start |-> now, ended |-> FALSE]]
    BY <1>13, <2>1, <2>2, <2>3 DEF DoScheduleWithKey
  <2>6. nextId \in Id
    BY <2>0, BoundAssumption DEF TypeOK, Id
  <2>7. info'[nextId].ms = ms /\ info'[nextId].repeat = r /\ info'[nextId].start = now
    BY <2>1, <2>5, <2>6, EndProperties
  <2>8. TimersGood'
    BY <1>0, <2>0, <2>2, <2>3, <2>4, <2>7, ScheduledGood
  <2> QED
    BY <1>0, <1>1, <2>0, <2>8
<1>14. ASSUME NEW c \in Caller, NEW t \in Timing, DoSchedule(c, t[1], t[2]) PROVE TimersGood' /\ BatchGood'
  <2>0. UNCHANGED <<now, batch, pc>> /\ nextId <= MaxId /\ nextId' = nextId + 1
    BY <1>14 DEF DoSchedule, ticker
  <2>1. PICK r \in Nat \cup {-1} : r = t[2]
    BY TimingFacts
  <2>2. PICK ms \in Nat : ms = AtLeastOne(t[1])
    BY TimingFacts, AtLeastOneIs
  <2>3. timers' = Insert(timers, NewNode(nextId, now + ms, r, ms))
    BY <1>14, <2>1, <2>2 DEF DoSchedule
  <2>4. info' = [info EXCEPT ![nextId] = [key |-> NoKey, ms |-> ms, repeat |-> r, start |-> now, ended |-> FALSE]]
    BY <1>14, <2>1, <2>2 DEF DoSchedule
  <2>5. nextId \in Id
    BY <2>0, BoundAssumption DEF TypeOK, Id
  <2>6. info'[nextId].ms = ms /\ info'[nextId].repeat = r /\ info'[nextId].start = now
    BY <2>4, <2>5 DEF TypeOK
  <2>7. TimersGood'
    BY <1>0, <2>0, <2>1, <2>2, <2>3, <2>6, ScheduledGood
  <2> QED
    BY <1>0, <1>1, <2>0, <2>7
<1>15. ASSUME UNCHANGED <<now, timers, batch, pc>> PROVE TimersGood' /\ BatchGood'
  BY <1>0, <1>1, <1>15, TimersKept
<1>16. ASSUME NEW c \in Caller, NEW k \in Key, CancelByKey(c, k) PROVE TimersGood' /\ BatchGood'
  BY <1>15, <1>16 DEF CancelByKey, ticker
<1>17. ASSUME NEW c \in Caller, NEW k \in Key, NEW t \in Timing, ScheduleWithKey(c, k, t)
       PROVE  TimersGood' /\ BatchGood'
  BY <1>15, <1>17 DEF ScheduleWithKey, ticker
<1> QED
  BY <1>2, <1>3, <1>4, <1>5, <1>6, <1>7, <1>8, <1>9, <1>10, <1>11, <1>12, <1>13, <1>14,
     <1>16, <1>17, Steps DEF QuietStep

-----------------------------------------------------------------------------
(* The tables and the counts *)

Books == Issued /\ TablesInStep /\ NotBefore /\ \A i \in Id : CountedAt(i) /\ EndedAt(i)

(* What the types say of one timer. *)
LEMMA IdFacts ==
    ASSUME TypeOK, NEW i \in Id
    PROVE  /\ i \in Nat /\ i # 0
           /\ info[i].key \in Key \cup {NoKey} /\ info[i].repeat \in Int
           /\ info[i].start \in Nat /\ info[i].ms \in Nat /\ info[i].ended \in BOOLEAN
           /\ repeats[i] \in Int /\ runs[i] \in Nat /\ late[i] \in Nat
           /\ info[i].key # NoKey => keyToTimerId[info[i].key] \in 0..MaxId
<1>1. i \in Nat /\ i # 0
  BY BoundAssumption DEF Id
<1>2. info[i] \in Info
  BY DEF TypeOK
<1>3. /\ info[i].key \in Key \cup {NoKey} /\ info[i].repeat \in Int
      /\ info[i].start \in Nat /\ info[i].ms \in Nat /\ info[i].ended \in BOOLEAN
  BY <1>2 DEF Info
<1>4. repeats[i] \in Int /\ runs[i] \in Nat /\ late[i] \in Nat
  BY DEF TypeOK
<1>5. info[i].key # NoKey => keyToTimerId[info[i].key] \in 0..MaxId
  BY <1>3 DEF TypeOK
<1> QED
  BY <1>1, <1>3, <1>4, <1>5

(* Only the clock or the place of the Tick thread changes. *)
LEMMA PlacesBooks ==
    ASSUME TypeOK, Books, UNCHANGED <<keyToTimerId, repeats, runs, late, info, nextId>>,
           now' \in Int, now <= now',
           \A i \in Id : Mine(i) => (At(i, {"after", "catch"})' <=> At(i, {"after", "catch"})),
           \A i \in Id : At(i, {"wrap", "run"})' =>
               At(i, {"wrap", "run"}) \/ info[i].key = NoKey \/ (Mine(i) /\ pc # "catch"),
           \A i \in Id : At(i, {"catch"}) => At(i, {"catch"})'
    PROVE  Books'
<1>1. Issued' /\ TablesInStep'
  BY DEF Books, Issued, TablesInStep
<1>2. NotBefore'
  <2>1. now \in Int
    BY BoundAssumption DEF TypeOK
  <2>2. ASSUME NEW i \in Id, runs[i] > 0 PROVE now' >= info[i].start + info[i].ms
    <3>1. now >= info[i].start + info[i].ms
      BY <2>2 DEF Books, NotBefore
    <3> QED
      BY <2>1, <3>1, IdFacts
  <2> QED
    BY <2>2 DEF NotBefore
<1>3. ASSUME NEW i \in Id PROVE CountedAt(i)' /\ EndedAt(i)'
  <2>0. CountedAt(i) /\ EndedAt(i) /\ (Mine(i)' <=> Mine(i))
    BY DEF Books, Mine
  <2>1. CASE info[i].key = NoKey
    <3>1. late[i] > 0 => FALSE
      <4>1. late[i] > 0 => i < nextId
        BY IdFacts DEF Books, Issued, TypeOK, Id
      <4> QED
        BY <2>0, <2>1, <4>1 DEF EndedAt
    <3> QED
      BY <2>0, <2>1, <3>1 DEF CountedAt, EndedAt
  <2>2. CASE info[i].key # NoKey
    <3>1. CountedAt(i)'
      <4>1. CASE Mine(i)
        BY <2>0, <2>2, <4>1 DEF CountedAt
      <4>2. CASE ~Mine(i)
        BY <2>0, <2>2, <4>2 DEF CountedAt
      <4> QED
        BY <4>1, <4>2
    <3>2. EndedAt(i)'
      <4>1. info[i].ended => ~Mine(i)' \/ At(i, {"catch"})'
        BY <2>0, <2>2 DEF EndedAt
      <4>2. late[i] > 0 => late[i] = 1 /\ info[i].ended /\ ~At(i, {"wrap", "run"})'
        BY <2>0, <2>2 DEF EndedAt, At
      <4> QED
        BY <2>2, <4>1, <4>2 DEF EndedAt
    <3> QED
      BY <3>1, <3>2
  <2> QED
    BY <2>1, <2>2
<1> QED
  BY <1>1, <1>2, <1>3 DEF Books

LEMMA QuietBooks ==
    ASSUME TypeOK, Ordered, Nodes, Books,
           ClockTick \/ Stop \/ Round \/ NothingDue \/ Collect \/ Check \/ Wrap \/ Back \/ TickEnds \/ UNCHANGED vars
    PROVE  Books'
<1> DEFINE AC == {"after", "catch"}
           WR == {"wrap", "run"}
<1>0. now \in Int
  BY BoundAssumption DEF TypeOK
<1>1. UNCHANGED <<keyToTimerId, repeats, runs, late, info, nextId>> /\ now' \in {now, now + 1}
  BY DEF ClockTick, Stop, Round, NothingDue, Collect, Check, Wrap, Back, TickEnds, vars, tables, hist
<1>2. now' \in Int /\ now <= now'
  BY <1>0, <1>1
<1>3. CASE UNCHANGED <<pc, batch>>
  <2>1. \A i \in Id : /\ At(i, AC)' <=> At(i, AC)
                      /\ At(i, WR)' <=> At(i, WR)
                      /\ At(i, {"catch"})' <=> At(i, {"catch"})
    BY <1>3 DEF At, Cur
  <2> QED
    BY <1>1, <1>2, <2>1, PlacesBooks
<1>4. CASE pc \in {"loop", "update", "check", "back"} /\ pc' \in {"loop", "update", "check", "back", "ended"}
  <2>1. \A i \in Id : ~At(i, AC) /\ ~At(i, AC)' /\ ~At(i, WR)' /\ ~At(i, {"catch"})
    BY <1>4 DEF At
  <2> QED
    BY <1>1, <1>2, <2>1, PlacesBooks
<1>5. CASE pc = "check" /\ pc' = "wrap" /\ UNCHANGED batch /\ IsValid(Cur)
  <2>1. \A i \in Id : ~At(i, AC) /\ ~At(i, AC)' /\ ~At(i, {"catch"})
    BY <1>5 DEF At
  <2>2. ASSUME NEW i \in Id, At(i, WR)' PROVE info[i].key = NoKey \/ (Mine(i) /\ pc # "catch")
    <3>1. Cur.id = i
      BY <1>5, <2>2 DEF At, Cur
    <3> QED
      BY <1>5, <3>1 DEF IsValid, Mine
  <2> QED
    BY <1>1, <1>2, <2>1, <2>2, PlacesBooks
<1>6. CASE Wrap
  <2>1. UNCHANGED batch /\ pc = "wrap" /\ pc' \in {"run", "after"}
    BY <1>6 DEF Wrap
  <2>2. Cur.id \in Id
    BY <2>1, CurFacts DEF Busy, Working
  <2>3. ASSUME NEW i \in Id, Mine(i), At(i, AC)' PROVE FALSE
    <3>1. Cur.id = i /\ pc' = "after"
      BY <2>1, <2>3 DEF At, Cur
    <3>2. CurKey # NoKey /\ keyToTimerId[CurKey] = 0
      BY <1>6, <3>1 DEF Wrap
    <3>3. keyToTimerId[CurKey] = i
      BY <2>3, <3>1 DEF Mine, CurKey
    <3> QED
      BY <3>2, <3>3, IdFacts
  <2>4. \A i \in Id : (At(i, WR)' => At(i, WR)) /\ ~At(i, {"catch"}) /\ ~At(i, AC)
    BY <2>1 DEF At, Cur
  <2> QED
    BY <1>1, <1>2, <2>3, <2>4, PlacesBooks
<1>7. ClockTick \/ Stop \/ UNCHANGED vars => UNCHANGED <<pc, batch>>
  BY DEF ClockTick, Stop, vars, ticker
<1>8. Round \/ NothingDue \/ Collect \/ Back \/ TickEnds =>
        pc \in {"loop", "update", "check", "back"} /\ pc' \in {"loop", "update", "check", "back", "ended"}
  BY DEF Round, NothingDue, Collect, Back, TickEnds
<1>9. ASSUME Check
      PROVE  \/ pc \in {"loop", "update", "check", "back"} /\ pc' \in {"loop", "update", "check", "back", "ended"}
             \/ pc = "check" /\ pc' = "wrap" /\ UNCHANGED batch /\ IsValid(Cur)
  BY <1>9 DEF Check
<1> QED
  BY <1>3, <1>4, <1>5, <1>6, <1>7, <1>8, <1>9

LEMMA RunBooks ==
    ASSUME TypeOK, Ordered, Nodes, Books, NEW throws \in BOOLEAN, Run(throws)
    PROVE  Books'
<1>1. PICK j : j = Cur.id
  OBVIOUS
<1>2. /\ pc = "run" /\ UNCHANGED <<now, keyToTimerId, repeats, nextId, batch>>
      /\ runs' = [runs EXCEPT ![j] = runs[j] + 1]
      /\ late' = [late EXCEPT ![j] = IF info[j].ended THEN late[j] + 1 ELSE late[j]]
      /\ pc' = IF CurKey = NoKey THEN "back" ELSE IF throws THEN "catch" ELSE "after"
  BY <1>1 DEF Run, tables
<1>3. /\ j \in Id /\ j < nextId /\ Cur \in Node /\ GoodNode(Cur) /\ Cur.time <= now
      /\ CurKey = info[j].key
  BY <1>1, <1>2, CurFacts DEF Busy, Working, CurKey
<1>4. /\ \A i \in Id : Same(i)
      /\ \A i \in Id : i # j => info'[i] = info[i]
      /\ info'[j].ended = (info[j].ended \/ (throws /\ CurKey # NoKey))
  BY <1>1, RunInfo
<1>5. runs \in [Id -> Nat] /\ late \in [Id -> Nat]
  BY DEF TypeOK
<1>6. /\ runs'[j] = runs[j] + 1 /\ (\A i \in Id : i # j => runs'[i] = runs[i] /\ late'[i] = late[i])
      /\ late'[j] = IF info[j].ended THEN late[j] + 1 ELSE late[j]
  BY <1>2, <1>3, <1>5
<1>7. \A i \in Id : info'[i].key = info[i].key /\ (Mine(i)' <=> Mine(i))
  BY <1>2, <1>4 DEF Same, Mine
<1>8. Cur' = Cur
  BY <1>2 DEF Cur
<1>9. Issued'
  <2>1. \A i \in Id : i >= nextId => i # j
    BY <1>3 DEF TypeOK, Id
  <2> QED
    BY <1>2, <1>6, <1>7, <2>1 DEF Books, Issued
<1>10. TablesInStep'
  <2>1. \A k \in Key : keyToTimerId[k] # 0 => keyToTimerId[k] \in Id
    BY BoundAssumption DEF TypeOK, Id
  <2> QED
    BY <1>2, <1>7, <2>1 DEF Books, TablesInStep
<1>11. NotBefore'
  <2>1. \A i \in Id : info'[i].start = info[i].start /\ info'[i].ms = info[i].ms
    BY <1>4 DEF Same
  <2>2. now >= info[j].start + info[j].ms
    <3>1. j # Dummy
      BY <1>3, IdFacts DEF Dummy
    <3>2. Cur.time >= info[j].start + info[j].ms /\ Cur.time \in Int
      BY <1>1, <1>3, <3>1 DEF GoodNode, Node
    <3>3. now \in Int
      BY BoundAssumption DEF TypeOK
    <3> QED
      BY <1>3, <3>2, <3>3, IdFacts
  <2> QED
    BY <1>2, <1>6, <2>1, <2>2 DEF Books, NotBefore
<1>12. ASSUME NEW i \in Id, i # j PROVE CountedAt(i)' /\ EndedAt(i)'
  <2>1. \A P : ~At(i, P) /\ ~At(i, P)'
    BY <1>1, <1>8, <1>12 DEF At
  <2>2. CountedAt(i) /\ EndedAt(i)
    BY DEF Books
  <2>3. info'[i] = info[i] /\ runs'[i] = runs[i] /\ late'[i] = late[i] /\ repeats'[i] = repeats[i] /\ nextId' = nextId
    BY <1>2, <1>4, <1>6, <1>12
  <2>4. CountedAt(i)'
    BY <1>7, <2>1, <2>2, <2>3 DEF CountedAt
  <2>5. EndedAt(i)'
    BY <1>7, <2>1, <2>2, <2>3 DEF EndedAt
  <2> QED
    BY <2>4, <2>5
<1>13. CountedAt(j) /\ EndedAt(j) /\ info'[j].repeat = info[j].repeat
  BY <1>3, <1>4 DEF Books, Same
<1>14. At(j, {"wrap", "run"}) /\ ~At(j, {"after", "catch"}) /\ ~At(j, {"catch"}) /\ ~At(j, {"wrap", "run"})'
  BY <1>1, <1>2 DEF At
<1>15. CountedAt(j)'
  <2>1. CASE info[j].key = NoKey
    BY <1>3, <1>7, <2>1 DEF CountedAt
  <2>2. CASE info[j].key # NoKey
    <3>1. At(j, {"after", "catch"})'
      BY <1>1, <1>2, <1>3, <1>8, <2>2 DEF At
    <3>2. runs[j] \in Nat /\ repeats[j] \in Int /\ info[j].repeat \in Int /\ repeats'[j] = repeats[j]
      BY <1>2, <1>3, IdFacts
    <3>3. CASE Mine(j)
      <4>1. Mine(j)' /\ info'[j].key # NoKey
        BY <1>3, <1>7, <2>2, <3>3
      <4>2. info[j].repeat # 0 => repeats[j] # 0
        BY <1>13, <2>2, <3>3 DEF CountedAt
      <4>3. info[j].repeat > 0 => repeats[j] > 0 /\ runs[j] + repeats[j] = info[j].repeat
        BY <1>13, <1>14, <2>2, <3>2, <3>3 DEF CountedAt
      <4>4. info[j].repeat > 0 => (runs[j] + 1) + repeats[j] = info[j].repeat + 1
        BY <3>2, <4>3
      <4> QED
        BY <1>6, <1>13, <3>1, <3>2, <4>1, <4>2, <4>3, <4>4 DEF CountedAt
    <3>4. CASE ~Mine(j)
      <4>1. ~Mine(j)'
        BY <1>3, <1>7, <3>4
      <4>2. info[j].repeat > 0 => runs[j] < info[j].repeat
        BY <1>13, <1>14, <2>2, <3>4 DEF CountedAt
      <4>3. info[j].repeat > 0 => runs[j] + 1 <= info[j].repeat
        BY <3>2, <4>2
      <4> QED
        BY <1>6, <1>13, <1>14, <4>1, <4>3 DEF CountedAt
    <3> QED
      BY <3>3, <3>4
  <2> QED
    BY <2>1, <2>2
<1>16. EndedAt(j)'
  <2>0. late[j] \in Nat /\ info[j].ended \in BOOLEAN
    BY <1>3, IdFacts
  <2>1. late[j] = 0
    BY <1>13, <1>14, <2>0 DEF EndedAt
  <2>2. info'[j].key = NoKey => ~info'[j].ended
    <3>1. info[j].key = NoKey => ~info[j].ended
      BY <1>3, <1>13 DEF EndedAt
    <3> QED
      BY <1>3, <1>4, <1>7, <3>1
  <2>3. info'[j].key # NoKey /\ info'[j].ended => ~Mine(j)' \/ At(j, {"catch"})'
    <3>1. CASE info[j].key # NoKey /\ info[j].ended
      <4>1. ~Mine(j)
        BY <1>13, <1>14, <3>1 DEF EndedAt
      <4> QED
        BY <1>3, <1>7, <4>1
    <3>2. CASE info[j].key # NoKey /\ throws
      <4>1. pc' = "catch"
        BY <1>2, <1>3, <3>2
      <4> QED
        BY <1>1, <1>8, <4>1 DEF At
    <3> QED
      BY <1>3, <1>4, <1>7, <3>1, <3>2
  <2>4. late'[j] > 0 => late'[j] = 1 /\ info'[j].ended
    <3>1. CASE info[j].ended
      <4>1. info'[j].ended
        BY <1>4, <3>1, Zenon
      <4>2. late'[j] = 1
        BY <1>6, <2>1, <3>1
      <4> QED
        BY <4>1, <4>2
    <3>2. CASE ~info[j].ended
      BY <1>6, <2>1, <3>2
    <3> QED
      BY <3>1, <3>2
  <2> QED
    BY <1>2, <1>14, <2>2, <2>3, <2>4 DEF EndedAt
<1> QED
  BY <1>9, <1>10, <1>11, <1>12, <1>15, <1>16 DEF Books

(* Timers of other keys, and others of the same key, see nothing of what     *)
(* follows a callback.                                                       *)
LEMMA OthersBooks ==
    ASSUME TypeOK, Books, UNCHANGED <<now, nextId, info, runs, late>>,
           NEW j \in Id, Cur.id = j, pc' = "back",
           \A i \in Id : i # j => repeats'[i] = repeats[i],
           \A i \in Id : i # j => (Mine(i)' <=> Mine(i))
    PROVE  \A i \in Id : i # j => CountedAt(i)' /\ EndedAt(i)'
<1> SUFFICES ASSUME NEW i \in Id, i # j PROVE CountedAt(i)' /\ EndedAt(i)'
  OBVIOUS
<1>1. \A P : ~At(i, P)
  BY DEF At
<1>2. ~At(i, {"after", "catch"})' /\ ~At(i, {"wrap", "run"})' /\ ~At(i, {"catch"})'
  BY DEF At
<1>3. CountedAt(i) /\ EndedAt(i) /\ repeats'[i] = repeats[i] /\ (Mine(i)' <=> Mine(i))
  BY DEF Books
<1>4. CountedAt(i)'
  BY <1>1, <1>2, <1>3 DEF CountedAt
<1>5. EndedAt(i)'
  BY <1>1, <1>2, <1>3 DEF EndedAt
<1> QED
  BY <1>4, <1>5

(* The entries of the timer of the node under way are erased. *)
LEMMA ErasedBooks ==
    ASSUME TypeOK, Books, UNCHANGED <<now, nextId, info, runs, late>>,
           NEW j \in Id, Cur.id = j, j < nextId, CurKey \in Key, pc \in {"after", "catch"}, pc' = "back",
           keyToTimerId' = [keyToTimerId EXCEPT ![CurKey] = IF keyToTimerId[CurKey] = j THEN 0
                                                            ELSE keyToTimerId[CurKey]],
           repeats' \in [Id -> Int], repeats'[j] = 0,
           \A i \in Id : i # j => repeats'[i] = repeats[i]
    PROVE  Books'
<1>1. PICK k \in Key : k = CurKey
  OBVIOUS
<1>2. info[j].key = k /\ k # NoKey /\ j # 0 /\ j \in Nat
  BY <1>1, KeyAssumption, IdFacts DEF CurKey
<1>3. keyToTimerId \in [Key -> 0..MaxId]
  BY DEF TypeOK
<1>4. /\ keyToTimerId'[k] = IF keyToTimerId[k] = j THEN 0 ELSE keyToTimerId[k]
      /\ \A k2 \in Key : k2 # k => keyToTimerId'[k2] = keyToTimerId[k2]
  BY <1>1, <1>3
<1>5. ~Mine(j)'
  BY <1>2, <1>4 DEF Mine
<1>6. ASSUME NEW i \in Id, i # j PROVE Mine(i)' <=> Mine(i)
  <2>1. info[i].key \in Key \cup {NoKey} /\ i # 0
    BY IdFacts
  <2>2. CASE info[i].key = k
    BY <1>2, <1>4, <1>6, <2>1, <2>2 DEF Mine
  <2>3. CASE info[i].key # k
    BY <1>4, <2>1, <2>3 DEF Mine
  <2> QED
    BY <2>2, <2>3
<1>7. \A i \in Id : i # j => CountedAt(i)' /\ EndedAt(i)'
  BY <1>6, OthersBooks
<1>8. Issued'
  <2>1. \A k2 \in Key : keyToTimerId'[k2] < nextId
    <3>1. \A k2 \in Key : keyToTimerId[k2] < nextId
      BY DEF Books, Issued
    <3>2. 0 < nextId
      BY BoundAssumption DEF TypeOK
    <3> QED
      BY <1>4, <3>1, <3>2
  <2>2. \A i \in Id : i >= nextId => repeats'[i] = 0
    BY DEF Books, Issued
  <2> QED
    BY <2>1, <2>2 DEF Books, Issued
<1>9. TablesInStep'
  <2>1. ASSUME NEW i \in Id, repeats'[i] # 0 PROVE info[i].key # NoKey /\ keyToTimerId'[info[i].key] = i
    <3>1. i # j /\ repeats[i] # 0
      BY <2>1
    <3>2. Mine(i)
      BY <3>1 DEF Books, TablesInStep, Mine
    <3> QED
      BY <1>6, <3>1, <3>2 DEF Mine
  <2>2. ASSUME NEW k2 \in Key, keyToTimerId'[k2] # 0 PROVE info[keyToTimerId'[k2]].key = k2
    <3>1. keyToTimerId'[k2] = keyToTimerId[k2]
      BY <1>4, <2>2
    <3> QED
      BY <2>2, <3>1 DEF Books, TablesInStep
  <2> QED
    BY <2>1, <2>2 DEF TablesInStep
<1>10. NotBefore'
  BY DEF Books, NotBefore
<1>11. ~At(j, {"wrap", "run"})' /\ ~At(j, {"wrap", "run"})
  BY DEF At
<1>12. CountedAt(j)'
  <2>0. runs[j] \in Nat /\ repeats[j] \in Int /\ info[j].repeat \in Int /\ CountedAt(j)
    BY IdFacts DEF Books
  <2>1. At(j, {"after", "catch"})
    BY DEF At
  <2>2. info[j].repeat > 0 => runs[j] <= info[j].repeat
    <3>1. CASE Mine(j)
      <4>1. info[j].repeat > 0 => repeats[j] > 0 /\ runs[j] + repeats[j] = info[j].repeat + 1
        BY <1>2, <2>0, <2>1, <3>1 DEF CountedAt
      <4> QED
        BY <2>0, <4>1
    <3>2. CASE ~Mine(j)
      BY <1>2, <2>0, <3>2 DEF CountedAt
    <3> QED
      BY <3>1, <3>2
  <2> QED
    BY <1>5, <1>11, <2>2 DEF CountedAt
<1>13. EndedAt(j)'
  BY <1>2, <1>5, <1>11 DEF EndedAt, Books
<1> QED
  BY <1>7, <1>8, <1>9, <1>10, <1>12, <1>13 DEF Books

LEMMA CatchBooks ==
    ASSUME TypeOK, Ordered, Nodes, Books, Catch
    PROVE  Books'
<1>1. /\ pc = "catch" /\ pc' = "back" /\ UNCHANGED <<now, nextId, info, runs, late>>
      /\ repeats' = [repeats EXCEPT ![Cur.id] = 0]
      /\ keyToTimerId' = [keyToTimerId EXCEPT ![CurKey] = IF keyToTimerId[CurKey] = Cur.id THEN 0
                                                          ELSE keyToTimerId[CurKey]]
  BY DEF Catch, hist
<1>2. PICK j \in Id : j = Cur.id
  BY <1>1, CurFacts DEF Busy, Working
<1>3. j < nextId /\ CurKey \in Key
  BY <1>1, <1>2, CurFacts DEF Busy, Working
<1>4. repeats \in [Id -> Int]
  BY DEF TypeOK
<1>5. repeats' \in [Id -> Int] /\ repeats'[j] = 0 /\ \A i \in Id : i # j => repeats'[i] = repeats[i]
  BY <1>1, <1>2, <1>4
<1> QED
  BY <1>1, <1>2, <1>3, <1>5, ErasedBooks

LEMMA AfterBooks ==
    ASSUME TypeOK, Ordered, Nodes, Books, After
    PROVE  Books'
<1>1. pc = "after" /\ pc' = "back" /\ UNCHANGED <<now, nextId, info, runs, late>>
  BY DEF After, hist
<1>2. PICK j \in Id : j = Cur.id
  BY <1>1, CurFacts DEF Busy, Working
<1>3. j < nextId /\ CurKey \in Key /\ info[j].key = CurKey /\ CurKey # NoKey
  BY <1>1, <1>2, CurFacts, KeyAssumption DEF Busy, Working, CurKey
<1>4. repeats \in [Id -> Int] /\ keyToTimerId \in [Key -> 0..MaxId]
  BY DEF TypeOK
<1>5. (keyToTimerId[CurKey] = j) <=> Mine(j)
  BY <1>3 DEF Mine
<1>6. CASE Mine(j) /\ repeats[j] = 1 /\ Cancelled(CurKey)
  <2>1. keyToTimerId[CurKey] = j
    BY <1>5, <1>6
  <2>2. keyToTimerId' = [keyToTimerId EXCEPT ![CurKey] = IF keyToTimerId[CurKey] = j THEN 0
                                                         ELSE keyToTimerId[CurKey]]
    BY <1>6, <2>1 DEF Cancelled
  <2>3. repeats' = [i \in Id |-> IF i = j THEN 0 ELSE repeats[i]]
    BY <1>6, <2>1 DEF Cancelled
  <2>4. repeats' \in [Id -> Int] /\ repeats'[j] = 0 /\ \A i \in Id : i # j => repeats'[i] = repeats[i]
    BY <1>4, <2>3
  <2> QED
    BY <1>1, <1>2, <1>3, <2>2, <2>4, ErasedBooks
<1>7. ASSUME UNCHANGED keyToTimerId, repeats' \in [Id -> Int],
             \A i \in Id : i # j => repeats'[i] = repeats[i],
             \/ repeats'[j] = repeats[j] /\ (Mine(j) => repeats[j] <= 0)
             \/ Mine(j) /\ repeats[j] > 1 /\ repeats'[j] = repeats[j] - 1
      PROVE  Books'
  <2>1. \A i \in Id : Mine(i)' <=> Mine(i)
    BY <1>1, <1>7 DEF Mine
  <2>2. \A i \in Id : i # j => CountedAt(i)' /\ EndedAt(i)'
    BY <1>1, <1>2, <1>7, <2>1, OthersBooks
  <2>3. Issued'
    <3>1. \A i \in Id : i >= nextId => i # j
      BY <1>3 DEF TypeOK, Id
    <3> QED
      BY <1>1, <1>7, <3>1 DEF Books, Issued
  <2>4. TablesInStep'
    <3>1. \A i \in Id : repeats'[i] # 0 => repeats[i] # 0
      BY <1>4, <1>7
    <3> QED
      BY <1>1, <1>7, <3>1 DEF Books, TablesInStep
  <2>5. NotBefore'
    BY <1>1 DEF Books, NotBefore
  <2>6. ~At(j, {"wrap", "run"})' /\ ~At(j, {"after", "catch"})' /\ At(j, {"after", "catch"}) /\ ~At(j, {"catch"})
    BY <1>1, <1>2 DEF At
  <2>7. CountedAt(j)'
    <3>0. runs[j] \in Nat /\ repeats[j] \in Int /\ info[j].repeat \in Int /\ CountedAt(j)
      BY IdFacts DEF Books
    <3>1. CASE Mine(j)
      <4>1. info[j].repeat # 0 => repeats[j] # 0
        BY <1>3, <3>0, <3>1 DEF CountedAt
      <4>2. info[j].repeat > 0 => repeats[j] > 0 /\ runs[j] + repeats[j] = info[j].repeat + 1
        BY <1>3, <2>6, <3>0, <3>1 DEF CountedAt
      <4>3. info[j].repeat # 0 => repeats'[j] # 0
        BY <1>7, <3>0, <3>1, <4>1
      <4>4. info[j].repeat > 0 => repeats'[j] > 0 /\ runs[j] + repeats'[j] = info[j].repeat
        BY <1>7, <3>0, <3>1, <4>2
      <4>5. Mine(j)' /\ info[j].repeat + 0 = info[j].repeat
        BY <2>1, <3>0, <3>1
      <4> QED
        BY <1>1, <2>6, <4>3, <4>4, <4>5 DEF CountedAt
    <3>2. CASE ~Mine(j)
      BY <1>1, <1>3, <2>1, <2>6, <3>0, <3>2 DEF CountedAt
    <3> QED
      BY <3>1, <3>2
  <2>8. EndedAt(j)'
    <3>1. EndedAt(j)
      BY DEF Books
    <3> QED
      BY <1>1, <2>1, <2>6, <3>1 DEF EndedAt
  <2> QED
    BY <2>2, <2>3, <2>4, <2>5, <2>7, <2>8 DEF Books
<1>8. CASE Mine(j) /\ repeats[j] > 1 /\ UNCHANGED keyToTimerId /\ repeats' = [repeats EXCEPT ![j] = repeats[j] - 1]
  <2>1. repeats' \in [Id -> Int] /\ repeats'[j] = repeats[j] - 1 /\ \A i \in Id : i # j => repeats'[i] = repeats[i]
    BY <1>4, <1>8
  <2> QED
    BY <1>7, <1>8, <2>1
<1>9. CASE Mine(j) /\ repeats[j] = -1 /\ UNCHANGED <<keyToTimerId, repeats>>
  <2>1. Mine(j) => repeats[j] <= 0
    BY <1>9
  <2> QED
    BY <1>4, <1>7, <1>9, <2>1
<1>10. CASE ~Mine(j) /\ UNCHANGED <<keyToTimerId, repeats>>
  BY <1>4, <1>7, <1>10
<1> QED
  BY <1>2, <1>5, <1>6, <1>8, <1>9, <1>10 DEF After, tables

(* The key k is taken from the timer it names and given to v, a new timer,   *)
(* or to none when v is 0.                                                   *)
Replaced(k, v) ==
    /\ UNCHANGED <<now, runs, late, pc, batch>>
    /\ keyToTimerId' = [keyToTimerId EXCEPT ![k] = v]
    /\ \A i \in Id : i # v =>
           /\ repeats'[i] = IF i = keyToTimerId[k] THEN 0 ELSE repeats[i]
           /\ info'[i].key = info[i].key /\ info'[i].ms = info[i].ms
           /\ info'[i].repeat = info[i].repeat /\ info'[i].start = info[i].start
           /\ info'[i].ended = (info[i].ended \/ info[i].key = k)
    /\ \/ v = 0 /\ nextId' = nextId
       \/ /\ v = nextId /\ v \in Id /\ nextId' = nextId + 1
          /\ info'[v].key = k /\ ~info'[v].ended
          /\ repeats'[v] = info'[v].repeat /\ info'[v].repeat \in Int

LEMMA ReplacedBooks ==
    ASSUME TypeOK, Ordered, Nodes, Books, NEW k \in Key, NEW v \in Nat, Replaced(k, v)
    PROVE  Books'
<1>0. k # NoKey /\ nextId \in Nat /\ nextId > 0 /\ nextId' \in Nat /\ nextId' >= nextId /\ v < nextId'
  BY KeyAssumption, BoundAssumption DEF TypeOK, Replaced
<1>1. keyToTimerId \in [Key -> 0..MaxId] /\ \A k2 \in Key : keyToTimerId[k2] \in Nat
  BY BoundAssumption DEF TypeOK
<1>2. keyToTimerId'[k] = v /\ \A k2 \in Key : k2 # k => keyToTimerId'[k2] = keyToTimerId[k2]
  BY <1>1 DEF Replaced
<1>3. \A i \in Id : i # v => /\ repeats'[i] = IF i = keyToTimerId[k] THEN 0 ELSE repeats[i]
                             /\ info'[i].key = info[i].key /\ info'[i].ms = info[i].ms
                             /\ info'[i].repeat = info[i].repeat /\ info'[i].start = info[i].start
                             /\ info'[i].ended = (info[i].ended \/ info[i].key = k)
                             /\ runs'[i] = runs[i] /\ late'[i] = late[i]
  BY DEF Replaced
<1>4. UNCHANGED <<now, runs, late, pc, batch>>
  BY DEF Replaced
<1>5. \A i, P : At(i, P)' <=> At(i, P)
  BY <1>4 DEF At, Cur
<1>6. ASSUME NEW i \in Id, i # v
      PROVE  /\ info[i].key = k => ~Mine(i)'
             /\ info[i].key # k => (Mine(i)' <=> Mine(i)) /\ repeats'[i] = repeats[i]
  <2>1. info[i].key \in Key \cup {NoKey} /\ i # 0 /\ info'[i].key = info[i].key
    BY <1>3, <1>6, IdFacts
  <2>2. CASE info[i].key = k
    BY <1>0, <1>2, <1>6, <2>1, <2>2 DEF Mine
  <2>3. CASE info[i].key # k
    <3>1. i # keyToTimerId[k]
      BY <2>1, <2>3 DEF Books, TablesInStep
    <3> QED
      BY <1>2, <1>3, <1>6, <2>1, <2>3, <3>1 DEF Mine
  <2> QED
    BY <2>2, <2>3
<1>7. \A i \in Id : i >= nextId' => i # v /\ i >= nextId
  BY <1>0 DEF Id
<1>8. \A k2 \in Key : keyToTimerId[k2] < nextId
  BY DEF Books, Issued
<1>9. Issued'
  <2>1. \A k2 \in Key : keyToTimerId'[k2] < nextId'
    BY <1>0, <1>1, <1>2, <1>8
  <2>2. \A i \in Id : i >= nextId' => info'[i].key = NoKey /\ repeats'[i] = 0 /\ runs'[i] = 0 /\ late'[i] = 0
    BY <1>3, <1>7 DEF Books, Issued
  <2> QED
    BY <2>1, <2>2 DEF Issued
<1>10. TablesInStep'
  <2>1. ASSUME NEW i \in Id, repeats'[i] # 0 PROVE info'[i].key # NoKey /\ keyToTimerId'[info'[i].key] = i
    <3>1. CASE i = v
      <4>1. info'[v].key = k
        BY <1>0, <3>1, IdFacts DEF Replaced
      <4> QED
        BY <1>0, <1>2, <3>1, <4>1
    <3>2. CASE i # v
      <4>1. repeats[i] # 0 /\ i # keyToTimerId[k] /\ info'[i].key = info[i].key
        BY <1>3, <2>1, <3>2
      <4>2. info[i].key # NoKey /\ keyToTimerId[info[i].key] = i
        BY <4>1 DEF Books, TablesInStep
      <4>3. info[i].key # k /\ info[i].key \in Key
        BY <4>1, <4>2, IdFacts
      <4> QED
        BY <1>2, <4>1, <4>2, <4>3
    <3> QED
      BY <3>1, <3>2
  <2>2. ASSUME NEW k2 \in Key, keyToTimerId'[k2] # 0 PROVE info'[keyToTimerId'[k2]].key = k2
    <3>1. CASE k2 = k
      BY <1>2, <2>2, <3>1 DEF Replaced
    <3>2. CASE k2 # k
      <4>1. PICK x : x = keyToTimerId[k2]
        OBVIOUS
      <4>2. x # 0 /\ x < nextId /\ x \in Id /\ keyToTimerId'[k2] = x
        BY <1>1, <1>2, <1>8, <2>2, <3>2, <4>1, BoundAssumption DEF Id
      <4>3. x # v
        BY <1>0, <1>1, <4>1, <4>2 DEF Replaced
      <4>4. info[x].key = k2
        BY <2>2, <4>1, <4>2 DEF Books, TablesInStep
      <4> QED
        BY <1>3, <4>2, <4>3, <4>4
    <3> QED
      BY <3>1, <3>2
  <2> QED
    BY <2>1, <2>2 DEF TablesInStep
<1>11. NotBefore'
  <2>1. ASSUME NEW i \in Id, runs[i] > 0 PROVE now >= info'[i].start + info'[i].ms
    <3>1. CASE i = v
      <4>1. i >= nextId
        BY <1>0, <3>1, IdFacts DEF Replaced
      <4>2. runs[i] = 0
        BY <4>1 DEF Books, Issued
      <4> QED
        BY <2>1, <4>2
    <3>2. CASE i # v
      BY <1>3, <2>1, <3>2 DEF Books, NotBefore
    <3> QED
      BY <3>1, <3>2
  <2> QED
    BY <1>4, <2>1 DEF NotBefore
<1>12. ASSUME NEW i \in Id, i # v PROVE CountedAt(i)' /\ EndedAt(i)'
  <2>0. /\ CountedAt(i) /\ EndedAt(i) /\ runs[i] \in Nat /\ repeats[i] \in Int /\ info[i].repeat \in Int
        /\ i \in Nat
    BY IdFacts DEF Books
  <2>1. /\ At(i, {"after", "catch"})' <=> At(i, {"after", "catch"})
        /\ At(i, {"wrap", "run"})' <=> At(i, {"wrap", "run"})
        /\ At(i, {"catch"})' <=> At(i, {"catch"})
    BY <1>5
  <2>2. /\ info'[i].key = info[i].key /\ info'[i].repeat = info[i].repeat
        /\ runs'[i] = runs[i] /\ late'[i] = late[i]
    BY <1>3, <1>12
  <2>3. CountedAt(i)'
    <3>1. CASE info[i].key = k
      <4>1. info[i].repeat > 0 => /\ runs[i] <= info[i].repeat
                                  /\ At(i, {"wrap", "run"}) => runs[i] < info[i].repeat
        <5>1. CASE Mine(i)
          <6>1. info[i].repeat > 0 =>
                    /\ repeats[i] > 0
                    /\ runs[i] + repeats[i] = info[i].repeat + (IF At(i, {"after", "catch"}) THEN 1 ELSE 0)
            BY <1>0, <2>0, <3>1, <5>1 DEF CountedAt
          <6>2. At(i, {"wrap", "run"}) => ~At(i, {"after", "catch"})
            BY DEF At
          <6> QED
            BY <2>0, <6>1, <6>2
        <5>2. CASE ~Mine(i)
          BY <1>0, <2>0, <3>1, <5>2 DEF CountedAt
        <5> QED
          BY <5>1, <5>2
      <4>2. ~Mine(i)'
        BY <1>6, <1>12, <3>1
      <4> QED
        BY <2>1, <2>2, <4>1, <4>2 DEF CountedAt
    <3>2. CASE info[i].key # k
      <4>1. (Mine(i)' <=> Mine(i)) /\ repeats'[i] = repeats[i]
        BY <1>6, <1>12, <3>2
      <4> QED
        BY <2>0, <2>1, <2>2, <4>1 DEF CountedAt
    <3> QED
      BY <3>1, <3>2
  <2>4. info[i].ended => info'[i].ended
    BY <1>3, <1>12, Zenon
  <2>5. info[i].key # k => (info'[i].ended <=> info[i].ended)
    BY <1>3, <1>12, Zenon
  <2>6. i < nextId' => i < nextId
    BY <1>0, <1>12, <2>0 DEF Replaced
  <2>7. i < nextId' /\ info'[i].key = NoKey => ~info'[i].ended
    BY <1>0, <2>0, <2>2, <2>5, <2>6 DEF EndedAt
  <2>8. info'[i].key # NoKey /\ info'[i].ended => ~Mine(i)' \/ At(i, {"catch"})'
    <3>1. CASE info[i].key = k
      BY <1>6, <1>12, <3>1
    <3>2. CASE info[i].key # k
      <4>1. Mine(i)' <=> Mine(i)
        BY <1>6, <1>12, <3>2
      <4> QED
        BY <2>0, <2>1, <2>2, <2>5, <3>2, <4>1 DEF EndedAt
    <3> QED
      BY <3>1, <3>2
  <2>9. late'[i] > 0 => late'[i] = 1 /\ info'[i].ended /\ ~At(i, {"wrap", "run"})'
    BY <2>0, <2>1, <2>2, <2>4 DEF EndedAt
  <2> QED
    BY <2>3, <2>7, <2>8, <2>9 DEF EndedAt
<1>13. ASSUME v \in Id PROVE CountedAt(v)' /\ EndedAt(v)'
  <2>1. /\ v = nextId /\ info'[v].key = k /\ ~info'[v].ended
        /\ repeats'[v] = info'[v].repeat /\ info'[v].repeat \in Int
    BY <1>0, <1>13, IdFacts DEF Replaced
  <2>2. runs'[v] = 0 /\ late'[v] = 0
    BY <1>0, <1>4, <1>13, <2>1 DEF Books, Issued
  <2>3. ~At(v, {"after", "catch"})'
    <3>1. ~At(v, {"after", "catch"})
      BY <1>0, <2>1, CurFacts DEF At, Busy, Working
    <3> QED
      BY <1>5, <1>13, <3>1
  <2>4. Mine(v)'
    BY <1>0, <1>2, <2>1 DEF Mine
  <2>5. CountedAt(v)'
    BY <2>1, <2>2, <2>3, <2>4 DEF CountedAt
  <2>6. EndedAt(v)'
    BY <1>0, <2>1, <2>2 DEF EndedAt
  <2> QED
    BY <2>5, <2>6
<1> QED
  BY <1>9, <1>10, <1>11, <1>12, <1>13 DEF Books

LEMMA CancelBooks ==
    ASSUME TypeOK, Ordered, Nodes, Books, NEW k \in Key, Cancelled(k), info' = End(k),
           UNCHANGED <<now, nextId, runs, late, pc, batch>>
    PROVE  Books'
<1>1. keyToTimerId' = [keyToTimerId EXCEPT ![k] = 0]
  BY DEF Cancelled
<1>2. \A i \in Id : repeats'[i] = IF i = keyToTimerId[k] THEN 0 ELSE repeats[i]
  BY DEF Cancelled
<1>3. \A i \in Id : /\ info'[i].key = info[i].key /\ info'[i].ms = info[i].ms
                    /\ info'[i].repeat = info[i].repeat /\ info'[i].start = info[i].start
                    /\ info'[i].ended = (info[i].ended \/ info[i].key = k)
  BY EndProperties
<1>4. Replaced(k, 0)
  BY <1>1, <1>2, <1>3, Zenon DEF Replaced
<1> QED
  BY <1>4, ReplacedBooks

LEMMA ScheduleBooks ==
    ASSUME TypeOK, Ordered, Nodes, Books, NEW c \in Caller, DoScheduleWithKey(c)
    PROVE  Books'
<1>0. UNCHANGED <<now, runs, late, pc, batch>> /\ nextId <= MaxId /\ nextId' = nextId + 1
  BY DEF DoScheduleWithKey, ticker
<1>1. PICK k \in Key : k = call[c][1]
  BY CallFacts DEF DoScheduleWithKey
<1>2. PICK r \in Nat \cup {-1} : r = call[c][2][2]
  BY CallFacts DEF DoScheduleWithKey
<1>3. PICK v \in Id : v = nextId
  BY <1>0, BoundAssumption DEF TypeOK, Id
<1>4. PICK x : /\ info' = [End(k) EXCEPT ![v] = x]
               /\ x.key = k /\ x.repeat = r /\ x.ended = FALSE
  <2>1. PICK ms : ms = AtLeastOne(call[c][2][1])
    OBVIOUS
  <2>2. PICK x : x = [key |-> k, ms |-> ms, repeat |-> r, start |-> now, ended |-> FALSE]
    OBVIOUS
  <2>3. info' = [End(k) EXCEPT ![v] = x]
    BY <1>1, <1>2, <1>3, <2>1, <2>2 DEF DoScheduleWithKey
  <2>4. x.key = k /\ x.repeat = r /\ x.ended = FALSE
    BY <2>2
  <2> QED
    BY <2>3, <2>4
<1>5. keyToTimerId' = [keyToTimerId EXCEPT ![k] = v]
  BY <1>1, <1>3 DEF DoScheduleWithKey
<1>6. repeats' = [i \in Id |-> IF i = v THEN r ELSE IF i = keyToTimerId[k] THEN 0 ELSE repeats[i]]
  BY <1>1, <1>2, <1>3 DEF DoScheduleWithKey
<1>7. PICK e : e = End(k)
  OBVIOUS
<1>8. /\ e \in [Id -> Info]
      /\ \A i \in Id : /\ e[i].key = info[i].key /\ e[i].ms = info[i].ms
                       /\ e[i].repeat = info[i].repeat /\ e[i].start = info[i].start
                       /\ e[i].ended = (info[i].ended \/ info[i].key = k)
  BY <1>7, EndProperties
<1>9. info'[v] = x /\ \A i \in Id : i # v => info'[i] = e[i]
  BY <1>3, <1>4, <1>7, <1>8
<1>10. /\ repeats'[v] = r
       /\ \A i \in Id : i # v => repeats'[i] = IF i = keyToTimerId[k] THEN 0 ELSE repeats[i]
  BY <1>3, <1>6
<1>11. \A i \in Id : i # v =>
           /\ repeats'[i] = IF i = keyToTimerId[k] THEN 0 ELSE repeats[i]
           /\ info'[i].key = info[i].key /\ info'[i].ms = info[i].ms
           /\ info'[i].repeat = info[i].repeat /\ info'[i].start = info[i].start
           /\ info'[i].ended = (info[i].ended \/ info[i].key = k)
  BY <1>8, <1>9, <1>10, Zenon
<1>12. /\ v = nextId /\ v \in Id /\ nextId' = nextId + 1 /\ info'[v].key = k /\ ~info'[v].ended
       /\ repeats'[v] = info'[v].repeat /\ info'[v].repeat \in Int
  BY <1>0, <1>3, <1>4, <1>9, <1>10
<1>13. Replaced(k, v)
  BY <1>0, <1>5, <1>11, <1>12, Zenon DEF Replaced
<1>14. v \in Nat
  BY <1>3, IdFacts
<1> QED
  BY <1>13, <1>14, ReplacedBooks

(* A timer without a key changes nothing for the others. *)
LEMMA KeylessBooks ==
    ASSUME TypeOK, Ordered, Nodes, Books, NEW c \in Caller, NEW t \in Timing, DoSchedule(c, t[1], t[2])
    PROVE  Books'
<1>0. /\ UNCHANGED <<now, keyToTimerId, repeats, runs, late, pc, batch>>
      /\ nextId <= MaxId /\ nextId' = nextId + 1
  BY DEF DoSchedule, ticker
<1>1. PICK v \in Id : v = nextId
  BY <1>0, BoundAssumption DEF TypeOK, Id
<1>2. PICK x : info' = [info EXCEPT ![v] = x] /\ x.key = NoKey /\ x.ended = FALSE
  <2>1. PICK ms : ms = AtLeastOne(t[1])
    OBVIOUS
  <2>2. PICK x : x = [key |-> NoKey, ms |-> ms, repeat |-> t[2], start |-> now, ended |-> FALSE]
    OBVIOUS
  <2>3. info' = [info EXCEPT ![v] = x]
    BY <1>1, <2>1, <2>2 DEF DoSchedule
  <2>4. x.key = NoKey /\ x.ended = FALSE
    BY <2>2
  <2> QED
    BY <2>3, <2>4
<1>3. info'[v] = x /\ \A i \in Id : i # v => info'[i] = info[i]
  BY <1>1, <1>2 DEF TypeOK
<1>4. nextId \in Nat /\ repeats[v] = 0 /\ runs[v] = 0 /\ late[v] = 0 /\ info[v].key = NoKey
  BY <1>1, BoundAssumption DEF Books, Issued, TypeOK
<1>5. \A i, P : At(i, P)' <=> At(i, P)
  BY <1>0 DEF At, Cur
<1>6. \A k \in Key : keyToTimerId[k] \in Nat /\ keyToTimerId[k] < nextId /\ (keyToTimerId[k] # 0 => keyToTimerId[k] \in Id)
  <2>1. \A k \in Key : keyToTimerId[k] \in 0..MaxId
    BY DEF TypeOK
  <2>2. \A k \in Key : keyToTimerId[k] < nextId
    BY DEF Books, Issued
  <2> QED
    BY <2>1, <2>2, BoundAssumption DEF Id
<1>7. Issued'
  <2>1. \A i \in Id : i >= nextId' => i >= nextId /\ i # v
    BY <1>0, <1>1, <1>4 DEF Id
  <2>2. \A k \in Key : keyToTimerId'[k] < nextId'
    BY <1>0, <1>4, <1>6
  <2> QED
    BY <1>0, <1>3, <2>1, <2>2 DEF Books, Issued
<1>8. TablesInStep'
  <2>1. \A k \in Key : keyToTimerId[k] # v
    BY <1>1, <1>4, <1>6
  <2> QED
    BY <1>0, <1>3, <1>4, <1>6, <2>1 DEF Books, TablesInStep
<1>9. NotBefore'
  BY <1>0, <1>3, <1>4 DEF Books, NotBefore
<1>10. ASSUME NEW i \in Id, i # v PROVE CountedAt(i)' /\ EndedAt(i)'
  <2>1. /\ CountedAt(i) /\ EndedAt(i) /\ info'[i] = info[i] /\ (Mine(i)' <=> Mine(i))
        /\ repeats'[i] = repeats[i] /\ runs'[i] = runs[i] /\ late'[i] = late[i]
    BY <1>0, <1>3, <1>10 DEF Books, Mine
  <2>2. i < nextId' => i < nextId
    BY <1>0, <1>1, <1>4, <1>10, IdFacts
  <2>3. CountedAt(i)'
    BY <1>5, <2>1 DEF CountedAt
  <2>4. EndedAt(i)'
    BY <1>5, <2>1, <2>2 DEF EndedAt
  <2> QED
    BY <2>3, <2>4
<1>11. CountedAt(v)' /\ EndedAt(v)'
  BY <1>0, <1>2, <1>3, <1>4 DEF CountedAt, EndedAt
<1> QED
  BY <1>7, <1>8, <1>9, <1>10, <1>11 DEF Books

LEMMA BooksStep ==
    ASSUME TypeOK, Ordered, Nodes, Books, [Next]_vars
    PROVE  Books'
<1>1. CASE QuietStep
  BY <1>1, QuietBooks, AfterBooks, CatchBooks DEF QuietStep
<1>2. ASSUME NEW c \in Caller, NEW k \in Key, CancelByKey(c, k) PROVE Books'
  BY <1>2, CancelBooks DEF CancelByKey, ticker
<1>3. ASSUME NEW c \in Caller, NEW k \in Key, NEW t \in Timing, ScheduleWithKey(c, k, t) PROVE Books'
  BY <1>3, CancelBooks DEF ScheduleWithKey, ticker
<1> QED
  BY <1>1, <1>2, <1>3, RunBooks, ScheduleBooks, KeylessBooks, Steps

-----------------------------------------------------------------------------
(* The theorem *)

(* The rest of the types. *)
LEMMA TypeStep ==
    ASSUME TypeOK, Ordered, Nodes, [Next]_vars
    PROVE  TypeOK'
<1>0. /\ MaxId \in Nat /\ MaxTime \in Nat /\ nextId \in 1..MaxId + 1
      /\ keyToTimerId \in [Key -> 0..MaxId] /\ repeats \in [Id -> Nat \cup {-1}]
      /\ runs \in [Id -> Nat] /\ late \in [Id -> Nat]
      /\ call \in [Caller -> {NoCall} \cup (Key \X Timing)]
  BY BoundAssumption DEF TypeOK
<1>1. now' \in 0..MaxTime
  <2>1. UNCHANGED now \/ (now < MaxTime /\ now' = now + 1)
    BY Steps DEF QuietStep, ClockTick, Stop, Round, NothingDue, Collect, Check, Wrap, After, Catch,
                 Back, TickEnds, vars,
                 DoScheduleWithKey, DoSchedule, CancelByKey, ScheduleWithKey, Run
  <2>2. now \in 0..MaxTime
    BY DEF TypeOK
  <2> QED
    BY <1>0, <2>1, <2>2
<1>2. bClosed' \in BOOLEAN
  <2>1. UNCHANGED bClosed \/ bClosed' = TRUE
    BY Steps DEF QuietStep, ClockTick, Stop, Round, NothingDue, Collect, Check, Wrap, After, Catch,
                 Back, TickEnds, vars,
                 DoScheduleWithKey, DoSchedule, CancelByKey, ScheduleWithKey, Run
  <2> QED
    BY <2>1 DEF TypeOK
<1>3. pc' \in {"loop", "update", "check", "wrap", "run", "after", "catch", "back", "ended"}
  <2>1. UNCHANGED pc \/ pc' \in {"loop", "update", "check", "wrap", "run", "after", "catch", "back", "ended"}
    BY Steps DEF QuietStep, ClockTick, Stop, Round, NothingDue, Collect, Check, Wrap, After, Catch,
                 Back, TickEnds, vars, ticker,
                 DoScheduleWithKey, DoSchedule, CancelByKey, ScheduleWithKey, Run
  <2> QED
    BY <2>1 DEF TypeOK
<1>4. /\ timers' \in Seq(Node) /\ batch' \in Seq(Node) /\ Len(batch') <= BatchLimit
      /\ nextId' \in 1..MaxId + 1 /\ info' \in [Id -> Info]
  BY NodesStep, InfoStep DEF TimersGood, BatchGood, InfoGrows
<1> DEFINE Rest == /\ keyToTimerId' \in [Key -> 0..MaxId] /\ repeats' \in [Id -> Nat \cup {-1}]
                   /\ runs' \in [Id -> Nat] /\ late' \in [Id -> Nat]
                   /\ call' \in [Caller -> {NoCall} \cup (Key \X Timing)]
<1>5. ASSUME NEW k \in Key, Cancelled(k)
      PROVE  keyToTimerId' \in [Key -> 0..MaxId] /\ repeats' \in [Id -> Nat \cup {-1}]
  BY <1>0, <1>5 DEF Cancelled
<1>6. ASSUME QuietStep PROVE Rest
  <2>1. UNCHANGED <<runs, late, call>>
    BY <1>6, QuietKeeps
  <2>2. CASE ClockTick \/ Stop \/ Round \/ NothingDue \/ Collect \/ Check \/ Wrap \/ Back \/ TickEnds \/ UNCHANGED vars
    <3>1. UNCHANGED <<keyToTimerId, repeats>>
      BY <2>2 DEF ClockTick, Stop, Round, NothingDue, Collect, Check, Wrap, Back, TickEnds, vars, tables
    <3> QED
      BY <1>0, <2>1, <3>1
  <2>3. CASE After
    <3>1. Cur.id \in Id /\ CurKey \in Key
      BY <2>3, CurFacts DEF After, Busy, Working
    <3>2. \/ Cancelled(CurKey)
          \/ UNCHANGED keyToTimerId /\ repeats[Cur.id] > 1 /\ repeats' = [repeats EXCEPT ![Cur.id] = @ - 1]
          \/ UNCHANGED <<keyToTimerId, repeats>>
      BY <2>3 DEF After, tables
    <3>3. CASE UNCHANGED keyToTimerId /\ repeats[Cur.id] > 1 /\ repeats' = [repeats EXCEPT ![Cur.id] = @ - 1]
      <4>1. repeats[Cur.id] - 1 \in Nat
        BY <1>0, <3>1, <3>3
      <4> QED
        BY <1>0, <2>1, <3>1, <3>3, <4>1
    <3> QED
      BY <1>0, <1>5, <2>1, <3>1, <3>2, <3>3
  <2>4. CASE Catch
    <3>1. CurKey \in Key
      BY <2>4, CurFacts DEF Catch, Busy, Working
    <3>2. /\ keyToTimerId' = [keyToTimerId EXCEPT ![CurKey] = IF @ = Cur.id THEN 0 ELSE @]
          /\ repeats' = [repeats EXCEPT ![Cur.id] = 0]
      BY <2>4 DEF Catch
    <3>3. keyToTimerId[CurKey] \in 0..MaxId /\ 0 \in 0..MaxId
      BY <1>0, <3>1
    <3>4. keyToTimerId' \in [Key -> 0..MaxId]
      BY <1>0, <3>2, <3>3
    <3>5. repeats' \in [Id -> Nat \cup {-1}]
      BY <1>0, <3>2
    <3> QED
      BY <1>0, <2>1, <3>4, <3>5
  <2> QED
    BY <1>6, <2>2, <2>3, <2>4 DEF QuietStep
<1>7. ASSUME NEW c \in Caller, DoScheduleWithKey(c) PROVE Rest
  <2>1. PICK k \in Key : k = call[c][1]
    BY <1>7, CallFacts DEF DoScheduleWithKey
  <2>2. PICK r \in Nat \cup {-1} : r = call[c][2][2]
    BY <1>7, CallFacts DEF DoScheduleWithKey
  <2>3. /\ UNCHANGED <<runs, late>> /\ nextId <= MaxId
        /\ call' = [call EXCEPT ![c] = NoCall]
        /\ keyToTimerId' = [keyToTimerId EXCEPT ![k] = nextId]
        /\ repeats' = [i \in Id |-> IF i = nextId THEN r ELSE IF i = keyToTimerId[k] THEN 0 ELSE repeats[i]]
    BY <1>7, <2>1, <2>2 DEF DoScheduleWithKey
  <2>4. nextId \in 0..MaxId
    BY <1>0, <2>3
  <2>5. keyToTimerId' \in [Key -> 0..MaxId] /\ repeats' \in [Id -> Nat \cup {-1}]
    BY <1>0, <2>3, <2>4
  <2>6. call' \in [Caller -> {NoCall} \cup (Key \X Timing)]
    BY <1>0, <2>3
  <2> QED
    BY <1>0, <2>3, <2>5, <2>6
<1>8. ASSUME NEW c \in Caller, NEW t \in Timing, DoSchedule(c, t[1], t[2]) PROVE Rest
  BY <1>0, <1>8 DEF DoSchedule
<1>9. ASSUME NEW c \in Caller, NEW k \in Key, CancelByKey(c, k) PROVE Rest
  BY <1>0, <1>5, <1>9 DEF CancelByKey
<1>10. ASSUME NEW c \in Caller, NEW k \in Key, NEW t \in Timing, ScheduleWithKey(c, k, t) PROVE Rest
  <2>1. Cancelled(k) /\ UNCHANGED <<runs, late>> /\ call' = [call EXCEPT ![c] = <<k, t>>]
    BY <1>10 DEF ScheduleWithKey
  <2>2. <<k, t>> \in Key \X Timing
    OBVIOUS
  <2>3. call' \in [Caller -> {NoCall} \cup (Key \X Timing)]
    BY <1>0, <2>1, <2>2
  <2> QED
    BY <1>0, <1>5, <2>1, <2>3
<1>11. ASSUME NEW throws \in BOOLEAN, Run(throws) PROVE Rest
  <2>1. Cur.id \in Id
    BY <1>11, CurFacts DEF Run, Busy, Working
  <2>2. /\ UNCHANGED <<keyToTimerId, repeats, call>>
        /\ runs' = [runs EXCEPT ![Cur.id] = @ + 1]
        /\ late' = [late EXCEPT ![Cur.id] = IF info[Cur.id].ended THEN @ + 1 ELSE @]
    BY <1>11 DEF Run, tables
  <2> QED
    BY <1>0, <2>1, <2>2
<1>12. Rest
  BY <1>6, <1>7, <1>8, <1>9, <1>10, <1>11, Steps
<1> QED
  BY <1>1, <1>2, <1>3, <1>4, <1>12 DEF TypeOK

LEMMA InitIInv == Init => IInv
<1> SUFFICES ASSUME Init PROVE IInv
  OBVIOUS
<1>1. TypeOK
  <2>1. NoInfo \in Info /\ <<>> \in Seq(Node) /\ Len(<<>>) = 0
    BY EmptySeq DEF NoInfo, Info
  <2>2. info \in [Id -> Info]
    BY <2>1 DEF Init
  <2>3. now \in 0..MaxTime /\ nextId \in 1..MaxId + 1 /\ Len(batch) <= BatchLimit
    BY <2>1, BoundAssumption DEF Init
  <2>4. /\ keyToTimerId \in [Key -> 0..MaxId] /\ repeats \in [Id -> Nat \cup {-1}]
        /\ runs \in [Id -> Nat] /\ late \in [Id -> Nat]
        /\ call \in [Caller -> {NoCall} \cup (Key \X Timing)]
    BY BoundAssumption DEF Init
  <2> QED
    BY <2>1, <2>2, <2>3, <2>4 DEF Init, TypeOK
<1>2. Ordered /\ Nodes
  BY DEF Init, Ordered, Nodes, Sorted, Elems, Working, Busy
<1>3. \A i \in Id : info[i].key = NoKey /\ repeats[i] = 0 /\ runs[i] = 0 /\ late[i] = 0 /\ i \in Nat /\ i # 0
  BY BoundAssumption DEF Init, NoInfo, Id
<1>4. nextId = 1 /\ \A k \in Key : keyToTimerId[k] = 0
  BY DEF Init
<1>5. Issued /\ TablesInStep /\ NotBefore
  BY <1>3, <1>4 DEF Issued, TablesInStep, NotBefore
<1>6. \A i \in Id : CountedAt(i) /\ EndedAt(i)
  BY <1>3, <1>4 DEF CountedAt, EndedAt
<1> QED
  BY <1>1, <1>2, <1>5, <1>6 DEF IInv

LEMMA StepIInv == IInv /\ [Next]_vars => IInv'
<1> SUFFICES ASSUME IInv, [Next]_vars PROVE IInv'
  OBVIOUS
<1>1. TypeOK /\ Ordered /\ Nodes /\ Books
  BY DEF IInv, Books
<1>2. TypeOK' /\ Books' /\ TimersGood' /\ BatchGood'
  BY <1>1, TypeStep, BooksStep, NodesStep
<1>3. Ordered' /\ Nodes'
  BY <1>2 DEF TimersGood, BatchGood, Ordered, Nodes
<1> QED
  BY <1>2, <1>3 DEF IInv, Books

LEMMA IInvImplies == IInv => TimersSound
<1> SUFFICES ASSUME IInv PROVE TimersSound
  OBVIOUS
<1>1. TypeOK
  BY DEF IInv
<1>2. AtMostRepeat
  <2>1. ASSUME NEW i \in Id, info[i].key # NoKey, info[i].repeat > 0 PROVE runs[i] <= info[i].repeat
    <3>0. runs[i] \in Nat /\ repeats[i] \in Int /\ info[i].repeat \in Int /\ CountedAt(i)
      BY <1>1, IdFacts DEF IInv
    <3>1. CASE Mine(i)
      <4>1. /\ repeats[i] > 0
            /\ runs[i] + repeats[i] = info[i].repeat + (IF At(i, {"after", "catch"}) THEN 1 ELSE 0)
        BY <2>1, <3>0, <3>1 DEF CountedAt
      <4> QED
        BY <3>0, <4>1
    <3>2. CASE ~Mine(i)
      BY <2>1, <3>0, <3>2 DEF CountedAt
    <3> QED
      BY <3>1, <3>2
  <2> QED
    BY <2>1 DEF AtMostRepeat
<1>3. LateOnce
  <2>1. ASSUME NEW i \in Id PROVE late[i] <= 1
    <3>1. late[i] \in Nat /\ EndedAt(i)
      BY <1>1, IdFacts DEF IInv
    <3>2. late[i] > 0 => late[i] = 1
      BY <3>1 DEF EndedAt
    <3> QED
      BY <3>1, <3>2
  <2> QED
    BY <2>1 DEF LateOnce
<1> QED
  BY <1>1, <1>2, <1>3 DEF IInv, TimersSound

(* For any callers, keys, timings and limit of a round: the two tables of    *)
(* maptimer.cpp stay in step, no keyed callback runs more often than asked   *)
(* for although every execution leaves two nodes, none runs before its first *)
(* period has passed, and none more than once after its timer was cancelled  *)
(* or replaced.                                                              *)
THEOREM TimersAreSound == Spec => []TimersSound
<1>1. Init => IInv
  BY InitIInv
<1>2. IInv /\ [Next]_vars => IInv'
  BY StepIInv
<1>3. IInv => TimersSound
  BY IInvImplies
<1> QED
  BY <1>1, <1>2, <1>3, PTL DEF Spec

-----------------------------------------------------------------------------
(* Sums over the nodes *)

(* A set of naturals that is not empty has a least element. *)
LEMMA Smallest ==
    ASSUME NEW S, S \subseteq Nat, S # {}
    PROVE  \E n \in S : \A k \in S : n <= k
<1>1. PICK n \in S : \A k \in S : ~ (<<k, n>> \in OpToRel(<, Nat))
  BY WFMin, NatLessThanWellFounded
<1>2. \A k \in S : ~ (k < n)
  BY <1>1 DEF OpToRel
<1> QED
  BY <1>2

(* The sum of the weights w of the elements of s, by its partial sums. *)
Partial(s, w, n) ==
    {p \in [0..n -> Nat] : p[0] = 0 /\ \A j \in 1..n : p[j] = p[j - 1] + w[s[j]]}
Sum(s, w) == (CHOOSE p : p \in Partial(s, w, Len(s)))[Len(s)]

Weights(s, w) == \A j \in 1..Len(s) : w[s[j]] \in Nat

LEMMA PartialExists ==
    ASSUME NEW S, NEW s \in Seq(S), NEW w, Weights(s, w)
    PROVE  Partial(s, w, Len(s)) # {}
<1> DEFINE Bad == {n \in 0..Len(s) : Partial(s, w, n) = {}}
<1>1. CASE Bad = {}
  BY <1>1
<1>2. CASE Bad # {}
  <2>1. PICK n \in Bad : \A k \in Bad : n <= k
    <3>1. Bad \subseteq Nat
      OBVIOUS
    <3> HIDE DEF Bad
    <3> QED
      BY <1>2, <3>1, Smallest
  <2>2. n # 0
    <3>1. [j \in 0..0 |-> 0] \in Partial(s, w, 0)
      BY DEF Partial
    <3> QED
      BY <3>1
  <2>3. n - 1 \in 0..Len(s) /\ Partial(s, w, n - 1) # {}
    BY <2>1, <2>2
  <2>4. PICK p \in Partial(s, w, n - 1) : TRUE
    BY <2>3
  <2>5. p \in [0..n - 1 -> Nat] /\ p[0] = 0 /\ \A j \in 1..n - 1 : p[j] = p[j - 1] + w[s[j]]
    BY <2>4 DEF Partial
  <2> DEFINE q == [j \in 0..n |-> IF j = n THEN p[n - 1] + w[s[n]] ELSE p[j]]
  <2>6. q \in [0..n -> Nat]
    BY <2>1, <2>2, <2>5 DEF Weights
  <2>7. ASSUME NEW j \in 1..n
        PROVE  q[j] = q[j - 1] + w[s[j]]
    <3>1. CASE j = n
      BY <2>1, <2>2, <2>5, <3>1
    <3>2. CASE j # n
      BY <2>1, <2>2, <2>5, <3>2
    <3> QED
      BY <3>1, <3>2
  <2>8. q[0] = 0
    BY <2>1, <2>2, <2>5
  <2>9. q \in Partial(s, w, n)
    BY <2>6, <2>7, <2>8 DEF Partial
  <2> QED
    BY <2>1, <2>9
<1> QED
  BY <1>1, <1>2

LEMMA PartialUnique ==
    ASSUME NEW s, NEW w, NEW n \in Nat, NEW p \in Partial(s, w, n), NEW q \in Partial(s, w, n)
    PROVE  p[n] = q[n]
<1> DEFINE Bad == {j \in 0..n : p[j] # q[j]}
<1>1. /\ p \in [0..n -> Nat] /\ p[0] = 0 /\ \A j \in 1..n : p[j] = p[j - 1] + w[s[j]]
      /\ q \in [0..n -> Nat] /\ q[0] = 0 /\ \A j \in 1..n : q[j] = q[j - 1] + w[s[j]]
  BY DEF Partial
<1>2. CASE Bad # {}
  <2>1. PICK j \in Bad : \A k \in Bad : j <= k
    <3>1. Bad \subseteq Nat
      OBVIOUS
    <3> HIDE DEF Bad
    <3> QED
      BY <1>2, <3>1, Smallest
  <2>2. j # 0 /\ j - 1 \notin Bad
    BY <1>1, <2>1
  <2>3. p[j - 1] = q[j - 1]
    BY <2>2
  <2> QED
    BY <1>1, <2>1, <2>2, <2>3
<1> QED
  BY <1>2

(* Any partial sums give the sum. *)
LEMMA SumIs ==
    ASSUME NEW s, Len(s) \in Nat, NEW w, NEW p \in Partial(s, w, Len(s))
    PROVE  Sum(s, w) = p[Len(s)] /\ Sum(s, w) \in Nat
<1>1. (CHOOSE q : q \in Partial(s, w, Len(s))) \in Partial(s, w, Len(s))
  OBVIOUS
<1>2. Sum(s, w) = p[Len(s)]
  BY <1>1, PartialUnique DEF Sum
<1> QED
  BY <1>2 DEF Partial

LEMMA SumOfTwo ==
    ASSUME NEW S, NEW s \in Seq(S), NEW t \in Seq(S), NEW w, Weights(s, w), Weights(t, w)
    PROVE  Sum(s \o t, w) = Sum(s, w) + Sum(t, w) /\ Sum(s, w) \in Nat /\ Sum(t, w) \in Nat
<1>1. PICK p \in Partial(s, w, Len(s)) : TRUE
  BY PartialExists
<1>2. PICK q \in Partial(t, w, Len(t)) : TRUE
  BY PartialExists
<1>3. /\ p \in [0..Len(s) -> Nat] /\ p[0] = 0 /\ \A j \in 1..Len(s) : p[j] = p[j - 1] + w[s[j]]
      /\ q \in [0..Len(t) -> Nat] /\ q[0] = 0 /\ \A j \in 1..Len(t) : q[j] = q[j - 1] + w[t[j]]
  BY <1>1, <1>2 DEF Partial
<1> DEFINE m == Len(s)
           u == s \o t
           r == [j \in 0..Len(u) |-> IF j <= m THEN p[j] ELSE p[m] + q[j - m]]
<1>4. m \in Nat /\ Len(t) \in Nat /\ Len(u) = m + Len(t)
      /\ \A j \in 1..Len(u) : u[j] = IF j <= m THEN s[j] ELSE t[j - m]
  BY ConcatProperties, LenProperties
<1>10. p[m] \in Nat /\ \A j \in 0..Len(t) : q[j] \in Nat
  <2>1. m \in 0..Len(s)
    BY <1>4
  <2> QED
    BY <1>3, <2>1
<1> HIDE DEF m, u
<1>5. r \in [0..Len(u) -> Nat] /\ r[0] = 0
  <2>1. ASSUME NEW j \in 0..Len(u) PROVE r[j] \in Nat
    <3>1. CASE j <= m
      BY <1>3, <1>4, <3>1 DEF m
    <3>2. CASE ~(j <= m)
      <4>1. j - m \in 0..Len(t) /\ r[j] = p[m] + q[j - m]
        BY <1>4, <3>2
      <4> QED
        BY <1>10, <4>1
    <3> QED
      BY <3>1, <3>2
  <2> QED
    BY <1>3, <1>4, <2>1
<1>6. ASSUME NEW j \in 1..Len(u)
      PROVE  r[j] = r[j - 1] + w[u[j]]
  <2>1. CASE j <= m
    BY <1>3, <1>4, <2>1 DEF m
  <2>2. CASE j > m
    <3>1. j - m \in 1..Len(t) /\ u[j] = t[j - m]
      BY <1>4, <2>2
    <3>2. q[j - m] = q[j - m - 1] + w[t[j - m]]
      BY <1>3, <3>1
    <3>3. r[j] = p[m] + q[j - m]
      BY <1>4, <2>2
    <3>4. r[j - 1] = p[m] + q[j - m - 1]
      <4>1. CASE j = m + 1
        <5>1. r[j - 1] = p[m]
          <6>1. j - 1 \in 0..Len(u) /\ j - 1 = m /\ m <= m
            BY <1>4, <4>1
          <6> QED
            BY <6>1
        <5> QED
          <6>1. j - m - 1 = 0
            BY <1>4, <4>1
          <6> QED
            BY <1>3, <1>10, <5>1, <6>1
      <4>2. CASE j # m + 1
        BY <1>4, <2>2, <4>2
      <4> QED
        BY <4>1, <4>2
    <3>5. p[m] \in Nat /\ q[j - m] \in Nat /\ q[j - m - 1] \in Nat /\ w[t[j - m]] \in Nat
      BY <1>4, <1>10, <3>1 DEF Weights
    <3> QED
      BY <3>1, <3>2, <3>3, <3>4, <3>5
  <2> QED
    BY <1>4, <2>1, <2>2
<1>7. r \in Partial(u, w, Len(u))
  BY <1>5, <1>6 DEF Partial
<1>8. Sum(u, w) = r[Len(u)] /\ Sum(s, w) = p[m] /\ Sum(t, w) = q[Len(t)] /\ Sum(s, w) \in Nat
      /\ Sum(t, w) \in Nat
  <2> HIDE DEF r
  <2>1. Sum(u, w) = r[Len(u)]
    <3>1. Len(u) \in Nat
      BY <1>4
    <3> QED
      BY <1>7, <3>1, SumIs
  <2>2. Sum(s, w) = p[m] /\ Sum(s, w) \in Nat
    BY <1>1, <1>4, SumIs DEF m
  <2>3. Sum(t, w) = q[Len(t)] /\ Sum(t, w) \in Nat
    BY <1>2, <1>4, SumIs
  <2> QED
    BY <2>1, <2>2, <2>3
<1>9. r[Len(u)] = p[m] + q[Len(t)]
  <2>1. CASE Len(t) = 0
    BY <1>3, <1>4, <1>10, <2>1
  <2>2. CASE Len(t) # 0
    BY <1>4, <2>2
  <2> QED
    BY <2>1, <2>2
<1> QED
  BY <1>8, <1>9 DEF u

LEMMA SumOfOne ==
    ASSUME NEW x, NEW w, w[x] \in Nat
    PROVE  Sum(<<x>>, w) = w[x]
<1> DEFINE p == [j \in 0..1 |-> IF j = 0 THEN 0 ELSE w[x]]
<1>1. p \in Partial(<<x>>, w, 1)
  BY DEF Partial
<1>2. Len(<<x>>) = 1 /\ p[1] = w[x]
  OBVIOUS
<1> HIDE DEF p
<1> QED
  BY <1>1, <1>2, SumIs

(* Nothing but zeros, in particular nothing, weighs nothing. *)
LEMMA SumOfZeros ==
    ASSUME NEW S, NEW s \in Seq(S), NEW w, \A j \in 1..Len(s) : w[s[j]] = 0
    PROVE  Sum(s, w) = 0
<1> DEFINE p == [j \in 0..Len(s) |-> 0]
<1>1. p \in Partial(s, w, Len(s))
  BY DEF Partial
<1> QED
  BY <1>1, SumIs

(* The same weights have the same sum. *)
LEMMA SumOfSame ==
    ASSUME NEW S, NEW s \in Seq(S), NEW w, NEW v, \A j \in 1..Len(s) : v[s[j]] = w[s[j]]
    PROVE  Sum(s, v) = Sum(s, w)
<1>1. Partial(s, v, Len(s)) = Partial(s, w, Len(s))
  BY DEF Partial
<1> QED
  BY <1>1 DEF Sum

(* The powers of two, from the number of subsets. *)
LEMMA PowerOfTwo ==
    ASSUME NEW n \in Nat
    PROVE  /\ 2^0 = 1 /\ 2^n \in Nat \ {0}
           /\ 2^(n + 1) = 2 * 2^n
<1> DEFINE S == 1..n
           T == 1..n + 1
           A == SUBSET S
           B == {X \cup {n + 1} : X \in A}
<1>1. IsFiniteSet(S) /\ Cardinality(S) = n /\ IsFiniteSet(T) /\ Cardinality(T) = n + 1
  BY FS_Interval
<1>2. IsFiniteSet({}) /\ Cardinality({}) = 0 /\ Cardinality({{}}) = 1 /\ SUBSET {} = {{}}
  BY FS_EmptySet, FS_Singleton
<1>3. 2^0 = 1
  BY <1>2, FS_SUBSET, Zenon
<1>4. IsFiniteSet(A) /\ Cardinality(A) = 2^n
  BY <1>1, FS_SUBSET, Zenon
<1>5. Cardinality(SUBSET T) = 2^(n + 1)
  BY <1>1, FS_SUBSET, Zenon
<1>6. ExistsBijection(A, B)
  <2> DEFINE f == [X \in A |-> X \cup {n + 1}]
  <2>1. f \in [A -> B]
    OBVIOUS
  <2>2. \A X, Y \in A : f[X] = f[Y] => X = Y
    <3> SUFFICES ASSUME NEW X \in A, NEW Y \in A, X \cup {n + 1} = Y \cup {n + 1}
                 PROVE  X = Y
      OBVIOUS
    <3>1. n + 1 \notin X /\ n + 1 \notin Y
      OBVIOUS
    <3> QED
      BY <3>1
  <2>3. \A Z \in B : \E X \in A : f[X] = Z
    OBVIOUS
  <2> QED
    BY <2>1, <2>2, <2>3 DEF ExistsBijection, Bijection, Injection, Surjection, IsInjective
<1>7. IsFiniteSet(B) /\ Cardinality(B) = 2^n
  BY <1>4, <1>6, FS_Bijection, Zenon
<1>8. A \cap B = {}
  <2>1. \A X \in A : n + 1 \notin X
    OBVIOUS
  <2> QED
    BY <2>1
<1>9. A \cup B = SUBSET T
  <2>1. \A X \in SUBSET T : X \in A \cup B
    <3> SUFFICES ASSUME NEW X \in SUBSET T, X \notin A PROVE X \in B
      OBVIOUS
    <3>1. n + 1 \in X /\ X \ {n + 1} \in A
      OBVIOUS
    <3>2. X = (X \ {n + 1}) \cup {n + 1}
      BY <3>1
    <3> QED
      BY <3>1, <3>2
  <2>2. \A X \in A \cup B : X \in SUBSET T
    OBVIOUS
  <2> QED
    BY <2>1, <2>2
<1>10. Cardinality(A \cup B) = Cardinality(A) + Cardinality(B)
  <2>1. Cardinality(A \cap B) = 0
    BY <1>2, <1>8, Zenon
  <2>2. Cardinality(A) \in Nat /\ Cardinality(B) \in Nat
    BY <1>4, <1>7, FS_CardinalityType
  <2>3. Cardinality(A \cup B) = Cardinality(A) + Cardinality(B) - Cardinality(A \cap B)
    BY <1>4, <1>7, FS_Union
  <2> QED
    BY <2>1, <2>2, <2>3
<1>11. 2^n \in Nat \ {0}
  <2>1. Cardinality(A) \in Nat
    BY <1>4, FS_CardinalityType
  <2>2. {} \in A
    OBVIOUS
  <2>3. Cardinality(A) # 0
    BY <1>4, <2>2, FS_EmptySet
  <2> QED
    BY <1>4, <2>1, <2>3
<1>12. 2^(n + 1) = 2^n + 2^n
  BY <1>4, <1>5, <1>7, <1>9, <1>10, Zenon
<1> HIDE DEF S, T, A, B
<1> QED
  BY <1>3, <1>11, <1>12

(* The multimap and the batch of a round, by weight. *)
LEMMA SumIsNat ==
    ASSUME NEW s \in Seq(Node), NEW w \in [Node -> Nat]
    PROVE  Weights(s, w) /\ Sum(s, w) \in Nat
<1>1. Weights(s, w)
  BY ElementOfSeq DEF Weights
<1>2. PICK p \in Partial(s, w, Len(s)) : TRUE
  BY <1>1, PartialExists
<1> QED
  BY <1>1, <1>2, SumIs, LenProperties

LEMMA SumOfParts ==
    ASSUME NEW s \in Seq(Node), NEW b \in 0..Len(s), NEW w \in [Node -> Nat]
    PROVE  Sum(s, w) = Sum(SubSeq(s, 1, b), w) + Sum(SubSeq(s, b + 1, Len(s)), w)
<1>0. Len(s) \in Nat /\ (\A j \in 1..Len(s) : s[j] \in Node) /\ b \in Nat /\ b <= Len(s)
  BY LenProperties, ElementOfSeq
<1>1. PICK x : x = SubSeq(s, 1, b)
  OBVIOUS
<1>2. PICK y : y = SubSeq(s, b + 1, Len(s))
  OBVIOUS
<1>3. x \in Seq(Node) /\ Len(x) = b /\ \A j \in 1..b : x[j] = s[j]
  <2>1. \A j \in 1..b : s[j] \in Node
    BY <1>0
  <2>2. x \in Seq(Node) /\ Len(x) = b /\ \A j \in 1..b - 1 + 1 : x[j] = s[1 + j - 1]
    BY <1>0, <1>1, <2>1, SubSeqProperties
  <2> QED
    BY <1>0, <2>2
<1>4. y \in Seq(Node) /\ Len(y) = Len(s) - b /\ \A j \in 1..Len(s) - b : y[j] = s[b + j]
  <2>1. \A j \in b + 1..Len(s) : s[j] \in Node
    BY <1>0
  <2>2. y \in Seq(Node) /\ Len(y) = Len(s) - b /\ \A j \in 1..Len(s) - b : y[j] = s[b + 1 + j - 1]
    BY <1>0, <1>2, <2>1, SubSeqProperties
  <2> QED
    BY <1>0, <2>2
<1>5. s = x \o y
  <2>1. /\ x \o y \in Seq(Node) /\ Len(x \o y) = Len(x) + Len(y)
        /\ \A j \in 1..Len(x) + Len(y) : (x \o y)[j] = IF j <= Len(x) THEN x[j] ELSE y[j - Len(x)]
    BY <1>3, <1>4, ConcatProperties
  <2>2. PICK z : z = x \o y
    OBVIOUS
  <2>3. z \in Seq(Node) /\ Len(z) = Len(s) /\ \A j \in 1..Len(s) : z[j] = IF j <= b THEN x[j] ELSE y[j - b]
    <3>1. Len(x) = b /\ Len(x) + Len(y) = Len(s)
      BY <1>0, <1>3, <1>4
    <3> QED
      BY <2>1, <2>2, <3>1
  <2>4. \A j \in 1..Len(s) : z[j] = s[j]
    <3> SUFFICES ASSUME NEW j \in 1..Len(s) PROVE z[j] = s[j]
      OBVIOUS
    <3>1. CASE j <= b
      BY <1>0, <1>3, <2>3, <3>1
    <3>2. CASE j > b
      <4>1. j - b \in 1..Len(s) - b /\ b + (j - b) = j
        BY <1>0, <3>2
      <4> QED
        BY <1>0, <1>4, <2>3, <3>2, <4>1
    <3> QED
      BY <1>0, <3>1, <3>2
  <2> QED
    BY <2>2, <2>3, <2>4, SeqEqual
<1> QED
  <2>1. Weights(x, w) /\ Weights(y, w)
    BY <1>3, <1>4, SumIsNat
  <2>2. Sum(x \o y, w) = Sum(x, w) + Sum(y, w)
    BY <1>3, <1>4, <2>1, SumOfTwo
  <2> QED
    BY <1>1, <1>2, <1>5, <2>2

LEMMA SumOfHead ==
    ASSUME NEW s \in Seq(Node), s # <<>>, NEW w \in [Node -> Nat]
    PROVE  /\ Sum(s, w) = w[Head(s)] + Sum(Tail(s), w)
           /\ w[Head(s)] \in Nat /\ Sum(Tail(s), w) \in Nat
<1>1. Head(s) \in Node /\ Tail(s) \in Seq(Node)
  BY HeadAndTail
<1>2. s = <<Head(s)>> \o Tail(s)
  BY HeadTailProperties, ConcatProperties
<1>3. <<Head(s)>> \in Seq(Node) /\ w[Head(s)] \in Nat
  BY <1>1
<1> QED
  <2>1. PICK x : x = <<Head(s)>>
    OBVIOUS
  <2>2. Weights(x, w) /\ Weights(Tail(s), w) /\ Sum(Tail(s), w) \in Nat
    BY <1>1, <1>3, <2>1, SumIsNat
  <2>3. Sum(x \o Tail(s), w) = Sum(x, w) + Sum(Tail(s), w)
    BY <1>1, <1>3, <2>1, <2>2, SumOfTwo
  <2>4. Sum(x, w) = w[Head(s)]
    BY <1>3, <2>1, SumOfOne
  <2> QED
    BY <1>2, <1>3, <2>1, <2>2, <2>3, <2>4

LEMMA SumOfInsert ==
    ASSUME NEW s \in Seq(Node), NEW n \in Node, NEW w \in [Node -> Nat]
    PROVE  Sum(Insert(s, n), w) = Sum(s, w) + w[n] /\ w[n] \in Nat
<1> DEFINE before == {i \in 1..Len(s) : s[i].time <= n.time}
           choice == IF before = {} THEN 0 ELSE CHOOSE i \in before : \A j \in before : j <= i
<1>0. Len(s) \in Nat
  BY LenProperties
<1>1. PICK k : k = choice
  <2> HIDE DEF choice
  <2> QED
    OBVIOUS
<1>2. k \in 0..Len(s)
  <2>1. CASE before = {}
    BY <1>0, <1>1, <2>1
  <2>2. CASE before # {}
    <3>1. \E m \in before : \A j \in before : j <= m
      BY <1>0, <2>2, Largest
    <3>2. k \in before
      BY <1>1, <2>2, <3>1
    <3> QED
      BY <1>0, <3>2
  <2> QED
    BY <2>1, <2>2
<1>3. PICK a : a = SubSeq(s, 1, k)
  OBVIOUS
<1>4. PICK b : b = SubSeq(s, k + 1, Len(s))
  OBVIOUS
<1>5. Insert(s, n) = a \o <<n>> \o b
  BY <1>1, <1>3, <1>4 DEF Insert
<1>6. a \in Seq(Node) /\ b \in Seq(Node) /\ <<n>> \in Seq(Node)
  BY <1>2, <1>3, <1>4, PrefixProperties
<1>7. a \o <<n>> \in Seq(Node)
  BY <1>6, ConcatProperties
<1>8. Sum(s, w) = Sum(a, w) + Sum(b, w)
  BY <1>2, <1>3, <1>4, SumOfParts
<1>9. Sum(a \o <<n>>, w) = Sum(a, w) + Sum(<<n>>, w)
  BY <1>6, SumIsNat, SumOfTwo
<1>10. Sum(a \o <<n>> \o b, w) = Sum(a \o <<n>>, w) + Sum(b, w)
  BY <1>6, <1>7, SumIsNat, SumOfTwo
<1>11. Sum(<<n>>, w) = w[n] /\ w[n] \in Nat
  BY SumOfOne
<1>12. Sum(a, w) \in Nat /\ Sum(b, w) \in Nat
  BY <1>6, SumIsNat
<1> QED
  BY <1>5, <1>8, <1>9, <1>10, <1>11, <1>12

-----------------------------------------------------------------------------
(* The executions still to come *)

(* Nodes carry weights: w for an execution whose callback has not run yet,   *)
(* b between the callback and the critical section after it, a when only     *)
(* the node is to be put back.                                               *)
Held(w, b, a) ==
    IF pc \in {"check", "wrap", "run"} THEN w[Cur] ELSE IF pc = "after" THEN b[Cur] ELSE a[Cur]

Load(w, b, a) ==
    Sum(timers, w) + (IF pc \in Working THEN Held(w, b, a) + Sum(Tail(batch), w) ELSE 0)

(* The weights of timer i cover what an execution of it leaves behind. *)
Covered(i, w, b, a) ==
    /\ w \in [Node -> Nat] /\ b \in [Node -> Nat] /\ a \in [Node -> Nat]
    /\ \A n \in Node : a[n] <= b[n] /\ b[n] <= w[n]
    /\ \A n \in Node : n.id # i => w[n] = 0
    /\ pc = "run" /\ Cur.id = i => (IF CurKey = NoKey THEN a[Cur] ELSE b[Cur]) + 1 <= w[Cur]
    /\ pc = "after" => \A r \in Int : a[Cur] + w[NewNode(Cur.id, now + Cur.period, r, Cur.period)] <= b[Cur]
    /\ pc = "back" => \A r \in Int : r = (IF Cur.repeat > 0 THEN Cur.repeat - 1 ELSE Cur.repeat)
          => w[NewNode(Cur.id, Cur.time + Cur.period, r, Cur.period)] <= a[Cur]

LEMMA LoadFacts ==
    ASSUME TypeOK, Ordered, Nodes, NEW i \in Id, NEW w, NEW b, NEW a, Covered(i, w, b, a)
    PROVE  /\ Sum(timers, w) \in Nat /\ Load(w, b, a) \in Nat
           /\ pc \in Working => /\ Cur \in Node /\ w[Cur] \in Nat /\ b[Cur] \in Nat /\ a[Cur] \in Nat
                                /\ a[Cur] <= b[Cur] /\ b[Cur] <= w[Cur]
                                /\ Sum(Tail(batch), w) \in Nat /\ Held(w, b, a) \in Nat
                                /\ Load(w, b, a) = Sum(timers, w) + Held(w, b, a) + Sum(Tail(batch), w)
<1>1. timers \in Seq(Node) /\ batch \in Seq(Node) /\ (pc \in Working => batch # <<>>)
  BY DEF TypeOK, Ordered
<1>2. w \in [Node -> Nat] /\ b \in [Node -> Nat] /\ a \in [Node -> Nat]
      /\ \A n \in Node : a[n] <= b[n] /\ b[n] <= w[n]
  BY DEF Covered
<1>3. Sum(timers, w) \in Nat
  BY <1>1, <1>2, SumIsNat
<1>4. ASSUME pc \in Working
      PROVE  /\ Cur \in Node /\ w[Cur] \in Nat /\ b[Cur] \in Nat /\ a[Cur] \in Nat
             /\ a[Cur] <= b[Cur] /\ b[Cur] <= w[Cur]
             /\ Sum(Tail(batch), w) \in Nat /\ Held(w, b, a) \in Nat
  <2>1. Cur \in Node /\ Sum(Tail(batch), w) \in Nat
    BY <1>1, <1>2, <1>4, HeadAndTail, SumOfHead DEF Cur
  <2>2. w[Cur] \in Nat /\ b[Cur] \in Nat /\ a[Cur] \in Nat /\ a[Cur] <= b[Cur] /\ b[Cur] <= w[Cur]
    BY <1>2, <2>1
  <2> QED
    BY <2>1, <2>2 DEF Held
<1> QED
  BY <1>3, <1>4 DEF Load

(* Neither the nodes nor the Tick thread moved. *)
LEMMA LoadStays ==
    ASSUME NEW w, NEW b, NEW a, UNCHANGED <<timers, batch, pc>>
    PROVE  Load(w, b, a)' = Load(w, b, a)
  BY DEF Load, Held, Cur

LEMMA LoadOfOther ==
    ASSUME TypeOK, Ordered, Nodes, NEW i \in Id, NEW w, NEW b, NEW a, Covered(i, w, b, a),
           NEW n \in Node, n.id # i, timers' = Insert(timers, n), UNCHANGED <<batch, pc>>
    PROVE  Load(w, b, a)' = Load(w, b, a)
<1>1. Sum(timers', w) = Sum(timers, w) + w[n] /\ w[n] = 0 /\ Sum(timers, w) \in Nat
  BY LoadFacts, SumOfInsert DEF Covered, TypeOK
<1>2. Sum(timers', w) = Sum(timers, w)
  BY <1>1
<1> QED
  BY <1>2 DEF Load, Held, Cur

LEMMA CollectLoad ==
    ASSUME TypeOK, Ordered, Nodes, NEW i \in Id, NEW w, NEW b, NEW a, Covered(i, w, b, a), Collect
    PROVE  Load(w, b, a)' = Load(w, b, a)
<1>1. timers \in Seq(Node) /\ Sorted(timers) /\ now \in Int /\ w \in [Node -> Nat]
  BY BoundAssumption DEF TypeOK, Ordered, Covered
<1>2. PICK k : k = BatchSize
  OBVIOUS
<1>3. k \in 0..Len(timers) /\ k > 0
  BY <1>1, <1>2, BatchProperties DEF Collect
<1>4. /\ batch' = SubSeq(timers, 1, k) /\ timers' = SubSeq(timers, k + 1, Len(timers))
      /\ pc = "update" /\ pc' = "check"
  BY <1>2 DEF Collect
<1>5. batch' \in Seq(Node) /\ Len(batch') = k /\ timers' \in Seq(Node)
  BY <1>1, <1>3, <1>4, PrefixProperties
<1>6. batch' # <<>>
  BY <1>3, <1>5
<1>7. Sum(timers, w) = Sum(batch', w) + Sum(timers', w)
  BY <1>1, <1>3, <1>4, SumOfParts
<1>8. /\ Sum(batch', w) = w[Cur'] + Sum(Tail(batch'), w)
      /\ w[Cur'] \in Nat /\ Sum(Tail(batch'), w) \in Nat
  BY <1>1, <1>5, <1>6, SumOfHead DEF Cur
<1>9. Sum(timers', w) \in Nat
  BY <1>1, <1>5, SumIsNat
<1>10. Load(w, b, a) = Sum(timers, w)
  <2>1. Sum(timers, w) \in Nat
    BY <1>1, SumIsNat
  <2> QED
    BY <1>4, <2>1 DEF Load, Working, Busy
<1>11. Load(w, b, a)' = Sum(timers', w) + (w[Cur'] + Sum(Tail(batch'), w))
  BY <1>4 DEF Load, Held, Working
<1> QED
  BY <1>7, <1>8, <1>9, <1>10, <1>11

(* A node of the batch is done with, and may have been put back. *)
LEMMA LoadOfNext ==
    ASSUME TypeOK, Ordered, Nodes, NEW i \in Id, NEW w, NEW b, NEW a, Covered(i, w, b, a),
           pc \in Working, batch' = Tail(batch), pc' = IF batch' = <<>> THEN "loop" ELSE "check",
           timers' \in Seq(Node), Sum(timers', w) <= Sum(timers, w) + Held(w, b, a)
    PROVE  Load(w, b, a)' \in Nat /\ Load(w, b, a)' <= Load(w, b, a)
<1>1. batch \in Seq(Node) /\ batch # <<>> /\ w \in [Node -> Nat]
  BY DEF TypeOK, Ordered, Covered
<1>2. batch' \in Seq(Node)
  BY <1>1, HeadAndTail
<1>3. Sum(timers', w) \in Nat /\ Sum(timers, w) \in Nat /\ Held(w, b, a) \in Nat /\ Sum(batch', w) \in Nat
      /\ Load(w, b, a) = Sum(timers, w) + Held(w, b, a) + Sum(batch', w)
  BY <1>1, <1>2, LoadFacts, SumIsNat
<1>4. Load(w, b, a)' = Sum(timers', w) + Sum(batch', w)
  <2>1. CASE batch' = <<>>
    <3>1. Sum(batch', w) = 0
      <4>1. Len(batch') = 0
        BY <1>2, <2>1, EmptySeq
      <4>2. \A j \in 1..Len(batch') : w[batch'[j]] = 0
        BY <4>1
      <4> QED
        BY <1>2, <4>2, SumOfZeros
    <3>2. Load(w, b, a)' = Sum(timers', w) + 0
      BY <2>1 DEF Load, Working, Busy
    <3> QED
      BY <1>3, <3>1, <3>2
  <2>2. CASE batch' # <<>>
    <3>1. Sum(batch', w) = w[Cur'] + Sum(Tail(batch'), w)
      BY <1>1, <1>2, <2>2, SumOfHead DEF Cur
    <3>2. Load(w, b, a)' = Sum(timers', w) + (w[Cur'] + Sum(Tail(batch'), w))
      BY <2>2 DEF Load, Held, Working
    <3> QED
      BY <3>1, <3>2
  <2> QED
    BY <2>1, <2>2
<1> QED
  BY <1>3, <1>4

(* The Tick thread goes on with the same node, and may have made another. *)
LEMMA LoadOfSame ==
    ASSUME TypeOK, Ordered, Nodes, NEW i \in Id, NEW w, NEW b, NEW a, Covered(i, w, b, a),
           pc \in Working, pc' \in Working, UNCHANGED batch, timers' \in Seq(Node),
           NEW m \in Nat, Sum(timers', w) + Held(w, b, a)' + m <= Sum(timers, w) + Held(w, b, a)
    PROVE  Load(w, b, a)' \in Nat /\ Load(w, b, a)' + m <= Load(w, b, a)
<1>1. w \in [Node -> Nat]
  BY DEF Covered
<1>2. /\ Sum(timers', w) \in Nat /\ Sum(timers, w) \in Nat /\ Held(w, b, a) \in Nat
      /\ Sum(Tail(batch), w) \in Nat
      /\ Load(w, b, a) = Sum(timers, w) + Held(w, b, a) + Sum(Tail(batch), w)
      /\ w[Cur] \in Nat /\ b[Cur] \in Nat /\ a[Cur] \in Nat
  BY <1>1, LoadFacts, SumIsNat
<1>3. Held(w, b, a)' \in Nat
  BY <1>2 DEF Held, Cur
<1>4. Load(w, b, a)' = Sum(timers', w) + (Held(w, b, a)' + Sum(Tail(batch), w))
  BY DEF Load
<1>5. PICK h \in Nat : h = Held(w, b, a)'
  BY <1>3
<1>6. PICK l : l = Load(w, b, a)'
  OBVIOUS
<1>7. l = Sum(timers', w) + (h + Sum(Tail(batch), w))
  BY <1>4, <1>5, <1>6
<1>8. Sum(timers', w) + h + m <= Sum(timers, w) + Held(w, b, a)
  BY <1>5
<1>9. l \in Nat /\ l + m <= Load(w, b, a)
  <2>1. PICK x \in Nat : x = Sum(timers', w)
    BY <1>2
  <2>2. PICK y \in Nat : y = Sum(timers, w)
    BY <1>2
  <2>3. PICK g \in Nat : g = Held(w, b, a)
    BY <1>2
  <2>4. PICK z \in Nat : z = Sum(Tail(batch), w)
    BY <1>2
  <2>5. Load(w, b, a) = y + g + z /\ l = x + (h + z) /\ x + h + m <= y + g
    BY <1>2, <1>7, <1>8, <2>1, <2>2, <2>3, <2>4
  <2> QED
    BY <2>5
<1> QED
  BY <1>6, <1>9

(* Every step but the one that schedules timer i moves weight into runs or   *)
(* loses some.                                                               *)
LEMMA LoadFalls ==
    ASSUME TypeOK, Ordered, Nodes, [Next]_vars, NEW i \in Id, i < nextId \/ nextId' = nextId,
           NEW w, NEW b, NEW a, Covered(i, w, b, a)
    PROVE  Load(w, b, a)' \in Nat /\ runs'[i] \in Nat /\ runs'[i] + Load(w, b, a)' <= runs[i] + Load(w, b, a)
<1> DEFINE Falls == Load(w, b, a)' \in Nat /\ runs'[i] \in Nat
                    /\ runs'[i] + Load(w, b, a)' <= runs[i] + Load(w, b, a)
<1> SUFFICES Falls
  OBVIOUS
<1>0. /\ runs[i] \in Nat /\ Load(w, b, a) \in Nat /\ w \in [Node -> Nat]
      /\ timers \in Seq(Node) /\ runs \in [Id -> Nat] /\ nextId \in Int /\ i \in Int /\ i # Dummy /\ now \in Int
  <2>1. runs \in [Id -> Nat] /\ timers \in Seq(Node) /\ nextId \in Int /\ now \in Int
    BY BoundAssumption DEF TypeOK
  <2>2. i \in Int /\ i # Dummy
    BY BoundAssumption DEF Id, Dummy
  <2>3. Load(w, b, a) \in Nat
    BY LoadFacts
  <2>4. w \in [Node -> Nat]
    BY DEF Covered
  <2> QED
    BY <2>1, <2>2, <2>3, <2>4
<1>1. ASSUME runs' = runs, Load(w, b, a)' \in Nat, Load(w, b, a)' <= Load(w, b, a) PROVE Falls
  BY <1>0, <1>1
<1>2. ASSUME runs' = runs, Load(w, b, a)' = Load(w, b, a) PROVE Falls
  BY <1>0, <1>2
<1>3. ASSUME UNCHANGED <<timers, batch, pc, runs>> PROVE Falls
  BY <1>2, <1>3, LoadStays
<1>4. ASSUME NEW n \in Node, n.id # i, timers' = Insert(timers, n), UNCHANGED <<batch, pc, runs>> PROVE Falls
  BY <1>2, <1>4, LoadOfOther
<1>5. ASSUME QuietStep PROVE runs' = runs
  BY <1>5, QuietKeeps
<1>6. CASE ClockTick
  BY <1>3, <1>6 DEF ClockTick, tables, ticker, hist
<1>22. CASE UNCHANGED vars
  BY <1>3, <1>22 DEF vars, tables, ticker, hist
<1>23. now \in Int /\ 0 \in Int /\ 0 \in Nat /\ Dummy \in Id \cup {Dummy}
  BY <1>0
<1>7. CASE Stop
  <2>0. PICK n : n = NewNode(Dummy, now, 0, 0)
    OBVIOUS
  <2>1. n \in Node /\ n.id = Dummy
    BY <1>23, <2>0, NewNodeIsNode
  <2>2. timers' = Insert(timers, n) /\ UNCHANGED <<batch, pc, runs>>
    BY <1>7, <2>0 DEF Stop, ticker, hist
  <2> QED
    BY <1>0, <1>4, <2>1, <2>2
<1>8. CASE Collect
  <2>1. runs' = runs
    BY <1>5, <1>8 DEF QuietStep
  <2> QED
    BY <1>2, <1>8, <2>1, CollectLoad
<1>9. CASE Check
  <2>1. pc = "check" /\ UNCHANGED <<timers, runs>> /\ pc \in Working
    BY <1>9 DEF Check, tables, hist, Working
  <2>2. /\ Sum(timers, w) \in Nat /\ w[Cur] \in Nat /\ a[Cur] \in Nat /\ a[Cur] <= w[Cur]
        /\ Held(w, b, a) = w[Cur]
    <3>1. b[Cur] \in Nat /\ a[Cur] <= b[Cur] /\ b[Cur] <= w[Cur]
      BY <2>1, LoadFacts
    <3> QED
      BY <2>1, <3>1, LoadFacts DEF Held
  <2>3. CASE batch' = Tail(batch) /\ pc' = IF batch' = <<>> THEN "loop" ELSE "check"
    <3>1. Load(w, b, a)' \in Nat /\ Load(w, b, a)' <= Load(w, b, a)
      BY <1>0, <2>1, <2>2, <2>3, LoadOfNext
    <3> QED
      BY <1>1, <2>1, <3>1
  <2>4. CASE pc' \in {"wrap", "back"} /\ UNCHANGED batch
    <3>1. Held(w, b, a)' \in {w[Cur], a[Cur]} /\ pc' \in Working
      BY <2>4 DEF Held, Cur, Working, Busy
    <3>2. Sum(timers', w) + Held(w, b, a)' + 0 <= Sum(timers, w) + Held(w, b, a)
      BY <2>1, <2>2, <3>1
    <3>3. Load(w, b, a)' \in Nat /\ Load(w, b, a)' + 0 <= Load(w, b, a)
      BY <1>0, <2>1, <2>4, <3>1, <3>2, LoadOfSame
    <3> QED
      BY <1>0, <1>1, <2>1, <3>3
  <2> QED
    BY <1>9, <2>3, <2>4 DEF Check
<1>10. CASE Wrap
  <2>1. pc = "wrap" /\ UNCHANGED <<timers, runs, batch>> /\ pc \in Working /\ pc' \in {"run", "after"}
    BY <1>10 DEF Wrap, tables, hist, Working, Busy
  <2>2. /\ Sum(timers, w) \in Nat /\ w[Cur] \in Nat /\ b[Cur] \in Nat /\ b[Cur] <= w[Cur]
        /\ Held(w, b, a) = w[Cur]
    BY <2>1, LoadFacts DEF Held
  <2>3. Held(w, b, a)' \in {w[Cur], b[Cur]} /\ pc' \in Working
    BY <2>1 DEF Held, Cur, Working, Busy
  <2>4. Sum(timers', w) + Held(w, b, a)' + 0 <= Sum(timers, w) + Held(w, b, a)
    BY <2>1, <2>2, <2>3
  <2>5. Load(w, b, a)' \in Nat /\ Load(w, b, a)' + 0 <= Load(w, b, a)
    BY <1>0, <2>1, <2>3, <2>4, LoadOfSame
  <2> QED
    BY <1>0, <1>1, <2>1, <2>5
<1>11. ASSUME NEW throws \in BOOLEAN, Run(throws) PROVE Falls
  <2>1. /\ pc = "run" /\ UNCHANGED <<timers, batch>> /\ pc \in Working
        /\ pc' = IF CurKey = NoKey THEN "back" ELSE IF throws THEN "catch" ELSE "after"
        /\ runs' = [runs EXCEPT ![Cur.id] = @ + 1]
    BY <1>11 DEF Run, tables, Working, Busy
  <2>2. /\ Sum(timers, w) \in Nat /\ w[Cur] \in Nat /\ b[Cur] \in Nat /\ a[Cur] \in Nat
        /\ a[Cur] <= b[Cur] /\ b[Cur] <= w[Cur] /\ Held(w, b, a) = w[Cur] /\ Cur \in Node
    BY <2>1, LoadFacts DEF Held
  <2>3. pc' \in Working /\ Held(w, b, a)' = IF pc' = "after" THEN b[Cur] ELSE a[Cur]
    BY <2>1 DEF Held, Cur, Working, Busy
  <2>4. CASE Cur.id = i
    <3>1. (IF CurKey = NoKey THEN a[Cur] ELSE b[Cur]) + 1 <= w[Cur]
      BY <2>1, <2>4 DEF Covered
    <3>2. Sum(timers', w) + Held(w, b, a)' + 1 <= Sum(timers, w) + Held(w, b, a)
      BY <2>1, <2>2, <2>3, <3>1
    <3>3. Load(w, b, a)' \in Nat /\ Load(w, b, a)' + 1 <= Load(w, b, a)
      BY <1>0, <2>1, <2>3, <3>2, LoadOfSame
    <3>4. runs'[i] = runs[i] + 1
      BY <1>0, <2>1, <2>4
    <3> QED
      BY <1>0, <3>3, <3>4
  <2>5. CASE Cur.id # i
    <3>1. Sum(timers', w) + Held(w, b, a)' + 0 <= Sum(timers, w) + Held(w, b, a)
      BY <2>1, <2>2, <2>3
    <3>2. Load(w, b, a)' \in Nat /\ Load(w, b, a)' + 0 <= Load(w, b, a)
      BY <1>0, <2>1, <2>3, <3>1, LoadOfSame
    <3>3. runs'[i] = runs[i]
      BY <1>0, <2>1, <2>5
    <3> QED
      BY <1>0, <3>2, <3>3
  <2> QED
    BY <2>4, <2>5
<1>12. CASE After
  <2>1. pc = "after" /\ UNCHANGED <<batch, runs>> /\ pc \in Working /\ pc' = "back" /\ pc' \in Working
    BY <1>12 DEF After, hist, Working, Busy
  <2>2. /\ Sum(timers, w) \in Nat /\ b[Cur] \in Nat /\ a[Cur] \in Nat /\ a[Cur] <= b[Cur]
        /\ Held(w, b, a) = b[Cur] /\ Held(w, b, a)' = a[Cur] /\ Cur \in Node /\ Cur.id \in Id
    BY <2>1, LoadFacts, CurFacts DEF Held, Cur, Busy
  <2>3. ASSUME timers' \in Seq(Node), Sum(timers', w) + a[Cur] <= Sum(timers, w) + b[Cur] PROVE Falls
    <3>1. Sum(timers', w) \in Nat
      BY <1>0, <2>3, SumIsNat
    <3>2. Sum(timers', w) + Held(w, b, a)' + 0 <= Sum(timers, w) + Held(w, b, a)
      BY <2>2, <2>3, <3>1
    <3>3. Load(w, b, a)' \in Nat /\ Load(w, b, a)' + 0 <= Load(w, b, a)
      BY <1>0, <2>1, <2>3, <3>2, LoadOfSame
    <3> QED
      BY <1>0, <1>1, <2>1, <3>3
  <2>4. CASE UNCHANGED timers
    BY <1>0, <2>2, <2>3, <2>4
  <2>5. ASSUME NEW r \in Int, timers' = Again(Cur, r) PROVE Falls
    <3>1. PICK n : n = NewNode(Cur.id, now + Cur.period, r, Cur.period)
      OBVIOUS
    <3>2. Cur.period \in Nat
      BY <2>2 DEF Node
    <3>3. n \in Node /\ timers' = Insert(timers, n)
      <4>1. PICK x \in Id : x = Cur.id
        BY <2>2
      <4>2. PICK p \in Nat : p = Cur.period
        BY <3>2
      <4>3. n \in Node
        <5>1. x \in Id \cup {Dummy} /\ now + p \in Int
          BY <1>23
        <5> QED
          BY <3>1, <4>1, <4>2, <5>1, NewNodeIsNode
      <4> QED
        BY <2>5, <3>1, <4>3 DEF Again
    <3>4. a[Cur] + w[n] <= b[Cur]
      BY <2>1, <3>1 DEF Covered
    <3>5. timers' \in Seq(Node) /\ Sum(timers', w) = Sum(timers, w) + w[n] /\ w[n] \in Nat
      BY <1>0, <3>3, InsertProperties, SumOfInsert
    <3> QED
      BY <2>2, <2>3, <3>4, <3>5
  <2>6. \/ UNCHANGED timers
        \/ \E r \in Int : timers' = Again(Cur, r)
    <3>1. \/ UNCHANGED timers
          \/ timers' = Again(Cur, -1)
          \/ /\ timers' = Again(Cur, repeats'[Cur.id])
             /\ repeats' = [repeats EXCEPT ![Cur.id] = repeats[Cur.id] - 1]
      BY <1>12 DEF After, tables
    <3>2. repeats \in [Id -> Int]
      BY DEF TypeOK
    <3>3. ASSUME repeats' = [repeats EXCEPT ![Cur.id] = repeats[Cur.id] - 1] PROVE repeats'[Cur.id] \in Int
      BY <2>2, <3>2, <3>3
    <3> QED
      BY <3>1, <3>3
  <2> QED
    BY <2>4, <2>5, <2>6
<1>13. CASE Catch
  <2>1. pc = "catch" /\ UNCHANGED <<timers, batch, runs>> /\ pc \in Working /\ pc' = "back" /\ pc' \in Working
    BY <1>13 DEF Catch, hist, Working, Busy
  <2>2. Sum(timers, w) \in Nat /\ a[Cur] \in Nat /\ Held(w, b, a) = a[Cur] /\ Held(w, b, a)' = a[Cur]
    BY <2>1, LoadFacts DEF Held, Cur
  <2>3. Sum(timers', w) + Held(w, b, a)' + 0 <= Sum(timers, w) + Held(w, b, a)
    BY <2>1, <2>2
  <2>4. Load(w, b, a)' \in Nat /\ Load(w, b, a)' + 0 <= Load(w, b, a)
    BY <1>0, <2>1, <2>3, LoadOfSame
  <2> QED
    BY <1>0, <1>1, <2>1, <2>4
<1>14. CASE Back
  <2>1. /\ pc = "back" /\ pc \in Working /\ UNCHANGED runs /\ batch' = Tail(batch)
        /\ pc' = IF batch' = <<>> THEN "loop" ELSE "check"
    BY <1>14 DEF Back, hist, Working, Busy
  <2>2. /\ Sum(timers, w) \in Nat /\ a[Cur] \in Nat /\ Held(w, b, a) = a[Cur]
        /\ Cur \in Node /\ Cur.id \in Id
    BY <2>1, LoadFacts, CurFacts DEF Held, Busy
  <2>3. Cur.time \in Int /\ Cur.repeat \in Int /\ Cur.period \in Nat
    BY <2>2 DEF Node
  <2>4. PICK left \in Int : left = IF Cur.repeat > 0 THEN Cur.repeat - 1 ELSE Cur.repeat
    BY <2>3
  <2>5. PICK n : n = NewNode(Cur.id, Cur.time + Cur.period, left, Cur.period)
    OBVIOUS
  <2>6. n \in Node
    BY <2>2, <2>3, <2>5, NewNodeIsNode
  <2>7. w[n] <= a[Cur]
    BY <2>1, <2>4, <2>5 DEF Covered
  <2>8. UNCHANGED timers \/ timers' = Insert(timers, n)
    BY <1>14, <2>4, <2>5 DEF Back
  <2>9. timers' \in Seq(Node) /\ Sum(timers', w) <= Sum(timers, w) + Held(w, b, a)
    <3>1. CASE UNCHANGED timers
      BY <1>0, <2>2, <3>1
    <3>2. CASE timers' = Insert(timers, n)
      <4>1. timers' \in Seq(Node) /\ Sum(timers', w) = Sum(timers, w) + w[n] /\ w[n] \in Nat
        BY <1>0, <2>6, <3>2, InsertProperties, SumOfInsert
      <4> QED
        BY <2>2, <2>7, <4>1
    <3> QED
      BY <2>8, <3>1, <3>2
  <2>10. Load(w, b, a)' \in Nat /\ Load(w, b, a)' <= Load(w, b, a)
    BY <2>1, <2>9, LoadOfNext
  <2> QED
    BY <1>1, <2>1, <2>10
<1>15. CASE Round \/ NothingDue \/ TickEnds
  <2>1. /\ UNCHANGED <<timers, runs>>
        /\ pc \in {"loop", "update"} /\ pc' \in {"loop", "update", "ended"}
    BY <1>15 DEF Round, NothingDue, TickEnds, tables, hist
  <2>2. Load(w, b, a)' = Load(w, b, a)
    BY <2>1 DEF Load, Working, Busy
  <2> QED
    BY <1>2, <2>1, <2>2
<1>16. ASSUME nextId' = nextId + 1, nextId <= MaxId, NEW ms \in Nat, NEW r \in Int,
              timers' = Insert(timers, NewNode(nextId, now + ms, r, ms)), UNCHANGED <<batch, pc, runs>>
       PROVE  Falls
  <2>1. nextId \in Id /\ nextId # i
    BY <1>0, <1>16, BoundAssumption DEF TypeOK, Id
  <2>2. PICK n : n = NewNode(nextId, now + ms, r, ms)
    OBVIOUS
  <2>4. PICK x \in Id : x = nextId
    BY <2>1
  <2>3. n \in Node /\ n.id # i
    <3>1. x \in Id \cup {Dummy} /\ now + ms \in Int
      BY <1>23
    <3>2. n \in Node /\ n.id = x
      BY <2>2, <2>4, <3>1, NewNodeIsNode
    <3> QED
      BY <2>1, <2>4, <3>2
  <2> QED
    BY <1>4, <1>16, <2>2, <2>3
<1>17. ASSUME NEW c \in Caller, DoScheduleWithKey(c) PROVE Falls
  <2>1. PICK r \in Nat \cup {-1} : r = call[c][2][2]
    BY <1>17, CallFacts DEF DoScheduleWithKey
  <2>2. PICK ms \in Nat : ms = AtLeastOne(call[c][2][1])
    BY <1>17, CallFacts, AtLeastOneIs DEF DoScheduleWithKey
  <2>3. /\ timers' = Insert(timers, NewNode(nextId, now + ms, r, ms)) /\ UNCHANGED <<batch, pc, runs>>
        /\ nextId' = nextId + 1 /\ nextId <= MaxId
    BY <1>17, <2>1, <2>2 DEF DoScheduleWithKey, ticker
  <2> QED
    BY <1>16, <2>1, <2>2, <2>3
<1>18. ASSUME NEW c \in Caller, NEW t \in Timing, DoSchedule(c, t[1], t[2]) PROVE Falls
  <2>1. PICK r \in Nat \cup {-1} : r = t[2]
    BY TimingFacts
  <2>2. PICK ms \in Nat : ms = AtLeastOne(t[1])
    BY TimingFacts, AtLeastOneIs
  <2>3. /\ timers' = Insert(timers, NewNode(nextId, now + ms, r, ms)) /\ UNCHANGED <<batch, pc, runs>>
        /\ nextId' = nextId + 1 /\ nextId <= MaxId
    BY <1>18, <2>1, <2>2 DEF DoSchedule, ticker
  <2> QED
    BY <1>16, <2>1, <2>2, <2>3
<1>19. ASSUME NEW c \in Caller, NEW k \in Key, CancelByKey(c, k) PROVE Falls
  BY <1>3, <1>19 DEF CancelByKey, ticker
<1>20. ASSUME NEW c \in Caller, NEW k \in Key, NEW t \in Timing, ScheduleWithKey(c, k, t) PROVE Falls
  BY <1>3, <1>20 DEF ScheduleWithKey, ticker
<1> HIDE DEF Falls
<1>21. CASE QuietStep
  BY <1>6, <1>7, <1>8, <1>9, <1>10, <1>12, <1>13, <1>14, <1>15, <1>21, <1>22 DEF QuietStep
<1> QED
  BY <1>11, <1>17, <1>18, <1>19, <1>20, <1>21, Steps

-----------------------------------------------------------------------------
(* Periods *)

LEMMA Division ==
    ASSUME NEW x \in Nat, NEW m \in Nat \ {0}
    PROVE  x \div m \in Nat /\ m * (x \div m) <= x /\ x < m * (x \div m) + m
  BY Z3

LEMMA Quotient ==
    ASSUME NEW x \in Nat, NEW m \in Nat \ {0}, NEW q \in Nat, m * q <= x, x < m * q + m
    PROVE  x \div m = q
<1>1. PICK p \in Nat : p = x \div m
  BY Division
<1>2. m * p <= x /\ x < m * p + m
  BY <1>1, Division
<1>3. CASE p > q
  <2>1. m * (p - (q + 1)) >= 0
    BY <1>3
  <2>2. m * p >= m * q + m
    BY <2>1
  <2> QED
    BY <1>2, <2>2
<1>4. CASE q > p
  <2>1. m * (q - (p + 1)) >= 0
    BY <1>4
  <2>2. m * q >= m * p + m
    BY <2>1
  <2> QED
    BY <1>2, <2>2
<1> QED
  BY <1>1, <1>3, <1>4

LEMMA Shorter ==
    ASSUME NEW x \in Nat, NEW m \in Nat \ {0}
    PROVE  /\ x < m => x \div m = 0
           /\ x >= m => x \div m = (x - m) \div m + 1
           /\ \A y \in Nat : y <= x => y \div m <= x \div m
<1>1. ASSUME x < m PROVE x \div m = 0
  <2>1. m * 0 <= x /\ x < m * 0 + m
    BY <1>1
  <2> QED
    BY <2>1, Quotient
<1>2. ASSUME x >= m PROVE x \div m = (x - m) \div m + 1
  <2>1. PICK y \in Nat : y = x - m
    BY <1>2
  <2>2. PICK p \in Nat : p = y \div m
    BY Division
  <2>3. m * p <= y /\ y < m * p + m
    BY <2>2, Division
  <2>4. m * (p + 1) = m * p + m /\ m * p \in Nat
    OBVIOUS
  <2>5. m * (p + 1) <= x /\ x < m * (p + 1) + m
    BY <2>1, <2>3, <2>4
  <2>6. x \div m = p + 1
    BY <2>5, Quotient
  <2> QED
    BY <2>1, <2>2, <2>6
<1>3. ASSUME NEW y \in Nat, y <= x PROVE y \div m <= x \div m
  <2>1. PICK p \in Nat : p = y \div m
    BY Division
  <2>2. PICK q \in Nat : q = x \div m
    BY Division
  <2>3. m * p <= y /\ x < m * q + m
    BY <2>1, <2>2, Division
  <2>4. CASE p > q
    <3>1. m * (p - (q + 1)) >= 0
      BY <2>4
    <3>2. m * p >= m * q + m
      BY <3>1
    <3>3. m * p \in Nat /\ m * q \in Nat
      OBVIOUS
    <3> QED
      BY <1>3, <2>3, <3>2, <3>3
  <2> QED
    BY <2>1, <2>2, <2>4
<1> QED
  BY <1>1, <1>2, <1>3

(* How often a timer with key k runs in n periods at most. *)
Bound(k, n) == IF k = NoKey THEN n ELSE 2^n - 1

LEMMA BoundFacts ==
    ASSUME NEW k, NEW n \in Nat
    PROVE  /\ Bound(k, 0) = 0 /\ Bound(k, n) \in Nat
           /\ Bound(k, n + 1) = (IF k = NoKey THEN 1 ELSE 2) * Bound(k, n) + 1
<1>1. 2^0 = 1 /\ 2^n \in Nat \ {0} /\ 2^(n + 1) = 2 * 2^n
  BY PowerOfTwo
<1>2. PICK p \in Nat \ {0} : p = 2^n
  BY <1>1
<1>3. 2^(n + 1) - 1 = 2 * (p - 1) + 1
  BY <1>1, <1>2
<1> QED
  BY <1>1, <1>2, <1>3 DEF Bound

LEMMA BoundGrows ==
    ASSUME NEW k, NEW m \in Nat, NEW n \in Nat, m <= n
    PROVE  Bound(k, m) <= Bound(k, n)
<1> DEFINE Bad == {j \in Nat : m <= j /\ ~ (Bound(k, m) <= Bound(k, j))}
<1>1. CASE Bad # {}
  <2>1. PICK j \in Bad : \A i \in Bad : j <= i
    <3>1. Bad \subseteq Nat
      OBVIOUS
    <3> HIDE DEF Bad
    <3> QED
      BY <1>1, <3>1, Smallest
  <2>2. Bound(k, m) \in Nat
    BY BoundFacts
  <2>3. j # m
    BY <2>1, <2>2
  <2>4. PICK i \in Nat : i = j - 1
    BY <2>1, <2>3
  <2>5. Bound(k, m) <= Bound(k, i)
    BY <2>1, <2>3, <2>4
  <2>6. Bound(k, i + 1) = (IF k = NoKey THEN 1 ELSE 2) * Bound(k, i) + 1 /\ Bound(k, i) \in Nat
    BY BoundFacts
  <2>7. j = i + 1
    BY <2>1, <2>4
  <2>8. Bound(k, i) <= Bound(k, j)
    BY <2>6, <2>7
  <2>9. Bound(k, j) \in Nat
    BY <2>1, BoundFacts
  <2> QED
    BY <2>1, <2>2, <2>5, <2>6, <2>8, <2>9
<1> QED
  BY <1>1

(* How often a timer with key k and period ms runs until h at most, from a   *)
(* node that is due at t.                                                    *)
Cap(k, ms, h, t) == IF t > h THEN 0 ELSE Bound(k, (h - t) \div ms + 1)

LEMMA BoundIsCap ==
    ASSUME NEW k, NEW ms \in Nat \ {0}, NEW h \in Int, NEW t \in Int, t <= h
    PROVE  Bound(k, (h - t) \div ms) = Cap(k, ms, h, t + ms)
<1>1. PICK x \in Nat : x = h - t
  OBVIOUS
<1>2. CASE x < ms
  <2>1. x \div ms = 0
    BY <1>2, Shorter
  <2>2. t + ms > h
    BY <1>1, <1>2
  <2>3. Bound(k, 0) = 0
    BY BoundFacts
  <2> QED
    BY <1>1, <2>1, <2>2, <2>3 DEF Cap
<1>3. CASE x >= ms
  <2>1. x \div ms = (x - ms) \div ms + 1
    BY <1>3, Shorter
  <2>2. ~(t + ms > h) /\ h - (t + ms) = x - ms
    BY <1>1, <1>3
  <2> QED
    BY <1>1, <2>1, <2>2 DEF Cap
<1> QED
  BY <1>1, <1>2, <1>3

LEMMA CapFacts ==
    ASSUME NEW k, NEW ms \in Nat \ {0}, NEW h \in Int, NEW t \in Int
    PROVE  /\ Cap(k, ms, h, t) \in Nat
           /\ t > h => Cap(k, ms, h, t) = 0
           /\ t <= h => Cap(k, ms, h, t) = (IF k = NoKey THEN 1 ELSE 2) * Cap(k, ms, h, t + ms) + 1
           /\ \A u \in Int : t <= u => Cap(k, ms, h, u) <= Cap(k, ms, h, t)
<1>1. ASSUME NEW u \in Int PROVE Cap(k, ms, h, u) \in Nat
  <2>1. CASE u > h
    BY <2>1 DEF Cap
  <2>2. CASE ~(u > h)
    <3>1. PICK x \in Nat : x = h - u
      BY <2>2
    <3>2. x \div ms \in Nat
      BY Division
    <3>3. Bound(k, x \div ms + 1) \in Nat
      BY <3>2, BoundFacts
    <3> QED
      BY <2>2, <3>1, <3>3 DEF Cap
  <2> QED
    BY <2>1, <2>2
<1>2. t <= h => Bound(k, (h - t) \div ms) = Cap(k, ms, h, t + ms)
  BY BoundIsCap
<1>3. ASSUME t <= h PROVE Cap(k, ms, h, t) = (IF k = NoKey THEN 1 ELSE 2) * Cap(k, ms, h, t + ms) + 1
  <2>1. PICK n : n = (h - t) \div ms
    OBVIOUS
  <2>2. n \in Nat
    <3>1. h - t \in Nat
      BY <1>3
    <3> QED
      BY <2>1, <3>1, Division
  <2>3. Cap(k, ms, h, t) = Bound(k, n + 1)
    BY <1>3, <2>1 DEF Cap
  <2>4. Bound(k, n) = Cap(k, ms, h, t + ms)
    BY <1>2, <1>3, <2>1
  <2> QED
    BY <2>2, <2>3, <2>4, BoundFacts
<1>4. ASSUME NEW u \in Int, t <= u PROVE Cap(k, ms, h, u) <= Cap(k, ms, h, t)
  <2>1. Cap(k, ms, h, t) \in Nat
    BY <1>1
  <2>2. CASE u > h
    BY <2>1, <2>2 DEF Cap
  <2>3. CASE ~(u > h)
    <3>1. PICK x \in Nat : x = h - t
      BY <1>4, <2>3
    <3>2. PICK y \in Nat : y = h - u
      BY <2>3
    <3>3. y \div ms <= x \div ms /\ x \div ms \in Nat /\ y \div ms \in Nat
      <4>1. y <= x
        BY <1>4, <3>1, <3>2
      <4> QED
        BY <4>1, Shorter, Division
    <3>4. Bound(k, y \div ms + 1) <= Bound(k, x \div ms + 1)
      BY <3>3, BoundGrows
    <3>5. ~(t > h)
      BY <1>4, <2>3
    <3> QED
      BY <2>3, <3>1, <3>2, <3>4, <3>5 DEF Cap
  <2> QED
    BY <2>2, <2>3
<1>5. t > h => Cap(k, ms, h, t) = 0
  BY DEF Cap
<1> QED
  BY <1>1, <1>3, <1>4, <1>5

-----------------------------------------------------------------------------
(* The pace of the timers *)

(* The weights of timer i with key k and period ms: the runs until h. *)
ToRun(i, k, ms, h) == [n \in Node |-> IF n.id = i THEN Cap(k, ms, h, n.time) ELSE 0]
ToBack(i, k, ms, h) == [n \in Node |-> IF n.id = i THEN Cap(k, ms, h, n.time + ms) ELSE 0]
ToAgain(i, k, ms, h) ==
    [n \in Node |-> IF n.id = i THEN (IF k = NoKey THEN 1 ELSE 2) * Cap(k, ms, h, n.time + ms) ELSE 0]
Ahead(i, k, ms, h) == Load(ToRun(i, k, ms, h), ToAgain(i, k, ms, h), ToBack(i, k, ms, h))

(* Whatever the future moment h, the runs made and those still possible      *)
(* until then are within the bound.                                          *)
PacedBy(i, k, ms, start) ==
    \A h \in Int : now <= h => runs[i] + Ahead(i, k, ms, h) <= Bound(k, (h - start) \div ms)

Timed == \A i \in Id : info[i].ms > 0 /\ info[i].start <= now
Paced ==
    \A i \in Id : \A k, ms, start :
        i < nextId /\ k = info[i].key /\ ms = info[i].ms /\ start = info[i].start => PacedBy(i, k, ms, start)

LEMMA NodeFields ==
    ASSUME NEW n \in Node
    PROVE  n.time \in Int /\ n.period \in Nat /\ n.repeat \in Int /\ n.id \in Id \cup {Dummy}
  BY DEF Node

LEMMA PaceWeights ==
    ASSUME NEW i \in Id, NEW k, NEW ms \in Nat \ {0}, NEW h \in Int
    PROVE  /\ ToRun(i, k, ms, h) \in [Node -> Nat]
           /\ ToAgain(i, k, ms, h) \in [Node -> Nat]
           /\ ToBack(i, k, ms, h) \in [Node -> Nat]
           /\ \A n \in Node : /\ ToBack(i, k, ms, h)[n] <= ToAgain(i, k, ms, h)[n]
                              /\ ToAgain(i, k, ms, h)[n] <= ToRun(i, k, ms, h)[n]
<1>1. ASSUME NEW n \in Node
      PROVE  /\ Cap(k, ms, h, n.time) \in Nat /\ Cap(k, ms, h, n.time + ms) \in Nat
             /\ (IF k = NoKey THEN 1 ELSE 2) * Cap(k, ms, h, n.time + ms) \in Nat
             /\ (IF k = NoKey THEN 1 ELSE 2) * Cap(k, ms, h, n.time + ms) <= Cap(k, ms, h, n.time)
             /\ Cap(k, ms, h, n.time + ms) <= (IF k = NoKey THEN 1 ELSE 2) * Cap(k, ms, h, n.time + ms)
  <2>1. PICK t \in Int : t = n.time
    BY NodeFields
  <2>2. PICK c \in Nat : c = Cap(k, ms, h, t + ms)
    BY CapFacts
  <2>3. PICK d \in Nat : d = Cap(k, ms, h, t)
    BY CapFacts
  <2>4. CASE t <= h
    <3>1. d = (IF k = NoKey THEN 1 ELSE 2) * c + 1
      BY <2>2, <2>3, <2>4, CapFacts
    <3> QED
      BY <2>1, <2>2, <2>3, <3>1
  <2>5. CASE t > h
    <3>1. t + ms > h
      BY <2>5
    <3>2. c = 0
      BY <2>2, <3>1, CapFacts
    <3> QED
      BY <2>1, <2>2, <2>3, <3>2
  <2> QED
    BY <2>4, <2>5
<1> QED
  BY <1>1 DEF ToRun, ToAgain, ToBack

LEMMA PaceCovered ==
    ASSUME TypeOK, Ordered, Nodes, NEW i \in Id, NEW k, k = info[i].key,
           NEW ms \in Nat \ {0}, ms = info[i].ms, NEW h \in Int, now <= h
    PROVE  Covered(i, ToRun(i, k, ms, h), ToAgain(i, k, ms, h), ToBack(i, k, ms, h))
<1> DEFINE w == ToRun(i, k, ms, h)
           b == ToAgain(i, k, ms, h)
           a == ToBack(i, k, ms, h)
<1>0. now \in Int
  BY BoundAssumption DEF TypeOK
<1>1. \A n \in Node : n.id # i => w[n] = 0 /\ b[n] = 0 /\ a[n] = 0
  BY DEF ToRun, ToAgain, ToBack
<1>2. \A n \in Node : n.id = i =>
          /\ w[n] = Cap(k, ms, h, n.time) /\ a[n] = Cap(k, ms, h, n.time + ms)
          /\ b[n] = (IF k = NoKey THEN 1 ELSE 2) * Cap(k, ms, h, n.time + ms)
  BY DEF ToRun, ToAgain, ToBack
<1>8. /\ w \in [Node -> Nat] /\ b \in [Node -> Nat] /\ a \in [Node -> Nat]
      /\ \A n \in Node : a[n] <= b[n] /\ b[n] <= w[n]
  BY PaceWeights
<1>3. ASSUME pc \in Busy
      PROVE  /\ Cur \in Node /\ Cur.time \in Int /\ Cur.time <= now /\ Cur.id \in Id /\ Cur.repeat \in Int
             /\ Cur.period \in Nat /\ (Cur.id = i => Cur.period = ms /\ CurKey = k)
  <2>1. Cur \in Node /\ GoodNode(Cur) /\ Cur.time <= now /\ Cur.id \in Id
    BY <1>3, CurFacts DEF Working
  <2>2. Cur.id # Dummy
    BY <2>1, BoundAssumption DEF Id, Dummy
  <2>3. Cur.period = info[Cur.id].ms
    BY <2>1, <2>2 DEF GoodNode
  <2> QED
    BY <2>1, <2>3, NodeFields DEF CurKey
<1>4. ASSUME pc \in Busy, NEW t \in Int, NEW r \in Int
      PROVE  /\ NewNode(Cur.id, t, r, Cur.period) \in Node
             /\ NewNode(Cur.id, t, r, Cur.period).id = Cur.id
             /\ NewNode(Cur.id, t, r, Cur.period).time = t
  <2>1. PICK x \in Id \cup {Dummy} : x = Cur.id
    BY <1>3, <1>4
  <2>2. PICK p \in Nat : p = Cur.period
    BY <1>3, <1>4
  <2> QED
    BY <2>1, <2>2, NewNodeIsNode
<1>5. ASSUME pc = "run", Cur.id = i
      PROVE  (IF CurKey = NoKey THEN a[Cur] ELSE b[Cur]) + 1 <= w[Cur]
  <2>1. Cur \in Node /\ Cur.time \in Int /\ Cur.time <= h /\ CurKey = k
    BY <1>0, <1>3, <1>5 DEF Busy
  <2>2. PICK c \in Nat : c = Cap(k, ms, h, Cur.time + ms)
    BY <2>1, CapFacts
  <2>3. w[Cur] = (IF k = NoKey THEN 1 ELSE 2) * c + 1
    BY <1>2, <1>5, <2>1, <2>2, CapFacts
  <2>4. a[Cur] = c /\ b[Cur] = (IF k = NoKey THEN 1 ELSE 2) * c
    BY <1>2, <1>5, <2>1, <2>2
  <2> HIDE DEF a, b, w
  <2> QED
    BY <2>1, <2>3, <2>4
<1>6. ASSUME pc = "after", NEW r \in Int
      PROVE  a[Cur] + w[NewNode(Cur.id, now + Cur.period, r, Cur.period)] <= b[Cur]
  <2>0. pc \in Busy
    BY <1>6 DEF Busy
  <2>1. Cur \in Node /\ Cur.time \in Int /\ Cur.time <= now /\ Cur.period \in Nat
    BY <1>3, <2>0
  <2>2. PICK n : n = NewNode(Cur.id, now + Cur.period, r, Cur.period)
    OBVIOUS
  <2>3. n \in Node /\ n.id = Cur.id /\ n.time = now + Cur.period
    <3>1. PICK t \in Int : t = now + Cur.period
      BY <1>0, <2>1
    <3> QED
      BY <1>4, <2>0, <2>2, <3>1
  <2>4. CASE Cur.id # i
    <3>1. a[Cur] = 0 /\ b[Cur] = 0 /\ w[n] = 0
      BY <1>1, <2>1, <2>3, <2>4
    <3> HIDE DEF a, b, w
    <3> QED
      BY <2>2, <3>1
  <2>5. CASE Cur.id = i
    <3>1. Cur.period = ms /\ k # NoKey
      BY <1>3, <1>6, <2>0, <2>5 DEF Nodes
    <3>2. PICK c \in Nat : c = Cap(k, ms, h, Cur.time + ms)
      BY <2>1, CapFacts
    <3>3. PICK t \in Int : t = Cur.time + ms
      BY <2>1
    <3>4. PICK u \in Int : u = now + ms
      BY <1>0
    <3>5. t <= u
      BY <1>0, <2>1, <3>3, <3>4
    <3>6. Cap(k, ms, h, u) <= Cap(k, ms, h, t) /\ Cap(k, ms, h, u) \in Nat
      BY <3>5, CapFacts
    <3>7. w[n] = Cap(k, ms, h, u) /\ a[Cur] = c /\ b[Cur] = 2 * c
      BY <1>2, <2>1, <2>3, <2>5, <3>1, <3>2, <3>4
    <3> HIDE DEF a, b, w
    <3> QED
      BY <2>2, <3>2, <3>3, <3>6, <3>7
  <2> QED
    BY <2>4, <2>5
<1>7. ASSUME pc = "back", NEW r \in Int
      PROVE  w[NewNode(Cur.id, Cur.time + Cur.period, r, Cur.period)] <= a[Cur]
  <2>0. pc \in Busy
    BY <1>7 DEF Busy
  <2>1. Cur \in Node /\ Cur.time \in Int /\ Cur.period \in Nat
    BY <1>3, <2>0
  <2>2. PICK n : n = NewNode(Cur.id, Cur.time + Cur.period, r, Cur.period)
    OBVIOUS
  <2>3. n \in Node /\ n.id = Cur.id /\ n.time = Cur.time + Cur.period
    <3>1. PICK t \in Int : t = Cur.time + Cur.period
      BY <2>1
    <3> QED
      BY <1>4, <2>0, <2>2, <3>1
  <2>4. w[n] = a[Cur]
    <3>1. CASE Cur.id # i
      BY <1>1, <2>1, <2>3, <3>1
    <3>2. CASE Cur.id = i
      BY <1>2, <1>3, <2>0, <2>1, <2>3, <3>2
    <3> QED
      BY <3>1, <3>2
  <2>5. a[Cur] \in Nat
    <3> HIDE DEF a, b, w
    <3> QED
      BY <1>8, <2>1
  <2> HIDE DEF a, w
  <2> QED
    BY <2>2, <2>4, <2>5
<1> HIDE DEF a, b, w
<1>9. Covered(i, w, b, a)
  BY <1>1, <1>5, <1>6, <1>7, <1>8 DEF Covered
<1> QED
  BY <1>9 DEF a, b, w

(* A timer that is just scheduled has all its runs ahead. *)
LEMMA ScheduledPaced ==
    ASSUME TypeOK, Ordered, Nodes, NEW i \in Id, i = nextId, runs[i] = 0, NEW k, NEW ms \in Nat \ {0}, NEW r \in Int,
           timers' = Insert(timers, NewNode(i, now + ms, r, ms)), UNCHANGED <<now, batch, pc, runs>>
    PROVE  PacedBy(i, k, ms, now)'
<1>0. now \in Int /\ timers \in Seq(Node) /\ batch \in Seq(Node)
  BY BoundAssumption DEF TypeOK
<1> SUFFICES ASSUME NEW h \in Int, now <= h
             PROVE  runs[i] + Ahead(i, k, ms, h)' <= Bound(k, (h - now) \div ms)
  BY DEF PacedBy
<1>1. PICK w : w = ToRun(i, k, ms, h)
  OBVIOUS
<1>2. PICK b : b = ToAgain(i, k, ms, h)
  OBVIOUS
<1>3. PICK a : a = ToBack(i, k, ms, h)
  OBVIOUS
<1>4. w \in [Node -> Nat]
  BY <1>1, PaceWeights
<1>5. \A n \in Node : n.id # i => w[n] = 0 /\ b[n] = 0 /\ a[n] = 0
  BY <1>1, <1>2, <1>3 DEF ToRun, ToAgain, ToBack
<1>6. \A n \in Elems(timers) \cup Elems(batch) : n \in Node /\ n.id # i
  <2>1. \A n \in Elems(timers) \cup Elems(batch) : n \in Node /\ n.id < nextId
    BY <1>0, ElemsOfSeq DEF Nodes, GoodNode
  <2>2. nextId \in Int /\ ~ (nextId < nextId)
    BY BoundAssumption DEF TypeOK
  <2> QED
    BY <2>1, <2>2
<1>7. Sum(timers, w) = 0
  <2>1. \A j \in 1..Len(timers) : w[timers[j]] = 0
    BY <1>5, <1>6 DEF Elems
  <2> QED
    BY <1>0, <2>1, SumOfZeros
<1>8. PICK n : n = NewNode(i, now + ms, r, ms)
  OBVIOUS
<1>9. n \in Node /\ n.id = i /\ n.time = now + ms
  <2>1. i \in Id \cup {Dummy} /\ now + ms \in Int /\ ms \in Nat
    BY <1>0
  <2> QED
    BY <1>8, <2>1, NewNodeIsNode
<1>10. Sum(timers', w) = w[n] /\ w[n] \in Nat
  <2>1. Sum(timers', w) = Sum(timers, w) + w[n] /\ w[n] \in Nat
    BY <1>0, <1>4, <1>8, <1>9, SumOfInsert
  <2> QED
    BY <1>7, <2>1
<1>11. ASSUME pc \in Working PROVE Held(w, b, a) = 0 /\ Sum(Tail(batch), w) = 0
  <2>1. batch # <<>>
    BY <1>11 DEF Ordered
  <2>2. Cur \in Elems(batch) /\ Tail(batch) \in Seq(Node) /\ Elems(Tail(batch)) \subseteq Elems(batch)
    BY <1>0, <2>1, HeadAndTail DEF Cur
  <2>3. w[Cur] = 0 /\ b[Cur] = 0 /\ a[Cur] = 0
    BY <1>5, <1>6, <2>2
  <2>4. \A j \in 1..Len(Tail(batch)) : w[Tail(batch)[j]] = 0
    BY <1>5, <1>6, <2>2 DEF Elems
  <2> QED
    BY <2>2, <2>3, <2>4, SumOfZeros DEF Held
<1>12. Load(w, b, a)' = w[n]
  <2>1. Held(w, b, a)' = Held(w, b, a)
    BY DEF Held, Cur
  <2>2. CASE pc \in Working
    <3>1. Load(w, b, a)' = Sum(timers', w) + (Held(w, b, a) + Sum(Tail(batch), w))
      BY <2>1, <2>2 DEF Load
    <3> QED
      BY <1>10, <1>11, <2>2, <3>1
  <2>3. CASE pc \notin Working
    <3>1. Load(w, b, a)' = Sum(timers', w) + 0
      BY <2>3 DEF Load
    <3> QED
      BY <1>10, <3>1
  <2> QED
    BY <2>2, <2>3
<1>13. w[n] = Bound(k, (h - now) \div ms)
  <2>1. w[n] = Cap(k, ms, h, now + ms)
    BY <1>1, <1>9 DEF ToRun
  <2>2. Bound(k, (h - now) \div ms) = Cap(k, ms, h, now + ms)
    <3>1. PICK t \in Int : t = now
      BY <1>0
    <3>2. t <= h
      BY <3>1
    <3>3. Bound(k, (h - t) \div ms) = Cap(k, ms, h, t + ms)
      BY <3>2, BoundIsCap
    <3> QED
      BY <3>1, <3>3
  <2> QED
    BY <2>1, <2>2
<1>14. Ahead(i, k, ms, h)' = Load(w, b, a)'
  BY <1>1, <1>2, <1>3 DEF Ahead
<1> QED
  BY <1>10, <1>12, <1>13, <1>14

(* A timer scheduled before. *)
LEMMA OldPaced ==
    ASSUME TypeOK, Ordered, Nodes, [Next]_vars, NEW i \in Id, i < nextId, now <= now', now' \in Int,
           NEW k, k = info[i].key, NEW ms \in Nat \ {0}, ms = info[i].ms, NEW start \in Int, start <= now,
           PacedBy(i, k, ms, start)
    PROVE  PacedBy(i, k, ms, start)'
<1>0. now \in Int /\ runs[i] \in Nat
  BY BoundAssumption DEF TypeOK
<1> SUFFICES ASSUME NEW h \in Int, now' <= h
             PROVE  runs'[i] + Ahead(i, k, ms, h)' <= Bound(k, (h - start) \div ms)
  BY DEF PacedBy
<1>1. now <= h
  BY <1>0
<1>2. runs[i] + Ahead(i, k, ms, h) <= Bound(k, (h - start) \div ms)
  BY <1>1 DEF PacedBy
<1>3. PICK w : w = ToRun(i, k, ms, h)
  OBVIOUS
<1>4. PICK b : b = ToAgain(i, k, ms, h)
  OBVIOUS
<1>5. PICK a : a = ToBack(i, k, ms, h)
  OBVIOUS
<1>6. Covered(i, w, b, a)
  BY <1>1, <1>3, <1>4, <1>5, PaceCovered
<1>7. /\ Load(w, b, a)' \in Nat /\ runs'[i] \in Nat
      /\ runs'[i] + Load(w, b, a)' <= runs[i] + Load(w, b, a)
  BY <1>6, LoadFalls
<1>8. Load(w, b, a) \in Nat
  BY <1>6, LoadFacts
<1>9. Ahead(i, k, ms, h)' = Load(w, b, a)' /\ Ahead(i, k, ms, h) = Load(w, b, a)
  BY <1>3, <1>4, <1>5 DEF Ahead
<1>10. Bound(k, (h - start) \div ms) \in Nat
  <2>1. PICK x \in Nat : x = h - start
    BY <1>0, <1>1
  <2>2. x \div ms \in Nat
    BY Division
  <2> QED
    BY <2>1, <2>2, BoundFacts
<1>11. PICK x \in Nat : x = Load(w, b, a)
  BY <1>8
<1>12. PICK y \in Nat : y = Load(w, b, a)'
  BY <1>7
<1>13. PICK z \in Nat : z = Bound(k, (h - start) \div ms)
  BY <1>10
<1>14. runs[i] + x <= z /\ runs'[i] + y <= runs[i] + x
  BY <1>2, <1>7, <1>9, <1>11, <1>12, <1>13
<1>15. runs'[i] + y <= z
  BY <1>0, <1>7, <1>14
<1> QED
  BY <1>9, <1>12, <1>13, <1>15

LEMMA TimeGrows ==
    ASSUME TypeOK, [Next]_vars
    PROVE  now \in Nat /\ now' \in Int /\ now <= now'
<1>1. now \in Nat
  BY BoundAssumption DEF TypeOK
<1>2. now' = now \/ now' = now + 1
  <2>1. CASE QuietStep
    BY <2>1 DEF QuietStep, ClockTick, Stop, Round, NothingDue, Collect, Check, Wrap, After, Catch,
                Back, TickEnds, vars
  <2> QED
    BY <2>1, Steps DEF DoScheduleWithKey, DoSchedule, CancelByKey, ScheduleWithKey, Run
<1> QED
  BY <1>1, <1>2

(* A step that gives out an id: its timer starts now. *)
LEMMA Scheduling ==
    ASSUME TypeOK, [Next]_vars, nextId' # nextId
    PROVE  /\ nextId \in Id /\ nextId' = nextId + 1 /\ UNCHANGED <<now, batch, pc, runs>>
           /\ \E ms \in Nat \ {0}, r \in Int :
                 /\ info'[nextId].ms = ms /\ info'[nextId].start = now
                 /\ timers' = Insert(timers, NewNode(nextId, now + ms, r, ms))
<1>0. nextId \in 1..MaxId + 1 /\ MaxId \in Nat /\ info \in [Id -> Info]
  BY BoundAssumption DEF TypeOK
<1>1. ~QuietStep
  BY QuietKeeps
<1>2. ASSUME NEW c \in Caller, DoScheduleWithKey(c)
      PROVE  /\ nextId \in Id /\ nextId' = nextId + 1 /\ UNCHANGED <<now, batch, pc, runs>>
             /\ \E ms \in Nat \ {0}, r \in Int :
                   /\ info'[nextId].ms = ms /\ info'[nextId].start = now
                   /\ timers' = Insert(timers, NewNode(nextId, now + ms, r, ms))
  <2>0. UNCHANGED <<now, batch, pc, runs>> /\ nextId <= MaxId /\ nextId' = nextId + 1
    BY <1>2 DEF DoScheduleWithKey, ticker
  <2>1. PICK k \in Key : k = call[c][1]
    BY <1>2, CallFacts DEF DoScheduleWithKey
  <2>2. PICK r \in Int : r = call[c][2][2]
    BY <1>2, CallFacts DEF DoScheduleWithKey
  <2>3. PICK ms \in Nat \ {0} : ms = AtLeastOne(call[c][2][1])
    BY <1>2, CallFacts, AtLeastOneIs DEF DoScheduleWithKey
  <2>4. timers' = Insert(timers, NewNode(nextId, now + ms, r, ms))
    BY <1>2, <2>2, <2>3 DEF DoScheduleWithKey
  <2>5. info' = [End(k) EXCEPT ![nextId] = [key |-> k, ms |-> ms, repeat |-> r, start |-> now, ended |-> FALSE]]
    BY <1>2, <2>1, <2>2, <2>3 DEF DoScheduleWithKey
  <2>6. nextId \in Id
    BY <1>0, <2>0 DEF Id
  <2>7. info'[nextId].ms = ms /\ info'[nextId].start = now
    BY <2>1, <2>5, <2>6, EndProperties
  <2> QED
    BY <2>0, <2>4, <2>6, <2>7
<1>3. ASSUME NEW c \in Caller, NEW t \in Timing, DoSchedule(c, t[1], t[2])
      PROVE  /\ nextId \in Id /\ nextId' = nextId + 1 /\ UNCHANGED <<now, batch, pc, runs>>
             /\ \E ms \in Nat \ {0}, r \in Int :
                   /\ info'[nextId].ms = ms /\ info'[nextId].start = now
                   /\ timers' = Insert(timers, NewNode(nextId, now + ms, r, ms))
  <2>0. UNCHANGED <<now, batch, pc, runs>> /\ nextId <= MaxId /\ nextId' = nextId + 1
    BY <1>3 DEF DoSchedule, ticker
  <2>1. PICK r \in Int : r = t[2]
    BY TimingFacts
  <2>2. PICK ms \in Nat \ {0} : ms = AtLeastOne(t[1])
    BY TimingFacts, AtLeastOneIs
  <2>3. timers' = Insert(timers, NewNode(nextId, now + ms, r, ms))
    BY <1>3, <2>1, <2>2 DEF DoSchedule
  <2>4. info' = [info EXCEPT ![nextId] = [key |-> NoKey, ms |-> ms, repeat |-> r, start |-> now, ended |-> FALSE]]
    BY <1>3, <2>1, <2>2 DEF DoSchedule
  <2>5. nextId \in Id
    BY <1>0, <2>0 DEF Id
  <2>6. info'[nextId].ms = ms /\ info'[nextId].start = now
    BY <1>0, <2>4, <2>5
  <2> QED
    BY <2>0, <2>3, <2>5, <2>6
<1>4. ASSUME UNCHANGED nextId PROVE FALSE
  BY <1>4
<1>5. ~ \E c \in Caller, k \in Key : CancelByKey(c, k)
  BY <1>4 DEF CancelByKey
<1>6. ~ \E c \in Caller, k \in Key, t \in Timing : ScheduleWithKey(c, k, t)
  BY <1>4 DEF ScheduleWithKey
<1>7. ~ \E throws \in BOOLEAN : Run(throws)
  BY <1>4 DEF Run
<1> QED
  BY <1>1, <1>2, <1>3, <1>5, <1>6, <1>7, Steps

LEMMA PacedStep ==
    ASSUME IInv, Timed, Paced, [Next]_vars
    PROVE  Timed' /\ Paced'
<1>0. TypeOK /\ Ordered /\ Nodes /\ Issued
  BY DEF IInv
<1>1. InfoGrows /\ now \in Nat /\ now' \in Int /\ now <= now' /\ nextId \in Int
  BY <1>0, InfoStep, TimeGrows, BoundAssumption DEF TypeOK
<1> DEFINE Fine(i) == \E k, ms, start :
               /\ k = info'[i].key /\ ms = info'[i].ms /\ start = info'[i].start
               /\ ms > 0 /\ start <= now' /\ PacedBy(i, k, ms, start)'
<1>2. ASSUME NEW i \in Id, i < nextId PROVE Fine(i)
  <2>1. Same(i)
    BY <1>1, <1>2 DEF InfoGrows
  <2>2. info[i] \in Info
    BY <1>0 DEF TypeOK
  <2>3. info[i].ms > 0 /\ info[i].start <= now
    BY DEF Timed
  <2>4. PICK k : k = info[i].key
    OBVIOUS
  <2>5. PICK ms \in Nat \ {0} : ms = info[i].ms
    BY <2>2, <2>3 DEF Info
  <2>6. PICK start \in Int : start = info[i].start
    BY <2>2 DEF Info
  <2>7. PacedBy(i, k, ms, start)
    BY <1>2, <2>4, <2>5, <2>6 DEF Paced
  <2>8. PacedBy(i, k, ms, start)'
    BY <1>0, <1>1, <1>2, <2>3, <2>4, <2>5, <2>6, <2>7, OldPaced
  <2>9. /\ k = info'[i].key /\ ms = info'[i].ms /\ start = info'[i].start /\ ms > 0 /\ start <= now'
    BY <1>1, <2>1, <2>3, <2>4, <2>5, <2>6 DEF Same
  <2> QED
    BY <2>8, <2>9
<1>3. ASSUME NEW i \in Id, i = nextId, nextId' # nextId PROVE Fine(i)
  <2>1. /\ nextId' = nextId + 1 /\ UNCHANGED <<now, batch, pc, runs>>
        /\ \E ms \in Nat \ {0}, r \in Int :
              /\ info'[nextId].ms = ms /\ info'[nextId].start = now
              /\ timers' = Insert(timers, NewNode(nextId, now + ms, r, ms))
    BY <1>0, <1>3, Scheduling
  <2>2. PICK ms \in Nat \ {0}, r \in Int :
              /\ info'[i].ms = ms /\ info'[i].start = now
              /\ timers' = Insert(timers, NewNode(i, now + ms, r, ms))
    BY <1>3, <2>1
  <2>3. runs[i] = 0
    BY <1>0, <1>1, <1>3 DEF Issued
  <2>4. PICK k : k = info'[i].key
    OBVIOUS
  <2>5. PICK start : start = now
    OBVIOUS
  <2>6. PacedBy(i, k, ms, now)'
    BY <1>0, <1>3, <2>1, <2>2, <2>3, ScheduledPaced
  <2>7. PacedBy(i, k, ms, start)'
    BY <2>1, <2>5, <2>6 DEF PacedBy
  <2>8. start = info'[i].start /\ start <= now' /\ ms = info'[i].ms /\ ms > 0
    BY <1>1, <2>1, <2>2, <2>5
  <2> QED
    BY <2>4, <2>7, <2>8
<1>4. nextId' \in {nextId, nextId + 1}
  BY <1>0, Scheduling
<1>5. ASSUME NEW i \in Id, i < nextId' PROVE Fine(i)
  <2>1. i < nextId \/ (i = nextId /\ nextId' # nextId)
    BY <1>1, <1>4, <1>5, BoundAssumption DEF Id
  <2> QED
    BY <1>2, <1>3, <2>1
<1>6. Paced'
  <2>1. ASSUME NEW i \in Id, NEW k, NEW ms, NEW start, i < nextId',
               k = info'[i].key, ms = info'[i].ms, start = info'[i].start
        PROVE  PacedBy(i, k, ms, start)'
    BY <1>5, <2>1
  <2> QED
    BY <2>1 DEF Paced
<1>7. Timed'
  <2>1. ASSUME NEW i \in Id PROVE info'[i].ms > 0 /\ info'[i].start <= now'
    <3>1. CASE i < nextId'
      BY <1>5, <3>1
    <3>2. CASE ~(i < nextId')
      <4>1. i >= nextId' /\ i \in Int /\ nextId' \in Int
        BY <1>1, <1>4, <3>2, BoundAssumption DEF Id
      <4>2. info'[i].ms = info[i].ms /\ info'[i].start = info[i].start
        BY <1>1, <4>1 DEF InfoGrows
      <4>3. info[i].ms > 0 /\ info[i].start <= now /\ info[i].start \in Int
        BY <1>0 DEF Timed, TypeOK, Info
      <4> QED
        BY <1>1, <4>2, <4>3
    <3> QED
      BY <3>1, <3>2
  <2> QED
    BY <2>1 DEF Timed
<1> QED
  BY <1>6, <1>7

LEMMA InitPaced == Init => Timed /\ Paced
<1>1. Init => \A i \in Id : ~ (i < nextId)
  BY BoundAssumption DEF Init, Id
<1>2. Init => Timed
  BY BoundAssumption DEF Init, Timed, NoInfo
<1> QED
  BY <1>1, <1>2 DEF Paced

LEMMA PacedIsNotEarly ==
    ASSUME IInv, Timed, Paced
    PROVE  NotEarly
<1>0. TypeOK /\ Ordered /\ Nodes /\ Issued
  BY DEF IInv
<1>1. now \in Int /\ nextId \in Int /\ info \in [Id -> Info] /\ runs \in [Id -> Nat]
  BY <1>0, BoundAssumption DEF TypeOK
<1>2. ASSUME NEW i \in Id PROVE runs[i] <= Bound(info[i].key, (now - info[i].start) \div info[i].ms)
  <2>1. info[i] \in Info /\ info[i].ms > 0 /\ info[i].start <= now /\ runs[i] \in Nat
    BY <1>1 DEF Timed
  <2>2. PICK k : k = info[i].key
    OBVIOUS
  <2>3. PICK ms \in Nat \ {0} : ms = info[i].ms
    BY <2>1 DEF Info
  <2>4. PICK start \in Int : start = info[i].start
    BY <2>1 DEF Info
  <2>5. Bound(k, (now - start) \div ms) \in Nat
    <3>1. PICK x \in Nat : x = now - start
      BY <1>1, <2>1, <2>4
    <3>2. x \div ms \in Nat
      BY Division
    <3> QED
      BY <3>1, <3>2, BoundFacts
  <2>6. CASE i < nextId
    <3>1. PacedBy(i, k, ms, start)
      BY <2>2, <2>3, <2>4, <2>6 DEF Paced
    <3>2. PICK h \in Int : h = now
      BY <1>1
    <3>3. now <= h
      BY <3>2
    <3>4. runs[i] + Ahead(i, k, ms, h) <= Bound(k, (h - start) \div ms)
      BY <3>1, <3>3 DEF PacedBy
    <3>5. Ahead(i, k, ms, h) \in Nat
      <4>1. Covered(i, ToRun(i, k, ms, h), ToAgain(i, k, ms, h), ToBack(i, k, ms, h))
        BY <1>0, <2>2, <2>3, <3>3, PaceCovered
      <4> QED
        BY <1>0, <4>1, LoadFacts DEF Ahead
    <3> QED
      BY <2>1, <2>2, <2>3, <2>4, <2>5, <3>2, <3>4, <3>5
  <2>7. CASE ~(i < nextId)
    <3>1. runs[i] = 0
      <4>1. i >= nextId
        BY <1>1, <2>7, BoundAssumption DEF Id
      <4> QED
        BY <1>0, <4>1 DEF Issued
    <3> QED
      BY <2>2, <2>3, <2>4, <2>5, <3>1
  <2> QED
    BY <2>6, <2>7
<1> QED
  BY <1>2 DEF NotEarly, Bound

(* For any callers, keys, timings and limit of a round: a timer without a    *)
(* key runs at most once a period, and one with a key, whose every execution *)
(* leaves two nodes for the next (maptimer.cpp:314), at most 2^n - 1 times   *)
(* in n periods.                                                             *)
THEOREM NobodyIsEarly == Spec => []NotEarly
<1>1. Init => IInv /\ Timed /\ Paced
  BY InitIInv, InitPaced
<1>2. IInv /\ Timed /\ Paced /\ [Next]_vars => IInv' /\ Timed' /\ Paced'
  BY StepIInv, PacedStep
<1>3. IInv /\ Timed /\ Paced => NotEarly
  BY PacedIsNotEarly
<1> QED
  BY <1>1, <1>2, <1>3, PTL DEF Spec
=============================================================================
