-------------------------- MODULE HeapTimerProofs ---------------------------
(***************************************************************************)
(* Proofs about HeapTimer for any number of timers, keys, timeouts and      *)
(* repetitions: the heap and its index stay sound, the manager's tables     *)
(* stay in step with them, and the manager implements TimerService.         *)
(*                                                                          *)
(* siftUp and siftDown are loops on a heap of any height.  What they do is  *)
(* proved from the least natural of a set, in place of an induction: a      *)
(* loop whose measure falls has a value everywhere (LoopExists), and keeps  *)
(* what each of its steps keeps (LoopKeeps).                                *)
(***************************************************************************)
EXTENDS HeapTimer, SequenceTheorems, FiniteSetTheorems, WellFoundedInduction, TLAPS

-----------------------------------------------------------------------------
(* Loops *)

(* A set of naturals that is not empty has a least element. *)
LEMMA LeastNatural ==
    ASSUME NEW S, S \subseteq Nat, S # {}
    PROVE  \E n \in S : \A k \in S : n <= k
<1>1. PICK n \in S : \A k \in S : ~ (<<k, n>> \in OpToRel(<, Nat))
  BY WFMin, NatLessThanWellFounded
<1>2. \A k \in S : ~ (k < n)
  BY <1>1 DEF OpToRel
<1> QED
  BY <1>2

(* A loop on T: it ends in stop and goes to step[x] from any other x. *)
Body(T, stop, step, g) == [x \in T |-> IF x \in stop THEN x ELSE g[step[x]]]

IsLoop(T, stop, step, m) ==
    \A x \in T : m[x] \in Nat /\ (x \notin stop => step[x] \in T /\ m[step[x]] < m[x])

(* Functions that are the loop as far as the measure m is below n. *)
Upto(T, stop, step, m, n) ==
    {g \in [T -> T] : \A x \in T : m[x] < n => g[x] = IF x \in stop THEN x ELSE g[step[x]]}

LEMMA UptoExists ==
    ASSUME NEW T, NEW stop, NEW step, NEW m, IsLoop(T, stop, step, m), NEW n \in Nat
    PROVE  Upto(T, stop, step, m, n) # {}
<1> DEFINE U(k) == Upto(T, stop, step, m, k)
           Bad == {k \in Nat : U(k) = {}}
<1>1. U(0) # {}
  <2>1. [x \in T |-> x] \in U(0)
    BY DEF Upto, IsLoop
  <2> QED
    BY <2>1
<1>2. ASSUME NEW k \in Nat, U(k) # {}
      PROVE  U(k + 1) # {}
  <2>1. PICK g \in U(k) : TRUE
    BY <1>2
  <2>2. g \in [T -> T] /\ \A x \in T : m[x] < k => g[x] = IF x \in stop THEN x ELSE g[step[x]]
    BY <2>1 DEF Upto
  <2> DEFINE h == [x \in T |-> IF x \in stop THEN x ELSE g[step[x]]]
  <2>3. h \in [T -> T]
    BY <2>2 DEF IsLoop
  <2>4. ASSUME NEW x \in T, m[x] < k + 1, x \notin stop
        PROVE  h[x] = h[step[x]]
    <3>1. step[x] \in T /\ m[step[x]] < k
      BY <2>4 DEF IsLoop
    <3>2. h[x] = g[step[x]]
      BY <2>4
    <3> QED
      BY <2>2, <3>1, <3>2
  <2>5. h \in U(k + 1)
    BY <2>3, <2>4 DEF Upto
  <2> QED
    BY <2>5
<1>3. CASE Bad = {}
  BY <1>3
<1>4. CASE Bad # {}
  <2> HIDE DEF U
  <2>1. PICK k \in Bad : \A j \in Bad : k <= j
    BY <1>4, LeastNatural
  <2>2. k # 0
    BY <1>1, <2>1
  <2>3. k - 1 \in Nat /\ U(k - 1) # {}
    BY <2>1, <2>2
  <2>4. U(k - 1 + 1) # {}
    BY <1>2, <2>3
  <2> QED
    BY <2>1, <2>4
<1> QED
  BY <1>3, <1>4

LEMMA UptoUnique ==
    ASSUME NEW T, NEW stop, NEW step, NEW m, IsLoop(T, stop, step, m), NEW n \in Nat,
           NEW g \in Upto(T, stop, step, m, n), NEW h \in Upto(T, stop, step, m, n),
           NEW y \in T, m[y] < n
    PROVE  g[y] = h[y]
<1> DEFINE Bad == {k \in Nat : \E x \in T : m[x] = k /\ k < n /\ g[x] # h[x]}
<1>1. CASE Bad = {}
  BY <1>1 DEF IsLoop
<1>2. CASE Bad # {}
  <2>1. PICK k \in Bad : \A j \in Bad : k <= j
    BY <1>2, LeastNatural
  <2>2. PICK x \in T : m[x] = k /\ k < n /\ g[x] # h[x]
    BY <2>1
  <2>3. x \notin stop
    BY <2>2 DEF Upto
  <2>4. step[x] \in T /\ m[step[x]] < k /\ m[step[x]] \in Nat
    BY <2>2, <2>3 DEF IsLoop
  <2>5. g[step[x]] = h[step[x]]
    BY <2>1, <2>2, <2>4
  <2> QED
    BY <2>2, <2>3, <2>5 DEF Upto
<1> QED
  BY <1>1, <1>2

(* A loop whose measure falls is a function. *)
LEMMA LoopExists ==
    ASSUME NEW T, NEW stop, NEW step, NEW m, IsLoop(T, stop, step, m)
    PROVE  \E f : f = Body(T, stop, step, f)
<1> DEFINE g(x) == CHOOSE h \in Upto(T, stop, step, m, m[x] + 1) : TRUE
           f == [x \in T |-> g(x)[x]]
<1>1. \A x \in T : m[x] \in Nat /\ m[x] + 1 \in Nat
  BY DEF IsLoop
<1>2. \A x \in T : g(x) \in Upto(T, stop, step, m, m[x] + 1)
  BY <1>1, UptoExists
<1> HIDE DEF g
<1>3. ASSUME NEW x \in T
      PROVE  f[x] = IF x \in stop THEN x ELSE f[step[x]]
  <2>1. g(x)[x] = IF x \in stop THEN x ELSE g(x)[step[x]]
    BY <1>1, <1>2 DEF Upto
  <2>2. CASE x \in stop
    BY <2>1, <2>2
  <2>3. CASE x \notin stop
    <3>1. step[x] \in T /\ m[step[x]] < m[x]
      BY <2>3 DEF IsLoop
    <3>2. g(x) \in Upto(T, stop, step, m, m[step[x]] + 1)
      BY <1>1, <1>2, <3>1 DEF Upto
    <3>3. g(x)[step[x]] = g(step[x])[step[x]]
      BY <1>1, <1>2, <3>1, <3>2, UptoUnique
    <3> QED
      BY <2>1, <2>3, <3>1, <3>3
  <2> QED
    BY <2>2, <2>3
<1>4. f = Body(T, stop, step, f)
  BY <1>3 DEF Body
<1> QED
  BY <1>4

(* What a loop keeps, it ends with. *)
LEMMA LoopKeeps ==
    ASSUME NEW T, NEW stop, NEW step, NEW m, IsLoop(T, stop, step, m),
           NEW f, f = Body(T, stop, step, f),
           NEW I, I \subseteq T, \A x \in I : x \notin stop => step[x] \in I,
           NEW y \in I
    PROVE  f[y] \in I /\ f[y] \in stop
<1> DEFINE Bad == {k \in Nat : \E x \in I : m[x] = k /\ ~ (f[x] \in I /\ f[x] \in stop)}
<1>1. CASE Bad = {}
  BY <1>1 DEF IsLoop
<1>2. CASE Bad # {}
  <2>1. PICK k \in Bad : \A j \in Bad : k <= j
    BY <1>2, LeastNatural
  <2>2. PICK x \in I : m[x] = k /\ ~ (f[x] \in I /\ f[x] \in stop)
    BY <2>1
  <2>3. f[x] = IF x \in stop THEN x ELSE f[step[x]]
    BY <2>2 DEF Body
  <2>4. x \notin stop
    BY <2>2, <2>3
  <2>5. step[x] \in I /\ m[step[x]] < k /\ m[step[x]] \in Nat
    BY <2>2, <2>4 DEF IsLoop
  <2>6. f[step[x]] \in I /\ f[step[x]] \in stop
    BY <2>1, <2>5
  <2> QED
    BY <2>2, <2>3, <2>4, <2>6
<1> QED
  BY <1>1, <1>2

-----------------------------------------------------------------------------
(* The heap and its index *)

TimerType == [heap : Seq(TimerNode), ref : [Id -> Nat]]

(* The ids that _ref has an entry for. *)
Placed(t) == {x \in Id : t.ref[x] # 0}

(* What swapNode does. *)
Swapped(t, u, i, j) ==
    /\ u \in TimerType /\ Len(u.heap) = Len(t.heap)
    /\ \A k \in 1..Len(t.heap) :
         u.heap[k] = IF k = j THEN t.heap[i] ELSE IF k = i THEN t.heap[j] ELSE t.heap[k]
    /\ \A x \in Id :
         u.ref[x] = IF x = t.heap[i].id THEN j ELSE IF x = t.heap[j].id THEN i ELSE t.ref[x]

LEMMA SwapNode ==
    ASSUME NEW t \in TimerType, NEW i \in 1..Len(t.heap), NEW j \in 1..Len(t.heap)
    PROVE  Swapped(t, swapNode(t, i, j), i, j)
<1> DEFINE h == [t.heap EXCEPT ![i] = t.heap[j], ![j] = t.heap[i]]
           r == [t.ref EXCEPT ![h[i].id] = i, ![h[j].id] = j]
           n == Len(t.heap)
<1>1. t.heap \in Seq(TimerNode) /\ t.ref \in [Id -> Nat] /\ n \in Nat
  BY DEF TimerType
<1>2. t.heap \in [1..n -> TimerNode]
  BY <1>1
<1>3. h \in [1..n -> TimerNode]
  BY <1>2
<1>4. h \in Seq(TimerNode) /\ Len(h) = n
  BY <1>1, <1>3
<1>5. \A k \in 1..n : h[k] = IF k = j THEN t.heap[i] ELSE IF k = i THEN t.heap[j] ELSE t.heap[k]
  BY <1>2
<1>6. i \in Nat /\ j \in Nat
  BY <1>1
<1>7. h[j] = t.heap[i] /\ (h[i] = t.heap[j])
  BY <1>5
<1>8. h[i].id \in Id /\ h[j].id \in Id
  BY <1>3 DEF TimerNode
<1>9. r \in [Id -> Nat]
  BY <1>1, <1>6
<1>10. \A x \in Id : r[x] = IF x = t.heap[i].id THEN j ELSE IF x = t.heap[j].id THEN i ELSE t.ref[x]
  BY <1>1, <1>7, <1>8
<1>11. swapNode(t, i, j) = [heap |-> h, ref |-> r]
  BY DEF swapNode
<1> HIDE DEF h, r
<1>12. [heap |-> h, ref |-> r] \in TimerType
  BY <1>4, <1>9 DEF TimerType
<1> QED
  BY <1>4, <1>5, <1>10, <1>11, <1>12 DEF Swapped

LEMMA SiftingType ==
    ASSUME NEW s
    PROVE  s \in Sifting <=> /\ s \in [timer : TimerType, i : Nat \ {0}, n : Nat]
                             /\ s.i <= Len(s.timer.heap) /\ s.n <= Len(s.timer.heap)
  BY DEF Sifting, TimerType

LEMMA ExchangedType ==
    ASSUME NEW s \in Sifting, NEW j \in 1..Len(s.timer.heap)
    PROVE  /\ Exchanged(s, j) \in Sifting
           /\ Exchanged(s, j).i = j /\ Exchanged(s, j).n = s.n
           /\ Exchanged(s, j).timer = swapNode(s.timer, s.i, j)
<1>1. /\ s \in [timer : TimerType, i : Nat \ {0}, n : Nat]
      /\ s.i <= Len(s.timer.heap) /\ s.n <= Len(s.timer.heap)
  BY SiftingType
<1>2. s.timer \in TimerType /\ s.i \in Nat \ {0} /\ s.n \in Nat
  BY <1>1
<1>3. Len(s.timer.heap) \in Nat
  BY <1>2 DEF TimerType
<1>4. s.i \in 1..Len(s.timer.heap)
  BY <1>1, <1>2, <1>3
<1> DEFINE u == swapNode(s.timer, s.i, j)
<1>5. u \in TimerType /\ Len(u.heap) = Len(s.timer.heap)
  BY <1>1, <1>2, <1>4, SwapNode DEF Swapped
<1> HIDE DEF u
<1>6. Exchanged(s, j) = [timer |-> u, i |-> j, n |-> s.n]
  BY <1>1 DEF Exchanged, u
<1>7. j \in Nat \ {0} /\ j <= Len(u.heap)
  BY <1>3, <1>5
<1>8. [timer |-> u, i |-> j, n |-> s.n] \in Sifting
  BY <1>1, <1>2, <1>5, <1>7, SiftingType
<1> QED
  BY <1>6, <1>8 DEF u

-----------------------------------------------------------------------------
(* siftUp and siftDown as loops *)

UpStop   == {s \in Sifting : s.i = 1 \/ Less(s.timer.heap[s.i \div 2], s.timer.heap[s.i])}
UpStep   == [s \in Sifting |-> Exchanged(s, s.i \div 2)]
UpLeft   == [s \in Sifting |-> s.i]

DownStop == {s \in Sifting : 2 * s.i > s.n \/ Less(s.timer.heap[s.i], s.timer.heap[Child(s)])}
DownStep == [s \in Sifting |-> Exchanged(s, Child(s))]
DownLeft == [s \in Sifting |-> Len(s.timer.heap) - s.i]

LEMMA Half ==
    \A i \in Nat : /\ i \div 2 \in Nat /\ (2 * (i \div 2) = i \/ 2 * (i \div 2) + 1 = i)
                   /\ (i > 1 => i \div 2 >= 1 /\ i \div 2 < i)
  OBVIOUS

LEMMA Parent ==
    ASSUME NEW n \in Nat, NEW i \in 1..n, i > 1
    PROVE  /\ i \div 2 \in 1..n /\ i \div 2 < i /\ i \div 2 \in Nat
           /\ (i = 2 * (i \div 2) \/ i = 2 * (i \div 2) + 1)
<1> DEFINE p == i \div 2
<1>1. i \in Nat
  OBVIOUS
<1>2. p \in Nat /\ (2 * p = i \/ 2 * p + 1 = i) /\ p >= 1 /\ p < i
  BY <1>1, Half
<1> HIDE DEF p
<1>3. p \in 1..n
  BY <1>2
<1> QED
  BY <1>2, <1>3 DEF p

LEMMA SiftingParts ==
    ASSUME NEW s \in Sifting
    PROVE  /\ s.timer \in TimerType /\ s.timer.heap \in Seq(TimerNode)
           /\ s.i \in 1..Len(s.timer.heap) /\ s.n \in 0..Len(s.timer.heap)
           /\ s.i \in Nat /\ s.n \in Nat /\ Len(s.timer.heap) \in Nat
<1>1. /\ s \in [timer : TimerType, i : Nat \ {0}, n : Nat]
      /\ s.i <= Len(s.timer.heap) /\ s.n <= Len(s.timer.heap)
  BY SiftingType
<1>2. s.timer \in TimerType /\ s.i \in Nat \ {0} /\ s.n \in Nat
  BY <1>1
<1>3. s.timer.heap \in Seq(TimerNode)
  BY <1>2 DEF TimerType
<1>4. Len(s.timer.heap) \in Nat
  BY <1>3
<1> QED
  BY <1>1, <1>2, <1>3, <1>4

LEMMA ChildPlace ==
    ASSUME NEW s \in Sifting, ~ (2 * s.i > s.n)
    PROVE  /\ Child(s) \in 1..s.n /\ Child(s) \in 1..Len(s.timer.heap)
           /\ Child(s) > s.i /\ (Child(s) = 2 * s.i \/ Child(s) = 2 * s.i + 1)
  BY SiftingParts DEF Child

LEMMA UpIsLoop == IsLoop(Sifting, UpStop, UpStep, UpLeft)
<1> SUFFICES ASSUME NEW s \in Sifting
             PROVE  /\ UpLeft[s] \in Nat
                    /\ s \notin UpStop => UpStep[s] \in Sifting /\ UpLeft[UpStep[s]] < UpLeft[s]
  BY DEF IsLoop
<1>1. s.i \in 1..Len(s.timer.heap) /\ s.i \in Nat /\ Len(s.timer.heap) \in Nat
  BY SiftingParts
<1>2. UpLeft[s] = s.i /\ UpStep[s] = Exchanged(s, s.i \div 2)
  BY DEF UpLeft, UpStep
<1>3. CASE s \in UpStop
  BY <1>1, <1>2, <1>3
<1>4. CASE s \notin UpStop
  <2>1. s.i > 1
    BY <1>1, <1>4 DEF UpStop
  <2>2. s.i \div 2 \in 1..Len(s.timer.heap) /\ s.i \div 2 < s.i
    BY <1>1, <2>1, Half
  <2>3. UpStep[s] \in Sifting /\ UpStep[s].i = s.i \div 2
    BY <1>2, <2>2, ExchangedType
  <2>4. UpLeft[UpStep[s]] = s.i \div 2
    BY <2>3 DEF UpLeft
  <2> QED
    BY <1>1, <1>2, <2>2, <2>3, <2>4
<1> QED
  BY <1>3, <1>4

LEMMA DownIsLoop == IsLoop(Sifting, DownStop, DownStep, DownLeft)
<1> SUFFICES ASSUME NEW s \in Sifting
             PROVE  /\ DownLeft[s] \in Nat
                    /\ s \notin DownStop => DownStep[s] \in Sifting /\ DownLeft[DownStep[s]] < DownLeft[s]
  BY DEF IsLoop
<1>1. s.i \in 1..Len(s.timer.heap) /\ s.i \in Nat /\ Len(s.timer.heap) \in Nat
  BY SiftingParts
<1>2. DownLeft[s] = Len(s.timer.heap) - s.i /\ DownStep[s] = Exchanged(s, Child(s))
  BY DEF DownLeft, DownStep
<1>3. CASE s \in DownStop
  BY <1>1, <1>2, <1>3
<1>4. CASE s \notin DownStop
  <2>1. ~ (2 * s.i > s.n)
    BY <1>4 DEF DownStop
  <2>2. Child(s) \in 1..Len(s.timer.heap) /\ Child(s) > s.i
    BY <2>1, ChildPlace
  <2>3. DownStep[s] \in Sifting /\ DownStep[s].i = Child(s)
    BY <1>2, <2>2, ExchangedType
  <2>4. Len(DownStep[s].timer.heap) = Len(s.timer.heap)
    <3>1. s.timer \in TimerType /\ DownStep[s].timer = swapNode(s.timer, s.i, Child(s))
      BY <1>2, <2>2, SiftingParts, ExchangedType
    <3>2. Swapped(s.timer, DownStep[s].timer, s.i, Child(s))
      BY <1>1, <2>2, <3>1, SwapNode
    <3> QED
      BY <3>2 DEF Swapped
  <2>5. DownLeft[DownStep[s]] = Len(s.timer.heap) - Child(s)
    BY <2>3, <2>4 DEF DownLeft
  <2> QED
    BY <1>1, <1>2, <2>2, <2>3, <2>5
<1> QED
  BY <1>3, <1>4

LEMMA siftUpIsLoop == siftUp = Body(Sifting, UpStop, UpStep, siftUp)
<1>1. PICK f : f = Body(Sifting, UpStop, UpStep, f)
  BY UpIsLoop, LoopExists
<1>2. \A g : Body(Sifting, UpStop, UpStep, g)
               = [s \in Sifting |->
                    IF s.i = 1 \/ Less(s.timer.heap[s.i \div 2], s.timer.heap[s.i]) THEN s
                    ELSE g[Exchanged(s, s.i \div 2)]]
  BY DEF Body, UpStop, UpStep
<1> QED
  BY <1>1, <1>2 DEF siftUp

LEMMA siftDownIsLoop == siftDown = Body(Sifting, DownStop, DownStep, siftDown)
<1>1. PICK f : f = Body(Sifting, DownStop, DownStep, f)
  BY DownIsLoop, LoopExists
<1>2. \A g : Body(Sifting, DownStop, DownStep, g)
               = [s \in Sifting |->
                    IF 2 * s.i > s.n \/ Less(s.timer.heap[s.i], s.timer.heap[Child(s)]) THEN s
                    ELSE g[Exchanged(s, Child(s))]]
  BY DEF Body, DownStop, DownStep
<1> QED
  BY <1>1, <1>2 DEF siftDown

-----------------------------------------------------------------------------
(* The order of the heap *)

E(t, k) == t.heap[k].expires

(* The first n nodes are a heap, ... *)
Sorted(t, n) == \A j \in 2..n : E(t, j \div 2) <= E(t, j)

(* ... but for the node of place i, its parent being before its children. *)
Bridged(t, i, n) == i > 1 => \A j \in 2..n : j \div 2 = i => E(t, i \div 2) <= E(t, j)
SortedBut(t, i, n) ==
    Bridged(t, i, n) /\ \A j \in 2..n : j # i /\ j \div 2 # i => E(t, j \div 2) <= E(t, j)
SortedButUp(t, i, n) ==
    Bridged(t, i, n) /\ \A j \in 2..n : j # i => E(t, j \div 2) <= E(t, j)
SortedButDown(t, i, n) ==
    Bridged(t, i, n) /\ \A j \in 2..n : j \div 2 # i => E(t, j \div 2) <= E(t, j)

LEMMA Expires ==
    ASSUME NEW t \in TimerType, NEW k \in 1..Len(t.heap) PROVE E(t, k) \in Nat /\ t.heap[k] \in TimerNode
<1>1. t.heap \in Seq(TimerNode)
  BY DEF TimerType
<1>2. t.heap[k] \in TimerNode
  BY <1>1
<1> QED
  BY <1>2 DEF E, TimerNode

LEMMA SwapExpires ==
    ASSUME NEW t \in TimerType, NEW i \in 1..Len(t.heap), NEW j \in 1..Len(t.heap),
           NEW u, u = swapNode(t, i, j)
    PROVE  \A k \in 1..Len(t.heap) : E(u, k) = IF k = j THEN E(t, i) ELSE IF k = i THEN E(t, j) ELSE E(t, k)
<1>1. Swapped(t, u, i, j)
  BY SwapNode
<1> QED
  BY <1>1 DEF Swapped, E

LEMMA UpStepSorted ==
    ASSUME NEW s \in Sifting, s \notin UpStop, SortedButUp(s.timer, s.i, s.n)
    PROVE  SortedButUp(UpStep[s].timer, UpStep[s].i, UpStep[s].n)
<1> DEFINE t == s.timer
           i == s.i
           n == s.n
           p == i \div 2
           u == swapNode(t, i, p)
<1>1. /\ t \in TimerType /\ i \in 1..Len(t.heap) /\ n \in 0..Len(t.heap)
      /\ i \in Nat /\ n \in Nat /\ Len(t.heap) \in Nat
  BY SiftingParts
<1>2. i > 1 /\ ~ Less(t.heap[p], t.heap[i])
  BY <1>1 DEF UpStop
<1>3. p \in 1..Len(t.heap) /\ p < i /\ (i = 2 * p \/ i = 2 * p + 1) /\ p \in Nat
  BY <1>1, <1>2, Parent
<1>4. \A k \in 1..Len(t.heap) : E(t, k) \in Nat
  BY <1>1, Expires
<1>5. E(t, i) <= E(t, p)
  <2>1. ~ (E(t, p) < E(t, i))
    BY <1>2 DEF Less, E
  <2>2. E(t, i) \in Nat /\ E(t, p) \in Nat
    BY <1>1, <1>3, <1>4
  <2> HIDE DEF p, t, i
  <2> QED
    BY <2>1, <2>2
<1>6. UpStep[s].timer = u /\ UpStep[s].i = p /\ UpStep[s].n = n
  BY <1>3, ExchangedType DEF UpStep
<1>7. \A k \in 1..Len(t.heap) : E(u, k) = IF k = p THEN E(t, i) ELSE IF k = i THEN E(t, p) ELSE E(t, k)
  <2> HIDE DEF p, t, i
  <2> QED
    BY <1>1, <1>3, SwapExpires
<1>8. \A j \in 2..n : j # i => E(t, j \div 2) <= E(t, j)
  BY DEF SortedButUp
<1>9. \A j \in 2..n : j \div 2 = i => E(t, p) <= E(t, j)
  BY <1>2 DEF SortedButUp, Bridged
<1> HIDE DEF t, i, n, p, u
<1>10. \A j \in 2..n : /\ j \in Nat /\ j \div 2 \in 1..Len(t.heap) /\ j \in 1..Len(t.heap) /\ j \div 2 < j
                       /\ (2 * (j \div 2) = j \/ 2 * (j \div 2) + 1 = j)
  BY <1>1, Half
<1>11. ASSUME NEW j \in 2..n, j # p
       PROVE  E(u, j \div 2) <= E(u, j)
  <2>1. /\ j \div 2 \in 1..Len(t.heap) /\ j \in 1..Len(t.heap) /\ j \div 2 < j /\ j \in Nat
        /\ (2 * (j \div 2) = j \/ 2 * (j \div 2) + 1 = j)
    BY <1>10
  <2>2. CASE j = i
    <3>1. j \div 2 = p
      BY <2>2 DEF p
    <3>2. E(u, p) = E(t, i) /\ E(u, i) = E(t, p)
      BY <1>1, <1>3, <1>7
    <3> QED
      BY <1>5, <2>2, <3>1, <3>2
  <2>3. CASE j # i /\ j \div 2 = i
    <3>1. E(u, j) = E(t, j) /\ E(u, i) = E(t, p)
      BY <1>1, <1>3, <1>7, <1>11, <2>1, <2>3
    <3> QED
      BY <1>9, <2>3, <3>1
  <2>4. CASE j # i /\ j \div 2 = p
    <3>1. E(u, j) = E(t, j) /\ E(u, p) = E(t, i)
      BY <1>3, <1>7, <1>11, <2>1, <2>4
    <3>2. E(t, p) <= E(t, j)
      BY <1>8, <2>4
    <3>3. E(t, p) \in Nat /\ E(t, i) \in Nat /\ E(t, j) \in Nat
      BY <1>1, <1>3, <1>4, <2>1
    <3>4. E(t, i) <= E(t, j)
      BY <1>5, <3>2, <3>3
    <3> QED
      BY <2>4, <3>1, <3>4
  <2>5. CASE j # i /\ j \div 2 # i /\ j \div 2 # p
    BY <1>7, <1>8, <1>11, <2>1, <2>5
  <2> QED
    BY <2>2, <2>3, <2>4, <2>5
<1>12. ASSUME p > 1, NEW j \in 2..n, j \div 2 = p
       PROVE  E(u, p \div 2) <= E(u, j)
  <2>1. p \div 2 \in 1..Len(t.heap) /\ p \div 2 < p
    BY <1>3, <1>12, <1>1, Half
  <2>2. E(u, p \div 2) = E(t, p \div 2)
    BY <1>3, <1>7, <2>1
  <2>3. j \in 1..Len(t.heap) /\ j # p
    BY <1>10, <1>12
  <2>4. p # i
    BY <1>3
  <2>5. CASE n >= p
    <3>1. E(t, p \div 2) <= E(t, p)
      BY <1>1, <1>3, <1>8, <1>12, <2>4, <2>5
    <3>2. CASE j = i
      <4>1. E(u, j) = E(t, p)
        BY <1>7, <2>3, <3>2
      <4> QED
        BY <2>2, <3>1, <4>1
    <3>3. CASE j # i
      <4>1. E(u, j) = E(t, j)
        BY <1>7, <2>3, <3>3
      <4>2. E(t, p) <= E(t, j)
        BY <1>8, <1>12, <3>3
      <4> QED
        BY <1>3, <1>4, <2>1, <2>2, <2>3, <3>1, <4>1, <4>2
    <3> QED
      BY <3>2, <3>3
  <2> QED
    BY <1>1, <1>3, <1>10, <1>12, <2>5
<1> QED
  BY <1>6, <1>11, <1>12 DEF SortedButUp, Bridged

LEMMA UpEndSorted ==
    ASSUME NEW s \in UpStop, SortedButUp(s.timer, s.i, s.n)
    PROVE  Sorted(s.timer, s.n)
<1>1. s \in Sifting /\ (s.i = 1 \/ Less(s.timer.heap[s.i \div 2], s.timer.heap[s.i]))
  BY DEF UpStop
<1>2. /\ s.timer \in TimerType /\ s.i \in 1..Len(s.timer.heap) /\ s.n \in 0..Len(s.timer.heap)
      /\ s.i \in Nat /\ s.n \in Nat /\ Len(s.timer.heap) \in Nat
  BY <1>1, SiftingParts
<1>3. ASSUME NEW j \in 2..s.n
      PROVE  E(s.timer, j \div 2) <= E(s.timer, j)
  <2>1. CASE j # s.i
    BY <2>1 DEF SortedButUp
  <2>2. CASE j = s.i
    <3>1. s.i \div 2 \in 1..Len(s.timer.heap)
      BY <1>2, <1>3, <2>2, Half
    <3>2. E(s.timer, s.i) \in Nat /\ E(s.timer, s.i \div 2) \in Nat
      BY <1>2, <3>1, Expires
    <3>3. E(s.timer, s.i \div 2) < E(s.timer, s.i)
      BY <1>1, <1>2, <1>3, <2>2 DEF Less, E
    <3> QED
      BY <2>2, <3>2, <3>3
  <2> QED
    BY <2>1, <2>2
<1> QED
  BY <1>3 DEF Sorted

LEMMA DownStepSorted ==
    ASSUME NEW s \in Sifting, s \notin DownStop, SortedBut(s.timer, s.i, s.n)
    PROVE  SortedButDown(DownStep[s].timer, DownStep[s].i, DownStep[s].n)
<1> DEFINE t == s.timer
           i == s.i
           n == s.n
           c == Child(s)
           u == swapNode(t, i, c)
<1>1. /\ t \in TimerType /\ i \in 1..Len(t.heap) /\ n \in 0..Len(t.heap)
      /\ i \in Nat /\ n \in Nat /\ Len(t.heap) \in Nat
  BY SiftingParts
<1>2. ~ (2 * i > n) /\ ~ Less(t.heap[i], t.heap[c])
  BY DEF DownStop
<1>3. c \in 1..n /\ c \in 1..Len(t.heap) /\ c > i /\ (c = 2 * i \/ c = 2 * i + 1) /\ c \in Nat
  BY <1>2, ChildPlace
<1>4. \A k \in 1..Len(t.heap) : E(t, k) \in Nat
  BY <1>1, Expires
<1>5. E(t, c) <= E(t, i)
  <2>1. ~ (E(t, i) < E(t, c))
    BY <1>2 DEF Less, E
  <2>2. E(t, i) \in Nat /\ E(t, c) \in Nat
    BY <1>1, <1>3, <1>4
  <2> HIDE DEF c, t, i
  <2> QED
    BY <2>1, <2>2
<1>6. \A j \in 2..n : (j = 2 * i \/ j = 2 * i + 1) => E(t, c) <= E(t, j)
  <2>1. c = IF 2 * i + 1 <= n /\ E(t, 2 * i + 1) < E(t, 2 * i) THEN 2 * i + 1 ELSE 2 * i
    BY DEF Child, Less, E
  <2> HIDE DEF c, t, i, n
  <2>2. ASSUME NEW j \in 2..n, j = 2 * i \/ j = 2 * i + 1
        PROVE  E(t, c) <= E(t, j)
    <3>1. 2 * i \in 1..Len(t.heap) /\ j \in 1..Len(t.heap)
      BY <1>1, <1>2, <2>2
    <3>2. E(t, 2 * i) \in Nat /\ E(t, j) \in Nat /\ E(t, c) \in Nat
      BY <1>3, <1>4, <3>1
    <3> QED
      BY <1>1, <2>1, <2>2, <3>2
  <2> QED
    BY <2>2
<1>7. DownStep[s].timer = u /\ DownStep[s].i = c /\ DownStep[s].n = n
  BY <1>3, ExchangedType DEF DownStep
<1>8. \A k \in 1..Len(t.heap) : E(u, k) = IF k = c THEN E(t, i) ELSE IF k = i THEN E(t, c) ELSE E(t, k)
  <2> HIDE DEF c, t, i
  <2> QED
    BY <1>1, <1>3, SwapExpires
<1>9. \A j \in 2..n : j # i /\ j \div 2 # i => E(t, j \div 2) <= E(t, j)
  BY DEF SortedBut
<1>10. i > 1 => \A j \in 2..n : j \div 2 = i => E(t, i \div 2) <= E(t, j)
  BY DEF SortedBut, Bridged
<1> HIDE DEF t, i, n, c, u
<1>11. ASSUME NEW j \in 2..n
       PROVE  /\ j \in Nat /\ j \div 2 \in 1..Len(t.heap) /\ j \in 1..Len(t.heap) /\ j \div 2 < j
              /\ j \div 2 \in Nat /\ (j = 2 * (j \div 2) \/ j = 2 * (j \div 2) + 1)
  <2>1. j \in 1..Len(t.heap) /\ j > 1
    BY <1>1
  <2> QED
    BY <1>1, <2>1, Parent
<1>12. c \in 2..n /\ c \div 2 = i
  <2>1. c \in 2..n
    BY <1>1, <1>3
  <2>2. c \div 2 \in Nat /\ (c = 2 * (c \div 2) \/ c = 2 * (c \div 2) + 1)
    BY <1>11, <2>1
  <2> QED
    BY <1>1, <1>3, <2>1, <2>2
<1>13. ASSUME NEW j \in 2..n, j \div 2 # c
       PROVE  E(u, j \div 2) <= E(u, j)
  <2> DEFINE q == j \div 2
  <2>1. /\ q \in 1..Len(t.heap) /\ j \in 1..Len(t.heap) /\ q < j /\ j \in Nat /\ q \in Nat
        /\ (j = 2 * q \/ j = 2 * q + 1) /\ q # c
    BY <1>11, <1>13
  <2>2. j # i /\ q # i => E(t, q) <= E(t, j)
    BY <1>9
  <2>3. i > 1 => E(t, i \div 2) <= E(t, c)
    BY <1>10, <1>12
  <2> HIDE DEF q
  <2>4. CASE j = i
    <3>1. E(u, j) = E(t, c) /\ E(u, q) = E(t, q)
      BY <1>3, <1>8, <2>1, <2>4
    <3> QED
      BY <2>1, <2>3, <2>4, <3>1, <1>13 DEF q
  <2>5. CASE j = c
    <3>1. q = i
      BY <1>12, <2>5 DEF q
    <3>2. E(u, j) = E(t, i) /\ E(u, q) = E(t, c)
      BY <1>1, <1>3, <1>8, <2>1, <2>5, <3>1
    <3> QED
      BY <1>5, <3>2 DEF q
  <2>6. CASE j # c /\ q = i
    <3>1. E(u, j) = E(t, j) /\ E(u, q) = E(t, c)
      BY <1>3, <1>8, <2>1, <2>6
    <3> QED
      BY <1>6, <2>1, <2>6, <3>1 DEF q
  <2>7. CASE j # c /\ j # i /\ q # i
    <3>1. E(u, j) = E(t, j) /\ E(u, q) = E(t, q)
      BY <1>8, <2>1, <2>7
    <3> QED
      BY <2>2, <2>7, <3>1 DEF q
  <2> QED
    BY <2>4, <2>5, <2>6, <2>7
<1>14. ASSUME NEW j \in 2..n, j \div 2 = c
       PROVE  E(u, c \div 2) <= E(u, j)
  <2>1. j \in 1..Len(t.heap) /\ j > c /\ j > i
    BY <1>1, <1>3, <1>11, <1>14
  <2>2. E(u, j) = E(t, j) /\ E(u, i) = E(t, c)
    BY <1>1, <1>3, <1>8, <2>1
  <2>3. j # i /\ j \div 2 # i
    BY <1>1, <1>3, <1>14, <2>1
  <2>4. E(t, c) <= E(t, j)
    BY <1>9, <1>14, <2>3
  <2> QED
    BY <1>12, <2>2, <2>4
<1> QED
  BY <1>7, <1>13, <1>14 DEF SortedButDown, Bridged

LEMMA DownEndSorted ==
    ASSUME NEW s \in DownStop
    PROVE  /\ SortedButDown(s.timer, s.i, s.n) => Sorted(s.timer, s.n)
           /\ SortedBut(s.timer, s.i, s.n) => SortedButUp(s.timer, s.i, s.n)
<1> DEFINE t == s.timer
           i == s.i
           n == s.n
<1>1. s \in Sifting /\ (2 * i > n \/ Less(t.heap[i], t.heap[Child(s)]))
  BY DEF DownStop
<1>2. /\ t \in TimerType /\ i \in 1..Len(t.heap) /\ n \in 0..Len(t.heap)
      /\ i \in Nat /\ n \in Nat /\ Len(t.heap) \in Nat
  BY <1>1, SiftingParts
<1>3. \A k \in 1..Len(t.heap) : E(t, k) \in Nat
  BY <1>2, Expires
<1>4. ASSUME NEW j \in 2..n, j \div 2 = i
      PROVE  E(t, i) <= E(t, j)
  <2>1. j \in 1..Len(t.heap) /\ j > 1
    BY <1>2
  <2>2. j = 2 * i \/ j = 2 * i + 1
    BY <1>2, <1>4, <2>1, Parent
  <2>3. ~ (2 * i > n)
    BY <1>2, <2>2
  <2> DEFINE c == Child(s)
  <2>4. c = IF 2 * i + 1 <= n /\ E(t, 2 * i + 1) < E(t, 2 * i) THEN 2 * i + 1 ELSE 2 * i
    BY DEF Child, Less, E
  <2>5. E(t, i) < E(t, c) /\ c \in 1..Len(t.heap)
    BY <1>1, <2>3, ChildPlace DEF Less, E
  <2> HIDE DEF c, t, i, n
  <2>6. 2 * i \in 1..Len(t.heap)
    BY <1>2, <2>3
  <2>7. E(t, i) \in Nat /\ E(t, c) \in Nat /\ E(t, j) \in Nat /\ E(t, 2 * i) \in Nat
    BY <1>2, <1>3, <2>1, <2>5, <2>6
  <2> QED
    BY <2>2, <2>4, <2>5, <2>7
<1> QED
  BY <1>4 DEF SortedButDown, SortedBut, SortedButUp, Sorted

-----------------------------------------------------------------------------
(* What the loops do *)

(* _ref tells where each node is, and knows no other. *)
Located(t) ==
    /\ \A k \in 1..Len(t.heap) : t.heap[k].id \in Placed(t) /\ t.ref[t.heap[k].id] = k
    /\ \A x \in Placed(t) : t.ref[x] \in 1..Len(t.heap) /\ t.heap[t.ref[x]].id = x

Nodes(t) == {t.heap[k] : k \in 1..Len(t.heap)}

(* u has the nodes of t, those after place n where they were. *)
Rearranged(t, u, n) ==
    /\ u \in TimerType /\ Located(u)
    /\ Len(u.heap) = Len(t.heap) /\ Placed(u) = Placed(t) /\ Nodes(u) = Nodes(t)
    /\ \A k \in 1..Len(t.heap) : k > n => u.heap[k] = t.heap[k]

LEMMA InNodes ==
    ASSUME NEW t, NEW x PROVE x \in Nodes(t) <=> \E k \in 1..Len(t.heap) : x = t.heap[k]
  BY DEF Nodes

LEMMA SwapRearranges ==
    ASSUME NEW t \in TimerType, Located(t), NEW n \in Nat, n <= Len(t.heap),
           NEW i \in 1..n, NEW j \in 1..n
    PROVE  Rearranged(t, swapNode(t, i, j), n)
<1> DEFINE u == swapNode(t, i, j)
<1>1. Len(t.heap) \in Nat
  BY DEF TimerType
<1>2. i \in 1..Len(t.heap) /\ j \in 1..Len(t.heap)
  BY <1>1
<1>a. Swapped(t, u, i, j)
  BY <1>2, SwapNode
<1>0. /\ u \in TimerType /\ Len(u.heap) = Len(t.heap)
      /\ \A k \in 1..Len(t.heap) :
           u.heap[k] = IF k = j THEN t.heap[i] ELSE IF k = i THEN t.heap[j] ELSE t.heap[k]
      /\ \A x \in Id :
           u.ref[x] = IF x = t.heap[i].id THEN j ELSE IF x = t.heap[j].id THEN i ELSE t.ref[x]
  BY <1>a DEF Swapped
<1> HIDE DEF u
<1>3. /\ u \in TimerType /\ Len(u.heap) = Len(t.heap) /\ Placed(u) = Placed(t)
      /\ \A k \in 1..Len(t.heap) :
           u.heap[k] = IF k = j THEN t.heap[i] ELSE IF k = i THEN t.heap[j] ELSE t.heap[k]
      /\ \A x \in Placed(t) :
           u.ref[x] = IF x = t.heap[i].id THEN j ELSE IF x = t.heap[j].id THEN i ELSE t.ref[x]
  <2>1. t.heap[i].id \in Placed(t) /\ t.heap[j].id \in Placed(t)
    BY <1>2 DEF Located
  <2>2. i # 0 /\ j # 0
    OBVIOUS
  <2>3. \A x \in Id : u.ref[x] # 0 <=> t.ref[x] # 0
    BY <1>0, <2>1, <2>2 DEF Placed
  <2>4. Placed(u) = Placed(t)
    BY <2>3 DEF Placed
  <2>5. Placed(t) \subseteq Id
    BY DEF Placed
  <2> QED
    BY <1>0, <2>4, <2>5
<1>4. ASSUME NEW k \in 1..Len(t.heap)
      PROVE  u.heap[k].id \in Placed(t) /\ u.ref[u.heap[k].id] = k
  <2>1. t.ref[t.heap[k].id] = k /\ t.ref[t.heap[i].id] = i /\ t.ref[t.heap[j].id] = j
    BY <1>2 DEF Located
  <2>2. t.heap[k].id \in Placed(t) /\ t.heap[i].id \in Placed(t) /\ t.heap[j].id \in Placed(t)
    BY <1>2 DEF Located
  <2>3. CASE k = j
    BY <1>3, <2>2, <2>3
  <2>4. CASE k = i /\ k # j
    <3>1. u.heap[k] = t.heap[j] /\ t.heap[j].id # t.heap[i].id
      BY <1>3, <2>1, <2>4
    <3> QED
      BY <1>3, <2>2, <2>4, <3>1
  <2>5. CASE k # i /\ k # j
    <3>1. u.heap[k] = t.heap[k] /\ t.heap[k].id # t.heap[i].id /\ t.heap[k].id # t.heap[j].id
      BY <1>3, <2>1, <2>5
    <3> QED
      BY <1>3, <2>1, <2>2, <3>1
  <2> QED
    BY <2>3, <2>4, <2>5
<1>5. ASSUME NEW x \in Placed(t)
      PROVE  u.ref[x] \in 1..Len(t.heap) /\ u.heap[u.ref[x]].id = x
  <2>1. t.ref[x] \in 1..Len(t.heap) /\ t.heap[t.ref[x]].id = x
    BY DEF Located
  <2>2. CASE x = t.heap[i].id
    BY <1>2, <1>3, <2>2
  <2>3. CASE x # t.heap[i].id /\ x = t.heap[j].id
    <3>1. i # j
      BY <2>3
    <3> QED
      BY <1>2, <1>3, <2>3, <3>1
  <2>4. CASE x # t.heap[i].id /\ x # t.heap[j].id
    <3>1. t.ref[x] # i /\ t.ref[x] # j
      BY <2>1, <2>4
    <3> QED
      BY <1>3, <2>1, <2>4, <3>1
  <2> QED
    BY <2>2, <2>3, <2>4
<1>6. Located(u)
  BY <1>3, <1>4, <1>5 DEF Located
<1>7. Nodes(u) = Nodes(t)
  <2>1. \A k \in 1..Len(t.heap) : \E l \in 1..Len(t.heap) : u.heap[k] = t.heap[l]
    BY <1>2, <1>3
  <2>2. \A k \in 1..Len(t.heap) : \E l \in 1..Len(t.heap) : t.heap[k] = u.heap[l]
    BY <1>2, <1>3
  <2>3. ASSUME NEW x \in Nodes(u) PROVE x \in Nodes(t)
    <3>1. PICK k \in 1..Len(u.heap) : x = u.heap[k]
      BY InNodes
    <3>2. PICK l \in 1..Len(t.heap) : u.heap[k] = t.heap[l]
      BY <1>3, <2>1
    <3> QED
      BY <3>1, <3>2, InNodes
  <2>4. ASSUME NEW x \in Nodes(t) PROVE x \in Nodes(u)
    <3>1. PICK k \in 1..Len(t.heap) : x = t.heap[k]
      BY InNodes
    <3>2. PICK l \in 1..Len(u.heap) : t.heap[k] = u.heap[l]
      BY <1>3, <2>2
    <3> QED
      BY <3>1, <3>2, InNodes
  <2> QED
    BY <2>3, <2>4
<1>8. \A k \in 1..Len(t.heap) : k > n => u.heap[k] = t.heap[k]
  BY <1>1, <1>3
<1> QED
  BY <1>3, <1>6, <1>7, <1>8 DEF Rearranged, u

LEMMA RearrangedTwice ==
    ASSUME NEW t, NEW u, NEW v, NEW n, Rearranged(t, u, n), Rearranged(u, v, n)
    PROVE  Rearranged(t, v, n)
  BY DEF Rearranged

LEMMA RearrangedNot ==
    ASSUME NEW t \in TimerType, Located(t), NEW n PROVE Rearranged(t, t, n)
  BY DEF Rearranged

LEMMA SiftIsSifting ==
    ASSUME NEW t \in TimerType, Located(t), NEW n \in Nat, n <= Len(t.heap), NEW i \in 1..n
    PROVE  Sift(t, i, n) \in Sifting /\ Sift(t, i, n).timer = t /\ Sift(t, i, n).i = i /\ Sift(t, i, n).n = n
<1>1. Len(t.heap) \in Nat
  BY DEF TimerType
<1>2. i \in Nat \ {0} /\ i <= Len(t.heap)
  BY <1>1
<1> QED
  BY <1>1, <1>2, SiftingType DEF Sift

LEMMA siftUpSorts ==
    ASSUME NEW t \in TimerType, Located(t), NEW n \in Nat, n <= Len(t.heap), NEW i \in 1..n,
           SortedButUp(t, i, n)
    PROVE  LET u == siftUp[Sift(t, i, n)].timer IN Rearranged(t, u, n) /\ Sorted(u, n)
<1> DEFINE I == {s \in Sifting : /\ Rearranged(t, s.timer, n) /\ s.n = n /\ s.i <= n
                                 /\ SortedButUp(s.timer, s.i, n)}
<1>1. Sift(t, i, n) \in I
  BY SiftIsSifting, RearrangedNot
<1>2. ASSUME NEW s \in I, s \notin UpStop
      PROVE  UpStep[s] \in I
  <2>1. s \in Sifting /\ Rearranged(t, s.timer, n) /\ s.n = n /\ s.i <= n /\ SortedButUp(s.timer, s.i, n)
    OBVIOUS
  <2>2. s.i \in 1..Len(s.timer.heap) /\ s.i \in Nat /\ Len(s.timer.heap) \in Nat
    BY <2>1, SiftingParts
  <2>3. s.i > 1
    BY <1>2, <2>1, <2>2 DEF UpStop
  <2>4. s.i \div 2 \in 1..Len(s.timer.heap) /\ s.i \div 2 < s.i /\ s.i \div 2 \in Nat
    BY <2>2, <2>3, Parent
  <2> DEFINE p == s.i \div 2
  <2>5. /\ UpStep[s] \in Sifting /\ UpStep[s].i = p /\ UpStep[s].n = n
        /\ UpStep[s].timer = swapNode(s.timer, s.i, p)
    BY <2>1, <2>4, ExchangedType DEF UpStep
  <2>6. p \in 1..n /\ s.i \in 1..n /\ p <= n
    <3> HIDE DEF p
    <3>1. p \in 1..Len(s.timer.heap) /\ p < s.i /\ p \in Nat
      BY <2>4 DEF p
    <3> QED
      BY <2>1, <2>2, <3>1
  <2>7. s.timer \in TimerType /\ Located(s.timer) /\ Len(s.timer.heap) = Len(t.heap)
    BY <2>1 DEF Rearranged
  <2>8. Rearranged(s.timer, swapNode(s.timer, s.i, p), n)
    BY <2>6, <2>7, SwapRearranges
  <2>9. Rearranged(t, UpStep[s].timer, n)
    BY <2>1, <2>5, <2>8, RearrangedTwice
  <2>10. SortedButUp(UpStep[s].timer, UpStep[s].i, n)
    BY <1>2, <2>1, <2>5, UpStepSorted
  <2> QED
    BY <2>5, <2>6, <2>9, <2>10
<1>3. siftUp[Sift(t, i, n)] \in I /\ siftUp[Sift(t, i, n)] \in UpStop
  <2> HIDE DEF I
  <2>1. I \subseteq Sifting
    BY DEF I
  <2>2. \A x \in I : x \notin UpStop => UpStep[x] \in I
    BY <1>2
  <2> DEFINE f == siftUp
             y == Sift(t, i, n)
  <2>3. y \in I
    BY <1>1
  <2>4. f = Body(Sifting, UpStop, UpStep, f)
    BY siftUpIsLoop
  <2> HIDE DEF f, y
  <2>5. f[y] \in I /\ f[y] \in UpStop
    BY <2>1, <2>2, <2>3, <2>4, UpIsLoop, LoopKeeps
  <2> QED
    BY <2>5 DEF f, y
<1> QED
  BY <1>3, UpEndSorted

LEMMA siftDownSorts ==
    ASSUME NEW t \in TimerType, Located(t), NEW n \in Nat, n <= Len(t.heap), NEW i \in 1..n,
           SortedBut(t, i, n)
    PROVE  LET d == siftDown[Sift(t, i, n)] IN
           \/ d.i > i /\ Rearranged(t, d.timer, n) /\ Sorted(d.timer, n)
           \/ ~ (d.i > i) /\ SortedButUp(t, i, n)
<1> DEFINE I == {s \in Sifting : /\ Rearranged(t, s.timer, n) /\ s.n = n /\ s.i <= n
                                 /\ \/ s.i > i /\ SortedButDown(s.timer, s.i, n)
                                    \/ s.i = i /\ s.timer = t}
<1>1. Sift(t, i, n) \in I
  BY SiftIsSifting, RearrangedNot
<1>2. ASSUME NEW s \in I, s \notin DownStop
      PROVE  DownStep[s] \in I
  <2>1. /\ s \in Sifting /\ Rearranged(t, s.timer, n) /\ s.n = n /\ s.i <= n
        /\ \/ s.i > i /\ SortedButDown(s.timer, s.i, n)
           \/ s.i = i /\ s.timer = t
    OBVIOUS
  <2>2. s.i \in 1..Len(s.timer.heap) /\ s.i \in Nat /\ Len(s.timer.heap) \in Nat
    BY <2>1, SiftingParts
  <2>3. SortedBut(s.timer, s.i, s.n)
    BY <2>1 DEF SortedButDown, SortedBut
  <2>4. ~ (2 * s.i > s.n)
    BY <1>2, <2>1 DEF DownStop
  <2> DEFINE c == Child(s)
  <2>5. c \in 1..n /\ c \in 1..Len(s.timer.heap) /\ c > s.i
    BY <2>1, <2>4, ChildPlace
  <2>6. /\ DownStep[s] \in Sifting /\ DownStep[s].i = c /\ DownStep[s].n = n
        /\ DownStep[s].timer = swapNode(s.timer, s.i, c)
    BY <2>1, <2>5, ExchangedType DEF DownStep
  <2> HIDE DEF c
  <2>7. s.timer \in TimerType /\ Located(s.timer) /\ Len(s.timer.heap) = Len(t.heap) /\ s.i \in 1..n
    BY <2>1, <2>2 DEF Rearranged
  <2>8. Rearranged(s.timer, swapNode(s.timer, s.i, c), n)
    BY <2>5, <2>7, SwapRearranges
  <2>9. Rearranged(t, DownStep[s].timer, n)
    BY <2>1, <2>6, <2>8, RearrangedTwice
  <2>10. SortedButDown(DownStep[s].timer, DownStep[s].i, n)
    BY <1>2, <2>1, <2>3, <2>6, DownStepSorted
  <2>11. c > i /\ c <= n
    BY <2>1, <2>2, <2>5
  <2> QED
    BY <2>6, <2>9, <2>10, <2>11
<1>3. siftDown[Sift(t, i, n)] \in I /\ siftDown[Sift(t, i, n)] \in DownStop
  <2> HIDE DEF I
  <2>1. I \subseteq Sifting
    BY DEF I
  <2>2. \A x \in I : x \notin DownStop => DownStep[x] \in I
    BY <1>2
  <2> DEFINE f == siftDown
             y == Sift(t, i, n)
  <2>3. y \in I
    BY <1>1
  <2>4. f = Body(Sifting, DownStop, DownStep, f)
    BY siftDownIsLoop
  <2> HIDE DEF f, y
  <2>5. f[y] \in I /\ f[y] \in DownStop
    BY <2>1, <2>2, <2>3, <2>4, DownIsLoop, LoopKeeps
  <2> QED
    BY <2>5 DEF f, y
<1> DEFINE d == siftDown[Sift(t, i, n)]
<1>4. CASE d.i > i /\ SortedButDown(d.timer, d.i, n)
  BY <1>3, <1>4, DownEndSorted
<1>5. CASE d.i = i /\ d.timer = t
  BY <1>3, <1>5, DownEndSorted
<1> QED
  BY <1>3, <1>4, <1>5

LEMMA settleSorts ==
    ASSUME NEW t \in TimerType, Located(t), NEW n \in Nat, n <= Len(t.heap), NEW i \in 1..n,
           SortedBut(t, i, n)
    PROVE  Rearranged(t, settle(t, i, n), n) /\ Sorted(settle(t, i, n), n)
  BY siftDownSorts, siftUpSorts DEF settle

-----------------------------------------------------------------------------
(* push, Add and del *)

TimerSound(t) == t \in TimerType /\ Located(t) /\ Sorted(t, Len(t.heap))

(* The front of the heap is due first. *)
LEMMA FrontIsFirst ==
    ASSUME NEW t, TimerSound(t), NEW n \in Nodes(t)
    PROVE  1 \in 1..Len(t.heap) /\ t.heap[1].expires <= n.expires
<1> DEFINE Bad == {k \in 1..Len(t.heap) : ~ (E(t, 1) <= E(t, k))}
<1>1. t \in TimerType /\ Sorted(t, Len(t.heap)) /\ Len(t.heap) \in Nat
  BY DEF TimerSound, TimerType
<1>2. PICK l \in 1..Len(t.heap) : n = t.heap[l]
  BY InNodes
<1>3. 1 \in 1..Len(t.heap)
  BY <1>1, <1>2
<1>4. \A k \in 1..Len(t.heap) : E(t, k) \in Nat
  BY <1>1, Expires
<1>5. CASE Bad = {}
  BY <1>2, <1>3, <1>5 DEF E
<1>6. CASE Bad # {}
  <2>1. Bad \subseteq Nat
    BY <1>1
  <2>2. PICK k \in Bad : \A j \in Bad : k <= j
    BY <1>6, <2>1, LeastNatural
  <2>3. k \in 1..Len(t.heap) /\ ~ (E(t, 1) <= E(t, k))
    BY <2>2
  <2>4. k # 1
    BY <1>3, <1>4, <2>3
  <2>5. k > 1 /\ k \in 2..Len(t.heap)
    BY <1>1, <2>3, <2>4
  <2> DEFINE p == k \div 2
  <2>6. p \in 1..Len(t.heap) /\ p < k
    BY <1>1, <2>3, <2>5, Parent
  <2>7. E(t, p) <= E(t, k)
    BY <1>1, <2>5 DEF Sorted
  <2> HIDE DEF p
  <2>8. p \notin Bad
    BY <1>1, <2>2, <2>3, <2>6
  <2>9. E(t, 1) <= E(t, p)
    BY <2>6, <2>8
  <2> QED
    BY <1>3, <1>4, <2>3, <2>6, <2>7, <2>9
<1> QED
  BY <1>5, <1>6, <1>3

LEMMA WithoutEntry ==
    ASSUME NEW f, NEW x
    PROVE  /\ DOMAIN Without(f, x) = DOMAIN f \ {x}
           /\ \A y \in DOMAIN f : y # x => Without(f, x)[y] = f[y]
  BY DEF Without, Restrict

(* A node that is not in the heap yet is inserted in its place. *)
LEMMA pushInserts ==
    ASSUME NEW t, TimerSound(t), NEW node \in TimerNode, node.id \notin Placed(t)
    PROVE  LET u == push(t, node) IN
           /\ TimerSound(u) /\ Placed(u) = Placed(t) \cup {node.id}
           /\ Nodes(u) = Nodes(t) \cup {node}
<1> DEFINE n == Len(t.heap) + 1
           h == Append(t.heap, node)
           r == [t.ref EXCEPT ![node.id] = n]
           v == [heap |-> h, ref |-> r]
           u == siftUp[Sift(v, n, n)].timer
<1>1. /\ t.heap \in Seq(TimerNode) /\ t.ref \in [Id -> Nat] /\ Len(t.heap) \in Nat /\ n \in Nat /\ n \in 1..n
      /\ n \in Nat \ {0} /\ node.id \in Id /\ t \in TimerType
  BY DEF TimerSound, TimerType, TimerNode
<1>2. h \in Seq(TimerNode) /\ Len(h) = n /\ h[n] = node /\ \A k \in 1..Len(t.heap) : h[k] = t.heap[k]
  BY <1>1
<1>3. r \in [Id -> Nat] /\ r[node.id] = n /\ \A y \in Id : y # node.id => r[y] = t.ref[y]
  BY <1>1
<1>4. Placed(v) = Placed(t) \cup {node.id} /\ \A y \in Placed(t) : y # node.id /\ r[y] = t.ref[y]
  <2>1. v.ref = r
    OBVIOUS
  <2> HIDE DEF v, n, r
  <2> QED
    BY <1>1, <1>3, <2>1 DEF Placed
<1> HIDE DEF n, h, r
<1>5. v \in TimerType /\ v.heap = h /\ v.ref = r
  BY <1>2, <1>3 DEF TimerType
<1>6. \A k \in 1..n : k = n \/ k \in 1..Len(t.heap)
  BY <1>1 DEF n
<1>7. Located(v)
  <2>1. /\ \A k \in 1..Len(t.heap) : t.heap[k].id \in Placed(t) /\ t.ref[t.heap[k].id] = k
        /\ \A x \in Placed(t) : t.ref[x] \in 1..Len(t.heap) /\ t.heap[t.ref[x]].id = x
    BY DEF TimerSound, Located
  <2>2. \A k \in 1..n : h[k].id \in Placed(v) /\ r[h[k].id] = k
    BY <1>2, <1>3, <1>4, <1>6, <2>1
  <2>3. \A k \in 1..Len(t.heap) : k \in 1..n
    BY <1>1 DEF n
  <2>4. ASSUME NEW x \in Placed(v) PROVE r[x] \in 1..n /\ h[r[x]].id = x
    <3>1. CASE x = node.id
      BY <1>1, <1>2, <1>3, <3>1
    <3>2. CASE x # node.id
      <4>1. x \in Placed(t) /\ r[x] = t.ref[x]
        BY <1>4, <3>2
      <4> QED
        BY <1>2, <2>1, <2>3, <4>1
    <3> QED
      BY <3>1, <3>2
  <2> QED
    BY <1>2, <1>5, <2>2, <2>4 DEF Located
<1>8. SortedButUp(v, n, n)
  <2>1. ASSUME NEW j \in 2..n, j # n
        PROVE  E(v, j \div 2) <= E(v, j)
    <3>1. j \in 2..Len(t.heap) /\ j \in 1..Len(t.heap) /\ j > 1
      BY <1>1, <2>1 DEF n
    <3>2. j \div 2 \in 1..Len(t.heap)
      BY <1>1, <3>1, Parent
    <3>3. E(t, j \div 2) <= E(t, j)
      BY <3>1 DEF TimerSound, Sorted
    <3>4. h[j] = t.heap[j] /\ h[j \div 2] = t.heap[j \div 2]
      BY <1>2, <3>1, <3>2
    <3> QED
      BY <1>5, <3>3, <3>4 DEF E
  <2>2. ASSUME NEW j \in 2..n
        PROVE  j \div 2 # n
    <3>1. j \in 1..n /\ j > 1
      BY <1>1
    <3>2. j \div 2 < j
      BY <1>1, <3>1, Parent
    <3> QED
      BY <1>1, <3>1, <3>2
  <2> QED
    BY <2>1, <2>2 DEF SortedButUp, Bridged
<1>9. Rearranged(v, u, n) /\ Sorted(u, n)
  <2> HIDE DEF v
  <2>1. n <= Len(v.heap)
    BY <1>1, <1>2, <1>5
  <2> QED
    BY <1>1, <1>5, <1>7, <1>8, <2>1, siftUpSorts
<1>10. push(t, node) = u
  BY DEF push, u, v, n, h, r
<1> HIDE DEF u
<1>11. Nodes(v) = Nodes(t) \cup {node}
  <2>1. ASSUME NEW x \in Nodes(v) PROVE x \in Nodes(t) \cup {node}
    <3>1. PICK k \in 1..n : x = h[k]
      BY <1>2, <1>5, InNodes
    <3> QED
      BY <1>2, <1>6, <3>1, InNodes
  <2>2. ASSUME NEW x \in Nodes(t) PROVE x \in Nodes(v)
    <3>1. PICK k \in 1..Len(t.heap) : x = t.heap[k]
      BY InNodes
    <3>2. k \in 1..n /\ x = h[k]
      BY <1>1, <1>2, <3>1 DEF n
    <3> QED
      BY <1>2, <1>5, <3>2, InNodes
  <2>3. node \in Nodes(v)
    BY <1>1, <1>2, <1>5, InNodes
  <2> QED
    BY <2>1, <2>2, <2>3
<1>12. Len(u.heap) = n /\ Placed(u) = Placed(v) /\ Nodes(u) = Nodes(v) /\ u \in TimerType /\ Located(u)
  BY <1>2, <1>5, <1>9 DEF Rearranged
<1> QED
  BY <1>4, <1>9, <1>10, <1>11, <1>12 DEF TimerSound

(* The last node is dropped. *)
LEMMA DropLast ==
    ASSUME NEW s \in TimerType, Located(s), NEW n \in Nat \ {0}, n = Len(s.heap), Sorted(s, n - 1)
    PROVE  LET v == [heap |-> Front(s.heap), ref |-> [s.ref EXCEPT ![s.heap[n].id] = 0]] IN
           /\ TimerSound(v) /\ Placed(v) = Placed(s) \ {s.heap[n].id}
           /\ Nodes(v) = Nodes(s) \ {s.heap[n]}
<1> DEFINE v == [heap |-> Front(s.heap), ref |-> [s.ref EXCEPT ![s.heap[n].id] = 0]]
           x == s.heap[n].id
           m == n - 1
<1>1. s.heap \in Seq(TimerNode) /\ s.ref \in [Id -> Nat]
  BY DEF TimerType
<1>2. n \in 1..Len(s.heap) /\ s.heap[n] \in TimerNode /\ x \in Id
  <2>1. n \in 1..Len(s.heap)
    OBVIOUS
  <2>2. s.heap[n] \in TimerNode
    BY <1>1, <2>1
  <2> QED
    BY <2>1, <2>2 DEF TimerNode
<1>3. v.heap \in Seq(TimerNode) /\ Len(v.heap) = m /\ \A k \in 1..m : v.heap[k] = s.heap[k]
  <2>1. v.heap = SubSeq(s.heap, 1, m)
    BY DEF Front
  <2>2. \A k \in 1..m : s.heap[k] \in TimerNode
    BY <1>1
  <2> QED
    BY <1>1, <2>1, <2>2, SubSeqProperties
<1>4. v.ref \in [Id -> Nat] /\ Placed(v) = Placed(s) \ {x} /\ \A y \in Placed(s) : y # x => v.ref[y] = s.ref[y]
  <2>1. v.ref = [s.ref EXCEPT ![x] = 0]
    OBVIOUS
  <2> HIDE DEF v, x
  <2>2. v.ref \in [Id -> Nat] /\ v.ref[x] = 0 /\ \A y \in Id : y # x => v.ref[y] = s.ref[y]
    BY <1>1, <1>2, <2>1
  <2> QED
    BY <1>2, <2>2 DEF Placed
<1>5. v \in TimerType
  BY <1>3, <1>4 DEF TimerType
<1>6. \A k \in 1..n : s.heap[k].id \in Placed(s) /\ s.ref[s.heap[k].id] = k
  BY DEF Located
<1>7. \A k \in 1..m : k \in 1..n /\ k # n
  OBVIOUS
<1>8. \A k \in 1..n : k # n => k \in 1..m
  OBVIOUS
<1> HIDE DEF x, m, v
<1>9. \A k \in 1..m : s.heap[k].id # x
  BY <1>2, <1>6, <1>7 DEF x
<1>10. Located(v)
  <2>1. \A k \in 1..m : v.heap[k].id \in Placed(v) /\ v.ref[v.heap[k].id] = k
    BY <1>3, <1>4, <1>6, <1>7, <1>9, ZenonT(60)
  <2>2. ASSUME NEW y \in Placed(v) PROVE v.ref[y] \in 1..m /\ v.heap[v.ref[y]].id = y
    <3>1. y \in Placed(s) /\ y # x /\ v.ref[y] = s.ref[y]
      BY <1>4
    <3>2. s.ref[y] \in 1..n /\ s.heap[s.ref[y]].id = y
      BY <3>1 DEF Located
    <3>3. s.ref[y] # n
      BY <3>1, <3>2 DEF x
    <3>4. s.ref[y] \in 1..m
      BY <1>8, <3>2, <3>3
    <3> QED
      BY <1>3, <3>1, <3>2, <3>4
  <2> QED
    BY <1>3, <2>1, <2>2 DEF Located
<1>11. Sorted(v, m)
  <2>1. ASSUME NEW j \in 2..m PROVE E(v, j \div 2) <= E(v, j)
    <3>1. m \in Nat /\ j \in 1..m /\ j > 1
      BY DEF m
    <3>2. j \div 2 \in 1..m
      BY <3>1, Parent
    <3>3. E(s, j \div 2) <= E(s, j)
      BY DEF Sorted, m
    <3> QED
      BY <1>3, <3>1, <3>2, <3>3 DEF E
  <2> QED
    BY <2>1 DEF Sorted
<1>12. Nodes(v) = Nodes(s) \ {s.heap[n]}
  <2>1. ASSUME NEW y \in Nodes(v) PROVE y \in Nodes(s) \ {s.heap[n]}
    <3>1. PICK k \in 1..m : y = v.heap[k]
      BY <1>3, InNodes
    <3>2. y = s.heap[k] /\ y.id # x /\ k \in 1..n
      BY <1>3, <1>7, <1>9, <3>1
    <3> QED
      BY <3>2, InNodes DEF x
  <2>2. ASSUME NEW y \in Nodes(s), y # s.heap[n] PROVE y \in Nodes(v)
    <3>1. PICK k \in 1..n : y = s.heap[k]
      BY InNodes
    <3>2. k \in 1..m
      BY <1>8, <2>2, <3>1
    <3> QED
      BY <1>3, <3>1, <3>2, InNodes
  <2> QED
    BY <2>1, <2>2
<1> QED
  BY <1>3, <1>4, <1>5, <1>10, <1>11, <1>12 DEF TimerSound, x, v

(* The node of place i is taken out. *)
LEMMA delRemoves ==
    ASSUME NEW t, TimerSound(t), NEW i \in 1..Len(t.heap)
    PROVE  LET u == del(t, i) IN
           /\ TimerSound(u) /\ Placed(u) = Placed(t) \ {t.heap[i].id}
           /\ Nodes(u) = Nodes(t) \ {t.heap[i]}
<1> DEFINE n == Len(t.heap)
           w == swapNode(t, i, n)
           s == IF i < n THEN settle(w, i, n - 1) ELSE t
           u == [heap |-> Front(s.heap), ref |-> [s.ref EXCEPT ![t.heap[i].id] = 0]]
<1>1. t \in TimerType /\ Located(t) /\ Sorted(t, n) /\ n \in Nat \ {0} /\ i \in Nat
  BY DEF TimerSound, TimerType
<1>2. del(t, i) = u
  BY DEF del
<1>3. /\ s \in TimerType /\ Located(s) /\ Len(s.heap) = n /\ Sorted(s, n - 1) /\ s.heap[n] = t.heap[i]
      /\ Placed(s) = Placed(t) /\ Nodes(s) = Nodes(t)
  <2>1. CASE ~ (i < n)
    <3>1. s = t /\ i = n
      BY <1>1, <2>1
    <3>2. Sorted(t, n - 1)
      BY <1>1 DEF Sorted
    <3> QED
      BY <1>1, <3>1, <3>2
  <2>2. CASE i < n
    <3>1. i \in 1..n /\ n \in 1..n /\ i \in 1..(n - 1) /\ n - 1 \in Nat
      BY <1>1, <2>2
    <3>2. Rearranged(t, w, n)
      BY <1>1, <3>1, SwapRearranges
    <3>3. \A k \in 1..n : w.heap[k] = IF k = n THEN t.heap[i] ELSE IF k = i THEN t.heap[n] ELSE t.heap[k]
      BY <1>1, <3>1, SwapNode DEF Swapped
    <3>4. /\ w \in TimerType /\ Located(w) /\ Len(w.heap) = n /\ Nodes(w) = Nodes(t)
          /\ Placed(w) = Placed(t) /\ w.heap[n] = t.heap[i]
      BY <3>1, <3>2, <3>3 DEF Rearranged
    <3> HIDE DEF w, n
    <3>5. SortedBut(w, i, n - 1)
      <4>0. \A k \in 1..n : E(t, k) \in Nat
        BY <1>1, Expires DEF n
      <4>1. ASSUME NEW j \in 2..(n - 1), j # i, j \div 2 # i
            PROVE  E(w, j \div 2) <= E(w, j)
        <5>1. j \in 1..n /\ j > 1 /\ j # n /\ j \in 2..n
          BY <1>1
        <5>2. j \div 2 \in 1..n /\ j \div 2 < j
          BY <1>1, <5>1, Parent
        <5>3. j \div 2 # n
          BY <1>1, <5>1, <5>2
        <5>4. E(t, j \div 2) <= E(t, j)
          BY <1>1, <5>1 DEF Sorted
        <5> QED
          BY <3>3, <4>1, <5>1, <5>2, <5>3, <5>4 DEF E
      <4>2. ASSUME i > 1, NEW j \in 2..(n - 1), j \div 2 = i
            PROVE  E(w, i \div 2) <= E(w, j)
        <5>1. j \in 1..n /\ j > 1 /\ j # n /\ j \in 2..n /\ i \in 2..n /\ i # n
          BY <1>1, <2>2, <3>1, <4>2
        <5>2. i \div 2 \in 1..n /\ i \div 2 < i /\ i < j
          BY <1>1, <3>1, <4>2, <5>1, Parent
        <5> DEFINE p == i \div 2
        <5>3. p \in 1..n /\ p # n /\ p # i /\ j # i
          <6>1. p \in 1..n /\ p < i
            BY <5>2
          <6> HIDE DEF p
          <6> QED
            BY <1>1, <2>2, <5>1, <5>2, <6>1
        <5>4. E(t, p) <= E(t, i) /\ E(t, i) <= E(t, j)
          BY <1>1, <4>2, <5>1 DEF Sorted
        <5>5. E(w, p) = E(t, p) /\ E(w, j) = E(t, j)
          BY <3>3, <5>1, <5>3 DEF E
        <5> HIDE DEF p
        <5>6. E(w, p) <= E(w, j)
          BY <3>1, <4>0, <5>1, <5>3, <5>4, <5>5
        <5> QED
          BY <5>6 DEF p
      <4> QED
        BY <4>1, <4>2 DEF SortedBut, Bridged
    <3>6. n - 1 <= Len(w.heap)
      BY <1>1, <3>4
    <3>7. Rearranged(w, settle(w, i, n - 1), n - 1) /\ Sorted(settle(w, i, n - 1), n - 1)
      BY <3>1, <3>4, <3>5, <3>6, settleSorts
    <3>8. s = settle(w, i, n - 1)
      BY <2>2
    <3>9. n \in 1..Len(w.heap) /\ n > n - 1
      BY <1>1, <3>1, <3>4
    <3> QED
      BY <3>4, <3>7, <3>8, <3>9 DEF Rearranged
  <2> QED
    BY <2>1, <2>2
<1> HIDE DEF s
<1>4. u = [heap |-> Front(s.heap), ref |-> [s.ref EXCEPT ![s.heap[n].id] = 0]]
  BY <1>3
<1>5. n = Len(s.heap)
  BY <1>3
<1>6. n \in Nat \ {0}
  BY <1>1
<1> HIDE DEF n
<1> DEFINE v == [heap |-> Front(s.heap), ref |-> [s.ref EXCEPT ![s.heap[n].id] = 0]]
<1>7. TimerSound(v) /\ Placed(v) = Placed(s) \ {s.heap[n].id} /\ Nodes(v) = Nodes(s) \ {s.heap[n]}
  BY <1>3, <1>5, <1>6, DropLast
<1> HIDE DEF u, v
<1> QED
  BY <1>2, <1>3, <1>4, <1>7 DEF v

(* A node with a new id is inserted. *)
LEMMA AddInserts ==
    ASSUME NEW t, TimerSound(t), NEW node \in TimerNode, node.id \notin Placed(t)
    PROVE  LET u == Add(t, node) IN
           /\ TimerSound(u) /\ Placed(u) = Placed(t) \cup {node.id}
           /\ Nodes(u) = Nodes(t) \cup {node}
<1>1. t.ref[node.id] = 0
  BY DEF Placed, TimerNode
<1>2. Add(t, node) = push(t, node)
  BY <1>1 DEF Add
<1> QED
  BY <1>2, pushInserts

-----------------------------------------------------------------------------
(* The inductive invariant *)

(* Ids are given out in order, and the node that runs is not in the heap. *)
Issued ==
    /\ \A n \in Nodes(timer) : n.id < nextId
    /\ \A n \in ToSet(running) : n.id < nextId /\ n.id \notin Placed(timer)
    /\ \A x \in DOMAIN repeats : x < nextId
    /\ \A k \in DOMAIN keyToTimerId : keyToTimerId[k] < nextId

(* A key names only a timer that has it. *)
KeysOwn ==
    \A k \in DOMAIN keyToTimerId : \A n \in Nodes(timer) \cup ToSet(running) :
        n.id = keyToTimerId[k] => n.key = k

(* A timer that runs and is to repeat has not lost its key. *)
RunsValid == \A n \in ToSet(running) : n.id \in DOMAIN repeats => KeyIsValid(n)

(* A callback runs within the limit of its Tick. *)
InTick == running # <<>> => processed \in 0..(Limit - 1)

(* TablesInStep, in terms of the nodes. *)
Living(x) == x \in thrown \/ \E n \in Nodes(timer) \cup ToSet(running) : n.id = x

InStep ==
    /\ \A n \in Nodes(timer) : KeyIsValid(n)
    /\ \A x \in DOMAIN repeats : Living(x)
    /\ \A k \in DOMAIN keyToTimerId : Living(keyToTimerId[k])

IInv ==
    TypeOK /\ TimerSound(timer) /\ Issued /\ KeysOwn /\ RunsValid /\ InTick /\ InStep

LEMMA RangeIn ==
    ASSUME NEW f, NEW S PROVE Range(f) \subseteq S <=> \A x \in DOMAIN f : f[x] \in S
  BY DEF Range

LEMMA HeapNodes ==
    ASSUME NEW t \in TimerType PROVE ToSet(t.heap) = Nodes(t)
<1>1. t.heap \in Seq(TimerNode)
  BY DEF TimerType
<1>2. DOMAIN t.heap = 1..Len(t.heap)
  BY <1>1
<1> QED
  BY <1>2 DEF ToSet, Nodes

LEMMA NodesType ==
    ASSUME NEW t, TimerSound(t), NEW n \in Nodes(t)
    PROVE  n \in TimerNode /\ n.id \in Placed(t) /\ t.heap[t.ref[n.id]] = n
<1>1. PICK k \in 1..Len(t.heap) : n = t.heap[k]
  BY InNodes
<1> QED
  BY <1>1, Expires DEF TimerSound, Located

(* Two nodes of the heap differ in their ids. *)
LEMMA NodesById ==
    ASSUME NEW t, TimerSound(t), NEW m \in Nodes(t), NEW n \in Nodes(t), m.id = n.id
    PROVE  m = n
<1>1. t.heap[t.ref[m.id]] = m /\ t.heap[t.ref[n.id]] = n
  BY NodesType
<1> QED
  BY <1>1

LEMMA NodeOfId ==
    ASSUME NEW t, TimerSound(t), NEW x \in Placed(t)
    PROVE  t.ref[x] \in 1..Len(t.heap) /\ t.heap[t.ref[x]] \in Nodes(t) /\ t.heap[t.ref[x]].id = x
<1>1. t.ref[x] \in 1..Len(t.heap) /\ t.heap[t.ref[x]].id = x
  BY DEF TimerSound, Located
<1> QED
  BY <1>1, InNodes

(* No node or one node runs. *)
LEMMA RunningCases ==
    ASSUME TypeOK
    PROVE  \/ running = <<>> /\ ToSet(running) = {}
           \/ running # <<>> /\ running[1] \in TimerNode /\ ToSet(running) = {running[1]}
<1>1. running \in Seq(TimerNode) /\ Len(running) <= 1 /\ Len(running) \in Nat
  BY DEF TypeOK
<1>2. CASE Len(running) = 0
  <2>1. running = <<>>
    BY <1>1, <1>2, EmptySeq
  <2> QED
    BY <2>1 DEF ToSet
<1>3. CASE Len(running) = 1
  <2>0. DOMAIN running = 1..1 /\ 1..1 = {1}
    BY <1>1, <1>3
  <2>1. running # <<>> /\ DOMAIN running = {1}
    BY <1>3, <2>0
  <2> QED
    BY <1>1, <1>3, <2>1 DEF ToSet
<1>4. Len(running) = 0 \/ Len(running) = 1
  <2> DEFINE l == Len(running)
  <2>1. l \in Nat /\ l <= 1
    BY <1>1
  <2> HIDE DEF l
  <2>2. l = 0 \/ l = 1
    BY <2>1
  <2> QED
    BY <2>2 DEF l
<1> QED
  BY <1>2, <1>3, <1>4

LEMMA OneRuns == ASSUME NEW n PROVE ToSet(<<n>>) = {n}
<1>1. DOMAIN <<n>> = {1} /\ <<n>>[1] = n
  OBVIOUS
<1> QED
  BY <1>1 DEF ToSet

LEMMA NoneRuns == ToSet(<<>>) = {}
  BY DEF ToSet

LEMMA AliveIs ==
    ASSUME TimerSound(timer)
    PROVE  Alive = {n.id : n \in Nodes(timer) \cup ToSet(running)}
  BY HeapNodes DEF Alive, TimerSound

LEMMA InStepIs ==
    ASSUME TimerSound(timer), InStep PROVE TablesInStep
<1>1. ToSet(timer.heap) = Nodes(timer)
  BY HeapNodes DEF TimerSound
<1>2. \A x : Living(x) => x \in Alive \cup thrown
  BY AliveIs DEF Living
<1>3. Range(keyToTimerId) \subseteq Alive \cup thrown
  BY <1>2, RangeIn DEF InStep
<1> QED
  BY <1>1, <1>2, <1>3 DEF TablesInStep, InStep

(* What the cancellation of a key leaves. *)
LEMMA CancelledTimer ==
    ASSUME IInv, NEW k \in Key
    PROVE  LET u == cancelledTimer(k) IN
           /\ TimerSound(u) /\ Placed(u) \subseteq Placed(timer)
           /\ Nodes(u) = {n \in Nodes(timer) : n.key # k}
<1>1. TimerSound(timer) /\ timer \in TimerType /\ KeysOwn /\ k # NoKey
  BY CallerAssumption DEF IInv, TimerSound
<1>2. \A n \in Nodes(timer) : n.key = k => k \in DOMAIN keyToTimerId /\ keyToTimerId[k] = n.id
  BY <1>1 DEF IInv, InStep, KeyIsValid
<1>3. CASE k \in DOMAIN keyToTimerId /\ timer.ref[keyToTimerId[k]] # 0
  <2> DEFINE x == keyToTimerId[k]
             i == timer.ref[x]
             m == timer.heap[i]
  <2>1. x \in Placed(timer)
    BY <1>3, RangeIn DEF IInv, TypeOK, Placed
  <2>2. i \in 1..Len(timer.heap) /\ m \in Nodes(timer) /\ m.id = x
    BY <1>1, <2>1, NodeOfId
  <2>3. m.key = k
    BY <1>3, <2>2 DEF KeysOwn, IInv
  <2>4. cancelledTimer(k) = del(timer, i)
    BY <1>3 DEF cancelledTimer
  <2> DEFINE u == del(timer, i)
  <2>5. TimerSound(u) /\ Placed(u) = Placed(timer) \ {m.id} /\ Nodes(u) = Nodes(timer) \ {m}
    BY <1>1, <2>2, delRemoves
  <2> HIDE DEF u, m, i
  <2>6. \A n \in Nodes(timer) : n.key = k => n = m
    BY <1>1, <1>2, <2>2, NodesById
  <2>7. Nodes(u) = {n \in Nodes(timer) : n.key # k}
    BY <2>3, <2>5, <2>6
  <2> QED
    BY <2>4, <2>5, <2>7 DEF u
<1>4. CASE ~ (k \in DOMAIN keyToTimerId /\ timer.ref[keyToTimerId[k]] # 0)
  <2>1. cancelledTimer(k) = timer
    BY <1>4 DEF cancelledTimer
  <2>2. ASSUME NEW n \in Nodes(timer), n.key = k PROVE FALSE
    <3>1. n.id \in Placed(timer)
      BY <1>1, NodesType
    <3> QED
      BY <1>2, <1>4, <2>2, <3>1 DEF Placed
  <2> QED
    BY <1>1, <2>1, <2>2
<1> QED
  BY <1>3, <1>4

LEMMA CancelledRepeats ==
    ASSUME NEW k
    PROVE  LET r == cancelledRepeats(k) IN
           /\ DOMAIN r = {x \in DOMAIN repeats : k \in DOMAIN keyToTimerId => x # keyToTimerId[k]}
           /\ \A x \in DOMAIN r : r[x] = repeats[x]
<1>1. CASE k \in DOMAIN keyToTimerId
  <2> DEFINE r == Without(repeats, keyToTimerId[k])
  <2>1. cancelledRepeats(k) = r
    BY <1>1 DEF cancelledRepeats
  <2>2. DOMAIN r = DOMAIN repeats \ {keyToTimerId[k]} /\ \A x \in DOMAIN r : r[x] = repeats[x]
    BY WithoutEntry, ZenonT(60)
  <2> HIDE DEF r
  <2> QED
    BY <1>1, <2>1, <2>2
<1>2. CASE k \notin DOMAIN keyToTimerId
  BY <1>2 DEF cancelledRepeats
<1> QED
  BY <1>1, <1>2

(* The parts of the invariant, over the nodes of the heap. *)
LEMMA InvParts ==
    ASSUME IInv
    PROVE  /\ TimerSound(timer) /\ timer \in TimerType
           /\ \A n \in Nodes(timer) : n \in TimerNode /\ n.id \in Placed(timer) /\ KeyIsValid(n) /\ n.id < nextId
           /\ \A n \in ToSet(running) : n \in TimerNode /\ n.id < nextId /\ n.id \notin Placed(timer)
           /\ \A x \in DOMAIN repeats : x \in Id /\ repeats[x] \in Counted /\ x < nextId
           /\ \A k \in DOMAIN keyToTimerId : k \in Key /\ k # NoKey /\ keyToTimerId[k] \in Id /\ keyToTimerId[k] < nextId
           /\ \A x \in Placed(timer) : x < nextId
           /\ nextId \in 0..MaxId /\ nextId \notin Placed(timer)
<1>1. TimerSound(timer) /\ timer \in TimerType
  BY DEF IInv, TimerSound
<1>2. \A n \in Nodes(timer) : n \in TimerNode /\ n.id \in Placed(timer) /\ KeyIsValid(n) /\ n.id < nextId
  <2>1. \A n \in Nodes(timer) : KeyIsValid(n) /\ n.id < nextId
    BY DEF IInv, InStep, Issued
  <2> QED
    BY <1>1, <2>1, NodesType
<1>3. \A n \in ToSet(running) : n \in TimerNode /\ n.id < nextId /\ n.id \notin Placed(timer)
  BY RunningCases DEF IInv, Issued
<1>4. \A x \in DOMAIN repeats : x \in Id /\ repeats[x] \in Counted /\ x < nextId
  BY RangeIn DEF IInv, TypeOK, Issued
<1>5. \A k \in DOMAIN keyToTimerId : k \in Key /\ k # NoKey /\ keyToTimerId[k] \in Id /\ keyToTimerId[k] < nextId
  BY RangeIn, CallerAssumption DEF IInv, TypeOK, Issued
<1>6. ASSUME NEW x \in Placed(timer) PROVE x < nextId
  BY <1>1, <1>2, NodeOfId
<1>7. nextId \in 0..MaxId
  BY DEF IInv, TypeOK
<1>8. nextId \notin Placed(timer)
  <2>1. ~ (nextId < nextId)
    BY <1>7
  <2> QED
    BY <1>6, <2>1
<1> QED
  BY <1>1, <1>2, <1>3, <1>4, <1>5, <1>6, <1>7, <1>8

-----------------------------------------------------------------------------
(* Every step keeps the invariant *)

LEMMA InitInv == Init => IInv
<1> SUFFICES ASSUME Init PROVE IInv
  OBVIOUS
<1> USE DEF Init
<1>1. timer.heap = <<>> /\ Len(timer.heap) = 0 /\ timer \in TimerType
  BY DEF TimerType
<1>2. Placed(timer) = {} /\ Nodes(timer) = {} /\ ToSet(running) = {}
  BY <1>1, NoneRuns DEF Placed, Nodes
<1>3. TimerSound(timer)
  BY <1>1, <1>2 DEF TimerSound, Located, Sorted
<1>4. TypeOK
  <2>1. Range(repeats) = {} /\ Range(keyToTimerId) = {} /\ DOMAIN repeats = {} /\ DOMAIN keyToTimerId = {}
    BY DEF Range
  <2>2. 0 \in 0..MaxTime /\ 0 \in 0..MaxId /\ -1 \in -1..Limit
    BY BoundAssumption, LimitAssumption
  <2> QED
    BY <1>1, <2>1, <2>2 DEF TypeOK, TimerType
<1> QED
  BY <1>2, <1>3, <1>4 DEF IInv, Issued, KeysOwn, RunsValid, InTick, InStep

(* What a step that leaves the heap, the tables and what runs alone keeps. *)
LEMMA SameTables ==
    ASSUME IInv, UNCHANGED <<timer, manager, running, thrown>>
    PROVE  TimerSound(timer)' /\ Issued' /\ KeysOwn' /\ RunsValid' /\ InStep'
  BY DEF IInv, manager, Issued, KeysOwn, RunsValid, InStep, Living, KeyIsValid

LEMMA QuietInv ==
    ASSUME IInv, Advance \/ TickBegin \/ TickEnd \/ UNCHANGED vars
    PROVE  IInv'
<1>1. UNCHANGED <<timer, manager, running, thrown>>
  BY DEF Advance, TickBegin, TickEnd, vars, manager
<1>2. TypeOK'
  <2>1. now' \in 0..MaxTime /\ processed' \in -1..Limit
    BY BoundAssumption, LimitAssumption DEF IInv, TypeOK, Advance, TickBegin, TickEnd, vars
  <2> QED
    BY <1>1, <2>1 DEF IInv, TypeOK, manager
<1>3. InTick'
  <2>1. CASE TickBegin \/ TickEnd
    <3>1. running = <<>>
      BY <2>1, LimitAssumption DEF IInv, InTick, TickBegin, TickEnd
    <3> QED
      BY <1>1, <3>1 DEF InTick
  <2>2. CASE Advance \/ UNCHANGED vars
    BY <1>1, <2>2 DEF IInv, InTick, Advance, vars
  <2> QED
    BY <2>1, <2>2
<1> QED
  BY <1>1, <1>2, <1>3, SameTables DEF IInv

LEMMA CancelByKeyInv ==
    ASSUME IInv, NEW k \in Key, CancelByKey(k)
    PROVE  IInv'
<1> USE DEF CancelByKey
<1>1. /\ TimerSound(timer') /\ Placed(timer') \subseteq Placed(timer)
      /\ Nodes(timer') = {n \in Nodes(timer) : n.key # k}
  BY CancelledTimer
<1>2. /\ DOMAIN repeats' = {x \in DOMAIN repeats : k \in DOMAIN keyToTimerId => x # keyToTimerId[k]}
      /\ \A x \in DOMAIN repeats' : repeats'[x] = repeats[x]
  BY CancelledRepeats
<1>3. /\ DOMAIN keyToTimerId' = DOMAIN keyToTimerId \ {k}
      /\ \A j \in DOMAIN keyToTimerId' : keyToTimerId'[j] = keyToTimerId[j]
  BY WithoutEntry
<1>4. UNCHANGED <<now, nextId, running, processed, thrown>>
  OBVIOUS
<1> USE DEF IInv
<1>5. TypeOK'
  <2>1. timer' \in TimerType
    BY <1>1 DEF TimerSound
  <2>2. DOMAIN repeats' \subseteq Id /\ Range(repeats') \subseteq Counted
    BY <1>2, RangeIn DEF TypeOK
  <2>3. DOMAIN keyToTimerId' \subseteq Key /\ Range(keyToTimerId') \subseteq Id
    BY <1>3, RangeIn DEF TypeOK
  <2> QED
    BY <1>4, <2>1, <2>2, <2>3 DEF TypeOK, TimerType
<1>6. Issued'
  BY <1>1, <1>2, <1>3, <1>4 DEF Issued
<1>7. KeysOwn'
  BY <1>1, <1>3, <1>4 DEF KeysOwn
<1>8. RunsValid'
  <2>1. ASSUME NEW n \in ToSet(running'), n.id \in DOMAIN repeats' PROVE KeyIsValid(n)'
    <3>1. n \in ToSet(running) /\ n.id \in DOMAIN repeats /\ (k \in DOMAIN keyToTimerId => n.id # keyToTimerId[k])
      BY <1>2, <1>4, <2>1
    <3>2. KeyIsValid(n)
      BY <3>1 DEF RunsValid
    <3> QED
      BY <1>3, <3>1, <3>2 DEF KeyIsValid
  <2> QED
    BY <2>1 DEF RunsValid
<1>9. InTick'
  BY <1>4 DEF InTick
<1>10. InStep'
  <2>1. ASSUME NEW n \in Nodes(timer') PROVE KeyIsValid(n)'
    BY <1>1, <1>3 DEF InStep, KeyIsValid
  <2>2. ASSUME NEW x, Living(x), \A n \in Nodes(timer) : n.id = x => n.key # k PROVE Living(x)'
    BY <1>1, <1>4, <2>2 DEF Living
  <2>3. ASSUME NEW x \in DOMAIN repeats' PROVE Living(x)'
    <3>1. Living(x)
      BY <1>2 DEF InStep
    <3>2. \A n \in Nodes(timer) : n.id = x => n.key # k
      BY <1>2, CallerAssumption DEF InStep, KeyIsValid
    <3> QED
      BY <2>2, <3>1, <3>2
  <2>4. ASSUME NEW j \in DOMAIN keyToTimerId', NEW x, x = keyToTimerId'[j] PROVE Living(x)'
    <3>1. j \in DOMAIN keyToTimerId /\ j # k /\ keyToTimerId'[j] = keyToTimerId[j]
      BY <1>3
    <3>2. Living(keyToTimerId[j])
      BY <3>1 DEF InStep
    <3>3. \A n \in Nodes(timer) : n.id = keyToTimerId[j] => n.key # k
      BY <3>1 DEF KeysOwn
    <3> QED
      BY <2>2, <2>4, <3>1, <3>2, <3>3
  <2>5. (\A j \in DOMAIN keyToTimerId : Living(keyToTimerId[j]))'
    BY <2>4 DEF Living
  <2> QED
    BY <2>1, <2>3, <2>5 DEF InStep
<1> QED
  BY <1>1, <1>5, <1>6, <1>7, <1>8, <1>9, <1>10

(* What a new timer of key k, or of none, finds: the heap and the          *)
(* repetitions without the timer it replaces.                              *)
BeforeTimer(k) == IF k = NoKey THEN timer ELSE cancelledTimer(k)
BeforeRepeats(k) == IF k = NoKey THEN repeats ELSE cancelledRepeats(k)

Added(k, ms, repeat) ==
    \/ k = NoKey /\ Schedule(ms, repeat)
    \/ k \in Key /\ ScheduleWithKey(k, ms, repeat)

LEMMA Before ==
    ASSUME IInv, NEW k \in Key \cup {NoKey}
    PROVE  LET t == BeforeTimer(k)
               r == BeforeRepeats(k) IN
           /\ TimerSound(t) /\ Placed(t) \subseteq Placed(timer)
           /\ Nodes(t) = {n \in Nodes(timer) : k # NoKey => n.key # k}
           /\ DOMAIN r = {x \in DOMAIN repeats : k \in DOMAIN keyToTimerId => x # keyToTimerId[k]}
           /\ \A x \in DOMAIN r : r[x] = repeats[x]
<1>1. CASE k = NoKey
  BY <1>1, InvParts DEF BeforeTimer, BeforeRepeats
<1>2. CASE k \in Key
  <2>1. k # NoKey
    BY <1>2, CallerAssumption
  <2> DEFINE t == cancelledTimer(k)
             r == cancelledRepeats(k)
  <2>2. BeforeTimer(k) = t /\ BeforeRepeats(k) = r
    BY <2>1 DEF BeforeTimer, BeforeRepeats
  <2>3. TimerSound(t) /\ Placed(t) \subseteq Placed(timer) /\ Nodes(t) = {n \in Nodes(timer) : n.key # k}
    BY <1>2, CancelledTimer
  <2>4. /\ DOMAIN r = {x \in DOMAIN repeats : k \in DOMAIN keyToTimerId => x # keyToTimerId[k]}
        /\ \A x \in DOMAIN r : r[x] = repeats[x]
    BY CancelledRepeats
  <2> HIDE DEF t, r
  <2> QED
    BY <2>1, <2>2, <2>3, <2>4
<1> QED
  BY <1>1, <1>2

LEMMA Product == \A a, b \in Nat : a * b \in Nat
  OBVIOUS

(* What a new timer of key k that repeats every p adds. *)
Adds(k, p, repeat) ==
    LET node == [id |-> nextId, expires |-> now + p, key |-> k]
        r == BeforeRepeats(k)
    IN  /\ node \in TimerNode /\ nextId \in Id /\ nextId < MaxId /\ nextId' = nextId + 1
        /\ TimerSound(timer') /\ Placed(timer') = Placed(BeforeTimer(k)) \cup {nextId}
        /\ Nodes(timer') = Nodes(BeforeTimer(k)) \cup {node}
        /\ DOMAIN repeats' = DOMAIN r \cup (IF repeat # 0 THEN {nextId} ELSE {})
        /\ \A x \in DOMAIN r : repeats'[x] = r[x]
        /\ repeat # 0 => /\ repeats'[nextId] \in Counted
                         /\ repeats'[nextId].remaining = repeat /\ repeats'[nextId].period = p
        /\ DOMAIN keyToTimerId' = DOMAIN keyToTimerId \cup ({k} \ {NoKey})
        /\ \A j \in DOMAIN keyToTimerId' : keyToTimerId'[j] = IF j = k THEN nextId ELSE keyToTimerId[j]
        /\ UNCHANGED <<now, running, processed, thrown>>

LEMMA After ==
    ASSUME IInv, NEW k \in Key \cup {NoKey}, NEW ms \in Timeout, NEW repeat \in Repeat,
           Added(k, ms, repeat), NEW p, p = Res * ms
    PROVE  Adds(k, p, repeat)
<1> DEFINE t == BeforeTimer(k)
           r == BeforeRepeats(k)
           node == [id |-> nextId, expires |-> now + p, key |-> k]
<1>1. k = NoKey \/ (k # NoKey /\ k \in Key)
  OBVIOUS
<1>2. Scheduled(t, r, k, ms, repeat)
  BY <1>1, CallerAssumption DEF Added, Schedule, ScheduleWithKey, BeforeTimer, BeforeRepeats
<1>3. nextId < MaxId /\ nextId' = nextId + 1 /\ UNCHANGED <<now, running, processed, thrown>>
  BY <1>2 DEF Scheduled
<1>4. repeats' = IF repeat # 0 THEN With(r, nextId, [remaining |-> repeat, period |-> p]) ELSE r
  BY <1>2 DEF Scheduled
<1>5. timer' = Add(t, node)
  BY <1>2 DEF Scheduled
<1>6. nextId \in Id
  BY <1>3, InvParts, BoundAssumption DEF Id
<1>7. p \in Nat
  <2>1. Res \in Nat /\ ms \in Nat
    BY BoundAssumption, CallerAssumption
  <2> QED
    BY <2>1, Product
<1>8. now + p \in Nat
  <2>1. now \in Nat /\ p \in Nat
    BY <1>7, BoundAssumption DEF IInv, TypeOK
  <2> QED
    BY <2>1
<1>9. node \in TimerNode /\ node.id = nextId
  BY <1>6, <1>8 DEF TimerNode
<1> HIDE DEF t, r
<1>10. TimerSound(t) /\ Placed(t) \subseteq Placed(timer) /\ nextId \notin Placed(t)
  BY Before, InvParts DEF t
<1>11. \A x \in DOMAIN r : x \in DOMAIN repeats /\ x # nextId
  <2>1. \A x \in DOMAIN r : x \in DOMAIN repeats
    BY Before DEF r
  <2>2. \A x \in DOMAIN repeats : x \in Nat /\ x < nextId
    BY InvParts, BoundAssumption DEF Id
  <2>3. nextId \in Nat
    BY InvParts, BoundAssumption
  <2> QED
    BY <2>1, <2>2, <2>3
<1>12. TimerSound(timer') /\ Placed(timer') = Placed(t) \cup {nextId} /\ Nodes(timer') = Nodes(t) \cup {node}
  <2> HIDE DEF node
  <2> QED
    BY <1>5, <1>9, <1>10, AddInserts
<1>13. /\ DOMAIN repeats' = DOMAIN r \cup (IF repeat # 0 THEN {nextId} ELSE {})
       /\ \A x \in DOMAIN r : repeats'[x] = r[x]
       /\ repeat # 0 => repeats'[nextId] = [remaining |-> repeat, period |-> p]
  <2> DEFINE c == [remaining |-> repeat, period |-> p]
             w == With(r, nextId, c)
  <2>1. CASE repeat # 0
    <3>1. repeats' = w
      BY <1>4, <2>1
    <3>2. DOMAIN w = DOMAIN r \cup {nextId} /\ w[nextId] = c /\ \A x \in DOMAIN r : x # nextId => w[x] = r[x]
      BY DEF With
    <3> HIDE DEF c, w
    <3> QED
      BY <1>11, <2>1, <3>1, <3>2 DEF c
  <2>2. CASE repeat = 0
    BY <1>4, <2>2
  <2> QED
    BY <2>1, <2>2
<1>14. repeat # 0 => [remaining |-> repeat, period |-> p] \in Counted
  BY <1>7, CallerAssumption DEF Counted
<1>15. /\ DOMAIN keyToTimerId' = DOMAIN keyToTimerId \cup ({k} \ {NoKey})
       /\ \A j \in DOMAIN keyToTimerId' : keyToTimerId'[j] = IF j = k THEN nextId ELSE keyToTimerId[j]
  <2>1. CASE k = NoKey
    <3>1. keyToTimerId' = keyToTimerId /\ NoKey \notin DOMAIN keyToTimerId
      BY <2>1, InvParts, CallerAssumption DEF Added, Schedule
    <3> QED
      BY <2>1, <3>1
  <2>2. CASE k # NoKey /\ k \in Key
    <3>1. keyToTimerId' = With(keyToTimerId, k, nextId)
      BY <2>2 DEF Added, ScheduleWithKey
    <3> DEFINE w == With(keyToTimerId, k, nextId)
    <3>2. /\ DOMAIN w = DOMAIN keyToTimerId \cup {k} /\ w[k] = nextId
          /\ \A j \in DOMAIN keyToTimerId : j # k => w[j] = keyToTimerId[j]
      BY DEF With
    <3> HIDE DEF w
    <3>3. keyToTimerId' = w
      BY <3>1 DEF w
    <3> QED
      BY <2>2, <3>2, <3>3
  <2> QED
    BY <1>1, <2>1, <2>2
<1> QED
  BY <1>3, <1>6, <1>9, <1>12, <1>13, <1>14, <1>15 DEF t, r, Adds

LEMMA AddedInv ==
    ASSUME IInv, NEW k \in Key \cup {NoKey}, NEW ms \in Timeout, NEW repeat \in Repeat,
           Added(k, ms, repeat)
    PROVE  IInv'
<1> DEFINE t == BeforeTimer(k)
           r == BeforeRepeats(k)
           p == Res * ms
           node == [id |-> nextId, expires |-> now + p, key |-> k]
<1>0. Adds(k, p, repeat)
  BY After
<1> HIDE DEF p
<1>1. /\ TimerSound(t) /\ Placed(t) \subseteq Placed(timer)
      /\ Nodes(t) = {n \in Nodes(timer) : k # NoKey => n.key # k}
      /\ DOMAIN r = {x \in DOMAIN repeats : k \in DOMAIN keyToTimerId => x # keyToTimerId[k]}
      /\ \A x \in DOMAIN r : r[x] = repeats[x]
  BY Before
<1>2. /\ node \in TimerNode /\ nextId \in Id /\ nextId < MaxId /\ nextId' = nextId + 1
      /\ TimerSound(timer') /\ Placed(timer') = Placed(t) \cup {nextId}
      /\ Nodes(timer') = Nodes(t) \cup {node}
      /\ DOMAIN repeats' \subseteq DOMAIN r \cup {nextId}
      /\ \A x \in DOMAIN r : repeats'[x] = r[x]
      /\ nextId \in DOMAIN repeats' => nextId \in DOMAIN r \/ repeats'[nextId] \in Counted
      /\ DOMAIN keyToTimerId' = DOMAIN keyToTimerId \cup ({k} \ {NoKey})
      /\ \A j \in DOMAIN keyToTimerId' : keyToTimerId'[j] = IF j = k THEN nextId ELSE keyToTimerId[j]
      /\ UNCHANGED <<now, running, processed, thrown>>
  BY <1>0 DEF Adds
<1>3. node.id = nextId /\ node.key = k
  OBVIOUS
<1> HIDE DEF t, r, node
<1>4. nextId \in Nat /\ nextId + 1 \in 0..MaxId
  BY <1>2, InvParts, BoundAssumption
<1>5. /\ \A n \in Nodes(timer) : n \in TimerNode /\ n.id \in Placed(timer) /\ KeyIsValid(n) /\ n.id < nextId
      /\ \A n \in ToSet(running) : n \in TimerNode /\ n.id < nextId /\ n.id \notin Placed(timer)
      /\ \A x \in DOMAIN repeats : x \in Id /\ repeats[x] \in Counted /\ x < nextId
      /\ \A j \in DOMAIN keyToTimerId : j \in Key /\ j # NoKey /\ keyToTimerId[j] \in Id /\ keyToTimerId[j] < nextId
  BY InvParts
<1>6. \A x \in Id : x \in Nat /\ (x < nextId => x # nextId /\ x < nextId + 1)
  BY <1>4, BoundAssumption DEF Id
<1>7. \A n \in TimerNode : n.id \in Id
  BY DEF TimerNode
<1>8. nextId < nextId + 1
  BY <1>4
<1> USE DEF IInv
<1>9. TypeOK'
  <2>1. timer' \in TimerType
    BY <1>2 DEF TimerSound
  <2>2. DOMAIN repeats' \subseteq Id /\ Range(repeats') \subseteq Counted
    <3>1. ASSUME NEW x \in DOMAIN repeats' PROVE x \in Id /\ repeats'[x] \in Counted
      BY <1>1, <1>2, <1>5
    <3> QED
      BY <3>1, RangeIn
  <2>3. DOMAIN keyToTimerId' \subseteq Key /\ Range(keyToTimerId') \subseteq Id
    <3>1. ASSUME NEW j \in DOMAIN keyToTimerId' PROVE j \in Key /\ keyToTimerId'[j] \in Id
      BY <1>2, <1>5
    <3> QED
      BY <3>1, RangeIn
  <2> QED
    BY <1>2, <1>4, <2>1, <2>2, <2>3 DEF TypeOK, TimerType
<1>10. Issued'
  <2>1. ASSUME NEW n \in Nodes(timer') PROVE n.id < nextId + 1
    BY <1>1, <1>2, <1>3, <1>5, <1>6, <1>7, <1>8
  <2>2. ASSUME NEW n \in ToSet(running) PROVE n.id < nextId + 1 /\ n.id \notin Placed(timer')
    BY <1>1, <1>2, <1>5, <1>6, <1>7
  <2>3. ASSUME NEW x \in DOMAIN repeats' PROVE x < nextId + 1
    BY <1>1, <1>2, <1>5, <1>6, <1>8
  <2>4. ASSUME NEW j \in DOMAIN keyToTimerId' PROVE keyToTimerId'[j] < nextId + 1
    BY <1>2, <1>5, <1>6, <1>8
  <2> QED
    BY <1>2, <2>1, <2>2, <2>3, <2>4 DEF Issued
<1>11. KeysOwn'
  <2>1. ASSUME NEW j \in DOMAIN keyToTimerId', NEW n \in Nodes(timer') \cup ToSet(running),
               n.id = keyToTimerId'[j]
        PROVE  n.key = j
    <3>1. CASE n = node
      <4>1. j = k
        BY <1>2, <1>3, <1>5, <1>6, <2>1, <3>1
      <4> QED
        BY <1>3, <3>1, <4>1
    <3>2. CASE n # node
      <4>1. n \in Nodes(timer) \cup ToSet(running) /\ n.id < nextId /\ n.id # nextId
        BY <1>1, <1>2, <1>5, <1>6, <1>7, <3>2
      <4>2. j \in DOMAIN keyToTimerId /\ keyToTimerId'[j] = keyToTimerId[j]
        BY <1>2, <2>1, <4>1
      <4> QED
        BY <2>1, <4>1, <4>2 DEF KeysOwn
    <3> QED
      BY <3>1, <3>2
  <2> QED
    BY <1>2, <2>1 DEF KeysOwn
<1>12. RunsValid'
  <2>1. ASSUME NEW n \in ToSet(running), n.id \in DOMAIN repeats' PROVE KeyIsValid(n)'
    <3>1. n.id # nextId /\ n.id \in DOMAIN repeats /\ (k \in DOMAIN keyToTimerId => n.id # keyToTimerId[k])
      BY <1>1, <1>2, <1>5, <1>6, <1>7, <2>1
    <3>2. KeyIsValid(n)
      BY <3>1 DEF RunsValid
    <3> QED
      BY <1>2, <3>1, <3>2 DEF KeyIsValid
  <2> QED
    BY <1>2, <2>1 DEF RunsValid
<1>13. InTick'
  BY <1>2 DEF InTick
<1>14. InStep'
  <2>1. ASSUME NEW n \in Nodes(timer') PROVE KeyIsValid(n)'
    <3>1. CASE n = node
      BY <1>2, <1>3, <3>1 DEF KeyIsValid
    <3>2. CASE n # node
      BY <1>1, <1>2, <1>5, <3>2 DEF KeyIsValid
    <3> QED
      BY <3>1, <3>2
  <2>2. ASSUME NEW x, x = nextId PROVE Living(x)'
    BY <1>2, <1>3, <2>2 DEF Living
  <2>3. ASSUME NEW x, Living(x), \A n \in Nodes(timer) : n.id = x /\ k # NoKey => n.key # k PROVE Living(x)'
    BY <1>1, <1>2, <2>3 DEF Living
  <2>4. ASSUME NEW x \in DOMAIN repeats' PROVE Living(x)'
    <3>1. CASE x = nextId
      BY <2>2, <3>1
    <3>2. CASE x # nextId
      <4>1. x \in DOMAIN repeats /\ (k \in DOMAIN keyToTimerId => x # keyToTimerId[k])
        BY <1>1, <1>2, <3>2
      <4>2. Living(x)
        BY <4>1 DEF InStep
      <4>3. \A n \in Nodes(timer) : n.id = x /\ k # NoKey => n.key # k
        BY <1>5, <4>1 DEF KeyIsValid
      <4> QED
        BY <2>3, <4>2, <4>3
    <3> QED
      BY <3>1, <3>2
  <2>5. ASSUME NEW j \in DOMAIN keyToTimerId', NEW x, x = keyToTimerId'[j] PROVE Living(x)'
    <3>1. CASE x = nextId
      BY <2>2, <3>1
    <3>2. CASE x # nextId
      <4>1. j \in DOMAIN keyToTimerId /\ j # k /\ x = keyToTimerId[j]
        BY <1>2, <2>5, <3>2
      <4>2. Living(x)
        BY <4>1 DEF InStep
      <4>3. \A n \in Nodes(timer) : n.id = x /\ k # NoKey => n.key # k
        BY <4>1 DEF KeysOwn
      <4> QED
        BY <2>3, <4>2, <4>3
    <3> QED
      BY <3>1, <3>2
  <2>6. (\A j \in DOMAIN keyToTimerId : Living(keyToTimerId[j]))'
    BY <2>5 DEF Living
  <2> QED
    BY <2>1, <2>4, <2>6 DEF InStep
<1> QED
  BY <1>2, <1>9, <1>10, <1>11, <1>12, <1>13, <1>14

LEMMA TickPopInv ==
    ASSUME IInv, TickPop
    PROVE  IInv'
<1> DEFINE m == timer.heap[1]
<1>1. /\ running = <<>> /\ running' = <<m>> /\ timer' = del(timer, 1) /\ processed \in 0..(Limit - 1)
      /\ UNCHANGED <<now, manager, processed, thrown>> /\ timer.heap # <<>>
  BY DEF TickPop, FrontExpired
<1>2. 1 \in 1..Len(timer.heap)
  <2>1. timer.heap \in Seq(TimerNode) /\ timer.heap # <<>>
    BY <1>1 DEF IInv, TypeOK
  <2>2. Len(timer.heap) \in Nat /\ Len(timer.heap) # 0
    BY <2>1, EmptySeq
  <2> QED
    BY <2>2
<1>3. m \in Nodes(timer)
  BY <1>2, InNodes
<1>4. /\ TimerSound(timer') /\ Placed(timer') = Placed(timer) \ {m.id}
      /\ Nodes(timer') = Nodes(timer) \ {m}
  BY <1>1, <1>2, InvParts, delRemoves
<1>5. ToSet(running) = {} /\ ToSet(running') = {m}
  BY <1>1, NoneRuns, OneRuns
<1> HIDE DEF m
<1>6. m \in TimerNode /\ m.id < nextId /\ KeyIsValid(m)
  BY <1>3, InvParts
<1>7. UNCHANGED <<nextId, repeats, keyToTimerId>>
  BY <1>1 DEF manager
<1> USE DEF IInv
<1>8. TypeOK'
  <2>1. timer' \in TimerType
    BY <1>4 DEF TimerSound
  <2>2. running' \in Seq(TimerNode) /\ Len(running') <= 1
    BY <1>1, <1>6
  <2> QED
    BY <1>1, <1>7, <2>1, <2>2 DEF TypeOK, TimerType
<1>9. Issued'
  BY <1>4, <1>5, <1>6, <1>7 DEF Issued
<1>10. KeysOwn'
  BY <1>3, <1>4, <1>5, <1>7 DEF KeysOwn
<1>11. RunsValid'
  BY <1>5, <1>6, <1>7 DEF RunsValid, KeyIsValid
<1>12. InTick'
  BY <1>1 DEF InTick
<1>13. InStep'
  <2>1. ASSUME NEW n \in Nodes(timer') PROVE KeyIsValid(n)'
    BY <1>4, <1>7 DEF InStep, KeyIsValid
  <2>2. ASSUME NEW x, Living(x) PROVE Living(x)'
    BY <1>1, <1>3, <1>4, <1>5, <2>2 DEF Living
  <2>3. (\A x \in DOMAIN repeats : Living(x))'
    BY <1>7, <2>2 DEF InStep
  <2>4. ASSUME NEW j \in DOMAIN keyToTimerId', NEW x, x = keyToTimerId'[j] PROVE Living(x)'
    BY <1>7, <2>2, <2>4 DEF InStep
  <2>5. (\A j \in DOMAIN keyToTimerId : Living(keyToTimerId[j]))'
    BY <2>4 DEF Living
  <2> QED
    BY <2>1, <2>3, <2>5 DEF InStep
<1> QED
  BY <1>4, <1>8, <1>9, <1>10, <1>11, <1>12, <1>13

(* What every end of a callback does, whether it returns or throws. *)
LEMMA CallbackOver ==
    ASSUME IInv, CallbackEnd \/ CallbackThrow
    PROVE  /\ running # <<>> /\ running[1] \in TimerNode /\ ToSet(running) = {running[1]}
           /\ running[1].id < nextId /\ running[1].id \notin Placed(timer)
           /\ running' = <<>> /\ ToSet(running') = {} /\ UNCHANGED <<now, nextId>>
           /\ processed' \in -1..Limit /\ running' \in Seq(TimerNode) /\ Len(running') <= 1
           /\ InTick'
<1>1. /\ running # <<>> /\ running' = <<>> /\ processed' = processed + 1 /\ UNCHANGED <<now, nextId>>
  BY DEF CallbackEnd, CallbackThrow, manager
<1>2. running[1] \in TimerNode /\ ToSet(running) = {running[1]}
  BY <1>1, RunningCases DEF IInv
<1>3. running[1].id < nextId /\ running[1].id \notin Placed(timer)
  BY <1>2, InvParts
<1>4. processed' \in -1..Limit
  <2>1. processed \in 0..(Limit - 1)
    BY <1>1 DEF IInv, InTick
  <2> QED
    BY <1>1, <2>1, LimitAssumption
<1>5. ToSet(running') = {} /\ running' \in Seq(TimerNode) /\ Len(running') <= 1 /\ InTick'
  BY <1>1, NoneRuns DEF InTick
<1> QED
  BY <1>1, <1>2, <1>3, <1>4, <1>5

LEMMA CallbackThrowInv ==
    ASSUME IInv, CallbackThrow
    PROVE  IInv'
<1> DEFINE m == running[1]
<1>1. UNCHANGED <<timer, repeats, keyToTimerId>> /\ thrown' = thrown \cup {m.id}
  BY DEF CallbackThrow, manager
<1>2. /\ m \in TimerNode /\ ToSet(running) = {m}
      /\ running' = <<>> /\ ToSet(running') = {} /\ UNCHANGED <<now, nextId>>
      /\ processed' \in -1..Limit /\ running' \in Seq(TimerNode) /\ Len(running') <= 1
      /\ InTick'
  BY CallbackOver
<1> HIDE DEF m
<1>3. m.id \in Id
  BY <1>2 DEF TimerNode
<1> USE DEF IInv
<1>4. TypeOK'
  BY <1>1, <1>2, <1>3 DEF TypeOK
<1>5. Issued' /\ KeysOwn' /\ RunsValid'
  BY <1>1, <1>2 DEF Issued, KeysOwn, RunsValid
<1>6. InStep'
  <2>1. ASSUME NEW x, Living(x) PROVE Living(x)'
    BY <1>1, <1>2, <2>1 DEF Living
  <2>2. (\A n \in Nodes(timer) : KeyIsValid(n))'
    BY <1>1 DEF InStep, KeyIsValid
  <2>3. (\A x \in DOMAIN repeats : Living(x))'
    BY <1>1, <2>1 DEF InStep
  <2>4. ASSUME NEW j \in DOMAIN keyToTimerId', NEW x, x = keyToTimerId'[j] PROVE Living(x)'
    BY <1>1, <2>1, <2>4 DEF InStep
  <2>5. (\A j \in DOMAIN keyToTimerId : Living(keyToTimerId[j]))'
    BY <2>4 DEF Living
  <2> QED
    BY <2>2, <2>3, <2>5 DEF InStep
<1> QED
  BY <1>1, <1>2, <1>4, <1>5, <1>6

(* The node that ran is set again. *)
LEMMA ReaddedNode ==
    ASSUME IInv, NEW m \in TimerNode, m.id \notin Placed(timer), NEW p \in Nat, Readded(m, p)
    PROVE  LET again == [m EXCEPT !.expires = now + p] IN
           /\ again \in TimerNode /\ again.id = m.id /\ again.key = m.key
           /\ again = [id |-> m.id, expires |-> now + p, key |-> m.key]
           /\ TimerSound(timer') /\ Placed(timer') = Placed(timer) \cup {m.id}
           /\ Nodes(timer') = Nodes(timer) \cup {again} /\ UNCHANGED keyToTimerId
<1> DEFINE again == [m EXCEPT !.expires = now + p]
<1>1. now + p \in Nat
  BY BoundAssumption DEF IInv, TypeOK
<1>2. /\ again \in TimerNode /\ again.id = m.id /\ again.key = m.key
      /\ again = [id |-> m.id, expires |-> now + p, key |-> m.key]
  BY <1>1 DEF TimerNode
<1>3. timer' = Add(timer, again) /\ UNCHANGED keyToTimerId
  BY DEF Readded
<1> HIDE DEF again
<1>4. /\ TimerSound(timer') /\ Placed(timer') = Placed(timer) \cup {m.id}
      /\ Nodes(timer') = Nodes(timer) \cup {again}
  BY <1>2, <1>3, InvParts, AddInserts
<1> QED
  BY <1>2, <1>3, <1>4 DEF again

LEMMA CallbackLastInv ==
    ASSUME IInv, CallbackEnd, CallbackLast(running[1])
    PROVE  IInv'
<1> DEFINE m == running[1]
<1>1. /\ m \in TimerNode /\ ToSet(running) = {m} /\ m.id < nextId /\ m.id \notin Placed(timer)
      /\ running' = <<>> /\ ToSet(running') = {} /\ UNCHANGED <<now, nextId>>
      /\ processed' \in -1..Limit /\ running' \in Seq(TimerNode) /\ Len(running') <= 1
      /\ InTick'
  BY CallbackOver
<1>2. /\ KeyIsValid(m) /\ repeats' = Without(repeats, m.id)
      /\ keyToTimerId' = IF m.key = NoKey THEN keyToTimerId ELSE Without(keyToTimerId, m.key)
      /\ UNCHANGED <<timer, thrown>>
  BY DEF CallbackLast, KeyErased, CallbackEnd
<1> HIDE DEF m
<1>3. DOMAIN repeats' = DOMAIN repeats \ {m.id} /\ \A x \in DOMAIN repeats' : repeats'[x] = repeats[x]
  BY <1>2, WithoutEntry, ZenonT(60)
<1>4. /\ DOMAIN keyToTimerId' = DOMAIN keyToTimerId \ {m.key}
      /\ \A j \in DOMAIN keyToTimerId' : keyToTimerId'[j] = keyToTimerId[j]
  <2>1. CASE m.key = NoKey
    BY <1>2, <2>1, InvParts
  <2>2. CASE m.key # NoKey
    BY <1>2, <2>2, WithoutEntry, ZenonT(60)
  <2> QED
    BY <2>1, <2>2
<1> USE DEF IInv
<1>5. TypeOK'
  <2>1. DOMAIN repeats' \subseteq Id /\ Range(repeats') \subseteq Counted
    BY <1>3, RangeIn DEF TypeOK
  <2>2. DOMAIN keyToTimerId' \subseteq Key /\ Range(keyToTimerId') \subseteq Id
    BY <1>4, RangeIn DEF TypeOK
  <2> QED
    BY <1>1, <1>2, <2>1, <2>2 DEF TypeOK
<1>6. Issued' /\ KeysOwn' /\ RunsValid'
  BY <1>1, <1>2, <1>3, <1>4 DEF Issued, KeysOwn, RunsValid
<1>7. InStep'
  <2>1. ASSUME NEW x, Living(x), x # m.id PROVE Living(x)'
    BY <1>1, <1>2, <2>1 DEF Living
  <2>2. ASSUME NEW n \in Nodes(timer') PROVE KeyIsValid(n)'
    <3>1. n \in Nodes(timer) /\ KeyIsValid(n) /\ n.id # m.id
      BY <1>1, <1>2, InvParts
    <3> QED
      BY <1>2, <1>4, <3>1 DEF KeyIsValid
  <2>3. ASSUME NEW x \in DOMAIN repeats' PROVE Living(x)'
    BY <1>3, <2>1 DEF InStep
  <2>4. ASSUME NEW j \in DOMAIN keyToTimerId', NEW x, x = keyToTimerId'[j] PROVE Living(x)'
    <3>1. j \in DOMAIN keyToTimerId /\ j # m.key /\ x = keyToTimerId[j]
      BY <1>4, <2>4
    <3>2. x # m.id
      BY <1>1, <3>1 DEF KeysOwn
    <3> QED
      BY <2>1, <3>1, <3>2 DEF InStep
  <2>5. (\A j \in DOMAIN keyToTimerId : Living(keyToTimerId[j]))'
    BY <2>4 DEF Living
  <2> QED
    BY <2>2, <2>3, <2>5 DEF InStep
<1> QED
  BY <1>1, <1>2, <1>5, <1>6, <1>7

(* The ends of a callback that set the timer again. *)
Repeats(node) ==
    /\ KeyIsValid(node) /\ node.id \in DOMAIN repeats
    /\ Readded(node, repeats[node.id].period)
    /\ DOMAIN repeats' = DOMAIN repeats
    /\ \A x \in DOMAIN repeats : x # node.id => repeats'[x] = repeats[x]
    /\ repeats'[node.id] \in Counted /\ repeats'[node.id].period = repeats[node.id].period
    /\ \/ repeats[node.id].remaining > 1 /\ repeats'[node.id].remaining = repeats[node.id].remaining - 1
       \/ repeats[node.id].remaining = -1 /\ repeats'[node.id].remaining = -1

LEMMA CountedIs ==
    ASSUME NEW c \in Counted
    PROVE  c.period \in Nat /\ (c.remaining = -1 \/ c.remaining \in Nat \ {0})
  BY DEF Counted

LEMMA RepeatsIs ==
    ASSUME IInv, NEW m \in TimerNode, CallbackAgain(m) \/ CallbackForever(m)
    PROVE  Repeats(m)
<1>1. /\ KeyIsValid(m) /\ m.id \in DOMAIN repeats
      /\ Readded(m, repeats[m.id].period)
  BY DEF CallbackAgain, CallbackForever
<1>2. repeats[m.id] \in Counted
  BY <1>1, InvParts
<1>3. CASE CallbackForever(m)
  BY <1>1, <1>2, <1>3 DEF CallbackForever, Repeats
<1>4. CASE CallbackAgain(m)
  <2> DEFINE c == repeats[m.id]
             l == c.remaining
             r == [repeats EXCEPT ![m.id].remaining = l - 1]
  <2>1. l > 1 /\ repeats' = r
    BY <1>4 DEF CallbackAgain
  <2>2. DOMAIN r = DOMAIN repeats /\ \A x \in DOMAIN repeats : x # m.id => r[x] = repeats[x]
    OBVIOUS
  <2>3. r[m.id] = [c EXCEPT !.remaining = l - 1]
    BY <1>1
  <2>4. l - 1 \in Nat \ {0}
    <3>1. l = -1 \/ l \in Nat \ {0}
      BY <1>2, CountedIs
    <3> HIDE DEF l
    <3> QED
      BY <2>1, <3>1
  <2>5. r[m.id] \in Counted /\ r[m.id].period = c.period /\ r[m.id].remaining = l - 1
    <3>1. c.period \in Nat /\ c = [remaining |-> l, period |-> c.period]
      BY <1>2 DEF Counted
    <3>2. r[m.id] = [remaining |-> l - 1, period |-> c.period]
      BY <1>2, <2>3, <3>1 DEF Counted
    <3> HIDE DEF r, c, l
    <3> QED
      BY <2>4, <3>1, <3>2 DEF Counted
  <2> HIDE DEF r
  <2> QED
    BY <1>1, <2>1, <2>2, <2>5 DEF Repeats
<1> QED
  BY <1>3, <1>4

LEMMA RepeatsInv ==
    ASSUME IInv, CallbackEnd, Repeats(running[1])
    PROVE  IInv'
<1> DEFINE m == running[1]
           again == [m EXCEPT !.expires = now + repeats[m.id].period]
<1>1. /\ m \in TimerNode /\ ToSet(running) = {m} /\ m.id < nextId /\ m.id \notin Placed(timer)
      /\ running' = <<>> /\ ToSet(running') = {} /\ UNCHANGED <<now, nextId>>
      /\ processed' \in -1..Limit /\ running' \in Seq(TimerNode) /\ Len(running') <= 1
      /\ InTick'
  BY CallbackOver
<1>2. /\ KeyIsValid(m) /\ m.id \in DOMAIN repeats /\ Readded(m, repeats[m.id].period)
      /\ DOMAIN repeats' = DOMAIN repeats /\ repeats'[m.id] \in Counted
      /\ \A x \in DOMAIN repeats : x # m.id => repeats'[x] = repeats[x]
  BY DEF Repeats
<1>3. repeats[m.id].period \in Nat
  BY <1>2, InvParts, CountedIs
<1>4. /\ again \in TimerNode /\ again.id = m.id /\ again.key = m.key
      /\ TimerSound(timer') /\ Placed(timer') = Placed(timer) \cup {m.id}
      /\ Nodes(timer') = Nodes(timer) \cup {again} /\ UNCHANGED keyToTimerId
  BY <1>1, <1>2, <1>3, ReaddedNode
<1>5. thrown' = thrown
  BY DEF CallbackEnd
<1> HIDE DEF m, again
<1> USE DEF IInv
<1>6. TypeOK'
  <2>1. timer' \in TimerType
    BY <1>4 DEF TimerSound
  <2>2. DOMAIN repeats' \subseteq Id /\ Range(repeats') \subseteq Counted
    <3>1. ASSUME NEW x \in DOMAIN repeats' PROVE x \in Id /\ repeats'[x] \in Counted
      BY <1>2, InvParts
    <3> QED
      BY <3>1, RangeIn
  <2> QED
    BY <1>1, <1>4, <1>5, <2>1, <2>2 DEF TypeOK, TimerType
<1>7. Issued'
  BY <1>1, <1>2, <1>4 DEF Issued
<1>8. KeysOwn'
  BY <1>1, <1>4 DEF KeysOwn
<1>9. RunsValid'
  BY <1>1 DEF RunsValid
<1>10. InStep'
  <2>1. ASSUME NEW x, Living(x) PROVE Living(x)'
    BY <1>1, <1>4, <1>5, <2>1 DEF Living
  <2>2. ASSUME NEW n \in Nodes(timer') PROVE KeyIsValid(n)'
    BY <1>2, <1>4 DEF InStep, KeyIsValid
  <2>3. (\A x \in DOMAIN repeats : Living(x))'
    BY <1>2, <2>1 DEF InStep
  <2>4. ASSUME NEW j \in DOMAIN keyToTimerId', NEW x, x = keyToTimerId'[j] PROVE Living(x)'
    BY <1>4, <2>1, <2>4 DEF InStep
  <2>5. (\A j \in DOMAIN keyToTimerId : Living(keyToTimerId[j]))'
    BY <2>4 DEF Living
  <2> QED
    BY <2>2, <2>3, <2>5 DEF InStep
<1> QED
  BY <1>1, <1>4, <1>6, <1>7, <1>8, <1>9, <1>10

LEMMA CallbackReplacedInv ==
    ASSUME IInv, CallbackEnd, CallbackReplaced(running[1])
    PROVE  IInv'
<1> DEFINE m == running[1]
<1>1. /\ m \in TimerNode /\ ToSet(running) = {m}
      /\ running' = <<>> /\ ToSet(running') = {} /\ UNCHANGED <<now, nextId>>
      /\ processed' \in -1..Limit /\ running' \in Seq(TimerNode) /\ Len(running') <= 1
      /\ InTick'
  BY CallbackOver
<1>2. ~ KeyIsValid(m) /\ UNCHANGED <<timer, repeats, keyToTimerId, thrown>>
  BY DEF CallbackReplaced, CallbackEnd
<1> HIDE DEF m
<1> USE DEF IInv
<1>3. TypeOK'
  BY <1>1, <1>2 DEF TypeOK
<1>4. Issued' /\ KeysOwn' /\ RunsValid'
  BY <1>1, <1>2 DEF Issued, KeysOwn, RunsValid
<1>5. InStep'
  <2>1. ASSUME NEW x, Living(x), x # m.id PROVE Living(x)'
    BY <1>1, <1>2, <2>1 DEF Living
  <2>2. (\A n \in Nodes(timer) : KeyIsValid(n))'
    BY <1>2 DEF InStep, KeyIsValid
  <2>3. ASSUME NEW x \in DOMAIN repeats' PROVE Living(x)'
    <3>1. x \in DOMAIN repeats /\ x # m.id
      BY <1>1, <1>2 DEF RunsValid
    <3> QED
      BY <2>1, <3>1 DEF InStep
  <2>4. ASSUME NEW j \in DOMAIN keyToTimerId', NEW x, x = keyToTimerId'[j] PROVE Living(x)'
    <3>1. j \in DOMAIN keyToTimerId /\ x = keyToTimerId[j]
      BY <1>2, <2>4
    <3>2. x # m.id
      BY <1>1, <1>2, <3>1 DEF KeysOwn, KeyIsValid
    <3> QED
      BY <2>1, <3>1, <3>2 DEF InStep
  <2>5. (\A j \in DOMAIN keyToTimerId : Living(keyToTimerId[j]))'
    BY <2>4 DEF Living
  <2> QED
    BY <2>2, <2>3, <2>5 DEF InStep
<1> QED
  BY <1>1, <1>2, <1>3, <1>4, <1>5

LEMMA NextInv == ASSUME IInv, [Next]_vars PROVE IInv'
<1>1. CASE Advance \/ TickBegin \/ TickEnd \/ UNCHANGED vars
  BY <1>1, QuietInv
<1>2. CASE TickPop
  BY <1>2, TickPopInv
<1>3. CASE CallbackEnd
  <2>1. running[1] \in TimerNode
    BY <1>3, CallbackOver
  <2>2. CASE CallbackLast(running[1])
    BY <1>3, <2>2, CallbackLastInv
  <2>3. CASE CallbackAgain(running[1]) \/ CallbackForever(running[1])
    BY <1>3, <2>1, <2>3, RepeatsIs, RepeatsInv
  <2>4. CASE CallbackReplaced(running[1])
    BY <1>3, <2>4, CallbackReplacedInv
  <2> QED
    BY <1>3, <2>2, <2>3, <2>4 DEF CallbackEnd
<1>4. CASE CallbackThrow
  BY <1>4, CallbackThrowInv
<1>5. ASSUME NEW k \in Key, CancelByKey(k) PROVE IInv'
  BY <1>5, CancelByKeyInv
<1>6. ASSUME NEW ms \in Timeout, NEW repeat \in Repeat, Schedule(ms, repeat) PROVE IInv'
  BY <1>6, AddedInv DEF Added
<1>7. ASSUME NEW ms \in Timeout, NEW repeat \in Repeat, NEW k \in Key, ScheduleWithKey(k, ms, repeat) PROVE IInv'
  BY <1>7, AddedInv DEF Added
<1> QED
  BY <1>1, <1>2, <1>3, <1>4, <1>5, <1>6, <1>7 DEF Next, TickStep

(* The index is exact: as many places as nodes. *)
LEMMA AllPlaced ==
    ASSUME NEW t, TimerSound(t) PROVE Cardinality(Placed(t)) = Len(t.heap)
<1> DEFINE n == Len(t.heap)
           f == [k \in 1..n |-> t.heap[k].id]
<1>1. n \in Nat
  BY DEF TimerSound, TimerType
<1>2. /\ \A k \in 1..n : t.heap[k].id \in Placed(t) /\ t.ref[t.heap[k].id] = k
      /\ \A x \in Placed(t) : t.ref[x] \in 1..n /\ t.heap[t.ref[x]].id = x
  BY DEF TimerSound, Located
<1>3. f \in Bijection(1..n, Placed(t))
  <2> HIDE DEF n
  <2> QED
    BY <1>2 DEF Bijection, Injection, Surjection, IsInjective
<1> HIDE DEF f
<1>4. ExistsBijection(1..n, Placed(t))
  BY <1>3 DEF ExistsBijection
<1> QED
  BY <1>1, <1>4, FS_CountingElements

LEMMA InvSound == ASSUME IInv PROVE HeapSound /\ TablesInStep
<1>1. TimerSound(timer) /\ TypeOK /\ InStep
  BY DEF IInv
<1>2. HeapOrdered
  BY <1>1 DEF TimerSound, Sorted, E, HeapOrdered
<1>3. RefExact
  BY <1>1, AllPlaced DEF TimerSound, Located, Placed, RefExact
<1>4. TablesInStep
  BY <1>1, InStepIs
<1> QED
  BY <1>1, <1>2, <1>3, <1>4 DEF HeapSound

LEMMA Inductive == Spec => []IInv
<1>1. Init => IInv
  BY InitInv
<1>2. IInv /\ [Next]_vars => IInv'
  BY NextInv
<1> QED
  BY <1>1, <1>2, PTL DEF Spec

(* After any calls, whichever node of the heap they insert, cancel or pop,  *)
(* no node is due before its parent and _ref tells each node's place and    *)
(* no other: what siftUp, siftDown and swapNode are to keep.                *)
THEOREM HeapStaysSound == Spec => []HeapSound
<1>1. IInv => HeapSound
  BY InvSound
<1> QED
  BY <1>1, Inductive, PTL

(* The tables of keys and of repetitions stay in step with the heap: a key  *)
(* always finds its pending timer, and what is over leaves nothing behind   *)
(* but where its callback threw.                                            *)
THEOREM TablesStayInStep == Spec => []TablesInStep
<1>1. IInv => TablesInStep
  BY InvSound
<1> QED
  BY <1>1, Inductive, PTL

-----------------------------------------------------------------------------
(* The manager implements TimerService *)

Pending == {AsTimer(n) : n \in ToSet(timer.heap)}
Firing == {AsTimer(n) : n \in ToSet(running)}

LEMMA AsTimerIs ==
    ASSUME NEW n
    PROVE  /\ AsTimer(n).id = n.id /\ AsTimer(n).key = n.key /\ AsTimer(n).expires = n.expires
           /\ AsTimer(n).left = Left(n.id)
           /\ AsTimer(n).period = IF Left(n.id) = 0 THEN 0 ELSE repeats[n.id].period
  BY DEF AsTimer

LEMMA PendingIs ==
    ASSUME IInv PROVE Pending = {AsTimer(n) : n \in Nodes(timer)}
  BY InvParts, HeapNodes DEF Pending

LEMMA PendingNext ==
    ASSUME IInv' PROVE Pending' = {AsTimer(n)' : n \in Nodes(timer')}
<1>1. timer' \in TimerType
  BY DEF IInv, TimerSound
<1>2. ToSet(timer'.heap) = Nodes(timer')
  BY <1>1, HeapNodes
<1> QED
  BY <1>2 DEF Pending

(* A timer whose repetitions a step leaves alone stays what it was. *)
LEMMA SameTimer ==
    ASSUME NEW n, n.id \in DOMAIN repeats' <=> n.id \in DOMAIN repeats,
           n.id \in DOMAIN repeats => repeats'[n.id] = repeats[n.id]
    PROVE  AsTimer(n)' = AsTimer(n)
  BY DEF AsTimer, Left

(* What a step that takes the repetitions of key k away, or of none, does   *)
(* to the timers: those of other keys stay, and the one that fires with key *)
(* k is given up.                                                           *)
TakesAway(k) ==
    \A x \in DOMAIN repeats \cup DOMAIN repeats' : x < nextId =>
        /\ x \in DOMAIN repeats' <=> x \in DOMAIN repeats /\ (k \in DOMAIN keyToTimerId => x # keyToTimerId[k])
        /\ x \in DOMAIN repeats' => repeats'[x] = repeats[x]

LEMMA OthersStay ==
    ASSUME IInv, NEW k \in Key \cup {NoKey}, TakesAway(k),
           NEW n \in Nodes(timer) \cup ToSet(running), k # NoKey => n.key # k
    PROVE  AsTimer(n)' = AsTimer(n)
<1>1. n.id < nextId
  BY InvParts
<1>2. k \in DOMAIN keyToTimerId => n.id # keyToTimerId[k]
  BY InvParts DEF IInv, KeysOwn
<1> QED
  BY <1>1, <1>2, SameTimer DEF TakesAway

LEMMA FiringGivenUp ==
    ASSUME IInv, NEW k \in Key \cup {NoKey}, TakesAway(k), UNCHANGED running
    PROVE  Firing' = Service!GivenUp(k)
<1> DEFINE G(t) == IF t.key = k /\ k # NoKey THEN [t EXCEPT !.left = 0, !.period = 0] ELSE t
<1>1. ASSUME NEW n \in ToSet(running) PROVE AsTimer(n)' = G(AsTimer(n))
  <2>1. CASE n.key = k /\ k # NoKey
    <3>1. n.id \notin DOMAIN repeats'
      <4>1. n.id < nextId
        BY InvParts
      <4>2. n.id \in DOMAIN repeats => k \in DOMAIN keyToTimerId /\ keyToTimerId[k] = n.id
        BY <2>1 DEF IInv, RunsValid, KeyIsValid
      <4> QED
        BY <4>1, <4>2 DEF TakesAway
    <3>2. AsTimer(n)' = [id |-> n.id, key |-> n.key, expires |-> n.expires, left |-> 0, period |-> 0]
      BY <3>1 DEF AsTimer, Left
    <3>3. [AsTimer(n) EXCEPT !.left = 0, !.period = 0]
             = [id |-> n.id, key |-> n.key, expires |-> n.expires, left |-> 0, period |-> 0]
      <4> DEFINE l == Left(n.id)
                 p == IF Left(n.id) = 0 THEN 0 ELSE repeats[n.id].period
      <4>1. AsTimer(n) = [id |-> n.id, key |-> n.key, expires |-> n.expires, left |-> l, period |-> p]
        BY DEF AsTimer
      <4> HIDE DEF l, p
      <4>2. [AsTimer(n) EXCEPT !.left = 0]
               = [id |-> n.id, key |-> n.key, expires |-> n.expires, left |-> 0, period |-> p]
        BY <4>1
      <4>3. [[id |-> n.id, key |-> n.key, expires |-> n.expires, left |-> 0, period |-> p] EXCEPT !.period = 0]
               = [id |-> n.id, key |-> n.key, expires |-> n.expires, left |-> 0, period |-> 0]
        OBVIOUS
      <4>4. [AsTimer(n) EXCEPT !.left = 0, !.period = 0]
               = [[AsTimer(n) EXCEPT !.left = 0] EXCEPT !.period = 0]
        BY <4>1
      <4> QED
        BY <4>2, <4>3, <4>4
    <3> QED
      BY <2>1, <3>2, <3>3, AsTimerIs
  <2>2. CASE ~ (n.key = k /\ k # NoKey)
    <3>1. AsTimer(n)' = AsTimer(n)
      BY <2>2, OthersStay
    <3> QED
      BY <2>2, <3>1, AsTimerIs
  <2> QED
    BY <2>1, <2>2
<1>2. Firing' = {AsTimer(n)' : n \in ToSet(running)}
  BY DEF Firing
<1>3. Firing' = {G(AsTimer(n)) : n \in ToSet(running)}
  BY <1>1, <1>2
<1>4. {G(AsTimer(n)) : n \in ToSet(running)} = {G(t) : t \in Firing}
  BY DEF Firing
<1> QED
  BY <1>3, <1>4 DEF Service!GivenUp, Firing

(* What is pending of other keys than k. *)
LEMMA PendingOthers ==
    ASSUME IInv, NEW k
    PROVE  Pending \ Service!OfKey(Pending, k)
              = {AsTimer(n) : n \in {m \in Nodes(timer) : k # NoKey => m.key # k}}
<1>1. Pending = {AsTimer(n) : n \in Nodes(timer)}
  BY PendingIs
<1>2. \A n : AsTimer(n).key = n.key
  BY AsTimerIs
<1> HIDE DEF Pending
<1> QED
  BY <1>1, <1>2 DEF Service!OfKey

LEMMA CancelRefines ==
    ASSUME IInv, IInv', NEW k \in Key, CancelByKey(k)
    PROVE  Service!Cancel(k)
<1>1. UNCHANGED <<now, nextId, running>>
  BY DEF CancelByKey
<1>2. Nodes(timer') = {n \in Nodes(timer) : n.key # k}
  BY CancelledTimer DEF CancelByKey
<1>3. TakesAway(k)
  BY CancelledRepeats DEF CancelByKey, TakesAway
<1>4. k # NoKey
  BY CallerAssumption
<1>5. Nodes(timer') = {n \in Nodes(timer) : k # NoKey => n.key # k}
  BY <1>2, <1>4
<1>6. Pending' = {AsTimer(n) : n \in Nodes(timer')}
  <2>1. \A n \in Nodes(timer') : AsTimer(n)' = AsTimer(n)
    BY <1>3, <1>5, OthersStay
  <2> QED
    BY <2>1, PendingNext
<1>7. Pending' = Pending \ Service!OfKey(Pending, k)
  BY <1>5, <1>6, PendingOthers
<1>8. Firing' = Service!GivenUp(k)
  BY <1>1, <1>3, FiringGivenUp
<1> QED
  BY <1>1, <1>7, <1>8 DEF Service!Cancel, Pending, Firing

LEMMA AddedRefines ==
    ASSUME IInv, IInv', NEW k \in Key \cup {NoKey}, NEW ms \in Timeout, NEW repeat \in Repeat,
           Added(k, ms, repeat)
    PROVE  Service!Schedule(k, ms, repeat)
<1> DEFINE t == BeforeTimer(k)
           r == BeforeRepeats(k)
           p == Res * ms
           node == [id |-> nextId, expires |-> now + p, key |-> k]
           shot == Service!Shot(nextId, k, now + p, Service!OneLess(repeat), p)
<1>0. Adds(k, p, repeat)
  BY After
<1> HIDE DEF p
<1>1. /\ Nodes(t) = {n \in Nodes(timer) : k # NoKey => n.key # k}
      /\ DOMAIN r = {x \in DOMAIN repeats : k \in DOMAIN keyToTimerId => x # keyToTimerId[k]}
      /\ \A x \in DOMAIN r : r[x] = repeats[x]
  BY Before
<1>2. /\ nextId < MaxId /\ nextId' = nextId + 1
      /\ Nodes(timer') = Nodes(t) \cup {node}
      /\ DOMAIN repeats' = DOMAIN r \cup (IF repeat # 0 THEN {nextId} ELSE {})
      /\ \A x \in DOMAIN r : repeats'[x] = r[x]
      /\ repeat # 0 => repeats'[nextId].remaining = repeat /\ repeats'[nextId].period = p
      /\ UNCHANGED <<now, running>>
  BY <1>0 DEF Adds
<1>3. node.id = nextId /\ node.key = k /\ node.expires = now + p
  OBVIOUS
<1> HIDE DEF t, r
<1>4. nextId \in Nat /\ ~ (nextId < nextId)
  BY InvParts, BoundAssumption
<1>5. nextId \notin DOMAIN r
  BY <1>1, <1>4, InvParts
<1>6. TakesAway(k)
  BY <1>1, <1>2, <1>4 DEF TakesAway
<1>7. \A n \in Nodes(t) : AsTimer(n)' = AsTimer(n)
  BY <1>1, <1>6, OthersStay
<1>8. ASSUME NEW n, n = node PROVE AsTimer(n)' = shot
  <2> DEFINE l == Service!OneLess(repeat)
  <2>1. Left(n.id)' = l
    <3>1. CASE repeat = 0
      BY <1>2, <1>3, <1>5, <1>8, <3>1 DEF Left, Service!OneLess
    <3>2. CASE repeat # 0
      <4>1. nextId \in DOMAIN repeats' /\ repeats'[nextId].remaining = repeat
        BY <1>2, <3>2
      <4> QED
        BY <1>3, <1>8, <4>1 DEF Left, Service!OneLess
    <3> QED
      BY <3>1, <3>2
  <2>2. l # 0 => repeats'[nextId].period = p
    <3>1. l # 0 => repeat # 0
      BY DEF Service!OneLess
    <3> QED
      BY <1>2, <3>1
  <2> HIDE DEF l, node
  <2>3. AsTimer(n)' = [id |-> n.id, key |-> n.key, expires |-> n.expires, left |-> l,
                       period |-> IF l = 0 THEN 0 ELSE repeats'[n.id].period]
    BY <2>1 DEF AsTimer
  <2>4. shot = [id |-> nextId, key |-> k, expires |-> now + p, left |-> l,
                period |-> IF l = 0 THEN 0 ELSE p]
    BY DEF Service!Shot, l
  <2> QED
    BY <1>3, <1>8, <2>2, <2>3, <2>4
<1> HIDE DEF node, shot
<1>9. Pending' = {AsTimer(n) : n \in Nodes(t)} \cup {shot}
  <2>1. Pending' = {AsTimer(n)' : n \in Nodes(t) \cup {node}}
    BY <1>2, PendingNext
  <2> QED
    BY <1>7, <1>8, <2>1
<1>10. Pending' = (Pending \ Service!OfKey(Pending, k)) \cup {shot}
  BY <1>1, <1>9, PendingOthers
<1>11. Firing' = Service!GivenUp(k)
  BY <1>2, <1>6, FiringGivenUp
<1> QED
  BY <1>2, <1>10, <1>11 DEF Service!Schedule, Pending, Firing, shot, p

LEMMA FireRefines ==
    ASSUME IInv, IInv', TickPop
    PROVE  \E t \in Pending : Service!Fire(t)
<1> DEFINE m == timer.heap[1]
<1>1. /\ running = <<>> /\ running' = <<m>> /\ timer' = del(timer, 1)
      /\ UNCHANGED <<now, nextId, repeats>> /\ timer.heap # <<>> /\ m.expires - now < Res
  BY DEF TickPop, FrontExpired, manager
<1>2. 1 \in 1..Len(timer.heap)
  <2>1. timer.heap \in Seq(TimerNode) /\ timer.heap # <<>>
    BY <1>1 DEF IInv, TypeOK
  <2>2. Len(timer.heap) \in Nat /\ Len(timer.heap) # 0
    BY <2>1, EmptySeq
  <2> QED
    BY <2>2
<1>3. m \in Nodes(timer)
  BY <1>2, InNodes
<1>4. Nodes(timer') = Nodes(timer) \ {m}
  BY <1>1, <1>2, InvParts, delRemoves
<1>5. ToSet(running) = {} /\ ToSet(running') = {m}
  BY <1>1, NoneRuns, OneRuns
<1>6. \A n \in Nodes(timer) : m.expires <= n.expires
  BY InvParts, FrontIsFirst
<1> HIDE DEF m
<1>7. ASSUME NEW n PROVE AsTimer(n)' = AsTimer(n)
  BY <1>1, SameTimer
<1>8. Pending = {AsTimer(n) : n \in Nodes(timer)}
  BY PendingIs
<1>9. Pending' = Pending \ {AsTimer(m)}
  <2>1. Pending' = {AsTimer(n) : n \in Nodes(timer')}
    BY <1>7, PendingNext
  <2>2. \A n \in Nodes(timer) : AsTimer(n) = AsTimer(m) => n = m
    BY <1>3, InvParts, NodesById, AsTimerIs
  <2> QED
    BY <1>3, <1>4, <1>8, <2>1, <2>2
<1>10. Firing = {} /\ Firing' = {AsTimer(m)}
  BY <1>5, <1>7 DEF Firing
<1>11. AsTimer(m) \in Pending /\ Service!Due(AsTimer(m))
  BY <1>1, <1>3, <1>8, AsTimerIs DEF Service!Due
<1>12. \A u \in Pending : AsTimer(m).expires <= u.expires
  BY <1>6, <1>8, AsTimerIs
<1>13. Service!Fire(AsTimer(m))
  BY <1>1, <1>9, <1>10, <1>11, <1>12 DEF Service!Fire, Pending, Firing
<1> QED
  BY <1>11, <1>13

LEMMA ReturnRefines ==
    ASSUME IInv, IInv', CallbackEnd
    PROVE  \E t \in Firing : Service!Return(t)
<1> DEFINE m == running[1]
           t == AsTimer(m)
<1>1. /\ m \in TimerNode /\ ToSet(running) = {m} /\ m.id \notin Placed(timer)
      /\ ToSet(running') = {} /\ UNCHANGED <<now, nextId>>
  BY CallbackOver
<1>2. t \in Firing /\ Firing' = {}
  BY <1>1 DEF Firing
<1>3. CallbackLast(m) \/ CallbackAgain(m) \/ CallbackForever(m) \/ CallbackReplaced(m)
  BY DEF CallbackEnd
<1> HIDE DEF m
<1>4. t.id = m.id /\ t.key = m.key /\ t.left = Left(m.id)
      /\ t.period = IF Left(m.id) = 0 THEN 0 ELSE repeats[m.id].period
  BY AsTimerIs
<1>5. \A n \in Nodes(timer) : n.id # m.id
  BY <1>1, InvParts
<1>6. Pending = {AsTimer(n) : n \in Nodes(timer)}
  BY PendingIs
<1> HIDE DEF t
<1>7. CASE CallbackLast(m) \/ CallbackReplaced(m)
  <2>1. UNCHANGED timer
    BY <1>7 DEF CallbackLast, CallbackReplaced
  <2>2. Left(m.id) = 0
    <3>1. CASE CallbackLast(m)
      BY <3>1 DEF CallbackLast, Left
    <3>2. CASE CallbackReplaced(m)
      <4>1. m.id \notin DOMAIN repeats
        BY <1>1, <3>2 DEF CallbackReplaced, IInv, RunsValid
      <4> QED
        BY <4>1 DEF Left
    <3> QED
      BY <1>7, <3>1, <3>2
  <2>3. repeats' = Without(repeats, m.id) \/ repeats' = repeats
    BY <1>7 DEF CallbackLast, CallbackReplaced
  <2>4. ASSUME NEW n \in Nodes(timer) PROVE AsTimer(n)' = AsTimer(n)
    <3> DEFINE w == Without(repeats, m.id)
    <3>1. /\ n.id \in DOMAIN w <=> n.id \in DOMAIN repeats
          /\ n.id \in DOMAIN repeats => w[n.id] = repeats[n.id]
      <4>1. /\ DOMAIN w = DOMAIN repeats \ {m.id}
            /\ \A y \in DOMAIN repeats : y # m.id => w[y] = repeats[y]
        BY WithoutEntry
      <4> HIDE DEF w
      <4> QED
        BY <1>5, <4>1
    <3> HIDE DEF w
    <3>2. repeats' = w \/ repeats' = repeats
      BY <2>3 DEF w
    <3> QED
      BY <3>1, <3>2, SameTimer
  <2>5. Pending' = Pending
    BY <1>6, <2>1, <2>4, PendingNext
  <2>6. Service!Return(t)
    BY <1>1, <1>2, <1>4, <2>2, <2>5 DEF Service!Return, Pending, Firing
  <2> QED
    BY <1>2, <2>6
<1>8. CASE CallbackAgain(m) \/ CallbackForever(m)
  <2>1. Repeats(m)
    BY <1>1, <1>8, RepeatsIs
  <2> DEFINE p == repeats[m.id].period
             l == repeats[m.id].remaining
             l2 == repeats'[m.id].remaining
             again == [m EXCEPT !.expires = now + p]
             shot == Service!Shot(m.id, m.key, now + p, Service!OneLess(t.left), p)
  <2>2. /\ m.id \in DOMAIN repeats /\ Readded(m, p) /\ DOMAIN repeats' = DOMAIN repeats
        /\ \A x \in DOMAIN repeats : x # m.id => repeats'[x] = repeats[x]
        /\ repeats'[m.id].period = p
        /\ (l > 1 /\ l2 = l - 1) \/ (l = -1 /\ l2 = -1)
    BY <2>1 DEF Repeats
  <2>3. p \in Nat /\ (l = -1 \/ l \in Nat \ {0})
    BY <2>2, InvParts, CountedIs
  <2>4. /\ again = [id |-> m.id, expires |-> now + p, key |-> m.key]
        /\ Nodes(timer') = Nodes(timer) \cup {again}
    BY <1>1, <2>2, <2>3, ReaddedNode
  <2>5. Left(m.id) = IF l > 0 THEN l - 1 ELSE l
    BY <2>2 DEF Left
  <2>6. ASSUME NEW x, x = m.id PROVE Left(x)' = IF l2 > 0 THEN l2 - 1 ELSE l2
    BY <2>2, <2>6 DEF Left
  <2> HIDE DEF p, l, l2
  <2>7. /\ t.left # 0 /\ t.period = p
        /\ (IF l2 > 0 THEN l2 - 1 ELSE l2) = Service!OneLess(t.left)
    <3>1. Left(m.id) # 0 /\ (IF l2 > 0 THEN l2 - 1 ELSE l2) = Service!OneLess(Left(m.id))
      BY <2>2, <2>3, <2>5 DEF Service!OneLess
    <3> QED
      BY <1>4, <3>1 DEF p
  <2>8. ASSUME NEW n, n = again PROVE AsTimer(n)' = shot
    <3> DEFINE o == Service!OneLess(t.left)
    <3>1. n.id = m.id /\ n.key = m.key /\ n.expires = now + p
      BY <2>4, <2>8
    <3> HIDE DEF again
    <3>2. Left(n.id)' = o /\ repeats'[n.id].period = p
      BY <2>2, <2>6, <2>7, <3>1
    <3> HIDE DEF o
    <3>3. AsTimer(n)' = [id |-> n.id, key |-> n.key, expires |-> n.expires, left |-> o,
                         period |-> IF o = 0 THEN 0 ELSE p]
      BY <3>2 DEF AsTimer
    <3>4. shot = [id |-> m.id, key |-> m.key, expires |-> now + p, left |-> o,
                  period |-> IF o = 0 THEN 0 ELSE p]
      BY DEF Service!Shot, o
    <3> QED
      BY <3>1, <3>3, <3>4
  <2> HIDE DEF again, shot
  <2>9. ASSUME NEW n \in Nodes(timer) PROVE AsTimer(n)' = AsTimer(n)
    BY <1>5, <2>2, SameTimer
  <2>10. Pending' = Pending \cup {shot}
    <3>1. Pending' = {AsTimer(n)' : n \in Nodes(timer) \cup {again}}
      BY <2>4, PendingNext
    <3> QED
      BY <1>6, <2>8, <2>9, <3>1
  <2>11. shot = Service!Shot(t.id, t.key, now + t.period, Service!OneLess(t.left), t.period)
    BY <1>4, <2>7 DEF shot
  <2>12. Service!Return(t)
    BY <1>1, <1>2, <2>7, <2>10, <2>11 DEF Service!Return, Pending, Firing
  <2> QED
    BY <1>2, <2>12
<1> QED
  BY <1>3, <1>7, <1>8

LEMMA ThrowRefines ==
    ASSUME IInv, IInv', CallbackThrow
    PROVE  Firing # {} /\ Service!Throw
<1>1. ToSet(running) = {running[1]} /\ ToSet(running') = {} /\ UNCHANGED <<now, nextId>>
  BY CallbackOver
<1>2. UNCHANGED <<timer, repeats>> /\ MayThrow
  BY DEF CallbackThrow, manager
<1>3. Pending' = Pending
  BY <1>2 DEF Pending, AsTimer, Left
<1>4. Firing # {} /\ Firing' = {}
  BY <1>1 DEF Firing
<1> QED
  BY <1>1, <1>2, <1>3, <1>4 DEF Service!Throw, Pending, Firing

LEMMA StepRefines ==
    ASSUME IInv, IInv', [Next]_vars
    PROVE  [Service!Next]_(Service!vars)
<1>1. CASE Advance \/ TickBegin \/ TickEnd \/ UNCHANGED vars
  <2>1. UNCHANGED <<nextId, timer, repeats, running>>
    BY <1>1 DEF Advance, TickBegin, TickEnd, vars, manager
  <2>2. Pending' = Pending /\ Firing' = Firing
    BY <2>1 DEF Pending, Firing, AsTimer, Left
  <2>3. UNCHANGED now \/ Advance
    BY <1>1 DEF TickBegin, TickEnd, vars
  <2>4. CASE UNCHANGED now
    BY <2>1, <2>2, <2>4 DEF Service!vars, Pending, Firing
  <2>5. CASE Advance
    <3>1. Service!Advance
      BY <2>1, <2>2, <2>5 DEF Advance, Service!Advance, Pending, Firing
    <3> QED
      BY <3>1 DEF Service!Next
  <2> QED
    BY <2>3, <2>4, <2>5
<1>2. CASE TickPop
  <2>1. \E t \in Pending : Service!Fire(t)
    BY <1>2, FireRefines
  <2> QED
    BY <2>1 DEF Service!Next, Pending
<1>3. CASE CallbackEnd
  <2>1. \E t \in Firing : Service!Return(t)
    BY <1>3, ReturnRefines
  <2> QED
    BY <2>1 DEF Service!Next, Firing
<1>4. CASE CallbackThrow
  <2>1. Firing # {} /\ Service!Throw
    BY <1>4, ThrowRefines
  <2> QED
    BY <2>1 DEF Service!Next, Firing
<1>5. ASSUME NEW k \in Key, CancelByKey(k) PROVE Service!Next
  <2>1. Service!Cancel(k)
    BY <1>5, CancelRefines
  <2> QED
    BY <2>1 DEF Service!Next
<1>6. ASSUME NEW ms \in Timeout, NEW repeat \in Repeat, NEW k \in Key \cup {NoKey}, Added(k, ms, repeat)
      PROVE  Service!Next
  <2>1. Service!Schedule(k, ms, repeat)
    BY <1>6, AddedRefines
  <2> QED
    BY <2>1 DEF Service!Next
<1>7. ASSUME NEW ms \in Timeout, NEW repeat \in Repeat, Schedule(ms, repeat) PROVE Service!Next
  BY <1>6, <1>7 DEF Added
<1>8. ASSUME NEW ms \in Timeout, NEW repeat \in Repeat, NEW k \in Key, ScheduleWithKey(k, ms, repeat)
      PROVE  Service!Next
  BY <1>6, <1>8 DEF Added
<1> QED
  BY <1>1, <1>2, <1>3, <1>4, <1>5, <1>7, <1>8 DEF Next, TickStep

LEMMA InitRefines == ASSUME Init PROVE Service!Init
<1>1. ToSet(timer.heap) = {} /\ ToSet(running) = {}
  BY NoneRuns DEF Init
<1>2. Pending = {} /\ Firing = {}
  BY <1>1 DEF Pending, Firing
<1> QED
  BY <1>2 DEF Init, Service!Init, Pending, Firing

(* The heap, the tables and the loop of Tick keep the promises of           *)
(* TimerService, step by step and whatever the callbacks do: the earliest   *)
(* timer fires first and not a millisecond early, a replaced or cancelled   *)
(* one never, and one that repeats as often as it was asked to.             *)
THEOREM ManagerImplementsService == Spec => Implements
<1>1. Init => Service!Init
  BY InitRefines
<1>2. IInv /\ IInv' /\ [Next]_vars => [Service!Next]_(Service!vars)
  BY StepRefines
<1>3. Spec => Init /\ [][Next]_vars
  BY PTL DEF Spec
<1>4. Spec => Service!Spec
  BY <1>1, <1>2, <1>3, Inductive, PTL DEF Service!Spec
<1> QED
  BY <1>4 DEF Implements
=============================================================================
