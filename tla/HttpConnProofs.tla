--------------------------- MODULE HttpConnProofs ---------------------------
(***************************************************************************)
(* Proofs about HttpConn for any requests, any lengths of headers, files    *)
(* and send buffer, and any way to cut what is sent into segments: what is  *)
(* sent, and then what each request is answered.  The last part is about    *)
(* the Buffer a connection reads and writes through: its positions stay in  *)
(* order, its memory is bounded for all sizes, and it implements ByteFifo.  *)
(***************************************************************************)
EXTENDS HttpConn, Buffer, SequenceTheorems, NaturalsInduction, WellFoundedInduction, TLAPS

Byte == Nat \X Nat

Reading == {"onRead", "process", "parse", "respond"}
Idle    == tasks = <<>> /\ pc = "idle"

(* What TypeOK leaves out. *)
Typed ==
    /\ tasks \in Seq({"onRead", "onWrite"})
    /\ wire \in Seq(Byte) /\ wbuf \in Seq(Byte) /\ iov \in [{0, 1} -> Seq(Byte)]
    /\ answers \in Seq({answers[i] : i \in 1..Len(answers)})
    /\ DOMAIN req = DOMAIN NoRequest /\ req.ok \in BOOLEAN

(* A registration that is off reports nothing. *)
OffIsQuiet == armed = "off" => ~ready

(* A connection has one task at a time, queued or running, and while it has  *)
(* one its registration is not one-shot and armed: the task will arm it.     *)
Serial ==
    ~doubled =>
        /\ tasks = <<>> \/ (Len(tasks) = 1 /\ pc = "idle")
        /\ armed \in {"inOnce", "outOnce"} => Idle

(* Reading begins when everything is sent: nothing to write is left while a  *)
(* request is read, parsed and answered, is going to be, or is waited for.   *)
SentBeforeRead ==
    ~doubled /\ (\/ pc \in Reading
                 \/ tasks # <<>> /\ Head(tasks) = "onRead" /\ ~closed
                 \/ armed \in {"in", "inOnce"} /\ ~closed)
        => ToWrite(iov) = <<>>

(* The buffer holds headers, the second vector a file. *)
Parts ==
    /\ \A i \in 1..Len(wbuf) : wbuf[i][2] <= HeadLen
    /\ \A i \in 1..Len(iov[1]) : iov[1][i][2] > HeadLen

(* The inductive invariant. *)
IInv == Typed /\ OffIsQuiet /\ Serial /\ SentBeforeRead /\ Parts /\ OutputSound

-----------------------------------------------------------------------------
(* Sequences of bytes *)

Ordered(s) == \A i, j \in 1..Len(s) : i < j => Precedes(s[i], s[j])
BytesIn(s) == {s[i] : i \in 1..Len(s)}

Heads(s)        == {i \in 1..Len(s) : s[i][2] <= HeadLen}
HeadsOrdered(s) == \A i, j \in Heads(s) : i < j => Precedes(s[i], s[j])
HeadsIn(s)      == {s[i] : i \in Heads(s)}

LEMMA BytesOfBoth ==
    ASSUME NEW s \in Seq(Byte), NEW t \in Seq(Byte)
    PROVE  BytesIn(s \o t) = BytesIn(s) \cup BytesIn(t) /\ HeadsIn(s \o t) = HeadsIn(s) \cup HeadsIn(t)
<1>1. /\ Len(s) \in Nat /\ Len(t) \in Nat /\ Len(s \o t) = Len(s) + Len(t)
      /\ \A i \in 1..Len(s) + Len(t) : (s \o t)[i] = IF i <= Len(s) THEN s[i] ELSE t[i - Len(s)]
  BY ConcatProperties, LenProperties
<1>2. \A i \in 1..Len(s) : i \in 1..Len(s \o t) /\ (s \o t)[i] = s[i]
  BY <1>1
<1>3. \A i \in 1..Len(t) : i + Len(s) \in 1..Len(s \o t) /\ (s \o t)[i + Len(s)] = t[i]
  BY <1>1
<1>4. \A i \in 1..Len(s \o t) :
          \/ i \in 1..Len(s) /\ (s \o t)[i] = s[i]
          \/ i - Len(s) \in 1..Len(t) /\ (s \o t)[i] = t[i - Len(s)]
  BY <1>1
<1>5. BytesIn(s \o t) = BytesIn(s) \cup BytesIn(t)
  <2>1. BytesIn(s \o t) \subseteq BytesIn(s) \cup BytesIn(t)
    BY <1>4 DEF BytesIn
  <2>2. BytesIn(s) \subseteq BytesIn(s \o t)
    BY <1>2 DEF BytesIn
  <2>3. BytesIn(t) \subseteq BytesIn(s \o t)
    BY <1>3 DEF BytesIn
  <2> QED
    BY <2>1, <2>2, <2>3
<1>6. HeadsIn(s \o t) = HeadsIn(s) \cup HeadsIn(t)
  <2>1. HeadsIn(s \o t) \subseteq HeadsIn(s) \cup HeadsIn(t)
    BY <1>4 DEF HeadsIn, Heads
  <2>2. HeadsIn(s) \subseteq HeadsIn(s \o t)
    BY <1>2 DEF HeadsIn, Heads
  <2>3. HeadsIn(t) \subseteq HeadsIn(s \o t)
    BY <1>3 DEF HeadsIn, Heads
  <2> QED
    BY <2>1, <2>2, <2>3
<1> QED
  BY <1>5, <1>6

(* What follows goes behind. *)
LEMMA OrderOfBoth ==
    ASSUME NEW s \in Seq(Byte), NEW t \in Seq(Byte), Ordered(s), Ordered(t),
           \A b \in BytesIn(s), c \in BytesIn(t) : Precedes(b, c)
    PROVE  Ordered(s \o t)
<1>1. /\ Len(s) \in Nat /\ Len(t) \in Nat /\ Len(s \o t) = Len(s) + Len(t)
      /\ \A i \in 1..Len(s) + Len(t) : (s \o t)[i] = IF i <= Len(s) THEN s[i] ELSE t[i - Len(s)]
  BY ConcatProperties, LenProperties
<1> SUFFICES ASSUME NEW i \in 1..Len(s) + Len(t), NEW j \in 1..Len(s) + Len(t), i < j
             PROVE  Precedes((s \o t)[i], (s \o t)[j])
  BY <1>1 DEF Ordered
<1>2. CASE j <= Len(s)
  <2>1. i \in 1..Len(s) /\ j \in 1..Len(s) /\ (s \o t)[i] = s[i] /\ (s \o t)[j] = s[j]
    BY <1>1, <1>2
  <2> QED
    BY <2>1 DEF Ordered
<1>3. CASE i <= Len(s) /\ j > Len(s)
  <2>1. i \in 1..Len(s) /\ j - Len(s) \in 1..Len(t) /\ (s \o t)[i] = s[i] /\ (s \o t)[j] = t[j - Len(s)]
    BY <1>1, <1>3
  <2>2. s[i] \in BytesIn(s) /\ t[j - Len(s)] \in BytesIn(t)
    BY <2>1 DEF BytesIn
  <2> QED
    BY <2>1, <2>2
<1>4. CASE i > Len(s)
  <2>1. /\ i - Len(s) \in 1..Len(t) /\ j - Len(s) \in 1..Len(t) /\ i - Len(s) < j - Len(s)
        /\ (s \o t)[i] = t[i - Len(s)] /\ (s \o t)[j] = t[j - Len(s)]
    BY <1>1, <1>4
  <2> QED
    BY <2>1 DEF Ordered
<1> QED
  BY <1>1, <1>2, <1>3, <1>4

LEMMA HeadOrderOfBoth ==
    ASSUME NEW s \in Seq(Byte), NEW t \in Seq(Byte), HeadsOrdered(s), HeadsOrdered(t),
           \A b \in HeadsIn(s), c \in HeadsIn(t) : Precedes(b, c)
    PROVE  HeadsOrdered(s \o t)
<1>1. /\ Len(s) \in Nat /\ Len(t) \in Nat /\ Len(s \o t) = Len(s) + Len(t)
      /\ \A i \in 1..Len(s) + Len(t) : (s \o t)[i] = IF i <= Len(s) THEN s[i] ELSE t[i - Len(s)]
  BY ConcatProperties, LenProperties
<1> SUFFICES ASSUME NEW i \in 1..Len(s) + Len(t), NEW j \in 1..Len(s) + Len(t), i < j,
                    (s \o t)[i][2] <= HeadLen, (s \o t)[j][2] <= HeadLen
             PROVE  Precedes((s \o t)[i], (s \o t)[j])
  BY <1>1 DEF HeadsOrdered, Heads
<1>2. CASE j <= Len(s)
  <2>1. i \in 1..Len(s) /\ j \in 1..Len(s) /\ (s \o t)[i] = s[i] /\ (s \o t)[j] = s[j]
    BY <1>1, <1>2
  <2> QED
    BY <2>1 DEF HeadsOrdered, Heads
<1>3. CASE i <= Len(s) /\ j > Len(s)
  <2>1. i \in 1..Len(s) /\ j - Len(s) \in 1..Len(t) /\ (s \o t)[i] = s[i] /\ (s \o t)[j] = t[j - Len(s)]
    BY <1>1, <1>3
  <2>2. s[i] \in HeadsIn(s) /\ t[j - Len(s)] \in HeadsIn(t)
    BY <2>1 DEF HeadsIn, Heads
  <2> QED
    BY <2>1, <2>2
<1>4. CASE i > Len(s)
  <2>1. /\ i - Len(s) \in 1..Len(t) /\ j - Len(s) \in 1..Len(t) /\ i - Len(s) < j - Len(s)
        /\ (s \o t)[i] = t[i - Len(s)] /\ (s \o t)[j] = t[j - Len(s)]
    BY <1>1, <1>4
  <2> QED
    BY <2>1 DEF HeadsOrdered, Heads
<1> QED
  BY <1>1, <1>2, <1>3, <1>4

(* A sequence cut in two, and the beginning of two sequences. *)
LEMMA Cut ==
    ASSUME NEW s \in Seq(Byte), NEW n \in 0..Len(s)
    PROVE  /\ SubSeq(s, 1, n) \in Seq(Byte) /\ SubSeq(s, n + 1, Len(s)) \in Seq(Byte)
           /\ SubSeq(s, 1, n) \o SubSeq(s, n + 1, Len(s)) = s
           /\ Len(SubSeq(s, n + 1, Len(s))) = Len(s) - n
           /\ \A i \in 1..Len(s) - n : SubSeq(s, n + 1, Len(s))[i] = s[n + i]
           /\ \A i \in 1..n : SubSeq(s, 1, n)[i] = s[i]
           /\ Len(SubSeq(s, 1, n)) = n
<1>1. Len(s) \in Nat /\ \A i \in 1..Len(s) : s[i] \in Byte
  BY LenProperties, ElementOfSeq
<1>2. /\ SubSeq(s, 1, n) \in Seq(Byte) /\ Len(SubSeq(s, 1, n)) = n
      /\ \A i \in 1..n : SubSeq(s, 1, n)[i] = s[i]
  <2>1. n \in Int /\ \A i \in 1..n : s[i] \in Byte
    BY <1>1
  <2>2. /\ SubSeq(s, 1, n) \in Seq(Byte)
        /\ Len(SubSeq(s, 1, n)) = IF 1 <= n THEN n - 1 + 1 ELSE 0
        /\ \A i \in 1..n - 1 + 1 : SubSeq(s, 1, n)[i] = s[1 + i - 1]
    BY <2>1, SubSeqProperties
  <2> QED
    BY <2>2, <1>1
<1>3. /\ SubSeq(s, n + 1, Len(s)) \in Seq(Byte) /\ Len(SubSeq(s, n + 1, Len(s))) = Len(s) - n
      /\ \A i \in 1..Len(s) - n : SubSeq(s, n + 1, Len(s))[i] = s[n + i]
  <2>1. n + 1 \in Int /\ Len(s) \in Int /\ \A i \in n + 1..Len(s) : s[i] \in Byte
    BY <1>1
  <2>2. /\ SubSeq(s, n + 1, Len(s)) \in Seq(Byte)
        /\ Len(SubSeq(s, n + 1, Len(s))) = IF n + 1 <= Len(s) THEN Len(s) - (n + 1) + 1 ELSE 0
        /\ \A i \in 1..Len(s) - (n + 1) + 1 : SubSeq(s, n + 1, Len(s))[i] = s[n + 1 + i - 1]
    BY <2>1, SubSeqProperties
  <2> QED
    BY <2>2, <1>1
<1>4. SubSeq(s, 1, n) \o SubSeq(s, n + 1, Len(s)) = s
  <2>1. 1 \in 1..Len(s) + 1 /\ n \in 1 - 1..Len(s) /\ Len(s) \in n..Len(s)
    BY <1>1
  <2>2. SubSeq(s, 1, n) \o SubSeq(s, n + 1, Len(s)) = SubSeq(s, 1, Len(s))
    BY <2>1, ConcatAdjacentSubSeq
  <2> QED
    BY <2>2, SubSeqFull
<1> QED
  BY <1>2, <1>3, <1>4

LEMMA CutOfBoth ==
    ASSUME NEW s \in Seq(Byte), NEW t \in Seq(Byte), NEW n \in 0..Len(s) + Len(t)
    PROVE  SubSeq(s \o t, 1, n) = IF n <= Len(s) THEN SubSeq(s, 1, n) ELSE s \o SubSeq(t, 1, n - Len(s))
<1>1. /\ Len(s) \in Nat /\ Len(t) \in Nat /\ Len(s \o t) = Len(s) + Len(t) /\ s \o t \in Seq(Byte)
      /\ \A i \in 1..Len(s) + Len(t) : (s \o t)[i] = IF i <= Len(s) THEN s[i] ELSE t[i - Len(s)]
  BY ConcatProperties, LenProperties
<1>2. /\ SubSeq(s \o t, 1, n) \in Seq(Byte) /\ Len(SubSeq(s \o t, 1, n)) = n
      /\ \A i \in 1..n : SubSeq(s \o t, 1, n)[i] = (s \o t)[i]
  BY <1>1, Cut
<1>3. CASE n <= Len(s)
  <2>1. /\ SubSeq(s, 1, n) \in Seq(Byte) /\ Len(SubSeq(s, 1, n)) = n
        /\ \A i \in 1..n : SubSeq(s, 1, n)[i] = s[i]
    BY <1>1, <1>3, Cut
  <2>2. \A i \in 1..n : SubSeq(s \o t, 1, n)[i] = SubSeq(s, 1, n)[i]
    BY <1>1, <1>2, <1>3, <2>1
  <2> QED
    BY <1>2, <1>3, <2>1, <2>2, SeqEqual
<1>4. CASE n > Len(s)
  <2>1. n - Len(s) \in 0..Len(t)
    BY <1>1, <1>4
  <2>2. PICK m \in 0..Len(t) : m = n - Len(s)
    BY <2>1
  <2>3. /\ SubSeq(t, 1, m) \in Seq(Byte) /\ Len(SubSeq(t, 1, m)) = m
        /\ \A i \in 1..m : SubSeq(t, 1, m)[i] = t[i]
    BY Cut
  <2>4. /\ s \o SubSeq(t, 1, m) \in Seq(Byte) /\ Len(s \o SubSeq(t, 1, m)) = Len(s) + m
        /\ \A i \in 1..Len(s) + m : (s \o SubSeq(t, 1, m))[i] =
               IF i <= Len(s) THEN s[i] ELSE SubSeq(t, 1, m)[i - Len(s)]
    BY <2>3, ConcatProperties
  <2>5. \A i \in 1..n : SubSeq(s \o t, 1, n)[i] = (s \o SubSeq(t, 1, m))[i]
    <3> SUFFICES ASSUME NEW i \in 1..n PROVE SubSeq(s \o t, 1, n)[i] = (s \o SubSeq(t, 1, m))[i]
      OBVIOUS
    <3>1. SubSeq(s \o t, 1, n)[i] = IF i <= Len(s) THEN s[i] ELSE t[i - Len(s)]
      BY <1>1, <1>2
    <3>2. i <= Len(s) \/ i - Len(s) \in 1..m
      BY <1>1, <2>2
    <3>3. i \in 1..Len(s) + m
      BY <1>1, <2>2
    <3> QED
      BY <3>1, <3>2, <3>3, <2>3, <2>4
  <2>6. Len(s) + m = n
    BY <1>1, <2>2
  <2>7. SubSeq(s \o t, 1, n) = s \o SubSeq(t, 1, m)
    BY <1>2, <2>4, <2>5, <2>6, SeqEqual
  <2> QED
    BY <1>1, <1>4, <2>2, <2>7
<1> QED
  BY <1>1, <1>3, <1>4

-----------------------------------------------------------------------------
(* writev *)

LEMMA Associative == \A s, t, u \in Seq(Byte) : (s \o t) \o u = s \o (t \o u)
  BY ConcatAssociative

(* What writev took of the two vectors and what they point to afterwards are *)
(* what they pointed to.                                                     *)
Took(v, v0, v1, cnt, out, n, took, w, b) ==
    /\ v[0] = v0 /\ v[1] = v1 /\ out = IF cnt = 2 THEN v0 \o v1 ELSE v0
    /\ n \in 0..Len(out) /\ took = SubSeq(out, 1, n)
    /\ w = Advance(v, v0, n)[1] /\ b = Advance(v, v0, n)[2]

Exact(v0, v1, took, w, b) ==
    /\ took \in Seq(Byte) /\ w \in [{0, 1} -> Seq(Byte)] /\ b = w[0]
    /\ took \o (w[0] \o w[1]) = v0 \o v1
    /\ \/ took \o w[0] = v0 /\ w[1] = v1
       \/ \E m \in 0..Len(v1) : /\ took = v0 \o SubSeq(v1, 1, m) /\ w[0] = <<>>
                                /\ w[1] = SubSeq(v1, m + 1, Len(v1))

LEMMA AdvanceExact ==
    ASSUME NEW v \in [{0, 1} -> Seq(Byte)], NEW v0 \in Seq(Byte), NEW v1 \in Seq(Byte),
           NEW cnt, NEW out, NEW n, NEW took, NEW w, NEW b, Took(v, v0, v1, cnt, out, n, took, w, b)
    PROVE  Exact(v0, v1, took, w, b)
<1>e. v[0] = v0 /\ v[1] = v1
  BY DEF Took
<1>f. out = IF cnt = 2 THEN v0 \o v1 ELSE v0
  BY DEF Took
<1>g. n \in 0..Len(out)
  BY DEF Took
<1>h. took = SubSeq(out, 1, n)
  BY DEF Took
<1>i. w = Advance(v, v0, n)[1] /\ b = Advance(v, v0, n)[2]
  BY DEF Took
<1>1. /\ Len(v0) \in Nat /\ Len(v1) \in Nat /\ Len(v0 \o v1) = Len(v0) + Len(v1) /\ v0 \o v1 \in Seq(Byte)
  BY LenProperties, ConcatProperties
<1>0. n \in Nat /\ Len(out) \in Nat
  BY <1>1, <1>f, <1>g
<1>2. CASE n <= Len(v0)
  <2>0. n \in 0..Len(v0)
    BY <1>0, <1>1, <1>2
  <2>1. PICK r : r = SubSeq(v0, n + 1, Len(v0))
    OBVIOUS
  <2>2. /\ r \in Seq(Byte) /\ SubSeq(v0, 1, n) \in Seq(Byte) /\ SubSeq(v0, 1, n) \o r = v0
    BY <2>0, <2>1, Cut
  <2>3. took = SubSeq(v0, 1, n)
    <3>1. CASE cnt = 2
      <4>1. n \in 0..Len(v0) + Len(v1)
        BY <1>0, <1>1, <1>2
      <4>2. SubSeq(v0 \o v1, 1, n) = SubSeq(v0, 1, n)
        BY <1>2, <4>1, CutOfBoth
      <4> QED
        BY <1>f, <1>h, <3>1, <4>2
    <3>2. CASE cnt # 2
      BY <1>f, <1>h, <3>2
    <3> QED
      BY <3>1, <3>2
  <2>4. w = [v EXCEPT ![0] = r] /\ b = r
    <3>1. ~(n > Len(v[0]))
      BY <1>0, <1>1, <1>2, <1>e
    <3>2. Advance(v, v0, n) = <<[v EXCEPT ![0] = SubSeq(v[0], n + 1, Len(v[0]))], SubSeq(v0, n + 1, Len(v0))>>
      BY <3>1 DEF Advance
    <3>3. Advance(v, v0, n) = <<[v EXCEPT ![0] = r], r>>
      BY <1>e, <2>1, <3>2
    <3> QED
      BY <1>i, <3>3
  <2>5. w \in [{0, 1} -> Seq(Byte)] /\ w[0] = r /\ w[1] = v1
    BY <1>e, <2>2, <2>4
  <2>6. took \in Seq(Byte) /\ took \o r = v0
    BY <2>2, <2>3
  <2>7. (took \o r) \o v1 = took \o (r \o v1)
    <3>1. took \in Seq(Byte)
      BY <2>6
    <3>2. r \in Seq(Byte)
      BY <2>2
    <3> QED
      BY <3>1, <3>2, Associative
  <2>8. took \o (w[0] \o w[1]) = v0 \o v1
    BY <2>5, <2>6, <2>7
  <2> QED
    BY <2>4, <2>5, <2>6, <2>8 DEF Exact
<1>3. CASE n > Len(v0)
  <2>1. cnt = 2 /\ out = v0 \o v1
    BY <1>0, <1>1, <1>3, <1>f, <1>g
  <2>2. PICK m \in 0..Len(v1) : m = n - Len(v0)
    <3>1. n \in 0..Len(v0) + Len(v1)
      BY <1>1, <1>g, <2>1
    <3>2. n - Len(v0) \in 0..Len(v1)
      BY <1>1, <1>3, <3>1
    <3> QED
      BY <3>2
  <2>3. PICK r : r = SubSeq(v1, m + 1, Len(v1))
    OBVIOUS
  <2>4. PICK t : t = SubSeq(v1, 1, m)
    OBVIOUS
  <2>5. /\ r \in Seq(Byte) /\ t \in Seq(Byte) /\ t \o r = v1
    BY <2>3, <2>4, Cut
  <2>6. took = v0 \o t
    <3>1. n \in 0..Len(v0) + Len(v1)
      BY <1>1, <1>g, <2>1
    <3>2. SubSeq(v0 \o v1, 1, n) = v0 \o SubSeq(v1, 1, n - Len(v0))
      BY <1>0, <1>1, <1>3, <3>1, CutOfBoth
    <3> QED
      BY <1>h, <2>1, <2>2, <2>4, <3>2
  <2>7. w = [v EXCEPT ![0] = <<>>, ![1] = r] /\ b = <<>>
    <3>1. n > Len(v[0])
      BY <1>3, <1>e
    <3>2. Advance(v, v0, n) = <<[v EXCEPT ![0] = <<>>,
                                          ![1] = SubSeq(v[1], n - Len(v[0]) + 1, Len(v[1]))], <<>>>>
      BY <3>1 DEF Advance
    <3> QED
      BY <1>e, <1>i, <2>2, <2>3, <3>2
  <2>8. w \in [{0, 1} -> Seq(Byte)] /\ w[0] = <<>> /\ w[1] = r
    <3>1. <<>> \in Seq(Byte)
      BY EmptySeq
    <3>2. w[0] = <<>> /\ w[1] = r
      BY <2>5, <2>7
    <3>3. w \in [{0, 1} -> Seq(Byte)]
      BY <2>5, <2>7, <3>1
    <3> QED
      BY <3>2, <3>3
  <2>9. <<>> \o r = r /\ (v0 \o t) \o r = v0 \o (t \o r) /\ v0 \o t \in Seq(Byte)
    <3>1. (v0 \o t) \o r = v0 \o (t \o r)
      BY <2>5, Associative, ZenonT(60)
    <3>2. <<>> \o r = r
      BY <2>5, ConcatEmptySeq
    <3>3. v0 \o t \in Seq(Byte)
      BY <2>5, ConcatProperties
    <3> QED
      BY <3>1, <3>2, <3>3
  <2>10. took \in Seq(Byte) /\ took \o (w[0] \o w[1]) = v0 \o v1
    BY <2>5, <2>6, <2>8, <2>9
  <2> QED
    BY <2>3, <2>4, <2>6, <2>7, <2>8, <2>10 DEF Exact
<1>4. n <= Len(v0) \/ n > Len(v0)
  BY <1>0, <1>1
<1> QED
  BY <1>2, <1>3, <1>4

(* A sequence without headers in it changes nothing about the headers. *)
LEMMA NoHeads ==
    ASSUME NEW s \in Seq(Byte), NEW t \in Seq(Byte), \A i \in 1..Len(t) : t[i][2] > HeadLen
    PROVE  /\ HeadsIn(s \o t) = HeadsIn(s)
           /\ HeadsOrdered(s) => HeadsOrdered(s \o t)
<1>1. \A i \in 1..Len(t) : t[i] \in Nat \X Nat
  BY ElementOfSeq DEF Byte
<1>2. Heads(t) = {}
  BY <1>1, LengthAssumption DEF Heads
<1>3. HeadsIn(t) = {} /\ HeadsOrdered(t)
  BY <1>2 DEF HeadsIn, HeadsOrdered
<1>4. HeadsIn(s \o t) = HeadsIn(s) \cup HeadsIn(t)
  BY BytesOfBoth
<1>5. ASSUME HeadsOrdered(s) PROVE HeadsOrdered(s \o t)
  <2>1. \A b \in HeadsIn(s), c \in HeadsIn(t) : Precedes(b, c)
    BY <1>3
  <2> QED
    BY <1>3, <1>5, <2>1, HeadOrderOfBoth
<1> QED
  BY <1>3, <1>4, <1>5

LEMMA WritevKeeps ==
    ASSUME IInv, NEW from, NEW to, Writev(from, to)
    PROVE  /\ wire' \in Seq(Byte) /\ wbuf' \in Seq(Byte) /\ iov' \in [{0, 1} -> Seq(Byte)]
           /\ room' \in 0..SendBuf /\ iov'[0] = wbuf'
           /\ wire' \o ToWrite(iov') = wire \o ToWrite(iov)
           /\ HeadsIn(wire' \o wbuf') = HeadsIn(wire \o wbuf) /\ HeadsOrdered(wire' \o wbuf')
           /\ Parts'
<1> DEFINE out == IF iovCnt = 2 THEN ToWrite(iov) ELSE iov[0]
<1>1. /\ wire \in Seq(Byte) /\ wbuf \in Seq(Byte) /\ iov \in [{0, 1} -> Seq(Byte)]
      /\ room \in 0..SendBuf /\ iov[0] = wbuf /\ Parts /\ iov[1] \in Seq(Byte)
  BY DEF IInv, Typed, OutputSound, TypeOK, WireExact
<1>2. HeadsOrdered(wire \o wbuf)
  BY DEF IInv, OutputSound, HeadsInOrder, HeadsOrdered, Heads
<1>3. PICK n : n = IF room < Len(out) THEN room ELSE Len(out)
  OBVIOUS
<1>4. out \in Seq(Byte) /\ Len(out) \in Nat /\ Len(iov[1]) \in Nat /\ SendBuf \in Nat
  BY <1>1, ConcatProperties, LenProperties, LengthAssumption DEF ToWrite
<1>5. n \in 0..Len(out) /\ room - n \in 0..SendBuf
  BY <1>1, <1>3, <1>4
<1>6. /\ wire' = wire \o SubSeq(out, 1, n) /\ room' = room - n
      /\ iov' = Advance(iov, wbuf, n)[1] /\ wbuf' = Advance(iov, wbuf, n)[2]
  BY <1>3 DEF Writev
<1>7. PICK took : took = SubSeq(out, 1, n)
  OBVIOUS
<1>8. /\ took \in Seq(Byte) /\ iov' \in [{0, 1} -> Seq(Byte)] /\ wbuf' = iov'[0]
      /\ took \o (iov'[0] \o iov'[1]) = iov[0] \o iov[1]
      /\ \/ took \o iov'[0] = iov[0] /\ iov'[1] = iov[1]
         \/ \E m \in 0..Len(iov[1]) : /\ took = iov[0] \o SubSeq(iov[1], 1, m) /\ iov'[0] = <<>>
                                      /\ iov'[1] = SubSeq(iov[1], m + 1, Len(iov[1]))
  <2>1. PICK v0 \in Seq(Byte), v1 \in Seq(Byte) : v0 = iov[0] /\ v1 = iov[1]
    BY <1>1
  <2>2. PICK w, b : w = Advance(iov, v0, n)[1] /\ b = Advance(iov, v0, n)[2]
    OBVIOUS
  <2>3. PICK o : o = IF iovCnt = 2 THEN v0 \o v1 ELSE v0
    OBVIOUS
  <2>4. o = out
    BY <2>1, <2>3 DEF ToWrite
  <2>5. n \in 0..Len(o) /\ took = SubSeq(o, 1, n)
    BY <1>5, <1>7, <2>4
  <2> HIDE DEF out
  <2>6. Exact(v0, v1, took, w, b)
    <3>1. iov \in [{0, 1} -> Seq(Byte)]
      BY <1>1
    <3>2. Took(iov, v0, v1, iovCnt, o, n, took, w, b)
      BY <2>1, <2>2, <2>3, <2>5 DEF Took
    <3>3. v0 \in Seq(Byte) /\ v1 \in Seq(Byte)
      BY <2>1
    <3> QED
      BY <3>1, <3>2, <3>3, AdvanceExact
  <2>7. iov' = w /\ wbuf' = b
    BY <1>1, <1>6, <2>1, <2>2
  <2> QED
    BY <2>1, <2>6, <2>7 DEF Exact
<1>9. iov'[0] \in Seq(Byte) /\ iov'[1] \in Seq(Byte) /\ iov'[0] \o iov'[1] \in Seq(Byte)
  BY <1>8, ConcatProperties
<1>10. wire' = wire \o took /\ wire' \in Seq(Byte)
  BY <1>1, <1>6, <1>7, <1>8, ConcatProperties
<1>11. wire' \o ToWrite(iov') = wire \o ToWrite(iov)
  <2>1. (wire \o took) \o (iov'[0] \o iov'[1]) = wire \o (took \o (iov'[0] \o iov'[1]))
    <3>1. wire \in Seq(Byte)
      BY <1>1
    <3>2. took \in Seq(Byte)
      BY <1>8
    <3>3. iov'[0] \o iov'[1] \in Seq(Byte)
      BY <1>9
    <3> QED
      BY <3>1, <3>2, <3>3, Associative
  <2> QED
    BY <1>8, <1>10, <2>1 DEF ToWrite
<1>12. CASE took \o iov'[0] = iov[0] /\ iov'[1] = iov[1]
  <2>1. wire' \o wbuf' = wire \o wbuf
    <3>1. (wire \o took) \o iov'[0] = wire \o (took \o iov'[0])
      <4>1. wire \in Seq(Byte)
        BY <1>1
      <4>2. took \in Seq(Byte)
        BY <1>8
      <4>3. iov'[0] \in Seq(Byte)
        BY <1>9
      <4> QED
        BY <4>1, <4>2, <4>3, Associative
    <3> QED
      BY <1>1, <1>8, <1>10, <1>12, <3>1
  <2>2. \A i \in 1..Len(wbuf') : wbuf'[i][2] <= HeadLen
    <3>1. Len(took) \in Nat /\ Len(wbuf') \in Nat
      BY <1>8, <1>9, LenProperties
    <3>2. /\ Len(wbuf) = Len(took) + Len(wbuf')
          /\ \A i \in 1..Len(took) + Len(wbuf') :
                wbuf[i] = IF i <= Len(took) THEN took[i] ELSE wbuf'[i - Len(took)]
      BY <1>1, <1>8, <1>9, <1>12, ConcatProperties
    <3> SUFFICES ASSUME NEW i \in 1..Len(wbuf') PROVE wbuf'[i][2] <= HeadLen
      OBVIOUS
    <3>3. PICK j \in 1..Len(wbuf) : j = Len(took) + i
      BY <3>1, <3>2
    <3>4. wbuf[j] = wbuf'[i]
      BY <3>1, <3>2, <3>3
    <3> QED
      BY <1>1, <3>4 DEF Parts
  <2>3. Parts'
    BY <1>1, <1>12, <2>2 DEF Parts
  <2> QED
    BY <1>2, <1>5, <1>6, <1>8, <1>9, <1>10, <1>11, <2>1, <2>3
<1>13. CASE \E m \in 0..Len(iov[1]) : /\ took = iov[0] \o SubSeq(iov[1], 1, m) /\ iov'[0] = <<>>
                                      /\ iov'[1] = SubSeq(iov[1], m + 1, Len(iov[1]))
  <2>1. PICK m \in 0..Len(iov[1]) : /\ took = iov[0] \o SubSeq(iov[1], 1, m) /\ iov'[0] = <<>>
                                    /\ iov'[1] = SubSeq(iov[1], m + 1, Len(iov[1]))
    BY <1>13
  <2>2. PICK t : t = SubSeq(iov[1], 1, m)
    OBVIOUS
  <2>3. /\ t \in Seq(Byte) /\ Len(t) = m /\ \A i \in 1..m : t[i] = iov[1][i]
        /\ Len(iov'[1]) = Len(iov[1]) - m
        /\ \A i \in 1..Len(iov[1]) - m : iov'[1][i] = iov[1][m + i]
    <3>1. PICK u \in Seq(Byte) : u = iov[1]
      BY <1>1
    <3> QED
      BY <2>1, <2>2, <3>1, Cut
  <2>4. \A i \in 1..Len(t) : t[i][2] > HeadLen
    <3> SUFFICES ASSUME NEW i \in 1..Len(t) PROVE t[i][2] > HeadLen
      OBVIOUS
    <3>1. i \in 1..Len(iov[1])
      BY <1>4, <2>3
    <3> QED
      BY <1>1, <2>3, <3>1 DEF Parts
  <2>5. \A i \in 1..Len(iov'[1]) : iov'[1][i][2] > HeadLen
    <3> SUFFICES ASSUME NEW i \in 1..Len(iov'[1]) PROVE iov'[1][i][2] > HeadLen
      OBVIOUS
    <3>1. m + i \in 1..Len(iov[1]) /\ i \in 1..Len(iov[1]) - m
      BY <1>4, <2>3
    <3>2. iov'[1][i] = iov[1][m + i]
      BY <2>3, <3>1
    <3> QED
      BY <1>1, <3>1, <3>2 DEF Parts
  <2>6. Parts'
    <3>1. wbuf' = <<>> /\ Len(<<>>) = 0
      BY <1>8, <2>1
    <3>2. \A i \in 1..Len(wbuf') : wbuf'[i][2] <= HeadLen
      BY <3>1
    <3> QED
      BY <2>5, <3>2 DEF Parts
  <2>7. wire' \o wbuf' = (wire \o wbuf) \o t
    <3>1. wire' \o <<>> = wire'
      BY <1>10, ConcatEmptySeq
    <3>2. wire \o (wbuf \o t) = (wire \o wbuf) \o t
      BY <1>1, <2>3, Associative
    <3> QED
      BY <1>1, <1>8, <1>10, <2>1, <2>2, <3>1, <3>2
  <2>8. wire \o wbuf \in Seq(Byte)
    BY <1>1, ConcatProperties
  <2>9. HeadsIn(wire' \o wbuf') = HeadsIn(wire \o wbuf) /\ HeadsOrdered(wire' \o wbuf')
    BY <1>2, <2>3, <2>4, <2>7, <2>8, NoHeads
  <2> QED
    BY <1>5, <1>6, <1>8, <1>9, <1>10, <1>11, <2>6, <2>9
<1> QED
  BY <1>8, <1>12, <1>13

-----------------------------------------------------------------------------
(* Respond *)

LEMMA HeadFacts ==
    ASSUME NEW i \in Nat
    PROVE  /\ Head_(i) \in Seq(Byte) /\ Ordered(Head_(i)) /\ HeadsOrdered(Head_(i))
           /\ BytesIn(Head_(i)) = {i} \X (1..HeadLen) /\ HeadsIn(Head_(i)) = {i} \X (1..HeadLen)
           /\ \A k \in 1..Len(Head_(i)) : Head_(i)[k][2] <= HeadLen
<1>0. HeadLen \in Nat
  BY LengthAssumption
<1>1. \A k \in 1..HeadLen : <<i, k>> \in Byte
  BY <1>0 DEF Byte
<1>2. Head_(i) \in [1..HeadLen -> Byte] /\ \A k \in 1..HeadLen : Head_(i)[k] = <<i, k>>
  BY <1>1 DEF Head_
<1>3. Head_(i) \in Seq(Byte) /\ Len(Head_(i)) = HeadLen
  BY <1>0, <1>2
<1>4. Heads(Head_(i)) = 1..HeadLen
  BY <1>0, <1>2, <1>3 DEF Heads
<1>5. \A j, k \in 1..HeadLen : j < k => Precedes(Head_(i)[j], Head_(i)[k])
  BY <1>0, <1>2 DEF Precedes
<1>6. {Head_(i)[k] : k \in 1..HeadLen} = {i} \X (1..HeadLen)
  <2>1. ASSUME NEW k \in 1..HeadLen PROVE Head_(i)[k] \in {i} \X (1..HeadLen)
    <3>1. Head_(i)[k] = <<i, k>>
      BY <1>2
    <3>2. <<i, k>> \in {i} \X (1..HeadLen)
      OBVIOUS
    <3> QED
      BY <3>1, <3>2
  <2>2. ASSUME NEW b \in {i} \X (1..HeadLen) PROVE b \in {Head_(i)[k] : k \in 1..HeadLen}
    <3>1. PICK k \in 1..HeadLen : b = <<i, k>>
      OBVIOUS
    <3> QED
      BY <1>2, <3>1
  <2> QED
    BY <2>1, <2>2
<1>7. Ordered(Head_(i)) /\ HeadsOrdered(Head_(i))
  BY <1>3, <1>4, <1>5 DEF Ordered, HeadsOrdered
<1>8. BytesIn(Head_(i)) = {i} \X (1..HeadLen) /\ HeadsIn(Head_(i)) = {i} \X (1..HeadLen)
  BY <1>3, <1>4, <1>6 DEF BytesIn, HeadsIn
<1>9. \A k \in 1..Len(Head_(i)) : Head_(i)[k][2] <= HeadLen
  BY <1>0, <1>2, <1>3
<1> QED
  BY <1>3, <1>7, <1>8, <1>9

LEMMA FileFacts ==
    ASSUME NEW i \in Nat
    PROVE  /\ File_(i) \in Seq(Byte) /\ Ordered(File_(i))
           /\ BytesIn(File_(i)) = {i} \X (HeadLen + 1..HeadLen + FileLen)
           /\ \A k \in 1..Len(File_(i)) : File_(i)[k][2] > HeadLen
<1>0. HeadLen \in Nat /\ FileLen \in Nat
  BY LengthAssumption
<1>1. \A k \in 1..FileLen : <<i, HeadLen + k>> \in Byte
  BY <1>0 DEF Byte
<1>2. File_(i) \in [1..FileLen -> Byte] /\ \A k \in 1..FileLen : File_(i)[k] = <<i, HeadLen + k>>
  BY <1>1 DEF File_
<1>3. File_(i) \in Seq(Byte) /\ Len(File_(i)) = FileLen
  BY <1>0, <1>2
<1>4. \A j, k \in 1..FileLen : j < k => Precedes(File_(i)[j], File_(i)[k])
  BY <1>0, <1>2 DEF Precedes
<1>5. Ordered(File_(i))
  BY <1>3, <1>4 DEF Ordered
<1>6. BytesIn(File_(i)) = {i} \X (HeadLen + 1..HeadLen + FileLen)
  <2>1. ASSUME NEW b \in BytesIn(File_(i)) PROVE b \in {i} \X (HeadLen + 1..HeadLen + FileLen)
    <3>1. PICK k \in 1..FileLen : b = File_(i)[k]
      BY <1>3 DEF BytesIn
    <3>2. b = <<i, HeadLen + k>>
      BY <1>2, <3>1
    <3>3. HeadLen + k \in HeadLen + 1..HeadLen + FileLen
      BY <1>0
    <3> QED
      BY <3>2, <3>3
  <2>2. ASSUME NEW k \in HeadLen + 1..HeadLen + FileLen PROVE <<i, k>> \in BytesIn(File_(i))
    <3>1. k - HeadLen \in 1..FileLen /\ HeadLen + (k - HeadLen) = k
      BY <1>0
    <3>2. File_(i)[k - HeadLen] = <<i, k>>
      BY <1>2, <3>1
    <3> QED
      BY <1>3, <3>1, <3>2 DEF BytesIn
  <2> QED
    BY <2>1, <2>2
<1>7. \A k \in 1..Len(File_(i)) : File_(i)[k][2] > HeadLen
  BY <1>0, <1>2, <1>3
<1> QED
  BY <1>3, <1>5, <1>6, <1>7

(* The answers and the bytes they stand for. *)
Adds(a, i) ==
    /\ a.file \in BOOLEAN /\ i = Len(answers) + 1
    /\ answers \in Seq({answers[k] : k \in 1..Len(answers)}) /\ answers' = Append(answers, a)

Added(a, i) ==
    /\ i \in Nat \ {0} /\ Len(answers') = i
    /\ answers' \in Seq({answers'[k] : k \in 1..Len(answers')})
    /\ answers'[i] = a /\ \A k \in 1..Len(answers) : answers'[k] = answers[k]
    /\ HeadBytes' = HeadBytes \cup ({i} \X (1..HeadLen))
    /\ FileBytes' = FileBytes \cup (IF a.file THEN {i} \X (HeadLen + 1..HeadLen + FileLen) ELSE {})

LEMMA AnswerAdded ==
    ASSUME NEW a, NEW i, Adds(a, i)
    PROVE  Added(a, i)
<1>0. /\ a.file \in BOOLEAN /\ i = Len(answers) + 1
      /\ answers \in Seq({answers[k] : k \in 1..Len(answers)}) /\ answers' = Append(answers, a)
  BY DEF Adds
<1>1. PICK S : S = {answers[k] : k \in 1..Len(answers)} \cup {a}
  OBVIOUS
<1>2. answers \in Seq(S) /\ a \in S
  BY <1>0, <1>1, SeqMonotonic
<1>3. /\ Len(answers) \in Nat /\ answers' \in Seq(S) /\ Len(answers') = Len(answers) + 1
      /\ \A k \in 1..Len(answers) : answers'[k] = answers[k]
      /\ answers'[Len(answers) + 1] = a
  BY <1>0, <1>2, AppendProperties, LenProperties
<1>4. i \in Nat \ {0} /\ Len(answers') = i /\ answers'[i] = a
  BY <1>0, <1>3
<1>5. answers' \in Seq({answers'[k] : k \in 1..Len(answers')})
  <2>1. PICK n \in Nat : n = Len(answers')
    BY <1>4
  <2>2. answers' \in [1..n -> S]
    BY <1>3, <2>1, LenProperties
  <2>3. answers' \in [1..n -> {answers'[k] : k \in 1..n}]
    BY <2>2
  <2> QED
    BY <2>1, <2>3
<1>6. 1..Len(answers') = (1..Len(answers)) \cup {i}
  BY <1>0, <1>3, <1>4
<1>7. HeadBytes' = HeadBytes \cup ({i} \X (1..HeadLen))
  BY <1>6 DEF HeadBytes
<1>8. {k \in 1..Len(answers') : answers'[k].file} =
          {k \in 1..Len(answers) : answers[k].file} \cup (IF a.file THEN {i} ELSE {})
  BY <1>0, <1>3, <1>4, <1>6
<1>9. FileBytes' = FileBytes \cup (IF a.file THEN {i} \X (HeadLen + 1..HeadLen + FileLen) ELSE {})
  <2>1. CASE a.file
    BY <1>8, <2>1 DEF FileBytes
  <2>2. CASE ~a.file
    BY <1>8, <2>2 DEF FileBytes
  <2> QED
    BY <1>0, <2>1, <2>2
<1> QED
  BY <1>3, <1>4, <1>5, <1>7, <1>9 DEF Added

Answered(a) == a.code \in Code /\ a.keep \in BOOLEAN /\ a.file \in BOOLEAN

LEMMA ResponseTyped ==
    ASSUME NEW path, NEW keep \in BOOLEAN, NEW code \in Code, NEW mapped \in BOOLEAN
    PROVE  Answered(MakeResponse(path, keep, code, mapped))
<1>1. PICK c : c = IF path = "" \/ path \in Missing THEN 404 ELSE IF path \in Denied THEN 403 ELSE code
  BY ZenonT(60)
<1>2. PICK p : p = IF c \in DOMAIN ErrorPage THEN ErrorPage[c] ELSE path
  OBVIOUS
<1>3. PICK a : a = [code |-> c, keep |-> keep, page |-> p, file |-> mapped /\ p \notin Empty]
  OBVIOUS
<1>4. c \in Code
  <2>1. 404 \in Code /\ 403 \in Code
    BY DEF Code
  <2> QED
    BY <1>1, <2>1
<1>5. a.code = c /\ a.keep = keep
  BY <1>3
<1>6. a.file \in BOOLEAN
  BY <1>3
<1>7. MakeResponse(path, keep, code, mapped) = a
  BY <1>1, <1>2, <1>3, ZenonT(60) DEF MakeResponse
<1> QED
  BY <1>4, <1>5, <1>6, <1>7 DEF Answered

(* A new answer goes behind everything made before it. *)
LEMMA RespondKeeps ==
    ASSUME IInv, NEW mapped \in BOOLEAN, Respond(mapped)
    PROVE  /\ wire' \in Seq(Byte) /\ wbuf' \in Seq(Byte) /\ iov' \in [{0, 1} -> Seq(Byte)]
           /\ answers' \in Seq({answers'[k] : k \in 1..Len(answers')})
           /\ \A k \in 1..Len(answers') :
                 /\ answers'[k].code \in Code
                 /\ {answers'[k].keep, answers'[k].file} \subseteq BOOLEAN
           /\ iovCnt' \in 0..2 /\ iov'[0] = wbuf'
           /\ HeadsIn(wire' \o wbuf') = HeadBytes' /\ HeadsOrdered(wire' \o wbuf')
           /\ ~doubled => /\ Ordered(wire' \o ToWrite(iov'))
                          /\ BytesIn(wire' \o ToWrite(iov')) = HeadBytes' \cup FileBytes'
           /\ Parts'
<1>1. /\ wire \in Seq(Byte) /\ wbuf \in Seq(Byte) /\ iov \in [{0, 1} -> Seq(Byte)]
      /\ answers \in Seq({answers[k] : k \in 1..Len(answers)})
      /\ iov[0] = wbuf /\ iov[1] \in Seq(Byte) /\ req.ok \in BOOLEAN
  BY DEF IInv, Typed, OutputSound, WireExact
<1>2. /\ \A k \in 1..Len(answers) :
            answers[k].code \in Code /\ {answers[k].keep, answers[k].file} \subseteq BOOLEAN
      /\ Parts
  BY DEF IInv, OutputSound, TypeOK
<1>3. PICK i : i = Len(answers) + 1
  OBVIOUS
<1>4. PICK a : a = MakeResponse(req.path, req.ok /\ IsKeepAlive(req), IF req.ok THEN 200 ELSE 400, mapped)
  OBVIOUS
<1>5. /\ answers' = Append(answers, a) /\ wbuf' = wbuf \o Head_(i) /\ pc = "respond"
      /\ iov' = [iov EXCEPT ![0] = wbuf', ![1] = IF a.file THEN File_(i) ELSE iov[1]]
      /\ iovCnt' = IF a.file THEN 2 ELSE 1
      /\ wire' = wire
  BY <1>3, <1>4 DEF Respond
<1>6. a.code \in Code /\ a.keep \in BOOLEAN /\ a.file \in BOOLEAN
  <2>1. (IF req.ok THEN 200 ELSE 400) \in Code /\ (req.ok /\ IsKeepAlive(req)) \in BOOLEAN
    BY <1>1 DEF Code
  <2>2. PICK c \in Code, k \in BOOLEAN : c = (IF req.ok THEN 200 ELSE 400) /\ k = (req.ok /\ IsKeepAlive(req))
    BY <2>1
  <2>3. a = MakeResponse(req.path, k, c, mapped)
    BY <1>4, <2>2
  <2>4. c \in Code /\ k \in BOOLEAN
    BY <2>2
  <2>5. Answered(MakeResponse(req.path, k, c, mapped))
    BY <2>4, ResponseTyped, Zenon
  <2> QED
    BY <2>3, <2>5 DEF Answered
<1>7. /\ i \in Nat \ {0} /\ Len(answers') = i
      /\ answers' \in Seq({answers'[k] : k \in 1..Len(answers')})
      /\ answers'[i] = a /\ \A k \in 1..Len(answers) : answers'[k] = answers[k]
      /\ HeadBytes' = HeadBytes \cup ({i} \X (1..HeadLen))
      /\ FileBytes' = FileBytes \cup (IF a.file THEN {i} \X (HeadLen + 1..HeadLen + FileLen) ELSE {})
  <2>1. a.file \in BOOLEAN
    BY <1>6
  <2>2. answers \in Seq({answers[k] : k \in 1..Len(answers)})
    BY <1>1
  <2>3. answers' = Append(answers, a)
    BY <1>5
  <2>4. Adds(a, i)
    BY <1>3, <2>1, <2>2, <2>3 DEF Adds
  <2> QED
    BY <2>4, AnswerAdded DEF Added
<1>8. \A k \in 1..Len(answers') :
          answers'[k].code \in Code /\ {answers'[k].keep, answers'[k].file} \subseteq BOOLEAN
  <2>1. \A k \in 1..Len(answers') : k = i \/ k \in 1..Len(answers)
    <3>1. Len(answers) \in Nat
      BY <1>1, LenProperties
    <3> QED
      BY <1>3, <1>7, <3>1
  <2> QED
    BY <1>2, <1>6, <1>7, <2>1
<1>9. i \in Nat
  BY <1>7
<1>10. /\ Head_(i) \in Seq(Byte) /\ Ordered(Head_(i)) /\ HeadsOrdered(Head_(i))
       /\ BytesIn(Head_(i)) = {i} \X (1..HeadLen) /\ HeadsIn(Head_(i)) = {i} \X (1..HeadLen)
       /\ \A k \in 1..Len(Head_(i)) : Head_(i)[k][2] <= HeadLen
  BY <1>9, HeadFacts
<1>11. /\ File_(i) \in Seq(Byte) /\ Ordered(File_(i))
       /\ BytesIn(File_(i)) = {i} \X (HeadLen + 1..HeadLen + FileLen)
       /\ \A k \in 1..Len(File_(i)) : File_(i)[k][2] > HeadLen
  BY <1>9, FileFacts
<1>12. wbuf' \in Seq(Byte)
  BY <1>1, <1>5, <1>10, ConcatProperties
<1>13. PICK v1 \in Seq(Byte) : v1 = IF a.file THEN File_(i) ELSE iov[1]
  BY <1>1, <1>11
<1>14. iov' \in [{0, 1} -> Seq(Byte)] /\ iov'[0] = wbuf' /\ iov'[1] = v1
  <2>1. PICK b \in Seq(Byte) : b = wbuf'
    BY <1>12
  <2>2. iov' = [iov EXCEPT ![0] = b, ![1] = v1]
    BY <1>5, <1>13, <2>1
  <2>3. iov' \in [{0, 1} -> Seq(Byte)]
    BY <1>1, <2>2
  <2>4. iov'[0] = b /\ iov'[1] = v1
    BY <1>1, <2>2
  <2> QED
    BY <2>1, <2>3, <2>4
<1>15. iovCnt' \in 0..2
  BY <1>5
<1>16. Parts'
  <2>1. \A k \in 1..Len(v1) : v1[k][2] > HeadLen
    BY <1>2, <1>11, <1>13 DEF Parts
  <2>2. \A k \in 1..Len(wbuf') : wbuf'[k][2] <= HeadLen
    <3>1. /\ Len(wbuf) \in Nat /\ Len(Head_(i)) \in Nat /\ Len(wbuf') = Len(wbuf) + Len(Head_(i))
          /\ \A k \in 1..Len(wbuf) + Len(Head_(i)) :
                wbuf'[k] = IF k <= Len(wbuf) THEN wbuf[k] ELSE Head_(i)[k - Len(wbuf)]
      BY <1>1, <1>5, <1>10, ConcatProperties, LenProperties
    <3> SUFFICES ASSUME NEW k \in 1..Len(wbuf') PROVE wbuf'[k][2] <= HeadLen
      OBVIOUS
    <3>2. CASE k <= Len(wbuf)
      <4>1. k \in 1..Len(wbuf) /\ wbuf'[k] = wbuf[k]
        BY <3>1, <3>2
      <4> QED
        BY <1>2, <4>1 DEF Parts
    <3>3. CASE k > Len(wbuf)
      <4>1. k - Len(wbuf) \in 1..Len(Head_(i)) /\ wbuf'[k] = Head_(i)[k - Len(wbuf)]
        BY <3>1, <3>3
      <4> QED
        BY <1>10, <4>1
    <3> QED
      BY <3>1, <3>2, <3>3
  <2> QED
    BY <1>14, <2>1, <2>2 DEF Parts
<1>17. HeadsIn(wire' \o wbuf') = HeadBytes' /\ HeadsOrdered(wire' \o wbuf')
  <2>1. PICK s \in Seq(Byte) : s = wire \o wbuf
    BY <1>1, ConcatProperties
  <2>2. HeadsIn(s) = HeadBytes /\ HeadsOrdered(s)
    BY <2>1 DEF IInv, OutputSound, HeadsInOrder, HeadsIn, HeadsOrdered, Heads
  <2>3. wire' \o wbuf' = s \o Head_(i)
    <3>1. (wire \o wbuf) \o Head_(i) = wire \o (wbuf \o Head_(i))
      BY <1>1, <1>10, Associative, ZenonT(60)
    <3> QED
      BY <1>5, <2>1, <3>1
  <2>4. \A b \in HeadsIn(s), c \in HeadsIn(Head_(i)) : Precedes(b, c)
    <3> SUFFICES ASSUME NEW b \in HeadBytes, NEW c \in {i} \X (1..HeadLen) PROVE Precedes(b, c)
      BY <1>10, <2>2
    <3>1. b[1] \in 1..Len(answers) /\ c[1] = i
      BY DEF HeadBytes
    <3>2. Len(answers) \in Nat
      BY <1>1, LenProperties
    <3> QED
      BY <1>3, <3>1, <3>2 DEF Precedes
  <2>5. HeadsIn(s \o Head_(i)) = HeadsIn(s) \cup HeadsIn(Head_(i))
    BY <1>10, BytesOfBoth
  <2>6. HeadsOrdered(s \o Head_(i))
    BY <1>10, <2>2, <2>4, HeadOrderOfBoth
  <2> QED
    BY <1>7, <1>10, <2>2, <2>3, <2>5, <2>6
<1>18. ASSUME ~doubled
       PROVE  /\ Ordered(wire' \o ToWrite(iov'))
              /\ BytesIn(wire' \o ToWrite(iov')) = HeadBytes' \cup FileBytes'
  <2>1. ToWrite(iov) = <<>>
    BY <1>5, <1>18 DEF IInv, SentBeforeRead, Reading
  <2>2. iov[0] = <<>> /\ iov[1] = <<>>
    <3>1. iov[0] \in Seq(Byte) /\ iov[1] \in Seq(Byte)
      BY <1>1
    <3> QED
      BY <2>1, <3>1, ConcatEqualIffEmpty DEF ToWrite
  <2>3. wire \o ToWrite(iov) = wire
    BY <1>1, <2>1, ConcatEmptySeq
  <2>4. Ordered(wire) /\ BytesIn(wire) = HeadBytes \cup FileBytes
    BY <1>18, <2>3 DEF IInv, OutputSound, WireExact, Ordered, BytesIn
  <2>5. wbuf' = Head_(i)
    BY <1>1, <1>5, <1>10, <2>2, ConcatEmptySeq
  <2>6. Ordered(v1) /\ BytesIn(v1) = IF a.file THEN {i} \X (HeadLen + 1..HeadLen + FileLen) ELSE {}
    <3>1. CASE a.file
      BY <1>11, <1>13, <3>1
    <3>2. CASE ~a.file
      <4>1. v1 = <<>> /\ Len(v1) = 0
        BY <1>13, <2>2, <3>2
      <4> QED
        BY <3>2, <4>1 DEF Ordered, BytesIn
    <3> QED
      BY <3>1, <3>2
  <2>7. PICK h \in Seq(Byte) : h = Head_(i)
    BY <1>10
  <2>8. \A b \in BytesIn(h), c \in BytesIn(v1) : Precedes(b, c)
    <3> SUFFICES ASSUME NEW b \in {i} \X (1..HeadLen),
                        NEW c \in {i} \X (HeadLen + 1..HeadLen + FileLen)
                 PROVE  Precedes(b, c)
      BY <1>10, <2>6, <2>7
    <3>1. b[1] = i /\ c[1] = i /\ b[2] \in 1..HeadLen /\ c[2] \in HeadLen + 1..HeadLen + FileLen
      OBVIOUS
    <3>2. b[2] < c[2]
      BY <3>1, LengthAssumption
    <3> QED
      BY <3>1, <3>2 DEF Precedes
  <2>9. PICK t \in Seq(Byte) : t = h \o v1
    BY ConcatProperties
  <2>10. Ordered(t) /\ BytesIn(t) = BytesIn(h) \cup BytesIn(v1)
    BY <1>10, <2>6, <2>7, <2>8, <2>9, OrderOfBoth, BytesOfBoth
  <2>11. \A b \in BytesIn(wire), c \in BytesIn(t) : Precedes(b, c)
    <3> SUFFICES ASSUME NEW b \in HeadBytes \cup FileBytes, NEW c \in BytesIn(t) PROVE Precedes(b, c)
      BY <2>4
    <3>1. c[1] = i
      BY <1>10, <2>6, <2>7, <2>10
    <3>2. b[1] \in 1..Len(answers)
      BY DEF HeadBytes, FileBytes
    <3>3. Len(answers) \in Nat
      BY <1>1, LenProperties
    <3> QED
      BY <1>3, <3>1, <3>2, <3>3 DEF Precedes
  <2>12. Ordered(wire \o t) /\ BytesIn(wire \o t) = BytesIn(wire) \cup BytesIn(t)
    BY <1>1, <2>4, <2>10, <2>11, OrderOfBoth, BytesOfBoth
  <2>13. wire' \o ToWrite(iov') = wire \o t
    BY <1>5, <1>14, <2>5, <2>7, <2>9 DEF ToWrite
  <2>14. BytesIn(wire \o t) = HeadBytes' \cup FileBytes'
    BY <1>7, <1>10, <2>4, <2>6, <2>7, <2>10, <2>12
  <2> QED
    BY <2>12, <2>13, <2>14
<1>19. wire' \in Seq(Byte)
  BY <1>1, <1>5
<1> QED
  BY <1>7, <1>8, <1>12, <1>14, <1>15, <1>16, <1>17, <1>18, <1>19

-----------------------------------------------------------------------------
(* The tasks and the registration *)

Kind    == {"onRead", "onWrite"}
Place   == {"idle", "onRead", "process", "parse", "respond", "onWrite", "again", "written"}
Control == /\ tasks \in Seq(Kind) /\ pc \in Place /\ armed \in {"in", "inOnce", "outOnce", "off"}
           /\ ready \in BOOLEAN /\ closed \in BOOLEAN /\ doubled \in BOOLEAN
           /\ OffIsQuiet /\ Serial /\ SentBeforeRead

(* With no event while a task was under way a queue of tasks is empty or has *)
(* one.                                                                      *)
LEMMA FirstTask ==
    ASSUME NEW k \in Kind, NEW q \in Seq(Kind), q = <<>>
    PROVE  Append(q, k) # <<>> /\ Len(Append(q, k)) = 1 /\ Head(Append(q, k)) = k
<1>1. /\ Append(q, k) \in Seq(Kind) /\ Append(q, k) # <<>> /\ Len(Append(q, k)) = Len(q) + 1
      /\ Append(q, k)[Len(q) + 1] = k
  BY AppendProperties
<1>2. Len(q) = 0
  OBVIOUS
<1>3. Append(q, k) = <<k>>
  OBVIOUS
<1> QED
  BY <1>1, <1>2, <1>3

LEMMA LastTask ==
    ASSUME NEW q \in Seq(Kind), q # <<>>
    PROVE  Head(q) \in Kind /\ Tail(q) \in Seq(Kind) /\ (Len(q) = 1 => Tail(q) = <<>>)
<1>1. Head(q) \in Kind /\ Tail(q) \in Seq(Kind) /\ Len(Tail(q)) = Len(q) - 1
  BY HeadTailProperties
<1>2. Tail(q) # <<>> => Len(Tail(q)) \in Nat \ {0}
  BY <1>1, EmptySeq
<1> QED
  BY <1>1, <1>2

LEMMA PeerControl ==
    ASSUME Control, PeerStep
    PROVE  Control' /\ doubled' = doubled
<1>1. /\ UNCHANGED <<tasks, pc, armed, closed, doubled, iov>>
      /\ ready' \in BOOLEAN /\ (armed = "off" => ready' = ready)
  BY DEF PeerStep, PeerSend, PeerRead, output, hist, Control
<1>2. OffIsQuiet'
  BY <1>1 DEF Control, OffIsQuiet
<1>3. Serial'
  BY <1>1 DEF Control, Serial, Idle
<1>4. SentBeforeRead'
  BY <1>1 DEF Control, SentBeforeRead
<1> QED
  BY <1>1, <1>2, <1>3, <1>4 DEF Control

LEMMA EventControl ==
    ASSUME Control, Event
    PROVE  Control' /\ (doubled => doubled') /\ (doubled' /\ ~doubled => armed = "in")
<1>0. /\ tasks \in Seq(Kind) /\ armed \in {"in", "inOnce", "outOnce", "off"}
      /\ OffIsQuiet /\ Serial /\ SentBeforeRead
  BY DEF Control
<1>1. PICK k \in Kind : k = IF armed = "outOnce" THEN "onWrite" ELSE "onRead"
  BY DEF Kind
<1>2. /\ ~closed /\ ready /\ tasks' = Append(tasks, k) /\ ready' = FALSE
      /\ armed' = IF armed = "in" THEN "in" ELSE "off"
      /\ doubled' = (doubled \/ tasks # <<>> \/ pc # "idle")
      /\ UNCHANGED <<pc, closed, iov>>
  BY <1>1 DEF Event, output
<1>3. tasks' \in Seq(Kind)
  BY <1>0, <1>2, AppendProperties
<1>4. armed # "off"
  BY <1>2 DEF Control, OffIsQuiet
<1>5. OffIsQuiet'
  BY <1>2 DEF OffIsQuiet
<1>6. ASSUME ~doubled' PROVE tasks = <<>> /\ pc = "idle" /\ ~doubled /\ Len(tasks') = 1 /\ tasks' # <<>> /\ Head(tasks') = k
  <2>1. tasks = <<>> /\ pc = "idle" /\ ~doubled
    BY <1>2, <1>6
  <2> QED
    BY <1>0, <1>2, <2>1, FirstTask
<1>7. armed' \notin {"inOnce", "outOnce"}
  BY <1>2
<1>8. Serial'
  BY <1>2, <1>6, <1>7 DEF Serial
<1>9. SentBeforeRead'
  <2> SUFFICES ASSUME ~doubled', \/ pc' \in Reading
                                 \/ tasks' # <<>> /\ Head(tasks') = "onRead" /\ ~closed'
                                 \/ armed' \in {"in", "inOnce"} /\ ~closed'
               PROVE  ToWrite(iov) = <<>>
    BY <1>2 DEF SentBeforeRead, ToWrite
  <2>1. armed \in {"in", "inOnce"}
    BY <1>0, <1>1, <1>2, <1>4, <1>6 DEF Reading
  <2> QED
    BY <1>0, <1>2, <1>6, <2>1 DEF SentBeforeRead
<1>10. doubled' /\ ~doubled => armed = "in"
  BY <1>0, <1>2, <1>4 DEF Serial, Idle
<1>11. doubled' \in BOOLEAN /\ (doubled => doubled')
  BY <1>2
<1> QED
  BY <1>2, <1>3, <1>5, <1>7, <1>8, <1>9, <1>10, <1>11 DEF Control

LEMMA TakeTaskControl ==
    ASSUME Control, TakeTask
    PROVE  Control' /\ doubled' = doubled
<1>0. tasks \in Seq(Kind) /\ OffIsQuiet /\ Serial /\ SentBeforeRead /\ closed \in BOOLEAN
  BY DEF Control
<1>1. /\ pc = "idle" /\ tasks # <<>> /\ tasks' = Tail(tasks)
      /\ pc' = (IF closed THEN "idle" ELSE Head(tasks))
      /\ UNCHANGED <<armed, ready, closed, doubled, iov>>
  BY DEF TakeTask, epoll, output, hist
<1>2. /\ Head(tasks) \in Kind /\ tasks' \in Seq(Kind) /\ (Len(tasks) = 1 => tasks' = <<>>)
  BY <1>0, <1>1, LastTask
<1>3. pc' \in Place
  BY <1>1, <1>2 DEF Kind, Place
<1>4. OffIsQuiet'
  BY <1>0, <1>1 DEF OffIsQuiet
<1>5. ~doubled => tasks' = <<>> /\ armed \notin {"inOnce", "outOnce"}
  BY <1>0, <1>1, <1>2 DEF Serial, Idle
<1>6. Serial'
  BY <1>1, <1>5 DEF Serial
<1>7. SentBeforeRead'
  <2> SUFFICES ASSUME ~doubled, \/ pc' \in Reading
                                \/ tasks' # <<>> /\ Head(tasks') = "onRead" /\ ~closed'
                                \/ armed' \in {"in", "inOnce"} /\ ~closed'
               PROVE  ToWrite(iov) = <<>>
    BY <1>1 DEF SentBeforeRead, ToWrite
  <2>1. CASE pc' \in Reading
    <3>1. ~closed /\ Head(tasks) = "onRead"
      BY <1>1, <1>2, <2>1 DEF Reading, Kind
    <3> QED
      BY <1>0, <1>1, <3>1 DEF SentBeforeRead
  <2>2. CASE armed' \in {"in", "inOnce"} /\ ~closed'
    BY <1>0, <1>1, <2>2 DEF SentBeforeRead
  <2> QED
    BY <1>5, <2>1, <2>2
<1> QED
  BY <1>1, <1>2, <1>3, <1>4, <1>6, <1>7 DEF Control

(* A step of a running task from place to place, with the registration as    *)
(* it is.                                                                    *)
LEMMA MoveControl ==
    ASSUME Control, UNCHANGED <<tasks, armed, ready, closed, doubled>>,
           pc # "idle", pc' \in Place,
           \/ pc \in Reading /\ iov' = iov
           \/ pc' \notin Reading /\ (iov' = iov \/ ToWrite(iov) # <<>>)
           \/ ToWrite(iov') = <<>>
    PROVE  Control'
<1>0. OffIsQuiet /\ Serial /\ SentBeforeRead
  BY DEF Control
<1>1. ~doubled => tasks = <<>> /\ armed \notin {"inOnce", "outOnce"}
  BY <1>0 DEF Serial, Idle
<1>2. OffIsQuiet'
  BY <1>0 DEF OffIsQuiet
<1>3. Serial'
  BY <1>1 DEF Serial
<1>4. SentBeforeRead'
  <2>1. SUFFICES ASSUME ~doubled, pc' \in Reading \/ (armed = "in" /\ ~closed)
                 PROVE  ToWrite(iov') = <<>>
    BY <1>1 DEF SentBeforeRead, ToWrite
  <2>2. CASE pc \in Reading /\ iov' = iov
    BY <1>0, <2>1, <2>2 DEF SentBeforeRead
  <2>3. CASE pc' \notin Reading /\ (iov' = iov \/ ToWrite(iov) # <<>>)
    BY <1>0, <2>1, <2>3 DEF SentBeforeRead
  <2> QED
    BY <2>2, <2>3
<1> QED
  BY <1>2, <1>3, <1>4 DEF Control

(* A task that ends arms what the connection waits for, ... *)
LEMMA ArmControl ==
    ASSUME Control, NEW i, ModFd(i), UNCHANGED <<tasks, closed, doubled>>, pc # "idle", pc' = "idle",
           \/ i = "outOnce"
           \/ i = "inOnce" /\ pc \in Reading /\ iov' = iov
    PROVE  Control'
<1>0. Serial /\ SentBeforeRead
  BY DEF Control
<1>1. ~doubled => tasks = <<>>
  BY <1>0 DEF Serial
<1>2. armed' \in {"inOnce", "outOnce"} /\ armed' = i
  BY DEF ModFd
<1>3. ready' \in BOOLEAN
  <2>1. CASE i = "outOnce"
    BY <2>1 DEF ModFd
  <2>2. CASE i # "outOnce"
    BY <2>2 DEF ModFd
  <2> QED
    BY <2>1, <2>2
<1>4. OffIsQuiet'
  BY <1>2 DEF OffIsQuiet
<1>5. Serial'
  BY <1>1 DEF Serial, Idle
<1>6. SentBeforeRead'
  BY <1>0, <1>1, <1>2 DEF SentBeforeRead, ToWrite, Reading
<1>7. pc' \in Place
  BY DEF Place
<1> QED
  BY <1>2, <1>3, <1>4, <1>5, <1>6, <1>7 DEF Control

(* ... or it closes. *)
LEMMA CloseControl ==
    ASSUME Control, CloseConn, UNCHANGED <<tasks, doubled, iov>>, pc # "idle",
           UNCHANGED <<armed, ready>> \/ ModFd("in")
    PROVE  Control'
<1>0. OffIsQuiet /\ Serial /\ ready \in BOOLEAN /\ armed \in {"in", "inOnce", "outOnce", "off"}
  BY DEF Control
<1>1. closed' = TRUE /\ pc' = "idle"
  BY DEF CloseConn
<1>2. ~doubled => tasks = <<>>
  BY <1>0 DEF Serial
<1>3. ready' \in BOOLEAN /\ armed' \in {"in", "inOnce", "outOnce", "off"} /\ OffIsQuiet'
  <2>1. CASE UNCHANGED <<armed, ready>>
    BY <1>0, <2>1 DEF OffIsQuiet
  <2>2. CASE ModFd("in")
    <3>1. armed' = "in"
      BY <2>2 DEF ModFd
    <3>2. ready' \in BOOLEAN
      BY <2>2 DEF ModFd
    <3> QED
      BY <3>1, <3>2 DEF OffIsQuiet
  <2> QED
    BY <2>1, <2>2
<1>4. Serial'
  BY <1>1, <1>2 DEF Serial, Idle
<1>5. SentBeforeRead'
  BY <1>1 DEF SentBeforeRead, Reading
<1>6. pc' \in Place
  BY <1>1 DEF Place
<1> QED
  BY <1>1, <1>3, <1>4, <1>5, <1>6 DEF Control

LEMMA TaskControl ==
    ASSUME Control, Task
    PROVE  Control' /\ doubled' = doubled
<1>0. doubled' = doubled
  BY DEF Task, TakeTask, OnRead, OnReadNothing, NeedMoreData, StartParse, ParseRequestLine, ParseHeaders,
         ParseBody, Parsed, Respond, RespondFails, OnWrite, OnWriteAgain, Writev, WriteNothing, WriteError,
         WrittenAll, WrittenSome, hist
<1>1. CASE TakeTask
  BY <1>1, TakeTaskControl
<1>2. CASE OnRead \/ StartParse
  <2>1. /\ UNCHANGED <<tasks, armed, ready, closed, iov>> /\ pc \in Reading /\ pc # "idle" /\ pc' \in Place
    BY <1>2 DEF OnRead, StartParse, epoll, output, Reading, Place
  <2> QED
    BY <1>0, <2>1, MoveControl
<1>3. CASE ParseRequestLine \/ ParseHeaders \/ \E granted \in BOOLEAN : ParseBody(granted)
  <2>1. PICK q : Parsed(q)
    BY <1>3 DEF ParseRequestLine, ParseHeaders, ParseBody
  <2>2. pc = "parse"
    BY <1>3 DEF ParseRequestLine, ParseHeaders, ParseBody
  <2>3. /\ UNCHANGED <<tasks, armed, ready, closed, iov>> /\ pc \in Reading /\ pc # "idle" /\ pc' \in Place
    BY <2>1, <2>2 DEF Parsed, epoll, output, Reading, Place
  <2> QED
    BY <1>0, <2>3, MoveControl
<1>4. CASE NeedMoreData
  <2>1. /\ UNCHANGED <<tasks, closed, iov>> /\ ModFd("inOnce") /\ pc \in Reading /\ pc # "idle" /\ pc' = "idle"
    BY <1>4 DEF NeedMoreData, output, Reading
  <2> QED
    BY <1>0, <2>1, ArmControl
<1>5. CASE WrittenSome \/ \E mapped \in BOOLEAN : Respond(mapped)
  <2>1. /\ UNCHANGED <<tasks, closed>> /\ ModFd("outOnce") /\ pc # "idle" /\ pc' = "idle"
    BY <1>5 DEF WrittenSome, Respond
  <2> QED
    BY <1>0, <2>1, ArmControl
<1>6. CASE OnReadNothing \/ RespondFails \/ WriteError \/ (WrittenAll /\ CloseConn)
  <2>1. /\ UNCHANGED <<tasks, iov>> /\ CloseConn /\ pc # "idle"
        /\ UNCHANGED <<armed, ready>> \/ ModFd("in")
    BY <1>6 DEF OnReadNothing, RespondFails, WriteError, WrittenAll, epoll, output
  <2> QED
    BY <1>0, <2>1, CloseControl
<1>7. CASE OnWrite \/ OnWriteAgain
  <2>1. /\ UNCHANGED <<tasks, armed, ready, closed>> /\ ToWrite(iov) # <<>> /\ pc # "idle"
        /\ pc' \in Place /\ pc' \notin Reading
    BY <1>7 DEF OnWrite, OnWriteAgain, Writev, epoll, Place, Reading
  <2> QED
    BY <1>0, <2>1, MoveControl
<1>8. CASE WriteNothing
  <2>1. /\ UNCHANGED <<tasks, armed, ready, closed, iov>> /\ pc # "idle" /\ pc' \in Place /\ pc' \notin Reading
    BY <1>8 DEF WriteNothing, epoll, output, Place, Reading
  <2> QED
    BY <1>0, <2>1, MoveControl
<1>9. CASE WrittenAll /\ ~CloseConn
  <2>1. /\ UNCHANGED <<tasks, armed, ready, closed, iov>> /\ pc # "idle" /\ pc' \in Place
        /\ ToWrite(iov) = <<>>
    BY <1>9 DEF WrittenAll, epoll, output, Place
  <2> QED
    BY <1>0, <2>1, MoveControl
<1> QED
  BY <1>0, <1>1, <1>2, <1>3, <1>4, <1>5, <1>6, <1>7, <1>8, <1>9 DEF Task

-----------------------------------------------------------------------------
(* The request *)

State == {"REQUEST_LINE", "HEADERS", "BODY", "FINISH"}
IsRequest(q) == DOMAIN q = DOMAIN NoRequest /\ q.ok \in BOOLEAN /\ q.state \in State

LEMMA RequestFields ==
    /\ DOMAIN NoRequest = {"state", "method", "path", "version", "header", "post", "ok"}
    /\ IsRequest(NoRequest)
<1>1. DOMAIN NoRequest = {"state", "method", "path", "version", "header", "post", "ok"}
  BY DEF NoRequest
<1>2. NoRequest.ok = TRUE /\ NoRequest.state = "REQUEST_LINE"
  BY DEF NoRequest
<1> QED
  BY <1>1, <1>2 DEF IsRequest, State

LEMMA SetText ==
    ASSUME NEW q, IsRequest(q), NEW v
    PROVE  /\ IsRequest([q EXCEPT !.path = v]) /\ IsRequest([q EXCEPT !.header = v])
           /\ IsRequest([q EXCEPT !.post = v])
  BY RequestFields DEF IsRequest

LEMMA SetState ==
    ASSUME NEW q, IsRequest(q), NEW v \in State
    PROVE  IsRequest([q EXCEPT !.state = v])
  BY RequestFields DEF IsRequest

LEMMA SetBad ==
    ASSUME NEW q, IsRequest(q)
    PROVE  IsRequest([q EXCEPT !.ok = FALSE])
  BY RequestFields DEF IsRequest

LEMMA LineParsed ==
    ASSUME NEW q, IsRequest(q), NEW l
    PROVE  IsRequest(parseRequestLine(q, l))
<1>1. CASE IsRequestLine(l)
  <2>1. PICK ver : ver = IF Len(l) = 3 /\ l[3] = <<"1">> THEN "1.1" ELSE "other"
    OBVIOUS
  <2>2. PICK m, p : m = l[1][2] /\ p = parsePath(l[1][3])
    OBVIOUS
  <2>3. PICK r : r = [q EXCEPT !.method = m, !.path = p, !.state = "HEADERS", !.version = ver]
    OBVIOUS
  <2>4. DOMAIN r = DOMAIN q /\ r.ok = q.ok /\ r.state = "HEADERS"
    BY <2>3, RequestFields DEF IsRequest
  <2>5. parseRequestLine(q, l) = r
    BY <1>1, <2>1, <2>2, <2>3 DEF parseRequestLine
  <2>6. IsRequest(r)
    BY <2>4 DEF IsRequest, State
  <2> QED
    BY <2>5, <2>6
<1>2. CASE ~IsRequestLine(l)
  BY <1>2, SetBad DEF parseRequestLine
<1> QED
  BY <1>1, <1>2

LEMMA HeaderParsed ==
    ASSUME NEW q, IsRequest(q), NEW l
    PROVE  IsRequest(parseHeader(q, l)) /\ IsRequest([parseHeader(q, l) EXCEPT !.state = "FINISH"])
<1>1. IsRequest(parseHeader(q, l))
  <2>1. CASE Len(l) >= 2 /\ l[1][1] = "name" /\ l[2][1] = "value"
    <3>1. PICK v : v = IF Len(l) = 2 THEN l[2][2] ELSE "other"
      OBVIOUS
    <3>2. PICK h : h = [q.header EXCEPT ![l[1][2]] = v]
      OBVIOUS
    <3>3. parseHeader(q, l) = [q EXCEPT !.header = h]
      BY <2>1, <3>1, <3>2 DEF parseHeader
    <3>4. IsRequest([q EXCEPT !.header = h])
      BY SetText
    <3> QED
      BY <3>3, <3>4, Zenon
  <2>2. CASE ~(Len(l) >= 2 /\ l[1][1] = "name" /\ l[2][1] = "value")
    BY <2>2, SetState DEF parseHeader, State
  <2> QED
    BY <2>1, <2>2
<1> QED
  BY <1>1, SetState DEF State

LEMMA BodyParsed ==
    ASSUME NEW q, IsRequest(q), NEW l, NEW granted \in BOOLEAN
    PROVE  IsRequest(parseBody(q, l, granted))
<1>1. PICK v : v = IF IsForm(q) THEN parseFromUrlencoded(l) ELSE q.post
  OBVIOUS
<1>2. PICK p : p = [q EXCEPT !.post = v]
  OBVIOUS
<1>3. IsRequest(p)
  BY <1>2, SetText
<1>4. IsRequest(parsePost(p, granted))
  <2>1. PICK x : x = IF granted /\ Field(p.post, "username") # <<>> /\ Field(p.post, "password") # <<>>
                     THEN "/welcome.html" ELSE "/error.html"
    OBVIOUS
  <2>2. parsePost(p, granted) = IF p.path \notin DEFAULT_HTML_TAG THEN p ELSE [p EXCEPT !.path = x]
    BY <2>1 DEF parsePost
  <2>3. IsRequest([p EXCEPT !.path = x])
    BY <1>3, SetText
  <2> QED
    BY <1>3, <2>2, <2>3, Zenon
<1>5. PICK r : r = IF IsForm(q) THEN parsePost(p, granted) ELSE p
  OBVIOUS
<1>6. parseBody(q, l, granted) = [r EXCEPT !.state = "FINISH"]
  BY <1>1, <1>2, <1>5 DEF parseBody
<1>7. IsRequest(r)
  BY <1>3, <1>4, <1>5
<1> QED
  BY <1>6, <1>7, SetState DEF State

LEMMA RequestStep ==
    ASSUME IsRequest(req), [Next]_vars
    PROVE  IsRequest(req')
<1>1. CASE StartParse
  BY <1>1, RequestFields DEF StartParse
<1>2. CASE ParseRequestLine
  BY <1>2, LineParsed DEF ParseRequestLine, Parsed
<1>3. CASE ParseHeaders
  <2>1. PICK q : q = parseHeader(req, Line(rbuf))
    OBVIOUS
  <2>2. req' = IF TwoBytesOrLess(rbuf) THEN [q EXCEPT !.state = "FINISH"] ELSE q
    BY <1>3, <2>1 DEF ParseHeaders, Parsed
  <2>3. IsRequest(q) /\ IsRequest([q EXCEPT !.state = "FINISH"])
    BY <2>1, HeaderParsed
  <2> QED
    BY <2>2, <2>3
<1>4. CASE \E granted \in BOOLEAN : ParseBody(granted)
  <2>1. PICK granted \in BOOLEAN : ParseBody(granted)
    BY <1>4
  <2>2. req' = parseBody(req, Line(rbuf), granted)
    BY <2>1 DEF ParseBody, Parsed
  <2> QED
    BY <2>2, BodyParsed
<1>5. CASE PeerStep \/ Event \/ TakeTask \/ OnRead \/ OnReadNothing \/ NeedMoreData \/ UNCHANGED vars
  BY <1>5 DEF PeerStep, PeerSend, PeerRead, Event, TakeTask, OnRead, OnReadNothing, NeedMoreData, vars
<1>6. CASE \/ (\E mapped \in BOOLEAN : Respond(mapped)) \/ RespondFails \/ OnWrite \/ OnWriteAgain
           \/ WriteNothing \/ WriteError \/ WrittenAll \/ WrittenSome
  BY <1>6 DEF Respond, RespondFails, OnWrite, OnWriteAgain, Writev, WriteNothing, WriteError, WrittenAll,
              WrittenSome
<1> QED
  BY <1>1, <1>2, <1>3, <1>4, <1>5, <1>6 DEF Next, Task

-----------------------------------------------------------------------------
(* The output *)

Output ==
    /\ wire \in Seq(Byte) /\ wbuf \in Seq(Byte) /\ iov \in [{0, 1} -> Seq(Byte)]
    /\ answers \in Seq({answers[i] : i \in 1..Len(answers)})
    /\ \A i \in 1..Len(answers) :
          answers[i].code \in Code /\ {answers[i].keep, answers[i].file} \subseteq BOOLEAN
    /\ room \in 0..SendBuf /\ iovCnt \in 0..2
    /\ Parts /\ WireExact /\ HeadsInOrder

(* The properties in the terms of the lemmas. *)
LEMMA OutputSplit ==
    /\ WireExact <=> /\ iov[0] = wbuf
                     /\ ~doubled => /\ Ordered(wire \o ToWrite(iov))
                                    /\ BytesIn(wire \o ToWrite(iov)) = HeadBytes \cup FileBytes
    /\ HeadsInOrder <=> HeadsOrdered(wire \o wbuf) /\ HeadsIn(wire \o wbuf) = HeadBytes
  BY DEF WireExact, HeadsInOrder, Ordered, BytesIn, Heads, HeadsOrdered, HeadsIn

LEMMA OutputSplitNext ==
    /\ WireExact' <=> /\ iov'[0] = wbuf'
                      /\ ~doubled' => /\ Ordered(wire' \o ToWrite(iov'))
                                      /\ BytesIn(wire' \o ToWrite(iov')) = HeadBytes' \cup FileBytes'
    /\ HeadsInOrder' <=> HeadsOrdered(wire' \o wbuf') /\ HeadsIn(wire' \o wbuf') = HeadBytes'
  BY DEF WireExact, HeadsInOrder, Ordered, BytesIn, Heads, HeadsOrdered, HeadsIn, ToWrite

LEMMA OutputStep ==
    ASSUME IInv, [Next]_vars, doubled => doubled'
    PROVE  Output'
<1>0. Output
  BY DEF IInv, Typed, OutputSound, TypeOK, Output
<1>1. CASE \E mapped \in BOOLEAN : Respond(mapped)
  <2>1. PICK mapped \in BOOLEAN : Respond(mapped)
    BY <1>1
  <2>2. /\ wire' \in Seq(Byte) /\ wbuf' \in Seq(Byte) /\ iov' \in [{0, 1} -> Seq(Byte)]
        /\ answers' \in Seq({answers'[k] : k \in 1..Len(answers')})
        /\ \A k \in 1..Len(answers') :
              answers'[k].code \in Code /\ {answers'[k].keep, answers'[k].file} \subseteq BOOLEAN
        /\ iovCnt' \in 0..2 /\ iov'[0] = wbuf'
        /\ HeadsIn(wire' \o wbuf') = HeadBytes' /\ HeadsOrdered(wire' \o wbuf')
        /\ ~doubled => /\ Ordered(wire' \o ToWrite(iov'))
                       /\ BytesIn(wire' \o ToWrite(iov')) = HeadBytes' \cup FileBytes'
        /\ Parts'
    BY <2>1, RespondKeeps
  <2>3. room' \in 0..SendBuf /\ doubled' = doubled
    BY <1>0, <2>1 DEF Respond, Output
  <2>4. WireExact' /\ HeadsInOrder'
    BY <2>2, <2>3, OutputSplitNext
  <2> QED
    BY <2>2, <2>3, <2>4 DEF Output
<1>2. CASE OnWrite \/ OnWriteAgain
  <2>1. PICK from, to : Writev(from, to)
    BY <1>2 DEF OnWrite, OnWriteAgain
  <2>2. /\ wire' \in Seq(Byte) /\ wbuf' \in Seq(Byte) /\ iov' \in [{0, 1} -> Seq(Byte)]
        /\ room' \in 0..SendBuf /\ iov'[0] = wbuf'
        /\ wire' \o ToWrite(iov') = wire \o ToWrite(iov)
        /\ HeadsIn(wire' \o wbuf') = HeadsIn(wire \o wbuf) /\ HeadsOrdered(wire' \o wbuf')
        /\ Parts'
    BY <2>1, WritevKeeps
  <2>3. answers' = answers /\ iovCnt' = iovCnt /\ doubled' = doubled
    BY <2>1 DEF Writev
  <2>4. HeadBytes' = HeadBytes /\ FileBytes' = FileBytes
    BY <2>3 DEF HeadBytes, FileBytes
  <2>5. HeadsIn(wire \o wbuf) = HeadBytes
    BY <1>0, OutputSplit DEF Output
  <2>6. ~doubled => /\ Ordered(wire \o ToWrite(iov))
                    /\ BytesIn(wire \o ToWrite(iov)) = HeadBytes \cup FileBytes
    BY <1>0, OutputSplit DEF Output
  <2>7. WireExact' /\ HeadsInOrder'
    BY <2>2, <2>3, <2>4, <2>5, <2>6, OutputSplitNext
  <2>8. /\ answers' \in Seq({answers'[k] : k \in 1..Len(answers')}) /\ iovCnt' \in 0..2
        /\ \A k \in 1..Len(answers') :
              answers'[k].code \in Code /\ {answers'[k].keep, answers'[k].file} \subseteq BOOLEAN
    BY <1>0, <2>3 DEF Output
  <2> QED
    BY <2>2, <2>7, <2>8 DEF Output
<1>3. CASE UNCHANGED <<wire, wbuf, iov, iovCnt, answers>> /\ room' \in 0..SendBuf
  <2>1. HeadBytes' = HeadBytes /\ FileBytes' = FileBytes
    BY <1>3 DEF HeadBytes, FileBytes
  <2>2. WireExact' /\ HeadsInOrder'
    BY <1>0, <1>3, <2>1, OutputSplit, OutputSplitNext DEF Output
  <2>3. Parts'
    BY <1>0, <1>3 DEF Output, Parts
  <2>4. /\ answers' \in Seq({answers'[k] : k \in 1..Len(answers')}) /\ iovCnt' \in 0..2
        /\ \A k \in 1..Len(answers') :
              answers'[k].code \in Code /\ {answers'[k].keep, answers'[k].file} \subseteq BOOLEAN
    BY <1>0, <1>3 DEF Output
  <2>5. wire' \in Seq(Byte) /\ wbuf' \in Seq(Byte) /\ iov' \in [{0, 1} -> Seq(Byte)]
    BY <1>0, <1>3 DEF Output
  <2> QED
    BY <1>3, <2>2, <2>3, <2>4, <2>5 DEF Output
<1>4. room \in 0..SendBuf /\ SendBuf \in Nat
  BY <1>0, LengthAssumption DEF Output
<1>5. ASSUME PeerStep PROVE UNCHANGED <<wire, wbuf, iov, iovCnt, answers>> /\ room' \in 0..SendBuf
  <2>1. UNCHANGED <<wire, wbuf, iov, iovCnt, answers>>
    BY <1>5 DEF PeerStep, PeerSend, PeerRead, output, hist
  <2>2. CASE \E k \in 1..Len(unsent) : PeerSend(k)
    BY <1>4, <2>1, <2>2 DEF PeerSend
  <2>3. CASE \E k \in 1..SendBuf - room : PeerRead(k)
    <3>1. PICK k \in 1..SendBuf - room : room' = room + k
      BY <2>3 DEF PeerRead
    <3> QED
      BY <1>4, <2>1, <3>1
  <2> QED
    BY <1>5, <2>1, <2>2, <2>3 DEF PeerStep
<1>6. ASSUME Event \/ TakeTask \/ OnRead \/ OnReadNothing \/ NeedMoreData \/ StartParse \/ UNCHANGED vars
      PROVE  UNCHANGED <<wire, wbuf, iov, iovCnt, answers, room>>
  BY <1>6 DEF Event, TakeTask, OnRead, OnReadNothing, NeedMoreData, StartParse, output, hist, vars
<1>7. ASSUME \/ ParseRequestLine \/ ParseHeaders \/ (\E granted \in BOOLEAN : ParseBody(granted))
             \/ RespondFails \/ WriteNothing \/ WriteError \/ WrittenAll \/ WrittenSome
      PROVE  UNCHANGED <<wire, wbuf, iov, iovCnt, answers, room>>
  BY <1>7 DEF ParseRequestLine, ParseHeaders, ParseBody, Parsed, RespondFails, WriteNothing, WriteError,
              WrittenAll, WrittenSome, output, hist
<1> QED
  BY <1>1, <1>2, <1>3, <1>4, <1>5, <1>6, <1>7 DEF Next, Task

-----------------------------------------------------------------------------
(* The invariant *)

LEMMA InvSplit ==
    /\ IInv <=> Control /\ Output /\ IsRequest(req) /\ torn \in BOOLEAN
<1>1. ASSUME tasks \in Seq(Kind) PROVE \A i \in 1..Len(tasks) : tasks[i] \in {"onRead", "onWrite"}
  BY <1>1, ElementOfSeq DEF Kind
<1>2. IInv => Control /\ Output /\ IsRequest(req) /\ torn \in BOOLEAN
  <2> SUFFICES ASSUME IInv PROVE Control /\ Output /\ IsRequest(req) /\ torn \in BOOLEAN
    OBVIOUS
  <2>1. Control
    BY DEF IInv, Typed, OutputSound, TypeOK, Control, Kind, Place
  <2>2. Output
    BY DEF IInv, Typed, OutputSound, TypeOK, Output
  <2>3. IsRequest(req) /\ torn \in BOOLEAN
    BY DEF IInv, Typed, OutputSound, TypeOK, IsRequest, State
  <2> QED
    BY <2>1, <2>2, <2>3
<1>3. Control /\ Output /\ IsRequest(req) /\ torn \in BOOLEAN => IInv
  <2> SUFFICES ASSUME Control, Output, IsRequest(req), torn \in BOOLEAN PROVE IInv
    OBVIOUS
  <2>1. Typed
    BY DEF Control, Output, IsRequest, Typed, Kind
  <2>2. TypeOK
    BY <1>1 DEF Control, Output, IsRequest, TypeOK, Place, State
  <2> QED
    BY <2>1, <2>2 DEF Control, Output, IInv, OutputSound
<1> QED
  BY <1>2, <1>3

LEMMA InitInv == Init => IInv
<1> SUFFICES ASSUME Init PROVE IInv
  OBVIOUS
<1>1. <<>> \in Seq(Kind) /\ <<>> \in Seq(Byte) /\ <<>> \o <<>> = <<>>
  OBVIOUS
<1>2. iov = [i \in {0, 1} |-> <<>>] /\ iov[0] = <<>> /\ iov[1] = <<>> /\ iov \in [{0, 1} -> Seq(Byte)]
  BY <1>1 DEF Init
<1>3. ToWrite(iov) = <<>>
  BY <1>1, <1>2 DEF ToWrite
<1>4. Control
  BY <1>1, <1>3 DEF Init, Control, Place, OffIsQuiet, Serial, Idle, SentBeforeRead
<1>5. IsRequest(req) /\ torn \in BOOLEAN
  BY RequestFields DEF Init
<1>6. Output
  <2>1. wire = <<>> /\ wbuf = <<>> /\ answers = <<>> /\ iovCnt = 0 /\ room = SendBuf
    BY DEF Init
  <2>2. wire \o wbuf = <<>> /\ wire \o ToWrite(iov) = <<>> /\ Len(<<>>) = 0
    BY <1>1, <1>3, <2>1
  <2>3. 1..Len(answers) = {}
    BY <2>1
  <2>4. HeadBytes = {} /\ FileBytes = {}
    BY <2>3 DEF HeadBytes, FileBytes
  <2>5. Ordered(<<>>) /\ BytesIn(<<>>) = {} /\ HeadsOrdered(<<>>) /\ HeadsIn(<<>>) = {}
    BY <2>2 DEF Ordered, BytesIn, HeadsOrdered, HeadsIn, Heads
  <2>6. WireExact /\ HeadsInOrder
    BY <1>2, <2>1, <2>2, <2>4, <2>5, OutputSplit
  <2>7. Parts
    BY <1>2, <2>1, <2>2 DEF Parts
  <2>8. room \in 0..SendBuf /\ iovCnt \in 0..2
    BY <2>1, LengthAssumption
  <2>9. answers \in Seq({answers[i] : i \in 1..Len(answers)})
    BY <2>1, EmptySeq
  <2> QED
    BY <1>1, <1>2, <2>1, <2>3, <2>6, <2>7, <2>8, <2>9 DEF Output
<1> QED
  BY <1>4, <1>5, <1>6, InvSplit

LEMMA ControlStep ==
    ASSUME Control, [Next]_vars
    PROVE  Control' /\ (doubled => doubled') /\ (doubled' /\ ~doubled => armed = "in")
<1>1. CASE UNCHANGED vars
  <2>1. UNCHANGED <<tasks, pc, armed, ready, closed, doubled, iov>>
    BY <1>1 DEF vars, epoll, output, hist
  <2> QED
    BY <2>1 DEF Control, OffIsQuiet, Serial, Idle, SentBeforeRead
<1>2. CASE PeerStep
  BY <1>2, PeerControl
<1>3. CASE Event
  BY <1>3, EventControl
<1>4. CASE Task
  BY <1>4, TaskControl
<1> QED
  BY <1>1, <1>2, <1>3, <1>4 DEF Next

LEMMA NextKeeps == IInv /\ [Next]_vars => IInv'
<1> SUFFICES ASSUME IInv, [Next]_vars PROVE IInv'
  OBVIOUS
<1>1. Control /\ Output /\ IsRequest(req) /\ torn \in BOOLEAN
  BY InvSplit
<1>2. Control' /\ (doubled => doubled')
  BY <1>1, ControlStep
<1>3. Output'
  BY <1>2, OutputStep
<1>4. IsRequest(req')
  BY <1>1, RequestStep
<1>5. torn' \in BOOLEAN
  <2>1. CASE OnRead
    BY <2>1 DEF OnRead
  <2>2. CASE \/ PeerStep \/ Event \/ TakeTask \/ OnReadNothing \/ NeedMoreData \/ StartParse \/ UNCHANGED vars
             \/ ParseRequestLine \/ ParseHeaders \/ (\E granted \in BOOLEAN : ParseBody(granted))
    <3>1. torn' = torn
      BY <2>2 DEF PeerStep, PeerSend, PeerRead, Event, TakeTask, OnReadNothing, NeedMoreData, StartParse,
                  ParseRequestLine, ParseHeaders, ParseBody, Parsed, hist, vars
    <3> QED
      BY <1>1, <3>1
  <2>3. CASE \/ (\E mapped \in BOOLEAN : Respond(mapped)) \/ RespondFails \/ OnWrite \/ OnWriteAgain
             \/ WriteNothing \/ WriteError \/ WrittenAll \/ WrittenSome
    <3>1. torn' = torn
      BY <2>3 DEF Respond, RespondFails, OnWrite, OnWriteAgain, Writev, WriteNothing, WriteError, WrittenAll,
                  WrittenSome, hist
    <3> QED
      BY <1>1, <3>1
  <2> QED
    BY <2>1, <2>2, <2>3 DEF Next, Task
<1>6. (Control /\ Output /\ IsRequest(req) /\ torn \in BOOLEAN => IInv)'
  BY InvSplit, PTL
<1> QED
  BY <1>2, <1>3, <1>4, <1>5, <1>6 DEF IsRequest

LEMMA AlwaysIInv == Spec => []IInv
<1>1. IInv /\ [Next]_vars => IInv'
  BY NextKeeps
<1> QED
  BY <1>1, InitInv, PTL DEF Spec

-----------------------------------------------------------------------------
(* The theorems *)

(* However the requests are cut, however much each writev takes and whenever *)
(* the peer reads: what Conn::Write has sent and what its two vectors still  *)
(* point to are the answers of Conn::Process, in order, complete and nothing *)
(* twice, as long as one task at a time serves the connection; and their     *)
(* headers are even if not.                                                  *)
THEOREM OutputIsSound == Spec => []OutputSound
<1>1. IInv => OutputSound
  BY DEF IInv
<1> QED
  BY <1>1, AlwaysIInv, PTL

(* A task that runs goes on, or ends, and then it may re-arm. *)
LEMMA RunningTask ==
    ASSUME Task, ~TakeTask
    PROVE  /\ tasks' = tasks /\ pc # "idle"
           /\ armed' = armed \/ pc' = "idle"
           /\ armed' = "in" => armed = "in" \/ closed'
<1>1. CASE OnReadNothing \/ RespondFails \/ WriteError
  BY <1>1 DEF OnReadNothing, RespondFails, WriteError, ModFd, CloseConn, epoll
<1>2. CASE OnRead \/ StartParse \/ OnWrite \/ OnWriteAgain \/ WriteNothing \/ WrittenAll
  BY <1>2 DEF OnRead, StartParse, OnWrite, OnWriteAgain, Writev, WriteNothing, WrittenAll,
              CloseConn, epoll
<1>3. CASE \/ ParseRequestLine \/ ParseHeaders \/ \E granted \in BOOLEAN : ParseBody(granted)
  BY <1>3 DEF ParseRequestLine, ParseHeaders, ParseBody, Parsed, epoll
<1>4. CASE NeedMoreData \/ WrittenSome \/ \E mapped \in BOOLEAN : Respond(mapped)
  BY <1>4 DEF NeedMoreData, WrittenSome, Respond, ModFd
<1> QED
  BY <1>1, <1>2, <1>3, <1>4 DEF Task

(* From the first ModFd on no task joins those a connection has: by          *)
(* EPOLLONESHOT each comes in the place of one that ended.                   *)
THEOREM TasksDoNotGrow == Spec => NoTaskAdded
<1> DEFINE Bounded == armed' # "in" => UnderWay' <= UnderWay
           Kept    == armed' = "in" => armed = "in" \/ closed'
<1>1. IInv /\ [Next]_vars => [Bounded /\ Kept]_vars
  <2> SUFFICES ASSUME IInv, [Next]_vars PROVE Bounded /\ Kept
    OBVIOUS
  <2>0. /\ tasks \in Seq(Kind) /\ Len(tasks) \in Nat /\ OffIsQuiet
        /\ armed \in {"in", "inOnce", "outOnce", "off"}
    BY InvSplit DEF Control
  <2> DEFINE IsBit(n) == n = 0 \/ n = 1
  <2>00. IsBit(Running) /\ IsBit(Running') /\ IsBit(Awaited) /\ IsBit(Awaited')
    BY DEF Running, Awaited
  <2> HIDE DEF IsBit
  <2>1. CASE UNCHANGED vars \/ PeerStep
    <3>1. armed' = armed /\ pc' = pc /\ tasks' = tasks
      BY <2>1 DEF vars, PeerStep, PeerSend, PeerRead, epoll
    <3>2. UnderWay' = UnderWay
      BY <3>1 DEF UnderWay, Running, Awaited
    <3>3. UnderWay \in Nat
      BY <2>0, <2>00 DEF UnderWay, IsBit
    <3>4. UnderWay' <= UnderWay
      BY <3>2, <3>3
    <3> QED
      BY <3>1, <3>4
  <2>2. CASE Event
    <3>1. /\ armed # "off" /\ pc' = pc
          /\ armed' = IF armed = "in" THEN "in" ELSE "off"
          /\ tasks' = Append(tasks, IF armed = "outOnce" THEN "onWrite" ELSE "onRead")
      BY <2>0, <2>2 DEF Event, OffIsQuiet
    <3>2. Len(tasks') = Len(tasks) + 1
      BY <2>0, <3>1, AppendProperties DEF Kind
    <3>3. Bounded
      <4> SUFFICES ASSUME armed' # "in" PROVE UnderWay' <= UnderWay
        OBVIOUS
      <4>1. Running' = Running /\ Awaited = 1 /\ Awaited' = 0
        BY <2>0, <3>1 DEF Running, Awaited
      <4> QED
        BY <2>0, <2>00, <3>2, <4>1 DEF UnderWay, IsBit
    <3>4. Kept
      BY <3>1
    <3> QED
      BY <3>3, <3>4
  <2>3. CASE TakeTask
    <3>1. pc = "idle" /\ armed' = armed /\ Len(tasks') = Len(tasks) - 1
      BY <2>0, <2>3, HeadTailProperties DEF TakeTask, epoll
    <3>2. Running = 0 /\ Awaited' = Awaited
      BY <3>1 DEF Running, Awaited
    <3>3. UnderWay' <= UnderWay
      BY <2>0, <2>00, <3>1, <3>2 DEF UnderWay, IsBit
    <3> QED
      BY <3>1, <3>3
  <2>4. CASE Task /\ ~TakeTask
    <3>1. tasks' = tasks /\ pc # "idle" /\ (armed' = armed \/ pc' = "idle")
      BY <2>4, RunningTask
    <3>2. Running = 1 /\ (Awaited' = Awaited \/ Running' = 0)
      BY <3>1 DEF Running, Awaited
    <3>3. UnderWay' <= UnderWay
      BY <2>0, <2>00, <3>1, <3>2 DEF UnderWay, IsBit
    <3> QED
      BY <2>4, <3>3, RunningTask
  <2> QED
    BY <2>1, <2>2, <2>3, <2>4 DEF Next
<1> QED
  BY <1>1, AlwaysIInv, PTL DEF Spec, NoTaskAdded

-----------------------------------------------------------------------------
(* What is answered: sequences and lines *)

(* Concatenation, element by element. *)
Splits(c, a, b) ==
    /\ Len(c) = Len(a) + Len(b) /\ Len(a) \in Nat /\ Len(b) \in Nat
    /\ \A i \in 1..Len(a) : c[i] = a[i]
    /\ \A i \in 1..Len(b) : c[Len(a) + i] = b[i]
LEMMA Joined ==
    ASSUME NEW S, NEW a \in Seq(S), NEW b \in Seq(S)
    PROVE  a \o b \in Seq(S) /\ Splits(a \o b, a, b)
<1>1. Len(a) \in Nat /\ Len(b) \in Nat
  BY LenProperties
<1>2. a \o b \in Seq(S) /\ Len(a \o b) = Len(a) + Len(b)
  OBVIOUS
<1>3. \A i \in 1..Len(a) : (a \o b)[i] = a[i]
  BY <1>1
<1>4. \A i \in 1..Len(b) : (a \o b)[Len(a) + i] = b[i]
  BY <1>1
<1> QED
  BY <1>1, <1>2, <1>3, <1>4 DEF Splits

(* A buffer without a CR is one cut line. *)
LEMMA NoLine ==
    ASSUME NEW s, \A i \in 1..Len(s) - 1 : s[i] # CR
    PROVE  IsCut(s) /\ Line(s) = s /\ AfterLine(s) = s
<1>1. IsCut(s)
  BY DEF IsCut, Ends
<1> QED
  BY <1>1 DEF Line, AfterLine

(* A line l and its CRLF before t: Line takes l and AfterLine leaves t. *)
LEMMA OneLine ==
    ASSUME NEW S, NEW l \in Seq(S), NEW t \in Seq(S), CR \in S, LF \in S,
           \A i \in 1..Len(l) : l[i] # CR,
           NEW s, s = (l \o CRLF) \o t
    PROVE  ~IsCut(s) /\ Line(s) = l /\ AfterLine(s) = t
<1>0. CR # LF
  BY DEF CR, LF
<1>1. CRLF \in Seq(S) /\ Len(CRLF) = 2 /\ CRLF[1] = CR /\ CRLF[2] = LF
  BY DEF CRLF
<1>2. PICK u : u = l \o CRLF
  OBVIOUS
<1>2a. u \in Seq(S) /\ Splits(u, l, CRLF)
  BY <1>1, <1>2, Joined
<1>2b. /\ \A i \in 1..Len(l) : u[i] = l[i]
       /\ u[Len(l) + 1] = CR /\ u[Len(l) + 2] = LF
       /\ Len(u) = Len(l) + 2 /\ Len(l) \in Nat
  <2>1. u[Len(l) + 1] = CRLF[1] /\ u[Len(l) + 2] = CRLF[2]
    BY <1>1, <1>2a DEF Splits
  <2> QED
    BY <1>1, <1>2a, <2>1 DEF Splits
<1>3. PICK e \in Nat : e = Len(l) + 1
  BY LenProperties
<1>4. /\ s \in Seq(S) /\ Len(s) = Len(l) + 2 + Len(t)
      /\ \A i \in 1..Len(l) : s[i] = l[i]
      /\ s[e] = CR /\ s[e + 1] = LF
      /\ \A i \in 1..Len(t) : s[e + 1 + i] = t[i]
  <2>2. Len(u) = Len(l) + 2 /\ Len(l) \in Nat /\ Len(t) \in Nat
    BY <1>2b, LenProperties
  <2>3. s = u \o t
    BY <1>2
  <2>3a. s \in Seq(S) /\ Splits(s, u, t)
    BY <1>2a, <2>3, Joined
  <2>4. /\ s \in Seq(S) /\ Len(s) = Len(u) + Len(t)
        /\ \A i \in 1..Len(u) : s[i] = u[i]
        /\ \A i \in 1..Len(t) : s[Len(u) + i] = t[i]
    BY <2>3a DEF Splits
  <2>5. \A i \in 1..Len(l) : s[i] = l[i]
    BY <1>2b, <2>2, <2>4
  <2>6. s[e] = CR /\ s[e + 1] = LF
    <3>1. s[e] = u[e] /\ s[e + 1] = u[e + 1] /\ e + 1 = Len(l) + 2
      BY <1>3, <2>2, <2>4
    <3> QED
      BY <1>2b, <1>3, <3>1
  <2>7. \A i \in 1..Len(t) : s[e + 1 + i] = t[i]
    BY <1>3, <2>2, <2>4
  <2> QED
    BY <2>2, <2>4, <2>5, <2>6, <2>7
<1>5. Len(l) \in Nat /\ Len(t) \in Nat
  BY LenProperties
<1>6. e \in Ends(s) /\ \A j \in Ends(s) : e <= j
  BY <1>0, <1>3, <1>4, <1>5 DEF Ends
<1>7. EndOf(s) = e
  <2>1. EndOf(s) \in Ends(s) /\ \A j \in Ends(s) : EndOf(s) <= j
    BY <1>6 DEF EndOf
  <2>2. EndOf(s) \in Nat
    BY <2>1, <1>4, <1>5 DEF Ends
  <2> QED
    BY <2>1, <2>2, <1>6
<1>8. ~IsCut(s)
  BY <1>6 DEF IsCut
<1>9. Line(s) = l
  <2>1. Line(s) = SubSeq(s, 1, e - 1)
    BY <1>7, <1>8 DEF Line
  <2>2. e - 1 = Len(l) /\ \A i \in 1..e - 1 : s[i] \in S
    BY <1>3, <1>4, <1>5, ElementOfSeq
  <2>3. PICK k : k = SubSeq(s, 1, e - 1)
    OBVIOUS
  <2>3a. k \in Seq(S) /\ Len(k) = Len(l) /\ \A i \in 1..Len(l) : k[i] = s[i]
    BY <1>3, <1>5, <2>2, <2>3, SubSeqProperties
  <2>3b. \A i \in 1..Len(k) : k[i] = l[i]
    BY <1>4, <2>3a
  <2>4. k = l
    BY <2>3a, <2>3b, SeqEqual
  <2> QED
    BY <2>1, <2>3, <2>4
<1>10. AfterLine(s) = t
  <2>1. AfterLine(s) = SubSeq(s, e + 2, Len(s))
    BY <1>7, <1>8 DEF AfterLine
  <2>2. Len(s) - (e + 2) + 1 = Len(t) /\ Len(s) \in Int /\ e + 2 \in Int
    BY <1>3, <1>4, <1>5
  <2>3. \A i \in e + 2..Len(s) : s[i] \in S
    BY <1>3, <1>4, <1>5, ElementOfSeq
  <2>4. PICK k : k = SubSeq(s, e + 2, Len(s))
    OBVIOUS
  <2>5. k \in Seq(S) /\ Len(k) = Len(t) /\ \A i \in 1..Len(t) : k[i] = s[e + 1 + i]
    BY <1>3, <1>5, <2>2, <2>3, <2>4, SubSeqProperties
  <2>5a. \A i \in 1..Len(k) : k[i] = t[i]
    BY <1>4, <2>5
  <2>6. k = t
    BY <2>5, <2>5a, SeqEqual
  <2> QED
    BY <2>1, <2>4, <2>6
<1> QED
  BY <1>8, <1>9, <1>10

-----------------------------------------------------------------------------
(* The text of a request, line by line *)

Good(r) == r.keep \in BOOLEAN /\ r.form \in Seq(ToSet(r.form)) /\ WellFormed(r)

Pair(n, v) == <<<<"name", n>>, <<"value", v>>>>

RequestLine(r)  == <<<<"start", r.method, r.path>>, <<"HTTP/1.">>, <<"1">>>>
Blank(r)        == CRLF \o r.form
AfterKeep(r)    == IF r.form # <<>> THEN (Pair("Content-Type", FormType) \o CRLF) \o Blank(r)
                                    ELSE Blank(r)
AfterRequest(r) == IF r.keep THEN (Pair("Connection", "keep-alive") \o CRLF) \o AfterKeep(r)
                             ELSE AfterKeep(r)

Symbols(r) == ToSet(r.form) \cup ToSet(RequestLine(r)) \cup {CR, LF}
              \cup ToSet(Pair("Connection", "keep-alive")) \cup ToSet(Pair("Content-Type", FormType))

(* Reading the concatenations of Encode from the left. *)
Cat(u, v) == u \o v
Cats(Q) == /\ \A u, v \in Q : Cat(u, v) \in Q
           /\ \A u, v, w \in Q : Cat(Cat(u, v), w) = Cat(u, Cat(v, w))

LEMMA CatsOfSeq == ASSUME NEW S PROVE Cats(Seq(S))
  BY DEF Cat, Cats

LEMMA RegroupIn ==
    ASSUME NEW Q, Cats(Q), NEW a \in Q, NEW b \in Q, NEW c \in Q, NEW d \in Q, NEW e \in Q
    PROVE  Cat(Cat(Cat(Cat(a,b),c),d),e) = Cat(a, Cat(b, Cat(c, Cat(d, e))))
<1>1. Cat(Cat(Cat(a,b),c),d) = Cat(Cat(a,b), Cat(c,d)) /\ Cat(a,b) \in Q /\ Cat(c,d) \in Q
  BY DEF Cats
<1>2. Cat(Cat(Cat(a,b), Cat(c,d)), e) = Cat(Cat(a,b), Cat(Cat(c,d),e))
  BY <1>1 DEF Cats
<1>3. Cat(Cat(c,d),e) = Cat(c, Cat(d,e)) /\ Cat(d,e) \in Q /\ Cat(c, Cat(d,e)) \in Q
  BY DEF Cats
<1>4. Cat(Cat(a,b), Cat(c, Cat(d,e))) = Cat(a, Cat(b, Cat(c, Cat(d,e))))
  BY <1>3 DEF Cats
<1> QED
  BY <1>1, <1>2, <1>3, <1>4

LEMMA Regroup ==
    ASSUME NEW S, NEW a \in Seq(S), NEW b \in Seq(S), NEW c \in Seq(S), NEW d \in Seq(S), NEW e \in Seq(S)
    PROVE  Cat(Cat(Cat(Cat(a,b),c),d),e) = Cat(a, Cat(b, Cat(c, Cat(d, e))))
<1>1. PICK Q : Q = Seq(S)
  OBVIOUS
<1>2. Cats(Q)
  BY <1>1, CatsOfSeq
<1> QED
  BY <1>1, <1>2, RegroupIn

LEMMA Texts ==
    ASSUME NEW r, Good(r)
    PROVE  /\ CR \in Symbols(r) /\ LF \in Symbols(r)
           /\ r.form \in Seq(Symbols(r)) /\ CRLF \in Seq(Symbols(r))
           /\ RequestLine(r) \in Seq(Symbols(r))
           /\ Pair("Connection", "keep-alive") \in Seq(Symbols(r))
           /\ Pair("Content-Type", FormType) \in Seq(Symbols(r))
           /\ Blank(r) \in Seq(Symbols(r)) /\ AfterKeep(r) \in Seq(Symbols(r))
           /\ AfterRequest(r) \in Seq(Symbols(r))
<1> DEFINE S == Symbols(r)
<1>1. CR \in S /\ LF \in S
  BY DEF Symbols
<1>2. CRLF \in Seq(S)
  BY <1>1 DEF CRLF
<1>3. r.form \in Seq(S)
  <2>1. ToSet(r.form) \subseteq S /\ r.form \in Seq(ToSet(r.form))
    BY DEF Good, Symbols
  <2> QED
    BY <2>1, SeqMonotonic
<1>4. RequestLine(r) \in Seq(S)
  <2>1. RequestLine(r) \in Seq(ToSet(RequestLine(r)))
    BY DEF RequestLine, ToSet
  <2> QED
    BY <2>1, SeqMonotonic DEF Symbols
<1>5. ASSUME NEW n, NEW v, ToSet(Pair(n, v)) \subseteq S PROVE Pair(n, v) \in Seq(S)
  <2>1. Pair(n, v) \in Seq(ToSet(Pair(n, v)))
    BY DEF Pair, ToSet
  <2> QED
    BY <1>5, <2>1, SeqMonotonic
<1>6. Pair("Connection", "keep-alive") \in Seq(S) /\ Pair("Content-Type", FormType) \in Seq(S)
  BY <1>5 DEF Symbols
<1> HIDE DEF S
<1>7. Blank(r) \in Seq(S)
  BY <1>2, <1>3 DEF Blank
<1>8. AfterKeep(r) \in Seq(S)
  BY <1>2, <1>6, <1>7 DEF AfterKeep
<1>9. AfterRequest(r) \in Seq(S)
  BY <1>2, <1>6, <1>8 DEF AfterRequest
<1> QED
  BY <1>1, <1>2, <1>3, <1>4, <1>6, <1>7, <1>8, <1>9 DEF S

LEMMA EncodeIs ==
    ASSUME NEW r, Good(r)
    PROVE  Encode(r) = (RequestLine(r) \o CRLF) \o AfterRequest(r)
<1> DEFINE S == Symbols(r)
<1>1. PICK F, C, L, K, T : /\ F = r.form /\ C = CRLF /\ L = RequestLine(r)
                           /\ K = Pair("Connection", "keep-alive") \o CRLF
                           /\ T = Pair("Content-Type", FormType) \o CRLF
  OBVIOUS
<1>2. F \in Seq(S) /\ C \in Seq(S) /\ L \in Seq(S)
  BY <1>1, Texts
<1>3. K \in Seq(S) /\ T \in Seq(S)
  <2>1. /\ Pair("Connection", "keep-alive") \in Seq(S) /\ Pair("Content-Type", FormType) \in Seq(S)
        /\ CRLF \in Seq(S)
    BY Texts
  <2> HIDE DEF S
  <2> QED
    BY <1>1, <2>1
<1> HIDE DEF S
<1>4. PICK A \in Seq(S), B \in Seq(S) :
          /\ A = (IF r.keep THEN K ELSE <<>>) /\ B = (IF r.form # <<>> THEN T ELSE <<>>)
  <2>1. <<>> \in Seq(S)
    BY EmptySeq
  <2> QED
    BY <1>3, <2>1
<1>5. Encode(r) = ((((L \o C) \o A) \o B) \o C) \o F
  BY <1>1, <1>4 DEF Encode, Header, Pair, RequestLine
<1>6. Encode(r) = (L \o C) \o (A \o (B \o (C \o F)))
  <2>0. L \o C \in Seq(S)
    BY <1>2, Joined
  <2>1. PICK x : x = L \o C
    OBVIOUS
  <2>2. x \in Seq(S)
    BY <2>0, <2>1
  <2>3. Cat(Cat(Cat(Cat(x, A), B), C), F) = Cat(x, Cat(A, Cat(B, Cat(C, F))))
    BY <1>2, <2>2, Regroup
  <2> QED
    BY <1>5, <2>1, <2>3 DEF Cat
<1>7. PICK b : b = Blank(r)
  OBVIOUS
<1>8. b = C \o F /\ b \in Seq(S)
  BY <1>1, <1>2, <1>7 DEF Blank
<1>9. PICK k : k = AfterKeep(r)
  OBVIOUS
<1>10. k = B \o b /\ k \in Seq(S)
  <2>1. k = IF r.form # <<>> THEN T \o b ELSE b
    BY <1>1, <1>7, <1>9 DEF AfterKeep
  <2>2. <<>> \o b = b
    BY <1>8, ConcatEmptySeq
  <2>3. k = B \o b
    BY <1>4, <2>1, <2>2
  <2> QED
    BY <2>3, <1>4, <1>8
<1>11. AfterRequest(r) = A \o k
  <2>1. AfterRequest(r) = IF r.keep THEN K \o k ELSE k
    BY <1>1, <1>9 DEF AfterRequest
  <2>2. <<>> \o k = k
    BY <1>10, ConcatEmptySeq
  <2> QED
    BY <1>4, <2>1, <2>2
<1> QED
  BY <1>1, <1>6, <1>8, <1>10, <1>11

(* What Line and AfterLine make of it. *)
LEMMA FirstLine ==
    ASSUME NEW r, Good(r)
    PROVE  /\ ~IsCut(Encode(r)) /\ Line(Encode(r)) = RequestLine(r)
           /\ AfterLine(Encode(r)) = AfterRequest(r)
<1>1. PICK S, l, t : S = Symbols(r) /\ l = RequestLine(r) /\ t = AfterRequest(r)
  OBVIOUS
<1>2. l \in Seq(S) /\ t \in Seq(S) /\ CR \in S /\ LF \in S
  BY <1>1, Texts
<1>3. \A i \in 1..Len(l) : l[i] # CR
  BY <1>1 DEF RequestLine, CR
<1>4. Encode(r) = (l \o CRLF) \o t
  BY <1>1, EncodeIs
<1> QED
  BY <1>1, <1>2, <1>3, <1>4, OneLine

BeginsWith(s, l, t) == ~IsCut(s) /\ Line(s) = l /\ AfterLine(s) = t /\ Len(s) > 2

LEMMA HeaderLine ==
    ASSUME NEW r, Good(r), NEW n, NEW v, NEW t \in Seq(Symbols(r)), Pair(n, v) \in Seq(Symbols(r)),
           NEW s, s = (Pair(n, v) \o CRLF) \o t
    PROVE  BeginsWith(s, Pair(n, v), t)
<1>1. PICK S, l : S = Symbols(r) /\ l = Pair(n, v)
  OBVIOUS
<1>2. l \in Seq(S) /\ t \in Seq(S) /\ CR \in S /\ LF \in S /\ CRLF \in Seq(S)
  BY <1>1, Texts
<1>3. Len(l) = 2 /\ \A i \in 1..Len(l) : l[i] # CR
  BY <1>1 DEF Pair, CR
<1>4. s = (l \o CRLF) \o t
  BY <1>1
<1>5. PICK u : u = l \o CRLF
  OBVIOUS
<1>6. u \in Seq(S) /\ Splits(u, l, CRLF)
  BY <1>2, <1>5, Joined
<1>7. Splits(s, u, t)
  BY <1>2, <1>4, <1>5, <1>6, Joined
<1>8. Len(s) > 2
  BY <1>3, <1>6, <1>7 DEF Splits, CRLF
<1> QED
  <2>1. ~IsCut(s) /\ Line(s) = l /\ AfterLine(s) = t
    BY <1>2, <1>3, <1>4, OneLine
  <2> QED
    BY <1>1, <1>8, <2>1 DEF BeginsWith

LEMMA BlankLine ==
    ASSUME NEW r, Good(r), NEW s, s = Blank(r)
    PROVE  /\ ~IsCut(s) /\ Line(s) = <<>> /\ AfterLine(s) = r.form
           /\ TwoBytesOrLess(s) <=> r.form = <<>>
           /\ s # <<>>
<1>1. PICK S, t, l : S = Symbols(r) /\ t = r.form /\ l = <<>>
  OBVIOUS
<1>2. t \in Seq(S) /\ CR \in S /\ LF \in S /\ CRLF \in Seq(S)
  BY <1>1, Texts
<1>3. l \in Seq(S) /\ \A i \in 1..Len(l) : l[i] # CR
  BY <1>1, EmptySeq
<1>4. s = (l \o CRLF) \o t
  <2>1. l \o CRLF = CRLF
    BY <1>1, <1>2, ConcatEmptySeq
  <2> QED
    BY <1>1, <2>1 DEF Blank
<1>5. ~IsCut(s) /\ Line(s) = l /\ AfterLine(s) = t
  BY <1>2, <1>3, <1>4, OneLine
<1>6. s = CRLF \o t /\ Splits(s, CRLF, t) /\ s \in Seq(S)
  BY <1>1, <1>2, Joined DEF Blank
<1>7. Len(s) = 2 + Len(t) /\ Len(t) \in Nat /\ s[1] = CR /\ s[2] = LF
  BY <1>6 DEF Splits, CRLF
<1>8. TwoBytesOrLess(s) <=> Len(t) = 0
  BY <1>7 DEF TwoBytesOrLess
<1>9. Len(t) = 0 <=> t = <<>>
  BY <1>2, EmptySeq
<1> QED
  BY <1>1, <1>5, <1>6, <1>7, <1>8, <1>9, EmptySeq

LEMMA FormLine ==
    ASSUME NEW r, Good(r)
    PROVE  /\ IsCut(r.form) /\ Line(r.form) = r.form /\ AfterLine(r.form) = r.form
           /\ ~IsRequestLine(r.form)
<1>1. PICK f : f = r.form
  OBVIOUS
<1>2. \A i \in 1..Len(f) : f[i] = <<"=">> \/ f[i] = <<"&">> \/ f[i][1] = "text"
  BY <1>1 DEF Good, WellFormed
<1>3. \A i \in 1..Len(f) : f[i] # CR /\ f[i][1] # "start"
  <2>1. CR[1] = "CR" /\ <<"=">>[1] = "=" /\ <<"&">>[1] = "&"
    BY DEF CR
  <2>2. "CR" # "text" /\ "CR" # "=" /\ "CR" # "&" /\ "start" # "text" /\ "start" # "=" /\ "start" # "&"
    OBVIOUS
  <2> QED
    BY <1>2, <2>1, <2>2
<1>4. Len(f) \in Nat
  BY <1>1, LenProperties DEF Good
<1>5. IsCut(f) /\ Line(f) = f /\ AfterLine(f) = f
  BY <1>3, <1>4, NoLine
<1>6. ~IsRequestLine(f)
  BY <1>3, <1>4 DEF IsRequestLine
<1> QED
  BY <1>1, <1>5, <1>6

-----------------------------------------------------------------------------
(* Forms *)

LEMMA LastIs ==
    ASSUME NEW n \in Nat, NEW T \in SUBSET (1..n), T # {}
    PROVE  LastOf(T) \in T /\ \A j \in T : j <= LastOf(T)
<1> DEFINE R == OpToRel(<, Nat)
           M == {n - j : j \in T}
<1>1. IsWellFoundedOn(R, Nat)
  BY NatLessThanWellFounded
<1>2. M \subseteq Nat /\ M # {}
  <2>1. \A j \in T : j \in 1..n
    OBVIOUS
  <2>2. \A j \in T : n - j \in Nat
    BY <2>1
  <2> QED
    BY <2>2
<1>3. PICK x \in M : \A y \in M : ~(<<y, x>> \in R)
  <2> HIDE DEF M, R
  <2> QED
    BY <1>1, <1>2, WFMin
<1>4. \A y \in M : ~(y < x)
  <2>1. \A y \in Nat : y < x => <<y, x>> \in R
    BY <1>2, <1>3 DEF OpToRel
  <2> HIDE DEF M, R
  <2> QED
    BY <1>2, <1>3, <2>1
<1>5. PICK m \in T : x = n - m
  BY <1>3
<1>6. \A j \in T : j <= m
  BY <1>4, <1>5
<1> QED
  BY <1>6 DEF LastOf

(* A part of a body that is not empty lies behind the last separator. *)
LEMMA BeforeIs ==
    ASSUME NEW S, NEW f \in Seq(S), NEW j \in 1..Len(f) + 1
    PROVE  \E d \in 0..j - 1 :
              /\ Before(f, j) = SubSeq(f, d + 1, j - 1)
              /\ d # 0 => f[d] \in {<<"=">>, <<"&">>}
              /\ \A i \in d + 1..j - 1 : f[i] \notin {<<"=">>, <<"&">>}
<1> DEFINE T == At(f, <<"=">>, j - 1) \cup At(f, <<"&">>, j - 1)
<1>1. PICK d : d = LastOf(T)
  OBVIOUS
<1>2. Before(f, j) = SubSeq(f, d + 1, j - 1)
  BY <1>1 DEF Before
<1>3. /\ T \in SUBSET (1..j - 1) /\ j - 1 \in Nat
      /\ \A i \in 1..j - 1 : i \in T <=> f[i] \in {<<"=">>, <<"&">>}
  <2>1. Len(f) \in Nat
    BY LenProperties
  <2>2. T \in SUBSET (1..j - 1) /\ j - 1 \in Nat
    BY <2>1 DEF At
  <2>3. \A i \in 1..j - 1 : i \in T <=> (f[i] = <<"=">> \/ f[i] = <<"&">>)
    BY DEF At
  <2> QED
    BY <2>2, <2>3
<1> HIDE DEF T
<1>4. CASE T = {}
  <2>1. d = 0
    BY <1>1, <1>4 DEF LastOf
  <2>2. \A i \in 1..j - 1 : f[i] \notin {<<"=">>, <<"&">>}
    BY <1>3, <1>4
  <2>3. d \in 0..j - 1 /\ d + 1 = 1
    BY <1>3, <2>1
  <2> QED
    BY <1>2, <2>1, <2>2, <2>3
<1>5. CASE T # {}
  <2>1. d \in T /\ \A i \in T : i <= d
    BY <1>1, <1>3, <1>5, LastIs
  <2>2. d \in 1..j - 1
    BY <1>3, <2>1
  <2>3. \A i \in d + 1..j - 1 : f[i] \notin {<<"=">>, <<"&">>}
    <3> SUFFICES ASSUME NEW i \in d + 1..j - 1, i \in T PROVE FALSE
      BY <1>3, <2>2
    <3> QED
      BY <2>1, <2>2, <1>3
  <2> QED
    BY <1>2, <1>3, <2>1, <2>2, <2>3
<1> QED
  BY <1>4, <1>5

LEMMA TwoApart ==
    ASSUME NEW x \in Int, NEW y \in Int, y = x - 2
    PROVE  (x - 1) - (y + 1) + 1 = 1 /\ (y + 1) + 1 - 1 = x - 1
<1>1. y + 1 = x - 1
  OBVIOUS
<1>2. (x - 1) - (x - 1) + 1 = 1 /\ (x - 1) + 1 - 1 = x - 1
  OBVIOUS
<1> QED
  BY <1>1, <1>2

(* In a well-formed body a value that is stored stands behind its key. *)
LEMMA ValueHasKey ==
    ASSUME NEW r, Good(r), NEW f, f = r.form, NEW j \in 1..Len(f) + 1, NEW k,
           j = Len(f) + 1 \/ f[j] = <<"&">>,
           Key(f, j) = <<<<"text", k>>>>, Before(f, j) # <<>>
    PROVE  HasField(f, k)
<1>1. f \in Seq(ToSet(f)) /\ Len(f) \in Nat
  BY LenProperties DEF Good
<1>2. \A i \in 1..Len(f) : f[i] = <<"&">> => /\ i + 2 <= Len(f) /\ f[i + 2] = <<"=">>
  <2>1. <<"&">>[1] # "text" /\ <<"&">> # <<"=">>
    OBVIOUS
  <2> QED
    BY <2>1 DEF Good, WellFormed
<1>3. PICK E : E = At(f, <<"=">>, j - 1)
  OBVIOUS
<1>4. PICK e : e = LastOf(E)
  OBVIOUS
<1>5. Key(f, j) = IF e = 0 THEN <<>> ELSE Before(f, e)
  BY <1>3, <1>4 DEF Key
<1>6. <<<<"text", k>>>> # <<>> /\ Len(<<<<"text", k>>>>) = 1 /\ <<<<"text", k>>>>[1] = <<"text", k>>
  OBVIOUS
<1>7. e # 0 /\ Before(f, e) = <<<<"text", k>>>>
  BY <1>5, <1>6
<1>8. E # {}
  BY <1>4, <1>7 DEF LastOf
<1>9. /\ E \in SUBSET (1..j - 1) /\ j - 1 \in Nat
      /\ \A i \in 1..j - 1 : i \in E <=> f[i] = <<"=">>
  BY <1>1, <1>3 DEF At
<1>10. e \in E /\ \A i \in E : i <= e
  BY <1>4, <1>8, <1>9, LastIs
<1>11. e \in 1..j - 1 /\ f[e] = <<"=">> /\ e \in 1..Len(f) + 1 /\ e \in Nat /\ j \in Nat
  BY <1>1, <1>9, <1>10
<1>12. e >= 2 /\ f[e - 1] = <<"text", k>>
  <2>1. PICK d \in 0..e - 1 : Before(f, e) = SubSeq(f, d + 1, e - 1)
    BY <1>1, <1>11, BeforeIs
  <2>2. PICK s : s = SubSeq(f, d + 1, e - 1)
    OBVIOUS
  <2>3. Len(s) = 1 /\ s[1] = <<"text", k>>
    BY <1>6, <1>7, <2>1, <2>2
  <2>4. \A i \in d + 1..e - 1 : f[i] \in ToSet(f)
    BY <1>1, <1>11, ElementOfSeq
  <2>5. /\ Len(s) = IF d + 1 <= e - 1 THEN (e - 1) - (d + 1) + 1 ELSE 0
        /\ \A i \in 1..(e - 1) - (d + 1) + 1 : s[i] = f[(d + 1) + i - 1]
    BY <1>11, <2>2, <2>4, SubSeqProperties
  <2>6. d = e - 2
    <3>1. d \in Nat
      OBVIOUS
    <3>2. d + 1 <= e - 1
      BY <1>11, <2>3, <2>5, <3>1
    <3>3. Len(s) = (e - 1) - (d + 1) + 1
      BY <2>5, <3>2
    <3>4. \A x, y \in Nat : 1 = (x - 1) - (y + 1) + 1 => y = x - 2
      OBVIOUS
    <3> QED
      BY <1>11, <2>3, <3>1, <3>3, <3>4
  <2>7. s[1] = f[e - 1]
    <3>1. e \in Int /\ d \in Int
      BY <1>11
    <3>3. (e - 1) - (d + 1) + 1 = 1 /\ (d + 1) + 1 - 1 = e - 1
      BY <2>6, <3>1, TwoApart
    <3> QED
      BY <2>5, <3>3
  <2> QED
    BY <1>11, <2>3, <2>6, <2>7
<1>13. PICK g \in 0..j - 1 :
          /\ Before(f, j) = SubSeq(f, g + 1, j - 1)
          /\ g # 0 => f[g] \in {<<"=">>, <<"&">>}
          /\ \A i \in g + 1..j - 1 : f[i] \notin {<<"=">>, <<"&">>}
  BY <1>1, BeforeIs
<1>14. g + 1 <= j - 1
  <2>1. j - 1 < g + 1 => SubSeq(f, g + 1, j - 1) = <<>>
    BY <1>9, SubSeqEmpty
  <2> QED
    BY <1>9, <1>13, <2>1
<1>15. g >= e
  <2> SUFFICES ASSUME g < e PROVE FALSE
    BY <1>11
  <2>1. e \in g + 1..j - 1
    BY <1>11
  <2> QED
    BY <1>11, <1>13, <2>1
<1>16. g = e
  <2> SUFFICES ASSUME g > e PROVE FALSE
    BY <1>9, <1>11, <1>15
  <2>1. f[g] = <<"&">>
    BY <1>9, <1>10, <1>11, <1>13
  <2>2. g + 2 <= Len(f) /\ f[g + 2] = <<"=">>
    <3>1. g \in 1..Len(f)
      BY <1>1, <1>11, <1>14
    <3> QED
      BY <1>2, <2>1, <3>1
  <2>3. ~(g + 2 <= j - 1)
    BY <1>9, <1>10, <1>11, <2>2
  <2>4. j = g + 2
    BY <1>9, <1>14, <2>3
  <2> QED
    BY <1>1, <2>2, <2>4
<1>17. f[e + 1] # <<"&">> /\ e + 1 <= Len(f)
  <2>1. e + 1 \in g + 1..j - 1 /\ e + 1 <= Len(f)
    BY <1>1, <1>11, <1>14, <1>16
  <2> QED
    BY <1>13, <2>1
<1> QED
  <2>1. PICK i : i = e - 1
    OBVIOUS
  <2>2. i \in 1..Len(f) - 2 /\ i + 1 = e /\ i + 2 = e + 1
    <3>1. \A x, n \in Nat : x >= 2 /\ x + 1 <= n => x - 1 \in 1..n - 2
      OBVIOUS
    <3>2. e - 1 \in 1..Len(f) - 2
      BY <1>1, <1>11, <1>12, <1>17, <3>1
    <3>3. \A x \in Nat : (x - 1) + 1 = x /\ (x - 1) + 2 = x + 1
      OBVIOUS
    <3> QED
      BY <1>11, <2>1, <3>2, <3>3
  <2> QED
    BY <1>11, <1>12, <1>17, <2>1, <2>2 DEF HasField

LEMMA FieldIsThere ==
    ASSUME NEW r, Good(r), NEW k, Field(parseFromUrlencoded(r.form), k) # <<>>
    PROVE  HasField(r.form, k)
<1>1. PICK f, p, key : f = r.form /\ p = parseFromUrlencoded(f) /\ key = <<<<"text", k>>>>
  OBVIOUS
<1>2. f \in Seq(ToSet(f)) /\ Len(f) \in Nat
  BY <1>1, LenProperties DEF Good
<1>3. PICK amps : amps = At(f, <<"&">>, Len(f))
  OBVIOUS
<1>4. PICK ends : ends = amps \cup {i \in {Len(f) + 1} : Before(f, i) # <<>>}
  OBVIOUS
<1>5. PICK keys : keys = {Key(f, i) : i \in amps}
  OBVIOUS
<1>6. p = [x \in {Key(f, i) : i \in ends} |->
              Before(f, IF x \in keys THEN LastOf({i \in amps : Key(f, i) = x}) ELSE Len(f) + 1)]
  BY <1>1, <1>3, <1>4, <1>5 DEF parseFromUrlencoded
<1>7. key \in DOMAIN p /\ p[key] # <<>>
  BY <1>1 DEF Field
<1>8. key \in {Key(f, i) : i \in ends}
  BY <1>6, <1>7
<1>9. p[key] = Before(f, IF key \in keys THEN LastOf({i \in amps : Key(f, i) = key}) ELSE Len(f) + 1)
  BY <1>6, <1>8
<1>10. amps \in SUBSET (1..Len(f)) /\ \A i \in amps : f[i] = <<"&">>
  BY <1>3 DEF At
<1>11. CASE key \in keys
  <2>1. PICK T : T = {i \in amps : Key(f, i) = key}
    OBVIOUS
  <2>2. T \in SUBSET (1..Len(f)) /\ T # {}
    BY <1>5, <1>10, <1>11, <2>1
  <2>3. LastOf(T) \in T
    BY <1>2, <2>2, LastIs
  <2>4. PICK j : j = LastOf(T)
    OBVIOUS
  <2>5. Key(f, j) = key /\ Before(f, j) # <<>> /\ f[j] = <<"&">> /\ j \in 1..Len(f) + 1
    <3>1. j \in T /\ p[key] = Before(f, j)
      BY <1>9, <1>11, <2>1, <2>3, <2>4
    <3>2. j \in amps /\ Key(f, j) = key
      BY <2>1, <3>1
    <3>3. j \in 1..Len(f) /\ f[j] = <<"&">>
      BY <1>10, <3>2
    <3> QED
      BY <1>2, <1>7, <3>1, <3>2, <3>3
  <2> QED
    BY <1>1, <2>5, ValueHasKey
<1>12. CASE key \notin keys
  <2>1. PICK i \in ends : Key(f, i) = key
    BY <1>8
  <2>2. i = Len(f) + 1 /\ Before(f, i) # <<>>
    BY <1>4, <1>5, <1>12, <2>1
  <2> QED
    <3>1. i \in 1..Len(f) + 1
      BY <1>2, <2>2
    <3>2. Key(f, i) = <<<<"text", k>>>>
      BY <1>1, <2>1
    <3> QED
      BY <1>1, <2>2, <3>1, <3>2, ValueHasKey
<1> QED
  BY <1>11, <1>12

-----------------------------------------------------------------------------
(* The request while it is parsed *)

Headers(c, t) == [n \in {"Connection", "Content-Type"} |-> IF n = "Connection" THEN c ELSE t]

Asked(r, st, c, t) ==
    [state |-> st, method |-> r.method, path |-> parsePath(r.path), version |-> "1.1",
     header |-> Headers(c, t), post |-> [k \in {} |-> <<>>], ok |-> TRUE]

Connection(r) == IF r.keep THEN "keep-alive" ELSE ""

(* A whole request is parsed into what it asks for. *)
Done(r, q) == q.ok = TRUE /\ (IsKeepAlive(q) <=> r.keep) /\ q.path \in Pages(r)

LEMMA LineAsked ==
    ASSUME NEW r
    PROVE  parseRequestLine(NoRequest, RequestLine(r)) = Asked(r, "HEADERS", "", "")
<1>1. PICK l : l = RequestLine(r)
  OBVIOUS
<1>2. /\ Len(l) = 3 /\ l[1] = <<"start", r.method, r.path>> /\ l[2] = <<"HTTP/1.">> /\ l[3] = <<"1">>
      /\ l[1][1] = "start" /\ l[1][2] = r.method /\ l[1][3] = r.path
  BY <1>1 DEF RequestLine
<1>3. IsRequestLine(l)
  BY <1>2 DEF IsRequestLine
<1>4. PICK m, p : m = r.method /\ p = parsePath(r.path)
  OBVIOUS
<1>5. parseRequestLine(NoRequest, l)
        = [NoRequest EXCEPT !.method = m, !.path = p, !.state = "HEADERS", !.version = "1.1"]
  BY <1>2, <1>3, <1>4 DEF parseRequestLine
<1>6. [n \in {"Connection", "Content-Type"} |-> ""] = Headers("", "")
  BY DEF Headers
<1>7. PICK h : h = Headers("", "")
  OBVIOUS
<1>8. NoRequest = [state |-> "REQUEST_LINE", method |-> "", path |-> "", version |-> "",
                   header |-> h, post |-> [k \in {} |-> <<>>], ok |-> TRUE]
  BY <1>6, <1>7 DEF NoRequest
<1>9. Asked(r, "HEADERS", "", "")
        = [state |-> "HEADERS", method |-> m, path |-> p, version |-> "1.1",
           header |-> h, post |-> [k \in {} |-> <<>>], ok |-> TRUE]
  BY <1>4, <1>7 DEF Asked
<1>10. PICK e : e = [k \in {} |-> <<>>]
  OBVIOUS
<1> QED
  BY <1>1, <1>5, <1>8, <1>9, <1>10

LEMMA HeaderAsked ==
    ASSUME NEW r, NEW c, NEW t, NEW n, NEW v
    PROVE  /\ n = "Connection" =>
                parseHeader(Asked(r, "HEADERS", c, t), Pair(n, v)) = Asked(r, "HEADERS", v, t)
           /\ n = "Content-Type" =>
                parseHeader(Asked(r, "HEADERS", c, t), Pair(n, v)) = Asked(r, "HEADERS", c, v)
           /\ parseHeader(Asked(r, "HEADERS", c, t), <<>>) = Asked(r, "BODY", c, t)
<1>1. PICK l : l = Pair(n, v)
  OBVIOUS
<1>2. /\ Len(l) = 2 /\ l[1][1] = "name" /\ l[2][1] = "value" /\ l[1][2] = n /\ l[2][2] = v
  BY <1>1 DEF Pair
<1>3. PICK q, h : q = Asked(r, "HEADERS", c, t) /\ h = Headers(c, t)
  OBVIOUS
<1>4. PICK m, p, e : m = r.method /\ p = parsePath(r.path) /\ e = [k \in {} |-> <<>>]
  OBVIOUS
<1>5. q = [state |-> "HEADERS", method |-> m, path |-> p, version |-> "1.1", header |-> h,
           post |-> e, ok |-> TRUE]
  BY <1>3, <1>4 DEF Asked
<1>6. parseHeader(q, l) = [q EXCEPT !.header[n] = v]
  BY <1>2 DEF parseHeader
<1>7. PICK g : g = [h EXCEPT ![n] = v]
  OBVIOUS
<1>8. parseHeader(q, l) = [state |-> "HEADERS", method |-> m, path |-> p, version |-> "1.1", header |-> g,
                           post |-> e, ok |-> TRUE]
  <2>1. q.header = h
    BY <1>5
  <2>2. parseHeader(q, l) = [q EXCEPT !.header = g]
    BY <1>6, <1>7, <2>1
  <2> QED
    BY <1>5, <2>2
<1>9. n = "Connection" => g = Headers(v, t)
  BY <1>3, <1>7 DEF Headers
<1>10. n = "Content-Type" => g = Headers(c, v)
  BY <1>3, <1>7 DEF Headers
<1>11. Len(<<>>) = 0
  OBVIOUS
<1>12. parseHeader(q, <<>>) = [q EXCEPT !.state = "BODY"]
  BY <1>11 DEF parseHeader
<1>13. parseHeader(q, <<>>) = [state |-> "BODY", method |-> m, path |-> p, version |-> "1.1", header |-> h,
                               post |-> e, ok |-> TRUE]
  BY <1>5, <1>12
<1>14. parseHeader(q, <<>>) = Asked(r, "BODY", c, t)
  BY <1>3, <1>4, <1>13 DEF Asked
<1>15. ASSUME n = "Connection" PROVE parseHeader(q, l) = Asked(r, "HEADERS", v, t)
  BY <1>4, <1>8, <1>9, <1>15 DEF Asked
<1>16. ASSUME n = "Content-Type" PROVE parseHeader(q, l) = Asked(r, "HEADERS", c, v)
  BY <1>4, <1>8, <1>10, <1>16 DEF Asked
<1> QED
  BY <1>1, <1>3, <1>14, <1>15, <1>16

(* A request without a form is done with the blank line. *)
LEMMA BlankDone ==
    ASSUME NEW r, Good(r), r.form = <<>>
    PROVE  LET q == [Asked(r, "BODY", Connection(r), "") EXCEPT !.state = "FINISH"]
           IN  Done(r, q) /\ q.state = "FINISH"
<1>1. PICK q : q = [Asked(r, "BODY", Connection(r), "") EXCEPT !.state = "FINISH"]
  OBVIOUS
<1>2. PICK h, p : h = Headers(Connection(r), "") /\ p = parsePath(r.path)
  OBVIOUS
<1>3. q.ok = TRUE /\ q.path = p /\ q.version = "1.1" /\ q.header = h /\ q.state = "FINISH"
  BY <1>1, <1>2 DEF Asked
<1>4. h["Connection"] = Connection(r)
  BY <1>2 DEF Headers
<1>5. IsKeepAlive(q) <=> r.keep
  BY <1>3, <1>4 DEF IsKeepAlive, Connection
<1>6. p \in Pages(r)
  BY <1>2 DEF Pages
<1> QED
  BY <1>1, <1>3, <1>5, <1>6 DEF Done

(* A form is granted only with a name and a password. *)
LEMMA FormDone ==
    ASSUME NEW r, Good(r), r.form # <<>>, NEW granted \in BOOLEAN
    PROVE  LET q == parseBody(Asked(r, "BODY", Connection(r), FormType), r.form, granted)
           IN  Done(r, q) /\ q.state = "FINISH"
<1>1. PICK q, h, p : /\ q = Asked(r, "BODY", Connection(r), FormType)
                     /\ h = Headers(Connection(r), FormType) /\ p = parsePath(r.path)
  OBVIOUS
<1>2. PICK m, e : m = r.method /\ e = [k \in {} |-> <<>>]
  OBVIOUS
<1>3. q = [state |-> "BODY", method |-> m, path |-> p, version |-> "1.1", header |-> h,
           post |-> e, ok |-> TRUE]
  BY <1>1, <1>2 DEF Asked
<1>4. h["Connection"] = Connection(r) /\ h["Content-Type"] = FormType
  BY <1>1 DEF Headers
<1>5. IsForm(q)
  <2>1. m = "POST"
    BY <1>2 DEF Good, WellFormed
  <2> QED
    BY <1>3, <1>4, <2>1 DEF IsForm
<1>6. PICK post : post = parseFromUrlencoded(r.form)
  OBVIOUS
<1>7. PICK x : x = [q EXCEPT !.post = post]
  OBVIOUS
<1>8. PICK y : y = parsePost(x, granted)
  OBVIOUS
<1>9. parseBody(q, r.form, granted) = [y EXCEPT !.state = "FINISH"]
  BY <1>5, <1>6, <1>7, <1>8 DEF parseBody
<1>10. x = [state |-> "BODY", method |-> m, path |-> p, version |-> "1.1", header |-> h,
            post |-> post, ok |-> TRUE]
  BY <1>3, <1>7
<1>11. PICK z : z = IF p \notin DEFAULT_HTML_TAG THEN p
                    ELSE IF granted /\ Field(post, "username") # <<>> /\ Field(post, "password") # <<>>
                    THEN "/welcome.html" ELSE "/error.html"
  OBVIOUS
<1>12. y = [state |-> "BODY", method |-> m, path |-> z, version |-> "1.1", header |-> h,
            post |-> post, ok |-> TRUE]
  <2>1. x.path = p /\ x.post = post
    BY <1>10
  <2>2. CASE p \notin DEFAULT_HTML_TAG
    BY <1>8, <1>10, <1>11, <2>1, <2>2 DEF parsePost
  <2>3. CASE p \in DEFAULT_HTML_TAG
    <3>1. y = [x EXCEPT !.path = z]
      BY <1>8, <1>11, <2>1, <2>3 DEF parsePost
    <3> QED
      BY <1>10, <3>1
  <2> QED
    BY <2>2, <2>3
<1>13. PICK w : w = [y EXCEPT !.state = "FINISH"]
  OBVIOUS
<1>14. w.ok = TRUE /\ w.path = z /\ w.version = "1.1" /\ w.header = h /\ w.state = "FINISH"
  BY <1>12, <1>13
<1>15. IsKeepAlive(w) <=> r.keep
  BY <1>4, <1>14 DEF IsKeepAlive, Connection
<1>16. z \in Pages(r)
  <2>1. CASE p \notin DEFAULT_HTML_TAG
    BY <1>1, <1>11, <2>1 DEF Pages
  <2>2. CASE p \in DEFAULT_HTML_TAG
    <3>1. Pages(r) = {"/error.html"} \cup {u \in {"/welcome.html"} :
                          HasField(r.form, "username") /\ HasField(r.form, "password")}
      BY <1>1, <2>2 DEF Pages
    <3>2. CASE granted /\ Field(post, "username") # <<>> /\ Field(post, "password") # <<>>
      <4>1. HasField(r.form, "username") /\ HasField(r.form, "password")
        BY <1>6, <3>2, FieldIsThere
      <4> QED
        BY <1>11, <2>2, <3>1, <3>2, <4>1
    <3>3. CASE ~(granted /\ Field(post, "username") # <<>> /\ Field(post, "password") # <<>>)
      BY <1>11, <2>2, <3>1, <3>3
    <3> QED
      BY <3>2, <3>3
  <2> QED
    BY <2>1, <2>2
<1> QED
  BY <1>1, <1>9, <1>13, <1>14, <1>15, <1>16 DEF Done

-----------------------------------------------------------------------------
(* The answers *)

LEMMA PathNotEmpty ==
    ASSUME NEW p, p # ""
    PROVE  parsePath(p) # ""
<1>1. ASSUME p \in DEFAULT_HTML PROVE Html[p] # ""
  BY <1>1 DEF DEFAULT_HTML, Html
<1> QED
  BY <1>1 DEF parsePath

LEMMA PageNotEmpty ==
    ASSUME NEW r, Good(r), NEW p \in Pages(r)
    PROVE  p # ""
<1>1. parsePath(r.path) # ""
  BY PathNotEmpty DEF Good, WellFormed
<1> QED
  BY <1>1 DEF Pages

LEMMA ResponseDeserved ==
    ASSUME NEW r, Good(r), NEW p \in Pages(r), NEW keep, keep = r.keep, NEW mapped \in BOOLEAN
    PROVE  Deserves(r, MakeResponse(p, keep, 200, mapped))
<1>1. p # ""
  BY PageNotEmpty
<1>2. PICK c : c = IF p \in Missing THEN 404 ELSE IF p \in Denied THEN 403 ELSE 200
  OBVIOUS
<1>3. PICK page : page = IF p \in Missing THEN "/404.html" ELSE IF p \in Denied THEN "/403.html" ELSE p
  OBVIOUS
<1>4. /\ DOMAIN ErrorPage = {400, 403, 404} /\ ErrorPage[404] = "/404.html" /\ ErrorPage[403] = "/403.html"
  BY DEF ErrorPage
<1>5. page = IF c \in DOMAIN ErrorPage THEN ErrorPage[c] ELSE p
  BY <1>2, <1>3, <1>4
<1>6. PICK a : a = [code |-> c, keep |-> keep, page |-> page, file |-> mapped /\ page \notin Empty]
  OBVIOUS
<1>7. MakeResponse(p, keep, 200, mapped) = a
  <2>1. c = IF p = "" \/ p \in Missing THEN 404 ELSE IF p \in Denied THEN 403 ELSE 200
    BY <1>1, <1>2, ZenonT(60)
  <2> QED
    BY <2>1, <1>5, <1>6, ZenonT(60) DEF MakeResponse
<1>8. a.code = c /\ a.keep = r.keep /\ a.page = page
  BY <1>6
<1>9. a.file => a.page \notin Empty
  BY <1>6
<1> QED
  BY <1>2, <1>3, <1>7, <1>8, <1>9 DEF Deserves

LEMMA ResponseRefused ==
    ASSUME NEW mapped
    PROVE  /\ MakeResponse("", FALSE, 400, mapped).code = 404
           /\ MakeResponse("", FALSE, 400, mapped).keep = FALSE
<1>0. PICK a : a = MakeResponse("", FALSE, 400, mapped)
  OBVIOUS
<1>1. PICK p : p = ErrorPage[404]
  OBVIOUS
<1>2. DOMAIN ErrorPage = {400, 403, 404}
  BY DEF ErrorPage
<1>3. a = [code |-> 404, keep |-> FALSE, page |-> p, file |-> mapped /\ p \notin Empty]
  BY <1>0, <1>1, <1>2 DEF MakeResponse
<1>4. [code |-> 404, keep |-> FALSE, page |-> p, file |-> mapped /\ p \notin Empty].code = 404
  OBVIOUS
<1>5. [code |-> 404, keep |-> FALSE, page |-> p, file |-> mapped /\ p \notin Empty].keep = FALSE
  OBVIOUS
<1>6. a.code = 404 /\ a.keep = FALSE
  BY <1>3, <1>4, <1>5
<1> QED
  BY <1>0, <1>6, ZenonT(60)

-----------------------------------------------------------------------------
(* Where a connection is with the latest request r that it read whole: pc p,  *)
(* closed cl, n requests read, m answers made, read buffer b, request q.      *)

Calm == {"idle", "onRead", "onWrite", "again", "written"}

(* A body in place of a request. *)
Bad(q) == q.ok = FALSE /\ q.path = "" /\ ~IsKeepAlive(q)

FormOf(r) == IF r.form # <<>> THEN FormType ELSE ""

InHeaders(r, b, q) ==
    \/ /\ r.keep /\ q = Asked(r, "HEADERS", "", "")
       /\ b = (Pair("Connection", "keep-alive") \o CRLF) \o AfterKeep(r)
    \/ /\ r.form # <<>> /\ q = Asked(r, "HEADERS", Connection(r), "")
       /\ b = (Pair("Content-Type", FormType) \o CRLF) \o Blank(r)
    \/ /\ q = Asked(r, "HEADERS", Connection(r), FormOf(r))
       /\ b = Blank(r)

(* The latest request is not answered yet. *)
Asking(p, r, b, q) ==
    \/ p = "process" /\ b = Encode(r)
    \/ p = "parse" /\ b = Encode(r) /\ q = NoRequest
    \/ p = "parse" /\ InHeaders(r, b, q)
    \/ p = "parse" /\ b = r.form /\ b # <<>> /\ q = Asked(r, "BODY", Connection(r), FormType)
    \/ p = "respond" /\ b = r.form /\ Done(r, q)

(* It is answered: its body is still there. *)
Replied(p, r, b, q) ==
    b = r.form /\ Done(r, q) /\ (p \in Calm \/ (p = "process" /\ r.keep))

(* Its body is parsed as a request ... *)
Mistaken(p, r, b, q) ==
    /\ b = r.form /\ b # <<>> /\ r.keep
    /\ (p = "parse" /\ q = NoRequest) \/ (p = "respond" /\ Bad(q))

(* ... and refused. *)
Refused(p, b, q) == b # <<>> /\ p \in Calm /\ Bad(q)

Phase(p, cl, n, m, r, b, q) ==
    \/ cl = TRUE /\ p = "idle"
    \/ n = 0 /\ m = 0 /\ b = <<>> /\ q = NoRequest /\ p \in Calm
    \/ n > 0 /\ m = n /\ Replied(p, r, b, q)
    \/ n > 0 /\ m = n /\ Mistaken(p, r, b, q)
    \/ n > 0 /\ m = n + 1 /\ Refused(p, b, q)
    \/ n > 0 /\ m + 1 = n /\ Asking(p, r, b, q)

(* The buffer and the place of the task after a turn of the parse loop. *)
Unparsed(b, q) == IF q.ok THEN AfterLine(b) ELSE b
Then(b, q) == IF ~q.ok \/ IsCut(b) \/ Unparsed(b, q) = <<>> \/ q.state = "FINISH" THEN "respond" ELSE "parse"

LEMMA AskedIs ==
    ASSUME NEW r, NEW c, NEW t
    PROVE  /\ Asked(r, "HEADERS", c, t).state = "HEADERS" /\ Asked(r, "HEADERS", c, t).ok = TRUE
           /\ Asked(r, "BODY", c, t).state = "BODY" /\ Asked(r, "BODY", c, t).ok = TRUE
  BY DEF Asked

LEMMA ConnectionAsked ==
    ASSUME NEW r, NEW c, NEW t, NEW v
    PROVE  parseHeader(Asked(r, "HEADERS", c, t), Pair("Connection", v)) = Asked(r, "HEADERS", v, t)
<1>1. PICK n : n = "Connection"
  OBVIOUS
<1>2. parseHeader(Asked(r, "HEADERS", c, t), Pair(n, v)) = Asked(r, "HEADERS", v, t)
  BY <1>1, HeaderAsked
<1> QED
  BY <1>1, <1>2

LEMMA TypeAsked ==
    ASSUME NEW r, NEW c, NEW t, NEW v
    PROVE  parseHeader(Asked(r, "HEADERS", c, t), Pair("Content-Type", v)) = Asked(r, "HEADERS", c, v)
<1>1. PICK n : n = "Content-Type"
  OBVIOUS
<1>2. parseHeader(Asked(r, "HEADERS", c, t), Pair(n, v)) = Asked(r, "HEADERS", c, v)
  BY <1>1, HeaderAsked
<1> QED
  BY <1>1, <1>2

LEMMA NoRequestIs ==
    /\ NoRequest.state = "REQUEST_LINE" /\ NoRequest.ok = TRUE /\ NoRequest.path = ""
    /\ ~IsKeepAlive(NoRequest)
<1>1. NoRequest.state = "REQUEST_LINE" /\ NoRequest.ok = TRUE /\ NoRequest.path = "" /\ NoRequest.version = ""
  BY DEF NoRequest
<1> QED
  BY <1>1 DEF IsKeepAlive

(* Behind the request line are headers or a blank line. *)
LEMMA HeadersFollow ==
    ASSUME NEW r, Good(r)
    PROVE  /\ InHeaders(r, AfterRequest(r), Asked(r, "HEADERS", "", "")) /\ AfterRequest(r) # <<>>
           /\ InHeaders(r, AfterKeep(r), Asked(r, "HEADERS", Connection(r), "")) /\ AfterKeep(r) # <<>>
<1>0. Len(<<>>) = 0
  OBVIOUS
<1>1. /\ Pair("Connection", "keep-alive") \in Seq(Symbols(r)) /\ Pair("Content-Type", FormType) \in Seq(Symbols(r))
      /\ AfterKeep(r) \in Seq(Symbols(r)) /\ Blank(r) \in Seq(Symbols(r))
  BY Texts
<1>2. PICK k, f : /\ k = (Pair("Connection", "keep-alive") \o CRLF) \o AfterKeep(r)
                  /\ f = (Pair("Content-Type", FormType) \o CRLF) \o Blank(r)
  OBVIOUS
<1>3. k # <<>> /\ f # <<>>
  <2>1. BeginsWith(k, Pair("Connection", "keep-alive"), AfterKeep(r))
    BY <1>1, <1>2, HeaderLine
  <2>2. BeginsWith(f, Pair("Content-Type", FormType), Blank(r))
    BY <1>1, <1>2, HeaderLine
  <2> QED
    BY <1>0, <2>1, <2>2 DEF BeginsWith
<1>4. Blank(r) # <<>>
  BY BlankLine
<1>5. AfterKeep(r) = (IF r.form # <<>> THEN f ELSE Blank(r))
  BY <1>2 DEF AfterKeep
<1>6. AfterRequest(r) = (IF r.keep THEN k ELSE AfterKeep(r))
  BY <1>2 DEF AfterRequest
<1>7. InHeaders(r, AfterKeep(r), Asked(r, "HEADERS", Connection(r), ""))
  BY <1>2, <1>5 DEF InHeaders, FormOf
<1>8. InHeaders(r, AfterRequest(r), Asked(r, "HEADERS", "", ""))
  <2>1. CASE r.keep
    BY <1>2, <1>6, <2>1 DEF InHeaders
  <2>2. CASE ~r.keep
    <3>1. Connection(r) = ""
      BY <2>2 DEF Connection
    <3> QED
      BY <1>6, <1>7, <2>2, <3>1
  <2> QED
    BY <2>1, <2>2
<1> QED
  BY <1>3, <1>4, <1>5, <1>6, <1>7, <1>8

LEMMA LineTurn ==
    ASSUME NEW r, Good(r), NEW b, b = Encode(r), NEW q, q = parseRequestLine(NoRequest, Line(b))
    PROVE  Asking(Then(b, q), r, Unparsed(b, q), q)
<1>1. q = Asked(r, "HEADERS", "", "")
  BY FirstLine, LineAsked
<1>2. q.state = "HEADERS" /\ q.ok = TRUE
  BY <1>1, AskedIs
<1>3. Unparsed(b, q) = AfterRequest(r) /\ ~IsCut(b)
  BY <1>2, FirstLine DEF Unparsed
<1>4. Then(b, q) = "parse"
  BY <1>2, <1>3, HeadersFollow DEF Then
<1>5. InHeaders(r, Unparsed(b, q), q)
  BY <1>1, <1>3, HeadersFollow
<1> QED
  BY <1>4, <1>5 DEF Asking

LEMMA HeaderTurn ==
    ASSUME NEW r, Good(r), NEW b, NEW q, InHeaders(r, b, q), NEW x,
           x = IF TwoBytesOrLess(b) THEN [parseHeader(q, Line(b)) EXCEPT !.state = "FINISH"]
               ELSE parseHeader(q, Line(b))
    PROVE  Asking(Then(b, x), r, Unparsed(b, x), x)
<1>1. /\ Pair("Connection", "keep-alive") \in Seq(Symbols(r)) /\ Pair("Content-Type", FormType) \in Seq(Symbols(r))
      /\ AfterKeep(r) \in Seq(Symbols(r)) /\ Blank(r) \in Seq(Symbols(r))
  BY Texts
<1>2. CASE /\ r.keep /\ q = Asked(r, "HEADERS", "", "")
           /\ b = (Pair("Connection", "keep-alive") \o CRLF) \o AfterKeep(r)
  <2>1. ~IsCut(b) /\ Line(b) = Pair("Connection", "keep-alive") /\ AfterLine(b) = AfterKeep(r) /\ Len(b) > 2
    <3>1. PICK n, v, t : n = "Connection" /\ v = "keep-alive" /\ t = AfterKeep(r)
      OBVIOUS
    <3>2. Pair(n, v) \in Seq(Symbols(r)) /\ t \in Seq(Symbols(r)) /\ b = (Pair(n, v) \o CRLF) \o t
      BY <1>1, <1>2, <3>1
    <3>3. BeginsWith(b, Pair(n, v), t)
      BY <3>2, HeaderLine
    <3> QED
      BY <3>1, <3>3 DEF BeginsWith
  <2>2. ~TwoBytesOrLess(b)
    BY <2>1 DEF TwoBytesOrLess
  <2>3. x = parseHeader(q, Pair("Connection", "keep-alive"))
    BY <2>1, <2>2
  <2>4. x = Asked(r, "HEADERS", "keep-alive", "")
    BY <1>2, <2>3, ConnectionAsked
  <2>5. x = Asked(r, "HEADERS", Connection(r), "")
    BY <1>2, <2>4 DEF Connection
  <2>6. x.state = "HEADERS" /\ x.ok = TRUE
    BY <2>5, AskedIs
  <2>7. Unparsed(b, x) = AfterKeep(r)
    BY <2>1, <2>6 DEF Unparsed
  <2>8. InHeaders(r, Unparsed(b, x), x) /\ Unparsed(b, x) # <<>>
    BY <2>5, <2>7, HeadersFollow
  <2>9. Then(b, x) = "parse"
    BY <2>1, <2>6, <2>8 DEF Then
  <2> QED
    BY <2>8, <2>9 DEF Asking
<1>3. CASE /\ r.form # <<>> /\ q = Asked(r, "HEADERS", Connection(r), "")
           /\ b = (Pair("Content-Type", FormType) \o CRLF) \o Blank(r)
  <2>1. ~IsCut(b) /\ Line(b) = Pair("Content-Type", FormType) /\ AfterLine(b) = Blank(r) /\ Len(b) > 2
    <3>1. PICK n, v, t : n = "Content-Type" /\ v = FormType /\ t = Blank(r)
      OBVIOUS
    <3>2. Pair(n, v) \in Seq(Symbols(r)) /\ t \in Seq(Symbols(r)) /\ b = (Pair(n, v) \o CRLF) \o t
      BY <1>1, <1>3, <3>1
    <3>3. BeginsWith(b, Pair(n, v), t)
      BY <3>2, HeaderLine
    <3> QED
      BY <3>1, <3>3 DEF BeginsWith
  <2>2. ~TwoBytesOrLess(b)
    BY <2>1 DEF TwoBytesOrLess
  <2>3. x = parseHeader(q, Pair("Content-Type", FormType))
    BY <2>1, <2>2
  <2>4. x = Asked(r, "HEADERS", Connection(r), FormType)
    BY <1>3, <2>3, TypeAsked
  <2>5. x = Asked(r, "HEADERS", Connection(r), FormOf(r))
    BY <1>3, <2>4 DEF FormOf
  <2>6. x.state = "HEADERS" /\ x.ok = TRUE
    BY <2>5, AskedIs
  <2>7. Unparsed(b, x) = Blank(r) /\ Blank(r) # <<>>
    BY <2>1, <2>6, BlankLine DEF Unparsed
  <2>8. InHeaders(r, Unparsed(b, x), x)
    BY <2>5, <2>7 DEF InHeaders
  <2>9. Then(b, x) = "parse"
    BY <2>1, <2>6, <2>7 DEF Then
  <2> QED
    BY <2>8, <2>9 DEF Asking
<1>4. CASE q = Asked(r, "HEADERS", Connection(r), FormOf(r)) /\ b = Blank(r)
  <2>1. /\ ~IsCut(b) /\ Line(b) = <<>> /\ AfterLine(b) = r.form
        /\ TwoBytesOrLess(b) <=> r.form = <<>>
    BY <1>4, BlankLine
  <2>2. parseHeader(q, Line(b)) = Asked(r, "BODY", Connection(r), FormOf(r))
    BY <1>4, <2>1, HeaderAsked
  <2>3. CASE r.form = <<>>
    <3>1. x = [Asked(r, "BODY", Connection(r), "") EXCEPT !.state = "FINISH"]
      BY <2>1, <2>2, <2>3 DEF FormOf
    <3>2. Done(r, x) /\ x.state = "FINISH"
      BY <2>3, <3>1, BlankDone
    <3>3. Unparsed(b, x) = r.form /\ Then(b, x) = "respond"
      BY <2>1, <3>2 DEF Unparsed, Then, Done
    <3> QED
      BY <3>2, <3>3 DEF Asking
  <2>4. CASE r.form # <<>>
    <3>1. x = Asked(r, "BODY", Connection(r), FormType)
      BY <2>1, <2>2, <2>4 DEF FormOf
    <3>2. x.state = "BODY" /\ x.ok = TRUE
      BY <3>1 DEF Asked
    <3>3. Unparsed(b, x) = r.form
      BY <2>1, <3>2 DEF Unparsed
    <3>4. Then(b, x) = "parse"
      BY <2>1, <2>4, <3>2, <3>3 DEF Then
    <3> QED
      BY <2>4, <3>1, <3>3, <3>4 DEF Asking
  <2> QED
    BY <2>3, <2>4
<1> QED
  BY <1>2, <1>3, <1>4 DEF InHeaders

LEMMA BodyTurn ==
    ASSUME NEW r, Good(r), r.form # <<>>, NEW granted \in BOOLEAN, NEW b, b = r.form, NEW x,
           x = parseBody(Asked(r, "BODY", Connection(r), FormType), Line(b), granted)
    PROVE  Asking(Then(b, x), r, Unparsed(b, x), x)
<1>1. IsCut(b) /\ Line(b) = b /\ AfterLine(b) = b
  BY FormLine
<1>2. Done(r, x) /\ x.state = "FINISH"
  BY <1>1, FormDone
<1>3. Unparsed(b, x) = b /\ Then(b, x) = "respond"
  BY <1>1, <1>2 DEF Unparsed, Then, Done
<1> QED
  BY <1>2, <1>3 DEF Asking

LEMMA MistakenTurn ==
    ASSUME NEW r, Good(r), r.keep, NEW b, b = r.form, b # <<>>, NEW q, q = parseRequestLine(NoRequest, Line(b))
    PROVE  Mistaken(Then(b, q), r, Unparsed(b, q), q)
<1>1. Line(b) = b /\ ~IsRequestLine(b)
  BY FormLine
<1>2. q = [NoRequest EXCEPT !.ok = FALSE]
  BY <1>1 DEF parseRequestLine
<1>3. q.ok = FALSE /\ q.path = "" /\ q.version = ""
  BY <1>2 DEF NoRequest
<1>4. Bad(q)
  BY <1>3 DEF Bad, IsKeepAlive
<1>5. Unparsed(b, q) = b /\ Then(b, q) = "respond"
  BY <1>3 DEF Unparsed, Then
<1> QED
  BY <1>4, <1>5 DEF Mistaken

-----------------------------------------------------------------------------
(* The steps *)

Requests == UNION {ToSet(s) : s \in Script}

SeenTyped == plan \in Script /\ seen \in Seq(Requests) /\ \A i \in 1..Len(seen) : Good(seen[i])

PhaseOf == ~torn => Phase(pc, closed, Len(seen), Len(answers), seen[Len(seen)], rbuf, req)

(* The inductive invariant of what is answered. *)
ServedInv == SeenTyped /\ PhaseOf /\ Served

LEMMA EncodeNotEmpty ==
    ASSUME NEW r, Good(r)
    PROVE  Encode(r) # <<>>
<1>1. ~IsCut(Encode(r))
  BY FirstLine
<1>2. IsCut(<<>>)
  BY DEF IsCut, Ends
<1> QED
  BY <1>1, <1>2

(* Tasks that do not read, parse or answer. *)
LEMMA CalmPhase ==
    ASSUME NEW p, NEW cl, NEW n, NEW m, NEW r, NEW b, NEW q, Phase(p, cl, n, m, r, b, q),
           n > 0 => Good(r), p \in Calm \/ (p = "process" /\ b = <<>>),
           NEW p2 \in Calm, cl = TRUE => p2 = "idle" \/ p # "idle"
    PROVE  Phase(p2, cl, n, m, r, b, q)
<1>1. CASE cl = TRUE /\ p = "idle"
  BY <1>1 DEF Phase
<1>2. CASE n = 0 /\ m = 0 /\ b = <<>> /\ q = NoRequest /\ p \in Calm
  BY <1>2 DEF Phase
<1>3. CASE n > 0 /\ m = n /\ Replied(p, r, b, q)
  BY <1>3 DEF Phase, Replied
<1>4. CASE n > 0 /\ m = n /\ Mistaken(p, r, b, q)
  BY <1>4 DEF Mistaken, Calm
<1>5. CASE n > 0 /\ m = n + 1 /\ Refused(p, b, q)
  BY <1>5 DEF Phase, Refused
<1>6. CASE n > 0 /\ m + 1 = n /\ Asking(p, r, b, q)
  BY <1>6, EncodeNotEmpty DEF Asking, Calm
<1> QED
  BY <1>1, <1>2, <1>3, <1>4, <1>5, <1>6 DEF Phase

(* All is sent on a connection that is kept. *)
LEMMA KeptPhase ==
    ASSUME NEW cl, NEW n, NEW m, NEW r, NEW b, NEW q, Phase("written", cl, n, m, r, b, q), IsKeepAlive(q)
    PROVE  Phase("process", cl, n, m, r, b, q)
<1>1. CASE n = 0 /\ m = 0 /\ b = <<>> /\ q = NoRequest
  BY <1>1, NoRequestIs
<1>2. CASE n > 0 /\ m = n /\ Replied("written", r, b, q)
  BY <1>2 DEF Phase, Replied, Done
<1>3. CASE n > 0 /\ m = n /\ Mistaken("written", r, b, q)
  BY <1>3 DEF Mistaken
<1>4. CASE n > 0 /\ m = n + 1 /\ Refused("written", b, q)
  BY <1>4 DEF Refused, Bad
<1>5. CASE n > 0 /\ m + 1 = n /\ Asking("written", r, b, q)
  BY <1>5 DEF Asking
<1> QED
  BY <1>1, <1>2, <1>3, <1>4, <1>5 DEF Phase

(* A request is parsed from its beginning. *)
LEMMA StartPhase ==
    ASSUME NEW cl, NEW n, NEW m, NEW r, NEW b, NEW q, Phase("process", cl, n, m, r, b, q), b # <<>>
    PROVE  Phase("parse", cl, n, m, r, b, NoRequest)
<1>1. CASE n > 0 /\ m = n /\ Replied("process", r, b, q)
  BY <1>1 DEF Phase, Replied, Mistaken, Calm
<1>2. CASE n > 0 /\ m + 1 = n /\ Asking("process", r, b, q)
  BY <1>2 DEF Phase, Asking
<1>3. CASE n > 0 /\ m = n /\ Mistaken("process", r, b, q)
  BY <1>3 DEF Mistaken
<1>4. CASE n > 0 /\ m = n + 1 /\ Refused("process", b, q)
  BY <1>4 DEF Refused, Calm
<1> QED
  BY <1>1, <1>2, <1>3, <1>4 DEF Phase

(* A turn of the parse loop. *)
LEMMA ParsePhase ==
    ASSUME NEW cl, NEW n, NEW m, NEW r, NEW b, NEW q, Phase("parse", cl, n, m, r, b, q), n > 0 => Good(r),
           NEW x, NEW granted \in BOOLEAN,
           \/ q.state = "REQUEST_LINE" /\ x = parseRequestLine(q, Line(b))
           \/ /\ q.state = "HEADERS"
              /\ x = IF TwoBytesOrLess(b) THEN [parseHeader(q, Line(b)) EXCEPT !.state = "FINISH"]
                     ELSE parseHeader(q, Line(b))
           \/ q.state = "BODY" /\ x = parseBody(q, Line(b), granted)
    PROVE  Phase(Then(b, x), cl, n, m, r, Unparsed(b, x), x)
<1>0. "parse" # "idle" /\ "parse" \notin Calm
  BY DEF Calm
<1>1. CASE n > 0 /\ m = n /\ Mistaken("parse", r, b, q)
  <2>1. Good(r) /\ r.keep /\ b = r.form /\ b # <<>> /\ q = NoRequest
    BY <1>1 DEF Mistaken
  <2>2. x = parseRequestLine(NoRequest, Line(b))
    BY <2>1, NoRequestIs
  <2>3. Mistaken(Then(b, x), r, Unparsed(b, x), x)
    BY <2>1, <2>2, MistakenTurn
  <2> QED
    BY <1>1, <2>3 DEF Phase
<1>2. CASE n > 0 /\ m + 1 = n /\ Asking("parse", r, b, q)
  <2>1. Good(r)
    BY <1>2
  <2> SUFFICES Asking(Then(b, x), r, Unparsed(b, x), x)
    BY <1>2 DEF Phase
  <2>2. CASE b = Encode(r) /\ q = NoRequest
    <3>1. x = parseRequestLine(NoRequest, Line(b))
      BY <2>2, NoRequestIs
    <3> QED
      BY <2>1, <2>2, <3>1, LineTurn
  <2>3. CASE InHeaders(r, b, q)
    <3>1. q.state = "HEADERS"
      BY <2>3, AskedIs DEF InHeaders
    <3>2. x = IF TwoBytesOrLess(b) THEN [parseHeader(q, Line(b)) EXCEPT !.state = "FINISH"]
              ELSE parseHeader(q, Line(b))
      BY <3>1
    <3> QED
      BY <2>1, <2>3, <3>2, HeaderTurn
  <2>4. CASE b = r.form /\ b # <<>> /\ q = Asked(r, "BODY", Connection(r), FormType)
    <3>1. q.state = "BODY"
      BY <2>4, AskedIs
    <3>2. x = parseBody(q, Line(b), granted)
      BY <3>1
    <3> QED
      BY <2>1, <2>4, <3>2, BodyTurn
  <2> QED
    BY <1>2, <2>2, <2>3, <2>4 DEF Asking
<1>3. CASE n > 0 /\ m = n + 1 /\ Refused("parse", b, q)
  BY <1>0, <1>3 DEF Refused
<1>4. CASE n > 0 /\ m = n /\ Replied("parse", r, b, q)
  BY <1>0, <1>4 DEF Replied
<1> QED
  BY <1>0, <1>1, <1>2, <1>3, <1>4 DEF Phase

(* Steps that read and answer nothing. *)
LEMMA HistorySame ==
    ASSUME ServedInv, plan' = plan, seen' = seen, answers' = answers, torn' = torn,
           ~torn => Phase(pc', closed', Len(seen), Len(answers), seen[Len(seen)], rbuf', req')
    PROVE  ServedInv'
<1>1. SeenTyped'
  BY DEF ServedInv, SeenTyped
<1>2. PhaseOf'
  BY DEF PhaseOf
<1>3. Served'
  BY DEF ServedInv, Served
<1> QED
  BY <1>1, <1>2, <1>3 DEF ServedInv

(* The latest request is a good one. *)
LEMMA LatestGood ==
    ASSUME ServedInv
    PROVE  Len(seen) \in Nat /\ (Len(seen) > 0 => Good(seen[Len(seen)]))
<1>1. Len(seen) \in Nat
  BY LenProperties DEF ServedInv, SeenTyped
<1> QED
  BY <1>1 DEF ServedInv, SeenTyped

LEMMA ServedCalm ==
    ASSUME ServedInv, tasks \in Seq(Kind),
           \/ TakeTask \/ NeedMoreData \/ OnWrite \/ OnWriteAgain \/ WriteNothing \/ WrittenSome
    PROVE  ServedInv'
<1>1. /\ plan' = plan /\ seen' = seen /\ answers' = answers /\ torn' = torn
      /\ closed' = closed /\ rbuf' = rbuf /\ req' = req
  BY DEF TakeTask, NeedMoreData, OnWrite, OnWriteAgain, Writev, WriteNothing, WrittenSome, peer, hist
<1>2. pc \in Calm \/ (pc = "process" /\ rbuf = <<>>)
  BY DEF TakeTask, NeedMoreData, OnWrite, OnWriteAgain, Writev, WriteNothing, WrittenSome, Calm
<1>3. pc' \in Calm /\ (closed = TRUE => pc' = "idle" \/ pc # "idle")
  <2>1. CASE TakeTask
    <3>1. Head(tasks) \in Kind
      BY <2>1, LastTask DEF TakeTask
    <3> QED
      BY <2>1, <3>1 DEF TakeTask, Calm, Kind
  <2>2. CASE NeedMoreData \/ WriteNothing \/ WrittenSome
    BY <2>2 DEF NeedMoreData, WriteNothing, WrittenSome, Calm
  <2>3. CASE OnWrite \/ OnWriteAgain
    BY <2>3 DEF OnWrite, OnWriteAgain, Writev, Calm
  <2> QED
    BY <2>1, <2>2, <2>3
<1>4. ASSUME ~torn PROVE Phase(pc', closed, Len(seen), Len(answers), seen[Len(seen)], rbuf, req)
  <2>1. PICK p2 : p2 = pc'
    OBVIOUS
  <2>2. Phase(pc, closed, Len(seen), Len(answers), seen[Len(seen)], rbuf, req)
    BY <1>4 DEF ServedInv, PhaseOf
  <2>3. Phase(p2, closed, Len(seen), Len(answers), seen[Len(seen)], rbuf, req)
    BY <1>2, <1>3, <2>1, <2>2, LatestGood, CalmPhase
  <2> QED
    BY <2>1, <2>3
<1> QED
  BY <1>1, <1>4, HistorySame

LEMMA ServedClosing ==
    ASSUME ServedInv, OnReadNothing \/ RespondFails \/ WriteError \/ WrittenAll
    PROVE  ServedInv'
<1>1. /\ plan' = plan /\ seen' = seen /\ answers' = answers /\ torn' = torn
      /\ rbuf' = rbuf /\ req' = req
  BY DEF OnReadNothing, RespondFails, WriteError, WrittenAll, peer, hist
<1>2. \/ closed' = TRUE /\ pc' = "idle"
      \/ pc = "written" /\ IsKeepAlive(req) /\ pc' = "process" /\ closed' = closed
  BY DEF OnReadNothing, RespondFails, WriteError, WrittenAll, CloseConn
<1>3. ASSUME ~torn PROVE Phase(pc', closed', Len(seen), Len(answers), seen[Len(seen)], rbuf, req)
  <2>1. CASE closed' = TRUE /\ pc' = "idle"
    BY <2>1 DEF Phase
  <2>2. CASE pc = "written" /\ IsKeepAlive(req) /\ pc' = "process" /\ closed' = closed
    <3>1. Phase("written", closed, Len(seen), Len(answers), seen[Len(seen)], rbuf, req)
      BY <1>3, <2>2 DEF ServedInv, PhaseOf
    <3>2. Phase("process", closed, Len(seen), Len(answers), seen[Len(seen)], rbuf, req)
      BY <2>2, <3>1, KeptPhase
    <3> QED
      BY <2>2, <3>2
  <2> QED
    BY <1>2, <2>1, <2>2
<1> QED
  BY <1>1, <1>3, HistorySame

LEMMA ServedStart ==
    ASSUME ServedInv, StartParse
    PROVE  ServedInv'
<1>1. /\ plan' = plan /\ seen' = seen /\ answers' = answers /\ torn' = torn
      /\ closed' = closed /\ rbuf' = rbuf /\ req' = NoRequest /\ pc' = "parse" /\ pc = "process" /\ rbuf # <<>>
  BY DEF StartParse, peer, hist
<1>2. ASSUME ~torn PROVE Phase("parse", closed, Len(seen), Len(answers), seen[Len(seen)], rbuf, NoRequest)
  <2>1. Phase("process", closed, Len(seen), Len(answers), seen[Len(seen)], rbuf, req)
    BY <1>1, <1>2 DEF ServedInv, PhaseOf
  <2> QED
    BY <1>1, <2>1, StartPhase
<1> QED
  BY <1>1, <1>2, HistorySame

LEMMA ServedParse ==
    ASSUME ServedInv, ParseRequestLine \/ ParseHeaders \/ (\E granted \in BOOLEAN : ParseBody(granted))
    PROVE  ServedInv'
<1>1. PICK x : x = req'
  OBVIOUS
<1>2. PICK granted \in BOOLEAN :
          \/ req.state = "REQUEST_LINE" /\ x = parseRequestLine(req, Line(rbuf))
          \/ /\ req.state = "HEADERS"
             /\ x = IF TwoBytesOrLess(rbuf) THEN [parseHeader(req, Line(rbuf)) EXCEPT !.state = "FINISH"]
                    ELSE parseHeader(req, Line(rbuf))
          \/ req.state = "BODY" /\ x = parseBody(req, Line(rbuf), granted)
  <2>1. CASE ParseRequestLine
    BY <1>1, <2>1 DEF ParseRequestLine, Parsed
  <2>2. CASE ParseHeaders
    BY <1>1, <2>2 DEF ParseHeaders, Parsed
  <2>3. CASE \E granted \in BOOLEAN : ParseBody(granted)
    BY <1>1, <2>3 DEF ParseBody, Parsed
  <2> QED
    BY <2>1, <2>2, <2>3
<1>3. /\ plan' = plan /\ seen' = seen /\ answers' = answers /\ torn' = torn /\ closed' = closed
      /\ pc = "parse" /\ rbuf' = Unparsed(rbuf, x) /\ pc' = Then(rbuf, x)
  BY <1>1 DEF ParseRequestLine, ParseHeaders, ParseBody, Parsed, peer, hist, Unparsed, Then
<1>4. ASSUME ~torn
      PROVE  Phase(Then(rbuf, x), closed, Len(seen), Len(answers), seen[Len(seen)], Unparsed(rbuf, x), x)
  <2>1. Phase("parse", closed, Len(seen), Len(answers), seen[Len(seen)], rbuf, req)
    BY <1>3, <1>4 DEF ServedInv, PhaseOf
  <2>2. Len(seen) > 0 => Good(seen[Len(seen)])
    BY LatestGood
  <2> QED
    BY <1>2, <2>1, <2>2, ParsePhase
<1> QED
  BY <1>1, <1>3, <1>4, HistorySame

(* A request that is read whole from an empty buffer is the next to answer:  *)
(* every earlier one is answered.                                            *)
LEMMA ServedRead ==
    ASSUME ServedInv, torn \in BOOLEAN, OnRead
    PROVE  ServedInv'
<1>1. plan' = plan /\ answers' = answers /\ closed' = closed /\ req' = req /\ pc = "onRead" /\ pc' = "process"
  BY DEF OnRead, peer
<1>2. CASE torn'
  <2>1. seen' = seen
    BY <1>2 DEF OnRead
  <2>2. SeenTyped'
    BY <1>1, <2>1 DEF ServedInv, SeenTyped
  <2> QED
    BY <1>2, <2>2 DEF ServedInv, PhaseOf, Served
<1>3. CASE ~torn'
  <2>1. PICK r : r = plan[Len(seen) + 1]
    OBVIOUS
  <2>2. /\ ~torn /\ rbuf = <<>> /\ Len(seen) + 1 <= Len(plan) /\ WellFormed(r) /\ net = Encode(r)
        /\ seen' = Append(seen, r) /\ rbuf' = rbuf \o net
    BY <1>3, <2>1 DEF OnRead
  <2>3. plan \in Script /\ seen \in Seq(Requests) /\ Len(seen) \in Nat /\ plan \in Seq(ToSet(plan))
    BY ScriptAssumption, LenProperties DEF ServedInv, SeenTyped
  <2>4. r \in ToSet(plan)
    <3>1. Len(plan) \in Nat
      BY <2>3, LenProperties
    <3>2. Len(seen) + 1 \in 1..Len(plan)
      BY <2>2, <2>3, <3>1
    <3> QED
      BY <2>1, <2>3, <3>2, ElementOfSeq
  <2>5. Good(r) /\ r \in Requests
    <3>1. r.keep \in BOOLEAN /\ r.form \in Seq(ToSet(r.form))
      BY <2>3, <2>4, ScriptAssumption
    <3>2. r \in Requests
      BY <2>3, <2>4 DEF Requests
    <3> QED
      BY <2>2, <3>1, <3>2 DEF Good
  <2>6. PICK n \in Nat : n = Len(seen)
    BY <2>3
  <2>7. /\ seen' \in Seq(Requests) /\ Len(seen') = n + 1 /\ seen'[n + 1] = r
        /\ \A i \in 1..n : seen'[i] = seen[i]
    BY <2>2, <2>3, <2>5, <2>6, AppendProperties
  <2>8. rbuf' = Encode(r)
    <3>1. Encode(r) \in Seq(Symbols(r))
      <4>1. RequestLine(r) \in Seq(Symbols(r)) /\ CRLF \in Seq(Symbols(r)) /\ AfterRequest(r) \in Seq(Symbols(r))
        BY <2>5, Texts
      <4>2. RequestLine(r) \o CRLF \in Seq(Symbols(r))
        BY <4>1, Joined
      <4> QED
        BY <2>5, <4>1, <4>2, EncodeIs, Joined
    <3> QED
      BY <2>2, <3>1, ConcatEmptySeq
  <2>9. Len(answers) = n
    <3>1. Phase("onRead", closed, n, Len(answers), seen[Len(seen)], <<>>, req)
      BY <1>1, <2>2, <2>6 DEF ServedInv, PhaseOf
    <3> QED
      BY <2>6, <3>1 DEF Phase, Refused, Mistaken, Asking
  <2>10. SeenTyped'
    <3>1. \A i \in 1..n + 1 : i = n + 1 \/ i \in 1..n
      OBVIOUS
    <3>2. \A i \in 1..n : Good(seen[i])
      BY <2>6 DEF ServedInv, SeenTyped
    <3>3. \A i \in 1..n + 1 : Good(seen'[i])
      BY <2>5, <2>7, <3>1, <3>2
    <3> QED
      BY <1>1, <2>3, <2>7, <3>3 DEF SeenTyped
  <2>11. PhaseOf'
    <3>1. Asking("process", r, Encode(r), req)
      BY DEF Asking
    <3>2. Phase("process", closed, n + 1, n, r, Encode(r), req)
      BY <3>1 DEF Phase
    <3> QED
      BY <1>1, <2>7, <2>8, <2>9, <3>2 DEF PhaseOf
  <2>12. Served'
    <3>1. \A i \in 1..n : Deserves(seen[i], answers[i])
      BY <2>2, <2>6, <2>9 DEF ServedInv, Served
    <3>2. \A i \in 1..n : Deserves(seen'[i], answers'[i])
      BY <1>1, <2>7, <3>1
    <3>3. Len(answers') = n /\ ~(n > n + 1)
      BY <1>1, <2>9
    <3> QED
      BY <2>7, <3>2, <3>3 DEF Served
  <2> QED
    BY <2>10, <2>11, <2>12 DEF ServedInv
<1> QED
  BY <1>2, <1>3

(* The answer to a request is the one it deserves, the answer to a body that *)
(* is left a 404.                                                            *)
LEMMA ServedRespond ==
    ASSUME ServedInv, IInv, NEW mapped \in BOOLEAN, Respond(mapped)
    PROVE  ServedInv'
<1>1. PICK a : a = MakeResponse(req.path, req.ok /\ IsKeepAlive(req), IF req.ok THEN 200 ELSE 400, mapped)
  OBVIOUS
<1>2. /\ plan' = plan /\ seen' = seen /\ torn' = torn /\ closed' = closed /\ req' = req /\ rbuf' = rbuf
      /\ pc = "respond" /\ pc' = "idle" /\ answers' = Append(answers, a)
  BY <1>1 DEF Respond, peer
<1>3. PICK A : A = {answers[i] : i \in 1..Len(answers)} \cup {a}
  OBVIOUS
<1>4. answers \in Seq(A) /\ a \in A
  <2>1. answers \in Seq({answers[i] : i \in 1..Len(answers)})
    BY DEF IInv, Typed
  <2> QED
    BY <1>3, <2>1, SeqMonotonic
<1>5. PICK m \in Nat : m = Len(answers)
  BY <1>4, LenProperties
<1>6. Len(answers') = m + 1 /\ answers'[m + 1] = a /\ \A i \in 1..m : answers'[i] = answers[i]
  BY <1>2, <1>4, <1>5, AppendProperties
<1>7. SeenTyped'
  BY <1>2 DEF ServedInv, SeenTyped
<1>8. CASE torn
  BY <1>2, <1>7, <1>8 DEF ServedInv, PhaseOf, Served
<1>9. CASE ~torn
  <2>1. PICK n \in Nat : n = Len(seen)
    BY LatestGood
  <2>2. PICK r : r = seen[n]
    OBVIOUS
  <2>3. n > 0 => Good(r)
    BY <2>1, <2>2, LatestGood
  <2>4. Phase("respond", closed, n, m, r, rbuf, req)
    BY <1>2, <1>5, <1>9, <2>1, <2>2 DEF ServedInv, PhaseOf
  <2>5. \A i \in 1..m : i <= n => Deserves(seen[i], answers[i])
    BY <1>5, <1>9, <2>1 DEF ServedInv, Served
  <2>6. \A i \in 1..m + 1 : i = m + 1 \/ i \in 1..m
    OBVIOUS
  <2>7. \/ n > 0 /\ m = n /\ Mistaken("respond", r, rbuf, req)
        \/ n > 0 /\ m + 1 = n /\ Asking("respond", r, rbuf, req)
    BY <2>4 DEF Phase, Replied, Refused, Calm
  <2>8. CASE n > 0 /\ m + 1 = n /\ Asking("respond", r, rbuf, req)
    <3>1. Good(r) /\ rbuf = r.form /\ Done(r, req)
      BY <2>3, <2>8 DEF Asking
    <3>2. req.ok = TRUE /\ (IsKeepAlive(req) <=> r.keep) /\ req.path \in Pages(r) /\ r.keep \in BOOLEAN
      BY <3>1 DEF Done, Good
    <3>3. PICK keep : keep = (req.ok /\ IsKeepAlive(req))
      OBVIOUS
    <3>4. keep = r.keep
      BY <3>2, <3>3
    <3>5. a = MakeResponse(req.path, keep, 200, mapped)
      BY <1>1, <3>2, <3>3
    <3>6. Deserves(r, a)
      BY <3>1, <3>2, <3>4, <3>5, ResponseDeserved
    <3>7. \A i \in 1..m + 1 : Deserves(seen[i], answers'[i])
      BY <1>6, <2>2, <2>5, <2>6, <2>8, <3>6
    <3>8. Served'
      BY <1>2, <1>6, <2>1, <2>8, <3>7 DEF Served
    <3>9. Replied("idle", r, rbuf, req)
      BY <3>1 DEF Replied, Calm
    <3>10. Phase("idle", closed, n, m + 1, r, rbuf, req)
      BY <2>8, <3>9 DEF Phase
    <3>11. PhaseOf'
      BY <1>2, <1>6, <2>1, <2>2, <3>10 DEF PhaseOf
    <3> QED
      BY <1>7, <3>8, <3>11 DEF ServedInv
  <2>9. CASE n > 0 /\ m = n /\ Mistaken("respond", r, rbuf, req)
    <3>1. rbuf = r.form /\ rbuf # <<>> /\ r.keep /\ Bad(req)
      BY <2>9 DEF Mistaken
    <3>2. a = MakeResponse("", FALSE, 400, mapped)
      BY <1>1, <3>1 DEF Bad
    <3>3. a.code = 404 /\ a.keep = FALSE
      <4>1. /\ MakeResponse("", FALSE, 400, mapped).code = 404
            /\ MakeResponse("", FALSE, 400, mapped).keep = FALSE
        BY ResponseRefused, ZenonT(60)
      <4> QED
        BY <3>2, <4>1, ZenonT(60)
    <3>4. \A i \in 1..m + 1 : i <= n => Deserves(seen[i], answers'[i])
      BY <1>6, <2>5, <2>6, <2>9
    <3>5. Served'
      BY <1>2, <1>6, <2>1, <2>2, <2>9, <3>1, <3>3, <3>4 DEF Served
    <3>6. Refused("idle", rbuf, req)
      BY <3>1 DEF Refused, Calm
    <3>7. Phase("idle", closed, n, m + 1, r, rbuf, req)
      BY <2>9, <3>6 DEF Phase
    <3>8. PhaseOf'
      BY <1>2, <1>6, <2>1, <2>2, <3>7 DEF PhaseOf
    <3> QED
      BY <1>7, <3>5, <3>8 DEF ServedInv
  <2> QED
    BY <2>7, <2>8, <2>9
<1> QED
  BY <1>8, <1>9

LEMMA ServedNext ==
    ASSUME ServedInv, IInv, [Next]_vars
    PROVE  ServedInv'
<1>1. tasks \in Seq(Kind) /\ torn \in BOOLEAN
  BY InvSplit DEF Control
<1>2. CASE PeerStep \/ Event \/ UNCHANGED vars
  <2>1. /\ plan' = plan /\ seen' = seen /\ answers' = answers /\ torn' = torn
        /\ pc' = pc /\ closed' = closed /\ rbuf' = rbuf /\ req' = req
    BY <1>2 DEF PeerStep, PeerSend, PeerRead, Event, vars, peer, hist
  <2>2. ~torn => Phase(pc', closed', Len(seen), Len(answers), seen[Len(seen)], rbuf', req')
    BY <2>1 DEF ServedInv, PhaseOf
  <2> QED
    BY <2>1, <2>2, HistorySame
<1>3. CASE TakeTask \/ NeedMoreData \/ OnWrite \/ OnWriteAgain \/ WriteNothing \/ WrittenSome
  BY <1>1, <1>3, ServedCalm
<1>4. CASE OnReadNothing \/ RespondFails \/ WriteError \/ WrittenAll
  BY <1>4, ServedClosing
<1>5. CASE ParseRequestLine \/ ParseHeaders \/ (\E granted \in BOOLEAN : ParseBody(granted))
  BY <1>5, ServedParse
<1> QED
  BY <1>1, <1>2, <1>3, <1>4, <1>5, ServedStart, ServedRead, ServedRespond DEF Next, Task

LEMMA ServedInit == Init => ServedInv
<1> SUFFICES ASSUME Init PROVE ServedInv
  OBVIOUS
<1>1. /\ plan \in Script /\ seen = <<>> /\ answers = <<>> /\ rbuf = <<>> /\ req = NoRequest /\ pc = "idle"
  BY DEF Init
<1>2. Len(<<>>) = 0 /\ <<>> \in Seq(Requests)
  BY EmptySeq
<1>3. SeenTyped
  BY <1>1, <1>2 DEF SeenTyped
<1>4. PhaseOf
  BY <1>1, <1>2 DEF PhaseOf, Phase, Calm
<1>5. Served
  BY <1>1, <1>2 DEF Served
<1> QED
  BY <1>3, <1>4, <1>5 DEF ServedInv

(* Whatever they ask for, a peer whose requests are well formed and arrive   *)
(* whole and one at a time gets from Conn::Process, in order, the answer     *)
(* each one deserves, and nothing more but a 404 after a form on a kept      *)
(* connection.                                                               *)
THEOREM RequestsAreServed == Spec => []Served
<1>1. ServedInv /\ IInv /\ [Next]_vars => ServedInv'
  BY ServedNext
<1>2. Spec => []ServedInv
  BY <1>1, ServedInit, AlwaysIInv, PTL DEF Spec
<1>3. ServedInv => Served
  BY DEF ServedInv
<1> QED
  BY <1>2, <1>3, PTL

-----------------------------------------------------------------------------
(* The buffer *)

(* Functions on 1..n are sequences of length n. *)
LEMMA FunIsSeq ==
    ASSUME NEW S, NEW n \in Nat, NEW f \in [1..n -> S]
    PROVE  f \in Seq(S) /\ Len(f) = n
  <1>1. f \in Seq(S) BY SeqDef
  <1>2. DOMAIN f = 1..Len(f) /\ Len(f) \in Nat BY <1>1, LenProperties
  <1>3. DOMAIN f = 1..n OBVIOUS
  <1>4. Len(f) = n BY <1>2, <1>3
  <1> QED BY <1>1, <1>4

(* The unread bytes are a sequence of ReadableBytes bytes. *)
LEMMA ContentsSeq ==
    ASSUME NEW b, BufferOK(b)
    PROVE  /\ ReadableBytes(b) \in Nat
           /\ Contents(b) \in Seq(Nat) /\ Len(Contents(b)) = ReadableBytes(b)
           /\ \A i \in 1..ReadableBytes(b) : Contents(b)[i] = b.cell[b.readPos + i]
  <1>1. ReadableBytes(b) \in Nat BY DEF BufferOK, ReadableBytes
  <1>2. \A i \in 1..ReadableBytes(b) : b.readPos + i \in 1..b.size
    BY DEF BufferOK, ReadableBytes
  <1>3. Contents(b) \in [1..ReadableBytes(b) -> Nat]
    BY <1>2 DEF BufferOK, Contents
  <1>4. Contents(b) \in Seq(Nat) /\ Len(Contents(b)) = ReadableBytes(b)
    BY <1>1, <1>3, FunIsSeq
  <1> QED BY <1>1, <1>4 DEF Contents

(* Two buffers with the same unread cells have the same contents. *)
LEMMA SameContents ==
    ASSUME NEW b, NEW c, BufferOK(b), BufferOK(c), ReadableBytes(b) = ReadableBytes(c),
           \A i \in 1..ReadableBytes(b) : c.cell[c.readPos + i] = b.cell[b.readPos + i]
    PROVE  Contents(c) = Contents(b)
  BY DEF Contents

(* resize, when there is not enough room, keeps the contents and makes room. *)
LEMMA ResizedOK ==
    ASSUME NEW b, BufferOK(b), NEW n \in Nat, n >= b.size
    PROVE  LET c == Resized(b, n) IN
           /\ BufferOK(c) /\ Contents(c) = Contents(b)
           /\ c.size = n /\ c.readPos = b.readPos /\ c.writePos = b.writePos
  <1> DEFINE c == Resized(b, n)
  <1>1. c = [size |-> n, cell |-> [i \in 1..n |-> IF i <= b.size THEN b.cell[i] ELSE 0],
             readPos |-> b.readPos, writePos |-> b.writePos]
    BY DEF Resized
  <1> HIDE DEF c
  <1>2. /\ c.size = n /\ c.readPos = b.readPos /\ c.writePos = b.writePos
        /\ c.cell = [i \in 1..n |-> IF i <= b.size THEN b.cell[i] ELSE 0]
    BY <1>1
  <1>3. c.cell \in [1..n -> Nat]
    <2> SUFFICES ASSUME NEW i \in 1..n
                 PROVE  (IF i <= b.size THEN b.cell[i] ELSE 0) \in Nat
      BY <1>2
    <2> QED BY DEF BufferOK
  <1>4. BufferOK(c) BY <1>1, <1>2, <1>3 DEF BufferOK
  <1>5. ReadableBytes(c) = ReadableBytes(b) BY <1>2 DEF ReadableBytes
  <1>6. \A i \in 1..ReadableBytes(b) : c.cell[c.readPos + i] = b.cell[b.readPos + i]
    BY <1>2 DEF BufferOK, ReadableBytes
  <1>7. Contents(c) = Contents(b) BY <1>4, <1>5, <1>6, SameContents
  <1> QED BY <1>2, <1>4, <1>7 DEF c

(* Moving the unread bytes to the front keeps them. *)
LEMMA CompactedOK ==
    ASSUME NEW b, BufferOK(b)
    PROVE  LET c == Compacted(b) IN
           /\ BufferOK(c) /\ Contents(c) = Contents(b)
           /\ c.size = b.size /\ c.readPos = 0 /\ c.writePos = ReadableBytes(b)
  <1> DEFINE c == Compacted(b)
             g == [i \in 1..b.size |-> IF i <= ReadableBytes(b) THEN b.cell[b.readPos + i]
                                       ELSE b.cell[i]]
  <1>1. c = [size |-> b.size, cell |-> g, readPos |-> 0, writePos |-> ReadableBytes(b)]
    BY DEF Compacted
  <1>2. c.size = b.size /\ c.readPos = 0 /\ c.writePos = ReadableBytes(b) /\ c.cell = g
    BY <1>1
  <1> HIDE DEF c
  <1>3. ReadableBytes(b) \in 0..b.size BY DEF BufferOK, ReadableBytes
  <1>4. g \in [1..b.size -> Nat]
    <2> SUFFICES ASSUME NEW i \in 1..b.size
                 PROVE  (IF i <= ReadableBytes(b) THEN b.cell[b.readPos + i] ELSE b.cell[i]) \in Nat
      OBVIOUS
    <2>1. CASE i <= ReadableBytes(b)
      <3>1. b.readPos + i \in 1..b.size BY <2>1 DEF BufferOK, ReadableBytes
      <3> QED BY <2>1, <3>1 DEF BufferOK
    <2>2. CASE ~(i <= ReadableBytes(b)) BY <2>2 DEF BufferOK
    <2> QED BY <2>1, <2>2
  <1>5. \A i \in 1..ReadableBytes(b) : g[0 + i] = b.cell[b.readPos + i]
    <2> SUFFICES ASSUME NEW i \in 1..ReadableBytes(b)
                 PROVE  g[0 + i] = b.cell[b.readPos + i]
      OBVIOUS
    <2>1. i \in 1..b.size /\ i <= ReadableBytes(b) /\ 0 + i = i BY <1>3 DEF BufferOK
    <2>2. g[i] = b.cell[b.readPos + i] BY <2>1
    <2> QED BY <2>1, <2>2
  <1> HIDE DEF g
  <1>6. BufferOK(c)
    <2>1. c = [size |-> c.size, cell |-> c.cell, readPos |-> c.readPos, writePos |-> c.writePos]
      BY <1>1
    <2>2. c.size \in Nat /\ c.cell \in [1..c.size -> Nat] BY <1>2, <1>4 DEF BufferOK
    <2>3. c.writePos \in 0..c.size /\ c.readPos \in 0..c.writePos BY <1>2, <1>3
    <2> QED BY <2>1, <2>2, <2>3 DEF BufferOK
  <1>7. ReadableBytes(c) = ReadableBytes(b) BY <1>2, <1>3 DEF ReadableBytes
  <1>8. Contents(c) = Contents(b) BY <1>2, <1>5, <1>6, <1>7, SameContents
  <1> QED BY <1>2, <1>6, <1>8 DEF c

(* EnsureWritable makes the room, keeps the contents, and allocates no more  *)
(* than the unread bytes and twice the room asked for.                       *)
LEMMA EnsureWritableOK ==
    ASSUME NEW b, BufferOK(b), NEW len \in Nat
    PROVE  LET c == EnsureWritable(b, len) IN
           /\ BufferOK(c) /\ Contents(c) = Contents(b)
           /\ WritableBytes(c) >= len /\ ReadableBytes(c) = ReadableBytes(b)
           /\ c.size <= b.size \/ c.size <= ReadableBytes(b) + 2 * len
  <1> USE DEF WritableBytes, ReadableBytes
  <1>1. CASE WritableBytes(b) >= len
    BY <1>1 DEF EnsureWritable, BufferOK
  <1>2. CASE WritableBytes(b) < len /\ NeedsResize(b, len)
    <2> DEFINE c == Resized(b, b.writePos + len + 1)
    <2>1. EnsureWritable(b, len) = c BY <1>2 DEF EnsureWritable, makeSpace
    <2>2. b.writePos + len + 1 \in Nat /\ b.writePos + len + 1 >= b.size
      BY <1>2 DEF BufferOK
    <2>3. /\ BufferOK(c) /\ Contents(c) = Contents(b) /\ c.size = b.writePos + len + 1
          /\ c.readPos = b.readPos /\ c.writePos = b.writePos
      BY <2>2, ResizedOK
    <2> HIDE DEF c
    <2>4. c.size <= ReadableBytes(b) + 2 * len
      BY <1>2, <2>3 DEF BufferOK, NeedsResize, PrependableBytes
    <2> QED BY <2>1, <2>3, <2>4 DEF BufferOK
  <1>3. CASE WritableBytes(b) < len /\ ~NeedsResize(b, len)
    <2> DEFINE c == Compacted(b)
    <2>1. EnsureWritable(b, len) = c BY <1>3 DEF EnsureWritable, makeSpace
    <2>2. /\ BufferOK(c) /\ Contents(c) = Contents(b) /\ c.size = b.size
          /\ c.readPos = 0 /\ c.writePos = ReadableBytes(b)
      BY CompactedOK
    <2> HIDE DEF c
    <2> QED BY <1>3, <2>1, <2>2 DEF BufferOK, NeedsResize, PrependableBytes
  <1> QED BY <1>1, <1>2, <1>3 DEF BufferOK

(* Storing d where there is room for it appends d to the contents. *)
LEMMA StoredOK ==
    ASSUME NEW b, BufferOK(b), NEW d \in Seq(Nat), Len(d) <= WritableBytes(b)
    PROVE  LET c == Stored(b, d) IN
           /\ BufferOK(c) /\ Contents(c) = Contents(b) \o d
           /\ c.size = b.size /\ ReadableBytes(c) = ReadableBytes(b) + Len(d)
  <1> DEFINE c == Stored(b, d)
             g == [i \in 1..b.size |-> IF i \in b.writePos + 1 .. b.writePos + Len(d)
                                       THEN d[i - b.writePos] ELSE b.cell[i]]
  <1>1. c = [size |-> b.size, cell |-> g, readPos |-> b.readPos, writePos |-> b.writePos + Len(d)]
    BY DEF Stored
  <1>2. /\ c.size = b.size /\ c.cell = g
        /\ c.readPos = b.readPos /\ c.writePos = b.writePos + Len(d)
    BY <1>1
  <1> HIDE DEF c
  <1>3. Len(d) \in Nat /\ \A i \in 1..Len(d) : d[i] \in Nat BY LenProperties, ElementOfSeq
  <1>4. g \in [1..b.size -> Nat]
    <2> SUFFICES ASSUME NEW i \in 1..b.size
                 PROVE  (IF i \in b.writePos + 1 .. b.writePos + Len(d)
                         THEN d[i - b.writePos] ELSE b.cell[i]) \in Nat
      OBVIOUS
    <2>1. CASE i \in b.writePos + 1 .. b.writePos + Len(d)
      <3>1. i - b.writePos \in 1..Len(d) BY <1>3, <2>1 DEF BufferOK
      <3> QED BY <1>3, <2>1, <3>1
    <2>2. CASE i \notin b.writePos + 1 .. b.writePos + Len(d) BY <2>2 DEF BufferOK
    <2> QED BY <2>1, <2>2
  <1>5. BufferOK(c)
    <2>1. c = [size |-> c.size, cell |-> c.cell, readPos |-> c.readPos, writePos |-> c.writePos]
      BY <1>1, <1>2
    <2>2. c.size \in Nat /\ c.cell \in [1..c.size -> Nat] BY <1>2, <1>4 DEF BufferOK
    <2>3. c.writePos \in 0..c.size /\ c.readPos \in 0..c.writePos
      BY <1>2, <1>3 DEF BufferOK, WritableBytes
    <2> QED BY <2>1, <2>2, <2>3 DEF BufferOK
  <1>6. ReadableBytes(c) = ReadableBytes(b) + Len(d)
    BY <1>2, <1>3 DEF BufferOK, ReadableBytes
  <1> DEFINE n == ReadableBytes(b)
  <1>7. /\ n \in Nat /\ Contents(b) \in Seq(Nat) /\ Len(Contents(b)) = n
        /\ \A i \in 1..n : Contents(b)[i] = b.cell[b.readPos + i]
    BY ContentsSeq
  <1>8. /\ Contents(c) \in Seq(Nat) /\ Len(Contents(c)) = n + Len(d)
        /\ \A i \in 1..(n + Len(d)) : Contents(c)[i] = g[b.readPos + i]
    <2>1. /\ Contents(c) \in Seq(Nat) /\ Len(Contents(c)) = ReadableBytes(c)
          /\ \A i \in 1..ReadableBytes(c) : Contents(c)[i] = c.cell[c.readPos + i]
      BY <1>5, ContentsSeq
    <2> HIDE DEF g
    <2> QED BY <1>2, <1>6, <2>1
  <1>9. /\ Contents(b) \o d \in Seq(Nat) /\ Len(Contents(b) \o d) = n + Len(d)
        /\ \A i \in 1..(n + Len(d)) :
              (Contents(b) \o d)[i] = IF i <= n THEN Contents(b)[i] ELSE d[i - n]
    <2>1. /\ Contents(b) \o d \in Seq(Nat) /\ Len(Contents(b) \o d) = Len(Contents(b)) + Len(d)
          /\ \A i \in 1..(Len(Contents(b)) + Len(d)) : (Contents(b) \o d)[i] =
                IF i <= Len(Contents(b)) THEN Contents(b)[i] ELSE d[i - Len(Contents(b))]
      BY <1>7, ConcatProperties
    <2>2. Len(Contents(b)) = n BY <1>7
    <2> HIDE DEF n
    <2> QED BY <2>1, <2>2
  <1>10. ASSUME NEW i \in 1..(n + Len(d))
         PROVE  g[b.readPos + i] = IF i <= n THEN Contents(b)[i] ELSE d[i - n]
    <2>1. b.readPos + i \in 1..b.size /\ b.writePos = b.readPos + n /\ i \in Nat /\ b.readPos \in Nat
      BY <1>3, <1>7 DEF BufferOK, ReadableBytes, WritableBytes
    <2>2. CASE i <= n
      <3>1. b.readPos + i \notin b.writePos + 1 .. b.writePos + Len(d) BY <1>3, <1>7, <2>1, <2>2
      <3>2. g[b.readPos + i] = b.cell[b.readPos + i] BY <2>1, <3>1
      <3>3. i \in 1..n BY <1>7, <2>1, <2>2
      <3>4. Contents(b)[i] = b.cell[b.readPos + i] BY <1>7, <3>3
      <3> QED BY <2>2, <3>2, <3>4
    <2>3. CASE ~(i <= n)
      <3>1. b.readPos + i \in b.writePos + 1 .. b.writePos + Len(d) BY <1>3, <1>7, <2>1, <2>3
      <3>2. g[b.readPos + i] = d[(b.readPos + i) - b.writePos] BY <2>1, <3>1
      <3>3. (b.readPos + i) - b.writePos = i - n BY <1>7, <2>1
      <3> QED BY <2>3, <3>2, <3>3
    <2> QED BY <2>2, <2>3
  <1> HIDE DEF g
  <1>11. \A i \in 1..Len(Contents(c)) : Contents(c)[i] = (Contents(b) \o d)[i]
    BY <1>8, <1>9, <1>10
  <1>12. Contents(c) = Contents(b) \o d BY <1>8, <1>9, <1>11, SeqEqual
  <1> QED BY <1>2, <1>5, <1>6, <1>12 DEF c

(* Consuming k bytes drops the first k of the contents. *)
LEMMA RetrievedOK ==
    ASSUME NEW b, BufferOK(b), NEW k \in 0..ReadableBytes(b)
    PROVE  LET c == Retrieved(b, k) IN
           /\ BufferOK(c) /\ c.size = b.size /\ ReadableBytes(c) = ReadableBytes(b) - k
           /\ Contents(c) = SubSeq(Contents(b), k + 1, Len(Contents(b)))
  <1> DEFINE c == Retrieved(b, k)
             n == ReadableBytes(b)
  <1>1. c = [size |-> b.size, cell |-> b.cell, readPos |-> b.readPos + k, writePos |-> b.writePos]
    BY DEF Retrieved
  <1>2. /\ c.size = b.size /\ c.cell = b.cell
        /\ c.readPos = b.readPos + k /\ c.writePos = b.writePos
    BY <1>1
  <1> HIDE DEF c
  <1>3. BufferOK(c)
    <2>1. c = [size |-> c.size, cell |-> c.cell, readPos |-> c.readPos, writePos |-> c.writePos]
      BY <1>1, <1>2
    <2> QED BY <1>2, <2>1 DEF BufferOK, ReadableBytes
  <1>4. ReadableBytes(c) = n - k BY <1>2 DEF BufferOK, ReadableBytes
  <1>5. /\ n \in Nat /\ Contents(b) \in Seq(Nat) /\ Len(Contents(b)) = n
        /\ \A i \in 1..n : Contents(b)[i] = b.cell[b.readPos + i]
    BY ContentsSeq
  <1>6. /\ Contents(c) \in Seq(Nat) /\ Len(Contents(c)) = n - k
        /\ \A i \in 1..(n - k) : Contents(c)[i] = b.cell[(b.readPos + k) + i]
    BY <1>2, <1>3, <1>4, ContentsSeq
  <1> DEFINE t == SubSeq(Contents(b), k + 1, n)
  <1>7. /\ t \in Seq(Nat) /\ Len(t) = n - k
        /\ \A i \in 1..(n - k) : t[i] = Contents(b)[k + i]
    <2>1. \A i \in (k + 1)..n : Contents(b)[i] \in Nat BY <1>5, ElementOfSeq
    <2>2. k + 1 \in Int /\ n \in Int BY <1>5
    <2>3. /\ t \in Seq(Nat) /\ Len(t) = IF k + 1 <= n THEN n - (k + 1) + 1 ELSE 0
          /\ \A i \in 1 .. n - (k + 1) + 1 : t[i] = Contents(b)[(k + 1) + i - 1]
      BY <2>1, <2>2, SubSeqProperties
    <2> HIDE DEF t
    <2>4. Len(t) = n - k BY <1>5, <2>3
    <2>5. ASSUME NEW i \in 1..(n - k) PROVE t[i] = Contents(b)[k + i]
      <3>1. i \in 1 .. n - (k + 1) + 1 /\ (k + 1) + i - 1 = k + i BY <1>5
      <3> QED BY <2>3, <3>1
    <2> QED BY <2>3, <2>4, <2>5
  <1> HIDE DEF t
  <1>8. ASSUME NEW i \in 1..(n - k) PROVE Contents(c)[i] = t[i]
    <2>1. k + i \in 1..n /\ b.readPos + (k + i) = (b.readPos + k) + i BY <1>5 DEF BufferOK
    <2> QED BY <1>5, <1>6, <1>7, <2>1
  <1>9. Contents(c) = t BY <1>6, <1>7, <1>8, SeqEqual
  <1> QED BY <1>2, <1>3, <1>4, <1>5, <1>9 DEF c, t

(* Append: room first, then the bytes. *)
LEMMA AppendedOK ==
    ASSUME NEW b, BufferOK(b), NEW d \in Seq(Nat)
    PROVE  LET c == Appended(b, d) IN
           /\ BufferOK(c) /\ Contents(c) = Contents(b) \o d
           /\ ReadableBytes(c) = ReadableBytes(b) + Len(d)
           /\ c.size <= b.size \/ c.size <= ReadableBytes(b) + 2 * Len(d)
  <1> DEFINE e == EnsureWritable(b, Len(d))
             c == Appended(b, d)
  <1>1. Len(d) \in Nat BY LenProperties
  <1>2. /\ BufferOK(e) /\ Contents(e) = Contents(b)
        /\ WritableBytes(e) >= Len(d) /\ ReadableBytes(e) = ReadableBytes(b)
        /\ e.size <= b.size \/ e.size <= ReadableBytes(b) + 2 * Len(d)
    BY <1>1, EnsureWritableOK
  <1>3. c = Stored(e, d) BY DEF Appended
  <1> HIDE DEF e
  <1>4. Len(d) <= WritableBytes(e) BY <1>1, <1>2 DEF WritableBytes, BufferOK
  <1>5. /\ BufferOK(c) /\ Contents(c) = Contents(e) \o d
        /\ c.size = e.size /\ ReadableBytes(c) = ReadableBytes(e) + Len(d)
    BY <1>2, <1>3, <1>4, StoredOK
  <1> QED BY <1>2, <1>5

(* The room ReadFd makes is within three times what it counts as used. *)
LEMMA PreparedOK ==
    ASSUME NEW b, BufferOK(b)
    PROVE  LET c == Prepared(b) IN
           /\ BufferOK(c) /\ Contents(c) = Contents(b) /\ ReadableBytes(c) = ReadableBytes(b)
           /\ c.size <= b.size \/ c.size <= 3 * Greater(Grow, ReadableBytes(b))
  <1> DEFINE len == Greater(Grow, ReadableBytes(b))
             c == Prepared(b)
  <1>1. ReadableBytes(b) \in Nat BY ContentsSeq
  <1>2. len \in Nat /\ ReadableBytes(b) <= len BY <1>1, SizeAssumption DEF Greater
  <1>3. CASE WritableBytes(b) < LowWater
    <2>1. c = EnsureWritable(b, len) BY <1>3 DEF Prepared
    <2> HIDE DEF len
    <2>2. /\ BufferOK(c) /\ Contents(c) = Contents(b) /\ ReadableBytes(c) = ReadableBytes(b)
          /\ c.size <= b.size \/ c.size <= ReadableBytes(b) + 2 * len
      BY <1>2, <2>1, EnsureWritableOK
    <2> HIDE DEF c
    <2>3. c.size \in Nat BY <2>2 DEF BufferOK
    <2>4. c.size <= b.size \/ c.size <= 3 * len BY <1>1, <1>2, <2>2, <2>3
    <2> QED BY <2>2, <2>4 DEF len, c
  <1>4. CASE ~(WritableBytes(b) < LowWater)
    <2>1. c = b BY <1>4 DEF Prepared
    <2> QED BY <2>1 DEF BufferOK
  <1> QED BY <1>3, <1>4

(* The next k bytes of the input, and how a read cuts them in two. *)
LEMMA InputSeq ==
    ASSUME fed \in Nat, NEW k \in Nat
    PROVE  Input(k) \in Seq(Nat) /\ Len(Input(k)) = k /\ \A i \in 1..k : Input(k)[i] = fed + i
  <1>1. Input(k) \in [1..k -> Nat] BY DEF Input
  <1>2. Input(k) \in Seq(Nat) /\ Len(Input(k)) = k BY <1>1, FunIsSeq
  <1> QED BY <1>2 DEF Input

LEMMA InputSplit ==
    ASSUME fed \in Nat, NEW k \in Nat, NEW j \in 0..k
    PROVE  /\ SubSeq(Input(k), j + 1, k) \in Seq(Nat)
           /\ Len(SubSeq(Input(k), j + 1, k)) = k - j
           /\ Input(j) \o SubSeq(Input(k), j + 1, k) = Input(k)
           /\ Input(j) = SubSeq(Input(k), 1, j)
  <1> DEFINE t == SubSeq(Input(k), j + 1, k)
             h == SubSeq(Input(k), 1, j)
  <1>1. Input(k) \in Seq(Nat) /\ Len(Input(k)) = k /\ \A i \in 1..k : Input(k)[i] = fed + i
    BY InputSeq
  <1>2. Input(j) \in Seq(Nat) /\ Len(Input(j)) = j /\ \A i \in 1..j : Input(j)[i] = fed + i
    <2>1. j \in Nat OBVIOUS
    <2> QED BY <2>1, InputSeq
  <1>3. /\ t \in Seq(Nat) /\ Len(t) = k - j
        /\ \A i \in 1..(k - j) : t[i] = fed + (j + i)
    <2>1. \A i \in (j + 1)..k : Input(k)[i] \in Nat BY <1>1
    <2>2. /\ t \in Seq(Nat) /\ Len(t) = IF j + 1 <= k THEN k - (j + 1) + 1 ELSE 0
          /\ \A i \in 1 .. k - (j + 1) + 1 : t[i] = Input(k)[(j + 1) + i - 1]
      BY <2>1, SubSeqProperties
    <2> HIDE DEF t
    <2>3. Len(t) = k - j BY <2>2
    <2>4. ASSUME NEW i \in 1..(k - j) PROVE t[i] = fed + (j + i)
      <3>1. i \in 1 .. k - (j + 1) + 1 /\ (j + 1) + i - 1 = j + i /\ j + i \in 1..k OBVIOUS
      <3> QED BY <1>1, <2>2, <3>1
    <2> QED BY <2>2, <2>3, <2>4
  <1>4. /\ h \in Seq(Nat) /\ Len(h) = j
        /\ \A i \in 1..j : h[i] = fed + i
    <2>1. \A i \in 1..j : Input(k)[i] \in Nat BY <1>1
    <2>2. /\ h \in Seq(Nat) /\ Len(h) = IF 1 <= j THEN j - 1 + 1 ELSE 0
          /\ \A i \in 1 .. j - 1 + 1 : h[i] = Input(k)[1 + i - 1]
      BY <2>1, SubSeqProperties
    <2> HIDE DEF h
    <2>3. Len(h) = j BY <2>2
    <2>4. ASSUME NEW i \in 1..j PROVE h[i] = fed + i
      <3>1. i \in 1 .. j - 1 + 1 /\ 1 + i - 1 = i /\ i \in 1..k OBVIOUS
      <3> QED BY <1>1, <2>2, <3>1
    <2> QED BY <2>2, <2>3, <2>4
  <1> HIDE DEF t, h
  <1>5. /\ Input(j) \o t \in Seq(Nat) /\ Len(Input(j) \o t) = k
        /\ \A i \in 1..k : (Input(j) \o t)[i] = fed + i
    <2>1. /\ Input(j) \o t \in Seq(Nat) /\ Len(Input(j) \o t) = Len(Input(j)) + Len(t)
          /\ \A i \in 1..(Len(Input(j)) + Len(t)) : (Input(j) \o t)[i] =
                IF i <= Len(Input(j)) THEN Input(j)[i] ELSE t[i - Len(Input(j))]
      BY <1>2, <1>3, ConcatProperties
    <2>2. Len(Input(j)) + Len(t) = k BY <1>2, <1>3
    <2>3. ASSUME NEW i \in 1..k PROVE (Input(j) \o t)[i] = fed + i
      <3>1. (Input(j) \o t)[i] = IF i <= j THEN Input(j)[i] ELSE t[i - j]
        BY <1>2, <2>1, <2>2
      <3>2. CASE i <= j
        <4>1. i \in 1..j BY <3>2
        <4> QED BY <1>2, <3>1, <3>2, <4>1
      <3>3. CASE ~(i <= j)
        <4>1. i - j \in 1..(k - j) /\ j + (i - j) = i BY <3>3
        <4> QED BY <1>3, <3>1, <3>3, <4>1
      <3> QED BY <3>2, <3>3
    <2> QED BY <2>1, <2>2, <2>3
  <1>6. Input(j) \o t = Input(k) BY <1>1, <1>5, SeqEqual
  <1>7. Input(j) = h BY <1>2, <1>4, SeqEqual
  <1> QED BY <1>3, <1>6, <1>7 DEF t, h

-----------------------------------------------------------------------------
(* The invariant and what every step does to the contents. *)

(* peak bounds what is unread now, which is what ties the size to it. *)
PeakOK == ReadableBytes(buf) <= peak
BufferIInv == BufferTypeOK /\ PeakOK /\ MemoryBounded

(* The next buffer c is sound and was allocated within the bound. *)
Sound(c) ==
    /\ BufferOK(c)
    /\ c.size <= buf.size \/ c.size <= 3 * Greater(Grow, Greater(peak, ReadableBytes(c)))

LEMMA AppendStep ==
    ASSUME BufferIInv, NEW k \in Nat
    PROVE  LET c == Appended(buf, Input(k)) IN Sound(c) /\ Contents(c) = Contents(buf) \o Input(k)
  <1> DEFINE c == Appended(buf, Input(k))
  <1>1. BufferOK(buf) /\ fed \in Nat /\ peak \in Nat BY DEF BufferIInv, BufferTypeOK
  <1>2. Input(k) \in Seq(Nat) /\ Len(Input(k)) = k BY <1>1, InputSeq
  <1>3. /\ BufferOK(c) /\ Contents(c) = Contents(buf) \o Input(k)
        /\ ReadableBytes(c) = ReadableBytes(buf) + k
        /\ c.size <= buf.size \/ c.size <= ReadableBytes(buf) + 2 * k
    BY <1>1, <1>2, AppendedOK
  <1>4. ReadableBytes(buf) \in Nat BY <1>1, ContentsSeq
  <1>5. c.size \in Nat BY <1>3 DEF BufferOK
  <1> HIDE DEF c
  <1>6. c.size <= buf.size \/ c.size <= 3 * Greater(Grow, Greater(peak, ReadableBytes(c)))
    BY <1>1, <1>3, <1>4, <1>5, SizeAssumption DEF Greater
  <1> QED BY <1>3, <1>6 DEF Sound, c

LEMMA ReadFdStep ==
    ASSUME BufferIInv, NEW k \in Nat, k <= WritableBytes(Prepared(buf))
    PROVE  LET c == Stored(Prepared(buf), Input(k)) IN
           Sound(c) /\ Contents(c) = Contents(buf) \o Input(k)
  <1> DEFINE b == Prepared(buf)
             c == Stored(b, Input(k))
  <1>1. BufferOK(buf) /\ fed \in Nat /\ peak \in Nat /\ ReadableBytes(buf) <= peak
    BY DEF BufferIInv, BufferTypeOK, PeakOK
  <1>2. Input(k) \in Seq(Nat) /\ Len(Input(k)) = k BY <1>1, InputSeq
  <1>3. /\ BufferOK(b) /\ Contents(b) = Contents(buf) /\ ReadableBytes(b) = ReadableBytes(buf)
        /\ b.size <= buf.size \/ b.size <= 3 * Greater(Grow, ReadableBytes(buf))
    BY <1>1, PreparedOK
  <1>4. k <= WritableBytes(b) OBVIOUS
  <1> HIDE DEF b
  <1>5. /\ BufferOK(c) /\ Contents(c) = Contents(b) \o Input(k)
        /\ c.size = b.size /\ ReadableBytes(c) = ReadableBytes(b) + k
    BY <1>2, <1>3, <1>4, StoredOK
  <1>6. ReadableBytes(buf) \in Nat BY <1>1, ContentsSeq
  <1>7. c.size \in Nat BY <1>5 DEF BufferOK
  <1> HIDE DEF c
  <1>8. c.size <= buf.size \/ c.size <= 3 * Greater(Grow, Greater(peak, ReadableBytes(c)))
    BY <1>1, <1>3, <1>5, <1>6, <1>7, SizeAssumption DEF Greater
  <1> QED BY <1>3, <1>5, <1>8 DEF Sound, b, c

LEMMA ReadFdExtraStep ==
    ASSUME BufferIInv, NEW k \in Nat, WritableBytes(Prepared(buf)) < k
    PROVE  LET b == Prepared(buf)
               c == Appended(Filled(b), Rest(b, k)) IN
           Sound(c) /\ Contents(c) = Contents(buf) \o Input(k)
  <1> DEFINE b == Prepared(buf)
             w == WritableBytes(b)
             f == Filled(b)
             c == Appended(f, Rest(b, k))
  <1>1. BufferOK(buf) /\ fed \in Nat /\ peak \in Nat /\ ReadableBytes(buf) <= peak
    BY DEF BufferIInv, BufferTypeOK, PeakOK
  <1>2. BufferOK(b) BY <1>1, PreparedOK
  <1>3. w \in Nat /\ w \in 0..k BY <1>2 DEF WritableBytes, BufferOK
  <1>4. Sound(f) /\ Contents(f) = Contents(buf) \o Input(w)
    <2>1. w <= WritableBytes(b) BY <1>3
    <2> QED BY <1>3, <2>1, ReadFdStep DEF Filled
  <1>5. /\ Rest(b, k) \in Seq(Nat) /\ Len(Rest(b, k)) = k - w
        /\ Input(w) \o Rest(b, k) = Input(k)
    BY <1>1, <1>3, InputSplit DEF Rest
  <1>6. Input(w) \in Seq(Nat) BY <1>1, <1>3, InputSeq
  <1>7. Contents(buf) \in Seq(Nat) /\ ReadableBytes(buf) \in Nat BY <1>1, ContentsSeq
  <1>8. ReadableBytes(f) \in Nat BY <1>4, ContentsSeq DEF Sound
  <1> HIDE DEF b, w, f
  <1>9. /\ BufferOK(c) /\ Contents(c) = Contents(f) \o Rest(b, k)
        /\ ReadableBytes(c) = ReadableBytes(f) + (k - w)
        /\ c.size <= f.size \/ c.size <= ReadableBytes(f) + 2 * (k - w)
    BY <1>4, <1>5, AppendedOK DEF Sound
  <1>10. Contents(c) = Contents(buf) \o Input(k)
    <2>1. (Contents(buf) \o Input(w)) \o Rest(b, k) = Contents(buf) \o (Input(w) \o Rest(b, k))
      <3>1. \A s, t, u \in Seq(Nat) : (s \o t) \o u = s \o (t \o u)
        BY ConcatAssociative, SMTT(60)
      <3>2. Rest(b, k) \in Seq(Nat) BY <1>5
      <3>3. Contents(buf) \in Seq(Nat) BY <1>7
      <3> QED BY <1>6, <3>1, <3>2, <3>3, Zenon
    <2> QED BY <1>4, <1>5, <1>9, <2>1
  <1>11. c.size \in Nat /\ f.size \in Nat BY <1>4, <1>9 DEF BufferOK, Sound
  <1> HIDE DEF c
  <1>12. c.size <= buf.size \/ c.size <= 3 * Greater(Grow, Greater(peak, ReadableBytes(c)))
    <2>1. f.size <= buf.size \/ f.size <= 3 * Greater(Grow, Greater(peak, ReadableBytes(f)))
      BY <1>4 DEF Sound
    <2>2. buf.size \in Nat BY <1>1 DEF BufferOK
    <2>3. k - w \in Nat /\ ReadableBytes(c) = ReadableBytes(f) + (k - w) BY <1>3, <1>9
    <2> DEFINE m == Greater(Grow, Greater(peak, ReadableBytes(c)))
    <2>4. /\ m \in Nat /\ ReadableBytes(c) <= m
          /\ Greater(Grow, Greater(peak, ReadableBytes(f))) <= m
          /\ Greater(Grow, Greater(peak, ReadableBytes(f))) \in Nat
      BY <1>1, <1>8, <2>3, SizeAssumption DEF Greater
    <2> HIDE DEF m
    <2>5. CASE c.size <= f.size BY <1>11, <2>1, <2>2, <2>4, <2>5 DEF m
    <2>6. CASE c.size <= ReadableBytes(f) + 2 * (k - w)
      <3>1. c.size <= 3 * m BY <1>8, <1>11, <2>3, <2>4, <2>6
      <3> QED BY <3>1 DEF m
    <2> QED BY <1>9, <2>5, <2>6
  <1> QED BY <1>9, <1>10, <1>12 DEF Sound, b, w, f, c

(* What BufferNext does: a step of the queue that leads to a sound buffer. *)
LEMMA StepShape ==
    ASSUME BufferIInv, BufferNext
    PROVE  /\ Sound(buf') /\ fed' \in Nat /\ peak' = Greater(peak, ReadableBytes(buf'))
           /\ Fifo!Next
  <1>1. BufferOK(buf) /\ fed \in Nat /\ peak \in Nat /\ ReadableBytes(buf) <= peak
    BY DEF BufferIInv, BufferTypeOK, PeakOK
  <1>2. ReadableBytes(buf) \in Nat /\ Len(Contents(buf)) = ReadableBytes(buf)
    BY <1>1, ContentsSeq
  <1>3. ASSUME NEW k \in 0 .. MaxFed - fed, AppendBytes(k) \/ ReadFd(k) \/ ReadFdExtra(k)
        PROVE  /\ Sound(buf') /\ fed' \in Nat /\ peak' = Greater(peak, ReadableBytes(buf'))
               /\ Fifo!Next
    <2>1. k \in Nat OBVIOUS
    <2>2. /\ Sound(buf') /\ Contents(buf') = Contents(buf) \o Input(k)
          /\ fed' = fed + k /\ peak' = Greater(peak, ReadableBytes(buf'))
      <3>1. CASE AppendBytes(k) BY <2>1, <3>1, AppendStep DEF AppendBytes, Becomes
      <3>2. CASE ReadFd(k) BY <2>1, <3>2, ReadFdStep DEF ReadFd, Becomes
      <3>3. CASE ReadFdExtra(k) BY <2>1, <3>3, ReadFdExtraStep DEF ReadFdExtra, Becomes
      <3> QED BY <1>3, <3>1, <3>2, <3>3
    <2>3. Fifo!Put(k) BY <2>2 DEF Fifo!Put, Fifo!Input, Input
    <2>4. Fifo!Next BY <2>3 DEF Fifo!Next
    <2> QED BY <1>1, <2>1, <2>2, <2>4
  <1>4. ASSUME NEW k \in 0 .. MaxFed - fed, ReadFdTorn(k)
        PROVE  /\ Sound(buf') /\ fed' \in Nat /\ peak' = Greater(peak, ReadableBytes(buf'))
               /\ Fifo!Next
    <2> DEFINE w == WritableBytes(Prepared(buf))
    <2>1. k \in Nat /\ w < k /\ MayFail BY <1>4 DEF ReadFdTorn
    <2>2. BufferOK(Prepared(buf)) BY <1>1, PreparedOK
    <2>3. w \in Nat /\ w \in 0..k /\ w <= WritableBytes(Prepared(buf))
      BY <2>1, <2>2 DEF WritableBytes, BufferOK
    <2>4. /\ buf' = Stored(Prepared(buf), Input(w)) /\ fed' = fed + k
          /\ peak' = Greater(peak, ReadableBytes(buf'))
      BY <1>4 DEF ReadFdTorn, Becomes, Filled
    <2>5. Sound(buf') /\ Contents(buf') = Contents(buf) \o Input(w)
      BY <2>3, <2>4, ReadFdStep
    <2>6. Input(w) = SubSeq(Input(k), 1, w) BY <1>1, <2>1, <2>3, InputSplit
    <2>7. Fifo!PutTorn(k, w)
      BY <2>1, <2>4, <2>5, <2>6 DEF Fifo!PutTorn, Fifo!Input, Input
    <2>8. Fifo!Next BY <2>3, <2>7 DEF Fifo!Next
    <2> QED BY <1>1, <2>1, <2>4, <2>5, <2>8
  <1>5. ASSUME NEW k \in 0 .. ReadableBytes(buf), Retrieve(k) \/ WriteFd(k)
        PROVE  /\ Sound(buf') /\ fed' \in Nat /\ peak' = Greater(peak, ReadableBytes(buf'))
               /\ Fifo!Next
    <2>1. /\ buf' = Retrieved(buf, k) /\ fed' = fed + 0
          /\ peak' = Greater(peak, ReadableBytes(buf'))
      BY <1>5 DEF Retrieve, WriteFd, Becomes
    <2>2. /\ BufferOK(buf') /\ buf'.size = buf.size
          /\ Contents(buf') = SubSeq(Contents(buf), k + 1, Len(Contents(buf)))
      BY <1>1, <2>1, RetrievedOK
    <2>3. buf'.size <= buf.size BY <2>2 DEF BufferOK
    <2>4. Fifo!Take(k) BY <1>1, <2>1, <2>2 DEF Fifo!Take
    <2>5. Fifo!Next BY <1>2, <2>4 DEF Fifo!Next
    <2> QED BY <1>1, <2>1, <2>2, <2>3, <2>5 DEF Sound
  <1>6. ASSUME NEW n \in Nat, n <= buf.size, NEW g \in [1..n -> Nat],
               Becomes([size |-> n, cell |-> g, readPos |-> 0, writePos |-> 0], 0)
        PROVE  /\ Sound(buf') /\ fed' \in Nat /\ peak' = Greater(peak, ReadableBytes(buf'))
               /\ Fifo!Next
    <2>1. /\ buf' = [size |-> n, cell |-> g, readPos |-> 0, writePos |-> 0] /\ fed' = fed + 0
          /\ peak' = Greater(peak, ReadableBytes(buf'))
      BY <1>6 DEF Becomes
    <2>2. buf'.size = n /\ buf'.cell = g /\ buf'.readPos = 0 /\ buf'.writePos = 0 BY <2>1
    <2>3. BufferOK(buf') BY <2>1, <2>2 DEF BufferOK
    <2>4. ReadableBytes(buf') = 0 BY <2>2 DEF ReadableBytes
    <2>5. Contents(buf') = <<>>
      <3>1. Contents(buf') \in Seq(Nat) /\ Len(Contents(buf')) = 0 BY <2>3, <2>4, ContentsSeq
      <3> QED BY <3>1, EmptySeq
    <2>6. Fifo!Clear BY <1>1, <2>1, <2>5 DEF Fifo!Clear
    <2>7. Fifo!Next BY <2>6 DEF Fifo!Next
    <2>8. buf'.size <= buf.size BY <1>6, <2>2
    <2>9. Sound(buf') BY <2>3, <2>8 DEF Sound
    <2>10. fed' \in Nat BY <1>1, <2>1
    <2> QED BY <2>1, <2>7, <2>9, <2>10
  <1>7. CASE RetrieveAll
    <2> DEFINE g == [i \in 1..buf.size |-> 0]
    <2>1. g \in [1..buf.size -> Nat] /\ buf.size \in Nat /\ buf.size <= buf.size
      BY <1>1 DEF BufferOK
    <2>2. Becomes([size |-> buf.size, cell |-> g, readPos |-> 0, writePos |-> 0], 0)
      BY <1>7 DEF RetrieveAll
    <2> HIDE DEF g
    <2> QED BY <1>6, <2>1, <2>2
  <1>8. CASE MovedFrom
    <2>1. 0 \in Nat /\ 0 <= buf.size BY <1>1 DEF BufferOK
    <2>2. <<>> \in [1..0 -> Nat] OBVIOUS
    <2> QED BY <1>6, <1>8, <2>1, <2>2 DEF MovedFrom
  <1> QED BY <1>3, <1>4, <1>5, <1>7, <1>8 DEF BufferNext

LEMMA InitIInv == BufferInit => BufferIInv
  <1> SUFFICES ASSUME BufferInit PROVE BufferIInv OBVIOUS
  <1>1. buf.size = InitSize /\ buf.readPos = 0 /\ buf.writePos = 0 /\ peak = 0 /\ fed = 0
    BY DEF BufferInit
  <1>2. BufferOK(buf) BY SizeAssumption DEF BufferInit, BufferOK
  <1> QED BY <1>1, <1>2, SizeAssumption
          DEF BufferIInv, BufferTypeOK, PeakOK, MemoryBounded, ReadableBytes, Greater

LEMMA NextIInv == BufferIInv /\ [BufferNext]_bufferVars => BufferIInv'
  <1> SUFFICES ASSUME BufferIInv, [BufferNext]_bufferVars PROVE BufferIInv' OBVIOUS
  <1>1. CASE BufferNext
    <2>1. Sound(buf') /\ fed' \in Nat /\ peak' = Greater(peak, ReadableBytes(buf'))
      BY <1>1, StepShape
    <2>2. BufferOK(buf') /\ ReadableBytes(buf') \in Nat /\ buf'.size \in Nat
      BY <2>1, ContentsSeq DEF Sound, BufferOK
    <2>3. peak \in Nat /\ buf.size \in Nat /\ buf.size <= Greater(InitSize, 3 * Greater(Grow, peak))
      BY DEF BufferIInv, BufferTypeOK, MemoryBounded, BufferOK
    <2>4. peak' \in Nat /\ peak <= peak' /\ ReadableBytes(buf') <= peak'
      BY <2>1, <2>2, <2>3 DEF Greater
    <2>5. buf'.size <= Greater(InitSize, 3 * Greater(Grow, peak'))
      <3>1. buf'.size <= buf.size \/ buf'.size <= 3 * Greater(Grow, peak') BY <2>1 DEF Sound
      <3> DEFINE m == Greater(Grow, peak)
                 n == Greater(Grow, peak')
      <3>2. m \in Nat /\ n \in Nat /\ m <= n BY <2>3, <2>4, SizeAssumption DEF Greater
      <3>3. buf.size <= Greater(InitSize, 3 * m) /\ (buf'.size <= buf.size \/ buf'.size <= 3 * n)
        BY <2>3, <3>1
      <3> HIDE DEF m, n
      <3>4. buf'.size <= Greater(InitSize, 3 * n)
        BY <2>2, <2>3, <3>2, <3>3, SizeAssumption DEF Greater
      <3> QED BY <3>4 DEF n
    <2> QED BY <2>1, <2>2, <2>4, <2>5 DEF BufferIInv, BufferTypeOK, PeakOK, MemoryBounded
  <1>2. CASE UNCHANGED bufferVars
    BY <1>2 DEF bufferVars, BufferIInv, BufferTypeOK, PeakOK, MemoryBounded
  <1> QED BY <1>1, <1>2

LEMMA BufferAlwaysIInv == BufferSpec => []BufferIInv
  BY InitIInv, NextIInv, PTL DEF BufferSpec

(* The read position never passes the write position, nor that the end of    *)
(* the vector, whatever is appended, read, consumed, cleared or moved.       *)
THEOREM BufferTypeCorrect == BufferSpec => []BufferTypeOK
  <1>1. BufferIInv => BufferTypeOK BY DEF BufferIInv
  <1> QED BY <1>1, BufferAlwaysIInv, PTL

(* The assertion of EnsureWritable holds in every reachable state.           *)
THEOREM EnsureWritableIsRight == BufferSpec => []EnsuredIsWritable
  <1>1. BufferIInv => EnsuredIsWritable
    <2> SUFFICES ASSUME BufferIInv, NEW len \in 0..MaxFed
                 PROVE  LET b == EnsureWritable(buf, len) IN
                        WritableBytes(b) >= len /\ Contents(b) = Contents(buf)
      BY DEF EnsuredIsWritable
    <2>1. BufferOK(buf) /\ len \in Nat BY DEF BufferIInv, BufferTypeOK
    <2> QED BY <2>1, EnsureWritableOK
  <1> QED BY <1>1, BufferAlwaysIInv, PTL

(* A connection's buffer never holds more memory than three times the larger *)
(* of the growth step and the most bytes it had unread at once.              *)
THEOREM MemoryIsBounded == BufferSpec => []MemoryBounded
  <1>1. BufferIInv => MemoryBounded BY DEF BufferIInv
  <1> QED BY <1>1, BufferAlwaysIInv, PTL

(* Buffer implements the queue of bytes: compaction, resizing and the        *)
(* overflow area of ReadFd never lose, double or reorder a byte.             *)
THEOREM BufferIsFifo == BufferSpec => FifoSpec
  <1>1. BufferInit => Fifo!Init
    <2> SUFFICES ASSUME BufferInit PROVE Contents(buf) = <<>> /\ fed = 0 BY DEF Fifo!Init
    <2>1. BufferOK(buf) /\ ReadableBytes(buf) = 0
      BY SizeAssumption DEF BufferInit, BufferOK, ReadableBytes
    <2>2. Contents(buf) \in Seq(Nat) /\ Len(Contents(buf)) = 0 BY <2>1, ContentsSeq
    <2>3. Contents(buf) = <<>> BY <2>2, EmptySeq
    <2> QED BY <2>3 DEF BufferInit
  <1>2. BufferIInv /\ [BufferNext]_bufferVars => [Fifo!Next]_<<Contents(buf), fed>>
    <2>1. BufferIInv /\ BufferNext => Fifo!Next BY StepShape
    <2>2. UNCHANGED bufferVars => UNCHANGED <<Contents(buf), fed>> BY DEF bufferVars
    <2> QED BY <2>1, <2>2
  <1> QED BY <1>1, <1>2, BufferAlwaysIInv, PTL DEF BufferSpec, FifoSpec, Fifo!Spec
=============================================================================
