------------------------------- MODULE Buffer -------------------------------
(***************************************************************************)
(* zener::Buffer of buffer/buffer.h and buffer.cpp: the growing byte       *)
(* buffer of a connection.  One vector, a read and a write position;       *)
(* consumed room in front is reused by moving the unread bytes down, and   *)
(* ReadFd reads into the vector and an overflow area on the stack at once. *)
(*                                                                         *)
(* Bytes are numbered by arrival (see ByteFifo).  The state is sequential: *)
(* a Buffer belongs to a Conn, and its two positions are only advanced by  *)
(* the thread that works for that Conn.                                    *)
(***************************************************************************)
EXTENDS Naturals, Sequences

CONSTANTS
    InitSize,   \* INIT_BUFFER_SIZE
    LowWater,   \* the 1024 of ReadFd: less writable room than that is enlarged
    Grow,       \* the 4096 of ReadFd: how much room it then asks for, at least
    ExtraSize,  \* EXTRA_BUF_SIZE
    MaxFed,     \* bound: bytes handed in altogether
    MayFail     \* whether vector::resize may throw

ASSUME SizeAssumption ==
    /\ InitSize \in Nat /\ LowWater \in Nat /\ Grow \in Nat /\ ExtraSize \in Nat
    /\ MaxFed \in Nat
ASSUME MayFailAssumption == MayFail \in BOOLEAN

VARIABLES
    buf,        \* the Buffer: size and cells of _buffer, _readPos, _writePos
    fed,        \* bytes handed in so far; the next one is number fed + 1
    peak        \* history: the most bytes that were unread at once

bufferVars == <<buf, fed, peak>>

Greater(m, n) == IF m < n THEN n ELSE m

-----------------------------------------------------------------------------
(* The private parts *)

WritableBytes(b) == b.size - b.writePos
ReadableBytes(b) == b.writePos - b.readPos
PrependableBytes(b) == b.readPos

(* The unread bytes, from Peek(). *)
Contents(b) == [i \in 1..ReadableBytes(b) |-> b.cell[b.readPos + i]]

(* _buffer.resize: new cells are zero. *)
Resized(b, n) ==
    [size     |-> n,
     cell     |-> [i \in 1..n |-> IF i <= b.size THEN b.cell[i] ELSE 0],
     readPos  |-> b.readPos,
     writePos |-> b.writePos]

(* The unread bytes are copied to the front. *)
Compacted(b) ==
    [size     |-> b.size,
     cell     |-> [i \in 1..b.size |-> IF i <= ReadableBytes(b) THEN b.cell[b.readPos + i]
                                       ELSE b.cell[i]],
     readPos  |-> 0,
     writePos |-> ReadableBytes(b)]

NeedsResize(b, len) == WritableBytes(b) + PrependableBytes(b) < len

\* Mutant of makeSpace: the consumed room in front is never reused.
makeSpaceAlwaysGrows(b, len) == Resized(b, b.writePos + len + 1)

\* Mutant of makeSpace: the room in front is counted, but the bytes stay where they are.
makeSpaceNoCompact(b, len) ==
    IF NeedsResize(b, len) THEN Resized(b, b.writePos + len + 1) ELSE b

makeSpace(b, len) ==
    IF NeedsResize(b, len) THEN Resized(b, b.writePos + len + 1) ELSE Compacted(b)

EnsureWritable(b, len) == IF WritableBytes(b) < len THEN makeSpace(b, len) ELSE b

(* Whether EnsureWritable(len) allocates, and so may throw. *)
Allocates(b, len) == WritableBytes(b) < len /\ NeedsResize(b, len)

(* Bytes d are stored from BeginWrite() on, and HasWritten. *)
Stored(b, d) ==
    [size     |-> b.size,
     cell     |-> [i \in 1..b.size |-> IF i \in b.writePos + 1 .. b.writePos + Len(d)
                                       THEN d[i - b.writePos] ELSE b.cell[i]],
     readPos  |-> b.readPos,
     writePos |-> b.writePos + Len(d)]

Appended(b, d) == Stored(EnsureWritable(b, Len(d)), d)

(* The room ReadFd makes before it reads. *)
Prepared(b) ==
    IF WritableBytes(b) < LowWater THEN EnsureWritable(b, Greater(Grow, ReadableBytes(b))) ELSE b

(* How much one readv may return, given the room in the vector. *)
ReadvMax(b) == IF WritableBytes(b) < ExtraSize THEN WritableBytes(b) + ExtraSize ELSE WritableBytes(b)

-----------------------------------------------------------------------------

(* _readPos <= _writePos <= _buffer.size(). *)
BufferOK(b) ==
    /\ b = [size |-> b.size, cell |-> b.cell, readPos |-> b.readPos, writePos |-> b.writePos]
    /\ b.size \in Nat
    /\ b.cell \in [1..b.size -> Nat]
    /\ b.writePos \in 0..b.size
    /\ b.readPos \in 0..b.writePos

BufferTypeOK == BufferOK(buf) /\ fed \in Nat /\ peak \in Nat

BufferInit ==
    /\ buf = [size |-> InitSize, cell |-> [i \in 1..InitSize |-> 0], readPos |-> 0, writePos |-> 0]
    /\ fed = 0 /\ peak = 0

Input(k) == [i \in 1..k |-> fed + i]

(* The step makes the buffer b and takes k bytes of the input. *)
Becomes(b, k) ==
    /\ buf' = b
    /\ fed' = fed + k
    /\ peak' = Greater(peak, ReadableBytes(b))

(* Append, in its four overloads. *)
AppendBytes(k) == Becomes(Appended(buf, Input(k)), k)

(* Retrieve and RetrieveUntil, as their assertions allow. *)
Retrieved(b, k) ==
    [size |-> b.size, cell |-> b.cell, readPos |-> b.readPos + k, writePos |-> b.writePos]

Retrieve(k) == k <= ReadableBytes(buf) /\ Becomes(Retrieved(buf, k), 0)

(* WriteFd consumes what write() accepted; a failed write changes nothing. *)
WriteFd(k) == k <= ReadableBytes(buf) /\ Becomes(Retrieved(buf, k), 0)

\* Mutant of RetrieveAll: only the write position is reset.
RetrieveAllKeepsRead ==
    Becomes([buf EXCEPT !.cell = [i \in 1..buf.size |-> 0], !.writePos = 0], 0)

(* RetrieveAll and RetrieveAllToString: zeroed, both positions at the start. *)
RetrieveAll ==
    Becomes([size |-> buf.size, cell |-> [i \in 1..buf.size |-> 0], readPos |-> 0, writePos |-> 0], 0)

(* Another Buffer is constructed from, or assigned, this one. *)
MovedFrom == Becomes([size |-> 0, cell |-> <<>>, readPos |-> 0, writePos |-> 0], 0)

(* ReadFd returns -1 without a trace when making room throws or readv fails. *)
(* Otherwise it gets k bytes: they fit in the vector, ... *)
ReadFd(k) ==
    LET b == Prepared(buf) IN
    /\ k <= WritableBytes(b)
    /\ Becomes(Stored(b, Input(k)), k)

(* ... or fill it, and what is on the stack is appended, ... *)
Filled(b) == Stored(b, Input(WritableBytes(b)))
Rest(b, k) == SubSeq(Input(k), WritableBytes(b) + 1, k)

\* Mutant of ReadFdExtra: the write position is not moved to the end before the append.
ReadFdExtraNoFill(k) ==
    LET b == Prepared(buf) IN
    /\ WritableBytes(b) < k /\ k <= ReadvMax(b)
    /\ Becomes(Appended(b, Rest(b, k)), k)

ReadFdExtra(k) ==
    LET b == Prepared(buf) IN
    /\ WritableBytes(b) < k /\ k <= ReadvMax(b)
    /\ Becomes(Appended(Filled(b), Rest(b, k)), k)

(* ... unless that throws, which is logged: the rest is dropped.             *)
ReadFdTorn(k) ==
    LET b == Prepared(buf) IN
    /\ MayFail
    /\ WritableBytes(b) < k /\ k <= ReadvMax(b)
    /\ Allocates(Filled(b), k - WritableBytes(b))
    /\ Becomes(Filled(b), k)

BufferNext ==
    \/ \E k \in 0 .. MaxFed - fed : AppendBytes(k) \/ ReadFd(k) \/ ReadFdExtra(k) \/ ReadFdTorn(k)
    \/ \E k \in 0 .. ReadableBytes(buf) : Retrieve(k) \/ WriteFd(k)
    \/ RetrieveAll \/ MovedFrom

BufferSpec == BufferInit /\ [][BufferNext]_bufferVars

-----------------------------------------------------------------------------

(* buffer.cpp:97: whatever state the buffer is in, EnsureWritable leaves room *)
(* for what it was asked for and changes none of the unread bytes.           *)
EnsuredIsWritable ==
    \A len \in 0..MaxFed :
        LET b == EnsureWritable(buf, len) IN
        WritableBytes(b) >= len /\ Contents(b) = Contents(buf)

(* Memory is bounded by the most that was unread at once, however many bytes *)
(* go through and however they are consumed: the vector never exceeds its    *)
(* first size or three times the larger of Grow and that peak.               *)
MemoryBounded == buf.size <= Greater(InitSize, 3 * Greater(Grow, peak))

(* The buffer is a queue of bytes: none lost, doubled or out of order, but   *)
(* for the tail of a read whose overflow could not be stored.                *)
Fifo == INSTANCE ByteFifo WITH fifo <- Contents(buf)
FifoSpec == Fifo!Spec
=============================================================================
