-------------------------------- MODULE Buffer --------------------------------
(***************************************************************************)
(* One direction's Buffer (src/src/Buffer.cpp) as Session uses it: the    *)
(* read path and the delay flush append to it, and a single async_write   *)
(* sends the region dataToSend() returned when the write started, until   *)
(* the write completion consumes it (src/src/Session.cpp).                *)
(*                                                                         *)
(* The byte array is a function of positions 0..Cap-1; each byte holds    *)
(* its index in the stream of accepted bytes (0 for the vector's initial  *)
(* zeroes).  The kernel takes the bytes of an in-flight write one at a    *)
(* time, so every point at which the socket's send buffer fills is        *)
(* covered.  Closing sides and errors are Session.tla's concern.          *)
(***************************************************************************)
EXTENDS Naturals, Sequences, FiniteSetsExt

CONSTANTS
  Cap,        \* DEFAULT_CAPACITY in units
  High,       \* HIGH_WATERMARK
  Low,        \* LOW_WATERMARK
  Chunks,     \* bytesRead of a read / payload sizes of delayed packets
  MaxAppends  \* bound on the number of appends

ASSUME Low < High /\ High <= Cap /\ Chunks \subseteq 1..Cap /\ MaxAppends \in Nat

VARIABLES
  data, readPos, writePos, size,  \* Buffer's members
  accepted,   \* bytes accepted so far: the stream index of the last byte
  appends,    \* appends done (bounded by MaxAppends)
  paused,     \* the direction's readPaused flag
  wr,         \* the in-flight async_write: [on, ptr, len, sent]
  wire        \* the bytes the kernel has sent, in order

vars == <<data, readPos, writePos, size, accepted, appends, paused, wr, wire>>

Pos == 0..(Cap - 1)

TypeOK ==
  /\ data \in [Pos -> Nat]
  /\ readPos \in 0..Cap /\ writePos \in 0..Cap /\ size \in 0..Cap
  /\ accepted \in Nat /\ appends \in 0..MaxAppends /\ paused \in BOOLEAN
  /\ wr \in [on : BOOLEAN, ptr : 0..Cap, len : 0..Cap, sent : 0..Cap]
  /\ wire \in Seq(Nat)

\* The readable bytes, front first.
Content == [i \in 1..size |-> data[readPos + i - 1]]

-----------------------------------------------------------------------------
(* Buffer.cpp, as operators on a record of the members.                    *)

Members == [data |-> data, readPos |-> readPos, writePos |-> writePos,
            size |-> size, accepted |-> accepted]

\* Mutant: compaction resets the positions without moving the bytes.
CompactNoMove(b) ==
  IF b.readPos = 0 THEN b
  ELSE [b EXCEPT !.writePos = b.size, !.readPos = 0]

Compact(b) ==
  IF b.readPos = 0 THEN b
  ELSE [b EXCEPT !.data = [i \in Pos |-> IF i < b.size THEN b.data[b.readPos + i]
                                                        ELSE b.data[i]],
                 !.writePos = b.size, !.readPos = 0]

\* Mutant: append without clamping the copy to the end of the array.
AppendBytesNoClamp(b, len) ==
  LET c == IF b.writePos + len > Cap /\ b.readPos > 0 THEN Compact(b) ELSE b
  IN  [c EXCEPT !.data = [i \in Pos |-> IF c.writePos <= i /\ i < c.writePos + len
                                        THEN c.accepted + i - c.writePos + 1
                                        ELSE c.data[i]],
                !.writePos = @ + len, !.size = @ + len, !.accepted = @ + len]

\* append(data, len) (Append is the sequence operator): compact if the
\* chunk does not fit after writePos and there is consumed space at the
\* front, then copy what fits.
AppendBytes(b, len) ==
  LET c == IF b.writePos + len > Cap /\ b.readPos > 0 THEN Compact(b) ELSE b
      n == Min({len, Cap - c.writePos})
  IN  [c EXCEPT !.data = [i \in Pos |-> IF c.writePos <= i /\ i < c.writePos + n
                                        THEN c.accepted + i - c.writePos + 1
                                        ELSE c.data[i]],
                !.writePos = @ + n, !.size = @ + n, !.accepted = @ + n]

\* consume(len): advance readPos; an empty Buffer resets both positions.
Consume(b, len) ==
  LET n == Min({len, b.size})
  IN  IF b.size - n = 0 THEN [b EXCEPT !.readPos = 0, !.writePos = 0, !.size = 0]
      ELSE [b EXCEPT !.readPos = @ + n, !.size = @ - n]

SetMembers(b) ==
  /\ data' = b.data /\ readPos' = b.readPos /\ writePos' = b.writePos
  /\ size' = b.size /\ accepted' = b.accepted

-----------------------------------------------------------------------------
(* Session.cpp's use of one direction's Buffer.                            *)

\* startXxxWrite: if no write is in flight and data is readable, send the
\* region dataToSend() = [readPos, readPos + size).
StartWrite(b, w) ==
  IF w.on \/ b.size = 0 THEN w
  ELSE [on |-> TRUE, ptr |-> b.readPos, len |-> b.size, sent |-> 0]

Init ==
  /\ data = [i \in Pos |-> 0]
  /\ readPos = 0 /\ writePos = 0 /\ size = 0
  /\ accepted = 0 /\ appends = 0 /\ paused = FALSE
  /\ wr = [on |-> FALSE, ptr |-> 0, len |-> 0, sent |-> 0]
  /\ wire = <<>>

\* onXxxRead with a forwarded chunk: processData appends and starts the
\* write, then the read pauses at HIGH_WATERMARK.
ReadAppend(k) ==
  /\ ~paused /\ appends < MaxAppends
  /\ LET b == AppendBytes(Members, k)
     IN  /\ SetMembers(b)
         /\ wr' = StartWrite(b, wr)
         /\ paused' = (b.size >= High)
  /\ appends' = appends + 1
  /\ UNCHANGED wire

\* onDelayExpired / flushDelayQueues: a released packet is appended, then
\* a write is started if none is in flight; no watermark check.
FlushAppend(k) ==
  /\ appends < MaxAppends
  /\ LET b == AppendBytes(Members, k)
     IN  /\ SetMembers(b)
         /\ wr' = StartWrite(b, wr)
  /\ appends' = appends + 1
  /\ UNCHANGED <<paused, wire>>

\* async_write: the kernel copies the next byte of the region it was given.
SendByte ==
  /\ wr.on /\ wr.sent < wr.len
  /\ wire' = Append(wire, data[wr.ptr + wr.sent])
  /\ wr' = [wr EXCEPT !.sent = @ + 1]
  /\ UNCHANGED <<data, readPos, writePos, size, accepted, appends, paused>>

\* onXxxWrite(ok, n): consume n, resume the read at LOW_WATERMARK, and send
\* what is left.
WriteDone ==
  /\ wr.on /\ wr.sent = wr.len
  /\ LET b == Consume(Members, wr.len)
     IN  /\ SetMembers(b)
         /\ paused' = (paused /\ b.size > Low)
         /\ wr' = StartWrite(b, [wr EXCEPT !.on = FALSE])
  /\ UNCHANGED <<appends, wire>>

Next ==
  \/ \E k \in Chunks : ReadAppend(k) \/ FlushAppend(k)
  \/ SendByte \/ WriteDone

Spec == Init /\ [][Next]_vars

-----------------------------------------------------------------------------
(* Properties.                                                             *)

Fifo == INSTANCE BoundedFifo WITH q <- Content

\* Buffer behaves as a bounded FIFO: through every sequence of appends,
\* compactions and consumes, readPos/writePos/size keep exactly the
\* accepted bytes not yet consumed, in order, and append accepts
\* min(len, capacity - size).
BufferIsFifo == Fifo!Spec

\* "Two concurrent writes never overlap" and the stream is ordered: the
\* kernel sends every accepted byte once and in stream order, whatever
\* the Buffer does while a write is in flight.
WireInOrder == \A i \in 1..Len(wire) : wire[i] = i
==============================================================================
