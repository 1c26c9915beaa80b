-------------------------------- MODULE Pipe --------------------------------
(***************************************************************************)
(* The state of one in-memory pipe (PipeInner in wasm/src/duplex.rs) and   *)
(* what each of its operations does to it.  A waker is TRUE while it is    *)
(* stored: an operation that turns it FALSE has woken the task.            *)
(***************************************************************************)
EXTENDS Naturals, Sequences

CONSTANT Capacity   \* bytes a pipe buffers

ASSUME CapacityAssumption == Capacity \in Nat \ {0}

Pipes(Byte) ==
  [buf : {s \in Seq(Byte) : Len(s) <= Capacity},
   readerWaker : BOOLEAN, writerWaker : BOOLEAN,
   readerClosed : BOOLEAN, writerClosed : BOOLEAN]

(* pipe() *)
NewPipe ==
  [buf |-> <<>>, readerWaker |-> FALSE, writerWaker |-> FALSE,
   readerClosed |-> FALSE, writerClosed |-> FALSE]

Least(a, b) == IF a <= b THEN a ELSE b

Room(p) == Capacity - Len(p.buf)

(* poll_read with a buffer of k bytes *)
AtEof(p) == p.buf = <<>> /\ p.writerClosed
ReadPends(p) == p.buf = <<>> /\ ~p.writerClosed
ReadLen(p, k) == Least(k, Len(p.buf))
ReadBytes(p, k) == SubSeq(p.buf, 1, ReadLen(p, k))

(* Plausible bugs for AfterRead: one byte too few is drained; a writer     *)
(* waiting for room is not woken.                                          *)
AfterReadKeepsOne(p, k) ==
  [p EXCEPT !.buf = SubSeq(p.buf, ReadLen(p, k), Len(p.buf)),
            !.writerWaker = FALSE]
AfterReadSilent(p, k) ==
  [p EXCEPT !.buf = SubSeq(p.buf, ReadLen(p, k) + 1, Len(p.buf))]

AfterRead(p, k) ==
  [p EXCEPT !.buf = SubSeq(p.buf, ReadLen(p, k) + 1, Len(p.buf)),
            !.writerWaker = FALSE]
AfterReadPends(p) == [p EXCEPT !.readerWaker = TRUE]

(* poll_write of bytes s *)
Broken(p) == p.readerClosed \/ p.writerClosed
WritePends(p) == ~Broken(p) /\ Room(p) = 0
WriteLen(p, s) == Least(Room(p), Len(s))

(* A plausible bug for AfterWrite: a waiting reader is not woken. *)
AfterWriteSilent(p, s) ==
  [p EXCEPT !.buf = p.buf \o SubSeq(s, 1, WriteLen(p, s))]

AfterWrite(p, s) ==
  [p EXCEPT !.buf = p.buf \o SubSeq(s, 1, WriteLen(p, s)),
            !.readerWaker = FALSE]
AfterWritePends(p) == [p EXCEPT !.writerWaker = TRUE]

(* poll_close and Drop for PipeWriter *)
WriterGone(p) == [p EXCEPT !.writerClosed = TRUE, !.readerWaker = FALSE]

(* A plausible bug for ReaderGone: a writer waiting for room is not woken. *)
ReaderGoneSilent(p) == [p EXCEPT !.readerClosed = TRUE, !.buf = <<>>]

(* Drop for PipeReader: what was buffered is discarded. *)
ReaderGone(p) ==
  [p EXCEPT !.readerClosed = TRUE, !.buf = <<>>, !.writerWaker = FALSE]

=============================================================================
