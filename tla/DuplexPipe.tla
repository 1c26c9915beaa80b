----------------------------- MODULE DuplexPipe -----------------------------
(***************************************************************************)
(* One pipe of wasm/src/duplex.rs between a writer task and a reader task. *)
(* Every operation holds the mutex for its whole duration, so it is one    *)
(* action.  A task whose poll returned Pending runs again only when its    *)
(* waker is taken, or when the other future of its select wakes it (the    *)
(* closer, a timer), which may happen at any time.                         *)
(*                                                                         *)
(* The k-th byte the writer hands over is the number k.                    *)
(***************************************************************************)
EXTENDS Pipe

CONSTANTS MaxChunk,   \* largest buffer passed to one poll
          MaxBytes    \* bound on the bytes the writer hands over

ASSUME ChunkAssumption == MaxChunk \in Nat \ {0}
ASSUME BytesAssumption == MaxBytes \in Nat

VARIABLES pipe,       \* PipeInner
          sent,       \* bytes poll_write has accepted
          received,   \* bytes poll_read has returned, in order
          reader,     \* what the reader task is doing
          writer      \* what the writer task is doing

vars == <<pipe, sent, received, reader, writer>>

(* "run": about to poll; "parked": its poll returned Pending; the others   *)
(* are final.                                                              *)
ReaderStates == {"run", "parked", "eof", "dropped"}
WriterStates == {"run", "parked", "closed", "broken", "dropped"}

Init ==
  /\ pipe = NewPipe
  /\ sent = 0
  /\ received = <<>>
  /\ reader = "run"
  /\ writer = "run"

Woken(state) == IF state = "parked" THEN "run" ELSE state

(* The tasks after the pipe became p: a task is rescheduled when the waker *)
(* it left there has been taken.                                           *)
ReaderAfter(p) == IF pipe.readerWaker /\ ~p.readerWaker THEN Woken(reader) ELSE reader
WriterAfter(p) == IF pipe.writerWaker /\ ~p.writerWaker THEN Woken(writer) ELSE writer

(* The bytes the writer offers next. *)
Offer(k) == [i \in 1 .. k |-> sent + i]

(* PipeWriter::poll_write with a buffer of k bytes *)
PollWrite(k) ==
  /\ writer = "run"
  /\ sent + k <= MaxBytes
  /\ \/ /\ Broken(pipe)
        /\ writer' = "broken"
        /\ UNCHANGED <<pipe, sent, reader>>
     \/ /\ WritePends(pipe)
        /\ pipe' = AfterWritePends(pipe)
        /\ writer' = "parked"
        /\ UNCHANGED <<sent, reader>>
     \/ /\ ~Broken(pipe)
        /\ ~WritePends(pipe)
        /\ pipe' = AfterWrite(pipe, Offer(k))
        /\ sent' = sent + WriteLen(pipe, Offer(k))
        /\ reader' = ReaderAfter(pipe')
        /\ UNCHANGED writer
  /\ UNCHANGED received

(* PipeReader::poll_read with a buffer of k bytes *)
PollRead(k) ==
  /\ reader = "run"
  /\ \/ /\ AtEof(pipe)
        /\ reader' = "eof"
        /\ UNCHANGED <<pipe, received, writer>>
     \/ /\ ReadPends(pipe)
        /\ pipe' = AfterReadPends(pipe)
        /\ reader' = "parked"
        /\ UNCHANGED <<received, writer>>
     \/ /\ pipe.buf # <<>>
        /\ pipe' = AfterRead(pipe, k)
        /\ received' = received \o ReadBytes(pipe, k)
        /\ writer' = WriterAfter(pipe')
        /\ UNCHANGED reader
  /\ UNCHANGED sent

(* PipeWriter::poll_close and Drop for PipeWriter *)
CloseWriter(state) ==
  /\ writer \in {"run", "parked", "closed", "broken"}
  /\ state = "closed" => writer = "run"
  /\ pipe' = WriterGone(pipe)
  /\ writer' = state
  /\ reader' = ReaderAfter(pipe')
  /\ UNCHANGED <<sent, received>>

(* Drop for PipeReader *)
DropReader ==
  /\ reader # "dropped"
  /\ pipe' = ReaderGone(pipe)
  /\ reader' = "dropped"
  /\ writer' = WriterAfter(pipe')
  /\ UNCHANGED <<sent, received>>

(* The other future of a parked task's select wakes it; the waker stays    *)
(* behind in the pipe.                                                     *)
SpuriousWake ==
  /\ \/ reader = "parked" /\ reader' = "run" /\ UNCHANGED writer
     \/ writer = "parked" /\ writer' = "run" /\ UNCHANGED reader
  /\ UNCHANGED <<pipe, sent, received>>

Next ==
  \/ \E k \in 1 .. MaxChunk : PollWrite(k) \/ PollRead(k)
  \/ \E state \in {"closed", "dropped"} : CloseWriter(state)
  \/ DropReader
  \/ SpuriousWake

(* A runnable task polls; nobody has to close or drop anything. *)
Fairness ==
  /\ WF_vars(\E k \in 1 .. MaxChunk : PollRead(k))
  /\ WF_vars(\E k \in 1 .. MaxChunk : PollWrite(k))

Spec == Init /\ [][Next]_vars /\ Fairness

-----------------------------------------------------------------------------
(* Every variable has its type; the buffer never exceeds the capacity. *)
TypeOK ==
  /\ pipe \in Pipes(1 .. MaxBytes)
  /\ sent \in 0 .. MaxBytes
  /\ received \in Seq(1 .. MaxBytes)
  /\ reader \in ReaderStates
  /\ writer \in WriterStates

(* Nothing is lost, duplicated or reordered: what was received, then what  *)
(* is buffered, is what was sent, until the reader discards the buffer.    *)
Fifo ==
  /\ reader # "dropped" =>
       received \o pipe.buf = [i \in 1 .. sent |-> i]
  /\ reader = "eof" => Len(received) = sent

(* No lost wakeup: a task stays parked only while its poll would still     *)
(* return Pending, whatever stale wakers earlier polls left behind.        *)
NoLostWakeup ==
  /\ reader = "parked" => pipe.readerWaker /\ ReadPends(pipe)
  /\ writer = "parked" => pipe.writerWaker /\ WritePends(pipe)

(* Every accepted byte reaches a reader that stays, and a reader learns of *)
(* the end of the stream.                                                  *)
Delivered ==
  \A k \in 1 .. MaxBytes : sent >= k ~> (Len(received) >= k \/ reader = "dropped")
EofSeen == pipe.writerClosed ~> reader \in {"eof", "dropped"}
Drains == Delivered /\ EofSeen

=============================================================================
