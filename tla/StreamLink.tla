----------------------------- MODULE StreamLink -----------------------------
(***************************************************************************)
(* One direction of a stream link (wasm/src/node/impairment.rs and         *)
(* wasm/src/node/transport.rs): the transmit task writes into pipe a, the  *)
(* impairment forwarder moves chunks from pipe a to pipe b after a delay   *)
(* and a possible loss, the receive task reads pipe b.  The three share    *)
(* the closer of the link.                                                 *)
(*                                                                         *)
(* tx_worker and RxWorker are external: the first writes what the queue    *)
(* gives it, the second reads until its stream or the closer ends, or      *)
(* fails.  The k-th byte transmitted is the number k.                      *)
(***************************************************************************)
EXTENDS Pipe

CONSTANTS MaxChunk,   \* largest buffer of a read or of a write
          MaxBytes    \* bound on the bytes transmitted

ASSUME ChunkAssumption == MaxChunk \in Nat \ {0}
ASSUME BytesAssumption == MaxBytes \in Nat

VARIABLES a, b,      \* the pipe before and the pipe after the forwarder
          tx,        \* the transmit task
          fwd,       \* the forwarder
          chunk,     \* the bytes the forwarder holds
          rx,        \* the receive task
          closed,    \* the link's closer is closed
          latency,   \* the impairment has a latency
          loss,      \* the impairment drops chunks
          sent,      \* bytes transmitted
          lost,      \* bytes dropped by the impairment
          received   \* bytes received, in order

pipes == <<a, b>>
params == <<latency, loss>>
vars == <<pipes, tx, fwd, chunk, rx, closed, params, sent, lost, received>>

Init ==
  /\ a = NewPipe /\ b = NewPipe
  /\ tx = "run" /\ fwd = "read" /\ rx = "run"
  /\ chunk = <<>>
  /\ closed = FALSE
  /\ latency = FALSE /\ loss = FALSE
  /\ sent = 0 /\ lost = {} /\ received = <<>>

Offer(k) == [i \in 1 .. k |-> sent + i]

(* A task parked in a select is polled again when the waker it left has    *)
(* been taken or the closer is closed; one parked in pipe_write_all only   *)
(* when its waker has been taken.                                          *)
Polled(state, parked, waker) == state = parked /\ (~waker \/ closed)

-----------------------------------------------------------------------------
TxPolls == tx = "run" \/ Polled(tx, "parked", a.writerWaker)

(* tx_worker writes up to k more bytes. *)
TxWrite(k) ==
  /\ TxPolls
  /\ sent + k <= MaxBytes
  /\ ~Broken(a)
  /\ IF WritePends(a)
     THEN /\ ~closed
          /\ a' = AfterWritePends(a)
          /\ tx' = "parked"
          /\ UNCHANGED sent
     ELSE /\ a' = AfterWrite(a, Offer(k))
          /\ sent' = sent + WriteLen(a, Offer(k))
          /\ tx' = "run"
  /\ UNCHANGED <<b, fwd, chunk, rx, closed, params, lost, received>>

(* spawn_stream_tx: the select ends with a broken pipe or with the closer, *)
(* which the task then closes; the writer is dropped.                      *)
TxEnds ==
  /\ TxPolls
  /\ closed \/ Broken(a)
  /\ closed' = TRUE
  /\ tx' = "done"
  /\ a' = WriterGone(a)
  /\ UNCHANGED <<b, fwd, chunk, rx, params, sent, lost, received>>

-----------------------------------------------------------------------------
(* The forwarder returns and drops its ends of both pipes. *)
FwdReturns ==
  /\ fwd' = "done"
  /\ chunk' = <<>>
  /\ a' = ReaderGone(a)
  /\ b' = WriterGone(b)
  /\ UNCHANGED <<tx, rx, closed, params, sent, lost, received>>

FwdReads == fwd = "read" \/ Polled(fwd, "parked_read", a.readerWaker)

(* select(read, closer): the read wins when both are ready. *)
FwdRead(k) ==
  /\ FwdReads
  /\ a.buf # <<>>
  /\ a' = AfterRead(a, k)
  /\ chunk' = ReadBytes(a, k)
  /\ fwd' = IF latency THEN "delay" ELSE "decide"
  /\ UNCHANGED <<b, tx, rx, closed, params, sent, lost, received>>

FwdReadPends ==
  /\ FwdReads
  /\ ReadPends(a)
  /\ ~closed
  /\ a' = AfterReadPends(a)
  /\ fwd' = "parked_read"
  /\ UNCHANGED <<b, tx, chunk, rx, closed, params, sent, lost, received>>

FwdReadEnds ==
  /\ FwdReads
  /\ \/ AtEof(a)
     \/ ReadPends(a) /\ closed
  /\ FwdReturns

(* delay_and_drop: a latency waits for its timer and gives up when the     *)
(* link closes first; then the loss decides whether the chunk goes on.     *)
FwdGivesUp ==
  /\ fwd = "delay"
  /\ closed
  /\ FwdReturns

FwdDelayed ==
  /\ fwd = "delay"
  /\ fwd' = "decide"
  /\ UNCHANGED <<pipes, tx, chunk, rx, closed, params, sent, lost, received>>

FwdDrops ==
  /\ fwd = "decide"
  /\ loss
  /\ lost' = lost \cup {chunk[i] : i \in 1 .. Len(chunk)}
  /\ chunk' = <<>>
  /\ fwd' = "read"
  /\ UNCHANGED <<pipes, tx, rx, closed, params, sent, received>>

FwdPasses ==
  /\ fwd = "decide"
  /\ fwd' = "write"
  /\ UNCHANGED <<pipes, tx, chunk, rx, closed, params, sent, lost, received>>

(* pipe_write_all, which does not look at the closer. *)
FwdWrites ==
  fwd = "write" \/ (fwd = "parked_write" /\ ~b.writerWaker)

(* A plausible bug for FwdWrite: poll_write is not repeated for the rest. *)
FwdWriteOnce ==
  /\ FwdWrites
  /\ ~Broken(b)
  /\ ~WritePends(b)
  /\ b' = AfterWrite(b, chunk)
  /\ chunk' = <<>>
  /\ fwd' = "read"
  /\ UNCHANGED <<a, tx, rx, closed, params, sent, lost, received>>

FwdWrite ==
  /\ FwdWrites
  /\ ~Broken(b)
  /\ ~WritePends(b)
  /\ LET n == WriteLen(b, chunk) IN
       /\ b' = AfterWrite(b, chunk)
       /\ chunk' = SubSeq(chunk, n + 1, Len(chunk))
       /\ fwd' = IF n = Len(chunk) THEN "read" ELSE "write"
  /\ UNCHANGED <<a, tx, rx, closed, params, sent, lost, received>>

FwdWritePends ==
  /\ FwdWrites
  /\ WritePends(b)
  /\ b' = AfterWritePends(b)
  /\ fwd' = "parked_write"
  /\ UNCHANGED <<a, tx, chunk, rx, closed, params, sent, lost, received>>

FwdWriteEnds ==
  /\ FwdWrites
  /\ Broken(b)
  /\ FwdReturns

-----------------------------------------------------------------------------
RxPolls == rx = "run" \/ Polled(rx, "parked", b.readerWaker)

RxRead(k) ==
  /\ RxPolls
  /\ b.buf # <<>>
  /\ b' = AfterRead(b, k)
  /\ received' = received \o ReadBytes(b, k)
  /\ rx' = "run"
  /\ UNCHANGED <<a, tx, fwd, chunk, closed, params, sent, lost>>

RxReadPends ==
  /\ RxPolls
  /\ ReadPends(b)
  /\ ~closed
  /\ b' = AfterReadPends(b)
  /\ rx' = "parked"
  /\ UNCHANGED <<a, tx, fwd, chunk, closed, params, sent, lost, received>>

(* spawn_stream_rx: the worker returns for the end of the stream, for the  *)
(* closer or for an error; its reader is dropped, then the task closes the *)
(* closer.                                                                 *)
RxEnds ==
  /\ RxPolls
  /\ rx' = "done"
  /\ closed' = TRUE
  /\ b' = ReaderGone(b)
  /\ UNCHANGED <<a, tx, fwd, chunk, params, sent, lost, received>>

-----------------------------------------------------------------------------
(* WasmLink::disconnect, or a worker of the other direction. *)
Close ==
  /\ ~closed
  /\ closed' = TRUE
  /\ UNCHANGED <<pipes, tx, fwd, chunk, rx, params, sent, lost, received>>

(* WasmLink::set_impairment at any time *)
SetImpairment(lat, los) ==
  /\ params # <<lat, los>>
  /\ latency' = lat
  /\ loss' = los
  /\ UNCHANGED <<pipes, tx, fwd, chunk, rx, closed, sent, lost, received>>

TxTurn == (\E k \in 1 .. MaxChunk : TxWrite(k)) \/ TxEnds
FwdTurn ==
  \/ \E k \in 1 .. MaxChunk : FwdRead(k)
  \/ FwdReadPends \/ FwdReadEnds
  \/ FwdGivesUp \/ FwdDelayed \/ FwdDrops \/ FwdPasses
  \/ FwdWrite \/ FwdWritePends \/ FwdWriteEnds
RxReadTurn == (\E k \in 1 .. MaxChunk : RxRead(k)) \/ RxReadPends

Next ==
  \/ TxTurn \/ FwdTurn \/ RxReadTurn \/ RxEnds
  \/ Close
  \/ \E lat, los \in BOOLEAN : SetImpairment(lat, los)

(* Every task that can be polled is polled: the timers of a delay fire,    *)
(* the receive worker reads on and returns at the end of its stream or for *)
(* a closed closer.  JavaScript and the sender need do nothing.            *)
Fairness ==
  /\ WF_vars(TxEnds)
  /\ WF_vars(FwdTurn)
  /\ WF_vars(RxReadTurn)
  /\ WF_vars((closed \/ AtEof(b)) /\ RxEnds)

Spec == Init /\ [][Next]_vars /\ Fairness
-----------------------------------------------------------------------------
(* Every variable has its type. *)
TypeOK ==
  /\ {a, b} \subseteq Pipes(1 .. MaxBytes)
  /\ tx \in {"run", "parked", "done"}
  /\ fwd \in {"read", "parked_read", "delay", "decide", "write", "parked_write", "done"}
  /\ rx \in {"run", "parked", "done"}
  /\ chunk \in Seq(1 .. MaxBytes)
  /\ closed \in BOOLEAN
  /\ latency \in BOOLEAN /\ loss \in BOOLEAN
  /\ sent \in 0 .. MaxBytes
  /\ lost \subseteq 1 .. MaxBytes
  /\ received \in Seq(1 .. MaxBytes)

(* What the link still carries, nearest to the receiver first. *)
Carried == received \o b.buf \o chunk \o a.buf

(* Bytes never overtake one another and none is received twice, whatever   *)
(* the impairment does and however the link is closed.                     *)
InOrder ==
  \A i, j \in 1 .. Len(Carried) : i < j => Carried[i] < Carried[j]

(* While the link is open a byte is lost only to the impairment: latency   *)
(* and backpressure delay bytes, they never drop them.                     *)
NothingElseLost ==
  ~closed => {Carried[i] : i \in 1 .. Len(Carried)} \cup lost = 1 .. sent

(* The forwarder, which has no say in the link's life, never stops while   *)
(* the link is open.                                                       *)
ForwarderStays == fwd = "done" => closed

(* Closing the link ends all three tasks, although the forwarder may sit   *)
(* in pipe_write_all, which does not watch the closer: the receiver's end  *)
(* of the pipe frees it.                                                   *)
AllTasksEnd == closed ~> (tx = "done" /\ fwd = "done" /\ rx = "done")

LastByte == IF received = <<>> THEN 0 ELSE received[Len(received)]

Bytes == INSTANCE LossyFifo WITH
  last <- LastByte, count <- Len(received), open <- ~closed

(* The two pipes and three tasks are a lossy FIFO of bytes: in order,      *)
(* once, and while the link is open every byte is received or dropped.     *)
BytesImplementLossyFifo == Bytes!Spec

=============================================================================
