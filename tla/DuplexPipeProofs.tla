-------------------------- MODULE DuplexPipeProofs --------------------------
(***************************************************************************)
(* Proofs about DuplexPipe for every capacity, chunk size and number of    *)
(* bytes: the type invariant with its bound, no lost wakeup, and the order *)
(* of the bytes.                                                           *)
(***************************************************************************)
EXTENDS DuplexPipe, SequenceTheorems, TLAPS

USE CapacityAssumption, ChunkAssumption, BytesAssumption

(* What the reader has and what is buffered, in terms of positions: the    *)
(* n-th byte received or buffered is the number n.                         *)
Positions ==
  reader # "dropped" =>
    /\ sent = Len(received) + Len(pipe.buf)
    /\ \A i \in 1 .. Len(received) : received[i] = i
    /\ \A i \in 1 .. Len(pipe.buf) : pipe.buf[i] = Len(received) + i

(* The end of the stream is final. *)
EofFinal == reader = "eof" => pipe.writerClosed /\ pipe.buf = <<>>

(* What is no longer polled has closed its side of the pipe, so that a     *)
(* dropped reader's buffer stays empty.                                    *)
SidesClosed ==
  /\ reader = "dropped" <=> pipe.readerClosed
  /\ writer \in {"closed", "dropped"} => pipe.writerClosed
  /\ pipe.writerClosed => writer \in {"closed", "dropped", "broken"}

IInv == TypeOK /\ Positions /\ EofFinal /\ SidesClosed /\ NoLostWakeup

(* Reading takes a prefix of the buffer and leaves the rest. *)
LEMMA ReadSplits ==
  ASSUME NEW p \in Pipes(1 .. MaxBytes), NEW k \in 1 .. MaxChunk, p.buf # <<>>
  PROVE  /\ ReadLen(p, k) \in 1 .. Len(p.buf)
         /\ ReadBytes(p, k) \in Seq(1 .. MaxBytes)
         /\ Len(ReadBytes(p, k)) = ReadLen(p, k)
         /\ \A i \in 1 .. ReadLen(p, k) : ReadBytes(p, k)[i] = p.buf[i]
         /\ AfterRead(p, k) \in Pipes(1 .. MaxBytes)
         /\ Len(AfterRead(p, k).buf) = Len(p.buf) - ReadLen(p, k)
         /\ \A i \in 1 .. Len(p.buf) - ReadLen(p, k) :
              AfterRead(p, k).buf[i] = p.buf[i + ReadLen(p, k)]
<1> DEFINE n == ReadLen(p, k)
<1>1. p.buf \in Seq(1 .. MaxBytes) /\ Len(p.buf) \in Nat /\ Len(p.buf) <= Capacity
  BY DEF Pipes
<1>2. n \in 1 .. Len(p.buf)
  BY <1>1, EmptySeq DEF ReadLen, Least
<1>3. /\ ReadBytes(p, k) \in Seq(1 .. MaxBytes)
      /\ Len(ReadBytes(p, k)) = n
      /\ \A i \in 1 .. n : ReadBytes(p, k)[i] = p.buf[i]
  BY <1>1, <1>2, SubSeqProperties DEF ReadBytes
<1>4. /\ SubSeq(p.buf, n + 1, Len(p.buf)) \in Seq(1 .. MaxBytes)
      /\ Len(SubSeq(p.buf, n + 1, Len(p.buf))) = Len(p.buf) - n
      /\ \A i \in 1 .. Len(p.buf) - n :
           SubSeq(p.buf, n + 1, Len(p.buf))[i] = p.buf[i + n]
  <2>1. \A i \in n + 1 .. Len(p.buf) : p.buf[i] \in 1 .. MaxBytes
    BY <1>1, <1>2
  <2>2. n + 1 \in Int /\ Len(p.buf) \in Int /\ n \in Int
    BY <1>1, <1>2
  <2> DEFINE l == Len(p.buf)
             u == SubSeq(p.buf, n + 1, l)
  <2>3. /\ u \in Seq(1 .. MaxBytes)
        /\ Len(u) = IF n + 1 <= l THEN l - (n + 1) + 1 ELSE 0
        /\ \A i \in 1 .. l - (n + 1) + 1 : u[i] = p.buf[n + 1 + i - 1]
    BY <2>1, <2>2, SubSeqProperties
  <2>4. l - (n + 1) + 1 = l - n /\ \A i \in Int : n + 1 + i - 1 = i + n
    BY <2>2
  <2>5. n \in Nat /\ l \in Nat /\ n <= l
    BY <1>1, <1>2
  <2> HIDE DEF n, l, u
  <2>6. Len(u) = l - n
    BY <2>3, <2>5
  <2>7. \A i \in 1 .. l - n : u[i] = p.buf[i + n]
    BY <2>3, <2>4, <2>5
  <2>8. u \in Seq(1 .. MaxBytes)
    BY <2>3
  <2> QED
    BY <2>6, <2>7, <2>8 DEF u, l
<1>5. AfterRead(p, k).buf = SubSeq(p.buf, n + 1, Len(p.buf))
  BY DEF AfterRead, Pipes
<1>6. AfterRead(p, k) \in Pipes(1 .. MaxBytes)
  <2>1. Len(SubSeq(p.buf, n + 1, Len(p.buf))) <= Capacity
    BY <1>1, <1>2, <1>4
  <2> DEFINE u == SubSeq(p.buf, n + 1, Len(p.buf))
  <2>2. u \in Seq(1 .. MaxBytes) /\ Len(u) <= Capacity
    BY <1>4, <2>1
  <2>3. AfterRead(p, k) = [p EXCEPT !.buf = u, !.writerWaker = FALSE]
    BY DEF AfterRead
  <2> HIDE DEF u
  <2> QED
    BY <2>2, <2>3 DEF Pipes
<1> QED
  BY <1>2, <1>3, <1>4, <1>5, <1>6

(* Writing appends a prefix of what is offered, within the capacity. *)
LEMMA WriteAppends ==
  ASSUME NEW p \in Pipes(1 .. MaxBytes), NEW k \in 1 .. MaxChunk,
         sent \in 0 .. MaxBytes, sent + k <= MaxBytes, Room(p) # 0
  PROVE  LET n == WriteLen(p, Offer(k)) IN
         /\ n \in 1 .. k
         /\ AfterWrite(p, Offer(k)) \in Pipes(1 .. MaxBytes)
         /\ Len(AfterWrite(p, Offer(k)).buf) = Len(p.buf) + n
         /\ \A i \in 1 .. Len(p.buf) : AfterWrite(p, Offer(k)).buf[i] = p.buf[i]
         /\ \A i \in 1 .. n : AfterWrite(p, Offer(k)).buf[Len(p.buf) + i] = sent + i
<1> DEFINE s == Offer(k)
           n == WriteLen(p, s)
           w == SubSeq(s, 1, n)
<1>1. p.buf \in Seq(1 .. MaxBytes) /\ Len(p.buf) \in Nat /\ Len(p.buf) <= Capacity
  BY DEF Pipes
<1>2. s \in Seq(1 .. MaxBytes) /\ Len(s) = k /\ \A i \in 1 .. k : s[i] = sent + i
  BY DEF Offer
<1>3. n \in 1 .. k /\ n <= Capacity - Len(p.buf)
  <2>1. Room(p) \in Nat /\ Room(p) = Capacity - Len(p.buf) /\ Room(p) # 0
    BY <1>1 DEF Room
  <2>2. n = Least(Room(p), k)
    BY <1>2 DEF WriteLen
  <2> DEFINE r == Room(p)
  <2>3. r \in Nat \ {0} /\ k \in Nat \ {0}
    BY <2>1, ChunkAssumption
  <2> HIDE DEF n, r
  <2>4. Least(r, k) \in 1 .. k /\ Least(r, k) <= r
    BY <2>3 DEF Least
  <2> QED
    BY <2>1, <2>2, <2>4 DEF r
<1>4. w \in Seq(1 .. MaxBytes) /\ Len(w) = n /\ \A i \in 1 .. n : w[i] = s[i]
  BY <1>2, <1>3, SubSeqProperties
<1>5. /\ p.buf \o w \in Seq(1 .. MaxBytes)
      /\ Len(p.buf \o w) = Len(p.buf) + n
      /\ \A i \in 1 .. Len(p.buf) : (p.buf \o w)[i] = p.buf[i]
      /\ \A i \in 1 .. n : (p.buf \o w)[Len(p.buf) + i] = w[i]
  BY <1>1, <1>3, <1>4, ConcatProperties
<1>6. AfterWrite(p, s).buf = p.buf \o w
  BY DEF AfterWrite, Pipes
<1>7. AfterWrite(p, s) \in Pipes(1 .. MaxBytes)
  <2> DEFINE u == p.buf \o w
  <2>1. u \in Seq(1 .. MaxBytes) /\ Len(u) <= Capacity
    BY <1>1, <1>3, <1>5
  <2>2. AfterWrite(p, s) = [p EXCEPT !.buf = u, !.readerWaker = FALSE]
    BY DEF AfterWrite
  <2> HIDE DEF u
  <2> QED
    BY <2>1, <2>2 DEF Pipes
<1> HIDE DEF s, n, w
<1>8. \A i \in 1 .. n : w[i] = sent + i
  BY <1>2, <1>3, <1>4
<1>9. n \in 1 .. k /\ n = WriteLen(p, Offer(k)) /\ s = Offer(k)
  BY <1>3 DEF n, s
<1> QED
  BY <1>5, <1>6, <1>7, <1>8, <1>9

(* The first state satisfies the inductive invariant. *)
LEMMA InitInv == Init => IInv
<1> SUFFICES ASSUME Init PROVE IInv
  OBVIOUS
<1>1. pipe \in Pipes(1 .. MaxBytes)
  BY EmptySeq DEF Init, NewPipe, Pipes
<1>2. received \in Seq(1 .. MaxBytes) /\ Len(received) = 0 /\ Len(pipe.buf) = 0
  BY EmptySeq DEF Init, NewPipe
<1>3. TypeOK
  BY <1>1, <1>2 DEF Init, TypeOK, ReaderStates, WriterStates
<1>4. Positions
  BY <1>2 DEF Init, Positions
<1> QED
  BY <1>3, <1>4 DEF Init, IInv, EofFinal, SidesClosed, NoLostWakeup, NewPipe

(* poll_write preserves the inductive invariant. *)
LEMMA PollWriteInv ==
  ASSUME IInv, NEW k \in 1 .. MaxChunk, PollWrite(k)
  PROVE  IInv'
<1> USE DEF IInv
<1>1. pipe \in Pipes(1 .. MaxBytes) /\ sent \in 0 .. MaxBytes /\ k \in Nat
  BY DEF TypeOK
<1>2. CASE Broken(pipe) /\ writer' = "broken" /\ UNCHANGED <<pipe, sent, reader>>
  BY <1>2 DEF PollWrite, TypeOK, Positions, EofFinal, SidesClosed, NoLostWakeup,
              WriterStates, ReaderStates, ReadPends, WritePends
<1>3. CASE /\ WritePends(pipe)
           /\ pipe' = AfterWritePends(pipe)
           /\ writer' = "parked"
           /\ UNCHANGED <<sent, reader>>
  <2>1. /\ pipe' \in Pipes(1 .. MaxBytes)
        /\ pipe'.buf = pipe.buf
        /\ pipe'.writerWaker
        /\ pipe'.readerWaker = pipe.readerWaker
        /\ pipe'.readerClosed = pipe.readerClosed
        /\ pipe'.writerClosed = pipe.writerClosed
    BY <1>1, <1>3 DEF AfterWritePends, Pipes
  <2> QED
    BY <1>3, <2>1 DEF PollWrite, TypeOK, Positions, EofFinal, SidesClosed,
       NoLostWakeup, WriterStates, ReaderStates, ReadPends, WritePends, Broken, Room
<1>4. CASE /\ ~Broken(pipe)
           /\ ~WritePends(pipe)
           /\ pipe' = AfterWrite(pipe, Offer(k))
           /\ sent' = sent + WriteLen(pipe, Offer(k))
           /\ reader' = ReaderAfter(pipe')
           /\ UNCHANGED writer
  <2> DEFINE n == WriteLen(pipe, Offer(k))
  <2>1. /\ n \in 1 .. k
        /\ pipe' \in Pipes(1 .. MaxBytes)
        /\ Len(pipe'.buf) = Len(pipe.buf) + n
        /\ \A i \in 1 .. Len(pipe.buf) : pipe'.buf[i] = pipe.buf[i]
        /\ \A i \in 1 .. n : pipe'.buf[Len(pipe.buf) + i] = sent + i
        /\ sent + k <= MaxBytes
    BY <1>1, <1>4, WriteAppends DEF WritePends, PollWrite
  <2>2. /\ pipe'.writerWaker = pipe.writerWaker
        /\ pipe'.readerWaker = FALSE
        /\ pipe'.readerClosed = pipe.readerClosed
        /\ pipe'.writerClosed = pipe.writerClosed
    BY <1>1, <1>4 DEF AfterWrite, Pipes
  <2>3. /\ reader' \in ReaderStates
        /\ reader' # "parked"
        /\ reader' = "dropped" <=> reader = "dropped"
        /\ reader' = "eof" <=> reader = "eof"
    BY <1>4, <2>2 DEF ReaderAfter, Woken, TypeOK, ReaderStates, NoLostWakeup
  <2>4. writer = "run" /\ received' = received /\ writer' = writer
    BY <1>4 DEF PollWrite
  <2> HIDE DEF n
  <2>5. sent' \in 0 .. MaxBytes /\ sent' = sent + n
    BY <1>1, <1>4, <2>1 DEF n
  <2>6. TypeOK'
    BY <2>1, <2>3, <2>4, <2>5 DEF TypeOK
  <2>7. Len(pipe.buf) \in Nat /\ Len(received) \in Nat
    BY <1>1 DEF Pipes, TypeOK
  <2>8. Positions'
    <3> SUFFICES ASSUME reader # "dropped"
                 PROVE  /\ sent' = Len(received) + Len(pipe'.buf)
                        /\ \A i \in 1 .. Len(received) : received[i] = i
                        /\ \A i \in 1 .. Len(pipe'.buf) :
                             pipe'.buf[i] = Len(received) + i
      BY <2>3, <2>4 DEF Positions
    <3>1. sent' = Len(received) + Len(pipe'.buf)
      BY <1>1, <2>1, <2>5, <2>7 DEF Positions
    <3>2. ASSUME NEW i \in 1 .. Len(pipe'.buf)
          PROVE  pipe'.buf[i] = Len(received) + i
      <4>1. CASE i <= Len(pipe.buf)
        BY <2>1, <2>7, <4>1 DEF Positions
      <4>2. CASE i > Len(pipe.buf)
        <5> DEFINE j == i - Len(pipe.buf)
        <5>1. j \in 1 .. n /\ i = Len(pipe.buf) + j
          BY <2>1, <2>7, <4>2
        <5>2. pipe'.buf[i] = sent + j
          BY <2>1, <5>1
        <5>3. sent + j = Len(received) + i
          BY <2>7, <5>1 DEF Positions
        <5> QED
          BY <5>2, <5>3
      <4> QED
        BY <2>1, <2>7, <4>1, <4>2
    <3> QED
      BY <3>1, <3>2 DEF Positions
  <2>9. EofFinal' /\ SidesClosed' /\ NoLostWakeup'
    BY <1>4, <2>2, <2>3, <2>4 DEF EofFinal, SidesClosed, NoLostWakeup, Broken
  <2> QED
    BY <2>6, <2>8, <2>9
<1> QED
  BY <1>2, <1>3, <1>4 DEF PollWrite

(* poll_read preserves the inductive invariant. *)
LEMMA PollReadInv ==
  ASSUME IInv, NEW k \in 1 .. MaxChunk, PollRead(k)
  PROVE  IInv'
<1> USE DEF IInv
<1>1. pipe \in Pipes(1 .. MaxBytes) /\ k \in Nat
  BY DEF TypeOK
<1>2. CASE AtEof(pipe) /\ reader' = "eof" /\ UNCHANGED <<pipe, received, writer>>
  BY <1>2 DEF PollRead, AtEof, TypeOK, Positions, EofFinal, SidesClosed,
     NoLostWakeup, ReaderStates, WriterStates, ReadPends, WritePends
<1>3. CASE /\ ReadPends(pipe)
           /\ pipe' = AfterReadPends(pipe)
           /\ reader' = "parked"
           /\ UNCHANGED <<received, writer>>
  <2>1. /\ pipe' \in Pipes(1 .. MaxBytes)
        /\ pipe'.buf = pipe.buf
        /\ pipe'.readerWaker
        /\ pipe'.writerWaker = pipe.writerWaker
        /\ pipe'.readerClosed = pipe.readerClosed
        /\ pipe'.writerClosed = pipe.writerClosed
    BY <1>1, <1>3 DEF AfterReadPends, Pipes
  <2> QED
    BY <1>3, <2>1 DEF PollRead, TypeOK, Positions, EofFinal, SidesClosed,
       NoLostWakeup, WriterStates, ReaderStates, ReadPends, WritePends, Broken, Room
<1>4. CASE /\ pipe.buf # <<>>
           /\ pipe' = AfterRead(pipe, k)
           /\ received' = received \o ReadBytes(pipe, k)
           /\ writer' = WriterAfter(pipe')
           /\ UNCHANGED reader
  <2> DEFINE n == ReadLen(pipe, k)
             r == ReadBytes(pipe, k)
  <2>1. /\ n \in 1 .. Len(pipe.buf)
        /\ r \in Seq(1 .. MaxBytes)
        /\ Len(r) = n
        /\ \A i \in 1 .. n : r[i] = pipe.buf[i]
        /\ pipe' \in Pipes(1 .. MaxBytes)
        /\ Len(pipe'.buf) = Len(pipe.buf) - n
        /\ \A i \in 1 .. Len(pipe.buf) - n : pipe'.buf[i] = pipe.buf[i + n]
    BY <1>1, <1>4, ReadSplits
  <2>2. /\ pipe'.writerWaker = FALSE
        /\ pipe'.readerWaker = pipe.readerWaker
        /\ pipe'.readerClosed = pipe.readerClosed
        /\ pipe'.writerClosed = pipe.writerClosed
    BY <1>1, <1>4 DEF AfterRead, Pipes
  <2>3. /\ writer' \in WriterStates
        /\ writer' # "parked"
        /\ \A state \in {"closed", "dropped", "broken"} :
             writer' = state <=> writer = state
    BY <1>4, <2>2 DEF WriterAfter, Woken, TypeOK, WriterStates, NoLostWakeup
  <2>4. reader = "run" /\ reader' = "run" /\ sent' = sent
    BY <1>4 DEF PollRead
  <2> HIDE DEF n, r
  <2>5. received' = received \o r /\ received \in Seq(1 .. MaxBytes)
    BY <1>4 DEF r, TypeOK
  <2>6. /\ received' \in Seq(1 .. MaxBytes)
        /\ Len(received') = Len(received) + n
        /\ \A i \in 1 .. Len(received) + n : received'[i] =
             IF i <= Len(received) THEN received[i] ELSE r[i - Len(received)]
    BY <2>1, <2>5, ConcatProperties
  <2>7. TypeOK'
    BY <2>1, <2>3, <2>4, <2>6 DEF TypeOK
  <2>8. Len(pipe.buf) \in Nat /\ Len(received) \in Nat
    BY <1>1, <2>5 DEF Pipes
  <2> DEFINE lr == Len(received)
             lb == Len(pipe.buf)
  <2>11. /\ lr \in Nat /\ lb \in Nat /\ n \in Nat
         /\ n <= lb
         /\ Len(received') = lr + n
         /\ Len(pipe'.buf) = lb - n
    BY <2>1, <2>6, <2>8
  <2>9. Positions'
    <3>1. /\ sent = Len(received) + Len(pipe.buf)
          /\ \A i \in 1 .. Len(received) : received[i] = i
          /\ \A i \in 1 .. Len(pipe.buf) : pipe.buf[i] = Len(received) + i
      BY <2>4 DEF Positions
    <3>2. sent = Len(received') + Len(pipe'.buf)
      <4>1. sent = lr + lb
        BY <3>1
      <4> HIDE DEF lr, lb
      <4> QED
        BY <2>11, <4>1
    <3>3. ASSUME NEW i \in 1 .. Len(received')
          PROVE  received'[i] = i
      <4>1. CASE i <= Len(received)
        <5>1. i \in 1 .. Len(received)
          BY <2>11, <4>1
        <5>2. received'[i] = received[i]
          BY <2>6, <2>11, <5>1
        <5> QED
          BY <3>1, <5>1, <5>2
      <4>2. CASE i > Len(received)
        <5> DEFINE j == i - Len(received)
        <5>1. j \in 1 .. n /\ i = Len(received) + j /\ j \in 1 .. Len(pipe.buf)
          BY <2>1, <2>6, <2>8, <4>2
        <5>2. received'[i] = r[j]
          BY <2>1, <2>6, <2>8, <4>2, <5>1
        <5>3. r[j] = Len(received) + j
          BY <2>1, <3>1, <5>1
        <5> QED
          BY <5>1, <5>2, <5>3
      <4> QED
        BY <2>1, <2>6, <2>8, <4>1, <4>2
    <3>4. ASSUME NEW i \in 1 .. Len(pipe'.buf)
          PROVE  pipe'.buf[i] = Len(received') + i
      <4>1. i \in 1 .. Len(pipe.buf) - n /\ i + n \in 1 .. Len(pipe.buf)
        BY <2>1, <2>8
      <4>2. pipe'.buf[i] = Len(received) + (i + n)
        BY <2>1, <3>1, <4>1
      <4> QED
        BY <2>1, <2>6, <2>8, <4>1, <4>2
    <3> QED
      BY <2>4, <3>2, <3>3, <3>4 DEF Positions
  <2>10. EofFinal' /\ SidesClosed' /\ NoLostWakeup'
    BY <2>2, <2>3, <2>4 DEF EofFinal, SidesClosed, NoLostWakeup
  <2> QED
    BY <2>7, <2>9, <2>10
<1> QED
  BY <1>2, <1>3, <1>4 DEF PollRead

(* poll_close, the drops and wakeups from elsewhere preserve it. *)
LEMMA OtherInv ==
  ASSUME IInv, \/ \E state \in {"closed", "dropped"} : CloseWriter(state)
               \/ DropReader
               \/ SpuriousWake
  PROVE  IInv'
<1> USE DEF IInv
<1>1. pipe \in Pipes(1 .. MaxBytes)
  BY DEF TypeOK
<1>2. ASSUME NEW state \in {"closed", "dropped"}, CloseWriter(state)
      PROVE  IInv'
  <2>1. /\ pipe' \in Pipes(1 .. MaxBytes)
        /\ pipe'.buf = pipe.buf
        /\ pipe'.readerWaker = FALSE
        /\ pipe'.writerWaker = pipe.writerWaker
        /\ pipe'.readerClosed = pipe.readerClosed
        /\ pipe'.writerClosed = TRUE
    BY <1>1, <1>2 DEF CloseWriter, WriterGone, Pipes
  <2>2. /\ writer' = state
        /\ writer' \in {"closed", "dropped"}
        /\ UNCHANGED <<sent, received>>
    BY <1>2 DEF CloseWriter
  <2>3. /\ reader' \in ReaderStates
        /\ reader' # "parked"
        /\ reader' = "dropped" <=> reader = "dropped"
        /\ reader' = "eof" <=> reader = "eof"
    BY <1>2, <2>1 DEF CloseWriter, ReaderAfter, Woken, TypeOK, ReaderStates,
                      NoLostWakeup
  <2> QED
    BY <2>1, <2>2, <2>3 DEF TypeOK, Positions, EofFinal, SidesClosed,
       NoLostWakeup, WriterStates
<1>3. CASE DropReader
  <2>1. /\ pipe' \in Pipes(1 .. MaxBytes)
        /\ pipe'.writerWaker = FALSE
        /\ pipe'.readerWaker = pipe.readerWaker
        /\ pipe'.readerClosed = TRUE
        /\ pipe'.writerClosed = pipe.writerClosed
    <3>1. <<>> \in Seq(1 .. MaxBytes) /\ Len(<<>>) <= Capacity
      BY EmptySeq
    <3>2. pipe' = [pipe EXCEPT !.readerClosed = TRUE, !.buf = <<>>,
                               !.writerWaker = FALSE]
      BY <1>3 DEF DropReader, ReaderGone
    <3> QED
      BY <1>1, <3>1, <3>2 DEF Pipes
  <2>2. /\ writer' \in WriterStates
        /\ writer' # "parked"
        /\ \A state \in {"closed", "dropped", "broken"} :
             writer' = state <=> writer = state
    BY <1>3, <2>1 DEF DropReader, WriterAfter, Woken, TypeOK, WriterStates,
                      NoLostWakeup
  <2> QED
    BY <1>3, <2>1, <2>2 DEF DropReader, TypeOK, Positions, EofFinal,
       SidesClosed, NoLostWakeup, ReaderStates
<1>4. CASE SpuriousWake
  BY <1>4 DEF SpuriousWake, TypeOK, Positions, EofFinal, SidesClosed,
     NoLostWakeup, ReaderStates, WriterStates, ReadPends, WritePends
<1> QED
  BY <1>2, <1>3, <1>4

-----------------------------------------------------------------------------
(* The inductive invariant holds in every reachable state. *)
LEMMA Inductive == Spec => []IInv
<1>1. IInv /\ UNCHANGED vars => IInv'
  BY DEF IInv, vars, TypeOK, Positions, EofFinal, SidesClosed, NoLostWakeup,
         ReadPends, WritePends, Broken, Room
<1>2. IInv /\ [Next]_vars => IInv'
  BY <1>1, PollWriteInv, PollReadInv, OtherInv DEF Next
<1> QED
  BY InitInv, <1>2, PTL DEF Spec

(* Types, and the bound on the buffer, for every capacity. *)
THEOREM PipeTypeCorrect == Spec => []TypeOK
<1>1. IInv => TypeOK
  BY DEF IInv
<1> QED
  BY <1>1, Inductive, PTL

(* A parked task is one whose poll would still return Pending. *)
THEOREM NoWakeupIsLost == Spec => []NoLostWakeup
<1>1. IInv => NoLostWakeup
  BY DEF IInv
<1> QED
  BY <1>1, Inductive, PTL

(* The bytes come out as they went in, and the end of the stream comes     *)
(* after the last of them.                                                 *)
THEOREM BytesStayInOrder == Spec => []Fifo
<1>1. IInv => Fifo
  <2> SUFFICES ASSUME IInv PROVE Fifo
    OBVIOUS
  <2> USE DEF IInv
  <2> DEFINE all == received \o pipe.buf
  <2>1. /\ received \in Seq(1 .. MaxBytes)
        /\ pipe.buf \in Seq(1 .. MaxBytes)
        /\ Len(received) \in Nat
        /\ Len(pipe.buf) \in Nat
        /\ sent \in Nat
    BY DEF TypeOK, Pipes
  <2>2. /\ all \in Seq(1 .. MaxBytes)
        /\ Len(all) = Len(received) + Len(pipe.buf)
        /\ \A i \in 1 .. Len(received) + Len(pipe.buf) : all[i] =
             IF i <= Len(received) THEN received[i] ELSE pipe.buf[i - Len(received)]
    BY <2>1, ConcatProperties
  <2> HIDE DEF all
  <2>3. ASSUME reader # "dropped"
        PROVE  all = [i \in 1 .. sent |-> i]
    <3>1. sent = Len(received) + Len(pipe.buf)
      BY <2>3 DEF Positions
    <3>2. ASSUME NEW i \in 1 .. sent
          PROVE  all[i] = i
      <4>1. CASE i <= Len(received)
        <5>1. i \in 1 .. Len(received)
          BY <2>1, <4>1
        <5>2. all[i] = received[i]
          BY <2>1, <2>2, <3>1, <4>1
        <5> QED
          BY <2>3, <5>1, <5>2 DEF Positions
      <4>2. CASE i > Len(received)
        <5> DEFINE j == i - Len(received)
        <5>1. j \in 1 .. Len(pipe.buf) /\ i = Len(received) + j
          BY <2>1, <3>1, <4>2
        <5>2. all[i] = pipe.buf[j]
          BY <2>1, <2>2, <3>1, <4>2
        <5> QED
          BY <2>3, <5>1, <5>2 DEF Positions
      <4> QED
        BY <2>1, <4>1, <4>2
    <3>3. all = [i \in 1 .. Len(all) |-> all[i]]
      BY <2>2
    <3> QED
      BY <2>1, <2>2, <3>1, <3>2, <3>3
  <2>4. reader = "eof" => Len(received) = sent
    BY <2>1, EmptySeq DEF Positions, EofFinal
  <2> QED
    BY <2>3, <2>4 DEF Fifo, all
<1> QED
  BY <1>1, Inductive, PTL
=============================================================================
