--------------------------- MODULE DataPathProofs ---------------------------
(***************************************************************************)
(* For pipes, queues and channels of every size: on a link of either kind  *)
(* bytes and frames keep their order, every one is accounted for while the *)
(* link is open, the forwarders do not end it, and each step is one of a   *)
(* lossy FIFO or leaves it alone.                                          *)
(*                                                                         *)
(* For the stream link the invariant cuts the numbers 1 .. sent into the   *)
(* ranges of the four places a byte can be in, as PacketLinkProofs does    *)
(* for the five of a frame; that module's lemmas are used as they are.     *)
(***************************************************************************)
EXTENDS DataPath, SequenceTheorems, TLAPS

P == INSTANCE PacketLinkProofs WITH
  fwd <- forwarders, closed <- closer, latency <- delaying, loss <- dropping,
  sent <- accepted, lost <- dropped, received <- arrived

-----------------------------------------------------------------------------
(* The places of a stream link: r received, g pipe b, c the chunk, f pipe  *)
(* a; n bytes sent.                                                        *)

Path(r, g, c, f, n) ==
  \E i, j, k \in Nat :
    P!Within(r, 0, i) /\ P!Within(g, i, j) /\ P!Within(c, j, k) /\ P!Within(f, k, n)

Inside(r, g, c, f) == P!Members(r) \cup P!Members(g) \cup P!Members(c) \cup P!Members(f)

LEMMA PathSeqs ==
  ASSUME NEW r, NEW g, NEW c, NEW f, NEW n, Path(r, g, c, f, n)
  PROVE  r \in Seq(Nat) /\ g \in Seq(Nat) /\ c \in Seq(Nat) /\ f \in Seq(Nat)
  BY P!WithinSeq DEF Path

(* New bytes enter pipe a.                                                 *)
LEMMA PathEnters ==
  ASSUME NEW r, NEW g, NEW c, NEW f, NEW n \in Nat, NEW t \in Seq(Nat), NEW m \in Nat,
         Path(r, g, c, f, n), P!Within(t, n, m)
  PROVE  /\ Path(r, g, c, f \o t, m)
         /\ Inside(r, g, c, f \o t) = Inside(r, g, c, f) \cup P!Members(t)
<1>1. f \in Seq(Nat)
  BY PathSeqs
<1>2. PICK i \in Nat, j \in Nat, k \in Nat :
        P!Within(r, 0, i) /\ P!Within(g, i, j) /\ P!Within(c, j, k) /\ P!Within(f, k, n)
  BY DEF Path
<1>3. P!Within(f \o t, k, m) /\ P!Members(f \o t) = P!Members(f) \cup P!Members(t)
  BY <1>1, <1>2, P!WithinConcat
<1> QED  BY <1>2, <1>3 DEF Path, Inside

(* The forwarder, with no chunk, takes the first bytes of pipe a.          *)
LEMMA PathTakes ==
  ASSUME NEW r, NEW g, NEW f \in Seq(Nat), NEW n \in Nat, NEW m \in 0 .. Len(f),
         Path(r, g, <<>>, f, n)
  PROVE  /\ Path(r, g, SubSeq(f, 1, m), SubSeq(f, m + 1, Len(f)), n)
         /\ Inside(r, g, SubSeq(f, 1, m), SubSeq(f, m + 1, Len(f)))
              = Inside(r, g, <<>>, f)
<1> DEFINE s == SubSeq(f, 1, m)
           t == SubSeq(f, m + 1, Len(f))
<1>1. PICK i \in Nat, j \in Nat, k \in Nat :
        P!Within(r, 0, i) /\ P!Within(g, i, j) /\ P!Within(<<>>, j, k) /\ P!Within(f, k, n)
  BY DEF Path
<1>2. s \in Seq(Nat) /\ P!Members(f) = P!Members(s) \cup P!Members(t)
  BY <1>1, P!WithinCut
<1>3. PICK l \in Nat : P!Within(s, k, l) /\ P!Within(t, l, n)
  BY <1>1, P!WithinCut
<1> HIDE DEF s, t
<1>4. j <= k /\ l <= l /\ P!Members(<<>>) = {}
  BY <1>1, P!WithinSeq DEF P!Members
<1>5. P!Within(s, j, l)
  BY <1>2, <1>3, <1>4, P!WithinWider
<1> QED  BY <1>1, <1>2, <1>3, <1>4, <1>5 DEF Path, Inside, s, t

(* The first bytes of the chunk go into pipe b.                            *)
LEMMA PathPasses ==
  ASSUME NEW r, NEW g, NEW c \in Seq(Nat), NEW f, NEW n \in Nat, NEW m \in 0 .. Len(c),
         Path(r, g, c, f, n)
  PROVE  /\ Path(r, g \o SubSeq(c, 1, m), SubSeq(c, m + 1, Len(c)), f, n)
         /\ Inside(r, g \o SubSeq(c, 1, m), SubSeq(c, m + 1, Len(c)), f)
              = Inside(r, g, c, f)
<1> DEFINE s == SubSeq(c, 1, m)
           t == SubSeq(c, m + 1, Len(c))
<1>1. PICK i \in Nat, j \in Nat, k \in Nat :
        P!Within(r, 0, i) /\ P!Within(g, i, j) /\ P!Within(c, j, k) /\ P!Within(f, k, n)
  BY DEF Path
<1>2. s \in Seq(Nat) /\ P!Members(c) = P!Members(s) \cup P!Members(t) /\ g \in Seq(Nat)
  BY <1>1, P!WithinCut, PathSeqs
<1>3. PICK l \in Nat : P!Within(s, j, l) /\ P!Within(t, l, k)
  BY <1>1, P!WithinCut
<1> HIDE DEF s, t
<1>4. P!Within(g \o s, i, l) /\ P!Members(g \o s) = P!Members(g) \cup P!Members(s)
  BY <1>1, <1>2, <1>3, P!WithinConcat
<1>5. Path(r, g \o s, t, f, n)
  BY <1>1, <1>3, <1>4 DEF Path
<1> QED  BY <1>2, <1>4, <1>5 DEF Inside, s, t

(* The first bytes of pipe b are received.                                 *)
LEMMA PathArrives ==
  ASSUME NEW r, NEW g \in Seq(Nat), NEW c, NEW f, NEW n \in Nat, NEW m \in 0 .. Len(g),
         Path(r, g, c, f, n)
  PROVE  /\ Path(r \o SubSeq(g, 1, m), SubSeq(g, m + 1, Len(g)), c, f, n)
         /\ Inside(r \o SubSeq(g, 1, m), SubSeq(g, m + 1, Len(g)), c, f)
              = Inside(r, g, c, f)
<1> DEFINE s == SubSeq(g, 1, m)
           t == SubSeq(g, m + 1, Len(g))
<1>1. PICK i \in Nat, j \in Nat, k \in Nat :
        P!Within(r, 0, i) /\ P!Within(g, i, j) /\ P!Within(c, j, k) /\ P!Within(f, k, n)
  BY DEF Path
<1>2. s \in Seq(Nat) /\ P!Members(g) = P!Members(s) \cup P!Members(t) /\ r \in Seq(Nat)
  BY <1>1, P!WithinCut, PathSeqs
<1>3. PICK l \in Nat : P!Within(s, i, l) /\ P!Within(t, l, j)
  BY <1>1, P!WithinCut
<1> HIDE DEF s, t
<1>4. P!Within(r \o s, 0, l) /\ P!Members(r \o s) = P!Members(r) \cup P!Members(s)
  BY <1>1, <1>2, <1>3, P!WithinConcat
<1>5. Path(r \o s, t, c, f, n)
  BY <1>1, <1>3, <1>4 DEF Path
<1> QED  BY <1>2, <1>4, <1>5 DEF Inside, s, t

(* Any place may be emptied.                                               *)
LEMMA PathClears ==
  ASSUME NEW r, NEW g, NEW c, NEW f, NEW n \in Nat, Path(r, g, c, f, n)
  PROVE  /\ Path(r, <<>>, c, f, n) /\ Path(r, g, <<>>, f, n) /\ Path(r, g, <<>>, <<>>, n)
         /\ Inside(r, g, c, f) = Inside(r, g, <<>>, f) \cup P!Members(c)
         /\ Inside(r, g, <<>>, f) \cap P!Members(c) = {}
         /\ Inside(r, <<>>, c, f) \cup Inside(r, g, <<>>, <<>>) \subseteq Inside(r, g, c, f)
<1>1. PICK i \in Nat, j \in Nat, k \in Nat :
        P!Within(r, 0, i) /\ P!Within(g, i, j) /\ P!Within(c, j, k) /\ P!Within(f, k, n)
  BY DEF Path
<1>2. i <= j /\ j <= k /\ k <= n
  BY <1>1, P!WithinSeq
<1>3. /\ P!Within(<<>>, i, j) /\ P!Within(<<>>, j, k) /\ P!Within(<<>>, k, n)
      /\ P!Members(<<>>) = {}
  BY <1>2, P!WithinEmpty
<1>4. Inside(r, g, <<>>, f) \cap P!Members(c) = {}
  <2>1. r \in Seq(Nat) /\ g \in Seq(Nat) /\ c \in Seq(Nat) /\ f \in Seq(Nat)
    BY PathSeqs
  <2>2. \A x \in P!Members(c) : x \in Nat /\ j < x /\ x <= k
    BY <1>1, <2>1, P!WithinMembers
  <2>3. \A x \in P!Members(r) \cup P!Members(g) : x \in Nat /\ x <= j
    BY <1>1, <1>2, <2>1, P!WithinMembers
  <2>4. \A x \in P!Members(f) : x \in Nat /\ k < x
    BY <1>1, <2>1, P!WithinMembers
  <2>5. ASSUME NEW x \in P!Members(c), x \in Inside(r, g, <<>>, f)  PROVE FALSE
    BY <1>3, <2>2, <2>3, <2>4, <2>5 DEF Inside
  <2> QED  BY <2>5
<1> QED  BY <1>1, <1>3, <1>4 DEF Path, Inside
-----------------------------------------------------------------------------
(* What the operations of a pipe do, for bytes of this link.               *)

Byte == 1 .. MaxBytes

LEMMA ByteSeq ==
  ASSUME NEW s \in Seq(Byte)
  PROVE  s \in Seq(Nat) /\ Len(s) \in Nat
<1>1. Len(s) \in Nat /\ s \in [1 .. Len(s) -> Byte]
  OBVIOUS
<1>2. \A i \in 1 .. Len(s) : s[i] \in Nat
  BY <1>1 DEF Byte
<1> QED  BY <1>1, <1>2

LEMMA PipeFacts ==
  ASSUME NEW p \in Pipes(Byte)
  PROVE  /\ p.buf \in Seq(Byte) /\ p.buf \in Seq(Nat) /\ Len(p.buf) \in Nat
         /\ Len(p.buf) <= Capacity
         /\ p.writerClosed \in BOOLEAN /\ p.readerClosed \in BOOLEAN
<1>1. p.buf \in Seq(Byte) /\ Len(p.buf) <= Capacity
      /\ p.writerClosed \in BOOLEAN /\ p.readerClosed \in BOOLEAN
  BY DEF Pipes
<1> QED  BY <1>1, ByteSeq

(* The two halves of a sequence of bytes.                                  *)
LEMMA Halves ==
  ASSUME NEW s \in Seq(Byte), NEW m \in 0 .. Len(s)
  PROVE  /\ SubSeq(s, 1, m) \in Seq(Byte) /\ Len(SubSeq(s, 1, m)) = m
         /\ SubSeq(s, m + 1, Len(s)) \in Seq(Byte)
         /\ Len(SubSeq(s, m + 1, Len(s))) = Len(s) - m
<1> DEFINE l == Len(s)
<1>1. l \in Nat /\ m \in Nat /\ m <= l
  OBVIOUS
<1>2. \A i \in 1 .. l : s[i] \in Byte
  OBVIOUS
<1>3. SubSeq(s, 1, m) \in Seq(Byte) /\ Len(SubSeq(s, 1, m)) = m
  BY <1>1, <1>2, SubSeqProperties
<1>4. /\ SubSeq(s, m + 1, l) \in Seq(Byte)
      /\ Len(SubSeq(s, m + 1, l)) = IF m + 1 <= l THEN l - (m + 1) + 1 ELSE 0
  <2>1. m + 1 \in Int /\ l \in Int /\ \A i \in m + 1 .. l : s[i] \in Byte
    BY <1>1, <1>2
  <2> HIDE DEF l
  <2> QED  BY <2>1, SubSeqProperties
<1> HIDE DEF l
<1>5. Len(SubSeq(s, m + 1, l)) = l - m
  BY <1>1, <1>4
<1> QED  BY <1>3, <1>4, <1>5 DEF l

(* A read takes some first bytes and leaves the rest.                      *)
LEMMA ReadSplits ==
  ASSUME NEW p \in Pipes(Byte), NEW k \in 1 .. MaxChunk, p.buf # <<>>
  PROVE  \E m \in 0 .. Len(p.buf) :
           /\ ReadBytes(p, k) = SubSeq(p.buf, 1, m)
           /\ ReadBytes(p, k) \in Seq(Byte)
           /\ AfterRead(p, k).buf = SubSeq(p.buf, m + 1, Len(p.buf))
           /\ AfterRead(p, k) \in Pipes(Byte)
           /\ AfterRead(p, k).writerClosed = p.writerClosed
           /\ AfterRead(p, k).readerClosed = p.readerClosed
<1> DEFINE m == ReadLen(p, k)
           u == SubSeq(p.buf, m + 1, Len(p.buf))
<1>1. p.buf \in Seq(Byte) /\ Len(p.buf) \in Nat /\ Len(p.buf) <= Capacity
  BY PipeFacts
<1>2. m \in 0 .. Len(p.buf)
  BY <1>1, ChunkAssumption DEF ReadLen, Least
<1>3. u \in Seq(Byte) /\ SubSeq(p.buf, 1, m) \in Seq(Byte) /\ Len(u) = Len(p.buf) - m
  BY <1>1, <1>2, Halves
<1>4. Len(u) <= Capacity
  BY <1>1, <1>2, <1>3, CapacityAssumption
<1>5. ReadBytes(p, k) = SubSeq(p.buf, 1, m)
  BY DEF ReadBytes
<1>6. AfterRead(p, k) = [p EXCEPT !.buf = u, !.writerWaker = FALSE]
  BY DEF AfterRead
<1> HIDE DEF u, m
<1>7. AfterRead(p, k) \in Pipes(Byte) /\ AfterRead(p, k).buf = u
      /\ AfterRead(p, k).writerClosed = p.writerClosed
      /\ AfterRead(p, k).readerClosed = p.readerClosed
  BY <1>3, <1>4, <1>6 DEF Pipes
<1> QED  BY <1>2, <1>3, <1>5, <1>7 DEF u

(* A write adds some first bytes of what it is given.                      *)
LEMMA WriteAdds ==
  ASSUME NEW p \in Pipes(Byte), NEW s \in Seq(Byte)
  PROVE  LET n == WriteLen(p, s) IN
         /\ n \in 0 .. Len(s)
         /\ AfterWrite(p, s).buf = p.buf \o SubSeq(s, 1, n)
         /\ AfterWrite(p, s) \in Pipes(Byte)
         /\ AfterWrite(p, s).writerClosed = p.writerClosed
         /\ AfterWrite(p, s).readerClosed = p.readerClosed
<1> DEFINE n == WriteLen(p, s)
           w == SubSeq(s, 1, n)
           u == p.buf \o w
<1>1. p.buf \in Seq(Byte) /\ Len(p.buf) \in Nat /\ Len(p.buf) <= Capacity
  BY PipeFacts
<1>2. n \in 0 .. Len(s) /\ n <= Capacity - Len(p.buf)
  <2>1. Capacity - Len(p.buf) \in Nat /\ Len(s) \in Nat
    BY <1>1, CapacityAssumption
  <2> QED  BY <2>1 DEF WriteLen, Least, Room
<1>3. w \in Seq(Byte) /\ Len(w) = n
  BY <1>2, Halves
<1> HIDE DEF w
<1>4. u \in Seq(Byte) /\ Len(u) = Len(p.buf) + n
  BY <1>1, <1>3, ConcatProperties
<1>5. Len(u) <= Capacity
  BY <1>1, <1>2, <1>4, CapacityAssumption
<1>6. AfterWrite(p, s) = [p EXCEPT !.buf = u, !.readerWaker = FALSE]
  BY DEF AfterWrite, w
<1> HIDE DEF u, n
<1>7. AfterWrite(p, s) \in Pipes(Byte) /\ AfterWrite(p, s).buf = u
      /\ AfterWrite(p, s).writerClosed = p.writerClosed
      /\ AfterWrite(p, s).readerClosed = p.readerClosed
  BY <1>4, <1>5, <1>6 DEF Pipes
<1> QED  BY <1>2, <1>7 DEF u, w, n

(* The other operations keep the buffer or empty it.                       *)
LEMMA PipeRest ==
  ASSUME NEW p \in Pipes(Byte)
  PROVE  /\ AfterReadPends(p) \in Pipes(Byte) /\ AfterWritePends(p) \in Pipes(Byte)
         /\ WriterGone(p) \in Pipes(Byte) /\ ReaderGone(p) \in Pipes(Byte)
         /\ AfterReadPends(p).buf = p.buf /\ AfterWritePends(p).buf = p.buf
         /\ WriterGone(p).buf = p.buf /\ ReaderGone(p).buf = <<>>
         /\ AfterReadPends(p).writerClosed = p.writerClosed
         /\ AfterReadPends(p).readerClosed = p.readerClosed
         /\ AfterWritePends(p).writerClosed = p.writerClosed
         /\ AfterWritePends(p).readerClosed = p.readerClosed
         /\ WriterGone(p).readerClosed = p.readerClosed
         /\ ReaderGone(p).writerClosed = p.writerClosed
<1>1. <<>> \in Seq(Byte) /\ Len(<<>>) <= Capacity
  BY CapacityAssumption
<1> QED
  BY <1>1 DEF Pipes, AfterReadPends, AfterWritePends, WriterGone, ReaderGone

(* The bytes a write of the transmit task adds are the next ones.          *)
LEMMA OfferRuns ==
  ASSUME NEW k \in 1 .. MaxChunk, NEW n \in 0 .. k, sent \in 0 .. MaxBytes,
         sent + k <= MaxBytes
  PROVE  /\ Offer(k) \in Seq(Byte) /\ Len(Offer(k)) = k
         /\ P!Within(SubSeq(Offer(k), 1, n), sent, sent + n)
         /\ P!Members(SubSeq(Offer(k), 1, n)) = sent + 1 .. sent + n
<1> DEFINE t == SubSeq(Offer(k), 1, n)
<1>0. k \in Nat /\ n \in Nat /\ n <= k /\ sent \in Nat /\ MaxBytes \in Nat
  BY ChunkAssumption, BytesAssumption
<1>1. Offer(k) \in Seq(Byte) /\ Len(Offer(k)) = k /\ \A i \in 1 .. k : Offer(k)[i] = sent + i
  <2>1. \A i \in 1 .. k : sent + i \in Byte
    BY <1>0 DEF Byte
  <2>2. Offer(k) \in [1 .. k -> Byte] /\ \A i \in 1 .. k : Offer(k)[i] = sent + i
    BY <2>1 DEF Offer
  <2> QED  BY <1>0, <2>2
<1>2. t \in Seq(Byte) /\ Len(t) = n
  BY <1>1, Halves
<1>3. \A i \in 1 .. n : t[i] = sent + i
  BY <1>0, <1>1, SubSeqProperties
<1> HIDE DEF t
<1>4. t \in Seq(Nat)
  BY <1>0, <1>2 DEF Byte
<1>5. P!Within(t, sent, sent + n)
  <2>1. \A i \in 1 .. n : sent < t[i] /\ t[i] <= sent + n
    BY <1>0, <1>3
  <2>2. \A i, j \in 1 .. n : i < j => t[i] < t[j]
    BY <1>0, <1>3
  <2>3. sent <= sent + n
    BY <1>0
  <2> QED  BY <1>2, <1>4, <2>1, <2>2, <2>3 DEF P!Within
<1>6. P!Members(t) = sent + 1 .. sent + n
  <2>1. ASSUME NEW x \in P!Members(t)  PROVE x \in sent + 1 .. sent + n
    <3>1. PICK i \in 1 .. n : x = t[i]
      BY <1>2, <1>4, P!MembersAre
    <3> QED  BY <1>0, <1>3, <3>1
  <2>2. ASSUME NEW x \in sent + 1 .. sent + n  PROVE x \in P!Members(t)
    <3>1. x - sent \in 1 .. n /\ x = sent + (x - sent)
      BY <1>0
    <3>2. x = t[x - sent]
      BY <1>3, <3>1
    <3> QED  BY <1>2, <1>4, <3>1, <3>2, P!MembersAre
  <2> QED  BY <2>1, <2>2
<1> QED  BY <1>1, <1>5, <1>6 DEF t
-----------------------------------------------------------------------------
(* The stream link.                                                        *)

All == Inside(received, b.buf, chunk, a.buf)

(* A byte is in one place or lost, unless the task that held it is gone.   *)
Everything ==
  /\ All \cup lost \subseteq 1 .. sent /\ All \cap lost = {}
  /\ fwd = "done" \/ rx = "done" \/ All \cup lost = 1 .. sent

(* Nothing ends but by the closer, and a forwarder that reads has no chunk. *)
Ends ==
  /\ fwd = "done" => closed
  /\ rx = "done" => closed
  /\ a.writerClosed => closed
  /\ b.readerClosed => closed
  /\ b.writerClosed => fwd = "done"
  /\ fwd \in {"read", "parked_read", "done"} => chunk = <<>>

StreamInv ==
  TypeOK /\ Path(received, b.buf, chunk, a.buf, sent) /\ Everything /\ Ends

LEMMA StreamInit == Init => StreamInv
<1> SUFFICES ASSUME Init  PROVE StreamInv
  OBVIOUS
<1>1. NewPipe.buf = <<>> /\ ~NewPipe.writerClosed /\ ~NewPipe.readerClosed
  BY DEF NewPipe
<1>2. NewPipe \in Pipes(1 .. MaxBytes) /\ <<>> \in Seq(1 .. MaxBytes)
  BY CapacityAssumption DEF NewPipe, Pipes
<1>3. TypeOK
  <2>1. 0 \in 0 .. MaxBytes
    BY BytesAssumption
  <2>2. a \in Pipes(1 .. MaxBytes) /\ b \in Pipes(1 .. MaxBytes)
    BY <1>2 DEF Init
  <2> QED  BY <1>2, <2>1, <2>2 DEF Init, TypeOK
<1>4. P!Within(<<>>, 0, 0) /\ P!Members(<<>>) = {}
  BY P!WithinEmpty
<1>5. Path(<<>>, <<>>, <<>>, <<>>, 0) /\ Inside(<<>>, <<>>, <<>>, <<>>) = {}
  BY <1>4 DEF Path, Inside
<1>6. 1 .. 0 = {}
  OBVIOUS
<1> QED
  BY <1>1, <1>3, <1>5, <1>6 DEF Init, StreamInv, Everything, All, Ends

LEMMA StreamTypes ==
  ASSUME StreamInv
  PROVE  /\ a \in Pipes(Byte) /\ b \in Pipes(Byte) /\ chunk \in Seq(Byte)
         /\ received \in Seq(Byte) /\ sent \in 0 .. MaxBytes /\ sent \in Nat
         /\ closed \in BOOLEAN
         /\ a.buf \in Seq(Nat) /\ b.buf \in Seq(Nat) /\ chunk \in Seq(Nat)
<1>1. /\ a \in Pipes(Byte) /\ b \in Pipes(Byte) /\ chunk \in Seq(Byte)
      /\ received \in Seq(Byte) /\ sent \in 0 .. MaxBytes /\ closed \in BOOLEAN
  BY DEF StreamInv, TypeOK, Byte
<1>2. sent \in Nat
  BY <1>1, BytesAssumption
<1> QED  BY <1>1, <1>2, PipeFacts, ByteSeq

LEMMA StepTxWrite ==
  ASSUME StreamInv, NEW k \in 1 .. MaxChunk, TxWrite(k)
  PROVE  StreamInv'
<1>1. /\ sent + k <= MaxBytes
      /\ UNCHANGED <<b, fwd, chunk, rx, closed, latency, loss, lost, received>>
  BY DEF TxWrite, params
<1>2. CASE a' = AfterWritePends(a) /\ tx' = "parked" /\ UNCHANGED sent
  <2>1. a' \in Pipes(1 .. MaxBytes) /\ a'.buf = a.buf /\ a'.writerClosed = a.writerClosed
    BY <1>2, StreamTypes, PipeRest DEF Byte
  <2>2. TypeOK'
    BY <1>1, <1>2, <2>1 DEF StreamInv, TypeOK
  <2> QED
    BY <1>1, <1>2, <2>1, <2>2 DEF StreamInv, Everything, All, Ends
<1>3. CASE /\ a' = AfterWrite(a, Offer(k)) /\ tx' = "run"
           /\ sent' = sent + WriteLen(a, Offer(k))
  <2> DEFINE n == WriteLen(a, Offer(k))
             t == SubSeq(Offer(k), 1, n)
  <2>1. Offer(k) \in Seq(Byte) /\ Len(Offer(k)) = k /\ k \in Nat /\ 0 \in 0 .. k
    BY <1>1, StreamTypes, OfferRuns, ChunkAssumption
  <2>2. /\ n \in 0 .. k /\ a'.buf = a.buf \o t /\ a' \in Pipes(Byte)
        /\ a'.writerClosed = a.writerClosed
    BY <1>3, <2>1, StreamTypes, WriteAdds
  <2>3. P!Within(t, sent, sent + n) /\ P!Members(t) = sent + 1 .. sent + n
    BY <1>1, <2>2, StreamTypes, OfferRuns
  <2>4. sent' = sent + n
    BY <1>3
  <2> HIDE DEF n, t
  <2>5. t \in Seq(Nat) /\ sent + n \in Nat /\ sent + n \in 0 .. MaxBytes
    <3>1. t \in Seq(Nat)
      BY <2>3, P!WithinSeq
    <3>2. sent \in Nat /\ n \in Nat /\ sent + n <= MaxBytes
      BY <1>1, <2>1, <2>2, StreamTypes, BytesAssumption
    <3> QED  BY <3>1, <3>2, BytesAssumption
  <2>6. TypeOK'
    BY <1>1, <1>3, <2>2, <2>4, <2>5 DEF StreamInv, TypeOK, Byte
  <2>7. /\ Path(received, b.buf, chunk, a.buf \o t, sent + n)
        /\ Inside(received, b.buf, chunk, a.buf \o t) = All \cup P!Members(t)
    BY <2>3, <2>5, StreamTypes, PathEnters DEF StreamInv, All
  <2>8. 1 .. sent + n = (1 .. sent) \cup (sent + 1 .. sent + n)
    BY <2>1, <2>2, StreamTypes
  <2>9. Everything'
    <3>1. All' = All \cup (sent + 1 .. sent + n)
      BY <1>1, <2>2, <2>3, <2>7 DEF All
    <3>2. (1 .. sent) \cap (sent + 1 .. sent + n) = {}
      BY <2>1, <2>2, StreamTypes
    <3> QED
      BY <1>1, <2>4, <2>8, <3>1, <3>2 DEF StreamInv, Everything
  <2>10. Path(received, b.buf, chunk, a.buf, sent)'
    BY <1>1, <2>2, <2>4, <2>7
  <2> QED
    BY <1>1, <2>2, <2>6, <2>9, <2>10 DEF StreamInv, Ends
<1> QED  BY <1>2, <1>3 DEF TxWrite

LEMMA StepFwdRead ==
  ASSUME StreamInv, NEW k \in 1 .. MaxChunk, FwdRead(k)
  PROVE  StreamInv'
<1>1. /\ fwd \in {"read", "parked_read"} /\ a.buf # <<>> /\ a' = AfterRead(a, k)
      /\ chunk' = ReadBytes(a, k) /\ fwd' \in {"delay", "decide"}
      /\ UNCHANGED <<b, tx, rx, closed, latency, loss, sent, lost, received>>
  BY DEF FwdRead, FwdReads, Polled, params
<1>2. PICK m \in 0 .. Len(a.buf) :
        /\ chunk' = SubSeq(a.buf, 1, m) /\ chunk' \in Seq(Byte)
        /\ a'.buf = SubSeq(a.buf, m + 1, Len(a.buf)) /\ a' \in Pipes(Byte)
        /\ a'.writerClosed = a.writerClosed
  BY <1>1, StreamTypes, ReadSplits
<1>3. chunk = <<>>
  BY <1>1 DEF StreamInv, Ends
<1>4. /\ Path(received, b.buf, chunk', a'.buf, sent)
      /\ Inside(received, b.buf, chunk', a'.buf) = All
  BY <1>2, <1>3, StreamTypes, PathTakes DEF StreamInv, All
<1>5. TypeOK'
  BY <1>1, <1>2 DEF StreamInv, TypeOK, Byte
<1>6. Path(received, b.buf, chunk, a.buf, sent)' /\ All' = All
  BY <1>1, <1>4 DEF All
<1> QED  BY <1>1, <1>2, <1>5, <1>6 DEF StreamInv, Everything, Ends

LEMMA StepFwdDrops ==
  ASSUME StreamInv, FwdDrops
  PROVE  StreamInv'
<1>1. /\ chunk' = <<>> /\ fwd' = "read"
      /\ lost' = lost \cup {chunk[i] : i \in 1 .. Len(chunk)}
      /\ UNCHANGED <<a, b, tx, rx, closed, latency, loss, sent, received>>
      /\ fwd = "decide"
  BY DEF FwdDrops, params, pipes
<1>2. /\ Path(received, b.buf, <<>>, a.buf, sent)
      /\ All = Inside(received, b.buf, <<>>, a.buf) \cup P!Members(chunk)
      /\ Inside(received, b.buf, <<>>, a.buf) \cap P!Members(chunk) = {}
  BY StreamTypes, PathClears DEF StreamInv, All
<1>3. lost' = lost \cup P!Members(chunk) /\ P!Members(chunk) \subseteq Byte
  <2>1. \A i \in 1 .. Len(chunk) : chunk[i] \in Byte
    BY StreamTypes
  <2>2. DOMAIN chunk = 1 .. Len(chunk)
    BY StreamTypes
  <2> QED  BY <1>1, <2>1, <2>2 DEF P!Members
<1>4. Everything'
  <2>1. All' = Inside(received, b.buf, <<>>, a.buf)
    BY <1>1 DEF All
  <2> QED  BY <1>1, <1>2, <1>3, <2>1 DEF StreamInv, Everything
<1>5. TypeOK'
  <2>1. lost \subseteq Byte /\ lost' \subseteq Byte
    BY <1>3 DEF StreamInv, TypeOK, Byte
  <2>2. <<>> \in Seq(Byte)
    OBVIOUS
  <2> QED  BY <1>1, <2>1, <2>2 DEF StreamInv, TypeOK, Byte
<1>6. Path(received, b.buf, chunk, a.buf, sent)'
  BY <1>1, <1>2
<1> QED  BY <1>1, <1>4, <1>5, <1>6 DEF StreamInv, Ends

LEMMA StepFwdWrite ==
  ASSUME StreamInv, FwdWrite
  PROVE  StreamInv'
<1> DEFINE n == WriteLen(b, chunk)
           s == SubSeq(chunk, 1, n)
           t == SubSeq(chunk, n + 1, Len(chunk))
<1>1. /\ fwd \in {"write", "parked_write"} /\ b' = AfterWrite(b, chunk) /\ chunk' = t
      /\ fwd' = IF n = Len(chunk) THEN "read" ELSE "write"
      /\ UNCHANGED <<a, tx, rx, closed, latency, loss, sent, lost, received>>
  BY DEF FwdWrite, FwdWrites, params
<1>2. /\ n \in 0 .. Len(chunk) /\ b'.buf = b.buf \o s /\ b' \in Pipes(Byte)
      /\ b'.writerClosed = b.writerClosed /\ b'.readerClosed = b.readerClosed
  BY <1>1, StreamTypes, WriteAdds
<1>3. t \in Seq(Byte) /\ Len(t) = Len(chunk) - n
  BY <1>2, StreamTypes, Halves
<1>4. /\ Path(received, b.buf \o s, t, a.buf, sent)
      /\ Inside(received, b.buf \o s, t, a.buf) = All
  BY <1>2, StreamTypes, PathPasses DEF StreamInv, All
<1>5. fwd' = "read" => t = <<>>
  <2>1. Len(chunk) \in Nat
    BY StreamTypes
  <2>2. n = Len(chunk) => Len(t) = 0
    BY <1>2, <1>3, <2>1
  <2> HIDE DEF t
  <2> QED  BY <1>1, <1>3, <2>2
<1> HIDE DEF n, s, t
<1>6. TypeOK'
  BY <1>1, <1>2, <1>3 DEF StreamInv, TypeOK, Byte
<1>7. Path(received, b.buf, chunk, a.buf, sent)' /\ All' = All
  BY <1>1, <1>2, <1>4 DEF All
<1>8. fwd' \in {"read", "write"} /\ fwd # "done"
  BY <1>1
<1> QED  BY <1>1, <1>2, <1>5, <1>6, <1>7, <1>8 DEF StreamInv, Everything, Ends

(* The forwarder returns only once the link is closed.                     *)
LEMMA StepFwdReturns ==
  ASSUME StreamInv, closed, FwdReturns
  PROVE  StreamInv'
<1>1. /\ fwd' = "done" /\ chunk' = <<>> /\ a' = ReaderGone(a) /\ b' = WriterGone(b)
      /\ closed' = TRUE
      /\ UNCHANGED <<tx, rx, closed, latency, loss, sent, lost, received>>
  BY StreamTypes DEF FwdReturns, params
<1>2. /\ a' \in Pipes(Byte) /\ a'.buf = <<>> /\ b' \in Pipes(Byte) /\ b'.buf = b.buf
  BY <1>1, StreamTypes, PipeRest
<1>3. TypeOK'
  BY <1>1, <1>2 DEF StreamInv, TypeOK, Byte
<1>4. /\ Path(received, b.buf, <<>>, <<>>, sent)
      /\ Inside(received, b.buf, <<>>, <<>>) \subseteq All
  BY StreamTypes, PathClears DEF StreamInv, All
<1>5. Path(received, b.buf, chunk, a.buf, sent)' /\ All' \subseteq All
  BY <1>1, <1>2, <1>4 DEF All
<1> QED  BY <1>1, <1>3, <1>5 DEF StreamInv, Everything, Ends

LEMMA StepRxRead ==
  ASSUME StreamInv, NEW k \in 1 .. MaxChunk, RxRead(k)
  PROVE  StreamInv'
<1>1. /\ b.buf # <<>> /\ b' = AfterRead(b, k) /\ rx' = "run" /\ rx # "done"
      /\ received' = received \o ReadBytes(b, k)
      /\ UNCHANGED <<a, tx, fwd, chunk, closed, latency, loss, sent, lost>>
  BY DEF RxRead, RxPolls, Polled, params
<1>2. PICK m \in 0 .. Len(b.buf) :
        /\ ReadBytes(b, k) = SubSeq(b.buf, 1, m) /\ ReadBytes(b, k) \in Seq(Byte)
        /\ b'.buf = SubSeq(b.buf, m + 1, Len(b.buf)) /\ b' \in Pipes(Byte)
        /\ b'.writerClosed = b.writerClosed /\ b'.readerClosed = b.readerClosed
  BY <1>1, StreamTypes, ReadSplits
<1>3. /\ Path(received', b'.buf, chunk, a.buf, sent)
      /\ Inside(received', b'.buf, chunk, a.buf) = All
  <2> DEFINE s == SubSeq(b.buf, 1, m)
             t == SubSeq(b.buf, m + 1, Len(b.buf))
  <2>0. /\ Path(received, b.buf, chunk, a.buf, sent)
        /\ b.buf \in Seq(Nat) /\ sent \in Nat /\ m \in 0 .. Len(b.buf)
    BY <1>2, StreamTypes DEF StreamInv
  <2>1. /\ Path(received \o s, t, chunk, a.buf, sent)
        /\ Inside(received \o s, t, chunk, a.buf) = All
    BY ONLY <2>0, PathArrives DEF All
  <2>2. received' = received \o s /\ b'.buf = t
    BY <1>1, <1>2
  <2> HIDE DEF s, t
  <2> QED  BY <2>1, <2>2
<1>4. received' \in Seq(Byte)
  BY <1>1, <1>2, StreamTypes, ConcatProperties
<1>5. TypeOK'
  BY <1>1, <1>2, <1>4 DEF StreamInv, TypeOK, Byte
<1>6. Path(received, b.buf, chunk, a.buf, sent)' /\ All' = All
  BY <1>1, <1>3 DEF All
<1> QED  BY <1>1, <1>2, <1>5, <1>6 DEF StreamInv, Everything, Ends

LEMMA StepRxEnds ==
  ASSUME StreamInv, RxEnds
  PROVE  StreamInv'
<1>1. /\ rx' = "done" /\ closed' = TRUE /\ b' = ReaderGone(b)
      /\ UNCHANGED <<a, tx, fwd, chunk, latency, loss, sent, lost, received>>
  BY DEF RxEnds, params
<1>2. b' \in Pipes(Byte) /\ b'.buf = <<>> /\ b'.writerClosed = b.writerClosed
  BY <1>1, StreamTypes, PipeRest
<1>3. TypeOK'
  BY <1>1, <1>2 DEF StreamInv, TypeOK, Byte
<1>4. /\ Path(received, <<>>, chunk, a.buf, sent)
      /\ Inside(received, <<>>, chunk, a.buf) \subseteq All
  BY StreamTypes, PathClears DEF StreamInv, All
<1>5. Path(received, b.buf, chunk, a.buf, sent)' /\ All' \subseteq All
  BY <1>1, <1>2, <1>4 DEF All
<1> QED  BY <1>1, <1>2, <1>3, <1>5 DEF StreamInv, Everything, Ends

(* Steps that leave every place as it is: only wakers, parameters, the     *)
(* closer or what a task waits for change.                                 *)
LEMMA StepInPlace ==
  ASSUME StreamInv, TypeOK', a'.buf = a.buf, b'.buf = b.buf,
         UNCHANGED <<chunk, sent, lost, received>>,
         fwd' = "done" <=> fwd = "done", rx' = "done" <=> rx = "done",
         Ends'
  PROVE  StreamInv'
<1>1. Path(received, b.buf, chunk, a.buf, sent)' /\ All' = All
  BY DEF StreamInv, All
<1>2. Everything'
  BY <1>1 DEF StreamInv, Everything
<1> QED  BY <1>1, <1>2 DEF StreamInv

LEMMA StepPends ==
  ASSUME StreamInv, FwdReadPends \/ FwdWritePends \/ RxReadPends
  PROVE  StreamInv'
<1>1. /\ AfterReadPends(a) \in Pipes(Byte) /\ AfterReadPends(b) \in Pipes(Byte)
      /\ AfterWritePends(b) \in Pipes(Byte)
      /\ AfterReadPends(a).buf = a.buf /\ AfterReadPends(b).buf = b.buf
      /\ AfterWritePends(b).buf = b.buf
      /\ AfterReadPends(a).writerClosed = a.writerClosed
      /\ AfterReadPends(b).writerClosed = b.writerClosed
      /\ AfterReadPends(b).readerClosed = b.readerClosed
      /\ AfterWritePends(b).writerClosed = b.writerClosed
      /\ AfterWritePends(b).readerClosed = b.readerClosed
  BY StreamTypes, PipeRest
<1>2. UNCHANGED <<chunk, closed, latency, loss, sent, lost, received>>
  BY DEF FwdReadPends, FwdWritePends, RxReadPends, params
<1>3. CASE FwdReadPends
  <2>1. /\ a' = AfterReadPends(a) /\ fwd' = "parked_read" /\ b' = b /\ tx' = tx /\ rx' = rx
        /\ fwd \in {"read", "parked_read"}
    BY <1>3 DEF FwdReadPends, FwdReads, Polled
  <2>2. TypeOK' /\ Ends'
    BY <1>1, <1>2, <2>1 DEF StreamInv, TypeOK, Ends, Byte
  <2> QED  BY <1>1, <1>2, <2>1, <2>2, StepInPlace
<1>4. CASE FwdWritePends
  <2>1. /\ b' = AfterWritePends(b) /\ fwd' = "parked_write" /\ a' = a /\ tx' = tx /\ rx' = rx
        /\ fwd \in {"write", "parked_write"}
    BY <1>4 DEF FwdWritePends, FwdWrites
  <2>2. TypeOK' /\ Ends'
    BY <1>1, <1>2, <2>1 DEF StreamInv, TypeOK, Ends, Byte
  <2> QED  BY <1>1, <1>2, <2>1, <2>2, StepInPlace
<1>5. CASE RxReadPends
  <2>1. b' = AfterReadPends(b) /\ rx' = "parked" /\ a' = a /\ tx' = tx /\ fwd' = fwd
        /\ rx # "done"
    BY <1>5 DEF RxReadPends, RxPolls, Polled
  <2>2. TypeOK' /\ Ends'
    BY <1>1, <1>2, <2>1 DEF StreamInv, TypeOK, Ends, Byte
  <2> QED  BY <1>1, <1>2, <2>1, <2>2, StepInPlace
<1> QED  BY <1>3, <1>4, <1>5

LEMMA StepTxEnds ==
  ASSUME StreamInv, TxEnds
  PROVE  StreamInv'
<1>1. /\ closed' = TRUE /\ tx' = "done" /\ a' = WriterGone(a)
      /\ UNCHANGED <<b, fwd, chunk, rx, latency, loss, sent, lost, received>>
  BY DEF TxEnds, params
<1>2. a' \in Pipes(Byte) /\ a'.buf = a.buf
  BY <1>1, StreamTypes, PipeRest
<1>3. TypeOK' /\ Ends'
  BY <1>1, <1>2 DEF StreamInv, TypeOK, Ends, Byte
<1> QED  BY <1>1, <1>2, <1>3, StepInPlace

LEMMA StepElse ==
  ASSUME StreamInv,
         \/ FwdDelayed \/ FwdPasses \/ Close
         \/ \E lat, los \in BOOLEAN : SetImpairment(lat, los)
  PROVE  StreamInv'
<1>1. CASE FwdDelayed \/ FwdPasses
  <2>1. /\ fwd \in {"delay", "decide"} /\ fwd' \in {"decide", "write"}
        /\ UNCHANGED <<a, b, tx, chunk, rx, closed, latency, loss, sent, lost, received>>
    BY <1>1 DEF FwdDelayed, FwdPasses, params, pipes
  <2>2. TypeOK' /\ Ends'
    BY <2>1 DEF StreamInv, TypeOK, Ends
  <2> QED  BY <2>1, <2>2, StepInPlace
<1>2. CASE Close
  <2>1. /\ closed' = TRUE
        /\ UNCHANGED <<a, b, tx, fwd, chunk, rx, latency, loss, sent, lost, received>>
    BY <1>2 DEF Close, params, pipes
  <2>2. TypeOK' /\ Ends'
    BY <2>1 DEF StreamInv, TypeOK, Ends
  <2> QED  BY <2>1, <2>2, StepInPlace
<1>3. CASE \E lat, los \in BOOLEAN : SetImpairment(lat, los)
  <2>1. /\ latency' \in BOOLEAN /\ loss' \in BOOLEAN
        /\ UNCHANGED <<a, b, tx, fwd, chunk, rx, closed, sent, lost, received>>
    BY <1>3 DEF SetImpairment, pipes
  <2>2. TypeOK' /\ Ends'
    BY <2>1 DEF StreamInv, TypeOK, Ends
  <2> QED  BY <2>1, <2>2, StepInPlace
<1> QED  BY <1>1, <1>2, <1>3

LEMMA StreamKept ==
  ASSUME StreamInv, Next
  PROVE  StreamInv'
<1>1. CASE TxTurn
  BY <1>1, StepTxWrite, StepTxEnds DEF TxTurn
<1>2. CASE FwdTurn
  <2>1. ASSUME NEW k \in 1 .. MaxChunk, FwdRead(k)  PROVE StreamInv'
    BY <2>1, StepFwdRead
  <2>2. CASE FwdReadEnds
    <3>1. closed /\ FwdReturns
      BY <2>2 DEF FwdReadEnds, AtEof, StreamInv, Ends
    <3> QED  BY <3>1, StepFwdReturns
  <2>3. CASE FwdGivesUp
    BY <2>3, StepFwdReturns DEF FwdGivesUp
  <2>4. CASE FwdWriteEnds
    <3>1. closed /\ FwdReturns
      BY <2>4 DEF FwdWriteEnds, FwdWrites, Broken, StreamInv, Ends
    <3> QED  BY <3>1, StepFwdReturns
  <2> QED
    BY <1>2, <2>1, <2>2, <2>3, <2>4, StepPends, StepElse, StepFwdDrops, StepFwdWrite
       DEF FwdTurn
<1>3. CASE RxReadTurn
  BY <1>3, StepRxRead, StepPends DEF RxReadTurn
<1> QED  BY <1>1, <1>2, <1>3, StepRxEnds, StepElse DEF Next

(* What a link carries is one ascending run.                               *)
LEMMA CarriedRuns ==
  ASSUME StreamInv
  PROVE  P!Within(Carried, 0, sent) /\ P!Members(Carried) = All
<1>1. sent \in Nat /\ Path(received, b.buf, chunk, a.buf, sent)
  BY StreamTypes DEF StreamInv
<1> DEFINE r == received
           g == b.buf
           c == chunk
           f == a.buf
           n == sent
<1>2. r \in Seq(Nat) /\ g \in Seq(Nat) /\ c \in Seq(Nat) /\ f \in Seq(Nat)
  BY <1>1, PathSeqs
<1>3. Carried = ((r \o g) \o c) \o f /\ All = Inside(r, g, c, f) /\ n \in Nat
  BY <1>1 DEF Carried, All
<1>4. Path(r, g, c, f, n)
  BY <1>1
<1> HIDE DEF r, g, c, f, n
<1>5. PICK i \in Nat, j \in Nat, k \in Nat :
        P!Within(r, 0, i) /\ P!Within(g, i, j) /\ P!Within(c, j, k) /\ P!Within(f, k, n)
  BY <1>4 DEF Path
<1> DEFINE rg == r \o g
           rgc == rg \o c
<1>6. P!Within(rg, 0, j) /\ P!Members(rg) = P!Members(r) \cup P!Members(g)
  BY <1>2, <1>5, P!WithinConcat
<1> HIDE DEF rg
<1>7. rg \in Seq(Nat)
  BY <1>6, P!WithinSeq
<1>8. P!Within(rgc, 0, k) /\ P!Members(rgc) = P!Members(rg) \cup P!Members(c)
  BY <1>2, <1>5, <1>6, <1>7, P!WithinConcat
<1> HIDE DEF rgc
<1>9. rgc \in Seq(Nat)
  BY <1>8, P!WithinSeq
<1>10. P!Within(rgc \o f, 0, n) /\ P!Members(rgc \o f) = P!Members(rgc) \cup P!Members(f)
  BY <1>2, <1>3, <1>5, <1>8, <1>9, P!WithinConcat
<1>11. Carried = rgc \o f
  BY <1>3 DEF rgc, rg
<1>12. P!Members(Carried) = Inside(r, g, c, f)
  BY <1>6, <1>8, <1>10, <1>11 DEF Inside
<1> QED  BY <1>3, <1>10, <1>11, <1>12 DEF n

LEMMA StreamGives ==
  ASSUME StreamInv
  PROVE  InOrder /\ NothingElseLost /\ ForwarderStays
<1>1. P!Within(Carried, 0, sent) /\ P!Members(Carried) = All
  BY CarriedRuns
<1>2. Carried \in Seq(Nat)
  BY <1>1, P!WithinSeq
<1>3. DOMAIN Carried = 1 .. Len(Carried)
  BY <1>2
<1>4. {Carried[i] : i \in 1 .. Len(Carried)} = All
  BY <1>1, <1>3 DEF P!Members
<1>5. InOrder
  BY <1>1 DEF InOrder, P!Within
<1>6. NothingElseLost
  BY <1>4 DEF NothingElseLost, StreamInv, Everything, Ends
<1>7. ForwarderStays
  BY DEF ForwarderStays, StreamInv, Ends
<1> QED  BY <1>5, <1>6, <1>7
-----------------------------------------------------------------------------
(* The stream link is a lossy FIFO.                                        *)

(* The forwarder may be gone with what it held: a receiver that still      *)
(* reads finds no gap before what pipe b holds.                            *)
NothingSkipped ==
  fwd = "done" /\ rx # "done" => P!NoGap(received, b.buf, lost)

(* The ranges of the four places.                                          *)
LEMMA PathBounds ==
  ASSUME StreamInv
  PROVE  \E i, j \in Nat :
           /\ P!Within(received, 0, i) /\ P!Within(b.buf, i, j) /\ j <= sent
           /\ \A x \in P!Members(received) \cup P!Members(b.buf) : x <= j
           /\ \A x \in P!Members(chunk) \cup P!Members(a.buf) : x \in Nat /\ j < x
<1>1. /\ received \in Seq(Nat) /\ b.buf \in Seq(Nat) /\ chunk \in Seq(Nat)
      /\ a.buf \in Seq(Nat) /\ sent \in Nat
  BY StreamTypes, PathSeqs DEF StreamInv
<1>2. PICK i \in Nat, j \in Nat, k \in Nat :
        /\ P!Within(received, 0, i) /\ P!Within(b.buf, i, j)
        /\ P!Within(chunk, j, k) /\ P!Within(a.buf, k, sent)
  BY DEF StreamInv, Path
<1>3. i <= j /\ j <= k /\ k <= sent
  BY <1>2, P!WithinSeq
<1>4. \A x \in P!Members(received) \cup P!Members(b.buf) : x <= j
  <2>1. \A x \in P!Members(received) : x \in Nat /\ x <= i
    BY <1>1, <1>2, P!WithinMembers
  <2>2. \A x \in P!Members(b.buf) : x <= j
    BY <1>1, <1>2, P!WithinMembers
  <2> QED  BY <1>3, <2>1, <2>2
<1>5. \A x \in P!Members(chunk) \cup P!Members(a.buf) : x \in Nat /\ j < x
  <2>1. \A x \in P!Members(chunk) : x \in Nat /\ j < x
    BY <1>1, <1>2, P!WithinMembers
  <2>2. \A x \in P!Members(a.buf) : x \in Nat /\ k < x
    BY <1>1, <1>2, P!WithinMembers
  <2> QED  BY <1>3, <2>1, <2>2
<1>6. j <= sent
  BY <1>1, <1>3
<1> QED  BY <1>2, <1>4, <1>5, <1>6

LEMMA StreamNoGap ==
  ASSUME StreamInv, NothingSkipped, rx # "done"
  PROVE  P!NoGap(received, b.buf, lost)
<1>1. CASE fwd = "done"
  BY <1>1 DEF NothingSkipped
<1>2. CASE fwd # "done"
  <2>1. PICK i \in Nat, j \in Nat :
          /\ \A x \in P!Members(received) \cup P!Members(b.buf) : x <= j
          /\ \A x \in P!Members(chunk) \cup P!Members(a.buf) : x \in Nat /\ j < x
    BY PathBounds
  <2> DEFINE R == P!Members(chunk) \cup P!Members(a.buf)
  <2>2. P!Members(received) \cup P!Members(b.buf) \cup R \cup lost = 1 .. sent
    BY <1>2 DEF StreamInv, Everything, All, Inside
  <2>3. \A x \in R : j < x
    BY <2>1
  <2>4. sent \in Nat
    BY StreamTypes
  <2> HIDE DEF R
  <2> QED  BY <2>1, <2>2, <2>3, <2>4, P!NothingBelow
<1> QED  BY <1>1, <1>2

(* A read takes the first m bytes of pipe b.                               *)
LEMMA ReadTakes ==
  ASSUME StreamInv, NEW k \in 1 .. MaxChunk, RxRead(k)
  PROVE  \E m \in 0 .. Len(b.buf) :
           /\ received' = received \o SubSeq(b.buf, 1, m)
           /\ P!Members(received') \cup P!Members(b'.buf)
                = P!Members(received) \cup P!Members(b.buf)
<1>1. b.buf # <<>> /\ b' = AfterRead(b, k) /\ received' = received \o ReadBytes(b, k)
  BY DEF RxRead
<1>2. PICK m \in 0 .. Len(b.buf) :
        /\ ReadBytes(b, k) = SubSeq(b.buf, 1, m)
        /\ b'.buf = SubSeq(b.buf, m + 1, Len(b.buf))
  BY <1>1, StreamTypes, ReadSplits
<1> DEFINE s == SubSeq(b.buf, 1, m)
           t == SubSeq(b.buf, m + 1, Len(b.buf))
<1>3. PICK i \in Nat, j \in Nat : P!Within(received, 0, i) /\ P!Within(b.buf, i, j)
  BY PathBounds
<1>4. b.buf \in Seq(Nat) /\ received \in Seq(Nat)
  BY <1>3, P!WithinSeq
<1>5. s \in Seq(Nat) /\ P!Members(b.buf) = P!Members(s) \cup P!Members(t)
  BY <1>3, <1>4, P!WithinCut
<1>6. PICK l \in Nat : P!Within(s, i, l)
  BY <1>3, <1>4, P!WithinCut
<1> HIDE DEF s, t
<1>7. P!Members(received \o s) = P!Members(received) \cup P!Members(s)
  BY <1>3, <1>4, <1>5, <1>6, P!WithinConcat
<1>8. received' = received \o s /\ b'.buf = t
  BY <1>1, <1>2 DEF s, t
<1>9. P!Members(received') \cup P!Members(b'.buf)
        = P!Members(received) \cup P!Members(b.buf)
  BY <1>5, <1>7, <1>8
<1> QED  BY <1>8, <1>9 DEF s

LEMMA SkippedInit == Init => NothingSkipped
  BY DEF Init, NothingSkipped

(* Once the forwarder is gone bytes are only read.                         *)
LEMMA SkippedStep ==
  ASSUME StreamInv, NothingSkipped, Next
  PROVE  NothingSkipped'
<1> SUFFICES ASSUME fwd' = "done", rx' # "done"
             PROVE  P!NoGap(received', b'.buf, lost')
  BY DEF NothingSkipped, P!NoGap, P!Members
<1> DEFINE Quiet == /\ UNCHANGED <<received, lost>> /\ b'.buf = b.buf /\ rx # "done"
           Read == /\ lost' = lost /\ rx # "done"
                   /\ P!Members(received') \cup P!Members(b'.buf)
                        = P!Members(received) \cup P!Members(b.buf)
<1>1. TxTurn \/ Close \/ (\E lat, los \in BOOLEAN : SetImpairment(lat, los)) => Quiet
  BY DEF TxTurn, TxWrite, TxEnds, Close, SetImpairment, pipes
<1>2. FwdReturns => Quiet
  BY StreamTypes, PipeRest DEF FwdReturns
<1>3. FwdTurn => Quiet
  BY <1>2 DEF FwdTurn, FwdRead, FwdReadPends, FwdReadEnds, FwdGivesUp, FwdDelayed,
              FwdDrops, FwdPasses, FwdWrite, FwdWritePends, FwdWriteEnds
<1>4. RxReadPends => Quiet
  BY StreamTypes, PipeRest DEF RxReadPends, RxPolls, Polled
<1>5. ASSUME NEW k \in 1 .. MaxChunk, RxRead(k)  PROVE Read
  <2>1. lost' = lost /\ rx # "done"
    BY <1>5 DEF RxRead, RxPolls, Polled
  <2> QED  BY <1>5, <2>1, ReadTakes
<1>6. Quiet \/ Read
  BY <1>1, <1>3, <1>4, <1>5 DEF Next, RxReadTurn, RxEnds
<1>7. P!NoGap(received, b.buf, lost)
  BY <1>6, StreamNoGap
<1> QED  BY <1>6, <1>7 DEF P!NoGap

LEMMA BytesPending == Bytes!Pending = P!Awaited(received, sent, lost)
  BY DEF Bytes!Pending, P!Awaited, LastByte, P!LastOf

(* The bytes a read takes are those awaited up to the last of them.        *)
LEMMA ReadDelivers ==
  ASSUME StreamInv, NothingSkipped, NEW k \in 1 .. MaxChunk, RxRead(k)
  PROVE  [Bytes!Next]_(Bytes!vars)
<1> DEFINE r == received
           g == b.buf
           d == lost
           n == sent
<1>1. /\ UNCHANGED <<sent, lost, closed>> /\ P!NoGap(r, g, d)
  BY StreamNoGap DEF RxRead, RxPolls, Polled, params
<1>2. PICK m \in 0 .. Len(g) : received' = r \o SubSeq(g, 1, m)
  BY ReadTakes
<1>3. PICK i \in Nat, j \in Nat : P!Within(r, 0, i) /\ P!Within(g, i, j) /\ j <= n
  BY PathBounds
<1>4. d \cap P!Members(g) = {} /\ n \in Nat
  BY StreamTypes DEF StreamInv, Everything, All, Inside
<1> HIDE DEF r, g, d, n
<1>5. r \in Seq(Nat) /\ g \in Seq(Nat) /\ Len(g) \in Nat
  BY <1>3, P!WithinSeq
<1> DEFINE s == SubSeq(g, 1, m)
<1>6. s \in Seq(Nat) /\ Len(s) = m /\ \A t \in 1 .. m : s[t] = g[t]
  BY <1>2, <1>5, SubSeqProperties
<1> HIDE DEF s
<1>7. r \o s \in Seq(Nat) /\ Len(r \o s) = Len(r) + m
      /\ \A t \in 1 .. m : (r \o s)[Len(r) + t] = s[t]
  <2>1. Len(r) \in Nat /\ m \in Nat
    BY <1>5
  <2>2. \A t \in 1 .. m : /\ Len(r) + t \in 1 .. Len(r) + Len(s)
                         /\ ~(Len(r) + t <= Len(r)) /\ (Len(r) + t) - Len(r) = t
    BY <1>6, <2>1
  <2> DEFINE u == r \o s
  <2>3. /\ u \in Seq(Nat) /\ Len(u) = Len(r) + Len(s)
        /\ \A t \in 1 .. Len(r) + Len(s) :
             u[t] = IF t <= Len(r) THEN r[t] ELSE s[t - Len(r)]
    BY ONLY <1>5, <1>6, ConcatProperties
  <2> HIDE DEF u
  <2>4. \A t \in 1 .. m : u[Len(r) + t] = s[t]
    BY ONLY <2>2, <2>3
  <2> QED  BY <1>6, <2>3, <2>4 DEF u
<1>8. CASE m = 0
  <2>1. s = <<>> /\ r \o s = r
    BY <1>5, <1>6, <1>8, ConcatEmptySeq
  <2> QED  BY <1>1, <1>2, <2>1 DEF Bytes!vars, LastByte, r, s
<1>9. CASE m # 0
  <2>1. m \in 1 .. Len(g) /\ m \in 1 .. m /\ Len(r) \in Nat
    BY <1>5, <1>9
  <2>2. /\ g[m] \in P!Awaited(r, n, d)
        /\ P!Cardinality(P!AwaitedTo(r, n, d, g[m])) = m
    <3>1. \A t \in 1 .. Len(g) :
            /\ g[t] \in P!Awaited(r, n, d)
            /\ P!Cardinality(P!AwaitedTo(r, n, d, g[t])) = t
      <4>1. P!NoGap(r, g, d) /\ n \in Nat /\ d \cap P!Members(g) = {}
        BY <1>1, <1>4
      <4> QED  BY ONLY <1>3, <4>1, P!FirstArrive
    <3> QED  BY <2>1, <3>1
  <2>3. LastByte' = g[m] /\ Len(received') = Len(r) + m
    <3>1. received' = r \o s
      BY <1>2 DEF s
    <3>2. (r \o s)[Len(r \o s)] = g[m] /\ r \o s # <<>>
      BY <1>6, <1>7, <2>1
    <3> QED  BY <1>7, <3>1, <3>2 DEF LastByte
  <2>4. \A S : Bytes!Cardinality(S) = P!Cardinality(S)
    BY DEF Bytes!Cardinality, P!Cardinality
  <2>5. Bytes!Pending = P!Awaited(r, n, d)
    BY BytesPending DEF r, n, d
  <2>6. Bytes!Deliver(g[m])
    BY <1>1, <2>2, <2>3, <2>4, <2>5 DEF Bytes!Deliver, P!AwaitedTo, r
  <2> QED  BY <2>2, <2>5, <2>6 DEF Bytes!Next, Bytes!Moves
<1> QED  BY <1>8, <1>9

LEMMA WriteSends ==
  ASSUME StreamInv, NEW k \in 1 .. MaxChunk, TxWrite(k)
  PROVE  [Bytes!Next]_(Bytes!vars)
<1>1. UNCHANGED <<lost, received, closed>> /\ sent + k <= MaxBytes
  BY DEF TxWrite
<1>2. sent' = sent \/ sent' > sent
  <2>1. Offer(k) \in Seq(Byte)
    BY <1>1, StreamTypes, OfferRuns
  <2>2. WriteLen(a, Offer(k)) \in 0 .. Len(Offer(k))
    BY <2>1, StreamTypes, WriteAdds
  <2>3. sent' = sent \/ sent' = sent + WriteLen(a, Offer(k))
    BY DEF TxWrite
  <2> QED  BY <2>2, <2>3, StreamTypes
<1>3. CASE sent' > sent
  BY <1>1, <1>3 DEF Bytes!Next, Bytes!Send, LastByte
<1>4. CASE sent' = sent
  BY <1>1, <1>4 DEF Bytes!vars, LastByte
<1> QED  BY <1>2, <1>3, <1>4

LEMMA DropLoses ==
  ASSUME StreamInv, FwdDrops
  PROVE  [Bytes!Next]_(Bytes!vars)
<1> DEFINE S == P!Members(chunk)
<1>1. UNCHANGED <<sent, received, closed>> /\ lost' = lost \cup S
  <2>1. DOMAIN chunk = 1 .. Len(chunk)
    BY StreamTypes
  <2> QED  BY <2>1 DEF FwdDrops, P!Members
<1>2. S \subseteq Bytes!Pending
  <2> SUFFICES ASSUME NEW x \in S  PROVE x \in P!Awaited(received, sent, lost)
    BY BytesPending
  <2>1. x \in 1 .. sent /\ x \notin lost
    BY DEF StreamInv, Everything, All, Inside
  <2>2. PICK i \in Nat, j \in Nat :
          P!Within(received, 0, i) /\ P!Within(b.buf, i, j) /\ j < x /\ x \in Nat
    BY PathBounds
  <2>3. i <= j
    BY <2>2, P!WithinSeq
  <2>4. P!LastOf(received) \in Nat /\ P!LastOf(received) <= i
    BY <2>2, P!LastBounds
  <2> QED  BY <2>1, <2>2, <2>3, <2>4 DEF P!Awaited
<1> HIDE DEF S
<1>3. CASE S = {}
  BY <1>1, <1>3 DEF Bytes!vars, LastByte
<1>4. CASE S # {}
  <2>1. Bytes!Lose
    BY <1>1, <1>2, <1>4 DEF Bytes!Lose, LastByte
  <2> QED  BY <2>1 DEF Bytes!Next, Bytes!Moves
<1> QED  BY <1>3, <1>4

LEMMA BytesStep ==
  ASSUME StreamInv, NothingSkipped, Next
  PROVE  [Bytes!Next]_(Bytes!vars)
<1> DEFINE Still == UNCHANGED <<sent, lost, received, closed>>
           Closes == UNCHANGED <<sent, lost, received>> /\ closed' = TRUE
<1>1. Still => UNCHANGED Bytes!vars
  BY DEF Bytes!vars, LastByte
<1>2. Closes => [Bytes!Next]_(Bytes!vars)
  <2>1. Closes /\ closed => Still
    BY StreamTypes
  <2>2. Closes /\ ~closed => Bytes!Close
    BY DEF Bytes!Close, LastByte
  <2> QED  BY <1>1, <2>1, <2>2 DEF Bytes!Next
<1>3. TxEnds \/ RxEnds \/ Close => Closes
  BY DEF TxEnds, RxEnds, Close
<1>4. FwdTurn => FwdDrops \/ Still
  BY DEF FwdTurn, FwdRead, FwdReadPends, FwdReadEnds, FwdGivesUp, FwdDelayed,
         FwdPasses, FwdWrite, FwdWritePends, FwdWriteEnds, FwdReturns
<1>5. RxReadPends \/ (\E lat, los \in BOOLEAN : SetImpairment(lat, los)) => Still
  BY DEF RxReadPends, SetImpairment
<1> HIDE DEF Still, Closes
<1> QED
  BY <1>1, <1>2, <1>3, <1>4, <1>5, WriteSends, DropLoses, ReadDelivers
     DEF Next, TxTurn, RxReadTurn

-----------------------------------------------------------------------------
(* The packet link: the definitions of PacketLink that PacketLinkProofs    *)
(* reasons about are those DataPath uses.                                  *)

LEMMA SameEnds == P!End = Packet!End /\ P!Sizes
<1>1. P!Sizes
  BY SizeAssumption, MaxAssumption DEF P!Sizes
<1> QED  BY <1>1 DEF P!End, Packet!End

LEMMA SameActions ==
  ASSUME NEW e
  PROVE  /\ Packet!Accept(e) => P!Accept(e)
         /\ Packet!WorkerSend(e) => P!WorkerSend(e)
         /\ Packet!WorkerRecv(e) => P!WorkerRecv(e)
         /\ Packet!WorkerEnds(e) => P!WorkerEnds(e)
         /\ Packet!WorkerFails(e) => P!WorkerFails(e)
         /\ Packet!FwdTake(e) => P!FwdTake(e)
         /\ Packet!FwdDelayed(e) => P!FwdDelayed(e)
         /\ Packet!FwdEnds(e) => P!FwdEnds(e)
<1>1. Packet!Accept(e) => P!Accept(e)
  BY DEF P!Accept, Packet!Accept, P!tasks, Packet!tasks, P!params,
         Packet!params
<1>2. Packet!WorkerSend(e) => P!WorkerSend(e)
  BY DEF P!WorkerSend, Packet!WorkerSend, P!Sends, Packet!Sends, P!Full,
         Packet!Full, P!Counted, Packet!Counted, P!tasks, Packet!tasks,
         P!params, Packet!params
<1>3. Packet!WorkerRecv(e) => P!WorkerRecv(e)
  BY DEF P!WorkerRecv, Packet!WorkerRecv, P!Peer, Packet!Peer, P!tasks,
         Packet!tasks, P!params, Packet!params
<1>4. Packet!WorkerEnds(e) => P!WorkerEnds(e)
  BY DEF P!WorkerEnds, Packet!WorkerEnds, P!WorkerReturns,
         Packet!WorkerReturns, P!Peer, Packet!Peer, P!params, Packet!params,
         P!account, Packet!account
<1>5. Packet!WorkerFails(e) => P!WorkerFails(e)
  BY DEF P!WorkerFails, Packet!WorkerFails, P!WorkerReturns,
         Packet!WorkerReturns, P!Peer, Packet!Peer, P!params, Packet!params,
         P!account, Packet!account
<1>6. Packet!FwdTake(e) => P!FwdTake(e)
  BY DEF P!FwdTake, Packet!FwdTake, P!FwdDecides, Packet!FwdDecides, P!Sends,
         Packet!Sends, P!Full, Packet!Full, P!Counted, Packet!Counted, P!Peer,
         Packet!Peer, P!NoFrame, Packet!NoFrame, P!tasks, Packet!tasks,
         P!params, Packet!params
<1>7. Packet!FwdDelayed(e) => P!FwdDelayed(e)
  BY DEF P!FwdDelayed, Packet!FwdDelayed, P!FwdDecides, Packet!FwdDecides,
         P!Sends, Packet!Sends, P!Full, Packet!Full, P!Counted,
         Packet!Counted, P!Peer, Packet!Peer, P!NoFrame, Packet!NoFrame,
         P!tasks, Packet!tasks, P!params, Packet!params
<1>8. Packet!FwdEnds(e) => P!FwdEnds(e)
  BY DEF P!FwdEnds, Packet!FwdEnds, P!FwdReturns, Packet!FwdReturns, P!Peer,
         Packet!Peer, P!NoFrame, Packet!NoFrame, P!params, Packet!params,
         P!account, Packet!account
<1> QED  BY <1>1, <1>2, <1>3, <1>4, <1>5, <1>6, <1>7, <1>8

LEMMA SameNext == Packet!Next => P!Next
<1>1. Packet!Close => P!Close
  BY DEF P!Close, Packet!Close, P!path, Packet!path, P!tasks, Packet!tasks,
         P!params, Packet!params, P!account, Packet!account
<1>2. ASSUME NEW lat, NEW los  PROVE Packet!SetImpairment(lat, los) => P!SetImpairment(lat, los)
  BY DEF P!SetImpairment, Packet!SetImpairment, P!path, Packet!path, P!tasks,
         Packet!tasks, P!params, Packet!params, P!account, Packet!account
<1> QED
  BY <1>1, <1>2, SameEnds, SameActions DEF P!Next, Packet!Next, P!WorkerTurn,
         Packet!WorkerTurn, P!FwdTurn, Packet!FwdTurn

LEMMA SameInit == Packet!Init => P!Init
  BY DEF P!Init, Packet!Init, P!End, Packet!End, P!NoFrame, Packet!NoFrame

LEMMA SameProperties ==
  /\ P!TypeOK => Packet!TypeOK
  /\ P!InOrder => Packet!InOrder
  /\ P!EveryFrameAccounted => Packet!EveryFrameAccounted
  /\ P!OverflowCounted => Packet!OverflowCounted
  /\ P!StaysUp => Packet!StaysUp
<1>1. P!TypeOK => Packet!TypeOK
  BY DEF P!TypeOK, Packet!TypeOK, P!End, Packet!End, P!Frame, Packet!Frame,
         P!NoFrame, Packet!NoFrame
<1>2. P!InOrder => Packet!InOrder
  BY DEF P!InOrder, Packet!InOrder, P!Carried, Packet!Carried, P!Held,
         Packet!Held, P!End, Packet!End, P!NoFrame, Packet!NoFrame
<1>3. P!EveryFrameAccounted => Packet!EveryFrameAccounted
  BY DEF P!EveryFrameAccounted, Packet!EveryFrameAccounted, P!Frames,
         Packet!Frames, P!Carried, Packet!Carried, P!Held, Packet!Held, P!End,
         Packet!End, P!NoFrame, Packet!NoFrame
<1>4. P!OverflowCounted => Packet!OverflowCounted
  BY DEF P!OverflowCounted, Packet!OverflowCounted, P!Cardinality, Packet!Cardinality
<1>5. P!StaysUp => Packet!StaysUp
  BY DEF P!StaysUp, Packet!StaysUp, P!End, Packet!End
<1> QED  BY <1>1, <1>2, <1>3, <1>4, <1>5

LEMMA PacketGives ==
  ASSUME P!IInv
  PROVE  /\ Packet!TypeOK /\ Packet!InOrder /\ Packet!EveryFrameAccounted
         /\ Packet!OverflowCounted /\ Packet!StaysUp
<1>1. P!TypeOK /\ P!OverflowCounted /\ P!StaysUp
  BY DEF P!IInv
<1>2. P!InOrder
  BY P!IInvInOrder
<1>3. P!EveryFrameAccounted
  BY P!IInvAccounted
<1> QED  BY <1>1, <1>2, <1>3, SameProperties

-----------------------------------------------------------------------------
(* Both kinds.  A link of one kind leaves the places of the other alone.   *)

PathInv == StreamInv /\ P!IInv

LEMMA PathInvStep ==
  ASSUME PathInv, [PathNext]_pathVars
  PROVE  PathInv'
<1>1. ASSUME UNCHANGED vars  PROVE StreamInv'
  <2>1. UNCHANGED <<a, b, tx, fwd, chunk, rx, closed, latency, loss, sent, lost, received>>
    BY <1>1 DEF vars, pipes, params
  <2>2. TypeOK' /\ Ends'
    BY <2>1 DEF PathInv, StreamInv, TypeOK, Ends
  <2> QED  BY <2>1, <2>2, StepInPlace DEF PathInv
<1>2. ASSUME UNCHANGED packetVars  PROVE P!IInv'
  <2>1. UNCHANGED P!vars
    BY <1>2 DEF packetVars, P!vars, P!path, P!tasks, P!params, P!account
  <2> QED  BY <2>1, P!LinkStutters DEF PathInv
<1>3. CASE StreamStep
  BY <1>2, <1>3, StreamKept DEF StreamStep, PathInv
<1>4. CASE PacketStep
  <2>1. P!Next /\ UNCHANGED vars
    BY <1>4, SameNext DEF PacketStep
  <2>2. P!IInv'
    BY <2>1, SameEnds, P!LinkStep DEF PathInv
  <2> QED  BY <1>1, <2>1, <2>2 DEF PathInv
<1>5. CASE UNCHANGED pathVars
  BY <1>1, <1>2, <1>5 DEF pathVars, PathInv
<1> QED  BY <1>3, <1>4, <1>5 DEF PathNext

LEMMA PathInvHolds == PathSpec => []PathInv
<1>1. PathInit => PathInv
  BY StreamInit, SameInit, SameEnds, P!LinkInit DEF PathInit, PathInv
<1>2. PathInv /\ [PathNext]_pathVars => PathInv'
  BY PathInvStep
<1> QED  BY <1>1, <1>2, PTL DEF PathSpec

(* On a link of either kind every variable has its type, and no pipe and   *)
(* no channel exceeds its capacity.                                        *)
THEOREM PathTypes == PathSpec => []PathTypeOK
<1>1. PathInv => PathTypeOK
  BY PacketGives DEF PathInv, StreamInv, PathTypeOK
<1> QED  BY <1>1, PathInvHolds, PTL

(* No byte of a stream link and no frame of a packet link overtakes        *)
(* another or arrives twice, for pipes, chunks, queues and channels of any *)
(* size and however tasks, closing and impairment interleave.              *)
THEOREM PathOrdered == PathSpec => []PathInOrder
<1>1. PathInv => PathInOrder
  BY PacketGives, StreamGives DEF PathInv, PathInOrder
<1> QED  BY <1>1, PathInvHolds, PTL

(* While a link of either kind is open, every byte and every frame it took *)
(* was received, is on its way, or was dropped by the impairment or (a     *)
(* frame) by a full channel.                                               *)
THEOREM PathAccounts == PathSpec => []EverythingAccounted
<1>1. PathInv => EverythingAccounted
  BY PacketGives, StreamGives DEF PathInv, EverythingAccounted
<1> QED  BY <1>1, PathInvHolds, PTL

(* overflow_drops counts each frame a full channel refused, once, over the *)
(* two hops and two directions, and stops at its largest value.            *)
THEOREM OverflowIsCounted == PathSpec => []OverflowCounted
<1>1. PathInv => OverflowCounted
  BY PacketGives DEF PathInv, OverflowCounted
<1> QED  BY <1>1, PathInvHolds, PTL

(* A stream link's forwarder returns only after the link was closed, and a *)
(* packet link nobody closes and whose workers do not fail keeps all its   *)
(* tasks, however much is delayed, lost or refused.                        *)
THEOREM PathStays == PathSpec => []PathStaysUp
<1>1. PathInv => PathStaysUp
  BY PacketGives, StreamGives DEF PathInv, PathStaysUp
<1> QED  BY <1>1, PathInvHolds, PTL

-----------------------------------------------------------------------------
(* Links of either kind are lossy FIFOs: the initial states and the steps. *)

FifoInv == PathInv /\ NothingSkipped /\ P!NothingOvertaken

LEMMA FifoInvStep ==
  ASSUME FifoInv, [PathNext]_pathVars
  PROVE  FifoInv'
<1>1. PathInv'
  BY PathInvStep DEF FifoInv
<1>2. UNCHANGED vars => NothingSkipped'
  BY DEF FifoInv, NothingSkipped, P!NoGap, P!Members, vars, pipes
<1>3. UNCHANGED packetVars => P!NothingOvertaken'
  BY DEF FifoInv, packetVars, P!NothingOvertaken, P!Behind, P!NoGap, P!Members,
         P!Dropped
<1>4. CASE StreamStep
  BY <1>1, <1>3, <1>4, SkippedStep DEF FifoInv, PathInv, StreamStep
<1>5. CASE PacketStep
  <2>1. P!Next /\ UNCHANGED vars
    BY <1>5, SameNext DEF PacketStep
  <2>2. P!NothingOvertaken'
    BY <2>1, P!BehindStep DEF FifoInv, PathInv
  <2> QED  BY <1>1, <1>2, <2>1, <2>2 DEF FifoInv
<1>6. CASE UNCHANGED pathVars
  BY <1>1, <1>2, <1>3, <1>6 DEF pathVars, FifoInv
<1> QED  BY <1>4, <1>5, <1>6 DEF PathNext

LEMMA FifoInvHolds == PathSpec => []FifoInv
<1>1. PathInit => FifoInv
  BY StreamInit, SameInit, SameEnds, P!LinkInit, SkippedInit, P!BehindInit
     DEF PathInit, PathInv, FifoInv
<1>2. FifoInv /\ [PathNext]_pathVars => FifoInv'
  BY FifoInvStep
<1> QED  BY <1>1, <1>2, PTL DEF PathSpec

(* The FIFO of a direction that PacketLinkProofs reasons about is the one  *)
(* PacketLink promises.                                                    *)
LEMMA SameDown ==
  [P!Fifo("parent")!Next]_(P!Fifo("parent")!vars)
    => [Packet!Down!Next]_(Packet!Down!vars)
  BY DEF P!Fifo!Next, P!Fifo!Send, P!Fifo!Moves, P!Fifo!Lose, P!Fifo!Deliver,
         P!Fifo!Close, P!Fifo!Pending, P!Fifo!Cardinality, P!Fifo!vars,
         P!LastOf, P!Dropped, Packet!Down!Next, Packet!Down!Send,
         Packet!Down!Moves, Packet!Down!Lose, Packet!Down!Deliver,
         Packet!Down!Close, Packet!Down!Pending, Packet!Down!Cardinality,
         Packet!Down!vars, Packet!LastOf, Packet!Dropped

LEMMA SameUp ==
  [P!Fifo("child")!Next]_(P!Fifo("child")!vars)
    => [Packet!Up!Next]_(Packet!Up!vars)
  BY DEF P!Fifo!Next, P!Fifo!Send, P!Fifo!Moves, P!Fifo!Lose, P!Fifo!Deliver,
         P!Fifo!Close, P!Fifo!Pending, P!Fifo!Cardinality, P!Fifo!vars,
         P!LastOf, P!Dropped, Packet!Up!Next, Packet!Up!Send,
         Packet!Up!Moves, Packet!Up!Lose, Packet!Up!Deliver,
         Packet!Up!Close, Packet!Up!Pending, Packet!Up!Cardinality,
         Packet!Up!vars, Packet!LastOf, Packet!Dropped

LEMMA FramesStep ==
  ASSUME FifoInv, [PathNext]_pathVars
  PROVE  [Packet!Down!Next]_(Packet!Down!vars) /\ [Packet!Up!Next]_(Packet!Up!vars)
<1>1. CASE PacketStep
  <2>1. P!Next /\ P!Sizes /\ "parent" \in P!End /\ "child" \in P!End
    BY <1>1, SameNext, SameEnds DEF PacketStep, P!End
  <2>2. /\ [P!Fifo("parent")!Next]_(P!Fifo("parent")!vars)
        /\ [P!Fifo("child")!Next]_(P!Fifo("child")!vars)
    BY <2>1, P!FifoStep DEF FifoInv, PathInv
  <2> QED  BY <2>2, SameDown, SameUp
<1>2. CASE UNCHANGED packetVars
  BY <1>2
     DEF packetVars, Packet!Down!vars, Packet!Up!vars, Packet!LastOf, Packet!Dropped
<1> QED  BY <1>1, <1>2 DEF PathNext, StreamStep, pathVars

LEMMA PathBytesStep ==
  ASSUME FifoInv, [PathNext]_pathVars
  PROVE  [Bytes!Next]_(Bytes!vars)
<1>1. CASE StreamStep
  BY <1>1, BytesStep DEF FifoInv, PathInv, StreamStep
<1>2. CASE UNCHANGED vars
  BY <1>2 DEF vars, Bytes!vars, LastByte
<1> QED  BY <1>1, <1>2 DEF PathNext, PacketStep, pathVars

LEMMA FifoInit == PathInit => Bytes!Init /\ Packet!Down!Init /\ Packet!Up!Init
<1> SUFFICES ASSUME PathInit  PROVE Bytes!Init /\ Packet!Down!Init /\ Packet!Up!Init
  OBVIOUS
<1>1. Bytes!Init
  BY DEF PathInit, Init, Bytes!Init, LastByte
<1>2. "parent" \in Packet!End /\ "child" \in Packet!End
  BY DEF Packet!End
<1>3. Packet!Down!Init /\ Packet!Up!Init
  BY <1>2 DEF PathInit, Packet!Init, Packet!Down!Init, Packet!Up!Init, Packet!LastOf,
              Packet!Dropped
<1> QED  BY <1>1, <1>3

(* Each step of a stream link is a step of a lossy FIFO of bytes or leaves *)
(* it alone: what a read takes is all that was still awaited up to the     *)
(* last byte of it, also after the forwarder is gone.                      *)
THEOREM BytesAreLossyFifo == PathSpec => Bytes!Init /\ [][Bytes!Next]_(Bytes!vars)
<1>1. PathInit => Bytes!Init
  BY FifoInit
<1>2. FifoInv /\ [PathNext]_pathVars => [Bytes!Next]_(Bytes!vars)
  BY PathBytesStep
<1> QED  BY <1>1, <1>2, FifoInvHolds, PTL DEF PathSpec

(* Each step of a packet link is, for either direction, a step of a lossy  *)
(* FIFO of frames or leaves it alone: a worker receives the first frame    *)
(* still awaited, and only a frame on its way is dropped.                  *)
THEOREM FramesAreLossyFifos ==
  PathSpec => /\ Packet!Down!Init /\ [][Packet!Down!Next]_(Packet!Down!vars)
              /\ Packet!Up!Init /\ [][Packet!Up!Next]_(Packet!Up!vars)
<1>1. PathInit => Packet!Down!Init /\ Packet!Up!Init
  BY FifoInit
<1>2. FifoInv /\ [PathNext]_pathVars
        => [Packet!Down!Next]_(Packet!Down!vars) /\ [Packet!Up!Next]_(Packet!Up!vars)
  BY FramesStep
<1> QED  BY <1>1, <1>2, FifoInvHolds, PTL DEF PathSpec
=============================================================================
