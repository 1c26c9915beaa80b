-------------------------- MODULE PacketLinkProofs --------------------------
(***************************************************************************)
(* For queues and channels of every size: frames keep their order, every   *)
(* one is accounted for, the overflow count is right, only a close or a    *)
(* failed worker takes a packet link down, and each direction takes the    *)
(* steps of a lossy FIFO.                                                  *)
(*                                                                         *)
(* The invariant cuts the numbers 1 .. sent of a direction into ranges,    *)
(* one per place a frame can be in, in the order of the places: a frame    *)
(* that moves on, or is dropped, moves a cut.                              *)
(***************************************************************************)
EXTENDS PacketLink, SequenceTheorems, FiniteSetTheorems, TLAPS

-----------------------------------------------------------------------------
(* Ascending runs of numbers, as the units on a link are: what appending,  *)
(* taking the head, cutting and joining do to them.                        *)

(* s ascends strictly, above lo and up to hi.                              *)
Within(s, lo, hi) ==
  /\ s \in Seq(Nat) /\ lo <= hi
  /\ \A i \in 1 .. Len(s) : lo < s[i] /\ s[i] <= hi
  /\ \A i, j \in 1 .. Len(s) : i < j => s[i] < s[j]

Members(s) == {s[i] : i \in DOMAIN s}

LEMMA MembersAre ==
  ASSUME NEW s \in Seq(Nat)
  PROVE  \A x : x \in Members(s) <=> \E i \in 1 .. Len(s) : x = s[i]
<1>1. DOMAIN s = 1 .. Len(s)
  OBVIOUS
<1> QED  BY <1>1 DEF Members

(* Equal runs of a sequence cut in two have the members of both.           *)
LEMMA MembersSplit ==
  ASSUME NEW s \in Seq(Nat), NEW t \in Seq(Nat), NEW u \in Seq(Nat),
         Len(u) = Len(s) + Len(t),
         \A i \in 1 .. Len(s) : u[i] = s[i],
         \A i \in 1 .. Len(t) : u[Len(s) + i] = t[i]
  PROVE  Members(u) = Members(s) \cup Members(t)
<1>1. Len(s) \in Nat /\ Len(t) \in Nat
  OBVIOUS
<1>2. ASSUME NEW x \in Members(u)  PROVE x \in Members(s) \cup Members(t)
  <2>1. PICK i \in 1 .. Len(u) : x = u[i]
    BY <1>2, MembersAre
  <2>2. CASE i <= Len(s)
    <3>1. i \in 1 .. Len(s)
      BY <1>1, <2>2
    <3> QED  BY <2>1, <3>1, MembersAre
  <2>3. CASE i > Len(s)
    <3> DEFINE j == i - Len(s)
    <3>1. j \in 1 .. Len(t) /\ Len(s) + j = i
      BY <1>1, <2>3
    <3> HIDE DEF j
    <3>2. x = t[j]
      BY <2>1, <3>1
    <3> QED  BY <3>1, <3>2, MembersAre
  <2> QED  BY <1>1, <2>2, <2>3
<1>3. ASSUME NEW x \in Members(s)  PROVE x \in Members(u)
  <2>1. PICK i \in 1 .. Len(s) : x = s[i]
    BY <1>3, MembersAre
  <2>2. i \in 1 .. Len(u) /\ x = u[i]
    BY <1>1, <2>1
  <2> QED  BY <2>2, MembersAre
<1>4. ASSUME NEW x \in Members(t)  PROVE x \in Members(u)
  <2>1. PICK i \in 1 .. Len(t) : x = t[i]
    BY <1>4, MembersAre
  <2> DEFINE j == Len(s) + i
  <2>2. j \in 1 .. Len(u) /\ x = u[j]
    BY <1>1, <2>1
  <2> HIDE DEF j
  <2> QED  BY <2>2, MembersAre
<1> QED  BY <1>2, <1>3, <1>4

(* The empty run lies anywhere.                                            *)
LEMMA WithinEmpty ==
  ASSUME NEW lo \in Nat, NEW hi \in Nat, lo <= hi
  PROVE  Within(<<>>, lo, hi) /\ Members(<<>>) = {}
  BY DEF Within, Members

(* A run may be given more room.                                           *)
LEMMA WithinWider ==
  ASSUME NEW lo \in Nat, NEW hi \in Nat, NEW lo2 \in Nat, NEW hi2 \in Nat,
         NEW s \in Seq(Nat), Within(s, lo, hi), lo2 <= lo, hi <= hi2
  PROVE  Within(s, lo2, hi2)
<1>1. lo2 <= hi2
  BY DEF Within
<1>2. \A i \in 1 .. Len(s) : s[i] \in Nat
  OBVIOUS
<1> QED  BY <1>1, <1>2 DEF Within

(* A run takes a greater number at its end.                                *)
LEMMA WithinAppend ==
  ASSUME NEW lo \in Nat, NEW hi \in Nat, NEW s \in Seq(Nat), NEW x \in Nat,
         Within(s, lo, hi), hi < x
  PROVE  Within(Append(s, x), lo, x) /\ Members(Append(s, x)) = Members(s) \cup {x}
<1> DEFINE t == Append(s, x)
<1>1. t \in Seq(Nat) /\ Len(t) = Len(s) + 1 /\ Len(s) \in Nat
  OBVIOUS
<1>2. \A i \in 1 .. Len(t) : t[i] = IF i <= Len(s) THEN s[i] ELSE x
  OBVIOUS
<1>3. DOMAIN t = 1 .. Len(s) + 1 /\ DOMAIN s = 1 .. Len(s)
  BY <1>1
<1> HIDE DEF t
<1>4. \A i \in 1 .. Len(s) : lo < s[i] /\ s[i] <= hi /\ s[i] \in Nat
  BY DEF Within
<1>5. \A i \in 1 .. Len(t) : i <= Len(s) => i \in 1 .. Len(s)
  BY <1>1
<1>6. \A i \in 1 .. Len(t) : lo < t[i] /\ t[i] <= x
  <2> SUFFICES ASSUME NEW i \in 1 .. Len(t)  PROVE lo < t[i] /\ t[i] <= x
    OBVIOUS
  <2>1. CASE i <= Len(s)
    BY <1>2, <1>4, <1>5, <2>1
  <2>2. CASE ~(i <= Len(s))
    BY <1>2, <2>2 DEF Within
  <2> QED  BY <2>1, <2>2
<1>7. \A i, j \in 1 .. Len(t) : i < j => t[i] < t[j]
  <2> SUFFICES ASSUME NEW i \in 1 .. Len(t), NEW j \in 1 .. Len(t), i < j
               PROVE  t[i] < t[j]
    OBVIOUS
  <2>1. i <= Len(s) /\ i \in 1 .. Len(s)
    BY <1>1
  <2>2. CASE j <= Len(s)
    BY <1>2, <1>5, <2>1, <2>2 DEF Within
  <2>3. CASE ~(j <= Len(s))
    BY <1>2, <1>4, <2>1, <2>3
  <2> QED  BY <2>2, <2>3
<1>8. lo <= x
  BY DEF Within
<1>9. Members(t) = Members(s) \cup {x}
  <2>1. \A i \in 1 .. Len(s) : i \in 1 .. Len(t) /\ t[i] = s[i]
    BY <1>1, <1>2
  <2>2. Len(s) + 1 \in 1 .. Len(t) /\ t[Len(s) + 1] = x
    BY <1>1, <1>2
  <2>3. \A i \in 1 .. Len(t) : t[i] = x \/ (i \in 1 .. Len(s) /\ t[i] = s[i])
    BY <1>2, <1>5
  <2> QED  BY <1>1, <1>3, <2>1, <2>2, <2>3 DEF Members
<1> QED  BY <1>1, <1>6, <1>7, <1>8, <1>9 DEF Within, t

(* The head is the least, and the tail lies above it.                      *)
LEMMA WithinHead ==
  ASSUME NEW lo \in Nat, NEW hi \in Nat, NEW s \in Seq(Nat), s # <<>>,
         Within(s, lo, hi)
  PROVE  /\ Head(s) \in Nat /\ lo < Head(s) /\ Head(s) <= hi
         /\ Within(Tail(s), Head(s), hi)
         /\ Tail(s) \in Seq(Nat)
         /\ Members(s) = Members(Tail(s)) \cup {Head(s)}
<1> DEFINE t == Tail(s)
<1>1. /\ t \in Seq(Nat) /\ Len(t) = Len(s) - 1 /\ Len(s) \in Nat /\ Len(s) > 0
      /\ Head(s) = s[1]
  OBVIOUS
<1>2. \A i \in 1 .. Len(t) : t[i] = s[i + 1]
  OBVIOUS
<1>3. DOMAIN t = 1 .. Len(s) - 1 /\ DOMAIN s = 1 .. Len(s)
  BY <1>1
<1> HIDE DEF t
<1>4. Head(s) \in Nat /\ lo < Head(s) /\ Head(s) <= hi
  BY <1>1 DEF Within
<1>5. \A i \in 1 .. Len(t) : i + 1 \in 1 .. Len(s) /\ 1 < i + 1
  BY <1>1
<1>6. ASSUME NEW i \in 1 .. Len(t)  PROVE Head(s) < t[i] /\ t[i] <= hi
  <2> DEFINE j == i + 1
  <2>1. j \in 1 .. Len(s) /\ 1 \in 1 .. Len(s) /\ 1 < j /\ t[i] = s[j]
    BY <1>1, <1>2, <1>5
  <2> HIDE DEF j
  <2> QED  BY <1>1, <2>1 DEF Within
<1>7. \A i, j \in 1 .. Len(t) : i < j => t[i] < t[j]
  <2> SUFFICES ASSUME NEW i \in 1 .. Len(t), NEW j \in 1 .. Len(t), i < j
               PROVE  t[i] < t[j]
    OBVIOUS
  <2>1. i + 1 < j + 1
    OBVIOUS
  <2> QED  BY <1>2, <1>5, <2>1 DEF Within
<1>8. Members(s) = Members(t) \cup {Head(s)}
  <2> DEFINE h == <<Head(s)>>
  <2>1. h \in Seq(Nat) /\ Len(h) = 1 /\ h[1] = Head(s) /\ Members(h) = {Head(s)}
    BY <1>4 DEF Members
  <2> HIDE DEF h
  <2>2. Members(s) = Members(h) \cup Members(t)
    <3>1. \A i \in 1 .. Len(h) : s[i] = h[i]
      BY <1>1, <2>1
    <3>2. \A i \in 1 .. Len(t) : s[Len(h) + i] = t[i]
      BY <1>2, <2>1
    <3>3. Len(s) = Len(h) + Len(t)
      BY <1>1, <2>1
    <3> QED  BY <1>1, <2>1, <3>1, <3>2, <3>3, MembersSplit
  <2> QED  BY <2>1, <2>2
<1> QED  BY <1>1, <1>4, <1>6, <1>7, <1>8 DEF Within, t

(* Two runs, the second above the first, make one.                         *)
LEMMA WithinConcat ==
  ASSUME NEW lo \in Nat, NEW mid \in Nat, NEW hi \in Nat,
         NEW s \in Seq(Nat), NEW t \in Seq(Nat),
         Within(s, lo, mid), Within(t, mid, hi)
  PROVE  Within(s \o t, lo, hi) /\ Members(s \o t) = Members(s) \cup Members(t)
<1> DEFINE u == s \o t
<1>1. u \in Seq(Nat) /\ Len(u) = Len(s) + Len(t) /\ Len(s) \in Nat /\ Len(t) \in Nat
  BY ConcatProperties
<1>2. \A i \in 1 .. Len(u) : u[i] = IF i <= Len(s) THEN s[i] ELSE t[i - Len(s)]
  BY <1>1, ConcatProperties
<1> HIDE DEF u
<1>3. lo <= mid /\ mid <= hi
  BY DEF Within
<1>4. ASSUME NEW i \in 1 .. Len(u)
      PROVE  \/ i \in 1 .. Len(s) /\ u[i] = s[i]
             \/ \E k \in 1 .. Len(t) : i = Len(s) + k /\ u[i] = t[k]
  <2>1. CASE i <= Len(s)
    BY <1>1, <1>2, <2>1
  <2>2. CASE i > Len(s)
    <3> DEFINE k == i - Len(s)
    <3>1. k \in 1 .. Len(t) /\ i = Len(s) + k
      BY <1>1, <2>2
    <3>2. u[i] = t[k]
      BY <1>1, <1>2, <2>2
    <3> HIDE DEF k
    <3> QED  BY <3>1, <3>2
  <2> QED  BY <1>1, <2>1, <2>2
<1>5. \A i \in 1 .. Len(s) : lo < s[i] /\ s[i] <= mid /\ s[i] \in Nat
  BY DEF Within
<1>6. \A i \in 1 .. Len(t) : mid < t[i] /\ t[i] <= hi /\ t[i] \in Nat
  BY DEF Within
<1>7. ASSUME NEW i \in 1 .. Len(u)  PROVE lo < u[i] /\ u[i] <= hi
  <2>1. CASE i \in 1 .. Len(s) /\ u[i] = s[i]
    BY <1>3, <1>5, <2>1
  <2>2. CASE \E k \in 1 .. Len(t) : i = Len(s) + k /\ u[i] = t[k]
    BY <1>3, <1>6, <2>2
  <2> QED  BY <1>4, <2>1, <2>2
<1>8. ASSUME NEW i \in 1 .. Len(u), NEW j \in 1 .. Len(u), i < j
      PROVE  u[i] < u[j]
  <2>1. CASE j \in 1 .. Len(s) /\ u[j] = s[j]
    <3>1. i \in 1 .. Len(s) /\ u[i] = s[i]
      <4>1. i \in 1 .. Len(s)
        BY <1>1, <1>8, <2>1
      <4>2. ~ \E k \in 1 .. Len(t) : i = Len(s) + k
        BY <1>1, <4>1
      <4> QED  BY <1>4, <4>1, <4>2
    <3> QED  BY <1>8, <2>1, <3>1 DEF Within
  <2>2. ASSUME NEW l \in 1 .. Len(t), j = Len(s) + l, u[j] = t[l]
        PROVE  u[i] < u[j]
    <3>1. CASE i \in 1 .. Len(s) /\ u[i] = s[i]
      BY <1>3, <1>5, <1>6, <2>2, <3>1
    <3>2. ASSUME NEW k \in 1 .. Len(t), i = Len(s) + k, u[i] = t[k]
          PROVE  u[i] < u[j]
      <4>1. k < l
        BY <1>1, <1>8, <2>2, <3>2
      <4> QED  BY <2>2, <3>2, <4>1 DEF Within
    <3> QED  BY <1>4, <3>1, <3>2
  <2> QED  BY <1>4, <2>1, <2>2
<1>9. Members(u) = Members(s) \cup Members(t)
  <2>1. ASSUME NEW i \in 1 .. Len(s)  PROVE u[i] = s[i]
    <3>1. i \in 1 .. Len(u) /\ i <= Len(s)
      BY <1>1
    <3> QED  BY <1>2, <3>1
  <2>2. ASSUME NEW i \in 1 .. Len(t)  PROVE u[Len(s) + i] = t[i]
    <3>1. Len(s) + i \in 1 .. Len(u) /\ ~(Len(s) + i <= Len(s)) /\ Len(s) + i - Len(s) = i
      BY <1>1
    <3> QED  BY <1>2, <3>1
  <2> QED  BY <1>1, <2>1, <2>2, MembersSplit
<1>10. lo <= hi
  BY <1>3
<1> QED  BY <1>1, <1>7, <1>8, <1>9, <1>10 DEF Within, u

(* A run can be cut anywhere.                                              *)
LEMMA WithinCut ==
  ASSUME NEW lo \in Nat, NEW hi \in Nat, NEW s \in Seq(Nat), NEW n \in 0 .. Len(s),
         Within(s, lo, hi)
  PROVE  /\ SubSeq(s, 1, n) \in Seq(Nat) /\ SubSeq(s, n + 1, Len(s)) \in Seq(Nat)
         /\ Len(SubSeq(s, 1, n)) = n /\ Len(SubSeq(s, n + 1, Len(s))) = Len(s) - n
         /\ \E mid \in Nat : /\ Within(SubSeq(s, 1, n), lo, mid)
                             /\ Within(SubSeq(s, n + 1, Len(s)), mid, hi)
         /\ Members(s) = Members(SubSeq(s, 1, n)) \cup Members(SubSeq(s, n + 1, Len(s)))
<1> DEFINE f == SubSeq(s, 1, n)
           t == SubSeq(s, n + 1, Len(s))
           mid == IF n = 0 THEN lo ELSE s[n]
<1>1. n \in Nat /\ n <= Len(s) /\ Len(s) \in Nat /\ DOMAIN s = 1 .. Len(s)
  OBVIOUS
<1>2. f \in Seq(Nat) /\ Len(f) = n /\ \A i \in 1 .. n : f[i] = s[i]
  BY <1>1
<1>3. t \in Seq(Nat) /\ Len(t) = Len(s) - n /\ \A i \in 1 .. Len(s) - n : t[i] = s[n + i]
  <2>1. n + 1 \in Int /\ Len(s) \in Int
    BY <1>1
  <2>2. \A i \in n + 1 .. Len(s) : s[i] \in Nat
    BY <1>1
  <2>3. /\ t \in Seq(Nat) /\ Len(t) = IF n + 1 <= Len(s) THEN Len(s) - (n + 1) + 1 ELSE 0
        /\ \A i \in 1 .. Len(s) - (n + 1) + 1 : t[i] = s[(n + 1) + i - 1]
    BY <2>1, <2>2, SubSeqProperties
  <2>4. Len(t) = Len(s) - n /\ Len(s) - (n + 1) + 1 = Len(s) - n
    <3>1. Len(s) - (n + 1) + 1 = Len(s) - n
      BY <1>1
    <3>2. CASE n + 1 <= Len(s)
      BY <2>3, <3>1, <3>2
    <3>3. CASE ~(n + 1 <= Len(s))
      <4>1. ASSUME NEW m \in Nat, n <= m, ~(n + 1 <= m)  PROVE m - n = 0
        BY <4>1
      <4>2. Len(s) - n = 0
        BY <1>1, <3>3, <4>1
      <4> QED  BY <2>3, <3>1, <3>3, <4>2
    <3> QED  BY <3>1, <3>2, <3>3
  <2>5. \A i \in 1 .. Len(s) - n : (n + 1) + i - 1 = n + i
    BY <1>1
  <2> QED  BY <2>3, <2>4, <2>5
<1>4. DOMAIN f = 1 .. n /\ DOMAIN t = 1 .. Len(s) - n
  BY <1>2, <1>3
<1> HIDE DEF f, t
<1>5. \A i \in 1 .. Len(s) : lo < s[i] /\ s[i] <= hi /\ s[i] \in Nat
  BY DEF Within
<1>6. mid \in Nat /\ lo <= mid /\ mid <= hi
  <2>1. CASE n = 0
    BY <2>1 DEF Within
  <2>2. CASE n # 0
    <3>1. n \in 1 .. Len(s)
      BY <1>1, <2>2
    <3> QED  BY <1>5, <2>2, <3>1
  <2> QED  BY <2>1, <2>2
<1>7. \A i \in 1 .. n : i \in 1 .. Len(s)
  BY <1>1
<1>8. \A i \in 1 .. Len(s) - n : n + i \in 1 .. Len(s) /\ n < n + i
  BY <1>1
<1>9. \A i \in 1 .. n : s[i] <= mid
  <2> SUFFICES ASSUME NEW i \in 1 .. n  PROVE s[i] <= mid
    OBVIOUS
  <2>1. n \in 1 .. Len(s) /\ mid = s[n]
    BY <1>1
  <2>2. i = n \/ i < n
    BY <1>1
  <2> QED  BY <1>5, <1>7, <2>1, <2>2 DEF Within
<1>10. \A i \in 1 .. Len(s) - n : mid < s[n + i]
  <2> SUFFICES ASSUME NEW i \in 1 .. Len(s) - n  PROVE mid < s[n + i]
    OBVIOUS
  <2>1. CASE n = 0
    BY <1>5, <1>8, <2>1
  <2>2. CASE n # 0
    <3>1. n \in 1 .. Len(s) /\ mid = s[n]
      BY <1>1, <2>2
    <3> QED  BY <1>8, <3>1 DEF Within
  <2> QED  BY <2>1, <2>2
<1> HIDE DEF mid
<1>11. Within(f, lo, mid)
  <2>1. \A i \in 1 .. Len(f) : lo < f[i] /\ f[i] <= mid
    BY <1>2, <1>5, <1>7, <1>9
  <2>2. \A i, j \in 1 .. Len(f) : i < j => f[i] < f[j]
    BY <1>2, <1>7 DEF Within
  <2> QED  BY <1>2, <1>6, <2>1, <2>2 DEF Within
<1>12. Within(t, mid, hi)
  <2>1. \A i \in 1 .. Len(t) : mid < t[i] /\ t[i] <= hi
    BY <1>3, <1>5, <1>8, <1>10
  <2>2. ASSUME NEW i \in 1 .. Len(t), NEW j \in 1 .. Len(t), i < j
        PROVE  t[i] < t[j]
    <3>1. n + i < n + j
      BY <1>1, <1>3, <2>2
    <3> QED  BY <1>3, <1>8, <3>1 DEF Within
  <2> QED  BY <1>3, <1>6, <2>1, <2>2 DEF Within
<1>13. Members(s) = Members(f) \cup Members(t)
  <2>1. Len(s) = Len(f) + Len(t)
    BY <1>1, <1>2, <1>3
  <2>2. \A i \in 1 .. Len(f) : s[i] = f[i]
    BY <1>2
  <2>3. \A i \in 1 .. Len(t) : s[Len(f) + i] = t[i]
    BY <1>2, <1>3
  <2> QED  BY <1>2, <1>3, <2>1, <2>2, <2>3, MembersSplit
<1> QED  BY <1>2, <1>3, <1>6, <1>11, <1>12, <1>13 DEF f, t

(* What is in a run lies within its bounds.                                *)
LEMMA WithinMembers ==
  ASSUME NEW lo \in Nat, NEW hi \in Nat, NEW s \in Seq(Nat), Within(s, lo, hi),
         NEW x \in Members(s)
  PROVE  x \in Nat /\ lo < x /\ x <= hi
<1>1. DOMAIN s = 1 .. Len(s)
  OBVIOUS
<1> QED  BY <1>1 DEF Within, Members

-----------------------------------------------------------------------------
(* A run g about to be received after the run r, as a lossy FIFO sees it: *)
(* d was dropped, n units were sent.                                       *)

(* Below a member of the two every number is a member or was dropped.      *)
NoGap(r, g, d) ==
  \A x \in Members(r) \cup Members(g) : 1 .. x \subseteq Members(r) \cup Members(g) \cup d

(* Neither received nor dropped.                                           *)
Awaited(r, n, d) == {x \in 1 .. n : LastOf(r) < x /\ x \notin d}
AwaitedTo(r, n, d, k) == {x \in Awaited(r, n, d) : x <= k}

LEMMA LastBounds ==
  ASSUME NEW r, NEW i \in Nat, Within(r, 0, i)
  PROVE  /\ LastOf(r) \in Nat /\ LastOf(r) <= i
         /\ \A x \in Members(r) : x <= LastOf(r)
<1>1. r \in Seq(Nat) /\ Len(r) \in Nat
  BY DEF Within
<1>2. CASE r = <<>>
  BY <1>2, WithinEmpty DEF LastOf
<1>3. CASE r # <<>>
  <2>1. Len(r) \in 1 .. Len(r) /\ LastOf(r) = r[Len(r)]
    BY <1>1, <1>3 DEF LastOf
  <2>2. LastOf(r) \in Nat /\ LastOf(r) <= i
    BY <1>1, <2>1 DEF Within
  <2>3. ASSUME NEW x \in Members(r)  PROVE x <= LastOf(r)
    <3>1. PICK t \in 1 .. Len(r) : x = r[t]
      BY <1>1, MembersAre
    <3>2. t < Len(r) => r[t] < r[Len(r)]
      BY <2>1 DEF Within
    <3>3. r[t] \in Nat /\ r[Len(r)] \in Nat /\ (t = Len(r) \/ t < Len(r))
      BY <1>1, <2>1
    <3> QED  BY <2>1, <3>1, <3>2, <3>3
  <2> QED  BY <2>2, <2>3
<1> QED  BY <1>2, <1>3

(* What is behind a run keeps it without a gap.                            *)
LEMMA NothingBelow ==
  ASSUME NEW r, NEW g, NEW d, NEW R, NEW j \in Nat, NEW n \in Nat,
         Members(r) \cup Members(g) \cup R \cup d = 1 .. n,
         \A x \in Members(r) \cup Members(g) : x <= j,
         \A x \in R : j < x
  PROVE  NoGap(r, g, d)
<1> SUFFICES ASSUME NEW x \in Members(r) \cup Members(g), NEW y \in 1 .. x, y \notin d
             PROVE  y \in Members(r) \cup Members(g)
  BY DEF NoGap
<1>1. x \in 1 .. n /\ x <= j
  OBVIOUS
<1>2. y \in 1 .. n /\ y <= j
  BY <1>1
<1>3. y \notin R
  BY <1>2
<1> QED  BY <1>2, <1>3

(* The first m of g are what is awaited up to the m-th.                    *)
LEMMA FirstArrive ==
  ASSUME NEW r, NEW g, NEW i \in Nat, NEW j \in Nat, NEW n \in Nat, NEW d,
         Within(r, 0, i), Within(g, i, j), j <= n,
         NoGap(r, g, d), d \cap Members(g) = {}, NEW m \in 1 .. Len(g)
  PROVE  /\ g[m] \in Awaited(r, n, d)
         /\ Cardinality(AwaitedTo(r, n, d, g[m])) = m
<1>1. g \in Seq(Nat) /\ Len(g) \in Nat /\ m \in Nat /\ m <= Len(g)
  BY DEF Within
<1>2. ASSUME NEW t \in 1 .. m
      PROVE  g[t] \in Awaited(r, n, d) /\ g[t] <= g[m]
  <2>1. t \in 1 .. Len(g)
    BY <1>1
  <2>2. g[t] \in Nat /\ g[m] \in Nat /\ i < g[t] /\ g[t] <= j
    BY <1>1, <2>1 DEF Within
  <2>3. LastOf(r) \in Nat /\ LastOf(r) <= i
    BY LastBounds
  <2>4. g[t] \notin d
    BY <1>1, <2>1, MembersAre
  <2>5. t = m \/ g[t] < g[m]
    BY <1>1, <2>1 DEF Within
  <2> QED  BY <2>2, <2>3, <2>4, <2>5 DEF Awaited
<1>3. m \in 1 .. m
  BY <1>1
<1> DEFINE A == AwaitedTo(r, n, d, g[m])
           f == [t \in 1 .. m |-> g[t]]
<1>4. ASSUME NEW x \in A  PROVE \E t \in 1 .. m : g[t] = x
  <2>1. x \in 1 .. g[m] /\ LastOf(r) < x /\ x \notin d /\ x \in Nat /\ g[m] \in Nat
    BY <1>1 DEF Awaited, AwaitedTo
  <2>2. g[m] \in Members(g)
    BY <1>1, MembersAre
  <2>3. x \in Members(r) \cup Members(g)
    BY <2>1, <2>2 DEF NoGap
  <2>4. x \notin Members(r)
    <3>1. x \in Members(r) => x <= LastOf(r) /\ LastOf(r) \in Nat
      BY LastBounds
    <3> QED  BY <2>1, <3>1
  <2>5. PICK t \in 1 .. Len(g) : x = g[t]
    BY <1>1, <2>3, <2>4, MembersAre
  <2>6. ~(m < t)
    <3>1. m < t => g[m] < g[t]
      BY <2>5 DEF Within
    <3> QED  BY <2>1, <2>5, <3>1
  <2> QED  BY <1>1, <2>5, <2>6
<1>5. f \in Bijection(1 .. m, A)
  <2>1. f \in [1 .. m -> A]
    BY <1>2 DEF AwaitedTo
  <2>2. \A t, u \in 1 .. m : t # u => f[t] # f[u]
    <3> SUFFICES ASSUME NEW t \in 1 .. m, NEW u \in 1 .. m, t < u
                 PROVE  g[t] < g[u] /\ g[t] \in Nat /\ g[u] \in Nat
      OBVIOUS
    <3>1. t \in 1 .. Len(g) /\ u \in 1 .. Len(g)
      BY <1>1
    <3> QED  BY <1>1, <3>1 DEF Within
  <2>3. \A x \in A : \E t \in 1 .. m : f[t] = x
    BY <1>4
  <2> HIDE DEF A, f
  <2> QED  BY <2>1, <2>2, <2>3, Zenon DEF Bijection, Injection, Surjection, IsInjective
<1>6. ExistsBijection(1 .. m, A)
  BY <1>5 DEF ExistsBijection
<1> HIDE DEF A
<1>7. Cardinality(A) = m
  BY <1>1, <1>6, FS_CountingElements
<1> QED  BY <1>2, <1>3, <1>7 DEF A

-----------------------------------------------------------------------------

Sizes ==
  /\ QueueFrames \in Nat \ {0} /\ HopFrames \in Nat \ {0}
  /\ MaxFrames \in Nat /\ DropsLimit \in Nat

-----------------------------------------------------------------------------
(* One direction, its places from the receiver's end: r received, g in     *)
(* hop2, h held, f in hop1, q in the queue; n accepted; l lost, y refused; *)
(* over: a task that held frames has dropped them.                         *)

Cuts(r, g, h, f, q, n) ==
  \E i, j, k, m \in Nat :
    Within(r, 0, i) /\ Within(g, i, j) /\ Within(h, j, k) /\ Within(f, k, m)
    /\ Within(q, m, n)

Inside(r, g, h, f, q) ==
  Members(r) \cup Members(g) \cup Members(h) \cup Members(f) \cup Members(q)

Account(B, n, l, y, over) ==
  /\ B \cup l \cup y \subseteq 1 .. n
  /\ l \cap y = {} /\ (l \cup y) \cap B = {}
  /\ over = TRUE \/ l \cup y \cup B = 1 .. n

Direction(r, g, h, f, q, n, l, y, over) ==
  Cuts(r, g, h, f, q, n) /\ Account(Inside(r, g, h, f, q), n, l, y, over)

LEMMA WithinSeq ==
  ASSUME NEW s, NEW lo, NEW hi, Within(s, lo, hi)
  PROVE  s \in Seq(Nat) /\ lo <= hi
  BY DEF Within

LEMMA CutsSeqs ==
  ASSUME NEW r, NEW g, NEW h, NEW f, NEW q, NEW n, Cuts(r, g, h, f, q, n)
  PROVE  /\ r \in Seq(Nat) /\ g \in Seq(Nat) /\ h \in Seq(Nat) /\ f \in Seq(Nat)
         /\ q \in Seq(Nat)
  BY WithinSeq DEF Cuts

LEMMA DirectionAccept ==
  ASSUME NEW r, NEW g, NEW h, NEW f, NEW q, NEW n \in Nat, NEW l, NEW y, NEW over,
         Direction(r, g, h, f, q, n, l, y, over)
  PROVE  Direction(r, g, h, f, Append(q, n + 1), n + 1, l, y, over)
<1>1. q \in Seq(Nat)
  BY CutsSeqs DEF Direction
<1>2. PICK i \in Nat, j \in Nat, k \in Nat, m \in Nat :
        Within(r, 0, i) /\ Within(g, i, j) /\ Within(h, j, k) /\ Within(f, k, m)
        /\ Within(q, m, n)
  BY DEF Direction, Cuts
<1>3. /\ Within(Append(q, n + 1), m, n + 1)
      /\ Members(Append(q, n + 1)) = Members(q) \cup {n + 1}
  BY <1>1, <1>2, WithinAppend
<1>4. Cuts(r, g, h, f, Append(q, n + 1), n + 1)
  BY <1>2, <1>3 DEF Cuts
<1>5. Inside(r, g, h, f, Append(q, n + 1)) = Inside(r, g, h, f, q) \cup {n + 1}
  BY <1>3 DEF Inside
<1>6. 1 .. n + 1 = (1 .. n) \cup {n + 1} /\ n + 1 \notin 1 .. n
  OBVIOUS
<1> QED  BY <1>4, <1>5, <1>6 DEF Direction, Account

(* The worker sends: the frame gets into hop1 or is refused.               *)
LEMMA DirectionSend ==
  ASSUME NEW r, NEW g, NEW h, NEW f, NEW q, NEW n \in Nat, NEW l, NEW y, NEW over,
         Direction(r, g, h, f, q, n, l, y, over), q # <<>>
  PROVE  /\ Direction(r, g, h, Append(f, Head(q)), Tail(q), n, l, y, over)
         /\ Direction(r, g, h, f, Tail(q), n, l, y \cup {Head(q)}, over)
         /\ Head(q) \notin y
<1> DEFINE x == Head(q)
<1>1. /\ r \in Seq(Nat) /\ g \in Seq(Nat) /\ h \in Seq(Nat) /\ f \in Seq(Nat)
      /\ q \in Seq(Nat)
  BY CutsSeqs DEF Direction
<1>2. PICK i \in Nat, j \in Nat, k \in Nat, m \in Nat :
        Within(r, 0, i) /\ Within(g, i, j) /\ Within(h, j, k) /\ Within(f, k, m)
        /\ Within(q, m, n)
  BY DEF Direction, Cuts
<1>3. /\ x \in Nat /\ m < x /\ x <= n /\ Within(Tail(q), x, n)
      /\ Tail(q) \in Seq(Nat) /\ Members(q) = Members(Tail(q)) \cup {x}
  BY <1>1, <1>2, WithinHead
<1> HIDE DEF x
<1>4. Within(Append(f, x), k, x) /\ Members(Append(f, x)) = Members(f) \cup {x}
  BY <1>1, <1>2, <1>3, WithinAppend
<1>5. Cuts(r, g, h, Append(f, x), Tail(q), n)
  BY <1>2, <1>3, <1>4 DEF Cuts
<1>6. Within(Tail(q), m, n)
  <2>1. m <= x /\ n <= n
    BY <1>3
  <2> QED  BY <1>3, <2>1, WithinWider
<1>7. Cuts(r, g, h, f, Tail(q), n)
  BY <1>2, <1>6 DEF Cuts
<1>8. i <= j /\ j <= k /\ k <= m
  BY <1>2, WithinSeq
<1>9. x \notin Inside(r, g, h, f, Tail(q))
  <2>1. x \notin Members(r) /\ x \notin Members(g)
    BY <1>1, <1>2, <1>3, <1>8, WithinMembers
  <2>2. x \notin Members(h) /\ x \notin Members(f)
    BY <1>1, <1>2, <1>3, <1>8, WithinMembers
  <2>3. x \notin Members(Tail(q))
    <3> SUFFICES ASSUME x \in Members(Tail(q))  PROVE FALSE
      OBVIOUS
    <3>1. x < x
      BY <1>3, WithinMembers
    <3> QED  BY <1>3, <3>1
  <2> QED  BY <2>1, <2>2, <2>3 DEF Inside
<1>10. /\ Inside(r, g, h, f, q) = Inside(r, g, h, f, Tail(q)) \cup {x}
       /\ Inside(r, g, h, Append(f, x), Tail(q)) = Inside(r, g, h, f, q)
  BY <1>3, <1>4 DEF Inside
<1>11. Account(Inside(r, g, h, f, Tail(q)), n, l, y \cup {x}, over) /\ x \notin y
  <2>1. Account(Inside(r, g, h, f, q), n, l, y, over)
    BY DEF Direction
  <2> QED  BY <1>9, <1>10, <2>1 DEF Account
<1> QED  BY <1>5, <1>7, <1>10, <1>11 DEF Direction, x

(* The forwarder takes a frame; it holds none.                             *)
LEMMA DirectionTake ==
  ASSUME NEW r, NEW g, NEW f, NEW q, NEW n \in Nat, NEW l, NEW y, NEW over,
         Direction(r, g, <<>>, f, q, n, l, y, over), f # <<>>
  PROVE  Direction(r, g, <<Head(f)>>, Tail(f), q, n, l, y, over)
<1> DEFINE x == Head(f)
<1>1. f \in Seq(Nat)
  BY CutsSeqs DEF Direction
<1>2. PICK i \in Nat, j \in Nat, k \in Nat, m \in Nat :
        Within(r, 0, i) /\ Within(g, i, j) /\ Within(<<>>, j, k) /\ Within(f, k, m)
        /\ Within(q, m, n)
  BY DEF Direction, Cuts
<1>3. /\ x \in Nat /\ k < x /\ x <= m /\ Within(Tail(f), x, m)
      /\ Members(f) = Members(Tail(f)) \cup {x}
  BY <1>1, <1>2, WithinHead
<1> HIDE DEF x
<1>4. j < x
  BY <1>2, <1>3, WithinSeq
<1>5. Within(<<x>>, j, x) /\ Members(<<x>>) = {x}
  <2>1. <<x>> \in Seq(Nat) /\ Len(<<x>>) = 1 /\ <<x>>[1] = x
    BY <1>3
  <2> QED  BY <1>3, <1>4, <2>1 DEF Within, Members
<1>6. Cuts(r, g, <<x>>, Tail(f), q, n)
  BY <1>2, <1>3, <1>5 DEF Cuts
<1>7. Inside(r, g, <<x>>, Tail(f), q) = Inside(r, g, <<>>, f, q)
  BY <1>3, <1>5, WithinEmpty DEF Inside
<1> QED  BY <1>6, <1>7 DEF Direction, x

(* The forwarder decides on the frame it holds: hop2, lost or refused.     *)
LEMMA DirectionDecide ==
  ASSUME NEW r, NEW g, NEW h, NEW f, NEW q, NEW n \in Nat, NEW l, NEW y, NEW over,
         NEW x, h = <<x>>, Direction(r, g, h, f, q, n, l, y, over)
  PROVE  /\ Direction(r, Append(g, x), <<>>, f, q, n, l, y, over)
         /\ Direction(r, g, <<>>, f, q, n, l \cup {x}, y, over)
         /\ Direction(r, g, <<>>, f, q, n, l, y \cup {x}, over)
         /\ x \notin y
<1>1. /\ r \in Seq(Nat) /\ g \in Seq(Nat) /\ h \in Seq(Nat) /\ f \in Seq(Nat)
      /\ q \in Seq(Nat)
  BY CutsSeqs DEF Direction
<1>2. PICK i \in Nat, j \in Nat, k \in Nat, m \in Nat :
        Within(r, 0, i) /\ Within(g, i, j) /\ Within(h, j, k) /\ Within(f, k, m)
        /\ Within(q, m, n)
  BY DEF Direction, Cuts
<1>3. x \in Nat /\ j < x /\ x <= k /\ Members(h) = {x}
  <2>1. Len(h) = 1 /\ h[1] = x /\ 1 \in 1 .. Len(h)
    OBVIOUS
  <2>2. j < h[1] /\ h[1] <= k
    BY <1>2, <2>1 DEF Within
  <2>3. x \in Nat
    BY <1>1, <2>1
  <2> QED  BY <2>1, <2>2, <2>3 DEF Members
<1>4. Within(Append(g, x), i, x) /\ Members(Append(g, x)) = Members(g) \cup {x}
  BY <1>1, <1>2, <1>3, WithinAppend
<1>5. i <= j /\ j <= k /\ k <= m /\ m <= n
  BY <1>2, WithinSeq
<1>6. Within(<<>>, x, k) /\ Within(<<>>, j, k) /\ Members(<<>>) = {}
  BY <1>3, <1>5, WithinEmpty
<1>7. Cuts(r, Append(g, x), <<>>, f, q, n)
  BY <1>2, <1>3, <1>4, <1>6 DEF Cuts
<1>8. Cuts(r, g, <<>>, f, q, n)
  BY <1>2, <1>6 DEF Cuts
<1>9. x \notin Inside(r, g, <<>>, f, q)
  <2>1. x \notin Members(r) /\ x \notin Members(g)
    BY <1>1, <1>2, <1>3, <1>5, WithinMembers
  <2>2. x \notin Members(f) /\ x \notin Members(q)
    BY <1>1, <1>2, <1>3, <1>5, WithinMembers
  <2> QED  BY <1>6, <2>1, <2>2 DEF Inside
<1>10. /\ Inside(r, g, h, f, q) = Inside(r, g, <<>>, f, q) \cup {x}
       /\ Inside(r, Append(g, x), <<>>, f, q) = Inside(r, g, h, f, q)
  BY <1>3, <1>4, <1>6 DEF Inside
<1>11. /\ Account(Inside(r, g, <<>>, f, q), n, l \cup {x}, y, over)
       /\ Account(Inside(r, g, <<>>, f, q), n, l, y \cup {x}, over)
       /\ x \notin y
  <2>1. Account(Inside(r, g, h, f, q), n, l, y, over)
    BY DEF Direction
  <2> QED  BY <1>9, <1>10, <2>1 DEF Account
<1> QED  BY <1>7, <1>8, <1>10, <1>11 DEF Direction

LEMMA DirectionRecv ==
  ASSUME NEW r, NEW g, NEW h, NEW f, NEW q, NEW n \in Nat, NEW l, NEW y, NEW over,
         Direction(r, g, h, f, q, n, l, y, over), g # <<>>
  PROVE  Direction(Append(r, Head(g)), Tail(g), h, f, q, n, l, y, over)
<1> DEFINE x == Head(g)
<1>1. r \in Seq(Nat) /\ g \in Seq(Nat)
  BY CutsSeqs DEF Direction
<1>2. PICK i \in Nat, j \in Nat, k \in Nat, m \in Nat :
        Within(r, 0, i) /\ Within(g, i, j) /\ Within(h, j, k) /\ Within(f, k, m)
        /\ Within(q, m, n)
  BY DEF Direction, Cuts
<1>3. /\ x \in Nat /\ i < x /\ x <= j /\ Within(Tail(g), x, j)
      /\ Members(g) = Members(Tail(g)) \cup {x}
  BY <1>1, <1>2, WithinHead
<1> HIDE DEF x
<1>4. Within(Append(r, x), 0, x) /\ Members(Append(r, x)) = Members(r) \cup {x}
  BY <1>1, <1>2, <1>3, WithinAppend
<1>5. Cuts(Append(r, x), Tail(g), h, f, q, n)
  BY <1>2, <1>3, <1>4 DEF Cuts
<1>6. Inside(Append(r, x), Tail(g), h, f, q) = Inside(r, g, h, f, q)
  BY <1>3, <1>4 DEF Inside
<1> QED  BY <1>5, <1>6 DEF Direction, x

(* What a task drops with its ends of the channels is nobody's any more.   *)
LEMMA DirectionClears ==
  ASSUME NEW r, NEW g, NEW h, NEW f, NEW q, NEW n \in Nat, NEW l, NEW y, NEW over,
         Direction(r, g, h, f, q, n, l, y, over)
  PROVE  /\ Direction(r, g, h, f, q, n, l, y, TRUE)
         /\ Direction(r, <<>>, h, f, q, n, l, y, TRUE)
         /\ Direction(r, g, <<>>, <<>>, q, n, l, y, TRUE)
<1>1. PICK i \in Nat, j \in Nat, k \in Nat, m \in Nat :
        Within(r, 0, i) /\ Within(g, i, j) /\ Within(h, j, k) /\ Within(f, k, m)
        /\ Within(q, m, n)
  BY DEF Direction, Cuts
<1>2. i <= j /\ j <= k /\ k <= m
  BY <1>1, WithinSeq
<1>3. Within(<<>>, i, j) /\ Within(<<>>, j, k) /\ Within(<<>>, k, m) /\ Members(<<>>) = {}
  BY <1>2, WithinEmpty
<1>4. Cuts(r, <<>>, h, f, q, n) /\ Cuts(r, g, <<>>, <<>>, q, n)
  BY <1>1, <1>3 DEF Cuts
<1>5. /\ Inside(r, <<>>, h, f, q) \subseteq Inside(r, g, h, f, q)
      /\ Inside(r, g, <<>>, <<>>, q) \subseteq Inside(r, g, h, f, q)
  BY <1>3 DEF Inside
<1>6. ASSUME NEW B, B \subseteq Inside(r, g, h, f, q)
      PROVE  Account(B, n, l, y, TRUE)
  BY <1>6 DEF Direction, Account
<1> QED  BY <1>4, <1>5, <1>6 DEF Direction

(* As long as nothing was dropped with a channel there is no gap.          *)
LEMMA DirectionNoGap ==
  ASSUME NEW r, NEW g, NEW h, NEW f, NEW q, NEW n \in Nat, NEW l, NEW y, NEW over,
         Direction(r, g, h, f, q, n, l, y, over), over # TRUE
  PROVE  NoGap(r, g, l \cup y)
<1>1. /\ r \in Seq(Nat) /\ g \in Seq(Nat) /\ h \in Seq(Nat) /\ f \in Seq(Nat)
      /\ q \in Seq(Nat)
  BY CutsSeqs DEF Direction
<1>2. PICK i \in Nat, j \in Nat, k \in Nat, m \in Nat :
        Within(r, 0, i) /\ Within(g, i, j) /\ Within(h, j, k) /\ Within(f, k, m)
        /\ Within(q, m, n)
  BY DEF Direction, Cuts
<1>3. i <= j /\ j <= k /\ k <= m
  BY <1>2, WithinSeq
<1> DEFINE R == Members(h) \cup Members(f) \cup Members(q)
<1>4. Members(r) \cup Members(g) \cup R \cup (l \cup y) = 1 .. n
  BY DEF Direction, Account, Inside
<1>5. \A x \in Members(r) \cup Members(g) : x <= j
  <2>1. \A x \in Members(r) : x \in Nat /\ x <= i
    BY <1>1, <1>2, WithinMembers
  <2>2. \A x \in Members(g) : x <= j
    BY <1>1, <1>2, WithinMembers
  <2> QED  BY <1>3, <2>1, <2>2
<1>6. \A x \in R : j < x
  <2>1. \A x \in Members(h) : j < x
    BY <1>1, <1>2, WithinMembers
  <2>2. \A x \in Members(f) : x \in Nat /\ k < x
    BY <1>1, <1>2, WithinMembers
  <2>3. \A x \in Members(q) : x \in Nat /\ m < x
    BY <1>1, <1>2, WithinMembers
  <2> QED  BY <1>3, <2>1, <2>2, <2>3
<1> HIDE DEF R
<1> QED  BY <1>4, <1>5, <1>6, NothingBelow

(* Whatever the channels, the forwarder and the queue hold is awaited.     *)
LEMMA DirectionAwaits ==
  ASSUME NEW r, NEW g, NEW h, NEW f, NEW q, NEW n \in Nat, NEW l, NEW y, NEW over,
         Direction(r, g, h, f, q, n, l, y, over),
         NEW x \in Members(g) \cup Members(h) \cup Members(f) \cup Members(q)
  PROVE  x \in Awaited(r, n, l \cup y)
<1>1. /\ r \in Seq(Nat) /\ g \in Seq(Nat) /\ h \in Seq(Nat) /\ f \in Seq(Nat)
      /\ q \in Seq(Nat)
  BY CutsSeqs DEF Direction
<1>2. PICK i \in Nat, j \in Nat, k \in Nat, m \in Nat :
        Within(r, 0, i) /\ Within(g, i, j) /\ Within(h, j, k) /\ Within(f, k, m)
        /\ Within(q, m, n)
  BY DEF Direction, Cuts
<1>3. i <= j /\ j <= k /\ k <= m
  BY <1>2, WithinSeq
<1>4. x \in Nat /\ i < x
  <2>1. x \in Members(g) => x \in Nat /\ i < x
    BY <1>1, <1>2, WithinMembers
  <2>2. x \in Members(h) => x \in Nat /\ j < x
    BY <1>1, <1>2, WithinMembers
  <2>3. x \in Members(f) => x \in Nat /\ k < x
    BY <1>1, <1>2, WithinMembers
  <2>4. x \in Members(q) => x \in Nat /\ m < x
    BY <1>1, <1>2, WithinMembers
  <2> QED  BY <1>3, <2>1, <2>2, <2>3, <2>4
<1>5. LastOf(r) \in Nat /\ LastOf(r) <= i
  BY <1>2, LastBounds
<1>6. x \in 1 .. n /\ x \notin l \cup y
  BY DEF Direction, Account, Inside
<1> QED  BY <1>4, <1>5, <1>6 DEF Awaited

-----------------------------------------------------------------------------
(* The link.                                                               *)

(* A task that used a channel of direction e has dropped its end of it.    *)
Gone(e) == e \notin fwd \/ Peer(e) \notin worker

D(e) ==
  Direction(received[e], hop2[e], Held(e), hop1[e], queue[e], sent[e], lost[e],
            refused[e], Gone(e))

Directions == \A e \in End : D(e)

(* A task that has returned has closed the link or found it closed.        *)
ClosesFirst == worker # End \/ fwd # End => closed

IInv == TypeOK /\ Directions /\ ClosesFirst /\ StaysUp /\ OverflowCounted

LEMMA EndFacts == \A e \in End : Peer(e) \in End /\ Peer(e) # e
  BY DEF End, Peer

LEMMA FrameFacts == Sizes => Frame \subseteq Nat \ {0} /\ NoFrame \notin Frame /\ NoFrame = 0
  BY DEF Sizes, Frame, NoFrame

LEMMA LinkInit ==
  ASSUME Sizes
  PROVE  Init => IInv
<1> SUFFICES ASSUME Init  PROVE IInv
  OBVIOUS
<1>1. TypeOK
  <2>1. /\ sent \in [End -> 0 .. MaxFrames] /\ drops \in 0 .. DropsLimit
        /\ \A e \in End : Len(hop1[e]) <= HopFrames /\ Len(hop2[e]) <= HopFrames
    BY DEF Init, Sizes
  <2>2. <<>> \in Seq(Frame) /\ {} \in SUBSET Frame
    OBVIOUS
  <2>3. /\ queue \in [End -> Seq(Frame)] /\ hop1 \in [End -> Seq(Frame)]
        /\ hop2 \in [End -> Seq(Frame)] /\ received \in [End -> Seq(Frame)]
    BY <2>2 DEF Init
  <2>4. /\ held \in [End -> Frame \cup {NoFrame}]
        /\ lost \in [End -> SUBSET Frame] /\ refused \in [End -> SUBSET Frame]
    BY <2>2 DEF Init
  <2> QED  BY <2>1, <2>3, <2>4 DEF Init, TypeOK
<1>2. ASSUME NEW e \in End  PROVE D(e)
  <2>1. Held(e) = <<>>
    BY DEF Init, Held
  <2>2. Within(<<>>, 0, 0) /\ Members(<<>>) = {}
    BY WithinEmpty
  <2>3. Cuts(<<>>, <<>>, <<>>, <<>>, <<>>, 0) /\ Inside(<<>>, <<>>, <<>>, <<>>, <<>>) = {}
    BY <2>2 DEF Cuts, Inside
  <2>4. Direction(<<>>, <<>>, <<>>, <<>>, <<>>, 0, {}, {}, Gone(e))
    BY <2>3 DEF Direction, Account
  <2> QED  BY <2>1, <2>4 DEF Init, D
<1>3. OverflowCounted
  BY FS_EmptySet DEF Init, OverflowCounted, End, Sizes
<1> QED  BY <1>1, <1>2, <1>3 DEF Init, IInv, Directions, ClosesFirst, StaysUp

(* A frame that a full channel refuses is counted once.                    *)
LEMMA CountsRefused ==
  ASSUME Sizes, IInv, NEW e \in End, NEW x, x \notin refused[e],
         drops' = Counted, refused' = [refused EXCEPT ![e] = @ \cup {x}]
  PROVE  OverflowCounted'
<1> DEFINE n == Cardinality(refused["parent"]) + Cardinality(refused["child"])
<1>1. \A d \in End : IsFiniteSet(refused[d]) /\ Cardinality(refused[d]) \in Nat
  <2> SUFFICES ASSUME NEW d \in End
               PROVE  IsFiniteSet(refused[d]) /\ Cardinality(refused[d]) \in Nat
    OBVIOUS
  <2>1. refused[d] \in SUBSET Frame /\ IsFiniteSet(Frame)
    BY FS_Interval DEF IInv, TypeOK, Sizes, Frame
  <2>2. IsFiniteSet(refused[d])
    BY <2>1, FS_Subset
  <2> QED  BY <2>2, FS_CardinalityType
<1>2. Cardinality(refused[e] \cup {x}) = Cardinality(refused[e]) + 1
  BY <1>1, FS_AddElement
<1>3. \A d \in End : refused'[d] = IF d = e THEN refused[e] \cup {x} ELSE refused[d]
  BY DEF IInv, TypeOK
<1>4. "parent" \in End /\ "child" \in End /\ (e = "parent" \/ e = "child")
  BY DEF End
<1>5. Cardinality(refused'["parent"]) + Cardinality(refused'["child"]) = n + 1
  <2>1. CASE e = "parent"
    BY <1>1, <1>2, <1>3, <1>4, <2>1
  <2>2. CASE e = "child"
    BY <1>1, <1>2, <1>3, <1>4, <2>2
  <2> QED  BY <1>4, <2>1, <2>2
<1>6. n \in Nat /\ drops = IF n < DropsLimit THEN n ELSE DropsLimit
  BY <1>1, <1>4 DEF IInv, OverflowCounted
<1> HIDE DEF n
<1>7. drops' = IF n + 1 < DropsLimit THEN n + 1 ELSE DropsLimit
  BY <1>6 DEF Counted, Sizes
<1> QED  BY <1>5, <1>7 DEF OverflowCounted

(* Where a step touches one direction only, the other is as it was.        *)
LEMMA OtherDirection ==
  ASSUME Directions, NEW e \in End, D(e)',
         \A d \in End : d # e => D(d)'
  PROVE  Directions'
  BY DEF Directions

LEMMA StepAccept ==
  ASSUME Sizes, IInv, NEW e \in End, Accept(e)
  PROVE  IInv'
<1>1. /\ sent["parent"] + sent["child"] < MaxFrames
      /\ sent' = [sent EXCEPT ![e] = @ + 1]
      /\ queue' = [queue EXCEPT ![e] = Append(@, sent[e] + 1)]
      /\ UNCHANGED <<hop1, held, hop2, worker, fwd, closed, latency, loss, drops,
                     called, lost, refused, received>>
  BY DEF Accept, tasks, params
<1>2. sent[e] \in Nat /\ sent[e] + 1 \in Frame
  BY <1>1 DEF IInv, TypeOK, End, Frame, Sizes
<1>3. TypeOK'
  <2>1. sent[e] + 1 \in 0 .. MaxFrames
    BY <1>2 DEF Frame, Sizes
  <2>2. sent' \in [End -> 0 .. MaxFrames] /\ queue' \in [End -> Seq(Frame)]
    BY <1>1, <1>2, <2>1 DEF IInv, TypeOK
  <2> QED  BY <1>1, <2>2 DEF IInv, TypeOK
<1>4. D(e)'
  <2>1. Direction(received[e], hop2[e], Held(e), hop1[e], Append(queue[e], sent[e] + 1),
                  sent[e] + 1, lost[e], refused[e], Gone(e))
    BY <1>2, DirectionAccept DEF IInv, Directions, D
  <2>2. queue'[e] = Append(queue[e], sent[e] + 1) /\ sent'[e] = sent[e] + 1
    BY <1>1 DEF IInv, TypeOK
  <2> QED  BY <1>1, <2>1, <2>2 DEF D, Gone, Held
<1>5. \A d \in End : d # e => D(d)'
  BY <1>1 DEF IInv, TypeOK, Directions, D, Gone, Held
<1> QED
  BY <1>1, <1>3, <1>4, <1>5, OtherDirection
     DEF IInv, Directions, ClosesFirst, StaysUp, OverflowCounted

LEMMA StepSend ==
  ASSUME Sizes, IInv, NEW e \in End, WorkerSend(e)
  PROVE  IInv'
<1> DEFINE x == Head(queue[e])
<1>1. /\ queue[e] # <<>> /\ queue' = [queue EXCEPT ![e] = Tail(@)]
      /\ Sends(e, x, hop1, hop1')
      /\ UNCHANGED <<held, hop2, worker, fwd, closed, latency, loss, called, sent,
                     lost, received>>
  BY DEF WorkerSend, tasks, params
<1>2. /\ queue[e] \in Seq(Frame) /\ x \in Frame /\ Tail(queue[e]) \in Seq(Frame)
      /\ sent[e] \in Nat
  BY <1>1 DEF IInv, TypeOK
<1>3. /\ Direction(received[e], hop2[e], Held(e), Append(hop1[e], x), Tail(queue[e]),
                   sent[e], lost[e], refused[e], Gone(e))
      /\ Direction(received[e], hop2[e], Held(e), hop1[e], Tail(queue[e]), sent[e],
                   lost[e], refused[e] \cup {x}, Gone(e))
      /\ x \notin refused[e]
  BY <1>1, <1>2, DirectionSend DEF IInv, Directions, D
<1>4. queue' \in [End -> Seq(Frame)] /\ queue'[e] = Tail(queue[e])
  BY <1>1, <1>2 DEF IInv, TypeOK
<1> HIDE DEF x
<1>5. CASE Full(hop1[e])
  <2>1. /\ hop1' = hop1 /\ drops' = Counted
        /\ refused' = [refused EXCEPT ![e] = @ \cup {x}]
    BY <1>1, <1>5 DEF Sends
  <2>2. drops' \in 0 .. DropsLimit
    BY <2>1 DEF Counted, IInv, TypeOK, Sizes
  <2>3. TypeOK'
    BY <1>1, <1>2, <1>4, <2>1, <2>2 DEF IInv, TypeOK
  <2>4. refused'[e] = refused[e] \cup {x}
    BY <2>1 DEF IInv, TypeOK
  <2>5. D(e)'
    BY <1>1, <1>3, <1>4, <2>1, <2>4 DEF D, Gone, Held
  <2>6. \A d \in End : d # e => D(d)'
    BY <1>1, <2>1 DEF IInv, TypeOK, Directions, D, Gone, Held
  <2> QED
    BY <1>1, <1>3, <2>1, <2>3, <2>5, <2>6, OtherDirection, CountsRefused
       DEF IInv, ClosesFirst, StaysUp
<1>6. CASE ~Full(hop1[e])
  <2>1. /\ hop1' = [hop1 EXCEPT ![e] = Append(@, x)] /\ UNCHANGED <<drops, refused>>
        /\ hop1[e] \in Seq(Frame) /\ Len(hop1[e]) < HopFrames
    BY <1>1, <1>6 DEF Sends, Full, IInv, TypeOK, Sizes
  <2>2. Append(hop1[e], x) \in Seq(Frame) /\ Len(Append(hop1[e], x)) <= HopFrames
    BY <1>2, <2>1 DEF Sizes
  <2>3. TypeOK'
    BY <1>1, <1>2, <1>4, <2>1, <2>2 DEF IInv, TypeOK
  <2>4. hop1'[e] = Append(hop1[e], x)
    BY <2>1 DEF IInv, TypeOK
  <2>5. D(e)'
    BY <1>1, <1>3, <1>4, <2>1, <2>4 DEF D, Gone, Held
  <2>6. \A d \in End : d # e => D(d)'
    BY <1>1, <2>1 DEF IInv, TypeOK, Directions, D, Gone, Held
  <2> QED
    BY <1>1, <2>1, <2>3, <2>5, <2>6, OtherDirection
       DEF IInv, ClosesFirst, StaysUp, OverflowCounted
<1> QED  BY <1>5, <1>6

LEMMA StepRecv ==
  ASSUME Sizes, IInv, NEW e \in End, WorkerRecv(e)
  PROVE  IInv'
<1> DEFINE d == Peer(e)
           x == Head(hop2[d])
<1>1. /\ hop2[d] # <<>> /\ hop2' = [hop2 EXCEPT ![d] = Tail(@)]
      /\ received' = [received EXCEPT ![d] = Append(@, x)]
      /\ UNCHANGED <<queue, hop1, held, worker, fwd, closed, latency, loss, drops,
                     called, sent, lost, refused>>
  BY DEF WorkerRecv, tasks, params
<1>2. d \in End
  BY EndFacts
<1> HIDE DEF d
<1>3. /\ hop2[d] \in Seq(Frame) /\ x \in Frame /\ Tail(hop2[d]) \in Seq(Frame)
      /\ Len(Tail(hop2[d])) <= HopFrames
      /\ sent[d] \in Nat /\ received[d] \in Seq(Frame)
  BY <1>1, <1>2 DEF IInv, TypeOK, Sizes
<1>4. Direction(Append(received[d], x), Tail(hop2[d]), Held(d), hop1[d], queue[d],
                sent[d], lost[d], refused[d], Gone(d))
  BY <1>1, <1>2, <1>3, DirectionRecv DEF IInv, Directions, D
<1> HIDE DEF x
<1>5. Append(received[d], x) \in Seq(Frame)
  BY <1>3
<1>6. TypeOK'
  BY <1>1, <1>2, <1>3, <1>5 DEF IInv, TypeOK
<1>7. received'[d] = Append(received[d], x) /\ hop2'[d] = Tail(hop2[d])
  BY <1>1, <1>2 DEF IInv, TypeOK
<1>8. D(d)'
  BY <1>1, <1>4, <1>7 DEF D, Gone, Held
<1>9. \A c \in End : c # d => D(c)'
  BY <1>1 DEF IInv, TypeOK, Directions, D, Gone, Held
<1> QED
  BY <1>1, <1>2, <1>6, <1>8, <1>9, OtherDirection
     DEF IInv, ClosesFirst, StaysUp, OverflowCounted

(* The end of a worker closes the link and empties its channel.            *)
LEMMA StepReturns ==
  ASSUME Sizes, IInv, NEW e \in End, WorkerReturns(e), called' \in BOOLEAN, called'
  PROVE  IInv'
<1>1. /\ worker' = worker \ {e} /\ closed' = TRUE
      /\ hop2' = [hop2 EXCEPT ![Peer(e)] = <<>>]
      /\ UNCHANGED <<queue, hop1, held, fwd, latency, loss, drops, sent, lost,
                     refused, received>>
  BY DEF WorkerReturns, params, account
<1>2. Peer(e) \in End
  BY EndFacts
<1>3. TypeOK'
  BY <1>1, <1>2 DEF IInv, TypeOK, Sizes
<1>4. ASSUME NEW d \in End  PROVE D(d)'
  <2>1. /\ Direction(received[d], hop2[d], Held(d), hop1[d], queue[d], sent[d], lost[d],
                     refused[d], TRUE)
        /\ Direction(received[d], <<>>, Held(d), hop1[d], queue[d], sent[d], lost[d],
                     refused[d], TRUE)
    <3>1. sent[d] \in Nat
      BY DEF IInv, TypeOK
    <3> QED  BY <3>1, DirectionClears DEF IInv, Directions, D
  <2>2. CASE d = Peer(e)
    <3>1. hop2'[d] = <<>> /\ Gone(d)' = TRUE
      <4>1. Peer(d) = e
        BY <2>2 DEF Peer, End
      <4> QED  BY <1>1, <1>2, <2>2, <4>1 DEF IInv, TypeOK, Gone
    <3> QED  BY <1>1, <2>1, <3>1 DEF D, Held
  <2>3. CASE d # Peer(e)
    <3>1. hop2'[d] = hop2[d] /\ Gone(d)' = Gone(d)
      <4>1. Peer(d) # e /\ Peer(d) \in End
        BY <2>3 DEF Peer, End
      <4> QED  BY <1>1, <1>2, <2>3, <4>1 DEF IInv, TypeOK, Gone
    <3> QED  BY <1>1, <3>1 DEF IInv, Directions, D, Held
  <2> QED  BY <2>2, <2>3
<1> QED
  BY <1>1, <1>3, <1>4 DEF IInv, Directions, ClosesFirst, StaysUp, OverflowCounted

LEMMA StepFwdReturns ==
  ASSUME Sizes, IInv, NEW e \in End, FwdReturns(e), closed = TRUE, called
  PROVE  IInv'
<1>1. /\ fwd' = fwd \ {e} /\ hop1' = [hop1 EXCEPT ![e] = <<>>]
      /\ held' = [held EXCEPT ![e] = NoFrame]
      /\ UNCHANGED <<queue, hop2, worker, closed, called, latency, loss, drops, sent,
                     lost, refused, received>>
  BY DEF FwdReturns, params, account
<1>2. TypeOK'
  BY <1>1 DEF IInv, TypeOK, Sizes
<1>3. ASSUME NEW d \in End  PROVE D(d)'
  <2>1. Direction(received[d], hop2[d], <<>>, <<>>, queue[d], sent[d], lost[d],
                  refused[d], TRUE)
    <3>1. sent[d] \in Nat
      BY DEF IInv, TypeOK
    <3> QED  BY <3>1, DirectionClears DEF IInv, Directions, D
  <2>2. CASE d = e
    <3>1. hop1'[d] = <<>> /\ held'[d] = NoFrame /\ Gone(d)' = TRUE
      BY <1>1, <2>2 DEF IInv, TypeOK, Gone
    <3> QED  BY <1>1, <2>1, <3>1 DEF D, Held
  <2>3. CASE d # e
    <3>1. hop1'[d] = hop1[d] /\ held'[d] = held[d] /\ Gone(d)' = Gone(d)
      BY <1>1, <2>3 DEF IInv, TypeOK, Gone
    <3> QED  BY <1>1, <3>1 DEF IInv, Directions, D, Held
  <2> QED  BY <2>2, <2>3
<1> QED
  BY <1>1, <1>2, <1>3 DEF IInv, Directions, ClosesFirst, StaysUp, OverflowCounted

(* The forwarder decides on frame x, which its direction holds.            *)
LEMMA StepDecide ==
  ASSUME Sizes, IInv, NEW e \in End, NEW x \in Frame, NEW f \in Seq(Frame),
         Len(f) <= HopFrames, FwdDecides(e, x),
         Direction(received[e], hop2[e], <<x>>, f, queue[e], sent[e], lost[e],
                   refused[e], Gone(e)),
         hop1' \in [End -> Seq(Frame)], hop1'[e] = f,
         \A d \in End : d # e => hop1'[d] = hop1[d] /\ held'[d] = held[d],
         held' \in [End -> Frame \cup {NoFrame}], held'[e] = NoFrame,
         UNCHANGED <<queue, worker, fwd, closed, latency, loss, called, sent, received>>
  PROVE  IInv'
<1>1. /\ Direction(received[e], Append(hop2[e], x), <<>>, f, queue[e], sent[e], lost[e],
                   refused[e], Gone(e))
      /\ Direction(received[e], hop2[e], <<>>, f, queue[e], sent[e], lost[e] \cup {x},
                   refused[e], Gone(e))
      /\ Direction(received[e], hop2[e], <<>>, f, queue[e], sent[e], lost[e],
                   refused[e] \cup {x}, Gone(e))
      /\ x \notin refused[e]
  <2> DEFINE h == <<x>>
  <2>1. sent[e] \in Nat
    BY DEF IInv, TypeOK
  <2>2. h = <<x>> /\ Direction(received[e], hop2[e], h, f, queue[e], sent[e], lost[e],
                              refused[e], Gone(e))
    OBVIOUS
  <2> HIDE DEF h
  <2> QED  BY ONLY <2>1, <2>2, DirectionDecide
<1>2. Held(e)' = <<>>
  BY DEF Held
<1>3. \A d \in End : d # e => Held(d)' = Held(d)
  BY DEF Held
<1>4. \A d \in End : Len(hop1'[d]) <= HopFrames
  BY DEF IInv, TypeOK
<1>5. CASE lost' = [lost EXCEPT ![e] = @ \cup {x}] /\ UNCHANGED <<hop2, drops, refused>>
  <2>1. lost' \in [End -> SUBSET Frame]
    BY <1>5 DEF IInv, TypeOK
  <2>2. TypeOK'
    BY <1>4, <1>5, <2>1 DEF IInv, TypeOK
  <2>3. lost'[e] = lost[e] \cup {x} /\ \A d \in End : d # e => lost'[d] = lost[d]
    BY <1>5 DEF IInv, TypeOK
  <2>4. D(e)'
    BY <1>1, <1>2, <1>5, <2>3 DEF D, Gone
  <2>5. \A d \in End : d # e => D(d)'
    BY <1>3, <1>5, <2>3 DEF IInv, Directions, D, Gone
  <2> QED
    BY <1>5, <2>2, <2>4, <2>5, OtherDirection
       DEF IInv, ClosesFirst, StaysUp, OverflowCounted
<1>6. CASE /\ Full(hop2[e]) /\ hop2' = hop2 /\ drops' = Counted
           /\ refused' = [refused EXCEPT ![e] = @ \cup {x}] /\ UNCHANGED lost
  <2>1. refused' \in [End -> SUBSET Frame] /\ drops' \in 0 .. DropsLimit
    BY <1>6 DEF IInv, TypeOK, Counted, Sizes
  <2>2. TypeOK'
    BY <1>4, <1>6, <2>1 DEF IInv, TypeOK
  <2>3. refused'[e] = refused[e] \cup {x} /\ \A d \in End : d # e => refused'[d] = refused[d]
    BY <1>6 DEF IInv, TypeOK
  <2>4. D(e)'
    BY <1>1, <1>2, <1>6, <2>3 DEF D, Gone
  <2>5. \A d \in End : d # e => D(d)'
    BY <1>3, <1>6, <2>3 DEF IInv, Directions, D, Gone
  <2> QED
    BY <1>1, <1>6, <2>2, <2>4, <2>5, OtherDirection, CountsRefused
       DEF IInv, ClosesFirst, StaysUp
<1>7. CASE /\ ~Full(hop2[e]) /\ hop2' = [hop2 EXCEPT ![e] = Append(@, x)]
           /\ UNCHANGED <<drops, refused, lost>>
  <2>1. hop2[e] \in Seq(Frame) /\ Len(hop2[e]) < HopFrames
    BY <1>7 DEF Full, IInv, TypeOK, Sizes
  <2>2. Append(hop2[e], x) \in Seq(Frame) /\ Len(Append(hop2[e], x)) <= HopFrames
    BY <2>1 DEF Sizes
  <2>3. TypeOK'
    BY <1>4, <1>7, <2>2 DEF IInv, TypeOK
  <2>4. hop2'[e] = Append(hop2[e], x) /\ \A d \in End : d # e => hop2'[d] = hop2[d]
    BY <1>7 DEF IInv, TypeOK
  <2>5. D(e)'
    BY <1>1, <1>2, <1>7, <2>4 DEF D, Gone
  <2>6. \A d \in End : d # e => D(d)'
    BY <1>3, <1>7, <2>4 DEF IInv, Directions, D, Gone
  <2> QED
    BY <1>7, <2>3, <2>5, <2>6, OtherDirection
       DEF IInv, ClosesFirst, StaysUp, OverflowCounted
<1>8. FwdDecides(e, x)
  OBVIOUS
<1> QED  BY <1>5, <1>6, <1>7, <1>8 DEF FwdDecides, Sends

LEMMA StepTake ==
  ASSUME Sizes, IInv, NEW e \in End, FwdTake(e)
  PROVE  IInv'
<1> DEFINE x == Head(hop1[e])
<1>1. /\ held[e] = NoFrame /\ hop1[e] # <<>> /\ hop1' = [hop1 EXCEPT ![e] = Tail(@)]
      /\ UNCHANGED <<queue, worker, fwd, closed, latency, loss, called, sent, received>>
  BY DEF FwdTake, tasks, params
<1>2. /\ hop1[e] \in Seq(Frame) /\ x \in Frame /\ Tail(hop1[e]) \in Seq(Frame)
      /\ Len(Tail(hop1[e])) <= HopFrames /\ sent[e] \in Nat
  BY <1>1 DEF IInv, TypeOK, Sizes
<1>3. /\ hop1' \in [End -> Seq(Frame)] /\ hop1'[e] = Tail(hop1[e])
      /\ \A d \in End : d # e => hop1'[d] = hop1[d]
  BY <1>1, <1>2 DEF IInv, TypeOK
<1>4. Direction(received[e], hop2[e], <<x>>, Tail(hop1[e]), queue[e], sent[e], lost[e],
                refused[e], Gone(e))
  <2>1. Direction(received[e], hop2[e], <<>>, hop1[e], queue[e], sent[e], lost[e],
                  refused[e], Gone(e))
    BY <1>1 DEF IInv, Directions, D, Held
  <2> QED  BY <1>1, <1>2, <2>1, DirectionTake
<1>5. CASE latency
  <2>1. held' = [held EXCEPT ![e] = x] /\ UNCHANGED <<hop2, drops, lost, refused>>
    BY <1>5 DEF FwdTake
  <2> HIDE DEF x
  <2>2. held' \in [End -> Frame \cup {NoFrame}] /\ held'[e] = x
    BY <1>2, <2>1 DEF IInv, TypeOK
  <2>3. TypeOK'
    BY <1>1, <1>2, <1>3, <2>1, <2>2 DEF IInv, TypeOK
  <2>4. Held(e)' = <<x>>
    BY <1>2, <2>2, FrameFacts DEF Held
  <2>5. D(e)'
    BY <1>1, <1>3, <1>4, <2>1, <2>4 DEF D, Gone
  <2>6. \A d \in End : d # e => D(d)'
    BY <1>1, <1>3, <2>1 DEF IInv, TypeOK, Directions, D, Gone, Held
  <2> QED
    BY <1>1, <2>1, <2>3, <2>5, <2>6, OtherDirection
       DEF IInv, ClosesFirst, StaysUp, OverflowCounted
<1>6. CASE ~latency
  <2>1. FwdDecides(e, x) /\ held' = held
    BY <1>6 DEF FwdTake
  <2> HIDE DEF x
  <2>2. held' \in [End -> Frame \cup {NoFrame}] /\ held'[e] = NoFrame
    BY <1>1, <2>1 DEF IInv, TypeOK
  <2> QED  BY <1>1, <1>2, <1>3, <1>4, <2>1, <2>2, StepDecide
<1> QED  BY <1>5, <1>6

LEMMA StepDelayed ==
  ASSUME Sizes, IInv, NEW e \in End, FwdDelayed(e)
  PROVE  IInv'
<1> DEFINE x == held[e]
<1>1. /\ x # NoFrame /\ FwdDecides(e, x) /\ held' = [held EXCEPT ![e] = NoFrame]
      /\ UNCHANGED <<queue, hop1, worker, fwd, closed, latency, loss, called, sent,
                     received>>
  BY DEF FwdDelayed, tasks, params
<1>2. /\ x \in Frame /\ hop1[e] \in Seq(Frame) /\ Len(hop1[e]) <= HopFrames
      /\ hop1' \in [End -> Seq(Frame)]
  BY <1>1 DEF IInv, TypeOK
<1>3. Direction(received[e], hop2[e], <<x>>, hop1[e], queue[e], sent[e], lost[e],
                refused[e], Gone(e))
  BY <1>1 DEF IInv, Directions, D, Held
<1>4. /\ held' \in [End -> Frame \cup {NoFrame}] /\ held'[e] = NoFrame
      /\ \A d \in End : d # e => hop1'[d] = hop1[d] /\ held'[d] = held[d]
  BY <1>1 DEF IInv, TypeOK
<1> HIDE DEF x
<1> QED  BY <1>1, <1>2, <1>3, <1>4, StepDecide

(* Whatever the link does keeps the invariant.                             *)
LEMMA LinkStep ==
  ASSUME Sizes, IInv, Next
  PROVE  IInv'
<1>1. ASSUME NEW e \in End, Accept(e)  PROVE IInv'
  BY <1>1, StepAccept
<1>2. ASSUME NEW e \in End, WorkerSend(e)  PROVE IInv'
  BY <1>2, StepSend
<1>3. ASSUME NEW e \in End, WorkerRecv(e)  PROVE IInv'
  BY <1>3, StepRecv
<1>4. ASSUME NEW e \in End, WorkerEnds(e)  PROVE IInv'
  <2>1. called
    <3>1. closed \/ fwd # End
      BY <1>4, EndFacts DEF WorkerEnds
    <3> QED  BY <3>1 DEF IInv, StaysUp
  <2>2. called' = called /\ WorkerReturns(e)
    BY <1>4 DEF WorkerEnds
  <2> QED  BY <2>1, <2>2, StepReturns DEF IInv, TypeOK
<1>5. ASSUME NEW e \in End, WorkerFails(e)  PROVE IInv'
  BY <1>5, StepReturns DEF WorkerFails
<1>6. ASSUME NEW e \in End, FwdTake(e)  PROVE IInv'
  BY <1>6, StepTake
<1>7. ASSUME NEW e \in End, FwdDelayed(e)  PROVE IInv'
  BY <1>7, StepDelayed
<1>8. ASSUME NEW e \in End, FwdEnds(e)  PROVE IInv'
  <2>1. closed \/ worker # End
    BY <1>8, EndFacts DEF FwdEnds
  <2>2. closed = TRUE /\ called
    BY <2>1 DEF IInv, ClosesFirst, StaysUp, TypeOK
  <2> QED  BY <1>8, <2>2, StepFwdReturns DEF FwdEnds
<1>9. CASE Close
  <2>1. /\ closed' = TRUE /\ called' = TRUE
        /\ UNCHANGED <<queue, hop1, held, hop2, worker, fwd, latency, loss, drops,
                       sent, lost, refused, received>>
    BY <1>9 DEF Close, path, tasks, params, account
  <2>2. Directions'
    BY <2>1 DEF IInv, Directions, D, Gone, Held
  <2> QED
    BY <2>1, <2>2 DEF IInv, TypeOK, ClosesFirst, StaysUp, OverflowCounted
<1>10. ASSUME NEW lat \in BOOLEAN, NEW los \in BOOLEAN, SetImpairment(lat, los)
       PROVE  IInv'
  <2>1. /\ latency' \in BOOLEAN /\ loss' \in BOOLEAN
        /\ UNCHANGED <<queue, hop1, held, hop2, worker, fwd, closed, drops, called,
                       sent, lost, refused, received>>
    BY <1>10 DEF SetImpairment, path, tasks, account
  <2> QED
    BY <2>1
       DEF IInv, TypeOK, Directions, D, Gone, Held, ClosesFirst, StaysUp, OverflowCounted
<1> QED
  BY <1>1, <1>2, <1>3, <1>4, <1>5, <1>6, <1>7, <1>8, <1>9, <1>10
     DEF Next, WorkerTurn, FwdTurn

LEMMA LinkStutters == ASSUME IInv, UNCHANGED vars  PROVE IInv'
<1>1. UNCHANGED <<queue, hop1, held, hop2, worker, fwd, closed, latency, loss, drops,
                  called, sent, lost, refused, received>>
  BY DEF vars, path, tasks, params, account
<1> QED
  BY <1>1
     DEF IInv, TypeOK, Directions, D, Gone, Held, ClosesFirst, StaysUp, OverflowCounted

(* What a direction carries is one ascending run.                          *)
LEMMA CarriedRuns ==
  ASSUME IInv, NEW e \in End
  PROVE  /\ Within(Carried(e), 0, sent[e])
         /\ Members(Carried(e))
              = Inside(received[e], hop2[e], Held(e), hop1[e], queue[e])
<1> DEFINE r == received[e]
           g == hop2[e]
           h == Held(e)
           f == hop1[e]
           q == queue[e]
           n == sent[e]
<1>1. Cuts(r, g, h, f, q, n) /\ n \in Nat /\ Carried(e) = r \o g \o h \o f \o q
  BY DEF IInv, TypeOK, Directions, D, Direction, Carried
<1> HIDE DEF r, g, h, f, q, n
<1>2. /\ r \in Seq(Nat) /\ g \in Seq(Nat) /\ h \in Seq(Nat) /\ f \in Seq(Nat)
      /\ q \in Seq(Nat)
  BY <1>1, CutsSeqs
<1>3. PICK i \in Nat, j \in Nat, k \in Nat, m \in Nat :
        Within(r, 0, i) /\ Within(g, i, j) /\ Within(h, j, k) /\ Within(f, k, m)
        /\ Within(q, m, n)
  BY <1>1 DEF Cuts
<1> DEFINE rg == r \o g
           rgh == rg \o h
           rghf == rgh \o f
<1>4. Within(rg, 0, j) /\ Members(rg) = Members(r) \cup Members(g)
  BY <1>2, <1>3, WithinConcat
<1> HIDE DEF rg
<1>5. rg \in Seq(Nat)
  BY <1>4, WithinSeq
<1>6. Within(rgh, 0, k) /\ Members(rgh) = Members(rg) \cup Members(h)
  BY <1>2, <1>3, <1>4, <1>5, WithinConcat
<1> HIDE DEF rgh
<1>7. rgh \in Seq(Nat)
  BY <1>6, WithinSeq
<1>8. Within(rghf, 0, m) /\ Members(rghf) = Members(rgh) \cup Members(f)
  BY <1>2, <1>3, <1>6, <1>7, WithinConcat
<1> HIDE DEF rghf
<1>9. rghf \in Seq(Nat)
  BY <1>8, WithinSeq
<1>10. /\ Within(rghf \o q, 0, n)
       /\ Members(rghf \o q) = Members(rghf) \cup Members(q)
  BY <1>1, <1>2, <1>3, <1>8, <1>9, WithinConcat
<1>11. Carried(e) = rghf \o q
  BY <1>1 DEF rghf, rgh, rg
<1>12. Members(Carried(e)) = Inside(r, g, h, f, q)
  BY <1>4, <1>6, <1>8, <1>10, <1>11 DEF Inside
<1> QED  BY <1>10, <1>11, <1>12 DEF r, g, h, f, q, n

LEMMA IInvInOrder == ASSUME IInv  PROVE InOrder
<1> SUFFICES ASSUME NEW e \in End, NEW i \in DOMAIN Carried(e),
                    NEW j \in DOMAIN Carried(e), i < j
             PROVE  Carried(e)[i] < Carried(e)[j]
  BY DEF InOrder
<1> DEFINE s == Carried(e)
<1>1. Within(s, 0, sent[e])
  BY CarriedRuns
<1> HIDE DEF s
<1>2. s \in Seq(Nat) /\ DOMAIN s = 1 .. Len(s)
  BY <1>1, WithinSeq
<1>3. i \in 1 .. Len(s) /\ j \in 1 .. Len(s)
  BY <1>2 DEF s
<1>4. s[i] < s[j]
  BY <1>1, <1>3 DEF Within
<1> QED  BY <1>4 DEF s

LEMMA IInvAccounted == ASSUME IInv  PROVE EveryFrameAccounted
<1> SUFFICES ASSUME NEW e \in End
             PROVE  /\ lost[e] \cap refused[e] = {}
                    /\ (lost[e] \cup refused[e]) \cap Frames(Carried(e)) = {}
                    /\ ~closed => lost[e] \cup refused[e] \cup Frames(Carried(e))
                                    = 1 .. sent[e]
  BY DEF EveryFrameAccounted
<1>1. Frames(Carried(e)) = Inside(received[e], hop2[e], Held(e), hop1[e], queue[e])
  BY CarriedRuns DEF Frames, Members
<1>2. Account(Frames(Carried(e)), sent[e], lost[e], refused[e], Gone(e))
  BY <1>1 DEF IInv, Directions, D, Direction
<1>3. ~closed => ~Gone(e)
  BY EndFacts DEF IInv, ClosesFirst, Gone
<1> QED  BY <1>2, <1>3 DEF Account

-----------------------------------------------------------------------------
(* Each direction is a lossy FIFO.                                         *)

Fifo(e) == INSTANCE LossyFifo WITH
  sent <- sent[e], lost <- Dropped(e), open <- ~closed,
  last <- LastOf(received[e]), count <- Len(received[e])

(* The forwarder may be gone with what it held: a worker that still        *)
(* receives finds no gap before what its channel holds.                    *)
Behind(e) ==
  e \notin fwd /\ Peer(e) \in worker => NoGap(received[e], hop2[e], Dropped(e))

NothingOvertaken == \A e \in End : Behind(e)

LEMMA BehindInit == Init => NothingOvertaken
  BY DEF Init, NothingOvertaken, Behind

(* While both tasks are there it follows from the account.                 *)
LEMMA NoGapBehind ==
  ASSUME IInv, NothingOvertaken, NEW e \in End, Peer(e) \in worker
  PROVE  NoGap(received[e], hop2[e], Dropped(e))
<1>1. CASE e \in fwd
  <2>1. ~Gone(e) /\ sent[e] \in Nat
    BY <1>1 DEF IInv, TypeOK, Gone
  <2>2. NoGap(received[e], hop2[e], lost[e] \cup refused[e])
    BY <2>1, DirectionNoGap DEF IInv, Directions, D
  <2> QED  BY <2>2 DEF Dropped
<1>2. CASE e \notin fwd
  BY <1>2 DEF NothingOvertaken, Behind
<1> QED  BY <1>1, <1>2

(* Once the forwarder is gone frames of its direction are only received.   *)
LEMMA OnlyReceived ==
  ASSUME IInv, Next, NEW e \in End, e \notin fwd', Peer(e) \in worker'
  PROVE  /\ UNCHANGED <<lost[e], refused[e]>>
         /\ \/ UNCHANGED <<received[e], hop2[e]>>
            \/ /\ hop2[e] # <<>> /\ hop2'[e] = Tail(hop2[e])
               /\ received'[e] = Append(received[e], Head(hop2[e]))
<1> DEFINE Quiet == UNCHANGED <<lost[e], refused[e], received[e], hop2[e]>>
<1>1. ASSUME NEW c \in End, Accept(c)  PROVE Quiet
  BY <1>1 DEF Accept
<1>2. ASSUME NEW c \in End, WorkerSend(c)  PROVE Quiet
  <2>1. c # e
    BY <1>2 DEF WorkerSend, tasks
  <2> QED  BY <1>2, <2>1 DEF WorkerSend, Sends, IInv, TypeOK
<1>3. ASSUME NEW c \in End, WorkerRecv(c)
      PROVE  \/ Quiet
             \/ /\ hop2[e] # <<>> /\ hop2'[e] = Tail(hop2[e])
                /\ received'[e] = Append(received[e], Head(hop2[e]))
                /\ UNCHANGED <<lost[e], refused[e]>>
  BY <1>3 DEF WorkerRecv, IInv, TypeOK
<1>4. ASSUME NEW c \in End, WorkerReturns(c)  PROVE Quiet
  <2>1. Peer(c) # e
    BY <1>4 DEF WorkerReturns, Peer, End
  <2> QED  BY <1>4, <2>1 DEF WorkerReturns, account, IInv, TypeOK
<1>5. ASSUME NEW c \in End, FwdTake(c) \/ FwdDelayed(c)  PROVE Quiet
  <2>1. c # e
    BY <1>5 DEF FwdTake, FwdDelayed, tasks
  <2> QED
    BY <1>5, <2>1 DEF FwdTake, FwdDelayed, FwdDecides, Sends, IInv, TypeOK
<1>6. ASSUME NEW c \in End, FwdReturns(c)  PROVE Quiet
  BY <1>6 DEF FwdReturns, account
<1>7. Close \/ (\E lat, los \in BOOLEAN : SetImpairment(lat, los)) => Quiet
  BY DEF Close, SetImpairment, path, account
<1> QED
  BY <1>1, <1>2, <1>3, <1>4, <1>5, <1>6, <1>7
     DEF Next, WorkerTurn, WorkerEnds, WorkerFails, FwdTurn, FwdEnds

LEMMA WorkersOnlyLeave == Next => worker' \subseteq worker
  BY DEF Next, Accept, WorkerTurn, WorkerSend, WorkerRecv, WorkerEnds, WorkerFails,
         WorkerReturns, FwdTurn, FwdTake, FwdDelayed, FwdEnds, FwdReturns, Close,
         SetImpairment, tasks

LEMMA BehindStep ==
  ASSUME IInv, NothingOvertaken, Next
  PROVE  NothingOvertaken'
<1> SUFFICES ASSUME NEW e \in End, e \notin fwd', Peer(e) \in worker'
             PROVE  NoGap(received[e], hop2[e], Dropped(e))'
  BY DEF NothingOvertaken, Behind
<1>1. /\ UNCHANGED <<lost[e], refused[e]>>
      /\ \/ UNCHANGED <<received[e], hop2[e]>>
         \/ /\ hop2[e] # <<>> /\ hop2'[e] = Tail(hop2[e])
            /\ received'[e] = Append(received[e], Head(hop2[e]))
  BY OnlyReceived
<1>2. NoGap(received[e], hop2[e], Dropped(e))
  <2>1. Peer(e) \in worker
    BY WorkersOnlyLeave
  <2> QED  BY <2>1, NoGapBehind
<1>3. Members(received'[e]) \cup Members(hop2'[e])
        = Members(received[e]) \cup Members(hop2[e])
  <2>1. CASE UNCHANGED <<received[e], hop2[e]>>
    BY <2>1
  <2>2. CASE /\ hop2[e] # <<>> /\ hop2'[e] = Tail(hop2[e])
             /\ received'[e] = Append(received[e], Head(hop2[e]))
    <3>1. PICK i \in Nat, j \in Nat : Within(received[e], 0, i) /\ Within(hop2[e], i, j)
      BY DEF IInv, Directions, D, Direction, Cuts
    <3>2. received[e] \in Seq(Nat) /\ hop2[e] \in Seq(Nat)
      BY <3>1, WithinSeq
    <3> DEFINE x == Head(hop2[e])
    <3>3. /\ x \in Nat /\ i < x /\ Members(hop2[e]) = Members(Tail(hop2[e])) \cup {x}
      BY <2>2, <3>1, <3>2, WithinHead
    <3> HIDE DEF x
    <3>4. Members(Append(received[e], x)) = Members(received[e]) \cup {x}
      BY <3>1, <3>2, <3>3, WithinAppend
    <3> QED  BY <2>2, <3>3, <3>4 DEF x
  <2> QED  BY <1>1, <2>1, <2>2
<1>4. Dropped(e)' = Dropped(e)
  BY <1>1 DEF Dropped
<1> QED  BY <1>2, <1>3, <1>4 DEF NoGap

(* What a step may leave as it is.                                         *)
Still(e) == UNCHANGED <<sent[e], lost[e], refused[e], received[e], closed>>

LEMMA StillStutters == ASSUME NEW e, Still(e)  PROVE UNCHANGED Fifo(e)!vars
  BY DEF Still, Fifo!vars, Dropped

LEMMA PendingAwaits == ASSUME NEW e
  PROVE  Fifo(e)!Pending = Awaited(received[e], sent[e], Dropped(e))
  BY DEF Fifo!Pending, Awaited

LEMMA FifoSends ==
  ASSUME IInv, NEW e \in End, Accept(e)
  PROVE  Fifo(e)!Next
<1>1. sent'[e] > sent[e] /\ UNCHANGED <<Dropped(e), received, closed>>
  BY DEF Accept, IInv, TypeOK, Dropped
<1> QED  BY <1>1 DEF Fifo!Next, Fifo!Send

LEMMA FifoLoses ==
  ASSUME IInv, NEW e \in End, NEW x \in Awaited(received[e], sent[e], Dropped(e)),
         \/ lost'[e] = lost[e] \cup {x} /\ refused'[e] = refused[e]
         \/ refused'[e] = refused[e] \cup {x} /\ lost'[e] = lost[e],
         UNCHANGED <<sent[e], received[e], closed>>
  PROVE  Fifo(e)!Next
<1>1. Dropped(e)' = Dropped(e) \cup {x}
  BY DEF Dropped
<1>2. {x} \in SUBSET Fifo(e)!Pending /\ {x} # {}
  BY PendingAwaits
<1>3. Fifo(e)!Lose
  BY <1>1, <1>2 DEF Fifo!Lose
<1> QED  BY <1>3 DEF Fifo!Next, Fifo!Moves

LEMMA FifoDelivers ==
  ASSUME IInv, NothingOvertaken, NEW c \in End, WorkerRecv(c)
  PROVE  Fifo(Peer(c))!Next
<1> DEFINE e == Peer(c)
           r == received[e]
           g == hop2[e]
           d == Dropped(e)
           n == sent[e]
<1>1. e \in End /\ Peer(e) = c
  BY DEF Peer, End
<1>2. NoGap(r, g, d)
  BY <1>1, NoGapBehind DEF WorkerRecv
<1>3. /\ g # <<>> /\ received'[e] = Append(r, Head(g))
      /\ UNCHANGED <<sent[e], Dropped(e), closed>>
  BY <1>1 DEF WorkerRecv, IInv, TypeOK, Dropped
<1>4. Direction(r, g, Held(e), hop1[e], queue[e], n, lost[e], refused[e], Gone(e))
      /\ n \in Nat
  BY <1>1 DEF IInv, TypeOK, Directions, D
<1>5. d \cap Members(g) = {}
  BY <1>4 DEF Direction, Account, Inside, Dropped
<1>6. PICK i \in Nat, j \in Nat : Within(r, 0, i) /\ Within(g, i, j) /\ j <= n
  <2>1. PICK i \in Nat, j \in Nat, k \in Nat, m \in Nat :
          Within(r, 0, i) /\ Within(g, i, j) /\ Within(Held(e), j, k)
          /\ Within(hop1[e], k, m) /\ Within(queue[e], m, n)
    BY <1>4 DEF Direction, Cuts
  <2>2. j <= k /\ k <= m /\ m <= n
    BY <2>1, WithinSeq
  <2> QED  BY <1>4, <2>1, <2>2
<1> HIDE DEF r, g, d, n, e
<1>7. r \in Seq(Nat) /\ g \in Seq(Nat)
  BY <1>6, WithinSeq
<1>8. 1 \in 1 .. Len(g) /\ Head(g) = g[1] /\ g[1] \in Nat
  BY <1>3, <1>7
<1>9. /\ g[1] \in Awaited(r, n, d)
      /\ Cardinality(AwaitedTo(r, n, d, g[1])) = 1
  <2>1. n \in Nat
    BY <1>4
  <2>2. \A m \in 1 .. Len(g) : g[m] \in Awaited(r, n, d)
                              /\ Cardinality(AwaitedTo(r, n, d, g[m])) = m
    BY ONLY <1>2, <1>5, <1>6, <2>1, FirstArrive
  <2> QED  BY <1>8, <2>2
<1>10. LastOf(received'[e]) = g[1] /\ Len(received'[e]) = Len(r) + 1
  <2> DEFINE u == Append(r, g[1])
  <2>1. u \in Seq(Nat) /\ Len(u) = Len(r) + 1 /\ u[Len(r) + 1] = g[1] /\ Len(r) \in Nat
    BY <1>7, <1>8
  <2>2. received'[e] = u
    BY <1>3, <1>8
  <2> HIDE DEF u
  <2> QED  BY <2>1, <2>2 DEF LastOf
<1>11. Fifo(e)!Pending = Awaited(r, n, d)
  BY PendingAwaits DEF r, n, d
<1>12. \A S : Fifo(e)!Cardinality(S) = Cardinality(S)
  BY DEF Fifo!Cardinality, Cardinality
<1>13. Fifo(e)!Deliver(g[1])
  BY <1>3, <1>9, <1>10, <1>11, <1>12 DEF Fifo!Deliver, AwaitedTo, r
<1>14. Fifo(e)!Next
  BY <1>9, <1>11, <1>13 DEF Fifo!Next, Fifo!Moves
<1> QED  BY <1>14 DEF e

(* A worker's queue and a forwarder lose frames; the other direction does  *)
(* not notice.                                                             *)
LEMMA SendFifo ==
  ASSUME IInv, NEW e \in End, NEW c \in End, WorkerSend(c)
  PROVE  Fifo(e)!Next \/ Still(e)
<1> DEFINE x == Head(queue[e])
<1>1. CASE c = e /\ Full(hop1[e])
  <2>1. /\ queue[e] # <<>> /\ lost'[e] = lost[e] /\ refused'[e] = refused[e] \cup {x}
        /\ UNCHANGED <<sent[e], received[e], closed>>
    BY <1>1 DEF WorkerSend, Sends, IInv, TypeOK
  <2>2. queue[e] \in Seq(Nat) /\ sent[e] \in Nat
    BY CutsSeqs DEF IInv, TypeOK, Directions, D, Direction
  <2>3. x \in Members(queue[e])
    BY <2>1, <2>2, MembersAre
  <2>4. x \in Awaited(received[e], sent[e], Dropped(e))
    BY <2>2, <2>3, DirectionAwaits DEF IInv, Directions, D, Dropped
  <2> QED  BY <2>1, <2>4, FifoLoses
<1>2. CASE ~(c = e /\ Full(hop1[e]))
  BY <1>2 DEF WorkerSend, Sends, IInv, TypeOK, Still
<1> QED  BY <1>1, <1>2

LEMMA DecideFifo ==
  ASSUME IInv, NEW e \in End, NEW x, FwdDecides(e, x),
         x \in Awaited(received[e], sent[e], Dropped(e)),
         UNCHANGED <<sent, received, closed>>
  PROVE  Fifo(e)!Next \/ Still(e)
<1>1. CASE lost' = [lost EXCEPT ![e] = @ \cup {x}] /\ UNCHANGED refused
  <2>1. lost'[e] = lost[e] \cup {x} /\ refused'[e] = refused[e]
    BY <1>1 DEF IInv, TypeOK
  <2> QED  BY <2>1, FifoLoses
<1>2. CASE refused' = [refused EXCEPT ![e] = @ \cup {x}] /\ UNCHANGED lost
  <2>1. refused'[e] = refused[e] \cup {x} /\ lost'[e] = lost[e]
    BY <1>2 DEF IInv, TypeOK
  <2> QED  BY <2>1, FifoLoses
<1>3. CASE UNCHANGED <<lost, refused>>
  BY <1>3 DEF Still
<1> QED  BY <1>1, <1>2, <1>3 DEF FwdDecides, Sends

LEMMA TakeFifo ==
  ASSUME Sizes, IInv, NEW e \in End, NEW c \in End, FwdTake(c) \/ FwdDelayed(c)
  PROVE  Fifo(e)!Next \/ Still(e)
<1>1. CASE c # e
  BY <1>1 DEF FwdTake, FwdDelayed, FwdDecides, Sends, IInv, TypeOK, Still
<1>2. CASE c = e
  <2>1. hop1[e] \in Seq(Nat) /\ Held(e) \in Seq(Nat) /\ sent[e] \in Nat
    BY CutsSeqs DEF IInv, TypeOK, Directions, D, Direction
  <2>2. \A x \in Members(Held(e)) \cup Members(hop1[e]) :
          x \in Awaited(received[e], sent[e], Dropped(e))
    BY <2>1, DirectionAwaits DEF IInv, Directions, D, Dropped
  <2>3. UNCHANGED <<sent, received, closed>>
    BY <1>2 DEF FwdTake, FwdDelayed
  <2>4. CASE FwdTake(e) /\ ~latency
    <3>1. Head(hop1[e]) \in Members(hop1[e])
      BY <2>1, <2>4, MembersAre DEF FwdTake
    <3> QED  BY <2>2, <2>3, <2>4, <3>1, DecideFifo DEF FwdTake
  <2>5. CASE FwdTake(e) /\ latency
    BY <2>3, <2>5 DEF FwdTake, Still
  <2>6. CASE FwdDelayed(e)
    <3>1. Held(e) = <<held[e]>> /\ held[e] \in Nat
      BY <2>6, FrameFacts DEF FwdDelayed, Held, IInv, TypeOK
    <3>2. held[e] \in Members(Held(e))
      BY <3>1 DEF Members
    <3> QED  BY <2>2, <2>3, <2>6, <3>2, DecideFifo DEF FwdDelayed
  <2> QED  BY <1>2, <2>4, <2>5, <2>6
<1> QED  BY <1>1, <1>2

LEMMA CloseFifo ==
  ASSUME IInv, NEW e \in End, closed' = TRUE, UNCHANGED account
  PROVE  Fifo(e)!Next \/ Still(e)
<1>1. UNCHANGED <<sent[e], lost[e], refused[e], received[e], Dropped(e)>>
  BY DEF account, Dropped
<1>2. CASE closed
  BY <1>1, <1>2 DEF Still, IInv, TypeOK
<1>3. CASE ~closed
  <2>1. Fifo(e)!Close
    BY <1>1, <1>3 DEF Fifo!Close
  <2> QED  BY <2>1 DEF Fifo!Next
<1> QED  BY <1>2, <1>3

LEMMA FifoStep ==
  ASSUME Sizes, IInv, NothingOvertaken, NEW e \in End, Next
  PROVE  [Fifo(e)!Next]_(Fifo(e)!vars)
<1> SUFFICES Fifo(e)!Next \/ Still(e)
  BY StillStutters
<1>1. ASSUME NEW c \in End, Accept(c)  PROVE Fifo(e)!Next \/ Still(e)
  <2>1. c # e => Still(e)
    BY <1>1 DEF Accept, IInv, TypeOK, Still
  <2> QED  BY <1>1, <2>1, FifoSends
<1>2. ASSUME NEW c \in End, WorkerRecv(c)  PROVE Fifo(e)!Next \/ Still(e)
  <2>1. Peer(c) # e => Still(e)
    BY <1>2 DEF WorkerRecv, IInv, TypeOK, Still
  <2> QED  BY <1>2, <2>1, FifoDelivers
<1>3. ASSUME NEW c \in End, WorkerReturns(c)  PROVE Fifo(e)!Next \/ Still(e)
  BY <1>3, CloseFifo DEF WorkerReturns
<1>4. ASSUME NEW c \in End, FwdReturns(c)  PROVE Still(e)
  BY <1>4 DEF FwdReturns, account, Still
<1>5. Close => Fifo(e)!Next \/ Still(e)
  BY CloseFifo DEF Close
<1>6. (\E lat, los \in BOOLEAN : SetImpairment(lat, los)) => Still(e)
  BY DEF SetImpairment, account, Still
<1> QED
  BY <1>1, <1>2, <1>3, <1>4, <1>5, <1>6, SendFifo, TakeFifo
     DEF Next, WorkerTurn, WorkerEnds, WorkerFails, FwdTurn, FwdEnds

=============================================================================
