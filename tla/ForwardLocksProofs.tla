-------------------------- MODULE ForwardLocksProofs ---------------------------
(***************************************************************************)
(* Any number of tasks that run the ordered operations of a stream never   *)
(* all wait for each other.                                                *)
(*                                                                         *)
(* The operations take their locks in one order and drop them all.  So a   *)
(* task that waits holds only locks before the one it waits for, and the   *)
(* last lock in that order that has a queue is held by a task that runs.   *)
(***************************************************************************)
EXTENDS ForwardLocks, FiniteSetTheorems, SequenceTheorems, TLAPS

\* The order of the locks.
Rank == [stream_map |-> 1, subscribe_group |-> 2, publish_leave_at |-> 3,
         subscribe_leave_at |-> 4, publish |-> 5, track_binding |-> 6, publish_tracks |-> 7]

LockStep == [do : {"r", "w", "drop"}, locks : SUBSET Lock]
Takes(s, l) == s.do # "drop" /\ l \in s.locks
Drops(s, l) == s.do = "drop" /\ l \in s.locks

\* The locks that an operation holds before its i-th step.
HeldAt(p, i) ==
  {l \in Lock : \E j \in 1..(i - 1) : Takes(p[j], l) /\ \A m \in (j + 1)..(i - 1) : ~Drops(p[m], l)}

\* It takes one lock at a time, each after those it holds, and drops all.
Respects(p) ==
  /\ p \in Seq(LockStep)
  /\ \A i \in 1..Len(p) : p[i].do # "drop" =>
       \E l \in Lock : p[i].locks = {l} /\ \A h \in HeldAt(p, i) : Rank[h] < Rank[l]
  /\ HeldAt(p, Len(p) + 1) = {}

LEMMA RankType == \A l \in Lock : Rank[l] \in 1..7
BY DEF Rank, Lock

--------------------------------------------------------------------------------
(* The operations respect the order.                                       *)

\* A lock that is taken and dropped at once is held in between.
LEMMA OneLockRespects ==
  ASSUME NEW l \in Lock, NEW d \in {"r", "w"}, NEW p, p = << [do |-> d, locks |-> {l}], Drop({l}) >>
  PROVE  Respects(p)
<1>1. /\ p \in Seq(LockStep) /\ Len(p) = 2
      /\ p[1].do = d /\ p[1].locks = {l} /\ p[2].do = "drop" /\ p[2].locks = {l}
  BY DEF LockStep, Drop
<1>2. HeldAt(p, 1) = {}
  BY DEF HeldAt
<1>3. HeldAt(p, 3) = {}
  <2> SUFFICES ASSUME NEW x \in Lock, NEW j \in 1..2, Takes(p[j], x),
                      \A m \in (j + 1)..2 : ~Drops(p[m], x)
               PROVE  FALSE
    BY DEF HeldAt
  <2>1. j = 1 /\ x = l
    BY <1>1 DEF Takes
  <2>. QED BY <2>1, <1>1 DEF Drops
<1>4. \A i \in 1..Len(p) : p[i].do # "drop" =>
        \E h \in Lock : p[i].locks = {h} /\ \A g \in HeldAt(p, i) : Rank[g] < Rank[h]
  <2> SUFFICES ASSUME NEW i \in 1..2, p[i].do # "drop"
               PROVE  \E h \in Lock : p[i].locks = {h} /\ \A g \in HeldAt(p, i) : Rank[g] < Rank[h]
    BY <1>1
  <2>1. i = 1
    BY <1>1
  <2>. QED BY <2>1, <1>1, <1>2
<1>. QED BY <1>1, <1>3, <1>4 DEF Respects

\* One lock taken inside another and both dropped together.
LEMMA TwoLocksRespect ==
  ASSUME NEW l \in Lock, NEW k \in Lock, Rank[l] < Rank[k],
         NEW a \in LockStep, a.do # "drop", a.locks = {l},
         NEW b \in LockStep, b.do # "drop", b.locks = {k},
         NEW c \in LockStep, c.do = "drop", c.locks = {l, k}
  PROVE  Respects(<<a, b, c>>)
<1>. PICK p : p = <<a, b, c>>
  OBVIOUS
<1>1. p \in Seq(LockStep) /\ Len(p) = 3 /\ p[1] = a /\ p[2] = b /\ p[3] = c
  OBVIOUS
<1>2. ASSUME NEW i \in 1..3, p[i].do # "drop"
      PROVE  \E x \in Lock : p[i].locks = {x} /\ \A h \in HeldAt(p, i) : Rank[h] < Rank[x]
  <2>1. \A h \in HeldAt(p, i) : \E j \in 1..(i - 1) : h \in p[j].locks
    BY DEF HeldAt, Takes
  <2>2. CASE i = 1 BY <1>1, <2>1, <2>2
  <2>3. CASE i = 2 BY <1>1, <2>1, <2>3
  <2>. QED BY <1>1, <1>2, <2>2, <2>3
<1>3. HeldAt(p, 4) = {}
  <2> SUFFICES ASSUME NEW x \in Lock, NEW j \in 1..3, Takes(p[j], x),
                      \A m \in (j + 1)..3 : ~Drops(p[m], x)
               PROVE  FALSE
    BY DEF HeldAt
  <2>1. j \in 1..2 /\ x \in p[3].locks
    BY <1>1 DEF Takes
  <2>. QED BY <2>1, <1>1 DEF Drops
<1>. QED BY <1>1, <1>2, <1>3 DEF Respects

\* One lock taken and dropped inside another.
LEMMA NestedLocksRespect ==
  ASSUME NEW l \in Lock, NEW k \in Lock, Rank[l] < Rank[k],
         NEW a \in LockStep, a.do # "drop", a.locks = {l},
         NEW b \in LockStep, b.do # "drop", b.locks = {k},
         NEW c \in LockStep, c.do = "drop", c.locks = {k},
         NEW d \in LockStep, d.do = "drop", d.locks = {l}
  PROVE  Respects(<<a, b, c, d>>)
<1>. PICK p : p = <<a, b, c, d>>
  OBVIOUS
<1>1. p \in Seq(LockStep) /\ Len(p) = 4 /\ p[1] = a /\ p[2] = b /\ p[3] = c /\ p[4] = d
  OBVIOUS
<1>2. ASSUME NEW i \in 1..4, p[i].do # "drop"
      PROVE  \E x \in Lock : p[i].locks = {x} /\ \A h \in HeldAt(p, i) : Rank[h] < Rank[x]
  <2>1. \A h \in HeldAt(p, i) : \E j \in 1..(i - 1) : h \in p[j].locks
    BY DEF HeldAt, Takes
  <2>2. CASE i = 1 BY <1>1, <2>1, <2>2
  <2>3. CASE i = 2 BY <1>1, <2>1, <2>3
  <2>. QED BY <1>1, <1>2, <2>2, <2>3
<1>3. HeldAt(p, 5) = {}
  <2> SUFFICES ASSUME NEW x \in Lock, NEW j \in 1..4, Takes(p[j], x),
                      \A m \in (j + 1)..4 : ~Drops(p[m], x)
               PROVE  FALSE
    BY DEF HeldAt
  <2>1. j \in 1..2 /\ (j = 1 => x = l) /\ (j = 2 => x = k)
    BY <1>1 DEF Takes
  <2>2. 3 \in (j + 1)..4 /\ 4 \in (j + 1)..4
    BY <2>1
  <2>. QED BY <2>1, <2>2, <1>1 DEF Drops
<1>. QED BY <1>1, <1>2, <1>3 DEF Respects

\* One operation after another.
LEMMA ThenRespects ==
  ASSUME NEW p, NEW q, Respects(p), Respects(q)
  PROVE  Respects(p \o q)
<1> DEFINE r == p \o q
           n == Len(p)
<1>1. /\ p \in Seq(LockStep) /\ q \in Seq(LockStep) /\ r \in Seq(LockStep)
      /\ n \in Nat /\ Len(q) \in Nat /\ Len(r) = n + Len(q)
      /\ \A i \in 1..n : r[i] = p[i]
      /\ \A i \in 1..Len(q) : r[n + i] = q[i]
  BY ConcatProperties DEF Respects
<1> HIDE DEF r, n
<1>2. ASSUME NEW i \in 1..(n + 1) PROVE HeldAt(r, i) = HeldAt(p, i)
  <2>1. \A j \in 1..(i - 1) : r[j] = p[j]
    BY <1>1
  <2>2. \A j \in 1..(i - 1) : \A m \in (j + 1)..(i - 1) : r[m] = p[m]
    BY <1>1
  <2>. QED BY <2>1, <2>2 DEF HeldAt
<1>3. ASSUME NEW i \in 1..(Len(q) + 1), NEW l \in HeldAt(r, n + i) PROVE l \in HeldAt(q, i)
  <2>1. PICK j \in 1..(n + i - 1) :
          Takes(r[j], l) /\ \A m \in (j + 1)..(n + i - 1) : ~Drops(r[m], l)
    BY <1>1 DEF HeldAt
  <2>2. CASE j \in 1..n
    <3>1. Takes(p[j], l)
      BY <2>1, <2>2, <1>1
    <3>2. \A m \in (j + 1)..n : ~Drops(p[m], l)
      BY <2>1, <2>2, <1>1
    <3>3. l \in HeldAt(p, n + 1)
      <4>1. l \in Lock /\ n + 1 - 1 = n
        BY <1>1 DEF HeldAt
      <4>2. \E k \in 1..n : Takes(p[k], l) /\ \A m \in (k + 1)..n : ~Drops(p[m], l)
        BY <3>1, <3>2, <2>2
      <4>. QED BY <1>1, <4>1, <4>2 DEF HeldAt
    <3>. QED BY <3>3 DEF Respects, n
  <2>3. CASE j \notin 1..n
    <3>1. PICK k \in 1..(i - 1) : j = n + k
      <4>1. j - n \in 1..(i - 1) /\ j = n + (j - n)
        BY <2>3, <1>1
      <4>. QED BY <4>1
    <3>2. Takes(q[k], l)
      BY <3>1, <2>1, <1>1
    <3>3. ASSUME NEW m \in (k + 1)..(i - 1) PROVE ~Drops(q[m], l)
      <4>1. n + m \in (j + 1)..(n + i - 1) /\ r[n + m] = q[m]
        BY <3>1, <1>1
      <4>. QED BY <4>1, <2>1
    <3>. QED BY <3>2, <3>3 DEF HeldAt
  <2>. QED BY <2>2, <2>3
<1>4. ASSUME NEW i \in 1..Len(r), r[i].do # "drop"
      PROVE  \E l \in Lock : r[i].locks = {l} /\ \A h \in HeldAt(r, i) : Rank[h] < Rank[l]
  <2>1. CASE i \in 1..n
    <3>1. r[i] = p[i] /\ i \in 1..(n + 1) /\ i \in 1..Len(p)
      BY <2>1, <1>1 DEF n
    <3>2. HeldAt(r, i) = HeldAt(p, i)
      BY <3>1, <1>2
    <3>. QED BY <3>1, <3>2, <1>4 DEF Respects
  <2>2. CASE i \notin 1..n
    <3>1. PICK k \in 1..Len(q) : i = n + k
      <4>1. i - n \in 1..Len(q) /\ i = n + (i - n)
        BY <2>2, <1>1
      <4>. QED BY <4>1
    <3>2. r[i] = q[k] /\ k \in 1..(Len(q) + 1)
      BY <3>1, <1>1
    <3>3. PICK l \in Lock : q[k].locks = {l} /\ \A h \in HeldAt(q, k) : Rank[h] < Rank[l]
      BY <3>2, <1>4 DEF Respects
    <3>. QED BY <3>1, <3>2, <3>3, <1>3
  <2>. QED BY <2>1, <2>2
<1>5. HeldAt(r, Len(r) + 1) = {}
  <2>1. Len(q) + 1 \in 1..(Len(q) + 1) /\ Len(r) + 1 = n + (Len(q) + 1)
    BY <1>1
  <2>. QED BY <2>1, <1>3 DEF Respects
<1>. QED BY <1>1, <1>4, <1>5 DEF Respects, r

\* PeerForwardInternal::info.
LEMMA InfoRespects == Respects(info)
<1>1. /\ info \in Seq(LockStep) /\ Len(info) = 6
      /\ info[1].do = "r" /\ info[1].locks = {"subscribe_group"}
      /\ info[2].do = "r" /\ info[2].locks = {"publish_leave_at"}
      /\ info[3].do = "r" /\ info[3].locks = {"subscribe_leave_at"}
      /\ info[4].do = "r" /\ info[4].locks = {"publish"}
      /\ info[5].do = "r" /\ info[5].locks = {"publish_tracks"}
      /\ info[6].do = "drop"
      /\ info[6].locks = {"subscribe_group", "publish_leave_at", "subscribe_leave_at",
                          "publish", "publish_tracks"}
  BY DEF info, LockStep, Lock, Rd, Drop
<1>2. ASSUME NEW i \in 1..6, info[i].do # "drop"
      PROVE  \E l \in Lock : info[i].locks = {l} /\ \A h \in HeldAt(info, i) : Rank[h] < Rank[l]
  <2>1. \A h \in HeldAt(info, i) : \E j \in 1..(i - 1) : h \in info[j].locks
    BY DEF HeldAt, Takes
  <2>2. CASE i = 1 BY <1>1, <2>1, <2>2 DEF Rank, Lock
  <2>3. CASE i = 2 BY <1>1, <2>1, <2>3 DEF Rank, Lock
  <2>4. CASE i = 3 BY <1>1, <2>1, <2>4 DEF Rank, Lock
  <2>5. CASE i = 4 BY <1>1, <2>1, <2>5 DEF Rank, Lock
  <2>6. CASE i = 5 BY <1>1, <2>1, <2>6 DEF Rank, Lock
  <2>. QED BY <1>1, <1>2, <2>2, <2>3, <2>4, <2>5, <2>6
<1>3. HeldAt(info, 7) = {}
  <2> SUFFICES ASSUME NEW x \in Lock, NEW j \in 1..6, Takes(info[j], x),
                      \A m \in (j + 1)..6 : ~Drops(info[m], x)
               PROVE  FALSE
    BY DEF HeldAt
  <2>1. j \in 1..5 /\ x \in info[6].locks
    BY <1>1 DEF Takes
  <2>. QED BY <2>1, <1>1 DEF Drops
<1>. QED BY <1>1, <1>2, <1>3 DEF Respects

\* Manager::info of every stream: info under the lock of the map.
LEMMA ListRespects == Respects(list_streams)
<1>1. /\ info \in Seq(LockStep) /\ Len(info) = 6 /\ Respects(info)
      /\ \A i \in 1..6 : "stream_map" \notin info[i].locks
  <2>1. info \in Seq(LockStep) /\ Len(info) = 6
    BY DEF info, LockStep, Lock, Rd, Drop
  <2>2. ASSUME NEW i \in 1..6 PROVE "stream_map" \notin info[i].locks
    BY DEF info, Rd, Drop
  <2>. QED BY <2>1, <2>2, InfoRespects
<1> DEFINE a == << Rd("stream_map") >>
           b == << Drop({"stream_map"}) >>
           p == a \o info \o b
<1>2. /\ a \in Seq(LockStep) /\ Len(a) = 1 /\ b \in Seq(LockStep) /\ Len(b) = 1
      /\ a[1].do = "r" /\ a[1].locks = {"stream_map"}
      /\ b[1].do = "drop" /\ b[1].locks = {"stream_map"}
  BY DEF LockStep, Lock, Rd, Drop
<1> HIDE DEF a, b
<1>3. /\ a \o info \in Seq(LockStep) /\ Len(a \o info) = 7 /\ (a \o info)[1] = a[1]
      /\ \A i \in 1..6 : (a \o info)[i + 1] = info[i]
  <2>1. PICK c, g : c = a /\ g = info
    OBVIOUS
  <2>. c \in Seq(LockStep) /\ Len(c) = 1 /\ g \in Seq(LockStep) /\ Len(g) = 6
    BY <2>1, <1>1, <1>2
  <2>2. /\ c \o g \in Seq(LockStep) /\ Len(c \o g) = Len(c) + Len(g)
        /\ \A i \in 1..(Len(c) + Len(g)) : (c \o g)[i] = IF i <= Len(c) THEN c[i] ELSE g[i - Len(c)]
    BY ConcatProperties
  <2>3. \A i \in 1..7 : (c \o g)[i] = IF i <= 1 THEN c[i] ELSE g[i - 1]
    BY <2>2
  <2>4. /\ c \o g \in Seq(LockStep) /\ Len(c \o g) = 7 /\ (c \o g)[1] = c[1]
        /\ \A i \in 1..6 : (c \o g)[i + 1] = g[i]
    BY <2>2, <2>3
  <2>. QED BY <2>1, <2>4
<1>4. /\ p \in Seq(LockStep) /\ Len(p) = 8 /\ p[1] = a[1] /\ p[8] = b[1]
      /\ \A i \in 1..6 : p[i + 1] = info[i]
  <2>1. PICK c : c = a \o info
    OBVIOUS
  <2>2. /\ c \o b \in Seq(LockStep) /\ Len(c \o b) = Len(c) + Len(b)
        /\ \A i \in 1..(Len(c) + Len(b)) : (c \o b)[i] = IF i <= Len(c) THEN c[i] ELSE b[i - Len(c)]
    BY <2>1, <1>2, <1>3, ConcatProperties
  <2>3. \A i \in 1..8 : (c \o b)[i] = IF i <= 7 THEN c[i] ELSE b[i - 7]
    BY <2>1, <2>2, <1>2, <1>3
  <2>4. p = c \o b
    BY <2>1
  <2>. HIDE DEF p
  <2>. QED BY <2>1, <2>2, <2>3, <2>4, <1>2, <1>3
<1>. HIDE DEF p
<1>5. ASSUME NEW i \in 1..7, NEW h \in HeldAt(p, i + 1)
      PROVE  h = "stream_map" \/ h \in HeldAt(info, i)
  <2>1. PICK j \in 1..i : Takes(p[j], h) /\ \A m \in (j + 1)..i : ~Drops(p[m], h)
    BY DEF HeldAt
  <2>2. CASE j = 1 BY <1>2, <1>4, <2>1, <2>2 DEF Takes
  <2>3. CASE j # 1
    <3>1. PICK k \in 1..(i - 1) : j = k + 1
      <4>1. j - 1 \in 1..(i - 1) /\ j = (j - 1) + 1
        BY <2>3
      <4>. QED BY <4>1
    <3>2. Takes(info[k], h)
      BY <3>1, <2>1, <1>4
    <3>3. ASSUME NEW m \in (k + 1)..(i - 1) PROVE ~Drops(info[m], h)
      <4>1. m + 1 \in (j + 1)..i /\ m \in 1..6
        BY <3>1
      <4>. QED BY <4>1, <2>1, <1>4
    <3>. QED BY <3>2, <3>3 DEF HeldAt
  <2>. QED BY <2>2, <2>3
<1>6. ASSUME NEW i \in 1..8, p[i].do # "drop"
      PROVE  \E l \in Lock : p[i].locks = {l} /\ \A h \in HeldAt(p, i) : Rank[h] < Rank[l]
  <2>1. CASE i = 1
    <3>1. HeldAt(p, 1) = {} /\ "stream_map" \in Lock
      BY DEF HeldAt, Lock
    <3>. QED BY <2>1, <3>1, <1>2, <1>4
  <2>2. CASE i # 1
    <3>1. PICK k \in 1..6 : i = k + 1
      <4>1. i # 8 /\ i - 1 \in 1..6 /\ i = (i - 1) + 1
        BY <2>2, <1>2, <1>4, <1>6
      <4>. QED BY <4>1
    <3>2. p[i] = info[k]
      BY <3>1, <1>4
    <3>3. PICK l \in Lock : info[k].locks = {l} /\ \A h \in HeldAt(info, k) : Rank[h] < Rank[l]
      BY <3>2, <1>1, <1>6 DEF Respects
    <3>4. Rank["stream_map"] < Rank[l]
      <4>1. l # "stream_map"
        BY <3>3, <1>1
      <4>. QED BY <4>1 DEF Rank, Lock
    <3>. QED BY <3>1, <3>2, <3>3, <3>4, <1>5
  <2>. QED BY <2>1, <2>2
<1>7. HeldAt(p, 9) = {}
  <2> SUFFICES ASSUME NEW h \in Lock, NEW j \in 1..8, Takes(p[j], h),
                      \A m \in (j + 1)..8 : ~Drops(p[m], h)
               PROVE  FALSE
    BY DEF HeldAt
  <2>1. j \in 1..7
    BY <1>2, <1>4 DEF Takes
  <2>2. h # "stream_map"
    BY <2>1, <1>2, <1>4 DEF Drops
  <2>3. h \in HeldAt(p, 8)
    <3>1. \A m \in (j + 1)..7 : ~Drops(p[m], h)
      OBVIOUS
    <3>. QED BY <2>1, <3>1 DEF HeldAt
  <2>4. h \in HeldAt(info, 7)
    BY <2>2, <2>3, <1>5
  <2>. QED BY <2>4, <1>1 DEF Respects
<1>8. list_streams = p
  BY DEF list_streams, p, a, b
<1>9. Respects(p)
  BY <1>4, <1>6, <1>7 DEF Respects
<1>. QED BY <1>8, <1>9

\* Every ordered operation.
LEMMA OrderedRespect == ASSUME NEW o \in Ordered PROVE Respects(Locking[o])
<1>1. ASSUME NEW l \in Lock PROVE Respects(Read(l)) /\ Respects(Write(l))
  <2>1. Respects(<< [do |-> "r", locks |-> {l}], Drop({l}) >>)
    BY OneLockRespects
  <2>2. Respects(<< [do |-> "w", locks |-> {l}], Drop({l}) >>)
    BY OneLockRespects
  <2>. QED BY <2>1, <2>2 DEF Read, Write, Rd, Wr
<1>. /\ Respects(Read("publish")) /\ Respects(Write("publish"))
     /\ Respects(Read("publish_tracks")) /\ Respects(Write("publish_tracks"))
     /\ Respects(Read("subscribe_group")) /\ Respects(Write("subscribe_group"))
     /\ Respects(Write("publish_leave_at")) /\ Respects(Write("subscribe_leave_at"))
     /\ Respects(Write("stream_map")) /\ Respects(info) /\ Respects(list_streams)
  BY <1>1, InfoRespects, ListRespects DEF Lock
<1>2. /\ "track_binding" \in Lock /\ "publish_tracks" \in Lock /\ "subscribe_group" \in Lock
      /\ "subscribe_leave_at" \in Lock
      /\ Rank["track_binding"] < Rank["publish_tracks"]
      /\ Rank["subscribe_group"] < Rank["subscribe_leave_at"]
  BY DEF Lock, Rank
<1>0. /\ \A l \in Lock : /\ Rd(l) \in LockStep /\ Rd(l).do # "drop" /\ Rd(l).locks = {l}
                         /\ Wr(l) \in LockStep /\ Wr(l).do # "drop" /\ Wr(l).locks = {l}
      /\ \A ls \in SUBSET Lock :
           Drop(ls) \in LockStep /\ Drop(ls).do = "drop" /\ Drop(ls).locks = ls
  BY DEF Rd, Wr, Drop, LockStep
<1>3. Respects(add_ice_candidate)
  BY ThenRespects DEF add_ice_candidate
<1>4. Respects(set_publish_refused) /\ Respects(set_publish)
  <2>1. Respects(set_publish_refused)
    BY ThenRespects DEF set_publish_refused
  <2>2. Respects(set_publish_refused \o Write("publish_leave_at"))
    BY <2>1, ThenRespects
  <2>3. Respects((set_publish_refused \o Write("publish_leave_at")) \o info)
    BY <2>2, ThenRespects
  <2>. QED BY <2>1, <2>3 DEF set_publish, set_publish_refused
<1>5. Respects(remove_publish)
  <2>1. Respects(Write("publish") \o Write("publish_tracks"))
    BY ThenRespects
  <2>2. Respects((Write("publish") \o Write("publish_tracks")) \o Write("publish_leave_at"))
    BY <2>1, ThenRespects
  <2>. QED BY <2>2, ThenRespects DEF remove_publish
<1>6. Respects(publish_track_up) /\ Respects(layers)
  BY ThenRespects DEF publish_track_up, layers
<1>7. Respects(add_subscribe)
  <2>1. Respects(Write("subscribe_group") \o Write("subscribe_leave_at"))
    BY ThenRespects
  <2>. QED BY <2>1, ThenRespects DEF add_subscribe
<1>8. Respects(remove_subscribe)
  <2>1. Respects(<< Wr("subscribe_group"), Wr("subscribe_leave_at"),
                    Drop({"subscribe_leave_at"}), Drop({"subscribe_group"}) >>)
    BY <1>2, <1>0, NestedLocksRespect
  <2>. QED BY <2>1, ThenRespects DEF remove_subscribe
<1>9. Respects(select_kind_rid) /\ Respects(publish_lookup)
  BY DEF select_kind_rid, publish_lookup
<1>10. Respects(forward_rtp)
  BY <1>2, <1>0, TwoLocksRespect DEF forward_rtp
<1>11. Respects(forward_rtcp)
  BY <1>2, <1>0, NestedLocksRespect DEF forward_rtcp
<1>12. o \in {"info", "add_ice_candidate", "set_publish", "set_publish_refused", "remove_publish",
              "publish_track_up", "layers", "add_subscribe", "remove_subscribe",
              "select_kind_rid", "forward_rtp", "forward_rtcp", "publish_lookup", "list_streams"}
  BY DEF Ordered, Locking
<1>13. CASE o \in {"info", "add_ice_candidate", "set_publish", "set_publish_refused", "remove_publish"}
  BY <1>13, <1>3, <1>4, <1>5 DEF Locking
<1>14. CASE o \in {"publish_track_up", "layers", "add_subscribe", "remove_subscribe"}
  BY <1>14, <1>6, <1>7, <1>8 DEF Locking
<1>15. CASE o \in {"select_kind_rid", "forward_rtp", "forward_rtcp", "publish_lookup", "list_streams"}
  BY <1>15, <1>9, <1>10, <1>11 DEF Locking
<1>. QED BY <1>12, <1>13, <1>14, <1>15

--------------------------------------------------------------------------------
(* The tasks.                                                              *)

Program(t) == Locking[op[t]]

LockTypes ==
  /\ op \in [Task -> Operation]
  /\ pc \in [Task -> Nat]
  /\ \A t \in Task : pc[t] \in 1..(Len(Program(t)) + 1)
  /\ held \in [Lock -> SUBSET Request]
  /\ queue \in [Lock -> Seq(Request)]

\* A task holds only what its operation has taken and not dropped.
HolderInv == \A l \in Lock : \A h \in held[l] : l \in HeldAt(Program(h.task), pc[h.task])

\* The next step of a queued task takes the lock it is queued for.
Queued(l, t) == ~Finished(t) /\ Takes(NextStep(t), l)
QueueInv == \A l \in Lock : \A i \in DOMAIN queue[l] : Queued(l, queue[l][i].task)

\* It is queued once.
OnceInv == \A l \in Lock : \A i, j \in DOMAIN queue[l] :
             i # j => queue[l][i].task # queue[l][j].task

\* Nobody waits for a free lock.
BusyInv == \A l \in Lock : queue[l] # <<>> => held[l] # {}

LockInv == LockTypes /\ HolderInv /\ QueueInv /\ OnceInv /\ BusyInv

\* What a step of the operation adds and keeps.
LEMMA HeldNext ==
  ASSUME NEW p, NEW i \in Nat, i >= 1, NEW l \in Lock,
         Takes(p[i], l) \/ (l \in HeldAt(p, i) /\ ~Drops(p[i], l))
  PROVE  l \in HeldAt(p, i + 1)
<1>1. i + 1 - 1 = i
  OBVIOUS
<1>2. CASE Takes(p[i], l)
  BY <1>1, <1>2 DEF HeldAt
<1>3. CASE l \in HeldAt(p, i) /\ ~Drops(p[i], l)
  <2>1. PICK j \in 1..(i - 1) : Takes(p[j], l) /\ \A m \in (j + 1)..(i - 1) : ~Drops(p[m], l)
    BY <1>3 DEF HeldAt
  <2>2. j \in 1..i /\ \A m \in (j + 1)..i : ~Drops(p[m], l)
    BY <2>1, <1>3
  <2>. QED BY <1>1, <2>1, <2>2 DEF HeldAt
<1>. QED BY <1>2, <1>3

\* A released lock goes to some of its queue, and to its head when nobody else
\* holds it.
LEMMA GrantableType ==
  ASSUME NEW q \in Seq(Request), NEW holders
  PROVE  /\ Grantable(q, holders) \in 0..Len(q)
         /\ q # <<>> /\ holders = {} => Grantable(q, holders) >= 1
<1>1. CASE q = <<>> \/ ~Compatible(q[1], holders)
  BY <1>1 DEF Grantable, Compatible
<1>2. CASE ~(q = <<>> \/ ~Compatible(q[1], holders)) /\ q[1].mode = "w"
  BY <1>2 DEF Grantable
<1>3. CASE ~(q = <<>> \/ ~Compatible(q[1], holders)) /\ q[1].mode # "w"
  <2>1. Len(q) \in Nat /\ Len(q) >= 1 /\ q[1] \in Request
    BY <1>3
  <2>2. q[1].mode = "r"
    BY <2>1, <1>3 DEF Request
  <2>3. PICK front : front = {i \in 1..Len(q) : \A j \in 1..i : q[j].mode = "r"}
    OBVIOUS
  <2>4. 1 \in front /\ front \in SUBSET (1..Len(q))
    BY <2>1, <2>2, <2>3
  <2>5. IsFiniteSet(1..Len(q)) /\ Cardinality(1..Len(q)) = Len(q)
    BY <2>1, FS_Interval
  <2>6. IsFiniteSet(front) /\ Cardinality(front) <= Len(q)
    BY <2>4, <2>5, FS_Subset
  <2>7. Cardinality(front) \in Nat /\ Cardinality(front) # 0
    BY <2>4, <2>6, FS_CardinalityType, FS_EmptySet
  <2>8. Grantable(q, holders) = Cardinality(front)
    BY <1>3, <2>3 DEF Grantable
  <2>. QED BY <2>1, <2>6, <2>7, <2>8
<1>. QED BY <1>1, <1>2, <1>3

\* The rest of a queue.
LEMMA RestOfQueue ==
  ASSUME NEW q \in Seq(Request), NEW n \in 0..Len(q)
  PROVE  /\ SubSeq(q, n + 1, Len(q)) \in Seq(Request)
         /\ Len(SubSeq(q, n + 1, Len(q))) = Len(q) - n
         /\ \A i \in 1..(Len(q) - n) :
              n + i \in 1..Len(q) /\ SubSeq(q, n + 1, Len(q))[i] = q[n + i]
<1>1. Len(q) \in Nat /\ \A i \in (n + 1)..Len(q) : q[i] \in Request
  OBVIOUS
<1>2. /\ SubSeq(q, n + 1, Len(q)) \in Seq(Request)
      /\ Len(SubSeq(q, n + 1, Len(q))) = IF n + 1 <= Len(q) THEN Len(q) - (n + 1) + 1 ELSE 0
      /\ \A i \in 1..(Len(q) - (n + 1) + 1) : SubSeq(q, n + 1, Len(q))[i] = q[n + 1 + i - 1]
  BY <1>1, SubSeqProperties
<1>3. ASSUME NEW i \in 1..(Len(q) - n)
      PROVE  n + i \in 1..Len(q) /\ SubSeq(q, n + 1, Len(q))[i] = q[n + i]
  <2>1. n + 1 + i - 1 = n + i /\ i \in 1..(Len(q) - (n + 1) + 1) /\ n + i \in 1..Len(q)
    BY <1>1
  <2>. QED BY <1>2, <2>1
<1>4. Len(SubSeq(q, n + 1, Len(q))) = Len(q) - n
  BY <1>1, <1>2
<1>. QED BY <1>2, <1>3, <1>4

LEMMA LockInit ==
  ASSUME Operation \subseteq Ordered, Init
  PROVE  LockInv
<1>1. ASSUME NEW t \in Task PROVE Len(Program(t)) \in Nat
  <2>1. op[t] \in Ordered
    BY DEF Init
  <2>. QED BY <2>1, OrderedRespect DEF Program, Respects
<1>2. LockTypes
  BY <1>1 DEF LockTypes, Init
<1>. QED BY <1>2 DEF LockInv, Init, HolderInv, QueueInv, OnceInv, BusyInv

\* A task that has not finished is at a step of its operation.
LEMMA AtStep ==
  ASSUME Operation \subseteq Ordered, LockTypes, NEW t \in Task
  PROVE  /\ Respects(Program(t)) /\ Len(Program(t)) \in Nat /\ pc[t] \in Nat /\ pc[t] >= 1
         /\ ~Finished(t) => /\ pc[t] \in 1..Len(Program(t)) /\ NextStep(t) = Program(t)[pc[t]]
                            /\ NextStep(t) \in LockStep /\ pc[t] + 1 \in 1..(Len(Program(t)) + 1)
                            /\ NextStep(t).do # "drop" =>
                                 \E l \in Lock : NextStep(t).locks = {l}
         /\ Finished(t) => pc[t] = Len(Program(t)) + 1
<1>1. op[t] \in Ordered
  BY DEF LockTypes
<1>2. Respects(Program(t))
  BY <1>1, OrderedRespect DEF Program
<1>3. Program(t) \in Seq(LockStep) /\ Len(Program(t)) \in Nat
  BY <1>2 DEF Respects
<1>4. pc[t] \in Nat /\ pc[t] >= 1 /\ pc[t] <= Len(Program(t)) + 1
  BY <1>3 DEF LockTypes
<1>5. ASSUME ~Finished(t) PROVE pc[t] \in 1..Len(Program(t)) /\ pc[t] + 1 \in 1..(Len(Program(t)) + 1)
  BY <1>3, <1>4, <1>5 DEF Finished, Program
<1>6. NextStep(t) = Program(t)[pc[t]]
  BY DEF NextStep, Program
<1>7. ASSUME ~Finished(t), NextStep(t).do # "drop" PROVE \E l \in Lock : NextStep(t).locks = {l}
  BY <1>2, <1>5, <1>6, <1>7 DEF Respects
<1>8. Finished(t) => pc[t] = Len(Program(t)) + 1
  BY <1>3, <1>4 DEF Finished, Program
<1>. QED BY <1>2, <1>3, <1>4, <1>5, <1>6, <1>7, <1>8

\* A lock is taken at once.
LEMMA TakenAtOnce ==
  ASSUME Operation \subseteq Ordered, LockInv, NEW t \in Task, Runs(t),
         NextStep(t).do # "drop", NEW l \in Lock, NextStep(t).locks = {l},
         NEW q \in Request, q.task = t, queue[l] = <<>>,
         held' = [held EXCEPT ![l] = @ \cup {q}],
         pc' = [pc EXCEPT ![t] = @ + 1], op' = op, queue' = queue
  PROVE  LockInv'
<1>. ~Finished(t) /\ ~Waits(t) /\ LockTypes
  BY DEF Runs, LockInv
<1>1. pc[t] \in Nat /\ pc[t] >= 1 /\ NextStep(t) = Program(t)[pc[t]] /\ Takes(Program(t)[pc[t]], l)
  BY AtStep DEF Takes
<1>2. /\ \A u \in Task : Program(u)' = Program(u) /\ (u # t => pc'[u] = pc[u])
      /\ pc'[t] = pc[t] + 1
  BY DEF LockTypes, Program
<1>3. LockTypes'
  <2>1. \A u \in Task : pc'[u] \in 1..(Len(Program(u)) + 1) /\ pc'[u] \in Nat
    BY <1>2, AtStep DEF LockTypes
  <2>2. \A u \in Task : pc'[u] \in 1..(Len(Program(u)') + 1)
    BY <2>1, <1>2
  <2>3. pc' \in [Task -> Nat]
    BY <2>1 DEF LockTypes
  <2>. QED BY <2>2, <2>3 DEF LockTypes
<1>4. HolderInv'
  <2> SUFFICES ASSUME NEW k \in Lock, NEW h \in held'[k]
               PROVE  k \in HeldAt(Program(h.task)', pc'[h.task])
    BY DEF HolderInv
  <2>1. h.task \in Task
    <3>1. h \in Request
      BY <1>3 DEF LockTypes
    <3>. QED BY <3>1 DEF Request
  <2>2. CASE h \in held[k]
    <3>1. k \in HeldAt(Program(h.task), pc[h.task])
      BY <2>2 DEF LockInv, HolderInv
    <3>2. CASE h.task = t
      <4>1. ~Drops(Program(t)[pc[t]], k)
        BY <1>1 DEF Drops
      <4>2. k \in HeldAt(Program(t), pc[t] + 1)
        BY <1>1, <3>1, <3>2, <4>1, HeldNext
      <4>. QED BY <1>2, <3>2, <4>2
    <3>. QED BY <3>1, <3>2, <2>1, <1>2
  <2>3. CASE h \notin held[k]
    <3>1. k = l /\ h = q
      BY <2>3 DEF LockTypes
    <3>2. l \in HeldAt(Program(t), pc[t] + 1)
      BY <1>1, HeldNext
    <3>. QED BY <3>1, <3>2, <1>2
  <2>. QED BY <2>2, <2>3
<1>5. QueueInv'
  <2> SUFFICES ASSUME NEW k \in Lock, NEW i \in DOMAIN queue[k]
               PROVE  Queued(k, queue[k][i].task)'
    BY DEF QueueInv
  <2>0. queue[k] \in Seq(Request) /\ queue[k][i] \in Request
    BY DEF LockTypes
  <2>1. queue[k][i].task # t /\ queue[k][i].task \in Task
    BY <2>0 DEF Waits, Request
  <2>2. Queued(k, queue[k][i].task)
    BY DEF LockInv, QueueInv
  <2>. QED BY <1>2, <2>1, <2>2 DEF Queued, Finished, NextStep
<1>6. OnceInv'
  BY DEF LockInv, OnceInv
<1>7. BusyInv'
  BY DEF LockInv, BusyInv, LockTypes
<1>. QED BY <1>3, <1>4, <1>5, <1>6, <1>7 DEF LockInv

\* A request is queued.
LEMMA Enqueued ==
  ASSUME Operation \subseteq Ordered, LockInv, NEW t \in Task, Runs(t),
         NextStep(t).do # "drop", NEW l \in Lock, NextStep(t).locks = {l},
         NEW q \in Request, q.task = t, queue[l] # <<>> \/ held[l] # {},
         queue' = [queue EXCEPT ![l] = Append(@, q)],
         pc' = pc, op' = op, held' = held
  PROVE  LockInv'
<1>. ~Finished(t) /\ ~Waits(t) /\ LockTypes
  BY DEF Runs, LockInv
<1>0. queue[l] \in Seq(Request) /\ Len(queue[l]) \in Nat
  BY DEF LockTypes
<1>1. /\ queue'[l] \in Seq(Request) /\ Len(queue'[l]) = Len(queue[l]) + 1
      /\ \A i \in 1..Len(queue[l]) : queue'[l][i] = queue[l][i]
      /\ queue'[l][Len(queue[l]) + 1] = q
      /\ \A k \in Lock : k # l => queue'[k] = queue[k]
  <2>1. queue'[l] = Append(queue[l], q)
    BY DEF LockTypes
  <2>2. \A k \in Lock : k # l => queue'[k] = queue[k]
    BY DEF LockTypes
  <2>. QED BY <1>0, <2>1, <2>2, AppendProperties
<1>2. LockTypes'
  <2>1. queue' \in [Lock -> Seq(Request)]
    BY <1>1 DEF LockTypes
  <2>2. ASSUME NEW u \in Task PROVE pc'[u] \in 1..(Len(Program(u)') + 1)
    <3>1. Program(u)' = Program(u) /\ pc[u] \in 1..(Len(Program(u)) + 1)
      BY DEF LockTypes, Program
    <3>. QED BY <3>1
  <2>. QED BY <2>1, <2>2 DEF LockTypes
<1>3. HolderInv'
  BY DEF LockInv, HolderInv, Program
<1>4. \A i \in 1..Len(queue[l]) : queue[l][i].task # t
  BY <1>0 DEF Waits
<1>5. QueueInv'
  <2> SUFFICES ASSUME NEW k \in Lock, NEW i \in DOMAIN queue'[k]
               PROVE  Queued(k, queue'[k][i].task)
    BY DEF QueueInv, Queued, Finished, NextStep
  <2>1. CASE i \in DOMAIN queue[k] /\ queue'[k][i] = queue[k][i]
    BY <2>1 DEF LockInv, QueueInv
  <2>2. CASE k = l /\ queue'[k][i] = q
    BY <2>2 DEF Queued, Takes
  <2>3. CASE k # l
    BY <2>1, <2>3, <1>1
  <2>4. CASE k = l
    <3>1. i \in 1..(Len(queue[l]) + 1)
      BY <2>4, <1>1
    <3>. QED BY <3>1, <2>1, <2>2, <2>4, <1>0, <1>1
  <2>. QED BY <2>3, <2>4
<1>6. OnceInv'
  <2> SUFFICES ASSUME NEW k \in Lock, NEW i \in DOMAIN queue'[k], NEW j \in DOMAIN queue'[k], i # j
               PROVE  queue'[k][i].task # queue'[k][j].task
    BY DEF OnceInv
  <2>1. CASE k # l
    BY <2>1, <1>1 DEF LockInv, OnceInv
  <2>2. CASE k = l
    <3>1. i \in 1..(Len(queue[l]) + 1) /\ j \in 1..(Len(queue[l]) + 1)
      BY <2>2, <1>1
    <3>2. CASE i \in 1..Len(queue[l]) /\ j \in 1..Len(queue[l])
      BY <3>2, <2>2, <1>0, <1>1 DEF LockInv, OnceInv
    <3>3. CASE i = Len(queue[l]) + 1
      BY <3>1, <3>3, <2>2, <1>0, <1>1, <1>4
    <3>4. CASE j = Len(queue[l]) + 1
      BY <3>1, <3>4, <2>2, <1>0, <1>1, <1>4
    <3>. QED BY <3>1, <3>2, <3>3, <3>4, <1>0
  <2>. QED BY <2>1, <2>2
<1>7. BusyInv'
  BY <1>1 DEF LockInv, BusyInv
<1>. QED BY <1>2, <1>3, <1>5, <1>6, <1>7 DEF LockInv

LEMMA AcquireLocks ==
  ASSUME Operation \subseteq Ordered, LockInv, NEW t \in Task, Acquire(t)
  PROVE  LockInv'
<1>1. Runs(t) /\ NextStep(t).do \in {"r", "w"} /\ ~Finished(t) /\ LockTypes
  BY DEF Acquire, Runs, LockInv
<1>2. PICK q : q = [task |-> t, mode |-> NextStep(t).do]
  OBVIOUS
<1>3. q \in Request /\ q.task = t
  BY <1>1, <1>2 DEF Request
<1>4. PICK l \in NextStep(t).locks :
        \/ /\ queue[l] = <<>> /\ Compatible(q, held[l])
           /\ held' = [held EXCEPT ![l] = @ \cup {q}]
           /\ pc' = [pc EXCEPT ![t] = @ + 1]
           /\ UNCHANGED <<op, queue>>
        \/ /\ queue[l] # <<>> \/ ~Compatible(q, held[l])
           /\ queue' = [queue EXCEPT ![l] = Append(@, q)]
           /\ UNCHANGED <<op, held, pc>>
  BY <1>2 DEF Acquire
<1>5. l \in Lock /\ NextStep(t).locks = {l} /\ NextStep(t).do # "drop"
  BY <1>1, <1>4, AtStep
<1>6. CASE queue[l] = <<>> /\ held' = [held EXCEPT ![l] = @ \cup {q}]
           /\ pc' = [pc EXCEPT ![t] = @ + 1] /\ UNCHANGED <<op, queue>>
  BY <1>1, <1>3, <1>5, <1>6, TakenAtOnce
<1>7. CASE (queue[l] # <<>> \/ ~Compatible(q, held[l]))
           /\ queue' = [queue EXCEPT ![l] = Append(@, q)] /\ UNCHANGED <<op, held, pc>>
  <2>1. queue[l] # <<>> \/ held[l] # {}
    BY <1>7 DEF Compatible
  <2>. QED BY <1>1, <1>3, <1>5, <1>7, <2>1, Enqueued
<1>. QED BY <1>4, <1>6, <1>7

\* Guards are dropped and their locks handed on.
LEMMA ReleaseLocks ==
  ASSUME Operation \subseteq Ordered, LockInv, NEW t \in Task, Release(t)
  PROVE  LockInv'
<1>1. Runs(t) /\ ~Finished(t) /\ ~Waits(t) /\ NextStep(t).do = "drop" /\ LockTypes
  BY DEF Release, Runs, LockInv
<1>2. PICK left : left = [l \in Lock |-> {h \in held[l] : h.task # t}]
  OBVIOUS
<1>3. PICK n : n = [l \in Lock |-> IF l \in NextStep(t).locks THEN Grantable(queue[l], left[l]) ELSE 0]
  OBVIOUS
<1>4. PICK granted : granted = [l \in Lock |-> {queue[l][i] : i \in 1..n[l]}]
  OBVIOUS
<1>5. PICK resumed : resumed = {q.task : q \in UNION {granted[l] : l \in NextStep(t).locks}}
  OBVIOUS
<1>6. NextStep(t) = Program(t)[pc[t]] /\ NextStep(t).locks \subseteq Lock /\ pc[t] \in Nat /\ pc[t] >= 1
  <2>1. NextStep(t) \in LockStep /\ NextStep(t) = Program(t)[pc[t]] /\ pc[t] \in Nat /\ pc[t] >= 1
    BY <1>1, AtStep
  <2>. QED BY <2>1 DEF LockStep
<1>7. /\ held' = [l \in Lock |-> IF l \in NextStep(t).locks THEN left[l] \cup granted[l] ELSE held[l]]
      /\ queue' = [l \in Lock |-> SubSeq(queue[l], n[l] + 1, Len(queue[l]))]
      /\ pc' = [u \in Task |-> IF u = t \/ u \in resumed THEN pc[u] + 1 ELSE pc[u]]
      /\ op' = op
  BY <1>2, <1>3, <1>4, <1>5, <1>6 DEF Release
<1>8. ASSUME NEW l \in Lock
      PROVE  /\ n[l] \in 0..Len(queue[l]) /\ Len(queue[l]) \in Nat
             /\ queue[l] # <<>> /\ left[l] = {} /\ l \in NextStep(t).locks => n[l] >= 1
             /\ l \notin NextStep(t).locks => n[l] = 0
  <2>1. queue[l] \in Seq(Request) /\ Len(queue[l]) \in Nat
    BY <1>1 DEF LockTypes
  <2>. QED BY <2>1, <1>3, GrantableType
<1>9. ASSUME NEW l \in Lock
      PROVE  /\ queue'[l] \in Seq(Request) /\ Len(queue'[l]) = Len(queue[l]) - n[l]
             /\ \A i \in 1..(Len(queue[l]) - n[l]) :
                  n[l] + i \in 1..Len(queue[l]) /\ queue'[l][i] = queue[l][n[l] + i]
  <2>1. queue[l] \in Seq(Request) /\ queue'[l] = SubSeq(queue[l], n[l] + 1, Len(queue[l]))
    BY <1>1, <1>7 DEF LockTypes
  <2>2. PICK s, m : s = queue[l] /\ m = n[l]
    OBVIOUS
  <2>3. s \in Seq(Request) /\ m \in 0..Len(s)
    BY <2>1, <2>2, <1>8
  <2>4. /\ SubSeq(s, m + 1, Len(s)) \in Seq(Request)
        /\ Len(SubSeq(s, m + 1, Len(s))) = Len(s) - m
        /\ \A i \in 1..(Len(s) - m) : m + i \in 1..Len(s) /\ SubSeq(s, m + 1, Len(s))[i] = s[m + i]
    BY <2>3, RestOfQueue
  <2>. QED BY <2>1, <2>2, <2>4
\* A resumed task was queued, so it is not t.
<1>10. ASSUME NEW l \in Lock, NEW i \in 1..n[l]
       PROVE  /\ i \in DOMAIN queue[l] /\ queue[l][i] \in Request /\ queue[l][i].task \in Task
              /\ Queued(l, queue[l][i].task) /\ queue[l][i].task # t
              /\ queue[l][i].task \in resumed
  <2>1. queue[l] \in Seq(Request) /\ i \in 1..Len(queue[l])
    BY <1>1, <1>8 DEF LockTypes
  <2>2. i \in DOMAIN queue[l] /\ queue[l][i] \in Request
    BY <2>1
  <2>3. l \in NextStep(t).locks
    BY <1>8
  <2>4. queue[l][i] \in granted[l]
    BY <1>4
  <2>5. queue[l][i].task \in resumed
    BY <2>3, <2>4, <1>5
  <2>6. Queued(l, queue[l][i].task) /\ queue[l][i].task # t
    BY <2>2, <1>1 DEF LockInv, QueueInv, Waits
  <2>. QED BY <2>2, <2>5, <2>6 DEF Request
<1>11. ASSUME NEW u \in resumed
       PROVE  \E l \in Lock : \E i \in 1..n[l] : u = queue[l][i].task
  <2>1. PICK l \in NextStep(t).locks : \E q \in granted[l] : u = q.task
    BY <1>5
  <2>. QED BY <2>1, <1>4, <1>6
<1>12. ASSUME NEW u \in resumed
       PROVE  u \in Task /\ ~Finished(u) /\ NextStep(u).do # "drop" /\ u # t
  <2>0. PICK l \in Lock : \E i \in 1..n[l] : u = queue[l][i].task
    BY <1>11
  <2>1. PICK i \in 1..n[l] : u = queue[l][i].task
    BY <2>0
  <2>. QED BY <2>1, <1>10 DEF Queued, Takes
<1>13. ASSUME NEW u \in Task
       PROVE  /\ Program(u)' = Program(u)
              /\ pc'[u] = IF u = t \/ u \in resumed THEN pc[u] + 1 ELSE pc[u]
  BY <1>7 DEF Program
<1>14. LockTypes'
  <2>1. ASSUME NEW u \in Task PROVE pc'[u] \in Nat /\ pc'[u] \in 1..(Len(Program(u)) + 1)
    <3>1. CASE u = t \/ u \in resumed
      <4>1. ~Finished(u)
        BY <3>1, <1>1, <1>12
      <4>. QED BY <4>1, <3>1, <1>1, <1>13, AtStep
    <3>2. CASE ~(u = t \/ u \in resumed)
      BY <3>2, <1>1, <1>13 DEF LockTypes
    <3>. QED BY <3>1, <3>2
  <2>2. \A u \in Task : pc'[u] \in 1..(Len(Program(u)') + 1)
    BY <2>1, <1>13
  <2>3. pc' \in [Task -> Nat]
    BY <2>1, <1>7
  <2>4. queue' \in [Lock -> Seq(Request)]
    BY <1>7, <1>9
  <2>5. held' \in [Lock -> SUBSET Request]
    <3>1. ASSUME NEW l \in Lock PROVE left[l] \subseteq Request /\ granted[l] \subseteq Request
      BY <1>1, <1>2, <1>4, <1>10 DEF LockTypes
    <3>2. ASSUME NEW l \in Lock PROVE held'[l] \in SUBSET Request
      BY <3>1, <1>1, <1>7 DEF LockTypes
    <3>. QED BY <3>2, <1>7
  <2>. QED BY <2>2, <2>3, <2>4, <2>5, <1>1, <1>7 DEF LockTypes
<1>15. HolderInv'
  <2> SUFFICES ASSUME NEW k \in Lock, NEW h \in held'[k]
               PROVE  k \in HeldAt(Program(h.task)', pc'[h.task])
    BY DEF HolderInv
  <2>1. h.task \in Task
    <3>1. h \in Request
      BY <1>14 DEF LockTypes
    <3>. QED BY <3>1 DEF Request
  <2>2. pc[h.task] \in Nat /\ pc[h.task] >= 1
    BY <2>1, <1>1, AtStep
  <2>3. CASE \E i \in 1..n[k] : h = queue[k][i]
    <3>1. h.task \in resumed /\ Takes(Program(h.task)[pc[h.task]], k)
      BY <2>3, <1>10 DEF Queued, NextStep, Program
    <3>2. k \in HeldAt(Program(h.task), pc[h.task] + 1)
      BY <3>1, <2>2, HeldNext
    <3>. QED BY <3>1, <3>2, <2>1, <1>13
  <2>4. CASE h \in held[k] /\ (k \in NextStep(t).locks => h.task # t)
    <3>1. k \in HeldAt(Program(h.task), pc[h.task])
      BY <2>4 DEF LockInv, HolderInv
    <3>2. CASE h.task = t \/ h.task \in resumed
      <4>1. ~Drops(Program(h.task)[pc[h.task]], k)
        <5>1. CASE h.task = t
          BY <5>1, <2>4, <1>6 DEF Drops
        <5>2. CASE h.task \in resumed
          BY <5>2, <1>12 DEF Drops, NextStep, Program
        <5>. QED BY <3>2, <5>1, <5>2
      <4>2. k \in HeldAt(Program(h.task), pc[h.task] + 1)
        BY <3>1, <4>1, <2>2, HeldNext
      <4>. QED BY <4>2, <3>2, <2>1, <1>13
    <3>3. CASE ~(h.task = t \/ h.task \in resumed)
      BY <3>1, <3>3, <2>1, <1>13
    <3>. QED BY <3>2, <3>3
  <2>5. CASE k \in NextStep(t).locks
    <3>1. h \in left[k] \/ h \in granted[k]
      BY <2>5, <1>7
    <3>. QED BY <3>1, <2>3, <2>4, <1>2, <1>4
  <2>6. CASE k \notin NextStep(t).locks
    BY <2>4, <2>6, <1>7
  <2>. QED BY <2>5, <2>6
<1>16. ASSUME NEW k \in Lock, NEW i \in DOMAIN queue'[k]
       PROVE  /\ n[k] + i \in DOMAIN queue[k] /\ queue'[k][i] = queue[k][n[k] + i]
              /\ i \in Nat /\ i >= 1 /\ n[k] \in Nat
  <2>1. queue[k] \in Seq(Request) /\ queue'[k] \in Seq(Request)
    BY <1>1, <1>9 DEF LockTypes
  <2>2. i \in 1..(Len(queue[k]) - n[k]) /\ DOMAIN queue[k] = 1..Len(queue[k])
    BY <2>1, <1>9
  <2>3. i \in Nat /\ i >= 1 /\ n[k] \in Nat
    BY <2>2, <1>8
  <2>4. n[k] + i \in 1..Len(queue[k]) /\ queue'[k][i] = queue[k][n[k] + i]
    BY <2>2, <1>9
  <2>. QED BY <2>2, <2>3, <2>4
<1>17. QueueInv'
  <2> SUFFICES ASSUME NEW k \in Lock, NEW i \in DOMAIN queue'[k]
               PROVE  Queued(k, queue[k][i].task)'
    BY DEF QueueInv
  <2>1. PICK u : u = queue[k][n[k] + i].task
    OBVIOUS
  <2>2. u = queue'[k][i].task /\ Queued(k, u) /\ u # t /\ u \in Task
    <3>1. n[k] + i \in DOMAIN queue[k] /\ queue'[k][i] = queue[k][n[k] + i]
      BY <1>16
    <3>2. queue[k][n[k] + i] \in Request
      BY <3>1, <1>1 DEF LockTypes
    <3>. QED BY <3>1, <3>2, <2>1, <1>1 DEF LockInv, QueueInv, Waits, Request
  <2>3. u \notin resumed
    <3> SUFFICES ASSUME u \in resumed PROVE FALSE
      OBVIOUS
    <3>0. PICK l \in Lock : \E j \in 1..n[l] : u = queue[l][j].task
      BY <1>11
    <3>1. PICK j \in 1..n[l] : u = queue[l][j].task
      BY <3>0
    <3>2. Queued(l, u) /\ j \in DOMAIN queue[l]
      BY <3>1, <1>10
    <3>3. l = k
      <4>1. l \in NextStep(u).locks /\ k \in NextStep(u).locks /\ NextStep(u).do # "drop" /\ ~Finished(u)
        BY <3>2, <2>2 DEF Queued, Takes
      <4>. QED BY <4>1, <2>2, <1>1, AtStep
    <3>4. n[k] + i \in DOMAIN queue[k] /\ j # n[k] + i
      BY <3>1, <3>3, <1>16
    <3>. QED BY <3>1, <3>2, <3>3, <3>4, <2>1 DEF LockInv, OnceInv
  <2>4. Queued(k, u)'
    <3>1. pc'[u] = pc[u] /\ op'[u] = op[u]
      BY <2>2, <2>3, <1>7, <1>13
    <3>. QED BY <3>1, <2>2 DEF Queued, Finished, NextStep
  <2>. QED BY <2>2, <2>4 DEF Queued, Finished, NextStep
<1>18. OnceInv'
  <2> SUFFICES ASSUME NEW k \in Lock, NEW i \in DOMAIN queue'[k], NEW j \in DOMAIN queue'[k], i # j
               PROVE  queue'[k][i].task # queue'[k][j].task
    BY DEF OnceInv
  <2>1. /\ n[k] + i \in DOMAIN queue[k] /\ queue'[k][i] = queue[k][n[k] + i]
        /\ n[k] + j \in DOMAIN queue[k] /\ queue'[k][j] = queue[k][n[k] + j]
        /\ n[k] + i # n[k] + j
    BY <1>16
  <2>. QED BY <2>1 DEF LockInv, OnceInv
<1>19. BusyInv'
  <2> SUFFICES ASSUME NEW k \in Lock, queue'[k] # <<>>
               PROVE  held'[k] # {}
    BY DEF BusyInv
  <2>1. queue[k] # <<>> /\ queue[k] \in Seq(Request)
    <3>1. queue[k] \in Seq(Request) /\ queue'[k] \in Seq(Request) /\ Len(queue'[k]) # 0
      BY <1>1, <1>9 DEF LockTypes
    <3>2. Len(queue[k]) # 0
      BY <3>1, <1>8, <1>9
    <3>. QED BY <3>1, <3>2
  <2>2. held[k] # {}
    BY <2>1 DEF LockInv, BusyInv
  <2>3. CASE k \notin NextStep(t).locks
    BY <2>2, <2>3, <1>7
  <2>4. CASE k \in NextStep(t).locks /\ left[k] # {}
    BY <2>4, <1>7
  <2>5. CASE k \in NextStep(t).locks /\ left[k] = {}
    <3>1. 1 \in 1..n[k]
      BY <2>1, <2>5, <1>8
    <3>2. queue[k][1] \in granted[k]
      BY <3>1, <1>4
    <3>. QED BY <3>2, <2>5, <1>7
  <2>. QED BY <2>3, <2>4, <2>5
<1>. QED BY <1>14, <1>15, <1>17, <1>18, <1>19 DEF LockInv

\* The last lock that has a queue is held by a task that runs.
LEMMA LockInvRuns ==
  ASSUME Operation \subseteq Ordered, LockInv
  PROVE  NoDeadlock
<1> SUFFICES ASSUME NEW t \in Task, ~Finished(t), \A u \in Task : ~Runs(u)
             PROVE  FALSE
  BY DEF NoDeadlock
<1>. LockTypes
  BY DEF LockInv
<1>1. ASSUME NEW u \in Task, ~Finished(u)
      PROVE  \E l \in Lock : queue[l] # <<>> /\ Takes(NextStep(u), l)
  <2>0. PICK l \in Lock : \E i \in DOMAIN queue[l] : queue[l][i].task = u
    BY <1>1 DEF Runs, Waits
  <2>1. PICK i \in DOMAIN queue[l] : queue[l][i].task = u
    BY <2>0
  <2>. QED BY <2>1 DEF LockInv, QueueInv, Queued, LockTypes
<1>2. ASSUME NEW l \in Lock, queue[l] # <<>>
      PROVE  \E k \in Lock : queue[k] # <<>> /\ Rank[l] < Rank[k]
  <2>1. PICK h \in held[l] : TRUE
    BY <1>2 DEF LockInv, BusyInv
  <2>2. h.task \in Task
    BY DEF LockTypes, Request
  <2>3. PICK u \in Task : u = h.task
    BY <2>2
  <2>4. l \in HeldAt(Program(u), pc[u])
    BY <2>1, <2>3 DEF LockInv, HolderInv
  <2>5. ~Finished(u)
    BY <2>4, AtStep DEF Respects
  <2>6. PICK k \in Lock : queue[k] # <<>> /\ Takes(NextStep(u), k)
    BY <2>5, <1>1
  <2>7. pc[u] \in 1..Len(Program(u)) /\ NextStep(u) = Program(u)[pc[u]] /\ Respects(Program(u))
    BY <2>5, AtStep
  <2>8. PICK x \in Lock : Program(u)[pc[u]].locks = {x} /\ \A g \in HeldAt(Program(u), pc[u]) : Rank[g] < Rank[x]
    BY <2>6, <2>7 DEF Respects, Takes
  <2>. QED BY <2>4, <2>6, <2>7, <2>8 DEF Takes
<1>3. PICK l1 \in Lock : queue[l1] # <<>>
  BY <1>1
<1>4. PICK l2 \in Lock : queue[l2] # <<>> /\ Rank[l1] < Rank[l2]
  BY <1>2, <1>3
<1>5. PICK l3 \in Lock : queue[l3] # <<>> /\ Rank[l2] < Rank[l3]
  BY <1>2, <1>4
<1>6. PICK l4 \in Lock : queue[l4] # <<>> /\ Rank[l3] < Rank[l4]
  BY <1>2, <1>5
<1>7. PICK l5 \in Lock : queue[l5] # <<>> /\ Rank[l4] < Rank[l5]
  BY <1>2, <1>6
<1>8. PICK l6 \in Lock : queue[l6] # <<>> /\ Rank[l5] < Rank[l6]
  BY <1>2, <1>7
<1>9. PICK l7 \in Lock : queue[l7] # <<>> /\ Rank[l6] < Rank[l7]
  BY <1>2, <1>8
<1>10. PICK l8 \in Lock : Rank[l7] < Rank[l8]
  BY <1>2, <1>9
<1>11. /\ Rank[l1] \in 1..7 /\ Rank[l2] \in 1..7 /\ Rank[l3] \in 1..7 /\ Rank[l4] \in 1..7
       /\ Rank[l5] \in 1..7 /\ Rank[l6] \in 1..7 /\ Rank[l7] \in 1..7 /\ Rank[l8] \in 1..7
  BY RankType
<1>. QED BY <1>4, <1>5, <1>6, <1>7, <1>8, <1>9, <1>10, <1>11

\* Whatever number of tasks run the operations other than remove_peer,
\* stream_delete and check_tick, and in whatever order tokio runs them, one of
\* the unfinished ones can proceed (the locks of internal.rs, subscribe.rs and
\* manager.rs; DELETE and the reaper are the ones that break the lock order).
THEOREM OrderedNeverDeadlock ==
  ASSUME Operation \subseteq Ordered
  PROVE  Spec => []NoDeadlock
<1>1. Init => LockInv
  BY LockInit
<1>2. LockInv /\ [Next]_vars => LockInv'
  <2> SUFFICES ASSUME LockInv, [Next]_vars PROVE LockInv'
    OBVIOUS
  <2>1. CASE Next
    BY <2>1, AcquireLocks, ReleaseLocks DEF Next
  <2>2. CASE UNCHANGED vars
    BY <2>2 DEF vars, LockInv, LockTypes, HolderInv, QueueInv, OnceInv, BusyInv, Queued, Finished,
                NextStep, Program
  <2>. QED BY <2>1, <2>2
<1>3. LockInv => NoDeadlock
  BY LockInvRuns
<1>. QED BY <1>1, <1>2, <1>3, PTL DEF Spec
================================================================================
