-------------------------- MODULE InputFrames_proofs --------------------------
(***************************************************************************)
(* The readers of the input devices, for every reader, every size of the   *)
(* kernel's buffer that holds a frame, every placement and any number of   *)
(* frames.                                                                 *)
(*                                                                         *)
(* Nothing in the stream of events says where a frame begins.  What the    *)
(* proof counts is the age of an event, the number of events reported      *)
(* after it: the entries of the queue are the newest events reported, in   *)
(* order, with at most a SYN_DROPPED in front (RunOfEvents).  So the       *)
(* length of the queue tells whether it begins with a frame.               *)
(***************************************************************************)
EXTENDS InputFrames, WellFoundedInduction, TLAPS

-----------------------------------------------------------------------------
(* Induction over a set of naturals.                                       *)

\* There is a well-founded relation that is "less than" on the naturals.
LEMMA LessRelation ==
    \E R : /\ IsWellFoundedOn(R, Nat)
           /\ \A m, n \in Nat : <<m, n>> \in R <=> m < n
<1>1. \A m, n \in Nat : <<m, n>> \in OpToRel(<, Nat) <=> m < n
  BY DEF OpToRel
<1> WITNESS OpToRel(<, Nat)
<1> QED BY <1>1, NatLessThanWellFounded, Zenon

\* A set of naturals that holds 0 and the successors of its members holds all.
LEMMA SetInduction ==
    ASSUME NEW T, 0 \in T, \A n \in Nat : n \in T => n + 1 \in T
    PROVE  Nat \subseteq T
<1>1. PICK R : /\ IsWellFoundedOn(R, Nat)
               /\ \A m, n \in Nat : <<m, n>> \in R <=> m < n
  BY LessRelation
<1> DEFINE U == Nat \ T
<1>2. SUFFICES ASSUME U # {} PROVE FALSE
  OBVIOUS
<1>3. \E n \in U : \A m \in U : ~ (<<m, n>> \in R)
  <2>1. IsWellFoundedOn(R, Nat) /\ U \subseteq Nat
    BY <1>1
  <2> HIDE DEF U
  <2> QED BY <2>1, <1>2, WFMin, Zenon
<1>4. PICK n \in U : \A m \in U : ~ (<<m, n>> \in R)
  BY <1>3, Zenon
<1>5. n \in Nat /\ n \notin T /\ n # 0
  OBVIOUS
<1>6. n - 1 \in Nat /\ n - 1 < n /\ (n - 1) + 1 = n
  BY <1>5
<1>7. n - 1 \in U
  BY <1>5, <1>6
<1>8. <<n - 1, n>> \in R
  BY <1>1, <1>5, <1>6, Zenon
<1> QED BY <1>4, <1>7, <1>8, Zenon

-----------------------------------------------------------------------------
(* The kernel's buffer after a frame.                                      *)

Events == [frame : Nat, part : Nat]

LEMMA EventFields ==
    ASSUME NEW n, NEW p
    PROVE  /\ Event(n, p).frame = n
           /\ Event(n, p).part = p
           /\ n \in Nat /\ p \in Nat => Event(n, p) \in Events
           /\ n \in Nat \ {0} => Event(n, p) \notin {Dropped, Junk, JunkSyn}
BY DEF Event, Events, Dropped, Junk, JunkSyn

\* g lists the queues after 0 to k events of frame n.
Pushes(g, n, k) ==
    g = [j \in 0..k |-> IF j = 0 THEN queue ELSE Push(g[j - 1], Event(n, j))]

\* There is such a g for every k: each event adds one queue.
LEMMA PushesExist ==
    ASSUME NEW n
    PROVE  \A k \in Nat : \E g : Pushes(g, n, k)
<1> DEFINE T == {k \in Nat : \E g : Pushes(g, n, k)}
<1>1. 0 \in T
  <2> DEFINE g == [j \in 0..0 |-> queue]
  <2>1. Pushes(g, n, 0)
    BY DEF Pushes
  <2> QED BY <2>1
<1>2. ASSUME NEW k \in Nat, k \in T PROVE k + 1 \in T
  <2>1. PICK g : Pushes(g, n, k)
    BY <1>2
  <2> DEFINE h == [j \in 0..(k + 1) |->
                     IF j = k + 1 THEN Push(g[k], Event(n, k + 1)) ELSE g[j]]
  <2>2. ASSUME NEW j \in 0..(k + 1)
        PROVE  h[j] = IF j = 0 THEN queue ELSE Push(h[j - 1], Event(n, j))
    <3>1. CASE j = k + 1
      <4>1. j # 0 /\ j - 1 = k /\ k # k + 1 /\ k \in 0..(k + 1)
        BY <3>1
      <4>2. h[j - 1] = g[k] /\ h[j] = Push(g[k], Event(n, j))
        BY <3>1, <4>1
      <4> HIDE DEF h
      <4> QED BY <4>1, <4>2
    <3>2. CASE j # k + 1
      <4>1. j \in 0..k /\ (j # 0 => j - 1 \in 0..(k + 1) /\ j - 1 # k + 1)
        BY <3>2
      <4>2. g[j] = IF j = 0 THEN queue ELSE Push(g[j - 1], Event(n, j))
        BY <2>1, <4>1 DEF Pushes
      <4>3. h[j] = g[j] /\ (j # 0 => h[j - 1] = g[j - 1])
        BY <3>2, <4>1
      <4> HIDE DEF h
      <4> QED BY <4>2, <4>3
    <3> QED BY <3>1, <3>2
  <2>3. h = [j \in 0..(k + 1) |->
               IF j = 0 THEN queue ELSE Push(h[j - 1], Event(n, j))]
    <3>1. h = [j \in 0..(k + 1) |-> h[j]]
      OBVIOUS
    <3> HIDE DEF h
    <3> QED BY <2>2, <3>1
  <2>4. Pushes(h, n, k + 1)
    BY <2>3 DEF Pushes
  <2> QED BY <2>4
<1>3. Nat \subseteq T
  <2> HIDE DEF T
  <2> QED BY <1>1, <1>2, SetInduction
<1> QED BY <1>3

LEMMA Lens == FrameLen \in {6, 12} /\ FrameLen \in Nat
BY DEF FrameLen

LEMMA PushFramePushes ==
    ASSUME NEW n
    PROVE  \E g : Pushes(g, n, FrameLen) /\ PushFrame(n) = g[FrameLen]
<1> DEFINE f == CHOOSE g : g = [j \in 0..FrameLen |->
                   IF j = 0 THEN queue ELSE Push(g[j - 1], Event(n, j))]
<1>1. \E g : g = [j \in 0..FrameLen |->
                   IF j = 0 THEN queue ELSE Push(g[j - 1], Event(n, j))]
  <2>1. \E g : Pushes(g, n, FrameLen)
    BY PushesExist, Lens
  <2> QED BY <2>1, Zenon DEF Pushes
<1>2. f = [j \in 0..FrameLen |->
             IF j = 0 THEN queue ELSE Push(f[j - 1], Event(n, j))]
  BY <1>1, Zenon
<1>3. PushFrame(n) = f[FrameLen]
  BY Zenon DEF PushFrame
<1> QED BY <1>2, <1>3 DEF Pushes

\* The queue q after k events of frame n: they are behind what was there, or
\* the last of them are behind a SYN_DROPPED.
Appended(q, n, k) ==
    /\ Len(q) = Len(queue) + k
    /\ \A i \in 1..Len(queue) : q[i] = queue[i]
    /\ \A i \in 1..k : q[Len(queue) + i] = Event(n, i)

Overflowed(q, n, k) ==
    /\ Len(q) \in 2..(k + 1)
    /\ q[1] = Dropped
    /\ \A i \in 2..Len(q) : q[i] = Event(n, k - (Len(q) - i))

AfterPushes(q, n, k) ==
    /\ q \in Seq(Events) /\ Len(q) < bufsize
    /\ IF Len(queue) + k < bufsize THEN Appended(q, n, k) ELSE Overflowed(q, n, k)

LEMMA PushKeeps ==
    ASSUME bufsize \in Nat, bufsize > 12, queue \in Seq(Events),
           NEW n \in Nat, NEW k \in Nat, NEW q, AfterPushes(q, n, k)
    PROVE  AfterPushes(Push(q, Event(n, k + 1)), n, k + 1)
<1> DEFINE e == Event(n, k + 1)
           r == Push(q, e)
<1>1. q \in Seq(Events) /\ Len(q) < bufsize /\ Len(q) \in Nat
      /\ Len(queue) \in Nat
  BY DEF AfterPushes
<1>2. e \in Events /\ Dropped \in Events
  BY EventFields DEF Dropped
<1> SUFFICES AfterPushes(r, n, k + 1)
  OBVIOUS
<1>3. CASE Len(q) + 1 = bufsize
  <2>1. r = <<Dropped, e>>
    BY <1>3 DEF Push
  <2> HIDE DEF r, e
  <2>2. r \in Seq(Events) /\ Len(r) = 2 /\ r[1] = Dropped /\ r[2] = e
    BY <2>1, <1>2
  <2>3. ~ (Len(queue) + (k + 1) < bufsize)
    BY <1>1, <1>3 DEF AfterPushes, Appended, Overflowed
  <2>4. Overflowed(r, n, k + 1)
    BY <2>2 DEF Overflowed, e
  <2> QED BY <2>2, <2>3, <2>4, bufsize > 12 DEF AfterPushes
<1>4. CASE Len(q) + 1 # bufsize
  <2>1. r = Append(q, e)
    BY <1>4 DEF Push
  <2> HIDE DEF r, e
  <2>2. /\ r \in Seq(Events) /\ Len(r) = Len(q) + 1
        /\ \A i \in 1..Len(q) : r[i] = q[i]
        /\ r[Len(q) + 1] = e
    BY <2>1, <1>1, <1>2
  <2>3. CASE Len(queue) + k < bufsize
    <3>1. Appended(q, n, k)
      BY <2>3 DEF AfterPushes
    <3>2. Len(queue) + (k + 1) < bufsize
      BY <3>1, <1>1, <1>4 DEF Appended
    <3>3. Appended(r, n, k + 1)
      <4>1. Len(r) = Len(queue) + (k + 1)
        BY <3>1, <2>2, <1>1 DEF Appended
      <4>2. \A i \in 1..Len(queue) : r[i] = queue[i]
        BY <3>1, <2>2, <1>1 DEF Appended
      <4>3. ASSUME NEW i \in 1..(k + 1) PROVE r[Len(queue) + i] = Event(n, i)
        <5>1. CASE i = k + 1
          <6>1. Len(queue) + i = Len(q) + 1
            BY <5>1, <3>1, <1>1 DEF Appended
          <6> QED BY <6>1, <5>1, <2>2 DEF e
        <5>2. CASE i # k + 1
          <6>1. i \in 1..k /\ Len(queue) + i \in 1..Len(q)
            BY <5>2, <3>1, <1>1 DEF Appended
          <6> QED BY <6>1, <3>1, <2>2 DEF Appended
        <5> QED BY <5>1, <5>2
      <4> QED BY <4>1, <4>2, <4>3 DEF Appended
    <3> QED BY <3>2, <3>3, <2>2, <1>1, <1>4 DEF AfterPushes
  <2>4. CASE ~ (Len(queue) + k < bufsize)
    <3>1. Overflowed(q, n, k)
      BY <2>4 DEF AfterPushes
    <3>2. Overflowed(r, n, k + 1)
      <4>1. Len(r) \in 2..((k + 1) + 1) /\ r[1] = Dropped
        BY <3>1, <2>2, <1>1 DEF Overflowed
      <4>2. ASSUME NEW i \in 2..Len(r)
            PROVE  r[i] = Event(n, (k + 1) - (Len(r) - i))
        <5>1. CASE i = Len(r)
          <6>1. (k + 1) - (Len(r) - i) = k + 1 /\ i = Len(q) + 1
            BY <5>1, <2>2, <1>1
          <6> QED BY <6>1, <2>2 DEF e
        <5>2. CASE i # Len(r)
          <6>1. i \in 2..Len(q) /\ i \in 1..Len(q)
            BY <5>2, <2>2, <1>1
          <6>2. (k + 1) - (Len(r) - i) = k - (Len(q) - i)
            BY <6>1, <2>2, <1>1
          <6> QED BY <6>1, <6>2, <3>1, <2>2 DEF Overflowed
        <5> QED BY <5>1, <5>2
      <4> QED BY <4>1, <4>2 DEF Overflowed
    <3> QED BY <3>2, <2>2, <2>4, <1>1, <1>4 DEF AfterPushes
  <2> QED BY <2>3, <2>4
<1> QED BY <1>3, <1>4

\* What a report makes of the kernel's buffer, however often it overflows.
LEMMA PushFrameIs ==
    ASSUME bufsize \in Nat, bufsize > 12, queue \in Seq(Events),
           Len(queue) < bufsize, NEW n \in Nat
    PROVE  AfterPushes(PushFrame(n), n, FrameLen)
<1>1. PICK g : Pushes(g, n, FrameLen) /\ PushFrame(n) = g[FrameLen]
  BY PushFramePushes
<1> DEFINE T == {k \in Nat : k <= FrameLen => AfterPushes(g[k], n, k)}
<1>2. 0 \in T
  <2>1. g[0] = queue
    BY <1>1, Lens DEF Pushes
  <2>2. AfterPushes(queue, n, 0)
    BY DEF AfterPushes, Appended
  <2> QED BY <2>1, <2>2
<1>3. ASSUME NEW k \in Nat, k \in T PROVE k + 1 \in T
  <2>1. SUFFICES ASSUME k + 1 <= FrameLen PROVE AfterPushes(g[k + 1], n, k + 1)
    OBVIOUS
  <2>2. k + 1 \in 0..FrameLen /\ k + 1 # 0 /\ (k + 1) - 1 = k /\ k <= FrameLen
    BY <2>1, Lens
  <2>3. g[k + 1] = Push(g[k], Event(n, k + 1))
    BY <1>1, <2>2 DEF Pushes
  <2>4. AfterPushes(g[k], n, k)
    BY <1>3, <2>2
  <2> QED BY <2>3, <2>4, PushKeeps
<1>4. Nat \subseteq T
  <2> HIDE DEF T
  <2> QED BY <1>2, <1>3, SetInduction
<1>5. AfterPushes(g[FrameLen], n, FrameLen)
  BY <1>4, Lens
<1> QED BY <1>1, <1>5

-----------------------------------------------------------------------------
(* Samples.                                                                *)

Kinds3 == {"acc", "gyr", "sync"}

Buffers == [1..FrameLen -> Events]

AnySample == [sensor : {"acc", "gyr"}, stamp : Nat \X Nat, axes : [1..3 -> Int]]

LEMMA ValueIs ==
    ASSUME NEW e \in Events
    PROVE  /\ Value(e) \in Nat
           /\ e.part # 1 => Value(e) = 100 * e.frame + e.part
           /\ e.part = 1 /\ e.frame > EarlyFrames =>
                Value(e) = 100 * e.frame + 1
           /\ e = Dropped => Value(e) = 0
           /\ e.part = 1 /\ e.frame <= EarlyFrames => Value(e) = 0
BY InputAssumption DEF Value, Events, Dropped, Event

LEMMA RemapType ==
    ASSUME NEW v \in [1..3 -> Int], NEW p \in Placements
    PROVE  Remap(v, p) \in [1..3 -> Int]
<1>1. v[1] \in Int /\ v[2] \in Int /\ v[3] \in Int
  OBVIOUS
<1> DEFINE w == IF Exchanges(p) THEN <<v[2], v[1], v[3]>> ELSE v
<1>2. w[1] \in Int /\ w[2] \in Int /\ w[3] \in Int
  BY <1>1
<1>3. Remap(v, p) = [i \in 1..3 |-> IF i \in Negated(p) THEN -w[i] ELSE w[i]]
  BY DEF Remap
<1> HIDE DEF w
<1>4. \A i \in 1..3 : w[i] \in Int /\ -w[i] \in Int
  BY <1>2
<1> QED BY <1>3, <1>4

\* All samples of a buffer have the stamp of its first two events.
LEMMA SamplesAre ==
    ASSUME kind \in Kinds3, position \in Placements, NEW buf \in Buffers
    PROVE  /\ SamplesOf(buf) \in Seq(AnySample)
           /\ Len(SamplesOf(buf)) = IF kind = "sync" THEN 2 ELSE 1
           /\ \A j \in 1..Len(SamplesOf(buf)) :
                 SamplesOf(buf)[j].stamp = <<Value(buf[1]), Value(buf[2])>>
<1> DEFINE ax(i) == Axes(buf, i)
           turned == Remap(ax(3), position)
           st == <<Value(buf[1]), Value(buf[2])>>
<1>1. \A i \in 1..FrameLen : Value(buf[i]) \in Nat
  BY ValueIs DEF Buffers
<1>2. st \in Nat \X Nat
  BY <1>1, Lens
<1>3. ax(3) \in [1..3 -> Int]
  BY <1>1, Lens DEF Axes
<1>4. kind = "sync" => ax(6) \in [1..3 -> Int]
  <2> SUFFICES ASSUME kind = "sync" PROVE ax(6) \in [1..3 -> Int]
    OBVIOUS
  <2>1. FrameLen = 12
    BY DEF FrameLen
  <2> QED BY <1>1, <2>1 DEF Axes
<1>5. turned \in [1..3 -> Int]
  BY <1>3, RemapType
<1>6. \A s \in {"acc", "gyr"} : \A x \in [1..3 -> Int] :
        Sample(s, buf, x) \in AnySample /\ Sample(s, buf, x).stamp = st
  BY <1>2 DEF Sample, AnySample
<1> HIDE DEF ax, turned, st
<1>7. CASE kind = "acc"
  <2>1. SamplesOf(buf) = << Sample("acc", buf, ax(3)) >>
    BY <1>7 DEF SamplesOf, ax
  <2>2. Sample("acc", buf, ax(3)) \in AnySample
        /\ Sample("acc", buf, ax(3)).stamp = st
    BY <1>6, <1>3
  <2> QED BY <2>1, <2>2, <1>7 DEF st
<1>8. CASE kind = "gyr"
  <2>1. SamplesOf(buf) = << Sample("gyr", buf, turned) >>
    BY <1>8 DEF SamplesOf, turned, ax
  <2>2. Sample("gyr", buf, turned) \in AnySample
        /\ Sample("gyr", buf, turned).stamp = st
    BY <1>6, <1>5
  <2> QED BY <2>1, <2>2, <1>8 DEF st
<1>9. CASE kind = "sync"
  <2> DEFINE a == Sample("acc", buf, ax(3))
             g == Sample("gyr", buf, ax(6))
  <2>1. SamplesOf(buf) = <<a, g>>
    BY <1>9 DEF SamplesOf, ax
  <2>2. a \in AnySample /\ a.stamp = st /\ g \in AnySample /\ g.stamp = st
    BY <1>6, <1>3, <1>4, <1>9
  <2> HIDE DEF a, g
  <2> QED BY <2>1, <2>2, <1>9 DEF st
<1> QED BY <1>7, <1>8, <1>9 DEF Kinds3

LEMMA FrameIs ==
    ASSUME NEW n \in Nat
    PROVE  /\ Frame(n) \in Buffers
           /\ \A i \in 1..FrameLen : Frame(n)[i] = Event(n, i)
BY EventFields, Lens DEF Frame, Buffers

LEMMA WholeIs ==
    ASSUME kind \in Kinds3, position \in Placements, NEW n \in Nat
    PROVE  /\ Whole(n) \in Seq(AnySample)
           /\ Len(Whole(n)) = IF kind = "sync" THEN 2 ELSE 1
           /\ \A j \in 1..Len(Whole(n)) :
                /\ Whole(n)[j].stamp[2] = 100 * n + 2
                /\ n > EarlyFrames => Whole(n)[j].stamp[1] # 0
<1>1. Frame(n) \in Buffers /\ Frame(n)[1] = Event(n, 1)
      /\ Frame(n)[2] = Event(n, 2)
  BY FrameIs, Lens
<1>2. Value(Event(n, 2)) = 100 * n + 2
  BY ValueIs, EventFields
<1>3. n > EarlyFrames => Value(Event(n, 1)) # 0
  BY ValueIs, EventFields
<1>4. \A j \in 1..Len(Whole(n)) :
        Whole(n)[j].stamp = <<Value(Event(n, 1)), Value(Event(n, 2))>>
  BY <1>1, SamplesAre DEF Whole
<1> QED BY <1>1, <1>2, <1>3, <1>4, SamplesAre DEF Whole

\* s is a sample of frame n.
Has(s, n) == \E j \in 1..Len(Whole(n)) : s = Whole(n)[j]

LEMMA HasStamp ==
    ASSUME kind \in Kinds3, position \in Placements, NEW n \in Nat,
           NEW s, Has(s, n)
    PROVE  s.stamp[2] = 100 * n + 2
<1>1. PICK j \in 1..Len(Whole(n)) : s = Whole(n)[j]
  BY DEF Has
<1> QED BY <1>1, WholeIs

\* A sample is of one frame only.
LEMMA OtherFrame ==
    ASSUME kind \in Kinds3, position \in Placements, NEW f \in Nat,
           NEW n \in Nat, n # f, NEW t, \A i \in 1..Len(t) : Has(t[i], f)
    PROVE  \A i \in 1..Len(t) : ~Has(t[i], n)
<1> SUFFICES ASSUME NEW i \in 1..Len(t), Has(t[i], n) PROVE FALSE
  OBVIOUS
<1>1. t[i].stamp[2] = 100 * n + 2
  BY HasStamp
<1>2. t[i].stamp[2] = 100 * f + 2
  <2>1. Has(t[i], f)
    OBVIOUS
  <2> QED BY <2>1, HasStamp
<1> QED BY <1>1, <1>2

LEMMA PlacesAre ==
    ASSUME NEW n
    PROVE  PlacesOf(n) = {i \in 1..Len(samples) : Has(samples[i], n)}
BY DEF PlacesOf, Has

\* A sample stamped by an event of a frame is of no other frame.
LEMMA StampTells ==
    ASSUME kind \in Kinds3, position \in Placements,
           NEW e \in Events, e.frame # 0, e.part \in 1..FrameLen,
           NEW s, NEW a, s.stamp = <<a, Value(e)>>, NEW n \in Nat, Has(s, n)
    PROVE  e.frame = n
<1>1. s.stamp[2] = 100 * n + 2
  BY WholeIs DEF Has
<1>2. Value(e) = 100 * n + 2
  BY <1>1
<1>3. e.frame \in Nat /\ e.part \in Nat
  BY DEF Events
<1>4. Value(e) = 100 * e.frame + e.part \/ Value(e) = 0
  BY ValueIs, <1>3, InputAssumption
<1>5. e.part \in 1..12
  BY Lens
<1> QED BY <1>2, <1>3, <1>4, <1>5

\* Frame n has its samples, once and next to each other; an accelerometer's
\* frame without seconds has none.
Made(n) ==
    IF kind = "acc" /\ n <= EarlyFrames
    THEN PlacesOf(n) = {}
    ELSE \E i \in 1..Len(samples) :
           /\ PlacesOf(n) = i..(i + Len(Whole(n)) - 1)
           /\ SubSeq(samples, i, i + Len(Whole(n)) - 1) = Whole(n)

LEMMA ConfigSame ==
    ASSUME UNCHANGED config
    PROVE  /\ FrameLen' = FrameLen
           /\ \A e : IsSyn(e)' = IsSyn(e)
           /\ \A n : Frame(n)' = Frame(n)
           /\ \A buf : SamplesOf(buf)' = SamplesOf(buf)
           /\ \A n : Whole(n)' = Whole(n)
           /\ \A s, n : Has(s, n)' = Has(s, n)
<1>1. kind' = kind /\ position' = position
  BY DEF config
<1>2. FrameLen' = FrameLen
  BY <1>1 DEF FrameLen
<1>3. \A e : IsSyn(e)' = IsSyn(e)
  BY <1>2 DEF IsSyn
<1>4. \A n : Frame(n)' = Frame(n)
  BY <1>2 DEF Frame
<1>5. \A buf : SamplesOf(buf)' = SamplesOf(buf)
  BY <1>1 DEF SamplesOf
<1>6. \A n : Whole(n)' = Whole(n)
  BY <1>4, <1>5 DEF Whole
<1>7. \A s, n : Has(s, n)' = Has(s, n)
  BY <1>6 DEF Has
<1> QED BY <1>2, <1>3, <1>4, <1>5, <1>6, <1>7

LEMMA WholeLen ==
    ASSUME kind \in Kinds3, position \in Placements, NEW n \in Nat
    PROVE  /\ Len(Whole(n)) = 1 \/ Len(Whole(n)) = 2
           /\ Whole(n) \in Seq(AnySample)
BY WholeIs

LEMMA SeqsEqual ==
    ASSUME NEW S, NEW s \in Seq(S), NEW t \in Seq(S), Len(s) = Len(t),
           \A i \in 1..Len(t) : s[i] = t[i]
    PROVE  s = t
OBVIOUS

LEMMA SubSeqIs ==
    ASSUME NEW S, NEW s \in Seq(S), NEW m \in Nat, NEW k \in Nat,
           m + k <= Len(s)
    PROVE  /\ SubSeq(s, m + 1, m + k) \in Seq(S)
           /\ Len(SubSeq(s, m + 1, m + k)) = k
           /\ \A i \in 1..k : SubSeq(s, m + 1, m + k)[i] = s[m + i]
<1> DEFINE r == SubSeq(s, m + 1, m + k)
           v(i) == s[m + i]
<1>1. r = [i \in 1..k |-> v(i)]
  OBVIOUS
<1>2. \A i \in 1..k : v(i) \in S
  <2>1. \A i \in 1..k : m + i \in 1..Len(s)
    OBVIOUS
  <2> QED BY <2>1
<1> HIDE DEF r, v
<1>3. r \in Seq(S) /\ Len(r) = k /\ \A i \in 1..k : r[i] = v(i)
  BY <1>1, <1>2
<1> QED BY <1>3 DEF r, v

\* Samples of other frames change nothing for frame n.
LEMMA OtherSamples ==
    ASSUME kind \in Kinds3, position \in Placements, NEW n \in Nat,
           samples \in Seq(AnySample), NEW t \in Seq(AnySample),
           samples' = samples \o t, UNCHANGED config,
           \A i \in 1..Len(t) : ~Has(t[i], n)
    PROVE  /\ PlacesOf(n)' = PlacesOf(n)
           /\ Made(n) => Made(n)'
<1>1. Len(samples') = Len(samples) + Len(t)
  OBVIOUS
<1>2. \A i \in 1..Len(samples) : samples'[i] = samples[i]
  OBVIOUS
<1>3. \A i \in 1..Len(t) : samples'[Len(samples) + i] = t[i]
  OBVIOUS
<1>4. Len(samples) \in Nat /\ Len(t) \in Nat
  OBVIOUS
<1>5. PlacesOf(n) = {i \in 1..Len(samples) : Has(samples[i], n)}
  BY PlacesAre
<1>6. PlacesOf(n)' = {i \in 1..Len(samples') : Has(samples'[i], n)}
  <2>1. \A s : Has(s, n)' = Has(s, n)
    BY ConfigSame
  <2>2. PlacesOf(n)' = {i \in 1..Len(samples') : \E j \in 1..Len(Whole(n)') :
                           samples'[i] = Whole(n)'[j]}
    BY DEF PlacesOf
  <2> QED BY <2>2, ConfigSame DEF Has
<1>7. PlacesOf(n)' = PlacesOf(n)
  <2>1. \A i \in 1..Len(samples') :
          IF i \in 1..Len(samples) THEN samples'[i] = samples[i]
                                   ELSE ~Has(samples'[i], n)
    <3> SUFFICES ASSUME NEW i \in 1..Len(samples'), i \notin 1..Len(samples)
                 PROVE  ~Has(samples'[i], n)
      BY <1>2
    <3>1. i - Len(samples) \in 1..Len(t)
          /\ Len(samples) + (i - Len(samples)) = i
      BY <1>1, <1>4
    <3> QED BY <3>1, <1>3
  <2>2. 1..Len(samples) \subseteq 1..Len(samples')
    BY <1>1, <1>4
  <2> QED BY <2>1, <2>2, <1>5, <1>6
<1>8. ASSUME Made(n) PROVE Made(n)'
  <2>1. kind' = kind /\ Whole(n)' = Whole(n)
    BY ConfigSame DEF config
  <2>2. CASE kind = "acc" /\ n <= EarlyFrames
    BY <2>1, <2>2, <1>7, <1>8 DEF Made
  <2>3. CASE ~ (kind = "acc" /\ n <= EarlyFrames)
    <3>1. PICK i \in 1..Len(samples) :
            /\ PlacesOf(n) = i..(i + Len(Whole(n)) - 1)
            /\ SubSeq(samples, i, i + Len(Whole(n)) - 1) = Whole(n)
      BY <2>3, <1>8 DEF Made
    <3> DEFINE W == Len(Whole(n))
               l == i + W - 1
    <3>2. l \in Nat /\ i <= l
      <4>1. W = 1 \/ W = 2
        BY WholeLen
      <4>2. i \in Nat
        OBVIOUS
      <4> HIDE DEF W
      <4> QED BY <4>1, <4>2
    <3>3. l \in PlacesOf(n)
      BY <3>1, <3>2
    <3>4. l <= Len(samples)
      BY <3>3, <1>5
    <3> HIDE DEF l
    <3>5. SubSeq(samples', i, l) = SubSeq(samples, i, l)
      BY <3>2, <3>4
    <3>6. i \in 1..Len(samples')
      BY <1>1, <1>4
    <3>7. PlacesOf(n)' = i..(i + Len(Whole(n)') - 1)
      BY <3>1, <1>7, <2>1
    <3>8. SubSeq(samples', i, i + Len(Whole(n)') - 1) = Whole(n)'
      BY <3>1, <3>5, <2>1 DEF l
    <3> QED BY <2>1, <2>3, <3>6, <3>7, <3>8 DEF Made
  <2> QED BY <2>2, <2>3
<1> QED BY <1>7, <1>8

\* A frame without samples has them when they are made.
LEMMA OwnSamples ==
    ASSUME kind \in Kinds3, position \in Placements, NEW n \in Nat,
           samples \in Seq(AnySample), PlacesOf(n) = {},
           samples' = samples \o Whole(n), UNCHANGED config,
           ~ (kind = "acc" /\ n <= EarlyFrames)
    PROVE  Made(n)'
<1> DEFINE L == Len(samples)
           W == Len(Whole(n))
<1>1. /\ Whole(n) \in Seq(AnySample) /\ W \in Nat /\ W >= 1 /\ L \in Nat
      /\ kind' = kind /\ Whole(n)' = Whole(n)
  <2>1. Whole(n) \in Seq(AnySample) /\ (W = 1 \/ W = 2)
    BY WholeLen
  <2>2. kind' = kind /\ Whole(n)' = Whole(n)
    BY ConfigSame DEF config
  <2>3. L \in Nat
    OBVIOUS
  <2> HIDE DEF W, L
  <2> QED BY <2>1, <2>2, <2>3
<1>2. /\ Len(samples') = L + W
      /\ \A i \in 1..L : samples'[i] = samples[i]
      /\ \A i \in 1..W : samples'[L + i] = Whole(n)[i]
  BY <1>1
<1> HIDE DEF L, W
<1>3. PlacesOf(n)' = {i \in 1..(L + W) : Has(samples'[i], n)}
  <2>1. PlacesOf(n)' = {i \in 1..Len(samples') : \E j \in 1..Len(Whole(n)') :
                           samples'[i] = Whole(n)'[j]}
    BY DEF PlacesOf
  <2> QED BY <2>1, <1>1, <1>2 DEF Has
<1>4. \A i \in 1..L : ~Has(samples'[i], n)
  BY PlacesAre, <1>2 DEF L
<1>5. \A i \in 1..W : Has(samples'[L + i], n)
  BY <1>2 DEF Has, W
<1>6. PlacesOf(n)' = (L + 1)..(L + W)
  <2>1. \A i \in (L + 1)..(L + W) : Has(samples'[i], n)
    <3> SUFFICES ASSUME NEW i \in (L + 1)..(L + W) PROVE Has(samples'[i], n)
      OBVIOUS
    <3>1. i - L \in 1..W /\ L + (i - L) = i
      BY <1>1
    <3> QED BY <3>1, <1>5
  <2>2. \A i \in 1..(L + W) : i \in 1..L \/ i \in (L + 1)..(L + W)
    BY <1>1
  <2>3. (L + 1)..(L + W) \subseteq 1..(L + W)
    BY <1>1
  <2> QED BY <2>1, <2>2, <2>3, <1>3, <1>4
<1>7. SubSeq(samples', L + 1, L + W) = Whole(n)
  <2>1. /\ samples' \in Seq(AnySample) /\ Len(samples') = L + W
        /\ \A i \in 1..W : samples'[L + i] = Whole(n)[i]
    BY <1>1, <1>2
  <2>2. /\ SubSeq(samples', L + 1, L + W) \in Seq(AnySample)
        /\ Len(SubSeq(samples', L + 1, L + W)) = W
        /\ \A i \in 1..W : SubSeq(samples', L + 1, L + W)[i] = samples'[L + i]
    <3> DEFINE s == samples'
    <3>1. s \in Seq(AnySample) /\ L \in Nat /\ W \in Nat /\ L + W <= Len(s)
      BY <2>1, <1>1
    <3> HIDE DEF s
    <3>2. /\ SubSeq(s, L + 1, L + W) \in Seq(AnySample)
          /\ Len(SubSeq(s, L + 1, L + W)) = W
          /\ \A i \in 1..W : SubSeq(s, L + 1, L + W)[i] = s[L + i]
      BY <3>1, SubSeqIs
    <3> QED BY <3>2, Zenon DEF s
  <2> DEFINE r == SubSeq(samples', L + 1, L + W)
             v == Whole(n)
  <2>3. /\ r \in Seq(AnySample) /\ v \in Seq(AnySample) /\ Len(r) = Len(v)
        /\ \A i \in 1..Len(v) : r[i] = v[i]
    BY <2>1, <2>2, <1>1 DEF W
  <2> HIDE DEF r, v
  <2>4. r = v
    BY <2>3, SeqsEqual
  <2> QED BY <2>4 DEF r, v
<1>8. L + 1 \in 1..Len(samples') /\ (L + 1) + W - 1 = L + W
  BY <1>1, <1>2
<1>9. Len(Whole(n)') = W
  BY <1>1 DEF W
<1>10. /\ PlacesOf(n)' = (L + 1)..((L + 1) + Len(Whole(n)') - 1)
       /\ SubSeq(samples', L + 1, (L + 1) + Len(Whole(n)') - 1) = Whole(n)'
  BY <1>1, <1>6, <1>7, <1>8, <1>9
<1> QED BY <1>1, <1>8, <1>10 DEF Made

-----------------------------------------------------------------------------
(* The queue, with s frames of l events reported.                          *)

\* An event of a frame that was reported.
Reported(e, s, l) ==
    e = Event(e.frame, e.part) /\ e.frame \in 1..s /\ e.part \in 1..l

\* How many events were reported after e.
Age(e, s, l) == l * (s - e.frame) + (l - e.part)

\* The queue holds the newest events, in order; what was before the first of
\* them may have been dropped.
RunOfEvents(q, s, l) ==
    \A i \in 1..Len(q) : \/ i = 1 /\ q[1] = Dropped
                         \/ Reported(q[i], s, l) /\ Age(q[i], s, l) = Len(q) - i

\* What that says of the i-th entry, without products.
EntryOf(q, i, s, l) ==
    /\ q[i] = Event(q[i].frame, q[i].part) /\ q[i] \in Events
    /\ q[i].frame \in 1..s /\ q[i].part \in 1..l
    /\ l = 6 => 6 * (s - q[i].frame) + (6 - q[i].part) = Len(q) - i
    /\ l = 12 => 12 * (s - q[i].frame) + (12 - q[i].part) = Len(q) - i
    /\ q[i] \notin {Dropped, JunkSyn}

LEMMA RunEntry ==
    ASSUME NEW l \in {6, 12}, NEW s \in Nat, NEW q \in Seq(Events),
           RunOfEvents(q, s, l), NEW i \in 1..Len(q), q[i] # Dropped
    PROVE  EntryOf(q, i, s, l)
<1>1. Reported(q[i], s, l) /\ Age(q[i], s, l) = Len(q) - i
  BY DEF RunOfEvents
<1>2. q[i] = Event(q[i].frame, q[i].part) /\ q[i].frame \in 1..s
      /\ q[i].part \in 1..l
  BY <1>1 DEF Reported
<1>3. q[i] \notin {Dropped, JunkSyn}
  BY <1>2, EventFields
<1>4. /\ l = 6 => 6 * (s - q[i].frame) + (6 - q[i].part) = Len(q) - i
      /\ l = 12 => 12 * (s - q[i].frame) + (12 - q[i].part) = Len(q) - i
  BY <1>1, Zenon DEF Age
<1> QED BY <1>2, <1>3, <1>4 DEF EntryOf

\* Only the first entry may be a SYN_DROPPED.
LEMMA RunDropped ==
    ASSUME NEW l \in {6, 12}, NEW s \in Nat, NEW q \in Seq(Events),
           RunOfEvents(q, s, l), NEW i \in 1..Len(q), i # 1
    PROVE  q[i] # Dropped
<1>1. Reported(q[i], s, l)
  BY DEF RunOfEvents
<1>2. q[i].frame # 0
  BY <1>1 DEF Reported
<1> QED BY <1>2, EventFields DEF Dropped

\* A queue that begins with the first event of a frame holds whole frames.
LEMMA WholeFrames ==
    ASSUME NEW l \in {6, 12}, NEW s \in Nat, NEW q \in Seq(Events),
           RunOfEvents(q, s, l), q # << >>, q[1] # Dropped, q[1].part = 1
    PROVE  /\ q[1].frame \in 1..s
           /\ l <= Len(q)
           /\ l = 6 => Len(q) = 6 * (s - q[1].frame + 1)
           /\ l = 12 => Len(q) = 12 * (s - q[1].frame + 1)
           /\ \A i \in 1..l : q[i] = Event(q[1].frame, i)
           /\ \A i \in 1..Len(q) : i > l => q[i].frame > q[1].frame
           /\ l < Len(q) => q[l + 1].part = 1
<1> DEFINE f == q[1].frame
<1>1. 1 \in 1..Len(q) /\ Len(q) \in Nat
  OBVIOUS
<1>2. \A i \in 1..Len(q) : EntryOf(q, i, s, l)
  BY RunEntry, RunDropped
<1>3. EntryOf(q, 1, s, l)
  BY <1>1, <1>2
<1>4. /\ f \in 1..s
      /\ l = 6 => 6 * (s - f) + (6 - 1) = Len(q) - 1
      /\ l = 12 => 12 * (s - f) + (12 - 1) = Len(q) - 1
  BY <1>3 DEF EntryOf
<1> HIDE DEF f
<1>5. l <= Len(q)
  BY <1>1, <1>4
<1>6. ASSUME NEW i \in 1..l PROVE q[i] = Event(f, i)
  <2>1. i \in 1..Len(q) /\ i \in Nat
    BY <1>5, <1>1
  <2> DEFINE g == q[i].frame
             p == q[i].part
  <2>2. /\ q[i] = Event(g, p) /\ g \in 1..s /\ p \in 1..l
        /\ l = 6 => 6 * (s - g) + (6 - p) = Len(q) - i
        /\ l = 12 => 12 * (s - g) + (12 - p) = Len(q) - i
    BY <1>2, <2>1 DEF EntryOf
  <2> HIDE DEF g, p
  <2>3. g = f /\ p = i
    <3>1. CASE l = 6
      <4>1. 6 * (s - f) + 6 = 6 * (s - g) + (6 - p) + i /\ p \in 1..6
            /\ i \in 1..6
        BY <3>1, <2>2, <1>1, <1>4
      <4> QED BY <4>1, <2>2, <1>4
    <3>2. CASE l = 12
      <4>1. 12 * (s - f) + 12 = 12 * (s - g) + (12 - p) + i /\ p \in 1..12
            /\ i \in 1..12
        BY <3>2, <2>2, <1>1, <1>4
      <4> QED BY <4>1, <2>2, <1>4
    <3> QED BY <3>1, <3>2
  <2> QED BY <2>2, <2>3
<1>7. ASSUME NEW i \in 1..Len(q), i > l
      PROVE  q[i].frame > f /\ (i = l + 1 => q[i].part = 1)
  <2> DEFINE g == q[i].frame
             p == q[i].part
  <2>1. /\ g \in 1..s /\ p \in 1..l
        /\ l = 6 => 6 * (s - g) + (6 - p) = Len(q) - i
        /\ l = 12 => 12 * (s - g) + (12 - p) = Len(q) - i
    BY <1>2 DEF EntryOf
  <2> HIDE DEF g, p
  <2>2. g > f /\ (i = l + 1 => p = 1)
    BY <2>1, <1>1, <1>4, <1>7
  <2> QED BY <2>2 DEF g, p
<1>8. l < Len(q) => q[l + 1].part = 1
  BY <1>7, <1>1
<1>9. \A i \in 1..Len(q) : i > l => q[i].frame > f
  BY <1>7
<1>10. /\ l = 6 => Len(q) = 6 * (s - f + 1)
       /\ l = 12 => Len(q) = 12 * (s - f + 1)
  BY <1>1, <1>4
<1> QED BY <1>4, <1>5, <1>6, <1>8, <1>9, <1>10 DEF f

\* Taking events from the front leaves the newest.
LEMMA RunWithout ==
    ASSUME NEW l, NEW s, NEW q \in Seq(Events), RunOfEvents(q, s, l),
           NEW n \in Nat, n # 0, NEW k \in Nat, n + k = Len(q),
           NEW r \in Seq(Events), Len(r) = k, \A i \in 1..k : r[i] = q[n + i]
    PROVE  RunOfEvents(r, s, l)
<1>1. ASSUME NEW i \in 1..k
      PROVE  Reported(r[i], s, l) /\ Age(r[i], s, l) = Len(r) - i
  <2>1. n + i \in 1..Len(q) /\ n + i # 1 /\ Len(q) - (n + i) = Len(r) - i
    OBVIOUS
  <2>2. Reported(q[n + i], s, l) /\ Age(q[n + i], s, l) = Len(q) - (n + i)
    BY <2>1 DEF RunOfEvents
  <2> QED BY <2>1, <2>2
<1> QED BY <1>1 DEF RunOfEvents

LEMMA RunTail ==
    ASSUME NEW l, NEW s, NEW q \in Seq(Events), RunOfEvents(q, s, l),
           NEW n \in Nat, n # 0, NEW k \in Nat, n + k = Len(q)
    PROVE  LET r == SubSeq(q, n + 1, Len(q))
           IN  /\ r \in Seq(Events) /\ Len(r) = k
               /\ \A i \in 1..k : r[i] = q[n + i]
               /\ RunOfEvents(r, s, l)
<1> DEFINE r == SubSeq(q, n + 1, Len(q))
<1>1. n + k <= Len(q) /\ r = SubSeq(q, n + 1, n + k)
  OBVIOUS
<1> HIDE DEF r
<1>2. r \in Seq(Events) /\ Len(r) = k /\ \A i \in 1..k : r[i] = q[n + i]
  BY <1>1, SubSeqIs
<1>3. RunOfEvents(r, s, l)
  BY <1>2, RunWithout
<1> QED BY <1>2, <1>3 DEF r

\* A report leaves the newest, too.
LEMMA RunPush ==
    ASSUME queue \in Seq(Events), NEW s \in Nat,
           RunOfEvents(queue, s, FrameLen),
           NEW r, AfterPushes(r, s + 1, FrameLen)
    PROVE  RunOfEvents(r, s + 1, FrameLen)
<1> DEFINE l == FrameLen
<1>1. l \in {6, 12} /\ Len(queue) \in Nat /\ Len(r) \in Nat /\ r \in Seq(Events)
  BY Lens DEF AfterPushes
<1>2. \A p \in 1..l : /\ Reported(Event(s + 1, p), s + 1, l)
                      /\ Age(Event(s + 1, p), s + 1, l) = l - p
  <2> SUFFICES ASSUME NEW p \in 1..l
               PROVE  /\ Reported(Event(s + 1, p), s + 1, l)
                      /\ Age(Event(s + 1, p), s + 1, l) = l - p
    OBVIOUS
  <2>1. s + 1 \in 1..(s + 1) /\ l * ((s + 1) - (s + 1)) = 0
    BY <1>1
  <2> QED BY <2>1, <1>1, EventFields DEF Reported, Age
<1>3. CASE Len(queue) + l < bufsize
  <2>1. Appended(r, s + 1, l)
    BY <1>3 DEF AfterPushes
  <2> HIDE DEF l
  <2>2. Len(r) = Len(queue) + l
    BY <2>1 DEF Appended, l
  <2>3. ASSUME NEW i \in 1..Len(r), ~ (i = 1 /\ r[1] = Dropped)
        PROVE  Reported(r[i], s + 1, l) /\ Age(r[i], s + 1, l) = Len(r) - i
    <3>1. CASE i \in 1..Len(queue)
      <4>1. r[i] = queue[i]
        BY <3>1, <2>1 DEF Appended
      <4>2. ~ (i = 1 /\ queue[1] = Dropped)
        BY <4>1, <2>3
      <4>3. Reported(queue[i], s, l) /\ Age(queue[i], s, l) = Len(queue) - i
        BY <4>2, <3>1 DEF RunOfEvents, l
      <4>4. queue[i].frame \in 1..s /\ queue[i].part \in 1..l
        BY <4>3 DEF Reported
      <4>5. Age(queue[i], s + 1, l) = Age(queue[i], s, l) + l
        <5> DEFINE g == queue[i].frame
                   p == queue[i].part
        <5>1. g \in Int /\ p \in Int
          BY <4>4, <1>1
        <5> HIDE DEF g, p
        <5>2. l * ((s + 1) - g) + (l - p) = (l * (s - g) + (l - p)) + l
          <6>1. CASE l = 6
            BY <6>1, <5>1
          <6>2. CASE l = 12
            BY <6>2, <5>1
          <6> QED BY <6>1, <6>2, <1>1
        <5> QED BY <5>2 DEF Age, g, p
      <4>6. Reported(queue[i], s + 1, l)
        BY <4>3, <4>4 DEF Reported
      <4>7. Age(r[i], s + 1, l) = (Len(queue) - i) + l
        BY <4>1, <4>3, <4>5
      <4> QED BY <4>1, <4>6, <4>7, <2>2, <1>1, <3>1
    <3>2. CASE i \notin 1..Len(queue)
      <4>1. i - Len(queue) \in 1..l /\ Len(queue) + (i - Len(queue)) = i
        BY <3>2, <2>2, <1>1
      <4>2. r[i] = Event(s + 1, i - Len(queue))
        BY <4>1, <2>1 DEF Appended, l
      <4>3. l - (i - Len(queue)) = Len(r) - i
        BY <2>2, <1>1
      <4> QED BY <4>1, <4>2, <4>3, <1>2
    <3> QED BY <3>1, <3>2
  <2> QED BY <2>3 DEF RunOfEvents, l
<1>4. CASE ~ (Len(queue) + l < bufsize)
  <2>1. Overflowed(r, s + 1, l)
    BY <1>4 DEF AfterPushes
  <2> HIDE DEF l
  <2>2. ASSUME NEW i \in 1..Len(r), i # 1
        PROVE  Reported(r[i], s + 1, l) /\ Age(r[i], s + 1, l) = Len(r) - i
    <3> DEFINE p == l - (Len(r) - i)
    <3>1. i \in 2..Len(r) /\ Len(r) \in 2..(l + 1)
      BY <2>1, <2>2, <1>1 DEF Overflowed
    <3>2. p \in 1..l /\ l - p = Len(r) - i
      BY <3>1, <1>1
    <3>3. r[i] = Event(s + 1, p)
      BY <2>1, <3>1 DEF Overflowed
    <3> HIDE DEF p
    <3> QED BY <3>2, <3>3, <1>2
  <2>3. r[1] = Dropped
    BY <2>1 DEF Overflowed
  <2> QED BY <2>2, <2>3 DEF RunOfEvents, l
<1> QED BY <1>3, <1>4

-----------------------------------------------------------------------------
(* The invariant.                                                          *)

ReaderTypes ==
    /\ kind \in Kinds3 /\ position \in Placements
    /\ bufsize \in Nat /\ bufsize > 12
    /\ queue \in Seq(Events) /\ event \in Buffers
    /\ reading \in BOOLEAN /\ clean \in BOOLEAN
    /\ sent \in Nat /\ samples \in Seq(AnySample) /\ forgone \in SUBSET Nat

Fits == Len(queue) < bufsize /\ RunOfEvents(queue, sent, FrameLen)

InStep(q) == q = << >> \/ (q[1] # Dropped /\ q[1].part = 1)

AfterOverflow(q) == q # << >> /\ q[1] = Dropped /\ Len(q) > 1

\* A read that ends inside a frame finds no end of a frame, nor does it leave
\* one in the last place for a short read after it.
OutOfStep(q, last) ==
    /\ q # << >> /\ q[1] # Dropped /\ q[1].part # 1
    /\ last \notin {Dropped, JunkSyn} /\ last.part # FrameLen

Queued(q, n) == \E i \in 1..Len(q) : q[i].frame = n

AllForgone(q, F) == \A i \in 1..Len(q) : q[i] = Dropped \/ q[i].frame \in F

Phases ==
    /\ clean => InStep(queue)
    /\ ~clean => /\ queue # << >>
                 /\ AllForgone(queue, forgone)
                 /\ \/ InStep(queue)
                    \/ AfterOverflow(queue)
                    \/ reading /\ OutOfStep(queue, event[FrameLen])

\* A sample is one of a frame, or it has SYN_DROPPED in place of the seconds
\* and an event of a spoiled frame in that of the nanoseconds.
Origin(s, F, st) ==
    \/ \E n \in 1..st : Has(s, n)
    \/ /\ kind # "acc"
       /\ \E e \in Events : /\ e.frame \in F /\ e.frame \in 1..st
                            /\ e.part \in 1..FrameLen
                            /\ s.stamp = <<0, Value(e)>>

Origins == \A i \in 1..Len(samples) : Origin(samples[i], forgone, sent)

Kept ==
    \A n \in (1..sent) \ forgone :
        IF Queued(queue, n) THEN clean /\ PlacesOf(n) = {} ELSE Made(n)

\* The samples of a frame that was kept are behind those of earlier ones.
Ascending ==
    \A m, n \in (1..sent) \ forgone :
        m < n => \A i \in PlacesOf(m) : \A j \in PlacesOf(n) : i < j

ReaderInv == ReaderTypes /\ Fits /\ Phases /\ Origins /\ Kept /\ Ascending

LEMMA FramesAre ==
    ASSUME NEW q \in Seq(Events), NEW n
    PROVE  n \in FramesIn(q) <=> n # 0 /\ Queued(q, n)
BY DEF FramesIn, ToSet, Queued

LEMMA OriginStays ==
    ASSUME NEW s, NEW F, NEW st \in Nat, NEW G, F \subseteq G, Origin(s, F, st)
    PROVE  Origin(s, G, st) /\ Origin(s, F, st + 1) /\ Origin(s, G, st + 1)
<1>1. 1..st \subseteq 1..(st + 1)
  OBVIOUS
<1> QED BY <1>1 DEF Origin

LEMMA OriginSame ==
    ASSUME UNCHANGED config, NEW s, NEW F, NEW st, Origin(s, F, st)
    PROVE  Origin(s, F, st)'
<1>1. kind' = kind /\ FrameLen' = FrameLen /\ \A n : Has(s, n)' = Has(s, n)
  BY ConfigSame DEF config
<1> QED BY <1>1 DEF Origin, Value

\* The samples made so far and those of the step.
LEMMA OriginsKept ==
    ASSUME ReaderTypes, Origins, UNCHANGED config, sent' \in {sent, sent + 1},
           forgone \subseteq forgone',
           NEW t \in Seq(AnySample), samples' = samples \o t,
           \A i \in 1..Len(t) : Origin(t[i], forgone', sent')
    PROVE  Origins'
<1>1. /\ Len(samples') = Len(samples) + Len(t)
      /\ \A i \in 1..Len(samples) : samples'[i] = samples[i]
      /\ \A i \in 1..Len(t) : samples'[Len(samples) + i] = t[i]
      /\ Len(samples) \in Nat /\ Len(t) \in Nat
  BY DEF ReaderTypes
<1>2. \A i \in 1..Len(samples) : Origin(samples[i], forgone', sent')
  <2>1. sent \in Nat
    BY DEF ReaderTypes
  <2> QED BY <2>1, OriginStays DEF Origins
<1>3. \A i \in 1..Len(samples') : Origin(samples'[i], forgone', sent')
  <2> SUFFICES ASSUME NEW i \in 1..Len(samples')
               PROVE  Origin(samples'[i], forgone', sent')
    OBVIOUS
  <2>1. CASE i \in 1..Len(samples)
    BY <2>1, <1>1, <1>2
  <2>2. CASE i \notin 1..Len(samples)
    <3>1. i - Len(samples) \in 1..Len(t)
          /\ Len(samples) + (i - Len(samples)) = i
      BY <2>2, <1>1
    <3> QED BY <3>1, <1>1
  <2> QED BY <2>1, <2>2
<1>4. kind' = kind /\ FrameLen' = FrameLen /\ \A n : Whole(n)' = Whole(n)
  BY ConfigSame DEF config
<1> SUFFICES ASSUME NEW i \in 1..Len(samples')
             PROVE  Origin(samples[i], forgone, sent)'
  BY Zenon DEF Origins
<1> DEFINE torn == \E e \in Events :
             /\ e.frame \in forgone' /\ e.frame \in 1..sent'
             /\ e.part \in 1..FrameLen
             /\ samples'[i].stamp = <<0, Value(e)>>
<1>5. (\E n \in 1..sent' : Has(samples'[i], n)) \/ (kind # "acc" /\ torn)
  BY <1>3 DEF Origin
<1>6. CASE \E n \in 1..sent' : Has(samples'[i], n)
  <2>1. \E n \in 1..sent' : Has(samples[i], n)'
    BY <1>4, <1>6 DEF Has
  <2> QED BY <2>1, Zenon DEF Origin
<1>7. CASE kind # "acc" /\ torn
  <2>1. kind' # "acc" /\ \E e \in Events :
             /\ e.frame \in forgone' /\ e.frame \in 1..sent'
             /\ e.part \in 1..FrameLen'
             /\ samples'[i].stamp = <<0, Value(e)>>
    BY <1>4, <1>7
  <2> QED BY <2>1, Zenon DEF Origin, Value
<1> QED BY <1>5, <1>6, <1>7

\* A frame that was not reported has no sample.
LEMMA NoneYet ==
    ASSUME ReaderTypes, Origins
    PROVE  PlacesOf(sent + 1) = {}
<1> SUFFICES ASSUME NEW i \in 1..Len(samples), Has(samples[i], sent + 1)
             PROVE  FALSE
  BY PlacesAre
<1> DEFINE s == samples[i]
<1>1. kind \in Kinds3 /\ position \in Placements /\ sent \in Nat
      /\ sent + 1 \in Nat
  BY DEF ReaderTypes
<1>2. Has(s, sent + 1) /\ Origin(s, forgone, sent)
  BY DEF Origins
<1> HIDE DEF s
<1>3. s.stamp[2] = 100 * (sent + 1) + 2
  BY <1>1, <1>2, WholeIs DEF Has
<1>4. CASE \E n \in 1..sent : Has(s, n)
  <2>1. PICK n \in 1..sent : Has(s, n)
    BY <1>4
  <2>2. n \in Nat /\ n # sent + 1
    BY <1>1
  <2>3. s.stamp[2] = 100 * n + 2
    BY <1>1, <2>1, <2>2, HasStamp
  <2> QED BY <2>2, <2>3, <1>1, <1>3
<1>5. CASE \E e \in Events : /\ e.frame \in 1..sent /\ e.part \in 1..FrameLen
                             /\ s.stamp = <<0, Value(e)>>
  <2>1. PICK e \in Events : /\ e.frame \in 1..sent /\ e.part \in 1..FrameLen
                            /\ s.stamp = <<0, Value(e)>>
    BY <1>5
  <2>2. e.frame # 0
    BY <2>1
  <2>3. e.frame = sent + 1
    BY <1>1, <1>2, <2>1, <2>2, StampTells
  <2> QED BY <2>1, <2>3, <1>1
<1> QED BY <1>2, <1>4, <1>5 DEF Origin

-----------------------------------------------------------------------------
(* The steps.                                                              *)

LEMMA ReaderInit == Init => ReaderInv
<1> SUFFICES ASSUME Init PROVE ReaderInv
  OBVIOUS
<1>1. kind \in Kinds3 /\ position \in Placements /\ bufsize \in Nat
      /\ bufsize > 12
  BY InputAssumption DEF Init, Kinds3, Placements
<1>2. event \in Buffers
  BY EventFields DEF Init, Buffers, Junk
<1>3. queue = << >> /\ samples = << >> /\ sent = 0 /\ clean /\ ~reading
      /\ forgone = {}
  BY DEF Init
<1>4. ReaderTypes
  <2>1. << >> \in Seq(Events) /\ << >> \in Seq(AnySample)
        /\ {} \in SUBSET Nat /\ 0 \in Nat
    OBVIOUS
  <2>2. reading \in BOOLEAN /\ clean \in BOOLEAN
    BY DEF Init
  <2> QED BY <1>1, <1>2, <1>3, <2>1, <2>2 DEF ReaderTypes
<1>5. Fits
  BY <1>1, <1>3 DEF Fits, RunOfEvents
<1>6. Phases /\ Origins /\ Kept /\ Ascending
  BY <1>3 DEF Phases, InStep, Origins, Kept, Ascending
<1> QED BY <1>4, <1>5, <1>6 DEF ReaderInv

\* Nothing of the invariant is about what a call finds in its buffer, unless
\* reads are out of step.
LEMMA SameQueue ==
    ASSUME ReaderInv, UNCHANGED <<config, queue, sent, samples, clean, forgone>>,
           event' \in Buffers, reading' \in BOOLEAN,
           ~clean => (reading' /\ event' = event) \/ ~reading
    PROVE  ReaderInv'
<1>1. /\ kind' = kind /\ position' = position /\ bufsize' = bufsize
      /\ queue' = queue /\ sent' = sent /\ samples' = samples
      /\ clean' = clean /\ forgone' = forgone /\ UNCHANGED config
  BY DEF config
<1>2. FrameLen' = FrameLen
  BY <1>1 DEF FrameLen
<1>3. ReaderTypes'
  BY <1>1, <1>2 DEF ReaderInv, ReaderTypes, Buffers
<1>4. Fits'
  BY <1>1, <1>2 DEF ReaderInv, Fits
<1>5. Phases'
  BY <1>1, <1>2 DEF ReaderInv, Phases, OutOfStep
<1>6. Origins'
  <2>1. \A s, n : Has(s, n)' = Has(s, n)
    BY <1>1, ConfigSame
  <2> QED BY <2>1, <1>1, <1>2 DEF ReaderInv, Origins, Origin, Value
<1>7. Kept'
  <2>1. \A m : Whole(m)' = Whole(m)
    BY <1>1, ConfigSame
  <2>2. \A m : PlacesOf(m)' = PlacesOf(m)
    BY <2>1, <1>1 DEF PlacesOf
  <2>3. \A m : Made(m) => Made(m)'
    BY <2>1, <2>2, <1>1 DEF Made
  <2> QED BY <2>2, <2>3, <1>1 DEF ReaderInv, Kept
<1>8. Ascending'
  <2>1. \A m : PlacesOf(m)' = PlacesOf(m)
    BY <1>1, ConfigSame DEF PlacesOf
  <2> QED BY <2>1, <1>1 DEF ReaderInv, Ascending
<1> QED BY <1>3, <1>4, <1>5, <1>6, <1>7, <1>8 DEF ReaderInv

LEMMA CallKeeps ==
    ASSUME ReaderInv, Call
    PROVE  ReaderInv'
<1>1. PICK last \in {Junk, JunkSyn} :
        event' = [i \in 1..FrameLen |-> IF i = FrameLen THEN last ELSE Junk]
  BY DEF Call
<1>2. Junk \in Events /\ last \in Events
  BY EventFields DEF Junk, JunkSyn
<1>3. event' \in Buffers
  BY <1>1, <1>2 DEF Buffers
<1>4. /\ ~reading /\ reading' \in BOOLEAN
      /\ UNCHANGED <<config, queue, sent, samples, clean, forgone>>
  BY DEF Call
<1> QED BY <1>3, <1>4, SameQueue

LEMMA ReturnKeeps ==
    ASSUME ReaderInv, Return
    PROVE  ReaderInv'
<1>1. Junk \in Events
  BY EventFields DEF Junk
<1>2. event' \in Buffers
  BY <1>1 DEF Return, Buffers
<1>3. /\ reading' \in BOOLEAN
      /\ UNCHANGED <<config, queue, sent, samples, clean, forgone>>
  BY DEF Return
<1>4. clean
  BY DEF Return, ReaderInv, Phases
<1> QED BY <1>2, <1>3, <1>4, SameQueue

\* A report, in step or not: the frames an overflow drops are forgone.
LEMMA ReportKeeps ==
    ASSUME ReaderInv, Report
    PROVE  ReaderInv'
<1> DEFINE n == sent + 1
           r == PushFrame(n)
           l == FrameLen
<1>1. /\ kind \in Kinds3 /\ position \in Placements /\ bufsize \in Nat
      /\ bufsize > 12 /\ queue \in Seq(Events) /\ event \in Buffers
      /\ reading \in BOOLEAN /\ clean \in BOOLEAN /\ sent \in Nat
      /\ samples \in Seq(AnySample) /\ forgone \in SUBSET Nat
      /\ Len(queue) < bufsize /\ RunOfEvents(queue, sent, l)
      /\ Phases /\ Origins /\ Kept /\ n \in Nat /\ n # 0
  BY DEF ReaderInv, ReaderTypes, Fits
<1>2. /\ sent' = n /\ queue' = r
      /\ clean' = (clean /\ ~Overflows)
      /\ forgone' = forgone \cup (IF Overflows THEN FramesIn(queue) ELSE {})
                            \cup (IF clean' THEN {} ELSE {n})
      /\ UNCHANGED <<config, event, reading, samples>>
  BY DEF Report
<1>3. /\ kind' = kind /\ position' = position /\ bufsize' = bufsize
      /\ event' = event /\ reading' = reading /\ samples' = samples
      /\ UNCHANGED config /\ FrameLen' = l
  BY <1>2, ConfigSame DEF config
<1>4. AfterPushes(r, n, l)
  BY <1>1, PushFrameIs
<1>5. RunOfEvents(r, n, l)
  BY <1>1, <1>4, RunPush
<1>6. l \in {6, 12} /\ Len(queue) \in Nat
  BY <1>1, Lens
<1>7. Overflows <=> ~ (Len(queue) + l < bufsize)
  BY <1>1, <1>6 DEF Overflows
<1> HIDE DEF n, r, l
<1>8. r \in Seq(Events) /\ Len(r) < bufsize /\ Len(r) \in Nat
  BY <1>4 DEF AfterPushes
<1>9. \A i \in 1..Len(queue) : queue[i].frame \in Nat
  <2> SUFFICES ASSUME NEW i \in 1..Len(queue) PROVE queue[i].frame \in Nat
    OBVIOUS
  <2>1. queue[i] \in Events
    BY <1>1
  <2> QED BY <2>1 DEF Events
<1>10. FramesIn(queue) \subseteq Nat
  <2> SUFFICES ASSUME NEW m \in FramesIn(queue) PROVE m \in Nat
    OBVIOUS
  <2>1. Queued(queue, m)
    BY <1>1, FramesAre
  <2> QED BY <2>1, <1>9 DEF Queued
<1>11. ReaderTypes'
  <2>1. forgone' \in SUBSET Nat
    BY <1>1, <1>2, <1>10
  <2>2. event' \in Buffers'
    <3>1. Buffers' = Buffers
      BY <1>3 DEF Buffers, l
    <3> QED BY <3>1, <1>1, <1>3
  <2>3. clean' \in BOOLEAN
    BY <1>1, <1>2
  <2> QED BY <2>1, <2>2, <2>3, <1>1, <1>2, <1>3, <1>8 DEF ReaderTypes
<1>12. Fits'
  BY <1>2, <1>3, <1>5, <1>8 DEF Fits
<1>13. Origins'
  <2>1. forgone \subseteq forgone' /\ sent' \in {sent, sent + 1}
    BY <1>2 DEF n
  <2>2. << >> \in Seq(AnySample) /\ samples' = samples \o << >>
        /\ \A i \in 1..Len(<< >>) : Origin(<< >>[i], forgone', sent')
    BY <1>1, <1>3
  <2>3. ReaderTypes
    BY DEF ReaderInv
  <2> QED BY <2>1, <2>2, <2>3, <1>1, <1>3, OriginsKept
<1>14. \A m : PlacesOf(m)' = PlacesOf(m) /\ (Made(m) => Made(m)')
  <2>1. \A m : Whole(m)' = Whole(m)
    BY <1>3, ConfigSame
  <2>2. \A m : PlacesOf(m)' = PlacesOf(m)
    BY <2>1, <1>3 DEF PlacesOf
  <2> QED BY <2>1, <2>2, <1>3 DEF Made
<1>15. PlacesOf(n) = {}
  BY NoneYet DEF ReaderInv, n
<1>18. Ascending'
  <2>1. Ascending /\ forgone \subseteq forgone' /\ sent' = n
        /\ \A m \in 1..n : m \in 1..sent \/ m = n
    BY <1>1, <1>2, <1>3 DEF ReaderInv, n
  <2> QED BY <2>1, <1>14, <1>15 DEF Ascending
<1>16. CASE ~Overflows
  <2>1. Appended(r, n, l)
    BY <1>4, <1>7, <1>16 DEF AfterPushes
  <2>2. /\ Len(r) = Len(queue) + l
        /\ \A i \in 1..Len(queue) : r[i] = queue[i]
        /\ \A i \in 1..l : r[Len(queue) + i] = Event(n, i)
    BY <2>1 DEF Appended
  <2>3. \A i \in 1..Len(r) : i \in 1..Len(queue) \/ r[i] = Event(n, i - Len(queue))
    <3> SUFFICES ASSUME NEW i \in 1..Len(r), i \notin 1..Len(queue)
                 PROVE  r[i] = Event(n, i - Len(queue))
      OBVIOUS
    <3>1. i - Len(queue) \in 1..l /\ Len(queue) + (i - Len(queue)) = i
      BY <2>2, <1>6, <1>8
    <3> QED BY <3>1, <2>2
  <2>4. 1..Len(queue) \subseteq 1..Len(r) /\ Len(queue) + 1 \in 1..Len(r)
        /\ 1 \in 1..l
        /\ Len(r) # 0
    BY <2>2, <1>6
  <2>5. \A m : m # n => (Queued(r, m) <=> Queued(queue, m))
    BY <2>2, <2>3, <2>4, EventFields DEF Queued
  <2>6. Queued(r, n)
    <3>1. r[Len(queue) + 1] = Event(n, 1)
      BY <2>2, <2>4
    <3> QED BY <3>1, <2>4, EventFields DEF Queued
  <2>7. /\ clean' = clean
        /\ forgone' = forgone \cup (IF clean THEN {} ELSE {n})
    BY <1>2, <1>16, <1>1
  <2>8. Phases'
    <3>1. queue = << >> => InStep(r)
      <4> SUFFICES ASSUME queue = << >> PROVE InStep(r)
        OBVIOUS
      <4>1. r[1] = Event(n, 1)
        BY <2>2, <2>4
      <4>2. Event(n, 1) # Dropped
        BY <1>1, EventFields
      <4> QED BY <4>1, <4>2, EventFields DEF InStep
    <3>2. queue # << >> => r # << >> /\ r[1] = queue[1] /\ Len(r) > Len(queue)
      BY <1>1, <2>2, <1>6, <2>4
    <3>3. InStep(queue) => InStep(r)
      BY <3>1, <3>2 DEF InStep
    <3>4. AfterOverflow(queue) => AfterOverflow(r)
      BY <3>2, <1>6, <1>8 DEF AfterOverflow
    <3>5. OutOfStep(queue, event[l]) => OutOfStep(r, event[l])
      BY <3>2 DEF OutOfStep
    <3>6. ~clean => AllForgone(r, forgone')
      <4> SUFFICES ASSUME ~clean, NEW i \in 1..Len(r)
                   PROVE  r[i] = Dropped \/ r[i].frame \in forgone'
        BY DEF AllForgone
      <4>1. CASE i \in 1..Len(queue)
        <5>1. queue[i] = Dropped \/ queue[i].frame \in forgone
          BY <4>1, <1>1 DEF Phases, AllForgone
        <5> QED BY <5>1, <4>1, <2>2, <2>7
      <4>2. CASE i \notin 1..Len(queue)
        <5>1. r[i] = Event(n, i - Len(queue))
          BY <4>2, <2>3
        <5>2. r[i].frame = n
          BY <5>1, EventFields
        <5> QED BY <5>2, <2>7
      <4> QED BY <4>1, <4>2
    <3>7. ~clean => /\ queue # << >>
                    /\ \/ InStep(queue)
                       \/ AfterOverflow(queue)
                       \/ reading /\ OutOfStep(queue, event[l])
      BY <1>1 DEF Phases, l
    <3>8. clean' => InStep(queue')
      BY <1>1, <1>2, <2>7, <3>3 DEF Phases
    <3>9. ~clean' => /\ queue' # << >>
                      /\ AllForgone(queue', forgone')
                      /\ \/ InStep(queue')
                         \/ AfterOverflow(queue')
                         \/ reading' /\ OutOfStep(queue, event[FrameLen])'
      <4>1. OutOfStep(queue, event[FrameLen])' <=> OutOfStep(r, event[l])
        BY <1>2, <1>3 DEF OutOfStep, l
      <4>2. ~clean => \/ InStep(r) \/ AfterOverflow(r)
                      \/ reading' /\ OutOfStep(queue, event[FrameLen])'
        BY <4>1, <1>3, <3>3, <3>4, <3>5, <3>7
      <4> QED BY <4>2, <1>2, <2>7, <3>2, <3>6, <3>7
    <3> QED BY <3>8, <3>9 DEF Phases
  <2>9. Kept'
    <3> SUFFICES ASSUME NEW m \in (1..sent') \ forgone'
                 PROVE  IF Queued(queue', m) THEN clean' /\ PlacesOf(m)' = {}
                                             ELSE Made(m)'
      BY DEF Kept
    <3>1. CASE m = n
      <4>1. clean'
        BY <3>1, <2>7
      <4> QED BY <4>1, <3>1, <2>6, <1>2, <1>14, <1>15
    <3>2. CASE m # n
      <4>1. m \in (1..sent) \ forgone
        BY <3>2, <1>1, <1>2, <2>7 DEF n
      <4>2. IF Queued(queue, m) THEN clean /\ PlacesOf(m) = {} ELSE Made(m)
        BY <4>1, <1>1 DEF Kept
      <4> QED BY <4>2, <3>2, <2>5, <2>7, <1>2, <1>14
    <3> QED BY <3>1, <3>2
  <2> QED BY <1>11, <1>12, <1>13, <2>8, <2>9, <1>18 DEF ReaderInv
<1>17. CASE Overflows
  <2>1. Overflowed(r, n, l)
    BY <1>4, <1>7, <1>17 DEF AfterPushes
  <2>2. /\ ~clean' /\ forgone' = forgone \cup FramesIn(queue) \cup {n}
    BY <1>2, <1>17
  <2>3. /\ Len(r) > 1 /\ r[1] = Dropped
        /\ \A i \in 1..Len(r) : r[i] = Dropped \/ r[i].frame = n
    <3>1. Len(r) > 1 /\ r[1] = Dropped
      BY <2>1, <1>6 DEF Overflowed
    <3>2. \A i \in 2..Len(r) : r[i].frame = n
      BY <2>1, EventFields DEF Overflowed
    <3> QED BY <3>1, <3>2, <1>8
  <2>4. Phases'
    <3>1. AfterOverflow(r)
      BY <2>3, <1>8 DEF AfterOverflow
    <3>2. AllForgone(r, forgone') /\ r # << >>
      BY <2>2, <2>3, <3>1 DEF AllForgone, AfterOverflow
    <3> QED BY <2>2, <3>1, <3>2, <1>2 DEF Phases
  <2>5. Kept'
    <3> SUFFICES ASSUME NEW m \in (1..sent') \ forgone'
                 PROVE  ~Queued(queue', m) /\ Made(m)'
      BY DEF Kept
    <3>1. m \in (1..sent) \ forgone /\ m # n /\ m # 0
          /\ m \notin FramesIn(queue)
      BY <2>2, <1>1, <1>2 DEF n
    <3>2. ~Queued(r, m)
      BY <2>3, <3>1 DEF Queued, Dropped, Event
    <3>3. Made(m)
      BY <3>1, <1>1, FramesAre DEF Kept
    <3> QED BY <3>2, <3>3, <1>2, <1>14
  <2> QED BY <1>11, <1>12, <1>13, <2>4, <2>5, <1>18 DEF ReaderInv
<1> QED BY <1>16, <1>17

\* A turn of the loop that reads n events and makes the samples t: it skips
\* the frame, makes all its samples, or runs out of memory and forgoes it.
ReadStep(n, t) ==
    /\ n = IF Len(queue) < FrameLen THEN Len(queue) ELSE FrameLen
    /\ event' \in Buffers
    /\ \A i \in 1..FrameLen : event'[i] = IF i <= n THEN queue[i] ELSE event[i]
    /\ queue' \in Seq(Events) /\ Len(queue') = Len(queue) - n
    /\ \A i \in 1..Len(queue') : queue'[i] = queue[n + i]
       /\ n + i \in 1..Len(queue)
    /\ RunOfEvents(queue', sent, FrameLen)
    /\ t \in Seq(AnySample) /\ samples' = samples \o t
    /\ \A i \in 1..Len(t) : \E j \in 1..Len(SamplesOf(event')) :
                               t[i] = SamplesOf(event')[j]
    /\ \/ ~Accepts(event') /\ t = << >> /\ forgone' = forgone
       \/ Accepts(event') /\ t = SamplesOf(event') /\ forgone' = forgone
       \/ Accepts(event') /\ forgone' = forgone \cup {event'[1].frame}
    /\ reading' = TRUE /\ UNCHANGED <<config, sent>>
    /\ clean' = (clean \/ queue' = << >>)

LEMMA ReadIs ==
    ASSUME ReaderInv, Read
    PROVE  \E n \in Nat : \E t : n # 0 /\ ReadStep(n, t)
<1> DEFINE n == IF Len(queue) < FrameLen THEN Len(queue) ELSE FrameLen
           l == FrameLen
<1>1. /\ kind \in Kinds3 /\ position \in Placements /\ queue \in Seq(Events)
      /\ event \in Buffers /\ RunOfEvents(queue, sent, l) /\ l \in {6, 12}
      /\ samples \in Seq(AnySample) /\ reading
  BY Lens DEF ReaderInv, ReaderTypes, Fits, Read
<1>2. queue # << >> /\ event' = Fill(n)
      /\ queue' = SubSeq(queue, n + 1, Len(queue))
  BY DEF Read
<1>3. n \in Nat /\ n # 0 /\ n <= Len(queue) /\ n <= l /\ Len(queue) \in Nat
  BY <1>1, <1>2
<1>4. event' = [i \in 1..l |-> IF i <= n THEN queue[i] ELSE event[i]]
  BY <1>2 DEF Fill
<1> HIDE DEF n
<1>5. \A i \in 1..l : (IF i <= n THEN queue[i] ELSE event[i]) \in Events
  <2> SUFFICES ASSUME NEW i \in 1..l
               PROVE  (IF i <= n THEN queue[i] ELSE event[i]) \in Events
    OBVIOUS
  <2>1. i <= n => i \in 1..Len(queue)
    BY <1>1, <1>3
  <2>2. event[i] \in Events
    BY <1>1 DEF Buffers
  <2> QED BY <2>1, <2>2, <1>1
<1>6. /\ event' \in Buffers
      /\ \A i \in 1..l : event'[i] = IF i <= n THEN queue[i] ELSE event[i]
  BY <1>4, <1>5 DEF Buffers
<1>7. PICK k \in Nat : n + k = Len(queue)
  BY <1>3
<1>8. /\ queue' \in Seq(Events) /\ Len(queue') = k
      /\ \A i \in 1..k : queue'[i] = queue[n + i]
      /\ RunOfEvents(queue', sent, l)
  <2> DEFINE r == SubSeq(queue, n + 1, Len(queue))
  <2>1. /\ r \in Seq(Events) /\ Len(r) = k
        /\ \A i \in 1..k : r[i] = queue[n + i]
        /\ RunOfEvents(r, sent, l)
    <3> HIDE DEF l
    <3> QED BY <1>1, <1>3, <1>7, RunTail
  <2> HIDE DEF r
  <2>2. queue' = r
    BY <1>2 DEF r
  <2> QED BY <2>1, <2>2
<1>9. \A i \in 1..k : n + i \in 1..Len(queue)
  BY <1>3, <1>7
<1> DEFINE S == SamplesOf(event')
<1>10. S \in Seq(AnySample)
  BY <1>1, <1>6, SamplesAre
<1>11. \/ /\ Accepts(event')
          /\ \E from \in 1..Len(S) : \E to \in (from - 1)..Len(S) :
               /\ samples' = samples \o SubSeq(S, from, to)
               /\ forgone' = IF from = 1 /\ to = Len(S) THEN forgone
                             ELSE forgone \cup {event'[1].frame}
       \/ ~Accepts(event') /\ UNCHANGED <<samples, forgone>>
  BY DEF Read
<1> HIDE DEF S
<1>12. \E t \in Seq(AnySample) :
         /\ samples' = samples \o t
         /\ \A i \in 1..Len(t) : \E j \in 1..Len(S) : t[i] = S[j]
         /\ \/ ~Accepts(event') /\ t = << >> /\ forgone' = forgone
            \/ Accepts(event') /\ t = S /\ forgone' = forgone
            \/ Accepts(event') /\ forgone' = forgone \cup {event'[1].frame}
  <2>1. CASE ~Accepts(event')
    <3> DEFINE t == << >>
    <3>1. t \in Seq(AnySample) /\ samples' = samples \o t /\ Len(t) = 0
      BY <2>1, <1>1, <1>11
    <3>2. t = << >> /\ forgone' = forgone
      BY <2>1, <1>11
    <3> HIDE DEF t
    <3>3. \A i \in 1..Len(t) : \E j \in 1..Len(S) : t[i] = S[j]
      BY <3>1
    <3> QED BY <2>1, <3>1, <3>2, <3>3
  <2>2. CASE Accepts(event')
    <3>0. PICK from \in 1..Len(S) :
            \E to \in (from - 1)..Len(S) :
               /\ samples' = samples \o SubSeq(S, from, to)
               /\ forgone' = IF from = 1 /\ to = Len(S) THEN forgone
                             ELSE forgone \cup {event'[1].frame}
      BY <2>2, <1>11
    <3>1. PICK to \in (from - 1)..Len(S) :
            /\ samples' = samples \o SubSeq(S, from, to)
            /\ forgone' = IF from = 1 /\ to = Len(S) THEN forgone
                          ELSE forgone \cup {event'[1].frame}
      BY <3>0
    <3> DEFINE t == SubSeq(S, from, to)
               a == from - 1
               b == to - a
    <3>2. /\ a \in Nat /\ b \in Nat /\ a + b <= Len(S) /\ Len(S) \in Nat
          /\ from = a + 1 /\ to = a + b
      BY <1>10
    <3>3. samples' = samples \o t
      BY <3>1
    <3> HIDE DEF a, b
    <3>4. t = SubSeq(S, a + 1, a + b)
      BY <3>2
    <3> HIDE DEF t
    <3>5. t \in Seq(AnySample) /\ Len(t) = b /\ \A i \in 1..b : t[i] = S[a + i]
      BY <3>2, <3>4, <1>10, SubSeqIs
    <3>6. \A i \in 1..Len(t) : \E j \in 1..Len(S) : t[i] = S[j]
      <4> SUFFICES ASSUME NEW i \in 1..Len(t)
                   PROVE  \E j \in 1..Len(S) : t[i] = S[j]
        OBVIOUS
      <4>1. a + i \in 1..Len(S) /\ t[i] = S[a + i]
        BY <3>2, <3>5
      <4> QED BY <4>1
    <3>7. from = 1 /\ to = Len(S) => t = S
      <4> SUFFICES ASSUME from = 1, to = Len(S) PROVE t = S
        OBVIOUS
      <4>1. /\ Len(t) = Len(S)
            /\ \A i \in 1..Len(S) : t[i] = S[i]
        BY <3>2, <3>5
      <4> QED BY <4>1, <3>5, <1>10, SeqsEqual
    <3> QED BY <2>2, <3>1, <3>3, <3>5, <3>6, <3>7
  <2> QED BY <2>1, <2>2
<1>13. PICK t \in Seq(AnySample) :
         /\ samples' = samples \o t
         /\ \A i \in 1..Len(t) : \E j \in 1..Len(S) : t[i] = S[j]
         /\ \/ ~Accepts(event') /\ t = << >> /\ forgone' = forgone
            \/ Accepts(event') /\ t = S /\ forgone' = forgone
            \/ Accepts(event') /\ forgone' = forgone \cup {event'[1].frame}
  BY <1>12
<1>14. reading' = TRUE /\ UNCHANGED <<config, sent>>
       /\ clean' = (clean \/ queue' = << >>)
  <2>1. UNCHANGED <<config, reading, sent>>
    BY DEF Read
  <2>2. reading = TRUE
    BY <1>1 DEF ReaderInv, ReaderTypes
  <2> QED BY <2>1, <2>2 DEF Read
<1>15. Len(queue') = Len(queue) - n
  BY <1>3, <1>7, <1>8
<1>16. \A i \in 1..Len(queue') : queue'[i] = queue[n + i]
       /\ n + i \in 1..Len(queue)
  BY <1>8, <1>9
<1>17. n = IF Len(queue) < FrameLen THEN Len(queue) ELSE FrameLen
  BY DEF n
<1>18. ReadStep(n, t)
  BY <1>6, <1>8, <1>13, <1>14, <1>15, <1>16, <1>17 DEF ReadStep, S
<1> QED BY <1>3, <1>18

\* What any turn keeps.
LEMMA ReadTypes ==
    ASSUME ReaderInv, NEW n \in Nat, n # 0, NEW t, ReadStep(n, t)
    PROVE  /\ ReaderTypes' /\ Fits' /\ FrameLen' = FrameLen /\ kind' = kind
           /\ UNCHANGED config /\ sent' = sent /\ forgone \subseteq forgone'
<1>1. /\ kind \in Kinds3 /\ position \in Placements /\ queue \in Seq(Events)
      /\ bufsize \in Nat /\ bufsize > 12 /\ clean \in BOOLEAN
      /\ sent \in Nat /\ samples \in Seq(AnySample) /\ forgone \in SUBSET Nat
      /\ Len(queue) < bufsize /\ FrameLen \in {6, 12}
  BY Lens DEF ReaderInv, ReaderTypes, Fits
<1>2. /\ UNCHANGED config /\ sent' = sent /\ reading' = TRUE
      /\ event' \in Buffers /\ queue' \in Seq(Events)
      /\ Len(queue') = Len(queue) - n /\ RunOfEvents(queue', sent, FrameLen)
      /\ t \in Seq(AnySample) /\ samples' = samples \o t
      /\ clean' = (clean \/ queue' = << >>)
  BY DEF ReadStep
<1>3. /\ kind' = kind /\ position' = position /\ bufsize' = bufsize
      /\ FrameLen' = FrameLen
  BY <1>2, ConfigSame DEF config
<1>4. event'[1] \in Events
  BY <1>1, <1>2 DEF Buffers
<1>5. event'[1].frame \in Nat
  BY <1>4 DEF Events
<1>6. forgone \subseteq forgone' /\ forgone' \in SUBSET Nat
  <2>1. forgone' = forgone \/ forgone' = forgone \cup {event'[1].frame}
    BY DEF ReadStep
  <2> QED BY <2>1, <1>1, <1>5
<1>7. samples' \in Seq(AnySample)
  BY <1>1, <1>2
<1>8. event' \in Buffers'
  BY <1>2, <1>3 DEF Buffers
<1>9. clean' \in BOOLEAN /\ reading' \in BOOLEAN
  BY <1>1, <1>2
<1>10. ReaderTypes'
  BY <1>1, <1>2, <1>3, <1>6, <1>7, <1>8, <1>9 DEF ReaderTypes
<1>11. Len(queue') < bufsize'
  <2>1. Len(queue) \in Nat
    BY <1>1
  <2> QED BY <2>1, <1>1, <1>2, <1>3
<1>12. Fits'
  BY <1>2, <1>3, <1>11 DEF Fits
<1> QED BY <1>2, <1>3, <1>6, <1>10, <1>12

\* What is left of the queue holds no frame the queue did not hold.
LEMMA ReadQueue ==
    ASSUME ReaderInv, NEW n \in Nat, NEW t, ReadStep(n, t), NEW F, NEW m
    PROVE  /\ Queued(queue', m) => Queued(queue, m)
           /\ AllForgone(queue, F) => AllForgone(queue', F)
<1>1. \A i \in 1..Len(queue') : queue'[i] = queue[n + i]
      /\ n + i \in 1..Len(queue)
  BY DEF ReadStep
<1> QED BY <1>1 DEF Queued, AllForgone

\* In step, all frames from the first in the queue to the last reported are
\* queued, so those that were kept have no samples yet.
LEMMA LaterQueued ==
    ASSUME ReaderInv, queue # << >>, InStep(queue),
           NEW m \in (1..sent) \ forgone, m > queue[1].frame
    PROVE  PlacesOf(m) = {}
<1> DEFINE l == FrameLen
           f == queue[1].frame
           L == Len(queue)
<1>1. /\ queue \in Seq(Events) /\ sent \in Nat /\ l \in {6, 12} /\ L \in Nat
      /\ RunOfEvents(queue, sent, l) /\ queue[1] # Dropped /\ queue[1].part = 1
      /\ Kept /\ m \in Nat /\ m <= sent
  BY Lens DEF ReaderInv, ReaderTypes, Fits, InStep
<1>2. /\ f \in 1..sent
      /\ l = 6 => L = 6 * (sent - f + 1)
      /\ l = 12 => L = 12 * (sent - f + 1)
  <2> HIDE DEF l
  <2> QED BY <1>1, WholeFrames
<1>3. \A i \in 1..L : EntryOf(queue, i, sent, l)
  <2> HIDE DEF l
  <2> QED BY <1>1, RunDropped, RunEntry
<1> HIDE DEF f
<1>4. \E i \in 1..L : queue[i].frame = m
  <2> DEFINE i == l * (m - f) + 1
             g == queue[i].frame
             o == queue[i].part
  <2>1. /\ l = 6 => i = 6 * (m - f) + 1
        /\ l = 12 => i = 12 * (m - f) + 1
    OBVIOUS
  <2>2. m > f
    BY DEF f
  <2> HIDE DEF i, l, L
  <2>3. i \in 1..L
    <3>1. CASE l = 6
      BY <3>1, <2>1, <2>2, <1>1, <1>2
    <3>2. CASE l = 12
      BY <3>2, <2>1, <2>2, <1>1, <1>2
    <3> QED BY <3>1, <3>2, <1>1
  <2>4. /\ g \in 1..sent /\ o \in 1..l
        /\ l = 6 => 6 * (sent - g) + (6 - o) = L - i
        /\ l = 12 => 12 * (sent - g) + (12 - o) = L - i
    <3>1. EntryOf(queue, i, sent, l)
      BY <2>3, <1>3
    <3> QED BY <3>1 DEF EntryOf, L
  <2> HIDE DEF g, o
  <2>5. g = m
    <3>1. CASE l = 6
      <4>1. /\ i = 6 * (m - f) + 1 /\ L = 6 * (sent - f + 1)
            /\ 6 * (sent - g) + (6 - o) = L - i /\ o \in 1..6
        BY <3>1, <2>1, <2>4, <1>2
      <4> QED BY <4>1, <2>4, <1>1, <1>2
    <3>2. CASE l = 12
      <4>1. /\ i = 12 * (m - f) + 1 /\ L = 12 * (sent - f + 1)
            /\ 12 * (sent - g) + (12 - o) = L - i /\ o \in 1..12
        BY <3>2, <2>1, <2>4, <1>2
      <4> QED BY <4>1, <2>4, <1>1, <1>2
    <3> QED BY <3>1, <3>2, <1>1
  <2> QED BY <2>3, <2>5 DEF g
<1>5. Queued(queue, m)
  BY <1>4 DEF Queued, L
<1> QED BY <1>5, <1>1 DEF Kept

\* In step, the buffer is a frame and the queue goes on with the next.
LEMMA ReadInStep ==
    ASSUME ReaderInv, NEW n \in Nat, n # 0, NEW t, ReadStep(n, t),
           queue # << >>, InStep(queue)
    PROVE  ReaderInv'
<1> DEFINE l == FrameLen
<1>0. PICK f : f = queue[1].frame
  OBVIOUS
<1>1. /\ kind \in Kinds3 /\ position \in Placements /\ queue \in Seq(Events)
      /\ sent \in Nat /\ samples \in Seq(AnySample) /\ l \in {6, 12}
         /\ l \in Nat
      /\ RunOfEvents(queue, sent, l) /\ queue[1] # Dropped /\ queue[1].part = 1
      /\ Origins /\ Kept /\ Phases /\ clean \in BOOLEAN
  BY Lens DEF ReaderInv, ReaderTypes, Fits, InStep
<1>2. /\ f \in 1..sent /\ l <= Len(queue)
      /\ \A i \in 1..l : queue[i] = Event(f, i)
      /\ \A i \in 1..Len(queue) : i > l => queue[i].frame > f
      /\ l < Len(queue) => queue[l + 1].part = 1
  <2> HIDE DEF l
  <2> QED BY <1>0, <1>1, WholeFrames
<1>3. f \in Nat /\ f # 0
  BY <1>1, <1>2
<1>4. n = l
  BY <1>1, <1>2 DEF ReadStep
<1>5. event' = Frame(f)
  <2>1. event' \in [1..l -> Events] /\ \A i \in 1..l : event'[i] = Event(f, i)
    <3>1. event' \in Buffers
          /\ \A i \in 1..l : event'[i] = IF i <= n THEN queue[i] ELSE event[i]
      BY DEF ReadStep
    <3>2. \A i \in 1..l : i <= n
      BY <1>1, <1>4
    <3> QED BY <3>1, <3>2, <1>2 DEF Buffers
  <2> QED BY <2>1 DEF Frame
<1>6. /\ Len(queue') = Len(queue) - l /\ queue' \in Seq(Events)
      /\ \A i \in 1..Len(queue') : queue'[i] = queue[l + i]
         /\ l + i \in 1..Len(queue)
  BY <1>4 DEF ReadStep
<1>7. ReaderTypes' /\ Fits' /\ UNCHANGED config /\ sent' = sent
      /\ forgone \subseteq forgone'
  BY ReadTypes
<1>8. /\ t \in Seq(AnySample) /\ samples' = samples \o t
      /\ \A i \in 1..Len(t) : Has(t[i], f)
  BY <1>5 DEF ReadStep, Has, Whole
<1>9. \/ ~Accepts(Frame(f)) /\ t = << >>
      \/ Accepts(Frame(f)) /\ t = Whole(f)
      \/ f \in forgone'
  <2>1. event'[1].frame = f
    BY <1>1, <1>3, <1>5, FrameIs, EventFields
  <2> QED BY <2>1, <1>5 DEF ReadStep, Whole
<1>10. Origins'
  <2>1. \A i \in 1..Len(t) : Origin(t[i], forgone', sent')
    BY <1>2, <1>7, <1>8 DEF Origin
  <2>2. ReaderTypes /\ sent' \in {sent, sent + 1}
    BY <1>7 DEF ReaderInv
  <2> QED BY <2>1, <2>2, <1>1, <1>7, <1>8, OriginsKept
<1>11. clean' = (clean \/ queue' = << >>)
  BY DEF ReadStep
<1>12. InStep(queue')
  <2> SUFFICES ASSUME queue' # << >>
               PROVE  queue'[1] # Dropped /\ queue'[1].part = 1
    BY DEF InStep
  <2>1. 1 \in 1..Len(queue')
    BY <1>6
  <2>2. queue'[1] = queue[l + 1] /\ l + 1 \in 1..Len(queue) /\ l + 1 > l
    BY <2>1, <1>1, <1>6
  <2>3. queue[l + 1].frame > f /\ queue[l + 1].part = 1
    BY <2>2, <1>1, <1>2
  <2>4. queue[l + 1] # Dropped
    BY <2>3, <1>3 DEF Dropped, Event
  <2> QED BY <2>2, <2>3, <2>4
<1>13. Phases'
  <2>1. ~clean' => queue' # << >> /\ AllForgone(queue', forgone')
    <3> SUFFICES ASSUME ~clean'
                 PROVE  queue' # << >> /\ AllForgone(queue', forgone')
      OBVIOUS
    <3>1. queue' # << >> /\ ~clean
      BY <1>11
    <3>2. AllForgone(queue, forgone)
      BY <3>1, <1>1 DEF Phases
    <3>3. AllForgone(queue', forgone)
      BY <3>2, ReadQueue
    <3> QED BY <3>1, <3>3, <1>7 DEF AllForgone
  <2> QED BY <2>1, <1>12 DEF Phases
<1>14. Kept'
  <2> SUFFICES ASSUME NEW m \in (1..sent') \ forgone'
               PROVE  IF Queued(queue', m) THEN clean' /\ PlacesOf(m)' = {}
                                           ELSE Made(m)'
    BY DEF Kept
  <2>1. m \in (1..sent) \ forgone /\ m \in Nat
    BY <1>1, <1>7
  <2>2. IF Queued(queue, m) THEN clean /\ PlacesOf(m) = {} ELSE Made(m)
    BY <2>1, <1>1 DEF Kept
  <2>3. CASE m = f
    <3>1. clean /\ PlacesOf(f) = {}
      <4>1. Queued(queue, f)
        BY <1>0, <1>1, <1>2 DEF Queued
      <4> QED BY <4>1, <2>2, <2>3
    <3>2. ~Queued(queue', f)
      <4> SUFFICES ASSUME NEW i \in 1..Len(queue'), queue'[i].frame = f
                   PROVE  FALSE
        BY DEF Queued
      <4>1. l + i \in 1..Len(queue) /\ queue'[i] = queue[l + i]
        BY <1>6
      <4>2. l + i > l
        BY <1>1
      <4> QED BY <4>1, <4>2, <1>2, <1>3
    <3>3. IsSyn(Frame(f)[l])
      <4>1. l \in 1..l
        BY <1>1
      <4>2. Frame(f)[l].part = l
        BY <4>1, <1>3, FrameIs, EventFields
      <4> QED BY <4>2 DEF IsSyn
    <3>4. Frame(f)[1] = Event(f, 1) /\ Event(f, 1) \in Events
      BY <1>1, <1>3, FrameIs, EventFields
    <3>5. Value(Event(f, 1)) = 0 <=> f <= EarlyFrames
      <4> DEFINE e == Event(f, 1)
      <4>1. e \in Events /\ e.frame = f /\ e.part = 1 /\ f # 0
        BY <3>4, <1>3, EventFields
      <4> HIDE DEF e
      <4>2. Value(e) = 0 <=> f <= EarlyFrames
        BY <4>1, <1>3, ValueIs, InputAssumption
      <4> QED BY <4>2 DEF e
    <3>6. Accepts(Frame(f)) <=> ~ (kind = "acc" /\ f <= EarlyFrames)
      BY <3>3, <3>4, <3>5 DEF Accepts
    <3>7. CASE ~Accepts(Frame(f)) /\ t = << >>
      <4>1. kind = "acc" /\ f <= EarlyFrames
        BY <3>6, <3>7
      <4>2. \A i \in 1..Len(t) : ~Has(t[i], f)
        BY <3>7
      <4>3. Made(f)
        BY <4>1, <3>1 DEF Made
      <4>4. Made(f)'
        BY <4>2, <4>3, <1>1, <1>3, <1>7, <1>8, OtherSamples
      <4> QED BY <4>4, <3>2, <2>3
    <3>8. CASE Accepts(Frame(f)) /\ t = Whole(f)
      <4>1. Made(f)'
        BY <3>1, <3>6, <3>8, <1>1, <1>3, <1>7, <1>8, OwnSamples
      <4> QED BY <4>1, <3>2, <2>3
    <3> QED BY <3>7, <3>8, <1>9, <2>3
  <2>4. CASE m # f
    <3>1. \A i \in 1..Len(t) : ~Has(t[i], m)
      BY <2>1, <2>4, <1>1, <1>3, <1>8, OtherFrame
    <3>2. PlacesOf(m)' = PlacesOf(m) /\ (Made(m) => Made(m)')
      BY <3>1, <1>1, <2>1, <1>7, <1>8, OtherSamples
    <3>3. Queued(queue', m) => Queued(queue, m)
      BY ReadQueue
    <3>4. Queued(queue, m) => Queued(queue', m)
      <4> SUFFICES ASSUME NEW i \in 1..Len(queue), queue[i].frame = m
                   PROVE  Queued(queue', m)
        BY DEF Queued
      <4>1. i > l
        BY <1>1, <1>2, <2>4, EventFields
      <4>2. i - l \in 1..Len(queue') /\ l + (i - l) = i
        BY <4>1, <1>1, <1>6
      <4> QED BY <4>2, <1>6 DEF Queued
    <3> QED BY <3>2, <3>3, <3>4, <2>2, <1>11
  <2> QED BY <2>3, <2>4
<1>15. ASSUME NEW m \in (1..sent') \ forgone', m # f
       PROVE  PlacesOf(m)' = PlacesOf(m)
  <2>1. m \in Nat
    BY <1>1, <1>7
  <2>2. \A i \in 1..Len(t) : ~Has(t[i], m)
    BY <2>1, <1>1, <1>3, <1>8, <1>15, OtherFrame
  <2> QED BY <2>1, <2>2, <1>1, <1>7, <1>8, OtherSamples
<1>16. Ascending'
  <2> SUFFICES ASSUME NEW m \in (1..sent') \ forgone',
                      NEW k \in (1..sent') \ forgone', m < k,
                      NEW i \in PlacesOf(m)', NEW j \in PlacesOf(k)'
               PROVE  i < j
    BY DEF Ascending
  <2>1. m \in (1..sent) \ forgone /\ k \in (1..sent) \ forgone
        /\ m \in Nat /\ k \in Nat
    BY <1>1, <1>7
  <2>2. CASE m # f /\ k # f
    <3>1. i \in PlacesOf(m) /\ j \in PlacesOf(k)
      BY <2>2, <1>15
    <3> QED BY <3>1, <2>1 DEF ReaderInv, Ascending
  <2>3. CASE m = f
    <3>1. k # f /\ k > queue[1].frame
      BY <2>3, <2>1, <1>0
    <3>2. PlacesOf(k)' = {}
      BY <3>1, <2>1, <1>1, <1>15, LaterQueued
    <3> QED BY <3>2
  <2>4. CASE k = f
    <3>1. i \in 1..Len(samples)
      <4>1. i \in PlacesOf(m)
        BY <2>4, <2>1, <1>15
      <4> QED BY <4>1, PlacesAre
    <3>2. PlacesOf(f) = {}
      <4>1. Queued(queue, f)
        BY <1>0, <1>1, <1>2 DEF Queued
      <4> QED BY <4>1, <2>1, <2>4, <1>1 DEF Kept
    <3>3. j \notin 1..Len(samples) /\ j \in 1..Len(samples')
      <4>1. \A s, x : Has(s, x)' = Has(s, x)
        BY <1>7, ConfigSame
      <4>2. PlacesOf(f)' = {x \in 1..Len(samples') : Has(samples'[x], f)}
        <5>1. PlacesOf(f)' = {x \in 1..Len(samples') :
                 \E y \in 1..Len(Whole(f)') : samples'[x] = Whole(f)'[y]}
          BY DEF PlacesOf
        <5> QED BY <5>1, <1>7, ConfigSame DEF Has
      <4>3. j \in 1..Len(samples') /\ Has(samples'[j], f)
        BY <4>2, <2>4
      <4>4. ~Has(samples[j], f) \/ j \notin 1..Len(samples)
        BY <3>2, PlacesAre
      <4>5. j \in 1..Len(samples) => samples'[j] = samples[j]
        BY <1>1, <1>8
      <4> QED BY <4>3, <4>4, <4>5
    <3>4. Len(samples) \in Nat /\ Len(samples') \in Nat
      BY <1>1, <1>8
    <3> QED BY <3>1, <3>3, <3>4
  <2> QED BY <2>2, <2>3, <2>4
<1> QED BY <1>7, <1>10, <1>13, <1>14, <1>16 DEF ReaderInv

\* Out of step, all that is queued is forgone, and a read does no harm if its
\* samples have an origin and if it leaves the queue in a phase.
LEMMA ReadForgone ==
    ASSUME ReaderInv, ~clean, NEW n \in Nat, n # 0, NEW t, ReadStep(n, t),
           \A i \in 1..Len(t) :
               /\ kind # "acc"
               /\ \E e \in Events : /\ e.frame \in forgone
                                    /\ e.frame \in 1..sent
                                    /\ e.part \in 1..FrameLen
                                    /\ t[i].stamp = <<0, Value(e)>>,
           queue' # << >> => \/ InStep(queue') \/ AfterOverflow(queue')
                             \/ OutOfStep(queue', event'[FrameLen])
    PROVE  ReaderInv'
<1>1. /\ kind \in Kinds3 /\ position \in Placements /\ queue \in Seq(Events)
      /\ sent \in Nat /\ samples \in Seq(AnySample)
      /\ Origins /\ Kept /\ Phases /\ Ascending /\ ReaderTypes
  BY DEF ReaderInv, ReaderTypes
<1>2. /\ ReaderTypes' /\ Fits' /\ FrameLen' = FrameLen /\ UNCHANGED config
      /\ sent' = sent /\ forgone \subseteq forgone'
  BY ReadTypes
<1>3. /\ t \in Seq(AnySample) /\ samples' = samples \o t /\ reading' = TRUE
      /\ clean' = (clean \/ queue' = << >>)
  BY DEF ReadStep
<1>4. AllForgone(queue, forgone)
  BY <1>1 DEF Phases
<1>5. Origins'
  <2>1. \A i \in 1..Len(t) : Origin(t[i], forgone', sent')
    BY <1>2 DEF Origin
  <2> QED BY <2>1, <1>1, <1>2, <1>3, OriginsKept
<1>6. Phases'
  <2>1. clean' => InStep(queue')
    BY <1>3 DEF InStep
  <2>2. AllForgone(queue', forgone)
    BY <1>4, ReadQueue
  <2>3. AllForgone(queue', forgone')
    BY <2>2, <1>2 DEF AllForgone
  <2>4. OutOfStep(queue', event'[FrameLen]) <=> OutOfStep(queue, event[FrameLen])'
    BY <1>2 DEF OutOfStep
  <2>5. ~clean' => queue' # << >>
    BY <1>3
  <2> QED BY <2>1, <2>3, <2>4, <2>5, <1>3 DEF Phases
<1>7. Kept' /\ \A m \in (1..sent') \ forgone' : PlacesOf(m)' = PlacesOf(m)
  <2> SUFFICES ASSUME NEW m \in (1..sent') \ forgone'
               PROVE  /\ ~Queued(queue', m) /\ Made(m)'
                      /\ PlacesOf(m)' = PlacesOf(m)
    BY DEF Kept
  <2>1. m \in (1..sent) \ forgone /\ m \in Nat /\ m # 0
    BY <1>1, <1>2
  <2>2. ~Queued(queue, m)
    BY <2>1, <1>4 DEF Queued, AllForgone, Dropped, Event
  <2>3. Made(m)
    BY <2>1, <2>2, <1>1 DEF Kept
  <2>4. \A i \in 1..Len(t) : ~Has(t[i], m)
    <3> SUFFICES ASSUME NEW i \in 1..Len(t), Has(t[i], m) PROVE FALSE
      OBVIOUS
    <3>1. PICK e \in Events : /\ e.frame \in forgone /\ e.frame \in 1..sent
                              /\ e.part \in 1..FrameLen
                              /\ t[i].stamp = <<0, Value(e)>>
      OBVIOUS
    <3>2. e.frame # 0
      BY <3>1
    <3>3. e.frame = m
      BY <3>1, <3>2, <1>1, <2>1, StampTells
    <3> QED BY <3>1, <3>3, <2>1
  <2>5. Made(m)' /\ PlacesOf(m)' = PlacesOf(m)
    BY <2>1, <2>3, <2>4, <1>1, <1>2, <1>3, OtherSamples
  <2>6. ~Queued(queue', m)
    BY <2>2, ReadQueue
  <2> QED BY <2>5, <2>6
<1>8. Ascending'
  BY <1>1, <1>2, <1>7 DEF Ascending
<1> QED BY <1>2, <1>5, <1>6, <1>7, <1>8 DEF ReaderInv

\* The last event of a frame is l - 1 behind the first, and the next in front
\* of the first of another.
LEMMA Parts ==
    ASSUME NEW l \in {6, 12}, NEW s \in Nat, NEW q \in Seq(Events),
           NEW i \in 1..Len(q), NEW j \in 1..Len(q),
           EntryOf(q, i, s, l), EntryOf(q, j, s, l)
    PROVE  /\ j = i + 1 => (q[j].part = 1 <=> q[i].part = l)
           /\ j = i + (l - 1) => (q[j].part = l <=> q[i].part = 1)
<1> DEFINE f == q[i].frame
           p == q[i].part
           g == q[j].frame
           o == q[j].part
           L == Len(q)
<1>1. /\ f \in 1..s /\ p \in 1..l /\ g \in 1..s /\ o \in 1..l
      /\ l = 6 => /\ 6 * (s - f) + (6 - p) = L - i
                  /\ 6 * (s - g) + (6 - o) = L - j
      /\ l = 12 => /\ 12 * (s - f) + (12 - p) = L - i
                   /\ 12 * (s - g) + (12 - o) = L - j
  BY DEF EntryOf
<1>2. L \in Nat /\ i \in Nat /\ j \in Nat
  OBVIOUS
<1> HIDE DEF f, p, g, o, L
<1>3. /\ j = i + 1 => (o = 1 <=> p = l)
      /\ j = i + (l - 1) => (o = l <=> p = 1)
  <2>1. CASE l = 6
    BY <2>1, <1>1, <1>2
  <2>2. CASE l = 12
    BY <2>2, <1>1, <1>2
  <2> QED BY <2>1, <2>2
<1> QED BY <1>3 DEF p, o

\* Behind a SYN_DROPPED, a read that ends with a frame is taken for one, and
\* the next is in step; any other puts the reads out of step.
LEMMA ReadAfterOverflow ==
    ASSUME ReaderInv, ~clean, NEW n \in Nat, n # 0, NEW t, ReadStep(n, t),
           AfterOverflow(queue)
    PROVE  ReaderInv'
<1> DEFINE l == FrameLen
<1>1. /\ kind \in Kinds3 /\ position \in Placements /\ queue \in Seq(Events)
      /\ sent \in Nat /\ l \in {6, 12} /\ RunOfEvents(queue, sent, l)
      /\ AllForgone(queue, forgone) /\ Len(queue) \in Nat
  BY Lens DEF ReaderInv, ReaderTypes, Fits, Phases
<1>2. queue[1] = Dropped /\ Len(queue) > 1
  BY DEF AfterOverflow
<1>3. /\ n = IF Len(queue) < l THEN Len(queue) ELSE l
      /\ event' \in Buffers
      /\ \A i \in 1..l : event'[i] = IF i <= n THEN queue[i] ELSE event[i]
      /\ Len(queue') = Len(queue) - n
      /\ \A i \in 1..Len(queue') : queue'[i] = queue[n + i]
         /\ n + i \in 1..Len(queue)
      /\ queue' \in Seq(Events)
  BY DEF ReadStep
<1>4. \A i \in 2..Len(queue) : EntryOf(queue, i, sent, l)
  <2> SUFFICES ASSUME NEW i \in 2..Len(queue) PROVE EntryOf(queue, i, sent, l)
    OBVIOUS
  <2>1. i \in 1..Len(queue) /\ i # 1
    BY <1>1
  <2> HIDE DEF l
  <2> QED BY <2>1, <1>1, RunDropped, RunEntry
<1>5. n > 1 /\ 1 \in 1..l /\ 2 \in 1..l /\ 2 \in 1..Len(queue)
      /\ 2 \in 2..Len(queue)
  BY <1>1, <1>2, <1>3
<1>6. event'[1] = Dropped /\ event'[2] = queue[2]
  BY <1>2, <1>3, <1>5
<1>7. Value(event'[1]) = 0
  BY <1>6 DEF Value
<1> DEFINE d == queue[2]
<1>8. d \in Events /\ d.frame \in forgone /\ d.frame \in 1..sent
      /\ d.part \in 1..FrameLen
  <2>1. EntryOf(queue, 2, sent, l)
    BY <1>4, <1>5
  <2>2. d \in Events /\ d # Dropped /\ d.frame \in 1..sent /\ d.part \in 1..l
    BY <2>1 DEF EntryOf
  <2>3. d.frame \in forgone
    BY <2>2, <1>1, <1>5 DEF AllForgone
  <2> QED BY <2>2, <2>3
<1>9. ASSUME NEW i \in 1..Len(t)
      PROVE  kind # "acc" /\ t[i].stamp = <<0, Value(d)>>
  <2>1. Accepts(event')
    BY DEF ReadStep
  <2>2. kind # "acc"
    BY <2>1, <1>7 DEF Accepts
  <2>3. PICK j \in 1..Len(SamplesOf(event')) : t[i] = SamplesOf(event')[j]
    BY DEF ReadStep
  <2>4. t[i].stamp = <<Value(event'[1]), Value(event'[2])>>
    BY <2>3, <1>1, <1>3, SamplesAre
  <2> QED BY <2>2, <2>4, <1>6, <1>7
<1>10. ASSUME queue' # << >>
       PROVE  InStep(queue') \/ OutOfStep(queue', event'[FrameLen])
  <2>1. 1 \in 1..Len(queue') /\ Len(queue') # 0
    BY <1>3, <1>10
  <2>2. n = l /\ l + 1 \in 2..Len(queue) /\ l \in 2..Len(queue)
        /\ l \in 1..Len(queue) /\ l + 1 \in 1..Len(queue) /\ l \in 1..l
    BY <2>1, <1>1, <1>3
  <2>3. queue'[1] = queue[l + 1] /\ event'[l] = queue[l]
    BY <2>1, <2>2, <1>1, <1>3
  <2>4. EntryOf(queue, l, sent, l) /\ EntryOf(queue, l + 1, sent, l)
    BY <2>2, <1>4
  <2>5. queue[l + 1].part = 1 <=> queue[l].part = l
    <3> HIDE DEF l
    <3> QED BY <2>2, <2>4, <1>1, Parts
  <2>6. queue[l + 1] # Dropped /\ queue[l] \notin {Dropped, JunkSyn}
    BY <2>4 DEF EntryOf
  <2> QED BY <2>3, <2>5, <2>6, <1>10 DEF InStep, OutOfStep
<1>11. \A i \in 1..Len(t) :
          /\ kind # "acc"
          /\ \E e \in Events : /\ e.frame \in forgone /\ e.frame \in 1..sent
                               /\ e.part \in 1..FrameLen
                               /\ t[i].stamp = <<0, Value(e)>>
  BY <1>8, <1>9
<1> QED BY <1>10, <1>11, ReadForgone

\* Out of step, no read ends with a frame until the queue is empty.
LEMMA ReadOutOfStep ==
    ASSUME ReaderInv, ~clean, NEW n \in Nat, n # 0, NEW t, ReadStep(n, t),
           OutOfStep(queue, event[FrameLen])
    PROVE  ReaderInv'
<1> DEFINE l == FrameLen
<1>1. /\ queue \in Seq(Events) /\ sent \in Nat /\ l \in {6, 12}
      /\ RunOfEvents(queue, sent, l) /\ Len(queue) \in Nat
  BY Lens DEF ReaderInv, ReaderTypes, Fits
<1>2. /\ n = IF Len(queue) < l THEN Len(queue) ELSE l
      /\ \A i \in 1..l : event'[i] = IF i <= n THEN queue[i] ELSE event[i]
      /\ Len(queue') = Len(queue) - n
      /\ \A i \in 1..Len(queue') : queue'[i] = queue[n + i]
         /\ n + i \in 1..Len(queue)
      /\ queue' \in Seq(Events)
  BY DEF ReadStep
<1>3. \A i \in 1..Len(queue) : EntryOf(queue, i, sent, l)
  <2> SUFFICES ASSUME NEW i \in 1..Len(queue) PROVE EntryOf(queue, i, sent, l)
    OBVIOUS
  <2>1. queue[1] # Dropped
    BY DEF OutOfStep
  <2> HIDE DEF l
  <2> QED BY <2>1, <1>1, RunDropped, RunEntry
<1>4. l \in 1..l
  BY <1>1
<1>5. event'[l] \notin {Dropped, JunkSyn} /\ event'[l].part # l
  <2>1. CASE Len(queue) < l
    <3>1. event'[l] = event[l]
      BY <2>1, <1>1, <1>2, <1>4
    <3> QED BY <3>1 DEF OutOfStep
  <2>2. CASE ~ (Len(queue) < l)
    <3>1. event'[l] = queue[l] /\ l \in 1..Len(queue) /\ 1 \in 1..Len(queue)
          /\ l = 1 + (l - 1)
      BY <2>2, <1>1, <1>2, <1>4
    <3>2. EntryOf(queue, l, sent, l) /\ EntryOf(queue, 1, sent, l)
      BY <3>1, <1>3
    <3>3. queue[l].part = l <=> queue[1].part = 1
      <4> HIDE DEF l
      <4> QED BY <3>1, <3>2, <1>1, Parts
    <3> QED BY <3>1, <3>2, <3>3 DEF EntryOf, OutOfStep
  <2> QED BY <2>1, <2>2
<1>6. ASSUME queue' # << >> PROVE OutOfStep(queue', event'[FrameLen])
  <2>1. 1 \in 1..Len(queue') /\ Len(queue') # 0
    BY <1>2, <1>6
  <2>2. n = l /\ l + 1 \in 1..Len(queue) /\ l \in 1..Len(queue)
    BY <2>1, <1>1, <1>2
  <2>3. queue'[1] = queue[l + 1] /\ event'[l] = queue[l]
    BY <2>1, <2>2, <1>2, <1>4
  <2>4. EntryOf(queue, l, sent, l) /\ EntryOf(queue, l + 1, sent, l)
    BY <2>2, <1>3
  <2>5. queue[l + 1].part = 1 <=> queue[l].part = l
    <3> HIDE DEF l
    <3> QED BY <2>2, <2>4, <1>1, Parts
  <2>6. queue[l + 1] # Dropped
    BY <2>4 DEF EntryOf
  <2> QED BY <2>3, <2>5, <2>6, <1>5, <1>6 DEF OutOfStep
<1>7. t = << >>
  <2>1. ~Accepts(event')
    BY <1>5 DEF Accepts, IsSyn
  <2> QED BY <2>1 DEF ReadStep
<1>8. Len(t) = 0
  BY <1>7
<1>9. \A i \in 1..Len(t) :
         /\ kind # "acc"
         /\ \E e \in Events : /\ e.frame \in forgone /\ e.frame \in 1..sent
                              /\ e.part \in 1..FrameLen
                              /\ t[i].stamp = <<0, Value(e)>>
  BY <1>8
<1> QED BY <1>6, <1>9, ReadForgone

LEMMA ReadKeeps ==
    ASSUME ReaderInv, Read
    PROVE  ReaderInv'
<1>1. PICK n \in Nat : \E t : n # 0 /\ ReadStep(n, t)
  BY ReadIs
<1>2. PICK t : n # 0 /\ ReadStep(n, t)
  BY <1>1
<1>3. queue # << >>
  BY DEF Read
<1>4. CASE InStep(queue)
  BY <1>2, <1>3, <1>4, ReadInStep
<1>5. CASE ~InStep(queue)
  <2>1. ~clean /\ (AfterOverflow(queue) \/ OutOfStep(queue, event[FrameLen]))
    BY <1>5 DEF ReaderInv, Phases
  <2> QED BY <1>2, <2>1, ReadAfterOverflow, ReadOutOfStep
<1> QED BY <1>4, <1>5

LEMMA ReaderStep == ReaderInv /\ [Next]_vars => ReaderInv'
<1> SUFFICES ASSUME ReaderInv, [Next]_vars PROVE ReaderInv'
  OBVIOUS
<1>1. CASE Report
  BY <1>1, ReportKeeps
<1>2. CASE Call
  BY <1>2, CallKeeps
<1>3. CASE Read
  BY <1>3, ReadKeeps
<1>4. CASE Return
  BY <1>4, ReturnKeeps
<1>5. CASE UNCHANGED vars
  <2>1. event' \in Buffers /\ reading' \in BOOLEAN
    BY <1>5 DEF vars, ReaderInv, ReaderTypes
  <2>2. UNCHANGED <<config, queue, sent, samples, clean, forgone>>
        /\ (~clean => (reading' /\ event' = event) \/ ~reading)
    BY <1>5 DEF vars, config, ReaderInv, ReaderTypes
  <2> QED BY <2>1, <2>2, SameQueue
<1> QED BY <1>1, <1>2, <1>3, <1>4, <1>5 DEF Next

LEMMA ReaderAlways == Spec => []ReaderInv
<1> QED BY ReaderInit, ReaderStep, PTL DEF Spec

-----------------------------------------------------------------------------
(* The theorems.                                                           *)

\* The state of a reader keeps its types: whatever the kernel drops, the queue
\* holds events, the array is full of them and what is made are samples.
THEOREM InputTypes == Spec => []ReaderTypes
<1>1. ReaderInv => ReaderTypes
  BY DEF ReaderInv
<1> QED BY <1>1, ReaderAlways, PTL

LEMMA QueuedIsWhole ==
    ASSUME ReaderInv, InStep(queue), NEW n \in 1..sent, Queued(queue, n)
    PROVE  IsQueued(n)
<1> DEFINE l == FrameLen
           L == Len(queue)
           start == L - (sent - n + 1) * l
<1>1. /\ queue \in Seq(Events) /\ sent \in Nat /\ l \in {6, 12} /\ n \in Nat
      /\ RunOfEvents(queue, sent, l) /\ L \in Nat
  BY Lens DEF ReaderInv, ReaderTypes, Fits
<1>2. PICK i \in 1..L : queue[i].frame = n
  BY DEF Queued
<1>3. queue # << >> /\ queue[1] # Dropped /\ queue[1].part = 1
  BY <1>1, <1>2 DEF InStep
<1>4. \A j \in 1..L : EntryOf(queue, j, sent, l)
  <2> HIDE DEF l
  <2> QED BY <1>1, <1>3, RunDropped, RunEntry
<1> DEFINE f == queue[1].frame
           p == queue[i].part
<1>5. /\ f \in 1..sent /\ p \in 1..l
      /\ l = 6 => /\ 6 * (sent - f) + (6 - 1) = L - 1
                  /\ 6 * (sent - n) + (6 - p) = L - i
      /\ l = 12 => /\ 12 * (sent - f) + (12 - 1) = L - 1
                   /\ 12 * (sent - n) + (12 - p) = L - i
  <2>1. EntryOf(queue, 1, sent, l) /\ EntryOf(queue, i, sent, l)
    BY <1>2, <1>4
  <2> QED BY <2>1, <1>2, <1>3 DEF EntryOf
<1> HIDE DEF f, p, L, l
<1>6. /\ start \in Nat /\ start + l <= L
      /\ l = 6 => start = L - 6 * (sent - n + 1)
      /\ l = 12 => start = L - 12 * (sent - n + 1)
  <2>1. CASE l = 6
    <3>1. start = L - 6 * (sent - n + 1)
      BY <2>1, <1>1
    <3> HIDE DEF start
    <3> QED BY <2>1, <3>1, <1>1, <1>2, <1>5
  <2>2. CASE l = 12
    <3>1. start = L - 12 * (sent - n + 1)
      BY <2>2, <1>1
    <3> HIDE DEF start
    <3> QED BY <2>2, <3>1, <1>1, <1>2, <1>5
  <2> QED BY <2>1, <2>2, <1>1
<1> HIDE DEF start
<1>7. ASSUME NEW j \in 1..l PROVE queue[start + j] = Event(n, j)
  <2> DEFINE g == queue[start + j].frame
             o == queue[start + j].part
  <2>1. start + j \in 1..L /\ j \in Nat
    BY <1>1, <1>6
  <2>2. EntryOf(queue, start + j, sent, l)
    BY <2>1, <1>4
  <2>3. /\ queue[start + j] = Event(g, o) /\ g \in 1..sent /\ o \in 1..l
        /\ l = 6 => 6 * (sent - g) + (6 - o) = L - (start + j)
        /\ l = 12 => 12 * (sent - g) + (12 - o) = L - (start + j)
    BY <2>2 DEF EntryOf, L
  <2> HIDE DEF g, o
  <2>4. g = n /\ o = j
    <3>1. CASE l = 6
      BY <3>1, <2>1, <2>3, <1>1, <1>6
    <3>2. CASE l = 12
      BY <3>2, <2>1, <2>3, <1>1, <1>6
    <3> QED BY <3>1, <3>2, <1>1
  <2> QED BY <2>3, <2>4
<1>8. SubSeq(queue, start + 1, start + l) = Frame(n)
  <2>1. /\ start \in Nat /\ l \in Nat /\ start + l <= Len(queue)
        /\ queue \in Seq(Events)
    BY <1>1, <1>6 DEF L
  <2>2. /\ SubSeq(queue, start + 1, start + l) \in Seq(Events)
        /\ Len(SubSeq(queue, start + 1, start + l)) = l
        /\ \A j \in 1..l : SubSeq(queue, start + 1, start + l)[j] = queue[start + j]
    BY <2>1, SubSeqIs
  <2> DEFINE w == SubSeq(queue, start + 1, start + l)
  <2>3. /\ w \in Seq(Events) /\ Len(w) = l
        /\ \A j \in 1..l : w[j] = Event(n, j)
    BY <2>2, <1>7, Zenon
  <2> HIDE DEF w, l
  <2>4. w = [j \in 1..l |-> Event(n, j)]
    BY <2>3, <2>1
  <2> QED BY <2>4 DEF Frame, l, w
<1> QED BY <1>6, <1>8 DEF IsQueued, start, L, l

\* Until the kernel's buffer overflows, and again from the moment the queue ran
\* empty, a reader neither loses, splits, merges nor repeats a frame, nor takes
\* one before an earlier one, for every size of the buffer and any number of
\* frames.
THEOREM InputFramesKept == Spec => []FramesKept
<1>1. ASSUME ReaderInv, NEW n \in (1..sent) \ forgone
      PROVE  \/ IsQueued(n) /\ PlacesOf(n) = {}
             \/ n \notin FramesIn(queue) /\ Made(n)
  <2>1. IF Queued(queue, n) THEN clean /\ PlacesOf(n) = {} ELSE Made(n)
    BY <1>1 DEF ReaderInv, Kept
  <2>2. CASE Queued(queue, n)
    <3>1. InStep(queue)
      BY <1>1, <2>1, <2>2 DEF ReaderInv, Phases
    <3> QED BY <3>1, <1>1, <2>1, <2>2, QueuedIsWhole
  <2>3. CASE ~Queued(queue, n)
    <3>1. queue \in Seq(Events)
      BY <1>1 DEF ReaderInv, ReaderTypes
    <3> QED BY <3>1, <2>1, <2>3, FramesAre
  <2> QED BY <2>2, <2>3
<1>2. ReaderInv => FramesKept
  BY <1>1 DEF FramesKept, Made, ReaderInv, Ascending
<1> QED BY <1>2, ReaderAlways, PTL

\* Whatever a reader makes of events of two frames, or of those an earlier turn
\* left, has 0 for its seconds and an event of a forgone frame for its
\* nanoseconds; the accelerometer's own reader makes nothing of them, the one of
\* both sensors makes samples of both.
THEOREM InputTornHasNoSeconds == Spec => []TornHasNoSeconds
<1>1. ReaderInv => TornHasNoSeconds
  <2> SUFFICES ASSUME ReaderInv, NEW i \in 1..Len(samples)
               PROVE  \/ IsReported(samples[i])
                      \/ /\ kind # "acc"
                         /\ \E n \in forgone \cap 1..sent : \E p \in 1..FrameLen :
                               samples[i].stamp = <<0, Value(Event(n, p))>>
    BY DEF TornHasNoSeconds
  <2>1. Origin(samples[i], forgone, sent)
    BY DEF ReaderInv, Origins
  <2>2. CASE \E n \in 1..sent : Has(samples[i], n)
    <3>1. PICK n \in 1..sent : Has(samples[i], n)
      BY <2>2
    <3>2. n \in Nat /\ kind \in Kinds3 /\ position \in Placements
      BY DEF ReaderInv, ReaderTypes
    <3>3. Whole(n) \in Seq(AnySample)
      BY <3>2, WholeIs
    <3>4. samples[i] \in ToSet(Whole(n))
      BY <3>1, <3>3 DEF Has, ToSet
    <3> QED BY <3>1, <3>4 DEF IsReported
  <2>3. CASE /\ kind # "acc"
             /\ \E e \in Events : /\ e.frame \in forgone /\ e.frame \in 1..sent
                                  /\ e.part \in 1..FrameLen
                                  /\ samples[i].stamp = <<0, Value(e)>>
    <3>1. PICK e \in Events : /\ e.frame \in forgone /\ e.frame \in 1..sent
                              /\ e.part \in 1..FrameLen
                              /\ samples[i].stamp = <<0, Value(e)>>
      BY <2>3
    <3>2. e = Event(e.frame, e.part)
      BY DEF Events, Event
    <3> QED BY <2>3, <3>1, <3>2
  <2> QED BY <2>1, <2>2, <2>3 DEF Origin
<1> QED BY <1>1, ReaderAlways, PTL

-----------------------------------------------------------------------------
(* Placements.                                                             *)

Vectors == [1..3 -> Int]

LEMMA Signs ==
    ASSUME NEW a \in Int, NEW b \in Int
    PROVE  /\ (-a) * (-b) = a * b
           /\ (-a) * b = -(a * b)
           /\ a * (-b) = -(a * b)
           /\ a * b \in Int /\ a * b = b * a
OBVIOUS

\* w is v as placement p turns it, axis by axis.
Turned(w, v, p) ==
    \/ p = 0 /\ w[1] = v[1] /\ w[2] = v[2] /\ w[3] = v[3]
    \/ p = 1 /\ w[1] = -v[1] /\ w[2] = v[2] /\ w[3] = -v[3]
    \/ p = 2 /\ w[1] = -v[1] /\ w[2] = -v[2] /\ w[3] = v[3]
    \/ p = 3 /\ w[1] = v[1] /\ w[2] = -v[2] /\ w[3] = -v[3]
    \/ p = 4 /\ w[1] = -v[2] /\ w[2] = v[1] /\ w[3] = v[3]
    \/ p = 5 /\ w[1] = v[2] /\ w[2] = -v[1] /\ w[3] = v[3]
    \/ p = 6 /\ w[1] = v[2] /\ w[2] = v[1] /\ w[3] = -v[3]
    \/ p = 7 /\ w[1] = -v[2] /\ w[2] = -v[1] /\ w[3] = -v[3]

LEMMA RemapTurns ==
    ASSUME NEW v \in Vectors, NEW p \in Placements
    PROVE  Turned(Remap(v, p), v, p) /\ Remap(v, p) \in Vectors
<1>1. Turned(Remap(v, p), v, p)
  BY DEF Turned, Vectors, Placements, Remap, Exchanges, Negated
<1> QED BY <1>1, RemapType DEF Vectors

\* Turning two vectors leaves their inner product alone.
LEMMA TurnKeepsDot ==
    ASSUME NEW u \in Vectors, NEW v \in Vectors, NEW p,
           NEW m \in Vectors, NEW w \in Vectors, Turned(m, u, p),
           Turned(w, v, p)
    PROVE  Dot(m, w) = Dot(u, v)
<1>1. /\ u[1] \in Int /\ u[2] \in Int /\ u[3] \in Int
      /\ v[1] \in Int /\ v[2] \in Int /\ v[3] \in Int
  BY DEF Vectors
<1>2. /\ (-u[1]) * (-v[1]) = u[1] * v[1] /\ u[1] * v[1] \in Int
      /\ (-u[2]) * (-v[2]) = u[2] * v[2] /\ u[2] * v[2] \in Int
      /\ (-u[3]) * (-v[3]) = u[3] * v[3] /\ u[3] * v[3] \in Int
  BY <1>1, Signs
<1> QED BY <1>1, <1>2 DEF Turned, Dot

\* hw_remap_sensor_data keeps the lengths and angles of all vectors, whichever
\* of the eight placements it is given.
THEOREM RemapKeepsDot ==
    ASSUME NEW u \in Vectors, NEW v \in Vectors, NEW p \in Placements
    PROVE  Dot(Remap(u, p), Remap(v, p)) = Dot(u, v)
BY RemapTurns, TurnKeepsDot

\* Turning the cross product of two vectors gives the cross product of the
\* turned ones.
LEMMA TurnKeepsCross ==
    ASSUME NEW u \in Vectors, NEW v \in Vectors, NEW p,
           NEW m \in Vectors, NEW w \in Vectors, Turned(m, u, p),
           Turned(w, v, p),
           NEW k \in Vectors, k = Cross(u, v), NEW r \in Vectors,
           Turned(r, k, p)
    PROVE  Cross(m, w) = r
<1>1. /\ u[1] \in Int /\ u[2] \in Int /\ u[3] \in Int
      /\ v[1] \in Int /\ v[2] \in Int /\ v[3] \in Int
  BY DEF Vectors
<1>2. /\ k[1] = u[2] * v[3] - u[3] * v[2]
      /\ k[2] = u[3] * v[1] - u[1] * v[3]
      /\ k[3] = u[1] * v[2] - u[2] * v[1]
  BY DEF Cross
<1>3. SUFFICES /\ r[1] = m[2] * w[3] - m[3] * w[2]
              /\ r[2] = m[3] * w[1] - m[1] * w[3]
              /\ r[3] = m[1] * w[2] - m[2] * w[1]
  BY DEF Cross, Vectors
<1>4. CASE p = 0
  BY <1>1, <1>2, <1>4 DEF Turned
<1>5. CASE p = 1
  BY <1>1, <1>2, <1>5 DEF Turned
<1>6. CASE p = 2
  BY <1>1, <1>2, <1>6 DEF Turned
<1>7. CASE p = 3
  BY <1>1, <1>2, <1>7 DEF Turned
<1>8. CASE p = 4
  BY <1>1, <1>2, <1>8 DEF Turned
<1>9. CASE p = 5
  BY <1>1, <1>2, <1>9 DEF Turned
<1>10. CASE p = 6
  BY <1>1, <1>2, <1>10 DEF Turned
<1>11. CASE p = 7
  BY <1>1, <1>2, <1>11 DEF Turned
<1> QED BY <1>4, <1>5, <1>6, <1>7, <1>8, <1>9, <1>10, <1>11 DEF Turned

\* hw_remap_sensor_data keeps right-handed systems right-handed: none of the
\* eight placements has an odd number of wrong signs.
THEOREM RemapKeepsCross ==
    ASSUME NEW u \in Vectors, NEW v \in Vectors, NEW p \in Placements
    PROVE  Cross(Remap(u, p), Remap(v, p)) = Remap(Cross(u, v), p)
<1>1. Cross(u, v) \in Vectors
  <2>1. \A i, j \in 1..3 : u[i] * v[j] \in Int
    BY Signs DEF Vectors
  <2> QED BY <2>1 DEF Cross, Vectors
<1> QED BY <1>1, RemapTurns, TurnKeepsCross

\* Every entry of the table of placements that a reader may use is a rotation.
THEOREM InputRemapIsRotation == Spec => []RemapIsRotation
<1>1. ReaderInv => RemapIsRotation
  <2> SUFFICES ASSUME ReaderInv PROVE RemapIsRotation
    OBVIOUS
  <2> DEFINE Unit(i) == [j \in 1..3 |-> IF i = j THEN 1 ELSE 0]
  <2>1. position \in Placements
    BY DEF ReaderInv, ReaderTypes
  <2>2. \A i \in 1..3 : Unit(i) \in Vectors
    BY DEF Vectors
  <2> HIDE DEF Unit
  <2>3. \A i, j \in 1..3 :
          /\ Dot(Remap(Unit(i), position), Remap(Unit(j), position))
                = Dot(Unit(i), Unit(j))
          /\ Cross(Remap(Unit(i), position), Remap(Unit(j), position))
                = Remap(Cross(Unit(i), Unit(j)), position)
    BY <2>1, <2>2, RemapKeepsDot, RemapKeepsCross
  <2> QED BY <2>3 DEF RemapIsRotation, Unit
<1> QED BY <1>1, ReaderAlways, PTL
=============================================================================
