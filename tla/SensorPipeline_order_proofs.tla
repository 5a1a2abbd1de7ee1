---------------------- MODULE SensorPipeline_order_proofs ----------------------
(***************************************************************************)
(* No sample is duplicated, overtaken or lost without trace on the data    *)
(* path, and what is delivered in one go is sorted by time: for every      *)
(* number of samples, every limit and every assignment of time stamps.     *)
(*                                                                         *)
(* The argument is about Line(s), the concatenation of the eight queues of *)
(* a sensor.  A step changes one queue or two neighbouring ones; what it   *)
(* does to those two, it does to the whole line.  That the path implements *)
(* a lossy channel per sensor follows from it: what is on its way is what  *)
(* the line holds behind the pipe.                                         *)
(***************************************************************************)
EXTENDS SensorPipeline_proofs, FiniteSetTheorems

-----------------------------------------------------------------------------
(* Sequences of which some elements are numbered.  T is the set of the     *)
(* elements that count, the samples of one sensor; others may be mixed in. *)

Numbered(T) == \A x \in T : x.seq \in Nat

Ascending(T, q) ==
    \A i, j \in DOMAIN q :
        i < j /\ q[i] \in T /\ q[j] \in T => q[i].seq < q[j].seq

Older(T, A, B) == \A x \in A \cap T : \A y \in B \cap T : x.seq < y.seq

\* p1 is what becomes of p when the elements of D are taken out: their order
\* stays, none is doubled, and no other is gone.
Loses(T, p, p1, D) ==
    Ascending(T, p) =>
        /\ Ascending(T, p1)
        /\ Range(p1) \cap T = (Range(p) \cap T) \ D
        /\ D \cap T \subseteq Range(p)

\* A concatenation ascends if its parts do, one after the other.
LEMMA AscendingConcat ==
    ASSUME NEW S, NEW T, NEW p \in Seq(S), NEW q \in Seq(S)
    PROVE  Ascending(T, p \o q) <=>
                /\ Ascending(T, p) /\ Ascending(T, q)
                /\ Older(T, Range(p), Range(q))
<1>1. /\ p \o q \in Seq(S) /\ Len(p \o q) = Len(p) + Len(q)
      /\ Len(p) \in Nat /\ Len(q) \in Nat
      /\ \A i \in 1 .. Len(p) + Len(q) : (p \o q)[i] =
                IF i <= Len(p) THEN p[i] ELSE q[i - Len(p)]
      /\ DOMAIN (p \o q) = 1 .. Len(p) + Len(q)
      /\ DOMAIN p = 1 .. Len(p) /\ DOMAIN q = 1 .. Len(q)
    BY ConcatProperties, LenProperties
<1>2. /\ Range(p) = {p[i] : i \in 1 .. Len(p)}
      /\ Range(q) = {q[i] : i \in 1 .. Len(q)}
    BY RangeEquality
<1> DEFINE pq == p \o q
<1>3. /\ \A i \in 1 .. Len(p) : i \in DOMAIN pq /\ pq[i] = p[i]
      /\ \A i \in 1 .. Len(q) : /\ i + Len(p) \in DOMAIN pq
                                /\ pq[i + Len(p)] = q[i]
    BY <1>1
<1> HIDE DEF pq
<1>4. ASSUME Ascending(T, pq)
      PROVE  Ascending(T, p) /\ Ascending(T, q) /\ Older(T, Range(p), Range(q))
    <2>1. Ascending(T, p)
        BY <1>1, <1>3, <1>4 DEF Ascending
    <2>2. Ascending(T, q)
        <3> SUFFICES ASSUME NEW i \in 1 .. Len(q), NEW j \in 1 .. Len(q),
                            i < j, q[i] \in T, q[j] \in T
                     PROVE  q[i].seq < q[j].seq
            BY <1>1 DEF Ascending
        <3>1. i + Len(p) < j + Len(p)
            BY <1>1
        <3> QED BY <1>3, <1>4, <3>1 DEF Ascending
    <2>3. Older(T, Range(p), Range(q))
        <3> SUFFICES ASSUME NEW i \in 1 .. Len(p), NEW j \in 1 .. Len(q),
                            p[i] \in T, q[j] \in T
                     PROVE  p[i].seq < q[j].seq
            BY <1>2 DEF Older
        <3>1. i < j + Len(p)
            BY <1>1
        <3> QED BY <1>3, <1>4, <3>1 DEF Ascending
    <2> QED BY <2>1, <2>2, <2>3
<1>5. ASSUME Ascending(T, p), Ascending(T, q), Older(T, Range(p), Range(q))
      PROVE  Ascending(T, pq)
    <2> SUFFICES ASSUME NEW i \in 1 .. Len(p) + Len(q),
                        NEW j \in 1 .. Len(p) + Len(q),
                        i < j, pq[i] \in T, pq[j] \in T
                 PROVE  pq[i].seq < pq[j].seq
        BY <1>1 DEF Ascending, pq
    <2>1. CASE j <= Len(p)
        <3>1. i \in 1 .. Len(p) /\ j \in 1 .. Len(p)
            BY <1>1, <2>1
        <3> QED BY <1>1, <1>3, <1>5, <3>1 DEF Ascending
    <2>2. CASE i <= Len(p) /\ j > Len(p)
        <3>1. i \in 1 .. Len(p) /\ j - Len(p) \in 1 .. Len(q)
            BY <1>1, <2>2
        <3>2. pq[i] = p[i] /\ pq[j] = q[j - Len(p)]
            BY <1>1, <2>2, <3>1 DEF pq
        <3>3. p[i] \in Range(p) \cap T /\ q[j - Len(p)] \in Range(q) \cap T
            BY <1>2, <3>1, <3>2
        <3> QED BY <1>5, <3>2, <3>3 DEF Older
    <2>3. CASE i > Len(p)
        <3>1. /\ i - Len(p) \in 1 .. Len(q) /\ j - Len(p) \in 1 .. Len(q)
              /\ i - Len(p) < j - Len(p) /\ ~(i <= Len(p)) /\ ~(j <= Len(p))
            BY <1>1, <2>3
        <3>2. pq[i] = q[i - Len(p)] /\ pq[j] = q[j - Len(p)]
            BY <1>1, <3>1 DEF pq
        <3> QED BY <1>1, <1>5, <3>1, <3>2 DEF Ascending
    <2> QED BY <1>1, <2>1, <2>2, <2>3
<1> QED BY <1>4, <1>5 DEF pq

\* What happens to the front of a sequence, happens to the sequence.
LEMMA LosesInFront ==
    ASSUME NEW S, NEW T, Numbered(T), NEW p \in Seq(S), NEW p1 \in Seq(S),
           NEW r \in Seq(S), NEW D, Loses(T, p, p1, D)
    PROVE  Loses(T, p \o r, p1 \o r, D)
<1>1. /\ Range(p \o r) = Range(p) \cup Range(r)
      /\ Range(p1 \o r) = Range(p1) \cup Range(r)
    BY RangeConcatenation
<1>2. SUFFICES ASSUME Ascending(T, p), Ascending(T, r),
                      Older(T, Range(p), Range(r))
               PROVE  /\ Ascending(T, p1 \o r)
                      /\ Range(p1 \o r) \cap T = (Range(p \o r) \cap T) \ D
                      /\ D \cap T \subseteq Range(p \o r)
    BY AscendingConcat DEF Loses
<1>3. /\ Ascending(T, p1) /\ Range(p1) \cap T = (Range(p) \cap T) \ D
      /\ D \cap T \subseteq Range(p)
    BY <1>2 DEF Loses
<1>4. Older(T, Range(p1), Range(r))
    BY <1>2, <1>3 DEF Older
<1>5. Ascending(T, p1 \o r)
    BY <1>2, <1>3, <1>4, AscendingConcat
<1>6. ASSUME NEW x \in Range(r) \cap T PROVE x \notin D
    <2>1. x \in D => x.seq < x.seq
        BY <1>2, <1>3, <1>6 DEF Older
    <2>2. x.seq \in Nat
        BY <1>6 DEF Numbered
    <2> QED BY <2>1, <2>2
<1> QED BY <1>1, <1>3, <1>5, <1>6

\* What happens to the rear of a sequence, happens to the sequence.
LEMMA LosesBehind ==
    ASSUME NEW S, NEW T, Numbered(T), NEW p \in Seq(S), NEW p1 \in Seq(S),
           NEW a \in Seq(S), NEW D, Loses(T, p, p1, D)
    PROVE  Loses(T, a \o p, a \o p1, D)
<1>1. /\ Range(a \o p) = Range(a) \cup Range(p)
      /\ Range(a \o p1) = Range(a) \cup Range(p1)
    BY RangeConcatenation
<1>2. SUFFICES ASSUME Ascending(T, p), Ascending(T, a),
                      Older(T, Range(a), Range(p))
               PROVE  /\ Ascending(T, a \o p1)
                      /\ Range(a \o p1) \cap T = (Range(a \o p) \cap T) \ D
                      /\ D \cap T \subseteq Range(a \o p)
    BY AscendingConcat DEF Loses
<1>3. /\ Ascending(T, p1) /\ Range(p1) \cap T = (Range(p) \cap T) \ D
      /\ D \cap T \subseteq Range(p)
    BY <1>2 DEF Loses
<1>4. Older(T, Range(a), Range(p1))
    BY <1>2, <1>3 DEF Older
<1>5. Ascending(T, a \o p1)
    BY <1>2, <1>3, <1>4, AscendingConcat
<1>6. ASSUME NEW x \in Range(a) \cap T PROVE x \notin D
    <2>1. x \in D => x.seq < x.seq
        BY <1>2, <1>3, <1>6 DEF Older
    <2>2. x.seq \in Nat
        BY <1>6 DEF Numbered
    <2> QED BY <2>1, <2>2
<1> QED BY <1>1, <1>3, <1>5, <1>6

-----------------------------------------------------------------------------
(* What the operations of the lists lose.                                  *)

\* One loss after another; only numbered elements count.
LEMMA LosesTwice ==
    ASSUME NEW T, NEW p, NEW p1, NEW p2, NEW D1, NEW D2, NEW D,
           Loses(T, p, p1, D1), Loses(T, p1, p2, D2),
           D \cap T = (D1 \cup D2) \cap T
    PROVE  Loses(T, p, p2, D)
<1> SUFFICES ASSUME Ascending(T, p)
             PROVE  /\ Ascending(T, p2)
                    /\ Range(p2) \cap T = (Range(p) \cap T) \ D
                    /\ D \cap T \subseteq Range(p)
    BY DEF Loses
<1>1. /\ Ascending(T, p1) /\ Range(p1) \cap T = (Range(p) \cap T) \ D1
      /\ D1 \cap T \subseteq Range(p)
    BY DEF Loses
<1>2. /\ Ascending(T, p2) /\ Range(p2) \cap T = (Range(p1) \cap T) \ D2
      /\ D2 \cap T \subseteq Range(p1)
    BY <1>1 DEF Loses
<1>3. Range(p2) \cap T = (Range(p) \cap T) \ D
    BY <1>1, <1>2
<1>4. D \cap T \subseteq Range(p)
    BY <1>1, <1>2
<1> QED BY <1>2, <1>3, <1>4

LEMMA LosesNothing ==
    ASSUME NEW T, NEW p, NEW D, D \cap T = {}
    PROVE  Loses(T, p, p, D)
BY DEF Loses

\* Elements that do not count may be added anywhere.
LEMMA GainsForeign ==
    ASSUME NEW S, NEW T, NEW p \in Seq(S), NEW g \in Seq(S),
           Range(g) \cap T = {}
    PROVE  Loses(T, p, p \o g, {})
<1>1. \A i \in DOMAIN g : g[i] \notin T
    BY RangeEquality, LenProperties
<1>2. Ascending(T, g) /\ Older(T, Range(p), Range(g))
    BY <1>1 DEF Ascending, Older
<1>3. Range(p \o g) = Range(p) \cup Range(g)
    BY RangeConcatenation
<1> QED BY <1>2, <1>3, AscendingConcat DEF Loses

\* A front part is cut off.
LEMMA LosesFrontPart ==
    ASSUME NEW S, NEW T, Numbered(T), NEW a \in Seq(S), NEW b \in Seq(S)
    PROVE  Loses(T, a \o b, b, Range(a))
<1>1. Range(a \o b) = Range(a) \cup Range(b)
    BY RangeConcatenation
<1>2. SUFFICES ASSUME Ascending(T, b), Older(T, Range(a), Range(b))
               PROVE  /\ Range(b) \cap T = (Range(a \o b) \cap T) \ Range(a)
                      /\ Range(a) \cap T \subseteq Range(a \o b)
    BY AscendingConcat DEF Loses
<1>3. ASSUME NEW x \in Range(b) \cap T PROVE x \notin Range(a)
    <2>1. x \in Range(a) => x.seq < x.seq
        BY <1>2, <1>3 DEF Older
    <2>2. x.seq \in Nat
        BY <1>3 DEF Numbered
    <2> QED BY <2>1, <2>2
<1> QED BY <1>1, <1>3

\* A sequence is its head and its tail.
LEMMA HeadAndTail ==
    ASSUME NEW S, NEW q \in Seq(S), q # << >>
    PROVE  /\ << Head(q) >> \in Seq(S) /\ Tail(q) \in Seq(S) /\ Head(q) \in S
           /\ q = << Head(q) >> \o Tail(q)
           /\ Range(<< Head(q) >>) = {Head(q)}
<1>1. /\ Head(q) \in S /\ Tail(q) \in Seq(S) /\ Len(Tail(q)) = Len(q) - 1
      /\ \A i \in 1 .. Len(Tail(q)) : Tail(q)[i] = q[i + 1]
      /\ Len(q) \in Nat \ {0}
    BY HeadTailProperties, EmptySeq
<1>2. << Head(q) >> \in Seq(S) /\ Len(<< Head(q) >>) = 1
      /\ << Head(q) >>[1] = Head(q) /\ Head(q) = q[1]
    BY <1>1
<1> DEFINE h == << Head(q) >>
           t == Tail(q)
<1>3. /\ h \o t \in Seq(S) /\ Len(h \o t) = Len(q)
      /\ \A i \in 1 .. Len(q) : (h \o t)[i] = IF i <= 1 THEN h[1] ELSE t[i - 1]
    <2>1. /\ h \o t \in Seq(S) /\ Len(h \o t) = Len(h) + Len(t)
          /\ \A i \in 1 .. Len(h) + Len(t) : (h \o t)[i] =
                IF i <= Len(h) THEN h[i] ELSE t[i - Len(h)]
        BY <1>1, <1>2, ConcatProperties
    <2> HIDE DEF h, t
    <2>2. Len(h) = 1 /\ Len(t) = Len(q) - 1 /\ Len(q) \in Nat \ {0}
        BY <1>1, <1>2 DEF h, t
    <2>3. Len(h) + Len(t) = Len(q)
        BY <2>2
    <2>4. ASSUME NEW i \in 1 .. Len(q)
          PROVE  (h \o t)[i] = IF i <= 1 THEN h[1] ELSE t[i - 1]
        <3>1. i <= 1 => i = 1
            BY <2>2
        <3> QED BY <2>1, <2>2, <2>3, <3>1
    <2> QED BY <2>1, <2>3, <2>4
<1>4. \A i \in 1 .. Len(q) : q[i] = (h \o t)[i]
    <2> HIDE DEF h, t
    <2> SUFFICES ASSUME NEW i \in 1 .. Len(q) PROVE q[i] = (h \o t)[i]
        OBVIOUS
    <2>1. h[1] = q[1]
        BY <1>2 DEF h
    <2>2. i > 1 => i - 1 \in 1 .. Len(t) /\ t[i - 1] = q[(i - 1) + 1]
        BY <1>1 DEF t
    <2>3. i <= 1 => i = 1
        OBVIOUS
    <2>4. (i - 1) + 1 = i
        OBVIOUS
    <2> QED BY <1>3, <2>1, <2>2, <2>3, <2>4
<1>5. q = h \o t
    <2> HIDE DEF h, t
    <2> QED BY <1>3, <1>4, SeqEqual
<1>6. Range(h) = {Head(q)}
    <2>1. Range(h) = {h[i] : i \in 1 .. Len(h)}
        BY <1>2, RangeEquality
    <2> QED BY <1>2, <2>1
<1> QED BY <1>1, <1>2, <1>5, <1>6

LEMMA LosesHead ==
    ASSUME NEW S, NEW T, Numbered(T), NEW q \in Seq(S), q # << >>
    PROVE  Loses(T, q, Tail(q), {Head(q)})
<1>1. /\ << Head(q) >> \in Seq(S) /\ Tail(q) \in Seq(S)
      /\ q = << Head(q) >> \o Tail(q)
      /\ Range(<< Head(q) >>) = {Head(q)}
    BY HeadAndTail
<1>2. Loses(T, << Head(q) >> \o Tail(q), Tail(q), Range(<< Head(q) >>))
    BY <1>1, LosesFrontPart
<1> QED BY <1>1, <1>2

\* The head of one sequence becomes the last element of the one before it.
LEMMA MovesHead ==
    ASSUME NEW S, NEW q \in Seq(S), NEW r \in Seq(S), r # << >>
    PROVE  /\ Append(q, Head(r)) \in Seq(S)
           /\ Append(q, Head(r)) \o Tail(r) = q \o r
<1>1. /\ << Head(r) >> \in Seq(S) /\ Tail(r) \in Seq(S) /\ Head(r) \in S
      /\ r = << Head(r) >> \o Tail(r)
    BY HeadAndTail
<1>2. Append(q, Head(r)) = q \o << Head(r) >> /\ Append(q, Head(r)) \in Seq(S)
    BY <1>1, AppendIsConcat, AppendProperties
<1>3. (q \o << Head(r) >>) \o Tail(r) = q \o (<< Head(r) >> \o Tail(r))
    BY <1>1, ConcatAssociative
<1> QED BY <1>1, <1>2, <1>3

LEMMA AddRearLoses ==
    ASSUME NEW S, NEW T, Numbered(T), NEW q \in Seq(S), NEW r \in Seq(S),
           r # << >>, NEW uplimit \in Nat \ {0}
    PROVE  /\ AddRear(q, Head(r), uplimit) \in Seq(S) /\ Tail(r) \in Seq(S)
           /\ Loses(T, q \o r, AddRear(q, Head(r), uplimit) \o Tail(r),
                    AddRearDrops(q, uplimit))
<1>1. Head(r) \in S /\ Tail(r) \in Seq(S)
    BY HeadAndTail
<1>2. CASE Len(q) = uplimit
    <2>1. q # << >>
        BY <1>2, EmptySeq
    <2>2. Tail(q) \in Seq(S) /\ Loses(T, q, Tail(q), {Head(q)})
        BY <2>1, LosesHead, HeadAndTail
    <2>3. Loses(T, q \o r, Tail(q) \o r, {Head(q)})
        BY <2>2, LosesInFront
    <2>4. /\ AddRear(q, Head(r), uplimit) = Append(Tail(q), Head(r))
          /\ AddRearDrops(q, uplimit) = {Head(q)}
        BY <1>2 DEF AddRear, AddRearDrops
    <2>5. /\ Append(Tail(q), Head(r)) \in Seq(S)
          /\ Append(Tail(q), Head(r)) \o Tail(r) = Tail(q) \o r
        BY <2>2, MovesHead
    <2> QED BY <1>1, <2>3, <2>4, <2>5
<1>3. CASE Len(q) # uplimit
    <2>1. /\ AddRear(q, Head(r), uplimit) = Append(q, Head(r))
          /\ AddRearDrops(q, uplimit) = {}
        BY <1>3 DEF AddRear, AddRearDrops
    <2>2. Append(q, Head(r)) \in Seq(S)
          /\ Append(q, Head(r)) \o Tail(r) = q \o r
        BY MovesHead
    <2> QED BY <1>1, <2>1, <2>2, LosesNothing
<1> QED BY <1>2, <1>3

LEMMA KeepRearLoses ==
    ASSUME NEW S, NEW T, Numbered(T), NEW q \in Seq(S), NEW uplimit \in Nat
    PROVE  Loses(T, q, KeepRear(q, uplimit), Truncated(q, uplimit))
<1>1. /\ Len(q) \in Nat /\ DOMAIN q = 1 .. Len(q)
      /\ \A i \in 1 .. Len(q) : q[i] \in S
    BY LenProperties, ElementOfSeq
<1>2. CASE Len(q) > uplimit
    <2> DEFINE k == Len(q) - uplimit
               a == SubSeq(q, 1, k)
               b == SubSeq(q, k + 1, Len(q))
    <2>1. k \in 1 .. Len(q)
        BY <1>1, <1>2
    <2>2. a \in Seq(S) /\ Len(a) = k /\ \A i \in 1 .. k : a[i] = q[i]
        <3>1. /\ SubSeq(q, 1, k) \in Seq(S)
              /\ Len(SubSeq(q, 1, k)) = (IF 1 <= k THEN k - 1 + 1 ELSE 0)
              /\ \A i \in 1 .. k - 1 + 1 : SubSeq(q, 1, k)[i] = q[1 + i - 1]
            <4> HIDE DEF k
            <4>1. 1 \in Int /\ k \in Int /\ \A i \in 1 .. k : q[i] \in S
                BY <1>1, <2>1
            <4> QED BY <4>1, SubSeqProperties
        <3> HIDE DEF k
        <3>2. (k - 1) + 1 = k /\ 1 <= k /\ \A i \in 1 .. k : (1 + i) - 1 = i
            BY <1>1, <2>1
        <3> QED BY <3>1, <3>2
    <2>3. b \in Seq(S)
        <3> HIDE DEF k
        <3>1. k + 1 \in Int /\ Len(q) \in Int
              /\ \A i \in k + 1 .. Len(q) : q[i] \in S
            BY <1>1, <2>1
        <3> QED BY <3>1, SubSeqProperties
    <2>4. q = a \o b
        <3> HIDE DEF k
        <3>1. /\ 1 \in 1 .. Len(q) + 1 /\ k \in 1 - 1 .. Len(q)
              /\ Len(q) \in k .. Len(q)
            BY <1>1, <2>1
        <3>2. SubSeq(q, 1, k) \o SubSeq(q, k + 1, Len(q)) = SubSeq(q, 1, Len(q))
            BY <3>1, ConcatAdjacentSubSeq
        <3> QED BY <3>2, SubSeqFull
    <2>5. KeepRear(q, uplimit) = b
        BY <1>2 DEF KeepRear
    <2>6. Truncated(q, uplimit) = Range(a)
        <3>1. Range(a) = {a[i] : i \in 1 .. Len(a)}
            BY <2>2, RangeEquality
        <3>2. \A j \in DOMAIN q : j + uplimit <= Len(q) <=> j \in 1 .. k
            BY <1>1
        <3>3. 1 .. k \subseteq DOMAIN q
            BY <1>1, <2>1
        <3> HIDE DEF a, k
        <3> QED BY <2>2, <3>1, <3>2, <3>3 DEF Truncated
    <2> HIDE DEF a, b
    <2> QED BY <2>2, <2>3, <2>4, <2>5, <2>6, LosesFrontPart
<1>3. CASE ~(Len(q) > uplimit)
    <2>1. KeepRear(q, uplimit) = q
        BY <1>3 DEF KeepRear
    <2>2. Truncated(q, uplimit) = {}
        BY <1>1, <1>3, TruncatedType
    <2> QED BY <2>1, <2>2, LosesNothing
<1> QED BY <1>2, <1>3

LEMMA MountRearLoses ==
    ASSUME NEW S, NEW T, Numbered(T), NEW q \in Seq(S), NEW r \in Seq(S),
           NEW uplimit \in Nat
    PROVE  Loses(T, q \o r, MountRear(q, r, uplimit),
                 MountRearDrops(q, r, uplimit))
<1>1. CASE r = << >>
    <2>1. q \o r = q
        BY <1>1, ConcatEmptySeq
    <2> QED BY <1>1, <2>1, LosesNothing DEF MountRear, MountRearDrops
<1>2. CASE r # << >>
    <2>1. q \o r \in Seq(S)
        BY ConcatProperties
    <2> QED BY <1>2, <2>1, KeepRearLoses DEF MountRear, MountRearDrops
<1> QED BY <1>1, <1>2

-----------------------------------------------------------------------------
(* The line of a sensor.                                                   *)

\* Concatenation is associative.
Regroups(u, v, w) == (u \o v) \o w = u \o (v \o w)

LEMMA Regrouped ==
    ASSUME NEW S, NEW u \in Seq(S), NEW v \in Seq(S), NEW w \in Seq(S)
    PROVE  Regroups(u, v, w)
<1>1. (u \o v) \o w = u \o (v \o w)
    BY ConcatAssociative, SMTT(30)
<1> QED BY <1>1 DEF Regroups

\* What is lost from p is lost from p with r behind.
LosesAlike(T, p, p1, r, D) ==
    Loses(T, p, p1, D) => Loses(T, p \o r, p1 \o r, D)

LEMMA LostInFront ==
    ASSUME NEW S, NEW T, Numbered(T), NEW p \in Seq(S), NEW p1 \in Seq(S),
           NEW r \in Seq(S), NEW D
    PROVE  LosesAlike(T, p, p1, r, D)
BY LosesInFront DEF LosesAlike

\* A change of two neighbours within a longer sequence.
LEMMA LosesInMiddle ==
    ASSUME NEW S, NEW T, Numbered(T), NEW a \in Seq(S), NEW D,
           NEW q \in Seq(S), NEW r \in Seq(S),
           NEW q1 \in Seq(S), NEW r1 \in Seq(S),
           Loses(T, q \o r, q1 \o r1, D)
    PROVE  Loses(T, (a \o q) \o r, (a \o q1) \o r1, D)
<1>1. q \o r \in Seq(S) /\ q1 \o r1 \in Seq(S)
    BY ConcatProperties
<1>2. Loses(T, a \o (q \o r), a \o (q1 \o r1), D)
    BY <1>1, LosesBehind
<1>3. Regroups(a, q, r) /\ Regroups(a, q1, r1)
    BY Regrouped
<1>4. /\ (a \o q) \o r = a \o (q \o r)
      /\ (a \o q1) \o r1 = a \o (q1 \o r1)
    BY <1>3 DEF Regroups
<1> QED BY <1>2, <1>4, Zenon

LEMMA SamplesNumbered == \A s \in Sensor : Numbered(SamplesOf(s))
BY BoundsAssumption DEF Numbered, SamplesOf, SampleSet, Event

\* The queues of a line.
LEMMA LineTypes ==
    ASSUME TypeOK, NEW s \in Sensor
    PROVE  /\ delivered \in Seq(Event) /\ pipe \in Seq(Event)
           /\ batch \in Seq(Event) /\ arr[s] \in Seq(Event)
           /\ sdList[s] \in Seq(Event) /\ shmem \in Seq(Event)
           /\ hwList[s] \in Seq(Event) /\ evdev[s] \in Seq(Event)
           /\ Line(s) \in Seq(Event)
<1>1. \A q \in Seq(SampleSet) : q \in Seq(Event)
    BY EventTypes
<1>2. /\ delivered \in Seq(Event) /\ pipe \in Seq(Event)
      /\ batch \in Seq(Event) /\ arr[s] \in Seq(Event)
      /\ sdList[s] \in Seq(Event) /\ shmem \in Seq(Event)
      /\ hwList[s] \in Seq(Event) /\ evdev[s] \in Seq(Event)
    BY <1>1, PerSensorQueues DEF TypeOK
<1>3. Line(s) \in Seq(Event)
    BY <1>2, ConcatProperties DEF Line
<1> QED BY <1>2, <1>3

\* What a step does to two neighbouring queues, it does to the line.
LEMMA LineSteps ==
    ASSUME TypeOK, TypeOK', NEW s \in Sensor, NEW D
    PROVE  LET T == SamplesOf(s)
           IN
           /\ /\ UNCHANGED <<batch, arr[s], sdList[s], shmem, hwList[s], evdev[s]>>
              /\ Loses(T, delivered \o pipe, delivered' \o pipe', D)
              => Loses(T, Line(s), Line(s)', D)
           /\ /\ UNCHANGED <<delivered, arr[s], sdList[s], shmem, hwList[s], evdev[s]>>
              /\ Loses(T, pipe \o batch, pipe' \o batch', D)
              => Loses(T, Line(s), Line(s)', D)
           /\ /\ UNCHANGED <<delivered, pipe, sdList[s], shmem, hwList[s], evdev[s]>>
              /\ Loses(T, batch \o arr[s], batch' \o arr'[s], D)
              => Loses(T, Line(s), Line(s)', D)
           /\ /\ UNCHANGED <<delivered, pipe, batch, shmem, hwList[s], evdev[s]>>
              /\ Loses(T, arr[s] \o sdList[s], arr'[s] \o sdList'[s], D)
              => Loses(T, Line(s), Line(s)', D)
           /\ /\ UNCHANGED <<delivered, pipe, batch, arr[s], hwList[s], evdev[s]>>
              /\ Loses(T, sdList[s] \o shmem, sdList'[s] \o shmem', D)
              => Loses(T, Line(s), Line(s)', D)
           /\ /\ UNCHANGED <<delivered, pipe, batch, arr[s], sdList[s], evdev[s]>>
              /\ Loses(T, shmem \o hwList[s], shmem' \o hwList'[s], D)
              => Loses(T, Line(s), Line(s)', D)
           /\ /\ UNCHANGED <<delivered, pipe, batch, arr[s], sdList[s], shmem>>
              /\ Loses(T, hwList[s] \o evdev[s], hwList'[s] \o evdev'[s], D)
              => Loses(T, Line(s), Line(s)', D)
<1> DEFINE T == SamplesOf(s)
           e1 == delivered \o pipe
           e2 == e1 \o batch
           e3 == e2 \o arr[s]
           e4 == e3 \o sdList[s]
           e5 == e4 \o shmem
           e6 == e5 \o hwList[s]
<1>1. /\ delivered \in Seq(Event) /\ pipe \in Seq(Event)
      /\ batch \in Seq(Event) /\ arr[s] \in Seq(Event)
      /\ sdList[s] \in Seq(Event) /\ shmem \in Seq(Event)
      /\ hwList[s] \in Seq(Event) /\ evdev[s] \in Seq(Event)
    BY LineTypes
<1>2. /\ delivered' \in Seq(Event) /\ pipe' \in Seq(Event)
      /\ batch' \in Seq(Event) /\ arr'[s] \in Seq(Event)
      /\ sdList'[s] \in Seq(Event) /\ shmem' \in Seq(Event)
      /\ hwList'[s] \in Seq(Event) /\ evdev'[s] \in Seq(Event)
    <2>1. \A q \in Seq(SampleSet) : q \in Seq(Event)
        BY EventTypes
    <2> QED BY <2>1, PerSensorQueues DEF TypeOK
<1>3. Numbered(T)
    BY SamplesNumbered
<1>4. /\ e1 \in Seq(Event) /\ e2 \in Seq(Event) /\ e3 \in Seq(Event)
      /\ e4 \in Seq(Event) /\ e5 \in Seq(Event) /\ e6 \in Seq(Event)
    BY <1>1, ConcatProperties
<1>5. /\ e1' \in Seq(Event) /\ e2' \in Seq(Event) /\ e3' \in Seq(Event)
      /\ e4' \in Seq(Event) /\ e5' \in Seq(Event) /\ e6' \in Seq(Event)
    BY <1>2, ConcatProperties
<1>6. /\ Line(s) = e6 \o evdev[s]
      /\ Line(s)' = e6' \o evdev'[s]
    BY DEF Line
<1> HIDE DEF T
<1>21. UNCHANGED batch /\ Loses(T, e1, e1', D) => Loses(T, e2, e2', D)
    <2> HIDE DEF e1, e2, e3, e4, e5, e6
    <2>1. LosesAlike(T, e1, e1', batch, D)
        BY <1>1, <1>3, <1>4, <1>5, LostInFront
    <2> QED BY <2>1 DEF LosesAlike, e2
<1>22. UNCHANGED arr[s] /\ Loses(T, e2, e2', D) => Loses(T, e3, e3', D)
    <2> HIDE DEF e1, e2, e3, e4, e5, e6
    <2>1. LosesAlike(T, e2, e2', arr[s], D)
        BY <1>1, <1>3, <1>4, <1>5, LostInFront
    <2> QED BY <2>1 DEF LosesAlike, e3
<1>23. UNCHANGED sdList[s] /\ Loses(T, e3, e3', D) => Loses(T, e4, e4', D)
    <2> HIDE DEF e1, e2, e3, e4, e5, e6
    <2>1. LosesAlike(T, e3, e3', sdList[s], D)
        BY <1>1, <1>3, <1>4, <1>5, LostInFront
    <2> QED BY <2>1 DEF LosesAlike, e4
<1>24. UNCHANGED shmem /\ Loses(T, e4, e4', D) => Loses(T, e5, e5', D)
    <2> HIDE DEF e1, e2, e3, e4, e5, e6
    <2>1. LosesAlike(T, e4, e4', shmem, D)
        BY <1>1, <1>3, <1>4, <1>5, LostInFront
    <2> QED BY <2>1 DEF LosesAlike, e5
<1>25. UNCHANGED hwList[s] /\ Loses(T, e5, e5', D) => Loses(T, e6, e6', D)
    <2> HIDE DEF e1, e2, e3, e4, e5, e6
    <2>1. LosesAlike(T, e5, e5', hwList[s], D)
        BY <1>1, <1>3, <1>4, <1>5, LostInFront
    <2> QED BY <2>1 DEF LosesAlike, e6
<1>26. UNCHANGED evdev[s] /\ Loses(T, e6, e6', D) => Loses(T, Line(s), Line(s)', D)
    <2> HIDE DEF e1, e2, e3, e4, e5, e6
    <2>1. LosesAlike(T, e6, e6', evdev[s], D)
        BY <1>1, <1>3, <1>4, <1>5, LostInFront
    <2> QED BY <2>1, <1>6 DEF LosesAlike
<1>11. ASSUME UNCHANGED <<batch, arr[s], sdList[s], shmem, hwList[s], evdev[s]>>,
              Loses(T, delivered \o pipe, delivered' \o pipe', D)
       PROVE  Loses(T, Line(s), Line(s)', D)
    <2>1. Loses(T, e1, e1', D)
        BY <1>11
    <2> HIDE DEF e1, e2, e3, e4, e5, e6
    <2> QED BY <1>21, <1>22, <1>23, <1>24, <1>25, <1>26, <1>11, <2>1
<1>12. ASSUME UNCHANGED <<delivered, arr[s], sdList[s], shmem, hwList[s], evdev[s]>>,
              Loses(T, pipe \o batch, pipe' \o batch', D)
       PROVE  Loses(T, Line(s), Line(s)', D)
    <2>1. Loses(T, e2, e2', D)
        BY <1>1, <1>2, <1>3, <1>12, LosesInMiddle
    <2> HIDE DEF e1, e2, e3, e4, e5, e6
    <2> QED BY <1>22, <1>23, <1>24, <1>25, <1>26, <1>12, <2>1
<1>13. ASSUME UNCHANGED <<delivered, pipe, sdList[s], shmem, hwList[s], evdev[s]>>,
              Loses(T, batch \o arr[s], batch' \o arr'[s], D)
       PROVE  Loses(T, Line(s), Line(s)', D)
    <2>1. e1' = e1
        BY <1>13
    <2> HIDE DEF e1
    <2>2. Loses(T, e3, e3', D)
        BY <1>1, <1>2, <1>3, <1>4, <1>6, <1>13, <2>1, LosesInMiddle
    <2> HIDE DEF e1, e2, e3, e4, e5, e6
    <2> QED BY <1>23, <1>24, <1>25, <1>26, <1>13, <2>2
<1>14. ASSUME UNCHANGED <<delivered, pipe, batch, shmem, hwList[s], evdev[s]>>,
              Loses(T, arr[s] \o sdList[s], arr'[s] \o sdList'[s], D)
       PROVE  Loses(T, Line(s), Line(s)', D)
    <2>1. e2' = e2
        BY <1>14
    <2> HIDE DEF e2
    <2>2. Loses(T, e4, e4', D)
        BY <1>1, <1>2, <1>3, <1>4, <1>6, <1>14, <2>1, LosesInMiddle
    <2> HIDE DEF e1, e2, e3, e4, e5, e6
    <2> QED BY <1>24, <1>25, <1>26, <1>14, <2>2
<1>15. ASSUME UNCHANGED <<delivered, pipe, batch, arr[s], hwList[s], evdev[s]>>,
              Loses(T, sdList[s] \o shmem, sdList'[s] \o shmem', D)
       PROVE  Loses(T, Line(s), Line(s)', D)
    <2>1. e3' = e3
        BY <1>15
    <2> HIDE DEF e3
    <2>2. Loses(T, e5, e5', D)
        BY <1>1, <1>2, <1>3, <1>4, <1>6, <1>15, <2>1, LosesInMiddle
    <2> HIDE DEF e1, e2, e3, e4, e5, e6
    <2> QED BY <1>25, <1>26, <1>15, <2>2
<1>16. ASSUME UNCHANGED <<delivered, pipe, batch, arr[s], sdList[s], evdev[s]>>,
              Loses(T, shmem \o hwList[s], shmem' \o hwList'[s], D)
       PROVE  Loses(T, Line(s), Line(s)', D)
    <2>1. e4' = e4
        BY <1>16
    <2> HIDE DEF e4
    <2>2. Loses(T, e6, e6', D)
        BY <1>1, <1>2, <1>3, <1>4, <1>6, <1>16, <2>1, LosesInMiddle
    <2> HIDE DEF e1, e2, e3, e4, e5, e6
    <2> QED BY <1>26, <1>16, <2>2
<1>17. ASSUME UNCHANGED <<delivered, pipe, batch, arr[s], sdList[s], shmem>>,
              Loses(T, hwList[s] \o evdev[s], hwList'[s] \o evdev'[s], D)
       PROVE  Loses(T, Line(s), Line(s)', D)
    <2>1. e5' = e5
        BY <1>17
    <2> HIDE DEF e5
    <2>2. Loses(T, Line(s), Line(s)', D)
        BY <1>1, <1>2, <1>3, <1>4, <1>6, <1>17, <2>1, LosesInMiddle
    <2> QED BY <1>17, <2>2
<1> QED BY <1>11, <1>12, <1>13, <1>14, <1>15, <1>16, <1>17 DEF T

-----------------------------------------------------------------------------
(* The steps of the path.                                                  *)

\* What the line of s loses in a step is what the step records as lost.
LineStep(s) ==
    \E D : /\ Loses(SamplesOf(s), Line(s), Line(s)', D)
           /\ lost' \cap SamplesOf(s) = (lost \cup D) \cap SamplesOf(s)

LEMMA SamplesDiffer ==
    \A r, s \in Sensor : r # s => SamplesOf(r) \cap SamplesOf(s) = {}
BY DEF SamplesOf

\* Steps that do not touch the queues of s.
LEMMA LineUntouched ==
    ASSUME NEW s \in Sensor,
           UNCHANGED <<delivered, pipe, batch, arr[s], sdList[s], shmem,
                       hwList[s], evdev[s]>>,
           lost' \cap SamplesOf(s) = lost \cap SamplesOf(s)
    PROVE  LineStep(s)
<1>1. Line(s)' = Line(s)
    BY DEF Line
<1>2. Loses(SamplesOf(s), Line(s), Line(s)', {})
    BY <1>1, LosesNothing
<1> QED BY <1>2 DEF LineStep

\* A list that is cleaned loses all it had.
LEMMA CleanLoses ==
    ASSUME NEW S, NEW T, Numbered(T), NEW q \in Seq(S)
    PROVE  Loses(T, q, << >>, Truncated(q, 0))
<1>1. Loses(T, q, KeepRear(q, 0), Truncated(q, 0))
    BY KeepRearLoses
<1>2. KeepRear(q, 0) \in Seq(S) /\ Len(KeepRear(q, 0)) <= 0
    BY KeepRearType
<1>3. KeepRear(q, 0) = << >>
    <2>1. KeepRear(q, 0) # << >> => Len(KeepRear(q, 0)) \in Nat \ {0}
        BY <1>2, EmptySeq
    <2> QED BY <1>2, <2>1
<1> QED BY <1>1, <1>3

\* The reader of device r: the head of the device's queue is appended to the
\* list or lost, and so may be the head of the list.
LEMMA ReadLine ==
    ASSUME TypeOK, TypeOK', NEW r \in Sensor, ReadSample(r), NEW s \in Sensor
    PROVE  LineStep(s)
<1> DEFINE T == SamplesOf(s)
<1> USE DEF driverVars, hwVars, sdVars, flushVars, readerVars
<1>1. UNCHANGED <<delivered, pipe, batch, arr[s], sdList[s], shmem>>
    BY DEF ReadSample
<1>2. /\ evdev \in PerSensor /\ hwList \in PerSensor
      /\ evdev[r] \in Seq(SamplesOf(r)) /\ evdev[r] # << >>
      /\ hwList[r] \in Seq(SamplesOf(r)) /\ Len(hwList[r]) <= ListCap
    BY PerSensorQueues DEF TypeOK, ReadSample
<1>3. Head(evdev[r]) \in SamplesOf(r) /\ Tail(evdev[r]) \in Seq(SamplesOf(r))
    BY <1>2, HeadTailProperties
<1>4. /\ AddRear(hwList[r], Head(evdev[r]), ListCap) \in Seq(SamplesOf(r))
      /\ AddRearDrops(hwList[r], ListCap) \subseteq SamplesOf(r)
    BY <1>2, <1>3, AddRearType, BoundsAssumption
<1>5. /\ evdev' = [evdev EXCEPT ![r] = Tail(evdev[r])]
      /\ evdev'[r] = Tail(evdev[r])
      /\ \A q \in Sensor \ {r} : evdev'[q] = evdev[q]
    BY <1>2, <1>3, PerSensorQueues DEF ReadSample
<1>6. CASE s # r
    <2>1. evdev'[s] = evdev[s]
        BY <1>5, <1>6
    <2>2. hwList'[s] = hwList[s]
        BY <1>2, <1>4, <1>6, PerSensorQueues DEF ReadSample
    <2>3. lost' \cap T = lost \cap T
        <3>1. SamplesOf(r) \cap T = {}
            BY <1>6, SamplesDiffer
        <3> QED BY <1>3, <1>4, <3>1 DEF ReadSample
    <2> QED BY <1>1, <2>1, <2>2, <2>3, LineUntouched
<1>7. CASE s = r
    <2>1. Numbered(T) /\ hwList[s] \in Seq(Event) /\ evdev[s] \in Seq(Event)
          /\ evdev[s] # << >> /\ ListCap \in Nat \ {0}
        BY <1>2, <1>7, SamplesNumbered, LineTypes, BoundsAssumption
    <2>2. CASE /\ hwList' = [hwList EXCEPT ![r] =
                                AddRear(hwList[r], Head(evdev[r]), ListCap)]
               /\ lost' = lost \cup AddRearDrops(hwList[r], ListCap)
        <3>1. hwList'[s] = AddRear(hwList[s], Head(evdev[s]), ListCap)
            BY <1>2, <1>4, <1>7, <2>2, PerSensorQueues
        <3>2. Loses(T, hwList[s] \o evdev[s], hwList'[s] \o evdev'[s],
                    AddRearDrops(hwList[s], ListCap))
            BY <1>5, <1>7, <2>1, <3>1, AddRearLoses
        <3>3. Loses(T, Line(s), Line(s)', AddRearDrops(hwList[s], ListCap))
            BY <1>1, <3>2, LineSteps
        <3> QED BY <1>7, <2>2, <3>3 DEF LineStep
    <2>3. CASE lost' = lost \cup {Head(evdev[r])} /\ UNCHANGED hwList
        <3>1. /\ Loses(T, evdev[s], Tail(evdev[s]), {Head(evdev[s])})
              /\ Tail(evdev[s]) \in Seq(Event)
            BY <2>1, LosesHead, HeadAndTail
        <3>2. Loses(T, hwList[s] \o evdev[s], hwList[s] \o Tail(evdev[s]),
                    {Head(evdev[s])})
            BY <2>1, <3>1, LosesBehind
        <3>3. hwList'[s] = hwList[s] /\ evdev'[s] = Tail(evdev[s])
            BY <1>5, <1>7, <2>3
        <3>4. Loses(T, Line(s), Line(s)', {Head(evdev[s])})
            BY <1>1, <3>2, <3>3, LineSteps
        <3> QED BY <1>7, <2>3, <3>4 DEF LineStep
    <2> QED BY <2>2, <2>3 DEF ReadSample
<1> QED BY <1>6, <1>7

\* A list is mounted on the shared one: what does not fit goes from its head.
LEMMA MountLine ==
    ASSUME TypeOK, TypeOK', NEW r \in Sensor, Mount(r), NEW s \in Sensor
    PROVE  LineStep(s)
<1> DEFINE T == SamplesOf(s)
           D == MountRearDrops(shmem, hwList[r], ListCap)
<1> USE DEF driverVars, hwVars, sdVars, flushVars, readerVars
<1>1. /\ UNCHANGED <<delivered, pipe, batch, arr[s], sdList[s], evdev[s]>>
      /\ shmem' = MountRear(shmem, hwList[r], ListCap)
      /\ lost' = lost \cup D
    BY DEF Mount
<1>2. /\ Numbered(T) /\ ListCap \in Nat
      /\ shmem \in Seq(Event) /\ hwList[r] \in Seq(Event)
      /\ hwList[s] \in Seq(Event) /\ shmem' \in Seq(Event)
    BY SamplesNumbered, LineTypes, BoundsAssumption, EventTypes DEF TypeOK
<1>3. /\ hwList'[r] = << >>
      /\ \A q \in Sensor \ {r} : hwList'[q] = hwList[q]
    <2>1. << >> \in Seq(SamplesOf(r))
        BY EmptySeq
    <2>2. hwList \in PerSensor /\ hwList' = [hwList EXCEPT ![r] = << >>]
        BY DEF TypeOK, Mount
    <2> QED BY <2>1, <2>2, PerSensorQueues
<1>4. Loses(T, shmem \o hwList[r], shmem', D)
    BY <1>1, <1>2, MountRearLoses
<1>5. CASE s = r
    <2>1. shmem' \o hwList'[s] = shmem'
        BY <1>2, <1>3, <1>5, ConcatEmptySeq
    <2>2. Loses(T, Line(s), Line(s)', D)
        BY <1>1, <1>4, <1>5, <2>1, LineSteps
    <2> QED BY <1>1, <2>2 DEF LineStep
<1>6. CASE s # r
    <2>1. Range(hwList[r]) \cap T = {}
        <3>1. hwList[r] \in Seq(SamplesOf(r))
            BY PerSensorQueues DEF TypeOK
        <3>2. Range(hwList[r]) \subseteq SamplesOf(r)
            BY <3>1, RangeOfSeq
        <3> QED BY <1>6, <3>2, SamplesDiffer
    <2>2. Loses(T, shmem, shmem \o hwList[r], {})
        BY <1>2, <2>1, GainsForeign
    <2>3. Loses(T, shmem, shmem', D)
        BY <1>4, <2>2, LosesTwice
    <2>4. Loses(T, shmem \o hwList[s], shmem' \o hwList'[s], D)
        BY <1>2, <1>3, <1>6, <2>3, LosesInFront
    <2>5. Loses(T, Line(s), Line(s)', D)
        BY <1>1, <2>4, LineSteps
    <2> QED BY <1>1, <2>5 DEF LineStep
<1> QED BY <1>5, <1>6

\* Draining: the head of the shared list goes to its sensor's list.
LEMMA DrainLine ==
    ASSUME TypeOK, TypeOK', Drain, NEW s \in Sensor
    PROVE  LineStep(s)
<1> DEFINE T == SamplesOf(s)
           x == Head(shmem)
           r == x.sensor
<1> USE DEF driverVars, hwVars, sdVars, flushVars, readerVars
<1>1. UNCHANGED <<delivered, pipe, batch, arr[s], hwList[s], evdev[s]>>
    BY DEF Drain
<1>2. /\ shmem \in Seq(SampleSet) /\ shmem # << >> /\ shmem' = Tail(shmem)
      /\ Numbered(T) /\ ListCap \in Nat \ {0}
      /\ sdList[s] \in Seq(Event) /\ shmem \in Seq(Event)
    BY SamplesNumbered, LineTypes, BoundsAssumption DEF TypeOK, Drain, GetHead
<1>3. x \in SampleSet /\ r \in Sensor /\ x \in SamplesOf(r)
    BY <1>2, HeadTailProperties, EventTypes
<1>4. /\ Loses(T, shmem, Tail(shmem), {x}) /\ Tail(shmem) \in Seq(Event)
    BY <1>2, LosesHead, HeadAndTail
<1>5. Loses(T, sdList[s] \o shmem, sdList[s] \o shmem', {x})
    BY <1>2, <1>4, LosesBehind
<1>6. /\ sdList[r] \in Seq(SamplesOf(r)) /\ Len(sdList[r]) <= ListCap
      /\ sdList \in PerSensor
    BY <1>3, PerSensorQueues DEF TypeOK
<1>7. /\ AddRear(sdList[r], x, ListCap) \in Seq(SamplesOf(r))
      /\ AddRearDrops(sdList[r], ListCap) \subseteq SamplesOf(r)
    BY <1>2, <1>3, <1>6, AddRearType
<1>8. CASE /\ sdList' = [sdList EXCEPT ![r] = AddRear(sdList[r], x, ListCap)]
           /\ lost' = lost \cup AddRearDrops(sdList[r], ListCap)
    <2>1. /\ sdList'[r] = AddRear(sdList[r], x, ListCap)
          /\ \A q \in Sensor \ {r} : sdList'[q] = sdList[q]
        BY <1>3, <1>6, <1>7, <1>8, PerSensorQueues
    <2>2. CASE s = r
        <3>1. Loses(T, sdList[s] \o shmem, sdList'[s] \o shmem',
                    AddRearDrops(sdList[s], ListCap))
            BY <1>2, <2>1, <2>2, AddRearLoses
        <3>2. Loses(T, Line(s), Line(s)', AddRearDrops(sdList[s], ListCap))
            BY <1>1, <3>1, LineSteps
        <3> QED BY <1>8, <2>2, <3>2 DEF LineStep
    <2>3. CASE s # r
        <3>1. sdList'[s] = sdList[s]
            BY <2>1, <2>3
        <3>2. Loses(T, Line(s), Line(s)', {x})
            BY <1>1, <1>5, <3>1, LineSteps
        <3>3. SamplesOf(r) \cap T = {}
            BY <1>3, <2>3, SamplesDiffer
        <3>4. lost' \cap T = (lost \cup {x}) \cap T
            <4> HIDE DEF x, r, T
            <4> QED BY <1>3, <1>7, <1>8, <3>3
        <3> QED BY <3>2, <3>4 DEF LineStep
    <2> QED BY <2>2, <2>3
<1>9. CASE lost' = lost \cup {x} /\ UNCHANGED sdList
    <2>1. Loses(T, Line(s), Line(s)', {x})
        BY <1>1, <1>5, <1>9, LineSteps
    <2> QED BY <1>9, <2>1 DEF LineStep
<1> QED BY <1>8, <1>9 DEF Drain

\* Outside the sort loop the arrays are empty; a flush event is no sample.
Idle ==
    /\ sdPc # "sort" => arr = Empty
    /\ \A i \in DOMAIN flushing : flushing[i].kind = "flush"

\* Moving the lists to the arrays, or failing to.
LEMMA LoadLine ==
    ASSUME TypeOK, TypeOK', Idle, Load \/ LoadFailsGyro \/ LoadFailsAlign,
           NEW s \in Sensor
    PROVE  LineStep(s)
<1> DEFINE T == SamplesOf(s)
<1> USE DEF driverVars, hwVars, sdVars, flushVars, readerVars
<1>1. /\ UNCHANGED <<delivered, pipe, batch, shmem, hwList[s], evdev[s]>>
      /\ arr = Empty /\ arr[s] = << >>
    BY PerSensorQueues DEF Idle, Load, LoadFailsGyro, LoadFailsAlign
<1>2. /\ Numbered(T) /\ << >> \in Seq(Event) /\ Empty[s] = << >>
      /\ sdList[s] \in Seq(Event) /\ arr[s] \in Seq(Event)
    BY SamplesNumbered, LineTypes, EmptySeq, PerSensorQueues
<1>3. CASE Load
    <2>1. arr'[s] = sdList[s] /\ sdList'[s] = << >>
        BY <1>2, <1>3 DEF Load
    <2>2. arr[s] \o sdList[s] = sdList[s] /\ arr'[s] \o sdList'[s] = sdList[s]
        BY <1>1, <1>2, <2>1, ConcatEmptySeq
    <2>3. Loses(T, arr[s] \o sdList[s], arr'[s] \o sdList'[s], {})
        BY <2>2, LosesNothing
    <2>4. Loses(T, Line(s), Line(s)', {})
        BY <1>1, <2>3, LineSteps
    <2> QED BY <1>3, <2>4 DEF LineStep, Load
<1>4. ASSUME UNCHANGED arr, sdList'[s] = << >>,
             lost' \cap T = (lost \cup Truncated(sdList[s], 0)) \cap T
      PROVE  LineStep(s)
    <2>1. Loses(T, sdList[s], << >>, Truncated(sdList[s], 0))
        BY <1>2, CleanLoses
    <2>2. Loses(T, arr[s] \o sdList[s], arr'[s] \o sdList'[s],
                Truncated(sdList[s], 0))
        BY <1>2, <1>4, <2>1, LosesBehind
    <2>3. Loses(T, Line(s), Line(s)', Truncated(sdList[s], 0))
        BY <1>1, <2>2, LineSteps
    <2> QED BY <1>4, <2>3 DEF LineStep
<1>5. /\ sdList \in PerSensor /\ Acc \in Sensor /\ Gyro \in Sensor
      /\ Acc # Gyro /\ (s = Acc \/ s = Gyro)
    BY DEF TypeOK, Sensor, Acc, Gyro
<1>6. \A r \in Sensor : Truncated(sdList[r], 0) \subseteq SamplesOf(r)
    BY PerSensorQueues, TruncatedType DEF TypeOK
<1>7. \A r \in Sensor \ {s} : Truncated(sdList[r], 0) \cap T = {}
    BY <1>6, SamplesDiffer
<1>8. CASE LoadFailsGyro
    <2>1. /\ sdList'[Acc] = << >> /\ sdList'[Gyro] = sdList[Gyro]
          /\ UNCHANGED arr
        <3>1. << >> \in Seq(SamplesOf(Acc))
            BY EmptySeq
        <3>2. sdList' = [sdList EXCEPT ![Acc] = << >>]
            BY <1>8 DEF LoadFailsGyro
        <3> QED BY <1>5, <1>8, <3>1, <3>2, PerSensorQueues DEF LoadFailsGyro
    <2>2. lost' = lost \cup Truncated(sdList[Acc], 0)
        BY <1>8 DEF LoadFailsGyro
    <2>3. CASE s = Acc
        BY <1>4, <2>1, <2>2, <2>3
    <2>4. CASE s = Gyro
        <3>1. lost' \cap T = lost \cap T
            BY <1>5, <1>7, <2>2, <2>4
        <3> QED BY <1>1, <2>1, <2>4, <3>1, LineUntouched
    <2> QED BY <1>5, <2>3, <2>4
<1>9. CASE LoadFailsAlign
    <2>1. sdList'[s] = << >> /\ UNCHANGED arr
        BY <1>2, <1>9 DEF LoadFailsAlign
    <2>2. lost' = lost \cup Truncated(sdList[Acc], 0)
                      \cup Truncated(sdList[Gyro], 0)
        BY <1>9 DEF LoadFailsAlign
    <2>3. lost' \cap T = (lost \cup Truncated(sdList[s], 0)) \cap T
        BY <1>5, <1>7, <2>2
    <2> QED BY <1>4, <2>1, <2>3
<1> QED BY <1>3, <1>8, <1>9

\* What goes into an alignment slot is the front of the array, or nothing.
LEMMA SlotAndRest ==
    ASSUME TypeOK, NEW s \in Sensor
    PROVE  LET rest == IF SlotOf(s) = << >> THEN arr[s] ELSE Tail(arr[s])
           IN  /\ SlotOf(s) \in Seq(SamplesOf(s))
               /\ rest \in Seq(SamplesOf(s))
               /\ SlotOf(s) \o rest = arr[s]
<1>1. arr[s] \in Seq(SamplesOf(s))
    BY PerSensorQueues DEF TypeOK
<1>2. CASE arr[s] # << >> /\ StampOf(Head(arr[s])) = BaseStamp
    <2>1. SlotOf(s) = << Head(arr[s]) >> /\ SlotOf(s) # << >>
        BY <1>2 DEF SlotOf
    <2> QED BY <1>1, <1>2, <2>1, HeadAndTail
<1>3. CASE ~(arr[s] # << >> /\ StampOf(Head(arr[s])) = BaseStamp)
    <2>1. SlotOf(s) = << >>
        BY <1>3 DEF SlotOf
    <2> QED BY <1>1, <2>1, ConcatEmptySeq, EmptySeq
<1> QED BY <1>2, <1>3

\* One slot of the alignment: a sample of each sensor at most.
LEMMA SortLine ==
    ASSUME TypeOK, TypeOK', SortSlot, NEW s \in Sensor
    PROVE  LineStep(s)
<1> DEFINE T == SamplesOf(s)
           A == SlotOf(Acc)
           G == SlotOf(Gyro)
           rest == IF SlotOf(s) = << >> THEN arr[s] ELSE Tail(arr[s])
<1> USE DEF driverVars, hwVars, sdVars, flushVars, readerVars
<1>1. /\ UNCHANGED <<delivered, pipe, sdList[s], shmem, hwList[s], evdev[s], lost>>
      /\ batch' = (batch \o A) \o G /\ arr'[s] = rest
    BY DEF SortSlot, AddPackage
<1>2. /\ Acc \in Sensor /\ Gyro \in Sensor /\ Acc # Gyro
      /\ (s = Acc \/ s = Gyro)
    BY DEF Sensor, Acc, Gyro
<1>3. /\ A \in Seq(SamplesOf(Acc)) /\ G \in Seq(SamplesOf(Gyro))
      /\ rest \in Seq(SamplesOf(s)) /\ SlotOf(s) \o rest = arr[s]
    BY <1>2, SlotAndRest
<1>4. /\ Range(A) \subseteq SamplesOf(Acc) /\ Range(G) \subseteq SamplesOf(Gyro)
    BY <1>3, RangeOfSeq
<1>5. /\ A \in Seq(Event) /\ G \in Seq(Event) /\ rest \in Seq(Event)
      /\ SlotOf(s) \in Seq(Event) /\ batch \in Seq(Event) /\ Numbered(T)
      /\ batch \o A \in Seq(Event) /\ (batch \o A) \o G \in Seq(Event)
    <2>1. /\ A \in Seq(Event) /\ G \in Seq(Event) /\ rest \in Seq(Event)
          /\ batch \in Seq(Event) /\ Numbered(T)
        BY <1>2, <1>3, EventTypes, LineTypes, SamplesNumbered
    <2>2. batch \o A \in Seq(Event)
        BY <2>1, ConcatProperties
    <2>3. (batch \o A) \o G \in Seq(Event)
        BY <2>1, <2>2, ConcatProperties
    <2> QED BY <1>2, <2>1, <2>2, <2>3
<1> HIDE DEF rest
<1>6. CASE s = Acc
    <2>1. Range(G) \cap T = {}
        BY <1>2, <1>4, <1>6, SamplesDiffer
    <2>2. Loses(T, batch \o A, (batch \o A) \o G, {})
        BY <1>5, <2>1, GainsForeign
    <2>3. Loses(T, (batch \o A) \o rest, ((batch \o A) \o G) \o rest, {})
        BY <1>5, <2>2, LosesInFront
    <2>4. (batch \o A) \o rest = batch \o (A \o rest)
        <3>1. Regroups(batch, A, rest)
            BY <1>5, Regrouped
        <3> QED BY <3>1 DEF Regroups
    <2>5. Loses(T, Line(s), Line(s)', {})
        BY <1>1, <1>3, <1>6, <2>3, <2>4, LineSteps
    <2> QED BY <1>1, <2>5 DEF LineStep
<1>7. CASE s = Gyro
    <2>1. Range(A) \cap T = {}
        BY <1>2, <1>4, <1>7, SamplesDiffer
    <2>2. Loses(T, batch, batch \o A, {})
        BY <1>5, <2>1, GainsForeign
    <2>3. Loses(T, batch \o arr[s], (batch \o A) \o arr[s], {})
        <3>1. arr[s] \in Seq(Event)
            BY LineTypes
        <3> QED BY <1>5, <2>2, <3>1, LosesInFront
    <2>4. ((batch \o A) \o G) \o rest = (batch \o A) \o (G \o rest)
        <3> DEFINE u == batch \o A
        <3>1. u \in Seq(Event) /\ G \in Seq(Event) /\ rest \in Seq(Event)
            BY <1>5
        <3> HIDE DEF u, G
        <3>2. Regroups(u, G, rest)
            BY <3>1, Regrouped
        <3> QED BY <3>2 DEF u, Regroups
    <2>5. Loses(T, Line(s), Line(s)', {})
        BY <1>1, <1>3, <1>7, <2>3, <2>4, LineSteps
    <2> QED BY <1>1, <2>5 DEF LineStep
<1> QED BY <1>2, <1>6, <1>7

\* Delivering: from the batch to the pipe, or nowhere.
LEMMA DeliverLine ==
    ASSUME TypeOK, TypeOK', Deliver \/ DeliverFails, NEW s \in Sensor
    PROVE  LineStep(s)
<1> DEFINE T == SamplesOf(s)
<1> USE DEF driverVars, hwVars, sdVars, flushVars, readerVars
<1>1. /\ UNCHANGED <<delivered, arr[s], sdList[s], shmem, hwList[s], evdev[s]>>
      /\ batch # << >> /\ batch' = Tail(batch)
    BY DEF Deliver, DeliverFails
<1>2. /\ Numbered(T) /\ pipe \in Seq(Event) /\ batch \in Seq(Event)
    BY SamplesNumbered, LineTypes
<1>3. CASE Deliver
    <2>1. pipe' \o batch' = pipe \o batch
        BY <1>1, <1>2, <1>3, MovesHead DEF Deliver
    <2>2. Loses(T, pipe \o batch, pipe' \o batch', {})
        BY <2>1, LosesNothing
    <2>3. Loses(T, Line(s), Line(s)', {})
        BY <1>1, <2>2, LineSteps
    <2> QED BY <1>3, <2>3 DEF LineStep, Deliver
<1>4. CASE DeliverFails
    <2>1. Loses(T, batch, Tail(batch), {Head(batch)}) /\ Tail(batch) \in Seq(Event)
        BY <1>1, <1>2, LosesHead, HeadAndTail
    <2>2. Loses(T, pipe \o batch, pipe \o Tail(batch), {Head(batch)})
        BY <1>2, <2>1, LosesBehind
    <2>3. pipe' = pipe /\ lost' = lost \cup {Head(batch)}
        BY <1>4 DEF DeliverFails
    <2>4. Loses(T, Line(s), Line(s)', {Head(batch)})
        BY <1>1, <2>2, <2>3, LineSteps
    <2> QED BY <2>3, <2>4 DEF LineStep
<1> QED BY <1>3, <1>4

\* The answer to a flush enters the pipe and is no sample.
LEMMA SendFlushLine ==
    ASSUME TypeOK, TypeOK', Idle, SendFlushEvent, NEW s \in Sensor
    PROVE  LineStep(s)
<1> DEFINE T == SamplesOf(s)
<1> USE DEF driverVars, hwVars, sdVars, flushVars, readerVars
<1>1. /\ UNCHANGED <<delivered, batch, arr[s], sdList[s], shmem, hwList[s],
                     evdev[s], lost>>
      /\ pipe' = pipe \o flushing
    BY DEF SendFlushEvent
<1>2. /\ Numbered(T) /\ pipe \in Seq(Event) /\ batch \in Seq(Event)
      /\ flushing \in Seq(Event) /\ pipe \o flushing \in Seq(Event)
    BY SamplesNumbered, LineTypes, ConcatProperties DEF TypeOK
<1>3. Range(flushing) \cap T = {}
    <2>1. /\ Range(flushing) = {flushing[i] : i \in 1 .. Len(flushing)}
          /\ DOMAIN flushing = 1 .. Len(flushing)
        BY <1>2, RangeEquality, LenProperties
    <2>2. \A x \in T : x.kind = "data"
        BY DEF SamplesOf, SampleSet
    <2> HIDE DEF T
    <2> QED BY <2>1, <2>2 DEF Idle
<1>4. Loses(T, pipe, pipe \o flushing, {})
    BY <1>2, <1>3, GainsForeign
<1>5. Loses(T, pipe \o batch, (pipe \o flushing) \o batch, {})
    BY <1>2, <1>4, LosesInFront
<1>6. Loses(T, Line(s), Line(s)', {})
    BY <1>1, <1>5, LineSteps
<1> QED BY <1>1, <1>6 DEF LineStep

\* pollEvents takes the front of the pipe and leaves the rest in it.
LEMMA ReadEventsKeeps ==
    ASSUME TypeOK, ReadEvents
    PROVE  delivered' \o pipe' = delivered \o pipe
<1> DEFINE room == PollCount - nbEvents
           n == IF Len(pipe) < room THEN Len(pipe) ELSE room
           a == SubSeq(pipe, 1, n)
           b == SubSeq(pipe, n + 1, Len(pipe))
<1>1. delivered' = delivered \o a /\ pipe' = b
    BY DEF ReadEvents
<1>2. /\ pipe \in Seq(Event) /\ delivered \in Seq(Event) /\ Len(pipe) \in Nat
      /\ nbEvents \in 0 .. PollCount /\ PollCount \in Nat
      /\ \A i \in 1 .. Len(pipe) : pipe[i] \in Event
    BY LenProperties, ElementOfSeq, BoundsAssumption DEF TypeOK
<1>3. n \in 0 .. Len(pipe)
    BY <1>2
<1> HIDE DEF n
<1>4. a \in Seq(Event) /\ b \in Seq(Event)
    <2>1. /\ 1 \in Int /\ n \in Int /\ n + 1 \in Int /\ Len(pipe) \in Int
          /\ \A i \in 1 .. n : pipe[i] \in Event
          /\ \A i \in n + 1 .. Len(pipe) : pipe[i] \in Event
        BY <1>2, <1>3
    <2> QED BY <2>1, SubSeqProperties
<1>5. a \o b = pipe
    <2>1. /\ 1 \in 1 .. Len(pipe) + 1 /\ n \in 1 - 1 .. Len(pipe)
          /\ Len(pipe) \in n .. Len(pipe)
        BY <1>2, <1>3
    <2>2. SubSeq(pipe, 1, n) \o SubSeq(pipe, n + 1, Len(pipe))
            = SubSeq(pipe, 1, Len(pipe))
        BY <1>2, <2>1, ConcatAdjacentSubSeq
    <2> QED BY <1>2, <2>2, SubSeqFull
<1> HIDE DEF a, b
<1>6. (delivered \o a) \o b = delivered \o (a \o b)
    <2>1. Regroups(delivered, a, b)
        BY <1>2, <1>4, Regrouped
    <2> QED BY <2>1 DEF Regroups
<1> QED BY <1>1, <1>5, <1>6

LEMMA ReadEventsLine ==
    ASSUME TypeOK, TypeOK', ReadEvents, NEW s \in Sensor
    PROVE  LineStep(s)
<1> DEFINE T == SamplesOf(s)
<1> USE DEF driverVars, hwVars, sdVars, flushVars, readerVars
<1>1. UNCHANGED <<batch, arr[s], sdList[s], shmem, hwList[s], evdev[s], lost>>
    BY DEF ReadEvents
<1>2. Loses(T, delivered \o pipe, delivered' \o pipe', {})
    BY ReadEventsKeeps, LosesNothing
<1>3. Loses(T, Line(s), Line(s)', {})
    BY <1>1, <1>2, LineSteps
<1> QED BY <1>1, <1>3 DEF LineStep

-----------------------------------------------------------------------------
(* The invariant.                                                          *)

\* The samples device s has emitted.
Taken(s) == {Sample(s, n) : n \in 1 .. made[s]}

\* The line of s is in order and is what was emitted and is not lost.
LineInv ==
    \A s \in Sensor :
        /\ Ascending(SamplesOf(s), Line(s))
        /\ Range(Line(s)) \cap SamplesOf(s) = Taken(s) \ lost
        /\ lost \cap SamplesOf(s) \subseteq Taken(s)

LEMMA TakenTypes ==
    ASSUME TypeOK, NEW s \in Sensor
    PROVE  /\ Taken(s) \subseteq SamplesOf(s)
           /\ \A x \in Taken(s) : x.seq <= made[s]
<1>1. made[s] \in 0 .. MaxSamples /\ MaxSamples \in Nat
    BY BoundsAssumption DEF TypeOK
<1>2. \A n \in 1 .. made[s] : n \in 0 .. MaxSamples /\ n <= made[s]
    BY <1>1
<1>3. \A n \in 1 .. made[s] : Sample(s, n) \in SamplesOf(s)
    BY <1>2, EventTypes
<1>4. \A n : Sample(s, n).seq = n
    BY DEF Sample
<1> QED BY <1>2, <1>3, <1>4 DEF Taken

\* A step in which the line loses what is recorded as lost keeps the account.
LEMMA AccountKept ==
    ASSUME TypeOK, LineInv, UNCHANGED made, \A s \in Sensor : LineStep(s)
    PROVE  LineInv'
<1> SUFFICES ASSUME NEW s \in Sensor
             PROVE  /\ Ascending(SamplesOf(s), Line(s)')
                    /\ Range(Line(s)') \cap SamplesOf(s) = Taken(s)' \ lost'
                    /\ lost' \cap SamplesOf(s) \subseteq Taken(s)'
    BY DEF LineInv
<1>1. PICK D : /\ Loses(SamplesOf(s), Line(s), Line(s)', D)
               /\ lost' \cap SamplesOf(s) = (lost \cup D) \cap SamplesOf(s)
    BY DEF LineStep
<1>2. /\ Ascending(SamplesOf(s), Line(s))
      /\ Range(Line(s)) \cap SamplesOf(s) = Taken(s) \ lost
      /\ lost \cap SamplesOf(s) \subseteq Taken(s)
    BY DEF LineInv
<1>3. /\ Ascending(SamplesOf(s), Line(s)')
      /\ Range(Line(s)') \cap SamplesOf(s)
            = (Range(Line(s)) \cap SamplesOf(s)) \ D
      /\ D \cap SamplesOf(s) \subseteq Range(Line(s))
    BY <1>1, <1>2 DEF Loses
<1>4. Taken(s)' = Taken(s) /\ Taken(s) \subseteq SamplesOf(s)
    BY TakenTypes DEF Taken
<1>5. Range(Line(s)') \cap SamplesOf(s) = Taken(s)' \ lost'
    BY <1>1, <1>2, <1>3, <1>4
<1>6. lost' \cap SamplesOf(s) \subseteq Taken(s)'
    BY <1>1, <1>2, <1>3, <1>4
<1> QED BY <1>3, <1>5, <1>6

\* A new sample is younger than all others of its device.
LEMMA ProduceKeepsLine ==
    ASSUME TypeOK, TypeOK', LineInv, NEW r \in Sensor, Produce(r)
    PROVE  LineInv'
<1> USE DEF driverVars, hwVars, sdVars, flushVars, readerVars
<1> SUFFICES ASSUME NEW s \in Sensor
             PROVE  /\ Ascending(SamplesOf(s), Line(s)')
                    /\ Range(Line(s)') \cap SamplesOf(s) = Taken(s)' \ lost'
                    /\ lost' \cap SamplesOf(s) \subseteq Taken(s)'
    BY DEF LineInv
<1>1. /\ Ascending(SamplesOf(s), Line(s))
      /\ Range(Line(s)) \cap SamplesOf(s) = Taken(s) \ lost
      /\ lost \cap SamplesOf(s) \subseteq Taken(s)
    BY DEF LineInv
<1>2. /\ UNCHANGED <<delivered, pipe, batch, arr, sdList, shmem, hwList, lost>>
      /\ made[r] \in 0 .. MaxSamples /\ made[r] < MaxSamples
      /\ MaxSamples \in Nat
    BY BoundsAssumption DEF Produce, TypeOK
<1>3. CASE s # r
    <2>1. evdev'[s] = evdev[s] /\ made'[s] = made[s]
        BY <1>3 DEF Produce, TypeOK, PerSensor
    <2>2. Line(s)' = Line(s) /\ Taken(s)' = Taken(s)
        BY <1>2, <2>1 DEF Line, Taken
    <2> QED BY <1>1, <1>2, <2>2
<1>4. CASE s = r
    <2> DEFINE x == Sample(s, made[s] + 1)
               T == SamplesOf(s)
               front == delivered \o pipe \o batch \o arr[s] \o sdList[s]
                        \o shmem \o hwList[s]
    <2>1. x \in T /\ x \in Event /\ x.seq = made[s] + 1
        <3>1. made[s] + 1 \in 0 .. MaxSamples
            BY <1>2, <1>4
        <3> QED BY <3>1, EventTypes DEF Sample
    <2>2. made'[s] = made[s] + 1 /\ evdev'[s] = Append(evdev[s], x)
        BY <1>4 DEF Produce, TypeOK, PerSensor
    <2>3. /\ Line(s) \in Seq(Event) /\ evdev[s] \in Seq(Event)
          /\ << x >> \in Seq(Event)
        BY <2>1, LineTypes
    <2>4. front \in Seq(Event)
        BY LineTypes, ConcatProperties
    <2>5. Line(s)' = Line(s) \o << x >>
        <3>1. Line(s)' = front \o Append(evdev[s], x) /\ Line(s) = front \o evdev[s]
            BY <1>2, <2>2 DEF Line
        <3>2. Append(evdev[s], x) = evdev[s] \o << x >>
            BY <2>1, <2>3, AppendIsConcat
        <3> DEFINE u == << x >>
                   v == evdev[s]
        <3>3. front \in Seq(Event) /\ v \in Seq(Event) /\ u \in Seq(Event)
            BY <2>3, <2>4
        <3> HIDE DEF front, u, v
        <3>4. (front \o v) \o u = front \o (v \o u)
            <4>1. Regroups(front, v, u)
                BY <3>3, Regrouped
            <4> QED BY <4>1 DEF Regroups
        <3> QED BY <3>1, <3>2, <3>4 DEF u, v
    <2>6. Range(<< x >>) = {x}
        <3>1. Range(<< x >>) = {<< x >>[i] : i \in 1 .. Len(<< x >>)}
            BY <2>3, RangeEquality
        <3> QED BY <3>1
    <2>7. Range(Line(s)') = Range(Line(s)) \cup {x}
        <3> DEFINE u == << x >>
                   l == Line(s)
        <3>1. l \in Seq(Event) /\ u \in Seq(Event)
            BY <2>3
        <3> HIDE DEF u, l
        <3>2. Range(l \o u) = Range(l) \cup Range(u)
            BY <3>1, RangeConcatenation
        <3> QED BY <2>5, <2>6, <3>2 DEF u, l
    <2>8. Taken(s)' = Taken(s) \cup {x} /\ x \notin Taken(s)
        <3>1. 1 .. made'[s] = (1 .. made[s]) \cup {made[s] + 1}
            BY <1>2, <1>4, <2>2
        <3>2. \A y \in Taken(s) : y.seq <= made[s]
            BY TakenTypes
        <3>3. made[s] \in Nat
            BY <1>2, <1>4
        <3> QED BY <2>1, <3>1, <3>2, <3>3 DEF Taken
    <2>9. Older(T, Range(Line(s)), Range(<< x >>))
        <3>1. \A y \in Taken(s) : y.seq <= made[s] /\ y.seq \in Nat
            BY TakenTypes, SamplesNumbered DEF Numbered
        <3>2. \A y \in Taken(s) : y.seq < x.seq
            BY <1>2, <1>4, <2>1, <3>1
        <3> QED BY <1>1, <2>6, <3>2 DEF Older
    <2>10. Ascending(T, << x >>)
        <3>1. DOMAIN << x >> = {1}
            OBVIOUS
        <3> QED BY <3>1 DEF Ascending
    <2>11. Ascending(T, Line(s)')
        <3> DEFINE u == << x >>
                   l == Line(s)
        <3>1. l \in Seq(Event) /\ u \in Seq(Event) /\ Ascending(T, l)
            BY <1>1, <2>3
        <3>2. Older(T, Range(l), Range(u)) /\ Ascending(T, u)
            BY <2>9, <2>10
        <3> HIDE DEF u, l, T
        <3>3. Ascending(T, l \o u)
            BY <3>1, <3>2, AscendingConcat
        <3> QED BY <2>5, <3>3 DEF u, l
    <2> HIDE DEF x, T
    <2>12. x \notin lost
        BY <1>1, <2>1, <2>8 DEF T
    <2> QED BY <1>1, <1>2, <2>1, <2>7, <2>8, <2>11, <2>12 DEF T
<1> QED BY <1>3, <1>4

LEMMA TypeStep == TypeOK /\ [Next]_vars => TypeOK'
<1>1. TypeOK /\ UNCHANGED vars => TypeOK'
    BY DEF TypeOK, vars, driverVars, hwVars, sdVars, flushVars, readerVars
<1> QED BY <1>1, HwcntlTypes, SensordTypes, FrameworkTypes DEF Next

LEMMA IdleStep ==
    /\ Init => Idle
    /\ Idle /\ [Next]_vars => Idle'
<1> USE DEF Idle, driverVars, hwVars, sdVars, flushVars, readerVars
<1>1. Init => Idle
    BY DEF Init
<1>2. SUFFICES ASSUME Idle, [Next]_vars PROVE Idle'
    BY <1>1
<1>3. ASSUME NEW s \in Sensor, Produce(s) PROVE Idle'
    BY <1>2, <1>3 DEF Produce
<1>4. ASSUME NEW s \in Sensor, Flush(s) PROVE Idle'
    <2>1. flushing' = << FlushEvent(s, made[s]) >> /\ UNCHANGED <<sdPc, arr>>
        BY <1>4 DEF Flush
    <2>2. \A i \in DOMAIN flushing' : flushing'[i] = FlushEvent(s, made[s])
        BY <2>1
    <2> QED BY <1>2, <2>1, <2>2 DEF FlushEvent
<1>5. CASE Hwcntl
    <2>1. CASE PollDevices \/ SkipPublish \/ HwLock \/ HwUnlock
        BY <1>2, <2>1 DEF PollDevices, SkipPublish, HwLock, HwUnlock
    <2>2. CASE Signal
        BY <1>2, <2>2 DEF Signal
    <2>3. ASSUME NEW s \in Sensor, ReadSample(s) \/ EndRead(s) \/ Mount(s)
          PROVE  Idle'
        BY <1>2, <2>3 DEF ReadSample, EndRead, Mount
    <2> QED BY <1>5, <2>1, <2>2, <2>3 DEF Hwcntl
<1>6. CASE Sensord \/ SpuriousWakeup
    <2>1. CASE SdLock \/ SdTest \/ SdWait \/ SdRelock \/ SdUnlock
        BY <1>2, <2>1 DEF SdLock, SdTest, SdWait, SdRelock, SdUnlock
    <2>2. CASE Drain \/ SpuriousWakeup
        BY <1>2, <2>2 DEF Drain, SpuriousWakeup
    <2>3. CASE LoadNothing \/ Load \/ LoadFailsGyro \/ LoadFailsAlign
        BY <1>2, <2>3 DEF LoadNothing, Load, LoadFailsGyro, LoadFailsAlign
    <2>4. CASE SortSlot \/ SortDone \/ Deliver \/ DeliverFails \/ DeliverDone
        BY <1>2, <2>4 DEF SortSlot, SortDone, Deliver, DeliverFails,
                          DeliverDone
    <2> QED BY <1>6, <2>1, <2>2, <2>3, <2>4 DEF Sensord
<1>7. CASE FlushStep \/ Reader
    <2>1. \A i \in DOMAIN << >> : << >>[i].kind = "flush"
        OBVIOUS
    <2> QED BY <1>2, <1>7, <2>1 DEF FlushStep, SendFlushEvent, SendFlushFails,
                Reader, PollEvents, PollReady, PollTimeout, ReadEvents
<1>8. CASE UNCHANGED vars
    BY <1>2, <1>8 DEF vars
<1> QED BY <1>2, <1>3, <1>4, <1>5, <1>6, <1>7, <1>8 DEF Next

LEMMA InitLine == Init => LineInv
<1> SUFFICES ASSUME Init, NEW s \in Sensor
             PROVE  /\ Ascending(SamplesOf(s), Line(s))
                    /\ Range(Line(s)) \cap SamplesOf(s) = Taken(s) \ lost
                    /\ lost \cap SamplesOf(s) \subseteq Taken(s)
    BY DEF LineInv
<1>1. << >> \in Seq(Event) /\ << >> \o << >> = << >>
    BY EmptySeq, ConcatEmptySeq
<1>2. Line(s) = << >>
    <2>1. /\ delivered = << >> /\ pipe = << >> /\ batch = << >> /\ shmem = << >>
          /\ arr[s] = << >> /\ sdList[s] = << >> /\ hwList[s] = << >>
          /\ evdev[s] = << >>
        BY PerSensorQueues DEF Init
    <2> QED BY <1>1, <2>1, Zenon DEF Line
<1>3. /\ DOMAIN Line(s) = {} /\ Range(Line(s)) = {}
    <2>1. Range(<< >>) = {<< >>[i] : i \in 1 .. Len(<< >>)}
        BY <1>1, RangeEquality
    <2>2. Len(<< >>) = 0 /\ 1 .. 0 = {} /\ DOMAIN << >> = {}
        OBVIOUS
    <2> QED BY <1>2, <2>1, <2>2
<1>4. Taken(s) = {}
    <2>1. made[s] = 0
        BY DEF Init
    <2>2. 1 .. 0 = {}
        OBVIOUS
    <2> QED BY <2>1, <2>2 DEF Taken
<1> QED BY <1>3, <1>4 DEF Init, Ascending

LEMMA LineInvStep ==
    ASSUME TypeOK, Idle, LineInv, [Next]_vars
    PROVE  LineInv'
<1> USE DEF driverVars, hwVars, sdVars, flushVars, readerVars
<1>1. TypeOK'
    BY TypeStep
<1>2. ASSUME NEW r \in Sensor, Produce(r) PROVE LineInv'
    BY <1>1, <1>2, ProduceKeepsLine
<1>3. CASE UNCHANGED made /\ \A s \in Sensor : LineStep(s)
    BY <1>3, AccountKept
<1>4. CASE UNCHANGED <<made, evdev, hwList, shmem, sdList, arr, batch, pipe,
                       delivered, lost>>
    BY <1>3, <1>4, LineUntouched
<1>5. CASE Hwcntl
    <2>1. CASE PollDevices \/ SkipPublish \/ HwLock \/ Signal \/ HwUnlock
        BY <1>4, <2>1 DEF PollDevices, SkipPublish, HwLock, Signal, HwUnlock
    <2>2. ASSUME NEW r \in Sensor, ReadSample(r) PROVE LineInv'
        BY <1>1, <1>3, <2>2, ReadLine DEF ReadSample
    <2>3. ASSUME NEW r \in Sensor, EndRead(r) PROVE LineInv'
        BY <1>4, <2>3 DEF EndRead
    <2>4. ASSUME NEW r \in Sensor, Mount(r) PROVE LineInv'
        BY <1>1, <1>3, <2>4, MountLine DEF Mount
    <2> QED BY <1>5, <2>1, <2>2, <2>3, <2>4 DEF Hwcntl
<1>6. CASE Sensord \/ SpuriousWakeup
    <2>1. CASE SdLock \/ SdTest \/ SdWait \/ SdRelock \/ SdUnlock
               \/ SpuriousWakeup
        BY <1>4, <2>1 DEF SdLock, SdTest, SdWait, SdRelock, SdUnlock,
                          SpuriousWakeup
    <2>2. CASE LoadNothing \/ SortDone \/ DeliverDone
        BY <1>4, <2>2 DEF LoadNothing, SortDone, DeliverDone
    <2>3. CASE Drain
        BY <1>1, <1>3, <2>3, DrainLine DEF Drain
    <2>4. CASE Load \/ LoadFailsGyro \/ LoadFailsAlign
        BY <1>1, <1>3, <2>4, LoadLine DEF Load, LoadFailsGyro, LoadFailsAlign
    <2>5. CASE SortSlot
        BY <1>1, <1>3, <2>5, SortLine DEF SortSlot
    <2>6. CASE Deliver \/ DeliverFails
        BY <1>1, <1>3, <2>6, DeliverLine DEF Deliver, DeliverFails
    <2> QED BY <1>6, <2>1, <2>2, <2>3, <2>4, <2>5, <2>6 DEF Sensord
<1>7. ASSUME NEW r \in Sensor, Flush(r) PROVE LineInv'
    BY <1>4, <1>7 DEF Flush
<1>8. CASE SendFlushEvent
    BY <1>1, <1>3, <1>8, SendFlushLine DEF SendFlushEvent
<1>9. CASE ReadEvents
    BY <1>1, <1>3, <1>9, ReadEventsLine DEF ReadEvents
<1>10. CASE SendFlushFails \/ PollEvents \/ PollReady \/ PollTimeout
    BY <1>4, <1>10 DEF SendFlushFails, PollEvents, PollReady, PollTimeout
<1>11. CASE UNCHANGED vars
    BY <1>4, <1>11 DEF vars
<1> QED BY <1>2, <1>5, <1>6, <1>7, <1>8, <1>9, <1>10, <1>11
        DEF Next, FlushStep, Reader

OrderInv == TypeOK /\ Idle /\ LineInv

LEMMA OrderInvAlways == Spec => []OrderInv
<1>1. Init => OrderInv
    BY InitTypes, IdleStep, InitLine DEF OrderInv
<1>2. OrderInv /\ [Next]_vars => OrderInv'
    BY TypeStep, IdleStep, LineInvStep DEF OrderInv
<1> QED BY <1>1, <1>2, PTL DEF Spec

\* The samples of one sensor never overtake each other, through three lists,
\* two threads, the merge of the sensors and the pipe.
THEOREM PathInOrder == Spec => []InOrder
<1>1. OrderInv => InOrder
    BY DEF OrderInv, LineInv, Ascending, InOrder
<1> QED BY <1>1, OrderInvAlways, PTL

\* Every sample a device emitted is either lost or in exactly one place.
THEOREM PathAccounts == Spec => []SampleAccounting
<1>1. ASSUME OrderInv, NEW s \in Sensor, NEW n \in 1 .. made[s]
      PROVE  LET x == Sample(s, n)
                 places == {i \in DOMAIN Line(s) : Line(s)[i] = x}
             IN  Cardinality(places) = IF x \in lost THEN 0 ELSE 1
    <2> DEFINE x == Sample(s, n)
               places == {i \in DOMAIN Line(s) : Line(s)[i] = x}
    <2>1. TypeOK /\ LineInv
        BY <1>1 DEF OrderInv
    <2>2. x \in Taken(s) /\ x \in SamplesOf(s) /\ x.seq \in Nat
        BY <2>1, TakenTypes, SamplesNumbered DEF Taken, Numbered
    <2>3. /\ Ascending(SamplesOf(s), Line(s))
          /\ Range(Line(s)) \cap SamplesOf(s) = Taken(s) \ lost
        BY <2>1 DEF LineInv
    <2>4. /\ DOMAIN Line(s) = 1 .. Len(Line(s)) /\ Len(Line(s)) \in Nat
          /\ Range(Line(s)) = {Line(s)[i] : i \in 1 .. Len(Line(s))}
        BY <2>1, LineTypes, LenProperties, RangeEquality
    <2> HIDE DEF x
    <2>5. CASE x \in lost
        <3>1. places = {}
            BY <2>2, <2>3, <2>4, <2>5
        <3> QED BY <2>5, <3>1, FS_EmptySet DEF x
    <2>6. CASE x \notin lost
        <3>1. PICK i \in DOMAIN Line(s) : Line(s)[i] = x
            BY <2>2, <2>3, <2>4, <2>6
        <3>2. ASSUME NEW j \in DOMAIN Line(s), Line(s)[j] = x PROVE j = i
            <4>1. i < j \/ j < i => x.seq < x.seq
                BY <2>2, <2>3, <3>1, <3>2 DEF Ascending
            <4> QED BY <2>2, <2>4, <3>1, <3>2, <4>1
        <3>3. places = {i}
            BY <3>1, <3>2
        <3> HIDE DEF places
        <3>4. Cardinality(places) = 1
            BY <3>3, FS_Singleton
        <3> QED BY <2>6, <3>4 DEF x, places
    <2> QED BY <2>5, <2>6
<1>2. OrderInv => SampleAccounting
    BY <1>1 DEF SampleAccounting
<1> QED BY <1>2, OrderInvAlways, PTL

-----------------------------------------------------------------------------
(* The merge of the sensors.                                               *)

\* x may be delivered before y.
Precedes(x, y) ==
    \/ StampOf(x) < StampOf(y)
    \/ StampOf(x) = StampOf(y) /\ x.sensor = Acc /\ y.sensor = Gyro

Merged(q) == \A i, j \in DOMAIN q : i < j => Precedes(q[i], q[j])

GyroStamped == \A n \in 1 .. MaxSamples : Stamp[Gyro][n] # 0

\* Between two rounds the batch is empty; within one, all that is still to be
\* sorted is younger than what has been.
MergeInv ==
    /\ sdPc \notin {"sort", "deliver"} => batch = << >>
    /\ GyroStamped =>
        /\ Merged(batch)
        /\ \A s \in Sensor : \A x \in Range(batch) : \A y \in Range(arr[s]) :
                StampOf(x) < StampOf(y)

LEMMA MergedConcat ==
    ASSUME NEW S, NEW p \in Seq(S), NEW q \in Seq(S), Merged(p), Merged(q),
           \A x \in Range(p) : \A y \in Range(q) : Precedes(x, y)
    PROVE  Merged(p \o q)
<1> DEFINE pq == p \o q
<1>1. /\ Len(p) \in Nat /\ Len(q) \in Nat
      /\ \A i \in 1 .. Len(p) + Len(q) : pq[i] =
                IF i <= Len(p) THEN p[i] ELSE q[i - Len(p)]
      /\ DOMAIN pq = 1 .. Len(p) + Len(q)
      /\ DOMAIN p = 1 .. Len(p) /\ DOMAIN q = 1 .. Len(q)
    BY ConcatProperties, LenProperties
<1>2. /\ Range(p) = {p[i] : i \in 1 .. Len(p)}
      /\ Range(q) = {q[i] : i \in 1 .. Len(q)}
    BY RangeEquality
<1> HIDE DEF pq
<1> SUFFICES ASSUME NEW i \in 1 .. Len(p) + Len(q),
                    NEW j \in 1 .. Len(p) + Len(q), i < j
             PROVE  Precedes(pq[i], pq[j])
    BY <1>1 DEF Merged, pq
<1>3. CASE j <= Len(p)
    <2>1. /\ i \in 1 .. Len(p) /\ j \in 1 .. Len(p)
          /\ pq[i] = p[i] /\ pq[j] = p[j]
        BY <1>1, <1>3
    <2> QED BY <1>1, <2>1 DEF Merged
<1>4. CASE i <= Len(p) /\ j > Len(p)
    <2>1. /\ i \in 1 .. Len(p) /\ j - Len(p) \in 1 .. Len(q)
          /\ pq[i] = p[i] /\ pq[j] = q[j - Len(p)]
        BY <1>1, <1>4
    <2> QED BY <1>2, <2>1
<1>5. CASE i > Len(p)
    <2>1. /\ i - Len(p) \in 1 .. Len(q) /\ j - Len(p) \in 1 .. Len(q)
          /\ i - Len(p) < j - Len(p)
          /\ pq[i] = q[i - Len(p)] /\ pq[j] = q[j - Len(p)]
        BY <1>1, <1>5
    <2> QED BY <1>1, <2>1 DEF Merged
<1> QED BY <1>1, <1>3, <1>4, <1>5

LEMMA MergedTail ==
    ASSUME NEW S, NEW q \in Seq(S), q # << >>, Merged(q)
    PROVE  Merged(Tail(q)) /\ Range(Tail(q)) \subseteq Range(q)
<1>1. /\ Tail(q) \in Seq(S) /\ Len(Tail(q)) = Len(q) - 1
      /\ \A i \in 1 .. Len(Tail(q)) : Tail(q)[i] = q[i + 1]
      /\ Len(q) \in Nat \ {0} /\ DOMAIN q = 1 .. Len(q)
    BY HeadTailProperties, EmptySeq, LenProperties
<1>2. DOMAIN Tail(q) = 1 .. Len(q) - 1
    BY <1>1, LenProperties
<1>3. Merged(Tail(q))
    <2> SUFFICES ASSUME NEW i \in 1 .. Len(q) - 1, NEW j \in 1 .. Len(q) - 1,
                        i < j
                 PROVE  Precedes(Tail(q)[i], Tail(q)[j])
        BY <1>2 DEF Merged
    <2>1. i + 1 \in 1 .. Len(q) /\ j + 1 \in 1 .. Len(q) /\ i + 1 < j + 1
        BY <1>1
    <2> QED BY <1>1, <2>1 DEF Merged
<1>4. Range(Tail(q)) \subseteq Range(q)
    <2> DEFINE h == << Head(q) >>
               t == Tail(q)
    <2>1. h \in Seq(S) /\ t \in Seq(S) /\ q = h \o t
        BY HeadAndTail
    <2> HIDE DEF h, t
    <2>2. Range(h \o t) = Range(h) \cup Range(t)
        BY <2>1, RangeConcatenation
    <2> QED BY <2>1, <2>2 DEF t
<1> QED BY <1>3, <1>4

LEMMA ConcatParts ==
    ASSUME NEW S, NEW T, NEW p \in Seq(S), NEW q \in Seq(S),
           Ascending(T, p \o q)
    PROVE  /\ Ascending(T, p) /\ Ascending(T, q) /\ Older(T, Range(p), Range(q))
           /\ Range(p \o q) = Range(p) \cup Range(q)
BY AscendingConcat, RangeConcatenation

\* The samples in a queue of the line are numbered by their device, and
\* those in the arrays are in the order of their stamps.
LEMMA ArraysAscend ==
    ASSUME OrderInv, NEW s \in Sensor
    PROVE  /\ \A x \in Range(arr[s]) : StampOf(x) \in Nat /\ x.sensor = s
           /\ arr[s] # << >> =>
                /\ Head(arr[s]) \in Range(arr[s])
                /\ Range(arr[s]) = {Head(arr[s])} \cup Range(Tail(arr[s]))
                /\ \A x \in Range(Tail(arr[s])) :
                        StampOf(Head(arr[s])) < StampOf(x)
           /\ s = Gyro /\ GyroStamped =>
                \A x \in Range(arr[s]) : StampOf(x) # 0
<1> DEFINE T == SamplesOf(s)
           e3 == delivered \o pipe \o batch
           e4 == e3 \o arr[s]
           e5 == e4 \o sdList[s]
           e6 == e5 \o shmem
           e7 == e6 \o hwList[s]
<1>1. /\ TypeOK /\ Numbered(T) /\ Ascending(T, Line(s))
      /\ Range(Line(s)) \cap T = Taken(s) \ lost
    BY SamplesNumbered DEF OrderInv, LineInv
<1>2. /\ e3 \in Seq(Event) /\ arr[s] \in Seq(Event) /\ sdList[s] \in Seq(Event)
      /\ shmem \in Seq(Event) /\ hwList[s] \in Seq(Event)
      /\ evdev[s] \in Seq(Event)
    BY <1>1, LineTypes, ConcatProperties
<1>3. e4 \in Seq(Event) /\ e5 \in Seq(Event) /\ e6 \in Seq(Event)
      /\ e7 \in Seq(Event)
    <2> HIDE DEF e3
    <2> QED BY <1>2, ConcatProperties
<1>4. Line(s) = e7 \o evdev[s]
    BY DEF Line
<1>5. Ascending(T, e7) /\ Range(e7) \subseteq Range(Line(s))
    <2> HIDE DEF e7
    <2> QED BY <1>1, <1>2, <1>3, <1>4, AscendingConcat, RangeConcatenation
<1>6. Ascending(T, e6) /\ Range(e6) \subseteq Range(Line(s))
    <2> HIDE DEF e6
    <2> QED BY <1>2, <1>3, <1>5, AscendingConcat, RangeConcatenation
<1>7. Ascending(T, e5) /\ Range(e5) \subseteq Range(Line(s))
    <2> HIDE DEF e5
    <2> QED BY <1>2, <1>3, <1>6, AscendingConcat, RangeConcatenation
<1>8. Ascending(T, e4) /\ Range(e4) \subseteq Range(Line(s))
    <2> HIDE DEF e4
    <2> QED BY <1>2, <1>3, <1>7, AscendingConcat, RangeConcatenation
<1>9. Ascending(T, arr[s]) /\ Range(arr[s]) \subseteq Range(Line(s))
    <2> DEFINE a == arr[s]
    <2>1. e3 \in Seq(Event) /\ a \in Seq(Event) /\ Ascending(T, e3 \o a)
        BY <1>2, <1>8
    <2> HIDE DEF e3, a
    <2>3. Ascending(T, a)
        BY <2>1, ConcatParts
    <2>4. Range(e3 \o a) = Range(e3) \cup Range(a)
        BY <2>1, RangeConcatenation
    <2>2. Ascending(T, a) /\ Range(a) \subseteq Range(e3 \o a)
        BY <2>3, <2>4
    <2> QED BY <1>8, <2>2 DEF a
<1>10. Range(arr[s]) \subseteq T /\ arr[s] \in Seq(T)
    <2>1. arr[s] \in Seq(T)
        BY <1>1, PerSensorQueues DEF TypeOK
    <2> QED BY <2>1, RangeOfSeq
<1>11. \A x \in Range(arr[s]) : x \in Taken(s)
    BY <1>1, <1>9, <1>10
<1>12. made[s] \in 0 .. MaxSamples /\ MaxSamples \in Nat
    BY <1>1, BoundsAssumption DEF TypeOK
<1>13. ASSUME NEW x \in Range(arr[s])
       PROVE  x.sensor = s /\ x.seq \in 1 .. MaxSamples
    <2>1. PICK n \in 1 .. made[s] : x = Sample(s, n)
        BY <1>11, <1>13 DEF Taken
    <2> QED BY <1>12, <2>1 DEF Sample
<1>14. ASSUME NEW x \in Range(arr[s])
       PROVE  StampOf(x) \in Nat
    BY <1>13, StampAssumption DEF StampOf
<1>15. ASSUME arr[s] # << >>
       PROVE  /\ Head(arr[s]) \in Range(arr[s])
              /\ Range(arr[s]) = {Head(arr[s])} \cup Range(Tail(arr[s]))
              /\ \A x \in Range(Tail(arr[s])) :
                        StampOf(Head(arr[s])) < StampOf(x)
    <2> DEFINE h == << Head(arr[s]) >>
               t == Tail(arr[s])
    <2>1. /\ h \in Seq(Event) /\ t \in Seq(Event) /\ arr[s] = h \o t
          /\ Range(h) = {Head(arr[s])} /\ Ascending(T, h \o t)
        BY <1>2, <1>9, <1>15, HeadAndTail
    <2> HIDE DEF h, t
    <2>6. h \in Seq(Event) /\ t \in Seq(Event)
        BY <2>1
    <2>4. Range(h \o t) = Range(h) \cup Range(t)
        BY <2>6, RangeConcatenation
    <2>5. Older(T, Range(h), Range(t))
        BY <2>1, ConcatParts
    <2>2. /\ Range(arr[s]) = Range(h) \cup Range(t)
          /\ Older(T, Range(h), Range(t))
        BY <2>1, <2>4, <2>5
    <2>3. ASSUME NEW x \in Range(t)
          PROVE  StampOf(Head(arr[s])) < StampOf(x)
        <3>1. Head(arr[s]) \in T /\ x \in T
            BY <1>10, <2>1, <2>2
        <3>2. Head(arr[s]).seq < x.seq
            BY <2>1, <2>2, <3>1 DEF Older
        <3>3. /\ Head(arr[s]).seq \in 1 .. MaxSamples /\ x.seq \in 1 .. MaxSamples
              /\ Head(arr[s]).sensor = s /\ x.sensor = s
            BY <1>13, <2>1, <2>2
        <3> QED BY <3>2, <3>3, StampAssumption DEF StampOf
    <2> QED BY <2>1, <2>2, <2>3 DEF t
<1>16. ASSUME s = Gyro, GyroStamped, NEW x \in Range(arr[s])
       PROVE  StampOf(x) # 0
    BY <1>13, <1>16 DEF StampOf, GyroStamped
<1> QED BY <1>13, <1>14, <1>15, <1>16

\* The base stamp of a slot is the least of what is left to sort.
LEMMA BaseIsLeast ==
    ASSUME OrderInv, GyroStamped, arr # Empty, NEW s \in Sensor
    PROVE  /\ BaseStamp \in Nat
           /\ arr[s] # << >> => BaseStamp <= StampOf(Head(arr[s]))
<1> DEFINE a == StampOf(Head(arr[Acc]))
           g == StampOf(Head(arr[Gyro]))
<1>1. Acc \in Sensor /\ Gyro \in Sensor /\ (s = Acc \/ s = Gyro)
    BY DEF Sensor
<1>2. arr[Acc] # << >> => a \in Nat
    BY <1>1, ArraysAscend
<1>3. arr[Gyro] # << >> => g \in Nat /\ g # 0
    BY <1>1, ArraysAscend
<1>4. arr[Acc] # << >> \/ arr[Gyro] # << >>
    <2>1. arr \in [Sensor -> Seq(SampleSet)]
        BY DEF OrderInv, TypeOK, PerSensor
    <2> QED BY <2>1 DEF Sensor, Empty
<1>5. BaseStamp = IF arr[Acc] = << >>
                       \/ ((IF arr[Gyro] = << >> THEN 0 ELSE g) # 0
                            /\ (IF arr[Gyro] = << >> THEN 0 ELSE g) <= a)
                  THEN IF arr[Gyro] = << >> THEN 0 ELSE g
                  ELSE a
    BY DEF BaseStamp
<1> HIDE DEF a, g
<1>6. /\ BaseStamp \in Nat
      /\ arr[Acc] # << >> => BaseStamp <= a
      /\ arr[Gyro] # << >> => BaseStamp <= g
    BY <1>2, <1>3, <1>4, <1>5
<1> QED BY <1>1, <1>6 DEF a, g

\* What goes into a slot has the base stamp, what stays is younger.
LEMMA SlotSplits ==
    ASSUME OrderInv, GyroStamped, arr # Empty, NEW s \in Sensor
    PROVE  LET rest == IF SlotOf(s) = << >> THEN arr[s] ELSE Tail(arr[s])
           IN  /\ \A x \in Range(SlotOf(s)) :
                    /\ x \in Range(arr[s]) /\ StampOf(x) = BaseStamp
                    /\ x.sensor = s
               /\ \A y \in Range(rest) : BaseStamp < StampOf(y)
               /\ Merged(SlotOf(s))
<1>1. /\ \A x \in Range(arr[s]) : StampOf(x) \in Nat /\ x.sensor = s
      /\ arr[s] # << >> =>
            /\ Head(arr[s]) \in Range(arr[s])
            /\ Range(arr[s]) = {Head(arr[s])} \cup Range(Tail(arr[s]))
            /\ \A x \in Range(Tail(arr[s])) :
                    StampOf(Head(arr[s])) < StampOf(x)
    BY ArraysAscend
<1>2. /\ BaseStamp \in Nat
      /\ arr[s] # << >> => BaseStamp <= StampOf(Head(arr[s]))
    BY BaseIsLeast
<1>3. arr[s] \in Seq(Event)
    BY LineTypes DEF OrderInv
<1>4. Merged(<< >>) /\ Range(<< >>) = {}
    <2>1. << >> \in Seq(Event) /\ Len(<< >>) = 0 /\ DOMAIN << >> = {} /\ 1 .. 0 = {}
        BY EmptySeq
    <2>2. Range(<< >>) = {<< >>[i] : i \in 1 .. Len(<< >>)}
        BY <2>1, RangeEquality
    <2> QED BY <2>1, <2>2 DEF Merged
<1>5. CASE arr[s] # << >> /\ StampOf(Head(arr[s])) = BaseStamp
    <2>1. SlotOf(s) = << Head(arr[s]) >> /\ SlotOf(s) # << >>
        BY <1>5 DEF SlotOf
    <2>2. Range(<< Head(arr[s]) >>) = {Head(arr[s])}
        BY <1>3, <1>5, HeadAndTail
    <2>3. Merged(<< Head(arr[s]) >>)
        <3>1. DOMAIN << Head(arr[s]) >> = {1}
            OBVIOUS
        <3> QED BY <3>1 DEF Merged
    <2> QED BY <1>1, <1>5, <2>1, <2>2, <2>3
<1>6. CASE arr[s] = << >>
    <2>1. SlotOf(s) = << >>
        BY <1>6 DEF SlotOf
    <2> QED BY <1>4, <1>6, <2>1
<1>7. CASE arr[s] # << >> /\ StampOf(Head(arr[s])) # BaseStamp
    <2>1. SlotOf(s) = << >>
        BY <1>7 DEF SlotOf
    <2>2. StampOf(Head(arr[s])) \in Nat /\ BaseStamp < StampOf(Head(arr[s]))
        BY <1>1, <1>2, <1>7
    <2>3. ASSUME NEW y \in Range(arr[s]) PROVE BaseStamp < StampOf(y)
        <3>1. StampOf(y) \in Nat
            BY <1>1, <2>3
        <3>2. y = Head(arr[s]) \/ StampOf(Head(arr[s])) < StampOf(y)
            BY <1>1, <1>7, <2>3
        <3> QED BY <1>2, <2>2, <3>1, <3>2
    <2> QED BY <1>4, <2>1, <2>3
<1> QED BY <1>5, <1>6, <1>7

\* One slot of the alignment keeps the batch sorted.
LEMMA SortMerges ==
    ASSUME OrderInv, MergeInv, SortSlot
    PROVE  MergeInv'
<1> DEFINE A == SlotOf(Acc)
           G == SlotOf(Gyro)
<1>1. /\ batch' = (batch \o A) \o G /\ sdPc' = "sort" /\ arr # Empty
      /\ \A s \in Sensor : arr'[s] = IF SlotOf(s) = << >> THEN arr[s]
                                     ELSE Tail(arr[s])
    BY DEF SortSlot, AddPackage
<1> SUFFICES ASSUME GyroStamped
             PROVE  /\ Merged(batch')
                    /\ \A s \in Sensor : \A x \in Range(batch') :
                         \A y \in Range(arr'[s]) : StampOf(x) < StampOf(y)
    BY <1>1 DEF MergeInv
<1>2. Acc \in Sensor /\ Gyro \in Sensor /\ Acc # Gyro
    BY DEF Sensor, Acc, Gyro
<1>3. /\ batch \in Seq(Event) /\ A \in Seq(Event) /\ G \in Seq(Event)
      /\ batch \o A \in Seq(Event)
    <2>1. TypeOK
        BY DEF OrderInv
    <2>2. batch \in Seq(Event) /\ A \in Seq(Event) /\ G \in Seq(Event)
        BY <1>2, <2>1, SlotAndRest, LineTypes, EventTypes
    <2> QED BY <2>2, ConcatProperties
<1>4. /\ Merged(batch)
      /\ \A s \in Sensor : \A x \in Range(batch) : \A y \in Range(arr[s]) :
            StampOf(x) < StampOf(y)
    BY DEF MergeInv
<1>5. /\ \A s \in Sensor : \A x \in Range(SlotOf(s)) :
            x \in Range(arr[s]) /\ StampOf(x) = BaseStamp /\ x.sensor = s
      /\ \A s \in Sensor : \A y \in Range(arr'[s]) :
            y \in Range(arr[s]) /\ BaseStamp < StampOf(y)
      /\ Merged(A) /\ Merged(G)
    <2>1. ASSUME NEW s \in Sensor
          PROVE  /\ \A x \in Range(SlotOf(s)) :
                        /\ x \in Range(arr[s]) /\ StampOf(x) = BaseStamp
                        /\ x.sensor = s
                 /\ \A y \in Range(arr'[s]) : BaseStamp < StampOf(y)
                 /\ Merged(SlotOf(s))
        BY <1>1, <2>1, SlotSplits
    <2>2. ASSUME NEW s \in Sensor
          PROVE  Range(arr'[s]) \subseteq Range(arr[s])
        <3>1. arr[s] # << >> => Range(Tail(arr[s])) \subseteq Range(arr[s])
            BY ArraysAscend
        <3>2. SlotOf(s) # << >> => arr[s] # << >>
            BY DEF SlotOf
        <3> QED BY <1>1, <3>1, <3>2
    <2> QED BY <1>2, <2>1, <2>2
<1> HIDE DEF A, G
<1>6. ASSUME NEW x \in Range(batch), NEW s \in Sensor, NEW y \in Range(SlotOf(s))
      PROVE  StampOf(x) < StampOf(y)
    BY <1>4, <1>5
<1>7. Merged(batch \o A)
    <2>1. \A x \in Range(batch) : \A y \in Range(A) : Precedes(x, y)
        BY <1>2, <1>6 DEF Precedes, A
    <2> QED BY <1>3, <1>4, <1>5, <2>1, MergedConcat
<1>8. Range(batch \o A) = Range(batch) \cup Range(A)
    BY <1>3, RangeConcatenation
<1>9. \A x \in Range(batch \o A) : \A y \in Range(G) : Precedes(x, y)
    <2>1. \A x \in Range(batch) : \A y \in Range(G) : Precedes(x, y)
        BY <1>2, <1>6 DEF Precedes, G
    <2>2. \A x \in Range(A) : \A y \in Range(G) : Precedes(x, y)
        BY <1>2, <1>5 DEF Precedes, A, G
    <2> QED BY <1>8, <2>1, <2>2
<1> DEFINE u == batch \o A
<1>10. u \in Seq(Event) /\ Merged(u) /\ \A x \in Range(u) : \A y \in Range(G) : Precedes(x, y)
    BY <1>3, <1>7, <1>9
<1> HIDE DEF u
<1>11. Merged(u \o G) /\ Range(u \o G) = Range(u) \cup Range(G)
    BY <1>3, <1>5, <1>10, MergedConcat, RangeConcatenation
<1>12. batch' = u \o G /\ Range(u) = Range(batch) \cup Range(A)
    BY <1>1, <1>8 DEF u
<1>13. ASSUME NEW s \in Sensor, NEW x \in Range(batch'), NEW y \in Range(arr'[s])
       PROVE  StampOf(x) < StampOf(y)
    <2>1. CASE x \in Range(batch)
        BY <1>4, <1>5, <2>1
    <2>2. CASE x \in Range(A) \/ x \in Range(G)
        BY <1>2, <1>5, <2>2 DEF A, G
    <2> QED BY <1>11, <1>12, <1>13, <2>1, <2>2
<1> QED BY <1>11, <1>12, <1>13

LEMMA NothingMerged == Merged(<< >>) /\ Range(<< >>) = {}
<1>1. << >> \in Seq(Event) /\ Len(<< >>) = 0 /\ DOMAIN << >> = {} /\ 1 .. 0 = {}
    BY EmptySeq
<1>2. Range(<< >>) = {<< >>[i] : i \in 1 .. Len(<< >>)}
    BY <1>1, RangeEquality
<1> QED BY <1>1, <1>2 DEF Merged

LEMMA InitMerge == Init => MergeInv
<1> SUFFICES ASSUME Init PROVE MergeInv
    OBVIOUS
<1>1. batch = << >>
    BY DEF Init
<1> QED BY <1>1, NothingMerged DEF MergeInv

\* A delivery takes the eldest sample of the batch.
LEMMA DeliverMerges ==
    ASSUME OrderInv, MergeInv, sdPc = "deliver", sdPc' = sdPc, arr' = arr,
           batch # << >>, batch' = Tail(batch)
    PROVE  MergeInv'
<1>1. batch \in Seq(Event)
    BY LineTypes DEF OrderInv, Sensor
<1>2. Merged(batch) => Merged(batch')
    BY <1>1, MergedTail
<1>3. GyroStamped => Range(batch') \subseteq Range(batch)
    BY <1>1, MergedTail DEF MergeInv
<1> QED BY <1>2, <1>3 DEF MergeInv

LEMMA MergeStep ==
    ASSUME OrderInv, MergeInv, [Next]_vars
    PROVE  MergeInv'
<1> USE DEF driverVars, hwVars, sdVars, flushVars, readerVars
<1>1. ASSUME UNCHANGED <<batch, arr>>,
             sdPc' \notin {"sort", "deliver"} => batch = << >>
      PROVE  MergeInv'
    BY <1>1 DEF MergeInv
<1>2. CASE UNCHANGED <<batch, arr, sdPc>>
    BY <1>1, <1>2 DEF MergeInv
<1>3. ASSUME NEW r \in Sensor, Produce(r) PROVE MergeInv'
    BY <1>2, <1>3 DEF Produce
<1>4. CASE Hwcntl
    <2>1. CASE PollDevices \/ SkipPublish \/ HwLock \/ HwUnlock
        BY <1>2, <2>1 DEF PollDevices, SkipPublish, HwLock, HwUnlock
    <2>2. CASE Signal
        BY <1>1, <2>2 DEF Signal, MergeInv
    <2>3. ASSUME NEW s \in Sensor, ReadSample(s) \/ EndRead(s) \/ Mount(s)
          PROVE  MergeInv'
        BY <1>2, <2>3 DEF ReadSample, EndRead, Mount
    <2> QED BY <1>4, <2>1, <2>2, <2>3 DEF Hwcntl
<1>5. CASE Sensord \/ SpuriousWakeup
    <2>1. CASE SdLock \/ SdTest \/ SdWait \/ SdRelock \/ SdUnlock
        BY <1>1, <2>1 DEF SdLock, SdTest, SdWait, SdRelock, SdUnlock, MergeInv
    <2>2. CASE Drain \/ SpuriousWakeup
        BY <1>1, <2>2 DEF Drain, SpuriousWakeup, MergeInv
    <2>3. CASE LoadNothing \/ LoadFailsGyro \/ LoadFailsAlign
        BY <1>1, <2>3 DEF LoadNothing, LoadFailsGyro, LoadFailsAlign, MergeInv
    <2>4. CASE Load
        <3>1. batch = << >> /\ batch' = batch
            BY <2>4 DEF Load, MergeInv
        <3>2. sdPc' = "sort"
            BY <2>4 DEF Load
        <3> QED BY <3>1, <3>2, NothingMerged DEF MergeInv
    <2>5. CASE SortSlot
        BY <2>5, SortMerges
    <2>6. CASE SortDone \/ DeliverDone
        BY <1>1, <2>6 DEF SortDone, DeliverDone, MergeInv
    <2>7. CASE Deliver \/ DeliverFails
        BY <2>7, DeliverMerges DEF Deliver, DeliverFails
    <2> QED BY <1>5, <2>1, <2>2, <2>3, <2>4, <2>5, <2>6, <2>7 DEF Sensord
<1>6. CASE FlushStep \/ Reader
    BY <1>2, <1>6 DEF FlushStep, SendFlushEvent, SendFlushFails, Reader,
                      PollEvents, PollReady, PollTimeout, ReadEvents
<1>7. ASSUME NEW r \in Sensor, Flush(r) PROVE MergeInv'
    BY <1>2, <1>7 DEF Flush
<1>8. CASE UNCHANGED vars
    BY <1>2, <1>8 DEF vars
<1> QED BY <1>3, <1>4, <1>5, <1>6, <1>7, <1>8 DEF Next

\* What the sensord thread delivers in one go is sorted by time stamp, the
\* accelerometer first among equals, provided no gyroscope stamp is 0.
THEOREM PathMergesByTime == Spec => []MergedByTime
<1>1. OrderInv /\ MergeInv => MergedByTime
    BY DEF MergeInv, GyroStamped, Merged, Precedes, MergedByTime
<1>2. Init => OrderInv /\ MergeInv
    BY InitTypes, IdleStep, InitLine, InitMerge DEF OrderInv
<1>3. OrderInv /\ MergeInv /\ [Next]_vars => (OrderInv /\ MergeInv)'
    BY TypeStep, IdleStep, LineInvStep, MergeStep DEF OrderInv
<1> QED BY <1>1, <1>2, <1>3, PTL DEF Spec

-----------------------------------------------------------------------------
(* The path implements a channel per sensor.                               *)

\* What the framework gets to see, and what is on its way to it: the values
\* the channel's variables have in the path.
Out == delivered \o pipe

OnTheWay ==
    UNION {{q[i] : i \in DOMAIN q} :
            q \in {batch, shmem} \cup
                  UNION {{arr[s], sdList[s], hwList[s], evdev[s]} :
                         s \in Sensor}}

\* A flush event knows a number of samples its device had already taken.
FlushKnown ==
    \A i \in DOMAIN flushing : \E s \in Sensor : \E n \in 0 .. made[s] :
        flushing[i] = FlushEvent(s, n)

\* The queues before the pipe hold what is younger than what has left them.
LEMMA OutIsElder ==
    ASSUME OrderInv, NEW s \in Sensor
    PROVE  LET T == SamplesOf(s)
               rest == Range(batch) \cup Range(arr[s]) \cup Range(sdList[s])
                       \cup Range(shmem) \cup Range(hwList[s])
                       \cup Range(evdev[s])
           IN  /\ Range(Line(s)) = Range(Out) \cup rest
               /\ Older(T, Range(Out), rest)
<1> DEFINE T == SamplesOf(s)
           e2 == Out \o batch
           e3 == e2 \o arr[s]
           e4 == e3 \o sdList[s]
           e5 == e4 \o shmem
           e6 == e5 \o hwList[s]
<1>1. TypeOK /\ Ascending(T, Line(s))
    BY DEF OrderInv, LineInv
<1>2. /\ delivered \in Seq(Event) /\ pipe \in Seq(Event)
      /\ batch \in Seq(Event) /\ arr[s] \in Seq(Event)
      /\ sdList[s] \in Seq(Event) /\ shmem \in Seq(Event)
      /\ hwList[s] \in Seq(Event) /\ evdev[s] \in Seq(Event)
    BY <1>1, LineTypes
<1>3. /\ Out \in Seq(Event) /\ e2 \in Seq(Event) /\ e3 \in Seq(Event)
      /\ e4 \in Seq(Event) /\ e5 \in Seq(Event) /\ e6 \in Seq(Event)
    BY <1>2, ConcatProperties DEF Out
<1>4. Line(s) = e6 \o evdev[s]
    BY DEF Line, Out
<1> HIDE DEF T
<1>6. /\ Ascending(T, e6) /\ Older(T, Range(e6), Range(evdev[s]))
      /\ Range(Line(s)) = Range(e6) \cup Range(evdev[s])
    <2>1. e6 \in Seq(Event) /\ evdev[s] \in Seq(Event)
        BY <1>1, <1>2, <1>3, <1>4
    <2>2. Ascending(T, e6 \o evdev[s])
        BY <1>1, <1>2, <1>3, <1>4
    <2> HIDE DEF e6
    <2>3. /\ Ascending(T, e6) /\ Older(T, Range(e6), Range(evdev[s]))
          /\ Range(e6 \o evdev[s]) = Range(e6) \cup Range(evdev[s])
        BY <2>1, <2>2, ConcatParts
    <2> QED BY <1>4, <2>3
<1>7. /\ Ascending(T, e5) /\ Older(T, Range(e5), Range(hwList[s]))
      /\ Range(e6) = Range(e5) \cup Range(hwList[s])
    <2>1. e5 \in Seq(Event) /\ hwList[s] \in Seq(Event)
        BY <1>2, <1>3, <1>6
    <2>2. Ascending(T, e5 \o hwList[s])
        BY <1>2, <1>3, <1>6
    <2> HIDE DEF e5
    <2>3. /\ Ascending(T, e5) /\ Older(T, Range(e5), Range(hwList[s]))
          /\ Range(e5 \o hwList[s]) = Range(e5) \cup Range(hwList[s])
        BY <2>1, <2>2, ConcatParts
    <2> QED BY <2>3
<1>8. /\ Ascending(T, e4) /\ Older(T, Range(e4), Range(shmem))
      /\ Range(e5) = Range(e4) \cup Range(shmem)
    <2>1. e4 \in Seq(Event) /\ shmem \in Seq(Event)
        BY <1>2, <1>3, <1>7
    <2>2. Ascending(T, e4 \o shmem)
        BY <1>2, <1>3, <1>7
    <2> HIDE DEF e4
    <2>3. /\ Ascending(T, e4) /\ Older(T, Range(e4), Range(shmem))
          /\ Range(e4 \o shmem) = Range(e4) \cup Range(shmem)
        BY <2>1, <2>2, ConcatParts
    <2> QED BY <2>3
<1>9. /\ Ascending(T, e3) /\ Older(T, Range(e3), Range(sdList[s]))
      /\ Range(e4) = Range(e3) \cup Range(sdList[s])
    <2>1. e3 \in Seq(Event) /\ sdList[s] \in Seq(Event)
        BY <1>2, <1>3, <1>8
    <2>2. Ascending(T, e3 \o sdList[s])
        BY <1>2, <1>3, <1>8
    <2> HIDE DEF e3
    <2>3. /\ Ascending(T, e3) /\ Older(T, Range(e3), Range(sdList[s]))
          /\ Range(e3 \o sdList[s]) = Range(e3) \cup Range(sdList[s])
        BY <2>1, <2>2, ConcatParts
    <2> QED BY <2>3
<1>10. /\ Ascending(T, e2) /\ Older(T, Range(e2), Range(arr[s]))
       /\ Range(e3) = Range(e2) \cup Range(arr[s])
    <2>1. e2 \in Seq(Event) /\ arr[s] \in Seq(Event)
        BY <1>2, <1>3, <1>9
    <2>2. Ascending(T, e2 \o arr[s])
        BY <1>2, <1>3, <1>9
    <2> HIDE DEF e2
    <2>3. /\ Ascending(T, e2) /\ Older(T, Range(e2), Range(arr[s]))
          /\ Range(e2 \o arr[s]) = Range(e2) \cup Range(arr[s])
        BY <2>1, <2>2, ConcatParts
    <2> QED BY <2>3
<1>11. /\ Ascending(T, Out) /\ Older(T, Range(Out), Range(batch))
       /\ Range(e2) = Range(Out) \cup Range(batch)
    <2>1. Out \in Seq(Event) /\ batch \in Seq(Event)
        BY <1>2, <1>3, <1>10
    <2>2. Ascending(T, Out \o batch)
        BY <1>2, <1>3, <1>10
    <2> DEFINE o == Out
    <2>3. o \in Seq(Event) /\ Ascending(T, o \o batch)
        BY <2>1, <2>2
    <2> HIDE DEF o
    <2>4. /\ Ascending(T, o) /\ Older(T, Range(o), Range(batch))
          /\ Range(o \o batch) = Range(o) \cup Range(batch)
        BY <2>1, <2>3, ConcatParts
    <2> QED BY <2>4 DEF o
<1> HIDE DEF e2, e3, e4, e5, e6
<1> DEFINE rest == Range(batch) \cup Range(arr[s]) \cup Range(sdList[s])
                   \cup Range(shmem) \cup Range(hwList[s])
                   \cup Range(evdev[s])
<1>12. Range(Line(s)) = Range(Out) \cup rest
    BY <1>6, <1>7, <1>8, <1>9, <1>10, <1>11
<1>13. Older(T, Range(Out), rest)
    BY <1>6, <1>7, <1>8, <1>9, <1>10, <1>11 DEF Older
<1> QED BY <1>12, <1>13 DEF T

\* On its way is what was taken, is not lost and has not been seen yet.
OnTheWayKnown ==
    \A x : x \in OnTheWay <=>
        /\ x \in SampleSet /\ x \in Taken(x.sensor)
        /\ x \notin lost /\ x \notin Range(Out)

LEMMA OnTheWayIs == OrderInv => OnTheWayKnown
<1> SUFFICES ASSUME OrderInv PROVE OnTheWayKnown
    OBVIOUS
<1> DEFINE Rest(s) == Range(batch) \cup Range(arr[s]) \cup Range(sdList[s])
                      \cup Range(shmem) \cup Range(hwList[s])
                      \cup Range(evdev[s])
<1>1. TypeOK /\ LineInv
    BY DEF OrderInv
<1>2. \A s \in Sensor : Taken(s) \subseteq SamplesOf(s) /\ Numbered(SamplesOf(s))
    BY <1>1, TakenTypes, SamplesNumbered
<1>3. OnTheWay = UNION {Rest(s) : s \in Sensor}
    <2>1. Sensor # {}
        BY DEF Sensor
    <2> DEFINE Queues == {batch, shmem} \cup
                         UNION {{arr[s], sdList[s], hwList[s], evdev[s]} :
                                s \in Sensor}
    <2>2. OnTheWay = UNION {Range(q) : q \in Queues}
        BY DEF OnTheWay, Range
    <2>3. \A q : q \in Queues <=> \/ q = batch \/ q = shmem
                                 \/ \E s \in Sensor :
                                      \/ q = arr[s] \/ q = sdList[s]
                                      \/ q = hwList[s] \/ q = evdev[s]
        OBVIOUS
    <2> HIDE DEF Queues
    <2>4. ASSUME NEW x \in OnTheWay PROVE \E s \in Sensor : x \in Rest(s)
        <3>1. PICK q \in Queues : x \in Range(q)
            BY <2>2
        <3> QED BY <2>1, <2>3, <3>1
    <2>5. ASSUME NEW s \in Sensor, NEW x \in Rest(s) PROVE x \in OnTheWay
        <3>1. \E q \in Queues : x \in Range(q)
            BY <2>3
        <3> QED BY <2>2, <3>1
    <2> QED BY <2>4, <2>5
<1>4. ASSUME NEW s \in Sensor
      PROVE  /\ Range(batch) \subseteq SampleSet /\ Range(shmem) \subseteq SampleSet
             /\ Range(arr[s]) \subseteq SamplesOf(s)
             /\ Range(sdList[s]) \subseteq SamplesOf(s)
             /\ Range(hwList[s]) \subseteq SamplesOf(s)
             /\ Range(evdev[s]) \subseteq SamplesOf(s)
    <2>1. /\ batch \in Seq(SampleSet) /\ shmem \in Seq(SampleSet)
          /\ arr[s] \in Seq(SamplesOf(s)) /\ sdList[s] \in Seq(SamplesOf(s))
          /\ hwList[s] \in Seq(SamplesOf(s)) /\ evdev[s] \in Seq(SamplesOf(s))
        BY <1>1, PerSensorQueues DEF TypeOK
    <2> QED BY <2>1, RangeOfSeq
<1> HIDE DEF Rest
<1>5. ASSUME NEW s \in Sensor, NEW x \in SamplesOf(s)
      PROVE  /\ x \in Rest(s) <=>
                    x \in Taken(s) /\ x \notin lost /\ x \notin Range(Out)
             /\ x.sensor = s /\ x \in SampleSet
    <2>1. /\ Range(Line(s)) = Range(Out) \cup Rest(s)
          /\ Older(SamplesOf(s), Range(Out), Rest(s))
        BY OutIsElder DEF Rest
    <2>2. Range(Line(s)) \cap SamplesOf(s) = Taken(s) \ lost
        BY <1>1 DEF LineInv
    <2>3. x.seq \in Nat
        BY <1>2 DEF Numbered
    <2>4. ~(x \in Range(Out) /\ x \in Rest(s))
        BY <2>1, <2>3 DEF Older
    <2>5. x.sensor = s /\ x \in SampleSet
        BY DEF SamplesOf
    <2> QED BY <2>1, <2>2, <2>4, <2>5
<1>6. ASSUME NEW s \in Sensor, NEW x \in Rest(s)
      PROVE  x \in SampleSet /\ x.sensor \in Sensor /\ x \in Rest(x.sensor)
    <2>1. x \in SampleSet
        BY <1>4, EventTypes DEF Rest
    <2>2. CASE x \in Range(batch) \/ x \in Range(shmem)
        BY <2>1, <2>2, EventTypes DEF Rest
    <2>3. CASE x \in SamplesOf(s)
        BY <2>1, <2>3, <1>5
    <2> QED BY <1>4, <2>2, <2>3 DEF Rest
<1>7. ASSUME NEW x \in OnTheWay
      PROVE  /\ x \in SampleSet /\ x \in Taken(x.sensor)
             /\ x \notin lost /\ x \notin Range(Out)
    <2>1. x \in SampleSet /\ x.sensor \in Sensor /\ x \in Rest(x.sensor)
        BY <1>3, <1>6
    <2> QED BY <1>5, <2>1, EventTypes
<1>8. ASSUME NEW x \in SampleSet, x \in Taken(x.sensor),
             x \notin lost, x \notin Range(Out)
      PROVE  x \in OnTheWay
    <2>1. x.sensor \in Sensor /\ x \in SamplesOf(x.sensor)
        BY EventTypes
    <2>2. x \in Rest(x.sensor)
        BY <1>5, <1>8, <2>1
    <2> QED BY <1>3, <2>1, <2>2
<1> QED BY <1>7, <1>8 DEF OnTheWayKnown

\* What has been seen is older than what is on its way.
SeenFirst ==
    \A x \in Range(Out) : \A y \in OnTheWay :
        x \in SampleSet /\ y.sensor = x.sensor => x.seq < y.seq

LEMMA SeenIsElder == OrderInv => SeenFirst
<1> SUFFICES ASSUME OrderInv, NEW x \in Range(Out), x \in SampleSet,
                    NEW y \in OnTheWay, y.sensor = x.sensor
             PROVE  x.seq < y.seq
    BY DEF SeenFirst
<1> DEFINE s == x.sensor
           rest == Range(batch) \cup Range(arr[s]) \cup Range(sdList[s])
                   \cup Range(shmem) \cup Range(hwList[s])
                   \cup Range(evdev[s])
<1>1. s \in Sensor /\ x \in SamplesOf(s)
    BY EventTypes
<1>2. /\ y \in SampleSet /\ y \in Taken(s) /\ y \notin lost
      /\ y \notin Range(Out)
    BY OnTheWayIs DEF OnTheWayKnown
<1>3. y \in SamplesOf(s)
    BY <1>2, EventTypes
<1>4. /\ Range(Line(s)) = Range(Out) \cup rest
      /\ Older(SamplesOf(s), Range(Out), rest)
    BY <1>1, OutIsElder
<1> HIDE DEF rest, s
<1>5. Range(Line(s)) \cap SamplesOf(s) = Taken(s) \ lost
    BY <1>1 DEF OrderInv, LineInv
<1>6. y \in rest
    BY <1>2, <1>3, <1>4, <1>5
<1> QED BY <1>1, <1>3, <1>4, <1>6 DEF Older

\* Steps that show nothing and only lose.
LEMMA Loss ==
    ASSUME OrderInv, OrderInv', UNCHANGED made, Out' = Out, lost \subseteq lost'
    PROVE  OnTheWay' \in SUBSET OnTheWay
<1>1. \A s : Taken(s)' = Taken(s)
    BY DEF Taken
<1>2. OnTheWayKnown
    BY OnTheWayIs
<1>3. OnTheWayKnown'
    BY OnTheWayIs, PTL
<1> QED BY <1>1, <1>2, <1>3 DEF OnTheWayKnown

LEMMA ChannelLoses ==
    ASSUME OrderInv, OrderInv', UNCHANGED made, Out' = Out, lost \subseteq lost'
    PROVE  Channel!Lose
BY Loss DEF Channel!Lose, Out, OnTheWay

LEMMA ChannelEmits ==
    ASSUME OrderInv, OrderInv', NEW r \in Sensor, Produce(r)
    PROVE  Channel!Emit(r)
<1> USE DEF driverVars, hwVars, sdVars, flushVars, readerVars
<1> DEFINE x == Sample(r, made[r] + 1)
<1>1. TypeOK /\ LineInv
    BY DEF OrderInv
<1>2. /\ made[r] < MaxSamples /\ made' = [made EXCEPT ![r] = @ + 1]
      /\ UNCHANGED <<delivered, pipe, lost>>
      /\ made[r] \in 0 .. MaxSamples /\ MaxSamples \in Nat
      /\ made \in [Sensor -> 0 .. MaxSamples]
    BY <1>1, BoundsAssumption DEF Produce, TypeOK
<1>3. x \in SamplesOf(r) /\ x \in SampleSet /\ x.sensor = r /\ x.seq = made[r] + 1
    <2>1. made[r] + 1 \in 0 .. MaxSamples
        BY <1>2
    <2> QED BY <2>1, EventTypes DEF Sample
<1>4. OnTheWayKnown /\ OnTheWayKnown'
    BY OnTheWayIs, PTL
<1>5. Out' = Out
    BY <1>2 DEF Out
<1>6. ASSUME NEW s \in Sensor
      PROVE  Taken(s)' = IF s = r THEN Taken(s) \cup {x} ELSE Taken(s)
    <2>1. CASE s = r
        <3>1. made'[s] = made[s] + 1 /\ 1 .. made'[s] = (1 .. made[s]) \cup {made[s] + 1}
            BY <1>2, <2>1
        <3> QED BY <2>1, <3>1 DEF Taken
    <2>2. CASE s # r
        BY <1>2, <2>2 DEF Taken
    <2> QED BY <2>1, <2>2
<1>7. x \notin Taken(r)
    <2>1. \A y \in Taken(r) : y.seq <= made[r]
        BY <1>1, TakenTypes
    <2> QED BY <1>2, <1>3, <2>1
<1>8. x \notin lost /\ x \notin Range(Out)
    <2>1. /\ Range(Line(r)) \cap SamplesOf(r) = Taken(r) \ lost
          /\ lost \cap SamplesOf(r) \subseteq Taken(r)
        BY <1>1 DEF LineInv
    <2>2. Range(Out) \subseteq Range(Line(r))
        BY OutIsElder
    <2> QED BY <1>3, <1>7, <2>1, <2>2
<1> HIDE DEF x
<1>9. OnTheWay' = OnTheWay \cup {x}
    <2>1. \A y \in SampleSet : y.sensor \in Sensor
        BY EventTypes
    <2>2. ASSUME NEW y
          PROVE  y \in OnTheWay' <=> y \in OnTheWay \/ y = x
        <3>1. CASE y \in SampleSet
            BY <1>2, <1>3, <1>4, <1>5, <1>6, <1>8, <2>1, <3>1
               DEF OnTheWayKnown
        <3>2. CASE y \notin SampleSet
            BY <1>3, <1>4, <3>2 DEF OnTheWayKnown
        <3> QED BY <3>1, <3>2
    <2> QED BY <2>2
<1> QED BY <1>2, <1>5, <1>9 DEF Channel!Emit, Channel!Sample, Sample, Out,
                                OnTheWay, x

LEMMA ChannelPasses ==
    ASSUME OrderInv, OrderInv', Deliver
    PROVE  Channel!Next
<1> USE DEF driverVars, hwVars, sdVars, flushVars, readerVars
<1> DEFINE x == Head(batch)
<1>1. TypeOK
    BY DEF OrderInv
<1>2. /\ batch # << >> /\ batch' = Tail(batch) /\ pipe' = Append(pipe, x)
      /\ UNCHANGED <<made, delivered, lost>>
    BY DEF Deliver
<1>3. /\ delivered \in Seq(Event) /\ pipe \in Seq(Event)
      /\ batch \in Seq(SampleSet)
    BY <1>1 DEF TypeOK
<1>4. x \in SampleSet /\ x \in Range(batch) /\ x \in Event
    <2>1. x \in SampleSet /\ Len(batch) \in Nat \ {0} /\ x = batch[1]
        BY <1>2, <1>3, HeadTailProperties, EmptySeq
    <2>2. Range(batch) = {batch[i] : i \in 1 .. Len(batch)}
        BY <1>3, RangeEquality
    <2>3. 1 \in 1 .. Len(batch)
        BY <2>1
    <2> QED BY <2>1, <2>2, <2>3, EventTypes
<1>5. x \in OnTheWay
    BY <1>4 DEF OnTheWay, Range
<1> HIDE DEF x
<1>6. Out \in Seq(Event) /\ Out' = Append(Out, x) /\ Range(Out') = Range(Out) \cup {x}
    <2>1. Out \in Seq(Event) /\ << x >> \in Seq(Event)
        BY <1>3, <1>4, ConcatProperties DEF Out
    <2>2. pipe' = pipe \o << x >>
        BY <1>2, <1>3, <1>4, AppendIsConcat
    <2>3. Append(Out, x) = Out \o << x >>
        BY <1>4, <2>1, AppendIsConcat
    <2> DEFINE u == << x >>
    <2>4. u \in Seq(Event)
        BY <2>1
    <2>5. Range(u) = {x}
        <3>1. Range(<< x >>) = {<< x >>[i] : i \in 1 .. Len(<< x >>)}
            BY <2>1, RangeEquality
        <3> QED BY <3>1
    <2> HIDE DEF u
    <2>6. (delivered \o pipe) \o u = delivered \o (pipe \o u)
        <3>1. Regroups(delivered, pipe, u)
            BY <1>3, <2>4, Regrouped
        <3> QED BY <3>1 DEF Regroups
    <2>7. Out' = Out \o u
        BY <1>2, <2>2, <2>6 DEF Out, u
    <2>8. Range(Out \o u) = Range(Out) \cup Range(u)
        BY <2>1, <2>4, RangeConcatenation
    <2> QED BY <2>1, <2>3, <2>5, <2>7, <2>8 DEF u
<1>7. \A s : Taken(s)' = Taken(s)
    BY <1>2 DEF Taken
<1>8. OnTheWayKnown /\ OnTheWayKnown' /\ SeenFirst'
    BY OnTheWayIs, SeenIsElder, PTL
<1>9. OnTheWay' = OnTheWay \ {x}
    BY <1>2, <1>6, <1>7, <1>8 DEF OnTheWayKnown
<1>10. \A y \in OnTheWay : y.sensor = x.sensor => x.seq <= y.seq
    <2>1. ASSUME NEW y \in OnTheWay, y # x, y.sensor = x.sensor
          PROVE  x.seq < y.seq
        BY <1>4, <1>6, <1>8, <1>9, <2>1 DEF SeenFirst
    <2>2. x.seq \in Nat /\ \A y \in OnTheWay : y.seq \in Nat
        BY <1>4, <1>8, BoundsAssumption DEF OnTheWayKnown, SampleSet, Event
    <2> QED BY <2>1, <2>2
<1>11. /\ x \in OnTheWay
       /\ \A y \in OnTheWay : y.sensor = x.sensor => x.seq <= y.seq
       /\ OnTheWay' = OnTheWay \ {x}
       /\ Out' = Append(Out, x)
       /\ UNCHANGED made
    BY <1>2, <1>5, <1>6, <1>9, <1>10
<1> QED BY <1>11 DEF Channel!Next, Channel!Pass, Out, OnTheWay

\* A framework thread inside flush has one event to write.
LEMMA OneFlush ==
    ASSUME TypeOK, flushing # << >>
    PROVE  /\ Len(flushing) = 1 /\ flushing = << flushing[1] >>
           /\ flushing[1] \in Event /\ 1 \in DOMAIN flushing
<1>1. flushing \in Seq(Event) /\ Len(flushing) <= 1
    BY DEF TypeOK
<1>2. Len(flushing) \in Nat \ {0}
    BY <1>1, EmptySeq, LenProperties
<1>3. \A m \in Nat \ {0} : m <= 1 => m = 1
    OBVIOUS
<1>4. Len(flushing) = 1
    BY <1>1, <1>2, <1>3
<1>5. DOMAIN flushing = 1 .. 1
    BY <1>1, <1>4, LenProperties
<1>6. flushing[1] \in Event /\ 1 \in 1 .. 1
    BY <1>1, <1>4
<1>7. flushing = << flushing[1] >>
    BY <1>1, <1>4
<1> QED BY <1>4, <1>5, <1>6, <1>7

LEMMA ChannelAnswers ==
    ASSUME OrderInv, OrderInv', FlushKnown, SendFlushEvent
    PROVE  Channel!Next
<1> USE DEF driverVars, hwVars, sdVars, flushVars, readerVars
<1>1. TypeOK
    BY DEF OrderInv
<1>2. /\ flushing # << >> /\ pipe' = pipe \o flushing
      /\ UNCHANGED <<made, delivered, evdev, hwList, shmem, sdList, arr, batch>>
    BY DEF SendFlushEvent
<1>3. /\ delivered \in Seq(Event) /\ pipe \in Seq(Event)
      /\ flushing \in Seq(Event) /\ Len(flushing) <= 1
    BY <1>1 DEF TypeOK
<1>4. /\ Len(flushing) = 1 /\ flushing = << flushing[1] >>
      /\ flushing[1] \in Event /\ 1 \in DOMAIN flushing
    BY <1>1, <1>2, OneFlush
<1>9. PICK s \in Sensor : \E n \in 0 .. made[s] : flushing[1] = FlushEvent(s, n)
    BY <1>4 DEF FlushKnown
<1>5. PICK n \in 0 .. made[s] : flushing[1] = FlushEvent(s, n)
    BY <1>9
<1>6. Out' = Append(Out, FlushEvent(s, n))
    <2> DEFINE x == FlushEvent(s, n)
               u == << x >>
    <2>1. x \in Event /\ u \in Seq(Event) /\ flushing = u
        BY <1>4, <1>5
    <2> HIDE DEF x
    <2>2. Out \in Seq(Event) /\ Append(Out, x) = Out \o << x >>
        BY <1>3, <2>1, ConcatProperties, AppendIsConcat DEF Out
    <2> HIDE DEF u
    <2>3. (delivered \o pipe) \o u = delivered \o (pipe \o u)
        <3>1. Regroups(delivered, pipe, u)
            BY <1>3, <2>1, Regrouped
        <3> QED BY <3>1 DEF Regroups
    <2> QED BY <1>2, <2>1, <2>2, <2>3 DEF Out, u, x
<1>7. OnTheWay' = OnTheWay /\ made' = made
    BY <1>2 DEF OnTheWay
<1>8. Channel!AnswerFlush(s)
    BY <1>6, <1>7 DEF Channel!AnswerFlush, Channel!FlushEvent, FlushEvent, Out,
                      OnTheWay
<1> QED BY <1>8 DEF Channel!Next, Channel!AnswerFlush

LEMMA FlushKnownStep ==
    /\ Init => FlushKnown
    /\ TypeOK /\ FlushKnown /\ [Next]_vars => FlushKnown'
<1> USE DEF driverVars, hwVars, sdVars, flushVars, readerVars
<1>1. Init => FlushKnown
    BY DEF Init, FlushKnown
<1>2. SUFFICES ASSUME TypeOK, FlushKnown, [Next]_vars PROVE FlushKnown'
    BY <1>1
<1>3. \A s \in Sensor : made[s] \in Nat
    BY <1>2, BoundsAssumption DEF TypeOK
<1>4. CASE UNCHANGED <<flushing, made>>
    BY <1>2, <1>4 DEF FlushKnown
<1>5. ASSUME NEW r \in Sensor, Produce(r) PROVE FlushKnown'
    <2>1. \A s \in Sensor : made'[s] \in Nat /\ made[s] <= made'[s]
        BY <1>2, <1>3, <1>5 DEF Produce, TypeOK
    <2>2. \A s \in Sensor : 0 .. made[s] \subseteq 0 .. made'[s]
        BY <1>3, <2>1
    <2>3. flushing' = flushing
        BY <1>5 DEF Produce
    <2> QED BY <1>2, <2>2, <2>3 DEF FlushKnown
<1>6. ASSUME NEW r \in Sensor, Flush(r) PROVE FlushKnown'
    <2>1. flushing' = << FlushEvent(r, made[r]) >> /\ made' = made
        BY <1>6 DEF Flush
    <2>2. made[r] \in 0 .. made[r]
        BY <1>3
    <2> QED BY <2>1, <2>2 DEF FlushKnown
<1>7. CASE FlushStep
    <2>1. flushing' = << >>
        BY <1>7 DEF FlushStep, SendFlushEvent, SendFlushFails
    <2> QED BY <2>1 DEF FlushKnown
<1>8. CASE Hwcntl
    BY <1>4, <1>8 DEF Hwcntl, PollDevices, ReadSample, EndRead, SkipPublish,
                      HwLock, Mount, Signal, HwUnlock
<1>9. CASE Sensord \/ SpuriousWakeup
    BY <1>4, <1>9 DEF Sensord, SdLock, SdTest, SdWait, SdRelock, Drain, SdUnlock,
                      LoadNothing, Load, LoadFailsGyro, LoadFailsAlign,
                      SortSlot, SortDone, Deliver, DeliverFails, DeliverDone,
                      SpuriousWakeup
<1>10. CASE Reader
    BY <1>4, <1>10 DEF Reader, PollEvents, PollReady, PollTimeout, ReadEvents
<1>11. CASE UNCHANGED vars
    BY <1>4, <1>11 DEF vars
<1> QED BY <1>2, <1>5, <1>6, <1>7, <1>8, <1>9, <1>10, <1>11 DEF Next

\* What the steps that neither emit nor pass anything on do to the channel.
LEMMA OthersLose ==
    ASSUME TypeOK, [Next]_vars,
           \A s \in Sensor : ~Produce(s), ~Deliver, ~SendFlushEvent
    PROVE  UNCHANGED made /\ Out' = Out /\ lost \subseteq lost'
<1> USE DEF driverVars, hwVars, sdVars, flushVars, readerVars
<1>1. CASE Hwcntl
    <2>1. UNCHANGED <<made, delivered, pipe>>
        BY <1>1 DEF Hwcntl, PollDevices, ReadSample, EndRead, SkipPublish,
                    HwLock, Mount, Signal, HwUnlock
    <2>2. lost \subseteq lost'
        BY <1>1 DEF Hwcntl, PollDevices, ReadSample, EndRead, SkipPublish,
                    HwLock, Mount, Signal, HwUnlock
    <2> QED BY <2>1, <2>2 DEF Out
<1>2. CASE (Sensord /\ ~Deliver) \/ SpuriousWakeup
    <2>1. UNCHANGED <<made, delivered, pipe>>
        BY <1>2 DEF Sensord, SdLock, SdTest, SdWait, SdRelock, Drain, SdUnlock,
                    LoadNothing, Load, LoadFailsGyro, LoadFailsAlign,
                    SortSlot, SortDone, DeliverFails, DeliverDone,
                    SpuriousWakeup
    <2>2. lost \subseteq lost'
        BY <1>2 DEF Sensord, SdLock, SdTest, SdWait, SdRelock, Drain, SdUnlock,
                    LoadNothing, Load, LoadFailsGyro, LoadFailsAlign,
                    SortSlot, SortDone, DeliverFails, DeliverDone,
                    SpuriousWakeup
    <2> QED BY <2>1, <2>2 DEF Out
<1>3. ASSUME NEW s \in Sensor, Flush(s)
      PROVE  UNCHANGED made /\ Out' = Out /\ lost \subseteq lost'
    BY <1>3 DEF Flush, Out
<1>4. CASE SendFlushFails \/ PollEvents \/ PollReady \/ PollTimeout
    BY <1>4 DEF SendFlushFails, PollEvents, PollReady, PollTimeout, Out
<1>5. CASE ReadEvents
    BY <1>5, ReadEventsKeeps DEF ReadEvents, Out
<1>6. CASE UNCHANGED vars
    BY <1>6 DEF vars, Out
<1> QED BY <1>1, <1>2, <1>3, <1>4, <1>5, <1>6 DEF Next, FlushStep, Reader

\* The path implements a channel per sensor that may lose samples but never
\* invents, duplicates or reorders them.
THEOREM PathIsChannel == Spec => ImplementsChannel
<1>1. Init => Channel!Init
    <2> SUFFICES ASSUME Init PROVE Channel!Init
        OBVIOUS
    <2>1. OnTheWayKnown
        BY InitTypes, IdleStep, InitLine, OnTheWayIs DEF OrderInv
    <2>2. \A s \in Sensor : Taken(s) = {}
        <3>1. \A s \in Sensor : made[s] = 0
            BY DEF Init
        <3>2. 1 .. 0 = {}
            OBVIOUS
        <3> QED BY <3>1, <3>2 DEF Taken
    <2>3. OnTheWay = {}
        BY <2>1, <2>2, EventTypes DEF OnTheWayKnown
    <2>4. Out = << >>
        BY EmptySeq, ConcatEmptySeq DEF Init, Out
    <2> QED BY <2>3, <2>4 DEF Init, Channel!Init, Out, OnTheWay
<1>2. OrderInv /\ OrderInv' /\ FlushKnown /\ [Next]_vars
            => [Channel!Next]_(Channel!vars)
    <2> SUFFICES ASSUME OrderInv, OrderInv', FlushKnown, [Next]_vars
                 PROVE  Channel!Next
        OBVIOUS
    <2>1. ASSUME NEW s \in Sensor, Produce(s) PROVE Channel!Next
        <3>1. Channel!Emit(s)
            BY <2>1, ChannelEmits
        <3> QED BY <3>1 DEF Channel!Next, Channel!Emit
    <2>2. CASE Deliver
        BY <2>2, ChannelPasses
    <2>3. CASE SendFlushEvent
        BY <2>3, ChannelAnswers
    <2>4. CASE (\A s \in Sensor : ~Produce(s)) /\ ~Deliver /\ ~SendFlushEvent
        <3>1. UNCHANGED made /\ Out' = Out /\ lost \subseteq lost'
            BY <2>4, OthersLose DEF OrderInv
        <3>2. Channel!Lose
            BY <3>1, ChannelLoses
        <3> QED BY <3>2 DEF Channel!Next
    <2> QED BY <2>1, <2>2, <2>3, <2>4
<1>3. OrderInv /\ FlushKnown /\ [Next]_vars => FlushKnown'
    BY FlushKnownStep DEF OrderInv
<1>4. Init => FlushKnown
    BY FlushKnownStep
<1> QED BY <1>1, <1>2, <1>3, <1>4, OrderInvAlways, PTL
        DEF Spec, ImplementsChannel, Channel!Spec

-----------------------------------------------------------------------------
(* When all threads sleep.                                                 *)

\* Queues that are empty outside the part of its loop where a thread uses
\* them: the batch of the sensord thread, the lists of the hwcntl thread.
AtRest ==
    /\ sdPc \notin {"sort", "deliver"} => batch = << >>
    /\ hwPc \in {"poll", "signal", "unlock"} => hwList = Empty
    /\ hwPc = "mountGyro" => hwList[Acc] = << >>

\* Each thread empties its own queues before it leaves that part.
LEMMA AtRestStep ==
    /\ Init => AtRest
    /\ TypeOK /\ AtRest /\ [Next]_vars => AtRest'
<1> USE DEF AtRest, driverVars, hwVars, sdVars, flushVars, readerVars
<1>1. Init => AtRest
    BY DEF Init
<1>2. SUFFICES ASSUME TypeOK, AtRest, [Next]_vars PROVE AtRest'
    BY <1>1
<1>3. Acc \in Sensor /\ Gyro \in Sensor /\ Acc # Gyro
      /\ \A s \in Sensor : s = Acc \/ s = Gyro
    BY DEF Sensor, Acc, Gyro
<1>4. CASE UNCHANGED <<sdPc, batch, hwPc, hwList>>
    BY <1>2, <1>4
<1>5. CASE Hwcntl
    <2>1. CASE PollDevices \/ SkipPublish \/ HwLock
        BY <1>2, <2>1 DEF PollDevices, SkipPublish, HwLock, ReadPc, MountPc
    <2>2. CASE HwUnlock
        BY <1>2, <2>2 DEF HwUnlock
    <2>3. CASE Signal
        BY <1>2, <2>3 DEF Signal
    <2>4. ASSUME NEW s \in Sensor, ReadSample(s) \/ EndRead(s)
          PROVE  AtRest'
        BY <1>2, <2>4 DEF ReadSample, EndRead, ReadPc
    <2>5. ASSUME NEW s \in Sensor, Mount(s)
          PROVE  AtRest'
        <3>1. /\ hwList' = [hwList EXCEPT ![s] = << >>] /\ hwPc = MountPc(s)
              /\ hwPc' = IF s = Acc THEN "mountGyro" ELSE "signal"
              /\ UNCHANGED <<sdPc, batch>>
            BY <2>5 DEF Mount, MountPc, Acc, Gyro
        <3>2. DOMAIN hwList = Sensor /\ hwList = [r \in Sensor |-> hwList[r]]
            BY <1>2 DEF TypeOK, PerSensor
        <3>3. CASE s = Acc
            BY <1>2, <1>3, <3>1, <3>2, <3>3
        <3>4. CASE s = Gyro
            <4>1. hwPc = "mountGyro" /\ hwPc' = "signal"
                BY <1>3, <3>1, <3>4 DEF MountPc
            <4>2. hwList' = Empty
                <5>1. hwList[Acc] = << >>
                    BY <1>2, <4>1
                <5> QED BY <1>3, <3>1, <3>2, <3>4, <5>1 DEF Empty
            <4> QED BY <1>2, <3>1, <4>1, <4>2
        <3> QED BY <1>3, <3>3, <3>4
    <2> QED BY <1>5, <2>1, <2>2, <2>3, <2>4, <2>5 DEF Hwcntl
<1>6. CASE Sensord \/ SpuriousWakeup
    <2>1. CASE SdLock \/ SdTest \/ SdWait \/ SdRelock \/ Drain \/ SdUnlock
               \/ SpuriousWakeup
        BY <1>2, <2>1 DEF SdLock, SdTest, SdWait, SdRelock, Drain, SdUnlock,
                          SpuriousWakeup
    <2>2. CASE LoadNothing \/ Load \/ LoadFailsGyro \/ LoadFailsAlign
        BY <1>2, <2>2 DEF LoadNothing, Load, LoadFailsGyro, LoadFailsAlign
    <2>3. CASE SortSlot \/ SortDone \/ Deliver \/ DeliverFails \/ DeliverDone
        BY <1>2, <2>3 DEF SortSlot, SortDone, Deliver, DeliverFails,
                          DeliverDone
    <2> QED BY <1>6, <2>1, <2>2, <2>3 DEF Sensord
<1>7. ASSUME NEW s \in Sensor, Produce(s) \/ Flush(s)
      PROVE  AtRest'
    BY <1>4, <1>7 DEF Produce, Flush
<1>8. CASE FlushStep \/ Reader
    BY <1>4, <1>8 DEF FlushStep, SendFlushEvent, SendFlushFails, Reader,
                      PollEvents, PollReady, PollTimeout, ReadEvents
<1>9. CASE UNCHANGED vars
    BY <1>4, <1>9 DEF vars
<1> QED BY <1>2, <1>5, <1>6, <1>7, <1>8, <1>9 DEF Next

\* The flush-complete events in q.
FlushPlaces(q) == {i \in DOMAIN q : q[i].kind = "flush"}
FlushesIn(q) == Cardinality(FlushPlaces(q))

\* They can be counted.
LEMMA FlushesCounted ==
    ASSUME NEW q \in Seq(Event)
    PROVE  /\ FlushPlaces(q) \subseteq 1 .. Len(q)
           /\ IsFiniteSet(FlushPlaces(q)) /\ FlushesIn(q) \in Nat
<1>1. Len(q) \in Nat /\ DOMAIN q = 1 .. Len(q)
    BY LenProperties
<1>2. IsFiniteSet(1 .. Len(q))
    BY <1>1, FS_Interval
<1>3. FlushPlaces(q) \subseteq 1 .. Len(q)
    BY <1>1 DEF FlushPlaces
<1>4. IsFiniteSet(FlushPlaces(q))
    BY <1>2, <1>3, FS_Subset
<1> QED BY <1>3, <1>4, FS_CardinalityType DEF FlushesIn

\* One event more is one answer more, or none.
LEMMA OneMore ==
    ASSUME NEW q \in Seq(Event), NEW x \in Event
    PROVE  FlushesIn(Append(q, x))
             = FlushesIn(q) + (IF x.kind = "flush" THEN 1 ELSE 0)
<1>1. /\ Len(q) \in Nat /\ DOMAIN q = 1 .. Len(q)
      /\ DOMAIN Append(q, x) = 1 .. Len(q) + 1
      /\ \A i \in 1 .. Len(q) : Append(q, x)[i] = q[i]
      /\ Append(q, x)[Len(q) + 1] = x
    BY AppendProperties, LenProperties
<1>2. /\ FlushPlaces(q) \subseteq 1 .. Len(q) /\ IsFiniteSet(FlushPlaces(q))
      /\ FlushesIn(q) \in Nat
    BY FlushesCounted
<1>3. CASE x.kind = "flush"
    <2>1. FlushPlaces(Append(q, x)) = FlushPlaces(q) \cup {Len(q) + 1}
        BY <1>1, <1>3 DEF FlushPlaces
    <2>2. Len(q) + 1 \notin FlushPlaces(q)
        BY <1>1, <1>2
    <2>3. Cardinality(FlushPlaces(q) \cup {Len(q) + 1})
            = Cardinality(FlushPlaces(q)) + 1
        BY <1>2, <2>2, FS_AddElement
    <2> QED BY <1>3, <2>1, <2>3 DEF FlushesIn
<1>4. CASE x.kind # "flush"
    <2>1. FlushPlaces(Append(q, x)) = FlushPlaces(q)
        BY <1>1, <1>4 DEF FlushPlaces
    <2> QED BY <1>2, <1>4, <2>1 DEF FlushesIn
<1> QED BY <1>3, <1>4

\* An event that enters the pipe.
LEMMA OutGrows ==
    ASSUME TypeOK, NEW x \in Event
    PROVE  /\ Out \in Seq(Event)
           /\ delivered \o (pipe \o << x >>) = Append(Out, x)
           /\ Append(pipe, x) = pipe \o << x >>
<1> DEFINE u == << x >>
<1>1. delivered \in Seq(Event) /\ pipe \in Seq(Event) /\ u \in Seq(Event)
    BY DEF TypeOK
<1>2. Out \in Seq(Event)
    BY <1>1, ConcatProperties DEF Out
<1>3. Append(Out, x) = Out \o << x >> /\ Append(pipe, x) = pipe \o << x >>
    BY <1>1, <1>2, AppendIsConcat
<1> HIDE DEF u
<1>4. (delivered \o pipe) \o u = delivered \o (pipe \o u)
    <2>1. Regroups(delivered, pipe, u)
        BY <1>1, Regrouped
    <2> QED BY <2>1 DEF Regroups
<1> QED BY <1>2, <1>3, <1>4 DEF Out, u

\* The answers in the pipe and with the framework, and the flush in progress,
\* make up the flushes called, unless memory failed for an answer.
FlushCount ==
    /\ FlushesIn(Out) + Len(flushing) <= flushes
    /\ ~AllocFails => FlushesIn(Out) + Len(flushing) = flushes

\* A flush becomes an event, and the event enters the pipe once.
LEMMA FlushCountStep ==
    /\ Init => FlushCount
    /\ TypeOK /\ Idle /\ FlushCount /\ [Next]_vars => FlushCount'
<1> USE DEF driverVars, hwVars, sdVars, flushVars, readerVars
<1>1. Init => FlushCount
    <2> SUFFICES ASSUME Init PROVE FlushCount
        OBVIOUS
    <2>1. Out = << >> /\ Len(flushing) = 0 /\ flushes = 0
        BY EmptySeq, ConcatEmptySeq DEF Init, Out
    <2>2. FlushPlaces(<< >>) = {}
        BY DEF FlushPlaces
    <2>3. FlushesIn(<< >>) = 0
        BY <2>2, FS_EmptySet DEF FlushesIn
    <2> QED BY <2>1, <2>3 DEF FlushCount
<1>2. SUFFICES ASSUME TypeOK, Idle, FlushCount, [Next]_vars PROVE FlushCount'
    BY <1>1
<1>3. /\ Out \in Seq(Event) /\ FlushesIn(Out) \in Nat
      /\ flushing \in Seq(Event) /\ Len(flushing) \in Nat /\ Len(flushing) <= 1
      /\ flushes \in Nat
    <2>1. delivered \in Seq(Event) /\ pipe \in Seq(Event)
          /\ flushing \in Seq(Event) /\ Len(flushing) <= 1 /\ flushes \in Nat
        BY <1>2, BoundsAssumption DEF TypeOK
    <2>2. Out \in Seq(Event)
        BY <2>1, ConcatProperties DEF Out
    <2> QED BY <2>1, <2>2, FlushesCounted, LenProperties
<1>4. CASE Out' = Out /\ UNCHANGED <<flushing, flushes>>
    BY <1>2, <1>4 DEF FlushCount
<1>5. CASE UNCHANGED <<delivered, pipe, flushing, flushes>>
    BY <1>4, <1>5 DEF Out
<1>6. CASE Deliver
    <2>1. /\ batch # << >> /\ pipe' = Append(pipe, Head(batch))
          /\ UNCHANGED <<delivered, flushing, flushes>>
        BY <1>6 DEF Deliver
    <2>2. Head(batch) \in SampleSet
        BY <1>2, <2>1, HeadTailProperties DEF TypeOK
    <2>3. Head(batch) \in Event /\ Head(batch).kind # "flush"
        BY <2>2, EventTypes DEF SampleSet
    <2>4. Out' = Append(Out, Head(batch))
        BY <1>2, <2>1, <2>3, OutGrows DEF Out
    <2>5. FlushesIn(Out') = FlushesIn(Out)
        BY <1>3, <2>3, <2>4, OneMore
    <2> QED BY <1>2, <2>1, <2>5 DEF FlushCount
<1>7. ASSUME NEW s \in Sensor, Flush(s) PROVE FlushCount'
    <2>1. /\ flushing = << >> /\ flushing' = << FlushEvent(s, made[s]) >>
          /\ flushes' = flushes + 1 /\ UNCHANGED <<delivered, pipe>>
        BY <1>7 DEF Flush
    <2>2. Len(flushing) = 0 /\ Len(flushing') = 1 /\ Out' = Out
        BY <2>1 DEF Out
    <2> QED BY <1>2, <1>3, <2>1, <2>2 DEF FlushCount
<1>8. CASE SendFlushEvent
    <2>1. /\ flushing # << >> /\ pipe' = pipe \o flushing /\ flushing' = << >>
          /\ UNCHANGED <<delivered, flushes>>
        BY <1>8 DEF SendFlushEvent
    <2>2. Len(flushing) = 1 /\ Len(flushing') = 0
        BY <1>2, <2>1, OneFlush
    <2> DEFINE x == flushing[1]
    <2>3. x \in Event /\ flushing = << x >> /\ 1 \in DOMAIN flushing
        BY <1>2, <2>1, OneFlush
    <2>4. x.kind = "flush"
        BY <1>2, <2>3 DEF Idle
    <2> HIDE DEF x
    <2>5. Out' = Append(Out, x)
        BY <1>2, <2>1, <2>3, OutGrows DEF Out
    <2>6. FlushesIn(Out') = FlushesIn(Out) + 1
        BY <1>3, <2>3, <2>4, <2>5, OneMore
    <2> QED BY <1>2, <1>3, <2>1, <2>2, <2>6 DEF FlushCount
<1>9. CASE SendFlushFails
    <2>1. AllocFails /\ flushing' = << >> /\ UNCHANGED <<delivered, pipe, flushes>>
        BY <1>9 DEF SendFlushFails
    <2>2. Len(flushing') = 0 /\ Out' = Out
        BY <2>1 DEF Out
    <2> QED BY <1>2, <1>3, <2>1, <2>2 DEF FlushCount
<1>10. CASE ReadEvents
    <2>1. Out' = Out
        BY <1>2, <1>10, ReadEventsKeeps DEF Out
    <2> QED BY <1>4, <1>10, <2>1 DEF ReadEvents
<1>11. ASSUME NEW s \in Sensor, Produce(s) PROVE FlushCount'
    BY <1>5, <1>11 DEF Produce
<1>12. CASE Hwcntl
    BY <1>5, <1>12 DEF Hwcntl, PollDevices, ReadSample, EndRead, SkipPublish,
                       HwLock, Mount, Signal, HwUnlock
<1>13. CASE (Sensord /\ ~Deliver) \/ SpuriousWakeup
    BY <1>5, <1>13 DEF Sensord, SdLock, SdTest, SdWait, SdRelock, Drain,
                       SdUnlock, LoadNothing, Load, LoadFailsGyro,
                       LoadFailsAlign, SortSlot, SortDone, DeliverFails,
                       DeliverDone, SpuriousWakeup
<1>14. CASE PollEvents \/ PollReady \/ PollTimeout
    BY <1>5, <1>14 DEF PollEvents, PollReady, PollTimeout
<1>15. CASE UNCHANGED vars
    BY <1>5, <1>15 DEF vars
<1> QED BY <1>2, <1>6, <1>7, <1>8, <1>9, <1>10, <1>11, <1>12, <1>13, <1>14,
           <1>15 DEF Next, FlushStep, Reader

\* What every line holds while all sleep: what was delivered, and what the
\* sensord thread could not take out of its own lists.
LEMMA SleepingLine ==
    ASSUME OrderInv, AtRest, NoLostWakeup, Asleep, NEW s \in Sensor
    PROVE  Range(Line(s)) = Range(delivered) \cup Range(sdList[s])
<1>1. TypeOK /\ Idle
    BY DEF OrderInv
<1>2. /\ pipe = << >> /\ batch = << >> /\ shmem = << >>
      /\ evdev = Empty /\ hwList = Empty /\ arr = Empty
    BY <1>1 DEF Asleep, AtRest, NoLostWakeup, Idle
<1>3. /\ pipe = << >> /\ batch = << >> /\ shmem = << >>
      /\ evdev[s] = << >> /\ hwList[s] = << >> /\ arr[s] = << >>
    BY <1>2, PerSensorQueues
<1>4. delivered \in Seq(Event) /\ sdList[s] \in Seq(Event)
    BY <1>1, LineTypes
<1> DEFINE d == delivered
           q == sdList[s]
<1>5. d \o << >> = d
    BY <1>4, ConcatEmptySeq
<1>6. d \o q \in Seq(Event)
    BY <1>4, ConcatProperties
<1>7. (d \o q) \o << >> = d \o q
    BY <1>6, ConcatEmptySeq
<1>8. Line(s) = d \o q
    BY <1>3, <1>5, <1>7, Zenon DEF Line
<1>9. Range(d \o q) = Range(d) \cup Range(q)
    BY <1>4, RangeConcatenation
<1> QED BY <1>8, <1>9

RestInv == OrderInv /\ PathInv /\ NoLostWakeup /\ AtRest /\ FlushCount

LEMMA RestInvAlways == Spec => []RestInv
<1>1. Init => AtRest /\ FlushCount
    BY AtRestStep, FlushCountStep
<1>2. OrderInv /\ AtRest /\ FlushCount /\ [Next]_vars
            => AtRest' /\ FlushCount'
    BY AtRestStep, FlushCountStep DEF OrderInv
<1>3. Spec => [](AtRest /\ FlushCount)
    BY <1>1, <1>2, OrderInvAlways, PTL DEF Spec
<1> QED BY <1>3, OrderInvAlways, PathInvAlways, PathWakesUp, PTL DEF RestInv

\* When all threads sleep, every sample was handed to the framework or lost
\* and every flush answered; only memory that ran out leaves samples behind,
\* in the sensord thread's own lists.
THEOREM PathStrandsNothing == Spec => []NothingStranded
<1>1. ASSUME RestInv, Asleep, NEW s \in Sensor, NEW n \in 1 .. made[s]
      PROVE  \/ Sample(s, n) \in lost
             \/ \E i \in DOMAIN delivered : delivered[i] = Sample(s, n)
             \/ AllocFails /\ \E i \in DOMAIN sdList[s] :
                                 sdList[s][i] = Sample(s, n)
    <2> DEFINE x == Sample(s, n)
    <2>1. OrderInv /\ TypeOK /\ LineInv /\ HandedOn /\ AtRest /\ NoLostWakeup
        BY <1>1 DEF RestInv, OrderInv, PathInv
    <2>2. x \in Taken(s)
        BY DEF Taken
    <2>3. Taken(s) \ lost \subseteq Range(delivered) \cup Range(sdList[s])
        BY <1>1, <2>1, SleepingLine DEF LineInv
    <2>4. ~AllocFails => sdList[s] = << >>
        BY <1>1, <2>1, PerSensorQueues DEF HandedOn, Asleep
    <2>5. /\ DOMAIN delivered = 1 .. Len(delivered)
          /\ Range(delivered) = {delivered[i] : i \in 1 .. Len(delivered)}
          /\ DOMAIN sdList[s] = 1 .. Len(sdList[s])
          /\ Range(sdList[s]) = {sdList[s][i] : i \in 1 .. Len(sdList[s])}
        BY <2>1, LineTypes, LenProperties, RangeEquality
    <2> HIDE DEF x
    <2>6. CASE x \in Range(delivered)
        BY <2>5, <2>6 DEF x
    <2>7. CASE x \in Range(sdList[s])
        <3>1. PICK i \in 1 .. Len(sdList[s]) : sdList[s][i] = x
            BY <2>5, <2>7
        <3>2. sdList[s] # << >>
            BY <3>1
        <3>3. AllocFails
            BY <2>4, <3>2
        <3> QED BY <2>5, <3>1, <3>3 DEF x
    <2> QED BY <2>2, <2>3, <2>6, <2>7 DEF x
<1>2. ASSUME RestInv, Asleep
      PROVE  Answers <= flushes /\ (~AllocFails => Answers = flushes)
    <2>1. TypeOK /\ FlushCount
        BY <1>2 DEF RestInv, PathInv
    <2>2. delivered \in Seq(Event) /\ flushes \in Nat
        BY <2>1, BoundsAssumption DEF TypeOK
    <2>3. Out = delivered /\ Len(flushing) = 0
        BY <1>2, <2>2, ConcatEmptySeq DEF Asleep, Out
    <2>4. Answers = FlushesIn(Out) /\ FlushesIn(Out) \in Nat
        BY <2>2, <2>3, FlushesCounted DEF Answers, FlushesIn, FlushPlaces
    <2> QED BY <2>1, <2>2, <2>3, <2>4 DEF FlushCount
<1>3. RestInv => NothingStranded
    BY <1>1, <1>2 DEF NothingStranded
<1> QED BY <1>3, RestInvAlways, PTL
=============================================================================
