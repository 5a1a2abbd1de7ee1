---------------------- MODULE BoschSimpleListHeap_proofs ----------------------
(***************************************************************************)
(* The list of the code, for every number of lists, nodes and data and for *)
(* every limit.                                                            *)
(*                                                                         *)
(* TailIsLast and HeapIsTheLists speak of the nodes a walk from the head   *)
(* meets.  The proof names that walk: Shape(P, ...) says that P lists the  *)
(* nodes of each list in order, that no node is in two places and that no  *)
(* other node is allocated.  Every operation is then a change of P: a node *)
(* behind the last, the first e nodes gone, one list behind another.  That *)
(* the walk meets P (StepsFollow) is the only induction.                   *)
(***************************************************************************)
EXTENDS BoschSimpleListHeap, FiniteSetTheorems, SequenceTheorems,
        WellFoundedInduction, TLAPS

-----------------------------------------------------------------------------
(* Induction over a set of naturals, and the walk along the links.         *)

\* There is a well-founded relation that is "less than" on the naturals.
LEMMA LessRelation ==
    \E R : /\ IsWellFoundedOn(R, Nat)
           /\ \A m, n \in Nat : <<m, n>> \in R <=> m < n
<1>1. \A m, n \in Nat : <<m, n>> \in OpToRel(<, Nat) <=> m < n
  BY DEF OpToRel
<1> WITNESS OpToRel(<, Nat)
<1> QED BY <1>1, NatLessThanWellFounded, Zenon

\* A set of naturals that holds 0 and the successors of its members holds all.
LEMMA SetInduction ==
    ASSUME NEW T, 0 \in T, \A n \in Nat : n \in T => n + 1 \in T
    PROVE  Nat \subseteq T
<1>1. PICK R : /\ IsWellFoundedOn(R, Nat)
               /\ \A m, n \in Nat : <<m, n>> \in R <=> m < n
  BY LessRelation
<1> DEFINE U == Nat \ T
<1>2. SUFFICES ASSUME U # {} PROVE FALSE
  OBVIOUS
<1>3. \E n \in U : \A m \in U : ~ (<<m, n>> \in R)
  <2>1. IsWellFoundedOn(R, Nat) /\ U \subseteq Nat
    BY <1>1
  <2> HIDE DEF U
  <2> QED BY <2>1, <1>2, WFMin, Zenon
<1>4. PICK n \in U : \A m \in U : ~ (<<m, n>> \in R)
  BY <1>3, Zenon
<1>5. n \in Nat /\ n \notin T /\ n # 0
  OBVIOUS
<1>6. n - 1 \in Nat /\ n - 1 < n /\ (n - 1) + 1 = n
  BY <1>5
<1>7. n - 1 \in U
  BY <1>5, <1>6
<1>8. <<n - 1, n>> \in R
  BY <1>1, <1>5, <1>6, Zenon
<1> QED BY <1>4, <1>7, <1>8, Zenon

\* g lists the pointers reached in 0 to i steps.
Walk(g, nx, p, i) == g = [k \in 0..i |-> IF k = 0 THEN p ELSE nx[g[k - 1]]]

\* There is such a g for every i: each step adds one pointer.
LEMMA WalkExists ==
    ASSUME NEW nx, NEW p
    PROVE  \A i \in Nat : \E g : Walk(g, nx, p, i)
<1> DEFINE T == {i \in Nat : \E g : Walk(g, nx, p, i)}
<1>1. 0 \in T
  <2> DEFINE g == [k \in 0..0 |-> p]
  <2>1. Walk(g, nx, p, 0)
    BY DEF Walk
  <2> QED BY <2>1
<1>2. ASSUME NEW i \in Nat, i \in T PROVE i + 1 \in T
  <2>1. PICK g : Walk(g, nx, p, i)
    BY <1>2
  <2> DEFINE h == [k \in 0..(i + 1) |-> IF k = i + 1 THEN nx[g[i]] ELSE g[k]]
  <2>2. ASSUME NEW k \in 0..(i + 1)
        PROVE  h[k] = IF k = 0 THEN p ELSE nx[h[k - 1]]
    <3>1. CASE k = i + 1
      BY <3>1
    <3>2. CASE k # i + 1
      <4>1. k \in 0..i /\ (k # 0 => k - 1 \in 0..(i + 1) /\ k - 1 # i + 1)
        BY <3>2
      <4>2. g[k] = IF k = 0 THEN p ELSE nx[g[k - 1]]
        BY <2>1, <4>1 DEF Walk
      <4> QED BY <3>2, <4>1, <4>2
    <3> QED BY <3>1, <3>2
  <2>3. h = [k \in 0..(i + 1) |-> IF k = 0 THEN p ELSE nx[h[k - 1]]]
    <3>1. h = [k \in 0..(i + 1) |-> h[k]]
      OBVIOUS
    <3> HIDE DEF h
    <3> QED BY <2>2, <3>1
  <2>4. Walk(h, nx, p, i + 1)
    BY <2>3 DEF Walk
  <2> QED BY <2>4
<1>3. Nat \subseteq T
  <2> HIDE DEF T
  <2> QED BY <1>1, <1>2, SetInduction
<1> QED BY <1>3

\* Steps is where a walk of i steps ends.
LEMMA StepsWalks ==
    ASSUME NEW nx, NEW p, NEW i \in Nat
    PROVE  \E g : Walk(g, nx, p, i) /\ Steps(nx, p, i) = g[i]
<1> DEFINE f == CHOOSE g : g = [k \in 0..i |-> IF k = 0 THEN p ELSE nx[g[k - 1]]]
<1>1. \E g : g = [k \in 0..i |-> IF k = 0 THEN p ELSE nx[g[k - 1]]]
  <2>1. \E g : Walk(g, nx, p, i)
    BY WalkExists
  <2> QED BY <2>1, Zenon DEF Walk
<1>2. f = [k \in 0..i |-> IF k = 0 THEN p ELSE nx[f[k - 1]]]
  BY <1>1, Zenon
<1>3. Steps(nx, p, i) = f[i]
  BY Zenon DEF Steps
<1> QED BY <1>2, <1>3 DEF Walk

\* Steps follows any sequence of pointers that are linked as `nx' says.
LEMMA StepsFollow ==
    ASSUME NEW nx, NEW i \in Nat, NEW s, \A k \in 1..i : s[k] = nx[s[k - 1]]
    PROVE  Steps(nx, s[0], i) = s[i]
<1> DEFINE p == s[0]
<1>1. PICK g : Walk(g, nx, p, i) /\ Steps(nx, p, i) = g[i]
  BY StepsWalks
<1> DEFINE T == {k \in Nat : k <= i => g[k] = s[k]}
<1>2. 0 \in T
  BY <1>1 DEF Walk
<1>3. ASSUME NEW k \in Nat, k \in T PROVE k + 1 \in T
  <2>1. SUFFICES ASSUME k + 1 <= i PROVE g[k + 1] = s[k + 1]
    OBVIOUS
  <2>2. k + 1 \in 0..i /\ k + 1 \in 1..i /\ (k + 1) - 1 = k /\ k + 1 # 0
    BY <2>1
  <2>3. g[k + 1] = nx[g[k]]
    BY <1>1, <2>2 DEF Walk
  <2>4. s[k + 1] = nx[s[k]]
    BY <2>2
  <2>5. g[k] = s[k]
    BY <1>3, <2>1
  <2> QED BY <2>3, <2>4, <2>5
<1>4. Nat \subseteq T
  <2> HIDE DEF T
  <2> QED BY <1>2, <1>3, SetInduction
<1>5. g[i] = s[i]
  BY <1>4
<1> QED BY <1>1, <1>5

-----------------------------------------------------------------------------
(* The invariant.                                                          *)

\* P[l] lists the nodes of l from the head to the tail.
Linked(P, hd, tl, ln, nx) ==
    \A l \in List :
        /\ P[l] \in [1..ln[l] -> Node]
        /\ ln[l] = 0 => hd[l] = Null
        /\ ln[l] # 0 => /\ hd[l] = P[l][1]
                        /\ tl[l] = P[l][ln[l]]
                        /\ nx[tl[l]] = Null
        /\ \A i \in 1..(ln[l] - 1) : nx[P[l][i]] = P[l][i + 1]

\* No node is in two places.
Apart(P, ln) ==
    \A l, m \in List : \A i \in 1..ln[l], j \in 1..ln[m] :
        P[l][i] = P[m][j] => l = m /\ i = j

\* The allocated nodes are those of the lists.
Allocated(P, ln, al) ==
    \A n : n \in al <=> \E l \in List : \E i \in 1..ln[l] : P[l][i] = n

Shape(P, hd, tl, ln, nx, al) ==
    Linked(P, hd, tl, ln, nx) /\ Apart(P, ln) /\ Allocated(P, ln, al)

IInv == TypeOK /\ \E P : Shape(P, head, tail, len, next, alloc)

\* The data in the order of the nodes.
Contents(P, ln, dt) ==
    [l \in List |-> [i \in 1..ln[l] |-> dt[P[l][i]]]]

\* The same, read by following the links.
LinkedContents(hd, ln, nx, dt) ==
    [l \in List |-> [i \in 1..ln[l] |-> dt[Steps(nx, hd[l], i - 1)]]]

\* A list has room for one node at least.
LEMMA CapType == Cap \in Nat \ {0}
BY HeapAssumption DEF Cap, SetUplimit

\* The pointers reached from the head are the nodes of P, then comes NULL.
LEMMA ShapeSteps ==
    ASSUME NEW P, NEW hd, NEW tl, NEW ln \in [List -> Nat], NEW nx, NEW al,
           Shape(P, hd, tl, ln, nx, al), NEW l \in List
    PROVE  \A i \in 0..ln[l] :
              Steps(nx, hd[l], i) = IF i = ln[l] THEN Null ELSE P[l][i + 1]
<1> DEFINE s == [i \in 0..ln[l] |-> IF i = ln[l] THEN Null ELSE P[l][i + 1]]
           n == ln[l]
           p == hd[l]
<1>0. n \in Nat
  OBVIOUS
<1>1. s[0] = p
  BY <1>0 DEF Shape, Linked
<1>2. ASSUME NEW k \in 1..n PROVE s[k] = nx[s[k - 1]]
  <2>1. k - 1 \in 0..n /\ k - 1 # n /\ (k - 1) + 1 = k
    BY <1>0
  <2>2. s[k - 1] = P[l][k]
    BY <2>1
  <2>3. CASE k = n
    <3>1. nx[P[l][k]] = Null
      BY <2>3, <1>0 DEF Shape, Linked
    <3> QED BY <2>2, <2>3, <3>1
  <2>4. CASE k # n
    <3>1. nx[P[l][k]] = P[l][k + 1]
      BY <2>4, <1>0 DEF Shape, Linked
    <3> QED BY <2>2, <2>4, <3>1
  <2> QED BY <2>3, <2>4
<1>3. \A i \in 0..n : Steps(nx, p, i) = s[i]
  <2> SUFFICES ASSUME NEW i \in 0..n PROVE Steps(nx, p, i) = s[i]
    OBVIOUS
  <2>1. i \in Nat /\ \A k \in 1..i : k \in 1..n
    BY <1>0
  <2> HIDE DEF s, n, p
  <2>2. \A k \in 1..i : s[k] = nx[s[k - 1]]
    BY <1>2, <2>1
  <2>3. Steps(nx, s[0], i) = s[i]
    BY <2>1, <2>2, StepsFollow
  <2> QED BY <1>1, <2>3
<1> QED BY <1>3

\* The nodes NodeAt finds are those of P.
LEMMA ShapeNodes ==
    ASSUME TypeOK, NEW P, Shape(P, head, tail, len, next, alloc), NEW l \in List
    PROVE  \A i \in 1..len[l] : NodeAt(l, i) = P[l][i]
<1>1. len \in [List -> Nat]
  BY CapType DEF TypeOK
<1> SUFFICES ASSUME NEW i \in 1..len[l] PROVE NodeAt(l, i) = P[l][i]
  OBVIOUS
<1>2. i - 1 \in 0..len[l] /\ i - 1 # len[l] /\ (i - 1) + 1 = i
  BY <1>1
<1> QED BY <1>1, <1>2, ShapeSteps DEF NodeAt

\* Following the links reads the data of P.
LEMMA ShapeContents ==
    ASSUME NEW P, NEW hd, NEW tl, NEW ln \in [List -> Nat], NEW nx, NEW al,
           Shape(P, hd, tl, ln, nx, al), NEW dt
    PROVE  LinkedContents(hd, ln, nx, dt) = Contents(P, ln, dt)
<1>1. ASSUME NEW l \in List, NEW i \in 1..ln[l]
      PROVE  Steps(nx, hd[l], i - 1) = P[l][i]
  <2>1. i - 1 \in 0..ln[l] /\ i - 1 # ln[l] /\ (i - 1) + 1 = i
    OBVIOUS
  <2> QED BY <2>1, ShapeSteps
<1> QED BY <1>1 DEF Contents, LinkedContents

\* The tail is the last node of P.
LEMMA ShapeTail ==
    ASSUME TypeOK, NEW P, Shape(P, head, tail, len, next, alloc)
    PROVE  TailIsLast
<1> SUFFICES ASSUME NEW l \in List
             PROVE  /\ head[l] = Null <=> len[l] = 0
                    /\ len[l] # 0 => /\ tail[l] = NodeAt(l, len[l])
                                     /\ next[tail[l]] = Null
  BY DEF TailIsLast
<1>1. len[l] \in Nat
  BY CapType DEF TypeOK
<1>2. CASE len[l] = 0
  BY <1>2 DEF Shape, Linked
<1>3. CASE len[l] # 0
  <2>1. 1 \in 1..len[l] /\ len[l] \in 1..len[l]
    BY <1>1, <1>3
  <2>2. head[l] \in Node
    BY <1>3, <2>1 DEF Shape, Linked
  <2>3. head[l] # Null
    BY <2>2, HeapAssumption DEF Node, Null
  <2>4. tail[l] = P[l][len[l]] /\ next[tail[l]] = Null
    BY <1>3 DEF Shape, Linked
  <2>5. NodeAt(l, len[l]) = P[l][len[l]]
    BY <2>1, ShapeNodes
  <2> QED BY <1>3, <2>3, <2>4, <2>5
<1> QED BY <1>2, <1>3

\* P maps the positions of a list one to one to its nodes.
LEMMA ShapeHeap ==
    ASSUME TypeOK, NEW P, Shape(P, head, tail, len, next, alloc)
    PROVE  HeapIsTheLists
<1>1. ASSUME NEW l \in List
      PROVE  /\ len[l] \in Nat
             /\ P[l] \in [1..len[l] -> Node]
             /\ NodesOf(l) = {P[l][i] : i \in 1..len[l]}
  <2>1. len[l] \in Nat /\ P[l] \in [1..len[l] -> Node]
    BY CapType DEF TypeOK, Shape, Linked
  <2>2. \A i \in 1..len[l] : NodeAt(l, i) = P[l][i]
    BY ShapeNodes
  <2> QED BY <2>1, <2>2 DEF NodesOf
<1>2. ASSUME NEW l \in List PROVE Cardinality(NodesOf(l)) = len[l]
  <2> DEFINE S == NodesOf(l)
  <2>1. P[l] \in Bijection(1..len[l], S)
    <3>1. P[l] \in [1..len[l] -> S]
      BY <1>1
    <3>2. \A i, j \in 1..len[l] : P[l][i] = P[l][j] => i = j
      BY DEF Shape, Apart
    <3>3. \A n \in S : \E i \in 1..len[l] : P[l][i] = n
      BY <1>1
    <3> HIDE DEF S
    <3> QED BY <3>1, <3>2, <3>3
            DEF Bijection, Injection, Surjection, IsInjective
  <2>2. IsFiniteSet(1..len[l]) /\ Cardinality(1..len[l]) = len[l]
    <3>1. len[l] \in Nat /\ len[l] \in Int /\ 1 \in Int
      BY <1>1
    <3>2. /\ IsFiniteSet(1..len[l])
          /\ Cardinality(1..len[l]) = IF 1 > len[l] THEN 0 ELSE len[l] - 1 + 1
      BY <3>1, FS_Interval, Zenon
    <3> QED BY <3>1, <3>2
  <2>3. ExistsBijection(1..len[l], S)
    BY <2>1 DEF ExistsBijection
  <2> HIDE DEF S
  <2>4. Cardinality(1..len[l]) = Cardinality(S)
    BY <2>2, <2>3, FS_Bijection
  <2> QED BY <2>2, <2>4 DEF S
<1>3. ASSUME NEW l \in List, NEW m \in List, l # m
      PROVE  NodesOf(l) \cap NodesOf(m) = {}
  BY <1>1, <1>3 DEF Shape, Apart
<1>4. alloc = UNION {NodesOf(l) : l \in List}
  BY <1>1 DEF Shape, Allocated
<1> QED BY <1>2, <1>3, <1>4 DEF HeapIsTheLists

-----------------------------------------------------------------------------
(* Each operation: the nodes of the lists after it, and their contents.    *)

\* What the head points to: the first node, and from there the second.
LEMMA Front ==
    ASSUME TypeOK, NEW P, Shape(P, head, tail, len, next, alloc), NEW l \in List
    PROVE  /\ len[l] \in Nat /\ len[l] <= Cap
           /\ P[l] \in [1..len[l] -> Node]
           /\ head[l] = IF len[l] = 0 THEN Null ELSE P[l][1]
           /\ len[l] # 0 =>
                /\ next[head[l]] = IF len[l] = 1 THEN Null ELSE P[l][2]
                /\ tail[l] = P[l][len[l]] /\ next[tail[l]] = Null
<1>1. len[l] \in Nat /\ len[l] <= Cap
  BY CapType DEF TypeOK
<1>2. /\ P[l] \in [1..len[l] -> Node]
      /\ head[l] = IF len[l] = 0 THEN Null ELSE P[l][1]
      /\ len[l] # 0 => tail[l] = P[l][len[l]] /\ next[tail[l]] = Null
  BY <1>1 DEF Shape, Linked
<1>3. ASSUME len[l] # 0, len[l] # 1 PROVE next[P[l][1]] = P[l][2]
  <2>1. 1 \in 1..(len[l] - 1) /\ 1 + 1 = 2
    BY <1>1, <1>3
  <2> QED BY <2>1 DEF Shape, Linked
<1> QED BY <1>1, <1>2, <1>3

\* list_add_rear: one node behind the last, the first one gone if the list was
\* full.
LEMMA AddKeeps ==
    ASSUME TypeOK, NEW P, Shape(P, head, tail, len, next, alloc),
           NEW l \in List, NEW x \in Data, ListAddRear(l, x)
    PROVE  /\ TypeOK'
           /\ \E Q : /\ Shape(Q, head', tail', len', next', alloc')
                     /\ Contents(Q, len', data') =
                          [Contents(P, len, data) EXCEPT ![l] = AddRear(@, x, Cap)]
<1>1. PICK n \in Node \ alloc :
        LET full == len[l] = Cap
            first == IF full THEN next[head[l]] ELSE head[l]
        IN  /\ data' = [data EXCEPT ![n] = x]
            /\ tail' = [tail EXCEPT ![l] = n]
            /\ IF first = Null
               THEN /\ head' = [head EXCEPT ![l] = n]
                    /\ next' = [next EXCEPT ![n] = Null]
               ELSE /\ head' = [head EXCEPT ![l] = first]
                    /\ next' = [next EXCEPT ![n] = Null, ![tail[l]] = n]
            /\ len' = [len EXCEPT ![l] = IF full THEN @ ELSE @ + 1]
            /\ alloc' = (alloc \cup {n}) \ (IF full THEN {head[l]} ELSE {})
  BY DEF ListAddRear
<1> DEFINE o == IF len[l] = Cap THEN 1 ELSE 0
           k == len[l] - o
           R == [i \in 1..(k + 1) |-> IF i = k + 1 THEN n ELSE P[l][i + o]]
           Q == [m \in List |-> IF m = l THEN R ELSE P[m]]
           first == IF len[l] = Cap THEN next[head[l]] ELSE head[l]
<1>2. /\ o \in 0..1 /\ k \in Nat /\ len[l] = k + o /\ k < Cap /\ Cap \in Nat
      /\ \A i \in 1..k : i + o \in 1..len[l]
  BY Front, CapType
<1>3. first = IF k = 0 THEN Null ELSE P[l][1 + o]
  BY Front, CapType
<1>4. \A m \in List : P[m] \in [1..len[m] -> Node \ {n}]
  <2>1. ASSUME NEW m \in List, NEW i \in 1..len[m]
        PROVE  P[m][i] \in Node /\ P[m][i] # n
    BY <1>1 DEF Shape, Linked, Allocated
  <2> QED BY <2>1, Front
<1>5. \A p \in Node : p # 0 /\ p # Null /\ p \in Ptr
  BY HeapAssumption DEF Node, Ptr, Null
<1>6. first = Null <=> k = 0
  <2>1. k # 0 => 1 + o \in 1..len[l]
    BY <1>2
  <2>2. k # 0 => P[l][1 + o] \in Node
    BY <1>4, <2>1
  <2>3. k # 0 => P[l][1 + o] # Null
    BY <1>5, <2>2
  <2> HIDE DEF first, k, o
  <2> QED BY <1>3, <2>3
<1>7. k # 0 => tail[l] \in Node \ {n} /\ tail[l] = P[l][k + o]
  <2>1. k # 0 => len[l] # 0 /\ len[l] \in 1..len[l]
    BY <1>2
  <2> QED BY <2>1, <1>2, <1>4, Front
<1>8. /\ len' = [len EXCEPT ![l] = k + 1]
      /\ head' = [head EXCEPT ![l] = IF k = 0 THEN n ELSE P[l][1 + o]]
      /\ tail' = [tail EXCEPT ![l] = n]
      /\ data' = [data EXCEPT ![n] = x]
  <2>1. (IF len[l] = Cap THEN len[l] ELSE len[l] + 1) = k + 1
    BY <1>2
  <2> QED BY <1>1, <1>3, <1>6, <2>1
<1>9. /\ next' \in [Ptr -> Ptr]
      /\ \A p \in Ptr : next'[p] = IF p = n THEN Null
                                  ELSE IF k # 0 /\ p = tail[l] THEN n ELSE next[p]
  <2>1. next \in [Ptr -> Ptr] /\ n \in Ptr /\ Null \in Ptr
    BY <1>5 DEF TypeOK, Ptr
  <2>2. CASE k = 0
    BY <1>1, <1>6, <2>1, <2>2
  <2>3. CASE k # 0
    <3>1. next' = [next EXCEPT ![n] = Null, ![tail[l]] = n]
      BY <1>1, <1>6, <2>3
    <3>2. tail[l] \in Ptr /\ tail[l] # n
      BY <1>5, <1>7, <2>3
    <3> QED BY <2>1, <2>3, <3>1, <3>2
  <2> QED BY <2>2, <2>3
<1>10. alloc' = (alloc \cup {n}) \ (IF o = 1 THEN {P[l][1]} ELSE {})
  BY <1>1, <1>2, Front
<1>11. R \in [1..(k + 1) -> Node]
  BY <1>2, <1>4
<1> HIDE DEF o, k, first
<1>12. TypeOK'
  <2>1. k + 1 \in 0..Cap /\ n \in Ptr /\ (k # 0 => P[l][1 + o] \in Ptr)
    <3>1. k # 0 => 1 + o \in 1..len[l]
      BY <1>2
    <3> QED BY <1>2, <1>4, <1>5, <3>1
  <2>2. alloc' \subseteq Node
    BY <1>10 DEF TypeOK
  <2>3. data' \in [Ptr -> Data]
    BY <1>8 DEF TypeOK
  <2> QED BY <1>8, <1>9, <2>1, <2>2, <2>3 DEF TypeOK
<1>13. \A m \in List : len'[m] = (IF m = l THEN k + 1 ELSE len[m])
  BY <1>8 DEF TypeOK
<1>14. Linked(Q, head', tail', len', next')
  <2> SUFFICES ASSUME NEW m \in List
               PROVE  /\ Q[m] \in [1..len'[m] -> Node]
                      /\ len'[m] = 0 => head'[m] = Null
                      /\ len'[m] # 0 => /\ head'[m] = Q[m][1]
                                        /\ tail'[m] = Q[m][len'[m]]
                                        /\ next'[tail'[m]] = Null
                      /\ \A i \in 1..(len'[m] - 1) : next'[Q[m][i]] = Q[m][i + 1]
    BY DEF Linked
  <2>1. CASE m = l
    <3>1. len'[m] = k + 1 /\ Q[m] = R /\ tail'[m] = n
      BY <1>8, <1>13, <2>1 DEF TypeOK
    <3>2. head'[m] = R[1] /\ R[k + 1] = n
      <4>1. head'[m] = IF k = 0 THEN n ELSE P[l][1 + o]
        BY <1>8, <2>1 DEF TypeOK
      <4> QED BY <1>2, <4>1
    <3>3. next'[n] = Null
      BY <1>5, <1>9
    <3>4. ASSUME NEW i \in 1..k PROVE next'[R[i]] = R[i + 1]
      <4>1. i + o \in 1..len[l] /\ R[i] = P[l][i + o]
        BY <1>2
      <4>2. R[i] \in Ptr /\ R[i] # n
        BY <4>1, <1>4, <1>5
      <4>3. CASE i = k
        <5>1. R[i] = tail[l] /\ R[i + 1] = n
          BY <1>2, <1>7, <4>1, <4>3
        <5> QED BY <1>2, <1>9, <4>2, <4>3, <5>1
      <4>4. CASE i # k
        <5>1. /\ i + o \in 1..(len[l] - 1) /\ k + o \in 1..len[l]
              /\ i + o # k + o /\ (i + o) + 1 = (i + 1) + o
              /\ i + 1 \in 1..(k + 1) /\ i + 1 # k + 1 /\ k # 0
          BY <1>2, <4>4
        <5>2. R[i] # tail[l]
          BY <1>7, <4>1, <5>1 DEF Shape, Apart
        <5>3. next[P[l][i + o]] = P[l][(i + 1) + o]
          BY <5>1 DEF Shape, Linked
        <5> QED BY <1>9, <4>1, <4>2, <5>1, <5>2, <5>3
      <4> QED BY <4>3, <4>4
    <3>5. k + 1 # 0 /\ (k + 1) - 1 = k
      BY <1>2
    <3> HIDE DEF R, Q
    <3> QED BY <1>11, <3>1, <3>2, <3>3, <3>4, <3>5
  <2>2. CASE m # l
    <3>1. /\ len'[m] = len[m] /\ Q[m] = P[m] /\ head'[m] = head[m]
          /\ tail'[m] = tail[m]
      BY <1>8, <1>13, <2>2 DEF TypeOK
    <3>2. ASSUME NEW i \in 1..len[m] PROVE next'[P[m][i]] = next[P[m][i]]
      <4>1. P[m][i] \in Ptr /\ P[m][i] # n
        BY <1>4, <1>5
      <4>2. k # 0 => P[m][i] # tail[l]
        <5>1. k # 0 => k + o \in 1..len[l]
          BY <1>2
        <5> QED BY <1>7, <2>2, <5>1 DEF Shape, Apart
      <4> QED BY <1>9, <4>1, <4>2
    <3>3. len[m] # 0 => len[m] \in 1..len[m]
      BY Front
    <3>4. \A i \in 1..(len[m] - 1) : i \in 1..len[m]
      BY Front
    <3> HIDE DEF Q
    <3> QED BY <3>1, <3>2, <3>3, <3>4 DEF Shape, Linked
  <2> QED BY <2>1, <2>2
<1>15. Apart(Q, len')
  <2> SUFFICES ASSUME NEW a \in List, NEW b \in List,
                      NEW i \in 1..len'[a], NEW j \in 1..len'[b],
                      Q[a][i] = Q[b][j]
               PROVE  a = b /\ i = j
    BY DEF Apart
  <2>1. ASSUME NEW c \in List, NEW h \in 1..len'[c]
        PROVE  \/ c = l /\ h = k + 1 /\ Q[c][h] = n
               \/ c = l /\ h + o \in 1..len[c] /\ Q[c][h] = P[c][h + o]
               \/ c # l /\ h \in 1..len[c] /\ Q[c][h] = P[c][h]
    BY <1>2, <1>13
  <2>2. ASSUME NEW c \in List, NEW h \in 1..len[c] PROVE P[c][h] # n
    BY <1>4
  <2>3. Apart(P, len)
    BY DEF Shape
  <2>4. o \in Int /\ i \in Int /\ j \in Int
    BY <1>2
  <2> HIDE DEF Q, R
  <2>5. CASE Q[a][i] = n
    <3>1. ASSUME NEW c \in List, NEW h \in 1..len'[c], Q[c][h] = n
          PROVE  c = l /\ h = k + 1
      BY <2>1, <2>2, <3>1
    <3>2. a = l /\ i = k + 1
      BY <2>5, <3>1
    <3>3. Q[b][j] = n
      BY <2>5
    <3>4. b = l /\ j = k + 1
      BY <3>1, <3>3
    <3> QED BY <3>2, <3>4
  <2>6. CASE Q[a][i] # n
    <3>1. \/ a = l /\ i + o \in 1..len[a] /\ Q[a][i] = P[a][i + o]
          \/ a # l /\ i \in 1..len[a] /\ Q[a][i] = P[a][i]
      BY <2>1, <2>6
    <3>2. \/ b = l /\ j + o \in 1..len[b] /\ Q[b][j] = P[b][j + o]
          \/ b # l /\ j \in 1..len[b] /\ Q[b][j] = P[b][j]
      BY <2>1, <2>6
    <3>3. a = b
      BY <2>3, <3>1, <3>2 DEF Apart
    <3> QED BY <2>3, <2>4, <3>1, <3>2, <3>3 DEF Apart
  <2> QED BY <2>5, <2>6
<1>16. Allocated(Q, len', alloc')
  <2> SUFFICES ASSUME NEW y
               PROVE  y \in alloc' <=> \E m \in List : \E i \in 1..len'[m] : Q[m][i] = y
    BY DEF Allocated
  <2>1. ASSUME NEW m \in List, NEW i \in 1..len'[m], Q[m][i] = y
        PROVE  y \in alloc'
    <3>1. CASE m = l /\ i = k + 1
      <4>1. y = n
        BY <1>13, <2>1, <3>1
      <4>2. o = 1 => P[l][1] # n
        <5>1. o = 1 => 1 \in 1..len[l]
          BY <1>2
        <5> QED BY <1>4, <5>1
      <4> QED BY <1>10, <4>1, <4>2
    <3>2. CASE m = l /\ i # k + 1
      <4>1. i + o \in 1..len[l] /\ y = P[l][i + o]
        BY <1>2, <1>13, <2>1, <3>2
      <4>2. y \in alloc
        BY <4>1 DEF Shape, Allocated
      <4>3. o = 1 => y # P[l][1]
        <5>1. o = 1 => 1 \in 1..len[l] /\ i + o # 1
          BY <1>2, <4>1
        <5> QED BY <4>1, <5>1 DEF Shape, Apart
      <4> QED BY <1>2, <1>10, <4>2, <4>3
    <3>3. CASE m # l
      <4>1. i \in 1..len[m] /\ y = P[m][i]
        BY <1>13, <2>1, <3>3
      <4>2. y \in alloc
        BY <4>1 DEF Shape, Allocated
      <4>3. o = 1 => y # P[l][1]
        <5>1. o = 1 => 1 \in 1..len[l]
          BY <1>2
        <5> QED BY <3>3, <4>1, <5>1 DEF Shape, Apart
      <4> QED BY <1>2, <1>10, <4>2, <4>3
    <3> QED BY <3>1, <3>2, <3>3
  <2>2. ASSUME y \in alloc'
        PROVE  \E m \in List : \E i \in 1..len'[m] : Q[m][i] = y
    <3>1. CASE y = n
      <4>1. k + 1 \in 1..len'[l] /\ Q[l][k + 1] = n
        BY <1>2, <1>13
      <4> HIDE DEF Q
      <4> QED BY <3>1, <4>1
    <3>2. CASE y # n
      <4>1. y \in alloc /\ (o = 1 => y # P[l][1])
        BY <1>10, <2>2, <3>2
      <4>2. PICK m \in List : \E i \in 1..len[m] : P[m][i] = y
        BY <4>1 DEF Shape, Allocated
      <4>3. PICK i \in 1..len[m] : P[m][i] = y
        BY <4>2
      <4>4. CASE m = l
        <5>1. i - o \in 1..k /\ (i - o) + o = i
          BY <1>2, <4>1, <4>3, <4>4
        <5>2. i - o \in 1..len'[l] /\ Q[l][i - o] = P[l][i]
          BY <1>2, <1>13, <5>1
        <5> HIDE DEF Q
        <5> QED BY <4>3, <4>4, <5>2
      <4>5. CASE m # l
        <5>1. i \in 1..len'[m] /\ Q[m][i] = P[m][i]
          BY <1>13, <4>5
        <5> HIDE DEF Q
        <5> QED BY <4>3, <5>1
      <4> QED BY <4>4, <4>5
    <3> QED BY <3>1, <3>2
  <2> QED BY <2>1, <2>2
<1>17. Contents(Q, len', data') =
          [Contents(P, len, data) EXCEPT ![l] = AddRear(@, x, Cap)]
  <2> DEFINE C(m) == [i \in 1..len[m] |-> data[P[m][i]]]
             D(m) == [i \in 1..len'[m] |-> data'[Q[m][i]]]
  <2>1. ASSUME NEW m \in List, m # l PROVE D(m) = C(m)
    <3>1. len'[m] = len[m] /\ Q[m] = P[m]
      BY <1>13, <2>1
    <3>2. \A i \in 1..len[m] : data'[P[m][i]] = data[P[m][i]]
      BY <1>4, <1>5, <1>8 DEF TypeOK
    <3> QED BY <3>1, <3>2
  <2>2. D(l) = AddRear(C(l), x, Cap)
    <3>1. C(l) \in Seq(Data) /\ Len(C(l)) = len[l]
      <4>1. \A i \in 1..len[l] : data[P[l][i]] \in Data
        BY <1>4, <1>5 DEF TypeOK
      <4>2. len[l] \in Nat
        BY Front
      <4> QED BY <4>1, <4>2
    <3> DEFINE E == IF len[l] = Cap THEN Tail(C(l)) ELSE C(l)
    <3>2. E \in Seq(Data) /\ Len(E) = k
             /\ \A i \in 1..k : E[i] = C(l)[i + o]
      BY <3>1, <1>2, CapType DEF o, k
    <3>3. AddRear(C(l), x, Cap) = Append(E, x)
      BY <3>1 DEF AddRear
    <3>4. Append(E, x) = [i \in 1..(k + 1) |-> IF i = k + 1 THEN x ELSE E[i]]
      <4> HIDE DEF E
      <4>1. /\ Append(E, x) \in Seq(Data)
            /\ Len(Append(E, x)) = Len(E) + 1
            /\ \A i \in 1..Len(E) : Append(E, x)[i] = E[i]
            /\ Append(E, x)[Len(E) + 1] = x
        BY <3>2, AppendProperties
      <4>2. Append(E, x) \in [1..(k + 1) -> Data]
        BY <1>2, <3>2, <4>1, LenProperties
      <4>3. ASSUME NEW i \in 1..(k + 1)
            PROVE  Append(E, x)[i] = IF i = k + 1 THEN x ELSE E[i]
        BY <1>2, <3>2, <4>1
      <4> QED BY <4>2, <4>3
    <3>5. D(l) = [i \in 1..(k + 1) |-> data'[R[i]]]
      BY <1>13
    <3>6. ASSUME NEW i \in 1..(k + 1)
          PROVE  data'[R[i]] = IF i = k + 1 THEN x ELSE E[i]
      <4>1. CASE i = k + 1
        BY <1>5, <1>8, <4>1 DEF TypeOK
      <4>2. CASE i # k + 1
        <5>1. i \in 1..k /\ i + o \in 1..len[l] /\ R[i] = P[l][i + o]
          BY <1>2, <4>2
        <5>2. P[l][i + o] \in Ptr /\ P[l][i + o] # n
          BY <1>4, <1>5, <5>1
        <5>3. data'[R[i]] = data[P[l][i + o]]
          BY <1>8, <5>1, <5>2 DEF TypeOK
        <5>4. E[i] = data[P[l][i + o]]
          BY <3>2, <5>1
        <5> QED BY <4>2, <5>3, <5>4
      <4> QED BY <4>1, <4>2
    <3> QED
      <4> HIDE DEF E, R, C, D
      <4> QED BY <3>3, <3>4, <3>5, <3>6
  <2>3. Contents(Q, len', data') = [m \in List |-> D(m)]
    BY DEF Contents
  <2>4. Contents(P, len, data) = [m \in List |-> C(m)]
    BY DEF Contents
  <2> HIDE DEF C, D
  <2> QED BY <2>1, <2>2, <2>3, <2>4
<1>18. Shape(Q, head', tail', len', next', alloc')
  BY <1>14, <1>15, <1>16 DEF Shape
<1> HIDE DEF Q
<1> QED BY <1>12, <1>17, <1>18

-----------------------------------------------------------------------------
(* The other operations unlink nodes at the front and splice lists.        *)

\* P without the first e nodes of l, which are freed.
Dropped(P, ln, l, e) ==
    [m \in List |-> IF m = l THEN [i \in 1..(ln[l] - e) |-> P[l][i + e]] ELSE P[m]]

Freed(P, l, e) == {P[l][i] : i \in 1..e}

\* P with the nodes of m behind those of l.
Spliced(P, ln, l, m) ==
    [k \in List |->
        IF k = l THEN [i \in 1..(ln[l] + ln[m]) |->
                          IF i <= ln[l] THEN P[l][i] ELSE P[m][i - ln[l]]]
        ELSE IF k = m THEN [i \in 1..0 |-> Null]
        ELSE P[k]]

\* The first e nodes of a list are unlinked and freed.
LEMMA DropShape ==
    ASSUME NEW P, NEW hd \in [List -> Ptr], NEW tl, NEW ln \in [List -> Nat],
           NEW nx, NEW al, Shape(P, hd, tl, ln, nx, al),
           NEW l \in List, NEW e \in 0..ln[l]
    PROVE  Shape(Dropped(P, ln, l, e),
                 [hd EXCEPT ![l] = IF e = ln[l] THEN Null ELSE P[l][e + 1]],
                 tl, [ln EXCEPT ![l] = ln[l] - e], nx,
                 al \ Freed(P, l, e))
<1> DEFINE Q == Dropped(P, ln, l, e)
           hd2 == [hd EXCEPT ![l] = IF e = ln[l] THEN Null ELSE P[l][e + 1]]
           ln2 == [ln EXCEPT ![l] = ln[l] - e]
           al2 == al \ Freed(P, l, e)
<1>1. \A m \in List : ln[m] \in Nat /\ P[m] \in [1..ln[m] -> Node]
  BY DEF Shape, Linked
<1>2. \A m \in List : ln2[m] = IF m = l THEN ln[l] - e ELSE ln[m]
  OBVIOUS
<1>3. ln[l] - e \in Nat /\ \A i \in 1..(ln[l] - e) : i + e \in 1..ln[l]
  BY <1>1
<1>4. Linked(Q, hd2, tl, ln2, nx)
  <2> SUFFICES ASSUME NEW m \in List
               PROVE  /\ Q[m] \in [1..ln2[m] -> Node]
                      /\ ln2[m] = 0 => hd2[m] = Null
                      /\ ln2[m] # 0 => /\ hd2[m] = Q[m][1]
                                       /\ tl[m] = Q[m][ln2[m]]
                                       /\ nx[tl[m]] = Null
                      /\ \A i \in 1..(ln2[m] - 1) : nx[Q[m][i]] = Q[m][i + 1]
    BY DEF Linked
  <2>1. CASE m = l
    <3>1. ln2[m] = ln[l] - e /\ Q[m] = [i \in 1..(ln[l] - e) |-> P[l][i + e]]
      BY <2>1 DEF Dropped
    <3>2. Q[m] \in [1..ln2[m] -> Node]
      <4>1. \A i \in 1..(ln[l] - e) : P[l][i + e] \in Node
        BY <1>1, <1>3
      <4> QED BY <3>1, <4>1
    <3>3. hd2[m] = IF e = ln[l] THEN Null ELSE P[l][e + 1]
      BY <2>1
    <3>4. ln2[m] # 0 => /\ hd2[m] = Q[m][1] /\ tl[m] = Q[m][ln2[m]]
                        /\ nx[tl[m]] = Null
      <4>1. ln2[m] # 0 => /\ 1 \in 1..ln2[m] /\ ln2[m] \in 1..ln2[m]
                          /\ ln[l] # 0 /\ e # ln[l] /\ ln2[m] + e = ln[l]
        BY <1>1, <1>3, <3>1
      <4> QED BY <2>1, <3>1, <3>3, <4>1 DEF Shape, Linked
    <3>5. ASSUME NEW i \in 1..(ln2[m] - 1) PROVE nx[Q[m][i]] = Q[m][i + 1]
      <4>1. /\ i \in 1..(ln[l] - e) /\ i + 1 \in 1..(ln[l] - e)
            /\ i + e \in 1..(ln[l] - 1) /\ (i + 1) + e = (i + e) + 1
        BY <1>1, <1>3, <3>1
      <4> QED BY <3>1, <4>1 DEF Shape, Linked
    <3>6. ln2[m] = 0 => hd2[m] = Null
      BY <1>1, <3>1, <3>3
    <3> HIDE DEF Q, hd2, ln2
    <3> QED BY <3>2, <3>4, <3>5, <3>6
  <2>2. CASE m # l
    BY <2>2 DEF Shape, Linked, Dropped
  <2> QED BY <2>1, <2>2
<1>5. ASSUME NEW c \in List, NEW h \in 1..ln2[c]
      PROVE  \/ c = l /\ h + e \in 1..ln[c] /\ Q[c][h] = P[c][h + e]
             \/ c # l /\ h \in 1..ln[c] /\ Q[c][h] = P[c][h]
  BY <1>2, <1>3 DEF Dropped
<1>6. Apart(Q, ln2)
  <2> SUFFICES ASSUME NEW a \in List, NEW b \in List,
                      NEW i \in 1..ln2[a], NEW j \in 1..ln2[b],
                      Q[a][i] = Q[b][j]
               PROVE  a = b /\ i = j
    BY DEF Apart
  <2>1. Apart(P, ln) /\ e \in Int /\ i \in Int /\ j \in Int
    BY DEF Shape
  <2> HIDE DEF Q, ln2
  <2>2. a = b
    BY <1>5, <2>1 DEF Apart
  <2> QED BY <1>5, <2>1, <2>2 DEF Apart
<1>7. Allocated(Q, ln2, al2)
  <2> SUFFICES ASSUME NEW y
               PROVE  y \in al2 <=> \E m \in List : \E i \in 1..ln2[m] : Q[m][i] = y
    BY DEF Allocated
  <2>0. \A i \in 1..e : i \in 1..ln[l]
    BY <1>1
  <2>1. ASSUME NEW m \in List, NEW i \in 1..ln2[m], Q[m][i] = y PROVE y \in al2
    <3>1. \/ m = l /\ i + e \in 1..ln[m] /\ y = P[m][i + e]
          \/ m # l /\ i \in 1..ln[m] /\ y = P[m][i]
      BY <1>5, <2>1
    <3>2. y \in al
      BY <3>1 DEF Shape, Allocated
    <3>3. ASSUME NEW j \in 1..e PROVE y # P[l][j]
      <4>1. j # i + e /\ j \in 1..ln[l]
        BY <1>1, <1>2, <2>0
      <4> QED BY <3>1, <4>1 DEF Shape, Apart
    <3> QED BY <3>2, <3>3 DEF Freed
  <2>2. ASSUME y \in al2
        PROVE  \E m \in List : \E i \in 1..ln2[m] : Q[m][i] = y
    <3>1. PICK m \in List : \E i \in 1..ln[m] : P[m][i] = y
      BY <2>2 DEF Shape, Allocated
    <3>2. PICK i \in 1..ln[m] : P[m][i] = y
      BY <3>1
    <3>3. CASE m = l
      <4>1. ~ (i \in 1..e)
        BY <2>2, <3>2, <3>3 DEF Freed
      <4>2. i - e \in 1..(ln[l] - e) /\ (i - e) + e = i
        BY <1>1, <3>3, <4>1
      <4>3. i - e \in 1..ln2[l] /\ Q[l][i - e] = y
        BY <1>2, <3>2, <3>3, <4>2 DEF Dropped
      <4> HIDE DEF Q, ln2
      <4> QED BY <4>3
    <3>4. CASE m # l
      <4>1. i \in 1..ln2[m] /\ Q[m][i] = y
        BY <1>2, <3>2, <3>4 DEF Dropped
      <4> HIDE DEF Q, ln2
      <4> QED BY <4>1
    <3> QED BY <3>3, <3>4
  <2> QED BY <2>1, <2>2
<1> QED BY <1>4, <1>6, <1>7 DEF Shape

\* The nodes of m are linked behind those of l, and m is left empty.
LEMMA SpliceShape ==
    ASSUME NEW P, NEW hd \in [List -> Ptr], NEW tl \in [List -> Ptr],
           NEW ln \in [List -> Nat], NEW nx \in [Ptr -> Ptr], NEW al,
           Shape(P, hd, tl, ln, nx, al),
           NEW l \in List, NEW m \in List, l # m, ln[m] # 0
    PROVE  Shape(Spliced(P, ln, l, m),
                 [hd EXCEPT ![l] = IF hd[l] = Null THEN hd[m] ELSE hd[l],
                            ![m] = Null],
                 [tl EXCEPT ![l] = tl[m], ![m] = Null],
                 [ln EXCEPT ![l] = ln[l] + ln[m], ![m] = 0],
                 IF hd[l] = Null THEN nx ELSE [nx EXCEPT ![tl[l]] = hd[m]],
                 al)
<1> DEFINE Q == Spliced(P, ln, l, m)
           hd2 == [hd EXCEPT ![l] = IF hd[l] = Null THEN hd[m] ELSE hd[l],
                             ![m] = Null]
           tl2 == [tl EXCEPT ![l] = tl[m], ![m] = Null]
           ln2 == [ln EXCEPT ![l] = ln[l] + ln[m], ![m] = 0]
           nx2 == IF hd[l] = Null THEN nx ELSE [nx EXCEPT ![tl[l]] = hd[m]]
<1>1. \A k \in List : ln[k] \in Nat /\ P[k] \in [1..ln[k] -> Node]
  BY DEF Shape, Linked
<1>2. \A k \in List : ln2[k] = IF k = l THEN ln[l] + ln[m]
                              ELSE IF k = m THEN 0 ELSE ln[k]
  OBVIOUS
<1>3. /\ ln[l] \in Nat /\ ln[m] \in Nat \ {0}
      /\ \A i \in 1..(ln[l] + ln[m]) : IF i <= ln[l] THEN i \in 1..ln[l]
                                         ELSE i - ln[l] \in 1..ln[m]
  BY <1>1
<1>4. \A p \in Node : p # Null /\ p \in Ptr
  BY HeapAssumption DEF Node, Ptr, Null
<1>5. hd[l] = Null <=> ln[l] = 0
  <2>1. ln[l] # 0 => 1 \in 1..ln[l] /\ hd[l] = P[l][1]
    BY <1>3 DEF Shape, Linked
  <2>2. ln[l] # 0 => hd[l] \in Node
    BY <1>1, <2>1
  <2> QED BY <1>4, <2>2 DEF Shape, Linked
<1>6. ln[l] # 0 => tl[l] = P[l][ln[l]] /\ tl[l] \in Ptr
  BY DEF Shape, Linked
<1>7. /\ hd[m] = P[m][1] /\ tl[m] = P[m][ln[m]] /\ nx[tl[m]] = Null
      /\ 1 \in 1..ln[m] /\ ln[m] \in 1..ln[m]
  BY <1>3 DEF Shape, Linked
<1>8. \A p \in Ptr : nx2[p] = IF ln[l] # 0 /\ p = tl[l] THEN P[m][1] ELSE nx[p]
  BY <1>5, <1>6, <1>7
<1>9. ASSUME NEW c \in List, NEW h \in 1..ln[c], ~ (c = l /\ h = ln[l])
      PROVE  nx2[P[c][h]] = nx[P[c][h]]
  <2>1. P[c][h] \in Ptr
    BY <1>1, <1>4
  <2>2. ln[l] # 0 => P[c][h] # tl[l]
    <3>1. ln[l] # 0 => ln[l] \in 1..ln[l]
      BY <1>3
    <3> QED BY <1>6, <1>9, <3>1 DEF Shape, Apart
  <2> HIDE DEF nx2
  <2> QED BY <1>8, <2>1, <2>2
<1>10. /\ Q[l] = [i \in 1..(ln[l] + ln[m]) |->
                     IF i <= ln[l] THEN P[l][i] ELSE P[m][i - ln[l]]]
       /\ Q[m] = [i \in 1..0 |-> Null]
       /\ \A k \in List : k # l /\ k # m => Q[k] = P[k]
  BY DEF Spliced
<1>11. Linked(Q, hd2, tl2, ln2, nx2)
  <2> SUFFICES ASSUME NEW k \in List
               PROVE  /\ Q[k] \in [1..ln2[k] -> Node]
                      /\ ln2[k] = 0 => hd2[k] = Null
                      /\ ln2[k] # 0 => /\ hd2[k] = Q[k][1]
                                       /\ tl2[k] = Q[k][ln2[k]]
                                       /\ nx2[tl2[k]] = Null
                      /\ \A i \in 1..(ln2[k] - 1) : nx2[Q[k][i]] = Q[k][i + 1]
    BY DEF Linked
  <2>1. CASE k = l
    <3>1. ln2[k] = ln[l] + ln[m] /\ tl2[k] = tl[m]
      BY <1>2, <2>1
    <3>2. Q[k] \in [1..ln2[k] -> Node]
      <4>1. ASSUME NEW i \in 1..(ln[l] + ln[m])
            PROVE  (IF i <= ln[l] THEN P[l][i] ELSE P[m][i - ln[l]]) \in Node
        BY <1>1, <1>3
      <4> QED BY <1>10, <2>1, <3>1, <4>1
    <3>3. hd2[k] = Q[k][1]
      <4>1. hd2[k] = IF ln[l] = 0 THEN hd[m] ELSE hd[l]
        BY <1>5, <2>1
      <4>2. 1 \in 1..(ln[l] + ln[m])
        BY <1>3
      <4>3. CASE ln[l] = 0
        BY <1>7, <1>10, <2>1, <4>1, <4>2, <4>3
      <4>4. CASE ln[l] # 0
        <5>1. hd[l] = P[l][1] /\ 1 <= ln[l]
          BY <1>3, <4>4 DEF Shape, Linked
        <5> QED BY <1>10, <2>1, <4>1, <4>2, <4>4, <5>1
      <4> QED BY <4>3, <4>4
    <3>4. tl2[k] = Q[k][ln2[k]]
      <4>1. /\ ln[l] + ln[m] \in 1..(ln[l] + ln[m])
            /\ ~ (ln[l] + ln[m] <= ln[l]) /\ (ln[l] + ln[m]) - ln[l] = ln[m]
        BY <1>3
      <4> QED BY <1>7, <1>10, <2>1, <3>1, <4>1
    <3>5. nx2[tl2[k]] = Null
      BY <1>7, <1>9, <3>1
    <3>6. ASSUME NEW i \in 1..(ln2[k] - 1) PROVE nx2[Q[k][i]] = Q[k][i + 1]
      <4>1. i \in 1..(ln[l] + ln[m]) /\ i + 1 \in 1..(ln[l] + ln[m])
        BY <1>3, <3>1
      <4>2. CASE i < ln[l]
        <5>1. i <= ln[l] /\ i + 1 <= ln[l] /\ i \in 1..(ln[l] - 1) /\ i \in 1..ln[l]
              /\ i # ln[l]
          BY <1>3, <4>1, <4>2
        <5>2. Q[k][i] = P[l][i] /\ Q[k][i + 1] = P[l][i + 1]
          BY <1>10, <2>1, <4>1, <5>1
        <5>3. nx2[P[l][i]] = nx[P[l][i]]
          BY <1>9, <5>1
        <5>4. nx[P[l][i]] = P[l][i + 1]
          BY <5>1 DEF Shape, Linked
        <5> QED BY <5>2, <5>3, <5>4
      <4>3. CASE i = ln[l]
        <5>1. i <= ln[l] /\ ~ (i + 1 <= ln[l]) /\ (i + 1) - ln[l] = 1 /\ ln[l] # 0
          BY <1>3, <4>1, <4>3
        <5>2. Q[k][i] = P[l][i] /\ Q[k][i + 1] = P[m][(i + 1) - ln[l]]
          BY <1>10, <2>1, <4>1, <5>1
        <5>3. Q[k][i] = tl[l] /\ tl[l] \in Ptr
          BY <1>6, <4>3, <5>1, <5>2
        <5>4. Q[k][i + 1] = P[m][1]
          BY <5>1, <5>2
        <5> HIDE DEF Q, nx2
        <5> QED BY <1>8, <5>1, <5>3, <5>4
      <4>4. CASE i > ln[l]
        <5>1. /\ ~ (i <= ln[l]) /\ ~ (i + 1 <= ln[l])
              /\ i - ln[l] \in 1..(ln[m] - 1) /\ i - ln[l] \in 1..ln[m]
              /\ (i + 1) - ln[l] = (i - ln[l]) + 1
          BY <1>3, <3>1, <4>1, <4>4
        <5>2. Q[k][i] = P[m][i - ln[l]] /\ Q[k][i + 1] = P[m][(i - ln[l]) + 1]
          BY <1>10, <2>1, <4>1, <5>1
        <5>3. nx2[P[m][i - ln[l]]] = nx[P[m][i - ln[l]]]
          BY <1>9, <5>1
        <5>4. nx[P[m][i - ln[l]]] = P[m][(i - ln[l]) + 1]
          BY <5>1 DEF Shape, Linked
        <5> QED BY <5>2, <5>3, <5>4
      <4> QED BY <1>3, <4>1, <4>2, <4>3, <4>4
    <3>7. ln2[k] # 0
      BY <1>3, <3>1
    <3> HIDE DEF Q, hd2, tl2, ln2, nx2
    <3> QED BY <3>2, <3>3, <3>4, <3>5, <3>6, <3>7
  <2>2. CASE k = m
    <3>1. ln2[k] = 0 /\ hd2[k] = Null /\ Q[k] = [i \in 1..0 |-> Null]
      BY <1>2, <1>10, <2>2
    <3>2. Q[k] \in [1..ln2[k] -> Node]
      BY <3>1
    <3> HIDE DEF Q, hd2, tl2, ln2, nx2
    <3> QED BY <3>1, <3>2
  <2>3. CASE k # l /\ k # m
    <3>1. ln2[k] = ln[k] /\ Q[k] = P[k] /\ hd2[k] = hd[k] /\ tl2[k] = tl[k]
      BY <1>2, <1>10, <2>3
    <3>2. ln[k] # 0 => ln[k] \in 1..ln[k]
      BY <1>1
    <3>3. \A i \in 1..(ln[k] - 1) : i \in 1..ln[k]
      BY <1>1
    <3>4. \A i \in 1..ln[k] : nx2[P[k][i]] = nx[P[k][i]]
      BY <1>9, <2>3
    <3> HIDE DEF Q, hd2, tl2, ln2, nx2
    <3> QED BY <3>1, <3>2, <3>3, <3>4 DEF Shape, Linked
  <2> QED BY <2>1, <2>2, <2>3
<1>12. ASSUME NEW c \in List, NEW h \in 1..ln2[c]
       PROVE  \/ c = l /\ h \in 1..ln[l] /\ Q[c][h] = P[l][h]
              \/ c = l /\ h - ln[l] \in 1..ln[m] /\ Q[c][h] = P[m][h - ln[l]]
              \/ c # l /\ c # m /\ h \in 1..ln[c] /\ Q[c][h] = P[c][h]
  BY <1>2, <1>3, <1>10
<1>13. Apart(Q, ln2)
  <2> SUFFICES ASSUME NEW a \in List, NEW b \in List,
                      NEW i \in 1..ln2[a], NEW j \in 1..ln2[b],
                      Q[a][i] = Q[b][j]
               PROVE  a = b /\ i = j
    BY DEF Apart
  <2> HIDE DEF Q, ln2
  <2>1. ASSUME NEW c \in List, NEW h \in 1..ln2[c]
        PROVE  \E d \in List : \E g \in 1..ln[d] :
                  /\ Q[c][h] = P[d][g]
                  /\ d = l => c = l /\ g = h
                  /\ d = m => c = l /\ g = h - ln[l]
                  /\ d # l /\ d # m => c = d /\ g = h
    BY <1>12
  <2>2. PICK d \in List : \E g \in 1..ln[d] :
                  /\ Q[a][i] = P[d][g]
                  /\ d = l => a = l /\ g = i
                  /\ d = m => a = l /\ g = i - ln[l]
                  /\ d # l /\ d # m => a = d /\ g = i
    BY <2>1
  <2>3. PICK g \in 1..ln[d] :
                  /\ Q[a][i] = P[d][g]
                  /\ d = l => a = l /\ g = i
                  /\ d = m => a = l /\ g = i - ln[l]
                  /\ d # l /\ d # m => a = d /\ g = i
    BY <2>2
  <2>4. PICK e \in List : \E h \in 1..ln[e] :
                  /\ Q[b][j] = P[e][h]
                  /\ e = l => b = l /\ h = j
                  /\ e = m => b = l /\ h = j - ln[l]
                  /\ e # l /\ e # m => b = e /\ h = j
    BY <2>1
  <2>5. PICK h \in 1..ln[e] :
                  /\ Q[b][j] = P[e][h]
                  /\ e = l => b = l /\ h = j
                  /\ e = m => b = l /\ h = j - ln[l]
                  /\ e # l /\ e # m => b = e /\ h = j
    BY <2>4
  <2>6. d = e /\ g = h
    <3>1. P[d][g] = P[e][h]
      BY <2>3, <2>5
    <3> QED BY <3>1 DEF Shape, Apart
  <2>7. a = b
    BY <2>3, <2>5, <2>6
  <2>8. CASE d = m
    <3>1. i - ln[l] = j - ln[l] /\ ln[l] \in Int /\ i \in Int /\ j \in Int
      BY <1>3, <2>3, <2>5, <2>6, <2>8
    <3> QED BY <2>7, <3>1
  <2>9. CASE d # m
    BY <2>3, <2>5, <2>6, <2>7, <2>9
  <2> QED BY <2>8, <2>9
<1>14. Allocated(Q, ln2, al)
  <2> SUFFICES ASSUME NEW y
               PROVE  y \in al <=> \E c \in List : \E i \in 1..ln2[c] : Q[c][i] = y
    BY DEF Allocated
  <2>1. ASSUME NEW c \in List, NEW i \in 1..ln2[c], Q[c][i] = y PROVE y \in al
    BY <1>12, <2>1 DEF Shape, Allocated
  <2>2. ASSUME y \in al
        PROVE  \E c \in List : \E i \in 1..ln2[c] : Q[c][i] = y
    <3>1. PICK c \in List : \E i \in 1..ln[c] : P[c][i] = y
      BY <2>2 DEF Shape, Allocated
    <3>2. PICK i \in 1..ln[c] : P[c][i] = y
      BY <3>1
    <3>3. CASE c = l
      <4>1. i \in 1..ln2[l] /\ i <= ln[l] /\ i \in 1..(ln[l] + ln[m])
        BY <1>2, <1>3, <3>3
      <4>2. Q[l][i] = y
        BY <1>10, <3>2, <3>3, <4>1
      <4> HIDE DEF Q, ln2
      <4> QED BY <4>1, <4>2
    <3>4. CASE c = m
      <4>1. /\ i + ln[l] \in 1..ln2[l] /\ ~ (i + ln[l] <= ln[l])
            /\ i + ln[l] \in 1..(ln[l] + ln[m]) /\ (i + ln[l]) - ln[l] = i
        BY <1>2, <1>3, <3>4
      <4>2. Q[l][i + ln[l]] = y
        BY <1>10, <3>2, <3>4, <4>1
      <4> HIDE DEF Q, ln2
      <4> QED BY <4>1, <4>2
    <3>5. CASE c # l /\ c # m
      <4>1. i \in 1..ln2[c] /\ Q[c][i] = y
        BY <1>2, <1>10, <3>2, <3>5
      <4> HIDE DEF Q, ln2
      <4> QED BY <4>1
    <3> QED BY <3>3, <3>4, <3>5
  <2> QED BY <2>1, <2>2
<1> QED BY <1>11, <1>13, <1>14 DEF Shape

\* list_get_headdata: the first node gone.
LEMMA GetKeeps ==
    ASSUME TypeOK, NEW P, Shape(P, head, tail, len, next, alloc),
           NEW l \in List, ListGetHeaddata(l)
    PROVE  /\ TypeOK'
           /\ \E Q : /\ Shape(Q, head', tail', len', next', alloc')
                     /\ Contents(Q, len', data') =
                          [Contents(P, len, data) EXCEPT ![l] = GetHead(@)]
<1> DEFINE Q == Dropped(P, len, l, 1)
<1>1. /\ head \in [List -> Ptr] /\ tail \in [List -> Ptr]
      /\ len \in [List -> Nat] /\ next \in [Ptr -> Ptr]
  BY CapType DEF TypeOK
<1>2. /\ len[l] # 0
      /\ head' = [head EXCEPT ![l] = next[head[l]]]
      /\ len' = [len EXCEPT ![l] = len[l] - 1]
      /\ alloc' = alloc \ {head[l]}
      /\ tail' = tail /\ next' = next /\ data' = data
  BY DEF ListGetHeaddata
<1>3. len[l] \in Nat \ {0} /\ 1 \in 0..len[l] /\ 1 \in 1..len[l]
  BY <1>1, <1>2
<1>4. next[head[l]] = (IF 1 = len[l] THEN Null ELSE P[l][1 + 1]) /\ head[l] = P[l][1]
  BY <1>2, Front
<1>5. {head[l]} = Freed(P, l, 1)
  BY <1>4 DEF Freed
<1>6. Shape(Q, head', tail', len', next', alloc')
  <2>1. Shape(Q, [head EXCEPT ![l] = IF 1 = len[l] THEN Null ELSE P[l][1 + 1]],
              tail, [len EXCEPT ![l] = len[l] - 1], next, alloc \ Freed(P, l, 1))
    BY <1>1, <1>3, DropShape
  <2> HIDE DEF Q
  <2> QED BY <1>2, <1>4, <1>5, <2>1
<1>7. TypeOK'
  <2>1. head[l] \in Ptr /\ len[l] - 1 \in 0..Cap
    BY <1>1, <1>3, Front, CapType
  <2> QED BY <1>1, <1>2, <2>1 DEF TypeOK
<1>8. Contents(Q, len', data') = [Contents(P, len, data) EXCEPT ![l] = GetHead(@)]
  <2> DEFINE C(m) == [i \in 1..len[m] |-> data[P[m][i]]]
             D(m) == [i \in 1..len'[m] |-> data'[Q[m][i]]]
  <2>1. ASSUME NEW m \in List, m # l PROVE D(m) = C(m)
    BY <1>1, <1>2, <2>1 DEF Dropped
  <2>2. D(l) = GetHead(C(l))
    <3>1. C(l) \in Seq(Data) /\ Len(C(l)) = len[l] /\ C(l) # << >>
      <4>1. \A i \in 1..len[l] : data[P[l][i]] \in Data
        BY Front DEF TypeOK, Ptr
      <4> QED BY <1>3, <4>1
    <3>2. GetHead(C(l)) = Tail(C(l))
      BY <3>1 DEF GetHead
    <3>3. Tail(C(l)) = [i \in 1..(len[l] - 1) |-> C(l)[i + 1]]
      BY <3>1, <1>3
    <3>4. D(l) = [i \in 1..(len[l] - 1) |-> data[P[l][i + 1]]]
      BY <1>1, <1>2, <1>3 DEF Dropped
    <3>5. \A i \in 1..(len[l] - 1) : C(l)[i + 1] = data[P[l][i + 1]]
      BY <1>3
    <3> HIDE DEF C, D
    <3> QED BY <3>2, <3>3, <3>4, <3>5
  <2>3. Contents(Q, len', data') = [m \in List |-> D(m)]
    BY DEF Contents
  <2>4. Contents(P, len, data) = [m \in List |-> C(m)]
    BY DEF Contents
  <2> HIDE DEF C, D
  <2> QED BY <2>1, <2>2, <2>3, <2>4
<1> HIDE DEF Q
<1> QED BY <1>6, <1>7, <1>8

\* list_clean: every node gone.
LEMMA CleanKeeps ==
    ASSUME TypeOK, NEW P, Shape(P, head, tail, len, next, alloc),
           NEW l \in List, ListClean(l)
    PROVE  /\ TypeOK'
           /\ \E Q : /\ Shape(Q, head', tail', len', next', alloc')
                     /\ Contents(Q, len', data') =
                          [Contents(P, len, data) EXCEPT ![l] = << >>]
<1> DEFINE Q == Dropped(P, len, l, len[l])
<1>1. /\ head \in [List -> Ptr] /\ tail \in [List -> Ptr]
      /\ len \in [List -> Nat] /\ next \in [Ptr -> Ptr]
  BY CapType DEF TypeOK
<1>2. /\ head' = [head EXCEPT ![l] = Steps(next, head[l], len[l])]
      /\ len' = [len EXCEPT ![l] = 0]
      /\ alloc' = alloc \ NodesOf(l)
      /\ tail' = tail /\ next' = next /\ data' = data
  BY DEF ListClean
<1>3. len[l] \in Nat /\ len[l] \in 0..len[l] /\ len[l] - len[l] = 0
  BY <1>1
<1>4. Steps(next, head[l], len[l]) = Null
  BY <1>1, <1>3, ShapeSteps
<1>5. NodesOf(l) = Freed(P, l, len[l])
  BY ShapeNodes DEF NodesOf, Freed
<1>6. Shape(Q, [head EXCEPT ![l] = IF len[l] = len[l] THEN Null ELSE P[l][len[l] + 1]],
            tail, [len EXCEPT ![l] = len[l] - len[l]], next,
            alloc \ Freed(P, l, len[l]))
  BY <1>1, <1>3, DropShape
<1>7. Shape(Q, head', tail', len', next', alloc')
  <2> HIDE DEF Q
  <2> QED BY <1>2, <1>3, <1>4, <1>5, <1>6
<1>8. TypeOK'
  <2>1. Null \in Ptr /\ 0 \in 0..Cap
    BY CapType DEF Ptr
  <2> QED BY <1>1, <1>2, <1>4, <2>1 DEF TypeOK
<1>9. Contents(Q, len', data') = [Contents(P, len, data) EXCEPT ![l] = << >>]
  <2> DEFINE C(m) == [i \in 1..len[m] |-> data[P[m][i]]]
             D(m) == [i \in 1..len'[m] |-> data'[Q[m][i]]]
  <2>1. ASSUME NEW m \in List, m # l PROVE D(m) = C(m)
    BY <1>1, <1>2, <2>1 DEF Dropped
  <2>2. D(l) = << >>
    <3>1. len'[l] = 0
      BY <1>1, <1>2
    <3> QED BY <3>1
  <2>3. Contents(Q, len', data') = [m \in List |-> D(m)]
    BY DEF Contents
  <2>4. Contents(P, len, data) = [m \in List |-> C(m)]
    BY DEF Contents
  <2> HIDE DEF C, D
  <2> QED BY <2>1, <2>2, <2>3, <2>4
<1> HIDE DEF Q
<1> QED BY <1>7, <1>8, <1>9

\* Two sequences of lengths n and k in one, without its first e elements.
Mounted(s, t, n, k, e) ==
    [i \in 1..((n + k) - e) |->
        IF i + e <= n THEN s[i + e] ELSE t[(i + e) - n]]

\* Mounting keeps the newest `uplimit' elements of the two sequences.
LEMMA MountOfFunctions ==
    ASSUME NEW n \in Nat, NEW k \in Nat \ {0},
           NEW s \in [1..n -> Data], NEW t \in [1..k -> Data],
           NEW uplimit \in Nat, NEW e \in 0..(n + k),
           e = IF n + k > uplimit THEN (n + k) - uplimit ELSE 0
    PROVE  MountRear(s, t, uplimit) = Mounted(s, t, n, k, e)
<1>1. s \in Seq(Data) /\ t \in Seq(Data) /\ Len(s) = n /\ Len(t) = k
  OBVIOUS
<1>2. t # << >>
  BY <1>1
<1> DEFINE c == s \o t
<1>3. /\ c \in Seq(Data) /\ Len(c) = n + k
      /\ \A i \in 1..(n + k) : c[i] = IF i <= n THEN s[i] ELSE t[i - n]
  BY <1>1
<1>4. MountRear(s, t, uplimit) = KeepRear(c, uplimit)
  BY <1>2 DEF MountRear
<1> HIDE DEF c
<1>5. CASE n + k > uplimit
  <2>1. KeepRear(c, uplimit) = SubSeq(c, e + 1, n + k)
    BY <1>3, <1>5 DEF KeepRear
  <2>2. SubSeq(c, e + 1, n + k) = [i \in 1..((n + k) - e) |-> c[i + e]]
    BY <1>3, <1>5
  <2>3. \A i \in 1..((n + k) - e) : i + e \in 1..(n + k)
    OBVIOUS
  <2> QED BY <1>3, <1>4, <2>1, <2>2, <2>3 DEF Mounted
<1>6. CASE ~ (n + k > uplimit)
  <2>1. KeepRear(c, uplimit) = c /\ e = 0
    BY <1>3, <1>6 DEF KeepRear
  <2>2. c \in [1..(n + k) -> Data]
    BY <1>3, LenProperties
  <2>3. c = [i \in 1..(n + k) |-> c[i]]
    BY <2>2
  <2> QED BY <1>3, <1>4, <2>1, <2>3 DEF Mounted
<1> QED BY <1>5, <1>6

\* list_mount_rear: a splice, then the first `excess' nodes gone.
LEMMA MountKeeps ==
    ASSUME TypeOK, NEW P, Shape(P, head, tail, len, next, alloc),
           NEW l \in List, NEW m \in List, l # m, ListMountRear(l, m)
    PROVE  /\ TypeOK'
           /\ \E Q : /\ Shape(Q, head', tail', len', next', alloc')
                     /\ Contents(Q, len', data') =
                          [Contents(P, len, data) EXCEPT
                              ![l] = MountRear(@, Contents(P, len, data)[m], Cap),
                              ![m] = << >>]
<1> DEFINE first == IF head[l] = Null THEN head[m] ELSE head[l]
           nx == IF head[l] = Null THEN next ELSE [next EXCEPT ![tail[l]] = head[m]]
           total == len[l] + len[m]
           e == IF total > Cap THEN total - Cap ELSE 0
           hd2 == [head EXCEPT ![l] = first, ![m] = Null]
           tl2 == [tail EXCEPT ![l] = tail[m], ![m] = Null]
           ln2 == [len EXCEPT ![l] = total, ![m] = 0]
           P2 == Spliced(P, len, l, m)
           Q == Dropped(P2, ln2, l, e)
<1>1. /\ head \in [List -> Ptr] /\ tail \in [List -> Ptr]
      /\ len \in [List -> Nat] /\ next \in [Ptr -> Ptr]
      /\ len[l] \in Nat /\ len[m] \in Nat
  BY CapType DEF TypeOK
<1>2. /\ len[m] # 0
      /\ next' = nx
      /\ head' = [head EXCEPT ![l] = Steps(nx, first, e), ![m] = Null]
      /\ tail' = tl2
      /\ len' = [len EXCEPT ![l] = total - e, ![m] = 0]
      /\ alloc' = alloc \ {Steps(nx, first, i) : i \in 0..(e - 1)}
      /\ data' = data
  BY DEF ListMountRear
<1>3. /\ total \in Nat \ {0} /\ e \in 0..total /\ e # total /\ total - e \in 1..Cap
  BY <1>1, <1>2, CapType
<1>4. Null \in Ptr
  BY DEF Ptr
<1>5. Shape(P2, hd2, tl2, ln2, nx, alloc)
  BY <1>1, <1>2, SpliceShape
<1>6. /\ hd2 \in [List -> Ptr] /\ hd2[l] = first
      /\ ln2 \in [List -> Nat] /\ ln2[l] = total
  BY <1>1, <1>3, <1>4
<1>7. \A i \in 0..total : Steps(nx, first, i) = IF i = total THEN Null ELSE P2[l][i + 1]
  <2> HIDE DEF hd2, tl2, ln2, nx, P2, first, total
  <2> QED BY <1>5, <1>6, ShapeSteps
<1>8. P2[l] \in [1..total -> Node]
  <2> HIDE DEF hd2, tl2, ln2, nx, P2
  <2> QED BY <1>5, <1>6 DEF Shape, Linked
<1>9. Shape(Q, [hd2 EXCEPT ![l] = IF e = ln2[l] THEN Null ELSE P2[l][e + 1]],
            tl2, [ln2 EXCEPT ![l] = ln2[l] - e], nx,
            alloc \ Freed(P2, l, e))
  <2>1. e \in 0..ln2[l]
    BY <1>3, <1>6
  <2> HIDE DEF hd2, tl2, ln2, nx, P2, e
  <2> QED BY <1>5, <1>6, <2>1, DropShape
<1>10. head' = [hd2 EXCEPT ![l] = IF e = ln2[l] THEN Null ELSE P2[l][e + 1]]
  <2>1. Steps(nx, first, e) = IF e = ln2[l] THEN Null ELSE P2[l][e + 1]
    BY <1>3, <1>6, <1>7
  <2> DEFINE h == Steps(nx, first, e)
  <2>2. head' = [head EXCEPT ![l] = h, ![m] = Null]
    BY <1>2
  <2> HIDE DEF h
  <2>3. [head EXCEPT ![l] = h, ![m] = Null] = [hd2 EXCEPT ![l] = h]
    BY <1>1
  <2> QED BY <2>1, <2>2, <2>3 DEF h
<1>11. len' = [ln2 EXCEPT ![l] = ln2[l] - e]
  BY <1>1, <1>2, <1>6
<1>12. alloc' = alloc \ Freed(P2, l, e)
  <2>1. ASSUME NEW y
        PROVE  (\E i \in 0..(e - 1) : y = Steps(nx, first, i)) <=>
               (\E i \in 1..e : y = P2[l][i])
    <3>1. ASSUME NEW i \in 0..(e - 1)
          PROVE  i + 1 \in 1..e /\ Steps(nx, first, i) = P2[l][i + 1]
      <4>1. i \in 0..total /\ i # total /\ i + 1 \in 1..e
        BY <1>3
      <4> HIDE DEF P2, nx, first, e, total
      <4> QED BY <1>7, <4>1
    <3>2. ASSUME NEW i \in 1..e
          PROVE  i - 1 \in 0..(e - 1) /\ Steps(nx, first, i - 1) = P2[l][i]
      <4>1. i - 1 \in 0..(e - 1) /\ (i - 1) + 1 = i
        BY <1>3
      <4>2. Steps(nx, first, i - 1) = P2[l][(i - 1) + 1]
        <5> HIDE DEF P2, nx, first, e, total
        <5> QED BY <3>1, <4>1
      <4> QED BY <4>1, <4>2
    <3> HIDE DEF P2, nx, first, e, total
    <3> QED BY <3>1, <3>2
  <2> HIDE DEF P2, nx, first, e, total
  <2> QED BY <1>2, <2>1 DEF Freed
<1>13. Shape(Q, head', tail', len', next', alloc')
  <2> HIDE DEF Q, P2, nx, first, e, total, hd2, tl2, ln2
  <2> QED BY <1>2, <1>9, <1>10, <1>11, <1>12
<1>14. TypeOK'
  <2>1. head' \in [List -> Ptr]
    <3>1. (IF e = ln2[l] THEN Null ELSE P2[l][e + 1]) \in Ptr
      <4>1. e + 1 \in 1..total
        BY <1>3
      <4> HIDE DEF P2, e, total, ln2
      <4> QED BY <1>4, <1>8, <4>1 DEF Ptr
    <3> HIDE DEF P2, e, total, ln2, hd2
    <3> QED BY <1>6, <1>10, <3>1
  <2>2. tail' \in [List -> Ptr]
    BY <1>1, <1>2, <1>4
  <2>3. len' \in [List -> 0..Cap]
    <3>1. total - e \in 0..Cap /\ 0 \in 0..Cap /\ len \in [List -> 0..Cap]
      BY <1>3, CapType DEF TypeOK
    <3> HIDE DEF total, e
    <3> QED BY <1>2, <3>1
  <2>4. next' \in [Ptr -> Ptr]
    <3>1. head[m] \in Ptr
      BY <1>1
    <3> QED BY <1>1, <1>2, <3>1
  <2>5. alloc' \subseteq Node /\ data' \in [Ptr -> Data]
    BY <1>2 DEF TypeOK
  <2> HIDE DEF Q, P2, nx, first, e, total, hd2, tl2, ln2
  <2> QED BY <2>1, <2>2, <2>3, <2>4, <2>5 DEF TypeOK
<1>15. Contents(Q, len', data') =
          [Contents(P, len, data) EXCEPT
              ![l] = MountRear(@, Contents(P, len, data)[m], Cap),
              ![m] = << >>]
  <2> DEFINE C(k) == [i \in 1..len[k] |-> data[P[k][i]]]
             D(k) == [i \in 1..len'[k] |-> data'[Q[k][i]]]
  <2>1. ASSUME NEW k \in List, k # l, k # m PROVE D(k) = C(k)
    <3>1. len'[k] = len[k]
      BY <1>1, <1>2, <2>1
    <3>2. Q[k] = P[k]
      BY <2>1 DEF Dropped, Spliced
    <3> HIDE DEF Q
    <3> QED BY <1>2, <3>1, <3>2
  <2>2. D(m) = << >>
    <3>1. len'[m] = 0
      BY <1>1, <1>2
    <3> QED BY <3>1
  <2>3. D(l) = MountRear(C(l), C(m), Cap)
    <3>1. ASSUME NEW k \in List PROVE C(k) \in [1..len[k] -> Data]
      BY Front DEF TypeOK, Ptr
    <3>2. MountRear(C(l), C(m), Cap) =
            [i \in 1..(total - e) |->
                IF i + e <= len[l] THEN C(l)[i + e] ELSE C(m)[(i + e) - len[l]]]
      <4>1. len[m] \in Nat \ {0} /\ Cap \in Nat
        BY <1>1, <1>2, CapType
      <4> HIDE DEF C
      <4>2. MountRear(C(l), C(m), Cap) = Mounted(C(l), C(m), len[l], len[m], e)
        <5> DEFINE s == C(l)
                   t == C(m)
                   n == len[l]
                   k == len[m]
        <5>1. /\ n \in Nat /\ k \in Nat \ {0} /\ Cap \in Nat /\ e \in 0..(n + k)
              /\ s \in [1..n -> Data] /\ t \in [1..k -> Data]
              /\ e = IF n + k > Cap THEN (n + k) - Cap ELSE 0
          BY <1>1, <1>3, <3>1, <4>1
        <5> HIDE DEF s, t, n, k, e
        <5>2. MountRear(s, t, Cap) = Mounted(s, t, n, k, e)
          BY <5>1, MountOfFunctions
        <5> QED BY <5>2 DEF s, t, n, k
      <4> QED BY <4>2 DEF Mounted
    <3>3. len'[l] = total - e
      <4> HIDE DEF total, e
      <4> QED BY <1>1, <1>2
    <3>4. ASSUME NEW i \in 1..(total - e)
          PROVE  data'[Q[l][i]] =
                    IF i + e <= len[l] THEN C(l)[i + e] ELSE C(m)[(i + e) - len[l]]
      <4>1. i + e \in 1..total
        BY <1>3
      <4>2. Q[l][i] = P2[l][i + e]
        <5>1. Q[l] = [h \in 1..(ln2[l] - e) |-> P2[l][h + e]]
          BY DEF Dropped
        <5> HIDE DEF P2, e, total, ln2, Q
        <5> QED BY <1>6, <5>1
      <4>3. P2[l][i + e] = IF i + e <= len[l] THEN P[l][i + e]
                           ELSE P[m][(i + e) - len[l]]
        <5>1. P2[l] = [h \in 1..total |->
                          IF h <= len[l] THEN P[l][h] ELSE P[m][h - len[l]]]
          BY DEF Spliced
        <5> HIDE DEF P2, e, total
        <5> QED BY <4>1, <5>1
      <4>4. IF i + e <= len[l] THEN i + e \in 1..len[l]
            ELSE (i + e) - len[l] \in 1..len[m]
        <5> HIDE DEF e
        <5> QED BY <1>1, <1>3, <4>1
      <4> HIDE DEF Q, P2, e, total
      <4> QED BY <1>2, <4>2, <4>3, <4>4
    <3> HIDE DEF C, Q, e, total
    <3> QED BY <3>2, <3>3, <3>4
  <2>4. Contents(Q, len', data') = [k \in List |-> D(k)]
    BY DEF Contents
  <2>5. Contents(P, len, data) = [k \in List |-> C(k)]
    BY DEF Contents
  <2> HIDE DEF C, D, Q
  <2> QED BY <2>1, <2>2, <2>3, <2>4, <2>5
<1> HIDE DEF Q
<1> QED BY <1>13, <1>14, <1>15

-----------------------------------------------------------------------------
(* The theorems.                                                           *)

\* What a step may do to the sequences.
ListsStep(c, d) ==
    \/ d = c
    \/ \E l \in List, x \in Data : d = [c EXCEPT ![l] = AddRear(@, x, Cap)]
    \/ \E l \in List : \/ d = [c EXCEPT ![l] = GetHead(@)]
                        \/ d = [c EXCEPT ![l] = << >>]
    \/ \E l, m \in List :
          l # m /\ d = [c EXCEPT ![l] = MountRear(@, c[m], Cap), ![m] = << >>]

\* Every step keeps the shape and is a step of the sequences.
LEMMA StepKeeps ==
    ASSUME TypeOK, NEW P, Shape(P, head, tail, len, next, alloc), [Next]_vars
    PROVE  /\ TypeOK'
           /\ \E Q : /\ Shape(Q, head', tail', len', next', alloc')
                     /\ ListsStep(Contents(P, len, data), Contents(Q, len', data'))
<1>1. CASE UNCHANGED vars
  BY <1>1 DEF vars, TypeOK, ListsStep
<1>2. ASSUME NEW l \in List, NEW x \in Data, ListAddRear(l, x)
      PROVE  /\ TypeOK'
             /\ \E Q : /\ Shape(Q, head', tail', len', next', alloc')
                       /\ ListsStep(Contents(P, len, data), Contents(Q, len', data'))
  BY <1>2, AddKeeps DEF ListsStep
<1>3. ASSUME NEW l \in List, ListGetHeaddata(l)
      PROVE  /\ TypeOK'
             /\ \E Q : /\ Shape(Q, head', tail', len', next', alloc')
                       /\ ListsStep(Contents(P, len, data), Contents(Q, len', data'))
  BY <1>3, GetKeeps DEF ListsStep
<1>4. ASSUME NEW l \in List, ListClean(l)
      PROVE  /\ TypeOK'
             /\ \E Q : /\ Shape(Q, head', tail', len', next', alloc')
                       /\ ListsStep(Contents(P, len, data), Contents(Q, len', data'))
  BY <1>4, CleanKeeps DEF ListsStep
<1>5. ASSUME NEW l \in List, NEW m \in List, l # m, ListMountRear(l, m)
      PROVE  /\ TypeOK'
             /\ \E Q : /\ Shape(Q, head', tail', len', next', alloc')
                       /\ ListsStep(Contents(P, len, data), Contents(Q, len', data'))
  BY <1>5, MountKeeps DEF ListsStep
<1> QED BY <1>1, <1>2, <1>3, <1>4, <1>5 DEF Next

\* At first every list is empty.
LEMMA InitInv ==
    ASSUME Init
    PROVE  /\ TypeOK
           /\ \E P : Shape(P, head, tail, len, next, alloc)
<1>1. TypeOK
  <2>1. Garbage \in Data
    BY HeapAssumption DEF Garbage
  <2> QED BY <2>1, CapType DEF Init, TypeOK, Ptr
<1> DEFINE P == [l \in List |-> [i \in 1..0 |-> Null]]
<1>2. ASSUME NEW l \in List PROVE len[l] = 0 /\ head[l] = Null /\ P[l] \in [1..0 -> Node]
  BY DEF Init
<1>3. Shape(P, head, tail, len, next, alloc)
  <2>1. alloc = {}
    BY DEF Init
  <2> HIDE DEF P
  <2> QED BY <1>2, <2>1 DEF Shape, Linked, Apart, Allocated
<1> QED BY <1>1, <1>3

\* The shape is kept forever.
LEMMA Invariance == Spec => []IInv
<1>1. Init => IInv
  BY InitInv DEF IInv
<1>2. IInv /\ [Next]_vars => IInv'
  <2> SUFFICES ASSUME IInv, [Next]_vars PROVE IInv'
    OBVIOUS
  <2>1. PICK P : Shape(P, head, tail, len, next, alloc)
    BY DEF IInv
  <2>2. TypeOK
    BY DEF IInv
  <2>3. TypeOK' /\ \E Q : Shape(Q, head', tail', len', next', alloc')
    BY <2>1, <2>2, StepKeeps
  <2> QED BY <2>3 DEF IInv
<1> QED BY <1>1, <1>2, PTL DEF Spec

\* Every member of the lists keeps its type and no list exceeds its limit
\* (class BoschSimpleList).
THEOREM HeapTypes == Spec => []TypeOK
<1>1. IInv => TypeOK
  BY DEF IInv
<1> QED BY <1>1, Invariance, PTL

\* head is NULL exactly on an empty list; otherwise tail is the last node and
\* ends the chain: what list_add_rear and list_mount_rear rely on.
THEOREM HeapTailIsLast == Spec => []TailIsLast
<1>1. IInv => TailIsLast
  BY ShapeTail DEF IInv
<1> QED BY <1>1, Invariance, PTL

\* The allocated nodes are those of the lists, each in one place: no operation
\* uses a freed node, frees one twice or leaks one.
THEOREM HeapHoldsTheLists == Spec => []HeapIsTheLists
<1>1. IInv => HeapIsTheLists
  BY ShapeHeap DEF IInv
<1> QED BY <1>1, Invariance, PTL

\* The linked lists implement bounded sequences: every operation of the class
\* does to the nodes what BoschSimpleList says it does to the list.
THEOREM HeapIsLists == Spec => ImplementsLists
<1> DEFINE q == [l \in List |-> [i \in 1..len[l] |-> data[NodeAt(l, i)]]]
<1>1. Init => Lists!Init
  <2> SUFFICES ASSUME Init PROVE q = [l \in List |-> << >>]
    BY DEF Lists!Init
  <2>1. ASSUME NEW l \in List
        PROVE  [i \in 1..len[l] |-> data[NodeAt(l, i)]] = << >>
    <3>1. len[l] = 0
      BY DEF Init
    <3> QED BY <3>1
  <2> QED BY <2>1
<1>2. IInv /\ [Next]_vars => [Lists!Next]_q
  <2> SUFFICES ASSUME IInv, [Next]_vars PROVE [Lists!Next]_q
    OBVIOUS
  <2>1. PICK P : Shape(P, head, tail, len, next, alloc)
    BY DEF IInv
  <2>2. PICK Q : /\ Shape(Q, head', tail', len', next', alloc')
                 /\ ListsStep(Contents(P, len, data), Contents(Q, len', data'))
    BY <2>1, StepKeeps DEF IInv
  <2>3. TypeOK /\ TypeOK'
    BY <2>1, StepKeeps DEF IInv
  <2>4. len \in [List -> Nat] /\ len' \in [List -> Nat]
    BY <2>3, CapType DEF TypeOK
  <2>5. /\ q = LinkedContents(head, len, next, data)
        /\ q' = LinkedContents(head', len', next', data')
    BY DEF LinkedContents, NodeAt
  <2>6. q = Contents(P, len, data) /\ q' = Contents(Q, len', data')
    <3> HIDE DEF q
    <3> QED BY <2>1, <2>2, <2>4, <2>5, ShapeContents
  <2>7. ListsStep(q, q')
    <3> HIDE DEF q
    <3> QED BY <2>2, <2>6
  <2>8. \A s, t, x :
          /\ AddRear(s, x, Cap) = Lists!AddRear(s, x, Cap)
          /\ GetHead(s) = Lists!GetHead(s)
          /\ MountRear(s, t, Cap) = Lists!MountRear(s, t, Cap)
    BY DEF AddRear, GetHead, MountRear, KeepRear, Lists!AddRear, Lists!GetHead,
           Lists!MountRear, Lists!KeepRear
  <2>9. CASE q' = q
    BY <2>9
  <2>10. ASSUME NEW l \in List, NEW x \in Data,
                q' = [q EXCEPT ![l] = AddRear(@, x, Cap)]
         PROVE  Lists!Next
    <3>1. q' = [q EXCEPT ![l] = Lists!AddRear(@, x, Cap)]
      <4> HIDE DEF q
      <4> QED BY <2>8, <2>10
    <3>2. Lists!Add(l, x)
      BY <3>1, Zenon DEF Lists!Add
    <3> QED BY <3>2 DEF Lists!Next
  <2>11. ASSUME NEW l \in List, q' = [q EXCEPT ![l] = GetHead(@)]
         PROVE  Lists!Next
    <3>1. q' = [q EXCEPT ![l] = Lists!GetHead(@)]
      <4> HIDE DEF q
      <4> QED BY <2>8, <2>11
    <3>2. Lists!Get(l)
      BY <3>1, Zenon DEF Lists!Get
    <3> QED BY <3>2 DEF Lists!Next
  <2>12. ASSUME NEW l \in List, q' = [q EXCEPT ![l] = << >>]
         PROVE  Lists!Next
    <3>1. Lists!Clean(l)
      BY <2>12, Zenon DEF Lists!Clean
    <3> QED BY <3>1 DEF Lists!Next
  <2>13. ASSUME NEW l \in List, NEW m \in List, l # m,
                q' = [q EXCEPT ![l] = MountRear(@, q[m], Cap), ![m] = << >>]
         PROVE  Lists!Next
    <3>1. q' = [q EXCEPT ![l] = Lists!MountRear(@, q[m], Cap), ![m] = << >>]
      <4> HIDE DEF q
      <4> QED BY <2>8, <2>13
    <3>2. Lists!Mount(l, m)
      BY <3>1, Zenon DEF Lists!Mount
    <3> QED BY <2>13, <3>2 DEF Lists!Next
  <2>14. q' = q \/ Lists!Next
    <3> HIDE DEF q
    <3> QED BY <2>7, <2>10, <2>11, <2>12, <2>13 DEF ListsStep
  <2> QED BY <2>9, <2>14
<1> QED BY <1>1, <1>2, Invariance, PTL DEF Spec, ImplementsLists, Lists!Spec
=============================================================================
