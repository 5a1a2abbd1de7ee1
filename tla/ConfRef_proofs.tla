---------------------------- MODULE ConfRef_proofs ----------------------------
(***************************************************************************)
(* The array of active sensors, for every number of sensors.               *)
(*                                                                         *)
(* SortedPrefix alone does not say that an insertion finds room: that a    *)
(* full array of Size slots already holds every sensor is a counting       *)
(* argument.  Spread carries it without counting: distinct ascending       *)
(* integers lie at least as far apart as their slots, so in a full array   *)
(* slot i holds sensor i and no sensor is left to insert.                  *)
(***************************************************************************)
EXTENDS ConfRef, TLAPS, WellFoundedInduction

-----------------------------------------------------------------------------
(* Every set of natural numbers has a least element: stated of a set, and  *)
(* not of a predicate, it can be cited.                                    *)

\* There is a well-founded relation that is "less than" on the naturals.
LEMMA LessRelation ==
    \E R : /\ IsWellFoundedOn(R, Nat)
           /\ \A m, n \in Nat : <<m, n>> \in R <=> m < n
<1>1. \A m, n \in Nat : <<m, n>> \in OpToRel(<, Nat) <=> m < n
  BY DEF OpToRel
<1> WITNESS OpToRel(<, Nat)
<1> QED BY <1>1, NatLessThanWellFounded, Zenon

LEMMA LeastElement ==
    ASSUME NEW T, T \subseteq Nat, T # {}
    PROVE  \E n \in T : \A m \in T : n <= m
<1>1. PICK R : /\ IsWellFoundedOn(R, Nat)
               /\ \A m, n \in Nat : <<m, n>> \in R <=> m < n
  BY LessRelation
<1>2. IsWellFoundedOn(R, Nat)
  BY <1>1
<1>3. \E n \in T : \A m \in T : ~ (<<m, n>> \in R)
  BY <1>2, WFMin, Zenon
<1>4. PICK n \in T : \A m \in T : ~ (<<m, n>> \in R)
  BY <1>3, Zenon
<1>5. ASSUME NEW m \in T PROVE n <= m
  <2>1. m \in Nat /\ n \in Nat
    OBVIOUS
  <2>2. ~ (<<m, n>> \in R)
    BY <1>4, Zenon
  <2>3. ~ (m < n)
    BY <2>1, <2>2, <1>1, Zenon
  <2> QED BY <2>1, <2>3
<1> QED BY <1>5

-----------------------------------------------------------------------------
(* The invariant.                                                          *)

Spread ==
    \A i, j \in Index : i <= j /\ j < cnt => refs[j] - refs[i] >= j - i

IInv == TypeOK /\ SortedPrefix /\ Spread

\* Where the loop stops at an empty slot, that slot is the first behind the
\* references; where it stops at a reference, the slot is one of them.
LEMMA StopsAtPrefix ==
    ASSUME IInv, NEW x \in Index, NEW i \in Index, StopsAt(x, i)
    PROVE  /\ i <= cnt
           /\ refs[i] = Null => i = cnt
           /\ refs[i] # Null => i < cnt
           /\ \A j \in Index : j < i => refs[j] \in Index /\ refs[j] < x
<1>1. i <= cnt
  <2>1. CASE i = 0
    BY <2>1 DEF IInv, TypeOK
  <2>2. CASE i > 0
    BY <2>2, SizeAssumption DEF IInv, TypeOK, SortedPrefix, StopsAt, Index, Null
  <2> QED BY <2>1, <2>2 DEF Index
<1>2. QED
  BY <1>1, SizeAssumption DEF IInv, TypeOK, SortedPrefix, StopsAt, Index, Null

\* A full array has no room and needs none: an insertion in front of a larger
\* sensor only happens while a slot is left.
LEMMA RoomToInsert ==
    ASSUME IInv, NEW x \in Index, NEW i \in Index, StopsAt(x, i),
           refs[i] # Null, x < refs[i]
    PROVE  cnt < Size
<1> SUFFICES ASSUME cnt = Size PROVE FALSE
  BY SizeAssumption DEF IInv, TypeOK
<1>1. \A k \in Index : refs[k] = k
  <2> SUFFICES ASSUME NEW k \in Index PROVE refs[k] = k
    OBVIOUS
  <2>1. refs[0] \in Index /\ refs[k] \in Index /\ refs[Size - 1] \in Index
    <3>1. \A j \in Index : refs[j] # Null
      BY SizeAssumption DEF IInv, SortedPrefix, Index
    <3>2. 0 \in Index /\ Size - 1 \in Index
      BY SizeAssumption DEF Index
    <3> QED BY <3>1, <3>2 DEF IInv, TypeOK
  <2>2. refs[k] - refs[0] >= k
    BY SizeAssumption, <2>1 DEF IInv, Spread, Index
  <2>3. refs[Size - 1] - refs[k] >= Size - 1 - k
    BY SizeAssumption, <2>1 DEF IInv, Spread, Index
  <2> QED BY <2>1, <2>2, <2>3, SizeAssumption DEF Index
<1>2. x < i
  BY <1>1
<1>3. refs[x] < x
  BY <1>2 DEF StopsAt
<1> QED BY <1>1, <1>3 DEF Index

LEMMA InitIInv == Init => IInv
BY SizeAssumption DEF Init, IInv, TypeOK, SortedPrefix, Spread, Index, Null

LEMMA AppendKeepsIInv ==
    ASSUME IInv, NEW x \in Index, NEW i \in Index, StopsAt(x, i), AppendRef(x, i)
    PROVE  IInv'
<1>1. i = cnt /\ cnt < Size
  BY StopsAtPrefix, SizeAssumption DEF AppendRef, Index
<1>2. \A j \in Index : j < cnt => refs[j] \in Index /\ refs[j] < x
  BY StopsAtPrefix, <1>1
<1>3. /\ cnt' = cnt + 1
      /\ refs' \in [Index -> Index \cup {Null}]
      /\ \A k \in Index : refs'[k] = IF k = cnt THEN x ELSE refs[k]
  BY <1>1 DEF AppendRef, IInv, TypeOK
<1>4. TypeOK'
  BY <1>1, <1>3, SizeAssumption DEF IInv, TypeOK
<1>5. SortedPrefix'
  BY <1>1, <1>2, <1>3, SizeAssumption DEF IInv, TypeOK, SortedPrefix, Index, Null
<1>6. Spread'
  <2> SUFFICES ASSUME NEW a \in Index, NEW b \in Index, a <= b, b < cnt + 1
               PROVE  refs'[b] - refs'[a] >= b - a
    BY <1>3 DEF Spread
  <2>1. CASE b < cnt
    BY <2>1, <1>1, <1>3, SizeAssumption DEF IInv, TypeOK, Spread, Index
  <2>2. CASE b = cnt /\ a < cnt
    <3>1. cnt - 1 \in Index /\ a <= cnt - 1
      BY <2>2, SizeAssumption, <1>1 DEF IInv, TypeOK, Index
    <3>2. refs[cnt - 1] - refs[a] >= cnt - 1 - a
      BY <3>1, <2>2, SizeAssumption DEF IInv, TypeOK, Spread, Index
    <3>3. refs[cnt - 1] < x /\ refs[cnt - 1] \in Index
      BY <3>1, <1>2, <1>1 DEF Index
    <3>4. refs'[b] = x /\ refs'[a] = refs[a] /\ refs[a] \in Index
      BY <2>2, <1>3, <1>2, <1>1 DEF Index
    <3> QED BY <3>1, <3>2, <3>3, <3>4, <2>2, SizeAssumption DEF Index
  <2>3. CASE b = cnt /\ a = cnt
    BY <2>3, <1>3 DEF Index
  <2> QED BY <2>1, <2>2, <2>3, <1>1, SizeAssumption DEF Index
<1> QED BY <1>4, <1>5, <1>6 DEF IInv

LEMMA InsertKeepsIInv ==
    ASSUME IInv, NEW x \in Index, NEW i \in Index, StopsAt(x, i), InsertRef(x, i)
    PROVE  IInv'
<1>1. i < cnt /\ cnt < Size /\ x < refs[i]
  BY StopsAtPrefix, RoomToInsert DEF InsertRef
<1>2. \A j \in Index : j < i => refs[j] \in Index /\ refs[j] < x
  BY StopsAtPrefix
<1>3. /\ cnt' = cnt + 1
      /\ refs' \in [Index -> Index \cup {Null}]
      /\ \A k \in Index : k < i => refs'[k] = refs[k]
      /\ refs'[i] = x
      /\ \A k \in Index : i < k /\ k <= cnt => refs'[k] = refs[k - 1]
      /\ \A k \in Index : cnt < k => refs'[k] = refs[k]
  BY <1>1, SizeAssumption DEF InsertRef, Memmove, IInv, TypeOK, Index
<1>4. TypeOK'
  BY <1>1, <1>3, SizeAssumption DEF IInv, TypeOK
<1>5. \A k \in Index : k < cnt => refs[k] \in Index
  BY DEF IInv, TypeOK, SortedPrefix
<1>6. Spread'
  <2> SUFFICES ASSUME NEW a \in Index, NEW b \in Index, a <= b, b < cnt + 1
               PROVE  refs'[b] - refs'[a] >= b - a
    BY <1>3 DEF Spread
  <2>1. \A k \in Index : k < i => x - refs[k] >= i - k
    <3> SUFFICES ASSUME NEW k \in Index, k < i PROVE x - refs[k] >= i - k
      OBVIOUS
    <3>1. i - 1 \in Index /\ i - 1 < cnt /\ k <= i - 1
      BY SizeAssumption, <1>1 DEF Index, IInv, TypeOK
    <3>2. refs[i - 1] - refs[k] >= i - 1 - k
      BY <3>1 DEF IInv, Spread
    <3>3. refs[i - 1] < x /\ refs[i - 1] \in Index /\ refs[k] \in Index
      BY <3>1, <1>2, SizeAssumption DEF Index
    <3> QED BY <3>2, <3>3, SizeAssumption DEF Index
  <2>2. \A k \in Index : i <= k /\ k < cnt => refs[k] - x >= k - i + 1
    <3> SUFFICES ASSUME NEW k \in Index, i <= k, k < cnt
                 PROVE  refs[k] - x >= k - i + 1
      OBVIOUS
    <3>1. refs[k] - refs[i] >= k - i
      BY DEF IInv, Spread
    <3>2. refs[k] \in Index /\ refs[i] \in Index
      BY <1>5, <1>1
    <3> QED BY <3>1, <3>2, <1>1, SizeAssumption DEF Index
  <2>3. CASE b < i
    BY <2>3, <1>1, <1>3, SizeAssumption DEF IInv, TypeOK, Spread, Index
  <2>4. CASE b = i
    <3>1. CASE a = i
      BY <3>1, <2>4, <1>3, SizeAssumption DEF Index
    <3>2. CASE a < i
      BY <3>2, <2>4, <2>1, <1>3
    <3> QED BY <3>1, <3>2, <2>4, SizeAssumption DEF Index
  <2>5. CASE i < b
    <3>1. /\ b - 1 \in Index /\ i <= b - 1 /\ b - 1 < cnt
          /\ refs'[b] = refs[b - 1]
          /\ refs[b - 1] \in Index
      BY <2>5, <1>3, <1>5, SizeAssumption DEF Index, IInv, TypeOK
    <3>2. refs[b - 1] - x >= b - i
      <4>1. refs[b - 1] - x >= (b - 1) - i + 1
        BY <3>1, <2>2
      <4> QED BY <4>1, SizeAssumption DEF Index
    <3>3. CASE a < i
      <4>1. x - refs[a] >= i - a /\ refs'[a] = refs[a] /\ refs[a] \in Index
        BY <3>3, <2>1, <1>2, <1>3
      <4> QED BY <4>1, <3>1, <3>2, SizeAssumption DEF Index
    <3>4. CASE a = i
      BY <3>4, <3>1, <3>2, <1>3
    <3>5. CASE i < a
      <4>1. /\ a - 1 \in Index /\ a - 1 <= b - 1
            /\ refs'[a] = refs[a - 1] /\ refs[a - 1] \in Index
        BY <3>5, <1>3, <1>5, SizeAssumption DEF Index, IInv, TypeOK
      <4>2. refs[b - 1] - refs[a - 1] >= (b - 1) - (a - 1)
        BY <4>1, <3>1 DEF IInv, Spread
      <4> QED BY <4>1, <4>2, <3>1, SizeAssumption DEF Index
    <3> QED BY <3>3, <3>4, <3>5, SizeAssumption DEF Index
  <2> QED BY <2>3, <2>4, <2>5, SizeAssumption DEF Index
<1>7. SortedPrefix'
  <2>1. \A k \in Index : refs'[k] # Null <=> k < cnt'
    <3> SUFFICES ASSUME NEW k \in Index PROVE refs'[k] # Null <=> k < cnt + 1
      BY <1>3
    <3>1. CASE k < i
      BY <3>1, <1>1, <1>2, <1>3, SizeAssumption DEF Index, Null, IInv, TypeOK
    <3>2. CASE k = i
      BY <3>2, <1>1, <1>3, SizeAssumption DEF Index, Null, IInv, TypeOK
    <3>3. CASE i < k /\ k <= cnt
      <4>1. k - 1 \in Index /\ k - 1 < cnt
        BY <3>3, SizeAssumption DEF Index, IInv, TypeOK
      <4>2. refs'[k] \in Index
        BY <3>3, <4>1, <1>3, <1>5
      <4> QED BY <4>2, <3>3, SizeAssumption DEF Index, Null, IInv, TypeOK
    <3>4. CASE cnt < k
      BY <3>4, <1>3, SizeAssumption DEF Index, IInv, TypeOK, SortedPrefix
    <3> QED BY <3>1, <3>2, <3>3, <3>4, <1>1, SizeAssumption
            DEF Index, IInv, TypeOK
  <2>2. \A a, b \in Index : a < b /\ b < cnt' => refs'[a] < refs'[b]
    <3> SUFFICES ASSUME NEW a \in Index, NEW b \in Index, a < b, b < cnt'
                 PROVE  refs'[a] < refs'[b]
      OBVIOUS
    <3>1. refs'[b] - refs'[a] >= b - a
      BY <1>6, SizeAssumption DEF Spread, Index
    <3>2. refs'[a] \in Int /\ refs'[b] \in Int
      BY <1>3, SizeAssumption DEF Index, Null
    <3> QED BY <3>1, <3>2, SizeAssumption DEF Index
  <2> QED BY <2>1, <2>2 DEF SortedPrefix
<1> QED BY <1>4, <1>6, <1>7 DEF IInv

LEMMA RemoveKeepsIInv ==
    ASSUME IInv, NEW x \in Index, NEW i \in Index, StopsAt(x, i), RemoveRef(x, i)
    PROVE  IInv'
<1>1. i < cnt
  BY StopsAtPrefix, SizeAssumption DEF RemoveRef, Index, Null
<1>2. cnt - 1 \in Index
  BY <1>1, SizeAssumption DEF IInv, TypeOK, Index
<1>3. /\ cnt' = cnt - 1
      /\ refs' \in [Index -> Index \cup {Null}]
      /\ \A k \in Index : k < i => refs'[k] = refs[k]
      /\ \A k \in Index : i <= k /\ k < cnt - 1 => refs'[k] = refs[k + 1]
      /\ refs'[cnt - 1] = Null
      /\ \A k \in Index : cnt <= k => refs'[k] = refs[k]
  BY <1>1, <1>2, SizeAssumption DEF RemoveRef, Memmove, IInv, TypeOK, Index
<1>4. TypeOK'
  BY <1>2, <1>3, SizeAssumption DEF IInv, TypeOK, Index
<1>5. \A k \in Index : k < cnt => refs[k] \in Index
  BY DEF IInv, TypeOK, SortedPrefix
<1>6. \A k \in Index : k < cnt - 1 => /\ refs'[k] \in Index
                                      /\ i <= k => k + 1 \in Index
  BY <1>2, <1>3, <1>5, SizeAssumption DEF Index, IInv, TypeOK
<1>7. Spread'
  <2> SUFFICES ASSUME NEW a \in Index, NEW b \in Index, a <= b, b < cnt - 1
               PROVE  refs'[b] - refs'[a] >= b - a
    BY <1>3 DEF Spread
  <2>1. CASE b < i
    BY <2>1, <1>1, <1>3, SizeAssumption DEF IInv, TypeOK, Spread, Index
  <2>2. CASE i <= b /\ a < i
    <3>1. b + 1 \in Index /\ b + 1 < cnt /\ refs'[b] = refs[b + 1]
      BY <2>2, <1>3, <1>6, SizeAssumption DEF Index, IInv, TypeOK
    <3>2. refs[b + 1] - refs[a] >= (b + 1) - a
      BY <3>1, SizeAssumption DEF IInv, Spread, Index
    <3>3. refs'[a] = refs[a] /\ refs[a] \in Index /\ refs[b + 1] \in Index
      BY <2>2, <3>1, <1>3, <1>5, <1>1, SizeAssumption DEF Index, IInv, TypeOK
    <3> QED BY <3>1, <3>2, <3>3, SizeAssumption DEF Index
  <2>3. CASE i <= a
    <3>1. /\ b + 1 \in Index /\ b + 1 < cnt /\ refs'[b] = refs[b + 1]
          /\ a + 1 \in Index /\ a + 1 <= b + 1 /\ refs'[a] = refs[a + 1]
      BY <2>3, <1>3, <1>6, SizeAssumption DEF Index, IInv, TypeOK
    <3>2. refs[b + 1] - refs[a + 1] >= (b + 1) - (a + 1)
      BY <3>1 DEF IInv, Spread
    <3> QED BY <3>1, <3>2, SizeAssumption DEF Index
  <2> QED BY <2>1, <2>2, <2>3, SizeAssumption DEF Index
<1>8. SortedPrefix'
  <2>1. \A k \in Index : refs'[k] # Null <=> k < cnt'
    <3> SUFFICES ASSUME NEW k \in Index PROVE refs'[k] # Null <=> k < cnt - 1
      BY <1>3
    <3>1. CASE k < cnt - 1
      BY <3>1, <1>6, SizeAssumption DEF Index, Null
    <3>2. CASE k = cnt - 1
      BY <3>2, <1>2, <1>3, SizeAssumption DEF Index
    <3>3. CASE cnt <= k
      BY <3>3, <1>3, SizeAssumption DEF Index, IInv, TypeOK, SortedPrefix
    <3> QED BY <3>1, <3>2, <3>3, SizeAssumption DEF Index, IInv, TypeOK
  <2>2. \A a, b \in Index : a < b /\ b < cnt' => refs'[a] < refs'[b]
    <3> SUFFICES ASSUME NEW a \in Index, NEW b \in Index, a < b, b < cnt'
                 PROVE  refs'[a] < refs'[b]
      OBVIOUS
    <3>1. refs'[b] - refs'[a] >= b - a
      BY <1>7, SizeAssumption DEF Spread, Index
    <3>2. refs'[a] \in Int /\ refs'[b] \in Int
      BY <1>3, SizeAssumption DEF Index, Null
    <3> QED BY <3>1, <3>2, SizeAssumption DEF Index
  <2> QED BY <2>1, <2>2 DEF SortedPrefix
<1> QED BY <1>4, <1>7, <1>8 DEF IInv

LEMMA NextKeepsIInv == IInv /\ [Next]_vars => IInv'
<1> SUFFICES ASSUME IInv, [Next]_vars PROVE IInv'
  OBVIOUS
<1>1. CASE UNCHANGED vars
  BY <1>1 DEF vars, IInv, TypeOK, SortedPrefix, Spread
<1>2. ASSUME NEW x \in Index, Enable(x) PROVE IInv'
  BY <1>2, <1>1, AppendKeepsIInv, InsertKeepsIInv DEF Enable
<1>3. ASSUME NEW x \in Index, Disable(x) PROVE IInv'
  BY <1>3, <1>1, RemoveKeepsIInv DEF Disable
<1> QED BY <1>1, <1>2, <1>3 DEF Next

LEMMA IInvAlways == Spec => []IInv
BY InitIInv, NextKeepsIInv, PTL DEF Spec

\* The slots hold references or NULL and the count stays within the array,
\* whatever is enabled and disabled, in the array of activate_configref_resort.
THEOREM ConfRefTypeOK == Spec => []TypeOK
<1>1. IInv => TypeOK
  BY DEF IInv
<1> QED BY <1>1, IInvAlways, PTL

\* The references stay sorted and closed up to the front.
THEOREM ConfRefSorted == Spec => []SortedPrefix
<1>1. IInv => SortedPrefix
  BY DEF IInv
<1> QED BY <1>1, IInvAlways, PTL

\* Neither memmove of activate_configref_resort leaves the array, and the spare
\* slot its comment speaks of is not needed, for any number of sensors.
THEOREM ConfRefInBounds == Spec => []MemmoveInBounds
<1>1. IInv => MemmoveInBounds
  <2> SUFFICES ASSUME IInv, NEW x \in Index, NEW i \in Index, StopsAt(x, i)
               PROVE  /\ refs[i] # Null /\ x < refs[i] => cnt - i >= 0 /\ cnt < Size
                      /\ refs[i] = x => cnt - 1 - i >= 0 /\ cnt - 1 \in Index
    BY DEF MemmoveInBounds
  <2>1. ASSUME refs[i] # Null, x < refs[i] PROVE cnt - i >= 0 /\ cnt < Size
    BY <2>1, StopsAtPrefix, RoomToInsert, SizeAssumption DEF Index, IInv, TypeOK
  <2>2. ASSUME refs[i] = x PROVE cnt - 1 - i >= 0 /\ cnt - 1 \in Index
    <3>1. i < cnt
      BY <2>2, StopsAtPrefix, SizeAssumption DEF Index, Null
    <3> QED BY <3>1, SizeAssumption DEF Index, IInv, TypeOK
  <2> QED BY <2>1, <2>2
<1> QED BY <1>1, IInvAlways, PTL

\* A full array holds sensor i in slot i, so it stops the loop for x in slot x;
\* any other array has an empty slot.
LEMMA IInvPlaceFound == IInv => PlaceFound
<1> SUFFICES ASSUME IInv, NEW x \in Index PROVE \E i \in Index : StopsAt(x, i)
  BY DEF PlaceFound
<1> DEFINE Stops == {i \in Index : refs[i] = Null \/ x <= refs[i]}
<1>1. \E i \in Index : i \in Stops
  <2> SUFFICES ASSUME \A i \in Index : i \notin Stops PROVE FALSE
    OBVIOUS
  <2>1. \A i \in Index : refs[i] \in Index /\ refs[i] < x
    <3> SUFFICES ASSUME NEW i \in Index PROVE refs[i] \in Index /\ refs[i] < x
      OBVIOUS
    <3>1. refs[i] # Null /\ ~(x <= refs[i])
      OBVIOUS
    <3> HIDE DEF Stops
    <3>2. refs[i] \in Index
      BY <3>1 DEF IInv, TypeOK
    <3> QED BY <3>1, <3>2, SizeAssumption DEF Index
  <2>2. cnt = Size
    <3>1. Size - 1 \in Index
      BY SizeAssumption DEF Index
    <3>2. Size - 1 < cnt
      BY <3>1, <2>1, SizeAssumption DEF IInv, SortedPrefix, Index, Null
    <3> QED BY <3>2, SizeAssumption DEF IInv, TypeOK
  <2>3. 0 \in Index /\ refs[x] - refs[0] >= x - 0
    BY <2>2, SizeAssumption DEF IInv, Spread, Index
  <2> QED BY <2>1, <2>3, SizeAssumption DEF Index
<1>2. Stops \subseteq Nat /\ Stops # {}
  BY <1>1, SizeAssumption DEF Index
<1>3. PICK i \in Stops : \A j \in Stops : i <= j
  <2> HIDE DEF Stops
  <2> QED BY <1>2, LeastElement
<1>4. ASSUME NEW j \in Index, j < i PROVE refs[j] # Null /\ refs[j] < x
  <2>1. j \notin Stops
    <3> HIDE DEF Stops
    <3> QED BY <1>2, <1>3, <1>4, SizeAssumption DEF Index
  <2>2. refs[j] # Null /\ ~(x <= refs[j])
    BY <2>1
  <2>3. refs[j] \in Index
    BY <2>2 DEF IInv, TypeOK
  <2> QED BY <2>2, <2>3, SizeAssumption DEF Index
<1>5. i \in Index /\ (refs[i] = Null \/ x <= refs[i])
  OBVIOUS
<1> QED BY <1>4, <1>5 DEF StopsAt

\* The loop of activate_configref_resort stops for every sensor before it
\* ends, so enabling never silently does nothing.
THEOREM ConfRefPlaceFound == Spec => []PlaceFound
BY IInvPlaceFound, IInvAlways, PTL

\* Each branch of the loop changes the set of active sensors as it should:
\* shifting loses no reference and doubles none.
LEMMA AppendActive ==
    ASSUME IInv, NEW x \in Index, NEW i \in Index, StopsAt(x, i), AppendRef(x, i)
    PROVE  Active' = Active \cup {x}
<1>1. /\ \A k \in Index : refs'[k] = IF k = i THEN x ELSE refs[k]
      /\ refs[i] = Null
  BY DEF AppendRef, IInv, TypeOK
<1>2. Null \notin Index
  BY SizeAssumption DEF Null, Index
<1> QED BY <1>1, <1>2 DEF Active

LEMMA InsertActive ==
    ASSUME IInv, NEW x \in Index, NEW i \in Index, StopsAt(x, i), InsertRef(x, i)
    PROVE  Active' = Active \cup {x}
<1>1. i < cnt /\ cnt < Size
  BY StopsAtPrefix, RoomToInsert DEF InsertRef
<1>2. /\ \A k \in Index : k < i => refs'[k] = refs[k]
      /\ refs'[i] = x
      /\ \A k \in Index : i < k /\ k <= cnt => refs'[k] = refs[k - 1]
      /\ \A k \in Index : cnt < k => refs'[k] = refs[k]
  BY <1>1, SizeAssumption DEF InsertRef, Memmove, IInv, TypeOK, Index
<1>3. ASSUME NEW y \in Index, y \in Active' PROVE y \in Active \cup {x}
  <2>1. PICK k \in Index : refs'[k] = y
    BY <1>3 DEF Active
  <2>2. CASE k < i \/ cnt < k
    BY <2>1, <2>2, <1>2 DEF Active
  <2>3. CASE i < k /\ k <= cnt
    <3>1. k - 1 \in Index /\ refs[k - 1] = y
      BY <2>1, <2>3, <1>2, SizeAssumption DEF Index
    <3> QED BY <3>1 DEF Active
  <2>4. CASE k = i
    BY <2>1, <2>4, <1>2
  <2> QED BY <2>2, <2>3, <2>4, SizeAssumption DEF Index, IInv, TypeOK
<1>4. ASSUME NEW y \in Index, y \in Active PROVE y \in Active'
  <2>1. PICK k \in Index : refs[k] = y
    BY <1>4 DEF Active
  <2>2. k < cnt
    BY <2>1, SizeAssumption DEF IInv, SortedPrefix, Index, Null
  <2>3. CASE k < i
    BY <2>1, <2>3, <1>2 DEF Active
  <2>4. CASE i <= k
    <3>1. k + 1 \in Index /\ i < k + 1 /\ k + 1 <= cnt /\ (k + 1) - 1 = k
      BY <2>2, <2>4, <1>1, SizeAssumption DEF Index, IInv, TypeOK
    <3>2. refs'[k + 1] = y
      BY <3>1, <1>2, <2>1
    <3> QED BY <3>1, <3>2 DEF Active
  <2> QED BY <2>3, <2>4, SizeAssumption DEF Index
<1>5. x \in Active'
  BY <1>2 DEF Active
<1> QED BY <1>3, <1>4, <1>5 DEF Active

LEMMA RemoveActive ==
    ASSUME IInv, NEW x \in Index, NEW i \in Index, StopsAt(x, i), RemoveRef(x, i)
    PROVE  Active' = Active \ {x}
<1>1. i < cnt /\ refs[i] = x /\ cnt - 1 \in Index
  BY StopsAtPrefix, SizeAssumption DEF RemoveRef, Index, Null, IInv, TypeOK
<1>2. /\ \A k \in Index : k < i => refs'[k] = refs[k]
      /\ \A k \in Index : i <= k /\ k < cnt - 1 => refs'[k] = refs[k + 1]
      /\ refs'[cnt - 1] = Null
      /\ \A k \in Index : cnt <= k => refs'[k] = refs[k]
  BY <1>1, SizeAssumption DEF RemoveRef, Memmove, IInv, TypeOK, Index
<1>3. \A k \in Index : refs[k] = x => k = i
  <2> SUFFICES ASSUME NEW k \in Index, refs[k] = x, k # i PROVE FALSE
    OBVIOUS
  <2>1. k < cnt
    BY SizeAssumption DEF IInv, SortedPrefix, Index, Null
  <2> QED BY <2>1, <1>1, SizeAssumption DEF IInv, SortedPrefix, Index
<1>4. ASSUME NEW y \in Index, y \in Active' PROVE y \in Active \ {x}
  <2>1. PICK k \in Index : refs'[k] = y
    BY <1>4 DEF Active
  <2>2. CASE k < i
    BY <2>1, <2>2, <1>2, <1>3, SizeAssumption DEF Active, Index
  <2>3. CASE i <= k /\ k < cnt - 1
    <3>1. k + 1 \in Index /\ refs[k + 1] = y /\ k + 1 # i
      BY <2>1, <2>3, <1>1, <1>2, SizeAssumption DEF Index, IInv, TypeOK
    <3> QED BY <3>1, <1>3 DEF Active
  <2>4. CASE k = cnt - 1
    BY <2>1, <2>4, <1>2, SizeAssumption DEF Index, Null
  <2>5. CASE cnt <= k
    BY <2>1, <2>5, <1>2, SizeAssumption DEF Index, Null, IInv, TypeOK, SortedPrefix
  <2> QED BY <2>2, <2>3, <2>4, <2>5, SizeAssumption DEF Index, IInv, TypeOK
<1>5. ASSUME NEW y \in Index, y \in Active, y # x PROVE y \in Active'
  <2>1. PICK k \in Index : refs[k] = y
    BY <1>5 DEF Active
  <2>2. k < cnt /\ k # i
    BY <2>1, <1>1, <1>5, SizeAssumption DEF IInv, SortedPrefix, Index, Null
  <2>3. CASE k < i
    BY <2>1, <2>3, <1>2 DEF Active
  <2>4. CASE i < k
    <3>1. k - 1 \in Index /\ i <= k - 1 /\ k - 1 < cnt - 1 /\ (k - 1) + 1 = k
      BY <2>2, <2>4, SizeAssumption DEF Index, IInv, TypeOK
    <3>2. refs'[k - 1] = y
      BY <3>1, <1>2, <2>1
    <3> QED BY <3>1, <3>2 DEF Active
  <2> QED BY <2>2, <2>3, <2>4, SizeAssumption DEF Index
<1> QED BY <1>4, <1>5 DEF Active

LEMMA EnableActive ==
    ASSUME IInv, NEW x \in Index, Enable(x)
    PROVE  Active' = Active \cup {x}
<1>1. PICK i \in Index :
        /\ StopsAt(x, i)
        /\ AppendRef(x, i) \/ InsertRef(x, i) \/ (refs[i] = x /\ UNCHANGED vars)
  BY DEF Enable
<1>2. CASE refs[i] = x /\ UNCHANGED vars
  BY <1>2 DEF vars, Active
<1> QED BY <1>1, <1>2, AppendActive, InsertActive

LEMMA DisableActive ==
    ASSUME IInv, NEW x \in Index, Disable(x)
    PROVE  Active' = Active \ {x}
<1>1. PICK i \in Index :
        /\ StopsAt(x, i)
        /\ RemoveRef(x, i) \/ (refs[i] # x /\ UNCHANGED vars)
  BY DEF Disable
<1>2. CASE refs[i] # x /\ UNCHANGED vars
  <2>1. x \notin Active
    <3> SUFFICES ASSUME NEW k \in Index, refs[k] = x PROVE FALSE
      BY DEF Active
    <3>1. ~(k < i)
      BY <1>1, SizeAssumption DEF StopsAt, Index
    <3>2. k # i
      BY <1>2
    <3>3. k < cnt
      BY SizeAssumption DEF IInv, SortedPrefix, Index, Null
    <3>4. i < k
      BY <3>1, <3>2, SizeAssumption DEF Index
    <3>5. refs[i] # Null /\ refs[i] < x
      BY <3>3, <3>4, SizeAssumption DEF IInv, TypeOK, SortedPrefix, Index
    <3>6. refs[i] \in Index
      BY <3>5 DEF IInv, TypeOK
    <3> QED BY <1>1, <3>5, <3>6, SizeAssumption DEF StopsAt, Index
  <2> QED BY <1>2, <2>1 DEF vars, Active
<1> QED BY <1>1, <1>2, RemoveActive

LEMMA NextImplements == IInv /\ [Next]_vars => [Set!Next]_Active
<1> SUFFICES ASSUME IInv, [Next]_vars PROVE [Set!Next]_Active
  OBVIOUS
<1>1. CASE UNCHANGED vars
  BY <1>1 DEF vars, Active
<1>2. ASSUME NEW x \in Index, Enable(x) PROVE [Set!Next]_Active
  BY <1>2, EnableActive DEF Set!Next, Set!Enable
<1>3. ASSUME NEW x \in Index, Disable(x) PROVE [Set!Next]_Active
  BY <1>3, DisableActive DEF Set!Next, Set!Disable
<1> QED BY <1>1, <1>2, <1>3 DEF Next

\* activate_configref_resort maintains the set of active sensors: the array
\* implements ActiveSet, step by step.
THEOREM ConfRefImplements == Spec => ImplementsActiveSet
<1>1. Init => Set!Init
  BY SizeAssumption DEF Init, Set!Init, Active, Null, Index
<1> QED BY <1>1, IInvAlways, NextImplements, PTL
        DEF Spec, ImplementsActiveSet, Set!Spec
=============================================================================
