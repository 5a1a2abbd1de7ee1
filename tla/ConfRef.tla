------------------------------- MODULE ConfRef -------------------------------
(***************************************************************************)
(* activate_configref_resort: the active sensors of one kind are kept in   *)
(* an array of references to their configurations, ordered by list index   *)
(* and closed up to the front, with a count beside it.  Enabling inserts,  *)
(* disabling removes; both shift the rest of the array with memmove.       *)
(*                                                                         *)
(* A reference is modelled by the list index of the sensor it refers to,   *)
(* counted from the first index of its kind (bsx_listinx_base).  The array *)
(* has exactly as many slots as there are sensors of the kind, although    *)
(* the comment above it promises one more.                                 *)
(***************************************************************************)
EXTENDS Integers

CONSTANT Size    \* sensors of the kind, and slots of the array (loop_end)

ASSUME SizeAssumption == Size \in Nat \ {0}

Null == -1
Index == 0..(Size - 1)

VARIABLES
    refs,   \* BSX_active_confref_nonwk or BSX_active_confref_wk
    cnt     \* active_nonwksensor_cnt or active_wksensor_cnt

vars == <<refs, cnt>>

Init ==
    /\ refs = [i \in Index |-> Null]
    /\ cnt = 0

\* memmove(&a[to], &a[from], n * sizeof(a[0]))
Memmove(a, to, from, n) ==
    [k \in DOMAIN a |->
        IF to <= k /\ k < to + n THEN a[k - to + from] ELSE a[k]]

\* The loop over the slots stops at slot i: the first that is empty or does
\* not lie before x.
StopsAt(x, i) ==
    /\ refs[i] = Null \/ x <= refs[i]
    /\ \A j \in Index : j < i => refs[j] # Null /\ refs[j] < x

\* A blank slot behind all smaller sensors takes the new one.
AppendRef(x, i) ==
    /\ refs[i] = Null
    /\ refs' = [refs EXCEPT ![i] = x]
    /\ cnt' = cnt + 1

\* Wrong variant: one slot too few is shifted.
InsertRef_ShiftsShort(x, i) ==
    /\ refs[i] # Null /\ x < refs[i]
    /\ refs' = [Memmove(refs, i + 1, i, cnt - i - 1) EXCEPT ![i] = x]
    /\ cnt' = cnt + 1

\* A larger sensor sits there: it and those behind it move up.
InsertRef(x, i) ==
    /\ refs[i] # Null /\ x < refs[i]
    /\ refs' = [Memmove(refs, i + 1, i, cnt - i) EXCEPT ![i] = x]
    /\ cnt' = cnt + 1

\* Wrong variant: the count is decremented after the shift, not before, and
\* the slot behind the last reference is cleared.
RemoveRef_LateCount(x, i) ==
    /\ refs[i] = x
    /\ cnt' = cnt - 1
    /\ refs' = [Memmove(refs, i, i + 1, cnt - 1 - i) EXCEPT ![cnt] = Null]

\* The sensor is found: those behind it move down.
RemoveRef(x, i) ==
    /\ refs[i] = x
    /\ cnt' = cnt - 1
    /\ refs' = [Memmove(refs, i, i + 1, cnt - 1 - i) EXCEPT ![cnt - 1] = Null]

\* Wrong variant: enabling an active sensor inserts it again.
Enable_Twice(x) ==
    \E i \in Index :
        /\ StopsAt(x, i)
        /\ \/ AppendRef(x, i)
           \/ /\ refs[i] # Null
              /\ refs' = [Memmove(refs, i + 1, i, cnt - i) EXCEPT ![i] = x]
              /\ cnt' = cnt + 1

\* Enabling a sensor that is active already changes nothing.  (That the loop
\* stops at all is the invariant PlaceFound.)
Enable(x) ==
    \E i \in Index :
        /\ StopsAt(x, i)
        /\ AppendRef(x, i) \/ InsertRef(x, i) \/ (refs[i] = x /\ UNCHANGED vars)

\* Disabling a sensor that is not active changes nothing.
Disable(x) ==
    \E i \in Index :
        /\ StopsAt(x, i)
        /\ RemoveRef(x, i) \/ (refs[i] # x /\ UNCHANGED vars)

Next == \E x \in Index : Enable(x) \/ Disable(x)

Spec == Init /\ [][Next]_vars

-----------------------------------------------------------------------------
Active == {x \in Index : \E i \in Index : refs[i] = x}

\* A slot holds a sensor or NULL, and the count never leaves the array: no
\* history of repeated calls makes it run below 0 or past the last slot.
TypeOK ==
    /\ refs \in [Index -> Index \cup {Null}]
    /\ cnt \in 0..Size

\* The array is what both resort functions take it for: the first `cnt'
\* slots hold the active sensors in ascending order, the others are NULL.
SortedPrefix ==
    /\ \A i \in Index : refs[i] # Null <=> i < cnt
    /\ \A i, j \in Index : i < j /\ j < cnt => refs[i] < refs[j]

\* Whichever sensor is enabled or disabled next, the two memmove calls stay
\* inside the array, with a count that is not negative, and the slots written
\* after them exist: the missing spare slot is never needed.
MemmoveInBounds ==
    \A x, i \in Index : StopsAt(x, i) =>
        /\ refs[i] # Null /\ x < refs[i] => cnt - i >= 0 /\ cnt < Size
        /\ refs[i] = x => cnt - 1 - i >= 0 /\ cnt - 1 \in Index

\* The loop never runs off the end, where it would silently do nothing: there is
\* a place for every sensor in every array it can meet.
PlaceFound == \A x \in Index : \E i \in Index : StopsAt(x, i)

\* The set the array stands for.
Set == INSTANCE ActiveSet WITH active <- Active

\* The array implements a set of active sensors: the two resort branches add
\* and remove exactly the sensor they are called for and lose no other one.
ImplementsActiveSet == Set!Spec
=============================================================================
