---------------------------- MODULE BoundedLists ----------------------------
(***************************************************************************)
(* What a caller of BoschSimpleList sees: lists that are sequences of data *)
(* pointers, none longer than `Cap', changed by the operators of           *)
(* BoschSimpleList.                                                        *)
(***************************************************************************)
EXTENDS BoschSimpleList

CONSTANTS List, Data, Cap

VARIABLE q

Init == q = [l \in List |-> << >>]

Add(l, x) == q' = [q EXCEPT ![l] = AddRear(@, x, Cap)]
Get(l) == q' = [q EXCEPT ![l] = GetHead(@)]
Mount(l, m) == q' = [q EXCEPT ![l] = MountRear(@, q[m], Cap), ![m] = << >>]
Clean(l) == q' = [q EXCEPT ![l] = << >>]

Next ==
    \/ \E l \in List, x \in Data : Add(l, x)
    \/ \E l \in List : Get(l) \/ Clean(l)
    \/ \E l, m \in List : l # m /\ Mount(l, m)

Spec == Init /\ [][Next]_q
=============================================================================
