------------------------------ MODULE ActiveSet ------------------------------
(***************************************************************************)
(* What activation means to its callers: a set of active sensors, changed  *)
(* one sensor at a time; enabling twice or disabling twice is harmless.    *)
(***************************************************************************)
CONSTANT Index
VARIABLE active

Init == active = {}
Enable(x) == active' = active \cup {x}
Disable(x) == active' = active \ {x}
Next == \E x \in Index : Enable(x) \/ Disable(x)
Spec == Init /\ [][Next]_active
=============================================================================
