--------------------------- MODULE BoschSimpleList ---------------------------
(***************************************************************************)
(* What the operations of class BoschSimpleList do to the sequence of data *)
(* pointers a list stands for.  A list never holds more than `uplimit'     *)
(* elements: an operation that would exceed it drops elements from the     *)
(* head.  Each mutating operation has two operators, the list it leaves    *)
(* behind and the set of elements it frees.  BoschSimpleListHeap shows     *)
(* that the linked list of the code implements these operators.            *)
(***************************************************************************)
EXTENDS Naturals, Sequences

\* The limit a list ends up with when `limit' is asked for: at least one node.
SetUplimit(limit) == IF limit = 0 THEN 1 ELSE limit

\* list_get_headdata: the list without its head (a no-op on an empty list).
GetHead(list) == IF list = << >> THEN list ELSE Tail(list)

\* The suffix of the `uplimit' newest elements, what a truncation keeps.
KeepRear(list, uplimit) ==
    IF Len(list) > uplimit
    THEN SubSeq(list, Len(list) - uplimit + 1, Len(list))
    ELSE list

\* The elements a truncation to `uplimit' frees.
Truncated(list, uplimit) ==
    {list[i] : i \in {j \in DOMAIN list : j + uplimit <= Len(list)}}

\* list_add_rear: a full list gives up its head to make room.
AddRear(list, x, uplimit) ==
    Append(IF Len(list) = uplimit THEN Tail(list) ELSE list, x)

AddRearDrops(list, uplimit) ==
    IF Len(list) = uplimit THEN {Head(list)} ELSE {}

\* Wrong variant of MountRear: the new elements are spliced in front.
MountRear_InFront(list, src, uplimit) ==
    IF src = << >> THEN list ELSE KeepRear(src \o list, uplimit)

\* list_mount_rear: splice `src' behind `list', then truncate; `src' is left
\* empty.  Mounting an empty list changes nothing.
MountRear(list, src, uplimit) ==
    IF src = << >> THEN list ELSE KeepRear(list \o src, uplimit)

MountRearDrops(list, src, uplimit) ==
    IF src = << >> THEN {} ELSE Truncated(list \o src, uplimit)

=============================================================================
