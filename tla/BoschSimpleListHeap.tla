------------------------- MODULE BoschSimpleListHeap -------------------------
(***************************************************************************)
(* Class BoschSimpleList as the code builds it: nodes from malloc linked   *)
(* through `next', a head, a tail that keeps its old value when the list   *)
(* runs empty, and a length.  A freed node may be handed out again by the  *)
(* next malloc, so a stale tail may point into another list.  Each         *)
(* operation is one action; the callers serialise them with a mutex.       *)
(***************************************************************************)
EXTENDS Integers, FiniteSets, BoschSimpleList

CONSTANTS
    List,      \* the lists
    Data,      \* the data pointers stored in them
    NumNodes,  \* nodes the heap has room for (bounds the model)
    Uplimit    \* the limit set_uplimit is called with

ASSUME HeapAssumption ==
    List # {} /\ Data # {} /\ NumNodes \in Nat /\ Uplimit \in Nat

Node == 1..NumNodes
Null == 0
Ptr == Node \cup {Null}
Cap == SetUplimit(Uplimit)

VARIABLES
    head, tail, len,  \* the members of each list
    next, data,       \* the members of each node, garbage once it is freed
    alloc             \* the nodes malloc has given out

vars == <<head, tail, len, next, data, alloc>>

Garbage == CHOOSE d \in Data : TRUE

Init ==
    /\ head = [l \in List |-> Null]
    /\ tail = [l \in List |-> Null]
    /\ len = [l \in List |-> 0]
    /\ next = [n \in Ptr |-> Null]
    /\ data = [n \in Ptr |-> Garbage]
    /\ alloc = {}

\* The pointer reached after i steps along `nx' from `p'.
Steps(nx, p, i) ==
    LET f[k \in 0..i] == IF k = 0 THEN p ELSE nx[f[k - 1]] IN f[i]

NodeAt(l, i) == Steps(next, head[l], i - 1)
NodesOf(l) == {NodeAt(l, i) : i \in 1..len[l]}

\* Wrong variant: emptiness is read off the tail, which may be obsolete.
ListAddRear_TestsTail(l, x) ==
    \E n \in Node \ alloc :
        LET full == len[l] = Cap
            first == IF full THEN next[head[l]] ELSE head[l]
        IN  /\ data' = [data EXCEPT ![n] = x]
            /\ tail' = [tail EXCEPT ![l] = n]
            /\ IF tail[l] = Null
               THEN /\ head' = [head EXCEPT ![l] = n]
                    /\ next' = [next EXCEPT ![n] = Null]
               ELSE /\ head' = [head EXCEPT ![l] = first]
                    /\ next' = [next EXCEPT ![n] = Null, ![tail[l]] = n]
            /\ len' = [len EXCEPT ![l] = IF full THEN @ ELSE @ + 1]
            /\ alloc' = (alloc \cup {n}) \ (IF full THEN {head[l]} ELSE {})

\* Wrong variant: the list may grow one beyond its limit.
ListAddRear_OneTooMany(l, x) ==
    \E n \in Node \ alloc :
        LET full == len[l] > Cap
            first == IF full THEN next[head[l]] ELSE head[l]
        IN  /\ data' = [data EXCEPT ![n] = x]
            /\ tail' = [tail EXCEPT ![l] = n]
            /\ IF first = Null
               THEN /\ head' = [head EXCEPT ![l] = n]
                    /\ next' = [next EXCEPT ![n] = Null]
               ELSE /\ head' = [head EXCEPT ![l] = first]
                    /\ next' = [next EXCEPT ![n] = Null, ![tail[l]] = n]
            /\ len' = [len EXCEPT ![l] = IF full THEN @ ELSE @ + 1]
            /\ alloc' = (alloc \cup {n}) \ (IF full THEN {head[l]} ELSE {})

\* list_add_rear: take a node, drop the head of a full list, link the node.
\* Without memory nothing happens.
ListAddRear(l, x) ==
    \E n \in Node \ alloc :
        LET full == len[l] = Cap
            first == IF full THEN next[head[l]] ELSE head[l]
        IN  /\ data' = [data EXCEPT ![n] = x]
            /\ tail' = [tail EXCEPT ![l] = n]
            /\ IF first = Null
               THEN /\ head' = [head EXCEPT ![l] = n]
                    /\ next' = [next EXCEPT ![n] = Null]
               ELSE /\ head' = [head EXCEPT ![l] = first]
                    /\ next' = [next EXCEPT ![n] = Null, ![tail[l]] = n]
            /\ len' = [len EXCEPT ![l] = IF full THEN @ ELSE @ + 1]
            /\ alloc' = (alloc \cup {n}) \ (IF full THEN {head[l]} ELSE {})

\* list_get_headdata: unlink and free the head; the tail is left as it is.
ListGetHeaddata(l) ==
    /\ len[l] # 0
    /\ head' = [head EXCEPT ![l] = next[head[l]]]
    /\ len' = [len EXCEPT ![l] = @ - 1]
    /\ alloc' = alloc \ {head[l]}
    /\ UNCHANGED <<tail, next, data>>

\* Wrong variant: the mounted list keeps its nodes.
ListMountRear_Shares(l, m) ==
    /\ len[m] # 0
    /\ LET first == IF head[l] = Null THEN head[m] ELSE head[l]
           nx == IF head[l] = Null THEN next
                 ELSE [next EXCEPT ![tail[l]] = head[m]]
           total == len[l] + len[m]
           excess == IF total > Cap THEN total - Cap ELSE 0
       IN  /\ next' = nx
           /\ head' = [head EXCEPT ![l] = Steps(nx, first, excess)]
           /\ tail' = [tail EXCEPT ![l] = tail[m]]
           /\ len' = [len EXCEPT ![l] = total - excess]
           /\ alloc' = alloc \ {Steps(nx, first, i) : i \in 0..(excess - 1)}
           /\ UNCHANGED data

\* list_mount_rear: splice the nodes of m behind those of l, leave m empty,
\* then free heads until l respects its limit.
ListMountRear(l, m) ==
    /\ len[m] # 0
    /\ LET first == IF head[l] = Null THEN head[m] ELSE head[l]
           nx == IF head[l] = Null THEN next
                 ELSE [next EXCEPT ![tail[l]] = head[m]]
           total == len[l] + len[m]
           excess == IF total > Cap THEN total - Cap ELSE 0
       IN  /\ next' = nx
           /\ head' = [head EXCEPT ![l] = Steps(nx, first, excess),
                                   ![m] = Null]
           /\ tail' = [tail EXCEPT ![l] = tail[m], ![m] = Null]
           /\ len' = [len EXCEPT ![l] = total - excess, ![m] = 0]
           /\ alloc' = alloc \ {Steps(nx, first, i) : i \in 0..(excess - 1)}
           /\ UNCHANGED data

\* list_clean, also run by the destructor: free heads until the list is empty.
ListClean(l) ==
    /\ len[l] # 0
    /\ head' = [head EXCEPT ![l] = Steps(next, @, len[l])]
    /\ len' = [len EXCEPT ![l] = 0]
    /\ alloc' = alloc \ NodesOf(l)
    /\ UNCHANGED <<tail, next, data>>

Next ==
    \/ \E l \in List, x \in Data : ListAddRear(l, x)
    \/ \E l \in List : ListGetHeaddata(l) \/ ListClean(l)
    \/ \E l, m \in List : l # m /\ ListMountRear(l, m)

Spec == Init /\ [][Next]_vars

-----------------------------------------------------------------------------
\* Every member has its type, and no operation leaves a list longer than its
\* limit.
TypeOK ==
    /\ head \in [List -> Ptr] /\ tail \in [List -> Ptr]
    /\ len \in [List -> 0..Cap]
    /\ next \in [Ptr -> Ptr] /\ data \in [Ptr -> Data]
    /\ alloc \in SUBSET Node

\* The head is NULL exactly when the length is 0, and only then is the tail
\* obsolete: otherwise it is the last node, and that node ends the chain.
\* This is what testing `head' for emptiness in list_add_rear relies on.
TailIsLast ==
    \A l \in List :
        /\ head[l] = Null <=> len[l] = 0
        /\ len[l] # 0 => /\ tail[l] = NodeAt(l, len[l])
                         /\ next[tail[l]] = Null

\* The nodes of the lists are allocated, pairwise distinct and shared by no
\* two lists, and no other node is allocated: no use after free, no double
\* free and no leak of a node.
HeapIsTheLists ==
    /\ \A l \in List : Cardinality(NodesOf(l)) = len[l]
    /\ \A l, m \in List : l # m => NodesOf(l) \cap NodesOf(m) = {}
    /\ alloc = UNION {NodesOf(l) : l \in List}

\* The sequences the linked lists stand for.
Lists == INSTANCE BoundedLists WITH
    q <- [l \in List |-> [i \in 1..len[l] |-> data[NodeAt(l, i)]]]

\* The linked lists implement bounded sequences: what BoschSimpleList.tla says
\* of an operation is what it does to the nodes.
ImplementsLists == Lists!Spec
=============================================================================
