\* Two lists with the same limit and a heap that can run out of nodes.
SPECIFICATION Spec
CONSTANTS
  List = {l1, l2}
  Data = {d1, d2}
  NumNodes = 4
  Uplimit = 2
INVARIANTS TypeOK TailIsLast HeapIsTheLists
PROPERTIES ImplementsLists
