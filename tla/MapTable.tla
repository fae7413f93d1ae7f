------------------------------ MODULE MapTable ------------------------------
(***************************************************************************)
(* What the memory map lists of a process promise: a table of nodes in     *)
(* which a key, a mode and a name, is listed once, and in which a node     *)
(* lives until its last user releases it.  MemoryMapList.tla implements it *)
(* with linked lists; SharedMemory.tla and LocalMaps.tla use its operators *)
(* with more fields filled in.                                             *)
(***************************************************************************)
EXTENDS NodeTable

CONSTANTS Key, MaxUsers   \* MaxUsers bounds the users of one node

VARIABLE table

Init == table = [n \in Node |-> FreeNode]

OpenListed(k) ==
  \E n \in Found(table, k) : table[n].count < MaxUsers /\ table' = Retain(table, n)

OpenNew(k) ==
  /\ Found(table, k) = {}
  /\ \E n \in Free(table) : table' = Allocate(table, n, k, None, 0, FALSE)

Drop(n) == n \in Live(table) /\ table' = Detach(table, n)
Close(n) == n \in Live(table) /\ table' = Release(table, n)

Next == \/ \E k \in Key : OpenListed(k) \/ OpenNew(k)
        \/ \E n \in Node : Drop(n) \/ Close(n)

Spec == Init /\ [][Next]_table
=============================================================================
