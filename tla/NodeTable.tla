------------------------------ MODULE NodeTable ------------------------------
(***************************************************************************)
(* The list of memory maps that one process keeps                          *)
(* (src/ip2location/ip2lmemorymaplist.c), as a table of list nodes.        *)
(*                                                                         *)
(* A node is found by its key, the shared memory name or the path of the   *)
(* database.  A detached node leaves the list but stays alive until the    *)
(* last location that uses it is closed.  The order of the list is         *)
(* abstracted away: MemoryMapList.tla models the links.                    *)
(***************************************************************************)
EXTENDS Naturals

CONSTANTS Node,   \* the nodes one process may allocate
          None    \* "no value": a free node's key, an empty handle's node

(***************************************************************************)
(* res is what the node maps: the inode of a segment (shm_ino and the      *)
(* descriptor shm_fd that pins it), or the contents of a file.             *)
(***************************************************************************)
FreeNode == [key |-> None, res |-> None, size |-> 0, count |-> 0,
             listed |-> FALSE, copied |-> FALSE]

NodeRecord(Key, Res) ==
  {FreeNode} \cup [key : Key, res : Res, size : Nat, count : Nat \ {0},
                  listed : BOOLEAN, copied : BOOLEAN]

Live(T) == {n \in Node : T[n].count > 0}
Free(T) == {n \in Node : T[n].count = 0}

\* IP2LFindMemoryMapNode: the nodes a search by key can return.
Found(T, k) == {n \in Node : T[n].listed /\ T[n].key = k}

\* IP2LCreateMemoryMapNode and the assignments its callers make.
Allocate_Bug(T, n, k, r, s, c) ==
  [T EXCEPT ![n] = [key |-> k, res |-> r, size |-> s, count |-> 1,
                    listed |-> FALSE, copied |-> c]]
Allocate(T, n, k, r, s, c) ==
  [T EXCEPT ![n] = [key |-> k, res |-> r, size |-> s, count |-> 1,
                    listed |-> TRUE, copied |-> c]]

Retain_Bug(T, n) == T
Retain(T, n) == [T EXCEPT ![n].count = @ + 1]

Detach_Bug(T, n) == T
Detach(T, n) == IF T[n].listed THEN [T EXCEPT ![n].listed = FALSE] ELSE T

\* IP2LocationDBClose: the last user unmaps and frees the node.
Release_Bug(T, n) == [T EXCEPT ![n].count = @ - 1]
Release(T, n) == IF T[n].count > 1 THEN [T EXCEPT ![n].count = @ - 1]
                                   ELSE [T EXCEPT ![n] = FreeNode]
=============================================================================
