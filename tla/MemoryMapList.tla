---------------------------- MODULE MemoryMapList ----------------------------
(***************************************************************************)
(* The doubly linked lists of memory map nodes of one process              *)
(* (src/ip2location/ip2lmemorymaplist.c), one list per type of map, and    *)
(* what IP2LocationSetup..., IP2LocationDeleteSharedMap and                *)
(* IP2LocationDBClose do with the nodes.                                   *)
(***************************************************************************)
EXTENDS Naturals, FiniteSets

CONSTANTS
  Node,      \* what malloc may return: bounds the nodes in use
  Type,      \* MEMORY_MAP_TYPE
  Name,
  MaxUsers,  \* bound on the users of one node
  NULL

ASSUME ListAssumption ==
  /\ NULL \notin Node \cup Type \cup Name
  /\ MaxUsers \in Nat \ {0}
  /\ IsFiniteSet(Node)

VARIABLES
  root,   \* cache_root, mfile_root and shmem_root
  mml,    \* mml[n]: the IP2LMemoryMapList structure n
  find    \* the search that runs: what it looks for and where it is

vars == <<root, mml, find>>

Freed == [type |-> NULL, name |-> NULL, next |-> NULL, prev |-> NULL, count |-> 0]

Allocated == {n \in Node : mml[n].count > 0}

\* Assigning to a field of a structure.
SetLinks(s, n, p) == [s EXCEPT !.next = n, !.prev = p]
SetCount(s, k) == [s EXCEPT !.count = k]

-----------------------------------------------------------------------------
NoFind == [type |-> NULL, name |-> NULL, at |-> NULL]
FindFrom(t, nm, n) == [type |-> t, name |-> nm, at |-> n]
Searching == find.type # NULL

\* IP2LPrependMemoryMapNode, with the fields IP2LCreateMemoryMapNode sets.
Prepended(n, t, nm) ==
  [m \in Node |->
    IF m = n
    THEN [type |-> t, name |-> nm, next |-> root[t], prev |-> NULL, count |-> 1]
    ELSE SetLinks(mml[m], mml[m].next, IF m = root[t] THEN n ELSE mml[m].prev)]

\* IP2LDetachMemoryMapNode; it may be called again for a detached node.
DetachedRoot_Bug(n) == root
DetachedRoot(n) ==
  [t \in Type |-> IF t = mml[n].type /\ root[t] = n THEN mml[n].next ELSE root[t]]

Detached_Bug(n) ==
  [m \in Node |->
    IF m = n
    THEN SetLinks(mml[m], NULL, NULL)
    ELSE SetLinks(mml[m], IF m = mml[n].prev THEN mml[n].next ELSE mml[m].next,
                          mml[m].prev)]
Detached(n) ==
  [m \in Node |->
    IF m = n
    THEN SetLinks(mml[m], NULL, NULL)
    ELSE SetLinks(mml[m], IF m = mml[n].prev THEN mml[n].next ELSE mml[m].next,
                          IF m = mml[n].next THEN mml[n].prev ELSE mml[m].prev)]

-----------------------------------------------------------------------------
Init ==
  /\ root = [t \in Type |-> NULL]
  /\ mml = [n \in Node |-> Freed]
  /\ find = NoFind

\* A location is opened: IP2LFindMemoryMapNode searches the list by name.
StartFind(t, nm) ==
  /\ ~ Searching
  /\ Allocated # Node
  /\ find' = FindFrom(t, nm, root[t])
  /\ UNCHANGED <<root, mml>>

Advance ==
  /\ Searching
  /\ find.at # NULL
  /\ mml[find.at].name # find.name
  /\ find' = FindFrom(find.type, find.name, mml[find.at].next)
  /\ UNCHANGED <<root, mml>>

\* The node is in the list: it gets another user.
Retain ==
  /\ Searching
  /\ find.at # NULL
  /\ mml[find.at].name = find.name
  /\ mml[find.at].count < MaxUsers
  /\ mml' = [mml EXCEPT ![find.at] = SetCount(@, @.count + 1)]
  /\ find' = NoFind
  /\ UNCHANGED root

\* It maps a segment of another size, so that the open fails.
Refuse ==
  /\ Searching
  /\ find.at # NULL
  /\ mml[find.at].name = find.name
  /\ find' = NoFind
  /\ UNCHANGED <<root, mml>>

\* It maps a segment whose name is gone or recreated: a new node replaces it.
Replace ==
  /\ Searching
  /\ find.at # NULL
  /\ mml[find.at].name = find.name
  /\ root' = DetachedRoot(find.at)
  /\ mml' = Detached(find.at)
  /\ find' = FindFrom(find.type, find.name, NULL)

\* The search ran off the list: create the node.
Create ==
  /\ Searching
  /\ find.at = NULL
  /\ \E n \in Node \ Allocated :
       /\ root' = [root EXCEPT ![find.type] = n]
       /\ mml' = Prepended(n, find.type, find.name)
  /\ find' = NoFind

\* deleteShared detaches the node of its location.
Drop(n) ==
  /\ ~ Searching
  /\ n \in Allocated
  /\ root' = DetachedRoot(n)
  /\ mml' = Detached(n)
  /\ UNCHANGED find

\* A location is closed, and the last one frees the node.
Close_Bug(n) ==
  /\ ~ Searching
  /\ n \in Allocated
  /\ mml' = [mml EXCEPT ![n] = SetCount(@, @.count - 1)]
  /\ UNCHANGED <<root, find>>
Close(n) ==
  /\ ~ Searching
  /\ n \in Allocated
  /\ IF mml[n].count > 1
     THEN /\ mml' = [mml EXCEPT ![n] = SetCount(@, @.count - 1)]
          /\ UNCHANGED root
     ELSE /\ root' = DetachedRoot(n)
          /\ mml' = [Detached(n) EXCEPT ![n] = Freed]
  /\ UNCHANGED find

Next ==
  \/ \E t \in Type, nm \in Name : StartFind(t, nm)
  \/ Advance \/ Retain \/ Refuse \/ Replace \/ Create
  \/ \E n \in Node : Drop(n) \/ Close(n)

Spec == Init /\ [][Next]_vars

-----------------------------------------------------------------------------
(* Properties                                                              *)

Link == Node \cup {NULL}
Struct == [type : Type, name : Name, next : Link, prev : Link, count : 1 .. MaxUsers]

\* The roots and links hold nodes; a structure is freed or has a user.
TypeOK ==
  /\ root \in [Type -> Link]
  /\ mml \in [Node -> {Freed} \cup Struct]
  /\ find \in {NoFind} \cup [type : Type, name : Name, at : Link]

(***************************************************************************)
(* The links of allocated nodes never lead to a freed node or to a node of *)
(* another list, next and prev are each other's inverse, and only a root   *)
(* or a detached node has nothing before it (IP2LDetachMemoryMapNode       *)
(* relies on all of it); a search only ever looks at allocated nodes.      *)
(***************************************************************************)
LinksSound ==
  /\ \A t \in Type : root[t] # NULL =>
       /\ root[t] \in Allocated
       /\ mml[root[t]].type = t
       /\ mml[root[t]].prev = NULL
  /\ \A m \in Allocated :
       /\ mml[m].next # NULL =>
            /\ mml[m].next \in Allocated
            /\ mml[mml[m].next].type = mml[m].type
            /\ mml[mml[m].next].prev = m
       /\ mml[m].prev # NULL =>
            mml[m].prev \in Allocated /\ mml[mml[m].prev].next = m
       /\ mml[m].prev = NULL /\ root[mml[m].type] # m => mml[m].next = NULL
  /\ find.at # NULL => find.at \in Allocated /\ mml[find.at].type = find.type

\* The nodes of a list, from x on: the least set with x that no link leaves.
LinkClosed(S) == \A m \in S : mml[m].next \in S \cup {NULL}
From(x) ==
  {n \in Node : \A S \in SUBSET Node : x \in S \cup {NULL} /\ LinkClosed(S) => n \in S}
Listed(t) == From(root[t])

(***************************************************************************)
(* The lists implement the table of nodes: whatever order the links are    *)
(* in, searching, creating, detaching and freeing have the effect the      *)
(* other modules assume of them.                                           *)
(***************************************************************************)
Abstract(n) ==
  IF mml[n].count = 0
  THEN [key |-> NULL, res |-> NULL, size |-> 0, count |-> 0,
        listed |-> FALSE, copied |-> FALSE]
  ELSE [key |-> <<mml[n].type, mml[n].name>>, res |-> NULL, size |-> 0,
        count |-> mml[n].count, listed |-> n \in Listed(mml[n].type),
        copied |-> FALSE]

Table == INSTANCE MapTable WITH
           None <- NULL, Key <- Type \X Name,
           table <- [n \in Node |-> Abstract(n)]

ImplementsTable == Table!Spec
=============================================================================
