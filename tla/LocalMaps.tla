------------------------------ MODULE LocalMaps ------------------------------
(***************************************************************************)
(* The locations of one process that read a database from its file: through *)
(* the FILE handle, through a private mapping of the file or from a copy in *)
(* memory (IP2LocationOpen, IP2LocationSetupMMap, IP2LocationSetupCache,    *)
(* IP2LocationClose).                                                       *)
(*                                                                          *)
(* Locations of one mode and path share a memory map node, found by the     *)
(* path alone.  Meanwhile somebody may put another file under the path, or  *)
(* remove it; the inode of an open or mapped file stays what it was.  A     *)
(* file that is overwritten in place is not modelled.                       *)
(***************************************************************************)
EXTENDS Naturals, FiniteSets

CONSTANTS
  Loc,      \* locations of the process
  Node,     \* memory map nodes of one list
  Path,     \* names of database files
  Db,       \* contents of database files
  DbSize,   \* DbSize[d]: length of d in bytes
  Extent,   \* Extent[d]: the bytes the header of d says its tables span
  MinSize,  \* IP2L_BASEADDR
  MaxSize,  \* IP2L_MAXDBSIZE
  None

Mapped == {"mmap", "cache"}
Mode == Mapped \cup {"file"}

ASSUME LocalAssumption ==
  /\ DbSize \in [Db -> Nat]
  /\ Extent \in [Db -> Nat]
  /\ MinSize \in Nat /\ MaxSize \in Nat
  /\ None \notin Loc \cup Node \cup Db \cup Path \cup Mode \cup {"closed"}
  /\ IsFiniteSet(Loc)

VARIABLES
  file,   \* file[path]: the contents found under a path, or None
  table,  \* table[m]: the memory map nodes of mode m
  loc     \* loc[l]: an open location: its mode, path, node and file

vars == <<file, table, loc>>

T == INSTANCE NodeTable

\* db is the file behind filehandle, whose length is filesize.
Closed == [mode |-> None, path |-> None, node |-> None, db |-> None]
Opened(m, p, n, d) == [mode |-> m, path |-> p, node |-> n, db |-> d]

IsOpen(l) == loc[l].db # None

-----------------------------------------------------------------------------
\* IP2LocationOpen refuses files shorter than a header or beyond 32 bit positions.
SizeInBounds(d) == DbSize[d] \in MinSize .. MaxSize

\* IP2LocationInit: a header found in r is checked against the length of d.
Accepts(r, d) == Extent[r] <= DbSize[d]

Init ==
  /\ file \in [Path -> Db \cup {None}]
  /\ table = [m \in Mapped |-> [n \in Node |-> T!FreeNode]]
  /\ loc = [l \in Loc |-> Closed]

(***************************************************************************)
(* The node a mapped location gets from the nodes of its mode, t, and t    *)
(* with it: the one that is found by the path, or a new one that maps or   *)
(* copies the file.                                                        *)
(***************************************************************************)
Setup_Bug(t, p, m) ==
  {[node |-> n, table |-> T!Allocate(t, n, p, file[p], DbSize[file[p]], m = "cache")] :
     n \in T!Free(t)}
Setup(t, p, m) ==
  IF T!Found(t, p) # {}
  THEN {[node |-> n, table |-> T!Retain(t, n)] : n \in T!Found(t, p)}
  ELSE {[node |-> n, table |-> T!Allocate(t, n, p, file[p], DbSize[file[p]], m = "cache")] :
          n \in T!Free(t)}

\* The header is read through the node; if it is refused the node is released.
Mapping(t, p, m) ==
  {IF Accepts(s.table[s.node].res, file[p])
   THEN [nodes |-> s.table, handle |-> Opened(m, p, s.node, file[p])]
   ELSE [nodes |-> T!Release(s.table, s.node), handle |-> Closed] : s \in Setup(t, p, m)}

(***************************************************************************)
(* IP2LocationOpen with the nodes t of all modes: what it may leave and    *)
(* the handle it may return, Closed for NULL.                              *)
(***************************************************************************)
Opening(t, p, m) ==
  IF file[p] = None \/ ~ SizeInBounds(file[p])
  THEN {[table |-> t, handle |-> Closed]}
  ELSE IF m = "file"
  THEN {[table |-> t,
         handle |-> IF Accepts(file[p], file[p]) THEN Opened(m, p, None, file[p]) ELSE Closed]}
  ELSE {[table |-> [t EXCEPT ![m] = o.nodes], handle |-> o.handle] : o \in Mapping(t[m], p, m)}

Open(l, p, m) ==
  /\ ~ IsOpen(l)
  /\ \E o \in Opening(table, p, m) :
       table' = o.table /\ loc' = [loc EXCEPT ![l] = o.handle]
  /\ UNCHANGED file

\* IP2LocationDBClose of the node of l, if it has one.
Released(t, l) ==
  IF loc[l].node = None THEN t
  ELSE [t EXCEPT ![loc[l].mode] = T!Release(@, loc[l].node)]

Close(l) ==
  /\ IsOpen(l)
  /\ table' = Released(table, l)
  /\ loc' = [loc EXCEPT ![l] = Closed]
  /\ UNCHANGED file

\* Somebody renames another file to the path, or removes the path.
Replace(p, d) ==
  /\ file' = [file EXCEPT ![p] = d]
  /\ UNCHANGED <<table, loc>>

Next ==
  \/ \E l \in Loc, p \in Path, m \in Mode : Open(l, p, m)
  \/ \E l \in Loc : Close(l)
  \/ \E p \in Path, d \in Db \cup {None} : Replace(p, d)

Spec == Init /\ [][Next]_vars

-----------------------------------------------------------------------------
(* Properties                                                              *)

TypeOK ==
  /\ file \in [Path -> Db \cup {None}]
  /\ table \in [Mapped -> [Node -> T!NodeRecord(Path, Db)]]
  /\ loc \in [Loc -> {Closed} \cup
       [mode : Mode, path : Path, node : Node \cup {None}, db : Db]]

Holders(m, n) == {l \in Loc : loc[l].mode = m /\ loc[l].node = n}

(***************************************************************************)
(* The count of a node is the number of open locations that use it, so     *)
(* closing one of them neither frees the memory under another nor leaks    *)
(* it (IP2LocationSetupMMap and SetupCache against IP2LocationDBClose).    *)
(***************************************************************************)
RefCountExact ==
  \A m \in Mapped, n \in Node : table[m][n].count = Cardinality(Holders(m, n))

\* What an open location reads.
Contents(l) == IF loc[l].node = None THEN loc[l].db
                                     ELSE table[loc[l].mode][loc[l].node].res

(***************************************************************************)
(* A location that is the first to open its path in its mode reads the     *)
(* file that is there now: closing every location of an old file is enough *)
(* to let go of it.                                                        *)
(***************************************************************************)
FirstReadsCurrent ==
  [][\A l \in Loc :
       /\ ~ IsOpen(l) /\ IsOpen(l)'
       /\ ~ \E k \in Loc : /\ IsOpen(k)
                           /\ loc[k].path = loc'[l].path
                           /\ loc[k].mode = loc'[l].mode
       => Contents(l)' = file[loc'[l].path]]_vars

(***************************************************************************)
(* What an open location reads stays the same until it is closed, whatever *)
(* is opened or closed beside it and whatever happens to the file.         *)
(***************************************************************************)
ContentsStable ==
  [][\A l \in Loc : IsOpen(l) /\ loc'[l] = loc[l]
       => Contents(l)' = Contents(l)]_vars

(***************************************************************************)
(* The memory a location reads is at least as long as its file             *)
(* ("info.cachesize >= info.filesize", test/test.js:96): the bounds of     *)
(* its reads are those of the file (cache->size).                          *)
(***************************************************************************)
MemoryCoversFile ==
  \A l \in Loc : loc[l].node # None =>
    DbSize[loc[l].db] <= table[loc[l].mode][loc[l].node].size
=============================================================================
