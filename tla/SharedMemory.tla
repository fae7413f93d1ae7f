---------------------------- MODULE SharedMemory ----------------------------
(***************************************************************************)
(* Processes that load IP2Location databases into named POSIX shared       *)
(* memory (IP2LocationOpen, IP2LocationSetupShared, IP2LocationClose,      *)
(* IP2LocationDeleteSharedMap).                                            *)
(*                                                                         *)
(* A process is single threaded: it runs one call at a time, but every     *)
(* system call of one process interleaves with those of the others, and a  *)
(* process may die between any two.  There is no lock; the protocol is     *)
(*   - shm_open(O_CREAT|O_EXCL) elects the process that loads a segment,   *)
(*   - ftruncate gives it the size of the database rounded up to pages,    *)
(*   - one byte after the copied database, set to -1, marks it loaded,     *)
(*   - who finds the byte unset removes the name and fails.                *)
(***************************************************************************)
EXTENDS Naturals, FiniteSets

CONSTANTS
  Proc,      \* processes
  Loc,       \* location handles of one process
  Node,      \* memory map nodes of one process
  Name,      \* shared memory names
  Ino,       \* inodes of the shared memory file system (reused when free)
  Db,        \* database files
  DbSize,    \* DbSize[d]: length of d in bytes
  PageSize,  \* getpagesize()
  FFAt,      \* FFAt[d]: the offsets at which d has the byte 0xFF
  Extent,    \* Extent[d]: the bytes the header of d says its tables span
  Fallible,  \* the system calls that may fail; "reopen" stands for the
             \* shm_open and fstat that look a mapped name up again
  MaxCrash,  \* bound on process deaths
  None

ASSUME SizeAssumption ==
  /\ PageSize \in Nat \ {0}
  /\ DbSize \in [Db -> Nat]
  /\ Extent \in [Db -> Nat]
  /\ FFAt \in [Db -> SUBSET Nat]
  /\ \A d \in Db : FFAt[d] \subseteq 0 .. (DbSize[d] - 1)

ASSUME NoneAssumption == None \notin Node \cup Ino \cup Db \cup Name \cup Loc

ASSUME FiniteAssumption == IsFiniteSet(Loc) /\ MaxCrash \in Nat

VARIABLES
  dir,      \* dir[nm]: the inode a name refers to, or None
  seg,      \* seg[i]: size, contents and loading stage of a segment
  pc,       \* pc[p]: where p stands in its current call
  call,     \* call[p]: the locals of that call
  table,    \* table[p]: the memory map nodes of p
  loc,      \* loc[p][l]: the node and the database of an open location
  crashes

vars == <<dir, seg, pc, call, table, loc, crashes>>

T == INSTANCE NodeTable

-----------------------------------------------------------------------------
(* Helpers                                                                 *)

ShmSize(d) == ((DbSize[d] \div PageSize) + 1) * PageSize

\* The locals of a call: db, name and loc are its arguments, ino the inode
\* its descriptor shm_fd refers to, created is ~DB_loaded, node is mmlnode.
NoCall == [db |-> None, name |-> None, loc |-> None, ino |-> None,
           created |-> FALSE, node |-> None]
OpenCall(d, nm, l) == [NoCall EXCEPT !.db = d, !.name = nm, !.loc = l]
DeleteCall(nm, n) == [NoCall EXCEPT !.name = nm, !.node = n]
Holds(c, i) == [c EXCEPT !.ino = i]
Creates(c, i) == [c EXCEPT !.ino = i, !.created = TRUE]
Uses(c, n) == [c EXCEPT !.ino = None, !.node = n]

\* A segment: its size, the database it holds and how far it is loaded.
BlankSeg == [size |-> 0, data |-> None, stage |-> "blank"]
Sized(s, k) == [s EXCEPT !.size = k]
Filled(s, d) == [s EXCEPT !.data = d, !.stage = "copying"]
AtStage(s, g) == [s EXCEPT !.stage = g]

EmptyLoc == [node |-> None, db |-> None]

MayFail(calls) == Fallible \cap calls # {}

\* An inode is in use while a name, a node or a running call refers to it.
InUse(i) == \/ \E nm \in Name : dir[nm] = i
            \/ \E p \in Proc : \/ call[p].ino = i
                               \/ \E n \in Node : table[p][n].res = i

(***************************************************************************)
(* What reading the byte at DbSize[d] of segment i may yield: is it 0xFF?  *)
(* While the segment is being copied each byte of it may or may not have   *)
(* been written.                                                           *)
(***************************************************************************)
MarkSeen_Bug(i, d) == BOOLEAN
MarkSeen(i, d) ==
  CASE seg[i].stage = "blank"   -> {FALSE}
    [] seg[i].stage = "copying" -> {FALSE, DbSize[d] \in FFAt[seg[i].data]}
    [] seg[i].stage = "copied"  -> {DbSize[d] \in FFAt[seg[i].data]}
    [] seg[i].stage = "loaded"  ->
         {DbSize[d] \in FFAt[seg[i].data] \cup {DbSize[seg[i].data]}}

(***************************************************************************)
(* What IP2LocationInit may conclude from the contents of segment i for a  *)
(* location opened from file d: the header of the contents is checked      *)
(* against the length of the file.                                         *)
(***************************************************************************)
InitAccepts(i, d) ==
  IF seg[i].stage \in {"blank", "copying"}
  THEN BOOLEAN
  ELSE {Extent[seg[i].data] <= DbSize[d]}

Goto(p, label) == pc' = [pc EXCEPT ![p] = label]
Return(p) == Goto(p, "idle") /\ call' = [call EXCEPT ![p] = NoCall]

\* After a failure the creator removes the name, an opener leaves it.
Fail(p) ==
  IF call[p].created
  THEN /\ Goto(p, "unlink")
       /\ call' = [call EXCEPT ![p] = Holds(@, None)]
  ELSE Return(p)

-----------------------------------------------------------------------------
Init ==
  /\ dir = [nm \in Name |-> None]
  /\ seg = [i \in Ino |-> BlankSeg]
  /\ pc = [p \in Proc |-> "idle"]
  /\ call = [p \in Proc |-> NoCall]
  /\ table = [p \in Proc |-> [n \in Node |-> T!FreeNode]]
  /\ loc = [p \in Proc |-> [l \in Loc |-> EmptyLoc]]
  /\ crashes = 0

-----------------------------------------------------------------------------
(* Opening a location in shared memory                                     *)

StartOpen(p, l, d, nm) ==
  /\ pc[p] = "idle"
  /\ loc[p][l].node = None
  /\ Goto(p, "find")
  /\ call' = [call EXCEPT ![p] = OpenCall(d, nm, l)]
  /\ UNCHANGED <<dir, seg, table, loc, crashes>>

\* This process has the name mapped with another size: refuse.
RefuseMapped(p) ==
  /\ pc[p] = "find"
  /\ \E n \in T!Found(table[p], call[p].name) :
       table[p][n].size # ShmSize(call[p].db)
  /\ Return(p)
  /\ UNCHANGED <<dir, seg, table, loc, crashes>>

\* It has the name mapped and the name still refers to that segment.
Reuse(p) ==
  /\ pc[p] = "find"
  /\ \E n \in T!Found(table[p], call[p].name) :
       /\ table[p][n].size = ShmSize(call[p].db)
       /\ dir[call[p].name] = table[p][n].res
       /\ table' = [table EXCEPT ![p] = T!Retain(@, n)]
       /\ call' = [call EXCEPT ![p] = Uses(@, n)]
  /\ Goto(p, "init")
  /\ UNCHANGED <<dir, seg, loc, crashes>>

\* It has the name mapped, but the name is gone or refers to a new segment.
DetachStale(p) ==
  /\ pc[p] = "find"
  /\ \E n \in T!Found(table[p], call[p].name) :
       /\ table[p][n].size = ShmSize(call[p].db)
       /\ dir[call[p].name] # table[p][n].res \/ MayFail({"reopen"})
       /\ table' = [table EXCEPT ![p] = T!Detach(@, n)]
  /\ Goto(p, "create")
  /\ UNCHANGED <<dir, seg, call, loc, crashes>>

NotMapped(p) ==
  /\ pc[p] = "find"
  /\ T!Found(table[p], call[p].name) = {}
  /\ Goto(p, "create")
  /\ UNCHANGED <<dir, seg, call, table, loc, crashes>>

\* shm_open(O_CREAT | O_EXCL) succeeds: this process loads the segment.
Create_Bug(p) ==
  /\ pc[p] = "create"
  /\ \E i \in Ino :
       /\ dir[call[p].name] = i \/ ~ InUse(i)
       /\ dir' = [dir EXCEPT ![call[p].name] = i]
       /\ seg' = [seg EXCEPT ![i] = BlankSeg]
       /\ call' = [call EXCEPT ![p] = Creates(@, i)]
  /\ Goto(p, "truncate")
  /\ UNCHANGED <<table, loc, crashes>>
Create(p) ==
  /\ pc[p] = "create"
  /\ dir[call[p].name] = None
  /\ \E i \in Ino :
       /\ ~ InUse(i)
       /\ dir' = [dir EXCEPT ![call[p].name] = i]
       /\ seg' = [seg EXCEPT ![i] = BlankSeg]
       /\ call' = [call EXCEPT ![p] = Creates(@, i)]
  /\ Goto(p, "truncate")
  /\ UNCHANGED <<table, loc, crashes>>

\* The name exists, or no inode is free, or the call fails for another reason.
CreateFails(p) ==
  /\ pc[p] = "create"
  /\ \/ dir[call[p].name] # None
     \/ \A i \in Ino : InUse(i)
     \/ MayFail({"shm_open"})
  /\ Goto(p, "openExisting")
  /\ UNCHANGED <<dir, seg, call, table, loc, crashes>>

OpenExisting(p) ==
  /\ pc[p] = "openExisting"
  /\ dir[call[p].name] # None
  /\ Goto(p, "checkSize")
  /\ call' = [call EXCEPT ![p] = Holds(@, dir[call[p].name])]
  /\ UNCHANGED <<dir, seg, table, loc, crashes>>

OpenExistingFails(p) ==
  /\ pc[p] = "openExisting"
  /\ dir[call[p].name] = None \/ MayFail({"shm_open"})
  /\ Return(p)
  /\ UNCHANGED <<dir, seg, table, loc, crashes>>

Truncate(p) ==
  /\ pc[p] = "truncate"
  /\ Goto(p, "checkSize")
  /\ seg' = [seg EXCEPT ![call[p].ino] = Sized(@, ShmSize(call[p].db))]
  /\ UNCHANGED <<dir, call, table, loc, crashes>>

TruncateFails(p) ==
  /\ pc[p] = "truncate"
  /\ MayFail({"ftruncate"})
  /\ Fail(p)
  /\ UNCHANGED <<dir, seg, table, loc, crashes>>

\* fstat, the comparison of sizes and mmap; the creator then starts copying.
SizeMatches(p) ==
  /\ pc[p] = "checkSize"
  /\ seg[call[p].ino].size = ShmSize(call[p].db)
  /\ IF call[p].created
     THEN /\ Goto(p, "copying")
          /\ seg' = [seg EXCEPT ![call[p].ino] = Filled(@, call[p].db)]
     ELSE Goto(p, "checkMark") /\ UNCHANGED seg
  /\ UNCHANGED <<dir, call, table, loc, crashes>>

SizeDiffers(p) ==
  /\ pc[p] = "checkSize"
  /\ \/ seg[call[p].ino].size # ShmSize(call[p].db)
     \/ MayFail({"fstat", "mmap"})
  /\ Fail(p)
  /\ UNCHANGED <<dir, seg, table, loc, crashes>>

Copy(p) ==
  /\ pc[p] = "copying"
  /\ Goto(p, "mark")
  /\ seg' = [seg EXCEPT ![call[p].ino] = AtStage(@, "copied")]
  /\ UNCHANGED <<dir, call, table, loc, crashes>>

CopyFails(p) ==
  /\ pc[p] = "copying"
  /\ MayFail({"fread"})
  /\ Fail(p)
  /\ UNCHANGED <<dir, seg, table, loc, crashes>>

\* The new node takes over the descriptor, and with it the inode.
Attach(p, n) ==
  /\ n \in T!Free(table[p])
  /\ table' = [table EXCEPT ![p] =
       T!Allocate(@, n, call[p].name, call[p].ino, ShmSize(call[p].db),
                  call[p].created)]
  /\ call' = [call EXCEPT ![p] = Uses(@, n)]
  /\ Goto(p, "init")

\* The byte after the database is set to -1 and the node is created.
Mark(p) ==
  /\ pc[p] = "mark"
  /\ seg' = [seg EXCEPT ![call[p].ino] = AtStage(@, "loaded")]
  /\ \E n \in Node : Attach(p, n)
  /\ UNCHANGED <<dir, loc, crashes>>

Marked(p) ==
  /\ pc[p] = "checkMark"
  /\ TRUE \in MarkSeen(call[p].ino, call[p].db)
  /\ \E n \in Node : Attach(p, n)
  /\ UNCHANGED <<dir, seg, loc, crashes>>

NotMarked_Bug(p) ==
  /\ pc[p] = "checkMark"
  /\ FALSE \in MarkSeen(call[p].ino, call[p].db)
  /\ Return(p)
  /\ UNCHANGED <<dir, seg, table, loc, crashes>>
NotMarked_Wait_Bug(p) ==
  /\ pc[p] = "checkMark"
  /\ FALSE \in MarkSeen(call[p].ino, call[p].db)
  /\ UNCHANGED vars
NotMarked(p) ==
  /\ pc[p] = "checkMark"
  /\ FALSE \in MarkSeen(call[p].ino, call[p].db)
  /\ Goto(p, "unlink")
  /\ call' = [call EXCEPT ![p] = Holds(@, None)]
  /\ UNCHANGED <<dir, seg, table, loc, crashes>>

\* shm_unlink removes whatever the name refers to by now.
Unlink(p) ==
  /\ pc[p] = "unlink"
  /\ dir' = [dir EXCEPT ![call[p].name] = None]
  /\ Return(p)
  /\ UNCHANGED <<seg, table, loc, crashes>>

\* IP2LocationInit reads the header through the mapping.
InitSucceeds(p) ==
  /\ pc[p] = "init"
  /\ TRUE \in InitAccepts(table[p][call[p].node].res, call[p].db)
  /\ loc' = [loc EXCEPT ![p][call[p].loc] =
               [node |-> call[p].node, db |-> call[p].db]]
  /\ Return(p)
  /\ UNCHANGED <<dir, seg, table, crashes>>

InitFails(p) ==
  /\ pc[p] = "init"
  /\ FALSE \in InitAccepts(table[p][call[p].node].res, call[p].db)
  /\ table' = [table EXCEPT ![p] = T!Release(@, call[p].node)]
  /\ Return(p)
  /\ UNCHANGED <<dir, seg, loc, crashes>>

-----------------------------------------------------------------------------
(* Closing and deleting                                                    *)

Close(p, l) ==
  /\ pc[p] = "idle"
  /\ loc[p][l].node # None
  /\ table' = [table EXCEPT ![p] = T!Release(@, loc[p][l].node)]
  /\ loc' = [loc EXCEPT ![p][l] = EmptyLoc]
  /\ UNCHANGED <<dir, seg, pc, call, crashes>>

\* The name still refers to the segment of the location: go on to unlink it.
StartDelete(p, l) ==
  /\ pc[p] = "idle"
  /\ loc[p][l].node # None
  /\ LET n == loc[p][l].node IN
       /\ dir[table[p][n].key] = table[p][n].res
       /\ call' = [call EXCEPT ![p] = DeleteCall(table[p][n].key, n)]
  /\ Goto(p, "delete")
  /\ UNCHANGED <<dir, seg, table, loc, crashes>>

\* The name is gone or refers to another segment: only detach the node.
DeleteStale(p, l) ==
  /\ pc[p] = "idle"
  /\ loc[p][l].node # None
  /\ LET n == loc[p][l].node IN
       /\ \/ dir[table[p][n].key] # table[p][n].res
          \/ MayFail({"reopen"})
       /\ table' = [table EXCEPT ![p] = T!Detach(@, n)]
  /\ UNCHANGED <<dir, seg, pc, call, loc, crashes>>

FinishDelete(p) ==
  /\ pc[p] = "delete"
  /\ dir' = [dir EXCEPT ![call[p].name] = None]
  /\ table' = [table EXCEPT ![p] = T!Detach(@, call[p].node)]
  /\ Return(p)
  /\ UNCHANGED <<seg, loc, crashes>>

\* The process dies; the system closes its descriptors and mappings.
Crash(p) ==
  /\ crashes < MaxCrash
  /\ crashes' = crashes + 1
  /\ Return(p)
  /\ table' = [table EXCEPT ![p] = [n \in Node |-> T!FreeNode]]
  /\ loc' = [loc EXCEPT ![p] = [l \in Loc |-> EmptyLoc]]
  /\ UNCHANGED <<dir, seg>>

-----------------------------------------------------------------------------
OpenStep(p) ==
  \/ RefuseMapped(p) \/ Reuse(p) \/ DetachStale(p) \/ NotMapped(p)
  \/ Create(p) \/ CreateFails(p) \/ OpenExisting(p) \/ OpenExistingFails(p)
  \/ Truncate(p) \/ TruncateFails(p) \/ SizeMatches(p) \/ SizeDiffers(p)
  \/ Copy(p) \/ CopyFails(p) \/ Mark(p) \/ Marked(p) \/ NotMarked(p)
  \/ Unlink(p) \/ InitSucceeds(p) \/ InitFails(p)

Step(p) == OpenStep(p) \/ FinishDelete(p)

Next ==
  \E p \in Proc :
    \/ \E l \in Loc, d \in Db, nm \in Name : StartOpen(p, l, d, nm)
    \/ \E l \in Loc : Close(p, l) \/ StartDelete(p, l) \/ DeleteStale(p, l)
    \/ Step(p)
    \/ Crash(p)

Spec == Init /\ [][Next]_vars

-----------------------------------------------------------------------------
(* Safety                                                                  *)

Label == {"idle", "find", "create", "openExisting", "truncate", "checkSize",
          "copying", "mark", "checkMark", "unlink", "init", "delete"}

Segment == [size : Nat, data : Db \cup {None},
            stage : {"blank", "copying", "copied", "loaded"}]

Call == [db : Db \cup {None}, name : Name \cup {None}, loc : Loc \cup {None},
         ino : Ino \cup {None}, created : BOOLEAN, node : Node \cup {None}]

Tables == [Node -> T!NodeRecord(Name, Ino)]

\* The type invariant: what each C variable may hold.
TypeOK ==
  /\ dir \in [Name -> Ino \cup {None}]
  /\ seg \in [Ino -> Segment]
  /\ pc \in [Proc -> Label]
  /\ call \in [Proc -> Call]
  /\ table \in [Proc -> Tables]
  /\ loc \in [Proc -> [Loc -> [node : Node \cup {None}, db : Db \cup {None}]]]
  /\ crashes \in 0 .. MaxCrash

\* The locations that use node n: the open ones, and one that is being opened.
Holders(p, n) ==
  {l \in Loc : loc[p][l].node = n}
    \cup IF pc[p] = "init" /\ call[p].node = n THEN {call[p].loc} ELSE {}

(***************************************************************************)
(* The count of a node is the number of locations that use it, so a        *)
(* mapping is neither freed under a location nor leaked                    *)
(* (IP2LocationSetupShared's count++ against IP2LocationDBClose's --count).*)
(***************************************************************************)
RefCountExact ==
  \A p \in Proc, n \in Node : table[p][n].count = Cardinality(Holders(p, n))

(***************************************************************************)
(* A process lists at most one node per name, so that the first match of   *)
(* IP2LFindMemoryMapNode is the only one, and lists no freed node.         *)
(***************************************************************************)
OneListedNode ==
  \A p \in Proc : /\ \A nm \in Name : \A m, n \in T!Found(table[p], nm) : m = n
                  /\ \A n \in Node : table[p][n].listed => n \in T!Live(table[p])

\* p has created a segment and has not finished loading it.
Loading(p) == call[p].created /\ call[p].ino # None

(***************************************************************************)
(* A segment is written by one process only, before anyone uses it: while  *)
(* p loads it nobody else loads it and no node maps it, and once it is     *)
(* mapped at most one node claims to have copied it (copybythisprocess).   *)
(***************************************************************************)
LoadedByOne ==
  /\ \A p \in Proc : Loading(p) =>
       /\ \A q \in Proc \ {p} : Loading(q) => call[q].ino # call[p].ino
       /\ \A q \in Proc : \A n \in T!Live(table[q]) : table[q][n].res # call[p].ino
  /\ \A p, q \in Proc : \A m \in T!Live(table[p]), n \in T!Live(table[q]) :
       /\ table[p][m].res = table[q][n].res
       /\ table[p][m].copied /\ table[q][n].copied
       => p = q /\ m = n

\* Databases whose sizes differ also differ in their number of pages.
PageDistinct ==
  \A c, d \in Db : ShmSize(c) = ShmSize(d) => DbSize[c] = DbSize[d]

\* The segment an open location reads.
Source(p, l) == seg[table[p][loc[p][l].node].res]

(***************************************************************************)
(* An open location reads a segment that is completely loaded, with a      *)
(* database of the size of the file it was opened from ("different         *)
(* database file size, we should fail", ip2ldatabase.c:123 and :180).      *)
(***************************************************************************)
AttachedComplete ==
  \A p \in Proc, l \in Loc : loc[p][l].node # None =>
    /\ Source(p, l).stage = "loaded"
    /\ DbSize[Source(p, l).data] = DbSize[loc[p][l].db]

(***************************************************************************)
(* A process maps a segment once, however often it opens it and whatever   *)
(* else fails, unless looking its own name up again fails (cacheoccupants  *)
(* counts the users of the one mapping).                                   *)
(***************************************************************************)
MappedOnce ==
  ~ MayFail({"reopen"}) =>
    \A p \in Proc : \A m, n \in T!Live(table[p]) :
      table[p][m].res = table[p][n].res => m = n

(***************************************************************************)
(* What an open location reads never changes while it stays open, whoever  *)
(* deletes, recreates, closes or dies meanwhile ("the other processes will *)
(* continue to use the shared memory", README.md).                         *)
(***************************************************************************)
ContentStable ==
  [][\A p \in Proc, l \in Loc :
       loc[p][l].node # None /\ loc'[p][l] = loc[p][l]
         => Source(p, l)' = Source(p, l)]_vars

(***************************************************************************)
(* The name of a loaded segment is removed by deleteShared only ("To       *)
(* delete the shared memory call: location.deleteShared()", README.md).    *)
(***************************************************************************)
LoadedNameKept ==
  [][\A nm \in Name :
       /\ dir[nm] # None
       /\ seg[dir[nm]].stage = "loaded"
       /\ dir'[nm] # dir[nm]
       => \E p \in Proc : pc[p] = "delete"]_vars

-----------------------------------------------------------------------------
(* Refinement                                                              *)

Reading(p, l) ==
  IF loc[p][l].node = None
  THEN [of |-> None, file |-> None]
  ELSE [of |-> table[p][loc[p][l].node].res, file |-> loc[p][l].db]

Reads == [c \in Proc \X Loc |-> Reading(c[1], c[2])]
LoadedDb == [i \in Ino |-> IF seg[i].stage = "loaded" THEN seg[i].data ELSE None]

Segments == INSTANCE SharedSegments WITH
  Segment <- Ino,
  Client <- Proc \X Loc,
  named <- dir,
  contents <- LoadedDb,
  reads <- Reads

(***************************************************************************)
(* The protocol keeps what the mode promises (README.md:78-108): what a    *)
(* client reads was loaded completely before it came, belongs to the size  *)
(* of its file, and stays until it leaves.                                 *)
(***************************************************************************)
KeepsPromise == Segments!Spec

-----------------------------------------------------------------------------
(* Liveness                                                                *)

(***************************************************************************)
(* The operating system runs every process, so a call takes its next step. *)
(* Clients that keep trying open every database again and again, and close *)
(* what they opened.                                                       *)
(***************************************************************************)
Fairness == \A p \in Proc : WF_vars(Step(p))
Retrying ==
  /\ \A p \in Proc, d \in Db, nm \in Name :
       SF_vars(\E l \in Loc : StartOpen(p, l, d, nm))
  /\ \A p \in Proc : WF_vars(\E l \in Loc : Close(p, l))

RetrySpec == Spec /\ Fairness /\ Retrying

\* Every call returns: no process waits for another, not even for a dead one.
CallsReturn == \A p \in Proc : pc[p] # "idle" ~> pc[p] = "idle"

\* Under nm is a segment of full size that nobody will finish loading.
Stale(nm) ==
  /\ dir[nm] # None
  /\ seg[dir[nm]].size > 0
  /\ seg[dir[nm]].stage # "loaded"
  /\ \A p \in Proc : ~ (Loading(p) /\ call[p].ino = dir[nm])

(***************************************************************************)
(* A segment whose loader died half way does not block its name for ever   *)
(* (the shm_unlink of an opener that finds the byte unset,                 *)
(* ip2ldatabase.c:217).                                                    *)
(***************************************************************************)
StaleRecovers == \A nm \in Name : Stale(nm) ~> ~ Stale(nm)
=============================================================================
