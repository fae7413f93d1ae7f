------------------------- MODULE SharedMemoryProofs -------------------------
(***************************************************************************)
(* Proofs about SharedMemory, for every number of processes, locations,    *)
(* names, inodes and databases.                                            *)
(***************************************************************************)
EXTENDS SharedMemory, FiniteSetTheorems, FunctionTheorems, TLAPS

\* The labels at which a call holds a descriptor, and so an inode.
Holding == {"truncate", "checkSize", "copying", "mark", "checkMark"}

\* The locals c of a call at label at, in a process with the locations ls.
CallFits(at, c, ls) ==
  /\ at = "idle" => c = NoCall
  /\ at \notin {"idle", "delete"} =>
       /\ c.db \in Db
       /\ c.name \in Name
       /\ c.loc \in Loc
       /\ ls[c.loc].node = None
  /\ at \in Holding => c.ino \in Ino
  /\ at \notin Holding => c.ino = None
  /\ at \in {"truncate", "copying", "mark"} => c.created
  /\ at \in {"find", "create", "openExisting", "checkMark", "delete"} => ~ c.created
  /\ at \in {"init", "delete"} => c.node \in Node

\* A free handle has no database.
LocFits(ls) ==
  \A l \in Loc : IF ls[l].node = None THEN ls[l] = EmptyLoc ELSE ls[l].db \in Db

LocalOK == \A p \in Proc : CallFits(pc[p], call[p], loc[p]) /\ LocFits(loc[p])

\* A segment has at least one page.
LEMMA ShmSizePositive == \A d \in Db : ShmSize(d) \in Nat /\ ShmSize(d) > 0
  <1> SUFFICES ASSUME NEW d \in Db PROVE ShmSize(d) \in Nat /\ ShmSize(d) > 0
    OBVIOUS
  <1>1. DbSize[d] \div PageSize \in Nat
    BY SizeAssumption
  <1>2. \A k \in Nat : (k + 1) * PageSize \in Nat /\ (k + 1) * PageSize > 0
    BY SizeAssumption
  <1> QED BY <1>1, <1>2 DEF ShmSize

\* The variables start with values of their types.
LEMMA TypeInit == Init => TypeOK /\ LocalOK
  BY FiniteAssumption
  DEF Init, TypeOK, LocalOK, CallFits, LocFits, Segment, Call, Label, BlankSeg, NoCall, EmptyLoc,
      Tables, T!FreeNode, T!NodeRecord, Holding

(***************************************************************************)
(* The node operators keep a table a table.                                *)
(***************************************************************************)
LEMMA TableOps ==
  ASSUME NEW t \in Tables, NEW n \in Node
  PROVE  /\ t[n].listed => T!Retain(t, n) \in Tables
         /\ T!Detach(t, n) \in Tables
         /\ T!Release(t, n) \in Tables
         /\ \A k \in Name, r \in Ino, s \in Nat, c \in BOOLEAN :
              T!Allocate(t, n, k, r, s, c) \in Tables
  <1> USE DEF Tables, T!NodeRecord, T!FreeNode
  <1>1. t[n].listed => T!Retain(t, n) \in Tables
    BY DEF T!Retain
  <1>2. T!Detach(t, n) \in Tables
    <2>1. t[n].listed => t[n] \in [key : Name, res : Ino, size : Nat, count : Nat \ {0},
                  listed : BOOLEAN, copied : BOOLEAN]
      OBVIOUS
    <2>2. t[n].listed => [t[n] EXCEPT !.listed = FALSE] \in T!NodeRecord(Name, Ino)
      BY <2>1
    <2> QED BY <2>2 DEF T!Detach
  <1>3. T!Release(t, n) \in Tables
    BY DEF T!Release
  <1>4. \A k \in Name, r \in Ino, s \in Nat, c \in BOOLEAN : T!Allocate(t, n, k, r, s, c) \in Tables
    BY DEF T!Allocate
  <1> QED BY <1>1, <1>2, <1>3, <1>4

\* The fields of the locals of a new call.
LEMMA CallOps ==
  /\ NoCall \in Call /\ ~ NoCall.created /\ NoCall.ino = None
  /\ \A d \in Db, nm \in Name, l \in Loc :
       LET c == OpenCall(d, nm, l) IN
         /\ c \in Call
         /\ c.db = d /\ c.name = nm /\ c.loc = l /\ c.ino = None /\ ~ c.created
  /\ \A nm \in Name \cup {None}, n \in Node :
       LET c == DeleteCall(nm, n) IN
         /\ c \in Call
         /\ c.name = nm /\ c.node = n /\ c.ino = None /\ ~ c.created
  <1>1. NoCall \in Call /\ ~ NoCall.created /\ NoCall.ino = None
    BY DEF Call, NoCall
  <1>2. ASSUME NEW d \in Db, NEW nm \in Name, NEW l \in Loc
        PROVE  LET c == OpenCall(d, nm, l) IN
         /\ c \in Call
         /\ c.db = d /\ c.name = nm /\ c.loc = l /\ c.ino = None /\ ~ c.created
    BY DEF Call, NoCall, OpenCall
  <1>3. ASSUME NEW nm \in Name \cup {None}, NEW n \in Node
        PROVE  LET c == DeleteCall(nm, n) IN
         /\ c \in Call
         /\ c.name = nm /\ c.node = n /\ c.ino = None /\ ~ c.created
    BY DEF Call, NoCall, DeleteCall
  <1> QED BY <1>1, <1>2, <1>3

\* The fields of the locals of a call after an assignment.
LEMMA CallUpdates ==
  ASSUME NEW c \in Call
  PROVE  /\ \A i \in Ino \cup {None} :
              LET e == Holds(c, i) IN
                /\ e \in Call
                /\ e.db = c.db /\ e.name = c.name /\ e.loc = c.loc
                /\ e.ino = i /\ e.created = c.created /\ e.node = c.node
         /\ \A i \in Ino :
              LET e == Creates(c, i) IN
                /\ e \in Call
                /\ e.db = c.db /\ e.name = c.name /\ e.loc = c.loc
                /\ e.ino = i /\ e.created /\ e.node = c.node
         /\ \A n \in Node :
              LET e == Uses(c, n) IN
                /\ e \in Call
                /\ e.db = c.db /\ e.name = c.name /\ e.loc = c.loc
                /\ e.ino = None /\ e.created = c.created /\ e.node = n
  BY DEF Call, Holds, Creates, Uses

\* The fields of a segment after an assignment.
LEMMA SegmentOps ==
  /\ BlankSeg \in Segment /\ BlankSeg.size = 0 /\ BlankSeg.stage = "blank"
  /\ \A s \in Segment :
       /\ \A k \in Nat : /\ Sized(s, k) \in Segment
                        /\ Sized(s, k).size = k
                        /\ Sized(s, k).data = s.data
                        /\ Sized(s, k).stage = s.stage
       /\ \A d \in Db : /\ Filled(s, d) \in Segment
                       /\ Filled(s, d).size = s.size
                       /\ Filled(s, d).data = d
                       /\ Filled(s, d).stage = "copying"
       /\ \A g \in {"copied", "loaded"} :
            /\ AtStage(s, g) \in Segment
            /\ AtStage(s, g).size = s.size
            /\ AtStage(s, g).data = s.data
            /\ AtStage(s, g).stage = g
  BY DEF Segment, BlankSeg, Sized, Filled, AtStage

-----------------------------------------------------------------------------
(* The shape of a step: what it does to the process that takes it.         *)

LocTables == [Loc -> [node : Node \cup {None}, db : Db \cup {None}]]

\* The process p goes to label at with the locals c, the nodes t and the
\* locations ls; nothing changes in another process.
Becomes(p, at, c, t, ls) ==
  /\ at \in Label /\ c \in Call /\ t \in Tables /\ ls \in LocTables
  /\ CallFits(at, c, ls) /\ LocFits(ls)
  /\ pc' = [pc EXCEPT ![p] = at]
  /\ call' = [call EXCEPT ![p] = c]
  /\ table' = [table EXCEPT ![p] = t]
  /\ loc' = [loc EXCEPT ![p] = ls]

\* It moves on in a call, or starts or ends one, that holds no node.
Moves(p) ==
  /\ pc[p] # "init"
  /\ \E at \in Label \ {"init"}, c \in Call : Becomes(p, at, c, table[p], loc[p])

Detaches(p) ==
  /\ pc[p] # "init"
  /\ \E at \in Label \ {"init"}, c \in Call, n \in Node :
       Becomes(p, at, c, T!Detach(table[p], n), loc[p])

Retains(p) ==
  /\ pc[p] = "find"
  /\ \E n \in Node : /\ table[p][n].listed
                     /\ Becomes(p, "init", Uses(call[p], n), T!Retain(table[p], n), loc[p])

Attaches(p) ==
  /\ pc[p] \in {"mark", "checkMark"}
  /\ \E n \in T!Free(table[p]) :
       Becomes(p, "init", Uses(call[p], n),
               T!Allocate(table[p], n, call[p].name, call[p].ino,
                          ShmSize(call[p].db), call[p].created), loc[p])

Opens(p) ==
  /\ pc[p] = "init"
  /\ Becomes(p, "idle", NoCall, table[p],
             [loc[p] EXCEPT ![call[p].loc] = [node |-> call[p].node, db |-> call[p].db]])

GivesUp(p) ==
  /\ pc[p] = "init"
  /\ Becomes(p, "idle", NoCall, T!Release(table[p], call[p].node), loc[p])

Closes(p) ==
  /\ pc[p] = "idle"
  /\ \E l \in Loc :
       /\ loc[p][l].node # None
       /\ Becomes(p, "idle", NoCall, T!Release(table[p], loc[p][l].node),
                  [loc[p] EXCEPT ![l] = EmptyLoc])

Dies(p) ==
  Becomes(p, "idle", NoCall, [n \in Node |-> T!FreeNode], [l \in Loc |-> EmptyLoc])

Shape(p) == \/ Moves(p) \/ Detaches(p) \/ Retains(p) \/ Attaches(p)
            \/ Opens(p) \/ GivesUp(p) \/ Closes(p) \/ Dies(p)

\* A step that only goes on to another label of its call.
LEMMA MoveShape ==
  ASSUME TypeOK, LocalOK, NEW p \in Proc,
         NEW at \in Label \ {"init"}, NEW c \in Call, CallFits(at, c, loc[p]),
         pc[p] # "init",
         pc' = [pc EXCEPT ![p] = at], call' = [call EXCEPT ![p] = c],
         UNCHANGED <<table, loc>>
  PROVE  Shape(p)
  <1>1. table[p] \in Tables /\ loc[p] \in LocTables /\ LocFits(loc[p])
    BY DEF TypeOK, LocalOK, LocTables
  <1>2. table' = [table EXCEPT ![p] = table[p]] /\ loc' = [loc EXCEPT ![p] = loc[p]]
    BY DEF TypeOK
  <1> QED BY <1>1, <1>2 DEF Shape, Moves, Becomes

\* A system call fails.
LEMMA FailShape ==
  ASSUME TypeOK, LocalOK, NEW p \in Proc, Fail(p), UNCHANGED <<table, loc>>,
         pc[p] \in {"truncate", "checkSize", "copying"}
  PROVE  Shape(p)
  <1>1. CallFits(pc[p], call[p], loc[p]) /\ call[p] \in Call
    BY DEF LocalOK, TypeOK
  <1>2. CASE call[p].created
    <2>1. CallFits("unlink", Holds(call[p], None), loc[p])
      BY <1>1, CallUpdates DEF CallFits, Holding
    <2> QED BY <1>1, <1>2, <2>1, CallUpdates, MoveShape DEF Fail, Goto, Label
  <1>3. CASE ~ call[p].created
    <2>1. CallFits("idle", NoCall, loc[p])
      BY CallOps DEF CallFits, Holding
    <2> QED BY <1>1, <1>3, <2>1, CallOps, MoveShape DEF Fail, Return, Goto, Label
  <1> QED BY <1>2, <1>3

\* Every step of an open has one of the shapes.
LEMMA StepShape == ASSUME TypeOK, LocalOK, NEW p \in Proc, OpenStep(p) PROVE Shape(p)
  <1>1. /\ CallFits(pc[p], call[p], loc[p]) /\ LocFits(loc[p])
        /\ call[p] \in Call /\ table[p] \in Tables /\ loc[p] \in LocTables
    BY DEF LocalOK, TypeOK, LocTables
  <1>2. CallFits("idle", NoCall, loc[p])
    BY CallOps DEF CallFits, Holding
  <1>3. CASE RefuseMapped(p) \/ OpenExistingFails(p) \/ Unlink(p)
    BY <1>2, <1>3, CallOps, MoveShape
    DEF RefuseMapped, OpenExistingFails, Unlink, Return, Goto, Label
  <1>4. call = [call EXCEPT ![p] = call[p]]
    BY DEF TypeOK
  <1>5. ASSUME NEW at \in Label \ {"init"}, Goto(p, at), CallFits(at, call[p], loc[p]),
               pc[p] # "init", UNCHANGED <<call, table, loc>>
        PROVE  Shape(p)
    BY <1>1, <1>4, <1>5, MoveShape DEF Goto
  <1>6. CASE NotMapped(p)
    BY <1>1, <1>5, <1>6 DEF NotMapped, CallFits, Holding, Label
  <1>7. CASE CreateFails(p)
    BY <1>1, <1>5, <1>7 DEF CreateFails, CallFits, Holding, Label
  <1>8. CASE Truncate(p)
    BY <1>1, <1>5, <1>8 DEF Truncate, CallFits, Holding, Label
  <1>9. CASE Copy(p)
    BY <1>1, <1>5, <1>9 DEF Copy, CallFits, Holding, Label
  <1>10. CASE SizeMatches(p)
    <2>1. CASE call[p].created
      BY <1>1, <1>5, <1>10, <2>1 DEF SizeMatches, CallFits, Holding, Label
    <2>2. CASE ~ call[p].created
      BY <1>1, <1>5, <1>10, <2>2 DEF SizeMatches, CallFits, Holding, Label
    <2> QED BY <2>1, <2>2
  <1>11. CASE TruncateFails(p) \/ SizeDiffers(p) \/ CopyFails(p)
    BY <1>11, FailShape DEF TruncateFails, SizeDiffers, CopyFails
  <1>12. CASE NotMarked(p)
    <2>1. CallFits("unlink", Holds(call[p], None), loc[p])
      BY <1>1, <1>12, CallUpdates DEF NotMarked, CallFits, Holding
    <2> QED BY <1>1, <1>12, <2>1, CallUpdates, MoveShape DEF NotMarked, Goto, Label
  <1>13. CASE OpenExisting(p)
    <2> DEFINE i == dir[call[p].name]
    <2>1. i \in Ino
      BY <1>1, <1>13 DEF OpenExisting, CallFits, TypeOK
    <2>2. CallFits("checkSize", Holds(call[p], i), loc[p])
      BY <1>1, <1>13, <2>1, CallUpdates DEF OpenExisting, CallFits, Holding
    <2> QED BY <1>1, <1>13, <2>1, <2>2, CallUpdates, MoveShape DEF OpenExisting, Goto, Label
  <1>14. CASE Create(p)
    <2>1. PICK i \in Ino : call' = [call EXCEPT ![p] = Creates(@, i)]
      BY <1>14 DEF Create
    <2>2. pc[p] = "create"
      BY <1>14 DEF Create
    <2>3. CallFits("truncate", Creates(call[p], i), loc[p])
      BY <1>1, <2>2, CallUpdates DEF CallFits, Holding
    <2> QED BY <1>1, <1>14, <2>1, <2>2, <2>3, CallUpdates, MoveShape DEF Create, Goto, Label
  <1>15. CASE Reuse(p)
    <2>1. PICK n \in T!Found(table[p], call[p].name) :
            /\ table' = [table EXCEPT ![p] = T!Retain(@, n)]
            /\ call' = [call EXCEPT ![p] = Uses(@, n)]
      BY <1>15 DEF Reuse
    <2>2. n \in Node /\ table[p][n].listed
      BY DEF T!Found
    <2>3. CallFits("init", Uses(call[p], n), loc[p])
      BY <1>1, <1>15, <2>2, CallUpdates DEF Reuse, CallFits, Holding
    <2>4. loc' = [loc EXCEPT ![p] = loc[p]]
      BY <1>15 DEF Reuse, TypeOK
    <2>5. Becomes(p, "init", Uses(call[p], n), T!Retain(table[p], n), loc[p])
      BY <1>1, <1>15, <2>1, <2>2, <2>3, <2>4, CallUpdates, TableOps
      DEF Becomes, Reuse, Goto, Label
    <2> QED BY <1>15, <2>2, <2>5 DEF Shape, Retains, Reuse
  <1>16. CASE DetachStale(p)
    <2>1. PICK n \in T!Found(table[p], call[p].name) :
            table' = [table EXCEPT ![p] = T!Detach(@, n)]
      BY <1>16 DEF DetachStale
    <2>2. n \in Node
      BY DEF T!Found
    <2>3. CallFits("create", call[p], loc[p])
      BY <1>1, <1>16 DEF DetachStale, CallFits, Holding
    <2>4. loc' = [loc EXCEPT ![p] = loc[p]]
      BY <1>16 DEF DetachStale, TypeOK
    <2>5. Becomes(p, "create", call[p], T!Detach(table[p], n), loc[p])
      BY <1>1, <1>4, <1>16, <2>1, <2>2, <2>3, <2>4, TableOps
      DEF Becomes, DetachStale, Goto, Label
    <2> QED BY <1>1, <1>16, <2>2, <2>5 DEF Shape, Detaches, DetachStale, Label
  <1>17. CASE Mark(p) \/ Marked(p)
    <2>1. PICK n \in Node : Attach(p, n)
      BY <1>17 DEF Mark, Marked
    <2>2. pc[p] \in {"mark", "checkMark"} /\ loc' = [loc EXCEPT ![p] = loc[p]]
      BY <1>17 DEF Mark, Marked, TypeOK
    <2>3. CallFits("init", Uses(call[p], n), loc[p])
      <3>1. /\ Uses(call[p], n).ino = None /\ Uses(call[p], n).node = n
            /\ Uses(call[p], n).db = call[p].db /\ Uses(call[p], n).name = call[p].name
            /\ Uses(call[p], n).loc = call[p].loc
        BY <1>1, CallUpdates
      <3>2. call[p].db \in Db /\ call[p].name \in Name /\ call[p].loc \in Loc
            /\ loc[p][call[p].loc].node = None
        BY <1>1, <2>2 DEF CallFits
      <3> QED BY <3>1, <3>2 DEF CallFits, Holding
    <2>4. T!Allocate(table[p], n, call[p].name, call[p].ino, ShmSize(call[p].db),
                     call[p].created) \in Tables
      BY <1>1, <2>2, TableOps, ShmSizePositive DEF CallFits, Holding, Call
    <2>5. Becomes(p, "init", Uses(call[p], n),
               T!Allocate(table[p], n, call[p].name, call[p].ino,
                          ShmSize(call[p].db), call[p].created), loc[p])
      BY <1>1, <2>1, <2>2, <2>3, <2>4, CallUpdates DEF Becomes, Attach, Goto, Label
    <2> QED BY <2>1, <2>2, <2>5 DEF Shape, Attaches, Attach
  <1>18. CASE InitSucceeds(p)
    <2> DEFINE ls == [loc[p] EXCEPT ![call[p].loc] =
                        [node |-> call[p].node, db |-> call[p].db]]
    <2>1. call[p].loc \in Loc /\ call[p].node \in Node /\ call[p].db \in Db
      BY <1>1, <1>18 DEF InitSucceeds, CallFits
    <2>2. ls \in LocTables
      BY <1>1, <2>1 DEF LocTables
    <2>3. LocFits(ls)
      BY <1>1, <2>1, NoneAssumption DEF LocFits, LocTables
    <2>4. CallFits("idle", NoCall, ls)
      BY CallOps DEF CallFits, Holding
    <2>5. table' = [table EXCEPT ![p] = table[p]] /\ loc' = [loc EXCEPT ![p] = ls]
      BY <1>18 DEF InitSucceeds, TypeOK
    <2>6. Becomes(p, "idle", NoCall, table[p], ls)
      BY <1>1, <1>18, <2>2, <2>3, <2>4, <2>5, CallOps
      DEF Becomes, InitSucceeds, Return, Goto, Label
    <2> QED BY <1>18, <2>6 DEF Shape, Opens, InitSucceeds
  <1>19. CASE InitFails(p)
    <2>1. call[p].node \in Node
      BY <1>1, <1>19 DEF InitFails, CallFits
    <2>2. loc' = [loc EXCEPT ![p] = loc[p]]
      BY <1>19 DEF InitFails, TypeOK
    <2>3. Becomes(p, "idle", NoCall, T!Release(table[p], call[p].node), loc[p])
      BY <1>1, <1>2, <1>19, <2>1, <2>2, CallOps, TableOps
      DEF Becomes, InitFails, Return, Goto, Label
    <2> QED BY <1>19, <2>3 DEF Shape, GivesUp, InitFails
  <1> QED
    BY <1>3, <1>6, <1>7, <1>8, <1>9, <1>10, <1>11, <1>12, <1>13, <1>14, <1>15, <1>16,
       <1>17, <1>18, <1>19
    DEF OpenStep

\* The steps of one process, and its death.
ProcStep(p) ==
  \/ \E l \in Loc, d \in Db, nm \in Name : StartOpen(p, l, d, nm)
  \/ \E l \in Loc : Close(p, l) \/ StartDelete(p, l) \/ DeleteStale(p, l)
  \/ OpenStep(p) \/ FinishDelete(p)
  \/ Crash(p)

\* Each of them has one of the shapes.
LEMMA ProcShape == ASSUME TypeOK, LocalOK, NEW p \in Proc, ProcStep(p) PROVE Shape(p)
  <1>1. \/ \E l \in Loc, d \in Db, nm \in Name : StartOpen(p, l, d, nm)
        \/ \E l \in Loc : Close(p, l) \/ StartDelete(p, l) \/ DeleteStale(p, l)
        \/ OpenStep(p) \/ FinishDelete(p)
        \/ Crash(p)
    BY DEF ProcStep
  <1>2. /\ CallFits(pc[p], call[p], loc[p]) /\ LocFits(loc[p])
        /\ call[p] \in Call /\ table[p] \in Tables /\ loc[p] \in LocTables
    BY DEF LocalOK, TypeOK, LocTables
  <1>3. \A ls : CallFits("idle", NoCall, ls)
    BY CallOps DEF CallFits, Holding
  <1>4. ASSUME NEW l \in Loc, NEW d \in Db, NEW nm \in Name, StartOpen(p, l, d, nm)
        PROVE  Shape(p)
    <2>1. CallFits("find", OpenCall(d, nm, l), loc[p])
      BY <1>4, CallOps DEF StartOpen, CallFits, Holding
    <2> QED BY <1>4, <2>1, CallOps, MoveShape DEF StartOpen, Goto, Label
  <1>5. ASSUME NEW l \in Loc, Close(p, l) PROVE Shape(p)
    <2> DEFINE ls == [loc[p] EXCEPT ![l] = EmptyLoc]
    <2>1. loc[p][l].node \in Node
      BY <1>2, <1>5 DEF Close, LocTables
    <2>2. ls \in LocTables /\ LocFits(ls)
      BY <1>2 DEF LocTables, LocFits, EmptyLoc
    <2>3. call[p] = NoCall
      BY <1>2, <1>5 DEF Close, CallFits
    <2>4. pc' = [pc EXCEPT ![p] = "idle"] /\ call' = [call EXCEPT ![p] = NoCall]
      BY <1>5, <2>3 DEF Close, TypeOK
    <2>5. loc' = [loc EXCEPT ![p] = ls]
      BY <1>5 DEF Close
    <2>6. Becomes(p, "idle", NoCall, T!Release(table[p], loc[p][l].node), ls)
      BY <1>2, <1>3, <1>5, <2>1, <2>2, <2>4, <2>5, CallOps, TableOps DEF Becomes, Close, Label
    <2> QED BY <1>5, <2>6 DEF Shape, Closes, Close
  <1>6. ASSUME NEW l \in Loc, StartDelete(p, l) PROVE Shape(p)
    <2> DEFINE n == loc[p][l].node
    <2>1. n \in Node /\ table[p][n].key \in Name \cup {None}
      BY <1>2, <1>6 DEF StartDelete, LocTables, Tables, T!NodeRecord, T!FreeNode
    <2>2. CallFits("delete", DeleteCall(table[p][n].key, n), loc[p])
      BY <2>1, CallOps DEF CallFits, Holding
    <2> QED BY <1>6, <2>1, <2>2, CallOps, MoveShape DEF StartDelete, Goto, Label
  <1>7. ASSUME NEW l \in Loc, DeleteStale(p, l) PROVE Shape(p)
    <2> DEFINE n == loc[p][l].node
    <2>1. n \in Node
      BY <1>2, <1>7 DEF DeleteStale, LocTables
    <2>2. call[p] = NoCall
      BY <1>2, <1>7 DEF DeleteStale, CallFits
    <2>3. /\ pc' = [pc EXCEPT ![p] = "idle"] /\ call' = [call EXCEPT ![p] = NoCall]
          /\ loc' = [loc EXCEPT ![p] = loc[p]]
      BY <1>7, <2>2 DEF DeleteStale, TypeOK
    <2>4. Becomes(p, "idle", NoCall, T!Detach(table[p], n), loc[p])
      BY <1>2, <1>3, <1>7, <2>1, <2>3, CallOps, TableOps DEF Becomes, DeleteStale, Label
    <2> QED BY <1>7, <2>1, <2>4, CallOps DEF Shape, Detaches, DeleteStale, Label
  <1>8. CASE FinishDelete(p)
    <2>1. call[p].node \in Node
      BY <1>2, <1>8 DEF FinishDelete, CallFits
    <2>2. loc' = [loc EXCEPT ![p] = loc[p]]
      BY <1>8 DEF FinishDelete, TypeOK
    <2>3. Becomes(p, "idle", NoCall, T!Detach(table[p], call[p].node), loc[p])
      BY <1>2, <1>3, <1>8, <2>1, <2>2, CallOps, TableOps
      DEF Becomes, FinishDelete, Return, Goto, Label
    <2> QED BY <1>8, <2>1, <2>3, CallOps DEF Shape, Detaches, FinishDelete, Label
  <1>9. CASE Crash(p)
    <2>1. [n \in Node |-> T!FreeNode] \in Tables
      BY DEF Tables, T!NodeRecord
    <2>2. [l \in Loc |-> EmptyLoc] \in LocTables /\ LocFits([l \in Loc |-> EmptyLoc])
      BY DEF LocTables, LocFits, EmptyLoc
    <2> QED BY <1>3, <1>9, <2>1, <2>2, CallOps
            DEF Shape, Dies, Becomes, Crash, Return, Goto, Label
  <1> QED BY <1>1, <1>4, <1>5, <1>6, <1>7, <1>8, <1>9, StepShape

\* Every step of the system is a step of one process.
LEMMA NextShape == ASSUME TypeOK, LocalOK, Next PROVE \E p \in Proc : Shape(p)
  <1>1. PICK p \in Proc : ProcStep(p)
    BY DEF Next, Step, ProcStep
  <1> QED BY <1>1, ProcShape
-----------------------------------------------------------------------------
(* Types                                                                   *)

\* Every shape keeps the types of what belongs to processes.
LEMMA LocalStep ==
  ASSUME TypeOK, LocalOK, NEW p \in Proc, Shape(p)
  PROVE  /\ LocalOK'
         /\ pc' \in [Proc -> Label] /\ call' \in [Proc -> Call]
         /\ table' \in [Proc -> Tables] /\ loc' \in [Proc -> LocTables]
  <1>1. PICK at, c, t, ls : Becomes(p, at, c, t, ls)
    BY DEF Shape, Moves, Detaches, Retains, Attaches, Opens, GivesUp, Closes, Dies
  <1>2. /\ pc' \in [Proc -> Label] /\ call' \in [Proc -> Call]
        /\ table' \in [Proc -> Tables] /\ loc' \in [Proc -> LocTables]
    BY <1>1 DEF Becomes, TypeOK, LocTables
  <1>3. ASSUME NEW q \in Proc PROVE CallFits(pc'[q], call'[q], loc'[q]) /\ LocFits(loc'[q])
    <2>1. CASE q = p
      BY <1>1, <2>1 DEF Becomes, TypeOK
    <2>2. CASE q # p
      BY <1>1, <2>2 DEF Becomes, TypeOK, LocalOK
    <2> QED BY <2>1, <2>2
  <1> QED BY <1>2, <1>3 DEF LocalOK

SharedTypes ==
  /\ dir \in [Name -> Ino \cup {None}]
  /\ seg \in [Ino -> Segment]
  /\ crashes \in 0 .. MaxCrash

\* Every step keeps the types of what processes share.
LEMMA SharedStep == ASSUME TypeOK, LocalOK, Next PROVE SharedTypes'
  <1> USE DEF SharedTypes
  <1>1. PICK p \in Proc :
          \/ \E l \in Loc, d \in Db, nm \in Name : StartOpen(p, l, d, nm)
          \/ \E l \in Loc : Close(p, l) \/ StartDelete(p, l) \/ DeleteStale(p, l)
          \/ OpenStep(p) \/ FinishDelete(p)
          \/ Crash(p)
    BY DEF Next, Step
  <1>2. CallFits(pc[p], call[p], loc[p]) /\ SharedTypes
    BY DEF LocalOK, TypeOK
  <1>3. ASSUME UNCHANGED <<dir, seg, crashes>> PROVE SharedTypes'
    BY <1>2, <1>3
  <1>4. CASE Truncate(p)
    BY <1>2, <1>4, SegmentOps, ShmSizePositive DEF Truncate, CallFits, Holding
  <1>5. CASE SizeMatches(p)
    <2>1. CASE call[p].created
      <3>1. call[p].ino \in Ino /\ call[p].db \in Db
        BY <1>2, <1>5 DEF SizeMatches, CallFits, Holding
      <3>2. Filled(seg[call[p].ino], call[p].db) \in Segment
        BY <1>2, <3>1, SegmentOps
      <3> QED BY <1>2, <1>5, <2>1, <3>1, <3>2 DEF SizeMatches
    <2>2. CASE ~ call[p].created
      BY <1>3, <1>5, <2>2 DEF SizeMatches
    <2> QED BY <2>1, <2>2
  <1>6. CASE Copy(p)
    BY <1>2, <1>6, SegmentOps DEF Copy, CallFits, Holding
  <1>7. CASE Mark(p)
    BY <1>2, <1>7, SegmentOps DEF Mark, CallFits, Holding
  <1>8. CASE Create(p)
    <2>1. PICK i \in Ino : /\ dir' = [dir EXCEPT ![call[p].name] = i]
                          /\ seg' = [seg EXCEPT ![i] = BlankSeg]
      BY <1>8 DEF Create
    <2>2. BlankSeg \in Segment /\ crashes' = crashes
      BY <1>8, SegmentOps DEF Create
    <2> QED BY <1>2, <2>1, <2>2
  <1>9. CASE Unlink(p) \/ FinishDelete(p)
    BY <1>2, <1>9 DEF Unlink, FinishDelete
  <1>10. CASE Crash(p)
    BY <1>2, <1>10, FiniteAssumption DEF Crash
  <1> QED
    BY <1>1, <1>3, <1>4, <1>5, <1>6, <1>7, <1>8, <1>9, <1>10
    DEF OpenStep, StartOpen, Close, StartDelete, DeleteStale, RefuseMapped, Reuse, DetachStale,
        NotMapped, CreateFails, OpenExisting, OpenExistingFails, TruncateFails, SizeDiffers,
        CopyFails, Marked, NotMarked, InitSucceeds, InitFails

\* Every step, or none, keeps the types.
LEMMA TypeStep == TypeOK /\ LocalOK /\ [Next]_vars => (TypeOK /\ LocalOK)'
  <1> SUFFICES ASSUME TypeOK, LocalOK, [Next]_vars PROVE (TypeOK /\ LocalOK)'
    OBVIOUS
  <1>1. CASE Next
    BY <1>1, NextShape, LocalStep, SharedStep DEF TypeOK, SharedTypes, LocTables
  <1>2. CASE UNCHANGED vars
    BY <1>2 DEF vars, TypeOK, LocalOK
  <1> QED BY <1>1, <1>2

(***************************************************************************)
(* Every variable of the implementation keeps its type, and the locals of  *)
(* a call are set when the call needs them.                                *)
(***************************************************************************)
THEOREM TypeCorrect == Spec => [](TypeOK /\ LocalOK)
  <1>1. Init => TypeOK /\ LocalOK
    BY TypeInit
  <1>2. TypeOK /\ LocalOK /\ [Next]_vars => (TypeOK /\ LocalOK)'
    BY TypeStep
  <1> QED BY <1>1, <1>2, PTL DEF Spec
-----------------------------------------------------------------------------
(* Reference counts                                                        *)

\* Holders(p, n) for a process with label at, locals c and locations ls.
InLocs(ls, n) == {l \in Loc : ls[l].node = n}
Users(at, c, ls, n) ==
  InLocs(ls, n) \cup IF at = "init" /\ c.node = n THEN {c.loc} ELSE {}

Counted(at, c, t, ls) ==
  \A n \in Node : t[n].count = Cardinality(Users(at, c, ls, n))

\* A location more is a user more.
LEMMA UsersAdd ==
  ASSUME NEW S \in SUBSET Loc, NEW l \in Loc, l \notin S
  PROVE  Cardinality(S \cup {l}) = Cardinality(S) + 1
  BY FiniteAssumption, FS_Subset, FS_AddElement

\* A location less is a user less.
LEMMA UsersRemove ==
  ASSUME NEW S \in SUBSET Loc, NEW l \in S
  PROVE  /\ Cardinality(S \ {l}) = Cardinality(S) - 1
         /\ Cardinality(S) \in Nat /\ Cardinality(S) >= 1
         /\ Cardinality(S \ {l}) \in Nat
  <1>1. IsFiniteSet(S) /\ IsFiniteSet(S \ {l})
    BY FiniteAssumption, FS_Subset
  <1>2. Cardinality(S) \in Nat /\ Cardinality(S \ {l}) \in Nat
    BY <1>1, FS_CardinalityType
  <1>3. Cardinality(S \ {l}) = Cardinality(S) - 1
    BY <1>1, FS_RemoveElement
  <1> QED BY <1>2, <1>3

\* What the operations of the table do to the counts.
LEMMA Counts ==
  ASSUME NEW t \in Tables, NEW n \in Node, NEW m \in Node
  PROVE  /\ T!Detach(t, n)[m].count = t[m].count
         /\ T!Retain(t, n)[m].count = IF m = n THEN t[n].count + 1 ELSE t[m].count
         /\ T!Release(t, n)[m].count =
              IF m # n THEN t[m].count ELSE IF t[n].count > 1 THEN t[n].count - 1 ELSE 0
         /\ \A k \in Name, r \in Ino, s \in Nat, c \in BOOLEAN :
              T!Allocate(t, n, k, r, s, c)[m].count = IF m = n THEN 1 ELSE t[m].count
  <1> USE DEF Tables, T!NodeRecord, T!FreeNode
  <1>1. T!Detach(t, n)[m].count = t[m].count
    BY DEF T!Detach
  <1>2. T!Retain(t, n)[m].count = IF m = n THEN t[n].count + 1 ELSE t[m].count
    BY DEF T!Retain
  <1>3. T!Release(t, n)[m].count =
          IF m # n THEN t[m].count ELSE IF t[n].count > 1 THEN t[n].count - 1 ELSE 0
    BY DEF T!Release
  <1>4. \A k \in Name, r \in Ino, s \in Nat, c \in BOOLEAN :
          T!Allocate(t, n, k, r, s, c)[m].count = IF m = n THEN 1 ELSE t[m].count
    BY DEF T!Allocate
  <1> QED BY <1>1, <1>2, <1>3, <1>4

\* Dropping one user of n and releasing n keeps the counts exact.
LEMMA ReleaseCounts ==
  ASSUME NEW t \in Tables, NEW n \in Node, NEW l \in Loc,
         NEW at, NEW c, NEW ls, NEW at2, NEW c2, NEW ls2,
         Counted(at, c, t, ls),
         at = "init" => c.loc \in Loc,
         l \in Users(at, c, ls, n),
         \A m \in Node : Users(at2, c2, ls2, m) = Users(at, c, ls, m) \ (IF m = n THEN {l} ELSE {})
  PROVE  Counted(at2, c2, T!Release(t, n), ls2)
  <1> SUFFICES ASSUME NEW m \in Node
               PROVE  T!Release(t, n)[m].count = Cardinality(Users(at2, c2, ls2, m))
    BY DEF Counted
  <1>1. CASE m # n
    <2>1. T!Release(t, n)[m].count = t[m].count
      BY <1>1, Counts
    <2>2. Users(at2, c2, ls2, m) = Users(at, c, ls, m)
      BY <1>1
    <2>3. t[m].count = Cardinality(Users(at, c, ls, m))
      BY DEF Counted
    <2> QED BY <2>1, <2>2, <2>3
  <1>2. CASE m = n
    <2>1. Users(at, c, ls, n) \in SUBSET Loc
      BY DEF Users, InLocs
    <2>2. t[n].count = Cardinality(Users(at, c, ls, n))
      BY DEF Counted
    <2>3. T!Release(t, n)[n].count = IF t[n].count > 1 THEN t[n].count - 1 ELSE 0
      BY Counts
    <2> QED BY <1>2, <2>1, <2>2, <2>3, UsersRemove
  <1> QED BY <1>1, <1>2

\* Every shape keeps the counts of the process that moves.
LEMMA CountStep ==
  ASSUME TypeOK, LocalOK, NEW p \in Proc, Shape(p),
         Counted(pc[p], call[p], table[p], loc[p])
  PROVE  Counted(pc'[p], call'[p], table'[p], loc'[p])
  <1>1. /\ CallFits(pc[p], call[p], loc[p]) /\ LocFits(loc[p])
        /\ call[p] \in Call /\ table[p] \in Tables /\ loc[p] \in LocTables
    BY DEF LocalOK, TypeOK, LocTables
  <1>2. ASSUME NEW at, NEW c, NEW t, NEW ls, Becomes(p, at, c, t, ls), Counted(at, c, t, ls)
        PROVE  Counted(pc'[p], call'[p], table'[p], loc'[p])
    BY <1>2 DEF Becomes, TypeOK
  <1>3. CASE Moves(p)
    <2>1. PICK at \in Label \ {"init"}, c \in Call : Becomes(p, at, c, table[p], loc[p])
      BY <1>3 DEF Moves
    <2>2. Counted(at, c, table[p], loc[p])
      BY <1>3, <2>1 DEF Moves, Counted, Users
    <2> QED BY <1>2, <2>1, <2>2
  <1>4. CASE Detaches(p)
    <2>1. PICK at \in Label \ {"init"}, c \in Call, n \in Node :
            Becomes(p, at, c, T!Detach(table[p], n), loc[p])
      BY <1>4 DEF Detaches
    <2>2. Counted(at, c, T!Detach(table[p], n), loc[p])
      BY <1>1, <1>4, <2>1, Counts DEF Detaches, Counted, Users
    <2> QED BY <1>2, <2>1, <2>2
  <1>5. ASSUME NEW n \in Node, pc[p] \in {"find", "mark", "checkMark"}
        PROVE  \A m \in Node :
                 /\ Cardinality(Users("init", Uses(call[p], n), loc[p], m)) =
                    Cardinality(Users(pc[p], call[p], loc[p], m)) + (IF m = n THEN 1 ELSE 0)
                 /\ Cardinality(Users(pc[p], call[p], loc[p], m)) \in Nat
    <2> SUFFICES ASSUME NEW m \in Node
                 PROVE  /\ Cardinality(Users("init", Uses(call[p], n), loc[p], m)) =
                           Cardinality(Users(pc[p], call[p], loc[p], m)) + (IF m = n THEN 1 ELSE 0)
                        /\ Cardinality(Users(pc[p], call[p], loc[p], m)) \in Nat
      OBVIOUS
    <2> DEFINE S == Users(pc[p], call[p], loc[p], m)
    <2>1. call[p].loc \in Loc /\ loc[p][call[p].loc].node = None
      BY <1>1, <1>5 DEF CallFits
    <2>2. S \in SUBSET Loc /\ call[p].loc \notin S
      BY <1>5, <2>1, NoneAssumption DEF Users, InLocs
    <2>3. Uses(call[p], n).loc = call[p].loc /\ Uses(call[p], n).node = n
      BY <1>1, CallUpdates
    <2>4. Users("init", Uses(call[p], n), loc[p], m) =
            IF m = n THEN S \cup {call[p].loc} ELSE S
      BY <1>5, <2>3 DEF Users
    <2>5. Cardinality(S) \in Nat
      BY <2>2, FiniteAssumption, FS_Subset, FS_CardinalityType
    <2> QED BY <2>1, <2>2, <2>4, <2>5, UsersAdd
  <1>6. CASE Retains(p)
    <2>1. PICK n \in Node : Becomes(p, "init", Uses(call[p], n), T!Retain(table[p], n), loc[p])
      BY <1>6 DEF Retains
    <2>2. Counted("init", Uses(call[p], n), T!Retain(table[p], n), loc[p])
      <3> SUFFICES ASSUME NEW m \in Node
                   PROVE  T!Retain(table[p], n)[m].count =
                          Cardinality(Users("init", Uses(call[p], n), loc[p], m))
        BY DEF Counted
      <3>1. T!Retain(table[p], n)[m].count = IF m = n THEN table[p][n].count + 1 ELSE table[p][m].count
        BY <1>1, Counts
      <3>2. table[p][m].count = Cardinality(Users(pc[p], call[p], loc[p], m))
        BY DEF Counted
      <3> QED BY <1>5, <1>6, <3>1, <3>2 DEF Retains
    <2> QED BY <1>2, <2>1, <2>2
  <1>7. CASE Attaches(p)
    <2>1. PICK n \in T!Free(table[p]) :
            Becomes(p, "init", Uses(call[p], n),
                    T!Allocate(table[p], n, call[p].name, call[p].ino,
                               ShmSize(call[p].db), call[p].created), loc[p])
      BY <1>7 DEF Attaches
    <2> DEFINE t == T!Allocate(table[p], n, call[p].name, call[p].ino,
                               ShmSize(call[p].db), call[p].created)
    <2>2. n \in Node /\ table[p][n].count = 0
      BY DEF T!Free
    <2>3. Counted("init", Uses(call[p], n), t, loc[p])
      <3> SUFFICES ASSUME NEW m \in Node
                   PROVE  t[m].count = Cardinality(Users("init", Uses(call[p], n), loc[p], m))
        BY DEF Counted
      <3>0. /\ call[p].name \in Name /\ call[p].ino \in Ino /\ ShmSize(call[p].db) \in Nat
            /\ call[p].created \in BOOLEAN
        BY <1>1, <1>7, ShmSizePositive DEF Attaches, CallFits, Holding, Call
      <3>1. t[m].count = IF m = n THEN 1 ELSE table[p][m].count
        BY <1>1, <2>2, <3>0, Counts
      <3>2. table[p][m].count = Cardinality(Users(pc[p], call[p], loc[p], m))
        BY DEF Counted
      <3> QED BY <1>5, <1>7, <2>2, <3>1, <3>2 DEF Attaches
    <2> QED BY <1>2, <2>1, <2>3
  <1>8. CASE Opens(p)
    <2> DEFINE ls == [loc[p] EXCEPT ![call[p].loc] = [node |-> call[p].node, db |-> call[p].db]]
    <2>1. call[p].loc \in Loc /\ call[p].node \in Node /\ loc[p][call[p].loc].node = None
      BY <1>1, <1>8 DEF Opens, CallFits
    <2>2. ASSUME NEW n \in Node PROVE Users("idle", NoCall, ls, n) = Users("init", call[p], loc[p], n)
      <3>1. \A l \in Loc : ls[l].node = IF l = call[p].loc THEN call[p].node ELSE loc[p][l].node
        BY <1>1 DEF LocTables
      <3>2. InLocs(ls, n) = InLocs(loc[p], n) \cup IF call[p].node = n THEN {call[p].loc} ELSE {}
        BY <2>1, <3>1, NoneAssumption DEF InLocs
      <3> QED BY <3>2 DEF Users
    <2>3. Counted("idle", NoCall, table[p], ls)
      BY <1>8, <2>2 DEF Opens, Counted
    <2> QED BY <1>2, <1>8, <2>3 DEF Opens
  <1>9. CASE GivesUp(p)
    <2> DEFINE n == call[p].node
               l == call[p].loc
    <2>1. l \in Loc /\ n \in Node /\ loc[p][l].node = None
      BY <1>1, <1>9 DEF GivesUp, CallFits
    <2>2. l \in Users("init", call[p], loc[p], n)
      BY <2>1 DEF Users
    <2>3. ASSUME NEW m \in Node
          PROVE  Users("idle", NoCall, loc[p], m) =
                 Users("init", call[p], loc[p], m) \ (IF m = n THEN {l} ELSE {})
      <3>1. l \notin InLocs(loc[p], m)
        BY <2>1, NoneAssumption DEF InLocs
      <3> QED BY <3>1 DEF Users
    <2>4. Counted("idle", NoCall, T!Release(table[p], n), loc[p])
      BY <1>1, <1>9, <2>1, <2>2, <2>3, ReleaseCounts DEF GivesUp
    <2> QED BY <1>2, <1>9, <2>4 DEF GivesUp
  <1>10. CASE Closes(p)
    <2>1. PICK l \in Loc :
            /\ loc[p][l].node # None
            /\ Becomes(p, "idle", NoCall, T!Release(table[p], loc[p][l].node),
                       [loc[p] EXCEPT ![l] = EmptyLoc])
      BY <1>10 DEF Closes
    <2> DEFINE n == loc[p][l].node
               ls == [loc[p] EXCEPT ![l] = EmptyLoc]
    <2>2. n \in Node
      BY <1>1, <2>1 DEF LocTables
    <2>3. l \in Users("idle", call[p], loc[p], n)
      BY DEF Users, InLocs
    <2>4. ASSUME NEW m \in Node
          PROVE  Users("idle", NoCall, ls, m) =
                 Users("idle", call[p], loc[p], m) \ (IF m = n THEN {l} ELSE {})
      <3>1. \A k \in Loc : ls[k].node = IF k = l THEN None ELSE loc[p][k].node
        BY <1>1 DEF LocTables, EmptyLoc
      <3>2. InLocs(ls, m) = InLocs(loc[p], m) \ (IF m = n THEN {l} ELSE {})
        BY <3>1, NoneAssumption DEF InLocs
      <3> QED BY <3>2 DEF Users
    <2>5. Counted("idle", NoCall, T!Release(table[p], n), ls)
      BY <1>1, <1>10, <2>2, <2>3, <2>4, ReleaseCounts DEF Closes
    <2> QED BY <1>2, <2>1, <2>5
  <1>11. CASE Dies(p)
    <2> DEFINE t == [n \in Node |-> T!FreeNode]
               ls == [l \in Loc |-> EmptyLoc]
    <2>1. ASSUME NEW n \in Node PROVE Users("idle", NoCall, ls, n) = {}
      BY NoneAssumption DEF Users, InLocs, EmptyLoc
    <2>2. Counted("idle", NoCall, t, ls)
      BY <2>1, FS_EmptySet DEF Counted, T!FreeNode
    <2> QED BY <1>2, <1>11, <2>2 DEF Dies
  <1> QED BY <1>3, <1>4, <1>6, <1>7, <1>8, <1>9, <1>10, <1>11 DEF Shape

\* The users of every node are counted, in every process.
Counts1 == \A p \in Proc : Counted(pc[p], call[p], table[p], loc[p])

\* A step changes nothing of another process.
LEMMA BecomesElsewhere ==
  ASSUME TypeOK, NEW p \in Proc, NEW q \in Proc, q # p, Shape(p)
  PROVE  pc'[q] = pc[q] /\ call'[q] = call[q] /\ table'[q] = table[q] /\ loc'[q] = loc[q]
  BY DEF TypeOK, Shape, Moves, Detaches, Retains, Attaches, Opens, GivesUp, Closes, Dies, Becomes

\* Every step, or none, keeps the counts.
LEMMA CountsStep == TypeOK /\ LocalOK /\ Counts1 /\ [Next]_vars => Counts1'
  <1> SUFFICES ASSUME TypeOK, LocalOK, Counts1, [Next]_vars PROVE Counts1'
    OBVIOUS
  <1>1. CASE Next
    <2>1. PICK p \in Proc : Shape(p)
      BY <1>1, NextShape
    <2>2. ASSUME NEW q \in Proc PROVE Counted(pc'[q], call'[q], table'[q], loc'[q])
      <3>1. CASE q = p
        BY <2>1, <3>1, CountStep DEF Counts1
      <3>2. CASE q # p
        BY <2>1, <3>2, BecomesElsewhere DEF Counts1
      <3> QED BY <3>1, <3>2
    <2> QED BY <2>2 DEF Counts1
  <1>2. CASE UNCHANGED vars
    BY <1>2 DEF vars, Counts1
  <1> QED BY <1>1, <1>2

\* There are no users at the start.
LEMMA CountsInit == Init => Counts1
  <1> SUFFICES ASSUME Init, NEW p \in Proc, NEW n \in Node
               PROVE  table[p][n].count = Cardinality(Users(pc[p], call[p], loc[p], n))
    BY DEF Counts1, Counted
  <1>1. Users(pc[p], call[p], loc[p], n) = {}
    BY NoneAssumption DEF Init, Users, InLocs, EmptyLoc
  <1>2. table[p][n].count = 0
    BY DEF Init, T!FreeNode
  <1> QED BY <1>1, <1>2, FS_EmptySet

(***************************************************************************)
(* A node is freed exactly when the last location that uses it is closed:  *)
(* its count is the number of locations that hold it, at every step.       *)
(***************************************************************************)
THEOREM RefCount == Spec => []RefCountExact
  <1>1. Init => TypeOK /\ LocalOK /\ Counts1
    BY TypeInit, CountsInit
  <1>2. TypeOK /\ LocalOK /\ Counts1 /\ [Next]_vars => (TypeOK /\ LocalOK /\ Counts1)'
    BY TypeStep, CountsStep
  <1>3. Counts1 => RefCountExact
    BY DEF Counts1, Counted, Users, InLocs, RefCountExact, Holders
  <1> QED BY <1>1, <1>2, <1>3, PTL DEF Spec

\* The locations of p that are open or about to be.
Occupied(p) ==
  {l \in Loc : loc[p][l].node # None} \cup IF pc[p] = "init" THEN {call[p].loc} ELSE {}

\* There is a location for every node.
LEMMA LiveOccupied ==
  ASSUME TypeOK, LocalOK, Counts1, NEW p \in Proc
  PROVE  /\ IsFiniteSet(T!Live(table[p])) /\ IsFiniteSet(Occupied(p))
         /\ Occupied(p) \in SUBSET Loc
         /\ Cardinality(T!Live(table[p])) <= Cardinality(Occupied(p))
  <1> DEFINE of(l) == IF loc[p][l].node # None THEN loc[p][l].node ELSE call[p].node
             L == T!Live(table[p])
             S == {l \in Occupied(p) : of(l) \in L}
             f == [l \in S |-> of(l)]
  <1>1. CallFits(pc[p], call[p], loc[p]) /\ Counted(pc[p], call[p], table[p], loc[p])
    BY DEF LocalOK, Counts1
  <1>2. Occupied(p) \in SUBSET Loc
    BY <1>1 DEF Occupied, CallFits
  <1>3. ASSUME NEW n \in L PROVE \E l \in S : f[l] = n
    <2>1. n \in Node /\ table[p][n].count # 0
      BY DEF T!Live
    <2>2. Users(pc[p], call[p], loc[p], n) # {}
      BY <1>1, <2>1, FS_EmptySet DEF Counted
    <2>3. PICK l \in Loc : \/ loc[p][l].node = n
                           \/ pc[p] = "init" /\ call[p].node = n /\ l = call[p].loc
      BY <1>1, <2>2 DEF Users, InLocs, CallFits
    <2>4. n # None
      BY <2>1, NoneAssumption
    <2>5. l \in Occupied(p) /\ of(l) = n
      BY <1>1, <2>3, <2>4 DEF Occupied, CallFits
    <2> QED BY <2>5
  <1>4. IsFiniteSet(Occupied(p)) /\ IsFiniteSet(S) /\ S \subseteq Occupied(p)
    BY <1>2, FiniteAssumption, FS_Subset
  <1>5. f \in Surjection(S, L)
    <2>1. f \in [S -> L]
      OBVIOUS
    <2> HIDE DEF f, S, L
    <2> QED BY <1>3, <2>1, Fun_IsSurj
  <1> HIDE DEF f, S, L
  <1>6. IsFiniteSet(L) /\ Cardinality(L) <= Cardinality(S)
    BY <1>4, <1>5, FS_Surjection
  <1>7. Cardinality(S) <= Cardinality(Occupied(p))
    BY <1>4, FS_Subset
  <1>8. Cardinality(L) \in Nat /\ Cardinality(S) \in Nat /\ Cardinality(Occupied(p)) \in Nat
    BY <1>4, <1>6, FS_CardinalityType
  <1> QED BY <1>2, <1>4, <1>6, <1>7, <1>8 DEF L

(***************************************************************************)
(* A process keeps no more memory maps than it has locations open or about *)
(* to be, however often names are deleted and recreated: a detached node   *)
(* is let go of with its last location (IP2LocationDBClose).               *)
(***************************************************************************)
THEOREM MapsBounded ==
  Spec => [](\A p \in Proc : Cardinality(T!Live(table[p])) <= Cardinality(Occupied(p)))
  <1>1. Init => TypeOK /\ LocalOK /\ Counts1
    BY TypeInit, CountsInit
  <1>2. TypeOK /\ LocalOK /\ Counts1 /\ [Next]_vars => (TypeOK /\ LocalOK /\ Counts1)'
    BY TypeStep, CountsStep
  <1>3. TypeOK /\ LocalOK /\ Counts1 =>
          \A p \in Proc : Cardinality(T!Live(table[p])) <= Cardinality(Occupied(p))
    BY LiveOccupied
  <1> QED BY <1>1, <1>2, <1>3, PTL DEF Spec

(***************************************************************************)
(* A node for each location is enough: when a call needs a node for the    *)
(* segment it has mapped (IP2LCreateMemoryMapNode), one is free, so that   *)
(* the number of nodes of a configuration bars no behaviour of the code.   *)
(***************************************************************************)
THEOREM NodesSuffice ==
  ASSUME IsFiniteSet(Node), Cardinality(Loc) <= Cardinality(Node)
  PROVE  Spec => [](\A p \in Proc : pc[p] \in {"mark", "checkMark"} => T!Free(table[p]) # {})
  <1>1. Init => TypeOK /\ LocalOK /\ Counts1
    BY TypeInit, CountsInit
  <1>2. TypeOK /\ LocalOK /\ Counts1 /\ [Next]_vars => (TypeOK /\ LocalOK /\ Counts1)'
    BY TypeStep, CountsStep
  <1>3. ASSUME TypeOK, LocalOK, Counts1, NEW p \in Proc, pc[p] \in {"mark", "checkMark"},
               T!Free(table[p]) = {}
        PROVE  FALSE
    <2>1. call[p].loc \in Loc /\ loc[p][call[p].loc].node = None
      BY <1>3 DEF LocalOK, CallFits
    <2>2. Occupied(p) \in SUBSET (Loc \ {call[p].loc})
      BY <1>3, <2>1 DEF Occupied
    <2>3. /\ Cardinality(Loc \ {call[p].loc}) = Cardinality(Loc) - 1
          /\ Cardinality(Loc) \in Nat /\ IsFiniteSet(Loc \ {call[p].loc})
      BY <2>1, UsersRemove, FiniteAssumption, FS_Subset
    <2>4. /\ Cardinality(Occupied(p)) <= Cardinality(Loc \ {call[p].loc})
          /\ Cardinality(Occupied(p)) \in Nat
      BY <2>2, <2>3, FS_Subset, FS_CardinalityType
    <2>5. T!Live(table[p]) = Node
      <3>1. \A n \in Node : table[p][n].count \in Nat
        BY <1>3 DEF TypeOK, Tables, T!NodeRecord, T!FreeNode
      <3> QED BY <1>3, <3>1 DEF T!Free, T!Live
    <2>6. Cardinality(Node) <= Cardinality(Occupied(p)) /\ Cardinality(Node) \in Nat
      BY <1>3, <2>5, LiveOccupied, FS_CardinalityType
    <2> QED BY <2>3, <2>4, <2>6
  <1>4. TypeOK /\ LocalOK /\ Counts1 =>
          \A p \in Proc : pc[p] \in {"mark", "checkMark"} => T!Free(table[p]) # {}
    BY <1>3
  <1> QED BY <1>1, <1>2, <1>4, PTL DEF Spec

-----------------------------------------------------------------------------
(* The nodes a process lists                                               *)

\* The labels at which a call has not found its name among the nodes.
Looking == {"create", "openExisting", "truncate", "checkSize", "copying", "mark", "checkMark"}

\* The nodes of u are nodes of t, that map the same under the same keys, and
\* are listed in u as in t, unless they are in S.
Inherits(t, u, S) ==
  \A n \in Node :
    /\ u[n].count > 0 => t[n].count > 0 /\ u[n].res = t[n].res /\ u[n].key = t[n].key
    /\ u[n].listed => t[n].listed /\ u[n].key = t[n].key
    /\ u[n].count > 0 /\ n \notin S => u[n].listed = t[n].listed

\* The same nodes, or none.
LEMMA Inherited ==
  ASSUME NEW t \in Tables
  PROVE  Inherits(t, t, {}) /\ Inherits(t, [m \in Node |-> T!FreeNode], {})
  BY DEF Tables, T!NodeRecord, T!FreeNode, Inherits

\* Only Allocate makes a node.
LEMMA Inheritance ==
  ASSUME NEW t \in Tables, NEW n \in Node
  PROVE  /\ Inherits(t, T!Detach(t, n), {n}) /\ ~ T!Detach(t, n)[n].listed
         /\ Inherits(t, T!Release(t, n), {})
         /\ t[n].listed => Inherits(t, T!Retain(t, n), {})
  <1> USE DEF Tables, T!NodeRecord, T!FreeNode, Inherits
  <1>1. Inherits(t, T!Detach(t, n), {n}) /\ ~ T!Detach(t, n)[n].listed
    <2>1. CASE ~ t[n].listed
      BY <2>1 DEF T!Detach
    <2>2. CASE t[n].listed
      <3>1. t[n] \in [key : Name, res : Ino, size : Nat, count : Nat \ {0},
                     listed : BOOLEAN, copied : BOOLEAN]
        BY <2>2
      <3>2. LET y == [t[n] EXCEPT !.listed = FALSE] IN
              y.count = t[n].count /\ y.res = t[n].res /\ y.key = t[n].key /\ ~ y.listed
        BY <3>1
      <3>3. T!Detach(t, n)[n] = [t[n] EXCEPT !.listed = FALSE]
        BY <2>2 DEF T!Detach
      <3>4. \A k \in Node \ {n} : T!Detach(t, n)[k] = t[k]
        BY <2>2 DEF T!Detach
      <3> QED BY <3>1, <3>2, <3>3, <3>4
    <2> QED BY <2>1, <2>2
  <1>2. Inherits(t, T!Release(t, n), {})
    <2>1. CASE ~ (t[n].count > 1)
      <3>1. T!Release(t, n)[n] = T!FreeNode /\ \A k \in Node \ {n} : T!Release(t, n)[k] = t[k]
        BY <2>1 DEF T!Release
      <3> QED BY <3>1
    <2>2. CASE t[n].count > 1
      <3>1. t[n] \in [key : Name, res : Ino, size : Nat, count : Nat \ {0},
                     listed : BOOLEAN, copied : BOOLEAN]
        BY <2>2
      <3>2. LET y == [t[n] EXCEPT !.count = t[n].count - 1] IN
              y.res = t[n].res /\ y.key = t[n].key /\ y.listed = t[n].listed
        BY <3>1
      <3>3. T!Release(t, n)[n] = [t[n] EXCEPT !.count = t[n].count - 1]
        BY <2>2 DEF T!Release
      <3>4. \A k \in Node \ {n} : T!Release(t, n)[k] = t[k]
        BY <2>2 DEF T!Release
      <3> QED BY <2>2, <3>1, <3>2, <3>3, <3>4
    <2> QED BY <2>1, <2>2
  <1>3. t[n].listed => Inherits(t, T!Retain(t, n), {})
    BY DEF T!Retain
  <1> QED BY <1>1, <1>2, <1>3

\* A step that does not attach inherits the nodes, and detaches one at most.
LEMMA StepInherits ==
  ASSUME TypeOK, LocalOK, NEW p \in Proc, Shape(p), ~ Attaches(p)
  PROVE  \/ Inherits(table[p], table'[p], {})
         \/ Detaches(p)
  <1>1. table[p] \in Tables /\ loc[p] \in LocTables /\ CallFits(pc[p], call[p], loc[p])
    BY DEF TypeOK, LocTables, LocalOK
  <1>2. ASSUME NEW at, NEW c, NEW t, NEW ls, Becomes(p, at, c, t, ls) PROVE table'[p] = t
    BY <1>2 DEF Becomes, TypeOK
  <1>3. CASE Moves(p)
    BY <1>1, <1>2, <1>3, Inherited DEF Moves
  <1>4. CASE Retains(p)
    BY <1>1, <1>2, <1>4, Inheritance DEF Retains
  <1>5. CASE Opens(p)
    BY <1>1, <1>2, <1>5, Inherited DEF Opens
  <1>6. CASE GivesUp(p)
    BY <1>1, <1>2, <1>6, Inheritance DEF GivesUp, CallFits
  <1>7. CASE Closes(p)
    <2>1. PICK l \in Loc : /\ loc[p][l].node # None
                           /\ table'[p] = T!Release(table[p], loc[p][l].node)
      BY <1>2, <1>7 DEF Closes
    <2>2. loc[p][l].node \in Node
      BY <1>1, <2>1 DEF LocTables
    <2> QED BY <1>1, <2>1, <2>2, Inheritance
  <1>8. CASE Dies(p)
    BY <1>1, <1>2, <1>8, Inherited DEF Dies
  <1> QED BY <1>3, <1>4, <1>5, <1>6, <1>7, <1>8 DEF Shape

\* How a call comes to be looking for its segment.
LEMMA LookingFrom ==
  ASSUME TypeOK, LocalOK, NEW p \in Proc, ProcStep(p), pc'[p] \in Looking
  PROVE  \/ pc[p] \in Looking /\ call'[p].name = call[p].name
         \/ NotMapped(p)
         \/ DetachStale(p)
  <1>1. call[p] \in Call /\ pc \in [Proc -> Label] /\ call \in [Proc -> Call]
    BY DEF TypeOK
  <1> USE DEF Looking
  <1>2. ASSUME NEW at, Goto(p, at) PROVE pc'[p] = at
    BY <1>1, <1>2 DEF Goto
  <1>3. ASSUME Fail(p) \/ Return(p) PROVE FALSE
    BY <1>1, <1>2, <1>3 DEF Fail, Return
  <1>4. \A l \in Loc, d \in Db, nm \in Name : ~ StartOpen(p, l, d, nm)
    BY <1>2 DEF StartOpen
  <1>5. \A l \in Loc : ~ Close(p, l) /\ ~ StartDelete(p, l) /\ ~ DeleteStale(p, l)
    BY <1>2 DEF Close, StartDelete, DeleteStale
  <1>6. ~ Crash(p) /\ ~ FinishDelete(p) /\ ~ Unlink(p) /\ ~ InitSucceeds(p) /\ ~ InitFails(p)
    BY <1>3 DEF Crash, FinishDelete, Unlink, InitSucceeds, InitFails
  <1>7. ~ RefuseMapped(p) /\ ~ OpenExistingFails(p) /\ ~ TruncateFails(p) /\ ~ SizeDiffers(p)
        /\ ~ CopyFails(p)
    BY <1>3 DEF RefuseMapped, OpenExistingFails, TruncateFails, SizeDiffers, CopyFails
  <1>8. ~ Reuse(p) /\ ~ NotMarked(p) /\ ~ Mark(p) /\ ~ Marked(p)
    BY <1>2 DEF Reuse, NotMarked, Mark, Marked, Attach
  <1>9. ASSUME UNCHANGED call, pc[p] \in Looking PROVE call'[p].name = call[p].name
    BY <1>9
  <1>10. CASE CreateFails(p) \/ Truncate(p) \/ SizeMatches(p) \/ Copy(p)
    BY <1>10 DEF CreateFails, Truncate, SizeMatches, Copy
  <1>11. CASE Create(p)
    BY <1>1, <1>11, CallUpdates DEF Create
  <1>12. CASE OpenExisting(p)
    <2>1. dir[call[p].name] \in Ino \cup {None} /\ pc[p] \in Looking
      BY <1>12 DEF OpenExisting, TypeOK, LocalOK, CallFits
    <2> QED BY <1>1, <1>12, <2>1, CallUpdates DEF OpenExisting
  <1> QED BY <1>4, <1>5, <1>6, <1>7, <1>8, <1>10, <1>11, <1>12 DEF ProcStep, OpenStep

\* A process lists one node for a name, and none for the name it is looking for.
OneName(t) ==
  \A m, n \in Node : t[m].listed /\ t[n].listed /\ t[m].key = t[n].key => m = n
Listing(at, c, t) == OneName(t) /\ (at \in Looking => T!Found(t, c.name) = {})
Listings == \A p \in Proc : Listing(pc[p], call[p], table[p])

\* The three ways to give up a mapped name: what is detached, and why.
LEMMA DetachCases ==
  ASSUME TypeOK, LocalOK, NEW p \in Proc, ProcStep(p), Detaches(p),
         ~ Inherits(table[p], table'[p], {})
  PROVE  \E n \in Node :
           /\ Inherits(table[p], table'[p], {n}) /\ ~ table'[p][n].listed
           /\ \/ FinishDelete(p) /\ n = call[p].node
              \/ dir[table[p][n].key] # table[p][n].res \/ MayFail({"reopen"})
  <1>1. /\ table[p] \in Tables /\ table \in [Proc -> Tables]
        /\ loc[p] \in LocTables /\ CallFits(pc[p], call[p], loc[p])
    BY DEF TypeOK, LocTables, LocalOK
  <1>2. ASSUME NEW n \in Node, table' = [table EXCEPT ![p] = T!Detach(@, n)]
        PROVE  Inherits(table[p], table'[p], {n}) /\ ~ table'[p][n].listed
    BY <1>1, <1>2, Inheritance
  <1>3. table' # table
    <2> SUFFICES ASSUME table' = table PROVE FALSE
      OBVIOUS
    <2> QED BY <1>1, Inherited
  <1>4. CASE DetachStale(p)
    <2>1. PICK n \in T!Found(table[p], call[p].name) :
            /\ dir[call[p].name] # table[p][n].res \/ MayFail({"reopen"})
            /\ table' = [table EXCEPT ![p] = T!Detach(@, n)]
      BY <1>4 DEF DetachStale
    <2>2. n \in Node /\ table[p][n].key = call[p].name
      BY DEF T!Found
    <2> QED BY <1>2, <1>4, <2>1, <2>2
  <1>5. CASE FinishDelete(p)
    <2>1. call[p].node \in Node /\ table' = [table EXCEPT ![p] = T!Detach(@, call[p].node)]
      BY <1>1, <1>5 DEF FinishDelete, CallFits
    <2> QED BY <1>2, <1>5, <2>1
  <1>6. ASSUME NEW l \in Loc, DeleteStale(p, l)
        PROVE  \E n \in Node :
                 /\ n = loc[p][l].node
                 /\ Inherits(table[p], table'[p], {n}) /\ ~ table'[p][n].listed
                 /\ dir[table[p][n].key] # table[p][n].res \/ MayFail({"reopen"})
    <2> DEFINE n == loc[p][l].node
    <2>1. n \in Node
      BY <1>1, <1>6 DEF DeleteStale, LocTables
    <2>2. table' = [table EXCEPT ![p] = T!Detach(@, n)]
      BY <1>6 DEF DeleteStale
    <2>3. dir[table[p][n].key] # table[p][n].res \/ MayFail({"reopen"})
      BY <1>6 DEF DeleteStale
    <2> QED BY <1>2, <2>1, <2>2, <2>3
  <1>7. pc[p] # "init"
    BY DEF Detaches
  <1>8. \A l \in Loc, d \in Db, nm \in Name : ~ StartOpen(p, l, d, nm)
    BY <1>3 DEF StartOpen
  <1>9. /\ ~ RefuseMapped(p) /\ ~ NotMapped(p) /\ ~ Create(p) /\ ~ CreateFails(p)
        /\ ~ OpenExisting(p) /\ ~ OpenExistingFails(p) /\ ~ Truncate(p) /\ ~ TruncateFails(p)
        /\ ~ SizeMatches(p) /\ ~ SizeDiffers(p) /\ ~ Copy(p) /\ ~ CopyFails(p) /\ ~ NotMarked(p)
        /\ ~ Unlink(p) /\ ~ InitSucceeds(p)
    BY <1>3 DEF RefuseMapped, NotMapped, Create, CreateFails, OpenExisting, OpenExistingFails,
                Truncate, TruncateFails, SizeMatches, SizeDiffers, Copy, CopyFails, NotMarked,
                Unlink, InitSucceeds
  <1>10. ~ InitFails(p)
    BY <1>7 DEF InitFails
  <1>11. pc'[p] # "init"
    BY DEF Detaches, Becomes, TypeOK
  <1>12. ~ Reuse(p) /\ ~ Mark(p) /\ ~ Marked(p)
    BY <1>11 DEF Reuse, Mark, Marked, Attach, Goto, TypeOK
  <1>13. \A l \in Loc : ~ StartDelete(p, l)
    BY <1>3 DEF StartDelete
  <1>14. ASSUME Crash(p) \/ \E l \in Loc : Close(p, l) PROVE FALSE
    <2>1. CASE Crash(p)
      <3>1. table'[p] = [n \in Node |-> T!FreeNode]
        BY <1>1, <2>1 DEF Crash
      <3> QED BY <1>1, <3>1, Inherited
    <2>2. ASSUME NEW l \in Loc, Close(p, l) PROVE FALSE
      <3>1. table'[p] = T!Release(table[p], loc[p][l].node) /\ loc[p][l].node \in Node
        BY <1>1, <2>2 DEF Close, LocTables
      <3> QED BY <1>1, <3>1, Inheritance
    <2> QED BY <1>14, <2>1, <2>2
  <1> QED BY <1>4, <1>5, <1>6, <1>8, <1>9, <1>10, <1>12, <1>13, <1>14 DEF ProcStep, OpenStep

\* What a step does to the nodes of the process that takes it.
LEMMA Effects ==
  ASSUME TypeOK, LocalOK, NEW p \in Proc, ProcStep(p)
  PROVE  \/ Inherits(table[p], table'[p], {})
         \/ Attaches(p)
         \/ \E n \in Node :
              /\ Inherits(table[p], table'[p], {n}) /\ ~ table'[p][n].listed
              /\ \/ FinishDelete(p) /\ n = call[p].node
                 \/ dir[table[p][n].key] # table[p][n].res \/ MayFail({"reopen"})
  BY ProcShape, StepInherits, DetachCases

\* The node that is attached.
LEMMA AttachedNode ==
  ASSUME TypeOK, LocalOK, NEW p \in Proc, Attaches(p)
  PROVE  /\ pc[p] \in {"mark", "checkMark"} /\ pc'[p] = "init"
         /\ call[p].name \in Name /\ call[p].ino \in Ino
         /\ \E n \in T!Free(table[p]) :
              /\ table'[p][n].key = call[p].name /\ table'[p][n].res = call[p].ino
              /\ table'[p][n].listed
              /\ \A k \in Node \ {n} : table'[p][k] = table[p][k]
  <1>1. pc[p] \in {"mark", "checkMark"} /\ CallFits(pc[p], call[p], loc[p]) /\ table[p] \in Tables
    BY DEF Attaches, LocalOK, TypeOK
  <1>2. PICK n \in T!Free(table[p]) :
          Becomes(p, "init", Uses(call[p], n),
                  T!Allocate(table[p], n, call[p].name, call[p].ino,
                             ShmSize(call[p].db), call[p].created), loc[p])
    BY DEF Attaches
  <1>3. /\ pc'[p] = "init"
        /\ table'[p] = T!Allocate(table[p], n, call[p].name, call[p].ino,
                                  ShmSize(call[p].db), call[p].created)
        /\ n \in Node
    BY <1>2 DEF Becomes, TypeOK, T!Free
  <1>4. /\ table'[p][n].key = call[p].name /\ table'[p][n].res = call[p].ino
        /\ table'[p][n].listed
        /\ \A k \in Node \ {n} : table'[p][k] = table[p][k]
    BY <1>1, <1>3 DEF T!Allocate, Tables
  <1> QED BY <1>1, <1>2, <1>3, <1>4 DEF CallFits, Holding

\* Every step keeps the lists of the process that takes it.
LEMMA ListingStep ==
  ASSUME TypeOK, LocalOK, NEW p \in Proc, ProcStep(p), Listing(pc[p], call[p], table[p])
  PROVE  Listing(pc'[p], call'[p], table'[p])
  <1>1. OneName(table[p]) /\ (pc[p] \in Looking => T!Found(table[p], call[p].name) = {})
    BY DEF Listing
  <1>2. CASE Attaches(p)
    <2>1. /\ pc[p] \in Looking /\ pc'[p] \notin Looking
          /\ T!Found(table[p], call[p].name) = {}
      BY <1>1, <1>2, AttachedNode DEF Looking
    <2>2. PICK n \in T!Free(table[p]) :
              /\ table'[p][n].key = call[p].name /\ table'[p][n].listed
              /\ \A k \in Node \ {n} : table'[p][k] = table[p][k]
      BY <1>2, AttachedNode
    <2>3. \A k \in Node : table[p][k].listed => table[p][k].key # call[p].name
      BY <2>1 DEF T!Found
    <2> QED BY <1>1, <2>1, <2>2, <2>3 DEF Listing, OneName
  <1>3. CASE ~ Attaches(p)
    <2>1. \A n \in Node : table'[p][n].listed =>
            table[p][n].listed /\ table'[p][n].key = table[p][n].key
      BY <1>3, Effects DEF Inherits
    <2>2. OneName(table'[p])
      BY <1>1, <2>1 DEF OneName
    <2>3. ASSUME pc'[p] \in Looking, NEW n \in T!Found(table'[p], call'[p].name) PROVE FALSE
      <3>1. n \in Node /\ n \in T!Found(table[p], call'[p].name) /\ table'[p][n].listed
        BY <2>1, <2>3 DEF T!Found
      <3>2. CASE pc[p] \in Looking /\ call'[p].name = call[p].name
        BY <1>1, <3>1, <3>2
      <3>3. CASE NotMapped(p)
        BY <3>1, <3>3 DEF NotMapped
      <3>4. CASE DetachStale(p)
        <4>1. PICK k \in T!Found(table[p], call[p].name) :
                table' = [table EXCEPT ![p] = T!Detach(@, k)]
          BY <3>4 DEF DetachStale
        <4>2. call' = call /\ k \in Node /\ k = n
          BY <1>1, <3>1, <3>4, <4>1 DEF DetachStale, OneName, T!Found
        <4>3. table[p] \in Tables /\ table'[p] = T!Detach(table[p], k)
          BY <4>1 DEF TypeOK
        <4> QED BY <3>1, <4>2, <4>3, Inheritance
      <3> QED BY <2>3, <3>2, <3>3, <3>4, LookingFrom
    <2> QED BY <2>2, <2>3 DEF Listing
  <1> QED BY <1>2, <1>3

\* Every step, or none, keeps all lists.
LEMMA ListingsStep == TypeOK /\ LocalOK /\ Listings /\ [Next]_vars => Listings'
  <1> SUFFICES ASSUME TypeOK, LocalOK, Listings, [Next]_vars PROVE Listings'
    OBVIOUS
  <1>1. CASE Next
    <2>1. PICK p \in Proc : ProcStep(p)
      BY <1>1 DEF Next, Step, ProcStep
    <2>2. ASSUME NEW q \in Proc PROVE Listing(pc'[q], call'[q], table'[q])
      <3>1. CASE q = p
        BY <2>1, <3>1, ListingStep DEF Listings
      <3>2. CASE q # p
        BY <2>1, <3>2, ProcShape, BecomesElsewhere DEF Listings
      <3> QED BY <3>1, <3>2
    <2> QED BY <2>2 DEF Listings
  <1>2. CASE UNCHANGED vars
    BY <1>2 DEF vars, Listings
  <1> QED BY <1>1, <1>2

\* Nothing is listed at the start.
LEMMA ListingsInit == Init => Listings
  BY DEF Init, Listings, Listing, OneName, Looking, T!FreeNode

(***************************************************************************)
(* IP2LFindMemoryMapNode has at most one node to find: DetachStale and     *)
(* deleteShared take the old node off the list before another of the name  *)
(* is made, and a failed open leaves none behind.                          *)
(***************************************************************************)
THEOREM OneForAName == Spec => []OneListedNode
  <1>1. Init => TypeOK /\ LocalOK /\ Listings
    BY TypeInit, ListingsInit
  <1>2. TypeOK /\ LocalOK /\ Listings /\ [Next]_vars => (TypeOK /\ LocalOK /\ Listings)'
    BY TypeStep, ListingsStep
  <1>3. TypeOK /\ Listings => OneListedNode
    <2> SUFFICES ASSUME TypeOK, Listings, NEW p \in Proc
                 PROVE  /\ \A nm \in Name : \A m, n \in T!Found(table[p], nm) : m = n
                        /\ \A n \in Node : table[p][n].listed => n \in T!Live(table[p])
      BY DEF OneListedNode
    <2>1. OneName(table[p]) /\ table[p] \in Tables
      BY DEF Listings, Listing, TypeOK
    <2>2. \A nm \in Name : \A m, n \in T!Found(table[p], nm) : m = n
      BY <2>1 DEF OneName, T!Found
    <2>3. \A n \in Node : table[p][n].listed => n \in T!Live(table[p])
      BY <2>1 DEF Tables, T!NodeRecord, T!FreeNode, T!Live
    <2> QED BY <2>2, <2>3
  <1> QED BY <1>1, <1>2, <1>3, PTL DEF Spec

-----------------------------------------------------------------------------
(* The segments a process maps                                             *)

\* A segment has one name, a node of a named segment is listed under it, and
\* a call that holds a segment knows its name and does not find it mapped.
OneNamed == \A a, b \in Name : dir[a] # None /\ dir[a] = dir[b] => a = b
Mapping(at, c, t) ==
  /\ \A n \in T!Live(t), nm \in Name : dir[nm] = t[n].res => t[n].key = nm /\ t[n].listed
  /\ at \in Holding =>
       /\ \A nm \in Name : dir[nm] = c.ino => nm = c.name
       /\ \A n \in T!Live(t) : t[n].res # c.ino
  /\ at = "delete" /\ c.node \in T!Live(t) => t[c.node].key = c.name
  /\ \A m, n \in T!Live(t) : t[m].res = t[n].res => m = n
Mappings == \A p \in Proc : Mapping(pc[p], call[p], table[p])

\* What a step does to the names.
LEMMA DirStep ==
  ASSUME TypeOK, LocalOK, NEW p \in Proc, ProcStep(p), NEW nm \in Name
  PROVE  \/ dir'[nm] = dir[nm]
         \/ dir'[nm] = None
         \/ /\ Create(p) /\ nm = call[p].name /\ dir'[nm] = call'[p].ino
            /\ dir'[nm] \in Ino /\ ~ InUse(dir'[nm])
            /\ \A k \in Name \ {nm} : dir'[k] = dir[k]
  <1>1. dir \in [Name -> Ino \cup {None}] /\ call[p] \in Call /\ call \in [Proc -> Call]
    BY DEF TypeOK
  <1>2. CASE Create(p)
    <2>1. PICK i \in Ino : /\ ~ InUse(i)
                           /\ dir' = [dir EXCEPT ![call[p].name] = i]
                           /\ call' = [call EXCEPT ![p] = Creates(@, i)]
      BY <1>2 DEF Create
    <2>2. call'[p].ino = i
      BY <1>1, <2>1, CallUpdates
    <2> QED BY <1>1, <1>2, <2>1, <2>2
  <1>3. CASE Unlink(p) \/ FinishDelete(p)
    BY <1>1, <1>3 DEF Unlink, FinishDelete
  <1>4. ASSUME UNCHANGED dir PROVE dir'[nm] = dir[nm]
    BY <1>4
  <1>5. CASE \E l \in Loc, d \in Db, m \in Name : StartOpen(p, l, d, m)
    BY <1>4, <1>5 DEF StartOpen
  <1>6. CASE \E l \in Loc : Close(p, l) \/ StartDelete(p, l) \/ DeleteStale(p, l)
    BY <1>4, <1>6 DEF Close, StartDelete, DeleteStale
  <1>7. CASE Crash(p)
    BY <1>4, <1>7 DEF Crash
  <1>8. CASE OpenStep(p) /\ ~ Create(p) /\ ~ Unlink(p)
    BY <1>4, <1>8 DEF OpenStep, RefuseMapped, Reuse, DetachStale, NotMapped, CreateFails,
         OpenExisting, OpenExistingFails, Truncate, TruncateFails, SizeMatches, SizeDiffers,
         Copy, CopyFails, Mark, Marked, NotMarked, InitSucceeds, InitFails
  <1> QED BY <1>2, <1>3, <1>5, <1>6, <1>7, <1>8 DEF ProcStep

\* A name that refers to an inode in use has referred to it before.
LEMMA OldName ==
  ASSUME TypeOK, LocalOK, NEW p \in Proc, ProcStep(p), NEW nm \in Name,
         dir'[nm] \in Ino, InUse(dir'[nm])
  PROVE  dir'[nm] = dir[nm]
  BY DirStep, NoneAssumption

\* How a call comes to hold a segment.
LEMMA HoldingFrom ==
  ASSUME TypeOK, LocalOK, NEW p \in Proc, ProcStep(p), pc'[p] \in Holding
  PROVE  \/ pc[p] \in Holding /\ call'[p] = call[p] /\ dir' = dir
         \/ Create(p) /\ call'[p].name = call[p].name
         \/ /\ OpenExisting(p) /\ call'[p].name = call[p].name
            /\ call'[p].ino = dir[call[p].name] /\ call'[p].ino \in Ino /\ dir' = dir
  <1>1. /\ call[p] \in Call /\ pc \in [Proc -> Label] /\ call \in [Proc -> Call]
        /\ CallFits(pc[p], call[p], loc[p])
    BY DEF TypeOK, LocalOK
  <1> USE DEF Holding
  <1>2. ASSUME NEW at, Goto(p, at) PROVE pc'[p] = at
    BY <1>1, <1>2 DEF Goto
  <1>3. ASSUME Fail(p) \/ Return(p) PROVE FALSE
    BY <1>1, <1>2, <1>3 DEF Fail, Return
  <1>4. \A l \in Loc, d \in Db, nm \in Name : ~ StartOpen(p, l, d, nm)
    BY <1>2 DEF StartOpen
  <1>5. ASSUME NEW l \in Loc, Close(p, l) \/ DeleteStale(p, l) \/ StartDelete(p, l) PROVE FALSE
    BY <1>1, <1>2, <1>5 DEF Close, DeleteStale, StartDelete
  <1>6. ~ Crash(p) /\ ~ FinishDelete(p) /\ ~ Unlink(p) /\ ~ InitSucceeds(p) /\ ~ InitFails(p)
    BY <1>3 DEF Crash, FinishDelete, Unlink, InitSucceeds, InitFails
  <1>7. ~ RefuseMapped(p) /\ ~ OpenExistingFails(p) /\ ~ TruncateFails(p) /\ ~ SizeDiffers(p)
        /\ ~ CopyFails(p)
    BY <1>3 DEF RefuseMapped, OpenExistingFails, TruncateFails, SizeDiffers, CopyFails
  <1>8. ~ Reuse(p) /\ ~ NotMarked(p) /\ ~ Mark(p) /\ ~ Marked(p) /\ ~ DetachStale(p)
        /\ ~ NotMapped(p) /\ ~ CreateFails(p)
    BY <1>2 DEF Reuse, NotMarked, Mark, Marked, Attach, DetachStale, NotMapped, CreateFails
  <1>9. CASE Truncate(p) \/ SizeMatches(p) \/ Copy(p)
    BY <1>9 DEF Truncate, SizeMatches, Copy
  <1>10. CASE Create(p)
    <2>1. PICK i \in Ino : call' = [call EXCEPT ![p] = Creates(@, i)]
      BY <1>10 DEF Create
    <2>2. call'[p].name = call[p].name
      BY <1>1, <2>1, CallUpdates
    <2> QED BY <1>10, <2>2
  <1>11. CASE OpenExisting(p)
    <2>1. dir[call[p].name] \in Ino /\ dir' = dir
      BY <1>1, <1>11 DEF OpenExisting, TypeOK, CallFits
    <2> QED BY <1>1, <1>11, <2>1, CallUpdates DEF OpenExisting
  <1> QED BY <1>4, <1>5, <1>6, <1>7, <1>8, <1>9, <1>10, <1>11 DEF ProcStep, OpenStep

\* A call that deletes knows the name of its node.
LEMMA DeletingFrom ==
  ASSUME TypeOK, LocalOK, NEW p \in Proc, ProcStep(p), pc'[p] = "delete"
  PROVE  call'[p].name = table'[p][call'[p].node].key
  <1>1. /\ call[p] \in Call /\ pc \in [Proc -> Label] /\ call \in [Proc -> Call]
        /\ CallFits(pc[p], call[p], loc[p]) /\ loc[p] \in LocTables /\ table[p] \in Tables
    BY DEF TypeOK, LocalOK, LocTables
  <1>2. ASSUME NEW at, Goto(p, at) PROVE pc'[p] = at
    BY <1>1, <1>2 DEF Goto
  <1>3. ASSUME Fail(p) \/ Return(p) PROVE FALSE
    BY <1>1, <1>2, <1>3 DEF Fail, Return
  <1>4. \A l \in Loc, d \in Db, nm \in Name : ~ StartOpen(p, l, d, nm)
    BY <1>2 DEF StartOpen
  <1>5. ASSUME NEW l \in Loc, Close(p, l) \/ DeleteStale(p, l) PROVE FALSE
    BY <1>1, <1>5 DEF Close, DeleteStale
  <1>6. ~ Crash(p) /\ ~ FinishDelete(p) /\ ~ Unlink(p) /\ ~ InitSucceeds(p) /\ ~ InitFails(p)
    BY <1>3 DEF Crash, FinishDelete, Unlink, InitSucceeds, InitFails
  <1>7. ~ RefuseMapped(p) /\ ~ OpenExistingFails(p) /\ ~ TruncateFails(p) /\ ~ SizeDiffers(p)
        /\ ~ CopyFails(p)
    BY <1>3 DEF RefuseMapped, OpenExistingFails, TruncateFails, SizeDiffers, CopyFails
  <1>8. ~ Reuse(p) /\ ~ NotMarked(p) /\ ~ Mark(p) /\ ~ Marked(p) /\ ~ DetachStale(p)
        /\ ~ NotMapped(p) /\ ~ CreateFails(p)
    BY <1>2 DEF Reuse, NotMarked, Mark, Marked, Attach, DetachStale, NotMapped, CreateFails
  <1>9. ~ Truncate(p) /\ ~ SizeMatches(p) /\ ~ Copy(p) /\ ~ Create(p) /\ ~ OpenExisting(p)
    BY <1>2 DEF Truncate, SizeMatches, Copy, Create, OpenExisting
  <1>10. ASSUME NEW l \in Loc, StartDelete(p, l) PROVE call'[p].name = table'[p][call'[p].node].key
    <2> DEFINE n == loc[p][l].node
    <2>1. n \in Node /\ table[p][n].key \in Name \cup {None} /\ table' = table
          /\ call' = [call EXCEPT ![p] = DeleteCall(table[p][n].key, n)]
      <3>1. n \in Node
        BY <1>1, <1>10 DEF StartDelete, LocTables
      <3>2. table' = table /\ call' = [call EXCEPT ![p] = DeleteCall(table[p][n].key, n)]
        BY <1>10 DEF StartDelete
      <3>3. table[p][n].key \in Name \cup {None}
        <4> HIDE DEF n
        <4>1. table[p][n] \in T!NodeRecord(Name, Ino)
          BY <1>1, <3>1 DEF Tables
        <4> QED BY <4>1 DEF T!NodeRecord, T!FreeNode
      <3> QED BY <3>1, <3>2, <3>3
    <2> DEFINE k == table[p][n].key
    <2>2. call'[p] = DeleteCall(k, n)
      BY <1>1, <2>1
    <2> HIDE DEF n, k
    <2>3. DeleteCall(k, n).name = k /\ DeleteCall(k, n).node = n
      BY <2>1, CallOps DEF k
    <2> QED BY <2>1, <2>2, <2>3 DEF k
  <1> QED BY <1>4, <1>5, <1>6, <1>7, <1>8, <1>9, <1>10 DEF ProcStep, OpenStep

\* The inodes that nodes and calls refer to are in use.
LEMMA Used ==
  ASSUME TypeOK, LocalOK, NEW p \in Proc
  PROVE  /\ table[p] \in Tables
         /\ \A n \in T!Live(table[p]) : /\ n \in Node
                                        /\ table[p][n].res \in Ino /\ InUse(table[p][n].res)
         /\ pc[p] \in Holding => call[p].ino \in Ino /\ InUse(call[p].ino)
  <1>1. table[p] \in Tables /\ CallFits(pc[p], call[p], loc[p])
    BY DEF TypeOK, LocalOK
  <1>2. \A n \in T!Live(table[p]) : n \in Node /\ table[p][n].res \in Ino
    BY <1>1 DEF Tables, T!NodeRecord, T!FreeNode, T!Live
  <1> QED BY <1>1, <1>2 DEF InUse, CallFits

\* A step changes nothing for another process.
LEMMA MappingElsewhere ==
  ASSUME TypeOK, LocalOK, NEW p \in Proc, ProcStep(p), NEW q \in Proc \ {p}, Mappings
  PROVE  Mapping(pc[q], call[q], table[q])'
  <1>1. pc'[q] = pc[q] /\ call'[q] = call[q] /\ table'[q] = table[q]
    BY ProcShape, BecomesElsewhere
  <1>2. Mapping(pc[q], call[q], table[q])
    BY DEF Mappings
  <1>3. \A n \in T!Live(table[q]), nm \in Name :
          dir'[nm] = table[q][n].res => dir[nm] = table[q][n].res
    BY OldName, Used
  <1>4. pc[q] \in Holding => \A nm \in Name : dir'[nm] = call[q].ino => dir[nm] = call[q].ino
    BY OldName, Used
  <1> QED BY <1>1, <1>2, <1>3, <1>4 DEF Mapping

\* Every step keeps names and segments of the process that takes it.
LEMMA MappingStep ==
  ASSUME TypeOK, LocalOK, (TypeOK /\ LocalOK)', Listings, Mappings, OneNamed,
         ~ MayFail({"reopen"}), NEW p \in Proc, ProcStep(p)
  PROVE  Mapping(pc[p], call[p], table[p])'
  <1>1. Mapping(pc[p], call[p], table[p]) /\ Listing(pc[p], call[p], table[p])
    BY DEF Mappings, Listings
  <1>2. \A n \in T!Live(table[p]), nm \in Name :
          dir'[nm] = table[p][n].res => dir[nm] = table[p][n].res
    BY OldName, Used
  <1>3. \A n \in Node : n \in T!Live(table[p])' <=> table'[p][n].count > 0
    BY DEF T!Live
  <1>4. CASE Attaches(p)
    <2>1. /\ pc[p] \in Holding /\ pc'[p] = "init" /\ call[p].name \in Name /\ call[p].ino \in Ino
      BY <1>4, AttachedNode DEF Holding
    <2>2. PICK n \in T!Free(table[p]) :
            /\ table'[p][n].key = call[p].name /\ table'[p][n].res = call[p].ino
            /\ table'[p][n].listed
            /\ \A k \in Node \ {n} : table'[p][k] = table[p][k]
      BY <1>4, AttachedNode
    <2>3. \A nm \in Name : dir'[nm] = call[p].ino => dir[nm] = call[p].ino
      BY <2>1, OldName, Used
    <2>4. \A k \in T!Live(table[p])' : k = n \/ (k \in T!Live(table[p]) /\ table'[p][k] = table[p][k])
      BY <2>2 DEF T!Live
    <2> QED BY <1>1, <1>2, <2>1, <2>2, <2>3, <2>4 DEF Mapping, Holding
  <1>5. CASE ~ Attaches(p)
    <2>1. \A k \in T!Live(table[p])' : /\ k \in T!Live(table[p])
                                       /\ table'[p][k].res = table[p][k].res
                                       /\ table'[p][k].key = table[p][k].key
      BY <1>5, Effects DEF Inherits, T!Live
    <2>2. \A k \in T!Live(table[p])', nm \in Name :
            dir'[nm] = table'[p][k].res => table'[p][k].key = nm /\ table'[p][k].listed
      <3> SUFFICES ASSUME NEW k \in T!Live(table[p])', NEW nm \in Name,
                          dir'[nm] = table'[p][k].res
                   PROVE  table'[p][k].key = nm /\ table'[p][k].listed
        OBVIOUS
      <3>1. /\ k \in T!Live(table[p]) /\ table'[p][k].key = table[p][k].key
            /\ dir[nm] = table[p][k].res /\ dir'[nm] = table[p][k].res
            /\ table[p][k].res \in Ino /\ k \in Node /\ table'[p][k].count > 0
        BY <1>2, <2>1, Used DEF T!Live
      <3>2. table[p][k].key = nm /\ table[p][k].listed
        BY <1>1, <3>1 DEF Mapping
      <3>3. CASE Inherits(table[p], table'[p], {})
        BY <3>1, <3>2, <3>3 DEF Inherits
      <3>4. CASE \E n \in Node :
              /\ Inherits(table[p], table'[p], {n}) /\ ~ table'[p][n].listed
              /\ \/ FinishDelete(p) /\ n = call[p].node
                 \/ dir[table[p][n].key] # table[p][n].res \/ MayFail({"reopen"})
        <4>1. PICK n \in Node :
                /\ Inherits(table[p], table'[p], {n})
                /\ \/ FinishDelete(p) /\ n = call[p].node
                   \/ dir[table[p][n].key] # table[p][n].res
          BY <3>4
        <4>2. CASE k # n
          BY <3>1, <3>2, <4>1, <4>2 DEF Inherits
        <4>3. CASE k = n /\ FinishDelete(p) /\ n = call[p].node
          <5>1. call[p].name = nm /\ dir'[call[p].name] = None
            BY <1>1, <3>1, <3>2, <4>3 DEF Mapping, FinishDelete, TypeOK
          <5> QED BY <3>1, <5>1, NoneAssumption
        <4>4. CASE k = n /\ dir[table[p][n].key] # table[p][n].res
          BY <3>1, <3>2, <4>4
        <4> QED BY <4>1, <4>2, <4>3, <4>4
      <3> QED BY <1>5, <3>3, <3>4, Effects
    <2>3. \A m, n \in T!Live(table[p])' : table'[p][m].res = table'[p][n].res => m = n
      BY <1>1, <2>1 DEF Mapping
    <2>4. ASSUME pc'[p] \in Holding
          PROVE  /\ \A nm \in Name : dir'[nm] = call'[p].ino => nm = call'[p].name
                 /\ \A n \in T!Live(table[p])' : table'[p][n].res # call'[p].ino
      <3>1. CASE pc[p] \in Holding /\ call'[p] = call[p] /\ dir' = dir
        BY <1>1, <2>1, <3>1 DEF Mapping
      <3>2. CASE Create(p) /\ call'[p].name = call[p].name
        <4>1. call[p].name \in Name
          BY <3>2 DEF Create, LocalOK, CallFits
        <4>2. /\ dir'[call[p].name] = call'[p].ino /\ ~ InUse(call'[p].ino)
              /\ \A k \in Name \ {call[p].name} : dir'[k] = dir[k]
          <5>1. dir'[call[p].name] \notin {dir[call[p].name], None}
            <6>1. PICK i \in Ino : dir' = [dir EXCEPT ![call[p].name] = i]
              BY <3>2 DEF Create
            <6>2. dir[call[p].name] = None /\ dir'[call[p].name] = i
              BY <3>2, <4>1, <6>1 DEF Create, TypeOK
            <6> QED BY <6>2, NoneAssumption
          <5> QED BY <4>1, <5>1, DirStep
        <4>3. \A k \in Name : dir[k] # call'[p].ino
          BY <4>2 DEF InUse
        <4>4. \A n \in T!Live(table[p]) : table[p][n].res # call'[p].ino
          BY <4>2, Used
        <4> QED BY <2>1, <3>2, <4>2, <4>3, <4>4
      <3>3. CASE /\ OpenExisting(p) /\ call'[p].name = call[p].name
                 /\ call'[p].ino = dir[call[p].name] /\ call'[p].ino \in Ino /\ dir' = dir
        <4>1. call[p].name \in Name /\ pc[p] = "openExisting"
          BY <3>3 DEF OpenExisting, LocalOK, CallFits
        <4>2. T!Found(table[p], call[p].name) = {}
          BY <1>1, <4>1 DEF Listing, Looking
        <4>3. \A n \in T!Live(table[p]) : table[p][n].res # dir[call[p].name]
          BY <1>1, <4>1, <4>2, Used DEF Mapping, T!Found
        <4>4. \A nm \in Name : dir[nm] = dir[call[p].name] => nm = call[p].name
          BY <3>3, <4>1, NoneAssumption DEF OneNamed
        <4> QED BY <2>1, <3>3, <4>3, <4>4
      <3> QED BY <2>4, <3>1, <3>2, <3>3, HoldingFrom
    <2>5. ASSUME pc'[p] = "delete", call'[p].node \in T!Live(table[p])'
          PROVE  table'[p][call'[p].node].key = call'[p].name
      BY <2>5, DeletingFrom
    <2> QED BY <2>2, <2>3, <2>4, <2>5 DEF Mapping
  <1> QED BY <1>4, <1>5

\* A name is given to an inode that has none.
LEMMA NamedStep ==
  ASSUME TypeOK, TypeOK', LocalOK, OneNamed, NEW p \in Proc, ProcStep(p)
  PROVE  OneNamed'
  <1> SUFFICES ASSUME NEW a \in Name, NEW b \in Name, dir'[a] # None, dir'[a] = dir'[b]
               PROVE  a = b
    BY DEF OneNamed
  <1>1. dir'[a] \in Ino
    BY DEF TypeOK
  <1>2. \A nm \in Name : dir'[nm] = dir'[a] =>
          \/ dir'[nm] = dir[nm]
          \/ nm = call[p].name /\ ~ InUse(dir'[a])
    BY <1>1, DirStep, NoneAssumption
  <1>3. \A nm \in Name : dir[nm] = dir'[a] => InUse(dir'[a])
    BY DEF InUse
  <1> QED BY <1>2, <1>3 DEF OneNamed

\* Every step, or none, keeps names and segments.
LEMMA MappingsStep ==
  ASSUME ~ MayFail({"reopen"})
  PROVE  TypeOK /\ LocalOK /\ Listings /\ Mappings /\ OneNamed /\ [Next]_vars
           => (Mappings /\ OneNamed)'
  <1> SUFFICES ASSUME TypeOK, LocalOK, Listings, Mappings, OneNamed, [Next]_vars
               PROVE  (Mappings /\ OneNamed)'
    OBVIOUS
  <1>1. CASE Next
    <2>1. PICK p \in Proc : ProcStep(p)
      BY <1>1 DEF Next, Step, ProcStep
    <2>2. (TypeOK /\ LocalOK)'
      BY TypeStep
    <2>3. ASSUME NEW q \in Proc PROVE Mapping(pc[q], call[q], table[q])'
      <3>1. CASE q = p
        BY <2>1, <2>2, <3>1, MappingStep
      <3>2. CASE q # p
        BY <2>1, <3>2, MappingElsewhere
      <3> QED BY <3>1, <3>2
    <2>4. OneNamed'
      BY <2>1, <2>2, NamedStep
    <2> QED BY <2>3, <2>4 DEF Mappings
  <1>2. CASE UNCHANGED vars
    BY <1>2 DEF vars, Mappings, Mapping, OneNamed
  <1> QED BY <1>1, <1>2

\* There are no names at the start.
LEMMA MappingsInit == Init => Mappings /\ OneNamed
  BY DEF Init, Mappings, Mapping, OneNamed, Holding, T!FreeNode, T!Live

(***************************************************************************)
(* A process maps a segment once: a name found under its old inode is      *)
(* always used again, and a node is dropped from the list only when its    *)
(* name is gone.  This holds if looking a mapped name up again never fails.*)
(***************************************************************************)
THEOREM OneMapping == Spec => []MappedOnce
  <1>1. CASE MayFail({"reopen"})
    <2>1. MappedOnce
      BY <1>1 DEF MappedOnce
    <2> QED BY <2>1, PTL
  <1>2. CASE ~ MayFail({"reopen"})
    <2> DEFINE I == TypeOK /\ LocalOK /\ Listings /\ Mappings /\ OneNamed
    <2>1. Init => I
      BY TypeInit, ListingsInit, MappingsInit
    <2>2. I /\ [Next]_vars => I'
      BY <1>2, TypeStep, ListingsStep, MappingsStep
    <2>3. I => MappedOnce
      BY DEF Mappings, Mapping, MappedOnce
    <2> HIDE DEF I
    <2> QED BY <2>1, <2>2, <2>3, PTL DEF Spec
  <1> QED BY <1>1, <1>2

-----------------------------------------------------------------------------
(* The length of a call                                                    *)

\* How far a call has come.
Progress ==
  [at \in Label |->
     CASE at = "idle" -> 0
       [] at = "find" -> 1
       [] at = "create" -> 2
       [] at \in {"openExisting", "truncate"} -> 3
       [] at = "checkSize" -> 4
       [] at \in {"copying", "checkMark"} -> 5
       [] at = "mark" -> 6
       [] at \in {"unlink", "init", "delete"} -> 7]

\* A step of a call ends it or brings it further.
LEMMA GoesOn ==
  ASSUME TypeOK, NEW p \in Proc, Step(p)
  PROVE  pc'[p] = "idle" \/ Progress[pc[p]] < Progress[pc'[p]]
  <1>1. pc \in [Proc -> Label]
    BY DEF TypeOK
  <1>2. /\ Progress["idle"] = 0 /\ Progress["find"] = 1 /\ Progress["create"] = 2
        /\ Progress["openExisting"] = 3 /\ Progress["truncate"] = 3
        /\ Progress["checkSize"] = 4 /\ Progress["copying"] = 5 /\ Progress["checkMark"] = 5
        /\ Progress["mark"] = 6 /\ Progress["unlink"] = 7 /\ Progress["init"] = 7
    BY DEF Progress, Label
  <1>3. ASSUME Return(p) PROVE pc'[p] = "idle"
    BY <1>1, <1>3 DEF Return, Goto
  <1>4. ASSUME Fail(p), pc[p] \in {"truncate", "checkSize", "copying"}
        PROVE  pc'[p] = "idle" \/ Progress[pc[p]] < Progress[pc'[p]]
    BY <1>1, <1>2, <1>3, <1>4 DEF Fail, Goto
  <1>5. CASE RefuseMapped(p) \/ OpenExistingFails(p) \/ Unlink(p) \/ InitSucceeds(p)
             \/ InitFails(p) \/ FinishDelete(p)
    BY <1>3, <1>5
    DEF RefuseMapped, OpenExistingFails, Unlink, InitSucceeds, InitFails, FinishDelete
  <1>6. CASE TruncateFails(p) \/ SizeDiffers(p) \/ CopyFails(p)
    BY <1>4, <1>6 DEF TruncateFails, SizeDiffers, CopyFails
  <1>7. CASE Reuse(p)
    <2>1. pc[p] = "find" /\ pc' = [pc EXCEPT ![p] = "init"]
      BY <1>7 DEF Reuse, Goto
    <2> QED BY <1>1, <1>2, <2>1
  <1>8. CASE DetachStale(p)
    <2>1. pc[p] = "find" /\ pc' = [pc EXCEPT ![p] = "create"]
      BY <1>8 DEF DetachStale, Goto
    <2> QED BY <1>1, <1>2, <2>1
  <1>9. CASE NotMapped(p)
    <2>1. pc[p] = "find" /\ pc' = [pc EXCEPT ![p] = "create"]
      BY <1>9 DEF NotMapped, Goto
    <2> QED BY <1>1, <1>2, <2>1
  <1>10. CASE Create(p)
    <2>1. pc[p] = "create" /\ pc' = [pc EXCEPT ![p] = "truncate"]
      BY <1>10 DEF Create, Goto
    <2> QED BY <1>1, <1>2, <2>1
  <1>11. CASE CreateFails(p)
    <2>1. pc[p] = "create" /\ pc' = [pc EXCEPT ![p] = "openExisting"]
      BY <1>11 DEF CreateFails, Goto
    <2> QED BY <1>1, <1>2, <2>1
  <1>12. CASE OpenExisting(p)
    <2>1. pc[p] = "openExisting" /\ pc' = [pc EXCEPT ![p] = "checkSize"]
      BY <1>12 DEF OpenExisting, Goto
    <2> QED BY <1>1, <1>2, <2>1
  <1>13. CASE Truncate(p)
    <2>1. pc[p] = "truncate" /\ pc' = [pc EXCEPT ![p] = "checkSize"]
      BY <1>13 DEF Truncate, Goto
    <2> QED BY <1>1, <1>2, <2>1
  <1>14. CASE Copy(p)
    <2>1. pc[p] = "copying" /\ pc' = [pc EXCEPT ![p] = "mark"]
      BY <1>14 DEF Copy, Goto
    <2> QED BY <1>1, <1>2, <2>1
  <1>15. CASE NotMarked(p)
    <2>1. pc[p] = "checkMark" /\ pc' = [pc EXCEPT ![p] = "unlink"]
      BY <1>15 DEF NotMarked, Goto
    <2> QED BY <1>1, <1>2, <2>1
  <1>16. CASE Mark(p)
    <2>1. pc[p] = "mark" /\ pc' = [pc EXCEPT ![p] = "init"]
      BY <1>16 DEF Mark, Goto, Attach
    <2> QED BY <1>1, <1>2, <2>1
  <1>17. CASE Marked(p)
    <2>1. pc[p] = "checkMark" /\ pc' = [pc EXCEPT ![p] = "init"]
      BY <1>17 DEF Marked, Goto, Attach
    <2> QED BY <1>1, <1>2, <2>1
  <1>18. CASE SizeMatches(p)
    <2>1. /\ pc[p] = "checkSize"
          /\ pc' = [pc EXCEPT ![p] = "copying"] \/ pc' = [pc EXCEPT ![p] = "checkMark"]
      BY <1>18 DEF SizeMatches, Goto
    <2> QED BY <1>1, <1>2, <2>1
  <1> QED
    BY <1>5, <1>6, <1>7, <1>8, <1>9, <1>10, <1>11, <1>12, <1>13, <1>14,
       <1>15, <1>16, <1>17, <1>18
    DEF Step, OpenStep

(***************************************************************************)
(* A call never goes back: each of its steps ends it or brings it further, *)
(* and no other process moves it, so that it returns after at most seven   *)
(* steps however the others interfere (IP2LocationOpen tries nothing       *)
(* twice).  With the fairness of each process this is CallsReturn.         *)
(***************************************************************************)
THEOREM CallsGoOn ==
  Spec => [][\A p \in Proc : Step(p) =>
               /\ pc'[p] = "idle" \/ Progress[pc[p]] < Progress[pc'[p]]
               /\ \A q \in Proc \ {p} : pc'[q] = pc[q]]_vars
  <1>1. TypeOK /\ LocalOK =>
          \A p \in Proc : Step(p) =>
            /\ pc'[p] = "idle" \/ Progress[pc[p]] < Progress[pc'[p]]
            /\ \A q \in Proc \ {p} : pc'[q] = pc[q]
    <2> SUFFICES ASSUME TypeOK, LocalOK, NEW p \in Proc, Step(p)
                 PROVE  /\ pc'[p] = "idle" \/ Progress[pc[p]] < Progress[pc'[p]]
                        /\ \A q \in Proc \ {p} : pc'[q] = pc[q]
      OBVIOUS
    <2>1. Shape(p)
      BY ProcShape DEF ProcStep, Step
    <2> QED BY <2>1, GoesOn, BecomesElsewhere
  <1> QED BY <1>1, TypeCorrect, PTL

=============================================================================
