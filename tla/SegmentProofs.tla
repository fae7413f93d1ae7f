---------------------------- MODULE SegmentProofs ----------------------------
(***************************************************************************)
(* Proofs that a location in shared memory reads a completely loaded       *)
(* segment of the right size, that one process loads a segment, and that   *)
(* what a location reads never changes, provided databases of different    *)
(* sizes have different numbers of pages.                                  *)
(***************************************************************************)
EXTENDS SharedMemoryProofs

-----------------------------------------------------------------------------
(* The inductive invariant                                                 *)

\* A segment that holds something has the size of what it holds.
Contents == \A i \in Ino : seg[i].stage # "blank" =>
              /\ seg[i].data \in Db
              /\ seg[i].size = ShmSize(seg[i].data)

\* What a call at label at with locals c knows of its segment s.
CallSeg(at, c, s) ==
  /\ at = "truncate" => s.stage = "blank" /\ s.size = 0
  /\ at = "checkSize" /\ c.created => s.stage = "blank"
  /\ at = "copying" => s.stage = "copying" /\ s.data = c.db
  /\ at = "mark" => s.stage = "copied" /\ s.data = c.db
  /\ at = "checkMark" => s.size = ShmSize(c.db)

Calls == \A p \in Proc : CallSeg(pc[p], call[p], seg[call[p].ino])

\* A mapped segment is loaded and has the size of its node.
Mapped == \A p \in Proc : \A n \in T!Live(table[p]) :
            /\ seg[table[p][n].res].stage = "loaded"
            /\ seg[table[p][n].res].size = table[p][n].size

\* A node has the size its users expect.
Fits(at, c, t, ls) ==
  /\ \A l \in Loc : ls[l].node # None => t[ls[l].node].size = ShmSize(ls[l].db)
  /\ at = "init" => t[c.node].size = ShmSize(c.db)

Expected == \A p \in Proc : Fits(pc[p], call[p], table[p], loc[p])

SegInv == Contents /\ Calls /\ Mapped /\ Expected /\ LoadedByOne

Inv == TypeOK /\ LocalOK /\ Counts1

-----------------------------------------------------------------------------
(* Facts about nodes                                                       *)

\* The nodes of t2 are nodes of t that map the same.
Shrinks(t, t2) ==
  \A n \in Node : t2[n].count > 0 =>
    /\ t[n].count > 0
    /\ t2[n].res = t[n].res /\ t2[n].size = t[n].size /\ t2[n].copied = t[n].copied

\* Closing, detaching and retaining make no new mapping.
LEMMA TableShrinks ==
  ASSUME NEW t \in Tables, NEW n \in Node
  PROVE  /\ Shrinks(t, t)
         /\ Shrinks(t, T!Detach(t, n))
         /\ Shrinks(t, T!Release(t, n))
         /\ t[n].listed => Shrinks(t, T!Retain(t, n))
         /\ Shrinks(t, [m \in Node |-> T!FreeNode])
  <1> USE DEF Tables, T!NodeRecord, T!FreeNode, Shrinks
  <1>1. Shrinks(t, t)
    OBVIOUS
  <1>2. Shrinks(t, T!Detach(t, n))
    <2>1. t[n].listed => t[n] \in [key : Name, res : Ino, size : Nat, count : Nat \ {0},
                                  listed : BOOLEAN, copied : BOOLEAN]
      OBVIOUS
    <2> QED BY <2>1 DEF T!Detach
  <1>3. Shrinks(t, T!Release(t, n))
    <2>1. t[n].count > 1 => t[n] \in [key : Name, res : Ino, size : Nat, count : Nat \ {0},
                                     listed : BOOLEAN, copied : BOOLEAN]
      OBVIOUS
    <2>2. CASE t[n].count > 1
      <3> DEFINE e == [t[n] EXCEPT !.count = @ - 1]
      <3>1. e.res = t[n].res /\ e.size = t[n].size /\ e.copied = t[n].copied
        BY <2>1, <2>2
      <3>2. T!Release(t, n) = [t EXCEPT ![n] = e]
        BY <2>2 DEF T!Release
      <3> HIDE DEF e
      <3> QED BY <2>2, <3>1, <3>2
    <2>3. CASE ~ (t[n].count > 1)
      <3>1. T!Release(t, n) = [t EXCEPT ![n] = T!FreeNode]
        BY <2>3 DEF T!Release
      <3>2. T!FreeNode.count = 0
        OBVIOUS
      <3> HIDE DEF T!FreeNode
      <3> QED BY <3>1, <3>2
    <2> QED BY <2>2, <2>3
  <1>4. t[n].listed => Shrinks(t, T!Retain(t, n))
    BY DEF T!Retain
  <1>5. Shrinks(t, [m \in Node |-> T!FreeNode])
    OBVIOUS
  <1> QED BY <1>1, <1>2, <1>3, <1>4, <1>5

Held ==
  \A p \in Proc :
    /\ \A l \in Loc : loc[p][l].node # None => loc[p][l].node \in T!Live(table[p])
    /\ pc[p] = "init" => call[p].node \in T!Live(table[p])

\* A node that is held is live.
LEMMA HeldLive == Inv => Held
  <1> SUFFICES ASSUME Inv, NEW p \in Proc
               PROVE  /\ \A l \in Loc : loc[p][l].node # None =>
                           loc[p][l].node \in T!Live(table[p])
                      /\ pc[p] = "init" => call[p].node \in T!Live(table[p])
    BY DEF Held
  <1>1. CallFits(pc[p], call[p], loc[p]) /\ loc[p] \in LocTables
    BY DEF Inv, LocalOK, TypeOK, LocTables
  <1>2. ASSUME NEW n \in Node, NEW l \in Users(pc[p], call[p], loc[p], n)
        PROVE  n \in T!Live(table[p])
    <2>1. Users(pc[p], call[p], loc[p], n) \in SUBSET Loc
      <3>1. pc[p] = "init" => call[p].loc \in Loc
        BY <1>1 DEF CallFits
      <3> QED BY <3>1 DEF Users, InLocs
    <2>2. /\ Cardinality(Users(pc[p], call[p], loc[p], n)) \in Nat
          /\ Cardinality(Users(pc[p], call[p], loc[p], n)) >= 1
      BY <2>1, <1>2, UsersRemove
    <2> QED BY <2>2 DEF Inv, Counts1, Counted, T!Live
  <1>3. ASSUME NEW l \in Loc, loc[p][l].node # None PROVE loc[p][l].node \in T!Live(table[p])
    <2>1. loc[p][l].node \in Node
      BY <1>1, <1>3 DEF LocTables
    <2>2. l \in Users(pc[p], call[p], loc[p], loc[p][l].node)
      BY DEF Users, InLocs
    <2> QED BY <1>2, <2>1, <2>2
  <1>4. ASSUME pc[p] = "init" PROVE call[p].node \in T!Live(table[p])
    <2>1. call[p].node \in Node
      BY <1>1, <1>4 DEF CallFits
    <2>2. call[p].loc \in Users(pc[p], call[p], loc[p], call[p].node)
      BY <1>4 DEF Users
    <2> QED BY <1>2, <2>1, <2>2
  <1> QED BY <1>3, <1>4

\* What a node maps is an inode that is in use.
LEMMA LiveInode ==
  ASSUME TypeOK, NEW p \in Proc, NEW n \in T!Live(table[p])
  PROVE  n \in Node /\ table[p][n].res \in Ino /\ InUse(table[p][n].res)
  BY NoneAssumption DEF TypeOK, Tables, T!NodeRecord, T!FreeNode, T!Live, InUse

-----------------------------------------------------------------------------
(* A step that touches no segment and maps nothing new                     *)

\* A step that writes no segment and maps none keeps SegInv.
LEMMA QuietStep ==
  ASSUME Inv, Inv', SegInv, NEW p \in Proc, seg' = seg,
         \A q \in Proc \ {p} : /\ pc'[q] = pc[q] /\ call'[q] = call[q]
                              /\ table'[q] = table[q] /\ loc'[q] = loc[q],
         Shrinks(table[p], table'[p]),
         Loading(p)' => Loading(p) /\ call'[p].ino = call[p].ino,
         CallSeg(pc'[p], call'[p], seg[call'[p].ino]),
         \A l \in Loc : loc'[p][l].node # None =>
            table[p][loc'[p][l].node].size = ShmSize(loc'[p][l].db),
         pc'[p] = "init" => table[p][call'[p].node].size = ShmSize(call'[p].db)
  PROVE  SegInv'
  <1>1. \A q \in Proc \ {p} : /\ pc'[q] = pc[q] /\ call'[q] = call[q]
                              /\ table'[q] = table[q] /\ loc'[q] = loc[q]
    OBVIOUS
  <1>2. Contents'
    BY DEF SegInv, Contents
  <1>3. Calls'
    BY <1>1 DEF SegInv, Calls
  <1>4. \A q \in Proc : Shrinks(table[q], table'[q])
    BY <1>1 DEF Shrinks
  <1>5. \A q \in Proc : \A n \in T!Live(table'[q]) :
          /\ n \in T!Live(table[q])
          /\ table'[q][n].res = table[q][n].res
          /\ table'[q][n].size = table[q][n].size
          /\ table'[q][n].copied = table[q][n].copied
    BY <1>4 DEF Shrinks, T!Live
  <1>6. Mapped'
    BY <1>5 DEF SegInv, Mapped
  <1>7. ASSUME NEW q \in Proc PROVE Fits(pc'[q], call'[q], table'[q], loc'[q])
    <2>1. CASE q # p
      BY <1>1, <2>1 DEF SegInv, Expected
    <2>2. CASE q = p
      <3>1. /\ \A l \in Loc : loc'[p][l].node # None => loc'[p][l].node \in T!Live(table'[p])
            /\ pc'[p] = "init" => call'[p].node \in T!Live(table'[p])
        <4>1. Held'
          BY HeldLive, PTL
        <4> QED BY <4>1 DEF Held
      <3> QED BY <1>5, <2>2, <3>1 DEF Fits
    <2> QED BY <2>1, <2>2
  <1>8. \A q \in Proc : Loading(q)' => Loading(q) /\ call'[q].ino = call[q].ino
    BY <1>1 DEF Loading
  <1>9. LoadedByOne'
    BY <1>5, <1>8 DEF SegInv, LoadedByOne
  <1> QED BY <1>2, <1>3, <1>6, <1>7, <1>9 DEF SegInv, Expected
-----------------------------------------------------------------------------
(* Steps of the loader                                                     *)

\* A loading process holds an inode whose segment is not loaded yet.
LEMMA LoaderFacts ==
  ASSUME Inv, Calls, NEW q \in Proc, Loading(q)
  PROVE  /\ pc[q] \in {"truncate", "checkSize", "copying", "mark"}
         /\ call[q].ino \in Ino
         /\ seg[call[q].ino].stage # "loaded"
  <1>1. CallFits(pc[q], call[q], loc[q]) /\ CallSeg(pc[q], call[q], seg[call[q].ino])
    BY DEF Inv, LocalOK, Calls
  <1>2. pc[q] \in {"truncate", "checkSize", "copying", "mark"} /\ call[q].ino \in Ino
    BY <1>1 DEF Loading, CallFits, Holding
  <1> QED BY <1>1, <1>2 DEF Loading, CallSeg

\* A step of the loader in its own segment keeps SegInv.
LEMMA LoadStep ==
  ASSUME Inv, SegInv, NEW p \in Proc, Loading(p), NEW at \in Label \ {"init"}, NEW s \in Segment,
         pc' = [pc EXCEPT ![p] = at], UNCHANGED <<call, table, loc>>,
         seg' = [seg EXCEPT ![call[p].ino] = s],
         s.stage # "blank" => s.data \in Db /\ s.size = ShmSize(s.data),
         CallSeg(at, call[p], s),
         s.size = seg[call[p].ino].size \/ seg[call[p].ino].size = 0
  PROVE  SegInv'
  <1> DEFINE i == call[p].ino
  <1>1. i \in Ino /\ seg'[i] = s /\ \A j : j # i => seg'[j] = seg[j]
    BY LoaderFacts DEF SegInv, Inv, TypeOK
  <1>2. pc'[p] = at /\ \A q \in Proc : q # p => pc'[q] = pc[q]
    BY DEF Inv, TypeOK
  <1>3. Contents'
    BY <1>1 DEF SegInv, Contents
  <1>4. ASSUME NEW q \in Proc PROVE CallSeg(pc'[q], call'[q], seg'[call'[q].ino])
    <2>1. CASE q = p
      BY <1>1, <1>2, <2>1
    <2>2. CASE q # p /\ call[q].ino # i
      BY <1>1, <1>2, <2>2 DEF SegInv, Calls
    <2>3. CASE q # p /\ call[q].ino = i
      <3>1. ~ Loading(q)
        BY <2>3 DEF SegInv, LoadedByOne
      <3>2. CallFits(pc[q], call[q], loc[q]) /\ CallSeg(pc[q], call[q], seg[i])
        BY <2>3 DEF Inv, LocalOK, SegInv, Calls
      <3>3. ~ call[q].created
        BY <1>1, <2>3, <3>1, NoneAssumption DEF Loading
      <3>4. pc[q] \notin {"truncate", "copying", "mark"}
        BY <3>2, <3>3 DEF CallFits
      <3>5. pc[q] = "checkMark" => s.size = ShmSize(call[q].db)
        <4>1. pc[q] = "checkMark" => ShmSize(call[q].db) > 0
          BY <3>2, ShmSizePositive DEF CallFits
        <4> QED BY <3>2, <4>1 DEF CallSeg
      <3> QED BY <1>1, <1>2, <2>3, <3>3, <3>4, <3>5 DEF CallSeg
    <2> QED BY <2>1, <2>2, <2>3
  <1>5. Mapped'
    BY <1>1 DEF SegInv, Mapped, LoadedByOne
  <1>6. Expected'
    BY <1>2 DEF SegInv, Expected, Fits
  <1>7. LoadedByOne'
    BY DEF SegInv, LoadedByOne, Loading
  <1> QED BY <1>3, <1>4, <1>5, <1>6, <1>7 DEF SegInv, Calls

\* A new segment is not in use yet.
LEMMA CreateStep == ASSUME Inv, SegInv, NEW p \in Proc, Create(p) PROVE SegInv'
  <1>1. PICK i \in Ino : /\ ~ InUse(i)
                         /\ seg' = [seg EXCEPT ![i] = BlankSeg]
                         /\ call' = [call EXCEPT ![p] = Creates(@, i)]
    BY DEF Create
  <1>2. pc' = [pc EXCEPT ![p] = "truncate"] /\ UNCHANGED <<table, loc>>
    BY DEF Create, Goto
  <1>3. seg'[i] = BlankSeg /\ \A j : j # i => seg'[j] = seg[j]
    BY <1>1 DEF Inv, TypeOK
  <1>4. /\ pc'[p] = "truncate" /\ call'[p].ino = i
        /\ \A q \in Proc : q # p => pc'[q] = pc[q] /\ call'[q] = call[q]
    BY <1>1, <1>2, CallUpdates DEF Inv, TypeOK
  <1>5. \A q \in Proc : call[q].ino # i /\ \A n \in Node : table[q][n].res # i
    BY <1>1 DEF InUse
  <1>6. Contents'
    BY <1>3, SegmentOps DEF SegInv, Contents
  <1>7. Calls'
    BY <1>3, <1>4, <1>5, SegmentOps DEF SegInv, Calls, CallSeg
  <1>8. Mapped'
    BY <1>2, <1>3, <1>5 DEF SegInv, Mapped, T!Live
  <1>9. Expected'
    BY <1>2, <1>4 DEF SegInv, Expected, Fits
  <1>10. LoadedByOne'
    BY <1>2, <1>4, <1>5 DEF SegInv, LoadedByOne, Loading, T!Live
  <1> QED BY <1>6, <1>7, <1>8, <1>9, <1>10 DEF SegInv
-----------------------------------------------------------------------------
(* Mapping a segment                                                       *)

\* A new node n of p maps segment i, which is loaded by now.
LEMMA AttachStep ==
  ASSUME Inv, Inv', SegInv, NEW p \in Proc, NEW n \in Node, Attach(p, n),
         pc[p] \in {"mark", "checkMark"}, loc' = loc,
         NEW i \in Ino, call[p].ino = i,
         \A j \in Ino : j # i => seg'[j] = seg[j],
         seg'[i].stage = "loaded", seg'[i].size = seg[i].size,
         seg'[i].size = ShmSize(call[p].db),
         seg'[i].data \in Db, seg'[i].size = ShmSize(seg'[i].data),
         \A q \in Proc \ {p} : Loading(q) => call[q].ino # i,
         call[p].created => \A q \in Proc : \A m \in T!Live(table[q]) : table[q][m].res # i
  PROVE  SegInv'
  <1> DEFINE t == T!Allocate(table[p], n, call[p].name, i, ShmSize(call[p].db), call[p].created)
  <1>1. /\ pc'[p] = "init" /\ table'[p] = t /\ loc'[p] = loc[p]
        /\ call'[p] = Uses(call[p], n) /\ call'[p].node = n /\ call'[p].ino = None
        /\ call'[p].db = call[p].db
    BY CallUpdates DEF Inv, TypeOK, Attach, Goto
  <1>2. \A q \in Proc \ {p} : /\ pc'[q] = pc[q] /\ call'[q] = call[q]
                              /\ table'[q] = table[q] /\ loc'[q] = loc[q]
    BY DEF Inv, TypeOK, Attach, Goto
  <1>3. /\ t[n].res = i /\ t[n].size = ShmSize(call[p].db)
        /\ t[n].copied = call[p].created
        /\ table[p][n].count = 0
        /\ \A m \in Node : m # n => t[m] = table[p][m]
    BY DEF Inv, TypeOK, Tables, Attach, T!Allocate, T!Free
  <1> HIDE DEF t
  <1>4. CallFits(pc[p], call[p], loc[p]) /\ loc[p] \in LocTables
    BY DEF Inv, LocalOK, TypeOK, LocTables
  <1>5. \A q \in Proc : \A m \in T!Live(table'[q]) :
          \/ q = p /\ m = n
          \/ m \in T!Live(table[q]) /\ table'[q][m] = table[q][m]
    BY <1>1, <1>2, <1>3 DEF T!Live
  <1>6. \A q \in Proc : \A m \in T!Live(table[q]) : table[q][m].res \in Ino
    BY LiveInode DEF Inv
  <1>7. Contents'
    BY DEF SegInv, Contents
  <1>8. ASSUME NEW q \in Proc PROVE CallSeg(pc'[q], call'[q], seg'[call'[q].ino])
    <2>1. CASE q = p
      BY <1>1, <2>1 DEF CallSeg
    <2>2. CASE q # p
      <3>1. CallFits(pc[q], call[q], loc[q]) /\ CallSeg(pc[q], call[q], seg[call[q].ino])
        BY DEF Inv, LocalOK, SegInv, Calls
      <3>2. CASE call[q].ino # i
        BY <1>2, <2>2, <3>1, <3>2 DEF CallSeg, CallFits, Holding
      <3>3. CASE call[q].ino = i
        <4>1. ~ call[q].created
          BY <2>2, <3>3, NoneAssumption DEF Loading
        <4> QED BY <1>2, <2>2, <3>1, <3>3, <4>1 DEF CallSeg, CallFits
      <3> QED BY <3>2, <3>3
    <2> QED BY <2>1, <2>2
  <1>9. Mapped'
    <2> SUFFICES ASSUME NEW q \in Proc, NEW m \in T!Live(table'[q])
                 PROVE  /\ seg'[table'[q][m].res].stage = "loaded"
                        /\ seg'[table'[q][m].res].size = table'[q][m].size
      BY DEF Mapped
    <2>1. CASE q = p /\ m = n
      BY <1>1, <1>3, <2>1
    <2>2. CASE m \in T!Live(table[q]) /\ table'[q][m] = table[q][m]
      <3>1. /\ seg[table[q][m].res].stage = "loaded"
            /\ seg[table[q][m].res].size = table[q][m].size
        BY <2>2 DEF SegInv, Mapped
      <3>2. CASE table[q][m].res = i
        BY <2>2, <3>1, <3>2
      <3>3. CASE table[q][m].res # i
        BY <1>6, <2>2, <3>1, <3>3
      <3> QED BY <3>2, <3>3
    <2> QED BY <1>5, <2>1, <2>2
  <1>10. ASSUME NEW q \in Proc PROVE Fits(pc'[q], call'[q], table'[q], loc'[q])
    <2>1. CASE q # p
      BY <1>2, <2>1 DEF SegInv, Expected
    <2>2. CASE q = p
      <3>1. \A l \in Loc : loc[p][l].node # None =>
              loc[p][l].node \in Node /\ loc[p][l].node # n
        BY <1>3, <1>4, HeldLive DEF Held, T!Live, LocTables
      <3>2. \A l \in Loc : loc[p][l].node # None =>
              table[p][loc[p][l].node].size = ShmSize(loc[p][l].db)
        BY DEF SegInv, Expected, Fits
      <3>3. Fits("init", call'[p], t, loc[p])
        BY <1>1, <1>3, <3>1, <3>2 DEF Fits
      <3> QED BY <1>1, <2>2, <3>3
    <2> QED BY <2>1, <2>2
  <1>11. \A q \in Proc : Loading(q)' => q # p /\ Loading(q) /\ call'[q].ino = call[q].ino
    BY <1>1, <1>2 DEF Loading
  <1>12. LoadedByOne'
    <2>1. ASSUME NEW q \in Proc, Loading(q)'
          PROVE  /\ \A r \in Proc \ {q} : Loading(r)' => call'[r].ino # call'[q].ino
                 /\ \A r \in Proc : \A m \in T!Live(table'[r]) : table'[r][m].res # call'[q].ino
      <3>1. q # p /\ Loading(q) /\ call'[q].ino = call[q].ino /\ call[q].ino # i
        BY <1>11, <2>1
      <3>2. \A r \in Proc \ {q} : Loading(r)' => call'[r].ino # call'[q].ino
        BY <1>11, <3>1 DEF SegInv, LoadedByOne
      <3>3. ASSUME NEW r \in Proc, NEW m \in T!Live(table'[r])
            PROVE  table'[r][m].res # call'[q].ino
        <4>1. CASE r = p /\ m = n
          BY <1>1, <1>3, <3>1, <4>1
        <4>2. CASE m \in T!Live(table[r]) /\ table'[r][m] = table[r][m]
          BY <3>1, <4>2 DEF SegInv, LoadedByOne
        <4> QED BY <1>5, <4>1, <4>2
      <3> QED BY <3>2, <3>3
    <2>2. ASSUME NEW q \in Proc, NEW r \in Proc,
                 NEW m \in T!Live(table'[q]), NEW k \in T!Live(table'[r]),
                 table'[q][m].res = table'[r][k].res,
                 table'[q][m].copied, table'[r][k].copied
          PROVE  q = r /\ m = k
      BY <1>1, <1>3, <1>5, <2>2 DEF SegInv, LoadedByOne
    <2> QED BY <2>1, <2>2 DEF LoadedByOne
  <1> QED BY <1>7, <1>8, <1>9, <1>10, <1>12 DEF SegInv, Calls, Expected

\* The loader maps the segment it has marked.
LEMMA MarkStep == ASSUME Inv, Inv', SegInv, NEW p \in Proc, Mark(p) PROVE SegInv'
  <1> DEFINE i == call[p].ino
  <1>1. PICK n \in Node : Attach(p, n)
    BY DEF Mark
  <1>2. /\ pc[p] = "mark" /\ loc' = loc
        /\ seg' = [seg EXCEPT ![i] = AtStage(@, "loaded")]
    BY DEF Mark
  <1>3. CallFits(pc[p], call[p], loc[p]) /\ CallSeg(pc[p], call[p], seg[i])
    BY DEF Inv, LocalOK, SegInv, Calls
  <1>4. i \in Ino /\ call[p].db \in Db /\ call[p].created
    BY <1>2, <1>3 DEF CallFits, Holding
  <1>5. Loading(p)
    BY <1>4, NoneAssumption DEF Loading
  <1>6. seg[i] \in Segment /\ seg[i].stage = "copied" /\ seg[i].data = call[p].db
    BY <1>2, <1>3, <1>4 DEF Inv, TypeOK, CallSeg
  <1>7. seg[i].size = ShmSize(call[p].db)
    BY <1>4, <1>6 DEF SegInv, Contents
  <1>8. /\ seg'[i].stage = "loaded" /\ seg'[i].size = seg[i].size /\ seg'[i].data = seg[i].data
        /\ \A j \in Ino : j # i => seg'[j] = seg[j]
    BY <1>2, <1>4, <1>6, SegmentOps DEF Inv, TypeOK
  <1>9. \A q \in Proc \ {p} : Loading(q) => call[q].ino # i
    BY <1>5 DEF SegInv, LoadedByOne
  <1>10. \A q \in Proc : \A m \in T!Live(table[q]) : table[q][m].res # i
    BY <1>6 DEF SegInv, Mapped
  <1>11. pc[p] \in {"mark", "checkMark"} /\ call[p].ino = i
    BY <1>2
  <1> HIDE DEF i
  <1>12. /\ seg'[i].size = ShmSize(call[p].db) /\ seg'[i].data \in Db
         /\ seg'[i].size = ShmSize(seg'[i].data)
    BY <1>4, <1>6, <1>7, <1>8
  <1>13. seg'[i].stage = "loaded" /\ seg'[i].size = seg[i].size /\ (loc' = loc)
    BY <1>2, <1>8
  <1>14. \A j \in Ino : j # i => seg'[j] = seg[j]
    BY <1>8
  <1> QED
    BY <1>1, <1>4, <1>9, <1>10, <1>11, <1>12, <1>13, <1>14, AttachStep

\* With PageDistinct a set byte at the size of the database means: loaded.
LEMMA SeenLoaded ==
  ASSUME PageDistinct, NEW s \in Segment, NEW d \in Db, NEW i \in Ino, seg[i] = s,
         s.stage # "blank" => s.data \in Db /\ s.size = ShmSize(s.data),
         s.size = ShmSize(d), TRUE \in MarkSeen(i, d)
  PROVE  s.stage = "loaded"
  <1>1. s.stage # "blank"
    BY DEF MarkSeen
  <1>2. s.data \in Db /\ DbSize[s.data] = DbSize[d]
    BY <1>1 DEF PageDistinct
  <1>3. DbSize[d] \notin FFAt[s.data]
    BY <1>2, SizeAssumption
  <1>4. s.stage \notin {"copying", "copied"}
    BY <1>1, <1>3 DEF MarkSeen
  <1> QED BY <1>1, <1>4 DEF Segment

\* An opener maps a segment that it found marked.
LEMMA MarkedStep == ASSUME PageDistinct, Inv, Inv', SegInv, NEW p \in Proc, Marked(p) PROVE SegInv'
  <1> DEFINE i == call[p].ino
  <1>1. PICK n \in Node : Attach(p, n)
    BY DEF Marked
  <1>2. pc[p] = "checkMark" /\ loc' = loc /\ seg' = seg /\ TRUE \in MarkSeen(i, call[p].db)
    BY DEF Marked
  <1>3. CallFits(pc[p], call[p], loc[p]) /\ CallSeg(pc[p], call[p], seg[i])
    BY DEF Inv, LocalOK, SegInv, Calls
  <1>4. i \in Ino /\ call[p].db \in Db /\ ~ call[p].created /\ seg[i] \in Segment
    BY <1>2, <1>3 DEF CallFits, Holding, Inv, TypeOK
  <1>5. seg[i].size = ShmSize(call[p].db)
    BY <1>2, <1>3 DEF CallSeg
  <1>6. seg[i].stage = "loaded"
    BY <1>2, <1>4, <1>5, SeenLoaded DEF SegInv, Contents
  <1>7. seg[i].data \in Db /\ seg[i].size = ShmSize(seg[i].data)
    BY <1>4, <1>6 DEF SegInv, Contents
  <1>8. \A q \in Proc \ {p} : Loading(q) => call[q].ino # i
    BY <1>6, LoaderFacts DEF SegInv
  <1> QED
    BY <1>1, <1>2, <1>4, <1>5, <1>6, <1>7, <1>8, AttachStep
-----------------------------------------------------------------------------
(* Every step                                                              *)

\* Every step keeps SegInv.
LEMMA SegStep == ASSUME PageDistinct, Inv, Inv', SegInv, Next PROVE SegInv'
  <1>1. PICK p \in Proc :
          \/ \E l \in Loc, d \in Db, nm \in Name : StartOpen(p, l, d, nm)
          \/ \E l \in Loc : Close(p, l) \/ StartDelete(p, l) \/ DeleteStale(p, l)
          \/ OpenStep(p) \/ FinishDelete(p)
          \/ Crash(p)
    BY DEF Next, Step
  <1>2. /\ CallFits(pc[p], call[p], loc[p]) /\ CallSeg(pc[p], call[p], seg[call[p].ino])
        /\ table[p] \in Tables /\ loc[p] \in LocTables /\ call[p] \in Call
        /\ Fits(pc[p], call[p], table[p], loc[p])
    BY DEF Inv, LocalOK, TypeOK, LocTables, SegInv, Calls, Expected
  <1>3. ASSUME NEW at \in Label \ {"init"}, NEW c, NEW t, NEW ls, seg' = seg,
               pc' = [pc EXCEPT ![p] = at], call' = [call EXCEPT ![p] = c],
               table' = [table EXCEPT ![p] = t], loc' = [loc EXCEPT ![p] = ls],
               Shrinks(table[p], t),
               c.created /\ c.ino # None => Loading(p) /\ c.ino = call[p].ino,
               CallSeg(at, c, seg[c.ino]),
               \A l \in Loc : ls[l].node # None => table[p][ls[l].node].size = ShmSize(ls[l].db)
        PROVE  SegInv'
    <2>1. pc'[p] = at /\ call'[p] = c /\ table'[p] = t /\ loc'[p] = ls
      BY <1>3 DEF Inv, TypeOK
    <2>2. \A q \in Proc \ {p} : /\ pc'[q] = pc[q] /\ call'[q] = call[q]
                                /\ table'[q] = table[q] /\ loc'[q] = loc[q]
      BY <1>3 DEF Inv, TypeOK
    <2>3. Loading(p)' => Loading(p) /\ call'[p].ino = call[p].ino
      BY <1>3, <2>1 DEF Loading
    <2> QED BY <1>3, <2>1, <2>2, <2>3, QuietStep
  <1>4. \A l \in Loc : loc[p][l].node # None =>
          table[p][loc[p][l].node].size = ShmSize(loc[p][l].db)
    BY <1>2 DEF Fits
  <1>5. Shrinks(table[p], table[p]) /\ \A n \in Node : Shrinks(table[p], T!Detach(table[p], n))
    BY <1>2, TableShrinks DEF Shrinks
  <1>6. /\ table = [table EXCEPT ![p] = table[p]] /\ loc = [loc EXCEPT ![p] = loc[p]]
        /\ call = [call EXCEPT ![p] = call[p]] /\ pc = [pc EXCEPT ![p] = pc[p]]
    BY DEF Inv, TypeOK
  <1>7. ASSUME NEW at \in Label \ {"init"}, NEW c, UNCHANGED <<seg, table, loc>>,
               pc' = [pc EXCEPT ![p] = at], call' = [call EXCEPT ![p] = c],
               c.created /\ c.ino # None => Loading(p) /\ c.ino = call[p].ino,
               CallSeg(at, c, seg[c.ino])
        PROVE  SegInv'
    BY <1>3, <1>4, <1>5, <1>6, <1>7
  <1>8. ASSUME NEW at \in Label \ {"init"}, UNCHANGED <<seg, call, table, loc>>,
               pc' = [pc EXCEPT ![p] = at], CallSeg(at, call[p], seg[call[p].ino])
        PROVE  SegInv'
    BY <1>6, <1>7, <1>8 DEF Loading
  <1>9. ASSUME Return(p), UNCHANGED <<seg, table, loc>> PROVE SegInv'
    BY <1>7, <1>9, CallOps DEF Return, Goto, CallSeg, Label
  <1>10. \A q, s : CallSeg("idle", q, s) /\ CallSeg("unlink", q, s) /\ CallSeg("find", q, s)
                   /\ CallSeg("create", q, s) /\ CallSeg("openExisting", q, s)
                   /\ CallSeg("delete", q, s)
    BY DEF CallSeg
  <1>idle. ASSUME NEW t, NEW ls, seg' = seg,
               pc' = [pc EXCEPT ![p] = "idle"], call' = [call EXCEPT ![p] = NoCall],
               table' = [table EXCEPT ![p] = t], loc' = [loc EXCEPT ![p] = ls],
               Shrinks(table[p], t),
               \A l \in Loc : ls[l].node # None => table[p][ls[l].node].size = ShmSize(ls[l].db)
        PROVE  SegInv'
    <2>1. ~ NoCall.created
      BY CallOps
    <2>2. CallSeg("idle", NoCall, seg[NoCall.ino])
      BY <1>10
    <2>3. "idle" \in Label \ {"init"}
      BY DEF Label
    <2> QED BY <1>3, <1>idle, <2>1, <2>2, <2>3
  <1>11. ASSUME NEW l \in Loc, NEW d \in Db, NEW nm \in Name, StartOpen(p, l, d, nm)
         PROVE  SegInv'
    BY <1>7, <1>10, <1>11, CallOps DEF StartOpen, Goto, Label
  <1>12. ASSUME NEW l \in Loc, Close(p, l) PROVE SegInv'
    <2> DEFINE ls == [loc[p] EXCEPT ![l] = EmptyLoc]
               t == T!Release(table[p], loc[p][l].node)
    <2>1. loc[p][l].node \in Node
      BY <1>2, <1>12 DEF Close, LocTables
    <2>2. Shrinks(table[p], t)
      BY <1>2, <2>1, TableShrinks
    <2>3. \A k \in Loc : ls[k].node # None => table[p][ls[k].node].size = ShmSize(ls[k].db)
      BY <1>2, <1>4, NoneAssumption DEF LocTables, EmptyLoc
    <2>4. call[p] = NoCall
      BY <1>2, <1>12 DEF Close, CallFits
    <2>5. /\ pc' = [pc EXCEPT ![p] = "idle"] /\ call' = [call EXCEPT ![p] = NoCall] /\ seg' = seg
          /\ table' = [table EXCEPT ![p] = t] /\ loc' = [loc EXCEPT ![p] = ls]
      BY <1>6, <1>12, <2>4 DEF Close
    <2> HIDE DEF ls, t
    <2> QED BY <1>idle, <2>2, <2>3, <2>5
  <1>13. ASSUME NEW l \in Loc, StartDelete(p, l) PROVE SegInv'
    <2> DEFINE n == loc[p][l].node
    <2>1. n \in Node /\ table[p][n].key \in Name \cup {None}
      <3>1. n \in Node
        BY <1>2, <1>13 DEF StartDelete, LocTables
      <3> HIDE DEF n
      <3>2. table[p][n] \in T!NodeRecord(Name, Ino)
        BY <1>2, <3>1 DEF Tables
      <3> QED BY <3>1, <3>2 DEF T!NodeRecord, T!FreeNode
    <2> DEFINE c == DeleteCall(table[p][n].key, n)
    <2>2. ~ c.created /\ CallSeg("delete", c, seg[c.ino])
      BY <1>10, <2>1, CallOps
    <2>3. /\ pc' = [pc EXCEPT ![p] = "delete"] /\ call' = [call EXCEPT ![p] = c]
          /\ UNCHANGED <<seg, table, loc>>
      BY <1>13 DEF StartDelete, Goto
    <2> HIDE DEF c
    <2> QED BY <1>7, <2>2, <2>3 DEF Label
  <1>14. ASSUME NEW l \in Loc, DeleteStale(p, l) PROVE SegInv'
    <2> DEFINE n == loc[p][l].node
    <2>1. n \in Node
      BY <1>2, <1>14 DEF DeleteStale, LocTables
    <2>2. call[p] = NoCall
      BY <1>2, <1>14 DEF DeleteStale, CallFits
    <2>3. /\ pc' = [pc EXCEPT ![p] = "idle"] /\ call' = [call EXCEPT ![p] = NoCall] /\ seg' = seg
          /\ table' = [table EXCEPT ![p] = T!Detach(table[p], n)]
          /\ loc' = [loc EXCEPT ![p] = loc[p]]
      BY <1>6, <1>14, <2>2 DEF DeleteStale
    <2> QED BY <1>idle, <1>4, <1>5, <2>1, <2>3
  <1>15. CASE FinishDelete(p)
    <2>1. call[p].node \in Node
      BY <1>2, <1>15 DEF FinishDelete, CallFits
    <2>2. /\ pc' = [pc EXCEPT ![p] = "idle"] /\ call' = [call EXCEPT ![p] = NoCall] /\ seg' = seg
          /\ table' = [table EXCEPT ![p] = T!Detach(table[p], call[p].node)]
          /\ loc' = [loc EXCEPT ![p] = loc[p]]
      BY <1>6, <1>15 DEF FinishDelete, Return, Goto
    <2> QED BY <1>idle, <1>4, <1>5, <2>1, <2>2
  <1>16. CASE Crash(p)
    <2> DEFINE t == [n \in Node |-> T!FreeNode]
               ls == [l \in Loc |-> EmptyLoc]
    <2>1. Shrinks(table[p], t)
      BY DEF Shrinks, T!FreeNode
    <2>2. \A l \in Loc : ls[l].node = None
      BY DEF EmptyLoc
    <2>3. /\ pc' = [pc EXCEPT ![p] = "idle"] /\ call' = [call EXCEPT ![p] = NoCall] /\ seg' = seg
          /\ table' = [table EXCEPT ![p] = t] /\ loc' = [loc EXCEPT ![p] = ls]
      BY <1>16 DEF Crash, Return, Goto
    <2> HIDE DEF t, ls
    <2> QED BY <1>idle, <2>1, <2>2, <2>3
  <1>17. CASE RefuseMapped(p) \/ OpenExistingFails(p) \/ Unlink(p)
    BY <1>9, <1>17 DEF RefuseMapped, OpenExistingFails, Unlink
  <1>18. CASE NotMapped(p) \/ CreateFails(p)
    BY <1>8, <1>10, <1>18 DEF NotMapped, CreateFails, Goto, Label
  <1>19. CASE OpenExisting(p)
    <2> DEFINE c == Holds(call[p], dir[call[p].name])
    <2>1. dir[call[p].name] \in Ino /\ ~ call[p].created
      BY <1>2, <1>19 DEF OpenExisting, CallFits, Inv, TypeOK
    <2>2. c.created = call[p].created
      BY <1>2, <2>1, CallUpdates
    <2>3. CallSeg("checkSize", c, seg[c.ino])
      BY <2>1, <2>2 DEF CallSeg
    <2>4. pc' = [pc EXCEPT ![p] = "checkSize"] /\ call' = [call EXCEPT ![p] = c]
      BY <1>19 DEF OpenExisting, Goto
    <2>5. UNCHANGED <<seg, table, loc>>
      BY <1>19 DEF OpenExisting
    <2> HIDE DEF c
    <2> QED BY <1>7, <2>1, <2>2, <2>3, <2>4, <2>5 DEF Label
  <1>20. ASSUME pc' = [pc EXCEPT ![p] = "unlink"],
                call' = [call EXCEPT ![p] = Holds(call[p], None)], UNCHANGED <<seg, table, loc>>
         PROVE  SegInv'
    <2> DEFINE c == Holds(call[p], None)
    <2>1. c.ino = None /\ CallSeg("unlink", c, seg[c.ino])
      BY <1>2, <1>10, CallUpdates
    <2> QED BY <1>7, <1>20, <2>1 DEF Label
  <1>21. CASE TruncateFails(p) \/ SizeDiffers(p) \/ CopyFails(p)
    <2>1. Fail(p) /\ UNCHANGED <<seg, table, loc>>
      BY <1>21 DEF TruncateFails, SizeDiffers, CopyFails
    <2>2. CASE call[p].created
      BY <1>20, <2>1, <2>2 DEF Fail, Goto
    <2>3. CASE ~ call[p].created
      BY <1>9, <2>1, <2>3 DEF Fail
    <2> QED BY <2>2, <2>3
  <1>22. CASE NotMarked(p)
    BY <1>20, <1>22 DEF NotMarked, Goto
  <1>23. CASE DetachStale(p)
    <2>1. PICK n \in Node : table' = [table EXCEPT ![p] = T!Detach(@, n)]
      BY <1>23 DEF DetachStale, T!Found
    <2>2. /\ pc' = [pc EXCEPT ![p] = "create"] /\ call' = [call EXCEPT ![p] = call[p]] /\ seg' = seg
          /\ table' = [table EXCEPT ![p] = T!Detach(table[p], n)]
          /\ loc' = [loc EXCEPT ![p] = loc[p]]
      BY <1>6, <1>23, <2>1 DEF DetachStale, Goto
    <2> QED BY <1>3, <1>4, <1>5, <1>10, <2>2 DEF Label, Loading
  <1>24. CASE InitFails(p)
    <2>1. call[p].node \in Node
      BY <1>2, <1>24 DEF InitFails, CallFits
    <2>2. Shrinks(table[p], T!Release(table[p], call[p].node))
      BY <1>2, <2>1, TableShrinks
    <2>3. /\ pc' = [pc EXCEPT ![p] = "idle"] /\ call' = [call EXCEPT ![p] = NoCall] /\ seg' = seg
          /\ table' = [table EXCEPT ![p] = T!Release(table[p], call[p].node)]
          /\ loc' = [loc EXCEPT ![p] = loc[p]]
      BY <1>6, <1>24 DEF InitFails, Return, Goto
    <2> QED BY <1>idle, <1>4, <2>2, <2>3
  <1>25. CASE InitSucceeds(p)
    <2> DEFINE ls == [loc[p] EXCEPT ![call[p].loc] =
                        [node |-> call[p].node, db |-> call[p].db]]
    <2>1. call[p].loc \in Loc /\ table[p][call[p].node].size = ShmSize(call[p].db)
      BY <1>2, <1>25 DEF InitSucceeds, CallFits, Fits
    <2>2. \A l \in Loc : ls[l].node # None => table[p][ls[l].node].size = ShmSize(ls[l].db)
      BY <1>2, <1>4, <2>1 DEF LocTables
    <2>3. /\ pc' = [pc EXCEPT ![p] = "idle"] /\ call' = [call EXCEPT ![p] = NoCall] /\ seg' = seg
          /\ table' = [table EXCEPT ![p] = table[p]] /\ loc' = [loc EXCEPT ![p] = ls]
      BY <1>6, <1>25 DEF InitSucceeds, Return, Goto
    <2> HIDE DEF ls
    <2> QED BY <1>idle, <1>5, <2>2, <2>3
  <1>26. CASE Reuse(p)
    <2>1. PICK n \in T!Found(table[p], call[p].name) :
            /\ table[p][n].size = ShmSize(call[p].db)
            /\ table' = [table EXCEPT ![p] = T!Retain(@, n)]
            /\ call' = [call EXCEPT ![p] = Uses(@, n)]
      BY <1>26 DEF Reuse
    <2>2. n \in Node /\ table[p][n].listed
      BY DEF T!Found
    <2>3. Shrinks(table[p], T!Retain(table[p], n))
      BY <1>2, <2>2, TableShrinks
    <2>4. /\ pc'[p] = "init" /\ call'[p] = Uses(call[p], n) /\ call'[p].ino = None
          /\ call'[p].node = n /\ call'[p].db = call[p].db
          /\ table'[p] = T!Retain(table[p], n) /\ loc'[p] = loc[p] /\ seg' = seg
      <3>1. /\ Uses(call[p], n).ino = None /\ Uses(call[p], n).node = n
            /\ Uses(call[p], n).db = call[p].db
        BY <1>2, <2>2, CallUpdates DEF Inv, TypeOK
      <3>2. /\ pc'[p] = "init" /\ call'[p] = Uses(call[p], n)
            /\ table'[p] = T!Retain(table[p], n) /\ loc'[p] = loc[p] /\ seg' = seg
        BY <1>26, <2>1 DEF Reuse, Goto, Inv, TypeOK
      <3> QED BY <3>1, <3>2
    <2>5. \A q \in Proc \ {p} : /\ pc'[q] = pc[q] /\ call'[q] = call[q]
                                /\ table'[q] = table[q] /\ loc'[q] = loc[q]
      BY <1>26, <2>1 DEF Reuse, Goto, Inv, TypeOK
    <2>6. CallSeg("init", call'[p], seg[call'[p].ino])
      BY DEF CallSeg
    <2>7. ~ Loading(p)'
      BY <2>4 DEF Loading
    <2> QED BY <1>4, <2>1, <2>3, <2>4, <2>5, <2>6, <2>7, QuietStep
  <1>27. CASE Truncate(p)
    <2> DEFINE i == call[p].ino
               s == Sized(seg[i], ShmSize(call[p].db))
    <2>1. /\ i \in Ino /\ call[p].db \in Db /\ call[p].created
          /\ seg[i].stage = "blank" /\ seg[i].size = 0 /\ seg[i] \in Segment
      BY <1>2, <1>27 DEF Truncate, CallFits, CallSeg, Holding, Inv, TypeOK
    <2>2. s \in Segment /\ s.stage = "blank"
      BY <2>1, SegmentOps, ShmSizePositive
    <2>3. CallSeg("checkSize", call[p], s)
      BY <2>2 DEF CallSeg
    <2>4. Loading(p)
      BY <2>1, NoneAssumption DEF Loading
    <2>5. pc' = [pc EXCEPT ![p] = "checkSize"] /\ UNCHANGED <<call, table, loc>>
          /\ seg' = [seg EXCEPT ![i] = s]
      BY <1>27 DEF Truncate, Goto
    <2> HIDE DEF s
    <2> QED BY <2>1, <2>2, <2>3, <2>4, <2>5, LoadStep DEF Label
  <1>28. CASE SizeMatches(p)
    <2> DEFINE i == call[p].ino
               s == Filled(seg[i], call[p].db)
    <2>1. /\ i \in Ino /\ call[p].db \in Db /\ seg[i] \in Segment
          /\ seg[i].size = ShmSize(call[p].db)
      BY <1>2, <1>28 DEF SizeMatches, CallFits, Holding, Inv, TypeOK
    <2>2. CASE call[p].created
      <3>1. /\ s \in Segment /\ s.stage = "copying" /\ s.data = call[p].db
            /\ s.size = seg[i].size
        BY <2>1, SegmentOps
      <3>2. CallSeg("copying", call[p], s)
        BY <3>1 DEF CallSeg
      <3>3. Loading(p)
        BY <2>1, <2>2, NoneAssumption DEF Loading
      <3>4. pc' = [pc EXCEPT ![p] = "copying"] /\ UNCHANGED <<call, table, loc>>
            /\ seg' = [seg EXCEPT ![i] = s]
        BY <1>28, <2>2 DEF SizeMatches, Goto
      <3> HIDE DEF s
      <3> QED BY <2>1, <3>1, <3>2, <3>3, <3>4, LoadStep DEF Label
    <2>3. CASE ~ call[p].created
      <3>1. CallSeg("checkMark", call[p], seg[i])
        BY <2>1 DEF CallSeg
      <3> QED BY <1>8, <1>28, <2>3, <3>1 DEF SizeMatches, Goto, Label
    <2> QED BY <2>2, <2>3
  <1>29. CASE Copy(p)
    <2> DEFINE i == call[p].ino
               s == AtStage(seg[i], "copied")
    <2>1. /\ i \in Ino /\ call[p].db \in Db /\ call[p].created /\ seg[i] \in Segment
          /\ seg[i].stage = "copying" /\ seg[i].data = call[p].db
      BY <1>2, <1>29 DEF Copy, CallFits, CallSeg, Holding, Inv, TypeOK
    <2>2. seg[i].size = ShmSize(call[p].db)
      BY <2>1 DEF SegInv, Contents
    <2>3. /\ s \in Segment /\ s.stage = "copied" /\ s.data = call[p].db
          /\ s.size = seg[i].size
      BY <2>1, SegmentOps
    <2>4. CallSeg("mark", call[p], s)
      BY <2>3 DEF CallSeg
    <2>5. Loading(p)
      BY <2>1, NoneAssumption DEF Loading
    <2>6. pc' = [pc EXCEPT ![p] = "mark"] /\ UNCHANGED <<call, table, loc>>
          /\ seg' = [seg EXCEPT ![i] = s]
      BY <1>29 DEF Copy, Goto
    <2> HIDE DEF s
    <2> QED BY <2>1, <2>2, <2>3, <2>4, <2>5, <2>6, LoadStep DEF Label
  <1> QED
    BY <1>1, <1>11, <1>12, <1>13, <1>14, <1>15, <1>16, <1>17, <1>18, <1>19, <1>21, <1>22, <1>23,
       <1>24, <1>25, <1>26, <1>27, <1>28, <1>29, CreateStep, MarkStep, MarkedStep
    DEF OpenStep
-----------------------------------------------------------------------------
(* Theorems                                                                *)

\* SegInv holds at the start.
LEMMA SegInit == Init => SegInv
  <1> SUFFICES ASSUME Init PROVE SegInv
    OBVIOUS
  <1>1. /\ \A i \in Ino : seg[i].stage = "blank"
        /\ \A p \in Proc : /\ pc[p] = "idle" /\ ~ call[p].created
                           /\ \A n \in Node : table[p][n].count = 0
                           /\ \A l \in Loc : loc[p][l].node = None
    BY DEF Init, BlankSeg, NoCall, T!FreeNode, EmptyLoc
  <1> QED BY <1>1 DEF SegInv, Contents, Calls, CallSeg, Mapped, Expected, Fits, LoadedByOne,
                      Loading, T!Live

\* Types and counts, from SharedMemoryProofs.
LEMMA InvSpec == Spec => []Inv
  <1>1. Init => Inv
    BY TypeInit, CountsInit DEF Inv
  <1>2. Inv /\ [Next]_vars => Inv'
    BY TypeStep, CountsStep DEF Inv
  <1> QED BY <1>1, <1>2, PTL DEF Spec

\* Every step, or none, keeps SegInv.
LEMMA SegNext == ASSUME PageDistinct PROVE Inv /\ Inv' /\ SegInv /\ [Next]_vars => SegInv'
  <1> SUFFICES ASSUME Inv, Inv', SegInv, [Next]_vars PROVE SegInv'
    OBVIOUS
  <1>1. CASE Next
    BY <1>1, SegStep
  <1>2. CASE UNCHANGED vars
    <2> USE <1>2 DEF vars
    <2>1. Contents' /\ Calls' /\ Mapped' /\ Expected'
      BY DEF SegInv, Contents, Calls, Mapped, Expected
    <2>2. LoadedByOne'
      BY DEF SegInv, LoadedByOne, Loading
    <2> QED BY <2>1, <2>2 DEF SegInv
  <1> QED BY <1>1, <1>2

\* SegInv holds in every state.
LEMMA SegSpec == ASSUME PageDistinct PROVE Spec => []SegInv
  <1>1. Inv /\ Inv' /\ SegInv /\ [Next]_vars => SegInv'
    BY SegNext
  <1> QED BY <1>1, SegInit, InvSpec, PTL DEF Spec

\* SegInv gives what an open location reads.
LEMMA Complete == ASSUME PageDistinct PROVE Inv /\ SegInv => AttachedComplete
  <1> SUFFICES ASSUME Inv, SegInv, NEW p \in Proc, NEW l \in Loc, loc[p][l].node # None
               PROVE  /\ Source(p, l).stage = "loaded"
                      /\ DbSize[Source(p, l).data] = DbSize[loc[p][l].db]
    BY DEF AttachedComplete
  <1> DEFINE n == loc[p][l].node
  <1>1. n \in T!Live(table[p])
    BY HeldLive DEF Held
  <1>2. table[p][n].res \in Ino
    BY <1>1, LiveInode DEF Inv
  <1>3. Source(p, l).stage = "loaded" /\ Source(p, l).size = table[p][n].size
    BY <1>1 DEF SegInv, Mapped, Source
  <1>4. table[p][n].size = ShmSize(loc[p][l].db)
    BY DEF SegInv, Expected, Fits
  <1>5. loc[p][l].db \in Db
    BY DEF Inv, LocalOK, LocFits
  <1>6. Source(p, l).data \in Db /\ Source(p, l).size = ShmSize(Source(p, l).data)
    BY <1>2, <1>3 DEF SegInv, Contents, Source
  <1> QED BY <1>3, <1>4, <1>5, <1>6 DEF PageDistinct

(***************************************************************************)
(* Whatever the interleaving, the failures and the deaths, a location that *)
(* IP2LocationOpen returned reads a completely loaded database of the size *)
(* of its own file, if no two databases of different sizes have the same   *)
(* number of pages.                                                        *)
(***************************************************************************)
THEOREM ReadsComplete == ASSUME PageDistinct PROVE Spec => []AttachedComplete
  <1>1. Inv /\ SegInv => AttachedComplete
    BY Complete
  <1> QED BY <1>1, InvSpec, SegSpec, PTL

(***************************************************************************)
(* O_EXCL and the mark together elect one loader per segment, and nobody   *)
(* maps a segment while it is being loaded.                                *)
(***************************************************************************)
THEOREM OneLoader == ASSUME PageDistinct PROVE Spec => []LoadedByOne
  <1>1. SegInv => LoadedByOne
    BY DEF SegInv
  <1> QED BY <1>1, SegSpec, PTL

\* A step writes to a segment only if it created it just now or is loading it.
LEMMA SegmentWrites ==
  ASSUME Inv, SegInv, Next, NEW i \in Ino, seg'[i] # seg[i]
  PROVE  \/ ~ InUse(i)
         \/ \E q \in Proc : Loading(q) /\ call[q].ino = i
  <1>1. PICK p \in Proc :
          \/ \E l \in Loc, d \in Db, nm \in Name : StartOpen(p, l, d, nm)
          \/ \E l \in Loc : Close(p, l) \/ StartDelete(p, l) \/ DeleteStale(p, l)
          \/ OpenStep(p) \/ FinishDelete(p)
          \/ Crash(p)
    BY DEF Next, Step
  <1>2. CallFits(pc[p], call[p], loc[p])
    BY DEF Inv, LocalOK
  <1>3. CASE Create(p)
    <2>1. PICK j \in Ino : ~ InUse(j) /\ seg' = [seg EXCEPT ![j] = BlankSeg]
      BY <1>3 DEF Create
    <2> QED BY <2>1 DEF Inv, TypeOK
  <1>4. CASE Truncate(p) \/ SizeMatches(p) \/ Copy(p) \/ Mark(p)
    <2>1. call[p].ino = i /\ call[p].created /\ call[p].ino # None
      BY <1>2, <1>4, NoneAssumption
      DEF Truncate, SizeMatches, Copy, Mark, CallFits, Holding, Inv, TypeOK
    <2> QED BY <2>1 DEF Loading
  <1> QED
    BY <1>1, <1>3, <1>4
    DEF OpenStep, StartOpen, Close, StartDelete, DeleteStale, RefuseMapped, Reuse, DetachStale,
        NotMapped, CreateFails, OpenExisting, OpenExistingFails, TruncateFails, SizeDiffers,
        CopyFails, Marked, NotMarked, Unlink, InitSucceeds, InitFails, FinishDelete, Crash

\* A node that stays live keeps mapping the same segment.
LEMMA SameSegment ==
  ASSUME Inv, Next, NEW p \in Proc, NEW n \in Node,
         n \in T!Live(table[p]), n \in T!Live(table'[p])
  PROVE  table'[p][n].res = table[p][n].res
  <1>1. PICK q \in Proc : Shape(q)
    BY NextShape DEF Inv
  <1>2. table[p] \in Tables /\ loc[p] \in LocTables /\ CallFits(pc[p], call[p], loc[p])
    BY DEF Inv, TypeOK, LocalOK, LocTables
  <1>3. CASE q # p
    BY <1>1, <1>3, BecomesElsewhere DEF Inv
  <1>4. ASSUME NEW at, NEW c, NEW t, NEW ls, Becomes(p, at, c, t, ls), Shrinks(table[p], t)
        PROVE  table'[p][n].res = table[p][n].res
    BY <1>4 DEF Becomes, Shrinks, T!Live, Inv, TypeOK
  <1>5. ASSUME Shape(p) PROVE table'[p][n].res = table[p][n].res
    <2>1. CASE Moves(p) \/ Opens(p)
      BY <1>2, <1>4, <2>1, TableShrinks DEF Moves, Opens
    <2>2. CASE Detaches(p)
      BY <1>2, <1>4, <2>2, TableShrinks DEF Detaches
    <2>3. CASE Retains(p)
      BY <1>2, <1>4, <2>3, TableShrinks DEF Retains
    <2>4. CASE GivesUp(p)
      BY <1>2, <1>4, <2>4, TableShrinks DEF GivesUp, CallFits
    <2>5. CASE Closes(p)
      BY <1>2, <1>4, <2>5, TableShrinks DEF Closes, LocTables
    <2>6. CASE Dies(p)
      BY <1>2, <1>4, <2>6, TableShrinks DEF Dies
    <2>7. CASE Attaches(p)
      <3>1. PICK m \in T!Free(table[p]) :
              Becomes(p, "init", Uses(call[p], m),
                      T!Allocate(table[p], m, call[p].name, call[p].ino,
                                 ShmSize(call[p].db), call[p].created), loc[p])
        BY <2>7 DEF Attaches
      <3>2. m # n
        BY DEF T!Free, T!Live
      <3> QED BY <1>2, <3>1, <3>2 DEF Becomes, T!Allocate, Inv, TypeOK, Tables
    <2> QED BY <1>5, <2>1, <2>2, <2>3, <2>4, <2>5, <2>6, <2>7 DEF Shape
  <1> QED BY <1>1, <1>3, <1>5

\* No step changes the segment of a location that stays open.
LEMMA StableStep ==
  ASSUME Inv, Inv', SegInv, Next, NEW p \in Proc, NEW l \in Loc,
         loc[p][l].node # None, loc'[p][l] = loc[p][l]
  PROVE  Source(p, l)' = Source(p, l)
  <1> DEFINE n == loc[p][l].node
  <1>1. n \in Node /\ n \in T!Live(table[p])
    BY HeldLive DEF Held, T!Live
  <1>2. n \in T!Live(table'[p])
    <2>1. Held'
      BY HeldLive, PTL
    <2> QED BY <2>1 DEF Held
  <1>3. table'[p][n].res = table[p][n].res
    BY <1>1, <1>2, SameSegment
  <1>4. table[p][n].res \in Ino /\ InUse(table[p][n].res)
    BY <1>1, LiveInode DEF Inv
  <1>5. \A q \in Proc : Loading(q) => call[q].ino # table[p][n].res
    BY <1>1 DEF SegInv, LoadedByOne
  <1>6. seg'[table[p][n].res] = seg[table[p][n].res]
    BY <1>4, <1>5, SegmentWrites
  <1> QED BY <1>3, <1>6 DEF Source

(***************************************************************************)
(* While a location stays open nothing any process does changes what it    *)
(* reads: deleting the name, recreating it with other contents, reusing    *)
(* inodes and the death of the loader included.                            *)
(***************************************************************************)
THEOREM ReadsStable == ASSUME PageDistinct PROVE Spec => ContentStable
  <1>1. Inv /\ Inv' /\ SegInv /\ [Next]_vars =>
          [\A p \in Proc, l \in Loc :
             loc[p][l].node # None /\ loc'[p][l] = loc[p][l]
               => Source(p, l)' = Source(p, l)]_vars
    BY StableStep
  <1> QED BY <1>1, InvSpec, SegSpec, PTL DEF Spec, ContentStable

-----------------------------------------------------------------------------
(***************************************************************************)
(* The protocol implements SharedSegments: the initial states map to       *)
(* initial states, and every step of a process maps to a step of the       *)
(* abstract specification or changes nothing of it.                        *)
(***************************************************************************)
\* The abstract variables, and what a client reads that reads nothing.
Abstract == <<dir, LoadedDb, Reads>>
NoRead == [of |-> None, file |-> None]

LEMMA RefinesInit == Init => Segments!Init
  <1> SUFFICES ASSUME Init PROVE Segments!Init
    OBVIOUS
  <1>1. LoadedDb = [i \in Ino |-> None]
    BY DEF Init, LoadedDb, BlankSeg
  <1>2. Reads = [c \in Proc \X Loc |-> NoRead]
    <2>1. \A p \in Proc, l \in Loc : Reading(p, l) = NoRead
      BY DEF Init, Reading, EmptyLoc, NoRead
    <2>2. \A c \in Proc \X Loc : Reading(c[1], c[2]) = NoRead
      BY <2>1
    <2> QED BY <2>2 DEF Reads
  <1> QED BY <1>1, <1>2 DEF Init, Segments!Init, Segments!NoRead, NoRead

-----------------------------------------------------------------------------
(* What a step leaves alone                                                *)

\* A location that a step leaves alone goes on reading its segment.
LEMMA ReadingKept ==
  ASSUME Inv, Inv', Next, NEW p \in Proc, NEW l \in Loc, loc'[p][l] = loc[p][l]
  PROVE  Reading(p, l)' = Reading(p, l)
  <1> DEFINE n == loc[p][l].node
  <1>1. CASE n = None
    BY <1>1 DEF Reading
  <1>2. CASE n # None
    <2>1. n \in Node /\ n \in T!Live(table[p])
      BY <1>2, HeldLive DEF Held, T!Live
    <2>2. n \in T!Live(table'[p])
      <3>1. Held'
        BY HeldLive, PTL
      <3> QED BY <1>2, <3>1 DEF Held
    <2>3. table'[p][n].res = table[p][n].res
      BY <2>1, <2>2, SameSegment
    <2> QED BY <1>2, <2>3 DEF Reading
  <1> QED BY <1>1, <1>2

\* So with all of them.
LEMMA ReadsKept ==
  ASSUME Inv, Inv', Next, NEW C \in SUBSET (Proc \X Loc),
         \A p \in Proc, l \in Loc : <<p, l>> \notin C => loc'[p][l] = loc[p][l],
         \A p \in Proc, l \in Loc : <<p, l>> \in C => loc'[p][l].node = None
  PROVE  Reads' = [c \in Proc \X Loc |-> IF c \in C THEN NoRead ELSE Reads[c]]
  <1>1. ASSUME NEW p \in Proc, NEW l \in Loc
        PROVE  Reading(p, l)' = IF <<p, l>> \in C THEN NoRead ELSE Reading(p, l)
    BY ReadingKept DEF Reading, NoRead
  <1>2. \A c \in Proc \X Loc :
          Reading(c[1], c[2])' = IF c \in C THEN NoRead ELSE Reading(c[1], c[2])
    BY <1>1
  <1> QED BY <1>2 DEF Reads

LEMMA ReadsSame == ASSUME Inv, Inv', Next, loc' = loc PROVE Reads' = Reads
  <1>1. \A p \in Proc, l \in Loc : Reading(p, l)' = Reading(p, l)
    BY ReadingKept
  <1>2. \A c \in Proc \X Loc : Reading(c[1], c[2])' = Reading(c[1], c[2])
    BY <1>1
  <1> QED BY <1>2 DEF Reads

\* Loading a segment does not show before the mark is set.
LEMMA LoadedSame ==
  ASSUME Inv, SegInv, NEW p \in Proc,
         \/ seg' = seg
         \/ Truncate(p) \/ SizeMatches(p) \/ Copy(p)
  PROVE  LoadedDb' = LoadedDb
  <1>1. CASE seg' = seg
    BY <1>1 DEF LoadedDb
  <1>2. CASE (Truncate(p) \/ SizeMatches(p) \/ Copy(p)) /\ seg' # seg
    <2> DEFINE i == call[p].ino
    <2>1. call[p].created /\ i \in Ino
      BY <1>2, NoneAssumption
      DEF Truncate, SizeMatches, Copy, Inv, LocalOK, CallFits, Holding
    <2>2. seg[i].stage # "loaded"
      BY <2>1, LoaderFacts, NoneAssumption DEF Loading, SegInv
    <2>3. PICK s \in Segment : s.stage # "loaded" /\ seg' = [seg EXCEPT ![i] = s]
      <3>1. seg[i] \in Segment /\ call[p].db \in Db /\ pc[p] \in {"truncate", "checkSize", "copying"}
        BY <1>2, <2>1 DEF Truncate, SizeMatches, Copy, Inv, TypeOK, LocalOK, CallFits
      <3> QED BY <1>2, <2>2, <3>1, SegmentOps, ShmSizePositive DEF Truncate, SizeMatches, Copy
    <2> QED BY <2>2, <2>3 DEF LoadedDb, Inv, TypeOK
  <1> QED BY <1>1, <1>2

-----------------------------------------------------------------------------
(* The steps that show                                                     *)

LEMMA CreateRefines ==
  ASSUME Inv, Inv', SegInv, Next, NEW p \in Proc, Create(p) PROVE Segments!Next
  <1>1. PICK i \in Ino : /\ ~ InUse(i)
                         /\ dir' = [dir EXCEPT ![call[p].name] = i]
                         /\ seg' = [seg EXCEPT ![i] = BlankSeg]
    BY DEF Create
  <1>2. call[p].name \in Name /\ dir[call[p].name] = None
    BY DEF Create, Inv, LocalOK, CallFits
  <1>3. Reads' = Reads
    BY ReadsSame DEF Create
  <1>4. LoadedDb' = [LoadedDb EXCEPT ![i] = None]
    BY <1>1 DEF LoadedDb, BlankSeg, Inv, TypeOK
  <1>5. ASSUME NEW c \in Proc \X Loc PROVE Reads[c].of # i
    <2>1. PICK q \in Proc, l \in Loc : c = <<q, l>>
      OBVIOUS
    <2>2. Reads[c] = Reading(q, l)
      BY <2>1 DEF Reads
    <2>3. CASE loc[q][l].node = None
      BY <2>2, <2>3, NoneAssumption DEF Reading
    <2>4. CASE loc[q][l].node # None
      <3>1. loc[q][l].node \in T!Live(table[q])
        BY <2>4, HeldLive DEF Held
      <3> QED BY <1>1, <2>2, <2>4, <3>1, LiveInode DEF Reading, Inv
    <2> QED BY <2>3, <2>4
  <1>6. Segments!Free(i)
    BY <1>1, <1>5 DEF Segments!Free, Segments!Readers, InUse
  <1>7. Segments!Reserve(call[p].name, i)
    BY <1>1, <1>2, <1>3, <1>4, <1>6 DEF Segments!Reserve
  <1> QED BY <1>2, <1>7 DEF Segments!Next

LEMMA MarkRefines ==
  ASSUME Inv, Inv', SegInv, Next, NEW p \in Proc, Mark(p) PROVE Segments!Next
  <1> DEFINE i == call[p].ino
  <1>1. i \in Ino /\ call[p].db \in Db
    BY DEF Mark, Inv, LocalOK, CallFits, Holding
  <1>2. seg[i].stage = "copied" /\ seg[i].data = call[p].db
    BY DEF Mark, SegInv, Calls, CallSeg
  <1>3. LoadedDb[i] = None
    BY <1>1, <1>2 DEF LoadedDb
  <1>4. LoadedDb' = [LoadedDb EXCEPT ![i] = call[p].db]
    <2>1. seg' = [seg EXCEPT ![i] = AtStage(@, "loaded")] /\ seg[i] \in Segment
      BY <1>1 DEF Mark, Inv, TypeOK
    <2>2. AtStage(seg[i], "loaded").stage = "loaded" /\ AtStage(seg[i], "loaded").data = seg[i].data
      BY <2>1 DEF AtStage, Segment
    <2> HIDE DEF i
    <2> QED BY <1>1, <1>2, <2>1, <2>2 DEF LoadedDb, Inv, TypeOK
  <1>5. Reads' = Reads /\ dir' = dir
    BY ReadsSame DEF Mark
  <1>6. Segments!Load(i, call[p].db)
    BY <1>3, <1>4, <1>5 DEF Segments!Load
  <1> QED BY <1>1, <1>6 DEF Segments!Next

LEMMA OpenRefines ==
  ASSUME PageDistinct, Inv, Inv', SegInv, Next, NEW p \in Proc, InitSucceeds(p)
  PROVE  Segments!Next
  <1>1. PICK l \in Loc, d \in Db, n \in Node :
          /\ l = call[p].loc /\ d = call[p].db /\ n = call[p].node
          /\ loc[p][l].node = None
          /\ loc' = [loc EXCEPT ![p][l] = [node |-> n, db |-> d]]
          /\ UNCHANGED <<dir, seg, table>>
    BY DEF InitSucceeds, Inv, LocalOK, CallFits
  <1>2. n \in T!Live(table[p])
    BY <1>1, HeldLive DEF Held, InitSucceeds
  <1>3. PICK i \in Ino : i = table[p][n].res
    BY <1>2, LiveInode DEF Inv
  <1>4. /\ seg[i].stage = "loaded"
        /\ seg[i].size = table[p][n].size
        /\ table[p][n].size = ShmSize(d)
    <2>1. Fits(pc[p], call[p], table[p], loc[p]) /\ pc[p] = "init"
      BY DEF SegInv, Expected, InitSucceeds
    <2>2. table[p][n].size = ShmSize(d)
      BY <1>1, <2>1 DEF Fits
    <2> QED BY <1>2, <1>3, <2>2 DEF SegInv, Mapped
  <1>5. seg[i].data \in Db /\ seg[i].size = ShmSize(seg[i].data)
    BY <1>4 DEF SegInv, Contents
  <1>6. LoadedDb[i] \in Db /\ DbSize[LoadedDb[i]] = DbSize[d]
    <2>1. LoadedDb[i] = seg[i].data
      BY <1>4 DEF LoadedDb
    <2> QED BY <1>4, <1>5, <2>1 DEF PageDistinct
  <1>7. LoadedDb' = LoadedDb
    BY <1>1 DEF LoadedDb
  <1>8. /\ loc'[p][l].node = n /\ loc'[p][l].db = d
        /\ \A q \in Proc, k \in Loc : <<q, k>> # <<p, l>> => loc'[q][k] = loc[q][k]
    BY <1>1 DEF Inv, TypeOK
  <1>9. Reading(p, l)' = [of |-> i, file |-> d]
    BY <1>1, <1>3, <1>8, NoneAssumption DEF Reading
  <1>10. Reads' = [Reads EXCEPT ![<<p, l>>] = [of |-> i, file |-> d]]
    <2>1. \A q \in Proc, k \in Loc :
            Reading(q, k)' = IF <<q, k>> = <<p, l>> THEN [of |-> i, file |-> d] ELSE Reading(q, k)
      BY <1>8, <1>9, ReadingKept
    <2>2. \A c \in Proc \X Loc :
            Reading(c[1], c[2])' = IF c = <<p, l>> THEN [of |-> i, file |-> d]
                                   ELSE Reading(c[1], c[2])
      BY <2>1
    <2> QED BY <2>2 DEF Reads
  <1>11. Reads[<<p, l>>] = NoRead
    BY <1>1 DEF Reads, Reading, NoRead
  <1>12. Segments!Attach(<<p, l>>, i, d)
    BY <1>1, <1>6, <1>7, <1>10, <1>11, NoneAssumption
    DEF Segments!Attach, Segments!NoRead, NoRead
  <1> QED BY <1>12 DEF Segments!Next

-----------------------------------------------------------------------------
(* Every step                                                              *)

\* A step that shows nothing but the removal of a name.
LEMMA QuietRefines ==
  ASSUME Inv, Inv', Next, LoadedDb' = LoadedDb, loc' = loc,
         \/ dir' = dir
         \/ \E nm \in Name : dir' = [dir EXCEPT ![nm] = None]
  PROVE  Segments!Next \/ UNCHANGED Abstract
  <1>1. Reads' = Reads
    BY ReadsSame
  <1>2. CASE dir' = dir
    BY <1>1, <1>2 DEF Abstract
  <1>3. ASSUME NEW nm \in Name, dir' = [dir EXCEPT ![nm] = None] PROVE Segments!Next
    <2>1. Segments!Remove(nm)
      BY <1>1, <1>3 DEF Segments!Remove
    <2> QED BY <2>1 DEF Segments!Next
  <1> QED BY <1>2, <1>3

\* The locations in C, which may have been closed before, are closed now.
LEMMA LeaveRefines ==
  ASSUME Inv, Inv', Next, UNCHANGED <<dir, seg>>, NEW C \in SUBSET (Proc \X Loc),
         \A p \in Proc, l \in Loc : <<p, l>> \notin C => loc'[p][l] = loc[p][l],
         \A p \in Proc, l \in Loc : <<p, l>> \in C => loc'[p][l].node = None
  PROVE  Segments!Next \/ UNCHANGED Abstract
  <1> DEFINE D == {c \in C : Reads[c] # NoRead}
  <1>1. Reads' = [c \in Proc \X Loc |-> IF c \in C THEN NoRead ELSE Reads[c]]
    BY ReadsKept
  <1>2. Reads' = [c \in Proc \X Loc |-> IF c \in D THEN NoRead ELSE Reads[c]]
    BY <1>1
  <1>3. LoadedDb' = LoadedDb
    BY DEF LoadedDb
  <1>4. Segments!Leave(D)
    BY <1>2, <1>3 DEF Segments!Leave, Segments!NoRead, NoRead
  <1>5. D \in SUBSET {c \in Proc \X Loc : Reads[c] # Segments!NoRead}
    BY DEF Segments!NoRead, NoRead
  <1> QED BY <1>4, <1>5 DEF Segments!Next

LEMMA StepRefines ==
  ASSUME PageDistinct, Inv, Inv', SegInv, Next
  PROVE  Segments!Next \/ UNCHANGED Abstract
  <1>1. PICK p \in Proc :
          \/ \E l \in Loc, d \in Db, nm \in Name : StartOpen(p, l, d, nm)
          \/ \E l \in Loc : Close(p, l) \/ StartDelete(p, l) \/ DeleteStale(p, l)
          \/ OpenStep(p) \/ FinishDelete(p)
          \/ Crash(p)
    BY DEF Next, Step
  <1>2. CASE Create(p)
    BY <1>2, CreateRefines
  <1>3. CASE Mark(p)
    BY <1>3, MarkRefines
  <1>4. CASE InitSucceeds(p)
    BY <1>4, OpenRefines
  <1>5. CASE \E l \in Loc : Close(p, l)
    <2>1. PICK l \in Loc : Close(p, l)
      BY <1>5
    <2>2. loc' = [loc EXCEPT ![p][l] = EmptyLoc] /\ UNCHANGED <<dir, seg>>
      BY <2>1 DEF Close
    <2>3. /\ \A q \in Proc, k \in Loc : <<q, k>> \notin {<<p, l>>} => loc'[q][k] = loc[q][k]
          /\ loc'[p][l].node = None
      BY <2>2 DEF EmptyLoc, Inv, TypeOK
    <2>4. {<<p, l>>} \in SUBSET (Proc \X Loc)
      OBVIOUS
    <2> QED BY <2>2, <2>3, <2>4, LeaveRefines
  <1>6. CASE Crash(p)
    <2>1. /\ loc' = [loc EXCEPT ![p] = [l \in Loc |-> EmptyLoc]]
          /\ UNCHANGED <<dir, seg>>
      BY <1>6 DEF Crash
    <2>2. /\ \A q \in Proc, k \in Loc : <<q, k>> \notin {p} \X Loc => loc'[q][k] = loc[q][k]
          /\ \A q \in Proc, k \in Loc : <<q, k>> \in {p} \X Loc => loc'[q][k].node = None
      BY <2>1 DEF EmptyLoc, Inv, TypeOK
    <2>3. {p} \X Loc \in SUBSET (Proc \X Loc)
      OBVIOUS
    <2> QED BY <2>1, <2>2, <2>3, LeaveRefines
  <1>7. CASE Truncate(p) \/ SizeMatches(p) \/ Copy(p)
    <2>1. LoadedDb' = LoadedDb
      BY <1>7, LoadedSame
    <2>2. dir' = dir /\ loc' = loc
      BY <1>7 DEF Truncate, SizeMatches, Copy
    <2> QED BY <2>1, <2>2, QuietRefines
  <1>8. CASE Unlink(p) \/ FinishDelete(p)
    <2>1. dir' = [dir EXCEPT ![call[p].name] = None] /\ loc' = loc /\ seg' = seg
      BY <1>8 DEF Unlink, FinishDelete
    <2>2. LoadedDb' = LoadedDb
      BY <2>1 DEF LoadedDb
    <2>3. dir' = dir \/ \E nm \in Name : dir' = [dir EXCEPT ![nm] = None]
      <3>1. CASE call[p].name \in Name
        BY <2>1, <3>1
      <3>2. CASE call[p].name \notin Name
        BY <2>1, <3>2 DEF Inv, TypeOK
      <3> QED BY <3>1, <3>2
    <2> QED BY <2>1, <2>2, <2>3, QuietRefines
  <1>9. ASSUME dir' = dir, seg' = seg, loc' = loc
        PROVE  Segments!Next \/ UNCHANGED Abstract
    <2>1. LoadedDb' = LoadedDb
      BY <1>9 DEF LoadedDb
    <2> QED BY <1>9, <2>1, QuietRefines
  <1> QED
    BY <1>1, <1>2, <1>3, <1>4, <1>5, <1>6, <1>7, <1>8, <1>9
    DEF OpenStep, StartOpen, StartDelete, DeleteStale, RefuseMapped, Reuse, DetachStale,
        NotMapped, CreateFails, OpenExisting, OpenExistingFails, TruncateFails, SizeDiffers,
        CopyFails, Marked, NotMarked, InitFails

(***************************************************************************)
(* The shared memory protocol of ip2ldatabase.c keeps the promise of the   *)
(* mode, for any number of processes, locations, names and databases,      *)
(* whatever fails or dies, if databases of different sizes have different  *)
(* numbers of pages.                                                       *)
(***************************************************************************)
THEOREM PromiseKept == ASSUME PageDistinct PROVE Spec => KeepsPromise
  <1>1. Inv /\ Inv' /\ SegInv /\ [Next]_vars => [Segments!Next]_(Segments!svars)
    <2>1. CASE Next
      BY <2>1, StepRefines DEF Segments!svars, Abstract
    <2>2. CASE UNCHANGED vars
      BY <2>2 DEF vars, Segments!svars, LoadedDb, Reads, Reading
    <2> QED BY <2>1, <2>2
  <1> QED BY <1>1, RefinesInit, InvSpec, SegSpec, PTL DEF Spec, KeepsPromise, Segments!Spec

(***************************************************************************)
(* What the promise is worth: SharedSegments alone, without the protocol,  *)
(* says that a client reads a loaded database of the size of its file, and *)
(* that it does not change while the client reads it.                      *)
(***************************************************************************)
Served ==
  \A c \in Proc \X Loc : Reads[c].of # None =>
    /\ Reads[c].of \in Ino
    /\ LoadedDb[Reads[c].of] # None
    /\ DbSize[LoadedDb[Reads[c].of]] = DbSize[Reads[c].file]
Undisturbed ==
  \A c \in Proc \X Loc : Reads[c].of # None /\ Reads'[c] = Reads[c] =>
    LoadedDb'[Reads[c].of] = LoadedDb[Reads[c].of]

\* Every step of the abstract specification.
LEMMA PromiseStep ==
  ASSUME Served, [Segments!Next]_Abstract
  PROVE  Served' /\ Undisturbed
  <1> DEFINE C == Proc \X Loc
  <1>1. /\ Reads = [c \in C |-> Reads[c]] /\ LoadedDb = [i \in Ino |-> LoadedDb[i]]
        /\ None \notin Ino
    BY NoneAssumption DEF Reads, LoadedDb
  <1> HIDE DEF C
  <1>2. ASSUME Reads' = Reads,
               \A c \in C : Reads[c].of # None => LoadedDb'[Reads[c].of] = LoadedDb[Reads[c].of]
        PROVE  Served' /\ Undisturbed
    BY <1>2 DEF Served, Undisturbed, C
  <1>3. CASE UNCHANGED Abstract
    BY <1>2, <1>3 DEF Abstract
  <1>4. ASSUME NEW nm \in Name, Segments!Remove(nm) PROVE Served' /\ Undisturbed
    BY <1>2, <1>4 DEF Segments!Remove
  <1>5. ASSUME NEW nm \in Name, NEW s \in Ino, Segments!Reserve(nm, s)
        PROVE  Served' /\ Undisturbed
    <2>1. /\ Reads' = Reads /\ LoadedDb' = [LoadedDb EXCEPT ![s] = None]
          /\ \A c \in C : Reads[c].of # s
      BY <1>5 DEF Segments!Reserve, Segments!Free, Segments!Readers, C
    <2>2. \A c \in C : Reads[c].of # None => LoadedDb'[Reads[c].of] = LoadedDb[Reads[c].of]
      BY <1>1, <2>1 DEF Served, C
    <2> QED BY <1>2, <2>1, <2>2
  <1>6. ASSUME NEW s \in Ino, NEW d \in Db, Segments!Load(s, d) PROVE Served' /\ Undisturbed
    <2>1. /\ Reads' = Reads /\ LoadedDb' = [LoadedDb EXCEPT ![s] = d] /\ LoadedDb[s] = None
      BY <1>6 DEF Segments!Load
    <2>2. \A c \in C : Reads[c].of # None => LoadedDb'[Reads[c].of] = LoadedDb[Reads[c].of]
      BY <1>1, <2>1 DEF Served, C
    <2> QED BY <1>2, <2>1, <2>2
  <1>7. ASSUME NEW s \in Ino, NEW d \in Db, NEW k \in C, Segments!Attach(k, s, d)
        PROVE  Served' /\ Undisturbed
    <2>1. /\ LoadedDb' = LoadedDb /\ LoadedDb[s] # None /\ DbSize[LoadedDb[s]] = DbSize[d]
          /\ Reads' = [Reads EXCEPT ![k] = [of |-> s, file |-> d]]
      BY <1>7 DEF Segments!Attach
    <2>2. \A c \in C : Reads'[c] = IF c = k THEN [of |-> s, file |-> d] ELSE Reads[c]
      BY <1>1, <2>1
    <2> QED BY <2>1, <2>2 DEF Served, Undisturbed, C
  <1>8. ASSUME NEW D \in SUBSET C, Segments!Leave(D) PROVE Served' /\ Undisturbed
    <2>1. /\ LoadedDb' = LoadedDb
          /\ Reads' = [c \in C |-> IF c \in D THEN Segments!NoRead ELSE Reads[c]]
      BY <1>8 DEF Segments!Leave, C
    <2>2. Segments!NoRead.of = None
      BY DEF Segments!NoRead
    <2> QED BY <2>1, <2>2 DEF Served, Undisturbed, C
  <1> QED BY <1>3, <1>4, <1>5, <1>6, <1>7, <1>8 DEF Segments!Next, C

\* The specification of the promise gives complete and undisturbed reads.
THEOREM PromiseServes == KeepsPromise => []Served /\ [][Undisturbed]_Abstract
  <1>1. Segments!Init => Served
    BY DEF Segments!Init, Segments!NoRead, Served
  <1>2. Served /\ [Segments!Next]_(Segments!svars) => Served' /\ [Undisturbed]_Abstract
    <2>1. Served /\ Segments!Next => Served' /\ Undisturbed
      BY PromiseStep
    <2>2. Served /\ UNCHANGED Segments!svars => Served' /\ UNCHANGED Abstract
      BY DEF Segments!svars, Abstract, Served
    <2> QED BY <2>1, <2>2
  <1> QED BY <1>1, <1>2, PTL DEF KeepsPromise, Segments!Spec

-----------------------------------------------------------------------------
(* Names                                                                   *)

\* Calls on one name, to open or to delete, do not overlap.
InTurn ==
  \A p, q \in Proc :
    p # q /\ pc[p] # "idle" /\ pc[q] # "idle" => call[p].name # call[q].name

\* A call holds what its name refers to, and gives up only what is not loaded.
Turn(at, c) ==
  /\ at \in Holding => dir[c.name] = c.ino
  /\ at = "unlink" /\ dir[c.name] # None => seg[dir[c.name]].stage # "loaded"
Turns == \A p \in Proc : Turn(pc[p], call[p])

\* A call in progress has a name.
LEMMA NameOfCall ==
  ASSUME Inv, NEW p \in Proc
  PROVE  /\ CallFits(pc[p], call[p], loc[p]) /\ call[p] \in Call
         /\ pc[p] \in Holding \cup {"create", "openExisting", "unlink"} =>
              call[p].name \in Name /\ pc[p] # "idle"
         /\ pc[p] \in Holding => call[p].ino \in Ino
  <1>1. CallFits(pc[p], call[p], loc[p]) /\ call[p] \in Call
    BY DEF Inv, LocalOK, TypeOK
  <1> QED BY <1>1 DEF CallFits, Holding

\* What an opener does not find marked is not loaded.
LEMMA UnmarkedNotLoaded ==
  ASSUME PageDistinct, Inv, SegInv, NEW p \in Proc, NotMarked(p)
  PROVE  seg[call[p].ino].stage # "loaded"
  <1> DEFINE i == call[p].ino
             d == call[p].db
  <1>1. pc[p] = "checkMark" /\ FALSE \in MarkSeen(i, d)
    BY DEF NotMarked
  <1>2. i \in Ino /\ d \in Db /\ CallSeg(pc[p], call[p], seg[i])
    BY <1>1, NameOfCall DEF SegInv, Calls, CallFits, Holding
  <1>3. seg[i].size = ShmSize(d)
    BY <1>1, <1>2 DEF CallSeg
  <1> SUFFICES ASSUME seg[i].stage = "loaded" PROVE FALSE
    OBVIOUS
  <1>4. seg[i].data \in Db /\ seg[i].size = ShmSize(seg[i].data)
    BY <1>2 DEF SegInv, Contents
  <1>5. DbSize[d] = DbSize[seg[i].data]
    BY <1>2, <1>3, <1>4 DEF PageDistinct
  <1>6. MarkSeen(i, d) = {DbSize[d] \in FFAt[seg[i].data] \cup {DbSize[seg[i].data]}}
    BY DEF MarkSeen
  <1> QED BY <1>1, <1>5, <1>6

\* The process that takes a step.
LEMMA OwnTurn ==
  ASSUME PageDistinct, Inv, SegInv, Turns, NEW p \in Proc, ProcStep(p)
  PROVE  Turn(pc[p], call[p])'
  <1>1. /\ CallFits(pc[p], call[p], loc[p]) /\ call[p] \in Call /\ Turn(pc[p], call[p])
        /\ CallSeg(pc[p], call[p], seg[call[p].ino])
        /\ pc[p] \in Holding \cup {"create", "openExisting", "unlink"} => call[p].name \in Name
    BY NameOfCall DEF Turns, SegInv, Calls
  <1>2. /\ dir \in [Name -> Ino \cup {None}] /\ pc \in [Proc -> Label] /\ call \in [Proc -> Call]
        /\ seg \in [Ino -> Segment]
    BY DEF Inv, TypeOK
  <1>3. ASSUME pc'[p] \notin Holding \cup {"unlink"} PROVE Turn(pc[p], call[p])'
    BY <1>3 DEF Turn
  <1>4. CASE \/ \E l \in Loc, d \in Db, nm \in Name : StartOpen(p, l, d, nm)
             \/ \E l \in Loc : StartDelete(p, l)
             \/ RefuseMapped(p) \/ Reuse(p) \/ DetachStale(p) \/ NotMapped(p) \/ CreateFails(p)
             \/ OpenExistingFails(p) \/ Mark(p) \/ Marked(p) \/ InitSucceeds(p) \/ InitFails(p)
             \/ Unlink(p) \/ FinishDelete(p) \/ Crash(p)
    BY <1>2, <1>3, <1>4
    DEF StartOpen, StartDelete, RefuseMapped, Reuse, DetachStale, NotMapped, CreateFails,
        OpenExistingFails, Mark, Marked, Attach, InitSucceeds, InitFails, Unlink, FinishDelete,
        Crash, Return, Goto, Holding
  <1>5. CASE \E l \in Loc : Close(p, l) \/ DeleteStale(p, l)
    BY <1>2, <1>3, <1>5 DEF Close, DeleteStale, Holding
  <1>6. CASE Create(p)
    <2>1. PICK i \in Ino : /\ dir' = [dir EXCEPT ![call[p].name] = i]
                           /\ call' = [call EXCEPT ![p] = Creates(@, i)]
      BY <1>6 DEF Create
    <2>2. /\ pc'[p] = "truncate" /\ call'[p] = Creates(call[p], i) /\ call[p].name \in Name
      BY <1>1, <1>2, <1>6, <2>1 DEF Create, Goto
    <2>3. call'[p].name = call[p].name /\ call'[p].ino = i
      BY <1>1, <2>2, CallUpdates
    <2> QED BY <1>2, <2>1, <2>2, <2>3 DEF Turn
  <1>7. CASE OpenExisting(p)
    <2>1. /\ pc'[p] = "checkSize" /\ dir' = dir /\ call[p].name \in Name
          /\ call'[p] = Holds(call[p], dir[call[p].name])
      BY <1>1, <1>2, <1>7 DEF OpenExisting, Goto
    <2>2. dir[call[p].name] \in Ino \cup {None}
      BY <1>2, <2>1
    <2>3. call'[p].name = call[p].name /\ call'[p].ino = dir[call[p].name]
      BY <1>1, <2>1, <2>2, CallUpdates
    <2> QED BY <2>1, <2>3 DEF Turn
  <1>8. CASE Truncate(p) \/ SizeMatches(p) \/ Copy(p)
    <2>1. /\ pc[p] \in Holding /\ pc'[p] \in Holding /\ dir' = dir /\ call' = call
      BY <1>2, <1>8 DEF Truncate, SizeMatches, Copy, Goto, Holding
    <2> QED BY <1>1, <2>1 DEF Turn, Holding
  <1>9. ASSUME pc[p] \in Holding, seg[call[p].ino].stage # "loaded",
               pc' = [pc EXCEPT ![p] = "unlink"], call' = [call EXCEPT ![p] = Holds(@, None)],
               UNCHANGED <<dir, seg>>
        PROVE  Turn(pc[p], call[p])'
    <2>1. pc'[p] = "unlink" /\ call'[p] = Holds(call[p], None)
      BY <1>2, <1>9
    <2>2. call'[p].name = call[p].name
      BY <1>1, <2>1, CallUpdates
    <2>3. dir[call[p].name] = call[p].ino
      BY <1>1, <1>9 DEF Turn
    <2> QED BY <1>9, <2>1, <2>2, <2>3 DEF Turn, Holding
  <1>10. CASE TruncateFails(p) \/ SizeDiffers(p) \/ CopyFails(p)
    <2>1. /\ Fail(p) /\ UNCHANGED <<dir, seg>> /\ pc[p] \in {"truncate", "checkSize", "copying"}
      BY <1>10 DEF TruncateFails, SizeDiffers, CopyFails
    <2>2. CASE call[p].created
      <3>1. seg[call[p].ino].stage # "loaded"
        BY <1>1, <2>1, <2>2 DEF CallSeg
      <3> QED BY <1>9, <2>1, <2>2, <3>1 DEF Fail, Goto, Holding
    <2>3. CASE ~ call[p].created
      BY <1>2, <1>3, <2>1, <2>3 DEF Fail, Return, Goto, Holding
    <2> QED BY <2>2, <2>3
  <1>11. CASE NotMarked(p)
    <2>1. seg[call[p].ino].stage # "loaded"
      BY <1>11, UnmarkedNotLoaded
    <2> QED BY <1>9, <1>11, <2>1 DEF NotMarked, Goto, Holding
  <1> QED BY <1>4, <1>5, <1>6, <1>7, <1>8, <1>10, <1>11 DEF ProcStep, OpenStep

\* Who changes what a name refers to.
LEMMA NameChanges ==
  ASSUME Inv, NEW p \in Proc, ProcStep(p), NEW nm \in Name, dir'[nm] # dir[nm]
  PROVE  /\ pc[p] # "idle" /\ nm = call[p].name
         /\ Create(p) \/ Unlink(p) \/ FinishDelete(p)
  <1>1. dir \in [Name -> Ino \cup {None}]
    BY DEF Inv, TypeOK
  <1>2. ASSUME UNCHANGED dir PROVE FALSE
    BY <1>2
  <1>3. CASE Create(p) \/ Unlink(p) \/ FinishDelete(p)
    BY <1>1, <1>3 DEF Create, Unlink, FinishDelete
  <1>4. CASE \E l \in Loc, d \in Db, m \in Name : StartOpen(p, l, d, m)
    BY <1>2, <1>4 DEF StartOpen
  <1>5. CASE \E l \in Loc : Close(p, l) \/ StartDelete(p, l) \/ DeleteStale(p, l)
    BY <1>2, <1>5 DEF Close, StartDelete, DeleteStale
  <1>6. CASE Crash(p)
    BY <1>2, <1>6 DEF Crash
  <1>7. CASE OpenStep(p) /\ ~ Create(p) /\ ~ Unlink(p)
    BY <1>2, <1>7 DEF OpenStep, RefuseMapped, Reuse, DetachStale, NotMapped, CreateFails,
         OpenExisting, OpenExistingFails, Truncate, TruncateFails, SizeMatches, SizeDiffers,
         Copy, CopyFails, Mark, Marked, NotMarked, InitSucceeds, InitFails
  <1> QED BY <1>3, <1>4, <1>5, <1>6, <1>7 DEF ProcStep

\* Only the loader of a segment makes it a loaded one.
LEMMA LoadedBy ==
  ASSUME Inv, SegInv, NEW p \in Proc, ProcStep(p), NEW i \in Ino,
         seg[i].stage # "loaded", seg'[i].stage = "loaded"
  PROVE  pc[p] \in Holding /\ call[p].ino = i
  <1>1. /\ seg \in [Ino -> Segment] /\ CallSeg(pc[p], call[p], seg[call[p].ino])
        /\ CallFits(pc[p], call[p], loc[p])
    BY NameOfCall DEF Inv, TypeOK, SegInv, Calls
  <1>2. ASSUME UNCHANGED seg PROVE FALSE
    BY <1>2
  <1>3. CASE Create(p)
    <2>1. PICK j \in Ino : seg' = [seg EXCEPT ![j] = BlankSeg]
      BY <1>3 DEF Create
    <2> QED BY <1>1, <2>1, SegmentOps
  <1>4. CASE Truncate(p) \/ SizeMatches(p) \/ Copy(p) \/ Mark(p)
    <2>1. pc[p] \in Holding
      BY <1>4 DEF Truncate, SizeMatches, Copy, Mark, Holding
    <2>2. \A j \in Ino \ {call[p].ino} : seg'[j] = seg[j]
      BY <1>1, <1>4 DEF Truncate, SizeMatches, Copy, Mark
    <2> QED BY <2>1, <2>2
  <1> QED
    BY <1>2, <1>3, <1>4
    DEF ProcStep, OpenStep, StartOpen, Close, StartDelete, DeleteStale, RefuseMapped, Reuse,
        DetachStale, NotMapped, CreateFails, OpenExisting, OpenExistingFails, TruncateFails,
        SizeDiffers, CopyFails, Marked, NotMarked, Unlink, InitSucceeds, InitFails, FinishDelete,
        Crash

\* The other processes.
LEMMA OthersTurn ==
  ASSUME Inv, SegInv, InTurn, OneNamed, Turns, NEW p \in Proc, ProcStep(p), NEW q \in Proc \ {p}
  PROVE  Turn(pc[q], call[q])'
  <1>1. pc'[q] = pc[q] /\ call'[q] = call[q]
    BY ProcShape, BecomesElsewhere DEF Inv
  <1> DEFINE nm == call[q].name
  <1>2. CASE pc[q] \notin Holding \cup {"unlink"}
    BY <1>1, <1>2 DEF Turn
  <1>3. CASE pc[q] \in Holding \cup {"unlink"}
    <2>1. nm \in Name /\ pc[q] # "idle" /\ Turn(pc[q], call[q])
      BY <1>3, NameOfCall DEF Turns
    <2>2. dir'[nm] = dir[nm]
      BY <2>1, NameChanges DEF InTurn
    <2>3. ASSUME pc[q] = "unlink", dir[nm] # None PROVE seg'[dir[nm]].stage # "loaded"
      <3>1. dir[nm] \in Ino /\ seg[dir[nm]].stage # "loaded"
        BY <2>1, <2>3 DEF Turn, Inv, TypeOK
      <3> SUFFICES ASSUME seg'[dir[nm]].stage = "loaded" PROVE FALSE
        OBVIOUS
      <3>2. pc[p] \in Holding /\ call[p].ino = dir[nm]
        BY <3>1, LoadedBy
      <3>3. dir[call[p].name] = dir[nm] /\ call[p].name \in Name /\ pc[p] # "idle"
        BY <3>2, NameOfCall DEF Turns, Turn
      <3>4. call[p].name = nm
        BY <2>1, <2>3, <3>3 DEF OneNamed
      <3> QED BY <2>1, <3>3, <3>4 DEF InTurn
    <2> QED BY <1>1, <2>1, <2>2, <2>3 DEF Turn
  <1> QED BY <1>2, <1>3

\* Every step, or none, while calls are made in turn.
LEMMA TurnsStep ==
  ASSUME PageDistinct
  PROVE  Inv /\ Inv' /\ SegInv /\ InTurn /\ OneNamed /\ Turns /\ [Next]_vars
           => (OneNamed /\ Turns)'
  <1> SUFFICES ASSUME Inv, Inv', SegInv, InTurn, OneNamed, Turns, [Next]_vars
               PROVE  (OneNamed /\ Turns)'
    OBVIOUS
  <1>1. CASE Next
    <2>1. PICK p \in Proc : ProcStep(p)
      BY <1>1 DEF Next, Step, ProcStep
    <2>2. OneNamed'
      BY <2>1, NamedStep DEF Inv
    <2>3. Turn(pc[p], call[p])'
      BY <2>1, OwnTurn
    <2>4. \A q \in Proc \ {p} : Turn(pc[q], call[q])'
      BY <2>1, OthersTurn
    <2> QED BY <2>2, <2>3, <2>4 DEF Turns
  <1>2. CASE UNCHANGED vars
    BY <1>2 DEF vars, OneNamed, Turns, Turn
  <1> QED BY <1>1, <1>2

\* No step but that of deleteShared takes the name of a loaded segment.
LEMMA KeepsLoaded ==
  ASSUME Inv, SegInv, Turns, Next, NEW nm \in Name, dir[nm] # None,
         seg[dir[nm]].stage = "loaded", dir'[nm] # dir[nm]
  PROVE  \E p \in Proc : pc[p] = "delete"
  <1>1. PICK p \in Proc : ProcStep(p)
    BY DEF Next, Step, ProcStep
  <1>2. nm = call[p].name /\ (Create(p) \/ Unlink(p) \/ FinishDelete(p))
    BY <1>1, NameChanges
  <1>3. ~ Create(p)
    BY <1>2 DEF Create
  <1>4. ~ Unlink(p)
    BY <1>2 DEF Unlink, Turns, Turn
  <1> QED BY <1>2, <1>3, <1>4 DEF FinishDelete

(***************************************************************************)
(* When the calls on one name do not overlap, a loaded segment loses its   *)
(* name only to deleteShared, whatever system calls fail and whoever dies  *)
(* half way: what breaks LoadedNameKept is an opener that looks at the     *)
(* mark before, and calls shm_unlink after the loader has set it           *)
(* (ip2ldatabase.c:214-217).                                               *)
(***************************************************************************)
THEOREM NameKeptInTurn ==
  ASSUME PageDistinct PROVE Spec /\ []InTurn => LoadedNameKept
  <1>1. Init => OneNamed /\ Turns
    BY MappingsInit DEF Init, Turns, Turn, Holding
  <1>2. Inv /\ Inv' /\ SegInv /\ InTurn /\ OneNamed /\ Turns /\ [Next]_vars
          => (OneNamed /\ Turns)'
    BY TurnsStep
  <1>3. Inv /\ SegInv /\ Turns /\ [Next]_vars =>
          [\A nm \in Name :
             /\ dir[nm] # None
             /\ seg[dir[nm]].stage = "loaded"
             /\ dir'[nm] # dir[nm]
             => \E p \in Proc : pc[p] = "delete"]_vars
    BY KeepsLoaded
  <1> QED BY <1>1, <1>2, <1>3, InvSpec, SegSpec, PTL DEF Spec, LoadedNameKept

=============================================================================
