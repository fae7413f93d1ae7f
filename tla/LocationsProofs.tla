--------------------------- MODULE LocationsProofs ---------------------------
(***************************************************************************)
(* Proofs about Locations, for every number of objects, nodes, paths and   *)
(* files: counts are exact, every handle has an owner, and what is read    *)
(* through a handle stays the same.                                        *)
(***************************************************************************)
EXTENDS Locations, FiniteSetTheorems, TLAPS

-----------------------------------------------------------------------------
(* The nodes of one mode                                                   *)

Tables == [Node -> T!NodeRecord(Path, Db)]
Handle == {Closed} \cup [mode : Mode, path : Path, node : Node \cup {None}, db : Db]

\* The locations that use node n of mode m, by their handles h.
UsersOf(h, m, n) == {l \in Loc : h[l].mode = m /\ h[l].node = n}

HandlesOK(h) ==
  /\ h \in [Loc -> Handle]
  /\ \A l \in Loc : h[l].node # None => h[l].mode \in Mapped

(***************************************************************************)
(* The nodes t of mode m fit the handles h: nodes are counted, found by    *)
(* their paths as long as they are used, and one for a path.               *)
(***************************************************************************)
Counted(t, h, m) == \A n \in Node : t[n].count = Cardinality(UsersOf(h, m, n))
Named(t, h, m) ==
  \A l \in Loc : h[l].mode = m => h[l].node \in Node /\ t[h[l].node].key = h[l].path
Unique(t) ==
  /\ \A n \in T!Live(t) : t[n].listed
  /\ \A n, k \in T!Live(t) : t[n].key = t[k].key => n = k
Fits(t, h, m) == t \in Tables /\ Counted(t, h, m) /\ Named(t, h, m) /\ Unique(t)

\* What the locations other than l read through t they read through u.
Keeps(t, u, h, m, l) ==
  \A k \in Loc \ {l} : h[k].mode = m => u[h[k].node].res = t[h[k].node].res

\* A location more is a user more.
LEMMA UsersAdd ==
  ASSUME NEW S \in SUBSET Loc, NEW l \in Loc, l \notin S
  PROVE  Cardinality(S \cup {l}) = Cardinality(S) + 1
  BY LocalAssumption, FS_Subset, FS_AddElement

\* A location less is a user less.
LEMMA UsersRemove ==
  ASSUME NEW S \in SUBSET Loc, NEW l \in S
  PROVE  /\ Cardinality(S \ {l}) = Cardinality(S) - 1
         /\ Cardinality(S) \in Nat /\ Cardinality(S) >= 1
         /\ Cardinality(S \ {l}) \in Nat
  <1>1. IsFiniteSet(S) /\ IsFiniteSet(S \ {l})
    BY LocalAssumption, FS_Subset
  <1>2. Cardinality(S) \in Nat /\ Cardinality(S \ {l}) \in Nat
    BY <1>1, FS_CardinalityType
  <1>3. Cardinality(S \ {l}) = Cardinality(S) - 1
    BY <1>1, FS_RemoveElement
  <1> QED BY <1>2, <1>3

\* Opened handles and closed ones.
LEMMA HandleFields ==
  ASSUME NEW m \in Mode, NEW p \in Path, NEW n \in Node \cup {None}, NEW d \in Db
  PROVE  /\ Opened(m, p, n, d) \in Handle
         /\ Opened(m, p, n, d).mode = m /\ Opened(m, p, n, d).path = p
         /\ Opened(m, p, n, d).node = n /\ Opened(m, p, n, d).db = d
         /\ Closed \in Handle
         /\ Closed.mode = None /\ Closed.path = None /\ Closed.node = None /\ Closed.db = None
         /\ None \notin Mode
  BY LocalAssumption DEF Opened, Closed, Handle

\* A handle is closed if any part of it is missing.
LEMMA ClosedHandles ==
  ASSUME NEW x \in Handle
  PROVE  /\ x.mode = None <=> x = Closed
         /\ x.db = None <=> x = Closed
         /\ x.path = None <=> x = Closed
         /\ x # Closed => x.mode \in Mode /\ x.path \in Path /\ x.db \in Db
         /\ x.node \in Node \cup {None}
         /\ None \notin Mode \cup Db \cup Path \cup Node
  BY LocalAssumption DEF Handle, Closed

\* What the operations on the nodes leave in each node.
LEMMA NodeOps ==
  ASSUME NEW t \in Tables, NEW n \in Node
  PROVE  /\ t[n].count > 0 =>
              /\ T!Retain(t, n) \in Tables
              /\ T!Retain(t, n)[n].count = t[n].count + 1
              /\ T!Retain(t, n)[n].key = t[n].key
              /\ T!Retain(t, n)[n].res = t[n].res
              /\ T!Retain(t, n)[n].listed = t[n].listed
         /\ T!Release(t, n) \in Tables
         /\ T!Release(t, n)[n].count = IF t[n].count > 1 THEN t[n].count - 1 ELSE 0
         /\ t[n].count > 1 =>
              /\ T!Release(t, n)[n].key = t[n].key
              /\ T!Release(t, n)[n].res = t[n].res
              /\ T!Release(t, n)[n].listed = t[n].listed
         /\ t[n].count \in Nat
         /\ t[n].count > 0 => t[n].key \in Path /\ t[n].res \in Db
  <1> USE DEF Tables, T!NodeRecord, T!FreeNode
  <1>1. /\ t[n].count \in Nat
        /\ t[n].count > 0 => t[n] \in [key : Path, res : Db, size : Nat, count : Nat \ {0},
                                      listed : BOOLEAN, copied : BOOLEAN]
    OBVIOUS
  <1>2. t[n].count > 0 =>
              /\ T!Retain(t, n) \in Tables
              /\ T!Retain(t, n)[n].count = t[n].count + 1
              /\ T!Retain(t, n)[n].key = t[n].key
              /\ T!Retain(t, n)[n].res = t[n].res
              /\ T!Retain(t, n)[n].listed = t[n].listed
    BY <1>1 DEF T!Retain
  <1>3. T!Release(t, n) \in Tables
    <2>1. CASE t[n].count > 1
      BY <1>1, <2>1 DEF T!Release
    <2>2. CASE ~ (t[n].count > 1)
      BY <2>2 DEF T!Release
    <2> QED BY <2>1, <2>2
  <1>4. /\ T!Release(t, n)[n].count = IF t[n].count > 1 THEN t[n].count - 1 ELSE 0
        /\ t[n].count > 1 =>
              /\ T!Release(t, n)[n].key = t[n].key
              /\ T!Release(t, n)[n].res = t[n].res
              /\ T!Release(t, n)[n].listed = t[n].listed
    <2>1. CASE t[n].count > 1
      <3>1. T!Release(t, n)[n] = [t[n] EXCEPT !.count = t[n].count - 1]
        BY <2>1 DEF T!Release
      <3>2. ASSUME NEW x \in [key : Path, res : Db, size : Nat, count : Nat \ {0},
                              listed : BOOLEAN, copied : BOOLEAN], NEW c
            PROVE  LET y == [x EXCEPT !.count = c] IN
                     y.count = c /\ y.key = x.key /\ y.res = x.res /\ y.listed = x.listed
        OBVIOUS
      <3> QED BY <1>1, <2>1, <3>1, <3>2
    <2>2. CASE ~ (t[n].count > 1)
      BY <2>2 DEF T!Release
    <2> QED BY <2>1, <2>2
  <1> QED BY <1>1, <1>2, <1>3, <1>4

\* Other nodes stay what they are.
LEMMA OtherNodes ==
  ASSUME NEW t \in Tables, NEW n \in Node, NEW k \in Node, k # n
  PROVE  /\ T!Retain(t, n)[k] = t[k]
         /\ T!Release(t, n)[k] = t[k]
         /\ \A q, r, s, c : T!Allocate(t, n, q, r, s, c)[k] = t[k]
  BY DEF Tables, T!Retain, T!Release, T!Allocate

\* A node somebody uses is live, and lives as long as its users.
LEMMA UsedLives ==
  ASSUME NEW h, NEW m \in Mapped, NEW t, Fits(t, h, m),
         NEW l \in Loc, h[l].mode = m
  PROVE  /\ h[l].node \in Node /\ h[l].node \in T!Live(t)
         /\ l \in UsersOf(h, m, h[l].node)
         /\ \A k \in Loc \ {l} : h[k].mode = m /\ h[k].node = h[l].node =>
              t[h[l].node].count > 1
  <1> DEFINE n == h[l].node
             S == UsersOf(h, m, n)
  <1>1. n \in Node /\ l \in S /\ S \in SUBSET Loc
    BY DEF Fits, Named, UsersOf
  <1>2. t[n].count = Cardinality(S) /\ t[n].count >= 1 /\ t[n].count \in Nat
    BY <1>1, UsersRemove DEF Fits, Counted
  <1>3. n \in T!Live(t)
    BY <1>1, <1>2 DEF T!Live
  <1>4. ASSUME NEW k \in Loc \ {l}, h[k].mode = m, h[k].node = n
        PROVE  t[n].count > 1
    <2>1. k \in S \ {l} /\ S \ {l} \in SUBSET Loc
      BY <1>1, <1>4 DEF UsersOf
    <2>2. Cardinality(S \ {l}) >= 1
      BY <2>1, UsersRemove
    <2>3. Cardinality(S \ {l}) = Cardinality(S) - 1 /\ Cardinality(S) \in Nat
      BY <1>1, UsersRemove
    <2> QED BY <1>2, <2>2, <2>3
  <1>5. \A k \in Loc \ {l} : h[k].mode = m /\ h[k].node = n => t[n].count > 1
    BY <1>4
  <1> QED BY <1>1, <1>3, <1>5

\* The users of the nodes when one more handle is open: g, where h was.
LEMMA UsersOpened ==
  ASSUME NEW h, NEW g, NEW m \in Mapped, NEW l \in Loc, h[l] = Closed, g[l].mode = m,
         \A k \in Loc \ {l} : g[k] = h[k], NEW n \in Node
  PROVE  /\ l \notin UsersOf(h, m, n)
         /\ UsersOf(h, m, n) \in SUBSET Loc
         /\ UsersOf(g, m, n) =
              IF g[l].node = n THEN UsersOf(h, m, n) \cup {l} ELSE UsersOf(h, m, n)
  <1>1. Closed.mode = None /\ None # m
    BY LocalAssumption DEF Closed, Mode
  <1> QED BY <1>1 DEF UsersOf

\* And when one is closed.
LEMMA UsersClosed ==
  ASSUME NEW h, NEW g, NEW m \in Mapped, NEW l \in Loc, h[l].mode = m, g[l] = Closed,
         \A k \in Loc \ {l} : g[k] = h[k], NEW n \in Node
  PROVE  /\ UsersOf(h, m, n) \in SUBSET Loc
         /\ h[l].node = n => l \in UsersOf(h, m, n)
         /\ UsersOf(g, m, n) =
              IF h[l].node = n THEN UsersOf(h, m, n) \ {l} ELSE UsersOf(h, m, n)
  <1>1. Closed.mode = None /\ None # m
    BY LocalAssumption DEF Closed, Mode
  <1> QED BY <1>1 DEF UsersOf

\* Another mode has the same users.
LEMMA UsersElsewhere ==
  ASSUME NEW h, NEW g, NEW m \in Mapped, NEW l \in Loc, h[l].mode # m, g[l].mode # m,
         \A k \in Loc \ {l} : g[k] = h[k], NEW t, Fits(t, h, m)
  PROVE  Fits(t, g, m)
  <1>1. \A n \in Node : UsersOf(g, m, n) = UsersOf(h, m, n)
    BY DEF UsersOf
  <1>2. Counted(t, g, m)
    BY <1>1 DEF Counted, Fits
  <1>3. Named(t, g, m)
    BY DEF Named, Fits
  <1> QED BY <1>2, <1>3 DEF Fits

\* Retaining a node for one more handle of its path.
LEMMA Retaining ==
  ASSUME NEW h, NEW g, NEW m \in Mapped, NEW l \in Loc, h[l] = Closed, g[l].mode = m,
         \A k \in Loc \ {l} : g[k] = h[k],
         NEW t, Fits(t, h, m), NEW n \in T!Live(t), g[l].node = n, g[l].path = t[n].key
  PROVE  /\ Fits(T!Retain(t, n), g, m)
         /\ Keeps(t, T!Retain(t, n), h, m, l)
  <1> DEFINE u == T!Retain(t, n)
  <1>1. n \in Node /\ t \in Tables /\ t[n].count > 0
    BY DEF T!Live, Fits
  <1>2. /\ u \in Tables
        /\ u[n].count = t[n].count + 1 /\ u[n].key = t[n].key /\ u[n].res = t[n].res
        /\ u[n].listed = t[n].listed
        /\ \A k \in Node \ {n} : u[k] = t[k]
        /\ t[n].count \in Nat
    BY <1>1, NodeOps, OtherNodes
  <1> HIDE DEF u
  <1>3. Counted(u, g, m)
    <2> SUFFICES ASSUME NEW k \in Node PROVE u[k].count = Cardinality(UsersOf(g, m, k))
      BY DEF Counted
    <2>1. t[k].count = Cardinality(UsersOf(h, m, k))
      BY DEF Fits, Counted
    <2>2. /\ l \notin UsersOf(h, m, k) /\ UsersOf(h, m, k) \in SUBSET Loc
          /\ UsersOf(g, m, k) = IF n = k THEN UsersOf(h, m, k) \cup {l} ELSE UsersOf(h, m, k)
      BY UsersOpened
    <2>3. CASE k = n
      BY <1>2, <2>1, <2>2, <2>3, UsersAdd
    <2>4. CASE k # n
      BY <1>2, <2>1, <2>2, <2>4
    <2> QED BY <2>3, <2>4
  <1>4. Named(u, g, m)
    BY <1>1, <1>2 DEF Named, Fits
  <1>5. Unique(u)
    <2>1. T!Live(u) = T!Live(t)
      BY <1>1, <1>2 DEF T!Live
    <2>2. \A k \in Node : u[k].key = t[k].key /\ u[k].listed = t[k].listed
      BY <1>2
    <2> QED BY <2>1, <2>2 DEF Unique, Fits, T!Live
  <1>6. Keeps(t, u, h, m, l)
    BY <1>2 DEF Keeps, Fits, Named
  <1> QED BY <1>2, <1>3, <1>4, <1>5, <1>6 DEF Fits, u

\* The handles g are the handles h but for location l.
OnlyAt(g, h, l) == \A k \in Loc \ {l} : g[k] = h[k]

\* Nobody has a path open in a mode.
Unused(h, m, p) == \A k \in Loc : ~ (h[k].mode = m /\ h[k].path = p)

\* Making a node for the first handle of a path.
LEMMA Making ==
  ASSUME NEW h, NEW g, NEW m \in Mapped, NEW l \in Loc, NEW t, NEW u,
         h[l] = Closed, g[l].mode = m, OnlyAt(g, h, l), Fits(t, h, m),
         NEW n \in T!Free(t), g[l].node = n,
         NEW p \in Path, g[l].path = p, T!Found(t, p) = {},
         u \in Tables, u[n].count = 1, n \in T!Found(u, p), u = [t EXCEPT ![n] = u[n]]
  PROVE  Fits(u, g, m) /\ Keeps(t, u, h, m, l)
  <1>a. \A k \in Loc \ {l} : g[k] = h[k]
    BY DEF OnlyAt
  <1>b. \A k \in T!Live(t) : t[k].key # p
    BY DEF Fits, Unique, T!Live, T!Found
  <1>1. n \in Node /\ t \in Tables /\ t[n].count = 0
    BY DEF T!Free, Fits
  <1>2. /\ u \in Tables
        /\ u[n].count = 1 /\ u[n].key = p /\ u[n].listed
        /\ \A k \in Node \ {n} : u[k] = t[k]
    BY <1>1 DEF T!Found, Tables
  <1>3. \A k \in Loc : h[k].mode = m => h[k].node \in Node \ {n}
    BY <1>1, UsedLives DEF T!Live
  <1>4. Counted(u, g, m)
    <2> SUFFICES ASSUME NEW k \in Node PROVE u[k].count = Cardinality(UsersOf(g, m, k))
      BY DEF Counted
    <2>1. t[k].count = Cardinality(UsersOf(h, m, k))
      BY DEF Fits, Counted
    <2>2. /\ l \notin UsersOf(h, m, k) /\ UsersOf(h, m, k) \in SUBSET Loc
          /\ UsersOf(g, m, k) = IF n = k THEN UsersOf(h, m, k) \cup {l} ELSE UsersOf(h, m, k)
      BY <1>a, UsersOpened
    <2>3. CASE k = n
      BY <1>1, <1>2, <2>1, <2>2, <2>3, UsersAdd
    <2>4. CASE k # n
      BY <1>2, <2>1, <2>2, <2>4
    <2> QED BY <2>3, <2>4
  <1>5. Named(u, g, m)
    BY <1>a, <1>1, <1>2, <1>3 DEF Named, Fits
  <1>6. Unique(u)
    <2>1. T!Live(u) = T!Live(t) \cup {n} /\ n \notin T!Live(t)
      BY <1>1, <1>2 DEF T!Live
    <2>2. \A k \in T!Live(t) : u[k] = t[k] /\ t[k].listed /\ t[k].key # p
      BY <1>b, <1>1, <1>2 DEF Fits, Unique, T!Live
    <2> QED BY <1>2, <2>1, <2>2 DEF Unique, Fits
  <1>7. Keeps(t, u, h, m, l)
    BY <1>2, <1>3 DEF Keeps
  <1> QED BY <1>2, <1>4, <1>5, <1>6, <1>7 DEF Fits

\* Releasing the node of a handle that is closed.
LEMMA Releasing ==
  ASSUME NEW h, NEW g, NEW m \in Mapped, NEW l \in Loc, h[l].mode = m, g[l] = Closed,
         \A k \in Loc \ {l} : g[k] = h[k], NEW t, Fits(t, h, m)
  PROVE  /\ Fits(T!Release(t, h[l].node), g, m)
         /\ Keeps(t, T!Release(t, h[l].node), h, m, l)
  <1> DEFINE n == h[l].node
             u == T!Release(t, n)
  <1>1. /\ n \in Node /\ n \in T!Live(t) /\ t \in Tables /\ t[n].count > 0
        /\ \A k \in Loc \ {l} : h[k].mode = m /\ h[k].node = n => t[n].count > 1
        /\ Closed.mode # m
    BY UsedLives, LocalAssumption DEF Fits, T!Live, Closed, Mode
  <1>2. /\ u \in Tables
        /\ u[n].count = IF t[n].count > 1 THEN t[n].count - 1 ELSE 0
        /\ t[n].count > 1 => /\ u[n].key = t[n].key /\ u[n].res = t[n].res
                             /\ u[n].listed = t[n].listed
        /\ \A k \in Node \ {n} : u[k] = t[k]
        /\ t[n].count \in Nat
    BY <1>1, NodeOps, OtherNodes
  <1> HIDE DEF u, n
  <1>3. \A k \in Loc \ {l} : h[k].mode = m => /\ h[k].node \in Node
                                              /\ u[h[k].node].key = t[h[k].node].key
                                              /\ u[h[k].node].res = t[h[k].node].res
    BY <1>1, <1>2, UsedLives
  <1>4. Counted(u, g, m)
    <2> SUFFICES ASSUME NEW k \in Node PROVE u[k].count = Cardinality(UsersOf(g, m, k))
      BY DEF Counted
    <2>1. t[k].count = Cardinality(UsersOf(h, m, k))
      BY DEF Fits, Counted
    <2>2. /\ UsersOf(h, m, k) \in SUBSET Loc
          /\ n = k => l \in UsersOf(h, m, k)
          /\ UsersOf(g, m, k) = IF n = k THEN UsersOf(h, m, k) \ {l} ELSE UsersOf(h, m, k)
      BY UsersClosed DEF n
    <2>3. CASE k = n
      BY <1>1, <1>2, <2>1, <2>2, <2>3, UsersRemove
    <2>4. CASE k # n
      BY <1>2, <2>1, <2>2, <2>4
    <2> QED BY <2>3, <2>4
  <1>5. Named(u, g, m)
    BY <1>1, <1>3 DEF Named, Fits
  <1>6. Unique(u)
    <2>1. \A k \in T!Live(u) : /\ k \in T!Live(t) /\ u[k].key = t[k].key
                              /\ u[k].listed = t[k].listed
      BY <1>1, <1>2 DEF T!Live
    <2> QED BY <2>1 DEF Unique, Fits
  <1>7. Keeps(t, u, h, m, l)
    BY <1>3 DEF Keeps
  <1> QED BY <1>2, <1>4, <1>5, <1>6, <1>7 DEF Fits, u, n

-----------------------------------------------------------------------------
(* IP2LocationOpen and IP2LocationClose                                    *)

\* A node that is found has a user of its path.
LEMMA FoundIsUsed ==
  ASSUME NEW h, NEW m \in Mapped, NEW t, Fits(t, h, m), NEW p, NEW n \in T!Found(t, p)
  PROVE  /\ n \in T!Live(t) /\ t[n].key = p
         /\ \E k \in Loc : h[k].mode = m /\ h[k].path = p
  <1>1. n \in Node /\ t[n].listed /\ t[n].key = p /\ t \in Tables
    BY DEF T!Found, Fits
  <1>2. t[n].count > 0
    BY <1>1 DEF Tables, T!NodeRecord, T!FreeNode
  <1>3. UsersOf(h, m, n) # {}
    BY <1>1, <1>2, FS_EmptySet DEF Fits, Counted
  <1>4. PICK k \in Loc : h[k].mode = m /\ h[k].node = n
    BY <1>3 DEF UsersOf
  <1> QED BY <1>1, <1>2, <1>4 DEF T!Live, Fits, Named

\* The node a mapped location gets.
LEMMA Setting ==
  ASSUME NEW h, NEW g, NEW m \in Mapped, NEW l \in Loc, h[l] = Closed,
         OnlyAt(g, h, l), NEW t, Fits(t, h, m),
         NEW p \in Path, file[p] \in Db, DbSize[file[p]] \in Nat,
         NEW s \in Setup(t, p, m), g[l] = Opened(m, p, s.node, file[p])
  PROVE  /\ s.node \in Node
         /\ Fits(s.table, g, m)
         /\ Keeps(t, s.table, h, m, l)
         /\ Unused(h, m, p) => s.table[s.node].res = file[p]
  <1>1. g[l].mode = m /\ g[l].path = p /\ g[l].node = s.node
    BY DEF Opened
  <1>2. CASE T!Found(t, p) # {}
    <2>1. PICK n \in T!Found(t, p) : s = [node |-> n, table |-> T!Retain(t, n)]
      BY <1>2 DEF Setup
    <2>2. /\ n \in T!Live(t) /\ t[n].key = p
          /\ \E k \in Loc : h[k].mode = m /\ h[k].path = p
      BY FoundIsUsed
    <2>3. s.node = n /\ s.table = T!Retain(t, n) /\ n \in Node
      BY <2>1, <2>2 DEF T!Live
    <2>4. Fits(T!Retain(t, n), g, m) /\ Keeps(t, T!Retain(t, n), h, m, l)
      BY <1>1, <2>2, <2>3, Retaining DEF OnlyAt
    <2> QED BY <2>2, <2>3, <2>4 DEF Unused
  <1>3. CASE T!Found(t, p) = {}
    <2> DEFINE c == m = "cache"
    <2>1. PICK n \in T!Free(t) :
            s = [node |-> n, table |-> T!Allocate(t, n, p, file[p], DbSize[file[p]], c)]
      BY <1>3 DEF Setup
    <2>2. /\ s.node = n /\ n \in Node /\ c \in BOOLEAN
          /\ s.table = T!Allocate(t, n, p, file[p], DbSize[file[p]], c)
      BY <2>1 DEF T!Free
    <2> HIDE DEF c
    <2>3. /\ s.table \in Tables /\ s.table[n].count = 1 /\ s.table[n].key = p
          /\ s.table[n].res = file[p] /\ s.table[n].listed
      BY <2>2 DEF Fits, Tables, T!Allocate, T!NodeRecord
    <2>4. s.table = [t EXCEPT ![n] = s.table[n]]
      BY <2>2 DEF Fits, Tables, T!Allocate
    <2>5. g[l].mode = m /\ g[l].path = p /\ g[l].node = n
      BY <1>1, <2>2
    <2>6. n \in T!Free(t) /\ n \in T!Found(s.table, p)
      BY <2>1, <2>2, <2>3 DEF T!Found
    <2>7. Fits(s.table, g, m) /\ Keeps(t, s.table, h, m, l)
      BY <1>3, <2>3, <2>4, <2>5, <2>6, Making
    <2> QED BY <2>2, <2>3, <2>7
  <1> QED BY <1>2, <1>3

\* So also when the header is then refused and the node released.
LEMMA MappingFits ==
  ASSUME NEW h, NEW g, NEW m \in Mapped, NEW l \in Loc, NEW t, NEW p \in Path,
         NEW o \in Mapping(t, p, m), h \in [Loc -> Handle], h[l] = Closed,
         g[l] = o.handle, \A k \in Loc \ {l} : g[k] = h[k], Fits(t, h, m), file[p] \in Db, DbSize[file[p]] \in Nat
  PROVE  /\ o.handle \in Handle
         /\ Fits(o.nodes, g, m)
         /\ Keeps(t, o.nodes, h, m, l)
         /\ o.handle # Closed =>
              /\ o.handle.mode = m /\ o.handle.path = p /\ o.handle.db = file[p]
              /\ Unused(h, m, p) => o.nodes[o.handle.node].res = file[p]
  <1> DEFINE new(s) == Opened(m, p, s.node, file[p])
  <1>1. PICK s \in Setup(t, p, m) :
          o = IF Accepts(s.table[s.node].res, file[p])
              THEN [nodes |-> s.table, handle |-> new(s)]
              ELSE [nodes |-> T!Release(s.table, s.node), handle |-> Closed]
    BY DEF Mapping
  <1> DEFINE f == [h EXCEPT ![l] = new(s)]
  <1>2. f[l] = new(s) /\ (\A k \in Loc \ {l} : f[k] = h[k]) 
    OBVIOUS
  <1> HIDE DEF f
  <1>3. /\ s.node \in Node
        /\ Fits(s.table, f, m)
        /\ Keeps(t, s.table, h, m, l)
        /\ Unused(h, m, p) => s.table[s.node].res = file[p]
    <2>1. f[l] = Opened(m, p, s.node, file[p]) /\ OnlyAt(f, h, l)
      BY <1>2 DEF OnlyAt
    <2> HIDE DEF new
    <2> QED BY <2>1, Setting
  <1>4. /\ new(s) \in Handle /\ new(s).node = s.node /\ new(s).mode = m
        /\ new(s).path = p /\ new(s).db = file[p] /\ Closed \in Handle
    BY <1>3, HandleFields DEF Mode
  <1>5. CASE Accepts(s.table[s.node].res, file[p])
    <2>1. o.nodes = s.table /\ o.handle = new(s)
      BY <1>1, <1>5
    <2>2. \A k \in Loc : g[k] = f[k]
      BY <1>2, <2>1
    <2>3. Fits(s.table, g, m)
      BY <1>3, <2>2 DEF Fits, Counted, Named, UsersOf
    <2> QED BY <1>3, <1>4, <2>1, <2>3
  <1>6. CASE ~ Accepts(s.table[s.node].res, file[p])
    <2>1. o.nodes = T!Release(s.table, f[l].node) /\ o.handle = Closed
      BY <1>1, <1>2, <1>4, <1>6
    <2>2. Fits(o.nodes, h, m) /\ Keeps(s.table, o.nodes, f, m, l)
      <3>1. f[l].mode = m /\ \A k \in Loc \ {l} : h[k] = f[k]
        BY <1>2, <1>4
      <3>2. LET v == T!Release(s.table, f[l].node) IN Fits(v, h, m) /\ Keeps(s.table, v, f, m, l)
        BY <1>3, <3>1, Releasing
      <3> QED BY <2>1, <3>2
    <2>3. Keeps(t, o.nodes, h, m, l)
      BY <1>2, <1>3, <2>2 DEF Keeps
    <2>4. \A k \in Loc : g[k] = h[k]
      BY <2>1
    <2>5. Fits(o.nodes, g, m)
      BY <2>2, <2>4 DEF Fits, Counted, Named, UsersOf
    <2> QED BY <1>4, <2>1, <2>3, <2>5
  <1> QED BY <1>5, <1>6

\* All modes: handles and nodes fit.
Good(t, h) ==
  /\ HandlesOK(h)
  /\ t \in [Mapped -> Tables]
  /\ \A m \in Mapped : Fits(t[m], h, m)

\* What a handle reads, and that it is the same in u for all but location l.
ContentsOf(t, x) == IF x.node = None THEN x.db ELSE t[x.mode][x.node].res
Stays(t, u, h, l) == \A k \in Loc \ {l} : ContentsOf(u, h[k]) = ContentsOf(t, h[k])

\* A step that touches one mode and the handle of one location.
LEMMA OneMode ==
  ASSUME NEW t, NEW u, NEW h, NEW g, NEW l \in Loc, NEW m \in Mode,
         Good(t, h), g \in [Loc -> Handle], g[l].node # None => g[l].mode \in Mapped,
         \A k \in Loc \ {l} : g[k] = h[k],
         h[l].mode \in {m, None}, g[l].mode \in {m, None},
         u \in [Mapped -> Tables], \A k \in Mapped \ {m} : u[k] = t[k],
         m \in Mapped => Fits(u[m], g, m) /\ Keeps(t[m], u[m], h, m, l)
  PROVE  Good(u, g) /\ Stays(t, u, h, l)
  <1>1. HandlesOK(g)
    BY DEF HandlesOK, Good
  <1>2. ASSUME NEW k \in Mapped PROVE Fits(u[k], g, k)
    <2>1. CASE k = m
      BY <2>1
    <2>2. CASE k # m
      <3>1. k # None
        BY LocalAssumption DEF Mode
      <3>2. h[l].mode # k /\ g[l].mode # k /\ u[k] = t[k] /\ Fits(t[k], h, k)
        BY <2>2, <3>1 DEF Good
      <3> QED BY <3>2, UsersElsewhere
    <2> QED BY <2>1, <2>2
  <1>3. ASSUME NEW k \in Loc \ {l} PROVE ContentsOf(u, h[k]) = ContentsOf(t, h[k])
    <2>1. CASE h[k].node = None
      BY <2>1 DEF ContentsOf
    <2>2. CASE h[k].node # None
      <3>1. h[k].mode \in Mapped
        BY <2>2 DEF Good, HandlesOK
      <3>2. CASE h[k].mode = m
        BY <3>1, <3>2 DEF Keeps, ContentsOf
      <3>3. CASE h[k].mode # m
        BY <3>1, <3>3 DEF ContentsOf
      <3> QED BY <3>2, <3>3
    <2> QED BY <2>1, <2>2
  <1> QED BY <1>1, <1>2, <1>3 DEF Good, Stays

\* What IP2LocationOpen leaves fits, and a first handle reads the file.
LEMMA OpeningGood ==
  ASSUME NEW t, NEW h, NEW g, NEW l \in Loc, NEW p \in Path, NEW m \in Mode,
         NEW o \in Opening(t, p, m), file \in [Path -> Db \cup {None}],
         Good(t, h), h[l] = Closed,
         g \in [Loc -> Handle \cup {o.handle}], g[l] = o.handle,
         \A k \in Loc \ {l} : g[k] = h[k]
  PROVE  /\ Good(o.table, g) /\ Stays(t, o.table, h, l)
         /\ o.handle \in Handle
         /\ o.handle # Closed =>
              /\ o.handle.mode = m /\ o.handle.path = p
              /\ Unused(h, m, p) => ContentsOf(o.table, o.handle) = file[p]
  <1>1. /\ h \in [Loc -> Handle] /\ t \in [Mapped -> Tables]
        /\ g[l] = o.handle /\ \A k \in Loc \ {l} : g[k] = h[k]
        /\ o.handle \in Handle => g \in [Loc -> Handle]
    BY DEF Good, HandlesOK
  <1>2. Closed \in Handle /\ Closed.mode = None /\ Closed.node = None
    BY DEF Closed, Handle
  <1>3. CASE o.table = t /\ o.handle = Closed
    <2>1. g \in [Loc -> Handle] /\ \A k \in Loc : g[k] = h[k]
      BY <1>1, <1>2, <1>3
    <2>2. g = h
      BY <1>1, <2>1
    <2> QED BY <1>2, <1>3, <2>2 DEF Stays
  <1>4. CASE file[p] # None /\ SizeInBounds(file[p]) /\ m = "file" /\ o.handle # Closed
    <2>1. o.table = t /\ o.handle = Opened(m, p, None, file[p]) /\ file[p] \in Db
      BY <1>4 DEF Opening
    <2>2. /\ o.handle \in Handle /\ o.handle.mode = m /\ o.handle.path = p
          /\ o.handle.node = None /\ o.handle.db = file[p]
      BY <2>1, LocalAssumption DEF Opened, Handle
    <2>3. g \in [Loc -> Handle] /\ m \notin Mapped
      BY <1>1, <1>4, <2>2 DEF Mapped
    <2>4. Good(o.table, g) /\ Stays(t, o.table, h, l)
      BY <1>1, <1>2, <2>1, <2>2, <2>3, OneMode
    <2>5. ContentsOf(o.table, o.handle) = file[p]
      BY <2>2 DEF ContentsOf
    <2> QED BY <2>2, <2>4, <2>5
  <1>5. CASE file[p] # None /\ SizeInBounds(file[p]) /\ m \in Mapped
    <2>1. PICK x \in Mapping(t[m], p, m) :
            o = [table |-> [t EXCEPT ![m] = x.nodes], handle |-> x.handle]
      BY <1>5 DEF Opening, Mapped
    <2>2. /\ o.handle = x.handle /\ o.table[m] = x.nodes
          /\ \A k \in Mapped \ {m} : o.table[k] = t[k]
          /\ o.table = [t EXCEPT ![m] = x.nodes]
      BY <1>1, <1>5, <2>1
    <2>3. /\ file[p] \in Db /\ DbSize[file[p]] \in Nat /\ Fits(t[m], h, m)
      BY <1>5, LocalAssumption DEF Good
    <2>4. /\ x.handle \in Handle
          /\ Fits(x.nodes, g, m)
          /\ Keeps(t[m], x.nodes, h, m, l)
          /\ x.handle # Closed =>
              /\ x.handle.mode = m /\ x.handle.path = p /\ x.handle.db = file[p]
              /\ Unused(h, m, p) => x.nodes[x.handle.node].res = file[p]
      <3>1. PICK w : w = t[m]
        OBVIOUS
      <3>2. x \in Mapping(w, p, m) /\ Fits(w, h, m)
        BY <2>3, <3>1
      <3>3. g[l] = x.handle /\ \A k \in Loc \ {l} : g[k] = h[k]
        BY <1>1, <2>2
      <3>4. /\ x.handle \in Handle
            /\ Fits(x.nodes, g, m)
            /\ Keeps(w, x.nodes, h, m, l)
            /\ x.handle # Closed =>
                /\ x.handle.mode = m /\ x.handle.path = p /\ x.handle.db = file[p]
                /\ Unused(h, m, p) => x.nodes[x.handle.node].res = file[p]
        BY <1>1, <1>5, <2>3, <3>2, <3>3, MappingFits
      <3> QED BY <3>1, <3>4
    <2>5. /\ g \in [Loc -> Handle] /\ Fits(o.table[m], g, m) /\ Keeps(t[m], o.table[m], h, m, l)
          /\ o.table \in [Mapped -> Tables]
      BY <1>1, <1>5, <2>2, <2>4 DEF Fits
    <2>6. g[l].mode \in {m, None} /\ (g[l].node # None => g[l].mode \in Mapped)
      BY <1>1, <1>2, <1>5, <2>2, <2>4
    <2>7. h[l].mode = None
      BY <1>2
    <2>8. Good(o.table, g) /\ Stays(t, o.table, h, l)
      BY <1>1, <2>2, <2>5, <2>6, <2>7, OneMode
    <2>9. ASSUME x.handle # Closed, Unused(h, m, p) PROVE ContentsOf(o.table, o.handle) = file[p]
      BY <2>2, <2>4, <2>9 DEF ContentsOf
    <2> QED BY <2>2, <2>4, <2>8, <2>9
  <1>6. \/ o.table = t /\ o.handle = Closed
        \/ file[p] # None /\ SizeInBounds(file[p]) /\ m = "file" /\ o.handle # Closed
        \/ file[p] # None /\ SizeInBounds(file[p]) /\ m \in Mapped
    BY DEF Opening, Mode
  <1> QED BY <1>3, <1>4, <1>5, <1>6

\* What IP2LocationClose leaves fits.
LEMMA ReleasedGood ==
  ASSUME NEW l \in Loc, Good(table, loc)
  PROVE  /\ Good(Released(table, l), [loc EXCEPT ![l] = Closed])
         /\ Stays(table, Released(table, l), loc, l)
  <1> DEFINE g == [loc EXCEPT ![l] = Closed]
             u == Released(table, l)
             m == loc[l].mode
  <1>1. /\ loc \in [Loc -> Handle] /\ table \in [Mapped -> Tables] /\ g \in [Loc -> Handle]
        /\ g[l] = Closed /\ \A k \in Loc \ {l} : g[k] = loc[k]
    BY DEF Good, HandlesOK, Handle
  <1>2. Closed.mode = None /\ Closed.node = None
    BY DEF Closed
  <1>3. CASE loc[l].node = None
    <2>1. u = table
      BY <1>3 DEF Released
    <2>2. m \notin Mapped
      BY <1>3, LocalAssumption DEF Good, Fits, Named
    <2>3. m \in Mode \cup {None} /\ "file" \in Mode /\ "file" \notin Mapped
      BY <1>1, <1>2, ClosedHandles DEF Mode, Mapped
    <2>4. m \in {"file", None}
      BY <2>2, <2>3 DEF Mode
    <2> HIDE DEF g, u
    <2>5. Good(u, g) /\ Stays(table, u, loc, l)
      BY <1>1, <1>2, <2>1, <2>3, <2>4, OneMode
    <2> QED BY <2>5 DEF g, u
  <1>4. CASE loc[l].node # None
    <2>1. m \in Mapped /\ m \in Mode /\ Fits(table[m], loc, m)
      BY <1>4 DEF Good, HandlesOK, Mode
    <2>2. u = [table EXCEPT ![m] = T!Release(table[m], loc[l].node)]
      BY <1>4 DEF Released
    <2>3. /\ u[m] = T!Release(table[m], loc[l].node)
          /\ \A k \in Mapped \ {m} : u[k] = table[k]
      BY <1>1, <2>1, <2>2
    <2> HIDE DEF g, u, m
    <2>4. Fits(u[m], g, m) /\ Keeps(table[m], u[m], loc, m, l)
      BY <1>1, <2>1, <2>3, Releasing DEF m
    <2>5. u \in [Mapped -> Tables]
      BY <1>1, <2>2, <2>3, <2>4 DEF Fits
    <2>6. Good(u, g) /\ Stays(table, u, loc, l)
      BY <1>1, <1>2, <2>1, <2>3, <2>4, <2>5, OneMode DEF m
    <2> QED BY <2>6 DEF g, u
  <1> QED BY <1>3, <1>4
-----------------------------------------------------------------------------
(* The objects                                                             *)

Modes == [Loc -> Mode \cup {"closed", None}]

\* OpenIsOwned of handles h and modes d.
Owned(h, d) ==
  \A l \in Loc : IF h[l].db # None THEN d[l] = h[l].mode ELSE d[l] \in {None, "closed"}

(***************************************************************************)
(* The inductive invariant: handles and nodes fit, each open handle has    *)
(* its object, and the drop-in has an object that is not collected.        *)
(***************************************************************************)
IInv ==
  /\ file \in [Path -> Db \cup {None}]
  /\ Good(table, loc)
  /\ dbmode \in Modes
  /\ wanted \in {None} \cup [path : Path, mode : Mode]
  /\ OpenIsOwned
  /\ current # None => current \in Loc /\ dbmode[current] # None
  /\ LastInitAnswers

\* What a step does to the contents: FirstReadsCurrent and ContentsStable.
Reading ==
  /\ \A l \in Loc : IsOpen(l) /\ loc'[l] = loc[l] => Contents(l)' = Contents(l)
  /\ \A l \in Loc :
       /\ ~ IsOpen(l) /\ IsOpen(l)'
       /\ ~ \E k \in Loc : /\ IsOpen(k)
                           /\ loc[k].path = loc'[l].path
                           /\ loc[k].mode = loc'[l].mode
       => Contents(l)' = file[loc'[l].path]

\* An object without a mode has no handle.
LEMMA NoHandle ==
  ASSUME IInv, NEW l \in Loc
  PROVE  /\ loc[l] \in Handle
         /\ IsOpen(l) <=> loc[l] # Closed
         /\ dbmode[l] = None => loc[l] = Closed
  <1>1. loc[l] \in Handle
    BY DEF IInv, Good, HandlesOK
  <1>2. IsOpen(l) <=> loc[l] # Closed
    BY <1>1, ClosedHandles DEF IsOpen
  <1>3. IsOpen(l) => dbmode[l] \in Mode
    BY <1>1, <1>2, ClosedHandles DEF IInv, OpenIsOwned
  <1> QED BY <1>1, <1>2, <1>3, LocalAssumption

\* Init of the addon.
LEMMA InitIInv == AddonInit => IInv
  <1> SUFFICES ASSUME AddonInit PROVE IInv
    OBVIOUS
  <1> USE DEF AddonInit, Init
  <1>1. loc \in [Loc -> Handle] /\ \A l \in Loc : loc[l] = Closed
    BY DEF Handle
  <1>2. Closed.mode = None /\ Closed.node = None /\ Closed.db = None
    BY DEF Closed
  <1>3. HandlesOK(loc)
    BY <1>1, <1>2 DEF HandlesOK
  <1>4. ASSUME NEW m \in Mapped PROVE Fits(table[m], loc, m)
    <2>1. table[m] = [n \in Node |-> T!FreeNode] /\ m # None
      BY <1>4, LocalAssumption DEF Mode
    <2>2. T!FreeNode.count = 0
      BY DEF T!FreeNode
    <2>3. table[m] \in Tables /\ T!Live(table[m]) = {}
      BY <2>1, <2>2 DEF Tables, T!NodeRecord, T!Live
    <2>4. ASSUME NEW n \in Node PROVE table[m][n].count = Cardinality(UsersOf(loc, m, n))
      <3>1. UsersOf(loc, m, n) = {}
        BY <1>1, <1>2, <2>1 DEF UsersOf
      <3> QED BY <2>1, <2>2, <3>1, FS_EmptySet
    <2>5. Counted(table[m], loc, m)
      BY <2>4 DEF Counted
    <2>6. Named(table[m], loc, m)
      BY <1>1, <1>2, <2>1 DEF Named
    <2> QED BY <2>3, <2>5, <2>6 DEF Fits, Unique
  <1>5. table \in [Mapped -> Tables]
    BY <1>4 DEF Fits
  <1>6. OpenIsOwned
    BY <1>1, <1>2 DEF OpenIsOwned, IsOpen
  <1>7. dbmode \in Modes
    BY DEF Modes
  <1> QED BY <1>3, <1>4, <1>5, <1>6, <1>7 DEF IInv, Good, LastInitAnswers

\* A location that keeps its handle reads the same.
LEMMA StaysReading ==
  ASSUME NEW l \in Loc, Stays(table, table', loc, l),
         NEW k \in Loc \ {l}, loc'[k] = loc[k]
  PROVE  Contents(k)' = Contents(k)
  BY DEF Stays, ContentsOf, Contents

\* IP2LocationOpen for a location without an object.
LEMMA OpenStep ==
  ASSUME IInv, NEW l \in Loc, NEW p \in Path, NEW m \in Mode, Open(l, p, m)
  PROVE  /\ Good(table, loc)' /\ Reading /\ file' = file
         /\ \A k \in Loc \ {l} : loc'[k] = loc[k]
         /\ loc'[l] \in Handle
         /\ loc'[l] # Closed => loc'[l].mode = m /\ loc'[l].path = p
  <1>1. PICK o \in Opening(table, p, m) : table' = o.table /\ loc' = [loc EXCEPT ![l] = o.handle]
    BY DEF Open
  <1>2. /\ loc[l] = Closed /\ Good(table, loc) /\ loc \in [Loc -> Handle]
        /\ file \in [Path -> Db \cup {None}]
    BY NoHandle DEF Open, IInv, Good, HandlesOK
  <1>3. loc'[l] = o.handle /\ \A k \in Loc \ {l} : loc'[k] = loc[k]
    BY <1>1, <1>2
  <1>4. /\ Good(o.table, loc') /\ Stays(table, o.table, loc, l)
        /\ o.handle \in Handle
        /\ o.handle # Closed =>
             /\ o.handle.mode = m /\ o.handle.path = p
             /\ Unused(loc, m, p) => ContentsOf(o.table, o.handle) = file[p]
    <2>1. loc' \in [Loc -> Handle \cup {o.handle}]
      BY <1>1, <1>2
    <2> QED BY <1>2, <1>3, <2>1, OpeningGood
  <1>5. Stays(table, table', loc, l)
    BY <1>1, <1>4
  <1>6. Reading
    <2>1. ASSUME NEW k \in Loc, IsOpen(k), loc'[k] = loc[k] PROVE Contents(k)' = Contents(k)
      <3>1. k # l
        BY <2>1 DEF Open
      <3> QED BY <1>5, <2>1, <3>1, StaysReading
    <2>2. ASSUME NEW k \in Loc, ~ IsOpen(k), IsOpen(k)',
                 ~ \E j \in Loc : /\ IsOpen(j)
                                  /\ loc[j].path = loc'[k].path
                                  /\ loc[j].mode = loc'[k].mode
          PROVE  Contents(k)' = file[loc'[k].path]
      <3>1. k = l /\ o.handle # Closed
        BY <1>3, <2>2 DEF IsOpen, Closed
      <3>2. \A j \in Loc : IsOpen(j) \/ loc[j].mode = None
        BY NoHandle DEF Closed
      <3>3. Unused(loc, m, p)
        BY <1>3, <1>4, <2>2, <3>1, <3>2, LocalAssumption DEF Unused
      <3> QED BY <1>1, <1>3, <1>4, <3>1, <3>3 DEF Contents, ContentsOf
    <2> QED BY <2>1, <2>2 DEF Reading
  <1> QED BY <1>1, <1>3, <1>4, <1>6 DEF Open

\* IP2LocationClose.
LEMMA CloseStep ==
  ASSUME IInv, NEW l \in Loc, Close(l)
  PROVE  /\ Good(table, loc)' /\ Reading /\ file' = file
         /\ \A k \in Loc \ {l} : loc'[k] = loc[k]
         /\ loc'[l] = Closed
  <1>1. table' = Released(table, l) /\ loc' = [loc EXCEPT ![l] = Closed] /\ IsOpen(l)
    BY DEF Close
  <1>2. Good(table, loc) /\ loc \in [Loc -> Handle]
    BY DEF IInv, Good, HandlesOK
  <1>3. loc'[l] = Closed /\ \A k \in Loc \ {l} : loc'[k] = loc[k]
    BY <1>1, <1>2
  <1>4. Good(table', loc') /\ Stays(table, table', loc, l)
    BY <1>1, <1>2, ReleasedGood
  <1>5. Closed.db = None
    BY DEF Closed
  <1>6. \A k \in Loc : IsOpen(k)' => k # l /\ IsOpen(k)
    BY <1>3, <1>5 DEF IsOpen
  <1>7. ASSUME NEW k \in Loc, IsOpen(k), loc'[k] = loc[k] PROVE Contents(k)' = Contents(k)
    <2>1. k # l
      BY <1>3, <1>5, <1>7 DEF IsOpen
    <2> QED BY <1>4, <1>7, <2>1, StaysReading
  <1> QED BY <1>3, <1>4, <1>6, <1>7 DEF Reading, Close

\* The handles and modes when the location of the drop-in is closed.
LEMMA WithoutGood ==
  ASSUME IInv
  PROVE  /\ Good(WithoutCurrent.table, WithoutCurrent.loc)
         /\ WithoutCurrent.loc \in [Loc -> Handle] /\ WithoutCurrent.dbmode \in Modes
         /\ \A k \in Loc \ {current} : /\ WithoutCurrent.loc[k] = loc[k]
                                       /\ WithoutCurrent.dbmode[k] = dbmode[k]
                                       /\ ContentsOf(WithoutCurrent.table, loc[k]) =
                                            ContentsOf(table, loc[k])
         /\ current # None => /\ WithoutCurrent.loc[current] = Closed
                              /\ WithoutCurrent.dbmode[current] = "closed"
  <1>1. /\ loc \in [Loc -> Handle] /\ dbmode \in Modes /\ Good(table, loc)
        /\ current # None => current \in Loc /\ dbmode[current] # None
    BY DEF IInv, Good, HandlesOK
  <1>2. CASE current = None
    BY <1>1, <1>2 DEF WithoutCurrent
  <1>3. CASE current # None /\ ~ IsOpen(current)
    <2>1. loc[current] = Closed /\ dbmode[current] = "closed"
      BY <1>1, <1>3, NoHandle DEF IInv, OpenIsOwned
    <2> QED BY <1>1, <1>3, <2>1 DEF WithoutCurrent
  <1>4. CASE current # None /\ IsOpen(current)
    <2>1. /\ WithoutCurrent.table = Released(table, current)
          /\ WithoutCurrent.loc = [loc EXCEPT ![current] = Closed]
          /\ WithoutCurrent.dbmode = [dbmode EXCEPT ![current] = "closed"]
      BY <1>4 DEF WithoutCurrent
    <2>2. /\ Good(Released(table, current), [loc EXCEPT ![current] = Closed])
          /\ Stays(table, Released(table, current), loc, current)
      BY <1>1, <1>4, ReleasedGood
    <2>3. Closed \in Handle
      BY DEF Handle
    <2>4. \A k \in Loc \ {current} : ContentsOf(WithoutCurrent.table, loc[k]) =
                                       ContentsOf(table, loc[k])
      BY <2>1, <2>2 DEF Stays
    <2>5. /\ WithoutCurrent.loc \in [Loc -> Handle] /\ WithoutCurrent.dbmode \in Modes
          /\ \A k \in Loc \ {current} : /\ WithoutCurrent.loc[k] = loc[k]
                                        /\ WithoutCurrent.dbmode[k] = dbmode[k]
          /\ WithoutCurrent.loc[current] = Closed
          /\ WithoutCurrent.dbmode[current] = "closed"
      BY <1>1, <1>4, <2>1, <2>3 DEF Modes
    <2> QED BY <2>1, <2>2, <2>4, <2>5
  <1> QED BY <1>2, <1>3, <1>4

\* What a step that changes the location of the drop-in makes of its contents.
InitReading ==
  /\ current' # current
  /\ ~ \E k \in Loc \ {current} : /\ loc[k].path = wanted'.path
                                  /\ loc[k].mode = wanted'.mode
  => Contents(current)' = file[wanted'.path]

\* new Location(p, m).
LEMMA NewStep ==
  ASSUME IInv, NEW l \in Loc, NEW p \in Path, NEW m \in Mode, New(l, p, m)
  PROVE  IInv' /\ Reading /\ InitReading
  <1>1. /\ Open(l, p, m) /\ dbmode[l] = None /\ current' = current /\ wanted' = wanted
        /\ dbmode' = IF IsOpen(l)' THEN [dbmode EXCEPT ![l] = m] ELSE dbmode
    BY DEF New
  <1>2. /\ Good(table, loc)' /\ Reading /\ file' = file
        /\ \A k \in Loc \ {l} : loc'[k] = loc[k]
        /\ loc'[l] \in Handle
        /\ loc'[l] # Closed => loc'[l].mode = m /\ loc'[l].path = p
    BY <1>1, OpenStep
  <1>3. current # l
    BY <1>1, LocalAssumption DEF IInv
  <1>4. /\ dbmode' \in Modes /\ \A k \in Loc \ {l} : dbmode'[k] = dbmode[k]
        /\ dbmode'[l] = IF IsOpen(l)' THEN m ELSE None
    BY <1>1 DEF IInv, Modes
  <1>5. loc'[l].db # None => loc'[l].mode = m
    BY <1>2, ClosedHandles
  <1>6. OpenIsOwned'
    BY <1>2, <1>4, <1>5 DEF IInv, OpenIsOwned, IsOpen
  <1>7. LastInitAnswers' /\ (current' # None => current' \in Loc /\ dbmode'[current'] # None)
    BY <1>1, <1>2, <1>3, <1>4 DEF IInv, LastInitAnswers, IsOpen
  <1> QED BY <1>1, <1>2, <1>4, <1>6, <1>7 DEF IInv, InitReading

\* location.close() and the end of the object: the handle is closed.
LEMMA CloseDatabaseStep ==
  ASSUME NEW l \in Loc, NEW x \in {None, "closed"}, IInv, l # current,
         Close(l) \/ (UNCHANGED vars /\ ~ IsOpen(l)),
         dbmode' = [dbmode EXCEPT ![l] = x],
         UNCHANGED <<current, wanted>>
  PROVE  IInv' /\ Reading /\ InitReading
  <1>1. /\ Good(table, loc)' /\ Reading /\ file' = file
        /\ \A k \in Loc \ {l} : loc'[k] = loc[k]
        /\ loc'[l] = Closed
    <2>1. CASE Close(l)
      BY <2>1, CloseStep
    <2>2. CASE UNCHANGED vars /\ ~ IsOpen(l)
      BY <2>2, NoHandle DEF vars, IInv, Reading, IsOpen, Contents
    <2> QED BY <2>1, <2>2
  <1>2. /\ dbmode' \in Modes /\ \A k \in Loc \ {l} : dbmode'[k] = dbmode[k]
        /\ dbmode'[l] \in {None, "closed"}
    BY DEF IInv, Modes
  <1>3. Closed.db = None
    BY DEF Closed
  <1>4. OpenIsOwned'
    BY <1>1, <1>2, <1>3 DEF IInv, OpenIsOwned, IsOpen
  <1>5. LastInitAnswers' /\ (current' # None => current' \in Loc /\ dbmode'[current'] # None)
    BY <1>1, <1>2 DEF IInv, LastInitAnswers, IsOpen
  <1> QED BY <1>1, <1>2, <1>4, <1>5 DEF IInv, InitReading

\* IP2Location_init().
LEMMA DropinCloseStep ==
  ASSUME IInv, DropinClose
  PROVE  IInv' /\ Reading /\ InitReading
  <1>1. /\ current # None /\ current \in Loc /\ current' = current /\ wanted' = None
        /\ file' = file /\ table' = WithoutCurrent.table
        /\ loc' = WithoutCurrent.loc /\ dbmode' = WithoutCurrent.dbmode
    BY DEF DropinClose, IInv
  <1>2. /\ Good(table, loc)' /\ dbmode' \in Modes
        /\ \A k \in Loc \ {current} : /\ loc'[k] = loc[k] /\ dbmode'[k] = dbmode[k]
                                      /\ ContentsOf(table', loc[k]) = ContentsOf(table, loc[k])
        /\ loc'[current] = Closed /\ dbmode'[current] = "closed"
    BY <1>1, WithoutGood
  <1>3. Closed.db = None /\ "closed" # None
    BY LocalAssumption DEF Closed
  <1>4. OpenIsOwned'
    BY <1>2, <1>3 DEF IInv, OpenIsOwned, IsOpen
  <1>5. LastInitAnswers' /\ dbmode'[current'] # None
    BY <1>1, <1>2, <1>3 DEF LastInitAnswers, IsOpen
  <1>6. Reading
    <2>1. \A k \in Loc : IsOpen(k)' => k # current /\ IsOpen(k)
      BY <1>1, <1>2, <1>3 DEF IsOpen
    <2>2. ASSUME NEW k \in Loc, IsOpen(k), loc'[k] = loc[k] PROVE Contents(k)' = Contents(k)
      <3>1. k # current
        BY <1>2, <1>3, <2>2 DEF IsOpen
      <3> QED BY <1>2, <2>2, <3>1 DEF ContentsOf, Contents
    <2> QED BY <2>1, <2>2 DEF Reading
  <1> QED BY <1>1, <1>2, <1>4, <1>5, <1>6 DEF IInv, InitReading

\* IP2Location_init(p, m).
LEMMA DropinInitStep ==
  ASSUME IInv, NEW l \in Loc, NEW p \in Path, NEW m \in Mode, DropinInit(l, p, m)
  PROVE  IInv' /\ Reading /\ InitReading
  <1>1. PICK o \in Opening(WithoutCurrent.table, p, m) :
          /\ table' = o.table
          /\ loc' = [WithoutCurrent.loc EXCEPT ![l] = o.handle]
          /\ IF o.handle = Closed
             THEN dbmode' = WithoutCurrent.dbmode /\ UNCHANGED current
             ELSE dbmode' = [WithoutCurrent.dbmode EXCEPT ![l] = m] /\ current' = l
    BY DEF DropinInit
  <1>2. /\ wanted' = [path |-> p, mode |-> m] /\ file' = file /\ dbmode[l] = None
        /\ wanted'.path = p /\ wanted'.mode = m
    BY DEF DropinInit
  <1>3. /\ Good(WithoutCurrent.table, WithoutCurrent.loc)
        /\ WithoutCurrent.loc \in [Loc -> Handle] /\ WithoutCurrent.dbmode \in Modes
        /\ \A k \in Loc \ {current} : /\ WithoutCurrent.loc[k] = loc[k]
                                      /\ WithoutCurrent.dbmode[k] = dbmode[k]
                                      /\ ContentsOf(WithoutCurrent.table, loc[k]) =
                                           ContentsOf(table, loc[k])
        /\ current # None => /\ WithoutCurrent.loc[current] = Closed
                             /\ WithoutCurrent.dbmode[current] = "closed"
    BY WithoutGood
  <1>4. /\ l # current /\ loc[l] = Closed /\ WithoutCurrent.loc[l] = Closed
        /\ current # None => current \in Loc
    BY <1>2, <1>3, NoHandle, LocalAssumption DEF IInv
  <1>5. /\ loc' \in [Loc -> Handle \cup {o.handle}] /\ loc'[l] = o.handle
        /\ \A k \in Loc \ {l} : loc'[k] = WithoutCurrent.loc[k]
    BY <1>1, <1>3
  <1>6. /\ Good(o.table, loc') /\ Stays(WithoutCurrent.table, o.table, WithoutCurrent.loc, l)
        /\ o.handle \in Handle
        /\ o.handle # Closed =>
             /\ o.handle.mode = m /\ o.handle.path = p
             /\ Unused(WithoutCurrent.loc, m, p) => ContentsOf(o.table, o.handle) = file[p]
    BY <1>3, <1>4, <1>5, OpeningGood DEF IInv
  <1>7. /\ Closed.db = None /\ Closed.mode = None /\ "closed" # None /\ m # None
        /\ o.handle.db # None <=> o.handle # Closed
    BY <1>6, ClosedHandles, LocalAssumption DEF Closed
  <1>8. /\ dbmode' \in Modes
        /\ \A k \in Loc \ {l} : dbmode'[k] = WithoutCurrent.dbmode[k]
        /\ dbmode'[l] = IF o.handle = Closed THEN None ELSE m
    BY <1>1, <1>2, <1>3, <1>4 DEF Modes
  <1>9. OpenIsOwned'
    <2> SUFFICES ASSUME NEW k \in Loc
                 PROVE  IF loc'[k].db # None THEN dbmode'[k] = loc'[k].mode
                                             ELSE dbmode'[k] \in {None, "closed"}
      BY DEF OpenIsOwned, IsOpen
    <2>1. CASE k = l
      BY <1>5, <1>6, <1>7, <1>8, <2>1
    <2>2. CASE k # l /\ k = current
      BY <1>3, <1>5, <1>7, <1>8, <2>2, LocalAssumption
    <2>3. CASE k # l /\ k # current
      BY <1>3, <1>5, <1>8, <2>3 DEF IInv, OpenIsOwned, IsOpen
    <2> QED BY <2>1, <2>2, <2>3
  <1>10. LastInitAnswers' /\ (current' # None => current' \in Loc /\ dbmode'[current'] # None)
    <2>1. CASE o.handle = Closed
      <3>1. current' = current
        BY <1>1, <2>1
      <3>2. current # None => loc'[current] = Closed /\ dbmode'[current] = "closed"
        BY <1>3, <1>4, <1>5, <1>8
      <3> QED BY <1>4, <1>7, <3>1, <3>2 DEF LastInitAnswers, IsOpen
    <2>2. CASE o.handle # Closed
      BY <1>1, <1>2, <1>5, <1>6, <1>7, <1>8, <2>2 DEF LastInitAnswers
    <2> QED BY <2>1, <2>2
  <1>11. \A k \in Loc \ {l, current} : loc'[k] = loc[k]
    BY <1>3, <1>5
  <1>12. ASSUME NEW k \in Loc \ {l, current} PROVE ContentsOf(table', loc[k]) = ContentsOf(table, loc[k])
    BY <1>1, <1>3, <1>6 DEF Stays
  <1>13. ASSUME o.handle # Closed,
                \A k \in Loc \ {current} : ~ (loc[k].mode = m /\ loc[k].path = p)
         PROVE  Contents(l)' = file[p]
    <2>1. Unused(WithoutCurrent.loc, m, p)
      BY <1>3, <1>7, <1>13, LocalAssumption DEF Unused
    <2>2. ContentsOf(o.table, o.handle) = file[p]
      BY <1>6, <1>13, <2>1
    <2> QED BY <1>1, <1>5, <2>2 DEF ContentsOf, Contents
  <1>14. Reading
    <2>1. ASSUME NEW k \in Loc, IsOpen(k), loc'[k] = loc[k] PROVE Contents(k)' = Contents(k)
      <3>1. loc[k] # Closed /\ k # l
        BY <1>4, <1>7, <2>1 DEF IsOpen
      <3>2. k # current
        BY <1>3, <1>5, <2>1, <3>1, LocalAssumption
      <3> QED BY <1>12, <2>1, <3>1, <3>2 DEF ContentsOf, Contents
    <2>2. ASSUME NEW k \in Loc, ~ IsOpen(k), IsOpen(k)',
                 ~ \E j \in Loc : /\ IsOpen(j)
                                  /\ loc[j].path = loc'[k].path
                                  /\ loc[j].mode = loc'[k].mode
          PROVE  Contents(k)' = file[loc'[k].path]
      <3>1. k = l
        <4>1. k # current
          BY <1>3, <1>4, <1>5, <1>7, <2>2, LocalAssumption DEF IsOpen
        <4> QED BY <1>11, <2>2, <4>1 DEF IsOpen
      <3>2. o.handle # Closed /\ loc'[l].mode = m /\ loc'[l].path = p
        BY <1>5, <1>6, <1>7, <2>2, <3>1 DEF IsOpen
      <3>3. \A j \in Loc : IsOpen(j) \/ loc[j].mode = None
        BY <1>7, NoHandle
      <3> QED BY <1>7, <1>13, <2>2, <3>1, <3>2, <3>3
    <2> QED BY <2>1, <2>2 DEF Reading
  <1>15. InitReading
    BY <1>1, <1>2, <1>13 DEF InitReading
  <1> QED BY <1>1, <1>2, <1>6, <1>8, <1>9, <1>10, <1>14, <1>15 DEF IInv

\* Other programs change the files.
LEMMA ReplaceStep ==
  ASSUME IInv, NEW p \in Path, NEW d \in Db \cup {None}, Replace(p, d), UNCHANGED objects
  PROVE  IInv' /\ Reading /\ InitReading
  <1> USE DEF Replace, objects
  <1>1. file' \in [Path -> Db \cup {None}]
    BY DEF IInv
  <1>2. OpenIsOwned' /\ LastInitAnswers'
    BY DEF IInv, OpenIsOwned, LastInitAnswers, IsOpen
  <1>3. Reading /\ InitReading
    BY DEF Reading, InitReading, IsOpen, Contents
  <1> QED BY <1>1, <1>2, <1>3 DEF IInv

\* Every step keeps the invariant, and with it what the locations read.
LEMMA Step ==
  ASSUME IInv, [AddonNext]_avars
  PROVE  IInv' /\ Reading /\ InitReading
  <1>1. CASE \E l \in Loc, p \in Path, m \in Mode : New(l, p, m)
    BY <1>1, NewStep
  <1>2. CASE \E l \in Loc, p \in Path, m \in Mode : DropinInit(l, p, m)
    BY <1>2, DropinInitStep
  <1>3. ASSUME NEW l \in Loc, CloseDatabase(l) PROVE IInv' /\ Reading /\ InitReading
    BY <1>3, CloseDatabaseStep DEF CloseDatabase
  <1>4. ASSUME NEW l \in Loc, Collect(l) PROVE IInv' /\ Reading /\ InitReading
    <2>1. /\ l # current
          /\ Close(l) \/ (UNCHANGED vars /\ ~ IsOpen(l))
          /\ dbmode' = [dbmode EXCEPT ![l] = None] /\ UNCHANGED <<current, wanted>>
      BY <1>4 DEF Collect, vars
    <2> QED BY <2>1, CloseDatabaseStep
  <1>5. CASE DropinClose
    BY <1>5, DropinCloseStep
  <1>6. CASE \E p \in Path, d \in Db \cup {None} : Replace(p, d) /\ UNCHANGED objects
    BY <1>6, ReplaceStep
  <1>7. CASE UNCHANGED avars
    <2> USE <1>7 DEF avars, objects
    <2>1. OpenIsOwned' /\ LastInitAnswers'
      BY DEF IInv, OpenIsOwned, LastInitAnswers, IsOpen
    <2>2. Reading /\ InitReading
      BY DEF Reading, InitReading, IsOpen, Contents
    <2> QED BY <2>1, <2>2 DEF IInv
  <1> QED BY <1>1, <1>2, <1>3, <1>4, <1>5, <1>6, <1>7 DEF AddonNext

-----------------------------------------------------------------------------
(* What follows from the invariant                                         *)

\* The variables have their types.
LEMMA ObjectsFollow == IInv => ObjectsOK
  <1> SUFFICES ASSUME IInv PROVE ObjectsOK
    OBVIOUS
  <1>1. current \in Loc \cup {None} /\ dbmode \in [Loc -> Mode \cup {"closed", None}]
    BY DEF IInv, Modes
  <1>2. TypeOK
    BY DEF IInv, Good, HandlesOK, Handle, Tables, TypeOK
  <1> QED BY <1>1, <1>2 DEF ObjectsOK, IInv

\* A count is the number of locations that hold the node.
LEMMA CountsFollow == IInv => RefCountExact
  <1> SUFFICES ASSUME IInv, NEW m \in Mapped, NEW n \in Node
               PROVE  table[m][n].count = Cardinality(Holders(m, n))
    BY DEF RefCountExact
  <1>1. Holders(m, n) = UsersOf(loc, m, n)
    BY DEF Holders, UsersOf
  <1> QED BY <1>1 DEF IInv, Good, Fits, Counted

\* The holders of the node of a location are those that have its path open.
LEMMA OccupantsFollow == IInv => OccupantsExact
  <1> SUFFICES ASSUME IInv, NEW l \in Loc, IsOpen(l), loc[l].mode \in Mapped
               PROVE  Info(l).cacheoccupants =
                        Cardinality({k \in Loc : loc[k].path = loc[l].path
                                                 /\ loc[k].mode = loc[l].mode})
    BY DEF OccupantsExact
  <1> DEFINE m == loc[l].mode
             n == loc[l].node
             S == {k \in Loc : loc[k].path = loc[l].path /\ loc[k].mode = m}
  <1>1. Fits(table[m], loc, m)
    BY DEF IInv, Good
  <1>2. /\ \A k \in Loc : loc[k].mode = m => /\ loc[k].node \in Node
                                             /\ loc[k].node \in T!Live(table[m])
                                             /\ table[m][loc[k].node].key = loc[k].path
        /\ n \in Node /\ None \notin Node
    BY <1>1, UsedLives, LocalAssumption DEF Fits, Named
  <1>3. S = UsersOf(loc, m, n)
    BY <1>1, <1>2 DEF Fits, Unique, UsersOf
  <1>4. Info(l).cacheoccupants = table[m][n].count
    BY <1>2 DEF Info
  <1> QED BY <1>1, <1>2, <1>3, <1>4 DEF Fits, Counted

-----------------------------------------------------------------------------
(* Theorems                                                                *)

\* The invariant holds in every reachable state.
LEMMA Always == AddonSpec => []IInv
  <1>1. IInv /\ [AddonNext]_avars => IInv'
    BY Step
  <1> QED BY InitIInv, <1>1, PTL DEF AddonSpec

\* The variables of locations and objects hold what those of the code can.
THEOREM ObjectsTyped == AddonSpec => []ObjectsOK
  BY Always, ObjectsFollow, PTL

(***************************************************************************)
(* Closing, collecting or replacing a location neither frees the memory    *)
(* another one reads nor leaks it: the count of a node is the number of    *)
(* the handles on it (IP2LocationDBClose).                                 *)
(***************************************************************************)
THEOREM CountsExact == AddonSpec => []RefCountExact
  BY Always, CountsFollow, PTL

\* Every open handle has an object that can close it (iplocdb of nodeip2location.cc).
THEOREM NoOrphans == AddonSpec => []OpenIsOwned
  <1>1. IInv => OpenIsOwned
    BY DEF IInv
  <1> QED BY Always, <1>1, PTL

\* info().cacheoccupants counts the open locations of the path and mode.
THEOREM OccupantsCounted == AddonSpec => []OccupantsExact
  BY Always, OccupantsFollow, PTL

\* The drop-in answers from the file of its last init (dropin.js).
THEOREM DropinCurrent == AddonSpec => []LastInitAnswers
  <1>1. IInv => LastInitAnswers
    BY DEF IInv
  <1> QED BY Always, <1>1, PTL

\* What an open location reads is the same until it is closed.
THEOREM ContentsKept == AddonSpec => ContentsStable
  <1>1. IInv /\ [AddonNext]_avars =>
          [\A l \in Loc : IsOpen(l) /\ loc'[l] = loc[l] => Contents(l)' = Contents(l)]_vars
    BY Step DEF Reading
  <1> QED BY Always, <1>1, PTL DEF AddonSpec, ContentsStable

\* The first location of a path and mode reads the file that is there.
THEOREM FirstReads == AddonSpec => FirstReadsCurrent
  <1>1. IInv /\ [AddonNext]_avars =>
          [\A l \in Loc :
             /\ ~ IsOpen(l) /\ IsOpen(l)'
             /\ ~ \E k \in Loc : /\ IsOpen(k)
                                 /\ loc[k].path = loc'[l].path
                                 /\ loc[k].mode = loc'[l].mode
             => Contents(l)' = file[loc'[l].path]]_vars
    BY Step DEF Reading
  <1> QED BY Always, <1>1, PTL DEF AddonSpec, FirstReadsCurrent

\* So does the drop-in, unless the program itself has the path open.
THEOREM InitReads == AddonSpec => InitReadsCurrent
  <1>1. IInv /\ [AddonNext]_avars =>
          [/\ current' # current
           /\ ~ \E k \in Loc \ {current} : /\ loc[k].path = wanted'.path
                                           /\ loc[k].mode = wanted'.mode
           => Contents(current)' = file[wanted'.path]]_avars
    BY Step DEF InitReading
  <1> QED BY Always, <1>1, PTL DEF AddonSpec, InitReadsCurrent

-----------------------------------------------------------------------------
(* The length of the memory                                                *)

\* Every node of t is as long as the file that is under its path now.
Roomy(t) == \A n \in T!Live(t) : file[t[n].key] # None => DbSize[file[t[n].key]] <= t[n].size

\* The node of every handle of mode m is as long as the file of the handle.
Covered(t, h, m) == \A l \in Loc : h[l].mode = m => DbSize[h[l].db] <= t[h[l].node].size

\* The nodes of u are those of t, or new and as long as the file p.
Grown(t, u, p) ==
  \A n \in T!Live(u) :
    IF n \in T!Live(t)
    THEN u[n].key = t[n].key /\ u[n].size = t[n].size
    ELSE file[p] # None /\ u[n].key = p /\ u[n].size = DbSize[file[p]]

\* Nodes that are only released are those of t.
LEMMA ReleasedGrown ==
  ASSUME NEW t \in Tables, NEW n \in Node, NEW p
  PROVE  Grown(t, T!Release(t, n), p)
  <1> DEFINE u == T!Release(t, n)
  <1> SUFFICES ASSUME NEW k \in T!Live(u)
               PROVE  k \in T!Live(t) /\ u[k].key = t[k].key /\ u[k].size = t[k].size
    BY DEF Grown
  <1>1. CASE k # n
    BY <1>1, OtherNodes DEF T!Live
  <1>2. CASE k = n
    <2>1. CASE t[n].count > 1
      <3>1. u[n] = [t[n] EXCEPT !.count = t[n].count - 1]
        BY <2>1 DEF T!Release, Tables
      <3>2. /\ t[n] \in [key : Path, res : Db, size : Nat, count : Nat \ {0},
                         listed : BOOLEAN, copied : BOOLEAN]
        BY <2>1 DEF Tables, T!NodeRecord, T!FreeNode
      <3>3. u[n].key = t[n].key /\ u[n].size = t[n].size
        BY <3>1, <3>2
      <3> QED BY <1>2, <2>1, <3>2, <3>3 DEF T!Live
    <2>2. CASE ~ (t[n].count > 1)
      BY <1>2, <2>2 DEF T!Release, T!Live, T!FreeNode, Tables
    <2> QED BY <2>1, <2>2
  <1> QED BY <1>1, <1>2

\* One more user of a node that is found, or a new node.
LEMMA SetupGrown ==
  ASSUME NEW t \in Tables, NEW p \in Path, file[p] \in Db, DbSize[file[p]] \in Nat,
         NEW m, NEW s \in Setup(t, p, m)
  PROVE  Grown(t, s.table, p) /\ s.table \in Tables /\ s.node \in Node
  <1>1. CASE T!Found(t, p) # {}
    <2>1. PICK n \in T!Found(t, p) : s = [node |-> n, table |-> T!Retain(t, n)]
      BY <1>1 DEF Setup
    <2>2. s.table = T!Retain(t, n) /\ s.node = n /\ n \in Node /\ t[n].count > 0
      BY <2>1 DEF T!Found, Tables, T!NodeRecord, T!FreeNode
    <2>3. s.table \in Tables /\ \A k \in Node \ {n} : s.table[k] = t[k]
      BY <2>2, NodeOps, OtherNodes
    <2>4. t[n] \in [key : Path, res : Db, size : Nat, count : Nat \ {0},
                    listed : BOOLEAN, copied : BOOLEAN]
      BY <2>2 DEF Tables, T!NodeRecord, T!FreeNode
    <2>5. s.table[n] = [t[n] EXCEPT !.count = t[n].count + 1]
      BY <2>2 DEF T!Retain, Tables
    <2>6. s.table[n].key = t[n].key /\ s.table[n].size = t[n].size
      BY <2>4, <2>5
    <2>7. \A k \in T!Live(s.table) : k \in T!Live(t)
      BY <2>2, <2>3 DEF T!Live
    <2> QED BY <2>2, <2>3, <2>6, <2>7 DEF Grown, T!Live
  <1>2. CASE T!Found(t, p) = {}
    <2> DEFINE c == m = "cache"
    <2>1. PICK n \in T!Free(t) :
            s = [node |-> n, table |-> T!Allocate(t, n, p, file[p], DbSize[file[p]], c)]
      BY <1>2 DEF Setup
    <2>2. /\ s.table = T!Allocate(t, n, p, file[p], DbSize[file[p]], c) /\ s.node = n
          /\ n \in Node /\ n \notin T!Live(t) /\ file[p] # None
      BY <2>1, LocalAssumption DEF T!Free, T!Live
    <2>3. \A k \in Node \ {n} : s.table[k] = t[k]
      BY <2>2, OtherNodes
    <2>4. /\ s.table[n].key = p /\ s.table[n].size = DbSize[file[p]] /\ s.table \in Tables
      BY <2>2 DEF Tables, T!Allocate, T!NodeRecord
    <2> QED BY <2>2, <2>3, <2>4 DEF Grown, T!Live
  <1> QED BY <1>1, <1>2

\* IP2LocationOpen leaves the nodes of each mode, or new ones.
LEMMA OpeningGrown ==
  ASSUME NEW t \in [Mapped -> Tables], NEW p \in Path, NEW m \in Mode,
         file \in [Path -> Db \cup {None}], NEW o \in Opening(t, p, m)
  PROVE  /\ \A k \in Mapped : Grown(t[k], o.table[k], p)
         /\ o.handle # Closed => file[p] # None /\ o.handle.db = file[p]
  <1>1. \A k \in Mapped : Grown(t[k], t[k], p)
    BY DEF Grown
  <1>2. CASE o.table = t
    <2>1. o.handle # Closed => file[p] # None /\ o.handle.db = file[p]
      <3>1. \A x, y, z : Opened(x, y, z, file[p]).db = file[p]
        BY DEF Opened
      <3> QED BY <3>1 DEF Opening, Mapping
    <2> QED BY <1>1, <1>2, <2>1
  <1>3. CASE o.table # t
    <2>1. file[p] \in Db /\ DbSize[file[p]] \in Nat /\ m \in Mapped
      BY <1>3, LocalAssumption DEF Opening, Mode
    <2>2. PICK x \in Mapping(t[m], p, m) :
            o = [table |-> [t EXCEPT ![m] = x.nodes], handle |-> x.handle]
      BY <1>3, <2>1 DEF Opening, Mapped
    <2>3. PICK s \in Setup(t[m], p, m) :
            x = IF Accepts(s.table[s.node].res, file[p])
                THEN [nodes |-> s.table, handle |-> Opened(m, p, s.node, file[p])]
                ELSE [nodes |-> T!Release(s.table, s.node), handle |-> Closed]
      BY DEF Mapping
    <2>4. Grown(t[m], s.table, p) /\ s.table \in Tables /\ s.node \in Node
      BY <2>1, SetupGrown
    <2>5. Grown(s.table, T!Release(s.table, s.node), p)
      BY <2>4, ReleasedGrown
    <2>6. \A k \in T!Live(T!Release(s.table, s.node)) : k \in T!Live(s.table)
      <3>1. PICK w \in Tables : w = s.table
        BY <2>4
      <3>2. PICK n \in Node : n = s.node
        BY <2>4
      <3>3. /\ w[n].count \in Nat
            /\ T!Release(w, n)[n].count = IF w[n].count > 1 THEN w[n].count - 1 ELSE 0
        BY NodeOps
      <3>4. \A k \in Node \ {n} : T!Release(w, n)[k] = w[k]
        BY OtherNodes
      <3> QED BY <3>1, <3>2, <3>3, <3>4 DEF T!Live
    <2>7. Grown(t[m], T!Release(s.table, s.node), p)
      BY <2>4, <2>5, <2>6 DEF Grown
    <2>8. Grown(t[m], x.nodes, p) /\ (x.handle # Closed => x.handle.db = file[p])
      BY <2>3, <2>4, <2>7 DEF Opened
    <2>9. file[p] # None
      BY <2>1, LocalAssumption
    <2> QED BY <1>1, <2>1, <2>2, <2>8, <2>9
  <1> QED BY <1>2, <1>3

\* So nodes that are as long as the files stay so.
LEMMA GrownRoomy ==
  ASSUME NEW t, NEW u, NEW p \in Path, Roomy(t), Grown(t, u, p),
         file \in [Path -> Db \cup {None}]
  PROVE  Roomy(u)
  <1> SUFFICES ASSUME NEW n \in T!Live(u), file[u[n].key] # None
               PROVE  DbSize[file[u[n].key]] <= u[n].size
    BY DEF Roomy
  <1>1. CASE n \in T!Live(t)
    BY <1>1 DEF Roomy, Grown
  <1>2. CASE n \notin T!Live(t)
    <2>1. file[p] \in Db /\ u[n].key = p /\ u[n].size = DbSize[file[p]]
      BY <1>2 DEF Grown
    <2>2. DbSize[file[p]] \in Nat
      BY <2>1, LocalAssumption
    <2> QED BY <2>1, <2>2
  <1> QED BY <1>1, <1>2

\* And so do the nodes of the handles, also that of the new one.
LEMMA GrownCovered ==
  ASSUME NEW h, NEW g, NEW m \in Mapped, NEW l \in Loc, NEW t, NEW u, NEW p,
         Fits(t, h, m), Fits(u, g, m), Grown(t, u, p), OnlyAt(g, h, l),
         Covered(t, h, m), Roomy(u),
         g[l].mode = m => file[g[l].path] # None /\ g[l].db = file[g[l].path]
  PROVE  Covered(u, g, m)
  <1> SUFFICES ASSUME NEW k \in Loc, g[k].mode = m
               PROVE  DbSize[g[k].db] <= u[g[k].node].size
    BY DEF Covered
  <1>1. g[k].node \in T!Live(u) /\ u[g[k].node].key = g[k].path
    BY UsedLives DEF Fits, Named
  <1>2. CASE k = l
    BY <1>1, <1>2 DEF Roomy
  <1>3. CASE k # l
    <2>1. g[k] = h[k]
      BY <1>3 DEF OnlyAt
    <2>2. h[k].node \in T!Live(t)
      BY <2>1, UsedLives
    <2> QED BY <1>1, <2>1, <2>2 DEF Covered, Grown
  <1> QED BY <1>2, <1>3

\* All nodes are as long as their files.
Long(t, h) == \A m \in Mapped : Roomy(t[m]) /\ Covered(t[m], h, m)

\* IP2LocationOpen keeps that.
LEMMA LongOpened ==
  ASSUME NEW t, NEW h, NEW g, NEW l \in Loc, NEW p \in Path, NEW m \in Mode,
         NEW o \in Opening(t, p, m), file \in [Path -> Db \cup {None}],
         Good(t, h), Long(t, h), h[l] = Closed,
         g \in [Loc -> Handle \cup {o.handle}], g[l] = o.handle,
         \A k \in Loc \ {l} : g[k] = h[k]
  PROVE  Long(o.table, g)
  <1>1. Good(o.table, g) /\ (o.handle # Closed => o.handle.path = p)
    BY OpeningGood
  <1>2. /\ \A k \in Mapped : Grown(t[k], o.table[k], p)
        /\ o.handle # Closed => file[p] # None /\ o.handle.db = file[p]
    BY OpeningGrown DEF Good
  <1> SUFFICES ASSUME NEW k \in Mapped
               PROVE  Roomy(o.table[k]) /\ Covered(o.table[k], g, k)
    BY DEF Long
  <1>3. Roomy(o.table[k])
    BY <1>2, GrownRoomy DEF Long
  <1>4. g[l].mode = k => file[g[l].path] # None /\ g[l].db = file[g[l].path]
    <2>1. Closed.mode # k
      BY LocalAssumption DEF Closed, Mode
    <2> QED BY <1>1, <1>2, <2>1
  <1>5. Fits(t[k], h, k) /\ Fits(o.table[k], g, k) /\ OnlyAt(g, h, l) /\ Covered(t[k], h, k)
    BY <1>1 DEF Good, Long, OnlyAt
  <1>6. Covered(o.table[k], g, k)
    BY <1>2, <1>3, <1>4, <1>5, GrownCovered
  <1> QED BY <1>3, <1>6

\* IP2LocationClose keeps that.
LEMMA LongReleased ==
  ASSUME NEW l \in Loc, Good(table, loc), Long(table, loc),
         file \in [Path -> Db \cup {None}]
  PROVE  Long(Released(table, l), [loc EXCEPT ![l] = Closed])
  <1> DEFINE g == [loc EXCEPT ![l] = Closed]
             u == Released(table, l)
  <1>1. Good(u, g)
    BY ReleasedGood
  <1>2. table \in [Mapped -> Tables] /\ loc \in [Loc -> Handle]
    BY DEF Good, HandlesOK
  <1>3. CASE loc[l] = Closed
    <2>1. u = table /\ g = loc
      BY <1>2, <1>3 DEF Released, Closed
    <2> QED BY <2>1
  <1> DEFINE p == loc[l].path
  <1>4. SUFFICES ASSUME p \in Path PROVE Long(u, g)
    BY <1>2, <1>3, ClosedHandles
  <1>5. ASSUME NEW k \in Mapped PROVE Grown(table[k], u[k], p)
    <2>1. CASE u[k] = table[k]
      BY <2>1 DEF Grown
    <2>2. CASE u[k] # table[k]
      <3>1. loc[l].node # None
        BY <2>2 DEF Released
      <3>2. u[k] = T!Release(table[k], loc[l].node)
        BY <1>2, <2>2, <3>1 DEF Released
      <3>3. loc[l].node \in Node /\ table[k] \in Tables
        BY <1>2, <3>1, ClosedHandles
      <3> QED BY <3>2, <3>3, ReleasedGrown
    <2> QED BY <2>1, <2>2
  <1>6. g[l] = Closed /\ \A k \in Loc \ {l} : g[k] = loc[k]
    BY <1>2
  <1> HIDE DEF g, u, p
  <1>7. ASSUME NEW k \in Mapped PROVE Roomy(u[k]) /\ Covered(u[k], g, k)
    <2>1. Roomy(u[k])
      BY <1>4, <1>5, GrownRoomy DEF Long
    <2>2. g[l].mode # k
      BY <1>6, LocalAssumption DEF Closed, Mode
    <2>3. Fits(table[k], loc, k) /\ Fits(u[k], g, k) /\ OnlyAt(g, loc, l)
          /\ Covered(table[k], loc, k)
      BY <1>1, <1>6 DEF Good, Long, OnlyAt
    <2>4. Covered(u[k], g, k)
      BY <1>5, <2>1, <2>2, <2>3, GrownCovered
    <2> QED BY <2>1, <2>4
  <1> QED BY <1>7 DEF Long, g, u

\* So does closing the location of the drop-in.
LEMMA LongWithoutCurrent ==
  ASSUME IInv, Long(table, loc)
  PROVE  Long(WithoutCurrent.table, WithoutCurrent.loc)
  <1>1. CASE current = None \/ ~ IsOpen(current)
    BY <1>1 DEF WithoutCurrent
  <1>2. CASE ~ (current = None \/ ~ IsOpen(current))
    BY <1>2, LongReleased DEF WithoutCurrent, IInv
  <1> QED BY <1>1, <1>2

\* No file is put under a path that is longer than a memory of that path.
FitsMapped ==
  \A p \in Path : file'[p] \notin {file[p], None} =>
    \A m \in Mapped : \A n \in T!Live(table[m]) :
      table[m][n].key = p => DbSize[file'[p]] <= table[m][n].size

\* Every step under that condition.
LEMMA LongStep ==
  ASSUME IInv, Long(table, loc), [AddonNext]_avars, [FitsMapped]_avars
  PROVE  Long(table, loc)'
  <1>1. ASSUME NEW l \in Loc, NEW p \in Path, NEW m \in Mode, Open(l, p, m)
        PROVE  Long(table, loc)'
    <2>1. PICK o \in Opening(table, p, m) :
            table' = o.table /\ loc' = [loc EXCEPT ![l] = o.handle]
      BY <1>1 DEF Open
    <2>2. /\ loc[l] = Closed /\ Good(table, loc) /\ loc \in [Loc -> Handle]
          /\ file \in [Path -> Db \cup {None}] /\ file' = file
      BY <1>1, NoHandle DEF Open, IInv, Good, HandlesOK
    <2>3. /\ loc' \in [Loc -> Handle \cup {o.handle}] /\ loc'[l] = o.handle
          /\ \A k \in Loc \ {l} : loc'[k] = loc[k]
      BY <2>1, <2>2
    <2>4. Long(o.table, loc')
      BY <2>2, <2>3, LongOpened
    <2> QED BY <2>1, <2>2, <2>4 DEF Long, Roomy, Covered
  <1>2. ASSUME NEW l \in Loc, Close(l) PROVE Long(table, loc)'
    <2>1. Long(Released(table, l), [loc EXCEPT ![l] = Closed])
      BY LongReleased DEF IInv
    <2> QED BY <1>2, <2>1 DEF Close, Long, Roomy, Covered
  <1>3. ASSUME UNCHANGED vars PROVE Long(table, loc)'
    BY <1>3 DEF vars, Long, Roomy, Covered
  <1>4. CASE \E l \in Loc, p \in Path, m \in Mode : New(l, p, m)
    BY <1>1, <1>4 DEF New
  <1>5. CASE \E l \in Loc, p \in Path, m \in Mode : DropinInit(l, p, m)
    <2>1. PICK l \in Loc, p \in Path, m \in Mode : DropinInit(l, p, m)
      BY <1>5
    <2>2. PICK o \in Opening(WithoutCurrent.table, p, m) :
            table' = o.table /\ loc' = [WithoutCurrent.loc EXCEPT ![l] = o.handle]
      BY <2>1 DEF DropinInit
    <2>3. file' = file /\ dbmode[l] = None
      BY <2>1 DEF DropinInit
    <2>4. /\ Good(WithoutCurrent.table, WithoutCurrent.loc)
          /\ WithoutCurrent.loc \in [Loc -> Handle]
          /\ \A k \in Loc \ {current} : WithoutCurrent.loc[k] = loc[k]
          /\ current # None => WithoutCurrent.loc[current] = Closed
      BY WithoutGood
    <2>5. WithoutCurrent.loc[l] = Closed
      BY <2>3, <2>4, NoHandle, LocalAssumption DEF IInv
    <2>6. /\ loc' \in [Loc -> Handle \cup {o.handle}] /\ loc'[l] = o.handle
          /\ \A k \in Loc \ {l} : loc'[k] = WithoutCurrent.loc[k]
      BY <2>2, <2>4
    <2>7. Long(o.table, loc')
      BY <2>4, <2>5, <2>6, LongWithoutCurrent, LongOpened DEF IInv
    <2> QED BY <2>2, <2>3, <2>7 DEF Long, Roomy, Covered
  <1>6. CASE \E l \in Loc : CloseDatabase(l) \/ Collect(l)
    BY <1>2, <1>3, <1>6 DEF CloseDatabase, Collect, vars
  <1>7. CASE DropinClose
    <2>1. Long(WithoutCurrent.table, WithoutCurrent.loc)
      BY LongWithoutCurrent
    <2> QED BY <1>7, <2>1 DEF DropinClose, Long, Roomy, Covered
  <1>8. CASE \E p \in Path, d \in Db \cup {None} : Replace(p, d) /\ UNCHANGED objects
    <2>1. PICK p \in Path, d \in Db \cup {None} : Replace(p, d) /\ UNCHANGED objects
      BY <1>8
    <2>2. table' = table /\ loc' = loc /\ file' = [file EXCEPT ![p] = d]
      BY <2>1 DEF Replace
    <2>3. FitsMapped \/ file' = file
      BY DEF avars
    <2>4. ASSUME NEW m \in Mapped, NEW n \in T!Live(table[m]), file'[table[m][n].key] # None
          PROVE  DbSize[file'[table[m][n].key]] <= table[m][n].size
      <3> DEFINE q == table[m][n].key
      <3>1. q \in Path
        BY NodeOps DEF IInv, Good, T!Live
      <3>2. CASE file'[q] = file[q]
        BY <2>4, <3>2 DEF Long, Roomy
      <3>3. CASE file'[q] # file[q]
        BY <2>3, <2>4, <3>1, <3>3 DEF FitsMapped
      <3> QED BY <3>2, <3>3
    <2> QED BY <2>2, <2>4 DEF Long, Roomy, Covered
  <1>9. CASE UNCHANGED avars
    BY <1>3, <1>9 DEF avars, vars
  <1> QED BY <1>4, <1>5, <1>6, <1>7, <1>8, <1>9 DEF AddonNext

(***************************************************************************)
(* The memory that a location reads covers its file ("info.cachesize >=    *)
(* info.filesize", test/test.js:96), whatever is opened, closed, removed   *)
(* or replaced, as long as no file is put under a path that is longer than *)
(* what is mapped of that path at the time: that alone breaks              *)
(* MemoryCoversFile.                                                       *)
(***************************************************************************)
THEOREM MemoryCovers == AddonSpec /\ [][FitsMapped]_avars => []MemoryCoversFile
  <1>1. AddonInit => Long(table, loc)
    <2> SUFFICES ASSUME AddonInit, NEW m \in Mapped
                 PROVE  Roomy(table[m]) /\ Covered(table[m], loc, m)
      BY DEF Long
    <2>1. T!Live(table[m]) = {}
      BY DEF AddonInit, Init, T!Live, T!FreeNode
    <2>2. \A l \in Loc : loc[l].mode # m
      BY LocalAssumption DEF AddonInit, Init, Closed, Mode
    <2> QED BY <2>1, <2>2 DEF Roomy, Covered
  <1>2. IInv /\ Long(table, loc) /\ [AddonNext]_avars /\ [FitsMapped]_avars
        => Long(table, loc)'
    BY LongStep
  <1>3. IInv /\ Long(table, loc) => MemoryCoversFile
    BY DEF IInv, Good, HandlesOK, Long, Covered, MemoryCoversFile
  <1> QED BY Always, <1>1, <1>2, <1>3, PTL DEF AddonSpec

=============================================================================
