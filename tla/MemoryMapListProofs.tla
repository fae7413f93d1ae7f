------------------------- MODULE MemoryMapListProofs -------------------------
(***************************************************************************)
(* Proofs that the links of the memory map lists stay sound whatever is    *)
(* created, detached, detached again and freed, in lists of every length,  *)
(* and that the lists implement the table of nodes.                        *)
(***************************************************************************)
EXTENDS MemoryMapList, TLAPS

\* The fields of a structure after an assignment to some of them.
LEMMA Fields ==
  ASSUME NEW s \in Struct, NEW l \in Link, NEW r \in Link, NEW k \in 1 .. MaxUsers
  PROVE  /\ SetLinks(s, l, r) \in Struct
         /\ SetLinks(s, l, r).next = l /\ SetLinks(s, l, r).prev = r
         /\ SetLinks(s, l, r).type = s.type /\ SetLinks(s, l, r).count = s.count
         /\ SetCount(s, k) \in Struct
         /\ SetCount(s, k).count = k /\ SetCount(s, k).type = s.type
         /\ SetCount(s, k).next = s.next /\ SetCount(s, k).prev = s.prev
  BY DEF Struct, SetLinks, SetCount

\* An allocated structure has links to nodes, a freed one is not allocated.
LEMMA StructOf ==
  ASSUME TypeOK, NEW n \in Node
  PROVE  /\ n \in Allocated <=> mml[n] \in Struct
         /\ n \notin Allocated => mml[n] = Freed
         /\ n \in Allocated => /\ mml[n].next \in Link /\ mml[n].prev \in Link
                               /\ mml[n].type \in Type /\ mml[n].count \in 1 .. MaxUsers
  BY ListAssumption DEF TypeOK, Allocated, Struct, Freed

Inv == TypeOK /\ LinksSound

-----------------------------------------------------------------------------
(* Detaching a node                                                        *)

\* The new links of an allocated node m when n is detached.
NextAfter(n, m) == IF m = n THEN NULL
                   ELSE IF m = mml[n].prev THEN mml[n].next ELSE mml[m].next
PrevAfter(n, m) == IF m = n THEN NULL
                   ELSE IF m = mml[n].next THEN mml[n].prev ELSE mml[m].prev

\* What IP2LDetachMemoryMapNode makes of each allocated node.
LEMMA DetachedFields ==
  ASSUME Inv, NEW n \in Allocated, NEW m \in Allocated
  PROVE  /\ Detached(n)[m] \in Struct
         /\ Detached(n)[m].next = NextAfter(n, m)
         /\ Detached(n)[m].prev = PrevAfter(n, m)
         /\ Detached(n)[m].type = mml[m].type
         /\ Detached(n)[m].count = mml[m].count
  <1>1. n \in Node /\ m \in Node /\ mml[m] \in Struct /\ NULL \in Link
    BY StructOf DEF Inv, Allocated, Link
  <1>2. NextAfter(n, m) \in Link /\ PrevAfter(n, m) \in Link
    BY <1>1, StructOf DEF Inv, NextAfter, PrevAfter
  <1>3. Detached(n)[m] = SetLinks(mml[m], NextAfter(n, m), PrevAfter(n, m))
    BY <1>1 DEF Detached, NextAfter, PrevAfter
  <1>4. PICK k \in 1 .. MaxUsers : mml[m].count = k
    <2>1. mml[m].count \in 1 .. MaxUsers
      BY <1>1, StructOf DEF Inv
    <2> QED BY <2>1
  <1> DEFINE new == SetLinks(mml[m], NextAfter(n, m), PrevAfter(n, m))
  <1>5. /\ new \in Struct
        /\ new.next = NextAfter(n, m) /\ new.prev = PrevAfter(n, m)
        /\ new.type = mml[m].type /\ new.count = mml[m].count
    BY <1>1, <1>2, <1>4, Fields
  <1> QED BY <1>3, <1>5

\* A freed node is not touched: no sound link leads to it.
LEMMA DetachedFreed ==
  ASSUME Inv, NEW n \in Allocated, NEW m \in Node \ Allocated
  PROVE  Detached(n)[m] = Freed
  <1>1. n \in Node /\ m # n /\ mml[m] = Freed
    BY StructOf DEF Inv, Allocated
  <1>2. m # mml[n].prev /\ m # mml[n].next
    BY ListAssumption DEF Inv, LinksSound
  <1>3. Detached(n)[m] = SetLinks(Freed, Freed.next, Freed.prev)
    BY <1>1, <1>2 DEF Detached
  <1>4. SetLinks(Freed, Freed.next, Freed.prev) = Freed
    BY DEF SetLinks, Freed
  <1> QED BY <1>3, <1>4

\* The conjuncts of LinksSound, for given roots and structures.
RootSound(r, s, t) ==
  r[t] # NULL => /\ r[t] \in Node /\ s[r[t]].count > 0
                 /\ s[r[t]].type = t /\ s[r[t]].prev = NULL
NextSound(s, m) ==
  s[m].next # NULL => /\ s[m].next \in Node /\ s[s[m].next].count > 0
                      /\ s[s[m].next].type = s[m].type
                      /\ s[s[m].next].prev = m
PrevSound(s, m) ==
  s[m].prev # NULL => /\ s[m].prev \in Node /\ s[s[m].prev].count > 0
                      /\ s[s[m].prev].next = m
LooseSound(r, s, m) ==
  s[m].prev = NULL /\ r[s[m].type] # m => s[m].next = NULL
NodeSound(r, s, m) == NextSound(s, m) /\ PrevSound(s, m) /\ LooseSound(r, s, m)

Sound(r, s) ==
  /\ \A t \in Type : RootSound(r, s, t)
  /\ \A m \in Node : s[m].count > 0 => NodeSound(r, s, m)

FindSound ==
  find.at # NULL => find.at \in Allocated /\ mml[find.at].type = find.type

\* LinksSound of the next state, in terms of its roots and nodes.
LEMMA SoundNext == LinksSound' <=> Sound(root', mml') /\ FindSound'
  BY DEF LinksSound, FindSound, Sound, RootSound, NodeSound, NextSound, PrevSound,
         LooseSound, Allocated

\* Detaching keeps the links sound.
LEMMA DetachSound ==
  ASSUME Inv, NEW n \in Allocated
  PROVE  Sound(DetachedRoot(n), Detached(n))
  <1> DEFINE r == DetachedRoot(n)
             s == Detached(n)
  <1>0. /\ n \in Node /\ Allocated \subseteq Node /\ NULL \notin Node
        /\ TypeOK /\ LinksSound /\ mml[n].type \in Type
        /\ \A m \in Allocated : mml[m].type \in Type /\ mml[m].count \in 1 .. MaxUsers
    BY StructOf, ListAssumption DEF Inv, Allocated
  <1>1. \A m \in Allocated : /\ s[m].next = NextAfter(n, m)
                             /\ s[m].prev = PrevAfter(n, m)
                             /\ s[m].type = mml[m].type
                             /\ s[m].count > 0
    BY <1>0, DetachedFields
  <1>2. \A m \in Node : s[m].count > 0 => m \in Allocated
    BY DetachedFreed DEF Freed
  <1>3. \A t \in Type : r[t] = IF t = mml[n].type /\ root[t] = n THEN mml[n].next ELSE root[t]
    BY DEF DetachedRoot
  <1> HIDE DEF r, s
  <1>4. ASSUME NEW t \in Type PROVE RootSound(r, s, t)
    BY <1>0, <1>1, <1>3 DEF RootSound, LinksSound, PrevAfter
  <1>5. ASSUME NEW m \in Allocated PROVE NextSound(s, m)
    BY <1>0, <1>1 DEF NextSound, LinksSound, PrevAfter, NextAfter
  <1>6. ASSUME NEW m \in Allocated PROVE PrevSound(s, m)
    BY <1>0, <1>1 DEF PrevSound, LinksSound, PrevAfter, NextAfter
  <1>7. ASSUME NEW m \in Allocated PROVE LooseSound(r, s, m)
    BY <1>0, <1>1, <1>3 DEF LooseSound, LinksSound, PrevAfter, NextAfter
  <1>8. Sound(r, s)
    BY <1>2, <1>4, <1>5, <1>6, <1>7 DEF Sound, NodeSound
  <1> QED BY <1>8 DEF r, s

\* Detaching keeps the types.
LEMMA DetachType ==
  ASSUME Inv, NEW n \in Allocated
  PROVE  /\ DetachedRoot(n) \in [Type -> Link]
         /\ Detached(n) \in [Node -> {Freed} \cup Struct]
  <1>1. mml[n].next \in Link /\ root \in [Type -> Link]
    BY StructOf DEF Inv, TypeOK, Allocated
  <1>2. ASSUME NEW m \in Node PROVE Detached(n)[m] \in {Freed} \cup Struct
    BY DetachedFields, DetachedFreed
  <1>3. Detached(n) = [m \in Node |-> Detached(n)[m]]
    BY DEF Detached
  <1> QED BY <1>1, <1>2, <1>3 DEF DetachedRoot

-----------------------------------------------------------------------------
(* Counting, freeing, prepending and finding                               *)

\* Changing a count leaves the lists alone.
LEMMA SetCountInv ==
  ASSUME Inv, NEW n \in Allocated, NEW k \in 1 .. MaxUsers,
         mml' = [mml EXCEPT ![n] = SetCount(mml[n], k)], root' = root,
         find' \in {NoFind, find}
  PROVE  Inv'
  <1>1. n \in Node /\ mml[n] \in Struct /\ TypeOK /\ LinksSound /\ NULL \notin Node
    BY StructOf, ListAssumption DEF Inv, Allocated
  <1>2. /\ SetCount(mml[n], k) \in Struct /\ SetCount(mml[n], k).count = k
        /\ SetCount(mml[n], k).type = mml[n].type
        /\ SetCount(mml[n], k).next = mml[n].next
        /\ SetCount(mml[n], k).prev = mml[n].prev
    BY <1>1, Fields DEF Link
  <1>3. TypeOK'
    BY <1>1, <1>2 DEF TypeOK, NoFind
  <1>4. k > 0 /\ mml[n].count > 0
    BY DEF Allocated
  <1>5. \A m \in Node : /\ mml'[m].next = mml[m].next /\ mml'[m].prev = mml[m].prev
                        /\ mml'[m].type = mml[m].type
                        /\ (mml'[m].count > 0) = (mml[m].count > 0)
    BY <1>1, <1>2, <1>4 DEF TypeOK
  <1>6. LinksSound'
    BY <1>1, <1>5 DEF LinksSound, Allocated, NoFind
  <1> QED BY <1>3, <1>6 DEF Inv

\* Freeing a detached node leaves the others sound.
LEMMA FreeSound ==
  ASSUME NULL \notin Node, NEW r, NEW s \in [Node -> {Freed} \cup Struct], NEW n \in Node,
         Sound(r, s), \A t \in Type : r[t] # n,
         s[n].next = NULL, s[n].prev = NULL, s[n].count > 0
  PROVE  Sound(r, [s EXCEPT ![n] = Freed])
  <1> DEFINE u == [s EXCEPT ![n] = Freed]
  <1>1. \A m \in Node \ {n} : u[m] = s[m]
    OBVIOUS
  <1>2. u[n].count = 0
    BY DEF Freed
  <1>3. \A m \in Node : s[m].count > 0 => s[m].next # n /\ s[m].prev # n
    BY DEF Sound, NodeSound, NextSound, PrevSound
  <1> HIDE DEF u
  <1>4. ASSUME NEW t \in Type PROVE RootSound(r, u, t)
    BY <1>1 DEF Sound, RootSound
  <1>5. ASSUME NEW m \in Node, u[m].count > 0 PROVE NodeSound(r, u, m)
    <2>1. m # n /\ u[m] = s[m] /\ NodeSound(r, s, m) /\ s[m].next # n /\ s[m].prev # n
      BY <1>1, <1>2, <1>3, <1>5 DEF Sound
    <2> QED BY <1>1, <2>1 DEF NodeSound, NextSound, PrevSound, LooseSound
  <1>6. Sound(r, u)
    BY <1>4, <1>5 DEF Sound
  <1> QED BY <1>6 DEF u

\* What IP2LPrependMemoryMapNode makes of each node.
LEMMA PrependedFields ==
  ASSUME Inv, NEW t \in Type, NEW nm \in Name, NEW n \in Node \ Allocated
  PROVE  /\ Prepended(n, t, nm) \in [Node -> {Freed} \cup Struct]
         /\ Prepended(n, t, nm)[n].type = t /\ Prepended(n, t, nm)[n].count = 1
         /\ Prepended(n, t, nm)[n].next = root[t] /\ Prepended(n, t, nm)[n].prev = NULL
         /\ \A m \in Allocated :
              /\ Prepended(n, t, nm)[m].type = mml[m].type
              /\ Prepended(n, t, nm)[m].count = mml[m].count
              /\ Prepended(n, t, nm)[m].next = mml[m].next
              /\ Prepended(n, t, nm)[m].prev = IF m = root[t] THEN n ELSE mml[m].prev
         /\ \A m \in Node \ (Allocated \cup {n}) : Prepended(n, t, nm)[m] = Freed
  <1> DEFINE s == Prepended(n, t, nm)
             new == [type |-> t, name |-> nm, next |-> root[t], prev |-> NULL, count |-> 1]
  <1>1. root[t] \in Link /\ NULL \in Link /\ n \in Link /\ n \in Node
    BY DEF Inv, TypeOK, Link
  <1>2. s[n] = new /\ new \in Struct
    BY <1>1, ListAssumption DEF Prepended, Struct
  <1>3. ASSUME NEW m \in Allocated
        PROVE  /\ s[m] \in Struct
               /\ s[m].type = mml[m].type /\ s[m].count = mml[m].count
               /\ s[m].next = mml[m].next
               /\ s[m].prev = IF m = root[t] THEN n ELSE mml[m].prev
    <2>1. m \in Node /\ m # n
      BY DEF Allocated
    <2>2. /\ mml[m] \in Struct /\ mml[m].next \in Link /\ mml[m].prev \in Link
          /\ mml[m].count \in 1 .. MaxUsers
      BY <2>1, StructOf DEF Inv
    <2>3. s[m] = SetLinks(mml[m], mml[m].next, IF m = root[t] THEN n ELSE mml[m].prev)
      BY <2>1 DEF Prepended
    <2> DEFINE q == IF m = root[t] THEN n ELSE mml[m].prev
    <2>4. q \in Link
      BY <1>1, <2>2
    <2> HIDE DEF s, q
    <2>5. /\ SetLinks(mml[m], mml[m].next, q) \in Struct
          /\ SetLinks(mml[m], mml[m].next, q).next = mml[m].next
          /\ SetLinks(mml[m], mml[m].next, q).prev = q
          /\ SetLinks(mml[m], mml[m].next, q).type = mml[m].type
          /\ SetLinks(mml[m], mml[m].next, q).count = mml[m].count
      BY <2>2, <2>4, Fields
    <2>6. s[m] = SetLinks(mml[m], mml[m].next, q)
      BY <2>3 DEF q
    <2> QED BY <2>5, <2>6 DEF q
  <1>4. ASSUME NEW m \in Node \ (Allocated \cup {n}) PROVE s[m] = Freed
    <2>1. mml[m] = Freed /\ m # n /\ m # root[t]
      BY StructOf, ListAssumption DEF Inv, LinksSound
    <2>2. s[m] = SetLinks(Freed, Freed.next, Freed.prev)
      BY <2>1 DEF Prepended
    <2> QED BY <2>2 DEF SetLinks, Freed
  <1>5. s = [m \in Node |-> s[m]]
    BY DEF Prepended
  <1> HIDE DEF s
  <1>6. s \in [Node -> {Freed} \cup Struct]
    BY <1>2, <1>3, <1>4, <1>5
  <1> QED BY <1>2, <1>3, <1>4, <1>6 DEF s

\* Prepending a new node keeps the links sound.
LEMMA PrependSound ==
  ASSUME Inv, NEW t \in Type, NEW nm \in Name, NEW n \in Node \ Allocated
  PROVE  Sound([root EXCEPT ![t] = n], Prepended(n, t, nm))
  <1> DEFINE r == [root EXCEPT ![t] = n]
             s == Prepended(n, t, nm)
  <1>0. /\ Allocated \subseteq Node /\ NULL \notin Node /\ n \notin Allocated /\ n \in Node
        /\ TypeOK /\ LinksSound
        /\ \A m \in Allocated : mml[m].type \in Type /\ mml[m].count \in 1 .. MaxUsers
    BY StructOf, ListAssumption DEF Inv, Allocated
  <1>1. \A m \in Allocated : /\ s[m].type = mml[m].type /\ s[m].count > 0
                             /\ s[m].next = mml[m].next
                             /\ s[m].prev = IF m = root[t] THEN n ELSE mml[m].prev
    BY <1>0, PrependedFields
  <1>2. s[n].type = t /\ s[n].count > 0 /\ s[n].next = root[t] /\ s[n].prev = NULL
    BY PrependedFields
  <1>3. \A m \in Node : s[m].count > 0 => m \in Allocated \cup {n}
    BY PrependedFields DEF Freed
  <1>4. \A u \in Type : r[u] = IF u = t THEN n ELSE root[u]
    BY <1>0 DEF TypeOK
  <1> HIDE DEF r, s
  <1>5. ASSUME NEW u \in Type PROVE RootSound(r, s, u)
    BY <1>0, <1>1, <1>2, <1>4 DEF RootSound, LinksSound
  <1>6. ASSUME NEW m \in Allocated \cup {n} PROVE NextSound(s, m)
    BY <1>0, <1>1, <1>2 DEF NextSound, LinksSound
  <1>7. ASSUME NEW m \in Allocated \cup {n} PROVE PrevSound(s, m)
    BY <1>0, <1>1, <1>2 DEF PrevSound, LinksSound
  <1>8. ASSUME NEW m \in Allocated \cup {n} PROVE LooseSound(r, s, m)
    BY <1>0, <1>1, <1>2, <1>4 DEF LooseSound, LinksSound
  <1>9. Sound(r, s)
    BY <1>3, <1>5, <1>6, <1>7, <1>8 DEF Sound, NodeSound
  <1> QED BY <1>9 DEF r, s

-----------------------------------------------------------------------------
(* The actions                                                             *)

\* A step that detaches a node and stops searching keeps the invariant.
LEMMA DetachInv ==
  ASSUME Inv, NEW n \in Allocated, root' = DetachedRoot(n), mml' = Detached(n),
         \/ find' = find
         \/ find' \in [type : Type, name : Name, at : {NULL}]
  PROVE  Inv'
  <1>1. TypeOK'
    BY DetachType DEF Inv, TypeOK, Link
  <1>2. Sound(root', mml')
    BY DetachSound
  <1>3. FindSound'
    <2>1. CASE find' = find /\ find.at # NULL
      <3>1. find.at \in Allocated /\ mml[find.at].type = find.type /\ find.at \in Node
        BY <2>1 DEF Inv, LinksSound, Allocated
      <3>2. /\ mml'[find.at].type = mml[find.at].type
            /\ mml'[find.at].count = mml[find.at].count
        BY <3>1, DetachedFields
      <3> QED BY <2>1, <3>1, <3>2 DEF FindSound, Allocated
    <2>2. CASE find'.at = NULL
      BY <2>2 DEF FindSound
    <2> QED BY <2>1, <2>2
  <1> QED BY <1>1, <1>2, <1>3, SoundNext DEF Inv

\* IP2LocationDBClose keeps the invariant.
LEMMA CloseInv ==
  ASSUME Inv, NEW n \in Node, Close(n)
  PROVE  Inv'
  <1>0. n \in Allocated /\ mml[n] \in Struct /\ mml[n].count \in 1 .. MaxUsers
    BY StructOf DEF Close, Inv
  <1>1. CASE mml[n].count > 1
    <2>1. /\ mml' = [mml EXCEPT ![n] = SetCount(mml[n], mml[n].count - 1)]
          /\ root' = root /\ find' = find
      BY <1>1 DEF Close
    <2>2. mml[n].count - 1 \in 1 .. MaxUsers
      BY <1>0, <1>1, ListAssumption
    <2> QED BY <1>0, <2>1, <2>2, SetCountInv
  <1>2. CASE ~ (mml[n].count > 1)
    <2>1. /\ root' = DetachedRoot(n) /\ mml' = [Detached(n) EXCEPT ![n] = Freed]
          /\ find' = find /\ find = NoFind
      BY <1>2, ListAssumption DEF Close, Searching, Inv, TypeOK, NoFind
    <2>2. TypeOK'
      BY <2>1, <1>0, DetachType DEF TypeOK
    <2> DEFINE r == DetachedRoot(n)
               s == Detached(n)
    <2>3. Sound(r, s) /\ s \in [Node -> {Freed} \cup Struct]
      BY <1>0, DetachSound, DetachType
    <2>4. s[n].next = NULL /\ s[n].prev = NULL /\ s[n].count > 0 /\ s[n].type \in Type
      BY <1>0, DetachedFields DEF NextAfter, PrevAfter, Struct
    <2>5. \A t \in Type : r[t] # n
      <3>1. \A t \in Type : root[t] = n => t = mml[n].type
        BY <1>0, ListAssumption DEF Inv, LinksSound, Allocated
      <3>2. root[mml[n].type] = n => mml[n].next # n
        BY <1>0, ListAssumption, StructOf DEF Inv, LinksSound, Allocated
      <3> QED BY <3>1, <3>2 DEF DetachedRoot
    <2>6. mml' = [s EXCEPT ![n] = Freed] /\ root' = r
      BY <2>1
    <2> HIDE DEF r, s
    <2>7. Sound(root', mml')
      BY <2>3, <2>4, <2>5, <2>6, ListAssumption, FreeSound
    <2>8. FindSound'
      BY <2>1 DEF FindSound, NoFind
    <2> QED BY <2>2, <2>7, <2>8, SoundNext DEF Inv
  <1> QED BY <1>1, <1>2

\* The node a search has stopped at.
LEMMA FoundNode ==
  ASSUME Inv, Searching
  PROVE  /\ find \in [type : Type, name : Name, at : Link]
         /\ find.at # NULL => find.at \in Allocated
  BY DEF Inv, TypeOK, LinksSound, Searching, NoFind

\* A search starts at an allocated node or at the end.
LEMMA StartFindInv ==
  ASSUME Inv, NEW t \in Type, NEW nm \in Name, StartFind(t, nm)
  PROVE  Inv'
  <1>1. /\ root' = root /\ mml' = mml /\ TypeOK /\ LinksSound
        /\ find' = [type |-> t, name |-> nm, at |-> root[t]]
    BY DEF StartFind, FindFrom, Inv
  <1>2. root[t] \in Link
    BY <1>1 DEF TypeOK
  <1> QED BY <1>1, <1>2 DEF Inv, TypeOK, LinksSound, Allocated

\* A search goes from an allocated node to an allocated node.
LEMMA AdvanceInv ==
  ASSUME Inv, Advance
  PROVE  Inv'
  <1>1. /\ root' = root /\ mml' = mml /\ TypeOK /\ LinksSound /\ find.at # NULL
        /\ find' = [type |-> find.type, name |-> find.name, at |-> mml[find.at].next]
    BY DEF Advance, FindFrom, Inv
  <1>2. /\ find.at \in Allocated /\ mml[find.at].type = find.type
        /\ find.type \in Type /\ find.name \in Name
    BY <1>1, FoundNode DEF Advance, LinksSound
  <1>3. mml[find.at].next \in Link /\ find.at \in Node
    BY <1>1, <1>2, StructOf DEF Allocated
  <1> QED BY <1>1, <1>2, <1>3 DEF Inv, TypeOK, LinksSound, Allocated

\* count++ on the node that was found keeps the invariant.
LEMMA RetainInv ==
  ASSUME Inv, Retain
  PROVE  Inv'
  <1>1. find.at \in Allocated /\ find.at \in Node
    BY FoundNode DEF Retain, Allocated
  <1>2. mml[find.at].count + 1 \in 1 .. MaxUsers
    BY <1>1, StructOf, ListAssumption DEF Retain, Inv
  <1>3. /\ mml' = [mml EXCEPT ![find.at] = SetCount(mml[find.at], mml[find.at].count + 1)]
        /\ root' = root /\ find' = NoFind
    BY DEF Retain
  <1> QED BY <1>1, <1>2, <1>3, SetCountInv

\* The invariant holds in every state.
LEMMA InvHolds == Spec => []Inv
  <1>1. Init => Inv
    BY ListAssumption DEF Init, Inv, TypeOK, LinksSound, Link, Allocated, Freed, NoFind
  <1>2. Inv /\ [Next]_vars => Inv'
    <2> SUFFICES ASSUME Inv, [Next]_vars PROVE Inv'
      OBVIOUS
    <2>1. CASE UNCHANGED vars
      BY <2>1 DEF Inv, TypeOK, LinksSound, Allocated, vars
    <2>2. CASE Refuse
      BY <2>2 DEF Refuse, Inv, TypeOK, LinksSound, Allocated, NoFind
    <2>3. CASE Replace
      <3>1. find.at \in Allocated
        BY <2>3, FoundNode DEF Replace
      <3>2. find' \in [type : Type, name : Name, at : {NULL}]
        BY <2>3, FoundNode DEF Replace, FindFrom
      <3> QED BY <2>3, <3>1, <3>2, DetachInv DEF Replace
    <2>4. CASE Create
      <3>1. find.type \in Type /\ find.name \in Name
        BY <2>4, FoundNode DEF Create
      <3>2. PICK n \in Node \ Allocated :
              /\ root' = [root EXCEPT ![find.type] = n]
              /\ mml' = Prepended(n, find.type, find.name)
        BY <2>4 DEF Create
      <3>3. find' = NoFind
        BY <2>4 DEF Create
      <3>4. TypeOK'
        BY <3>1, <3>2, <3>3, PrependedFields DEF Inv, TypeOK, Link
      <3>5. Sound(root', mml')
        BY <3>1, <3>2, PrependSound
      <3>6. FindSound'
        BY <3>3 DEF FindSound, NoFind
      <3> QED BY <3>4, <3>5, <3>6, SoundNext DEF Inv
    <2>5. ASSUME NEW n \in Node, Drop(n) PROVE Inv'
      BY <2>5, DetachInv DEF Drop
    <2> QED BY <2>1, <2>2, <2>3, <2>4, <2>5, StartFindInv, AdvanceInv, RetainInv,
               CloseInv DEF Next
  <1> QED BY <1>1, <1>2, PTL DEF Spec

-----------------------------------------------------------------------------
(* The results                                                             *)

(***************************************************************************)
(* No link or root ever leads to a freed node or to another list, and next *)
(* and prev stay inverse, for lists of every length: what                  *)
(* IP2LDetachMemoryMapNode relies on holds whenever it is called.          *)
(***************************************************************************)
THEOREM ListsSound == Spec => []LinksSound
  <1>1. Inv => LinksSound
    BY DEF Inv
  <1> QED BY <1>1, InvHolds, PTL

(***************************************************************************)
(* Every structure is allocated with a count and links, or freed, and the  *)
(* search stands at a node or at the end of a list.                        *)
(***************************************************************************)
THEOREM TypeCorrect == Spec => []TypeOK
  <1>1. Inv => TypeOK
    BY DEF Inv
  <1> QED BY <1>1, InvHolds, PTL

-----------------------------------------------------------------------------
(* Which nodes are in the lists                                            *)

\* The list holds the allocated nodes that are not detached, each name once.
Attached(m) == mml[m].prev # NULL \/ root[mml[m].type] = m
Same(a, b) == mml[a].type = mml[b].type /\ mml[a].name = mml[b].name

AllListed == \A m \in Allocated : Attached(m) => m \in Listed(mml[m].type)
OneAttached == \A a, b \in Allocated : Attached(a) /\ Attached(b) /\ Same(a, b) => a = b

\* A search stands in the list, and what it looks for is not behind it.
Ahead ==
  Searching =>
    /\ find.at # NULL => Attached(find.at)
    /\ \A m \in Allocated :
         Attached(m) /\ mml[m].type = find.type /\ mml[m].name = find.name => m \in From(find.at)

ListInv == Inv /\ AllListed /\ OneAttached /\ Ahead

\* The lists hold no node but attached ones of their type.
LEMMA ListedAttached ==
  ASSUME Inv, NEW t \in Type, NEW m \in Listed(t)
  PROVE  m \in Allocated /\ mml[m].type = t /\ Attached(m)
  <1> DEFINE S == {k \in Allocated : mml[k].type = t /\ Attached(k)}
  <1>1. S \subseteq Node
    BY DEF Allocated
  <1>2. root[t] \in S \cup {NULL}
    BY DEF Inv, LinksSound, Attached
  <1>3. LinkClosed(S)
    <2> SUFFICES ASSUME NEW k \in S, mml[k].next # NULL PROVE mml[k].next \in S
      BY DEF LinkClosed
    <2>1. /\ mml[k].next \in Allocated /\ mml[mml[k].next].type = t
          /\ mml[mml[k].next].prev = k
      BY DEF Inv, LinksSound
    <2>2. k # NULL
      BY <1>1, ListAssumption
    <2> QED BY <2>1, <2>2 DEF Attached
  <1>4. m \in S
    BY <1>1, <1>2, <1>3 DEF Listed, From
  <1> QED BY <1>4

\* Nothing comes after the end of a list.
LEMMA FromEnd == From(NULL) = {}
  <1>1. {} \in SUBSET Node /\ LinkClosed({})
    BY DEF LinkClosed
  <1> QED BY <1>1 DEF From

\* What a list has from a node on is the node and what it has from the next one on.
LEMMA FromNext ==
  ASSUME NEW x \in Node, NEW m \in From(x), m # x
  PROVE  m \in From(mml[x].next)
  <1> SUFFICES ASSUME NEW S \in SUBSET Node, mml[x].next \in S \cup {NULL}, LinkClosed(S)
               PROVE  m \in S
    BY DEF From
  <1>1. LinkClosed(S \cup {x}) /\ S \cup {x} \in SUBSET Node
    BY DEF LinkClosed
  <1> QED BY <1>1 DEF From

\* Only the links count.
LEMMA FromSame ==
  ASSUME \A m \in Node : mml'[m].next = mml[m].next, NEW x
  PROVE  From(x)' = From(x)
  <1>1. ASSUME NEW S \in SUBSET Node PROVE LinkClosed(S)' <=> LinkClosed(S)
    BY DEF LinkClosed
  <1> QED BY <1>1 DEF From

\* A step that changes no link or root leaves the lists alone.
LEMMA LinksKept ==
  ASSUME ListInv, root' = root, Allocated' = Allocated,
         \A m \in Node : /\ mml'[m].next = mml[m].next /\ mml'[m].prev = mml[m].prev
                         /\ mml'[m].type = mml[m].type /\ mml'[m].name = mml[m].name
  PROVE  /\ AllListed' /\ OneAttached'
         /\ \A m \in Allocated : Attached(m)' <=> Attached(m)
  <1>1. \A m \in Allocated : (Attached(m)' <=> Attached(m)) /\ m \in Node
    BY DEF Attached, Allocated
  <1>2. \A t \in Type : Listed(t)' = Listed(t)
    BY FromSame DEF Listed
  <1>3. \A m \in Allocated : mml[m].type \in Type
    BY StructOf DEF ListInv, Inv, Allocated
  <1> QED BY <1>1, <1>2, <1>3 DEF ListInv, AllListed, OneAttached, Same

-----------------------------------------------------------------------------
(* How the lists change                                                    *)

\* The name of a node outlives its place in the list.
LEMMA DetachedName ==
  ASSUME NEW n \in Node, NEW m \in Node
  PROVE  Detached(n)[m].name = mml[m].name
  BY DEF Detached, SetLinks

(***************************************************************************)
(* IP2LDetachMemoryMapNode takes out the node and no other, and a second   *)
(* call takes out nothing: of the other nodes the same are attached, and   *)
(* they are still reached from the roots.                                  *)
(***************************************************************************)
LEMMA DetachTakesOne ==
  ASSUME ListInv, NEW n \in Allocated, root' = DetachedRoot(n),
         \A m \in Node \ {n} : mml'[m] = Detached(n)[m],
         mml'[n].next = NULL, mml'[n].prev = NULL
  PROVE  /\ \A m \in Allocated \ {n} :
              /\ m \in Allocated' /\ (Attached(m)' <=> Attached(m))
              /\ mml'[m].type = mml[m].type /\ mml'[m].name = mml[m].name
              /\ mml'[m].count = mml[m].count
              /\ Attached(m) => m \in Listed(mml[m].type)'
         /\ Allocated' \subseteq Allocated
         /\ mml'[n].type = mml[n].type => ~ Attached(n)'
  <1>1. /\ Inv /\ LinksSound /\ TypeOK /\ n \in Node /\ Allocated \subseteq Node
        /\ NULL \notin Node
    BY ListAssumption DEF ListInv, Inv, Allocated
  <1>2. ASSUME NEW m \in Allocated, m # n
        PROVE  /\ mml'[m].next = NextAfter(n, m) /\ mml'[m].prev = PrevAfter(n, m)
               /\ mml'[m].type = mml[m].type /\ mml'[m].count = mml[m].count
               /\ mml'[m].name = mml[m].name /\ m \in Node /\ mml[m].type \in Type
    BY <1>1, <1>2, DetachedFields, DetachedName, StructOf
  <1>3. ASSUME NEW m \in Node \ Allocated PROVE mml'[m] = Freed /\ mml[m] = Freed
    BY <1>1, DetachedFreed, StructOf
  <1>4. Allocated' \subseteq Allocated
    BY <1>3 DEF Allocated, Freed
  <1>5. \A t \in Type : root'[t] = IF t = mml[n].type /\ root[t] = n THEN mml[n].next ELSE root[t]
    BY DEF DetachedRoot
  <1>6. ASSUME NEW m \in Allocated, m # n
        PROVE  m \in Allocated' /\ (Attached(m)' <=> Attached(m))
    <2>1. m \in Allocated'
      BY <1>2, <1>6 DEF Allocated
    <2>2. CASE m = mml[n].next
      <3>1. mml[m].prev = n /\ mml[m].type = mml[n].type /\ n # NULL
        BY <1>1, <2>2 DEF LinksSound
      <3>2. Attached(m)
        BY <3>1 DEF Attached
      <3>3. mml'[m].prev = mml[n].prev
        BY <1>2, <1>6, <2>2 DEF PrevAfter
      <3>4. mml[n].prev = NULL => root[mml[n].type] = n
        BY <1>1, <2>2 DEF LinksSound
      <3>5. mml[n].prev = NULL => root'[mml[m].type] = m
        BY <1>2, <1>5, <1>6, <2>2, <3>1, <3>4
      <3> QED BY <1>2, <1>6, <2>1, <3>2, <3>3, <3>5 DEF Attached
    <2>3. CASE m # mml[n].next
      <3>1. mml'[m].prev = mml[m].prev /\ mml'[m].type = mml[m].type /\ mml[m].type \in Type
        BY <1>2, <1>6, <2>3 DEF PrevAfter
      <3>2. root'[mml[m].type] = m <=> root[mml[m].type] = m
        BY <1>5, <1>6, <2>3, <3>1
      <3> QED BY <2>1, <3>1, <3>2 DEF Attached
    <2> QED BY <2>2, <2>3
  <1>7. mml'[n].type = mml[n].type => ~ Attached(n)'
    <2>1. mml[n].type \in Type
      BY <1>1, StructOf
    <2>2. root[mml[n].type] = n => mml[n].next # n
      BY <1>1, <2>1 DEF LinksSound
    <2> QED BY <1>5, <2>1, <2>2 DEF Attached
  <1>8. ASSUME NEW m \in Allocated, m # n, Attached(m)
        PROVE  m \in Listed(mml[m].type)'
    <2> DEFINE t == mml[m].type
    <2> SUFFICES ASSUME NEW S \in SUBSET Node, root'[t] \in S \cup {NULL}, LinkClosed(S)'
                 PROVE  m \in S
      BY <1>2, <1>8 DEF Listed, From
    <2>1. t \in Type /\ m \in Listed(t)
      BY <1>2, <1>8 DEF ListInv, AllListed
    <2>2. \A k \in S : mml'[k].next \in S \cup {NULL}
      BY DEF LinkClosed
    <2>3. ASSUME NEW k \in Node, k # n
          PROVE  mml'[k].next = IF k = mml[n].prev THEN mml[n].next ELSE mml[k].next
      <3>1. CASE k \in Allocated
        BY <1>2, <2>3, <3>1 DEF NextAfter
      <3>2. CASE k \notin Allocated
        <4>1. k # mml[n].prev
          BY <1>1, <2>3, <3>2 DEF LinksSound
        <4> QED BY <1>3, <2>3, <3>2, <4>1
      <3> QED BY <3>1, <3>2
    <2> HIDE DEF t
    <2>4. CASE mml[n].next \in S \cup {NULL}
      <3>1. LinkClosed(S \cup {n})
        <4> SUFFICES ASSUME NEW k \in S \cup {n}
                     PROVE  mml[k].next \in S \cup {n} \cup {NULL}
          BY DEF LinkClosed
        <4>1. CASE k = n
          BY <2>4, <4>1
        <4>2. CASE k = mml[n].prev
          BY <1>1, <4>2 DEF LinksSound
        <4>3. CASE k # n /\ k # mml[n].prev
          BY <2>2, <2>3, <4>3
        <4> QED BY <4>1, <4>2, <4>3
      <3>2. root[t] \in S \cup {n} \cup {NULL}
        BY <1>5, <2>1
      <3>3. S \cup {n} \in SUBSET Node
        BY <1>1
      <3>4. m \in S \cup {n}
        BY <2>1, <3>1, <3>2, <3>3 DEF Listed, From
      <3> QED BY <1>8, <3>4
    <2>5. CASE mml[n].next \notin S \cup {NULL}
      <3>1. LinkClosed(S \ {n})
        <4> SUFFICES ASSUME NEW k \in S \ {n}
                     PROVE  mml[k].next \in (S \ {n}) \cup {NULL}
          BY DEF LinkClosed
        <4>1. k # mml[n].prev /\ mml'[k].next = mml[k].next
          BY <2>2, <2>3, <2>5
        <4>2. mml[k].next # n
          <5>1. CASE k \in Allocated
            BY <1>1, <4>1, <5>1 DEF LinksSound
          <5>2. CASE k \notin Allocated
            BY <1>1, <1>3, <5>2 DEF Freed
          <5> QED BY <5>1, <5>2
        <4> QED BY <2>2, <4>1, <4>2
      <3>2. root[t] \in (S \ {n}) \cup {NULL}
        <4>1. root[t] # n
          <5>1. root[t] = n => t = mml[n].type
            BY <1>1, <2>1 DEF LinksSound
          <5> QED BY <1>5, <2>1, <2>5, <5>1
        <4> QED BY <1>5, <2>1, <4>1
      <3>3. m \in S \ {n}
        BY <2>1, <3>1, <3>2 DEF Listed, From
      <3> QED BY <3>3
    <2> QED BY <2>4, <2>5
  <1> QED BY <1>2, <1>4, <1>6, <1>7, <1>8

(***************************************************************************)
(* IP2LPrependMemoryMapNode attaches the node and no other, and the others *)
(* are still reached from the roots.                                       *)
(***************************************************************************)
LEMMA PrependAddsOne ==
  ASSUME ListInv, NEW t \in Type, NEW nm \in Name, NEW n \in Node \ Allocated,
         root' = [root EXCEPT ![t] = n], mml' = Prepended(n, t, nm)
  PROVE  /\ \A m \in Allocated :
              /\ m # n /\ m \in Allocated' /\ (Attached(m)' <=> Attached(m))
              /\ mml'[m].type = mml[m].type /\ mml'[m].name = mml[m].name
              /\ mml'[m].count = mml[m].count
              /\ Attached(m) => m \in Listed(mml[m].type)'
         /\ Allocated' = Allocated \cup {n}
         /\ mml'[n].type = t /\ mml'[n].name = nm /\ mml'[n].count = 1
         /\ Attached(n)' /\ n \in Listed(t)'
  <1>1. /\ Inv /\ LinksSound /\ TypeOK /\ n \in Node /\ Allocated \subseteq Node
        /\ NULL \notin Node /\ n # NULL
    BY ListAssumption DEF ListInv, Inv, Allocated
  <1>2. /\ mml'[n].type = t /\ mml'[n].count = 1 /\ mml'[n].next = root[t] /\ mml'[n].prev = NULL
        /\ \A m \in Allocated :
             /\ mml'[m].type = mml[m].type /\ mml'[m].count = mml[m].count
             /\ mml'[m].next = mml[m].next
             /\ mml'[m].prev = IF m = root[t] THEN n ELSE mml[m].prev
        /\ \A m \in Node \ (Allocated \cup {n}) : mml'[m] = Freed
    BY <1>1, PrependedFields
  <1>3. mml'[n].name = nm
    BY <1>1 DEF Prepended
  <1>4. \A m \in Allocated : mml'[m].name = mml[m].name
    <2> TAKE m \in Allocated
    <2> DEFINE q == IF m = root[t] THEN n ELSE mml[m].prev
    <2>1. m # n /\ m \in Node
      BY <1>1
    <2>2. mml'[m] = SetLinks(mml[m], mml[m].next, q)
      BY <2>1 DEF Prepended
    <2> HIDE DEF q
    <2> QED BY <2>2 DEF SetLinks
  <1>5. \A u \in Type : root'[u] = IF u = t THEN n ELSE root[u]
    BY <1>1 DEF TypeOK
  <1>6. Allocated' = Allocated \cup {n}
    <2>1. \A m \in Allocated : m \in Allocated'
      BY <1>2 DEF Allocated
    <2>2. n \in Allocated'
      BY <1>1, <1>2 DEF Allocated
    <2>3. \A m \in Node \ (Allocated \cup {n}) : m \notin Allocated'
      BY <1>2 DEF Allocated, Freed
    <2> QED BY <1>1, <2>1, <2>2, <2>3 DEF Allocated
  <1>7. \A m \in Allocated : m # n /\ m \in Node /\ mml[m].type \in Type
    BY <1>1, StructOf
  <1>8. ASSUME NEW m \in Allocated PROVE Attached(m)' <=> Attached(m)
    <2>1. CASE m = root[t]
      BY <1>1, <1>2, <2>1 DEF Attached, LinksSound
    <2>2. CASE m # root[t]
      <3>1. mml'[m].prev = mml[m].prev /\ mml'[m].type = mml[m].type /\ mml[m].type \in Type
        BY <1>2, <1>7, <2>2
      <3>2. root'[mml[m].type] = m <=> root[mml[m].type] = m
        BY <1>5, <1>7, <2>2
      <3> QED BY <3>1, <3>2 DEF Attached
    <2> QED BY <2>1, <2>2
  <1>9. Attached(n)'
    BY <1>2, <1>5 DEF Attached
  <1>10. ASSUME NEW S \in SUBSET Node, NEW u \in Type,
                root'[u] \in S \cup {NULL}, LinkClosed(S)'
         PROVE  LinkClosed(S) /\ root[u] \in S \cup {NULL} /\ (u = t => n \in S)
    <2>1. \A k \in S : mml'[k].next \in S \cup {NULL}
      BY <1>10 DEF LinkClosed
    <2>2. ASSUME NEW k \in S PROVE mml[k].next \in S \cup {NULL}
      <3>1. CASE k \in Allocated
        BY <1>2, <2>1, <3>1
      <3>2. CASE k \notin Allocated
        <4>1. mml[k] = Freed
          BY <1>1, <3>2, StructOf
        <4> QED BY <4>1 DEF Freed
      <3> QED BY <3>1, <3>2
    <2>3. u = t => n \in S
      BY <1>1, <1>5, <1>10
    <2>4. root[u] \in S \cup {NULL}
      BY <1>2, <1>5, <1>10, <2>1, <2>3
    <2> QED BY <2>2, <2>3, <2>4 DEF LinkClosed
  <1>11. ASSUME NEW m \in Allocated, Attached(m) PROVE m \in Listed(mml[m].type)'
    <2>1. m \in Listed(mml[m].type) /\ mml[m].type \in Type /\ m \in Node
      BY <1>7, <1>11 DEF ListInv, AllListed
    <2>2. ASSUME NEW S \in SUBSET Node, root'[mml[m].type] \in S \cup {NULL}, LinkClosed(S)'
          PROVE  m \in S
      BY <1>10, <2>1, <2>2 DEF Listed, From
    <2>3. mml'[m].type = mml[m].type
      BY <1>2
    <2> QED BY <2>1, <2>2, <2>3 DEF Listed, From
  <1>12. n \in Listed(t)'
    BY <1>1, <1>10 DEF Listed, From
  <1> QED BY <1>2, <1>3, <1>4, <1>6, <1>7, <1>8, <1>9, <1>11, <1>12

\* After a node is taken out what is left of the lists is complete and without repeats.
LEMMA DetachLists ==
  ASSUME ListInv, NEW n \in Allocated, root' = DetachedRoot(n),
         \A m \in Node \ {n} : mml'[m] = Detached(n)[m],
         mml'[n].next = NULL, mml'[n].prev = NULL,
         n \in Allocated' => mml'[n].type = mml[n].type
  PROVE  AllListed' /\ OneAttached'
  <1>1. ASSUME NEW m \in Allocated', Attached(m)'
        PROVE  /\ m \in Allocated \ {n} /\ Attached(m)
               /\ mml'[m].type = mml[m].type /\ mml'[m].name = mml[m].name
               /\ m \in Listed(mml[m].type)'
    BY <1>1, DetachTakesOne
  <1>3. AllListed'
    BY <1>1 DEF AllListed
  <1>4. OneAttached'
    BY <1>1 DEF OneAttached, Same, ListInv
  <1> QED BY <1>3, <1>4

-----------------------------------------------------------------------------
(* The lists stay complete                                                 *)

\* A search that runs has a type, a name and a place.
LEMMA SearchTypes ==
  ASSUME Inv, Searching
  PROVE  /\ find.type \in Type /\ find.name \in Name /\ find.at \in Link
         /\ find.at # NULL => /\ find.at \in Allocated /\ find.at \in Node
                              /\ mml[find.at].type = find.type
  BY FoundNode DEF Inv, LinksSound, Allocated

LEMMA StartFindLists ==
  ASSUME ListInv, NEW t \in Type, NEW nm \in Name, StartFind(t, nm)
  PROVE  AllListed' /\ OneAttached' /\ Ahead'
  <1>1. /\ root' = root /\ mml' = mml /\ Allocated' = Allocated
        /\ find'.type = t /\ find'.at = root[t]
    BY DEF StartFind, FindFrom, Allocated
  <1>2. /\ AllListed' /\ OneAttached' /\ \A m \in Allocated : Attached(m)' <=> Attached(m)
    BY <1>1, LinksKept
  <1>3. ASSUME NEW m \in Allocated, Attached(m), mml[m].type = t PROVE m \in From(root[t])'
    BY <1>1, <1>3 DEF ListInv, AllListed, Listed, From, LinkClosed
  <1>4. root[t] # NULL => root[t] \in Allocated /\ Attached(root[t])
    BY DEF ListInv, Inv, LinksSound, Attached
  <1>5. Ahead'
    BY <1>1, <1>2, <1>3, <1>4 DEF Ahead
  <1> QED BY <1>2, <1>5

LEMMA AdvanceLists ==
  ASSUME ListInv, Advance
  PROVE  AllListed' /\ OneAttached' /\ Ahead'
  <1>1. /\ root' = root /\ mml' = mml /\ Allocated' = Allocated /\ Searching
        /\ find'.type = find.type /\ find'.name = find.name /\ find'.at = mml[find.at].next
        /\ find.at # NULL /\ mml[find.at].name # find.name
    BY DEF Advance, FindFrom, Allocated
  <1>2. AllListed' /\ OneAttached' /\ \A m \in Allocated : Attached(m)' <=> Attached(m)
    BY <1>1, LinksKept
  <1>3. PICK x \in Allocated : x = find.at
    BY <1>1, SearchTypes DEF ListInv
  <1>4. PICK y : y = mml[x].next
    OBVIOUS
  <1>5. ASSUME NEW m \in Allocated, Attached(m), mml[m].type = find.type,
               mml[m].name = find.name
        PROVE  m \in From(y)'
    <2>1. m \in From(x) /\ m # x /\ x \in Node
      BY <1>1, <1>3, <1>5 DEF ListInv, Ahead, Allocated
    <2>2. m \in From(y)
      BY <1>4, <2>1, FromNext
    <2> QED BY <1>1, <2>2 DEF From, LinkClosed
  <1>6. y # NULL => y \in Allocated /\ Attached(y)
    <2>1. y # NULL => y \in Allocated /\ mml[y].prev = x
      BY <1>3, <1>4 DEF ListInv, Inv, LinksSound
    <2> QED BY <1>1, <1>3, <2>1 DEF Attached
  <1>7. find'.at = y
    BY <1>1, <1>3, <1>4
  <1>8. Ahead'
    BY <1>1, <1>2, <1>5, <1>6, <1>7 DEF Ahead
  <1> QED BY <1>2, <1>8

\* A new count changes no list, and the search is over.
LEMMA CountLists ==
  ASSUME ListInv, NEW n \in Allocated, NEW k \in 1 .. MaxUsers,
         mml' = [mml EXCEPT ![n] = SetCount(mml[n], k)], root' = root, find' = NoFind
  PROVE  /\ AllListed' /\ OneAttached' /\ Ahead'
         /\ Allocated' = Allocated
         /\ \A m \in Allocated : Attached(m)' <=> Attached(m)
  <1>1. n \in Node /\ mml[n] \in Struct /\ mml \in [Node -> {Freed} \cup Struct]
    BY StructOf DEF ListInv, Inv, TypeOK, Allocated
  <1>2. \A m \in Node : /\ mml'[m].next = mml[m].next /\ mml'[m].prev = mml[m].prev
                        /\ mml'[m].type = mml[m].type /\ mml'[m].name = mml[m].name
                        /\ (mml'[m].count > 0) = (mml[m].count > 0)
    BY <1>1 DEF SetCount, Struct, Allocated
  <1>3. Allocated' = Allocated
    BY <1>2 DEF Allocated
  <1>4. Ahead'
    BY DEF Ahead, Searching, NoFind
  <1> QED BY <1>2, <1>3, <1>4, LinksKept

\* IP2LDetachMemoryMapNode keeps all but the links.
LEMMA DetachedRest ==
  ASSUME Inv, NEW n \in Allocated, mml' = Detached(n)
  PROVE  /\ mml'[n].next = NULL /\ mml'[n].prev = NULL /\ n \in Allocated'
         /\ mml'[n].type = mml[n].type /\ mml'[n].name = mml[n].name
         /\ mml'[n].count = mml[n].count
  <1>1. n \in Node
    BY DEF Allocated
  <1>2. /\ mml'[n].next = NULL /\ mml'[n].prev = NULL /\ mml'[n].type = mml[n].type
        /\ mml'[n].count = mml[n].count
    BY DetachedFields DEF NextAfter, PrevAfter
  <1>3. mml'[n].name = mml[n].name
    BY <1>1, DetachedName
  <1> QED BY <1>1, <1>2, <1>3 DEF Allocated

LEMMA ReplaceLists ==
  ASSUME ListInv, Replace
  PROVE  AllListed' /\ OneAttached' /\ Ahead'
  <1>0. PICK n \in Allocated : n = find.at /\ mml[n].type = find.type /\ Attached(n)
    BY SearchTypes DEF Replace, ListInv, Ahead
  <1>1. /\ root' = DetachedRoot(n) /\ mml' = Detached(n)
        /\ mml[n].name = find.name /\ find'.type = find.type /\ find'.name = find.name
        /\ find'.at = NULL
    BY <1>0 DEF Replace, FindFrom
  <1>2. n \in Allocated /\ mml[n].type = find.type /\ Attached(n)
    BY <1>0
  <1>3. /\ mml'[n].next = NULL /\ mml'[n].prev = NULL /\ mml'[n].type = mml[n].type
    BY <1>1, <1>2, DetachedRest DEF ListInv
  <1>4. AllListed' /\ OneAttached'
    BY <1>1, <1>2, <1>3, DetachLists
  <1>5. /\ \A m \in Allocated \ {n} : /\ Attached(m)' <=> Attached(m)
                                      /\ mml'[m].type = mml[m].type /\ mml'[m].name = mml[m].name
        /\ Allocated' \subseteq Allocated /\ ~ Attached(n)'
    BY <1>1, <1>2, <1>3, DetachTakesOne
  <1>6. ASSUME NEW m \in Allocated', Attached(m)', mml'[m].type = find.type,
               mml'[m].name = find.name
        PROVE  FALSE
    <2>1. m \in Allocated \ {n}
      BY <1>5, <1>6
    <2>2. Attached(m) /\ Same(m, n)
      BY <1>1, <1>2, <1>5, <1>6, <2>1 DEF Same
    <2> QED BY <1>2, <2>1, <2>2 DEF ListInv, OneAttached
  <1>7. Ahead'
    BY <1>1, <1>6 DEF Ahead
  <1> QED BY <1>4, <1>7

\* A search that ran off the list has shown that the name is not in it.
LEMMA NotThere ==
  ASSUME ListInv, Searching, find.at = NULL,
         NEW m \in Allocated, Attached(m), mml[m].type = find.type
  PROVE  mml[m].name # find.name
  BY FromEnd DEF ListInv, Ahead

LEMMA CreateLists ==
  ASSUME ListInv, Create
  PROVE  AllListed' /\ OneAttached' /\ Ahead'
  <1>1. Searching /\ find.at = NULL /\ find' = NoFind
    BY DEF Create
  <1>2. PICK t \in Type, nm \in Name : t = find.type /\ nm = find.name
    BY <1>1, SearchTypes DEF ListInv
  <1>3. PICK n \in Node \ Allocated :
          root' = [root EXCEPT ![t] = n] /\ mml' = Prepended(n, t, nm)
    BY <1>2 DEF Create
  <1>4. ASSUME NEW m \in Allocated
        PROVE  /\ m # n /\ (Attached(m)' <=> Attached(m))
               /\ mml'[m].type = mml[m].type /\ mml'[m].name = mml[m].name
    BY <1>3, PrependAddsOne
  <1>10. Allocated' = Allocated \cup {n} /\ Attached(n)'
    BY <1>3, PrependAddsOne
  <1>11. mml'[n].type = t /\ mml'[n].name = nm
    BY <1>3 DEF Prepended
  <1>8. ASSUME NEW m \in Allocated, Attached(m) PROVE m \in Listed(mml[m].type)'
    BY <1>3, <1>8, PrependAddsOne
  <1>9. n \in Listed(t)'
    BY <1>3, PrependAddsOne
  <1>5. AllListed'
    BY <1>4, <1>8, <1>9, <1>10, <1>11 DEF AllListed, Listed
  <1>6. OneAttached'
    BY <1>1, <1>2, <1>4, <1>10, <1>11, NotThere DEF OneAttached, Same, ListInv
  <1>7. Ahead'
    BY <1>1 DEF Ahead, Searching, NoFind
  <1> QED BY <1>5, <1>6, <1>7

\* No search runs: find is as at the beginning.
LEMMA Quiet ==
  ASSUME Inv, ~ Searching
  PROVE  find = NoFind
  BY ListAssumption DEF Inv, TypeOK, Searching

LEMMA DropLists ==
  ASSUME ListInv, NEW n \in Node, Drop(n)
  PROVE  AllListed' /\ OneAttached' /\ Ahead'
  <1>1. /\ n \in Allocated /\ root' = DetachedRoot(n) /\ mml' = Detached(n)
        /\ ~ Searching /\ find' = find
    BY DEF Drop
  <1>2. mml'[n].next = NULL /\ mml'[n].prev = NULL /\ mml'[n].type = mml[n].type
    BY <1>1, DetachedRest DEF ListInv
  <1>3. AllListed' /\ OneAttached'
    BY <1>1, <1>2, DetachLists
  <1> QED BY <1>1, <1>3 DEF Ahead, Searching

\* The structure of a node whose last user is gone is freed.
LEMMA FreedRest ==
  ASSUME Inv, NEW n \in Node, Close(n), ~ (mml[n].count > 1)
  PROVE  /\ n \in Allocated /\ mml[n].count = 1 /\ root' = DetachedRoot(n)
         /\ \A m \in Node \ {n} : mml'[m] = Detached(n)[m]
         /\ mml'[n] = Freed /\ mml'[n].next = NULL /\ mml'[n].prev = NULL
         /\ n \notin Allocated'
  <1>1. /\ n \in Allocated /\ root' = DetachedRoot(n)
        /\ mml' = [Detached(n) EXCEPT ![n] = Freed]
    BY DEF Close
  <1>2. mml[n].count = 1
    BY <1>1, StructOf, ListAssumption DEF Inv
  <1>3. mml'[n] = Freed /\ \A m \in Node \ {n} : mml'[m] = Detached(n)[m]
    BY <1>1 DEF Detached
  <1> QED BY <1>1, <1>2, <1>3 DEF Freed, Allocated

LEMMA CloseLists ==
  ASSUME ListInv, NEW n \in Node, Close(n)
  PROVE  AllListed' /\ OneAttached' /\ Ahead'
  <1>1. n \in Allocated /\ ~ Searching /\ find' = find /\ Inv
    BY DEF Close, ListInv
  <1>2. find' = NoFind
    BY <1>1, Quiet
  <1>3. CASE mml[n].count > 1
    <2>1. mml[n].count - 1 \in 1 .. MaxUsers
      BY <1>1, <1>3, StructOf, ListAssumption DEF Inv
    <2>2. mml' = [mml EXCEPT ![n] = SetCount(mml[n], mml[n].count - 1)] /\ root' = root
      BY <1>3 DEF Close
    <2> QED BY <1>1, <1>2, <2>1, <2>2, CountLists
  <1>4. CASE ~ (mml[n].count > 1)
    <2>1. /\ root' = DetachedRoot(n) /\ \A m \in Node \ {n} : mml'[m] = Detached(n)[m]
          /\ mml'[n].next = NULL /\ mml'[n].prev = NULL /\ n \notin Allocated'
      BY <1>1, <1>4, FreedRest
    <2>2. AllListed' /\ OneAttached'
      BY <1>1, <2>1, DetachLists
    <2> QED BY <1>1, <2>2 DEF Ahead, Searching
  <1> QED BY <1>3, <1>4

LEMMA RetainLists ==
  ASSUME ListInv, Retain
  PROVE  AllListed' /\ OneAttached' /\ Ahead'
  <1>1. PICK n \in Allocated : n = find.at
    BY SearchTypes DEF Retain, ListInv
  <1>2. mml[n].count + 1 \in 1 .. MaxUsers
    BY <1>1, StructOf, ListAssumption DEF Retain, ListInv, Inv, Allocated
  <1>3. /\ mml' = [mml EXCEPT ![n] = SetCount(mml[n], mml[n].count + 1)]
        /\ root' = root /\ find' = NoFind
    BY <1>1 DEF Retain
  <1> QED BY <1>2, <1>3, CountLists

\* The lists are complete and without repeats in every state.
LEMMA ListInvHolds == Spec => []ListInv
  <1>1. Init => AllListed /\ OneAttached /\ Ahead
    BY DEF Init, AllListed, OneAttached, Ahead, Allocated, Freed, Searching, NoFind
  <1>2. ListInv /\ [Next]_vars => AllListed' /\ OneAttached' /\ Ahead'
    <2> SUFFICES ASSUME ListInv, [Next]_vars PROVE AllListed' /\ OneAttached' /\ Ahead'
      OBVIOUS
    <2>1. CASE UNCHANGED vars
      BY <2>1 DEF ListInv, AllListed, OneAttached, Ahead, Allocated, Attached, Same, Listed,
                  From, LinkClosed, Searching, vars
    <2>2. CASE Refuse
      <3>1. root' = root /\ mml' = mml /\ find' = NoFind
        BY <2>2 DEF Refuse
      <3>2. AllListed' /\ OneAttached'
        BY <3>1 DEF ListInv, AllListed, OneAttached, Allocated, Attached, Same, Listed,
                    From, LinkClosed
      <3> QED BY <3>1, <3>2 DEF Ahead, Searching, NoFind
    <2> QED BY <2>1, <2>2, StartFindLists, AdvanceLists, RetainLists, ReplaceLists,
               CreateLists, DropLists, CloseLists DEF Next
  <1> QED BY <1>1, <1>2, InvHolds, PTL DEF Spec, ListInv

-----------------------------------------------------------------------------
(* The lists implement the table                                           *)

Key == Type \X Name
Row == [key : Key, res : {NULL}, size : Nat, count : Nat, listed : BOOLEAN, copied : BOOLEAN]

\* The row of a node with this key and these users, which is listed or not.
IsRow(r, k, c, l) ==
  /\ r \in Row /\ r.key = k /\ r.res = NULL /\ r.size = 0 /\ r.count = c
  /\ r.listed <=> l
  /\ ~ r.copied

\* A row has nothing else, and what the updates of the table make of it.
LEMMA OneRow ==
  ASSUME NEW q, NEW r, NEW k, NEW c, NEW l \in BOOLEAN, IsRow(q, k, c, l), IsRow(r, k, c, l)
  PROVE  q = r
  BY DEF IsRow, Row

LEMMA RowUpdates ==
  ASSUME NEW r, NEW k, NEW c, NEW l \in BOOLEAN, IsRow(r, k, c, l)
  PROVE  /\ IsRow([r EXCEPT !.listed = FALSE], k, c, FALSE)
         /\ \A d \in Nat : IsRow([r EXCEPT !.count = d], k, d, l)
  BY DEF IsRow, Row

\* A freed structure is a free row; an allocated one is listed if it is attached.
NodeRow(n) ==
  IF n \in Allocated
  THEN \E l \in BOOLEAN : /\ l <=> Attached(n)
                          /\ IsRow(Abstract(n), <<mml[n].type, mml[n].name>>, mml[n].count, l)
  ELSE Abstract(n) = Table!FreeNode

LEMMA AbstractIs == ListInv => \A n \in Node : NodeRow(n)
  <1> SUFFICES ASSUME ListInv, NEW n \in Node PROVE NodeRow(n)
    OBVIOUS
  <1>1. CASE n \notin Allocated
    <2>1. mml[n].count = 0
      BY <1>1, StructOf DEF ListInv, Inv, Freed
    <2> QED BY <1>1, <2>1 DEF Abstract, NodeRow, Table!FreeNode
  <1>2. CASE n \in Allocated
    <2>1. mml[n].count # 0 /\ mml[n].count \in Nat /\ <<mml[n].type, mml[n].name>> \in Key
      BY <1>2, StructOf DEF ListInv, Inv, Key, Struct
    <2>2. n \in Listed(mml[n].type) <=> Attached(n)
      BY <1>2, <2>1, ListedAttached DEF ListInv, AllListed, Key
    <2>3. PICK k \in Key, c \in Nat \ {0} : k = <<mml[n].type, mml[n].name>> /\ c = mml[n].count
      BY <2>1
    <2>4. PICK l \in BOOLEAN : l <=> n \in Listed(mml[n].type)
      OBVIOUS
    <2>5. Abstract(n) = [key |-> k, res |-> NULL, size |-> 0, count |-> c, listed |-> l,
                         copied |-> FALSE]
      BY <2>3, <2>4 DEF Abstract
    <2>6. IsRow(Abstract(n), k, c, l)
      BY <2>5 DEF IsRow, Row
    <2> QED BY <1>2, <2>2, <2>3, <2>4, <2>6 DEF NodeRow
  <1> QED BY <1>1, <1>2

\* The same of the next state.
LEMMA AbstractIsNext ==
  ASSUME ListInv'
  PROVE  \A n \in Node : NodeRow(n)'
  <1>1. (ListInv => \A n \in Node : NodeRow(n))'
    BY AbstractIs, PTL
  <1> QED BY <1>1

\* The row of a node that a step leaves alone.
LEMMA SameRow ==
  ASSUME ListInv, ListInv', NEW m \in Node, m \in Allocated' <=> m \in Allocated,
         m \in Allocated => /\ mml'[m].type = mml[m].type /\ mml'[m].name = mml[m].name
                            /\ mml'[m].count = mml[m].count /\ (Attached(m)' <=> Attached(m))
  PROVE  Abstract(m)' = Abstract(m)
  <1>0. NodeRow(m) /\ NodeRow(m)'
    BY AbstractIs, AbstractIsNext
  <1>1. CASE m \notin Allocated
    BY <1>0, <1>1 DEF NodeRow
  <1>2. CASE m \in Allocated
    <2>1. PICK l \in BOOLEAN : /\ l <=> Attached(m)
                               /\ IsRow(Abstract(m), <<mml[m].type, mml[m].name>>, mml[m].count, l)
      BY <1>0, <1>2 DEF NodeRow
    <2>2. PICK l2 \in BOOLEAN :
            /\ l2 <=> Attached(m)'
            /\ IsRow(Abstract(m)', <<mml'[m].type, mml'[m].name>>, mml'[m].count, l2)
      BY <1>0, <1>2 DEF NodeRow
    <2>3. IsRow(Abstract(m)', <<mml[m].type, mml[m].name>>, mml[m].count, l)
      BY <1>2, <2>1, <2>2 DEF IsRow
    <2> QED BY <2>1, <2>3, OneRow
  <1> QED BY <1>1, <1>2

Rows == [n \in Node |-> Abstract(n)]

\* A step that leaves all rows as they are is a stutter, and the steps of a search are.
LEMMA SearchStutters ==
  ASSUME ListInv, ListInv', UNCHANGED <<root, mml>>
  PROVE  Rows' = Rows
  <1>1. Allocated' = Allocated /\ \A m \in Allocated : Attached(m)' <=> Attached(m)
    BY DEF Allocated, Attached
  <1>2. \A n \in Node : Abstract(n)' = Abstract(n)
    BY <1>1, SameRow
  <1> QED BY <1>2 DEF Rows

\* A step that changes the row of one node.
LEMMA OneRowChanges ==
  ASSUME NEW n \in Node, \A m \in Node \ {n} : Abstract(m)' = Abstract(m)
  PROVE  Rows' = [Rows EXCEPT ![n] = Abstract(n)']
  BY DEF Rows

\* Detaching a node, also one that is detached, is what the table calls so.
LEMMA DetachMaps ==
  ASSUME ListInv, ListInv', NEW n \in Allocated, root' = DetachedRoot(n), mml' = Detached(n)
  PROVE  Table!Drop(n)
  <1>1. n \in Node /\ Inv
    BY DEF Allocated, ListInv
  <1>2. /\ mml'[n].next = NULL /\ mml'[n].prev = NULL /\ n \in Allocated'
        /\ mml'[n].type = mml[n].type /\ mml'[n].name = mml[n].name
        /\ mml'[n].count = mml[n].count
    BY <1>1, DetachedRest
  <1>3. \A m \in Node \ {n} : mml'[m] = Detached(n)[m]
    OBVIOUS
  <1>4. /\ \A m \in Allocated \ {n} :
             /\ m \in Allocated' /\ (Attached(m)' <=> Attached(m))
             /\ mml'[m].type = mml[m].type /\ mml'[m].name = mml[m].name
             /\ mml'[m].count = mml[m].count
        /\ Allocated' \subseteq Allocated /\ ~ Attached(n)'
    BY <1>2, <1>3, DetachTakesOne
  <1>5. \A m \in Node \ {n} : Abstract(m)' = Abstract(m)
    BY <1>4, SameRow
  <1>6. PICK k \in {<<mml[n].type, mml[n].name>>}, c \in {mml[n].count}, l \in BOOLEAN :
          IsRow(Abstract(n), k, c, l) /\ (l <=> Attached(n))
    BY <1>1, AbstractIs DEF NodeRow
  <1>7. IsRow(Abstract(n)', k, c, FALSE)
    <2>1. PICK l2 \in BOOLEAN :
            /\ l2 <=> Attached(n)'
            /\ IsRow(Abstract(n)', <<mml'[n].type, mml'[n].name>>, mml'[n].count, l2)
      BY <1>1, <1>2, AbstractIsNext DEF NodeRow
    <2> QED BY <1>2, <1>4, <1>6, <2>1 DEF IsRow
  <1>8. Rows[n] = Abstract(n) /\ n \in Table!Live(Rows)
    BY <1>1, <1>6 DEF Table!Live, Rows, IsRow, Allocated
  <1>9. Rows' = [Rows EXCEPT ![n] = Abstract(n)']
    BY <1>1, <1>5, OneRowChanges
  <1>10. Rows' = Table!Detach(Rows, n)
    <2>1. CASE l
      <3>0. IsRow(Rows[n], k, c, l)
        BY <1>6, <1>8
      <3>1. [Rows[n] EXCEPT !.listed = FALSE] = Abstract(n)'
        <4>1. IsRow([Rows[n] EXCEPT !.listed = FALSE], k, c, FALSE)
          BY <3>0, RowUpdates
        <4> QED BY <1>7, <4>1 DEF IsRow, Row
      <3>2. Rows[n].listed
        BY <1>6, <1>8, <2>1 DEF IsRow
      <3> QED BY <1>9, <3>1, <3>2 DEF Table!Detach
    <2>2. CASE ~ l
      <3>1. Abstract(n)' = Abstract(n)
        BY <1>6, <1>7, <2>2, OneRow DEF IsRow
      <3>2. ~ Rows[n].listed
        BY <1>6, <1>8, <2>2 DEF IsRow
      <3> QED BY <1>1, <1>9, <3>1, <3>2 DEF Table!Detach, Rows
    <2> QED BY <2>1, <2>2
  <1> QED BY <1>8, <1>10 DEF Table!Drop, Rows

\* Another count in a node is a row with another count.
LEMMA CountMaps ==
  ASSUME ListInv, ListInv', NEW n \in Allocated, NEW d \in 1 .. MaxUsers,
         mml' = [mml EXCEPT ![n] = SetCount(mml[n], d)], root' = root, find' = NoFind
  PROVE  Rows' = [Rows EXCEPT ![n].count = d]
  <1>1. n \in Node /\ mml[n] \in Struct /\ mml \in [Node -> {Freed} \cup Struct]
    BY StructOf DEF ListInv, Inv, TypeOK, Allocated
  <1>2. /\ Allocated' = Allocated /\ \A m \in Allocated : Attached(m)' <=> Attached(m)
    BY CountLists
  <1>3. /\ \A m \in Node \ {n} : mml'[m] = mml[m]
        /\ mml'[n].type = mml[n].type /\ mml'[n].name = mml[n].name /\ mml'[n].count = d
    BY <1>1 DEF SetCount, Struct
  <1>4. \A m \in Node \ {n} : Abstract(m)' = Abstract(m)
    BY <1>2, <1>3, SameRow
  <1>5. PICK k \in {<<mml[n].type, mml[n].name>>}, c \in {mml[n].count}, l \in BOOLEAN :
          IsRow(Abstract(n), k, c, l) /\ (l <=> Attached(n))
    BY <1>1, AbstractIs DEF NodeRow
  <1>6. IsRow(Abstract(n)', k, d, l)
    <2>1. PICK l2 \in BOOLEAN :
            /\ l2 <=> Attached(n)'
            /\ IsRow(Abstract(n)', <<mml'[n].type, mml'[n].name>>, mml'[n].count, l2)
      BY <1>1, <1>2, AbstractIsNext DEF NodeRow
    <2> QED BY <1>2, <1>3, <1>5, <2>1 DEF IsRow
  <1>7. [Rows[n] EXCEPT !.count = d] = Abstract(n)'
    <2>1. IsRow(Rows[n], k, c, l) /\ d \in Nat
      BY <1>1, <1>5, ListAssumption DEF Rows
    <2>2. IsRow([Rows[n] EXCEPT !.count = d], k, d, l)
      BY <2>1, RowUpdates
    <2> QED BY <1>6, <2>2, OneRow
  <1>8. Rows' = [Rows EXCEPT ![n] = Abstract(n)']
    BY <1>1, <1>4, OneRowChanges
  <1> QED BY <1>7, <1>8

\* A user more of the node that a search has found.
LEMMA RetainMaps ==
  ASSUME ListInv, ListInv', Retain
  PROVE  \E k \in Key : Table!OpenListed(k)
  <1>1. PICK n \in Allocated : n = find.at /\ Attached(n)
    BY SearchTypes DEF Retain, ListInv, Ahead
  <1>2. /\ mml[n].count \in Nat /\ mml[n].count < MaxUsers /\ mml[n].count + 1 \in 1 .. MaxUsers
        /\ n \in Node
    BY <1>1, StructOf, ListAssumption DEF Retain, ListInv, Inv, Allocated
  <1>3. /\ mml' = [mml EXCEPT ![n] = SetCount(mml[n], mml[n].count + 1)]
        /\ root' = root /\ find' = NoFind
    BY <1>1 DEF Retain
  <1>4. Rows' = [Rows EXCEPT ![n].count = mml[n].count + 1]
    <2>1. PICK d \in 1 .. MaxUsers : d = mml[n].count + 1
      BY <1>2
    <2> QED BY <1>3, <2>1, CountMaps
  <1>5. PICK k \in Key, l \in BOOLEAN : IsRow(Rows[n], k, mml[n].count, l) /\ (l <=> Attached(n))
    BY <1>1, <1>2, AbstractIs DEF NodeRow, Rows, IsRow, Row
  <1>6. n \in Table!Found(Rows, k) /\ Rows[n].count = mml[n].count
    BY <1>1, <1>2, <1>5 DEF Table!Found, IsRow
  <1>7. Rows' = Table!Retain(Rows, n)
    BY <1>4, <1>6 DEF Table!Retain
  <1>8. Table!OpenListed(k)
    BY <1>2, <1>6, <1>7 DEF Table!OpenListed, Rows
  <1> QED BY <1>8

\* Closing takes a user away, and the last one the node.
LEMMA CloseMaps ==
  ASSUME ListInv, ListInv', NEW n \in Node, Close(n)
  PROVE  Table!Close(n)
  <1>1. n \in Allocated /\ ~ Searching /\ find' = find /\ Inv /\ find' = NoFind
    BY Quiet DEF Close, ListInv
  <1>2. mml[n].count \in 1 .. MaxUsers
    BY <1>1, StructOf DEF Inv
  <1>3. PICK k \in Key, l \in BOOLEAN : IsRow(Rows[n], k, mml[n].count, l)
    BY <1>1, AbstractIs DEF NodeRow, Rows, IsRow, Row
  <1>4. Rows[n].count = mml[n].count /\ n \in Table!Live(Rows)
    BY <1>2, <1>3 DEF IsRow, Table!Live
  <1>5. CASE mml[n].count > 1
    <2>1. mml[n].count - 1 \in 1 .. MaxUsers
      BY <1>2, <1>5, ListAssumption
    <2>2. mml' = [mml EXCEPT ![n] = SetCount(mml[n], mml[n].count - 1)] /\ root' = root
      BY <1>5 DEF Close
    <2>3. Rows' = [Rows EXCEPT ![n].count = mml[n].count - 1]
      <3>1. PICK d \in 1 .. MaxUsers : d = mml[n].count - 1
        BY <2>1
      <3> QED BY <1>1, <2>2, <3>1, CountMaps
    <2>4. Rows' = Table!Release(Rows, n)
      BY <1>4, <1>5, <2>3 DEF Table!Release
    <2> QED BY <1>4, <2>4 DEF Table!Close, Rows
  <1>6. CASE ~ (mml[n].count > 1)
    <2>1. /\ root' = DetachedRoot(n) /\ \A m \in Node \ {n} : mml'[m] = Detached(n)[m]
          /\ mml'[n].next = NULL /\ mml'[n].prev = NULL /\ n \notin Allocated'
      BY <1>1, <1>6, FreedRest
    <2>2. /\ \A m \in Allocated \ {n} :
               /\ m \in Allocated' /\ (Attached(m)' <=> Attached(m))
               /\ mml'[m].type = mml[m].type /\ mml'[m].name = mml[m].name
               /\ mml'[m].count = mml[m].count
          /\ Allocated' \subseteq Allocated
      BY <1>1, <2>1, DetachTakesOne
    <2>3. \A m \in Node \ {n} : Abstract(m)' = Abstract(m)
      BY <2>2, SameRow
    <2>4. Abstract(n)' = Table!FreeNode
      BY <2>1, AbstractIsNext DEF NodeRow
    <2>5. Rows' = Table!Release(Rows, n)
      BY <1>4, <1>6, <2>3, <2>4, OneRowChanges DEF Table!Release
    <2> QED BY <1>4, <2>5 DEF Table!Close, Rows
  <1> QED BY <1>5, <1>6

\* A new node, of a name that is in no row that is listed.
LEMMA CreateMaps ==
  ASSUME ListInv, ListInv', Create
  PROVE  \E k \in Key : Table!OpenNew(k)
  <1>1. Searching /\ find.at = NULL
    BY DEF Create
  <1>2. PICK t \in Type, nm \in Name : t = find.type /\ nm = find.name
    BY <1>1, SearchTypes DEF ListInv
  <1>3. PICK n \in Node \ Allocated :
          root' = [root EXCEPT ![t] = n] /\ mml' = Prepended(n, t, nm)
    BY <1>2 DEF Create
  <1>4. ASSUME NEW m \in Allocated
        PROVE  /\ m # n /\ (Attached(m)' <=> Attached(m))
               /\ mml'[m].type = mml[m].type /\ mml'[m].name = mml[m].name
               /\ mml'[m].count = mml[m].count
    BY <1>3, PrependAddsOne
  <1>5. Allocated' = Allocated \cup {n} /\ Attached(n)'
    BY <1>3, PrependAddsOne
  <1>6. mml'[n].type = t /\ mml'[n].name = nm /\ mml'[n].count = 1
    BY <1>3 DEF Prepended
  <1>7. \A m \in Node \ {n} : Abstract(m)' = Abstract(m)
    BY <1>4, <1>5, SameRow
  <1> DEFINE k == <<t, nm>>
  <1>8. ASSUME NEW m \in Node, Rows[m].listed, Rows[m].key = k PROVE FALSE
    <2>0. ~ Table!FreeNode.listed
      BY DEF Table!FreeNode
    <2>1. m \in Allocated
      BY <1>8, <2>0, AbstractIs DEF NodeRow, Rows
    <2>2. PICK l \in BOOLEAN : /\ l <=> Attached(m)
                               /\ IsRow(Rows[m], <<mml[m].type, mml[m].name>>, mml[m].count, l)
      BY <2>1, AbstractIs DEF NodeRow, Rows
    <2>3. Attached(m) /\ <<mml[m].type, mml[m].name>> = k
      BY <1>8, <2>2 DEF IsRow
    <2>4. mml[m].type = t /\ mml[m].name = nm
      BY <2>3
    <2> QED BY <1>1, <1>2, <2>1, <2>3, <2>4, NotThere
  <1>9. Abstract(n)' = [key |-> k, res |-> NULL, size |-> 0, count |-> 1,
                        listed |-> TRUE, copied |-> FALSE]
    <2> DEFINE new == [key |-> k, res |-> NULL, size |-> 0, count |-> 1,
                       listed |-> TRUE, copied |-> FALSE]
    <2>1. PICK l \in BOOLEAN :
            /\ l <=> Attached(n)'
            /\ IsRow(Abstract(n)', <<mml'[n].type, mml'[n].name>>, mml'[n].count, l)
      BY <1>5, AbstractIsNext DEF NodeRow
    <2>2. IsRow(Abstract(n)', k, 1, l) /\ l
      BY <1>5, <1>6, <2>1
    <2>3. k \in Key
      BY DEF Key
    <2> HIDE DEF k
    <2>4. new \in Row /\ new.key = k /\ new.res = NULL /\ new.size = 0 /\ new.count = 1
          /\ new.listed /\ ~ new.copied
      BY <2>3 DEF Row
    <2> HIDE DEF new
    <2>5. IsRow(new, k, 1, l)
      BY <2>2, <2>4 DEF IsRow
    <2>6. Abstract(n)' = new
      BY <2>2, <2>5, OneRow
    <2> QED BY <2>6 DEF new
  <1>10. n \in Table!Free(Rows)
    <2>1. Rows[n] = Table!FreeNode
      BY <1>3, AbstractIs DEF NodeRow, Rows
    <2> QED BY <1>3, <2>1 DEF Table!Free, Table!FreeNode
  <1>11. k \in Key
    BY DEF Key
  <1> HIDE DEF k
  <1>12. Rows' = Table!Allocate(Rows, n, k, NULL, 0, FALSE)
    BY <1>7, <1>9, OneRowChanges DEF Table!Allocate
  <1>13. Table!Found(Rows, k) = {}
    BY <1>8 DEF Table!Found
  <1>14. Table!OpenNew(k)
    BY <1>10, <1>12, <1>13 DEF Table!OpenNew, Rows
  <1> QED BY <1>11, <1>14

\* Every step of the lists is a step of the table, or none.
LEMMA StepMaps == ListInv /\ ListInv' /\ [Next]_vars => [Table!Next]_Rows
  <1> SUFFICES ASSUME ListInv, ListInv', [Next]_vars PROVE Table!Next \/ Rows' = Rows
    OBVIOUS
  <1>1. ASSUME NEW t \in Type, NEW nm \in Name, StartFind(t, nm) PROVE Rows' = Rows
    BY <1>1, SearchStutters DEF StartFind
  <1>2. CASE Advance \/ Refuse \/ UNCHANGED vars
    BY <1>2, SearchStutters DEF Advance, Refuse, vars
  <1>3. CASE Retain
    BY <1>3, RetainMaps DEF Table!Next, Key
  <1>4. CASE Replace
    <2>1. PICK n \in Allocated : n = find.at
      BY <1>4, SearchTypes DEF Replace, ListInv
    <2>2. root' = DetachedRoot(n) /\ mml' = Detached(n)
      BY <1>4, <2>1 DEF Replace
    <2>3. n \in Node /\ Table!Drop(n)
      BY <2>2, DetachMaps DEF Allocated
    <2> QED BY <2>3 DEF Table!Next
  <1>5. CASE Create
    BY <1>5, CreateMaps DEF Table!Next, Key
  <1>6. ASSUME NEW n \in Node, Drop(n) PROVE Table!Next
    <2>1. Table!Drop(n)
      BY <1>6, DetachMaps DEF Drop
    <2> QED BY <2>1 DEF Table!Next
  <1>7. ASSUME NEW n \in Node, Close(n) PROVE Table!Next
    <2>1. Table!Close(n)
      BY <1>7, CloseMaps
    <2> QED BY <2>1 DEF Table!Next
  <1> QED BY <1>1, <1>2, <1>3, <1>4, <1>5, <1>6, <1>7 DEF Next

(***************************************************************************)
(* Whatever the order of the links, a process searches, creates, detaches  *)
(* and frees as in a table in which a name is listed once: what the other  *)
(* modules assume of ip2lmemorymaplist.c, for lists of every length.       *)
(***************************************************************************)
THEOREM ListsImplementTable == Spec => ImplementsTable
  <1>1. Init => Table!Init
    BY DEF Init, Table!Init, Abstract, Freed, Table!FreeNode
  <1>2. ListInv /\ ListInv' /\ [Next]_vars => [Table!Next]_Rows
    BY StepMaps
  <1> QED BY <1>1, <1>2, ListInvHolds, PTL DEF Spec, ImplementsTable, Table!Spec, Rows

(***************************************************************************)
(* A list has every node that was created for it and not detached, has no  *)
(* name twice, and a search has not passed what it looks for: what         *)
(* IP2LFindMemoryMapNode returns is the one node of that name or the proof *)
(* that there is none.                                                     *)
(***************************************************************************)
THEOREM SearchesComplete == Spec => [](AllListed /\ OneAttached /\ Ahead)
  <1>1. ListInv => AllListed /\ OneAttached /\ Ahead
    BY DEF ListInv
  <1> QED BY <1>1, ListInvHolds, PTL
=============================================================================
