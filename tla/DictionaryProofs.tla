-------------------------- MODULE DictionaryProofs --------------------------
(***************************************************************************)
(* Proofs that a dictionary holds exactly what the rows that were read     *)
(* hold, for tables of every length and any columns, whichever of their    *)
(* strings cannot be read, and any mask.                                   *)
(***************************************************************************)
EXTENDS Dictionary, TLAPS

-----------------------------------------------------------------------------
(* What a row adds to a slot                                               *)

BranchOf(s) == CHOOSE b \in {x \in Branches : x.slot = s} : TRUE

\* The field whose names a slot gets.
FieldOf(s) == IF s \in Lists THEN s
              ELSE IF CodeAlone(s) THEN "weatherstationcode"
              ELSE BranchOf(s).branch

\* A row adds a name to a slot, and a leaf to a name of it.
Adds(row, s, n) ==
  Has(FieldOf(s)) /\ n = RowString(row, FieldOf(s)) /\ n \notin Unknown
AddsLeaf(row, s, n, l) ==
  /\ s \notin Lists /\ Has(BranchOf(s).branch) /\ Has(BranchOf(s).leaf)
  /\ n = RowString(row, BranchOf(s).branch) /\ l = RowString(row, BranchOf(s).leaf)
  /\ n \notin Unknown /\ l \notin Unknown

\* Both fields of a slot are asked for, so that it holds branches.
Branched(s) == s \notin Lists /\ {BranchOf(s).branch, BranchOf(s).leaf} \subseteq mask

\* Every slot with branches has one pair of fields.
LEMMA OneBranch ==
  ASSUME NEW b \in Branches
  PROVE  /\ b.slot \in Slot /\ b.slot \notin Lists /\ BranchOf(b.slot) = b
         /\ {x \in Branches : x.slot = b.slot} = {b}
<1>1. {x \in Branches : x.slot = b.slot} = {b}
  BY DEF Branches
<1>2. b.slot \in Slot /\ b.slot \notin Lists
  BY DEF Branches, Slot, Lists
<1> QED
  BY <1>1, <1>2 DEF BranchOf

LEMMA Slots ==
  ASSUME NEW s \in Slot
  PROVE  \/ s \in Lists /\ {x \in Branches : x.slot = s} = {}
         \/ s \notin Lists /\ BranchOf(s) \in Branches /\ BranchOf(s).slot = s
<1>1. CASE s \in Lists
  <2>1. {x \in Branches : x.slot = s} = {}
    BY <1>1 DEF Branches, Lists
  <2> QED
    BY <1>1, <2>1
<1>2. CASE s \notin Lists
  <2>1. PICK b \in Branches : b.slot = s
    BY <1>2 DEF Slot
  <2> QED
    BY <1>2, <2>1, OneBranch
<1> QED
  BY <1>1, <1>2

\* What FindOrAddDictionaryElementMap and AddUniqueDictionaryElement do to a map.
LEMMA Found ==
  ASSUME NEW map, NEW name, NEW new, NEW n
  PROVE  /\ n \in DOMAIN FindOrAdd(map, name, new)
              <=> n \in DOMAIN map \/ (n = name /\ n \notin Unknown)
         /\ n \in DOMAIN FindOrAdd(map, name, new) =>
              FindOrAdd(map, name, new)[n] = IF n \in DOMAIN map THEN map[n] ELSE new
BY DEF FindOrAdd

LEMMA LeafAdded ==
  ASSUME NEW map, NEW name, NEW leaf
  PROVE  /\ DOMAIN AddLeaf(map, name, leaf) = DOMAIN map
         /\ \A n \in DOMAIN map :
              AddLeaf(map, name, leaf)[n]
                = IF n = name /\ n \notin Unknown
                  THEN [kind |-> map[n].kind, leaves |-> map[n].leaves \cup ({leaf} \ Unknown)]
                  ELSE map[n]
BY DEF AddLeaf

\* What a row makes of the map of a slot.
Grown(map, new, row, s) ==
  /\ \A n : n \in DOMAIN new <=> n \in DOMAIN map \/ Adds(row, s, n)
  /\ \A n \in DOMAIN new :
       /\ new[n].kind = IF n \in DOMAIN map THEN map[n].kind
                        ELSE IF Branched(s) THEN "branch" ELSE "element"
       /\ \A l : l \in new[n].leaves <=>
            (n \in DOMAIN map /\ l \in map[n].leaves) \/ AddsLeaf(row, s, n, l)

LEMMA AddToGrows ==
  ASSUME NEW s \in Slot, NEW map, NEW row
  PROVE  Grown(map, AddTo(s, map, row), row, s)
<1>1. CASE s \in Lists
  <2>1. {b \in Branches : b.slot = s} = {} /\ s # "weatherstation"
    BY <1>1, Slots DEF Lists
  <2>2. AddTo(s, map, row) = IF Has(s) THEN FindOrAdd(map, RowString(row, s), Element) ELSE map
    BY <1>1, <2>1 DEF AddTo
  <2>3. FieldOf(s) = s /\ ~ Branched(s) /\ \A n, l : ~ AddsLeaf(row, s, n, l)
    BY <1>1 DEF FieldOf, Branched, AddsLeaf
  <2>4. CASE Has(s)
    <3>1. Element.kind = "element" /\ Element.leaves = {}
      BY DEF Element
    <3>2. AddTo(s, map, row) = FindOrAdd(map, RowString(row, s), Element)
      BY <2>2, <2>4
    <3>3. \A n : Adds(row, s, n) <=> n = RowString(row, s) /\ n \notin Unknown
      BY <2>3, <2>4 DEF Adds
    <3> QED
      BY <2>3, <3>1, <3>2, <3>3, Found DEF Grown
  <2>5. CASE ~ Has(s)
    BY <2>2, <2>3, <2>5 DEF Grown, Adds
  <2> QED
    BY <2>4, <2>5
<1>2. CASE s \notin Lists
  <2> DEFINE b == BranchOf(s)
  <2>1. b \in Branches /\ b.slot = s /\ {x \in Branches : x.slot = s} = {b}
    BY <1>2, Slots, OneBranch
  <2>2. AddTo(s, map, row)
          = IF CodeAlone(s) /\ Has("weatherstationcode")
            THEN FindOrAdd(AddBranch(map, row, b), RowString(row, "weatherstationcode"), Element)
            ELSE AddBranch(map, row, b)
    <3>1. (CHOOSE x \in {y \in Branches : y.slot = s} : TRUE) = b
      BY DEF BranchOf
    <3>2. CodeAlone(s) => s = "weatherstation"
      BY DEF CodeAlone
    <3> HIDE DEF b
    <3> QED
      BY <1>2, <2>1, <3>1, <3>2 DEF AddTo
  <2>3. CASE CodeAlone(s)
    <3>1. b.branch = "weatherstationname" /\ b.branch \notin mask
      BY <2>1, <2>3 DEF CodeAlone, Branches
    <3>2. AddBranch(map, row, b) = map
      BY <3>1 DEF AddBranch, Has
    <3>3. FieldOf(s) = "weatherstationcode" /\ ~ Branched(s)
      BY <1>2, <2>3, <3>1 DEF FieldOf, Branched
    <3>4. \A n, l : ~ AddsLeaf(row, s, n, l)
      BY <3>1 DEF AddsLeaf, Has
    <3>5. Element.kind = "element" /\ Element.leaves = {}
      BY DEF Element
    <3>6. CASE Has("weatherstationcode")
      <4>1. AddTo(s, map, row) = FindOrAdd(map, RowString(row, "weatherstationcode"), Element)
        BY <2>2, <2>3, <3>2, <3>6
      <4>2. \A n : Adds(row, s, n) <=> n = RowString(row, "weatherstationcode") /\ n \notin Unknown
        BY <3>3, <3>6 DEF Adds
      <4> QED
        BY <3>3, <3>4, <3>5, <4>1, <4>2, Found DEF Grown
    <3>7. CASE ~ Has("weatherstationcode")
      BY <2>2, <3>2, <3>3, <3>4, <3>7 DEF Grown, Adds
    <3> QED
      BY <3>6, <3>7
  <2>4. CASE ~ CodeAlone(s)
    <3>1. AddTo(s, map, row) = AddBranch(map, row, b) /\ FieldOf(s) = b.branch
      BY <1>2, <2>2, <2>4 DEF FieldOf
    <3> HIDE DEF b
    <3>2. CASE ~ Has(b.branch)
      <4>1. AddTo(s, map, row) = map
        BY <3>1, <3>2 DEF AddBranch
      <4>2. \A n, l : ~ Adds(row, s, n) /\ ~ AddsLeaf(row, s, n, l)
        BY <3>1, <3>2 DEF Adds, AddsLeaf, b
      <4> QED
        BY <4>1, <4>2 DEF Grown
    <3>3. CASE Has(b.branch) /\ b.leaf \notin mask
      <4>1. AddTo(s, map, row) = FindOrAdd(map, RowString(row, b.branch), Element)
        BY <3>1, <3>3 DEF AddBranch
      <4>2. /\ \A n : Adds(row, s, n) <=> n = RowString(row, b.branch) /\ n \notin Unknown
            /\ \A n, l : ~ AddsLeaf(row, s, n, l)
            /\ ~ Branched(s)
        BY <1>2, <3>1, <3>3 DEF Adds, AddsLeaf, Branched, Has, b
      <4>3. Element.kind = "element" /\ Element.leaves = {}
        BY DEF Element
      <4> QED
        BY <4>1, <4>2, <4>3, Found DEF Grown
    <3>4. CASE Has(b.branch) /\ b.leaf \in mask
      <4> DEFINE name == RowString(row, b.branch)
                 leaf == RowString(row, b.leaf)
                 grown == FindOrAdd(map, name, Branch)
      <4>1. AddTo(s, map, row) = IF b.leaf \in db.fields
                                 THEN AddLeaf(grown, name, leaf) ELSE grown
        BY <3>1, <3>4 DEF AddBranch
      <4>2. /\ \A n : Adds(row, s, n) <=> n = name /\ n \notin Unknown
            /\ \A n, l : AddsLeaf(row, s, n, l) <=>
                 /\ b.leaf \in db.fields /\ n = name /\ l = leaf
                 /\ n \notin Unknown /\ l \notin Unknown
            /\ Branched(s)
        BY <1>2, <3>1, <3>4 DEF Adds, AddsLeaf, Branched, Has, b
      <4>3. Branch.kind = "branch" /\ Branch.leaves = {}
        BY DEF Branch
      <4> HIDE DEF name, leaf
      <4>4. /\ \A n : n \in DOMAIN grown <=> n \in DOMAIN map \/ (n = name /\ n \notin Unknown)
            /\ \A n \in DOMAIN grown :
                 grown[n] = IF n \in DOMAIN map THEN map[n] ELSE Branch
            /\ name \in DOMAIN grown /\ name \notin DOMAIN map => name \notin Unknown
        BY Found
      <4> HIDE DEF grown
      <4>5. CASE b.leaf \notin db.fields
        BY <4>1, <4>2, <4>3, <4>4, <4>5 DEF Grown
      <4>6. CASE b.leaf \in db.fields
        <5> DEFINE new == AddLeaf(grown, name, leaf)
        <5>1. AddTo(s, map, row) = new /\ DOMAIN new = DOMAIN grown
          BY <4>1, <4>6, LeafAdded
        <5>2. ASSUME NEW n \in DOMAIN grown
              PROVE  /\ new[n].kind = grown[n].kind
                     /\ new[n].leaves = IF n = name /\ n \notin Unknown
                                       THEN grown[n].leaves \cup ({leaf} \ Unknown)
                                       ELSE grown[n].leaves
          <6>1. new[n] = IF n = name /\ n \notin Unknown
                         THEN [kind |-> grown[n].kind,
                               leaves |-> grown[n].leaves \cup ({leaf} \ Unknown)]
                         ELSE grown[n]
            BY LeafAdded
          <6> HIDE DEF new
          <6> QED
            BY <6>1
        <5> HIDE DEF new
        <5>3. \A n : n \in DOMAIN new <=> n \in DOMAIN map \/ Adds(row, s, n)
          BY <4>2, <4>4, <5>1
        <5>4. ASSUME NEW n \in DOMAIN new
              PROVE  new[n].kind = IF n \in DOMAIN map THEN map[n].kind
                                   ELSE IF Branched(s) THEN "branch" ELSE "element"
          BY <4>2, <4>3, <4>4, <5>1, <5>2
        <5>5. ASSUME NEW n \in DOMAIN new, NEW l
              PROVE  l \in new[n].leaves <=>
                       (n \in DOMAIN map /\ l \in map[n].leaves) \/ AddsLeaf(row, s, n, l)
          <6>1. l \in grown[n].leaves <=> n \in DOMAIN map /\ l \in map[n].leaves
            BY <4>3, <4>4, <5>1
          <6>2. l \in new[n].leaves <=>
                  \/ l \in grown[n].leaves
                  \/ n = name /\ n \notin Unknown /\ l = leaf /\ l \notin Unknown
            BY <5>1, <5>2
          <6> QED
            BY <4>2, <4>6, <6>1, <6>2
        <5> QED
          BY <5>1, <5>3, <5>4, <5>5 DEF Grown
      <4> QED
        BY <4>5, <4>6
    <3> QED
      BY <3>2, <3>3, <3>4
  <2> QED
    BY <2>3, <2>4
<1> QED
  BY <1>1, <1>2

-----------------------------------------------------------------------------
(* What a country holds of the rows at a set of places                     *)

LongExact(long, P) ==
  IF Has("country_long") /\ P # {}
  THEN \E p \in P : /\ \A q \in P : Before(p, q)
                    /\ long = RowString(RowAt(p), "country_long")
  ELSE long = None

SlotExact(map, s, P) ==
  /\ \A n : n \in DOMAIN map <=> \E p \in P : Adds(RowAt(p), s, n)
  /\ \A n \in DOMAIN map :
       /\ map[n].kind = IF Branched(s) THEN "branch" ELSE "element"
       /\ \A l : l \in map[n].leaves <=> \E p \in P : AddsLeaf(RowAt(p), s, n, l)

Exact(country, P) ==
  /\ LongExact(country.long, P)
  /\ \A s \in Slot : SlotExact(country.slots[s], s, P)

\* A name has a leaf only if it is a name of the slot.
LEMMA LeafOfName ==
  ASSUME NEW s \in Slot, NEW row, NEW n, NEW l, AddsLeaf(row, s, n, l)
  PROVE  Adds(row, s, n)
<1> DEFINE b == BranchOf(s)
<1>1. b \in Branches /\ b.slot = s
  BY Slots DEF AddsLeaf
<1>2. ~ CodeAlone(s)
  <2>1. b.branch \in mask
    BY DEF AddsLeaf, Has
  <2>2. s = "weatherstation" => b.branch = "weatherstationname"
    BY <1>1 DEF Branches
  <2> QED
    BY <2>1, <2>2 DEF CodeAlone
<1>3. FieldOf(s) = b.branch
  BY <1>2 DEF FieldOf, AddsLeaf
<1> QED
  BY <1>3 DEF Adds, AddsLeaf

LEMMA EmptyExact == Exact(Country, {})
<1>1. Country.long = None /\ \A s \in Slot : Country.slots[s] = NoMap
  BY DEF Country
<1>2. DOMAIN NoMap = {}
  BY DEF NoMap
<1>3. LongExact(None, {})
  BY DEF LongExact
<1>4. \A s \in Slot : SlotExact(NoMap, s, {})
  BY <1>2 DEF SlotExact
<1> QED
  BY <1>1, <1>3, <1>4 DEF Exact

\* One more row in a slot.
LEMMA SlotGrows ==
  ASSUME NEW s \in Slot, NEW map, NEW P, NEW q, SlotExact(map, s, P)
  PROVE  SlotExact(AddTo(s, map, RowAt(q)), s, P \cup {q})
<1> DEFINE new == AddTo(s, map, RowAt(q))
<1>1. Grown(map, new, RowAt(q), s)
  BY AddToGrows
<1> HIDE DEF new
<1>2. \A n : n \in DOMAIN new <=> \E p \in P \cup {q} : Adds(RowAt(p), s, n)
  BY <1>1 DEF Grown, SlotExact
<1>3. ASSUME NEW n \in DOMAIN new
      PROVE  new[n].kind = IF Branched(s) THEN "branch" ELSE "element"
  BY <1>1 DEF Grown, SlotExact
<1>4. ASSUME NEW n \in DOMAIN new, NEW l
      PROVE  l \in new[n].leaves <=> \E p \in P \cup {q} : AddsLeaf(RowAt(p), s, n, l)
  <2>1. l \in new[n].leaves <=>
          (n \in DOMAIN map /\ l \in map[n].leaves) \/ AddsLeaf(RowAt(q), s, n, l)
    BY <1>1 DEF Grown
  <2>2. n \in DOMAIN map =>
          (l \in map[n].leaves <=> \E p \in P : AddsLeaf(RowAt(p), s, n, l))
    BY DEF SlotExact
  <2>3. ASSUME NEW p \in P, AddsLeaf(RowAt(p), s, n, l)
        PROVE  n \in DOMAIN map
    BY <2>3, LeafOfName DEF SlotExact
  <2> QED
    BY <2>1, <2>2, <2>3
<1> QED
  BY <1>2, <1>3, <1>4 DEF SlotExact, new

\* One more row of a country, behind the others.
LEMMA CountryGrows ==
  ASSUME NEW country, NEW P, NEW q, Exact(country, P),
         Before(q, q), \A p \in P : Before(p, q),
         Has("country_long") =>
           \A p \in P : RowString(RowAt(p), "country_long") # None
  PROVE  Exact(WithRow(country, RowAt(q)), P \cup {q})
<1> DEFINE new == WithRow(country, RowAt(q))
<1>1. /\ new.long = LongName(country, RowAt(q))
      /\ \A s \in Slot : new.slots[s] = AddTo(s, country.slots[s], RowAt(q))
  BY DEF WithRow
<1>2. LongExact(LongName(country, RowAt(q)), P \cup {q})
  <2>1. CASE ~ Has("country_long") \/ P = {}
    <3>1. country.long = None
      BY <2>1 DEF Exact, LongExact
    <3>2. P = {} => P \cup {q} = {q}
      OBVIOUS
    <3> QED
      BY <2>1, <3>1, <3>2 DEF LongName, LongExact
  <2>2. CASE Has("country_long") /\ P # {}
    <3>1. PICK p \in P : /\ \A r \in P : Before(p, r)
                        /\ country.long = RowString(RowAt(p), "country_long")
      BY <2>2 DEF Exact, LongExact
    <3>2. LongName(country, RowAt(q)) = RowString(RowAt(p), "country_long")
      BY <2>2, <3>1 DEF LongName
    <3> QED
      BY <2>2, <3>1, <3>2 DEF LongExact
  <2> QED
    BY <2>1, <2>2
<1>3. ASSUME NEW s \in Slot
      PROVE  SlotExact(new.slots[s], s, P \cup {q})
  BY <1>1, SlotGrows DEF Exact
<1> QED
  BY <1>1, <1>2, <1>3 DEF Exact

-----------------------------------------------------------------------------
(* The loops                                                               *)

Loops ==
  /\ db \in Databases /\ mask \in Masks
  /\ family \in {0, 4, 6} /\ index \in Nat
  /\ index <= IF family = 0 THEN 0 ELSE Last(db, family)

\* How many rows a table has, and how many are read of it.
LEMMA Sizes ==
  ASSUME Loops
  PROVE  /\ \A f \in {4, 6} : Len(Rows(db, f)) \in Nat
         /\ \A f \in {4, 6} : Last(db, f) = Len(Rows(db, f)) - 2
         /\ Last(db, 4) \in Nat
         /\ \A f \in {4, 6} : RowsRead(f) \in Int /\ RowsRead(f) <= Len(Rows(db, f))
<1>1. Len(db.v4) \in Nat /\ Len(db.v4) >= 2 /\ Len(db.v6) \in Nat
  BY DictionaryAssumption DEF Loops
<1>2. \A f \in {4, 6} : Len(Rows(db, f)) \in Nat /\ Last(db, f) = Len(Rows(db, f)) - 2
  BY <1>1 DEF Rows, Last
<1>3. Last(db, 4) \in Nat
  BY <1>1 DEF Rows, Last
<1>4. ASSUME NEW f \in {4, 6}
      PROVE  RowsRead(f) \in Int /\ RowsRead(f) <= Len(Rows(db, f))
  <2>1. /\ Len(Rows(db, f)) \in Nat /\ Last(db, f) = Len(Rows(db, f)) - 2
        /\ index \in Nat /\ (family = f => index <= Last(db, f))
    BY <1>2 DEF Loops
  <2>2. \/ RowsRead(f) = index /\ family = f
        \/ RowsRead(f) = Last(db, f) \/ RowsRead(f) = 0
    BY DEF RowsRead
  <2> QED
    BY <2>1, <2>2
<1> QED
  BY <1>2, <1>3, <1>4

LEMMA PlaceOfRow ==
  ASSUME Loops, NEW p \in Places
  PROVE  /\ p[1] \in {4, 6} /\ p[2] \in 1 .. RowsRead(p[1]) /\ p[2] \in Nat
         /\ Has("country_long") => RowString(RowAt(p), "country_long") # None
<1>1. p[1] \in {4, 6} /\ p[2] \in 1 .. RowsRead(p[1])
  BY DEF Places
<1>2. p[2] \in 1 .. Len(Rows(db, p[1])) /\ p[2] \in Nat
  <2> DEFINE read == RowsRead(p[1])
             len == Len(Rows(db, p[1]))
  <2>1. read \in Int /\ len \in Nat /\ read <= len
    BY <1>1, Sizes
  <2>2. p[2] \in 1 .. read
    BY <1>1
  <2> HIDE DEF read, len
  <2>3. p[2] \in 1 .. len /\ p[2] \in Nat
    BY <2>1, <2>2
  <2> QED
    BY <2>3 DEF len
<1>3. ASSUME Has("country_long")
      PROVE  RowString(RowAt(p), "country_long") # None
  <2>1. ASSUME NEW f \in {4, 6}, NEW i \in 1 .. Len(Rows(db, f)), NEW g \in db.fields
        PROVE  Rows(db, f)[i][g] # None
    <3> DEFINE ok(d, h, j) == LET row == Rows(d, h)[j] IN
                 DOMAIN row = d.fields /\ \A x \in d.fields : row[x] # None
    <3>1. \A d \in Databases : \A h \in {4, 6} : \A j \in 1 .. Len(Rows(d, h)) : ok(d, h, j)
      BY DictionaryAssumption
    <3>2. db \in Databases
      BY DEF Loops
    <3> HIDE DEF ok
    <3>3. ok(db, f, i)
      BY <3>1, <3>2
    <3> QED
      BY <3>3 DEF ok
  <2>2. "country_long" \in db.fields
    BY <1>3 DEF Has
  <2>3. RowAt(p)["country_long"] # None
    BY <1>1, <1>2, <2>1, <2>2 DEF RowAt
  <2>4. "" # None
    BY DictionaryAssumption
  <2> QED
    BY <2>3, <2>4 DEF RowString
<1> QED
  BY <1>1, <1>2, <1>3

\* The row that ReadRow reads comes behind those that have been read.
LEMMA ReadPlace ==
  ASSUME Loops, ReadRow, NEW q, q = <<family, index + 1>>
  PROVE  /\ Loops' /\ Places' = Places \cup {q}
         /\ RowAt(q) = Rows(db, family)[index + 1]
         /\ Before(q, q) /\ \A p \in Places : Before(p, q)
<1>1. /\ family \in {4, 6} /\ family' = family /\ index' = index + 1 /\ db' = db
      /\ mask' = mask /\ index \in Nat /\ index < Last(db, family)
  BY DEF ReadRow, Loops
<1>2. Last(db, family) \in Int /\ Last(db, family)' = Last(db, family)
  BY <1>1, Sizes DEF Last, Rows
<1>3. Loops'
  BY <1>1, <1>2 DEF Loops, Last, Rows
<1>4. /\ RowsRead(family) = index /\ RowsRead(family)' = index + 1
      /\ \A f \in {4, 6} : f # family => RowsRead(f)' = RowsRead(f)
  BY <1>1 DEF RowsRead, Last, Rows
<1>5. Places' = Places \cup {q}
  <2> DEFINE At(f, n) == {<<f, i>> : i \in 1 .. n}
  <2>1. Places = At(4, RowsRead(4)) \cup At(6, RowsRead(6))
    BY DEF Places
  <2>2. Places' = At(4, RowsRead(4)') \cup At(6, RowsRead(6)')
    BY DEF Places
  <2>3. At(family, index + 1) = At(family, index) \cup {q}
    <3>1. 1 .. (index + 1) = 1 .. index \cup {index + 1}
      BY <1>1
    <3> QED
      BY <3>1
  <2> HIDE DEF At
  <2>4. CASE family = 4
    BY <1>1, <1>4, <2>1, <2>2, <2>3, <2>4
  <2>5. CASE family = 6
    BY <1>1, <1>4, <2>1, <2>2, <2>3, <2>5
  <2> QED
    BY <1>1, <2>4, <2>5
<1>6. ASSUME NEW p \in Places
      PROVE  Before(p, q)
  <2>1. p[1] \in {4, 6} /\ p[2] \in 1 .. RowsRead(p[1])
    BY PlaceOfRow
  <2>2. q[1] = family /\ q[2] = index + 1
    OBVIOUS
  <2>3. CASE p[1] = family
    BY <1>1, <1>4, <2>1, <2>2, <2>3 DEF Before
  <2>4. CASE p[1] = 6 /\ family = 4
    BY <2>1, <2>4 DEF RowsRead
  <2>5. CASE p[1] = 4 /\ family = 6
    BY <2>2, <2>5 DEF Before
  <2> QED
    BY <1>1, <2>1, <2>3, <2>4, <2>5
<1> QED
  BY <1>1, <1>3, <1>5, <1>6 DEF Before, RowAt

\* The end of a table reads nothing.
LEMMA SamePlaces ==
  ASSUME Loops, NextTable
  PROVE  Loops' /\ Places' = Places
<1>1. /\ family \in {4, 6} /\ index' = 0 /\ db' = db /\ mask' = mask
      /\ index = Last(db, family)
      /\ family' = IF family = 4 /\ Len(db.v6) >= 2 THEN 6 ELSE 0
  <2>1. family \in {4, 6} /\ index \in Nat /\ index <= Last(db, family)
    BY DEF NextTable, Loops
  <2>2. Last(db, family) \in Int
    BY <2>1, Sizes
  <2> QED
    BY <2>1, <2>2 DEF NextTable
<1>2. Last(db, 4)' = Last(db, 4) /\ Last(db, 6)' = Last(db, 6)
  BY <1>1 DEF Last, Rows
<1>3. Last(db, 6) = Len(db.v6) - 2 /\ Len(db.v6) \in Nat
  BY Sizes DEF Rows
<1>4. Loops'
  <2>1. 0 <= IF family' = 0 THEN 0 ELSE Last(db, family)'
    BY <1>1, <1>2, <1>3
  <2> QED
    BY <1>1, <2>1 DEF Loops
<1>5. 1 .. RowsRead(4)' = 1 .. RowsRead(4)
  BY <1>1, <1>2 DEF RowsRead
<1>6. 1 .. RowsRead(6)' = 1 .. RowsRead(6)
  <2>1. CASE family = 6
    BY <1>1, <1>2, <2>1 DEF RowsRead
  <2>2. CASE family = 4 /\ Len(db.v6) >= 2
    BY <1>1, <2>2 DEF RowsRead
  <2>3. CASE family = 4 /\ ~ (Len(db.v6) >= 2)
    <3>1. RowsRead(6) = 0 /\ RowsRead(6)' = Last(db, 6)
      BY <1>1, <1>2, <2>3 DEF RowsRead
    <3>2. Last(db, 6) \in Int /\ Last(db, 6) < 0
      BY <1>3, <2>3
    <3>3. 1 .. 0 = {} /\ 1 .. Last(db, 6) = {}
      BY <3>2
    <3> QED
      BY <3>1, <3>3
  <2> QED
    BY <1>1, <2>1, <2>2, <2>3
<1> QED
  BY <1>4, <1>5, <1>6 DEF Places

-----------------------------------------------------------------------------
(* The inductive invariant                                                 *)

Countries == \A c : c \in DOMAIN dict <=> c \notin Unknown /\ PlacesOf(c) # {}
CountriesExact ==
  \A c \in DOMAIN dict : \A k, P : k = dict[c] /\ P = PlacesOf(c) => Exact(k, P)
Finished ==
  result # None => /\ family = 0
                   /\ result = [c \in DOMAIN dict |-> CountryResult(dict[c])]

Inv == Loops /\ Countries /\ CountriesExact /\ Finished

LEMMA InitInv == Init => Inv
<1> SUFFICES ASSUME Init
             PROVE  Inv
  OBVIOUS
<1>1. Loops
  <2>1. Len(db.v4) \in Nat /\ Len(db.v4) >= 2
    BY DictionaryAssumption DEF Init
  <2> QED
    BY <2>1 DEF Init, Loops, Last, Rows
<1>2. Places = {}
  BY DEF Init, Places, RowsRead
<1>3. DOMAIN dict = {}
  BY DEF Init, NoMap
<1>4. \A c : PlacesOf(c) = {}
  BY <1>2 DEF PlacesOf
<1> QED
  BY <1>1, <1>3, <1>4 DEF Init, Inv, Countries, CountriesExact, Finished

\* What a country holds of given rows depends on the database and the mask only.
LEMMA ExactKept ==
  ASSUME db' = db, mask' = mask, NEW k, NEW P, Exact(k, P)
  PROVE  Exact(k, P)'
<1>1. /\ \A f : Has(f)' <=> Has(f)
      /\ \A p : RowAt(p)' = RowAt(p)
      /\ \A s : (CodeAlone(s)' <=> CodeAlone(s)) /\ (Branched(s)' <=> Branched(s))
  BY DEF Has, RowAt, CodeAlone, Branched
<1>2. LongExact(k.long, P)'
  BY <1>1 DEF Exact, LongExact
<1>3. ASSUME NEW p, NEW s
      PROVE  /\ \A n : Adds(RowAt(p), s, n)' <=> Adds(RowAt(p), s, n)
             /\ \A n, l : AddsLeaf(RowAt(p), s, n, l)' <=> AddsLeaf(RowAt(p), s, n, l)
  BY <1>1 DEF Adds, AddsLeaf, FieldOf
<1>4. ASSUME NEW s \in Slot
      PROVE  SlotExact(k.slots[s], s, P)'
  BY <1>1, <1>3 DEF Exact, SlotExact
<1> QED
  BY <1>2, <1>4 DEF Exact

\* The rows of a country when one more row has been read.
LEMMA PlacesGrow ==
  ASSUME db' = db, NEW q, Places' = Places \cup {q}, NEW c
  PROVE  PlacesOf(c)' = PlacesOf(c)
           \cup {p \in {q} : "country_short" \in db.fields /\ Short(RowAt(q)) = c}
BY DEF PlacesOf, Short, RowString, RowAt

LEMMA ReadInv ==
  ASSUME Inv, ReadRow
  PROVE  Inv'
<1> DEFINE q == <<family, index + 1>>
           row == Rows(db, family)[index + 1]
           short == Short(row)
<1>1. /\ Loops' /\ Places' = Places \cup {q} /\ RowAt(q) = row
      /\ Before(q, q) /\ \A p \in Places : Before(p, q)
  BY ReadPlace DEF Inv
<1>2. /\ db' = db /\ mask' = mask /\ result' = result /\ family' = family
      /\ dict' = Item(dict, row) /\ family # 0
  BY DEF ReadRow
<1>3. Finished'
  BY <1>2 DEF Inv, Finished
<1> HIDE DEF q
<1>4. ASSUME NEW c
      PROVE  PlacesOf(c)' = PlacesOf(c)
               \cup {p \in {q} : "country_short" \in db.fields /\ short = c}
  BY <1>1, <1>2, PlacesGrow
<1> HIDE DEF row
<1>5. CASE "country_short" \notin db.fields \/ short \in Unknown
  <2>1. dict' = dict
    BY <1>2, <1>5 DEF Item, Short
  <2>2. \A c : c \notin Unknown => PlacesOf(c)' = PlacesOf(c)
    BY <1>4, <1>5
  <2>3. Countries'
    BY <2>1, <2>2 DEF Inv, Countries
  <2>4. ASSUME NEW c \in DOMAIN dict', NEW k, NEW P, k = dict'[c], P = PlacesOf(c)'
        PROVE  Exact(k, P)'
    <3>1. c \in DOMAIN dict /\ k = dict[c] /\ P = PlacesOf(c)
      BY <2>1, <2>2, <2>4 DEF Inv, Countries
    <3>2. Exact(k, P)
      BY <3>1 DEF Inv, CountriesExact
    <3> QED
      BY <1>2, <3>2, ExactKept
  <2> QED
    BY <1>1, <1>3, <2>3, <2>4 DEF Inv, CountriesExact
<1>6. CASE "country_short" \in db.fields /\ short \notin Unknown
  <2> DEFINE found == FindOrAdd(dict, short, Country)
  <2>1. /\ DOMAIN dict' = DOMAIN found
        /\ \A c \in DOMAIN found :
             dict'[c] = IF c = short THEN WithRow(found[c], row) ELSE found[c]
    BY <1>2, <1>6 DEF Item, Short
  <2>2. /\ \A c : c \in DOMAIN found <=> c \in DOMAIN dict \/ c = short
        /\ \A c \in DOMAIN found : found[c] = IF c \in DOMAIN dict THEN dict[c] ELSE Country
    BY <1>6, Found
  <2> HIDE DEF found
  <2>3. \A c : PlacesOf(c)' = IF c = short THEN PlacesOf(c) \cup {q} ELSE PlacesOf(c)
    BY <1>4, <1>6
  <2>4. Countries'
    <3> SUFFICES ASSUME NEW c
                 PROVE  c \in DOMAIN dict' <=> c \notin Unknown /\ PlacesOf(c)' # {}
      BY DEF Countries
    <3>1. c \in DOMAIN dict <=> c \notin Unknown /\ PlacesOf(c) # {}
      BY DEF Inv, Countries
    <3> QED
      BY <1>6, <2>1, <2>2, <2>3, <3>1
  <2>5. ASSUME NEW c \in DOMAIN dict', NEW k, NEW P, k = dict'[c], P = PlacesOf(c)'
        PROVE  Exact(k, P)'
    <3>1. Exact(found[c], PlacesOf(c))
      <4>1. CASE c \in DOMAIN dict
        BY <2>1, <2>2, <4>1 DEF Inv, CountriesExact
      <4>2. CASE c \notin DOMAIN dict
        <5>1. c = short /\ found[c] = Country
          BY <2>1, <2>2, <2>5, <4>2
        <5>2. PlacesOf(c) = {}
          BY <1>6, <4>2, <5>1 DEF Inv, Countries
        <5> QED
          BY <5>1, <5>2, EmptyExact
      <4> QED
        BY <4>1, <4>2
    <3>2. Exact(k, P)
      <4>1. CASE c # short
        BY <2>1, <2>3, <2>5, <3>1, <4>1
      <4>2. CASE c = short
        <5>1. k = WithRow(found[c], RowAt(q)) /\ P = PlacesOf(c) \cup {q}
          BY <1>1, <2>1, <2>3, <2>5, <4>2 DEF row
        <5>2. /\ \A p \in PlacesOf(c) : Before(p, q)
              /\ Has("country_long") =>
                   \A p \in PlacesOf(c) : RowString(RowAt(p), "country_long") # None
          BY <1>1, PlaceOfRow DEF PlacesOf, Inv
        <5> QED
          BY <1>1, <3>1, <5>1, <5>2, CountryGrows
      <4> QED
        BY <4>1, <4>2
    <3> QED
      BY <1>2, <3>2, ExactKept
  <2> QED
    BY <1>1, <1>3, <2>4, <2>5 DEF Inv, CountriesExact
<1> QED
  BY <1>5, <1>6

LEMMA InvHolds == Spec => []Inv
<1>1. ASSUME Inv, [Next]_vars
      PROVE  Inv'
  <2>1. CASE ReadRow
    BY <1>1, <2>1, ReadInv
  <2>2. ASSUME db' = db, mask' = mask, dict' = dict, Places' = Places, Loops', Finished'
        PROVE  Inv'
    <3>1. \A c : PlacesOf(c)' = PlacesOf(c)
      BY <2>2 DEF PlacesOf, RowAt
    <3>2. Countries'
      BY <1>1, <2>2, <3>1 DEF Inv, Countries
    <3>3. ASSUME NEW c \in DOMAIN dict', NEW k, NEW P, k = dict'[c], P = PlacesOf(c)'
          PROVE  Exact(k, P)'
      <4>1. Exact(k, P)
        BY <1>1, <2>2, <3>1, <3>3 DEF Inv, CountriesExact
      <4> QED
        BY <2>2, <4>1, ExactKept
    <3> QED
      BY <2>2, <3>2, <3>3 DEF Inv, CountriesExact
  <2>3. CASE NextTable
    <3>1. Finished'
      BY <1>1, <2>3 DEF NextTable, Inv, Finished
    <3> QED
      BY <1>1, <2>2, <2>3, <3>1, SamePlaces DEF Inv, NextTable
  <2>4. CASE Finish
    <3>1. Finished'
      <4>1. /\ family' = family /\ family = 0 /\ dict' = dict /\ mask' = mask
            /\ result' = [c \in DOMAIN dict |-> CountryResult(dict[c])]
        BY <2>4 DEF Finish
      <4>2. \A k : CountryResult(k)' = CountryResult(k)
        BY <4>1 DEF CountryResult, BranchPaths, ListPaths, CodeAlone
      <4> QED
        BY <4>1, <4>2 DEF Finished
    <3>2. Loops' /\ Places' = Places
      BY <1>1, <2>4 DEF Finish, Inv, Loops, Places, RowsRead, Last, Rows
    <3> QED
      BY <2>2, <2>4, <3>1, <3>2 DEF Finish
  <2>5. CASE UNCHANGED vars
    <3>1. Finished'
      <4>1. family' = family /\ dict' = dict /\ mask' = mask /\ result' = result
        BY <2>5 DEF vars
      <4>2. \A k : CountryResult(k)' = CountryResult(k)
        BY <4>1 DEF CountryResult, BranchPaths, ListPaths, CodeAlone
      <4> QED
        BY <1>1, <4>1, <4>2 DEF Inv, Finished
    <3>2. Loops' /\ Places' = Places
      BY <1>1, <2>5 DEF vars, Inv, Loops, Places, RowsRead, Last, Rows
    <3> QED
      BY <2>2, <2>5, <3>1, <3>2 DEF vars
  <2> QED
    BY <1>1, <2>1, <2>3, <2>4, <2>5 DEF Next
<1> QED
  BY <1>1, InitInv, PTL DEF Spec

-----------------------------------------------------------------------------
(* The result                                                              *)

\* The field of a slot is the branch unless only codes are asked for.
LEMMA FieldOfSlot ==
  /\ \A f \in Lists : f \in Slot /\ FieldOf(f) = f
  /\ \A b \in Branches : b.slot \in Slot /\ (b.branch \in mask => FieldOf(b.slot) = b.branch)
  /\ CodeAlone("weatherstation") => FieldOf("weatherstation") = "weatherstationcode"
  /\ \A s \in Slot : \/ s \in Lists
                     \/ s = "weatherstation" /\ CodeAlone(s)
                     \/ \E b \in Branches : s = b.slot /\ FieldOf(s) = b.branch
  /\ "weatherstation" \in Slot
<1>1. ASSUME NEW b \in Branches, b.branch \in mask
      PROVE  ~ CodeAlone(b.slot)
  BY <1>1 DEF CodeAlone, Branches
<1>2. \A b \in Branches : /\ b.slot \in Slot /\ b.slot \notin Lists
                          /\ BranchOf(b.slot) = b
  BY OneBranch
<1>3. \A f \in Lists : f \in Slot /\ FieldOf(f) = f
  BY DEF Slot, FieldOf
<1>4. "weatherstation" \in Slot /\ "weatherstation" \notin Lists
  BY DEF Slot, Branches, Lists
<1>5. ASSUME NEW s \in Slot, s \notin Lists
      PROVE  \/ s = "weatherstation" /\ CodeAlone(s)
             \/ \E b \in Branches : s = b.slot /\ FieldOf(s) = b.branch
  <2>1. CASE CodeAlone(s)
    BY <2>1 DEF CodeAlone
  <2>2. CASE ~ CodeAlone(s)
    BY <1>5, <2>2, Slots DEF FieldOf
  <2> QED
    BY <2>1, <2>2
<1> QED
  BY <1>1, <1>2, <1>3, <1>4, <1>5 DEF FieldOf

\* The paths to names and to leaves that the object of a country has.
LEMMA PathsOfResult ==
  ASSUME NEW k, NEW path
  PROVE  path \in CountryResult(k).paths /\ Len(path) > 1 <=>
           \/ \E s \in Slot : /\ FieldOf(s) \in mask
                             /\ \E n \in DOMAIN k.slots[s] : path = <<FieldOf(s), n>>
           \/ \E b \in Branches : /\ b.branch \in mask /\ b.leaf \in mask
                                 /\ \E n \in DOMAIN k.slots[b.slot] :
                                      \E l \in k.slots[b.slot][n].leaves :
                                        path = <<b.branch, n, l>>
<1> DEFINE InBranch(b) ==
             /\ b.branch \in mask
             /\ \/ \E n \in DOMAIN k.slots[b.slot] : path = <<b.branch, n>>
                \/ /\ b.leaf \in mask
                   /\ \E n \in DOMAIN k.slots[b.slot] :
                        \E l \in k.slots[b.slot][n].leaves : path = <<b.branch, n, l>>
           InList(f, map) == f \in mask /\ \E n \in DOMAIN map : path = <<f, n>>
<1>1. \A f : Len(<<f>>) = 1 /\ \A n : Len(<<f, n>>) = 2 /\ \A l : Len(<<f, n, l>>) = 3
  OBVIOUS
<1>2. ASSUME NEW b \in Branches
      PROVE  path \in BranchPaths(b, k.slots[b.slot]) /\ Len(path) > 1 <=> InBranch(b)
  <2> DEFINE map == k.slots[b.slot]
  <2>1. path \in BranchPaths(b, map) <=>
          /\ b.branch \in mask
          /\ \/ path = <<b.branch>>
             \/ \E n \in DOMAIN map : path = <<b.branch, n>>
             \/ /\ b.leaf \in mask
                /\ \E n \in DOMAIN map : \E l \in map[n].leaves : path = <<b.branch, n, l>>
    BY DEF BranchPaths
  <2>2. path = <<b.branch>> => ~ (Len(path) > 1)
    BY <1>1
  <2>3. \A n : path = <<b.branch, n>> => Len(path) > 1
    BY <1>1
  <2>4. \A n, l : path = <<b.branch, n, l>> => Len(path) > 1
    BY <1>1
  <2> DEFINE short == path = <<b.branch>>
             name == \E n \in DOMAIN map : path = <<b.branch, n>>
             leaf == \E n \in DOMAIN map : \E l \in map[n].leaves : path = <<b.branch, n, l>>
             long == Len(path) > 1
  <2>5. /\ path \in BranchPaths(b, map) <=>
              b.branch \in mask /\ (short \/ name \/ (b.leaf \in mask /\ leaf))
        /\ InBranch(b) <=> b.branch \in mask /\ (name \/ (b.leaf \in mask /\ leaf))
    BY <2>1, Zenon
  <2>6. (short => ~ long) /\ (name => long) /\ (leaf => long)
    BY <2>2, <2>3, <2>4
  <2> HIDE DEF short, name, leaf, long, InBranch
  <2>7. path \in BranchPaths(b, map) /\ long <=> InBranch(b)
    BY <2>5, <2>6
  <2> QED
    BY <2>7 DEF long
<1>3. ASSUME NEW f, NEW map
      PROVE  path \in ListPaths(f, map) /\ Len(path) > 1 <=> InList(f, map)
  <2>1. path \in ListPaths(f, map) <=>
          f \in mask /\ (path = <<f>> \/ \E n \in DOMAIN map : path = <<f, n>>)
    BY DEF ListPaths
  <2>2. path = <<f>> => ~ (Len(path) > 1)
    BY <1>1
  <2>3. \A n : path = <<f, n>> => Len(path) > 1
    BY <1>1
  <2> QED
    BY <2>1, <2>2, <2>3
<1>4. path \in CountryResult(k).paths <=>
        \/ \E b \in Branches : path \in BranchPaths(b, k.slots[b.slot])
        \/ \E f \in Lists : path \in ListPaths(f, k.slots[f])
        \/ /\ CodeAlone("weatherstation")
           /\ path \in ListPaths("weatherstationcode", k.slots["weatherstation"])
  <2> DEFINE inBranches == UNION {BranchPaths(b, k.slots[b.slot]) : b \in Branches}
             inLists == UNION {ListPaths(f, k.slots[f]) : f \in Lists}
             codes == IF CodeAlone("weatherstation")
                      THEN ListPaths("weatherstationcode", k.slots["weatherstation"])
                      ELSE {}
  <2>1. CountryResult(k).paths = inBranches \cup inLists \cup codes
    <3>1. CountryResult(k) = [long |-> IF "country_long" \in mask THEN k.long ELSE None,
                              paths |-> inBranches \cup inLists \cup codes]
      BY DEF CountryResult
    <3> HIDE DEF inBranches, inLists, codes
    <3> QED
      BY <3>1
  <2> QED
    BY <2>1
<1>5. path \in CountryResult(k).paths /\ Len(path) > 1 <=>
        \/ \E b \in Branches : InBranch(b)
        \/ \E f \in Lists : InList(f, k.slots[f])
        \/ /\ CodeAlone("weatherstation")
           /\ InList("weatherstationcode", k.slots["weatherstation"])
  <2> HIDE DEF InBranch, InList
  <2> QED
    BY <1>2, <1>3, <1>4
<1>6. ASSUME NEW s \in Slot, FieldOf(s) \in mask, NEW n \in DOMAIN k.slots[s],
             path = <<FieldOf(s), n>>
      PROVE  \/ \E b \in Branches : InBranch(b)
             \/ \E f \in Lists : InList(f, k.slots[f])
             \/ /\ CodeAlone("weatherstation")
                /\ InList("weatherstationcode", k.slots["weatherstation"])
  <2>1. CASE s \in Lists
    BY <1>6, <2>1, FieldOfSlot
  <2>2. CASE s = "weatherstation" /\ CodeAlone(s)
    BY <1>6, <2>2, FieldOfSlot
  <2>3. CASE \E b \in Branches : s = b.slot /\ FieldOf(s) = b.branch
    BY <1>6, <2>3
  <2> QED
    BY <2>1, <2>2, <2>3, FieldOfSlot
<1>7. CodeAlone("weatherstation") => "weatherstationcode" \in mask
  BY DEF CodeAlone
<1> QED
  BY <1>5, <1>6, <1>7, FieldOfSlot

\* The paths that a row asks for.
LEMMA PathsOfRow ==
  ASSUME NEW row, NEW path
  PROVE  path \in PathsOf(row) /\ Shown(path) <=>
           \/ \E s \in Slot : \E n : Adds(row, s, n) /\ path = <<FieldOf(s), n>>
           \/ \E b \in Branches :
                \E n, l : AddsLeaf(row, b.slot, n, l) /\ path = <<b.branch, n, l>>
<1> DEFINE Str(f) == RowString(row, f)
<1>1. path \in PathsOf(row) <=>
        \/ \E f \in Lists : Has(f) /\ path = <<f, Str(f)>>
        \/ \E b \in Branches : Has(b.branch) /\ path = <<b.branch, Str(b.branch)>>
        \/ /\ Has("weatherstationcode") /\ "weatherstationname" \notin mask
           /\ path = <<"weatherstationcode", Str("weatherstationcode")>>
        \/ \E b \in Branches : /\ Has(b.branch) /\ Has(b.leaf)
                              /\ path = <<b.branch, Str(b.branch), Str(b.leaf)>>
  BY DEF PathsOf
<1>2. \A f, n : Shown(<<f, n>>) <=> n \notin Unknown
  BY DEF Shown
<1>3. \A f, n, l : Shown(<<f, n, l>>) <=> n \notin Unknown /\ l \notin Unknown
  <2> SUFFICES ASSUME NEW f, NEW n, NEW l
               PROVE  Shown(<<f, n, l>>) <=> n \notin Unknown /\ l \notin Unknown
    OBVIOUS
  <2>1. 2 .. Len(<<f, n, l>>) = {2, 3}
    OBVIOUS
  <2> QED
    BY <2>1 DEF Shown
<1>4. \A b \in Branches : \A n, l : AddsLeaf(row, b.slot, n, l) <=>
        /\ Has(b.branch) /\ Has(b.leaf)
        /\ n = Str(b.branch) /\ l = Str(b.leaf)
        /\ n \notin Unknown /\ l \notin Unknown
  BY OneBranch DEF AddsLeaf
<1>5. (\E s \in Slot : \E n : Adds(row, s, n) /\ path = <<FieldOf(s), n>>) <=>
        /\ \/ \E f \in Lists : Has(f) /\ path = <<f, Str(f)>>
           \/ \E b \in Branches : Has(b.branch) /\ path = <<b.branch, Str(b.branch)>>
           \/ /\ Has("weatherstationcode") /\ "weatherstationname" \notin mask
              /\ path = <<"weatherstationcode", Str("weatherstationcode")>>
        /\ path[2] \notin Unknown
  <2>1. \A f : Has(f) => f \in mask
    BY DEF Has
  <2>2. CodeAlone("weatherstation") <=>
          "weatherstationcode" \in mask /\ "weatherstationname" \notin mask
    BY DEF CodeAlone
  <2>3. (\E s \in Slot : \E n : Adds(row, s, n) /\ path = <<FieldOf(s), n>>) <=>
          /\ \E s \in Slot : Has(FieldOf(s)) /\ path = <<FieldOf(s), Str(FieldOf(s))>>
          /\ path[2] \notin Unknown
    BY DEF Adds
  <2>4. ASSUME NEW s \in Slot, Has(FieldOf(s)), path = <<FieldOf(s), Str(FieldOf(s))>>
        PROVE  \/ \E f \in Lists : Has(f) /\ path = <<f, Str(f)>>
               \/ \E b \in Branches : Has(b.branch) /\ path = <<b.branch, Str(b.branch)>>
               \/ /\ Has("weatherstationcode") /\ "weatherstationname" \notin mask
                  /\ path = <<"weatherstationcode", Str("weatherstationcode")>>
    <3>1. CASE s \in Lists
      BY <2>4, <3>1, FieldOfSlot
    <3>2. CASE s = "weatherstation" /\ CodeAlone(s)
      BY <2>2, <2>4, <3>2, FieldOfSlot
    <3>3. CASE \E b \in Branches : s = b.slot /\ FieldOf(s) = b.branch
      BY <2>4, <3>3
    <3> QED
      BY <3>1, <3>2, <3>3, FieldOfSlot
  <2>5. ASSUME \/ \E f \in Lists : Has(f) /\ path = <<f, Str(f)>>
               \/ \E b \in Branches : Has(b.branch) /\ path = <<b.branch, Str(b.branch)>>
               \/ /\ Has("weatherstationcode") /\ "weatherstationname" \notin mask
                  /\ path = <<"weatherstationcode", Str("weatherstationcode")>>
        PROVE  \E s \in Slot : Has(FieldOf(s)) /\ path = <<FieldOf(s), Str(FieldOf(s))>>
    <3>1. ASSUME NEW f \in Lists, Has(f), path = <<f, Str(f)>>
          PROVE  \E s \in Slot : Has(FieldOf(s)) /\ path = <<FieldOf(s), Str(FieldOf(s))>>
      BY <3>1, FieldOfSlot
    <3>2. ASSUME NEW b \in Branches, Has(b.branch), path = <<b.branch, Str(b.branch)>>
          PROVE  \E s \in Slot : Has(FieldOf(s)) /\ path = <<FieldOf(s), Str(FieldOf(s))>>
      BY <2>1, <3>2, FieldOfSlot
    <3>3. ASSUME Has("weatherstationcode"), "weatherstationname" \notin mask,
                 path = <<"weatherstationcode", Str("weatherstationcode")>>
          PROVE  \E s \in Slot : Has(FieldOf(s)) /\ path = <<FieldOf(s), Str(FieldOf(s))>>
      BY <2>1, <2>2, <3>3, FieldOfSlot
    <3> QED
      BY <2>5, <3>1, <3>2, <3>3
  <2> QED
    BY <2>3, <2>4, <2>5
<1>6. (\E b \in Branches : \E n, l : AddsLeaf(row, b.slot, n, l) /\ path = <<b.branch, n, l>>)
        <=> /\ \E b \in Branches : /\ Has(b.branch) /\ Has(b.leaf)
                                  /\ path = <<b.branch, Str(b.branch), Str(b.leaf)>>
            /\ path[2] \notin Unknown /\ path[3] \notin Unknown
  <2>1. ASSUME NEW b \in Branches
        PROVE  (\E n, l : AddsLeaf(row, b.slot, n, l) /\ path = <<b.branch, n, l>>)
                 <=> /\ Has(b.branch) /\ Has(b.leaf)
                     /\ path = <<b.branch, Str(b.branch), Str(b.leaf)>>
                     /\ path[2] \notin Unknown /\ path[3] \notin Unknown
    <3> DEFINE name == Str(b.branch)
               leaf == Str(b.leaf)
    <3>1. \A n, l : AddsLeaf(row, b.slot, n, l) <=>
            /\ Has(b.branch) /\ Has(b.leaf)
            /\ n = name /\ l = leaf /\ n \notin Unknown /\ l \notin Unknown
      BY <1>4
    <3>2. path = <<b.branch, name, leaf>> => path[2] = name /\ path[3] = leaf
      OBVIOUS
    <3> HIDE DEF name, leaf
    <3>3. (\E n, l : AddsLeaf(row, b.slot, n, l) /\ path = <<b.branch, n, l>>)
            <=> /\ Has(b.branch) /\ Has(b.leaf) /\ path = <<b.branch, name, leaf>>
                /\ name \notin Unknown /\ leaf \notin Unknown
      BY <3>1
    <3> QED
      BY <3>2, <3>3 DEF name, leaf
  <2> QED
    BY <2>1
<1>7. ASSUME NEW f, NEW n, path = <<f, n>>
      PROVE  Shown(path) <=> path[2] \notin Unknown
  BY <1>2, <1>7
<1>8. ASSUME NEW f, NEW n, NEW l, path = <<f, n, l>>
      PROVE  Shown(path) <=> path[2] \notin Unknown /\ path[3] \notin Unknown
  BY <1>3, <1>8
<1> QED
  BY <1>1, <1>5, <1>6, <1>7, <1>8

\* The object of a country shows what its rows ask for.
LEMMA CountryShows ==
  ASSUME NEW k, NEW P, Exact(k, P)
  PROVE  {path \in CountryResult(k).paths : Len(path) > 1} =
           {path \in UNION {PathsOf(RowAt(p)) : p \in P} : Shown(path)}
<1> SUFFICES ASSUME NEW path
             PROVE  path \in CountryResult(k).paths /\ Len(path) > 1 <=>
                      \E p \in P : path \in PathsOf(RowAt(p)) /\ Shown(path)
  OBVIOUS
<1> DEFINE Name(row) == \E s \in Slot : \E n : Adds(row, s, n) /\ path = <<FieldOf(s), n>>
           Leaf(row) == \E b \in Branches :
                          \E n, l : AddsLeaf(row, b.slot, n, l) /\ path = <<b.branch, n, l>>
<1>1. (\E p \in P : path \in PathsOf(RowAt(p)) /\ Shown(path)) <=>
        (\E p \in P : Name(RowAt(p))) \/ (\E p \in P : Leaf(RowAt(p)))
  <2>1. \A p \in P : path \in PathsOf(RowAt(p)) /\ Shown(path) <=>
                     Name(RowAt(p)) \/ Leaf(RowAt(p))
    BY PathsOfRow
  <2> HIDE DEF Name, Leaf
  <2> QED
    BY <2>1
<1>2. (\E s \in Slot : /\ FieldOf(s) \in mask
                      /\ \E n \in DOMAIN k.slots[s] : path = <<FieldOf(s), n>>)
        <=> \E p \in P : Name(RowAt(p))
  <2>1. \A s \in Slot : \A n : n \in DOMAIN k.slots[s] <=> \E p \in P : Adds(RowAt(p), s, n)
    BY DEF Exact, SlotExact
  <2>2. \A s \in Slot : \A n : \A p \in P : Adds(RowAt(p), s, n) => FieldOf(s) \in mask
    BY DEF Adds, Has
  <2>3. (\E p \in P : Name(RowAt(p))) <=>
          \E s \in Slot : \E n : /\ \E p \in P : Adds(RowAt(p), s, n)
                              /\ path = <<FieldOf(s), n>>
    BY Zenon
  <2> HIDE DEF Name
  <2>4. ASSUME NEW s \in Slot, NEW n
        PROVE  (\E p \in P : Adds(RowAt(p), s, n)) <=>
                 n \in DOMAIN k.slots[s] /\ FieldOf(s) \in mask
                   /\ \E p \in P : Adds(RowAt(p), s, n)
    BY <2>1, <2>2
  <2> QED
    BY <2>1, <2>3, <2>4, Zenon
<1>3. (\E b \in Branches : /\ b.branch \in mask /\ b.leaf \in mask
                          /\ \E n \in DOMAIN k.slots[b.slot] :
                               \E l \in k.slots[b.slot][n].leaves :
                                 path = <<b.branch, n, l>>)
        <=> \E p \in P : Leaf(RowAt(p))
  <2>1. ASSUME NEW b \in Branches, NEW n, NEW l
        PROVE  /\ b.branch \in mask /\ b.leaf \in mask
               /\ n \in DOMAIN k.slots[b.slot] /\ l \in k.slots[b.slot][n].leaves
               <=> \E p \in P : AddsLeaf(RowAt(p), b.slot, n, l)
    <3>1. b.slot \in Slot /\ BranchOf(b.slot) = b
      BY OneBranch
    <3>2. SlotExact(k.slots[b.slot], b.slot, P)
      BY <3>1 DEF Exact
    <3>3. ASSUME NEW p \in P, AddsLeaf(RowAt(p), b.slot, n, l)
          PROVE  b.branch \in mask /\ b.leaf \in mask /\ n \in DOMAIN k.slots[b.slot]
      <4>1. Adds(RowAt(p), b.slot, n)
        BY <3>1, <3>3, LeafOfName
      <4> QED
        BY <3>1, <3>2, <3>3, <4>1 DEF AddsLeaf, Has, SlotExact
    <3>4. n \in DOMAIN k.slots[b.slot] =>
            (l \in k.slots[b.slot][n].leaves <=>
               \E p \in P : AddsLeaf(RowAt(p), b.slot, n, l))
      BY <3>2 DEF SlotExact
    <3> QED
      BY <3>3, <3>4
  <2>2. (\E p \in P : Leaf(RowAt(p))) <=>
          \E b \in Branches : \E n, l : /\ \E p \in P : AddsLeaf(RowAt(p), b.slot, n, l)
                                       /\ path = <<b.branch, n, l>>
    OBVIOUS
  <2> QED
    BY <2>1, <2>2
<1>4. path \in CountryResult(k).paths /\ Len(path) > 1 <=>
        (\E p \in P : Name(RowAt(p))) \/ (\E p \in P : Leaf(RowAt(p)))
  <2> HIDE DEF Name, Leaf
  <2> QED
    BY <1>2, <1>3, PathsOfResult
<1> HIDE DEF Name, Leaf
<1> QED
  BY <1>1, <1>4

-----------------------------------------------------------------------------
(* The theorems                                                            *)

(***************************************************************************)
(* The loops stay in their tables, and maps hold elements and branches.    *)
(***************************************************************************)
THEOREM TypeCorrect == Spec => []TypeOK
<1>1. Inv => TypeOK
  <2> SUFFICES ASSUME Inv
               PROVE  TypeOK
    OBVIOUS
  <2>1. Len(db.v4) >= 2
    BY DictionaryAssumption DEF Inv, Loops
  <2>2. ASSUME NEW c \in DOMAIN dict, NEW s \in Slot, NEW n \in DOMAIN dict[c].slots[s]
        PROVE  dict[c].slots[s][n].kind \in {"element", "branch"}
    BY DEF Inv, CountriesExact, Exact, SlotExact
  <2> QED
    BY <2>1, <2>2 DEF Inv, Loops, TypeOK
<1> QED
  BY <1>1, InvHolds, PTL

(***************************************************************************)
(* An element is cast to a branch only if it was made as one, whatever is  *)
(* asked for (CreateDictionaryResultBranch, FindOrAddDictionaryElementMap).*)
(***************************************************************************)
THEOREM CastsRight == Spec => []CastsSound
<1>1. Inv => CastsSound
  <2> SUFFICES ASSUME Inv, NEW c \in DOMAIN dict, NEW b \in Branches,
                      {b.branch, b.leaf} \subseteq mask,
                      NEW n \in DOMAIN dict[c].slots[b.slot]
               PROVE  dict[c].slots[b.slot][n].kind = "branch"
    BY DEF CastsSound
  <2>1. b.slot \in Slot /\ Branched(b.slot)
    BY OneBranch DEF Branched
  <2>2. Exact(dict[c], PlacesOf(c))
    BY DEF Inv, CountriesExact
  <2> QED
    BY <2>1, <2>2 DEF Exact, SlotExact
<1> QED
  BY <1>1, InvHolds, PTL

(***************************************************************************)
(* A country keeps the long name of the first of its rows, which is the    *)
(* empty name if it cannot be read, in tables of every length              *)
(* (IP2LDictionaryCountry::NoSecondName).                                  *)
(***************************************************************************)
THEOREM FirstName == Spec => []FirstLongName
<1>1. Inv => FirstLongName
  <2> SUFFICES ASSUME Inv, NEW c \in DOMAIN dict
               PROVE  IF Has("country_long")
                      THEN \E p \in PlacesOf(c) :
                             /\ \A q \in PlacesOf(c) : Before(p, q)
                             /\ dict[c].long = RowString(RowAt(p), "country_long")
                      ELSE dict[c].long = None
    BY DEF FirstLongName
  <2>1. LongExact(dict[c].long, PlacesOf(c))
    BY DEF Inv, CountriesExact, Exact
  <2>2. PlacesOf(c) # {}
    BY DEF Inv, Countries
  <2> QED
    BY <2>1, <2>2 DEF LongExact
<1> QED
  BY <1>1, InvHolds, PTL

(***************************************************************************)
(* The object that createDictionary() returns has the countries, names and *)
(* leaves of the rows that were read and no others, for tables of every    *)
(* length and any columns, whichever strings cannot be read, and every     *)
(* mask.                                                                   *)
(***************************************************************************)
THEOREM ResultRight == Spec => []ResultExact
<1>1. Inv => ResultExact
  <2> SUFFICES ASSUME Inv, result # None
               PROVE  /\ DOMAIN result = Known
                      /\ \A c \in Known :
                           {path \in result[c].paths : Len(path) > 1} =
                             {path \in UNION {PathsOf(RowAt(p)) : p \in PlacesOf(c)} :
                                Shown(path)}
    BY DEF ResultExact
  <2>1. result = [c \in DOMAIN dict |-> CountryResult(dict[c])]
    BY DEF Inv, Finished
  <2>2. DOMAIN dict = Known
    <3> SUFFICES ASSUME NEW c
                 PROVE  c \in DOMAIN dict <=> c \in Known
      OBVIOUS
    <3>1. c \in DOMAIN dict <=> c \notin Unknown /\ PlacesOf(c) # {}
      BY DEF Inv, Countries
    <3>2. c \in Known <=> c \notin Unknown /\ PlacesOf(c) # {}
      BY DEF Known, PlacesOf
    <3> QED
      BY <3>1, <3>2
  <2>3. ASSUME NEW c \in Known
        PROVE  {path \in result[c].paths : Len(path) > 1} =
                 {path \in UNION {PathsOf(RowAt(p)) : p \in PlacesOf(c)} : Shown(path)}
    <3>1. Exact(dict[c], PlacesOf(c))
      BY <2>2 DEF Inv, CountriesExact
    <3>2. result[c] = CountryResult(dict[c])
      BY <2>1, <2>2
    <3> QED
      BY <3>1, <3>2, CountryShows
  <2> QED
    BY <2>1, <2>2, <2>3
<1> QED
  BY <1>1, InvHolds, PTL

-----------------------------------------------------------------------------
(* What is left out                                                        *)

\* The object has every name that a row of a known country has.
Listed(row) ==
  "country_short" \in db.fields /\ Short(row) \notin Unknown =>
    /\ Short(row) \in DOMAIN result
    /\ \A path \in PathsOf(row) :
         Shown(path) => path \in result[Short(row)].paths

\* All rows of both tables but the last two of each.
RowsBefore == UNION {{Rows(db, f)[i] : i \in 1 .. Last(db, f)} : f \in {4, 6}}

\* A path to a name has at least two parts.
LEMMA PathsLong ==
  ASSUME NEW row, NEW path \in PathsOf(row)
  PROVE  Len(path) > 1
<1>1. \A x, y : Len(<<x, y>>) = 2 /\ \A z : Len(<<x, y, z>>) = 3
  OBVIOUS
<1>2. \/ \E x, y : path = <<x, y>>
      \/ \E x, y, z : path = <<x, y, z>>
  BY DEF PathsOf
<1> QED
  BY <1>1, <1>2

\* When the object is made both tables have been read that far.
LEMMA AllPlaces ==
  ASSUME Inv, result # None, NEW f \in {4, 6}, NEW i \in 1 .. Last(db, f)
  PROVE  <<f, i>> \in Places
<1>1. family = 0
  BY DEF Inv, Finished
<1>2. RowsRead(f) = Last(db, f)
  BY <1>1 DEF RowsRead
<1> QED
  BY <1>2 DEF Places

(***************************************************************************)
(* A dictionary has all names of all rows but the last two of each table   *)
(* (the loops of BuildDictionary end at count - 2).  Of the rows that a    *)
(* search returns, only the last but one may be missing, which holds the   *)
(* highest addresses: AllValuesListed is wrong about nothing else.         *)
(***************************************************************************)
THEOREM RowsBeforeListed ==
  Spec => [](result # None => \A row \in RowsBefore : Listed(row))
<1>1. ASSUME Inv, ResultExact, result # None, NEW row \in RowsBefore
      PROVE  Listed(row)
  <2> DEFINE c == Short(row)
  <2>1. PICK f \in {4, 6} : \E i \in 1 .. Last(db, f) : row = Rows(db, f)[i]
    BY <1>1 DEF RowsBefore
  <2>2. PICK i \in 1 .. Last(db, f) : row = Rows(db, f)[i]
    BY <2>1
  <2>3. <<f, i>> \in Places /\ RowAt(<<f, i>>) = row
    BY <1>1, <2>2, AllPlaces DEF RowAt
  <2> SUFFICES ASSUME "country_short" \in db.fields, c \notin Unknown
               PROVE  /\ c \in DOMAIN result
                      /\ \A path \in PathsOf(row) :
                           Shown(path) => path \in result[c].paths
    BY DEF Listed
  <2>4. <<f, i>> \in PlacesOf(c) /\ c \in Known
    BY <2>3 DEF PlacesOf, Known
  <2>5. /\ c \in DOMAIN result
        /\ {path \in result[c].paths : Len(path) > 1} =
             {path \in UNION {PathsOf(RowAt(p)) : p \in PlacesOf(c)} : Shown(path)}
    BY <1>1, <2>4 DEF ResultExact
  <2>6. ASSUME NEW path \in PathsOf(row), Shown(path)
        PROVE  path \in result[c].paths
    <3>1. path \in UNION {PathsOf(RowAt(p)) : p \in PlacesOf(c)}
      BY <2>3, <2>4, <2>6
    <3>2. path \in {x \in result[c].paths : Len(x) > 1}
      BY <2>5, <2>6, <3>1
    <3> QED
      BY <3>2
  <2> QED
    BY <2>5, <2>6
<1>2. Inv /\ ResultExact => (result # None => \A row \in RowsBefore : Listed(row))
  BY <1>1
<1> QED
  BY <1>2, InvHolds, ResultRight, PTL

(***************************************************************************)
(* So AllValuesListed does hold for databases whose last rows that a       *)
(* search returns say no more than the rows before them.                   *)
(***************************************************************************)
THEOREM ListedIfRepeated == Spec => [](Returnable \subseteq RowsBefore => AllValuesListed)
<1>1. (result # None => \A row \in RowsBefore : Listed(row))
        => (Returnable \subseteq RowsBefore => AllValuesListed)
  BY DEF AllValuesListed, Listed
<1> QED
  BY <1>1, RowsBeforeListed, PTL
=============================================================================
