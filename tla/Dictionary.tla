----------------------------- MODULE Dictionary -----------------------------
(***************************************************************************)
(* createDictionary(mask): the names that occur in a database, grouped by  *)
(* country (Location::BuildDictionary and CreateDictionaryResult).         *)
(*                                                                         *)
(* Which columns there are is a matter of the type of the database: a row  *)
(* is a function on all of them, to a name or to Unreadable where the file *)
(* ends before the string does.  A dictionary map is a function from names *)
(* to elements, since std::map keeps one element per name.                 *)
(***************************************************************************)
EXTENDS Integers, Sequences

CONSTANTS
  Databases,  \* the columns, and the rows of the IPv4 and of the IPv6 table
  Masks,      \* the field masks that are passed to createDictionary()
  Unknown,    \* the names that start with '-'
  Unreadable, \* stands for a string that cannot be read
  None

Rows(d, f) == IF f = 4 THEN d.v4 ELSE d.v6

\* An accepted database has two IPv4 rows, one column has both names of the
\* country, no string is NULL, and the empty name does not start with '-'.
ASSUME DictionaryAssumption ==
  /\ "" \notin Unknown \cup {None}
  /\ \A d \in Databases :
       /\ Len(d.v4) \in Nat /\ Len(d.v4) >= 2 /\ Len(d.v6) \in Nat
       /\ "country_short" \in d.fields <=> "country_long" \in d.fields
       /\ \A f \in {4, 6} : \A i \in 1 .. Len(Rows(d, f)) :
            LET row == Rows(d, f)[i] IN
              DOMAIN row = d.fields /\ \A g \in d.fields : row[g] # None

\* The slots of a country that hold branches: the field of the branch and of
\* its leaves.  The other slots hold the values of one field.
Branches == {[slot |-> "region_city", branch |-> "region", leaf |-> "city"],
             [slot |-> "weatherstation", branch |-> "weatherstationname",
              leaf |-> "weatherstationcode"],
             [slot |-> "mcc_mnc", branch |-> "mcc", leaf |-> "mnc"]}
Lists == {"isp", "domain", "zipcode", "iddcode", "areacode", "mobilebrand"}
Slot == {b.slot : b \in Branches} \cup Lists

VARIABLES
  db,      \* the database
  mask,    \* the set of fields asked for
  family,  \* the table that is being read, or 0 when both have been
  index,   \* the number of its rows that have been read
  dict,    \* dict[c]: what is known of country c
  result   \* the object that is returned, None before

vars == <<db, mask, family, index, dict, result>>

-----------------------------------------------------------------------------
(* Dictionary maps                                                         *)

NoMap == [n \in {} |-> None]
Element == [kind |-> "element", leaves |-> {}]
Branch == [kind |-> "branch", leaves |-> {}]
Country == [long |-> None, slots |-> [s \in Slot |-> NoMap]]

\* FindOrAddDictionaryElementMap: a name that starts with '-' is not added.
FindOrAdd_Bug(map, name, new) ==
  [n \in DOMAIN map \cup {name} |-> IF n \in DOMAIN map THEN map[n] ELSE new]
FindOrAdd(map, name, new) ==
  [n \in DOMAIN map \cup ({name} \ Unknown) |->
     IF n \in DOMAIN map THEN map[n] ELSE new]

AddLeaf(map, name, leaf) ==
  [n \in DOMAIN map |->
     IF n = name /\ n \notin Unknown
     THEN [kind |-> map[n].kind, leaves |-> map[n].leaves \cup ({leaf} \ Unknown)]
     ELSE map[n]]

\* The field is asked for, and the database has a column of it.
Has(f) == f \in mask /\ f \in db.fields

\* IP2LocationRowString: what cannot be read is the empty name.
RowString(row, f) == IF row[f] = Unreadable THEN "" ELSE row[f]

\* BuildDictionaryBranchItem
AddBranch(map, row, b) ==
  LET name == RowString(row, b.branch)
      grown == FindOrAdd(map, name, Branch) IN
    IF ~ Has(b.branch) THEN map
    ELSE IF b.leaf \notin mask THEN FindOrAdd(map, name, Element)
    ELSE IF b.leaf \in db.fields THEN AddLeaf(grown, name, RowString(row, b.leaf))
    ELSE grown

\* Weather station codes without their names go to the slot of the names.
CodeAlone_Bug(s) == s = "weatherstation" /\ "weatherstationcode" \in mask
CodeAlone(s) ==
  /\ s = "weatherstation"
  /\ "weatherstationcode" \in mask /\ "weatherstationname" \notin mask

AddTo(s, map, row) ==
  LET branches == {b \in Branches : b.slot = s}
      field == IF s = "weatherstation" THEN "weatherstationcode" ELSE s
      branched == IF branches = {} THEN map
                  ELSE AddBranch(map, row, CHOOSE b \in branches : TRUE) IN
    IF (s \in Lists \/ CodeAlone(s)) /\ Has(field)
    THEN FindOrAdd(branched, RowString(row, field), Element)
    ELSE branched

\* BuildDictionaryItem
LongName_Bug(country, row) ==
  IF Has("country_long") THEN RowString(row, "country_long") ELSE country.long
LongName(country, row) ==
  IF country.long = None /\ Has("country_long")
  THEN RowString(row, "country_long") ELSE country.long

WithRow(country, row) ==
  [long |-> LongName(country, row),
   slots |-> [s \in Slot |-> AddTo(s, country.slots[s], row)]]

\* A row whose country starts with '-' adds nothing, whatever else it has.
Item(d, row) ==
  LET name == RowString(row, "country_short")
      found == FindOrAdd(d, name, Country) IN
    IF "country_short" \notin db.fields \/ name \in Unknown THEN d
    ELSE [c \in DOMAIN found |-> IF c = name THEN WithRow(found[c], row) ELSE found[c]]

-----------------------------------------------------------------------------
(* CreateDictionaryResult: an object is the set of the paths to its values *)

\* CreateDictionaryResultBranch
BranchPaths(b, map) ==
  IF b.branch \notin mask THEN {}
  ELSE {<<b.branch>>} \cup {<<b.branch, n>> : n \in DOMAIN map}
       \cup IF b.leaf \notin mask THEN {}
            ELSE UNION {{<<b.branch, n, l>> : l \in map[n].leaves} : n \in DOMAIN map}

\* CreateDictionaryResultElement
ListPaths(f, map) ==
  IF f \notin mask THEN {} ELSE {<<f>>} \cup {<<f, n>> : n \in DOMAIN map}

CountryResult(country) ==
  [long |-> IF "country_long" \in mask THEN country.long ELSE None,
   paths |->
     (UNION {BranchPaths(b, country.slots[b.slot]) : b \in Branches})
       \cup (UNION {ListPaths(f, country.slots[f]) : f \in Lists})
       \cup IF CodeAlone("weatherstation")
            THEN ListPaths("weatherstationcode", country.slots["weatherstation"])
            ELSE {}]

-----------------------------------------------------------------------------
Init ==
  /\ db \in Databases
  /\ mask \in Masks
  /\ family = 4 /\ index = 0
  /\ dict = NoMap
  /\ result = None

\* The loops read two rows less than the table has.
Last(d, f) == Len(Rows(d, f)) - 2

ReadRow ==
  /\ family # 0
  /\ index < Last(db, family)
  /\ dict' = Item(dict, Rows(db, family)[index + 1])
  /\ index' = index + 1
  /\ UNCHANGED <<db, mask, family, result>>

NextTable_Bug ==
  /\ family # 0
  /\ index >= Last(db, family)
  /\ family' = IF family = 4 /\ Len(db.v6) >= 2 THEN 6 ELSE 0
  /\ UNCHANGED <<db, mask, index, dict, result>>
\* The end of a table; the IPv6 table is only read if it has two rows.
NextTable ==
  /\ family # 0
  /\ index >= Last(db, family)
  /\ family' = IF family = 4 /\ Len(db.v6) >= 2 THEN 6 ELSE 0
  /\ index' = 0
  /\ UNCHANGED <<db, mask, dict, result>>

Finish ==
  /\ family = 0
  /\ result = None
  /\ result' = [c \in DOMAIN dict |-> CountryResult(dict[c])]
  /\ UNCHANGED <<db, mask, family, index, dict>>

Next == ReadRow \/ NextTable \/ Finish

Spec == Init /\ [][Next]_vars

-----------------------------------------------------------------------------
(* Correctness                                                             *)

\* What a dictionary map may hold, and how far the loops may be.
TypeOK ==
  /\ Len(db.v4) >= 2 /\ mask \in Masks
  /\ family \in {0, 4, 6}
  /\ index \in Nat /\ index <= IF family = 0 THEN 0 ELSE Last(db, family)
  /\ \A c \in DOMAIN dict, s \in Slot : \A n \in DOMAIN dict[c].slots[s] :
       dict[c].slots[s][n].kind \in {"element", "branch"}

\* The places of the rows that have been read, and the order they are read in.
RowsRead(f) ==
  IF family = f THEN index ELSE IF f = 4 \/ family = 0 THEN Last(db, f) ELSE 0
Places == {<<4, i>> : i \in 1 .. RowsRead(4)} \cup {<<6, i>> : i \in 1 .. RowsRead(6)}
RowAt(p) == Rows(db, p[1])[p[2]]
Before(p, q) == p[1] < q[1] \/ (p[1] = q[1] /\ p[2] <= q[2])

\* The places of the rows that say that they are of country c.
Short(row) == RowString(row, "country_short")
PlacesOf(c) == {p \in Places : "country_short" \in db.fields /\ Short(RowAt(p)) = c}
Known ==
  {Short(RowAt(p)) : p \in {q \in Places : "country_short" \in db.fields}} \ Unknown

\* The values of a row that belong into a dictionary, as paths.
PathsOf(row) ==
  {<<f, RowString(row, f)>> : f \in {g \in Lists \cup {b.branch : b \in Branches} : Has(g)}}
    \cup {<<"weatherstationcode", RowString(row, f)>> :
            f \in {g \in {"weatherstationcode"} :
                     Has(g) /\ "weatherstationname" \notin mask}}
    \cup {<<b.branch, RowString(row, b.branch), RowString(row, b.leaf)>> :
            b \in {x \in Branches : Has(x.branch) /\ Has(x.leaf)}}

Shown(path) == \A k \in 2 .. Len(path) : path[k] \notin Unknown

(***************************************************************************)
(* The result groups the names exactly as the rows that were read do: a    *)
(* city is listed under the region and the country of a row that has all   *)
(* three, no name is listed that starts with '-', and none is missing.     *)
(* Strings that cannot be read are all the one empty name, of countries    *)
(* too, and what their rows have is listed under it.                       *)
(***************************************************************************)
ResultExact ==
  result # None =>
    /\ DOMAIN result = Known
    /\ \A c \in Known :
         {path \in result[c].paths : Len(path) > 1} =
           {path \in UNION {PathsOf(RowAt(p)) : p \in PlacesOf(c)} : Shown(path)}

(***************************************************************************)
(* An element is used as a branch (the static_cast of                      *)
(* CreateDictionaryResultBranch, the cast of the element that              *)
(* FindOrAddDictionaryElementMap found) only if it was made as one: the    *)
(* weather station slot serves both kinds.                                 *)
(***************************************************************************)
CastsSound ==
  \A c \in DOMAIN dict, b \in Branches :
    {b.branch, b.leaf} \subseteq mask =>
      \A n \in DOMAIN dict[c].slots[b.slot] :
        dict[c].slots[b.slot][n].kind = "branch"

(***************************************************************************)
(* The long name of a country is that of the first of its rows, even if it *)
(* cannot be read there and is the empty name: no later row, nor one of    *)
(* the IPv6 table, changes it (NoSecondName(), SecondName()).              *)
(***************************************************************************)
FirstLongName ==
  \A c \in DOMAIN dict :
    IF Has("country_long")
    THEN \E p \in PlacesOf(c) : /\ \A q \in PlacesOf(c) : Before(p, q)
                                /\ dict[c].long = RowString(RowAt(p), "country_long")
    ELSE dict[c].long = None

(***************************************************************************)
(* Whatever a query can return for a field that dictionaries have is in    *)
(* the dictionary ("Do you want to know all available unique location      *)
(* property values?", README.md:152).  A search returns any row of a table *)
(* but its last.                                                           *)
(***************************************************************************)
Returnable == UNION {{Rows(db, f)[i] : i \in 1 .. (Len(Rows(db, f)) - 1)} : f \in {4, 6}}
AllValuesListed ==
  result # None =>
    \A row \in Returnable :
      "country_short" \in db.fields /\ Short(row) \notin Unknown =>
        /\ Short(row) \in DOMAIN result
        /\ \A path \in PathsOf(row) : Shown(path) => path \in result[Short(row)].paths
=============================================================================
