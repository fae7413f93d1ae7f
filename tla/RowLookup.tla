------------------------------ MODULE RowLookup ------------------------------
(***************************************************************************)
(* The search for the row of an address (IP2LocationFindRowIPV4,           *)
(* IP2LocationFindRowIPV6): a binary search over the table of one address  *)
(* family, where row m holds the first address of a range and row m + 1    *)
(* the first address after it.                                             *)
(*                                                                         *)
(* low, high, mid and the positions in the file are uint32_t in the code,  *)
(* so all of their arithmetic is modulo WordMod.  An address is a number   *)
(* up to MaxAddr, whatever its width: the search only compares addresses.  *)
(***************************************************************************)
EXTENDS Integers

CONSTANTS
  WordMod,    \* 2^32
  MaxAddr,    \* the last address, all ones; also what a failed read returns
  Databases   \* the tables to search

Address == 0 .. MaxAddr
ReadError == MaxAddr
NotFound == 0

(***************************************************************************)
(* A table as IP2LocationInit accepts it.  base is its (1-based) position  *)
(* in the file, width the size of an address, col the size of a row, and   *)
(* word[o] the address stored at offset o of the file.                     *)
(***************************************************************************)
IsDatabase(d) ==
  /\ d.family \in {4, 6}
  /\ d.cached \in BOOLEAN
  /\ d.width = IF d.family = 4 THEN 4 ELSE 16
  /\ d.size \in 1 .. (WordMod - 2)
  /\ d.base \in 1 .. (WordMod - 1)
  /\ d.col \in d.width .. (WordMod - 1)
  /\ d.count \in 0 .. (WordMod - 1)
  /\ d.family = 4 => d.count >= 2
  /\ d.word \in [0 .. (d.size - 1) -> Address]

ASSUME LookupAssumption ==
  /\ WordMod \in Nat \ {0}
  /\ MaxAddr \in Nat
  /\ \A d \in Databases : IsDatabase(d)

VARIABLES
  db,      \* the open database
  pc,      \* "idle", "search" or "done"
  ip,      \* the address looked for
  low, high,
  row,     \* rowoffset, the row probed last
  result   \* what the search returned

vars == <<db, pc, ip, low, high, row, result>>

-----------------------------------------------------------------------------
Wrap_Bug(x) == x
Wrap(x) == x % WordMod

\* The position of row m.
RowAt(d, m) == Wrap(d.base + m * d.col)

(***************************************************************************)
(* IP2LocationRead32 and IP2LocationRead128Buffer32LE: what reading an     *)
(* address at a position may yield.  The bound of the 128 bit read is a    *)
(* 32 bit sum: when it wraps, the cached read is outside of the memory.    *)
(***************************************************************************)
ValuesAt(d, position) ==
  LET at == Wrap(position - 1) IN
    IF at + d.width <= d.size
    THEN {d.word[at]}
    ELSE IF d.family = 6 /\ d.cached /\ Wrap(at + d.width) <= d.size
         THEN Address
         ELSE {ReadError}

Mid == Wrap(low + high) \div 2
FromOf(m) == ValuesAt(db, RowAt(db, m))
ToOf(m) == ValuesAt(db, Wrap(RowAt(db, m) + db.col))

\* What a hit returns: columns are counted from the last word of the address.
HitAt(d, m) == IF d.family = 4 THEN RowAt(d, m) ELSE Wrap(RowAt(d, m) + 12)

Init ==
  /\ db \in Databases
  /\ pc = "idle"
  /\ ip = 0
  /\ low = 0 /\ high = 0
  /\ row = NotFound /\ result = NotFound

\* IPv4 tables have two rows or more, an IPv6 table may be missing.
Start_Bug(a) ==
  /\ pc # "search"
  /\ ip' = a
  /\ IF db.family = 6 /\ db.count < 2
     THEN pc' = "done" /\ result' = NotFound /\ UNCHANGED <<low, high, row>>
     ELSE /\ pc' = "search"
          /\ low' = 0
          /\ high' = Wrap(db.count - 1)
          /\ row' = NotFound
          /\ UNCHANGED result
  /\ UNCHANGED db
Start(a) ==
  /\ pc # "search"
  /\ ip' = a
  /\ IF db.family = 6 /\ db.count < 2
     THEN pc' = "done" /\ result' = NotFound /\ UNCHANGED <<low, high, row>>
     ELSE /\ pc' = "search"
          /\ low' = 0
          /\ high' = Wrap(db.count - 2)
          /\ row' = NotFound
          /\ UNCHANGED result
  /\ UNCHANGED db

\* The loop finds a row with ipfrom <= ip < ipto.
Hit ==
  /\ pc = "search" /\ low <= high
  /\ \E from \in FromOf(Mid), to \in ToOf(Mid) : from <= ip /\ ip < to
  /\ row' = RowAt(db, Mid)
  /\ result' = HitAt(db, Mid)
  /\ pc' = "done"
  /\ UNCHANGED <<db, ip, low, high>>

GoLower ==
  /\ pc = "search" /\ low <= high
  /\ \E from \in FromOf(Mid) : from > ip
  /\ row' = RowAt(db, Mid)
  /\ high' = Wrap(Mid - 1)
  /\ UNCHANGED <<db, pc, ip, low, result>>

GoUpper_Bug ==
  /\ pc = "search" /\ low <= high
  /\ \E from \in FromOf(Mid), to \in ToOf(Mid) : from <= ip /\ to <= ip
  /\ row' = RowAt(db, Mid)
  /\ low' = Mid
  /\ UNCHANGED <<db, pc, ip, high, result>>
GoUpper ==
  /\ pc = "search" /\ low <= high
  /\ \E from \in FromOf(Mid), to \in ToOf(Mid) : from <= ip /\ to <= ip
  /\ row' = RowAt(db, Mid)
  /\ low' = Wrap(Mid + 1)
  /\ UNCHANGED <<db, pc, ip, high, result>>

\* Without a hit the IPv4 search returns the row it probed last.
GiveUp_Bug ==
  /\ pc = "search" /\ low > high
  /\ result' = NotFound
  /\ pc' = "done"
  /\ UNCHANGED <<db, ip, low, high, row>>
GiveUp ==
  /\ pc = "search" /\ low > high
  /\ result' = IF db.family = 4 THEN row ELSE NotFound
  /\ pc' = "done"
  /\ UNCHANGED <<db, ip, low, high, row>>

Search == Hit \/ GoLower \/ GoUpper \/ GiveUp

Next == (\E a \in Address : Start(a)) \/ Search

Spec == Init /\ [][Next]_vars
FairSpec == Spec /\ WF_vars(Search)

-----------------------------------------------------------------------------
(* Correctness                                                             *)

\* The first address of row m.
From(d, m) == d.word[d.base + m * d.col - 1]

(***************************************************************************)
(* The table lies in the file and starts at address 0.  Nothing is said of *)
(* its order.  IP2LocationInit means to check the former                   *)
(* (ip2location.c:158 and :165) and does not check the latter.             *)
(***************************************************************************)
Sound(d) ==
  /\ d.base + d.col * (d.count + 1) <= d.size
  /\ d.count >= 2 => From(d, 0) = 0

\* The variables hold what the C variables can hold.
TypeOK ==
  /\ IsDatabase(db)
  /\ pc \in {"idle", "search", "done"}
  /\ ip \in Address
  /\ {low, high, row, result} \subseteq 0 .. (WordMod - 1)

(***************************************************************************)
(* The row returned for an address is the one whose range holds it.        *)
(* Addresses at or after the start of the last row have no such row: IPv4  *)
(* gets the row before the last (whose range ends at 255.255.255.255),     *)
(* IPv6 is not found.                                                      *)
(***************************************************************************)
LookupCorrect ==
  pc = "done" /\ Sound(db) =>
    \/ \E m \in 0 .. (db.count - 2) :
         /\ result = HitAt(db, m)
         /\ From(db, m) <= ip /\ ip < From(db, m + 1)
    \/ /\ db.count >= 2 => From(db, db.count - 1) <= ip
       /\ result = IF db.family = 4 THEN RowAt(db, db.count - 2) ELSE NotFound

(***************************************************************************)
(* The search reads the first addresses of rows and nothing else: no 32    *)
(* bit sum of it wraps and it leaves the table at neither end.             *)
(***************************************************************************)
ProbesInTable ==
  pc = "search" /\ low <= high /\ Sound(db) =>
    /\ Mid < db.count - 1
    /\ FromOf(Mid) = {From(db, Mid)}
    /\ ToOf(Mid) = {From(db, Mid + 1)}

(***************************************************************************)
(* Every probe at least halves the rows that are left, so a lookup takes   *)
(* at most 33 probes.                                                      *)
(***************************************************************************)
Halves ==
  [][pc = "search" /\ pc' = "search" /\ Sound(db)
       => 2 * (high' - low' + 1) <= high - low + 1]_vars

(***************************************************************************)
(* Every lookup ends, in any order of the rows, if the table is sound.  If *)
(* it starts behind the address that is looked for, high wraps below row 0 *)
(* (ip2location.c:279 and :322) and the search goes on over positions that *)
(* have nothing to do with the table, in a corrupted file without end.     *)
(* The code is one loop without a call that waits, hence the fairness of   *)
(* Search.                                                                 *)
(***************************************************************************)
LookupEnds == pc = "search" /\ Sound(db) ~> pc = "done"
=============================================================================
