------------------------------- MODULE Header -------------------------------
(***************************************************************************)
(* The verification of a database when it is opened (IP2LocationInit) and  *)
(* the fields that a row of an accepted database gives to a query          *)
(* (IP2LocationRowData, Location::Query, Location::GetAll).                *)
(*                                                                         *)
(* Positions in the file are 1-based, as IP2LocationRead32 takes them, and *)
(* uint32_t: sums and products are modulo WordMod.  A mask of fields is    *)
(* the set of the bits that are set in it.                                 *)
(***************************************************************************)
EXTENDS Integers, FiniteSets

CONSTANTS
  WordMod,   \* 2^32
  Headers,   \* the headers of the files that are opened
  Masks      \* the field masks that are passed to query()

MaxDbType == 24
BaseAddr == 65
Field == 0 .. 19          \* IP2L_COUNTRY_SHORT_INDEX .. IP2L_USAGETYPE_INDEX
Floats == {5, 6}          \* latitude and longitude
ZeroFields == {5, 6, 18}  \* those and elevation: getAll says 0 without them

IsHeader(h) ==
  /\ {h.type, h.column, h.month, h.day} \subseteq 0 .. 255
  /\ {h.count, h.addr, h.v6count, h.v6addr} \subseteq 0 .. (WordMod - 1)
  /\ h.size \in Nat

ASSUME HeaderAssumption ==
  /\ WordMod \in Nat /\ WordMod > 255
  /\ \A h \in Headers : IsHeader(h)
  /\ \A m \in Masks : m \subseteq 0 .. 31

VARIABLES
  file,      \* the header of the file
  verdict,   \* what IP2LocationInit returned, or Unread
  row,       \* the row the last call has found; its index is -1 if none
  answer,    \* the fields query() returned
  all        \* the fields getAll() returned

vars == <<file, verdict, row, answer, all>>

Unread == 10
NoRow == [family |-> 4, index |-> 0]

-----------------------------------------------------------------------------
(***************************************************************************)
(* IP2L_DB_POSITIONS: the column of the stored fields (country, region,    *)
(* city, ...) in a row of each type of database, 0 for none.  The country  *)
(* column holds both names, so stored field i is field i + 1.              *)
(***************************************************************************)
DbPositions == <<
  <<0, 2, 2, 2, 2, 2, 2, 2, 2, 2, 2, 2, 2, 2, 2, 2, 2, 2, 2, 2, 2, 2, 2, 2, 2>>,
  <<0, 0, 0, 3, 3, 3, 3, 3, 3, 3, 3, 3, 3, 3, 3, 3, 3, 3, 3, 3, 3, 3, 3, 3, 3>>,
  <<0, 0, 0, 4, 4, 4, 4, 4, 4, 4, 4, 4, 4, 4, 4, 4, 4, 4, 4, 4, 4, 4, 4, 4, 4>>,
  <<0, 0, 3, 0, 5, 0, 7, 5, 7, 0, 8, 0, 9, 0, 9, 0, 9, 0, 9, 7, 9, 0, 9, 7, 9>>,
  <<0, 0, 0, 0, 0, 5, 5, 0, 5, 5, 5, 5, 5, 5, 5, 5, 5, 5, 5, 5, 5, 5, 5, 5, 5>>,
  <<0, 0, 0, 0, 0, 6, 6, 0, 6, 6, 6, 6, 6, 6, 6, 6, 6, 6, 6, 6, 6, 6, 6, 6, 6>>,
  <<0, 0, 0, 0, 0, 0, 0, 6, 8, 0, 9, 0, 10, 0, 10, 0, 10, 0, 10, 8, 10, 0, 10, 8, 10>>,
  <<0, 0, 0, 0, 0, 0, 0, 0, 0, 7, 7, 7, 7, 0, 7, 7, 7, 0, 7, 0, 7, 7, 7, 0, 7>>,
  <<0, 0, 0, 0, 0, 0, 0, 0, 0, 0, 0, 8, 8, 7, 8, 8, 8, 7, 8, 0, 8, 8, 8, 0, 8>>,
  <<0, 0, 0, 0, 0, 0, 0, 0, 0, 0, 0, 0, 0, 8, 11, 0, 11, 8, 11, 0, 11, 0, 11, 0, 11>>,
  <<0, 0, 0, 0, 0, 0, 0, 0, 0, 0, 0, 0, 0, 0, 0, 9, 12, 0, 12, 0, 12, 9, 12, 0, 12>>,
  <<0, 0, 0, 0, 0, 0, 0, 0, 0, 0, 0, 0, 0, 0, 0, 10, 13, 0, 13, 0, 13, 10, 13, 0, 13>>,
  <<0, 0, 0, 0, 0, 0, 0, 0, 0, 0, 0, 0, 0, 0, 0, 0, 0, 9, 14, 0, 14, 0, 14, 0, 14>>,
  <<0, 0, 0, 0, 0, 0, 0, 0, 0, 0, 0, 0, 0, 0, 0, 0, 0, 10, 15, 0, 15, 0, 15, 0, 15>>,
  <<0, 0, 0, 0, 0, 0, 0, 0, 0, 0, 0, 0, 0, 0, 0, 0, 0, 0, 0, 9, 16, 0, 16, 9, 16>>,
  <<0, 0, 0, 0, 0, 0, 0, 0, 0, 0, 0, 0, 0, 0, 0, 0, 0, 0, 0, 10, 17, 0, 17, 10, 17>>,
  <<0, 0, 0, 0, 0, 0, 0, 0, 0, 0, 0, 0, 0, 0, 0, 0, 0, 0, 0, 11, 18, 0, 18, 11, 18>>,
  <<0, 0, 0, 0, 0, 0, 0, 0, 0, 0, 0, 0, 0, 0, 0, 0, 0, 0, 0, 0, 0, 11, 19, 0, 19>>,
  <<0, 0, 0, 0, 0, 0, 0, 0, 0, 0, 0, 0, 0, 0, 0, 0, 0, 0, 0, 0, 0, 0, 0, 12, 20>> >>

Position(i, type) == DbPositions[i + 1][type + 1]

\* The fields a type of database stores, and its last column (maxpos).
Stored(type) == {i \in 0 .. 18 : Position(i, type) # 0}
MaxPosition(type) ==
  CHOOSE p \in 0 .. 20 :
    /\ \A i \in Stored(type) : Position(i, type) <= p
    /\ p = 0 \/ \E i \in Stored(type) : Position(i, type) = p

Wrap(x) == x % WordMod

\* The size of a row: the IPv6 table has 16 bytes of address in place of 4.
RowSize(h, family) ==
  IF family = 4 THEN h.column * 4 ELSE 16 + (h.column - 1) * 4

TableEnd_Bug(h, family) ==
  Wrap(IF family = 4
       THEN h.addr + RowSize(h, 4) * h.count
       ELSE h.v6addr + RowSize(h, 6) * h.v6count)
TableEnd(h, family) ==
  Wrap(IF family = 4
       THEN h.addr + RowSize(h, 4) * (h.count + 1)
       ELSE h.v6addr + RowSize(h, 6) * (h.v6count + 1))

\* The check that makes IP2LocationInit return n, when it comes so far.
Fails(h, n) ==
  \/ n = 1 /\ h.type > MaxDbType
  \/ n = 2 /\ h.month \notin 1 .. 12
  \/ n = 3 /\ h.day \notin 1 .. 31
  \/ n = 4 /\ h.count < 2
  \/ n = 5 /\ h.addr < BaseAddr
  \/ n = 6 /\ TableEnd(h, 4) > h.size
  \/ n = 7 /\ h.v6count # 0 /\ h.addr >= h.v6addr
  \/ n = 8 /\ h.v6count # 0 /\ TableEnd(h, 6) > h.size
  \/ n = 9 /\ h.type <= MaxDbType /\ h.column # MaxPosition(h.type)

Verdict(h) ==
  IF \A n \in 1 .. 9 : ~ Fails(h, n)
  THEN 0
  ELSE CHOOSE n \in 1 .. 9 : Fails(h, n) /\ \A m \in 1 .. (n - 1) : ~ Fails(h, m)

\* loc->mode_mask: (mode_mask << 1) | (mode_mask & 1).
ModeMask_Bug(h) == {i + 1 : i \in Stored(h.type)}
ModeMask(h) == {i + 1 : i \in Stored(h.type)} \cup (Stored(h.type) \cap {0})

\* loc->offsets[i], a byte; 0 stands for no column.
Offset_Bug(h, i) ==
  IF Position(i, h.type) = 0 THEN 0 ELSE (Position(i, h.type) * 4) % 256
Offset(h, i) ==
  IF Position(i, h.type) = 0 THEN 0 ELSE ((Position(i, h.type) - 1) * 4) % 256

\* rowoffset of a row that was found.
RowOffset(h, r) ==
  IF r.family = 4
  THEN Wrap(h.addr + r.index * RowSize(h, 4))
  ELSE Wrap(h.v6addr + r.index * RowSize(h, 6) + 12)

(***************************************************************************)
(* IP2LocationRowData: where field f of row r is read, how, and how far    *)
(* into its string the name starts (the long country name comes after the  *)
(* length and the two letters of the short one).                           *)
(***************************************************************************)
ColumnOf(h, f) == Offset(h, IF f = 0 THEN 0 ELSE f - 1)
HasData(h, f) == f \in Field /\ ColumnOf(h, f) # 0
RowData(h, r, f) ==
  [kind |-> IF f \in Floats THEN "float" ELSE "string",
   at |-> Wrap(RowOffset(h, r) + ColumnOf(h, f)),
   skip |-> IF f = 1 THEN 3 ELSE 0]

\* What getAll() gives in place of data: 0, a message, or a question mark.
NoData(kind) == [kind |-> kind, at |-> 0, skip |-> 0]

-----------------------------------------------------------------------------
Init ==
  /\ file \in Headers
  /\ verdict = Unread
  /\ row = NoRow
  /\ answer = <<>>
  /\ all = <<>>

Verify ==
  /\ verdict = Unread
  /\ verdict' = Verdict(file)
  /\ UNCHANGED <<file, row, answer, all>>

(***************************************************************************)
(* What looking up an address yields: a row of the table of its family, or *)
(* none.  An IPv4 search always returns a row; an IPv6 address may be      *)
(* behind the last row, or the database has no IPv6 table; family 0 stands *)
(* for what is not an address.                                             *)
(***************************************************************************)
Rows(h) ==
  {[family |-> 4, index |-> m] : m \in 0 .. (h.count - 2)}
    \cup {[family |-> 6, index |-> m] : m \in 0 .. (h.v6count - 2)}
    \cup {[family |-> f, index |-> -1] : f \in {0, 6}}

\* query() loops over the bits of mode_mask & mask; without a row it is null.
Query(r, mask) ==
  /\ verdict = 0
  /\ row' = r
  /\ answer' =
       [f \in {g \in mask \cap ModeMask(file) : HasData(file, g) /\ r.index >= 0} |->
          RowData(file, r, f)]
  /\ all' = IF r = row THEN all ELSE <<>>
  /\ UNCHANGED <<file, verdict>>

\* getAll() loops over all fields and shifts mode_mask along.
GetAll_Bug(r) ==
  /\ verdict = 0
  /\ row' = r
  /\ all' = [f \in Field |->
       IF r.index < 0 THEN NoData("error")
       ELSE IF f \in Stored(file.type) /\ HasData(file, f) THEN RowData(file, r, f)
       ELSE NoData(IF f \in ZeroFields THEN "zero" ELSE "notSupported")]
  /\ answer' = IF r = row THEN answer ELSE <<>>
  /\ UNCHANGED <<file, verdict>>
GetAll_Short_Bug(r) ==
  /\ verdict = 0
  /\ row' = r
  /\ all' = [f \in 0 .. 18 |->
       IF r.index >= 0 /\ f \in ModeMask(file) THEN RowData(file, r, f)
       ELSE NoData("notSupported")]
  /\ answer' = IF r = row THEN answer ELSE <<>>
  /\ UNCHANGED <<file, verdict>>
GetAll(r) ==
  /\ verdict = 0
  /\ row' = r
  /\ all' = [f \in Field |->
       IF r.index < 0 THEN NoData("error")
       ELSE IF f \in ModeMask(file)
       THEN IF HasData(file, f) THEN RowData(file, r, f) ELSE NoData("notSupported")
       ELSE NoData(IF f \in ZeroFields THEN "zero" ELSE "notSupported")]
  /\ answer' = IF r = row THEN answer ELSE <<>>
  /\ UNCHANGED <<file, verdict>>

Next ==
  \/ Verify
  \/ \E r \in Rows(file) : \/ \E mask \in Masks : Query(r, mask)
                           \/ GetAll(r)

Spec == Init /\ [][Next]_vars

-----------------------------------------------------------------------------
(* Correctness                                                             *)

Datum == [kind : {"string", "float", "zero", "notSupported", "error"},
          at : 0 .. (WordMod - 1), skip : {0, 3}]

\* The variables hold what the C variables can hold.
TypeOK ==
  /\ IsHeader(file)
  /\ verdict \in 0 .. Unread
  /\ row \in [family : {0, 4, 6}, index : Nat \cup {-1}]
  /\ DOMAIN answer \subseteq Field /\ \A f \in DOMAIN answer : answer[f] \in Datum
  /\ DOMAIN all \in {{}, Field} /\ \A f \in DOMAIN all : all[f] \in Datum

\* The start of a row of the file and of the row after it, in whole numbers.
RowStart(h, r) ==
  (IF r.family = 4 THEN h.addr ELSE h.v6addr) + r.index * RowSize(h, r.family)
RowEnd(h, r) == RowStart(h, r) + RowSize(h, r.family)
AddressSize(family) == IF family = 4 THEN 4 ELSE 16

(***************************************************************************)
(* A database that is accepted has all of its rows in its file: "The       *)
(* format verification routine prevents accessing wrong format or          *)
(* corrupted files" (README.md:133).  The code compares 32 bit sums, so it *)
(* holds only for tables whose size in bytes does not wrap.                *)
(***************************************************************************)
AcceptedFits ==
  verdict = 0 =>
    /\ file.addr + RowSize(file, 4) * (file.count + 1) <= file.size
    /\ file.v6count # 0 =>
         file.v6addr + RowSize(file, 6) * (file.v6count + 1) <= file.size

(***************************************************************************)
(* Every field is read inside the row that was found, behind the address   *)
(* of the row, and no two fields are read from one column but the two      *)
(* names of the country.  The layout is spread over a table of 475         *)
(* entries, a byte of offset and the row that the search returns.          *)
(***************************************************************************)
FieldsInRow ==
  /\ \A f \in DOMAIN answer :
       /\ RowStart(file, row) + AddressSize(row.family) <= answer[f].at
       /\ answer[f].at + 4 <= RowEnd(file, row)
  /\ \A f, g \in DOMAIN answer :
       /\ answer[f].at = answer[g].at => f = g \/ {f, g} = {0, 1}
       /\ {f, g} = {0, 1} => answer[f].at = answer[g].at

(***************************************************************************)
(* getAll() and query() tell the same of a row: every field that query()   *)
(* returned getAll() reads from the same place, and what getAll() cannot   *)
(* give query() does not return (mode_mask has a bit more than offsets has *)
(* entries, and both loops shift it along with the fields).                *)
(***************************************************************************)
AnswersAgree ==
  all # <<>> =>
    /\ \A f \in DOMAIN answer : all[f] = answer[f]
    /\ \A f \in Field : all[f].kind \in {"string", "float"} => f \in ModeMask(file)

(***************************************************************************)
(* Whoever asks for everything gets every column of the row: none is left  *)
(* out, and both names of the country are there or neither.                *)
(***************************************************************************)
NothingLeftOut ==
  all # <<>> /\ row.index >= 0 =>
    LET Given == {f \in Field : all[f].kind \in {"string", "float"}} IN
      /\ Cardinality({all[f].at : f \in Given})
           = IF file.column = 0 THEN 0 ELSE file.column - 1
      /\ 0 \in Given <=> 1 \in Given
=============================================================================
