---------------------------- MODULE HeaderProofs ----------------------------
(***************************************************************************)
(* What an accepted header and the two ways to read a row guarantee, for   *)
(* every set of headers and every word size.                               *)
(***************************************************************************)
EXTENDS Header, FiniteSetTheorems, TLAPS

(***************************************************************************)
(* IP2LocationInit returns 0 only if all of its checks have passed.        *)
(***************************************************************************)
LEMMA VerdictZero ==
  ASSUME NEW h, Verdict(h) = 0
  PROVE  \A n \in 1 .. 9 : ~ Fails(h, n)
<1> DEFINE F(n) == Fails(h, n)
           First(n) == F(n) /\ \A m \in 1 .. (n - 1) : ~ F(m)
<1> SUFFICES ASSUME NEW k \in 1 .. 9, F(k)
             PROVE  FALSE
  OBVIOUS
<1>1. \E n \in 1 .. 9 : First(n)
  <2> HIDE DEF F
  <2>1. k \in {1, 2, 3, 4, 5, 6, 7, 8, 9}
    OBVIOUS
  <2> QED
    BY <2>1
<1>2. Verdict(h) = CHOOSE n \in 1 .. 9 : First(n)
  BY DEF Verdict
<1>3. Verdict(h) \in 1 .. 9
  <2> HIDE DEF First
  <2> QED
    BY <1>1, <1>2
<1> QED
  BY <1>3

\* The invariant: an accepted header has passed every check.
Passed == verdict = 0 => \A n \in 1 .. 9 : ~ Fails(file, n)

\* It holds: verdict is set by IP2LocationInit only, and file never changes.
LEMMA PassedAlways == Spec => []Passed
<1>1. Init => Passed
  BY DEF Init, Passed, Unread
<1>2. Passed /\ [Next]_vars => Passed'
  <2> SUFFICES ASSUME Passed, [Next]_vars, verdict' = 0
               PROVE  \A n \in 1 .. 9 : ~ Fails(file', n)
    BY DEF Passed, Fails, TableEnd, Wrap, RowSize, MaxPosition, Stored, Position
  <2>1. CASE Verify
    BY <2>1, VerdictZero DEF Verify
  <2>2. CASE verdict' = verdict /\ file' = file
    BY <2>2 DEF Passed
  <2> QED
    BY <2>1, <2>2 DEF Next, Query, GetAll, vars
<1> QED
  BY <1>1, <1>2, PTL DEF Spec

\* No table is so large that the sum that IP2LocationInit computes wraps.
NoWrap ==
  \A h \in Headers :
    /\ h.addr + RowSize(h, 4) * (h.count + 1) \in 0 .. (WordMod - 1)
    /\ h.v6addr + RowSize(h, 6) * (h.v6count + 1) \in 0 .. (WordMod - 1)

\* file is one of the given headers.
Chosen == file \in Headers

\* The file of a location stays the one it was opened with.
LEMMA ChosenAlways == Spec => []Chosen
<1>1. Init => Chosen
  BY DEF Init, Chosen
<1>2. Chosen /\ [Next]_vars => Chosen'
  BY DEF Chosen, Next, Verify, Query, GetAll, vars
<1> QED
  BY <1>1, <1>2, PTL DEF Spec

(***************************************************************************)
(* The verification of IP2LocationInit keeps every row inside of the file, *)
(* as long as the 32 bit sums it compares with the size do not wrap.       *)
(***************************************************************************)
THEOREM Fits ==
  ASSUME NoWrap
  PROVE  Spec => []AcceptedFits
<1>1. Passed /\ Chosen => AcceptedFits
  <2> SUFFICES ASSUME file \in Headers, \A n \in 1 .. 9 : ~ Fails(file, n)
               PROVE  /\ file.addr + RowSize(file, 4) * (file.count + 1) <= file.size
                      /\ file.v6count # 0 =>
                           file.v6addr + RowSize(file, 6) * (file.v6count + 1)
                             <= file.size
    BY DEF Passed, AcceptedFits, Chosen
  <2> DEFINE end4 == file.addr + RowSize(file, 4) * (file.count + 1)
             end6 == file.v6addr + RowSize(file, 6) * (file.v6count + 1)
  <2>1. end4 \in 0 .. (WordMod - 1) /\ end6 \in 0 .. (WordMod - 1)
    BY DEF NoWrap
  <2>2. TableEnd(file, 4) = Wrap(end4) /\ TableEnd(file, 6) = Wrap(end6)
    BY DEF TableEnd
  <2>3. file.size \in Nat /\ WordMod \in Nat
    BY HeaderAssumption DEF IsHeader
  <2> HIDE DEF end4, end6
  <2>4. Wrap(end4) = end4 /\ Wrap(end6) = end6
    BY <2>1, <2>3 DEF Wrap
  <2>5. ~ (TableEnd(file, 4) > file.size)
    BY DEF Fails
  <2>6. file.v6count # 0 => ~ (TableEnd(file, 6) > file.size)
    BY DEF Fails
  <2>7. end4 <= file.size
    BY <2>1, <2>2, <2>3, <2>4, <2>5
  <2>8. file.v6count # 0 => end6 <= file.size
    BY <2>1, <2>2, <2>3, <2>4, <2>6
  <2> QED
    BY <2>7, <2>8 DEF end4, end6
<1> QED
  BY <1>1, PassedAlways, ChosenAlways, PTL

(***************************************************************************)
(* What query() and getAll() returned is what the current row has.         *)
(***************************************************************************)
AllOf(h, r) ==
  [f \in Field |->
     IF r.index < 0 THEN NoData("error")
     ELSE IF f \in ModeMask(h)
     THEN IF HasData(h, f) THEN RowData(h, r, f) ELSE NoData("notSupported")
     ELSE NoData(IF f \in ZeroFields THEN "zero" ELSE "notSupported")]

AnswerOf(h, r, a) ==
  \A f \in DOMAIN a : /\ f \in ModeMask(h) /\ HasData(h, f)
                      /\ a[f] = RowData(h, r, f) /\ ~ (r.index < 0)

Current ==
  /\ AnswerOf(file, row, answer)
  /\ all = <<>> \/ all = AllOf(file, row)

\* The index of a row is a number.
LEMMA RowIndex ==
  ASSUME file \in Headers, NEW r \in Rows(file)
  PROVE  r.index \in Int
<1>1. file.count \in Int /\ file.v6count \in Int
  BY HeaderAssumption DEF IsHeader
<1> QED
  BY <1>1 DEF Rows

\* No answer at all is an answer for every row.
LEMMA EmptyAnswer ==
  ASSUME NEW h, NEW r
  PROVE  AnswerOf(h, r, <<>>)
<1>1. DOMAIN <<>> = {}
  OBVIOUS
<1> QED
  BY <1>1 DEF AnswerOf

\* It holds: whoever changes the row computes or clears both answers.
LEMMA CurrentAlways == Spec => []Current
<1>1. Init => Current
  BY EmptyAnswer DEF Init, Current
<1>2. Current /\ Chosen /\ [Next]_vars => Current'
  <2> SUFFICES ASSUME Current, Chosen, [Next]_vars
               PROVE  /\ AnswerOf(file', row', answer')
                      /\ all' = <<>> \/ all' = AllOf(file', row')
    BY DEF Current, AnswerOf, AllOf, ModeMask, HasData, RowData, RowOffset, Stored,
           Position, ColumnOf, Offset, RowSize, Wrap
  <2>1. CASE UNCHANGED <<file, row, answer, all>>
    BY <2>1 DEF Current
  <2>2. ASSUME NEW r \in Rows(file), NEW mask \in Masks, Query(r, mask)
        PROVE  /\ AnswerOf(file', row', answer')
               /\ all' = <<>> \/ all' = AllOf(file', row')
    <3>1. file' = file /\ row' = r
      BY <2>2 DEF Query
    <3>2. AnswerOf(file, r, answer')
      <4>1. r.index \in Int
        BY <2>2, RowIndex DEF Chosen
      <4> QED
        BY <2>2, <4>1 DEF Query, AnswerOf
    <3>3. all' = <<>> \/ all' = AllOf(file, r)
      BY <2>2 DEF Query, Current
    <3> QED
      BY <3>1, <3>2, <3>3
  <2>3. ASSUME NEW r \in Rows(file), GetAll(r)
        PROVE  /\ AnswerOf(file', row', answer')
               /\ all' = <<>> \/ all' = AllOf(file', row')
    <3>1. file' = file /\ row' = r /\ all' = AllOf(file, r)
      BY <2>3 DEF GetAll, AllOf
    <3>2. AnswerOf(file, r, answer')
      <4>1. CASE r = row
        BY <2>3, <4>1 DEF GetAll, Current
      <4>2. CASE r # row
        BY <2>3, <4>2, EmptyAnswer DEF GetAll
      <4> QED
        BY <4>1, <4>2
    <3> QED
      BY <3>1, <3>2
  <2> QED
    BY <2>1, <2>2, <2>3 DEF Next, Verify, vars
<1> QED
  BY <1>1, <1>2, ChosenAlways, PTL DEF Spec

(***************************************************************************)
(* getAll() tells the same of a row as query() does, for every type of     *)
(* database and every mask (Location::Query and Location::GetAll).         *)
(***************************************************************************)
THEOREM Agree == Spec => []AnswersAgree
<1>1. Current => AnswersAgree
  <2> SUFFICES ASSUME Current, all # <<>>
               PROVE  /\ \A f \in DOMAIN answer : all[f] = answer[f]
                      /\ \A f \in Field : all[f].kind \in {"string", "float"} =>
                                            f \in ModeMask(file)
    BY DEF AnswersAgree
  <2>1. all = AllOf(file, row)
    BY DEF Current
  <2>2. ASSUME NEW f \in DOMAIN answer
        PROVE  all[f] = answer[f]
    <3>1. /\ f \in ModeMask(file) /\ HasData(file, f)
          /\ answer[f] = RowData(file, row, f) /\ ~ (row.index < 0)
      BY DEF Current, AnswerOf
    <3>2. f \in Field
      BY <3>1 DEF HasData
    <3> QED
      BY <2>1, <3>1, <3>2 DEF AllOf
  <2>3. ASSUME NEW f \in Field, f \notin ModeMask(file)
        PROVE  all[f].kind \notin {"string", "float"}
    <3>1. \/ all[f] = NoData("error")
          \/ all[f] = NoData(IF f \in ZeroFields THEN "zero" ELSE "notSupported")
      BY <2>1, <2>3 DEF AllOf
    <3>2. all[f].kind \in {"error", "zero", "notSupported"}
      BY <3>1 DEF NoData
    <3> QED
      BY <3>2
  <2> QED
    BY <2>2, <2>3
<1> QED
  BY <1>1, CurrentAlways, PTL

-----------------------------------------------------------------------------
(* The layout of rows                                                      *)

\* The last column of a row of each type of database.
LastColumn == <<0, 2, 3, 4, 5, 6, 7, 6, 8, 7, 9, 8, 10, 8, 11, 10, 13, 10, 15, 11, 18,
                11, 19, 12, 20>>

\* The columns of a type are among the second and its last.
LEMMA Positions ==
  ASSUME NEW t \in 0 .. MaxDbType, NEW i \in 0 .. 18
  PROVE  /\ Position(i, t) \in {0} \cup (2 .. 20)
         /\ Position(i, t) <= LastColumn[t + 1]
  BY SMTT(60) DEF MaxDbType, Position, DbPositions, LastColumn

\* Two stored fields of a type have columns of their own.
LEMMA Distinct ==
  ASSUME NEW t \in 0 .. MaxDbType, NEW i \in 0 .. 18, NEW j \in 0 .. 18,
         Position(i, t) # 0, Position(i, t) = Position(j, t)
  PROVE  i = j
  BY SMTT(60) DEF MaxDbType, Position, DbPositions

\* Every column but the first belongs to a stored field.
LEMMA EveryColumn ==
  ASSUME NEW t \in 0 .. MaxDbType, NEW p \in 2 .. LastColumn[t + 1]
  PROVE  \E i \in 0 .. 18 : Position(i, t) = p
  <1> DEFINE In(c, S) == LastColumn[t + 1] >= c => \E i \in S : Position(i, t) = c
  <1> USE DEF MaxDbType
  <1>1. In(2, {0}) /\ In(3, {1, 3}) /\ In(4, {2})
    BY SMTT(60) DEF Position, DbPositions, LastColumn
  <1>2. In(5, {3, 4}) /\ In(6, {5, 6}) /\ In(7, {3, 7, 8})
    BY SMTT(60) DEF Position, DbPositions, LastColumn
  <1>3. In(8, {3, 6, 8, 9}) /\ In(9, {3, 6, 10, 12, 14})
    BY SMTT(60) DEF Position, DbPositions, LastColumn
  <1>4. In(10, {6, 11, 13, 15}) /\ In(11, {9, 16, 17}) /\ In(12, {10, 18})
    BY SMTT(60) DEF Position, DbPositions, LastColumn
  <1>5. In(13, {11}) /\ In(14, {12}) /\ In(15, {13}) /\ In(16, {14})
    BY SMTT(60) DEF Position, DbPositions, LastColumn
  <1>6. In(17, {15}) /\ In(18, {16}) /\ In(19, {17}) /\ In(20, {18})
    BY SMTT(60) DEF Position, DbPositions, LastColumn
  <1>7. LastColumn[t + 1] \in 0 .. 20 /\ p \in 2 .. 20 /\ p <= LastColumn[t + 1]
    BY SMTT(60) DEF LastColumn
  <1>8. \A S \in SUBSET (0 .. 18) : In(p, S) => \E i \in 0 .. 18 : Position(i, t) = p
    BY <1>7
  <1> HIDE DEF In
  <1> QED BY <1>1, <1>2, <1>3, <1>4, <1>5, <1>6, <1>7, <1>8

\* The largest column that IP2LocationInit computes for each type.
LEMMA MaxColumn ==
  ASSUME NEW t \in 0 .. MaxDbType
  PROVE  MaxPosition(t) = LastColumn[t + 1]
  <1> DEFINE Is(p) == /\ \A i \in Stored(t) : Position(i, t) <= p
                      /\ p = 0 \/ \E i \in Stored(t) : Position(i, t) = p
             m == LastColumn[t + 1]
  <1>1. m \in 0 .. 20 /\ m # 1
    BY SMTT(60) DEF MaxDbType, LastColumn
  <1>2. Stored(t) = {i \in 0 .. 18 : Position(i, t) # 0}
    BY DEF Stored
  <1>3. \A i \in Stored(t) : Position(i, t) \in 2 .. 20 /\ Position(i, t) <= m
    BY <1>2, Positions
  <1>4. m # 0 => \E i \in Stored(t) : Position(i, t) = m
    BY <1>1, <1>2, EveryColumn
  <1>5. Is(m)
    BY <1>3, <1>4
  <1>6. ASSUME NEW p \in 0 .. 20, Is(p) PROVE p = m
    <2>1. p = 0 \/ \E i \in Stored(t) : Position(i, t) = p
      BY <1>6
    <2>2. m = 0 \/ \E i \in Stored(t) : Position(i, t) = m
      BY <1>4
    <2>3. p <= m
      BY <1>1, <1>3, <2>1
    <2>4. m <= p
      BY <1>1, <1>6, <2>2
    <2> QED BY <1>1, <2>3, <2>4
  <1>7. MaxPosition(t) = CHOOSE p \in 0 .. 20 : Is(p)
    BY DEF MaxPosition
  <1> HIDE DEF Is, m
  <1>8. (CHOOSE p \in 0 .. 20 : Is(p)) = m
    BY <1>1, <1>5, <1>6
  <1> QED BY <1>7, <1>8 DEF m

\* The stored field that a field of an answer is part of, and its column.
StoredOf(f) == IF f = 0 THEN 0 ELSE f - 1
Column(h, f) == Position(StoredOf(f), h.type)

Accepted(h) == h \in Headers /\ \A n \in 1 .. 9 : ~ Fails(h, n)

\* The offset of a field in a row of an accepted database is that of its column.
LEMMA Columns ==
  ASSUME NEW h, Accepted(h), NEW f \in Field
  PROVE  /\ h.type \in 0 .. MaxDbType /\ h.column = LastColumn[h.type + 1]
         /\ Column(h, f) \in {0} \cup (2 .. 20) /\ Column(h, f) <= h.column
         /\ ColumnOf(h, f) = IF Column(h, f) = 0 THEN 0 ELSE (Column(h, f) - 1) * 4
<1>1. h.type \in 0 .. MaxDbType
  <2>1. h.type \in 0 .. 255 /\ ~ (h.type > MaxDbType)
    BY HeaderAssumption DEF Accepted, IsHeader, Fails
  <2> QED
    BY <2>1 DEF MaxDbType
<1>2. h.column = LastColumn[h.type + 1]
  <2>1. h.column = MaxPosition(h.type)
    BY <1>1 DEF Accepted, Fails, MaxDbType
  <2> QED
    BY <1>1, <2>1, MaxColumn
<1>3. StoredOf(f) \in 0 .. 18
  BY DEF StoredOf, Field
<1>4. Column(h, f) \in {0} \cup (2 .. 20) /\ Column(h, f) <= h.column
  BY <1>1, <1>2, <1>3, Positions DEF Column
<1>5. ColumnOf(h, f) = IF Column(h, f) = 0 THEN 0 ELSE ((Column(h, f) - 1) * 4) % 256
  BY DEF ColumnOf, Offset, Column, StoredOf
<1> QED
  BY <1>1, <1>2, <1>4, <1>5

\* A row that the search may return.
LEMMA RowKinds ==
  ASSUME NEW h, NEW r \in Rows(h), ~ (r.index < 0)
  PROVE  \/ r.family = 4 /\ r.index \in 0 .. (h.count - 2)
         \/ r.family = 6 /\ r.index \in 0 .. (h.v6count - 2)
BY DEF Rows

\* The rows of a table end where the table does, or before.
LEMMA RowsInTable ==
  ASSUME NEW size \in Nat, NEW count \in Nat, NEW m \in 0 .. (count - 2)
  PROVE  m * size \in Nat /\ m * size + size <= size * (count + 1)
<1>1. m * size \in Nat
  OBVIOUS
<1>2. PICK k \in Nat : count + 1 = m + k /\ k >= 1
  <2>1. count + 1 - m \in Nat /\ count + 1 = m + (count + 1 - m) /\ count + 1 - m >= 1
    OBVIOUS
  <2> QED
    BY <2>1
<1>3. size * (count + 1) = m * size + size * k
  BY <1>2
<1>4. size * k >= size
  BY <1>2
<1> QED
  BY <1>1, <1>3, <1>4

\* The bytes of the row that are no column: the rest of an IPv6 address.
Extra(r) == IF r.family = 4 THEN 0 ELSE 12

\* Where an accepted database has a row, and where its fields are read.
LEMMA ReadAt ==
  ASSUME NoWrap, NEW h, Accepted(h), NEW r \in Rows(h), ~ (r.index < 0)
  PROVE  /\ RowStart(h, r) \in Nat
         /\ RowEnd(h, r) = RowStart(h, r) + Extra(r) + h.column * 4
         /\ RowEnd(h, r) < WordMod
         /\ r.family \in {4, 6}
         /\ \A f \in Field : HasData(h, f) =>
              RowData(h, r, f).at = RowStart(h, r) + Extra(r) + (Column(h, f) - 1) * 4
<1> DEFINE start == RowStart(h, r)
           size == RowSize(h, r.family)
<1>1. /\ h.column \in 0 .. 255 /\ h.count \in Nat /\ h.addr \in Nat
      /\ h.v6count \in Nat /\ h.v6addr \in Nat /\ WordMod \in Nat /\ WordMod > 255
  BY HeaderAssumption DEF Accepted, IsHeader
<1>2. r.family \in {4, 6} /\ r.index \in Nat
  BY <1>1, RowKinds
<1>3. size = Extra(r) + h.column * 4 /\ size \in Nat
  BY <1>1, <1>2 DEF RowSize, Extra
<1>4. start \in Nat /\ start + size < WordMod
  <2>1. CASE r.family = 4
    <3>1. r.index \in 0 .. (h.count - 2)
      BY <2>1, RowKinds
    <3>2. r.index * size \in Nat /\ r.index * size + size <= size * (h.count + 1)
      BY <1>1, <1>3, <3>1, RowsInTable
    <3>3. h.addr + size * (h.count + 1) \in 0 .. (WordMod - 1)
      BY <2>1 DEF NoWrap, Accepted
    <3>4. start = h.addr + r.index * size
      BY <2>1 DEF RowStart
    <3> HIDE DEF size, start
    <3> QED
      BY <1>1, <1>3, <3>2, <3>3, <3>4
  <2>2. CASE r.family = 6
    <3>1. r.index \in 0 .. (h.v6count - 2)
      BY <2>2, RowKinds
    <3>2. r.index * size \in Nat /\ r.index * size + size <= size * (h.v6count + 1)
      BY <1>1, <1>3, <3>1, RowsInTable
    <3>3. h.v6addr + size * (h.v6count + 1) \in 0 .. (WordMod - 1)
      BY <2>2 DEF NoWrap, Accepted
    <3>4. start = h.v6addr + r.index * size
      BY <2>2 DEF RowStart
    <3> HIDE DEF size, start
    <3> QED
      BY <1>1, <1>3, <3>2, <3>3, <3>4
  <2> QED
    BY <1>2, <2>1, <2>2
<1>5. RowEnd(h, r) = start + size
  BY DEF RowEnd
<1>6. RowOffset(h, r) = Wrap(start + Extra(r))
  <2>1. CASE r.family = 4
    <3>1. RowOffset(h, r) = Wrap(start) /\ Extra(r) = 0
      BY <2>1 DEF RowOffset, RowStart, Extra
    <3> HIDE DEF start
    <3>2. start + 0 = start
      BY <1>4
    <3> QED
      BY <3>1, <3>2
  <2>2. CASE r.family = 6
    BY <1>2, <2>2 DEF RowOffset, RowStart, Extra
  <2> QED
    BY <1>2, <2>1, <2>2
<1>7. ASSUME NEW f \in Field, HasData(h, f)
      PROVE  RowData(h, r, f).at = start + Extra(r) + (Column(h, f) - 1) * 4
  <2> DEFINE col == Column(h, f)
  <2>1. col \in 2 .. 20 /\ col <= h.column /\ ColumnOf(h, f) = (col - 1) * 4
    <3>1. ColumnOf(h, f) # 0
      BY <1>7 DEF HasData
    <3> QED
      BY <3>1, Columns
  <2>2. RowData(h, r, f).at = Wrap(Wrap(start + Extra(r)) + (col - 1) * 4)
    BY <1>6, <2>1 DEF RowData
  <2>3. Extra(r) \in Nat
    BY DEF Extra
  <2> HIDE DEF start, size, col
  <2>4. Wrap(start + Extra(r)) = start + Extra(r)
    <3>1. start + Extra(r) \in 0 .. (WordMod - 1)
      BY <1>1, <1>3, <1>4, <2>1, <2>3
    <3> HIDE DEF Extra
    <3> QED
      BY <1>1, <3>1 DEF Wrap
  <2>5. Wrap(start + Extra(r) + (col - 1) * 4) = start + Extra(r) + (col - 1) * 4
    <3>1. start + Extra(r) + (col - 1) * 4 \in 0 .. (WordMod - 1)
      BY <1>1, <1>3, <1>4, <2>1, <2>3
    <3> QED
      BY <1>1, <3>1 DEF Wrap
  <2> QED
    BY <2>2, <2>4, <2>5 DEF col
<1> HIDE DEF start, size
<1>8. RowEnd(h, r) = start + Extra(r) + h.column * 4 /\ RowEnd(h, r) < WordMod
  <2>1. Extra(r) \in Nat
    BY DEF Extra
  <2> QED
    BY <1>1, <1>3, <1>4, <1>5, <2>1
<1> QED
  BY <1>2, <1>4, <1>7, <1>8 DEF start

\* What is returned is of a row that the search may return.
Searched ==
  /\ verdict \in 0 .. Unread
  /\ row = NoRow \/ row \in Rows(file)
  /\ answer # <<>> \/ all # <<>> => verdict = 0 /\ row \in Rows(file)

LEMMA SearchedAlways == Spec => []Searched
<1>1. Init => Searched
  BY DEF Init, Searched, Unread
<1>2. ASSUME Searched, [Next]_vars
      PROVE  Searched'
  <2>1. CASE UNCHANGED vars
    BY <1>2, <2>1 DEF Searched, vars, Rows
  <2>2. CASE Verify
    <3>1. Verdict(file) \in 0 .. 10
      <4> DEFINE F(n) == Fails(file, n)
                 First(n) == F(n) /\ \A m \in 1 .. (n - 1) : ~ F(m)
      <4>1. Verdict(file) = IF \A n \in 1 .. 9 : ~ F(n) THEN 0
                            ELSE CHOOSE n \in 1 .. 9 : First(n)
        BY DEF Verdict
      <4>2. ASSUME NEW k \in 1 .. 9, F(k) PROVE \E n \in 1 .. 9 : First(n)
        <5> HIDE DEF F
        <5>1. k \in {1, 2, 3, 4, 5, 6, 7, 8, 9}
          OBVIOUS
        <5> QED
          BY <4>2, <5>1
      <4>3. (\E n \in 1 .. 9 : First(n)) => (CHOOSE n \in 1 .. 9 : First(n)) \in 1 .. 9
        <5> HIDE DEF First
        <5> QED
          OBVIOUS
      <4> HIDE DEF F, First
      <4> QED
        BY <4>1, <4>2, <4>3
    <3>2. answer = <<>> /\ all = <<>>
      BY <1>2, <2>2 DEF Verify, Searched, Unread
    <3> QED
      BY <1>2, <2>2, <3>1, <3>2 DEF Verify, Searched, Unread, Rows
  <2>3. ASSUME NEW r \in Rows(file), NEW mask \in Masks, Query(r, mask)
        PROVE  Searched'
    BY <1>2, <2>3 DEF Query, Searched, Unread, Rows
  <2>4. ASSUME NEW r \in Rows(file), GetAll(r)
        PROVE  Searched'
    BY <1>2, <2>4 DEF GetAll, Searched, Unread, Rows
  <2> QED
    BY <1>2, <2>1, <2>2, <2>3, <2>4 DEF Next
<1> QED
  BY <1>1, <1>2, PTL DEF Spec

(***************************************************************************)
(* The variables of a location keep the types of the C variables.          *)
(***************************************************************************)
THEOREM TypeCorrect == Spec => []TypeOK
<1>1. Passed /\ Chosen /\ Searched /\ Current => TypeOK
  <2> SUFFICES ASSUME Passed, Chosen, Searched, Current
               PROVE  TypeOK
    OBVIOUS
  <2>1. IsHeader(file) /\ WordMod \in Nat /\ WordMod > 255
    BY HeaderAssumption DEF Chosen
  <2>2. row \in [family : {0, 4, 6}, index : Nat \cup {-1}]
    <3>1. file.count \in Nat /\ file.v6count \in Nat
      BY <2>1 DEF IsHeader
    <3> QED
      BY <3>1 DEF Searched, NoRow, Rows
  <2>3. ASSUME verdict = 0, NEW r \in Rows(file), NEW f \in Field
        PROVE  RowData(file, r, f) \in Datum
    <3>1. RowOffset(file, r) \in Int /\ ColumnOf(file, f) \in Int
      <4>1. /\ r.index \in Int /\ file.addr \in Int /\ file.v6addr \in Int
            /\ file.column \in Int
        BY <2>1, RowIndex DEF Chosen, IsHeader
      <4>2. RowSize(file, 4) \in Int /\ RowSize(file, 6) \in Int
        BY <4>1 DEF RowSize
      <4>3. RowOffset(file, r) \in Int
        BY <2>1, <4>1, <4>2 DEF RowOffset, Wrap
      <4>4. ColumnOf(file, f) \in Int
        <5>1. Accepted(file)
          BY <2>3 DEF Accepted, Passed, Chosen
        <5>2. /\ Column(file, f) \in {0} \cup (2 .. 20)
              /\ ColumnOf(file, f)
                   = IF Column(file, f) = 0 THEN 0 ELSE (Column(file, f) - 1) * 4
          BY <5>1, Columns
        <5> QED
          BY <5>2
      <4> QED
        BY <4>3, <4>4
    <3>2. Wrap(RowOffset(file, r) + ColumnOf(file, f)) \in 0 .. (WordMod - 1)
      BY <2>1, <3>1 DEF Wrap
    <3> QED
      BY <3>2 DEF RowData, Datum
  <2>4. \A k \in {"error", "zero", "notSupported"} : NoData(k) \in Datum
    BY <2>1 DEF NoData, Datum
  <2>5. DOMAIN answer \subseteq Field /\ \A f \in DOMAIN answer : answer[f] \in Datum
    <3>1. ASSUME NEW f \in DOMAIN answer PROVE f \in Field /\ answer[f] \in Datum
      <4>1. answer # <<>>
        BY <3>1
      <4>2. verdict = 0 /\ row \in Rows(file)
        BY <4>1 DEF Searched
      <4>3. f \in Field /\ answer[f] = RowData(file, row, f)
        BY <3>1 DEF Current, AnswerOf, HasData
      <4> QED
        BY <2>3, <4>2, <4>3
    <3> QED
      BY <3>1
  <2>6. DOMAIN all \in {{}, Field} /\ \A f \in DOMAIN all : all[f] \in Datum
    <3>1. CASE all = <<>>
      BY <3>1
    <3>2. CASE all # <<>>
      <4>1. verdict = 0 /\ row \in Rows(file) /\ all = AllOf(file, row)
        BY <3>2 DEF Searched, Current
      <4>2. DOMAIN all = Field
        BY <4>1 DEF AllOf
      <4>3. ASSUME NEW f \in Field PROVE all[f] \in Datum
        BY <2>3, <2>4, <4>1 DEF AllOf
      <4> QED
        BY <4>2, <4>3
    <3> QED
      BY <3>1, <3>2
  <2> QED
    BY <2>1, <2>2, <2>5, <2>6 DEF TypeOK, Searched
<1> QED
  BY <1>1, PassedAlways, ChosenAlways, SearchedAlways, CurrentAlways, PTL

(***************************************************************************)
(* Every field that query() returns is read inside of the row, behind its  *)
(* address, and from a column of its own but for the names of the country, *)
(* for all 25 types of database and both families (IP2L_DB_POSITIONS and   *)
(* the offsets of IP2LocationInit, IP2LocationRowData).                    *)
(***************************************************************************)
THEOREM FieldsInside ==
  ASSUME NoWrap
  PROVE  Spec => []FieldsInRow
<1>1. Passed /\ Chosen /\ Searched /\ Current => FieldsInRow
  <2> SUFFICES ASSUME Passed, Chosen, Searched, Current,
                      NEW f \in DOMAIN answer
               PROVE  /\ RowStart(file, row) + AddressSize(row.family) <= answer[f].at
                      /\ answer[f].at + 4 <= RowEnd(file, row)
                      /\ \A g \in DOMAIN answer :
                           /\ answer[f].at = answer[g].at => f = g \/ {f, g} = {0, 1}
                           /\ {f, g} = {0, 1} => answer[f].at = answer[g].at
    BY DEF FieldsInRow
  <2> DEFINE start == RowStart(file, row)
             base == start + Extra(row)
  <2>1. Accepted(file) /\ row \in Rows(file)
    <3>1. answer # <<>>
      OBVIOUS
    <3> QED
      BY <3>1 DEF Searched, Passed, Chosen, Accepted
  <2>2. ~ (row.index < 0)
    BY DEF Current, AnswerOf
  <2>3. file.column \in Nat
    BY HeaderAssumption DEF Chosen, IsHeader
  <2>4. /\ start \in Nat /\ row.family \in {4, 6}
        /\ RowEnd(file, row) = base + file.column * 4
    BY <2>1, <2>2, ReadAt
  <2>5. ASSUME NEW g \in DOMAIN answer
        PROVE  /\ g \in Field /\ Column(file, g) \in 2 .. 20
               /\ Column(file, g) <= file.column
               /\ answer[g].at = base + (Column(file, g) - 1) * 4
    <3>1. g \in Field /\ HasData(file, g) /\ answer[g] = RowData(file, row, g)
      BY <2>5 DEF Current, AnswerOf, HasData
    <3>2. Column(file, g) # 0
      BY <2>1, <3>1, Columns DEF HasData
    <3> QED
      BY <2>1, <2>2, <3>1, <3>2, Columns, ReadAt
  <2>6. base \in Nat /\ start + AddressSize(row.family) = base + 4
    BY <2>4 DEF Extra, AddressSize
  <2> HIDE DEF start, base
  <2>7. base + 4 <= answer[f].at /\ answer[f].at + 4 <= base + file.column * 4
    BY <2>3, <2>5, <2>6
  <2>8. ASSUME NEW g \in DOMAIN answer
        PROVE  /\ answer[f].at = answer[g].at => f = g \/ {f, g} = {0, 1}
               /\ {f, g} = {0, 1} => answer[f].at = answer[g].at
    <3>1. f \in Field /\ g \in Field
      BY <2>5, <2>8
    <3>2. answer[f].at = answer[g].at <=> Column(file, f) = Column(file, g)
      BY <2>5, <2>6, <2>8
    <3>3. Column(file, f) = Column(file, g) <=> StoredOf(f) = StoredOf(g)
      <4>1. StoredOf(f) \in 0 .. 18 /\ StoredOf(g) \in 0 .. 18
        BY <3>1 DEF StoredOf, Field
      <4>2. Column(file, f) # 0 /\ file.type \in 0 .. MaxDbType
        BY <2>1, <2>5, Columns
      <4> QED
        BY <4>1, <4>2, Distinct DEF Column
    <3>4. StoredOf(f) = StoredOf(g) <=> f = g \/ {f, g} = {0, 1}
      <4>1. StoredOf(f) = StoredOf(g) <=>
              f = g \/ (f = 0 /\ g = 1) \/ (f = 1 /\ g = 0)
        BY <3>1 DEF StoredOf, Field
      <4>2. {f, g} = {0, 1} <=> (f = 0 /\ g = 1) \/ (f = 1 /\ g = 0)
        OBVIOUS
      <4> QED
        BY <4>1, <4>2
    <3> QED
      BY <3>2, <3>3, <3>4
  <2> QED
    BY <2>4, <2>6, <2>7, <2>8 DEF start
<1> QED
  BY <1>1, PassedAlways, ChosenAlways, SearchedAlways, CurrentAlways, PTL
\* Columns are numbers, and the columns of fields are counted from the second.
LEMMA ColumnCount ==
  ASSUME NEW h \in Headers
  PROVE  h.column \in Nat
BY HeaderAssumption DEF IsHeader

LEMMA FromSecond ==
  ASSUME NEW c \in Nat, NEW p \in 2 .. 20, p <= c
  PROVE  p - 1 \in 1 .. (IF c = 0 THEN 0 ELSE c - 1)
OBVIOUS

(***************************************************************************)
(* Whoever asks for everything gets every column of the row, for all types *)
(* of database: the loop of getAll() over the fields and the mask that it  *)
(* shifts along skip none of them (Location::GetAll, mode_mask).           *)
(***************************************************************************)
THEOREM AllGiven ==
  ASSUME NoWrap
  PROVE  Spec => []NothingLeftOut
<1>1. Passed /\ Chosen /\ Searched /\ Current => NothingLeftOut
  <2> SUFFICES ASSUME Passed, Chosen, Searched, Current, all # <<>>, row.index >= 0
               PROVE  NothingLeftOut
    BY DEF NothingLeftOut
  <2> DEFINE Given == {f \in Field : all[f].kind \in {"string", "float"}}
             base == RowStart(file, row) + Extra(row)
             n == IF file.column = 0 THEN 0 ELSE file.column - 1
             Places == {all[f].at : f \in Given}
             F == [k \in 1 .. n |-> base + k * 4]
  <2>1. Accepted(file) /\ row \in Rows(file) /\ all = AllOf(file, row)
    BY DEF Searched, Passed, Chosen, Accepted, Current
  <2>2. ~ (row.index < 0)
    <3>1. row.index \in Int
      BY <2>1, RowIndex DEF Chosen
    <3> QED
      BY <3>1
  <2>3. base \in Nat
    <3>1. RowStart(file, row) \in Nat /\ Extra(row) \in Nat
      BY <2>1, <2>2, ReadAt DEF Extra
    <3> QED
      BY <3>1
  <2>4. /\ file.type \in 0 .. MaxDbType /\ file.column = LastColumn[file.type + 1]
        /\ file.column \in Nat
    <3>1. 0 \in Field
      BY DEF Field
    <3>2. file.column \in Nat
      BY ColumnCount DEF Chosen
    <3> QED
      BY <2>1, <3>1, <3>2, Columns
  <2>5. ASSUME NEW f \in Field
        PROVE  /\ f \in Given <=> Column(file, f) # 0
               /\ f \in Given => all[f].at = base + (Column(file, f) - 1) * 4
    <3>1. HasData(file, f) <=> Column(file, f) # 0
      <4>1. /\ Column(file, f) \in {0} \cup (2 .. 20)
            /\ ColumnOf(file, f) = IF Column(file, f) = 0 THEN 0 ELSE (Column(file, f) - 1) * 4
        BY <2>1, <2>5, Columns
      <4>2. \A c \in {0} \cup (2 .. 20) : (IF c = 0 THEN 0 ELSE (c - 1) * 4) # 0 <=> c # 0
        OBVIOUS
      <4>3. ColumnOf(file, f) # 0 <=> Column(file, f) # 0
        BY <4>1, <4>2
      <4> QED
        BY <2>5, <4>3, Zenon DEF HasData
    <3>2. f \in ModeMask(file) <=> Column(file, f) # 0
      <4>1. StoredOf(f) \in 0 .. 18 /\ StoredOf(f) \in Stored(file.type)
              <=> Column(file, f) # 0
        BY DEF Stored, Column, StoredOf, Field
      <4>2. f \in ModeMask(file) <=> StoredOf(f) \in Stored(file.type)
        BY DEF ModeMask, Stored, StoredOf, Field
      <4>3. StoredOf(f) \in 0 .. 18
        BY DEF StoredOf, Field
      <4> QED
        BY <4>1, <4>2, <4>3
    <3>3. all[f] = IF f \in ModeMask(file)
                   THEN IF HasData(file, f) THEN RowData(file, row, f)
                        ELSE NoData("notSupported")
                   ELSE NoData(IF f \in ZeroFields THEN "zero" ELSE "notSupported")
      BY <2>1, <2>2, <2>5 DEF AllOf
    <3>4. RowData(file, row, f).kind \in {"string", "float"}
      BY DEF RowData
    <3>5. \A k \in {"zero", "notSupported"} : NoData(k).kind \notin {"string", "float"}
      BY DEF NoData
    <3>6. f \in Given <=> Column(file, f) # 0
      <4>1. CASE Column(file, f) # 0
        BY <3>1, <3>2, <3>3, <3>4, <4>1
      <4>2. CASE Column(file, f) = 0
        <5>1. \E k \in {"zero", "notSupported"} : all[f] = NoData(k)
          BY <3>2, <3>3, <4>2
        <5> QED
          BY <3>5, <4>2, <5>1
      <4> QED
        BY <4>1, <4>2
    <3>7. Column(file, f) # 0 => all[f].at = base + (Column(file, f) - 1) * 4
      BY <2>1, <2>2, <3>1, <3>2, <3>3, ReadAt
    <3> QED
      BY <3>6, <3>7
  <2>6. Places = {base + k * 4 : k \in 1 .. n}
    <3>1. ASSUME NEW f \in Given
          PROVE  \E k \in 1 .. n : all[f].at = base + k * 4
      <4>1. f \in Field
        OBVIOUS
      <4>2. Column(file, f) \in 2 .. 20 /\ Column(file, f) <= file.column
        BY <2>1, <2>5, <4>1, <3>1, Columns
      <4>3. Column(file, f) - 1 \in 1 .. n
        BY <2>4, <4>2, FromSecond
      <4> QED
        BY <2>5, <3>1, <4>1, <4>3
    <3>2. ASSUME NEW k \in 1 .. n
          PROVE  \E f \in Given : all[f].at = base + k * 4
      <4>1. k + 1 \in 2 .. LastColumn[file.type + 1]
        BY <2>4, <3>2
      <4>2. PICK i \in 0 .. 18 : Position(i, file.type) = k + 1
        BY <2>4, <4>1, EveryColumn
      <4>3. i + 1 \in Field /\ StoredOf(i + 1) = i
        BY DEF Field, StoredOf
      <4>4. Column(file, i + 1) = k + 1
        BY <4>2, <4>3 DEF Column
      <4>5. i + 1 \in Given /\ all[i + 1].at = base + (k + 1 - 1) * 4
        BY <2>5, <4>3, <4>4
      <4>6. k + 1 - 1 = k
        OBVIOUS
      <4> QED
        BY <4>5, <4>6
    <3>3. ASSUME NEW x
          PROVE  x \in Places <=> \E k \in 1 .. n : x = base + k * 4
      <4>1. x \in Places <=> \E f \in Given : x = all[f].at
        OBVIOUS
      <4> HIDE DEF Given, base, n, Places
      <4> QED
        BY <3>1, <3>2, <4>1
    <3> HIDE DEF Given, base, n, Places
    <3> QED
      BY <3>3
  <2>7. F \in Bijection(1 .. n, Places)
    <3> HIDE DEF base, Places
    <3>1. \A k, l \in 1 .. n : F[k] = F[l] => k = l
      BY <2>3
    <3>2. F \in [1 .. n -> Places]
      BY <2>6
    <3>3. \A y \in Places : \E k \in 1 .. n : F[k] = y
      BY <2>6
    <3> HIDE DEF F
    <3> QED
      BY <3>1, <3>2, <3>3 DEF Bijection, Injection, Surjection, IsInjective
  <2>8. Cardinality(Places) = n
    <3>1. n \in Nat
      BY <2>4
    <3>2. ExistsBijection(1 .. n, Places)
      BY <2>7 DEF ExistsBijection
    <3> HIDE DEF n, Places
    <3> QED
      BY <3>1, <3>2, FS_CountingElements
  <2>9. 0 \in Given <=> 1 \in Given
    <3>1. 0 \in Field /\ 1 \in Field /\ Column(file, 0) = Column(file, 1)
      BY DEF Field, Column, StoredOf
    <3> QED
      BY <2>5, <3>1
  <2> QED
    BY <2>8, <2>9 DEF NothingLeftOut
<1> QED
  BY <1>1, PassedAlways, ChosenAlways, SearchedAlways, CurrentAlways, PTL
=============================================================================
