--------------------------- MODULE RowLookupProofs ---------------------------
(***************************************************************************)
(* Proofs that a lookup in a table that lies in its file and starts at     *)
(* address 0 returns the row of the address, for tables of every size and  *)
(* words of every width, and that its probes stay in the table and halve   *)
(* what is left of it.                                                     *)
(***************************************************************************)
EXTENDS RowLookup, TLAPS

\* Numbers of 32 bits are not changed by 32 bit arithmetic.
LEMMA WrapId ==
  ASSUME NEW x \in 0 .. (WordMod - 1)
  PROVE  Wrap(x) = x
  BY LookupAssumption DEF Wrap

\* A wrapped sum is a word.
LEMMA WrapRange ==
  ASSUME NEW x \in Int
  PROVE  Wrap(x) \in 0 .. (WordMod - 1)
  BY LookupAssumption DEF Wrap

\* Later rows are further from the base of the table.
LEMMA RowsApart ==
  ASSUME NEW m \in Nat, NEW n \in Nat, m <= n, NEW c \in Nat
  PROVE  m * c \in Nat /\ m * c <= n * c
  <1>1. PICK k \in Nat : n = m + k
    <2>1. n - m \in Nat /\ n = m + (n - m)
      OBVIOUS
    <2> QED BY <2>1
  <1>2. n * c = m * c + k * c
    BY <1>1
  <1>3. k * c \in Nat /\ m * c \in Nat
    OBVIOUS
  <1> QED BY <1>2, <1>3

\* Every row of a sound table lies in the file.
LEMMA RowInFile ==
  ASSUME NEW d, IsDatabase(d), Sound(d), NEW m \in 0 .. (d.count - 1)
  PROVE  /\ m * d.col \in Nat
         /\ d.base + m * d.col + d.width <= d.size
         /\ d.base + m * d.col + d.width < WordMod
  <1>1. d.col \in Nat /\ d.count \in Nat /\ d.base \in Nat /\ d.width \in Nat /\ d.size \in Nat
    BY LookupAssumption DEF IsDatabase
  <1>2. m * d.col \in Nat /\ m * d.col <= (d.count - 1) * d.col
    BY <1>1, RowsApart
  <1>3. d.col * (d.count + 1) = (d.count - 1) * d.col + 2 * d.col
    BY <1>1
  <1>4. d.width <= d.col /\ d.size <= WordMod - 2
    BY LookupAssumption DEF IsDatabase
  <1>5. d.base + d.col * (d.count + 1) <= d.size
    BY DEF Sound
  <1>6. (d.count - 1) * d.col \in Int
    BY <1>1
  <1> QED BY <1>1, <1>2, <1>3, <1>4, <1>5, <1>6, LookupAssumption

\* The position of a row of a sound table does not wrap.
LEMMA RowAtRow ==
  ASSUME NEW d, IsDatabase(d), Sound(d), NEW m \in 0 .. (d.count - 1)
  PROVE  RowAt(d, m) = d.base + m * d.col
  <1>1. d.base \in Nat /\ d.width \in Nat
    BY LookupAssumption DEF IsDatabase
  <1>2. d.base + m * d.col \in 0 .. (WordMod - 1)
    BY <1>1, RowInFile, LookupAssumption
  <1> QED BY <1>2, WrapId DEF RowAt

\* Reading the position of a row yields the first address of the row.
LEMMA ReadRow ==
  ASSUME NEW d, IsDatabase(d), Sound(d), NEW m \in 0 .. (d.count - 1)
  PROVE  /\ ValuesAt(d, d.base + m * d.col) = {From(d, m)}
         /\ From(d, m) \in Address
  <1> DEFINE o == d.base + m * d.col - 1
  <1>1. d.base \in Nat \ {0} /\ d.width \in Nat \ {0} /\ d.size \in Nat
    BY LookupAssumption DEF IsDatabase
  <1>2. o \in Nat /\ o + d.width <= d.size /\ o \in 0 .. (WordMod - 1)
    BY <1>1, RowInFile, LookupAssumption
  <1>3. Wrap(o) = o
    BY <1>2, WrapId
  <1>4. o \in 0 .. (d.size - 1)
    BY <1>1, <1>2
  <1>5. d.word[o] \in Address
    BY <1>4 DEF IsDatabase
  <1>6. Wrap((d.base + m * d.col) - 1) = o
    BY <1>1, <1>3, RowInFile 
  <1>7. From(d, m) = d.word[o]
    BY DEF From
  <1>8. o + d.width <= d.size
    BY <1>2
  <1> HIDE DEF o
  <1>9. ValuesAt(d, d.base + m * d.col) = {d.word[o]}
    BY <1>6, <1>8 DEF ValuesAt
  <1> QED BY <1>5, <1>7, <1>9

\* What the loop reads when it probes row m.
LEMMA Probe ==
  ASSUME NEW d, IsDatabase(d), Sound(d), NEW m \in 0 .. (d.count - 2)
  PROVE  /\ ValuesAt(d, RowAt(d, m)) = {From(d, m)}
         /\ ValuesAt(d, Wrap(RowAt(d, m) + d.col)) = {From(d, m + 1)}
         /\ From(d, m) \in Address /\ From(d, m + 1) \in Address
  <1>1. d.base \in Nat /\ d.col \in Nat /\ d.count \in Nat /\ d.width \in Nat
    BY LookupAssumption DEF IsDatabase
  <1>2. m \in 0 .. (d.count - 1) /\ m + 1 \in 0 .. (d.count - 1) /\ m \in Nat
    BY <1>1
  <1>3. RowAt(d, m) = d.base + m * d.col
    BY <1>2, RowAtRow
  <1>4. (m + 1) * d.col = m * d.col + d.col /\ m * d.col \in Nat
    BY <1>1, <1>2
  <1>5. RowAt(d, m) + d.col = d.base + (m + 1) * d.col
    BY <1>1, <1>3, <1>4
  <1>6. d.base + (m + 1) * d.col \in 0 .. (WordMod - 1)
    BY <1>1, <1>2, RowInFile, LookupAssumption
  <1>7. Wrap(RowAt(d, m) + d.col) = d.base + (m + 1) * d.col
    BY <1>5, <1>6, WrapId
  <1>8. ValuesAt(d, d.base + m * d.col) = {From(d, m)} /\ From(d, m) \in Address
    BY <1>2, ReadRow
  <1>9. ValuesAt(d, d.base + (m + 1) * d.col) = {From(d, m + 1)} /\ From(d, m + 1) \in Address
    BY <1>2, ReadRow
  <1> QED BY <1>3, <1>7, <1>8, <1>9

\* The sum of two row numbers of a sound table does not overflow.
LEMMA CountSmall ==
  ASSUME NEW d, IsDatabase(d), Sound(d)
  PROVE  d.count \in Nat /\ 2 * d.count < WordMod
  <1>1. d.col \in Nat /\ 4 <= d.col /\ d.count \in Nat /\ d.base \in Nat /\ d.size < WordMod /\ d.size \in Nat
    BY LookupAssumption DEF IsDatabase
  <1>2. 4 * (d.count + 1) <= d.col * (d.count + 1) /\ d.col * (d.count + 1) \in Nat
    BY <1>1, RowsApart
  <1> QED BY <1>1, <1>2, LookupAssumption DEF Sound

-----------------------------------------------------------------------------
(* The inductive invariant                                                 *)

(***************************************************************************)
(* While the loop runs, the row of ip is among rows low to high, unless ip *)
(* lies at or after the last row; in that case high has never moved and    *)
(* the row probed last is the one before low.                              *)
(***************************************************************************)
Bracket ==
  pc = "search" /\ Sound(db) =>
    /\ low \in 0 .. (db.count - 1) /\ high \in 0 .. (db.count - 2)
    /\ low <= high + 1
    /\ From(db, low) <= ip
    /\ high < db.count - 2 => ip < From(db, high + 1)
    /\ high = db.count - 2 /\ low > 0 => row = RowAt(db, low - 1)

Inv == TypeOK /\ Bracket /\ LookupCorrect

\* The variables start with values of their types.
LEMMA TypeInit == Init => TypeOK
  BY LookupAssumption DEF Init, TypeOK, NotFound, Address

\* Positions are words, whatever the row.
LEMMA RowAtRange ==
  ASSUME NEW d, IsDatabase(d), NEW m \in Nat
  PROVE  RowAt(d, m) \in 0 .. (WordMod - 1) /\ HitAt(d, m) \in 0 .. (WordMod - 1)
  <1>1. d.base \in Nat /\ d.col \in Nat
    BY LookupAssumption DEF IsDatabase
  <1>2. d.base + m * d.col \in Int
    BY <1>1
  <1>3. RowAt(d, m) \in 0 .. (WordMod - 1)
    BY <1>2, WrapRange DEF RowAt
  <1>4. RowAt(d, m) + 12 \in Int
    BY <1>3
  <1> QED BY <1>3, <1>4, WrapRange DEF HitAt

\* The probed row is a natural number.
LEMMA MidRange ==
  ASSUME TypeOK
  PROVE  Mid \in Nat
  <1>1. low \in Nat /\ high \in Nat /\ low + high \in Int
    BY DEF TypeOK
  <1>2. Wrap(low + high) \in Nat
    BY <1>1, WrapRange
  <1> QED BY <1>2 DEF Mid

\* No step leaves the range of a 32 bit number.
LEMMA TypeStep == TypeOK /\ [Next]_vars => TypeOK'
  <1> SUFFICES ASSUME TypeOK, [Next]_vars PROVE TypeOK'
    OBVIOUS
  <1>0. Mid \in Nat /\ IsDatabase(db)
    BY MidRange DEF TypeOK
  <1>1. ASSUME NEW a \in Address, Start(a) PROVE TypeOK'
    <2>1. db.count - 2 \in Int /\ 0 \in 0 .. (WordMod - 1)
      BY <1>0, LookupAssumption DEF IsDatabase
    <2>2. Wrap(db.count - 2) \in 0 .. (WordMod - 1)
      BY <2>1, WrapRange
    <2> QED BY <1>1, <2>1, <2>2 DEF Start, TypeOK, NotFound
  <1>2. CASE Hit
    BY <1>0, <1>2, RowAtRange DEF Hit, TypeOK
  <1>3. CASE GoLower
    BY <1>0, <1>3, RowAtRange, WrapRange DEF GoLower, TypeOK
  <1>4. CASE GoUpper
    BY <1>0, <1>4, RowAtRange, WrapRange DEF GoUpper, TypeOK
  <1>5. CASE GiveUp
    BY <1>5, LookupAssumption DEF GiveUp, TypeOK, NotFound
  <1>6. CASE UNCHANGED vars
    BY <1>6 DEF TypeOK, vars
  <1> QED BY <1>1, <1>2, <1>3, <1>4, <1>5, <1>6 DEF Next, Search

\* Inside the loop the probed row lies between low and high.
LEMMA MidBetween ==
  ASSUME TypeOK, Bracket, pc = "search", low <= high, Sound(db)
  PROVE  /\ Mid \in low .. high /\ Mid \in 0 .. (db.count - 2)
         /\ 2 * Mid <= low + high /\ low + high <= 2 * Mid + 1
         /\ FromOf(Mid) = {From(db, Mid)} /\ ToOf(Mid) = {From(db, Mid + 1)}
         /\ From(db, Mid) \in Address /\ From(db, Mid + 1) \in Address
  <1>1. low \in Nat /\ high \in Nat /\ high <= db.count - 2
    BY DEF Bracket, TypeOK
  <1>2. IsDatabase(db) /\ db.count \in Nat /\ 2 * db.count < WordMod
    BY CountSmall DEF TypeOK
  <1>3. low + high \in 0 .. (WordMod - 1)
    BY <1>1, <1>2, LookupAssumption
  <1>4. Mid = (low + high) \div 2
    BY <1>3, WrapId DEF Mid
  <1>5. /\ Mid \in low .. high /\ Mid \in 0 .. (db.count - 2)
        /\ 2 * Mid <= low + high /\ low + high <= 2 * Mid + 1
    BY <1>1, <1>2, <1>4
  <1> HIDE DEF Mid
  <1> QED BY <1>2, <1>5, Probe DEF FromOf, ToOf

\* A new search may find every row but the last.
LEMMA BracketStart ==
  ASSUME TypeOK, NEW a \in Address, Start(a)
  PROVE  Bracket'
  <1> SUFFICES ASSUME pc' = "search", Sound(db)'
               PROVE  Bracket'
    BY DEF Bracket
  <1>1. Sound(db) /\ IsDatabase(db) /\ db' = db
    BY DEF Start, TypeOK
  <1>2. db.count \in Nat /\ 2 * db.count < WordMod
    BY <1>1, CountSmall
  <1>3. db.count >= 2
    BY <1>1, <1>2 DEF Start, IsDatabase
  <1>4. low' = 0 /\ high' = Wrap(db.count - 2) /\ ip' = a
    BY <1>3, <1>2 DEF Start
  <1>5. high' = db.count - 2
    BY <1>2, <1>3, <1>4, WrapId, LookupAssumption
  <1>6. From(db, 0) = 0 /\ a >= 0
    BY <1>1, <1>3 DEF Sound, Address
  <1> QED BY <1>1, <1>2, <1>3, <1>4, <1>5, <1>6 DEF Bracket

\* Going down excludes rows behind the address only.
LEMMA BracketLower ==
  ASSUME TypeOK, Bracket, GoLower
  PROVE  Bracket'
  <1> SUFFICES ASSUME Sound(db) PROVE Bracket'
    BY DEF Bracket, GoLower
  <1>1. pc = "search" /\ low <= high /\ db' = db /\ low' = low /\ ip' = ip
    BY DEF GoLower
  <1>2. /\ Mid \in low .. high /\ Mid \in 0 .. (db.count - 2)
        /\ FromOf(Mid) = {From(db, Mid)} /\ From(db, Mid) \in Address
    BY <1>1, MidBetween
  <1>3. From(db, Mid) > ip
    BY <1>2 DEF GoLower
  <1>4. From(db, low) <= ip /\ low \in Nat /\ high \in 0 .. (db.count - 2)
    BY <1>1 DEF Bracket, TypeOK
  <1>5. Mid # low
    BY <1>2, <1>3, <1>4 DEF TypeOK, Address
  <1>6. Mid - 1 \in 0 .. (WordMod - 1)
    <2>1. db.count \in Nat /\ 2 * db.count < WordMod
      BY CountSmall DEF TypeOK
    <2> QED BY <2>1, <1>2, <1>4, <1>5, LookupAssumption
  <1>7. high' = Mid - 1
    BY <1>6, WrapId DEF GoLower
  <1>8. ip' < From(db, high' + 1)
    <2>1. high' + 1 = Mid
      BY <1>2, <1>7
    <2> QED BY <2>1, <1>1, <1>2, <1>3 DEF TypeOK, Address
  <1>9. db.count \in Nat /\ low \in 0 .. (db.count - 1)
    BY <1>1 DEF Bracket, TypeOK, IsDatabase
  <1>10. high' \in 0 .. (db.count - 2) /\ low' <= high' + 1 /\ high' # db.count - 2
    BY <1>1, <1>2, <1>4, <1>5, <1>7, <1>9
  <1> HIDE DEF Mid
  <1> QED BY <1>1, <1>4, <1>8, <1>9, <1>10 DEF Bracket

\* Going up excludes rows before the address only.
LEMMA BracketUpper ==
  ASSUME TypeOK, Bracket, GoUpper
  PROVE  Bracket'
  <1> SUFFICES ASSUME Sound(db) PROVE Bracket'
    BY DEF Bracket, GoUpper
  <1>1. /\ pc = "search" /\ low <= high /\ db' = db /\ high' = high /\ ip' = ip
        /\ row' = RowAt(db, Mid)
    BY DEF GoUpper
  <1>2. /\ Mid \in low .. high /\ Mid \in 0 .. (db.count - 2)
        /\ ToOf(Mid) = {From(db, Mid + 1)} /\ From(db, Mid + 1) \in Address
    BY <1>1, MidBetween
  <1>3. From(db, Mid + 1) <= ip
    BY <1>2 DEF GoUpper
  <1>4. db.count \in Nat /\ 2 * db.count < WordMod
    BY CountSmall DEF TypeOK
  <1>5. low' = Mid + 1
    <2>1. Mid + 1 \in 0 .. (WordMod - 1)
      BY <1>2, <1>4, LookupAssumption
    <2> QED BY <2>1, WrapId DEF GoUpper
  <1>6. /\ high \in 0 .. (db.count - 2)
        /\ high < db.count - 2 => ip < From(db, high + 1)
    BY <1>1 DEF Bracket
  <1>7. low' \in 0 .. (db.count - 1) /\ low' <= high' + 1 /\ low' - 1 = Mid
    BY <1>1, <1>2, <1>4, <1>5, <1>6
  <1>8. From(db, low') <= ip
    BY <1>3, <1>5
  <1>9. row' = RowAt(db, low' - 1)
    BY <1>1, <1>7
  <1> HIDE DEF Mid
  <1> QED BY <1>1, <1>6, <1>7, <1>8, <1>9 DEF Bracket

\* A hit returns a row whose range holds the address.
LEMMA HitCorrect ==
  ASSUME TypeOK, Bracket, Hit
  PROVE  LookupCorrect'
  <1> SUFFICES ASSUME Sound(db) PROVE LookupCorrect'
    BY DEF LookupCorrect, Hit
  <1>1. /\ pc = "search" /\ low <= high /\ db' = db /\ ip' = ip
        /\ result' = HitAt(db, Mid)
    BY DEF Hit
  <1>2. /\ Mid \in 0 .. (db.count - 2)
        /\ FromOf(Mid) = {From(db, Mid)} /\ ToOf(Mid) = {From(db, Mid + 1)}
    BY <1>1, MidBetween
  <1>3. From(db, Mid) <= ip /\ ip < From(db, Mid + 1)
    BY <1>2 DEF Hit
  <1> HIDE DEF Mid
  <1> QED BY <1>1, <1>2, <1>3 DEF LookupCorrect

\* The loop ends without a hit only for an address after the last row.
LEMMA MissCorrect ==
  ASSUME TypeOK, Bracket, GiveUp
  PROVE  LookupCorrect'
  <1> SUFFICES ASSUME Sound(db) PROVE LookupCorrect'
    BY DEF LookupCorrect, GiveUp
  <1>1. pc = "search" /\ low > high /\ db' = db /\ ip' = ip
    BY DEF GiveUp
  <1>2. /\ low \in 0 .. (db.count - 1) /\ high \in 0 .. (db.count - 2)
        /\ low <= high + 1
        /\ From(db, low) <= ip
        /\ high < db.count - 2 => ip < From(db, high + 1)
        /\ high = db.count - 2 /\ low > 0 => row = RowAt(db, low - 1)
    BY <1>1 DEF Bracket
  <1>3. db.count \in Nat /\ IsDatabase(db)
    BY CountSmall DEF TypeOK
  <1>4. low = high + 1
    BY <1>1, <1>2, <1>3
  <1>5. From(db, low) \in Address
    BY <1>2, <1>3, ReadRow
  <1>6. high = db.count - 2
    BY <1>2, <1>3, <1>4, <1>5 DEF TypeOK, Address
  <1>7. low = db.count - 1 /\ low - 1 = db.count - 2 /\ low > 0
    BY <1>2, <1>3, <1>4, <1>6
  <1>8. row = RowAt(db, db.count - 2)
    BY <1>2, <1>6, <1>7
  <1>9. result' = IF db.family = 4 THEN RowAt(db, db.count - 2) ELSE NotFound
    BY <1>8 DEF GiveUp
  <1> QED BY <1>1, <1>2, <1>7, <1>9 DEF LookupCorrect

\* An IPv6 lookup without an IPv6 table finds nothing.
LEMMA StartCorrect ==
  ASSUME TypeOK, NEW a \in Address, Start(a)
  PROVE  LookupCorrect'
  <1> SUFFICES ASSUME pc' = "done" PROVE LookupCorrect'
    BY DEF LookupCorrect
  <1>1. db.family = 6 /\ db.count < 2 /\ result' = NotFound /\ db' = db
    BY DEF Start
  <1>2. ~ (db.count >= 2)
    BY <1>1 DEF TypeOK, IsDatabase
  <1> QED BY <1>1, <1>2 DEF LookupCorrect

\* Every step keeps the invariant.
LEMMA InvStep == Inv /\ [Next]_vars => Inv'
  <1> SUFFICES ASSUME Inv, [Next]_vars PROVE Inv'
    OBVIOUS
  <1>0. TypeOK /\ Bracket /\ LookupCorrect /\ TypeOK'
    BY TypeStep DEF Inv
  <1>1. ASSUME NEW a \in Address, Start(a) PROVE Bracket' /\ LookupCorrect'
    BY <1>0, <1>1, BracketStart, StartCorrect
  <1>2. CASE Hit
    BY <1>0, <1>2, HitCorrect DEF Inv, Bracket, Hit
  <1>3. CASE GoLower
    BY <1>0, <1>3, BracketLower DEF Inv, LookupCorrect, GoLower
  <1>4. CASE GoUpper
    BY <1>0, <1>4, BracketUpper DEF Inv, LookupCorrect, GoUpper
  <1>5. CASE GiveUp
    BY <1>0, <1>5, MissCorrect DEF Inv, Bracket, GiveUp
  <1>6. CASE UNCHANGED vars
    BY <1>0, <1>6 DEF Inv, vars, Bracket, LookupCorrect
  <1> QED BY <1>0, <1>1, <1>2, <1>3, <1>4, <1>5, <1>6 DEF Next, Search, Inv

\* The invariant holds in every state.
LEMMA InvHolds == Spec => []Inv
  <1>1. Init => Inv
    BY TypeInit DEF Inv, Bracket, LookupCorrect, Init
  <1> QED BY <1>1, InvStep, PTL DEF Spec

-----------------------------------------------------------------------------
(* The results                                                             *)

(***************************************************************************)
(* Every variable of the search keeps its type; the sums wrap into words.  *)
(***************************************************************************)
THEOREM TypeCorrect == Spec => []TypeOK
  BY TypeInit, TypeStep, PTL DEF Spec

(***************************************************************************)
(* The row a lookup returns holds the address it was called with, for      *)
(* every table that lies in its file and starts at address 0, sorted or    *)
(* not (IP2LocationFindRowIPV4, IP2LocationFindRowIPV6).                   *)
(***************************************************************************)
THEOREM Correct == Spec => []LookupCorrect
  <1>1. Inv => LookupCorrect
    BY DEF Inv
  <1> QED BY <1>1, InvHolds, PTL

(***************************************************************************)
(* In such a table no sum of the search overflows and no probe reads       *)
(* anything but first addresses of rows.                                   *)
(***************************************************************************)
THEOREM NoWrap == Spec => []ProbesInTable
  <1>1. Inv => ProbesInTable
    <2> SUFFICES ASSUME Inv, pc = "search", low <= high, Sound(db)
                 PROVE  /\ Mid < db.count - 1
                        /\ FromOf(Mid) = {From(db, Mid)}
                        /\ ToOf(Mid) = {From(db, Mid + 1)}
      BY DEF ProbesInTable
    <2>1. /\ Mid \in 0 .. (db.count - 2)
          /\ FromOf(Mid) = {From(db, Mid)} /\ ToOf(Mid) = {From(db, Mid + 1)}
      BY MidBetween DEF Inv
    <2>2. db.count \in Nat
      BY CountSmall DEF Inv, TypeOK
    <2> QED BY <2>1, <2>2
  <1> QED BY <1>1, InvHolds, PTL

(***************************************************************************)
(* In such a table every probe at least halves the rows that are left, so  *)
(* the loop ends after at most as many probes as the count has bits, plus  *)
(* one.                                                                    *)
(***************************************************************************)
THEOREM Logarithmic == Spec => Halves
  <1>1. Inv /\ [Next]_vars =>
          [pc = "search" /\ pc' = "search" /\ Sound(db)
             => 2 * (high' - low' + 1) <= high - low + 1]_vars
    <2> SUFFICES ASSUME Inv, Next, pc = "search", pc' = "search", Sound(db)
                 PROVE  2 * (high' - low' + 1) <= high - low + 1
      BY DEF vars
    <2>1. TypeOK /\ Bracket /\ Bracket'
      BY InvStep DEF Inv
    <2>2. GoLower \/ GoUpper
      BY DEF Next, Search, Start, Hit, GiveUp
    <2>3. low <= high
      BY <2>2 DEF GoLower, GoUpper
    <2>4. /\ Mid \in low .. high /\ Mid \in 0 .. (db.count - 2)
          /\ 2 * Mid <= low + high /\ low + high <= 2 * Mid + 1
          /\ FromOf(Mid) = {From(db, Mid)} /\ From(db, Mid) \in Address
      BY <2>1, <2>3, MidBetween
    <2>5. low \in Nat /\ high \in Nat /\ From(db, low) <= ip /\ ip \in Nat
      BY <2>1 DEF TypeOK, Bracket, Address
    <2>6. db.count \in Nat /\ 2 * db.count < WordMod
      BY <2>1, CountSmall DEF TypeOK
    <2>7. CASE GoLower
      <3>1. Mid # low
        BY <2>4, <2>5, <2>7 DEF GoLower, Address
      <3>2. Mid - 1 \in 0 .. (WordMod - 1)
        BY <3>1, <2>4, <2>5, <2>6, LookupAssumption
      <3>3. high' = Mid - 1 /\ low' = low
        BY <3>2, <2>7, WrapId DEF GoLower
      <3> HIDE DEF Mid
      <3> QED BY <3>3, <2>4, <2>5
    <2>8. CASE GoUpper
      <3>1. Mid + 1 \in 0 .. (WordMod - 1)
        BY <2>4, <2>5, <2>6, LookupAssumption
      <3>2. low' = Mid + 1 /\ high' = high
        BY <3>1, <2>8, WrapId DEF GoUpper
      <3> HIDE DEF Mid
      <3> QED BY <3>2, <2>4, <2>5
    <2> QED BY <2>2, <2>7, <2>8
  <1> QED BY <1>1, InvHolds, PTL DEF Spec, Halves
=============================================================================
