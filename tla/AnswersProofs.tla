---------------------------- MODULE AnswersProofs ----------------------------
(***************************************************************************)
(* Proofs about what a call answers, for databases of every size, octets   *)
(* and words of every width: no string is read behind the end of a cached  *)
(* database, every mode returns what the file holds, and what a call says  *)
(* of an address is exact, its decimal of any length included.             *)
(***************************************************************************)
EXTENDS Answers, SequenceTheorems, WellFoundedInduction, TLAPS

-----------------------------------------------------------------------------
(* Octets and words                                                        *)

\* Numbers of 32 bits are not changed by 32 bit arithmetic.
LEMMA WrapId ==
  ASSUME NEW x \in 0 .. (WordMod - 1)
  PROVE  Wrap(x) = x
  BY PowerAssumption DEF Wrap

\* A wrapped sum is a word.
LEMMA WrapRange ==
  ASSUME NEW x \in Int
  PROVE  Wrap(x) \in Word /\ Word \subseteq Nat
  BY PowerAssumption DEF Wrap, Word

\* Octets are numbers, and none is Outside.
LEMMA OctetNumbers == Octet \subseteq Nat /\ Outside \notin Octet /\ Outside \in Nat
  BY PowerAssumption DEF Outside, Octet

\* Inside of a database there is an octet at every offset, behind it Outside.
LEMMA Octets ==
  ASSUME IsDatabase(db), NEW i \in Nat
  PROVE  /\ ByteAt(db, i) \in Nat
         /\ i < Len(db.bytes) => ByteAt(db, i) = db.bytes[i + 1] /\ ByteAt(db, i) \in Octet
         /\ i >= Len(db.bytes) => ByteAt(db, i) = Outside
         /\ Outside \notin Octet
  <1>1. db.bytes \in Seq(Octet) /\ Len(db.bytes) \in Nat
    BY DEF IsDatabase
  <1>2. Outside \in Nat /\ Octet \subseteq Nat /\ Outside \notin Octet
    BY OctetNumbers
  <1>3. i < Len(db.bytes) => ByteAt(db, i) = db.bytes[i + 1] /\ ByteAt(db, i) \in Octet
    <2> HAVE i < Len(db.bytes)
    <2>1. i \in 0 .. (Len(db.bytes) - 1) /\ i + 1 \in 1 .. Len(db.bytes)
      BY <1>1
    <2> QED BY <1>1, <2>1 DEF ByteAt
  <1>4. i >= Len(db.bytes) => ByteAt(db, i) = Outside
    BY <1>1 DEF ByteAt
  <1>5. ByteAt(db, i) \in Nat
    <2>1. i < Len(db.bytes) \/ i >= Len(db.bytes)
      BY <1>1
    <2> QED BY <1>2, <1>3, <1>4, <2>1
  <1> QED BY <1>2, <1>3, <1>4, <1>5

\* A word is a number, whether it could be read or not.
LEMMA WordsAreNumbers ==
  ASSUME IsDatabase(db), NEW p \in Int, NEW error \in Nat
  PROVE  ReadWord(db, p, error) \in Nat
  <1> DEFINE at == Wrap(p - 1)
             half(k) == ByteAt(db, at + k) + ByteMod * ByteAt(db, at + k + 1)
  <1>1. at \in Nat
    BY WrapRange
  <1>2. ByteMod \in Nat
    BY PowerAssumption
  <1> HIDE DEF at
  <1>3. ASSUME NEW k \in Nat PROVE half(k) \in Nat
    <2>0. at + k \in Nat /\ at + k + 1 \in Nat
      BY <1>1
    <2>1. ByteAt(db, at + k) \in Nat /\ ByteAt(db, at + k + 1) \in Nat
      BY <2>0, Octets
    <2> QED BY <1>2, <2>1
  <1>4. half(0) \in Nat /\ half(2) \in Nat
    BY <1>3
  <1>5. half(0) + ByteMod * ByteMod * half(2) \in Nat
    <2> HIDE DEF half
    <2>1. ByteMod * ByteMod \in Nat
      BY <1>2
    <2>2. ByteMod * ByteMod * half(2) \in Nat
      BY <1>4, <2>1
    <2> QED BY <1>4, <2>2
  <1> HIDE DEF half
  <1>6. ReadWord(db, p, error) \in {error, half(0), half(0) + ByteMod * ByteMod * half(2)}
    BY DEF ReadWord, half, at
  <1> QED BY <1>4, <1>5, <1>6

\* The position that is stored in a column, plus an offset, is a word.
LEMMA StoredPosition ==
  ASSUME IsDatabase(db), NEW p \in Int, NEW k \in Nat
  PROVE  Wrap(Read32(db, p) + k) \in Nat
  <1>1. ReadError \in Nat
    BY PowerAssumption DEF ReadError
  <1>2. Read32(db, p) \in Nat
    BY <1>1, WordsAreNumbers DEF Read32
  <1> QED BY <1>2, WrapRange

-----------------------------------------------------------------------------
(* Strings                                                                 *)

Buffer == [0 .. ByteMod -> Octet]

\* A string of no octets is empty, however it is written.
LEMMA NoOctets ==
  ASSUME NEW F(_)
  PROVE  [i \in 1 .. 0 |-> F(i)] = <<>>
  <1> DEFINE s == [i \in 1 .. 0 |-> F(i)]
  <1>1. s \in Seq({}) /\ Len(s) = 0
    OBVIOUS
  <1> QED BY <1>1, EmptySeq

\* The string that begins inside of the file, if it ends there too.
LEMMA TextInside ==
  ASSUME IsDatabase(db), NEW p \in Nat, p < Len(db.bytes)
  PROVE  /\ ByteAt(db, p) = db.bytes[p + 1] /\ ByteAt(db, p) \in Octet
         /\ p + ByteAt(db, p) < Len(db.bytes) =>
              /\ TextAt(p) = [i \in 1 .. ByteAt(db, p) |-> ByteAt(db, p + i)]
              /\ \A i \in 0 .. ByteAt(db, p) : ByteAt(db, p + i) \in Octet
         /\ p + ByteAt(db, p) >= Len(db.bytes) =>
              TextAt(p) = <<>> /\ ByteAt(db, p + ByteAt(db, p)) = Outside
  <1> DEFINE length == ByteAt(db, p)
  <1>1. length = db.bytes[p + 1] /\ length \in Octet /\ Octet \subseteq Nat
    BY Octets, OctetNumbers
  <1>2. Len(db.bytes) \in Nat
    BY DEF IsDatabase
  <1> HIDE DEF length
  <1>3. ASSUME p + length < Len(db.bytes)
        PROVE  /\ TextAt(p) = [i \in 1 .. length |-> ByteAt(db, p + i)]
               /\ \A i \in 0 .. length : ByteAt(db, p + i) \in Octet
    <2>1. ASSUME NEW i \in 0 .. length
          PROVE  ByteAt(db, p + i) = db.bytes[p + 1 + i] /\ ByteAt(db, p + i) \in Octet
      <3>1. length \in Nat
        BY <1>1
      <3>2. p + i \in Nat /\ p + i < Len(db.bytes) /\ p + i + 1 = p + 1 + i
        BY <1>2, <1>3, <3>1
      <3> QED BY <3>2, Octets
    <2>2. TextAt(p) = [i \in 1 .. length |-> db.bytes[p + 1 + i]]
      BY <1>1, <1>3 DEF TextAt
    <2>3. \A i \in 1 .. length : i \in 0 .. length
      BY <1>1
    <2> QED BY <2>1, <2>2, <2>3
  <1>4. ASSUME p + length >= Len(db.bytes)
        PROVE  TextAt(p) = <<>> /\ ByteAt(db, p + length) = Outside
    <2>1. ~ (p + db.bytes[p + 1] < Len(db.bytes)) /\ p + length \in Nat
      BY <1>1, <1>2, <1>4
    <2>2. ByteAt(db, p + length) = Outside
      BY <2>1, <1>4, Octets
    <2> QED BY <2>1, <2>2 DEF TextAt
  <1> QED BY <1>1, <1>3, <1>4 DEF length

(***************************************************************************)
(* A string that is read from the file is the one it holds, whatever the   *)
(* static buffer held before.                                              *)
(***************************************************************************)
LEMMA FileText ==
  ASSUME IsDatabase(db), str \in Buffer, NEW p \in Nat
  PROVE  /\ FileStr(db, str, p).str \in Buffer
         /\ FileStr(db, str, p).data \in {Pointer("str", 0), ErrorStr}
         /\ StringAt(db, FileStr(db, str, p).str, FileStr(db, str, p).data) = TextAt(p)
  <1> DEFINE length == ByteAt(db, p)
             there == {i \in 0 .. length : ByteAt(db, p + i) # Outside}
             read == [i \in DOMAIN str |-> IF i \in there THEN ByteAt(db, p + i) ELSE str[i]]
             s == FileStr(db, str, p)
  <1>1. ASSUME NEW u \in Buffer PROVE StringAt(db, u, ErrorStr) = <<>>
    BY DEF StringAt, ErrorStr, Pointer
  <1>2. Len(db.bytes) \in Nat /\ Outside \notin Octet
    BY OctetNumbers DEF IsDatabase
  <1>3. CASE p >= Len(db.bytes)
    <2>1. length = Outside
      BY <1>3, Octets
    <2>2. s = [data |-> ErrorStr, str |-> str]
      BY <2>1 DEF FileStr
    <2>3. TextAt(p) = <<>>
      BY <1>2, <1>3 DEF TextAt
    <2> QED BY <1>1, <2>2, <2>3
  <1>4. CASE p < Len(db.bytes)
    <2>1. length \in Octet /\ length # Outside /\ Octet \subseteq Nat /\ length \in 0 .. (ByteMod - 1)
      BY <1>2, <1>4, TextInside, PowerAssumption DEF Octet
    <2>2. s = [data |-> IF length > 0 /\ there = 0 .. length THEN Pointer("str", 0) ELSE ErrorStr,
               str |-> read]
      BY <2>1 DEF FileStr
    <2>3. read \in Buffer
      <3> SUFFICES ASSUME NEW i \in 0 .. ByteMod
                   PROVE  (IF i \in there THEN ByteAt(db, p + i) ELSE str[i]) \in Octet
        BY DEF Buffer
      <3>1. p + i \in Nat
        BY PowerAssumption
      <3>2. ByteAt(db, p + i) # Outside => ByteAt(db, p + i) \in Octet
        <4> DEFINE at == p + i
        <4>1. at \in Nat
          BY <3>1
        <4> HIDE DEF at
        <4>2. /\ at < Len(db.bytes) => ByteAt(db, at) \in Octet
              /\ at >= Len(db.bytes) => ByteAt(db, at) = Outside
          BY <4>1, Octets
        <4>3. ByteAt(db, at) # Outside => ByteAt(db, at) \in Octet
          BY <1>2, <4>1, <4>2
        <4> QED BY <4>3 DEF at
      <3> QED BY <3>2 DEF Buffer
    <2>4. CASE p + length >= Len(db.bytes)
      <3>1. TextAt(p) = <<>> /\ ByteAt(db, p + length) = Outside
        BY <1>4, <2>4, TextInside
      <3>2. length \in 0 .. length /\ length \notin there
        BY <2>1, <3>1
      <3> QED BY <1>1, <2>2, <2>3, <3>1, <3>2
    <2>5. CASE p + length < Len(db.bytes) /\ length > 0
      <3>1. /\ TextAt(p) = [i \in 1 .. length |-> ByteAt(db, p + i)]
            /\ \A i \in 0 .. length : ByteAt(db, p + i) \in Octet
        BY <1>4, <2>5, TextInside
      <3>2. there = 0 .. length
        BY <1>2, <3>1
      <3>3. s.data = Pointer("str", 0) /\ s.str = read
        BY <2>2, <2>5, <3>2
      <3>4. 0 .. length \subseteq DOMAIN str /\ 0 \in 0 .. length /\ 1 .. length \subseteq 0 .. length
        BY <2>1, PowerAssumption DEF Buffer
      <3>5. \A i \in 0 .. length : read[i] = ByteAt(db, p + i)
        BY <3>2, <3>4
      <3>6. read[0] = length
        <4>1. p + 0 = p
          OBVIOUS
        <4> QED BY <3>4, <3>5, <4>1
      <3> HIDE DEF read, there, length, s
      <3>7. StringAt(db, s.str, s.data) = [i \in 1 .. read[0] |-> read[i]]
        BY <3>3 DEF StringAt, Pointer
      <3>8. [i \in 1 .. length |-> read[i]] = [i \in 1 .. length |-> ByteAt(db, p + i)]
        BY <3>4, <3>5
      <3> QED BY <2>3, <3>1, <3>3, <3>6, <3>7, <3>8 DEF s
    <2>6. CASE p + length < Len(db.bytes) /\ length = 0
      <3>1. TextAt(p) = [i \in 1 .. 0 |-> ByteAt(db, p + i)]
        BY <1>4, <2>6, TextInside
      <3>2. TextAt(p) = <<>>
        BY <3>1, NoOctets
      <3>3. s.data = ErrorStr /\ s.str = read
        BY <2>2, <2>6
      <3> QED BY <1>1, <2>3, <3>2, <3>3
    <2> QED BY <1>2, <2>1, <2>4, <2>5, <2>6
  <1> QED BY <1>2, <1>3, <1>4

(***************************************************************************)
(* A string that is read from memory is the one in the file, and lies in   *)
(* the memory: the 32 bit sum of the bound does not wrap.                  *)
(***************************************************************************)
LEMMA MemoryText ==
  ASSUME IsDatabase(db), SumsFit, NEW p \in Nat
  PROVE  /\ StringAt(db, str, MemoryStr(db, p)) = TextAt(p)
         /\ MemoryStr(db, p).to = "memory" =>
              /\ MemoryStr(db, p).at < Len(db.bytes)
              /\ MemoryStr(db, p).at + ByteAt(db, MemoryStr(db, p).at) < Len(db.bytes)
  <1> DEFINE length == ByteAt(db, p)
  <1>1. Len(db.bytes) \in Nat
    BY DEF IsDatabase
  <1>2. StringAt(db, str, ErrorStr) = <<>> /\ ErrorStr.to # "memory"
    BY DEF StringAt, ErrorStr, Pointer
  <1>3. CASE p >= Len(db.bytes)
    <2>1. MemoryStr(db, p) = ErrorStr /\ TextAt(p) = <<>>
      BY <1>1, <1>3 DEF MemoryStr, TextAt
    <2> QED BY <1>2, <2>1
  <1>4. CASE p < Len(db.bytes)
    <2>1. length \in 0 .. (ByteMod - 1)
      BY <1>4, TextInside DEF Octet
    <2>2. p + length \in 0 .. (WordMod - 1)
      BY <1>1, <1>4, <2>1, PowerAssumption DEF SumsFit
    <2>3. Wrap(p + length) = p + length
      BY <2>2, WrapId
    <2>4. CASE p + length >= Len(db.bytes)
      <3>1. MemoryStr(db, p) = ErrorStr
        BY <2>3, <2>4 DEF MemoryStr
      <3>2. TextAt(p) = <<>>
        BY <1>4, <2>4, TextInside
      <3> QED BY <1>2, <3>1, <3>2
    <2>5. CASE p + length < Len(db.bytes)
      <3>1. MemoryStr(db, p) = Pointer("memory", p)
        BY <1>1, <1>4, <2>2, <2>3, <2>5 DEF MemoryStr
      <3>2. TextAt(p) = [i \in 1 .. length |-> ByteAt(db, p + i)]
        BY <1>4, <2>5, TextInside
      <3>3. StringAt(db, str, Pointer("memory", p)) = [i \in 1 .. length |-> ByteAt(db, p + i)]
        BY DEF StringAt, Pointer
      <3> QED BY <1>4, <2>5, <3>1, <3>2, <3>3 DEF Pointer
    <2> QED BY <1>1, <2>2, <2>4, <2>5
  <1> QED BY <1>1, <1>3, <1>4

-----------------------------------------------------------------------------
(* The invariant                                                           *)

\* What the code reads of field f of the row, wherever the row lies.
Got(f) ==
  LET at == Wrap(row + db.column[f]) IN
    IF f \in Floats THEN Js("number", <<ReadFloat(db, at)>>)
    ELSE Js("string", TextAt(Wrap(Read32(db, at) + IF f = LongName THEN 3 ELSE 0)))

\* What a getter makes of it.
Replied(f) ==
  IF Falsy(Got(f)) THEN IF f \in ZeroFields THEN Zero ELSE NotSupported ELSE Got(f)

\* The pointer of IP2LocationRowData points to the string or float of f.
PointsTo(f) ==
  IF f \in Floats
  THEN data = Pointer("value", 0) /\ value = ReadFloat(db, Wrap(row + db.column[f]))
  ELSE /\ data.to # "value"
       /\ SumsFit => Js("string", StringAt(db, str, data)) = Got(f)

Shape ==
  /\ db \in Databases
  /\ row \in Word /\ str \in Buffer /\ todo \subseteq ModeMask
  /\ result = Result(result.status, result.ip, result.ip_no, result.fields)

Quiet ==
  /\ Idle => row = NotFound /\ todo = {} /\ data = Null
  /\ data # Null => todo # {}
  /\ row = NotFound => todo = {}

Pointing == data # Null => \A f \in todo : IsNext(f) => PointsTo(f)

\* The fields there are so far are right, and a getter has all it asked for.
Filled ==
  row # NotFound =>
    /\ result.status \in {"OK", "object", "value"}
    /\ result.status = "value" => todo = {}
    /\ SumsFit => \A f \in DOMAIN result.fields \cap ModeMask :
         result.fields[f] = IF result.status = "value" THEN Replied(f) ELSE Got(f)
    /\ result.status = "object" => call.mask \cap ModeMask \subseteq todo \cup DOMAIN result.fields

IInv == Shape /\ Quiet /\ Pointing /\ Filled /\ ReadsInside

\* What the assumptions say of the database that is open.
LEMMA DatabaseFacts ==
  ASSUME db \in Databases
  PROVE  /\ IsDatabase(db)
         /\ ModeMask \subseteq Field /\ Field \subseteq Nat
         /\ \A f \in Field : db.column[f] \in Nat
         /\ \A a : RowsFor(a) \subseteq Word
         /\ NotFound \in Word /\ Word \subseteq Nat
  <1>1. IsDatabase(db) /\ Field \subseteq Nat
    BY AnswersAssumption
  <1>2. NotFound \in Word /\ Word \subseteq Nat /\ 1 .. (WordMod - 1) \subseteq Word
    BY PowerAssumption DEF NotFound, Word
  <1>3. db.rows[4] \subseteq Word /\ db.rows[6] \subseteq Word
    BY <1>1, <1>2 DEF IsDatabase
  <1>4. ASSUME NEW a PROVE RowsFor(a) \subseteq Word
    BY <1>2, <1>3 DEF RowsFor
  <1> QED BY <1>1, <1>2, <1>4 DEF IsDatabase, ModeMask

\* Fields are numbers, so one of those that are left is next.
LEMMA OneNext ==
  ASSUME todo \subseteq Nat, NEW f, IsNext(f), NEW g, IsNext(g)
  PROVE  f = g
  <1>1. f \in Nat /\ g \in Nat /\ f <= g /\ g <= f
    BY DEF IsNext
  <1> QED BY <1>1

\* Before a call nothing has been read.
LEMMA InitEstablishes == Init => IInv
  <1> SUFFICES ASSUME Init PROVE IInv
    OBVIOUS
  <1>1. 0 \in Octet
    BY PowerAssumption DEF Octet
  <1>2. Shape
    <2>1. str \in Buffer
      BY <1>1 DEF Init, Buffer
    <2>2. row \in Word /\ todo \subseteq ModeMask /\ db \in Databases
      BY DatabaseFacts DEF Init
    <2>3. result = Result(result.status, result.ip, result.ip_no, result.fields)
      BY DEF Init, NoResult, Result
    <2> QED BY <2>1, <2>2, <2>3 DEF Shape
  <1>3. Quiet /\ Pointing /\ Filled
    BY DEF Init, Quiet, Pointing, Filled
  <1>4. ReadsInside
    BY DEF Init, ReadsInside, Null, Pointer
  <1> QED BY <1>2, <1>3, <1>4 DEF IInv

\* What a step leaves that touches neither the call nor the static variables.
LEMMA UntouchedKept ==
  ASSUME IInv, UNCHANGED <<db, statics, progress, result>>
  PROVE  IInv'
  <1>1. UNCHANGED <<db, str, value, call, row, todo, data, result>>
    BY DEF statics, progress
  <1>2. Shape'
    BY <1>1 DEF IInv, Shape, ModeMask
  <1>3. Quiet'
    BY <1>1 DEF IInv, Quiet, Idle
  <1>4. Pointing'
    BY <1>1 DEF IInv, Pointing, IsNext, PointsTo, Got, SumsFit, TextAt, StringAt
  <1>5. Filled'
    BY <1>1 DEF IInv, Filled, ModeMask, Replied, Got, SumsFit, TextAt
  <1>6. ReadsInside'
    BY <1>1 DEF IInv, ReadsInside, SumsFit
  <1> QED BY <1>2, <1>3, <1>4, <1>5, <1>6 DEF IInv

\* A call that ends at once has no row.
LEMMA AnswerKeeps ==
  ASSUME IInv, Idle, NEW op, op # "none", NEW i, NEW mask, NEW r,
         r = Result(r.status, r.ip, r.ip_no, r.fields), Answer(op, i, mask, r)
  PROVE  IInv'
  <1>1. UNCHANGED <<db, str, value, row, todo, data>> /\ result' = r
    BY DEF Answer, statics
  <1>2. row = NotFound /\ todo = {} /\ data = Null
    BY DEF IInv, Quiet
  <1>3. Shape'
    BY <1>1 DEF IInv, Shape, ModeMask
  <1>4. Quiet' /\ Pointing' /\ Filled'
    BY <1>1, <1>2 DEF Quiet, Pointing, Filled
  <1>5. ReadsInside'
    BY <1>1, <1>2 DEF ReadsInside, Null, Pointer
  <1> QED BY <1>3, <1>4, <1>5 DEF IInv

(***************************************************************************)
(* A call that begins has read nothing yet, and has all the fields to come *)
(* that it asks for.                                                       *)
(***************************************************************************)
LEMMA BeginKeeps ==
  ASSUME IInv, Idle, NEW op, op # "none", NEW i, NEW mask, NEW a, NEW at, NEW fields, NEW r,
         at \in Word, fields \subseteq ModeMask, at = NotFound => fields = {},
         r = Result(r.status, r.ip, r.ip_no, r.fields),
         at # NotFound =>
           /\ r.status \in {"OK", "object"}
           /\ DOMAIN r.fields \cap ModeMask = {}
           /\ r.status = "object" => mask \cap ModeMask \subseteq fields,
         Begin(op, i, mask, a, at, fields, r)
  PROVE  IInv'
  <1>1. /\ UNCHANGED <<db, str, value, data>>
        /\ row' = at /\ todo' = fields /\ result' = r
        /\ call' = [op |-> op, input |-> i, mask |-> mask]
    BY DEF Begin, statics
  <1>2. data = Null /\ ModeMask' = ModeMask
    BY <1>1 DEF IInv, Quiet, ModeMask
  <1>3. Shape'
    BY <1>1, <1>2 DEF IInv, Shape
  <1>4. ~ Idle'
    BY <1>1 DEF Idle, NoCall
  <1>5. Quiet' /\ Pointing'
    BY <1>1, <1>2, <1>4 DEF Quiet, Pointing
  <1>6. Filled'
    <2> SUFFICES ASSUME at # NotFound PROVE Filled'
      BY <1>1 DEF Filled
    <2>1. call'.mask = mask
      BY <1>1
    <2>2. DOMAIN result'.fields \cap ModeMask' = {}
      BY <1>1, <1>2
    <2> QED BY <1>1, <1>2, <2>1, <2>2 DEF Filled
  <1>7. ReadsInside'
    BY <1>1, <1>2 DEF ReadsInside, Null, Pointer
  <1> QED BY <1>3, <1>5, <1>6, <1>7 DEF IInv

\* A failure has the shape of a result.
LEMMA ResultShape ==
  ASSUME NEW status, NEW ip, NEW no, NEW fields, NEW r, r = Result(status, ip, no, fields)
  PROVE  r.status = status /\ r.fields = fields /\ r = Result(r.status, r.ip, r.ip_no, r.fields)
  BY DEF Result

LEMMA GetAllKeeps ==
  ASSUME IInv, NEW i, GetAll(i)
  PROVE  IInv'
  <1>1. Idle /\ db \in Databases
    BY DEF GetAll, IInv, Shape
  <1>2. CASE location # "open"
    <2>1. PICK s : Answer("getAll", i, {}, Failure(s, Unknown, Unknown))
      BY <1>2 DEF GetAll
    <2> DEFINE r == Failure(s, Unknown, Unknown)
    <2>2. r = Result(r.status, r.ip, r.ip_no, r.fields)
      BY ResultShape DEF Failure
    <2> HIDE DEF r
    <2>3. Answer("getAll", i, {}, r)
      BY <2>1 DEF r
    <2> QED BY <1>1, <2>2, <2>3, AnswerKeeps
  <1>3. CASE location = "open"
    <2>1. PICK a, at : at \in RowsFor(a) /\
           (\/ \E s, ip, no : Begin("getAll", i, {}, a, NotFound, {}, Failure(s, ip, no))
            \/ /\ at # NotFound
               /\ Begin("getAll", i, Field, a, at, ModeMask,
                    Result("OK", IpOf(i, a), IpNoOf(a),
                      [f \in Field \ ModeMask |-> IF f \in ZeroFields THEN Zero ELSE NotSupported])))
      BY <1>3, Zenon DEF GetAll
    <2>2. at \in Word /\ NotFound \in Word
      <3>1. RowsFor(a) \subseteq Word /\ NotFound \in Word
        BY <1>1, DatabaseFacts
      <3> QED BY <2>1, <3>1
    <2>3. ASSUME NEW s, NEW ip, NEW no, Begin("getAll", i, {}, a, NotFound, {}, Failure(s, ip, no))
          PROVE  IInv'
      <3> DEFINE r == Failure(s, ip, no)
      <3>1. r = Result(r.status, r.ip, r.ip_no, r.fields)
        BY ResultShape DEF Failure
      <3>2. Begin("getAll", i, {}, a, NotFound, {}, r)
        BY <2>3
      <3> HIDE DEF r
      <3> QED BY <1>1, <2>2, <3>1, <3>2, BeginKeeps
    <2>4. ASSUME at # NotFound,
                 Begin("getAll", i, Field, a, at, ModeMask,
                   Result("OK", IpOf(i, a), IpNoOf(a),
                     [f \in Field \ ModeMask |-> IF f \in ZeroFields THEN Zero ELSE NotSupported]))
          PROVE  IInv'
      <3> DEFINE fields == [f \in Field \ ModeMask |-> IF f \in ZeroFields THEN Zero ELSE NotSupported]
                 r == Result("OK", IpOf(i, a), IpNoOf(a), fields)
      <3>1. /\ r = Result(r.status, r.ip, r.ip_no, r.fields)
            /\ r.status = "OK" /\ r.fields = fields
        BY ResultShape
      <3>2. DOMAIN r.fields \cap ModeMask = {}
        BY <3>1
      <3>3. Begin("getAll", i, Field, a, at, ModeMask, r)
        BY <2>4
      <3> HIDE DEF r
      <3> QED BY <1>1, <2>2, <2>4, <3>1, <3>2, <3>3, BeginKeeps
    <2> QED BY <2>1, <2>3, <2>4
  <1> QED BY <1>2, <1>3

LEMMA FindKeeps ==
  ASSUME IInv, Idle, NEW op, op # "none", NEW i, NEW mask, Find(op, i, mask)
  PROVE  IInv'
  <1>1. db \in Databases
    BY DEF IInv, Shape
  <1>2. PICK a, at : at \in RowsFor(a) /\
          Begin(op, i, mask, a, at, IF at = NotFound THEN {} ELSE ModeMask \cap mask,
                IF at = NotFound THEN Failure("null", Unknown, Unknown)
                                 ELSE Result("object", Unknown, Unknown, <<>>))
    BY DEF Find
  <1> DEFINE fields == IF at = NotFound THEN {} ELSE ModeMask \cap mask
             r == IF at = NotFound THEN Failure("null", Unknown, Unknown)
                                   ELSE Result("object", Unknown, Unknown, <<>>)
  <1>3. at \in Word
    <2>1. RowsFor(a) \subseteq Word
      BY <1>1, DatabaseFacts
    <2> QED BY <1>2, <2>1
  <1>4. r = Result(r.status, r.ip, r.ip_no, r.fields)
    BY ResultShape DEF Failure
  <1>5. at # NotFound => r.status = "object" /\ DOMAIN r.fields = {}
    BY ResultShape DEF Result
  <1>6. fields \subseteq ModeMask /\ (at = NotFound => fields = {})
        /\ (at # NotFound => mask \cap ModeMask \subseteq fields)
    OBVIOUS
  <1>7. Begin(op, i, mask, a, at, fields, r)
    BY <1>2
  <1> HIDE DEF fields, r
  <1> QED BY <1>3, <1>4, <1>5, <1>6, <1>7, BeginKeeps

LEMMA QueryKeeps ==
  ASSUME IInv, NEW i, NEW mask, Query(i, mask)
  PROVE  IInv'
  <1> DEFINE r == Failure("throws", Unknown, Unknown)
  <1>1. r = Result(r.status, r.ip, r.ip_no, r.fields)
    BY ResultShape DEF Failure
  <1>2. Idle /\ (Answer("query", i, mask, r) \/ Find("query", i, mask))
    BY DEF Query
  <1> HIDE DEF r
  <1> QED BY <1>1, <1>2, AnswerKeeps, FindKeeps

LEMMA GetKeeps ==
  ASSUME IInv, NEW i, NEW f, Get(i, f)
  PROVE  IInv'
  <1> DEFINE r == Result("value", Unknown, Unknown, [g \in {f} |-> Unknown])
  <1>1. r = Result(r.status, r.ip, r.ip_no, r.fields)
    BY ResultShape
  <1>2. Idle /\ (Answer("get", i, {f}, r) \/ Find("get", i, {f}))
    BY DEF Get
  <1> HIDE DEF r
  <1> QED BY <1>1, <1>2, AnswerKeeps, FindKeeps

(***************************************************************************)
(* Reading a column leaves a pointer to the text or float of the field: a  *)
(* string in either mode, by the lemmas above.                             *)
(***************************************************************************)
LEMMA FetchKeeps ==
  ASSUME IInv, NEW f \in todo, Fetch(f)
  PROVE  IInv'
  <1> DEFINE at == Wrap(row + db.column[f])
             p == Wrap(Read32(db, at) + IF f = LongName THEN 3 ELSE 0)
             s == ReadStr(db, str, p)
  <1>1. /\ IsDatabase(db) /\ f \in Field /\ f \in todo /\ todo \subseteq Nat
        /\ row \in Nat /\ db.column[f] \in Nat /\ row # NotFound /\ str \in Buffer
    BY DatabaseFacts DEF IInv, Shape, Quiet
  <1>2. UNCHANGED <<db, call, row, todo, result>> /\ data = Null /\ IsNext(f)
    BY DEF Fetch
  <1>3. at \in Nat
    <2>1. row + db.column[f] \in Int
      BY <1>1
    <2> QED BY <2>1, WrapRange
  <1>4. p \in Nat
    <2> HIDE DEF at
    <2>1. at \in Int /\ (IF f = LongName THEN 3 ELSE 0) \in Nat
      BY <1>3
    <2> QED BY <1>1, <2>1, StoredPosition
  <1>5. IF f \in Floats
        THEN data' = Pointer("value", 0) /\ value' = ReadFloat(db, at) /\ str' = str
        ELSE data' = s.data /\ str' = s.str
    BY DEF Fetch, ReadStrIndexAtOffset
  <1>6. Got(f) = IF f \in Floats THEN Js("number", <<ReadFloat(db, at)>>) ELSE Js("string", TextAt(p))
    BY DEF Got
  <1> HIDE DEF at, p, s
  <1>7. ASSUME f \notin Floats
        PROVE  /\ s.str \in Buffer
               /\ s.data.to \in {"memory", "str", "error"}
               /\ SumsFit => StringAt(db, s.str, s.data) = TextAt(p)
               /\ SumsFit /\ s.data.to = "memory" =>
                    /\ s.data.at < Len(db.bytes)
                    /\ s.data.at + ByteAt(db, s.data.at) < Len(db.bytes)
    <2>1. CASE db.cached
      <3>1. s = [data |-> MemoryStr(db, p), str |-> str]
        BY <2>1 DEF s, ReadStr
      <3>2. MemoryStr(db, p).to \in {"memory", "error"}
        BY DEF MemoryStr, ErrorStr, Pointer
      <3>3. SumsFit => /\ StringAt(db, str, MemoryStr(db, p)) = TextAt(p)
                       /\ MemoryStr(db, p).to = "memory" =>
                            /\ MemoryStr(db, p).at < Len(db.bytes)
                            /\ MemoryStr(db, p).at + ByteAt(db, MemoryStr(db, p).at) < Len(db.bytes)
        BY <1>1, <1>4, MemoryText
      <3> QED BY <1>1, <3>1, <3>2, <3>3
    <2>2. CASE ~ db.cached
      <3>1. s = FileStr(db, str, p)
        BY <2>2 DEF s, ReadStr
      <3>2. /\ s.str \in Buffer
            /\ s.data \in {Pointer("str", 0), ErrorStr}
            /\ StringAt(db, s.str, s.data) = TextAt(p)
        BY <1>1, <1>4, <3>1, FileText
      <3>3. s.data.to \in {"str", "error"}
        BY <3>2 DEF ErrorStr, Pointer
      <3> QED BY <3>2, <3>3
    <2> QED BY <2>1, <2>2
  <1>8. Shape'
    <2>1. str' \in Buffer
      BY <1>1, <1>5, <1>7
    <2> QED BY <1>2, <2>1 DEF IInv, Shape, ModeMask, Buffer
  <1>9. Quiet'
    BY <1>1, <1>2 DEF IInv, Quiet, Idle
  <1>10. Pointing'
    <2>1. Got(f)' = Got(f) /\ SumsFit' = SumsFit
      BY <1>2 DEF Got, SumsFit, TextAt
    <2>2. PointsTo(f)'
      <3>1. CASE f \in Floats
        <4>1. Wrap(row' + db'.column[f]) = at /\ ReadFloat(db', at) = ReadFloat(db, at)
          BY <1>2 DEF at
        <4> QED BY <1>5, <3>1, <4>1 DEF PointsTo
      <3>2. CASE f \notin Floats
        <4>1. data' = s.data /\ str' = s.str /\ db' = db
          BY <1>2, <1>5, <3>2
        <4>2. data'.to # "value"
          BY <1>7, <3>2, <4>1
        <4>3. SumsFit => Js("string", StringAt(db', str', data')) = Got(f)
          BY <1>6, <1>7, <3>2, <4>1
        <4> QED BY <2>1, <3>2, <4>2, <4>3 DEF PointsTo
      <3> QED BY <3>1, <3>2
    <2>3. \A g \in todo' : IsNext(g)' => g = f
      BY <1>1, <1>2, OneNext DEF IsNext
    <2> QED BY <2>2, <2>3 DEF Pointing
  <1>11. Filled'
    BY <1>2 DEF IInv, Filled, ModeMask, Replied, Got, SumsFit, TextAt
  <1>12. ReadsInside'
    <2>1. CASE f \in Floats
      BY <1>5, <2>1 DEF ReadsInside, Pointer
    <2>2. CASE f \notin Floats
      BY <1>2, <1>5, <1>7, <2>2 DEF ReadsInside, SumsFit
    <2> QED BY <2>1, <2>2
  <1> QED BY <1>8, <1>9, <1>10, <1>11, <1>12 DEF IInv

\* The value that is stored is the one the pointer points to.
LEMMA StoreKeeps ==
  ASSUME IInv, NEW f \in todo, Store(f)
  PROVE  IInv'
  <1> DEFINE v == IF data.to = "value" THEN Js("number", <<value>>)
                                       ELSE Js("string", StringAt(db, str, data))
             old == result.fields
             new == [g \in DOMAIN old \cup {f} |-> IF g = f THEN v ELSE old[g]]
  <1>1. /\ UNCHANGED <<db, str, value, call, row>> /\ todo' = todo \ {f} /\ data' = Null
        /\ data # Null /\ IsNext(f)
    BY DEF Store, statics
  <1>2. result' = Result(result.status, result.ip, result.ip_no, new)
    <2>1. result = [status |-> result.status, ip |-> result.ip, ip_no |-> result.ip_no,
                    fields |-> result.fields]
      BY DEF IInv, Shape, Result
    <2>2. result' = [result EXCEPT !.fields = new]
      BY DEF Store
    <2> HIDE DEF new
    <2> QED BY <2>1, <2>2 DEF Result
  <1>3. PointsTo(f) /\ f \in ModeMask /\ row # NotFound
    BY <1>1 DEF IInv, Pointing, Shape, Quiet
  <1>4. SumsFit => v = Got(f)
    BY <1>3 DEF PointsTo, Got, Pointer
  <1> HIDE DEF v
  <1>5. /\ result'.status = result.status /\ result'.fields = new
        /\ result' = Result(result'.status, result'.ip, result'.ip_no, result'.fields)
    <2> HIDE DEF new
    <2> QED BY <1>2 DEF Result
  <1>6. Shape'
    BY <1>1, <1>5 DEF IInv, Shape, ModeMask
  <1>7. Quiet' /\ Pointing'
    BY <1>1, <1>3 DEF IInv, Quiet, Pointing, Idle
  <1>8. Filled'
    <2>1. \A g : Got(g)' = Got(g) /\ Replied(g)' = Replied(g)
      BY <1>1 DEF Got, Replied, TextAt
    <2>2. SumsFit' = SumsFit /\ ModeMask' = ModeMask /\ row' = row /\ call' = call
      BY <1>1 DEF SumsFit, ModeMask
    <2>3. result.status \in {"OK", "object"}
      BY <1>3 DEF IInv, Filled
    <2>4. SumsFit => \A g \in DOMAIN new \cap ModeMask : new[g] = Got(g)
      BY <1>3, <1>4, <2>3 DEF IInv, Filled
    <2>5. result.status = "object" =>
            call.mask \cap ModeMask \subseteq (todo \ {f}) \cup DOMAIN new
      BY <1>3 DEF IInv, Filled
    <2> HIDE DEF new
    <2> QED BY <1>1, <1>5, <2>1, <2>2, <2>3, <2>4, <2>5 DEF Filled
  <1>9. ReadsInside'
    BY <1>1 DEF ReadsInside, Null, Pointer
  <1> QED BY <1>6, <1>7, <1>8, <1>9 DEF IInv

\* A getter replies with its field, if the row has it.
LEMMA ReplyKeeps ==
  ASSUME IInv, Reply
  PROVE  IInv'
  <1> DEFINE reply(f) ==
               IF result.status = "null" THEN Unknown
               ELSE IF f \in DOMAIN result.fields /\ ~ Falsy(result.fields[f])
               THEN result.fields[f]
               ELSE IF f \in ZeroFields THEN Zero ELSE NotSupported
             fields == [f \in call.mask |-> reply(f)]
  <1>1. /\ UNCHANGED <<db, str, value, call, row, todo, data>>
        /\ result' = Result("value", Unknown, Unknown, fields)
        /\ result.status \in {"object", "null"} /\ todo = {} /\ data = Null
    BY DEF Reply, Done, statics, progress
  <1>2. /\ result'.status = "value" /\ result'.fields = fields
        /\ result' = Result(result'.status, result'.ip, result'.ip_no, result'.fields)
    <2> HIDE DEF fields
    <2> QED BY <1>1 DEF Result
  <1>3. Shape'
    BY <1>1, <1>2 DEF IInv, Shape, ModeMask
  <1>4. Quiet' /\ Pointing'
    BY <1>1 DEF IInv, Quiet, Pointing, Idle
  <1>5. Filled'
    <2> SUFFICES ASSUME row # NotFound PROVE Filled'
      BY <1>1 DEF Filled
    <2>1. result.status = "object"
      BY <1>1 DEF IInv, Filled
    <2>2. \A g : Replied(g)' = Replied(g)
      BY <1>1 DEF Replied, Got, TextAt
    <2>3. SumsFit' = SumsFit /\ ModeMask' = ModeMask
      BY <1>1 DEF SumsFit, ModeMask
    <2>4. ASSUME SumsFit, NEW f \in call.mask \cap ModeMask PROVE fields[f] = Replied(f)
      <3>1. f \in DOMAIN result.fields
        BY <1>1, <2>1 DEF IInv, Filled
      <3>2. result.fields[f] = Got(f)
        BY <2>1, <2>4, <3>1 DEF IInv, Filled
      <3>3. fields[f] = IF ~ Falsy(Got(f)) THEN Got(f)
                        ELSE IF f \in ZeroFields THEN Zero ELSE NotSupported
        BY <2>1, <3>1, <3>2
      <3> QED BY <3>3 DEF Replied
    <2> QED BY <1>1, <1>2, <2>2, <2>3, <2>4 DEF Filled
  <1>6. ReadsInside'
    BY <1>1 DEF ReadsInside, Null, Pointer
  <1> QED BY <1>3, <1>4, <1>5, <1>6 DEF IInv

\* After a call everything is as before it, but the static variables.
LEMMA ReturnKeeps ==
  ASSUME IInv, Return
  PROVE  IInv'
  <1>1. /\ UNCHANGED <<db, str, value, todo, data>> /\ row' = NotFound /\ result' = NoResult
        /\ todo = {} /\ data = Null
    BY DEF Return, Done, statics
  <1>2. Shape'
    <2>1. row' \in Word
      BY <1>1, DatabaseFacts DEF IInv, Shape
    <2>2. result' = Result(result'.status, result'.ip, result'.ip_no, result'.fields)
      <3>1. NoResult = Result(NoResult.status, NoResult.ip, NoResult.ip_no, NoResult.fields)
        BY DEF NoResult, Result
      <3> QED BY <1>1, <3>1
    <2> QED BY <1>1, <2>1, <2>2 DEF IInv, Shape, ModeMask
  <1>3. Quiet' /\ Pointing' /\ Filled'
    BY <1>1 DEF Quiet, Pointing, Filled
  <1>4. ReadsInside'
    BY <1>1 DEF ReadsInside, Null, Pointer
  <1> QED BY <1>2, <1>3, <1>4 DEF IInv

LEMMA StepKeeps == IInv /\ [Next]_vars => IInv'
  <1> SUFFICES ASSUME IInv, [Next]_vars PROVE IInv'
    OBVIOUS
  <1>1. ASSUME UNCHANGED vars PROVE IInv'
    BY <1>1, UntouchedKept DEF vars
  <1>2. ASSUME Open \/ CloseDatabase PROVE IInv'
    <2>1. UNCHANGED <<db, statics, progress, result>>
      BY <1>2 DEF Open, CloseDatabase
    <2> QED BY <2>1, UntouchedKept
  <1>3. ASSUME NEW i \in Asked[db], GetAll(i) PROVE IInv'
    BY <1>3, GetAllKeeps
  <1>4. ASSUME NEW i \in Asked[db], NEW mask \in Masks, Query(i, mask) PROVE IInv'
    BY <1>4, QueryKeeps
  <1>5. ASSUME NEW i \in Asked[db], NEW f \in Field, Get(i, f) PROVE IInv'
    BY <1>5, GetKeeps
  <1>6. ASSUME NEW f \in todo, Fetch(f) PROVE IInv'
    BY <1>6, FetchKeeps
  <1>7. ASSUME NEW f \in todo, Store(f) PROVE IInv'
    BY <1>7, StoreKeeps
  <1>8. ASSUME Reply PROVE IInv'
    BY <1>8, ReplyKeeps
  <1>9. ASSUME Return PROVE IInv'
    BY <1>9, ReturnKeeps
  <1> QED BY <1>1, <1>2, <1>3, <1>4, <1>5, <1>6, <1>7, <1>8, <1>9 DEF Next

THEOREM Invariance == Spec => []IInv
  <1>1. Init => IInv
    BY InitEstablishes
  <1>2. IInv /\ [Next]_vars => IInv'
    BY StepKeeps
  <1> QED BY <1>1, <1>2, PTL DEF Spec

-----------------------------------------------------------------------------
(* The theorems                                                            *)

(***************************************************************************)
(* No string is read behind the end of the memory of a cached database     *)
(* that is short enough for its 32 bit sums (ip2ldatabase.c:544-547).      *)
(***************************************************************************)
THEOREM StringsInMemory == Spec => []ReadsInside
  <1>1. IInv => ReadsInside
    BY DEF IInv
  <1> QED BY <1>1, Invariance, PTL

\* In a column that lies in the file the code reads the word that is there.
LEMMA ColumnInFile ==
  ASSUME IInv, SumsFit, row # NotFound, NEW f \in ModeMask,
         row + db.column[f] + WordBytes - 1 <= Len(db.bytes)
  PROVE  Got(f) = Held(f)
  <1> DEFINE at == row + db.column[f]
  <1>1. /\ IsDatabase(db) /\ row \in Nat /\ db.column[f] \in Nat
        /\ db.bytes \in Seq(Octet) /\ Len(db.bytes) \in Nat /\ Len(db.bytes) <= WordMod - 2
    <2>1. IsDatabase(db) /\ row \in Nat /\ db.column[f] \in Nat
      BY DatabaseFacts DEF IInv, Shape
    <2>2. db.bytes \in Seq(Octet) /\ Len(db.bytes) <= WordMod - 2
      BY <2>1 DEF IsDatabase
    <2>3. Len(db.bytes) \in Nat
      BY <2>2
    <2> QED BY <2>1, <2>2, <2>3
  <1>2. row > 0 /\ WordBytes \in {2, 4}
    BY <1>1, WordAssumption DEF NotFound
  <1>3. /\ at \in Nat /\ at > 0 /\ at + WordBytes - 1 <= Len(db.bytes)
        /\ at \in 0 .. (WordMod - 1) /\ at - 1 \in 0 .. (WordMod - 1)
    <2>1. at \in Nat /\ at > 0 /\ at + WordBytes - 1 <= Len(db.bytes)
      BY <1>1, <1>2
    <2> HIDE DEF at
    <2>2. at <= WordMod - 3
      BY <1>1, <1>2, <2>1, PowerAssumption
    <2> QED BY <2>1, <2>2, PowerAssumption
  <1>4. Wrap(at) = at /\ Wrap(at - 1) = at - 1
    BY <1>3, WrapId
  <1> DEFINE half(k) == db.bytes[at + k] + ByteMod * db.bytes[at + k + 1]
  <1>5. ASSUME NEW k \in 0 .. (WordBytes - 2)
        PROVE  ByteAt(db, at - 1 + k) + ByteMod * ByteAt(db, at - 1 + k + 1) = half(k)
    <2> HIDE DEF at, half
    <2>1. /\ at - 1 + k \in Nat /\ at - 1 + k < Len(db.bytes) /\ at - 1 + k + 1 = at + k
          /\ at + k \in Nat /\ at + k < Len(db.bytes)
      BY <1>1, <1>2, <1>3
    <2>2. ByteAt(db, at - 1 + k) = db.bytes[at + k] /\ ByteAt(db, at + k) = db.bytes[at + k + 1]
      BY <1>1, <2>1, Octets
    <2> QED BY <2>1, <2>2 DEF half
  <1>6. ASSUME NEW error PROVE ReadWord(db, at, error) = WordAt(at)
    <2>1. ~ (at - 1 + WordBytes > Len(db.bytes))
      <3> HIDE DEF at
      <3> QED BY <1>1, <1>2, <1>3
    <2>2. CASE WordBytes = 2
      <3>1. ReadWord(db, at, error) = ByteAt(db, at - 1 + 0) + ByteMod * ByteAt(db, at - 1 + 0 + 1)
        BY <1>4, <2>1, <2>2 DEF ReadWord
      <3>2. WordAt(at) = half(0)
        BY <2>2 DEF WordAt
      <3>3. 0 \in 0 .. (WordBytes - 2)
        BY <2>2
      <3> HIDE DEF half
      <3> QED BY <1>5, <3>1, <3>2, <3>3
    <2>3. CASE WordBytes = 4
      <3>1. ReadWord(db, at, error) =
              (ByteAt(db, at - 1 + 0) + ByteMod * ByteAt(db, at - 1 + 0 + 1))
                + ByteMod * ByteMod *
                    (ByteAt(db, at - 1 + 2) + ByteMod * ByteAt(db, at - 1 + 2 + 1))
        BY <1>4, <2>1, <2>3 DEF ReadWord
      <3>2. WordAt(at) = half(0) + ByteMod * ByteMod * half(2)
        BY <2>3 DEF WordAt
      <3>3. 0 \in 0 .. (WordBytes - 2) /\ 2 \in 0 .. (WordBytes - 2)
        BY <2>3
      <3> HIDE DEF half
      <3> QED BY <1>5, <3>1, <3>2, <3>3
    <2> QED BY <1>2, <2>2, <2>3
  <1>7. Read32(db, at) = WordAt(at) /\ ReadFloat(db, at) = WordAt(at)
    BY <1>6 DEF Read32, ReadFloat
  <1> QED BY <1>4, <1>7 DEF Got, Held

(***************************************************************************)
(* getAll(), query() and the getters return what the file holds, from the  *)
(* file and from memory the same, whatever was read before                 *)
(* (ip2ldatabase.c:433-556, ip2location.c:195-251).                        *)
(***************************************************************************)
THEOREM FileIsRead == Spec => []ReadsExact
  <1>1. IInv => ReadsExact
    <2> SUFFICES ASSUME IInv, row # NotFound, SumsFit,
                        NEW f \in DOMAIN result.fields \cap ModeMask,
                        row + db.column[f] + WordBytes - 1 <= Len(db.bytes)
                 PROVE  result.fields[f] =
                          IF result.status = "value" /\ Falsy(Held(f))
                          THEN IF f \in ZeroFields THEN Zero ELSE NotSupported
                          ELSE Held(f)
      BY DEF ReadsExact
    <2>1. Got(f) = Held(f)
      BY ColumnInFile
    <2>2. result.fields[f] = IF result.status = "value" THEN Replied(f) ELSE Got(f)
      BY DEF IInv, Filled
    <2> QED BY <2>1, <2>2 DEF Replied
  <1> QED BY <1>1, Invariance, PTL

-----------------------------------------------------------------------------
(* Induction over numbers                                                  *)

\* A set of numbers that is not empty has a least one.
LEMMA Least ==
  ASSUME NEW S \in SUBSET Nat, S # {}
  PROVE  \E m \in S : \A k \in S : m <= k
  <1> DEFINE R == {ss \in Nat \X Nat : ss[1] < ss[2]}
  <1>1. IsWellFoundedOn(R, Nat)
    BY NatLessThanWellFounded DEF OpToRel
  <1> HIDE DEF R
  <1>2. PICK m \in S : \A k \in S : ~ (<<k, m>> \in R)
    BY <1>1, WFMin
  <1>3. ASSUME NEW k \in S PROVE m <= k
    <2>1. k \in Nat /\ m \in Nat /\ <<k, m>> \notin R
      BY <1>2
    <2>2. ~ (k < m)
      BY <2>1 DEF R
    <2> QED BY <2>1, <2>2
  <1> QED BY <1>2, <1>3

\* What holds of 0, and of n + 1 if of n, holds of all numbers to N.
LEMMA Induct ==
  ASSUME NEW N \in Nat, NEW S, 0 \in S, \A n \in 0 .. (N - 1) : n \in S => n + 1 \in S
  PROVE  \A n \in 0 .. N : n \in S
  <1> DEFINE Bad == {n \in 0 .. N : n \notin S}
  <1> SUFFICES ASSUME Bad # {} PROVE FALSE
    OBVIOUS
  <1>1. Bad \in SUBSET Nat
    OBVIOUS
  <1>2. PICK m \in Bad : \A k \in Bad : m <= k
    BY <1>1, Least
  <1>3. m # 0 /\ m \in 0 .. N /\ m \notin S
    BY <1>2
  <1>4. m - 1 \in 0 .. (N - 1) /\ m - 1 \in 0 .. N /\ m - 1 + 1 = m /\ ~ (m <= m - 1)
    BY <1>3
  <1>5. m - 1 \in S
    BY <1>2, <1>4
  <1> QED BY <1>3, <1>4, <1>5

\* N steps in D; g goes by the steps F from a.
Steps(N, D) == [1 .. N -> [D -> D]]

Follows(g, N, D, a, F) ==
  g \in [0 .. N -> D] /\ g[0] = a /\ \A n \in 1 .. N : g[n] = F[n][g[n - 1]]

\* There is the sequence that begins with a and goes on by the steps F.
LEMMA Recursion ==
  ASSUME NEW D, NEW a \in D, NEW N \in Nat, NEW F \in Steps(N, D)
  PROVE  \E g : Follows(g, N, D, a, F)
  <1> DEFINE Upto(k, g) == g[0] = a /\ \A n \in 1 .. k : g[n] = F[n][g[n - 1]]
             S == {k \in 0 .. N : \E g \in [0 .. k -> D] : Upto(k, g)}
  <1>1. 0 \in S
    <2> DEFINE g == [n \in 0 .. 0 |-> a]
    <2>1. g \in [0 .. 0 -> D] /\ Upto(0, g)
      OBVIOUS
    <2> HIDE DEF g
    <2>2. 0 \in 0 .. N
      OBVIOUS
    <2> QED BY <2>1, <2>2
  <1>2. ASSUME NEW k \in 0 .. (N - 1), k \in S PROVE k + 1 \in S
    <2>1. PICK g \in [0 .. k -> D] : Upto(k, g)
      BY <1>2
    <2> DEFINE h == [n \in 0 .. (k + 1) |-> IF n = k + 1 THEN F[k + 1][g[k]] ELSE g[n]]
    <2>2. k + 1 \in 1 .. N /\ g[k] \in D /\ F[k + 1] \in [D -> D]
      BY DEF Steps
    <2>3. h \in [0 .. (k + 1) -> D]
      BY <2>2
    <2>4. Upto(k + 1, h)
      <3>1. h[0] = a
        BY <2>1
      <3>2. ASSUME NEW n \in 1 .. (k + 1) PROVE h[n] = F[n][h[n - 1]]
        <4>1. n - 1 \in 0 .. k /\ n - 1 # k + 1 /\ h[n - 1] = g[n - 1]
          OBVIOUS
        <4>2. CASE n = k + 1
          BY <4>1, <4>2
        <4>3. CASE n # k + 1
          <5>1. n \in 1 .. k
            BY <4>3
          <5> QED BY <2>1, <4>1, <4>3, <5>1
        <4> QED BY <4>2, <4>3
      <3> QED BY <3>1, <3>2
    <2> HIDE DEF h
    <2> QED BY <2>3, <2>4
  <1> HIDE DEF S
  <1>3. N \in S
    <2>1. \A k \in 0 .. N : k \in S
      BY <1>1, <1>2, Induct
    <2> QED BY <2>1
  <1> QED BY <1>3 DEF S, Follows

-----------------------------------------------------------------------------
(* Numbers of digits                                                       *)

\* The numbers that the beginnings of digits stand for.
Values(base, digits) ==
  CHOOSE v : v = [n \in 0 .. Len(digits) |-> IF n = 0 THEN 0 ELSE v[n - 1] * base + digits[n]]

LEMMA ValuesSteps ==
  ASSUME NEW base \in Nat, NEW s \in Seq(Nat)
  PROVE  /\ Values(base, s) \in [0 .. Len(s) -> Nat]
         /\ Values(base, s)[0] = 0
         /\ \A n \in 1 .. Len(s) : Values(base, s)[n] = Values(base, s)[n - 1] * base + s[n]
         /\ Value(base, s) = Values(base, s)[Len(s)]
  <1> DEFINE N == Len(s)
             F == [n \in 1 .. N |-> [x \in Nat |-> x * base + s[n]]]
             Right(v) == v = [n \in 0 .. N |-> IF n = 0 THEN 0 ELSE v[n - 1] * base + s[n]]
  <1>1. N \in Nat /\ \A n \in 1 .. N : s[n] \in Nat
    OBVIOUS
  <1>2. F \in [1 .. N -> [Nat -> Nat]]
    <2>1. \A x \in Nat : x * base \in Nat
      OBVIOUS
    <2> QED BY <1>1, <2>1
  <1> HIDE DEF N
  <1>3. PICK g \in [0 .. N -> Nat] : g[0] = 0 /\ \A n \in 1 .. N : g[n] = F[n][g[n - 1]]
    <2> HIDE DEF F
    <2> DEFINE a == 0
    <2>1. F \in Steps(N, Nat) /\ a \in Nat
      BY <1>2 DEF Steps
    <2> HIDE DEF a
    <2>2. \E g : Follows(g, N, Nat, a, F)
      BY <1>1, <2>1, Recursion
    <2> QED BY <2>2 DEF Follows, a
  <1>4. ASSUME NEW n \in 1 .. N PROVE n - 1 \in 0 .. N /\ n \in 0 .. N /\ n # 0
    BY <1>1
  <1>5. ASSUME NEW n \in 0 .. N PROVE g[n] = IF n = 0 THEN 0 ELSE g[n - 1] * base + s[n]
    <2> SUFFICES ASSUME n # 0 PROVE g[n] = g[n - 1] * base + s[n]
      BY <1>3
    <2>1. n \in 1 .. N
      BY <1>1
    <2>2. g[n] = F[n][g[n - 1]] /\ g[n - 1] \in Nat
      BY <1>3, <1>4, <2>1
    <2> QED BY <2>1, <2>2
  <1>6. Right(g)
    <2> DEFINE h == [n \in 0 .. N |-> IF n = 0 THEN 0 ELSE g[n - 1] * base + s[n]]
    <2>1. \A n \in 0 .. N : g[n] = h[n]
      BY <1>5
    <2>2. DOMAIN g = DOMAIN h
      BY <1>3
    <2> HIDE DEF h
    <2>3. g = h
      BY <1>3, <2>1, <2>2 DEF h
    <2> QED BY <2>3 DEF h
  <1>7. Right(Values(base, s))
    <2> HIDE DEF Right
    <2>1. Values(base, s) = CHOOSE v : Right(v)
      BY DEF Values, Right, N
    <2> QED BY <1>6, <2>1
  <1> DEFINE v == Values(base, s)
  <1> HIDE DEF v
  <1>8. \A n \in 0 .. N : v[n] = IF n = 0 THEN 0 ELSE v[n - 1] * base + s[n]
    BY <1>7 DEF v
  <1>9. \A n \in 0 .. N : n \in {k \in 0 .. N : v[k] = g[k]}
    <2> DEFINE S == {k \in 0 .. N : v[k] = g[k]}
    <2>1. 0 \in S
      BY <1>1, <1>5, <1>8
    <2>2. ASSUME NEW n \in 0 .. (N - 1), n \in S PROVE n + 1 \in S
      <3>1. n + 1 \in 0 .. N /\ n + 1 # 0 /\ n + 1 - 1 = n
        BY <1>1
      <3> QED BY <1>5, <1>8, <2>2, <3>1
    <2> HIDE DEF S
    <2>3. \A n \in 0 .. N : n \in S
      BY <1>1, <2>1, <2>2, Induct
    <2> QED BY <2>3 DEF S
  <1>10. v \in [0 .. N -> Nat]
    BY <1>3, <1>7, <1>9 DEF v
  <1>11. Value(base, s) = v[N]
    BY DEF Value, Values, v, N
  <1> QED BY <1>1, <1>4, <1>8, <1>10, <1>11 DEF v, N

\* Quotients and remainders are unique.
LEMMA Division ==
  ASSUME NEW d \in Nat \ {0}, NEW q \in Nat, NEW r \in 0 .. (d - 1)
  PROVE  (q * d + r) \div d = q /\ (q * d + r) % d = r
  OBVIOUS

\* What a quotient and a remainder are.
LEMMA Divided ==
  ASSUME NEW d \in Nat \ {0}, NEW a \in Nat
  PROVE  a = (a \div d) * d + (a % d) /\ a \div d \in Nat /\ a % d \in 0 .. (d - 1)
  OBVIOUS

\* A quotient by p is twice the one by 2 * p, and the bit that is left over.
LEMMA Halved ==
  ASSUME NEW w \in Nat, NEW p \in Nat \ {0}
  PROVE  (w \div (p * 2)) * 2 + ((w \div p) % 2) = w \div p
  <1> DEFINE q == w \div p
             r == w % p
             h == q \div 2
             b == q % 2
  <1>1. w = q * p + r /\ q \in Nat /\ r \in 0 .. (p - 1)
    BY Divided
  <1> HIDE DEF q, r
  <1>2. q = h * 2 + b /\ h \in Nat /\ b \in {0, 1}
    BY <1>1
  <1> HIDE DEF h, b
  <1>3. w = h * (p * 2) + (b * p + r)
    BY <1>1, <1>2
  <1>4. b * p + r \in 0 .. (p * 2 - 1) /\ p * 2 \in Nat \ {0}
    BY <1>1, <1>2
  <1>5. w \div (p * 2) = h
    BY <1>2, <1>3, <1>4, Division
  <1> QED BY <1>2, <1>5 DEF q, h, b

-----------------------------------------------------------------------------
(* The decimal of an address                                               *)

Digit == 0 .. 9
Bit == {0, 1}

\* The carries are bits, and each comes from the digit behind it.
LEMMA CarriesSteps ==
  ASSUME NEW s \in Seq(Digit), NEW bit \in Bit
  PROVE  /\ Carries(s, bit) \in [1 .. (Len(s) + 1) -> Bit]
         /\ Carries(s, bit)[Len(s) + 1] = bit
         /\ \A i \in 1 .. Len(s) :
              Carries(s, bit)[i] = IF 2 * s[i] + Carries(s, bit)[i + 1] > 9 THEN 1 ELSE 0
  <1> DEFINE N == Len(s)
             F == [j \in 1 .. N |-> [x \in Bit |-> IF 2 * s[N + 1 - j] + x > 9 THEN 1 ELSE 0]]
             Right(c) == c = [i \in 1 .. (N + 1) |->
                                IF i = N + 1 THEN bit ELSE IF 2 * s[i] + c[i + 1] > 9 THEN 1 ELSE 0]
             carry == Carries(s, bit)
  <1>1. N \in Nat
    OBVIOUS
  <1>2. F \in Steps(N, Bit)
    BY DEF Steps, Bit
  <1> HIDE DEF N, F
  <1>3. PICK h : Follows(h, N, Bit, bit, F)
    BY <1>1, <1>2, Recursion
  <1> DEFINE c == [i \in 1 .. (N + 1) |-> h[N + 1 - i]]
  <1>4. /\ h \in [0 .. N -> Bit] /\ h[0] = bit
        /\ \A n \in 1 .. N : h[n] = F[n][h[n - 1]]
    BY <1>3 DEF Follows
  <1>5. ASSUME NEW i \in 1 .. (N + 1), i # N + 1
        PROVE  c[i] = IF 2 * s[i] + c[i + 1] > 9 THEN 1 ELSE 0
    <2> DEFINE j == N + 1 - i
    <2>1. j \in 1 .. N /\ j - 1 \in 0 .. N /\ j - 1 = N + 1 - (i + 1) /\ i + 1 \in 1 .. (N + 1)
          /\ N + 1 - j = i
      BY <1>1, <1>5
    <2>2. c[i] = h[j] /\ c[i + 1] = h[j - 1] /\ h[j - 1] \in Bit
      BY <1>4, <2>1
    <2> HIDE DEF j, c
    <2>3. h[j] = F[j][h[j - 1]]
      BY <1>4, <2>1
    <2>4. F[j][h[j - 1]] = IF 2 * s[N + 1 - j] + h[j - 1] > 9 THEN 1 ELSE 0
      BY <2>1, <2>2 DEF F
    <2> QED BY <2>1, <2>2, <2>3, <2>4
  <1>6. c[N + 1] = bit
    BY <1>1, <1>4
  <1>7. Right(c)
    <2> DEFINE d == [i \in 1 .. (N + 1) |->
                       IF i = N + 1 THEN bit ELSE IF 2 * s[i] + c[i + 1] > 9 THEN 1 ELSE 0]
    <2>1. \A i \in 1 .. (N + 1) : c[i] = d[i]
      <3> HIDE DEF c
      <3> QED BY <1>5, <1>6
    <2>2. c = d
      <3> HIDE DEF d
      <3>1. c = [i \in 1 .. (N + 1) |-> c[i]] /\ d = [i \in 1 .. (N + 1) |-> d[i]]
        BY DEF d
      <3> HIDE DEF c
      <3> QED BY <2>1, <3>1
    <2> QED BY <2>2
  <1>8. Right(carry)
    <2> HIDE DEF Right
    <2>1. carry = CHOOSE x : Right(x)
      BY DEF Carries, Right, N
    <2> QED BY <1>7, <2>1
  <1> HIDE DEF carry, c
  <1>9. carry \in [1 .. (N + 1) -> Bit] /\ carry[N + 1] = bit
    <2>1. N + 1 \in 1 .. (N + 1) /\ 0 \in Bit /\ 1 \in Bit
      BY <1>1 DEF Bit
    <2>2. carry[N + 1] = bit
      BY <1>8, <2>1
    <2>3. \A i \in 1 .. (N + 1) : carry[i] \in Bit
      BY <1>8, <2>1
    <2> QED BY <1>8, <2>2, <2>3
  <1>10. ASSUME NEW i \in 1 .. N
         PROVE  carry[i] = IF 2 * s[i] + carry[i + 1] > 9 THEN 1 ELSE 0
    <2>1. i \in 1 .. (N + 1) /\ i # N + 1
      BY <1>1
    <2> QED BY <1>8, <2>1
  <1> QED BY <1>9, <1>10 DEF carry, N

\* Digits without leading zeros.
Plain(s) == Len(s) >= 1 /\ (s[1] = 0 => Len(s) = 1)

\* A doubled digit with a carry is one digit and one carry.
LEMMA DigitSums ==
  ASSUME NEW d \in Digit, NEW c \in Bit
  PROVE  /\ (2 * d + c) % 10 \in Digit
         /\ 2 * d + c > 9 => 2 * d + c = 10 + ((2 * d + c) % 10)
         /\ ~ (2 * d + c > 9) => (2 * d + c) % 10 = 2 * d + c
  BY DEF Digit, Bit

\* Appending a digit and doubling, or doubling and appending the sum, is the same.
LEMMA CarryStep ==
  ASSUME NEW v \in Nat, NEW d \in Digit, NEW r \in Digit, NEW c \in Bit, NEW e \in Bit,
         2 * d + e = 10 * c + r
  PROVE  (2 * v + c) * 10 + r = 2 * (v * 10 + d) + e
  BY DEF Digit, Bit

(***************************************************************************)
(* Doubling digits and carrying a bit in doubles the number and adds the   *)
(* bit, and makes no leading zero.                                         *)
(***************************************************************************)
LEMMA DoubledValue ==
  ASSUME NEW s \in Seq(Digit), NEW bit \in Bit, Plain(s)
  PROVE  /\ Doubled(s, bit) \in Seq(Digit)
         /\ Plain(Doubled(s, bit))
         /\ Value(10, Doubled(s, bit)) = 2 * Value(10, s) + bit
  <1> DEFINE N == Len(s)
             carry == Carries(s, bit)
             rest == [i \in 1 .. N |-> (2 * s[i] + carry[i + 1]) % 10]
             d == Doubled(s, bit)
             v == Values(10, s)
             w == Values(10, d)
  <1>1. N \in Nat /\ N >= 1 /\ s \in Seq(Nat) /\ \A i \in 1 .. N : s[i] \in Digit /\ s[i] \in Nat
    BY DEF Plain, Digit
  <1>2. /\ carry \in [1 .. (N + 1) -> Bit] /\ carry[N + 1] = bit
        /\ \A i \in 1 .. N : carry[i] = IF 2 * s[i] + carry[i + 1] > 9 THEN 1 ELSE 0
    BY CarriesSteps
  <1>3. d = IF carry[1] = 1 THEN <<1>> \o rest ELSE rest
    BY DEF Doubled
  <1>4. /\ v \in [0 .. N -> Nat] /\ v[0] = 0
        /\ \A n \in 1 .. N : v[n] = v[n - 1] * 10 + s[n]
        /\ Value(10, s) = v[N]
    BY <1>1, ValuesSteps
  <1> HIDE DEF N, carry, d, v, w
  <1>5. ASSUME NEW i \in 1 .. N
        PROVE  /\ i + 1 \in 1 .. (N + 1) /\ i \in 1 .. (N + 1) /\ i - 1 \in 0 .. N /\ i \in 0 .. N
               /\ carry[i] \in Bit /\ carry[i + 1] \in Bit
               /\ rest[i] \in Digit /\ 2 * s[i] + carry[i + 1] = 10 * carry[i] + rest[i]
    <2>1. i + 1 \in 1 .. (N + 1) /\ i \in 1 .. (N + 1) /\ i - 1 \in 0 .. N /\ i \in 0 .. N
      BY <1>1
    <2>2. carry[i] \in Bit /\ carry[i + 1] \in Bit
      BY <1>2, <2>1
    <2>3. /\ (2 * s[i] + carry[i + 1]) % 10 \in Digit
          /\ 2 * s[i] + carry[i + 1] > 9 =>
               2 * s[i] + carry[i + 1] = 10 + ((2 * s[i] + carry[i + 1]) % 10)
          /\ ~ (2 * s[i] + carry[i + 1] > 9) =>
               (2 * s[i] + carry[i + 1]) % 10 = 2 * s[i] + carry[i + 1]
      BY <1>1, <2>2, DigitSums
    <2>4. rest[i] = (2 * s[i] + carry[i + 1]) % 10
      OBVIOUS
    <2> HIDE DEF rest
    <2>5. carry[i] = IF 2 * s[i] + carry[i + 1] > 9 THEN 1 ELSE 0
      BY <1>2
    <2>6. s[i] \in Nat
      BY <1>1
    <2> QED BY <2>1, <2>2, <2>3, <2>4, <2>5, <2>6 DEF Bit, Digit
  <1>6. rest \in Seq(Digit) /\ Len(rest) = N
    <2>1. \A i \in 1 .. N : rest[i] \in Digit
      BY <1>5
    <2>2. DOMAIN rest = 1 .. N
      OBVIOUS
    <2>3. rest = [i \in 1 .. N |-> rest[i]]
      OBVIOUS
    <2> HIDE DEF rest
    <2>4. rest \in [1 .. N -> Digit]
      BY <2>1, <2>3
    <2> QED BY <1>1, <2>2, <2>4
  <1> HIDE DEF rest
  <1>7. CASE carry[1] = 1
    <2>1. d = <<1>> \o rest
      BY <1>3, <1>7
    <2>2. <<1>> \in Seq(Digit) /\ 1 \in Digit
      BY DEF Digit
    <2>3. d \in Seq(Digit) /\ Len(d) = N + 1 /\ d[1] = 1 /\ \A i \in 1 .. N : d[i + 1] = rest[i]
      BY <1>1, <1>6, <2>1, <2>2
    <2>4. d \in Seq(Nat)
      BY <2>3 DEF Digit
    <2>5. /\ w \in [0 .. (N + 1) -> Nat] /\ w[0] = 0
          /\ \A n \in 1 .. (N + 1) : w[n] = w[n - 1] * 10 + d[n]
          /\ Value(10, d) = w[N + 1]
      <3>1. /\ w \in [0 .. Len(d) -> Nat] /\ w[0] = 0
            /\ \A n \in 1 .. Len(d) : w[n] = w[n - 1] * 10 + d[n]
            /\ Value(10, d) = w[Len(d)]
        BY <2>4, ValuesSteps DEF w
      <3> QED BY <2>3, <3>1
    <2> DEFINE S == {n \in 0 .. N : w[n + 1] = 2 * v[n] + carry[n + 1]}
    <2>6. 0 \in S
      <3>1. w[1] = 1
        <4>1. 1 \in 1 .. (N + 1) /\ 1 - 1 = 0
          BY <1>1
        <4> QED BY <2>3, <2>5, <4>1
      <3>2. w[0 + 1] = 2 * v[0] + carry[0 + 1] /\ 0 \in 0 .. N
        BY <1>1, <1>4, <1>7, <3>1
      <3> QED BY <3>2
    <2>7. ASSUME NEW n \in 0 .. (N - 1), n \in S PROVE n + 1 \in S
      <3> DEFINE i == n + 1
      <3>1. /\ i \in 1 .. N /\ i - 1 = n /\ i + 1 \in 1 .. (N + 1) /\ i + 1 - 1 = i
            /\ i \in 0 .. N
        BY <1>1
      <3>2. w[i] = 2 * v[i - 1] + carry[i]
        BY <2>7
      <3> HIDE DEF i, S
      <3>3. v[i] = v[i - 1] * 10 + s[i] /\ v[i - 1] \in Nat
        BY <1>4, <1>5, <3>1
      <3>4. w[i + 1] = w[i] * 10 + rest[i]
        BY <2>3, <2>5, <3>1
      <3>5. /\ s[i] \in Digit /\ rest[i] \in Digit /\ carry[i] \in Bit /\ carry[i + 1] \in Bit
            /\ 2 * s[i] + carry[i + 1] = 10 * carry[i] + rest[i]
        BY <1>1, <1>5, <3>1
      <3>6. (2 * v[i - 1] + carry[i]) * 10 + rest[i] = 2 * (v[i - 1] * 10 + s[i]) + carry[i + 1]
        BY <3>3, <3>5, CarryStep, SMTT(30)
      <3>7. w[i + 1] = 2 * v[i] + carry[i + 1]
        BY <3>2, <3>3, <3>4, <3>6
      <3> QED BY <3>1, <3>7 DEF i, S
    <2> HIDE DEF S
    <2>8. N \in S
      <3>1. \A n \in 0 .. N : n \in S
        BY <1>1, <2>6, <2>7, Induct
      <3> QED BY <1>1, <3>1
    <2>9. w[N + 1] = 2 * v[N] + bit
      BY <1>2, <2>8 DEF S
    <2>10. Plain(d)
      BY <1>1, <2>3 DEF Plain
    <2> QED BY <1>4, <2>3, <2>5, <2>9, <2>10 DEF d
  <1>8. CASE carry[1] # 1
    <2>1. d = rest /\ carry[1] = 0
      <3>1. 1 \in 1 .. (N + 1)
        BY <1>1
      <3> QED BY <1>2, <1>3, <1>8, <3>1 DEF Bit
    <2>2. d \in Seq(Digit) /\ Len(d) = N /\ d \in Seq(Nat)
      BY <1>6, <2>1 DEF Digit
    <2>3. /\ w \in [0 .. N -> Nat] /\ w[0] = 0
          /\ \A n \in 1 .. N : w[n] = w[n - 1] * 10 + d[n]
          /\ Value(10, d) = w[N]
      BY <2>2, ValuesSteps DEF w
    <2> DEFINE S == {n \in 0 .. N : w[n] = 2 * v[n] + carry[n + 1]}
    <2>4. 0 \in S
      <3>1. w[0] = 2 * v[0] + carry[0 + 1] /\ 0 \in 0 .. N
        <4>1. 0 + 1 = 1 /\ 2 * 0 + 0 = 0 /\ 0 \in 0 .. N
          BY <1>1
        <4>2. w[0] = 0 /\ v[0] = 0 /\ carry[1] = 0
          BY <1>4, <2>1, <2>3
        <4> QED BY <4>1, <4>2
      <3> QED BY <3>1
    <2>5. ASSUME NEW n \in 0 .. (N - 1), n \in S PROVE n + 1 \in S
      <3> DEFINE i == n + 1
      <3>1. i \in 1 .. N /\ i - 1 = n /\ i \in 0 .. N
        BY <1>1
      <3>2. w[i - 1] = 2 * v[i - 1] + carry[i]
        BY <2>5, <3>1
      <3> HIDE DEF i, S
      <3>3. v[i] = v[i - 1] * 10 + s[i] /\ v[i - 1] \in Nat
        BY <1>4, <1>5, <3>1
      <3>4. w[i] = w[i - 1] * 10 + rest[i]
        BY <2>1, <2>3, <3>1
      <3>5. /\ s[i] \in Digit /\ rest[i] \in Digit /\ carry[i] \in Bit /\ carry[i + 1] \in Bit
            /\ 2 * s[i] + carry[i + 1] = 10 * carry[i] + rest[i]
        BY <1>1, <1>5, <3>1
      <3>6. (2 * v[i - 1] + carry[i]) * 10 + rest[i] = 2 * (v[i - 1] * 10 + s[i]) + carry[i + 1]
        BY <3>3, <3>5, CarryStep, SMTT(30)
      <3>7. w[i] = 2 * v[i] + carry[i + 1]
        BY <3>2, <3>3, <3>4, <3>6
      <3> QED BY <3>1, <3>7 DEF i, S
    <2> HIDE DEF S
    <2>6. N \in S
      <3>1. \A n \in 0 .. N : n \in S
        BY <1>1, <2>4, <2>5, Induct
      <3> QED BY <1>1, <3>1
    <2>7. w[N] = 2 * v[N] + bit
      BY <1>2, <2>6 DEF S
    <2>8. Plain(d)
      <3>1. 1 \in 1 .. N /\ 2 * s[1] + carry[1 + 1] = 10 * carry[1] + rest[1]
            /\ s[1] \in Digit /\ carry[1 + 1] \in Bit /\ rest[1] \in Digit
        BY <1>1, <1>5
      <3>2. d[1] = 0 => s[1] = 0
        BY <2>1, <3>1 DEF Bit, Digit
      <3> QED BY <1>1, <2>2, <3>2 DEF Plain, N
    <2> QED BY <1>4, <2>2, <2>3, <2>7, <2>8 DEF d
  <1> QED BY <1>7, <1>8

\* A word has bits.
LEMMA WordBitsNat == WordBits \in Nat \ {0} /\ WordBytes \in {2, 4} /\ WordMod = 2 ^ WordBits
  <1>1. ByteBits \in Nat \ {0} /\ WordBytes \in {2, 4}
    BY WordAssumption
  <1>2. WordBits = ByteBits * 2 \/ WordBits = ByteBits * 4
    BY <1>1 DEF WordBits
  <1> QED BY <1>1, <1>2 DEF WordMod

\* The powers of two to that of a word are numbers.
LEMMA PowersOfTwo ==
  /\ 2 ^ 0 = 1
  /\ \A n \in 0 .. WordBits : 2 ^ n \in Nat \ {0}
  /\ \A n \in 0 .. (WordBits - 1) : 2 ^ (n + 1) = 2 ^ n * 2
  <1> DEFINE S == {n \in 0 .. WordBits : 2 ^ n \in Nat \ {0}}
  <1>1. WordBits \in Nat
    BY WordBitsNat
  <1>2. 2 ^ 0 = 1 /\ \A n \in 0 .. (WordBits - 1) : 2 ^ (n + 1) = 2 ^ n * 2
    BY ExponentAssumption
  <1>3. 0 \in S
    BY <1>1, <1>2
  <1>4. ASSUME NEW n \in 0 .. (WordBits - 1), n \in S PROVE n + 1 \in S
    <2>1. n + 1 \in 0 .. WordBits
      BY <1>1
    <2>2. 2 ^ (n + 1) = 2 ^ n * 2 /\ 2 ^ n \in Nat \ {0}
      BY <1>2, <1>4
    <2>3. 2 ^ (n + 1) \in Nat \ {0}
      BY <2>2
    <2> QED BY <2>1, <2>3
  <1> HIDE DEF S
  <1>5. \A n \in 0 .. WordBits : n \in S
    BY <1>1, <1>3, <1>4, Induct
  <1> QED BY <1>2, <1>5 DEF S

\* Bit j + 1 of word 3 - s, from the highest.
LEMMA BitsOf ==
  ASSUME NEW ip \in Number
  PROVE  /\ Bits(ip) \in Seq(Bit) /\ Len(Bits(ip)) = 4 * WordBits
         /\ \A s \in 0 .. 3, j \in 0 .. (WordBits - 1) :
              /\ s * WordBits + j + 1 \in 1 .. (4 * WordBits)
              /\ Bits(ip)[s * WordBits + j + 1] = (ip[3 - s] \div 2 ^ (WordBits - 1 - j)) % 2
  <1> DEFINE W == WordBits
             bits == Bits(ip)
  <1>1. W \in Nat \ {0} /\ \A n \in 0 .. W : 2 ^ n \in Nat \ {0}
    BY WordBitsNat, PowersOfTwo
  <1>2. Word \subseteq Nat
    BY PowerAssumption DEF Word
  <1> HIDE DEF W
  <1>3. bits = [i \in 1 .. (4 * W) |->
                  (ip[3 - ((i - 1) \div W)] \div 2 ^ (W - 1 - ((i - 1) % W))) % 2]
    BY DEF Bits, W
  <1> HIDE DEF bits
  <1>4. ASSUME NEW s \in 0 .. 3, NEW j \in 0 .. (W - 1)
        PROVE  /\ s * W + j + 1 \in 1 .. (4 * W)
               /\ bits[s * W + j + 1] = (ip[3 - s] \div 2 ^ (W - 1 - j)) % 2
    <2> DEFINE i == s * W + j + 1
    <2>1. i \in 1 .. (4 * W) /\ i - 1 = s * W + j
      BY <1>1
    <2>2. (i - 1) \div W = s /\ (i - 1) % W = j
      BY <1>1, <2>1, Division
    <2> HIDE DEF i
    <2>3. bits[i] = (ip[3 - s] \div 2 ^ (W - 1 - j)) % 2
      BY <1>3, <2>1, <2>2
    <2> QED BY <2>1, <2>3 DEF i
  <1>5. ASSUME NEW i \in 1 .. (4 * W) PROVE bits[i] \in Bit
    <2> DEFINE s == (i - 1) \div W
               j == (i - 1) % W
               x == ip[3 - s]
               p == 2 ^ (W - 1 - j)
    <2>1. i - 1 = s * W + j /\ s \in Nat /\ j \in 0 .. (W - 1)
      BY <1>1, Divided
    <2> HIDE DEF s, j
    <2>2. s \in 0 .. 3
      <3>1. s * W < 4 * W
        BY <1>1, <2>1
      <3>2. ~ (s >= 4)
        BY <1>1, <2>1, <3>1
      <3> QED BY <2>1, <3>2
    <2>3. x \in Nat /\ p \in Nat \ {0}
      <3>1. 3 - s \in 0 .. 3 /\ W - 1 - j \in 0 .. W
        BY <1>1, <2>1, <2>2
      <3> QED BY <1>1, <1>2, <3>1 DEF Number
    <2>4. bits[i] = (x \div p) % 2
      BY <1>3 DEF s, j
    <2> HIDE DEF x, p
    <2>5. x \div p \in Nat
      BY <2>3, Divided
    <2> QED BY <2>4, <2>5 DEF Bit
  <1>6. bits \in Seq(Bit) /\ Len(bits) = 4 * W
    <2>1. bits \in [1 .. (4 * W) -> Bit]
      BY <1>3, <1>5
    <2>2. 4 * W \in Nat
      BY <1>1
    <2> QED BY <2>1, <2>2
  <1> QED BY <1>4, <1>6 DEF bits, W

\* The number that the four words of an address are.
Whole(ip) == ((ip[3] * WordMod + ip[2]) * WordMod + ip[1]) * WordMod + ip[0]

\* A bit that is appended to a number above another one.
LEMMA BitStep ==
  ASSUME NEW x \in Nat, NEW p \in Nat, NEW q \in Nat, NEW b \in Nat, NEW r \in Nat, q * 2 + b = r
  PROVE  (x * p + q) * 2 + b = x * (p * 2) + r
  OBVIOUS

\* The bits of word 3 - s multiply what was before them and add the word.
LEMMA SegmentValue ==
  ASSUME NEW ip \in Number, NEW s \in 0 .. 3
  PROVE  Values(2, Bits(ip))[(s + 1) * WordBits] =
           Values(2, Bits(ip))[s * WordBits] * WordMod + ip[3 - s]
  <1> DEFINE W == WordBits
             bits == Bits(ip)
             v == Values(2, bits)
             w == ip[3 - s]
             x == v[s * W]
             S == {j \in 0 .. W : v[s * W + j] = x * 2 ^ j + (w \div 2 ^ (W - j))}
  <1>1. /\ W \in Nat \ {0} /\ WordMod = 2 ^ W /\ 2 ^ 0 = 1
        /\ \A n \in 0 .. W : 2 ^ n \in Nat \ {0}
        /\ \A n \in 0 .. (W - 1) : 2 ^ (n + 1) = 2 ^ n * 2
    BY WordBitsNat, PowersOfTwo
  <1>2. /\ bits \in Seq(Bit) /\ Len(bits) = 4 * W
        /\ \A j \in 0 .. (W - 1) :
              /\ s * W + j + 1 \in 1 .. (4 * W)
              /\ bits[s * W + j + 1] = (w \div 2 ^ (W - 1 - j)) % 2
    BY BitsOf
  <1>3. /\ v \in [0 .. (4 * W) -> Nat]
        /\ v[0] = 0
        /\ \A n \in 1 .. (4 * W) : v[n] = v[n - 1] * 2 + bits[n]
    <2>1. bits \in Seq(Nat)
      BY <1>2 DEF Bit
    <2>2. /\ v \in [0 .. Len(bits) -> Nat]
          /\ v[0] = 0
          /\ \A n \in 1 .. Len(bits) : v[n] = v[n - 1] * 2 + bits[n]
      BY <2>1, ValuesSteps
    <2> HIDE DEF v, W, bits
    <2> QED BY <1>2, <2>2
  <1>4. w \in 0 .. (WordMod - 1)
    <2>1. 3 - s \in 0 .. 3
      OBVIOUS
    <2> QED BY <2>1 DEF Number, Word
  <1> HIDE DEF W, bits, v, w
  <1>5. s * W \in 0 .. (4 * W) /\ s * W \in Nat
    BY <1>1
  <1>6. x \in Nat
    BY <1>3, <1>5
  <1>7. 0 \in S
    <2>1. w = 0 * WordMod + w /\ WordMod \in Nat \ {0} /\ 0 \in Nat
      BY <1>1, <1>4
    <2>2. w \div WordMod = 0
      BY <1>4, <2>1, Division
    <2>3. s * W + 0 = s * W /\ W - 0 = W /\ 0 \in 0 .. W
      BY <1>1, <1>5
    <2> HIDE DEF x
    <2>4. x * 2 ^ 0 + (w \div 2 ^ (W - 0)) = x
      BY <1>1, <1>6, <2>2, <2>3
    <2>5. v[s * W + 0] = x
      BY <2>3 DEF x
    <2> QED BY <2>3, <2>4, <2>5
  <1>8. ASSUME NEW j \in 0 .. (W - 1), j \in S PROVE j + 1 \in S
    <2> DEFINE n == s * W + j + 1
               p == 2 ^ (W - 1 - j)
               q == w \div (p * 2)
               b == (w \div p) % 2
    <2>1. /\ n \in 1 .. (4 * W) /\ n - 1 = s * W + j /\ n = s * W + (j + 1)
          /\ W - 1 - j \in 0 .. (W - 1) /\ W - 1 - j + 1 = W - j /\ W - (j + 1) = W - 1 - j
          /\ j \in 0 .. W /\ j + 1 \in 0 .. W /\ W - 1 - j \in 0 .. W
      BY <1>1, <1>2, <1>5
    <2>2. v[n] = v[n - 1] * 2 + b
      <3>1. bits[n] = b
        BY <1>2
      <3> HIDE DEF n, b
      <3> QED BY <1>3, <2>1, <3>1
    <2>3. p \in Nat \ {0} /\ 2 ^ (W - j) = p * 2
      BY <1>1, <2>1
    <2>4. v[n - 1] = x * 2 ^ j + q
      <3>1. v[s * W + j] = x * 2 ^ j + (w \div 2 ^ (W - j))
        BY <1>8
      <3> HIDE DEF n, p, x
      <3> QED BY <2>1, <2>3, <3>1
    <2>5. w \in Nat
      BY <1>1, <1>4
    <2> HIDE DEF n, p, x
    <2>6. q * 2 + b = w \div p /\ q \in Nat /\ b \in Nat /\ w \div p \in Nat
      <3>1. p * 2 \in Nat \ {0}
        BY <2>3
      <3>2. q \in Nat /\ w \div p \in Nat
        BY <2>3, <2>5, <3>1, Divided
      <3>3. b \in Nat
        BY <3>2
      <3> QED BY <2>3, <2>5, <3>2, <3>3, Halved
    <2> HIDE DEF q, b
    <2>7. 2 ^ j \in Nat /\ 2 ^ (j + 1) = 2 ^ j * 2
      BY <1>1, <2>1
    <2>8. (x * 2 ^ j + q) * 2 + b = x * (2 ^ j * 2) + (w \div p)
      BY <1>6, <2>6, <2>7, BitStep
    <2>9. v[n] = x * 2 ^ (j + 1) + (w \div p)
      BY <2>2, <2>4, <2>7, <2>8
    <2>10. v[s * W + (j + 1)] = x * 2 ^ (j + 1) + (w \div 2 ^ (W - (j + 1)))
      BY <2>1, <2>9 DEF p
    <2> QED BY <2>1, <2>10
  <1> HIDE DEF S
  <1>9. W \in S
    <2>1. \A j \in 0 .. W : j \in S
      BY <1>1, <1>7, <1>8, Induct
    <2> QED BY <1>1, <2>1
  <1>10. v[s * W + W] = x * WordMod + (w \div 1)
    <2>1. W - W = 0
      BY <1>1
    <2> QED BY <1>1, <1>9, <2>1 DEF S
  <1>11. w \div 1 = w /\ s * W + W = (s + 1) * W
    BY <1>1, <1>4
  <1> HIDE DEF x
  <1>12. v[(s + 1) * W] = x * WordMod + w
    BY <1>10, <1>11
  <1> QED BY <1>12 DEF x, v, bits, W, w

\* The bits of an address are the number that its words are.
LEMMA WholeBits ==
  ASSUME NEW ip \in Number
  PROVE  Value(2, Bits(ip)) = Whole(ip)
  <1> DEFINE v == Values(2, Bits(ip))
             W == WordBits
  <1>1. Bits(ip) \in Seq(Nat) /\ Len(Bits(ip)) = 4 * W
    BY BitsOf DEF Bit
  <1>2. v[0] = 0 /\ Value(2, Bits(ip)) = v[4 * W]
    BY <1>1, ValuesSteps
  <1>3. \A s \in 0 .. 3 : v[(s + 1) * W] = v[s * W] * WordMod + ip[3 - s]
    BY SegmentValue
  <1>4. W \in Nat /\ WordMod \in Nat
    BY WordBitsNat, PowerAssumption
  <1> HIDE DEF v, W
  <1>5. 0 * W = 0 /\ (0 + 1) * W = 1 * W /\ (1 + 1) * W = 2 * W /\ (2 + 1) * W = 3 * W
        /\ (3 + 1) * W = 4 * W
    BY <1>4
  <1>6. /\ v[(0 + 1) * W] = v[0 * W] * WordMod + ip[3]
        /\ v[(1 + 1) * W] = v[1 * W] * WordMod + ip[2]
        /\ v[(2 + 1) * W] = v[2 * W] * WordMod + ip[1]
        /\ v[(3 + 1) * W] = v[3 * W] * WordMod + ip[0]
    BY <1>3
  <1>7. \A k \in 0 .. 3 : ip[k] \in Nat
    BY <1>4 DEF Number, Word
  <1> QED BY <1>2, <1>4, <1>5, <1>6, <1>7 DEF Whole

\* The digits after each bit.
Digits(bits) ==
  CHOOSE d : d = [n \in 0 .. Len(bits) |-> IF n = 0 THEN <<0>> ELSE Doubled(d[n - 1], bits[n])]

(***************************************************************************)
(* The decimal of an address is exact and has no leading zeros.            *)
(***************************************************************************)
THEOREM DecimalExact ==
  ASSUME NEW ip \in Number
  PROVE  Decimal(ip) \in Seq(Digit) /\ Plain(Decimal(ip)) /\ Value(10, Decimal(ip)) = Whole(ip)
  <1> DEFINE bits == Bits(ip)
             N == Len(bits)
             D == {s \in Seq(Digit) : Plain(s)}
             F == [n \in 1 .. N |-> [s \in D |-> Doubled(s, bits[n])]]
             Right(d) == d = [n \in 0 .. N |-> IF n = 0 THEN <<0>> ELSE Doubled(d[n - 1], bits[n])]
             a == <<0>>
             v == Values(2, bits)
             d == Digits(bits)
  <1>1. N \in Nat /\ bits \in Seq(Bit) /\ bits \in Seq(Nat) /\ \A n \in 1 .. N : bits[n] \in Bit
    BY BitsOf DEF Bit
  <1>2. ASSUME NEW n \in 1 .. N, NEW s \in D
        PROVE  Doubled(s, bits[n]) \in D /\ Value(10, Doubled(s, bits[n])) = 2 * Value(10, s) + bits[n]
    BY <1>1, DoubledValue
  <1>3. F \in Steps(N, D)
    BY <1>2 DEF Steps
  <1>4. a \in D /\ Value(10, a) = 0
    <2>1. a \in Seq(Digit) /\ a \in Seq(Nat) /\ Len(a) = 1 /\ a[1] = 0
      BY DEF Digit
    <2>2. a \in D
      BY <2>1 DEF Plain
    <2>3. /\ Values(10, a)[0] = 0
          /\ \A n \in 1 .. Len(a) : Values(10, a)[n] = Values(10, a)[n - 1] * 10 + a[n]
          /\ Value(10, a) = Values(10, a)[Len(a)]
      BY <2>1, ValuesSteps
    <2>4. 1 \in 1 .. Len(a) /\ 1 - 1 = 0
      BY <2>1
    <2> HIDE DEF a
    <2>5. Values(10, a)[1] = Values(10, a)[0] * 10 + a[1]
      BY <2>3, <2>4
    <2> QED BY <2>1, <2>2, <2>3, <2>5
  <1> HIDE DEF N, D, F, a
  <1>5. PICK g : Follows(g, N, D, a, F)
    BY <1>1, <1>3, <1>4, Recursion
  <1>6. g \in [0 .. N -> D] /\ g[0] = a /\ \A n \in 1 .. N : g[n] = F[n][g[n - 1]]
    BY <1>5 DEF Follows
  <1>7. ASSUME NEW n \in 0 .. N PROVE g[n] = IF n = 0 THEN a ELSE Doubled(g[n - 1], bits[n])
    <2> SUFFICES ASSUME n # 0 PROVE g[n] = Doubled(g[n - 1], bits[n])
      BY <1>6
    <2>1. n \in 1 .. N /\ n - 1 \in 0 .. N
      BY <1>1
    <2>2. g[n] = F[n][g[n - 1]] /\ g[n - 1] \in D
      BY <1>6, <2>1
    <2> QED BY <2>1, <2>2 DEF F
  <1>8. Right(g)
    <2> DEFINE h == [n \in 0 .. N |-> IF n = 0 THEN a ELSE Doubled(g[n - 1], bits[n])]
    <2>1. \A n \in 0 .. N : g[n] = h[n]
      BY <1>7
    <2>2. g = [n \in 0 .. N |-> g[n]] /\ h = [n \in 0 .. N |-> h[n]]
      BY <1>6
    <2> HIDE DEF h
    <2>3. g = h
      BY <2>1, <2>2
    <2> QED BY <2>3 DEF h, a
  <1>9. Right(d)
    <2> HIDE DEF Right
    <2>1. d = CHOOSE x : Right(x)
      BY DEF Digits, Right, N
    <2> QED BY <1>8, <2>1
  <1>10. Decimal(ip) = d[N]
    BY DEF Decimal, Digits, N
  <1> HIDE DEF d, bits, v
  <1>11. \A n \in 0 .. N : d[n] = IF n = 0 THEN a ELSE Doubled(d[n - 1], bits[n])
    BY <1>9 DEF a
  <1>12. /\ v[0] = 0 /\ \A n \in 1 .. N : v[n] = v[n - 1] * 2 + bits[n]
         /\ Value(2, bits) = v[N] /\ v \in [0 .. N -> Nat]
    BY <1>1, ValuesSteps DEF v, N
  <1> DEFINE S == {n \in 0 .. N : d[n] \in D /\ Value(10, d[n]) = v[n]}
  <1>13. 0 \in S
    BY <1>1, <1>4, <1>11, <1>12
  <1>14. ASSUME NEW n \in 0 .. (N - 1), n \in S PROVE n + 1 \in S
    <2> DEFINE i == n + 1
    <2>1. i \in 1 .. N /\ i \in 0 .. N /\ i - 1 = n /\ i - 1 \in 0 .. N /\ i # 0
      BY <1>1
    <2> HIDE DEF i
    <2>2. d[i] = Doubled(d[i - 1], bits[i]) /\ d[i - 1] \in D /\ Value(10, d[i - 1]) = v[i - 1]
      BY <1>11, <1>14, <2>1
    <2>3. d[i] \in D /\ Value(10, d[i]) = 2 * v[i - 1] + bits[i]
      BY <1>2, <2>1, <2>2
    <2>4. v[i] = v[i - 1] * 2 + bits[i] /\ v[i - 1] \in Nat
      BY <1>12, <2>1
    <2>5. bits[i] \in Nat
      BY <1>1, <2>1 DEF Bit
    <2>6. Value(10, d[i]) = v[i]
      BY <2>3, <2>4, <2>5
    <2> QED BY <2>1, <2>3, <2>6 DEF i
  <1> HIDE DEF S
  <1>15. N \in S
    <2>1. \A n \in 0 .. N : n \in S
      BY <1>1, <1>13, <1>14, Induct
    <2> QED BY <1>1, <2>1
  <1>16. d[N] \in D /\ Value(10, d[N]) = v[N]
    BY <1>15 DEF S
  <1>17. Value(2, bits) = Whole(ip)
    BY WholeBits DEF bits
  <1> QED BY <1>10, <1>12, <1>16, <1>17 DEF D

\* The number of an address is below 2^128.
LEMMA WholeBound ==
  ASSUME NEW ip \in Number
  PROVE  Whole(ip) \in Nat /\ Whole(ip) < WordMod * WordMod * WordMod * WordMod
  <1> DEFINE M == WordMod
  <1>1. M \in Nat \ {0} /\ \A k \in 0 .. 3 : ip[k] \in 0 .. (M - 1)
    BY PowerAssumption DEF Number, Word
  <1> HIDE DEF M
  <1>2. ASSUME NEW B \in Nat, NEW x \in 0 .. (B - 1), NEW w \in 0 .. (M - 1)
        PROVE  x * M + w \in 0 .. (B * M - 1) /\ B * M \in Nat
    <2>1. x * M <= (B - 1) * M
      BY <1>1
    <2> QED BY <1>1, <2>1
  <1> DEFINE a == ip[3] * M + ip[2]
             b == a * M + ip[1]
             c == b * M + ip[0]
  <1>3. a \in 0 .. (M * M - 1) /\ M * M \in Nat
    BY <1>1, <1>2
  <1> HIDE DEF a
  <1>4. b \in 0 .. (M * M * M - 1) /\ M * M * M \in Nat
    BY <1>1, <1>2, <1>3
  <1> HIDE DEF b
  <1>5. c \in 0 .. (M * M * M * M - 1) /\ M * M * M * M \in Nat
    BY <1>1, <1>2, <1>4
  <1>6. Whole(ip) = c
    BY DEF Whole, M, a, b
  <1> HIDE DEF c
  <1> QED BY <1>5, <1>6 DEF M

\* Digits without a leading zero are a number of at least that length.
LEMMA LongDigits ==
  ASSUME NEW s \in Seq(Digit), Plain(s), Len(s) >= DecimalSize, DecimalSize >= 2
  PROVE  10 ^ (DecimalSize - 1) \in Nat /\ Value(10, s) >= 10 ^ (DecimalSize - 1)
  <1> DEFINE N == Len(s)
             K == DecimalSize
             v == Values(10, s)
  <1>1. N \in Nat /\ K \in Nat /\ s \in Seq(Nat) /\ (\A n \in 1 .. N : s[n] \in Nat) /\ s[1] # 0
        /\ K >= 2 /\ N >= K
    <2>1. N \in Nat /\ K \in Nat /\ K >= 2 /\ N >= K
      BY AddressAssumption
    <2>2. s \in Seq(Nat) /\ (\A n \in 1 .. N : s[n] \in Nat)
      BY DEF Digit
    <2>3. s[1] # 0
      BY <2>1 DEF Plain
    <2> QED BY <2>1, <2>2, <2>3
  <1>2. /\ v \in [0 .. N -> Nat] /\ v[0] = 0
        /\ \A n \in 1 .. N : v[n] = v[n - 1] * 10 + s[n]
        /\ Value(10, s) = v[N]
    BY <1>1, ValuesSteps
  <1>3. 10 ^ 0 = 1 /\ \A n \in 0 .. (K - 2) : 10 ^ (n + 1) = 10 ^ n * 10
    BY ExponentAssumption
  <1> HIDE DEF N, K, v
  <1> DEFINE S == {n \in 0 .. (K - 1) : 10 ^ n \in Nat /\ v[n + 1] >= 10 ^ n}
  <1>4. 0 \in S
    <2>1. 1 \in 1 .. N /\ 1 - 1 = 0 /\ 0 + 1 = 1 /\ 0 \in 0 .. (K - 1) /\ 1 \in 0 .. N
      BY <1>1
    <2>2. v[1] = v[0] * 10 + s[1] /\ s[1] \in Nat
      BY <1>1, <1>2, <2>1
    <2>3. v[1] >= 1
      <3>1. v[1] = s[1]
        BY <1>2, <2>2
      <3> QED BY <1>1, <2>2, <3>1
    <2> QED BY <1>3, <2>1, <2>3
  <1>5. ASSUME NEW n \in 0 .. (K - 1 - 1), n \in S PROVE n + 1 \in S
    <2> DEFINE i == n + 1
    <2>1. /\ i \in 0 .. (K - 1) /\ n \in 0 .. (K - 2) /\ i + 1 \in 1 .. N /\ i + 1 - 1 = i
          /\ i \in 0 .. N
      BY <1>1
    <2>2. 10 ^ i = 10 ^ n * 10 /\ 10 ^ n \in Nat /\ v[i] >= 10 ^ n
      BY <1>3, <1>5, <2>1
    <2> HIDE DEF i
    <2>3. v[i + 1] = v[i] * 10 + s[i + 1] /\ v[i] \in Nat
      BY <1>2, <2>1
    <2>4. s[i + 1] \in Nat
      BY <1>1, <2>1
    <2>5. 10 ^ i \in Nat /\ v[i + 1] >= 10 ^ i
      BY <2>2, <2>3, <2>4
    <2> QED BY <2>1, <2>5 DEF i
  <1> HIDE DEF S
  <1>6. K - 1 \in S
    <2>1. K - 1 \in Nat
      BY <1>1
    <2>2. \A n \in 0 .. (K - 1) : n \in S
      BY <1>4, <1>5, <2>1, Induct
    <2> QED BY <2>1, <2>2
  <1>7. v[K] >= 10 ^ (K - 1) /\ 10 ^ (K - 1) \in Nat
    <2>1. K - 1 + 1 = K
      BY <1>1
    <2> QED BY <1>6, <2>1 DEF S
  <1> DEFINE T == {n \in 0 .. N : n >= K => v[n] >= v[K]}
  <1>8. 0 \in T
    BY <1>1
  <1>9. ASSUME NEW n \in 0 .. (N - 1), n \in T PROVE n + 1 \in T
    <2> DEFINE i == n + 1
    <2>1. i \in 1 .. N /\ i \in 0 .. N /\ i - 1 = n /\ n \in 0 .. N /\ K \in 0 .. N
      BY <1>1
    <2> HIDE DEF i
    <2>2. v[i] = v[n] * 10 + s[i] /\ v[n] \in Nat /\ v[i] \in Nat /\ v[K] \in Nat
      BY <1>2, <2>1
    <2>3. s[i] \in Nat
      BY <1>1, <2>1
    <2>4. v[i] >= v[n]
      BY <2>2, <2>3
    <2>5. i >= K => i = K \/ n >= K
      BY <1>1, <2>1
    <2>6. n >= K => v[n] >= v[K]
      BY <1>9
    <2>7. i >= K => v[i] >= v[K]
      BY <2>2, <2>4, <2>5, <2>6
    <2> QED BY <2>1, <2>7 DEF i
  <1> HIDE DEF T
  <1>10. N \in T
    <2>1. \A n \in 0 .. N : n \in T
      BY <1>1, <1>8, <1>9, Induct
    <2> QED BY <1>1, <2>1
  <1>11. v[N] >= v[K] /\ v[N] \in Nat /\ v[K] \in Nat
    <2>1. N \in 0 .. N /\ K \in 0 .. N
      BY <1>1
    <2> QED BY <1>1, <1>2, <1>10, <2>1 DEF T
  <1>12. v[N] >= 10 ^ (K - 1)
    BY <1>7, <1>11
  <1> QED BY <1>2, <1>7, <1>12 DEF K

(***************************************************************************)
(* Any address has at most the digits that the buffer has room for before  *)
(* the zero octet.                                                         *)
(***************************************************************************)
LEMMA DecimalFits ==
  ASSUME NEW ip \in Number
  PROVE  Len(Decimal(ip)) + 1 <= DecimalSize
  <1> DEFINE s == Decimal(ip)
             M == WordMod * WordMod * WordMod * WordMod
             T == 10 ^ (DecimalSize - 1)
  <1>1. s \in Seq(Digit) /\ Plain(s) /\ Value(10, s) = Whole(ip)
    BY DecimalExact
  <1>2. Whole(ip) \in Nat /\ Whole(ip) < M
    BY WholeBound
  <1>3. M <= T /\ M \in Nat /\ M > 1
    <2>1. WordMod \in Nat /\ WordMod > 1
      BY PowerAssumption
    <2>2. WordMod * WordMod \in Nat /\ WordMod * WordMod > 1
      BY <2>1
    <2>3. WordMod * WordMod * WordMod \in Nat /\ WordMod * WordMod * WordMod > 1
      BY <2>1, <2>2
    <2>4. M \in Nat /\ M > 1
      BY <2>1, <2>3
    <2> QED BY <2>4, AddressAssumption
  <1>4. DecimalSize \in Nat /\ DecimalSize >= 2
    <2>1. DecimalSize \in Nat \ {0}
      BY AddressAssumption
    <2>2. CASE DecimalSize = 1
      <3>1. DecimalSize - 1 = 0 /\ 10 ^ 0 = 1
        BY <2>2, ExponentAssumption
      <3>2. T = 1
        BY <3>1
      <3> HIDE DEF M, T
      <3> QED BY <1>3, <3>2
    <2> QED BY <2>1, <2>2
  <1>5. Len(s) >= DecimalSize => T \in Nat /\ Value(10, s) >= T
    BY <1>1, <1>4, LongDigits
  <1>6. Len(s) \in Nat
    BY <1>1
  <1> HIDE DEF s, M, T
  <1>7. ~ (Len(s) >= DecimalSize)
    BY <1>1, <1>2, <1>3, <1>5
  <1> QED BY <1>4, <1>6, <1>7 DEF s

-----------------------------------------------------------------------------
(* Octets and words of an address                                          *)

\* The powers of an octet's size to that of a word are numbers.
LEMMA BytePowers ==
  /\ WordBytes \in {2, 4} /\ ByteMod \in Nat \ {0} /\ Octet \subseteq Nat
  /\ ByteMod ^ 0 = 1 /\ ByteMod ^ WordBytes = WordMod
  /\ \A n \in 0 .. WordBytes : ByteMod ^ n \in Nat \ {0}
  /\ \A n \in 0 .. (WordBytes - 1) : ByteMod ^ (n + 1) = ByteMod ^ n * ByteMod
  <1> DEFINE S == {n \in 0 .. WordBytes : ByteMod ^ n \in Nat \ {0}}
  <1>1. WordBytes \in {2, 4} /\ ByteMod \in Nat \ {0} /\ WordBytes \in Nat
    BY WordAssumption, PowerAssumption
  <1>2. /\ ByteMod ^ 0 = 1 /\ ByteMod ^ WordBytes = WordMod
        /\ \A n \in 0 .. (WordBytes - 1) : ByteMod ^ (n + 1) = ByteMod ^ n * ByteMod
    BY ExponentAssumption
  <1>3. 0 \in S
    BY <1>1, <1>2
  <1>4. ASSUME NEW n \in 0 .. (WordBytes - 1), n \in S PROVE n + 1 \in S
    <2>1. n + 1 \in 0 .. WordBytes
      BY <1>1
    <2>2. ByteMod ^ (n + 1) = ByteMod ^ n * ByteMod /\ ByteMod ^ n \in Nat \ {0}
      BY <1>2, <1>4
    <2>3. ByteMod ^ (n + 1) \in Nat \ {0}
      BY <1>1, <2>2
    <2> QED BY <2>1, <2>3
  <1> HIDE DEF S
  <1>5. \A n \in 0 .. WordBytes : n \in S
    BY <1>1, <1>3, <1>4, Induct
  <1>6. Octet \subseteq Nat
    BY <1>1 DEF Octet
  <1> QED BY <1>1, <1>2, <1>5, <1>6 DEF S

\* Octets are numbers.
LEMMA OctetsAreNumbers ==
  ASSUME NEW s \in Seq(Octet)
  PROVE  s \in Seq(Nat) /\ Len(s) \in Nat /\ \A n \in 1 .. Len(s) : s[n] \in Octet
  <1>1. Len(s) \in Nat /\ s \in [1 .. Len(s) -> Octet] /\ Octet \subseteq Nat
    BY PowerAssumption DEF Octet
  <1>2. s \in [1 .. Len(s) -> Nat]
    BY <1>1
  <1> QED BY <1>1, <1>2

\* An octet that is appended to a rest below p.
LEMMA OctetStep ==
  ASSUME NEW x \in Nat, NEW p \in Nat \ {0}, NEW r \in 0 .. (p - 1), NEW o \in Octet
  PROVE  /\ (x * p + r) * ByteMod + o = x * (p * ByteMod) + (r * ByteMod + o)
         /\ r * ByteMod + o \in 0 .. (p * ByteMod - 1)
  <1>1. ByteMod \in Nat \ {0} /\ o \in 0 .. (ByteMod - 1)
    BY BytePowers DEF Octet
  <1>2. r * ByteMod <= (p - 1) * ByteMod
    BY <1>1
  <1>3. (p - 1) * ByteMod = p * ByteMod - ByteMod
    BY <1>1
  <1>4. (x * p + r) * ByteMod = x * (p * ByteMod) + r * ByteMod
    BY <1>1
  <1>5. p * ByteMod \in Nat /\ r * ByteMod \in Nat /\ x * (p * ByteMod) \in Nat
    BY <1>1
  <1> QED BY <1>1, <1>2, <1>3, <1>4, <1>5

(***************************************************************************)
(* Octets behind the first i multiply what was before and add a rest.      *)
(***************************************************************************)
LEMMA Behind ==
  ASSUME NEW s \in Seq(Octet), NEW i \in 0 .. Len(s), NEW k \in 0 .. WordBytes, i + k <= Len(s)
  PROVE  \E r \in 0 .. (ByteMod ^ k - 1) :
           Values(ByteMod, s)[i + k] = Values(ByteMod, s)[i] * ByteMod ^ k + r
  <1> DEFINE v == Values(ByteMod, s)
             B == ByteMod
             x == v[i]
             S == {n \in 0 .. k : \E r \in 0 .. (B ^ n - 1) : v[i + n] = x * B ^ n + r}
  <1>1. /\ WordBytes \in Nat /\ B \in Nat \ {0} /\ B ^ 0 = 1
        /\ \A n \in 0 .. WordBytes : B ^ n \in Nat \ {0}
        /\ \A n \in 0 .. (WordBytes - 1) : B ^ (n + 1) = B ^ n * B
        /\ s \in Seq(Nat) /\ Len(s) \in Nat /\ \A n \in 1 .. Len(s) : s[n] \in Octet
    <2>1. WordBytes \in Nat /\ Octet \subseteq Nat
      BY BytePowers
    <2>2. s \in Seq(Nat) /\ Len(s) \in Nat /\ \A n \in 1 .. Len(s) : s[n] \in Octet
      BY OctetsAreNumbers
    <2> QED BY <2>1, <2>2, BytePowers
  <1>2. /\ v \in [0 .. Len(s) -> Nat]
        /\ \A n \in 1 .. Len(s) : v[n] = v[n - 1] * B + s[n]
    BY <1>1, ValuesSteps
  <1> HIDE DEF v
  <1>3. x \in Nat
    BY <1>2
  <1> HIDE DEF x
  <1>4. 0 \in S
    <2>1. 0 \in 0 .. (B ^ 0 - 1) /\ v[i + 0] = x * B ^ 0 + 0 /\ 0 \in 0 .. k
      <3>1. i + 0 = i /\ x * 1 + 0 = x /\ 0 \in 0 .. (1 - 1)
        BY <1>3
      <3> QED BY <1>1, <3>1 DEF x
    <2> QED BY <2>1
  <1>5. ASSUME NEW n \in 0 .. (k - 1), n \in S PROVE n + 1 \in S
    <2>1. PICK r \in 0 .. (B ^ n - 1) : v[i + n] = x * B ^ n + r
      BY <1>5
    <2> HIDE DEF S
    <2> DEFINE j == i + n + 1
               p == B ^ n
               t == r * B + s[j]
    <2>2. /\ j \in 1 .. Len(s) /\ j - 1 = i + n /\ i + (n + 1) = j /\ n + 1 \in 0 .. k
          /\ n \in 0 .. (WordBytes - 1) /\ n \in 0 .. WordBytes
      BY <1>1
    <2>3. p \in Nat \ {0} /\ B ^ (n + 1) = p * B
      BY <1>1, <2>2
    <2> HIDE DEF j
    <2>4. s[j] \in Octet
      BY <1>1, <2>2
    <2>5. v[j] = (x * p + r) * B + s[j]
      BY <1>2, <2>1, <2>2
    <2> HIDE DEF p
    <2>6. r \in 0 .. (p - 1)
      BY DEF p
    <2>7. (x * p + r) * B + s[j] = x * (p * B) + t /\ t \in 0 .. (p * B - 1)
      <3>1. \A o \in Octet : /\ (x * p + r) * B + o = x * (p * B) + (r * B + o)
                             /\ r * B + o \in 0 .. (p * B - 1)
        <4>1. p \in Nat \ {0}
          BY <2>3
        <4> QED BY <1>3, <2>6, <4>1, OctetStep, Zenon
      <3> QED BY <2>4, <3>1, Zenon
    <2> HIDE DEF t
    <2>8. t \in 0 .. (B ^ (n + 1) - 1) /\ v[i + (n + 1)] = x * B ^ (n + 1) + t
      BY <2>2, <2>3, <2>5, <2>7
    <2> QED BY <2>2, <2>8 DEF S
  <1> HIDE DEF S
  <1>6. k \in S
    <2>1. k \in Nat
      BY <1>1
    <2>2. \A n \in 0 .. k : n \in S
      BY <1>4, <1>5, <2>1, Induct
    <2> QED BY <2>1, <2>2
  <1> QED BY <1>6 DEF S, x, v

(***************************************************************************)
(* The octets of a word are a word, whose octets they are.                 *)
(***************************************************************************)
LEMMA WordOctets ==
  ASSUME NEW b \in Seq(Octet), Len(b) = WordBytes
  PROVE  /\ BigEndian(b) \in Word
         /\ \A i \in 1 .. WordBytes : (BigEndian(b) \div ByteMod ^ (WordBytes - i)) % ByteMod = b[i]
  <1> DEFINE v == Values(ByteMod, b)
             B == ByteMod
             N == WordBytes
             w == BigEndian(b)
  <1>1. /\ N \in Nat /\ B \in Nat \ {0} /\ B ^ N = WordMod
        /\ \A n \in 0 .. N : B ^ n \in Nat \ {0}
        /\ b \in Seq(Nat) /\ \A n \in 1 .. N : b[n] \in 0 .. (B - 1)
    BY BytePowers DEF Octet
  <1>2. v \in [0 .. N -> Nat] /\ v[0] = 0 /\ w = v[N]
        /\ \A n \in 1 .. N : v[n] = v[n - 1] * B + b[n]
    BY <1>1, ValuesSteps DEF BigEndian
  <1> HIDE DEF v, w
  <1>3. ASSUME NEW i \in 0 .. N
        PROVE  \E r \in 0 .. (B ^ (N - i) - 1) : w = v[i] * B ^ (N - i) + r
    <2> DEFINE k == N - i
    <2>1. k \in 0 .. WordBytes /\ i + k = N /\ i \in 0 .. Len(b) /\ i + k <= Len(b)
      BY <1>1
    <2> HIDE DEF k
    <2>2. \E r \in 0 .. (B ^ k - 1) : v[i + k] = v[i] * B ^ k + r
      BY <2>1, Behind DEF v
    <2> QED BY <1>2, <2>1, <2>2 DEF k
  <1>4. w \in Word
    <2>1. 0 \in 0 .. N /\ N - 0 = N
      BY <1>1
    <2>2. PICK r \in 0 .. (B ^ N - 1) : w = v[0] * B ^ N + r
      BY <1>3, <2>1
    <2>3. w = r
      BY <1>1, <1>2, <2>2
    <2> QED BY <1>1, <2>3 DEF Word
  <1>5. ASSUME NEW i \in 1 .. N PROVE (w \div B ^ (N - i)) % B = b[i]
    <2> DEFINE p == B ^ (N - i)
    <2>1. N - i \in 0 .. N /\ i \in 0 .. N /\ i - 1 \in 0 .. N
      BY <1>1
    <2>2. p \in Nat \ {0}
      BY <1>1, <2>1
    <2>3. PICK r \in 0 .. (p - 1) : w = v[i] * p + r
      BY <1>3, <2>1
    <2> HIDE DEF p
    <2>4. w \div p = v[i]
      BY <1>2, <2>1, <2>2, <2>3, Division
    <2>5. v[i] = v[i - 1] * B + b[i] /\ v[i - 1] \in Nat /\ b[i] \in 0 .. (B - 1)
      BY <1>1, <1>2, <2>1
    <2>6. v[i] % B = b[i]
      <3>1. (v[i - 1] * B + b[i]) % B = b[i]
        BY <1>1, <2>5, Division
      <3> QED BY <2>5, <3>1
    <2> QED BY <2>4, <2>6 DEF p
  <1> QED BY <1>4, <1>5 DEF w

\* What a part of the octets adds to the number that is before it.
LEMMA PartValue ==
  ASSUME NEW b \in Seq(Octet), NEW m \in Nat, m + WordBytes <= Len(b)
  PROVE  /\ SubSeq(b, m + 1, m + WordBytes) \in Seq(Octet)
         /\ Len(SubSeq(b, m + 1, m + WordBytes)) = WordBytes
         /\ Values(ByteMod, b)[m + WordBytes] =
              Values(ByteMod, b)[m] * WordMod + BigEndian(SubSeq(b, m + 1, m + WordBytes))
  <1> DEFINE B == ByteMod
             N == WordBytes
             s == SubSeq(b, m + 1, m + N)
             v == Values(B, b)
             u == Values(B, s)
             x == v[m]
             S == {n \in 0 .. N : v[m + n] = x * B ^ n + u[n]}
  <1>1. /\ N \in Nat /\ N > 0 /\ B \in Nat \ {0} /\ B ^ 0 = 1 /\ B ^ N = WordMod
        /\ (\A n \in 0 .. N : B ^ n \in Nat \ {0}) /\ Octet \subseteq Nat
        /\ \A n \in 0 .. (N - 1) : B ^ (n + 1) = B ^ n * B
    BY BytePowers
  <1>2. /\ b \in Seq(Nat) /\ Len(b) \in Nat /\ \A n \in 1 .. Len(b) : b[n] \in Octet
    BY OctetsAreNumbers
  <1>3. s \in Seq(Octet) /\ Len(s) = N /\ \A n \in 1 .. N : s[n] = b[m + n]
    <2>1. m + 1 \in 1 .. Len(b) /\ m + N \in 1 .. Len(b)
      BY <1>1, <1>2
    <2>2. s = [n \in 1 .. N |-> b[m + n]]
      BY <1>1, <1>2, <2>1
    <2>3. \A n \in 1 .. N : b[m + n] \in Octet
      BY <1>1, <1>2
    <2>4. s \in [1 .. N -> Octet]
      BY <2>2, <2>3
    <2> HIDE DEF s
    <2> QED BY <1>1, <2>2, <2>4
  <1>4. v \in [0 .. Len(b) -> Nat] /\ \A n \in 1 .. Len(b) : v[n] = v[n - 1] * B + b[n]
    BY <1>1, <1>2, ValuesSteps
  <1>5. /\ u \in [0 .. N -> Nat] /\ u[0] = 0 /\ BigEndian(s) = u[N]
        /\ \A n \in 1 .. N : u[n] = u[n - 1] * B + s[n]
    <2>1. s \in Seq(Nat)
      BY <1>3, OctetsAreNumbers
    <2>2. /\ u \in [0 .. Len(s) -> Nat] /\ u[0] = 0 /\ Value(B, s) = u[Len(s)]
          /\ \A n \in 1 .. Len(s) : u[n] = u[n - 1] * B + s[n]
      BY <1>1, <2>1, ValuesSteps
    <2> HIDE DEF s, u
    <2> QED BY <1>3, <2>2 DEF BigEndian
  <1>6. x \in Nat
    <2>1. m \in 0 .. Len(b)
      BY <1>1, <1>2
    <2> QED BY <1>4, <2>1
  <1> HIDE DEF s, u, v, x
  <1>7. 0 \in S
    <2>1. m + 0 = m /\ x * 1 + 0 = x /\ 0 \in 0 .. N
      BY <1>1, <1>6
    <2>2. v[m + 0] = x * B ^ 0 + u[0]
      BY <1>1, <1>5, <2>1 DEF x
    <2> QED BY <2>1, <2>2
  <1>8. ASSUME NEW n \in 0 .. (N - 1), n \in S PROVE n + 1 \in S
    <2> DEFINE i == n + 1
               j == m + n + 1
               p == B ^ n
    <2>1. /\ i \in 1 .. N /\ i - 1 = n /\ j \in 1 .. Len(b) /\ j - 1 = m + n /\ m + i = j
          /\ i \in 0 .. N /\ n \in 0 .. N
      BY <1>1, <1>2
    <2>2. p \in Nat /\ B ^ i = p * B
      BY <1>1, <2>1
    <2> HIDE DEF i, j, p
    <2>3. v[j] = v[m + n] * B + b[j] /\ u[i] = u[n] * B + s[i] /\ s[i] = b[j] /\ u[n] \in Nat
      BY <1>3, <1>4, <1>5, <2>1
    <2>4. v[m + n] = x * p + u[n]
      BY <1>8 DEF p
    <2>5. b[j] \in Nat
      BY <1>1, <1>2, <2>1
    <2>6. v[j] = (x * p + u[n]) * B + b[j]
      BY <2>3, <2>4
    <2>7. (x * p + u[n]) * B + b[j] = x * (p * B) + (u[n] * B + b[j])
      <3> DEFINE y == u[n]
                 o == b[j]
      <3>1. y \in Nat /\ o \in Nat
        BY <2>3, <2>5
      <3> HIDE DEF y, o
      <3>2. (x * p + y) * B + o = x * (p * B) + (y * B + o)
        BY <1>1, <1>6, <2>2, <3>1
      <3> QED BY <3>2 DEF y, o
    <2>8. v[m + i] = x * B ^ i + u[i]
      BY <2>1, <2>2, <2>3, <2>6, <2>7
    <2> QED BY <2>1, <2>8 DEF i
  <1> HIDE DEF S
  <1>9. N \in S
    <2>1. \A n \in 0 .. N : n \in S
      BY <1>1, <1>7, <1>8, Induct
    <2> QED BY <1>1, <2>1
  <1>10. v[m + N] = x * WordMod + BigEndian(s)
    BY <1>1, <1>5, <1>9 DEF S
  <1> QED BY <1>3, <1>10 DEF s, v, x

\* The last octets of an address are its last word.
LEMMA LastWord ==
  ASSUME NEW b \in Seq(Octet), Len(b) \in {WordBytes, 4 * WordBytes}
  PROVE  LowOctets(b) \in Seq(Octet) /\ Len(LowOctets(b)) = WordBytes
  <1>1. WordBytes \in Nat
    BY BytePowers
  <1> DEFINE m == Len(b) - WordBytes
  <1>2. m \in Nat /\ m + WordBytes = Len(b) /\ m + 1 = Len(b) - WordBytes + 1
    BY <1>1
  <1> HIDE DEF m
  <1>3. LowOctets(b) = SubSeq(b, m + 1, m + WordBytes)
    BY <1>2 DEF LowOctets
  <1>4. m + WordBytes <= Len(b)
    BY <1>1, <1>2
  <1> QED BY <1>2, <1>3, <1>4, PartValue

\* The words of a long address are the number that its octets are.
LEMMA WordsWhole ==
  ASSUME NEW b \in Seq(Octet), Len(b) = 4 * WordBytes
  PROVE  /\ Words(b) \in Number
         /\ Whole(Words(b)) = NumberOf(b)
         /\ Words(b)[0] = BigEndian(LowOctets(b))
  <1> DEFINE N == WordBytes
             v == Values(ByteMod, b)
             M == WordMod
  <1>1. N \in Nat /\ ByteMod \in Nat /\ Octet \subseteq Nat
    BY BytePowers
  <1>2. b \in Seq(Nat)
    BY OctetsAreNumbers
  <1>3. v[0] = 0 /\ Value(ByteMod, b) = v[4 * N]
    BY <1>1, <1>2, ValuesSteps
  <1>4. ASSUME NEW k \in 0 .. 3
        PROVE  WordOf(b, k) \in Word /\ v[(k + 1) * N] = v[k * N] * M + WordOf(b, k)
    <2> DEFINE m == k * N
    <2>1. m \in Nat /\ m + N <= Len(b) /\ m + N = (k + 1) * N
      BY <1>1
    <2>2. WordOf(b, k) = BigEndian(SubSeq(b, m + 1, m + N))
      BY <2>1 DEF WordOf
    <2> HIDE DEF m
    <2>3. /\ SubSeq(b, m + 1, m + N) \in Seq(Octet) /\ Len(SubSeq(b, m + 1, m + N)) = N
          /\ v[m + N] = v[m] * M + BigEndian(SubSeq(b, m + 1, m + N))
      BY <2>1, PartValue
    <2>4. WordOf(b, k) \in Word
      BY <2>2, <2>3, WordOctets
    <2> QED BY <2>1, <2>2, <2>3, <2>4 DEF m
  <1>5. Words(b) \in Number
    <2>1. \A k \in 0 .. 3 : 3 - k \in 0 .. 3
      OBVIOUS
    <2> QED BY <1>4, <2>1 DEF Words, Number
  <1>6. /\ Words(b)[3] = WordOf(b, 0) /\ Words(b)[2] = WordOf(b, 1)
        /\ Words(b)[1] = WordOf(b, 2) /\ Words(b)[0] = WordOf(b, 3)
    BY DEF Words
  <1> HIDE DEF v, N, M
  <1>7. 0 * N = 0 /\ (0 + 1) * N = 1 * N /\ (1 + 1) * N = 2 * N /\ (2 + 1) * N = 3 * N
        /\ (3 + 1) * N = 4 * N
    BY <1>1 DEF N
  <1>8. /\ v[(0 + 1) * N] = v[0 * N] * M + WordOf(b, 0)
        /\ v[(1 + 1) * N] = v[1 * N] * M + WordOf(b, 1)
        /\ v[(2 + 1) * N] = v[2 * N] * M + WordOf(b, 2)
        /\ v[(3 + 1) * N] = v[3 * N] * M + WordOf(b, 3)
    BY <1>4
  <1>9. M \in Nat /\ \A k \in 0 .. 3 : WordOf(b, k) \in Nat
    BY <1>4, PowerAssumption DEF Word, M
  <1>10. v[4 * N] = ((WordOf(b, 0) * M + WordOf(b, 1)) * M + WordOf(b, 2)) * M + WordOf(b, 3)
    <2>1. 0 * M + WordOf(b, 0) = WordOf(b, 0)
      BY <1>9
    <2>2. v[1 * N] = WordOf(b, 0)
      BY <1>3, <1>7, <1>8, <2>1
    <2> QED BY <1>7, <1>8, <2>2, Zenon
  <1>11. Whole(Words(b)) = NumberOf(b)
    BY <1>3, <1>6, <1>10 DEF Whole, NumberOf, M
  <1>12. WordOf(b, 3) = BigEndian(LowOctets(b))
    <2>1. 3 * N + 1 = Len(b) - N + 1 /\ (3 + 1) * N = Len(b)
      BY <1>1 DEF N
    <2> QED BY <2>1 DEF WordOf, LowOctets, N
  <1> QED BY <1>5, <1>6, <1>11, <1>12

\* A number in dotted form has the octets it is made of.
LEMMA DottedExact ==
  ASSUME NEW ip, NEW b \in Seq(Octet), Len(b) = WordBytes, ip[0] = BigEndian(b)
  PROVE  IPv4Str(ip) = b
  <1>1. \A i \in 1 .. WordBytes : IPv4Str(ip)[i] = b[i]
    BY WordOctets DEF IPv4Str
  <1>2. DOMAIN b = 1 .. WordBytes
    OBVIOUS
  <1>3. IPv4Str(ip) = [i \in 1 .. WordBytes |-> IPv4Str(ip)[i]] /\ b = [i \in 1 .. WordBytes |-> b[i]]
    BY <1>2 DEF IPv4Str
  <1> QED BY <1>1, <1>3

-----------------------------------------------------------------------------
(* The order of addresses, and the mapped ones                             *)

\* The higher words decide, whatever the lower one is.
LEMMA HighWordsDecide ==
  ASSUME NEW x \in Nat, NEW y \in Nat, x < y, NEW u \in Word, NEW w \in Word
  PROVE  x * WordMod + u < y * WordMod + w /\ x * WordMod + u \in Nat /\ y * WordMod + w \in Nat
  <1>1. WordMod \in Nat /\ u \in 0 .. (WordMod - 1) /\ w \in 0 .. (WordMod - 1)
    BY PowerAssumption DEF Word
  <1>2. (x + 1) * WordMod <= y * WordMod
    BY <1>1
  <1>3. (x + 1) * WordMod = x * WordMod + WordMod
    BY <1>1
  <1>4. x * WordMod \in Nat /\ y * WordMod \in Nat
    BY <1>1
  <1> QED BY <1>1, <1>2, <1>3, <1>4

\* The first words that differ, from the highest, order the numbers.
LEMMA FirstDifference ==
  ASSUME NEW a \in Number, NEW b \in Number, NEW k \in 0 .. 3,
         \A j \in (k + 1) .. 3 : a[j] = b[j], a[k] < b[k]
  PROVE  Whole(a) < Whole(b)
  <1> DEFINE M == WordMod
             a2 == a[3] * M + a[2]
             b2 == b[3] * M + b[2]
             a1 == a2 * M + a[1]
             b1 == b2 * M + b[1]
  <1>1. \A j \in 0 .. 3 : a[j] \in Word /\ b[j] \in Word /\ a[j] \in Nat /\ b[j] \in Nat
    BY PowerAssumption DEF Number, Word
  <1>2. M \in Nat
    BY PowerAssumption
  <1>3. a2 \in Nat /\ b2 \in Nat
    BY <1>1, <1>2
  <1>4. a1 \in Nat /\ b1 \in Nat
    <2> HIDE DEF a2, b2
    <2> QED BY <1>1, <1>2, <1>3
  <1>5. a[3] < b[3] => a2 < b2
    BY <1>1, HighWordsDecide
  <1>6. a[3] = b[3] /\ a[2] < b[2] => a2 < b2
    BY <1>1, <1>2
  <1>7. a[3] = b[3] /\ a[2] = b[2] => a2 = b2
    OBVIOUS
  <1>8. a2 < b2 => a1 < b1
    <2> HIDE DEF a2, b2
    <2> QED BY <1>1, <1>3, HighWordsDecide
  <1>9. a2 = b2 /\ a[1] < b[1] => a1 < b1
    <2> HIDE DEF a2, b2
    <2> QED BY <1>1, <1>2, <1>3
  <1>10. a2 = b2 /\ a[1] = b[1] => a1 = b1
    OBVIOUS
  <1>11. a1 < b1 => a1 * M + a[0] < b1 * M + b[0]
    <2> HIDE DEF a1, b1
    <2> QED BY <1>1, <1>4, HighWordsDecide
  <1>12. a1 = b1 /\ a[0] < b[0] => a1 * M + a[0] < b1 * M + b[0]
    <2> HIDE DEF a1, b1
    <2> QED BY <1>1, <1>2, <1>4
  <1>13. Whole(a) = a1 * M + a[0] /\ Whole(b) = b1 * M + b[0]
    BY DEF Whole
  <1> HIDE DEF a1, b1, a2, b2, M
  <1>14. CASE k = 3
    BY <1>5, <1>8, <1>11, <1>13, <1>14
  <1>15. CASE k = 2
    <2>1. a[3] = b[3]
      BY <1>15
    <2> QED BY <1>6, <1>8, <1>11, <1>13, <1>15, <2>1
  <1>16. CASE k = 1
    <2>1. a[3] = b[3] /\ a[2] = b[2]
      BY <1>16
    <2> QED BY <1>7, <1>9, <1>11, <1>13, <1>16, <2>1
  <1>17. CASE k = 0
    <2>1. a[3] = b[3] /\ a[2] = b[2] /\ a[1] = b[1]
      BY <1>17
    <2> QED BY <1>7, <1>10, <1>12, <1>13, <1>17, <2>1
  <1> QED BY <1>14, <1>15, <1>16, <1>17

(***************************************************************************)
(* Long addresses are compared as the numbers they are.                    *)
(***************************************************************************)
LEMMA ComparedExact ==
  ASSUME NEW a \in Number, NEW b \in Number
  PROVE  /\ Whole(a) \in Nat /\ Whole(b) \in Nat
         /\ IPv6Cmp(a, b) = IF Whole(a) < Whole(b) THEN -1 ELSE IF Whole(a) > Whole(b) THEN 1 ELSE 0
  <1> DEFINE First(i) == a[i] # b[i] /\ \A j \in (i + 1) .. 3 : a[j] = b[j]
  <1>1. Whole(a) \in Nat /\ Whole(b) \in Nat
    BY WholeBound
  <1>2. CASE a = b
    <2>1. IPv6Cmp(a, b) = 0
      BY <1>2 DEF IPv6Cmp
    <2> QED BY <1>1, <1>2, <2>1
  <1>3. CASE a # b
    <2>1. \A j \in 0 .. 3 : a[j] \in Nat /\ b[j] \in Nat
      BY PowerAssumption DEF Number, Word
    <2>2. \E i \in 0 .. 3 : a[i] # b[i]
      BY <1>3 DEF Number
    <2>3. \E i \in 0 .. 3 : First(i)
      <3>1. a[3] # b[3] => First(3)
        OBVIOUS
      <3>2. a[3] = b[3] /\ a[2] # b[2] => First(2)
        OBVIOUS
      <3>3. a[3] = b[3] /\ a[2] = b[2] /\ a[1] # b[1] => First(1)
        OBVIOUS
      <3>4. a[3] = b[3] /\ a[2] = b[2] /\ a[1] = b[1] /\ a[0] # b[0] => First(0)
        OBVIOUS
      <3>5. a[3] # b[3] \/ a[2] # b[2] \/ a[1] # b[1] \/ a[0] # b[0]
        BY <2>2
      <3>6. 0 \in 0 .. 3 /\ 1 \in 0 .. 3 /\ 2 \in 0 .. 3 /\ 3 \in 0 .. 3
        OBVIOUS
      <3> HIDE DEF First
      <3> QED BY <3>1, <3>2, <3>3, <3>4, <3>5, <3>6
    <2> DEFINE k == CHOOSE i \in 0 .. 3 : First(i)
    <2>4. IPv6Cmp(a, b) = IF a[k] > b[k] THEN 1 ELSE -1
      BY <1>3 DEF IPv6Cmp
    <2>5. k \in 0 .. 3 /\ First(k)
      <3> HIDE DEF First
      <3> QED BY <2>3
    <2> HIDE DEF k
    <2>6. CASE a[k] > b[k]
      <3>1. b[k] < a[k] /\ \A j \in (k + 1) .. 3 : b[j] = a[j]
        BY <2>1, <2>5, <2>6
      <3>2. Whole(b) < Whole(a)
        BY <2>5, <3>1, FirstDifference
      <3> QED BY <1>1, <2>4, <2>6, <3>2
    <2>7. CASE ~ (a[k] > b[k])
      <3>1. a[k] < b[k]
        BY <2>1, <2>5, <2>7
      <3>2. Whole(a) < Whole(b)
        BY <2>5, <3>1, FirstDifference
      <3> QED BY <1>1, <2>4, <2>7, <3>2
    <2> QED BY <2>6, <2>7
  <1> QED BY <1>1, <1>2, <1>3

\* The mark of mapped addresses is a word.
LEMMA MarkIsWord == Mark \in 0 .. (WordMod - 1)
  <1> DEFINE p(n) == ByteMod ^ n
  <1>1. /\ ByteMod \in Nat /\ ByteMod > 1 /\ p(WordBytes) = WordMod
        /\ WordBytes \in {2, 4}
        /\ \A n \in 0 .. WordBytes : p(n) \in Nat \ {0}
        /\ \A n \in 0 .. (WordBytes - 1) : p(n + 1) = p(n) * ByteMod
    BY BytePowers, PowerAssumption
  <1>2. ASSUME NEW n \in 0 .. (WordBytes - 1) PROVE p(n) <= p(n + 1)
    <2>1. p(n) \in Nat \ {0} /\ p(n + 1) = p(n) * ByteMod
      BY <1>1
    <2> HIDE DEF p
    <2> QED BY <1>1, <2>1
  <1>3. Mark = p(WordBytes \div 2) - 1
    BY DEF Mark
  <1> HIDE DEF p
  <1>4. CASE WordBytes = 2
    <2>1. WordBytes \div 2 = 1 /\ p(1) <= p(1 + 1) /\ p(1) \in Nat \ {0}
      BY <1>1, <1>2, <1>4
    <2>2. p(1) <= p(2)
      BY <2>1
    <2> QED BY <1>1, <1>3, <1>4, <2>1, <2>2
  <1>5. CASE WordBytes = 4
    <2>1. /\ WordBytes \div 2 = 2 /\ p(2) <= p(2 + 1) /\ p(3) <= p(3 + 1)
          /\ p(2) \in Nat \ {0} /\ p(3) \in Nat /\ p(4) \in Nat
      BY <1>1, <1>2, <1>5
    <2>2. p(2) <= p(3) /\ p(3) <= p(4)
      BY <2>1
    <2> QED BY <1>1, <1>3, <1>5, <2>1, <2>2
  <1> QED BY <1>1, <1>4, <1>5

(***************************************************************************)
(* The words tell a mapped address by its number.                          *)
(***************************************************************************)
LEMMA MappedExact ==
  ASSUME NEW ip \in Number
  PROVE  IsMapped(ip) <=> Whole(ip) \div WordMod = Mark
  <1> DEFINE M == WordMod
             h == ip[3] * M + ip[2]
             x == h * M + ip[1]
  <1>1. M \in Nat \ {0} /\ Mark \in 0 .. (M - 1) /\ \A k \in 0 .. 3 : ip[k] \in 0 .. (M - 1)
    BY MarkIsWord, PowerAssumption DEF Number, Word
  <1>2. Whole(ip) = x * M + ip[0]
    BY DEF Whole
  <1> HIDE DEF M
  <1>3. h \in Nat /\ (h = 0 <=> ip[3] = 0 /\ ip[2] = 0)
    BY <1>1
  <1> HIDE DEF h
  <1>4. x \in Nat /\ (x < M <=> h = 0)
    BY <1>1, <1>3
  <1>5. Whole(ip) \div M = x
    <2> HIDE DEF x
    <2>1. ip[0] \in 0 .. (M - 1)
      BY <1>1
    <2>2. (x * M + ip[0]) \div M = x
      BY <1>1, <1>4, <2>1, Division
    <2> QED BY <1>2, <2>2
  <1>6. x = Mark <=> h = 0 /\ ip[1] = Mark
    BY <1>1, <1>3, <1>4
  <1> QED BY <1>3, <1>5, <1>6 DEF IsMapped, M

-----------------------------------------------------------------------------
(* What is read is a word                                                  *)

\* A word that is read is one, whether it could be read or not.
LEMMA ReadIsWord ==
  ASSUME IsDatabase(db), NEW p \in Int, NEW error \in Word
  PROVE  ReadWord(db, p, error) \in Word
  <1> DEFINE at == Wrap(p - 1)
             half(k) == ByteAt(db, at + k) + ByteMod * ByteAt(db, at + k + 1)
             B == ByteMod
  <1>1. at \in Nat /\ Len(db.bytes) \in Nat
    <2>1. p - 1 \in Int
      OBVIOUS
    <2>2. at \in Nat
      BY <2>1, WrapRange
    <2> QED BY <2>2 DEF IsDatabase
  <1>2. /\ B \in Nat \ {0} /\ WordBytes \in {2, 4} /\ Octet = 0 .. (B - 1)
        /\ B ^ 0 = 1 /\ WordMod = B ^ WordBytes
        /\ \A n \in 0 .. (WordBytes - 1) : B ^ (n + 1) = B ^ n * B
    BY BytePowers DEF Octet
  <1> HIDE DEF at
  <1>3. ASSUME at + WordBytes <= Len(db.bytes), NEW k \in {0, 2}, k + 2 <= WordBytes
        PROVE  half(k) \in 0 .. (B * B - 1)
    <2>1. at + k \in Nat /\ at + k + 1 \in Nat /\ at + k < Len(db.bytes) /\ at + k + 1 < Len(db.bytes)
      BY <1>1, <1>2, <1>3
    <2> DEFINE l == ByteAt(db, at + k)
               h == ByteAt(db, at + k + 1)
    <2>2. l \in 0 .. (B - 1) /\ h \in 0 .. (B - 1)
      BY <1>2, <2>1, Octets
    <2> HIDE DEF l, h
    <2>3. B * h <= B * (B - 1)
      BY <1>2, <2>2
    <2>4. l + B * h \in 0 .. (B * B - 1)
      BY <1>2, <2>2, <2>3
    <2> QED BY <2>4 DEF l, h
  <1>4. WordBytes = 2 => WordMod = B * B
    <2> HAVE WordBytes = 2
    <2>1. B ^ (0 + 1) = B ^ 0 * B /\ B ^ (1 + 1) = B ^ 1 * B
      BY <1>2
    <2>2. B ^ 1 = B /\ B ^ 2 = B * B
      BY <1>2, <2>1
    <2> QED BY <1>2, <2>2
  <1>5. WordBytes = 4 => WordMod = B * B * (B * B)
    <2> HAVE WordBytes = 4
    <2>1. /\ B ^ (0 + 1) = B ^ 0 * B /\ B ^ (1 + 1) = B ^ 1 * B
          /\ B ^ (2 + 1) = B ^ 2 * B /\ B ^ (3 + 1) = B ^ 3 * B
      BY <1>2
    <2>2. B ^ 1 = B /\ B ^ 2 = B ^ 1 * B /\ B ^ 3 = B ^ 2 * B /\ B ^ 4 = B ^ 3 * B
      BY <1>2, <2>1
    <2>3. B ^ 4 = B * B * B * B /\ B * B * B * B = B * B * (B * B)
      BY <1>2, <2>2
    <2> QED BY <1>2, <2>3
  <1>6. CASE at + WordBytes > Len(db.bytes)
    BY <1>6 DEF ReadWord, at
  <1>7. CASE at + WordBytes <= Len(db.bytes) /\ WordBytes = 2
    <2>1. ReadWord(db, p, error) = half(0)
      BY <1>1, <1>7 DEF ReadWord, at
    <2>2. half(0) \in 0 .. (B * B - 1)
      BY <1>3, <1>7
    <2> HIDE DEF half
    <2> QED BY <1>4, <1>7, <2>1, <2>2 DEF Word
  <1>8. CASE at + WordBytes <= Len(db.bytes) /\ WordBytes = 4
    <2>1. ReadWord(db, p, error) = half(0) + B * B * half(2)
      BY <1>1, <1>8 DEF ReadWord, at
    <2>2. half(0) \in 0 .. (B * B - 1) /\ half(2) \in 0 .. (B * B - 1)
      BY <1>3, <1>8
    <2> HIDE DEF half
    <2> DEFINE Q == B * B
    <2>3. Q \in Nat
      BY <1>2
    <2> HIDE DEF Q
    <2>4. half(0) \in 0 .. (Q - 1) /\ half(2) \in 0 .. (Q - 1)
      BY <2>2 DEF Q
    <2>5. Q * half(2) <= Q * (Q - 1)
      BY <2>3, <2>4
    <2>6. half(0) + Q * half(2) \in 0 .. (Q * Q - 1)
      BY <2>3, <2>4, <2>5
    <2>7. ReadWord(db, p, error) = half(0) + Q * half(2) /\ WordMod = Q * Q
      BY <1>5, <1>8, <2>1 DEF Q
    <2> QED BY <2>6, <2>7 DEF Word
  <1>9. at + WordBytes \in Int
    BY <1>1, <1>2
  <1> QED BY <1>1, <1>2, <1>6, <1>7, <1>8, <1>9

-----------------------------------------------------------------------------
(* The address of a call                                                   *)

\* The octets that an input has are the address that it is.
LEMMA AddressFacts ==
  ASSUME NEW i, IsInput(i), NEW a \in AddressOf(i)
  PROVE  /\ a.type \in {0, 4, 6} /\ a.ip \in Number
         /\ a.type # 0 =>
              /\ i.octets \in Seq(Octet) /\ Len(i.octets) \in {WordBytes, 4 * WordBytes}
              /\ IsIPv4(i) <=> a.type = 4
              /\ a.type = 4 => a.ip[0] = BigEndian(LowOctets(i.octets))
              /\ a.type = 6 => Whole(a.ip) = NumberOf(i.octets)
  <1> DEFINE b == i.octets
  <1>1. WordBytes \in {2, 4} /\ b \in Seq(Octet) /\ Len(b) \in Nat
    BY WordAssumption DEF IsInput
  <1>2. PICK family \in {0, 4, 6} : /\ a \in IP2No(family, b)
                                    /\ family = 4 => Len(b) = WordBytes
                                    /\ family = 6 => Len(b) = 4 * WordBytes
    <2>1. CASE i.kind = "buffer"
      <3> DEFINE f == IF Len(b) = WordBytes THEN 4 ELSE IF Len(b) = 4 * WordBytes THEN 6 ELSE 0
      <3>1. a \in IP2No(f, b)
        BY <2>1 DEF AddressOf, IPBin2No
      <3>2. f \in {0, 4, 6} /\ (f = 4 => Len(b) = WordBytes) /\ (f = 6 => Len(b) = 4 * WordBytes)
        OBVIOUS
      <3> QED BY <3>1, <3>2
    <2>2. CASE i.kind # "buffer"
      <3>1. a \in IP2No(i.family, b)
        BY <2>2 DEF AddressOf
      <3>2. i.family \in {0, 4, 6} /\ (i.family = 4 => Len(b) = WordBytes)
            /\ (i.family = 6 => Len(b) = 4 * WordBytes)
        BY <2>2 DEF IsInput
      <3> QED BY <3>1, <3>2
    <2> QED BY <2>1, <2>2
  <1> HIDE DEF b
  <1>3. CASE family = 6
    <2>1. /\ Words(b) \in Number /\ Whole(Words(b)) = NumberOf(b)
          /\ Words(b)[0] = BigEndian(LowOctets(b))
      BY <1>1, <1>2, <1>3, WordsWhole
    <2>2. a = [type |-> IF IsMapped(Words(b)) THEN 4 ELSE 6, ip |-> Words(b)]
      BY <1>2, <1>3 DEF IP2No
    <2>3. a.type = (IF IsMapped(Words(b)) THEN 4 ELSE 6) /\ a.ip = Words(b)
      BY <2>2
    <2>4. Len(b) # WordBytes /\ Len(b) = 4 * WordBytes
      BY <1>1, <1>2, <1>3
    <2>5. IsIPv4(i) <=> IsMapped(Words(b))
      BY <2>1, <2>4, MappedExact DEF IsIPv4, b
    <2> QED BY <1>1, <2>1, <2>3, <2>4, <2>5 DEF b
  <1>4. CASE family = 4
    <2>1. Len(b) = WordBytes
      BY <1>2, <1>4
    <2>2. PICK g \in Garbage : a = [type |-> 4, ip |-> [g EXCEPT ![0] = BigEndian(b)]]
      BY <1>2, <1>4 DEF IP2No
    <2>3. g \in Number /\ BigEndian(b) \in Word
      BY <1>1, <2>1, WordOctets, AddressAssumption
    <2>4. a.type = 4 /\ a.ip \in Number /\ a.ip[0] = BigEndian(b)
      BY <2>2, <2>3 DEF Number
    <2>5. LowOctets(b) = b
      <3>1. Len(b) - WordBytes + 1 = 1
        BY <1>1, <2>1
      <3> QED BY <1>1, <3>1 DEF LowOctets
    <2>6. IsIPv4(i)
      BY <2>1 DEF IsIPv4, b
    <2> QED BY <1>1, <2>1, <2>4, <2>5, <2>6 DEF b
  <1>5. CASE family = 0
    <2>1. PICK g \in Garbage : a = [type |-> 0, ip |-> g]
      BY <1>2, <1>5 DEF IP2No
    <2> QED BY <2>1, AddressAssumption
  <1> QED BY <1>2, <1>3, <1>4, <1>5

\* The variables hold what they can; a getter asks for a field.
Typed ==
  /\ location \in {"none", "open", "closed"}
  /\ value \in Word
  /\ ipaddr.type \in {0, 4, 6} /\ ipaddr.ip \in Number
  /\ DOMAIN result.fields \subseteq Field
  /\ call.op = "get" => call.mask \subseteq Field

\* An address that a result tells, or that a row was found for, is the input's.
Known ==
  /\ result.ip = Unknown => result.ip_no = Unknown
  /\ result.ip # Unknown => call.op = "getAll"
  /\ row # NotFound \/ result.ip # Unknown =>
       /\ call.input \in Asked[db] /\ ipaddr \in AddressOf(call.input)
       /\ row \in RowsFor(ipaddr) /\ ipaddr.type # 0
       /\ call.op = "getAll" =>
            result.ip = IpOf(call.input, ipaddr) /\ result.ip_no = IpNoOf(ipaddr)

AddressInv == IInv /\ Typed /\ Known

\* Before a call no address is known.
LEMMA AddressInit == Init => Typed /\ Known
  <1> SUFFICES ASSUME Init PROVE Typed /\ Known
    OBVIOUS
  <1>1. 0 \in Word
    BY PowerAssumption DEF Word
  <1>2. ipaddr.type = 0 /\ ipaddr.ip \in Number
    BY <1>1 DEF Init, NoAddress, Number
  <1>3. result.fields = <<>> /\ result.ip = Unknown /\ result.ip_no = Unknown
    BY DEF Init, NoResult, Result
  <1>4. call.op = "none"
    BY DEF Init, NoCall
  <1>5. Typed
    BY <1>1, <1>2, <1>3, <1>4 DEF Typed, Init
  <1> QED BY <1>3, <1>5 DEF Known, Init

\* A call that ends at once tells no address.
LEMMA AnswerTyped ==
  ASSUME AddressInv, Idle, NEW op, NEW i, NEW mask, NEW r, Answer(op, i, mask, r),
         op = "get" => mask \subseteq Field,
         DOMAIN r.fields \subseteq Field, r.ip = Unknown, r.ip_no = Unknown
  PROVE  Typed' /\ Known'
  <1>1. /\ UNCHANGED <<db, location, value, ipaddr, row>> /\ result' = r
        /\ call'.op = op /\ call'.mask = mask
    BY DEF Answer, statics
  <1>2. row = NotFound
    BY DEF AddressInv, IInv, Quiet
  <1>3. Typed'
    BY <1>1 DEF AddressInv, Typed
  <1> QED BY <1>1, <1>2, <1>3 DEF Known

\* A call that begins takes the address of its input.
LEMMA BeginTyped ==
  ASSUME AddressInv, NEW op, NEW i \in Asked[db], NEW mask, NEW a \in AddressOf(i), NEW at,
         NEW fields, NEW r, Begin(op, i, mask, a, at, fields, r),
         op = "get" => mask \subseteq Field,
         DOMAIN r.fields \subseteq Field,
         r.ip = Unknown => r.ip_no = Unknown,
         r.ip # Unknown => op = "getAll",
         at # NotFound \/ r.ip # Unknown =>
           /\ at \in RowsFor(a) /\ a.type # 0
           /\ op = "getAll" => r.ip = IpOf(i, a) /\ r.ip_no = IpNoOf(a)
  PROVE  Typed' /\ Known'
  <1>1. /\ UNCHANGED <<db, location, value>> /\ result' = r
        /\ ipaddr' = a /\ row' = at /\ call' = [op |-> op, input |-> i, mask |-> mask]
    BY DEF Begin, statics
  <1>2. call'.op = op /\ call'.mask = mask /\ call'.input = i
    BY <1>1
  <1>3. IsInput(i)
    BY AnswersAssumption DEF AddressInv, IInv, Shape
  <1>4. a.type \in {0, 4, 6} /\ a.ip \in Number
    BY <1>3, AddressFacts
  <1>5. Typed'
    BY <1>1, <1>2, <1>4 DEF AddressInv, Typed
  <1>6. RowsFor(ipaddr)' = RowsFor(a)
    BY <1>1 DEF RowsFor
  <1> QED BY <1>1, <1>2, <1>5, <1>6 DEF Known

\* The parts of a result.
LEMMA ResultParts ==
  ASSUME NEW status, NEW ip, NEW no, NEW fields
  PROVE  /\ Result(status, ip, no, fields).ip = ip
         /\ Result(status, ip, no, fields).ip_no = no
         /\ Result(status, ip, no, fields).fields = fields
         /\ Failure(status, ip, no).ip = ip /\ Failure(status, ip, no).ip_no = no
         /\ DOMAIN Failure(status, ip, no).fields = Field
  BY DEF Failure, Result

\* An address is never told as "?".
LEMMA IpOfKnown ==
  ASSUME NEW i, NEW a
  PROVE  IpOf(i, a) # Unknown
  BY DEF IpOf, Unknown, Js

\* getAll() tells the address of its input, or none.
LEMMA GetAllTyped ==
  ASSUME AddressInv, NEW i \in Asked[db], GetAll(i)
  PROVE  Typed' /\ Known'
  <1>1. Idle
    BY DEF GetAll
  <1>2. CASE location # "open"
    <2>1. PICK s : Answer("getAll", i, {}, Failure(s, Unknown, Unknown))
      BY <1>2 DEF GetAll
    <2> DEFINE r == Failure(s, Unknown, Unknown)
    <2>2. r.ip = Unknown /\ r.ip_no = Unknown /\ DOMAIN r.fields \subseteq Field
      BY ResultParts
    <2>3. Answer("getAll", i, {}, r)
      BY <2>1
    <2> HIDE DEF r
    <2> QED BY <1>1, <2>2, <2>3, AnswerTyped
  <1>3. CASE location = "open"
    <2> DEFINE absent == [f \in Field \ ModeMask |-> IF f \in ZeroFields THEN Zero ELSE NotSupported]
    <2>1. PICK a, at : a \in AddressOf(i) /\ at \in RowsFor(a) /\
           (\/ \E s : Begin("getAll", i, {}, a, NotFound, {}, Failure(s, Unknown, Unknown))
            \/ /\ a.type # 0 /\ at = NotFound
               /\ \E s : Begin("getAll", i, {}, a, at, {}, Failure(s, IpOf(i, a), IpNoOf(a)))
            \/ /\ a.type # 0
               /\ Begin("getAll", i, Field, a, at, ModeMask,
                    Result("OK", IpOf(i, a), IpNoOf(a), absent)))
      BY <1>3, Zenon DEF GetAll
    <2>2. a \in AddressOf(i) /\ at \in RowsFor(a)
      BY <2>1
    <2>3. ASSUME NEW s, Begin("getAll", i, {}, a, NotFound, {}, Failure(s, Unknown, Unknown))
          PROVE  Typed' /\ Known'
      <3> DEFINE r == Failure(s, Unknown, Unknown)
      <3>1. r.ip = Unknown /\ r.ip_no = Unknown /\ DOMAIN r.fields \subseteq Field
        BY ResultParts
      <3>2. Begin("getAll", i, {}, a, NotFound, {}, r)
        BY <2>3
      <3> HIDE DEF r
      <3> QED BY <2>2, <3>1, <3>2, BeginTyped
    <2>4. ASSUME a.type # 0, at = NotFound, NEW s,
                 Begin("getAll", i, {}, a, at, {}, Failure(s, IpOf(i, a), IpNoOf(a)))
          PROVE  Typed' /\ Known'
      <3> DEFINE r == Failure(s, IpOf(i, a), IpNoOf(a))
      <3>1. r.ip = IpOf(i, a) /\ r.ip_no = IpNoOf(a) /\ DOMAIN r.fields \subseteq Field
        BY ResultParts
      <3>2. Begin("getAll", i, {}, a, at, {}, r)
        BY <2>4
      <3> HIDE DEF r
      <3> QED BY <2>4, <2>2, <3>1, <3>2, BeginTyped, IpOfKnown
    <2>5. ASSUME a.type # 0,
                 Begin("getAll", i, Field, a, at, ModeMask,
                   Result("OK", IpOf(i, a), IpNoOf(a), absent))
          PROVE  Typed' /\ Known'
      <3> DEFINE r == Result("OK", IpOf(i, a), IpNoOf(a), absent)
      <3>1. r.ip = IpOf(i, a) /\ r.ip_no = IpNoOf(a) /\ DOMAIN r.fields \subseteq Field
        BY ResultParts
      <3>2. Begin("getAll", i, Field, a, at, ModeMask, r)
        BY <2>5
      <3> HIDE DEF r
      <3> QED BY <2>5, <2>2, <3>1, <3>2, BeginTyped, IpOfKnown
    <2> QED BY <2>1, <2>3, <2>4, <2>5
  <1> QED BY <1>2, <1>3

\* query() and the getters tell no address, and find a row of the input's.
LEMMA FindTyped ==
  ASSUME AddressInv, NEW op, op # "getAll", NEW i \in Asked[db], NEW mask, Find(op, i, mask),
         op = "get" => mask \subseteq Field
  PROVE  Typed' /\ Known'
  <1>1. PICK a, at : a \in AddressOf(i) /\ at \in RowsFor(a) /\
          Begin(op, i, mask, a, at, IF at = NotFound THEN {} ELSE ModeMask \cap mask,
                IF at = NotFound THEN Failure("null", Unknown, Unknown)
                                 ELSE Result("object", Unknown, Unknown, <<>>))
    BY DEF Find
  <1> DEFINE fields == IF at = NotFound THEN {} ELSE ModeMask \cap mask
             r == IF at = NotFound THEN Failure("null", Unknown, Unknown)
                                   ELSE Result("object", Unknown, Unknown, <<>>)
  <1>2. r.ip = Unknown /\ r.ip_no = Unknown /\ DOMAIN r.fields \subseteq Field
    <2>1. CASE at = NotFound
      BY <2>1, ResultParts
    <2>2. CASE at # NotFound
      <3>1. r.ip = Unknown /\ r.ip_no = Unknown /\ r.fields = <<>>
        BY <2>2, ResultParts
      <3> QED BY <3>1
    <2> QED BY <2>1, <2>2
  <1>3. a \in AddressOf(i) /\ at \in RowsFor(a) /\ (at # NotFound => a.type # 0)
    BY <1>1 DEF RowsFor
  <1>4. Begin(op, i, mask, a, at, fields, r)
    BY <1>1
  <1> HIDE DEF fields, r
  <1> QED BY <1>2, <1>3, <1>4, BeginTyped

\* The mask of query() may be any: its fields are those of the database.
LEMMA QueryTyped ==
  ASSUME AddressInv, NEW i \in Asked[db], NEW mask, Query(i, mask)
  PROVE  Typed' /\ Known'
  <1> DEFINE r == Failure("throws", Unknown, Unknown)
  <1>1. r.ip = Unknown /\ r.ip_no = Unknown /\ DOMAIN r.fields \subseteq Field
    BY ResultParts
  <1>2. Idle /\ (Answer("query", i, mask, r) \/ Find("query", i, mask))
    BY DEF Query
  <1> HIDE DEF r
  <1>3. "query" # "get" /\ "query" # "getAll"
    OBVIOUS
  <1> QED BY <1>1, <1>2, <1>3, AnswerTyped, FindTyped

\* A getter asks for one field.
LEMMA GetTyped ==
  ASSUME AddressInv, NEW i \in Asked[db], NEW f \in Field, Get(i, f)
  PROVE  Typed' /\ Known'
  <1> DEFINE r == Result("value", Unknown, Unknown, [g \in {f} |-> Unknown])
  <1>1. r.ip = Unknown /\ r.ip_no = Unknown /\ DOMAIN r.fields \subseteq Field
    BY ResultParts
  <1>2. Idle /\ (Answer("get", i, {f}, r) \/ Find("get", i, {f}))
    BY DEF Get
  <1> HIDE DEF r
  <1>3. "get" # "getAll" /\ {f} \subseteq Field
    OBVIOUS
  <1> QED BY <1>1, <1>2, <1>3, AnswerTyped, FindTyped

\* The loop reads words and adds fields of the database.
LEMMA LoopTyped ==
  ASSUME AddressInv, NEW f \in todo, Fetch(f) \/ Store(f)
  PROVE  Typed' /\ Known'
  <1>1. UNCHANGED <<db, location, call, ipaddr, row>> /\ f \in Field
    BY DatabaseFacts DEF Fetch, Store, AddressInv, IInv, Shape
  <1>2. value' \in Word
    <2>1. CASE Fetch(f)
      <3>1. value' = value \/ value' = ReadFloat(db, Wrap(row + db.column[f]))
        BY <2>1 DEF Fetch
      <3>2. IsDatabase(db) /\ row \in Nat /\ db.column[f] \in Nat /\ 0 \in Word
        BY <1>1, DatabaseFacts DEF AddressInv, IInv, Shape, NotFound
      <3>3. Wrap(row + db.column[f]) \in Int
        <4>1. row + db.column[f] \in Int
          BY <3>2
        <4> QED BY <4>1, WrapRange
      <3>4. ReadFloat(db, Wrap(row + db.column[f])) \in Word
        <4> DEFINE p == Wrap(row + db.column[f])
                   z == 0
        <4>1. p \in Int /\ z \in Word /\ ReadFloat(db, p) = ReadWord(db, p, z)
          BY <3>2, <3>3 DEF ReadFloat
        <4> HIDE DEF p, z
        <4>2. ReadFloat(db, p) \in Word
          BY <3>2, <4>1, ReadIsWord
        <4> QED BY <4>2 DEF p
      <3> QED BY <3>1, <3>4 DEF AddressInv, Typed
    <2>2. CASE Store(f)
      BY <2>2 DEF Store, statics, AddressInv, Typed
    <2> QED BY <2>1, <2>2
  <1>3. /\ result'.ip = result.ip /\ result'.ip_no = result.ip_no
        /\ DOMAIN result'.fields \subseteq DOMAIN result.fields \cup {f}
    <2>1. CASE Fetch(f)
      BY <2>1 DEF Fetch
    <2>2. CASE Store(f)
      <3> DEFINE new == [g \in DOMAIN result.fields \cup {f} |->
                           IF g = f THEN IF data.to = "value" THEN Js("number", <<value>>)
                                         ELSE Js("string", StringAt(db, str, data))
                           ELSE result.fields[g]]
      <3>1. result = Result(result.status, result.ip, result.ip_no, result.fields)
        BY DEF AddressInv, IInv, Shape
      <3>2. result' = [result EXCEPT !.fields = new]
        BY <2>2 DEF Store
      <3>3. DOMAIN new = DOMAIN result.fields \cup {f}
        OBVIOUS
      <3> HIDE DEF new
      <3>4. result' = Result(result.status, result.ip, result.ip_no, new)
        BY <3>1, <3>2 DEF Result
      <3> QED BY <3>3, <3>4, ResultParts
    <2> QED BY <2>1, <2>2
  <1>4. Typed'
    BY <1>1, <1>2, <1>3 DEF AddressInv, Typed
  <1>5. Known'
    <2>1. RowsFor(ipaddr)' = RowsFor(ipaddr)
      BY <1>1 DEF RowsFor
    <2> QED BY <1>1, <1>3, <2>1 DEF AddressInv, Known
  <1> QED BY <1>4, <1>5

\* A getter returns the field it was asked for.
LEMMA ReplyTyped ==
  ASSUME AddressInv, Reply
  PROVE  Typed' /\ Known'
  <1>1. UNCHANGED <<db, location, value, call, ipaddr, row>> /\ call.op = "get"
    BY DEF Reply, statics, progress
  <1>2. result'.ip = Unknown /\ result'.ip_no = Unknown /\ DOMAIN result'.fields = call.mask
    <2> DEFINE fields ==
                 [f \in call.mask |->
                    IF result.status = "null" THEN Unknown
                    ELSE IF f \in DOMAIN result.fields /\ ~ Falsy(result.fields[f])
                    THEN result.fields[f]
                    ELSE IF f \in ZeroFields THEN Zero ELSE NotSupported]
    <2>1. result' = Result("value", Unknown, Unknown, fields) /\ DOMAIN fields = call.mask
      BY DEF Reply
    <2> HIDE DEF fields
    <2> QED BY <2>1, ResultParts
  <1>3. Typed'
    BY <1>1, <1>2 DEF AddressInv, Typed
  <1>4. RowsFor(ipaddr)' = RowsFor(ipaddr)
    BY <1>1 DEF RowsFor
  <1> QED BY <1>1, <1>2, <1>3, <1>4 DEF AddressInv, Known

\* After a call no address is known.
LEMMA ReturnTyped ==
  ASSUME AddressInv, Return
  PROVE  Typed' /\ Known'
  <1>1. /\ UNCHANGED <<db, location, value>> /\ row' = NotFound /\ result' = NoResult
        /\ call' = NoCall /\ ipaddr' = NoAddress
    BY DEF Return, statics
  <1>2. /\ result'.ip = Unknown /\ result'.ip_no = Unknown /\ result'.fields = <<>>
        /\ call'.op = "none"
    BY <1>1 DEF NoResult, Result, NoCall
  <1>3. ipaddr'.type = 0 /\ ipaddr'.ip \in Number
    <2>1. 0 \in Word
      BY PowerAssumption DEF Word
    <2> QED BY <1>1, <2>1 DEF NoAddress, Number
  <1>4. Typed'
    BY <1>1, <1>2, <1>3 DEF AddressInv, Typed
  <1> QED BY <1>1, <1>2, <1>4 DEF Known

\* The three parts of the invariant are kept by every step.
LEMMA AddressStep == AddressInv /\ [Next]_vars => AddressInv'
  <1> SUFFICES ASSUME AddressInv, [Next]_vars PROVE Typed' /\ Known'
    BY StepKeeps DEF AddressInv
  <1>1. ASSUME UNCHANGED vars PROVE Typed' /\ Known'
    <2>1. UNCHANGED <<db, location, value, call, ipaddr, row, result>>
      BY <1>1 DEF vars, statics, progress
    <2>2. RowsFor(ipaddr)' = RowsFor(ipaddr)
      BY <2>1 DEF RowsFor
    <2> QED BY <2>1, <2>2 DEF AddressInv, Typed, Known
  <1>2. ASSUME Open \/ CloseDatabase PROVE Typed' /\ Known'
    <2>1. UNCHANGED <<db, value, call, ipaddr, row, result>> /\ location' \in {"open", "closed"}
      BY <1>2 DEF Open, CloseDatabase, statics, progress
    <2>2. RowsFor(ipaddr)' = RowsFor(ipaddr)
      BY <2>1 DEF RowsFor
    <2> QED BY <2>1, <2>2 DEF AddressInv, Typed, Known
  <1>3. ASSUME NEW i \in Asked[db], GetAll(i) PROVE Typed' /\ Known'
    BY <1>3, GetAllTyped
  <1>4. ASSUME NEW i \in Asked[db], NEW mask \in Masks, Query(i, mask) PROVE Typed' /\ Known'
    BY <1>4, QueryTyped
  <1>5. ASSUME NEW i \in Asked[db], NEW f \in Field, Get(i, f) PROVE Typed' /\ Known'
    BY <1>5, GetTyped
  <1>6. ASSUME NEW f \in todo, Fetch(f) \/ Store(f) PROVE Typed' /\ Known'
    BY <1>6, LoopTyped
  <1>7. ASSUME Reply PROVE Typed' /\ Known'
    BY <1>7, ReplyTyped
  <1>8. ASSUME Return PROVE Typed' /\ Known'
    BY <1>8, ReturnTyped
  <1> QED BY <1>1, <1>2, <1>3, <1>4, <1>5, <1>6, <1>7, <1>8 DEF Next

(***************************************************************************)
(* In every state the pointers, fields, types and addresses are as above.  *)
(***************************************************************************)
THEOREM AddressInvariance == Spec => []AddressInv
  <1>1. Init => AddressInv
    BY InitEstablishes, AddressInit DEF AddressInv
  <1>2. AddressInv /\ [Next]_vars => AddressInv'
    BY AddressStep
  <1> QED BY <1>1, <1>2, PTL DEF Spec

(***************************************************************************)
(* The variables hold what the C++ and JavaScript ones can: words, octets, *)
(* numbers of four words, and fields there are.                            *)
(***************************************************************************)
THEOREM AnswersTyped == Spec => []TypeOK
  <1>1. AddressInv => TypeOK
    <2> SUFFICES ASSUME AddressInv PROVE TypeOK
      OBVIOUS
    <2>1. IsDatabase(db) /\ todo \subseteq Field /\ row \in Word
      BY DatabaseFacts DEF AddressInv, IInv, Shape
    <2>2. str \in [0 .. ByteMod -> Octet] /\ (data = Null \/ todo # {})
      BY DEF AddressInv, IInv, Shape, Buffer, Quiet
    <2> QED BY <2>1, <2>2 DEF TypeOK, AddressInv, Typed
  <1> QED BY <1>1, AddressInvariance, PTL

(***************************************************************************)
(* No decimal needs more than the buffer of 40 octets has room for         *)
(* (ip2lipaddress.c:95-131): its digits have no leading zero, so 40 of     *)
(* them were a number that four words cannot hold.                         *)
(***************************************************************************)
THEOREM DecimalsFit == Spec => []DecimalInBuffer
  <1>1. AddressInv => DecimalInBuffer
    <2> SUFFICES ASSUME AddressInv, result.ip_no.type = "decimal"
                 PROVE  Len(result.ip_no.is) + 1 <= DecimalSize
      BY DEF DecimalInBuffer
    <2>1. result.ip # Unknown
      BY DEF AddressInv, Known, Unknown, Js
    <2>2. result.ip_no = IpNoOf(ipaddr) /\ ipaddr.ip \in Number
      BY <2>1 DEF AddressInv, Known, Typed
    <2>3. result.ip_no = Js("decimal", Decimal(ipaddr.ip))
      BY <2>2 DEF IpNoOf, Js
    <2>4. result.ip_no.is = Decimal(ipaddr.ip)
      BY <2>3 DEF Js
    <2> QED BY <2>2, <2>4, DecimalFits
  <1> QED BY <1>1, AddressInvariance, PTL

\* Digits without leading zeros begin with a zero only if they are one.
LEMMA PlainZero ==
  ASSUME NEW s \in Seq(Digit), Plain(s), s[1] = 0
  PROVE  Value(10, s) = 0
  <1>1. Len(s) = 1 /\ s \in Seq(Nat)
    BY DEF Plain, Digit
  <1>2. /\ Values(10, s)[0] = 0 /\ Value(10, s) = Values(10, s)[Len(s)]
        /\ \A n \in 1 .. Len(s) : Values(10, s)[n] = Values(10, s)[n - 1] * 10 + s[n]
    BY <1>1, ValuesSteps
  <1>3. 1 \in 1 .. Len(s) /\ 1 - 1 = 0
    BY <1>1
  <1>4. Values(10, s)[1] = Values(10, s)[0] * 10 + s[1]
    BY <1>2, <1>3
  <1> QED BY <1>1, <1>2, <1>4

(***************************************************************************)
(* All spellings of an address find the same rows, and getAll() tells it   *)
(* exactly: the dotted octets of a short or mapped address, the decimal of *)
(* any other; and the search compares long addresses as the numbers they   *)
(* are (ip2lipaddress.c:9-131, nodeip2location.cc:395-420).                *)
(***************************************************************************)
THEOREM AddressesExact == Spec => []AddressExact
  <1>1. AddressInv => AddressExact
    <2> SUFFICES ASSUME AddressInv, row # NotFound \/ result.ip # Unknown PROVE AddressExact
      BY DEF AddressExact
    <2> DEFINE i == call.input
               a == ipaddr
               number == NumberOf(i.octets)
               low == LowOctets(i.octets)
    <2>1. /\ i \in Asked[db] /\ a \in AddressOf(i) /\ row \in RowsFor(a) /\ a.type # 0
          /\ call.op = "getAll" => result.ip = IpOf(i, a) /\ result.ip_no = IpNoOf(a)
          /\ IsInput(i)
      BY AnswersAssumption DEF AddressInv, Known, IInv, Shape
    <2> HIDE DEF i, a
    <2>2. /\ a.type \in {4, 6} /\ a.ip \in Number
          /\ i.octets \in Seq(Octet) /\ Len(i.octets) \in {WordBytes, 4 * WordBytes}
          /\ IsIPv4(i) <=> a.type = 4
          /\ a.type = 4 => a.ip[0] = BigEndian(low)
          /\ a.type = 6 => Whole(a.ip) = number
      BY <2>1, AddressFacts
    <2> HIDE DEF number, low
    <2>3. ASSUME IsIPv4(i)
          PROVE  /\ a.type = 4 /\ row \in db.rows[4]
                 /\ call.op = "getAll" => /\ result.ip = Js("dotted", low)
                                          /\ result.ip_no = Js("number", <<NumberOf(low)>>)
      <3>1. a.type = 4 /\ row \in db.rows[4]
        BY <2>1, <2>2, <2>3 DEF RowsFor
      <3>2. low \in Seq(Octet) /\ Len(low) = WordBytes
        BY <2>2, LastWord DEF low
      <3>3. IPv4Str(a.ip) = low
        BY <2>2, <3>1, <3>2, DottedExact
      <3>4. a.ip[0] = NumberOf(low)
        BY <2>2, <3>1 DEF NumberOf, BigEndian
      <3> QED BY <2>1, <3>1, <3>3, <3>4 DEF IpOf, IpNoOf
    <2>4. ASSUME ~ IsIPv4(i)
          PROVE  /\ a.type = 6 /\ row \in db.rows[6] \cup {NotFound}
                 /\ call.op = "getAll" => /\ result.ip = Js("input", i.octets)
                                          /\ result.ip_no.type = "decimal"
                                          /\ DecimalOf(result.ip_no.is) = number
                                          /\ result.ip_no.is[1] = 0 => number = 0
                 /\ \A g \in Garbage :
                      IPv6Cmp(a.ip, g) =
                        IF number < Whole(g) THEN -1 ELSE IF number > Whole(g) THEN 1 ELSE 0
      <3>1. a.type = 6 /\ row \in db.rows[6] \cup {NotFound} /\ Whole(a.ip) = number
        BY <2>1, <2>2, <2>4 DEF RowsFor
      <3>2. /\ Decimal(a.ip) \in Seq(Digit) /\ Plain(Decimal(a.ip))
            /\ Value(10, Decimal(a.ip)) = number
        BY <2>2, <3>1, DecimalExact
      <3>3. Decimal(a.ip)[1] = 0 => number = 0
        BY <3>2, PlainZero
      <3>4. ASSUME call.op = "getAll"
            PROVE  /\ result.ip = Js("input", i.octets)
                   /\ result.ip_no.type = "decimal" /\ result.ip_no.is = Decimal(a.ip)
        BY <2>1, <3>1, <3>4 DEF IpOf, IpNoOf, Js
      <3>5. ASSUME NEW g \in Garbage
            PROVE  IPv6Cmp(a.ip, g) =
                     IF number < Whole(g) THEN -1 ELSE IF number > Whole(g) THEN 1 ELSE 0
        <4>1. g \in Number
          BY AddressAssumption
        <4> QED BY <2>2, <3>1, <4>1, ComparedExact
      <3> QED BY <3>1, <3>2, <3>3, <3>4, <3>5 DEF DecimalOf
    <2> QED BY <2>3, <2>4 DEF AddressExact, Whole, number, low, i, a
  <1> QED BY <1>1, AddressInvariance, PTL

=============================================================================
