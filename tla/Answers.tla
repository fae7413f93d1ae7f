------------------------------- MODULE Answers -------------------------------
(***************************************************************************)
(* What a program gets for an address: Location::GetAll, Location::Query   *)
(* and the getters of dropin.js, over a location that is opened once and   *)
(* closed.  Header says where the columns of a row are and RowLookup which *)
(* row an address has; here a lookup may find any of its rows.             *)
(***************************************************************************)
EXTENDS Addresses, Reads, FiniteSets

CONSTANTS
  Field,      \* the fields, in the order of their bits: a set of numbers
  Floats, ZeroFields, LongName,
  Masks,      \* masks passed to query()
  Databases,  \* the databases to read
  Asked       \* Asked[d]: the inputs tried with database d

NotFound == 0
NoInput == [kind |-> "none", family |-> 0, octets |-> <<>>]

(***************************************************************************)
(* An input is a Buffer, or something else that is turned into text, of    *)
(* which only matters the family of addresses it is one of and its octets. *)
(* A database has its octets, the offset of the column of each field (0    *)
(* for none) and the positions of the rows of each family.                 *)
(***************************************************************************)
IsInput(i) ==
  /\ i.kind \in {"text", "buffer", "none"}
  /\ i.octets \in Seq(Octet)
  /\ i.kind # "buffer" =>
       i.family \in {0, 4, 6} /\ Len(i.octets) = CASE i.family = 4 -> WordBytes
                                                   [] i.family = 6 -> 4 * WordBytes
                                                   [] OTHER -> 0
IsDatabase(d) ==
  /\ d.cached \in BOOLEAN
  /\ d.bytes \in Seq(Octet) /\ Len(d.bytes) <= WordMod - 2
  /\ d.column \in [Field -> Nat]
  /\ d.rows \in [{4, 6} -> SUBSET (1 .. (WordMod - 1))] /\ d.rows[4] # {}

ASSUME AnswersAssumption ==
  /\ Field \subseteq Nat /\ IsFiniteSet(Field) /\ LongName \in Field
  /\ Floats \subseteq Field /\ ZeroFields \subseteq Field
  /\ \A d \in Databases : IsDatabase(d) /\ \A i \in Asked[d] : IsInput(i)

VARIABLES
  db,        \* the database
  location,  \* "none" before it is opened, "open" or "closed"
  str,       \* the static buffer of IP2LocationReadStr
  value,     \* the static float of IP2LocationRowData
  call,      \* the call that runs: its operation, input and mask
  ipaddr,    \* the address of the input
  row,       \* dboffset
  todo,      \* the fields the loop has not come to
  data,      \* the pointer that IP2LocationRowData has left
  result     \* the object that is returned

statics == <<str, value>>
progress == <<call, ipaddr, row, todo, data>>
vars == <<db, location, statics, progress, result>>

-----------------------------------------------------------------------------
\* JavaScript values.
Js(type, seq) == [type |-> type, is |-> seq]
Unknown == Js("?", <<>>)
NotSupported == Js("not supported", <<>>)
Zero == Js("number", <<0>>)

Result(status, ip, no, fields) == [status |-> status, ip |-> ip, ip_no |-> no, fields |-> fields]
NoResult == Result("", Unknown, Unknown, <<>>)

\* SetResultErrorStatus
Failure(status, ip, no) == Result(status, ip, no, [f \in Field |-> Unknown])

NoCall == [op |-> "none", input |-> NoInput, mask |-> {}]
NoAddress == [type |-> 0, ip |-> [k \in 0 .. 3 |-> 0]]
Null == Pointer("null", 0)

ModeMask == {f \in Field : db.column[f] # 0}
HasIPV6 == db.rows[6] # {}

\* What IP2LocationFindRow or FindRow2 make of the input.
AddressOf(i) == IF i.kind = "buffer" THEN IPBin2No(i.octets) ELSE IP2No(i.family, i.octets)

\* The rows a lookup may find: an IPv4 search always finds one.
RowsFor(a) == CASE a.type = 4 -> db.rows[4]
                [] a.type = 6 -> db.rows[6] \cup {NotFound}
                [] OTHER      -> {NotFound}

Init ==
  /\ db \in Databases
  /\ location = "none"
  /\ str = [i \in 0 .. ByteMod |-> 0] /\ value = 0
  /\ call = NoCall /\ ipaddr = NoAddress /\ row = NotFound
  /\ todo = {} /\ data = Null /\ result = NoResult

Idle == call = NoCall

Open == Idle /\ location # "open" /\ location' = "open"
          /\ UNCHANGED <<db, statics, progress, result>>
CloseDatabase == Idle /\ location = "open" /\ location' = "closed"
          /\ UNCHANGED <<db, statics, progress, result>>

\* A call starts; it ends at once with r, or loops over the fields.
Answer(op, i, mask, r) ==
  /\ call' = [op |-> op, input |-> i, mask |-> mask]
  /\ result' = r
  /\ UNCHANGED <<db, location, statics, ipaddr, row, todo, data>>
Begin(op, i, mask, a, at, fields, r) ==
  /\ call' = [op |-> op, input |-> i, mask |-> mask]
  /\ ipaddr' = a /\ row' = at /\ todo' = fields /\ result' = r
  /\ UNCHANGED <<db, location, statics, data>>

\* ip and ip_no: of a long address the input itself and the decimal number.
IpOf(i, a) == IF a.type = 4 THEN Js("dotted", IPv4Str(a.ip)) ELSE Js("input", i.octets)
IpNoOf(a) == IF a.type = 4 THEN Js("number", <<a.ip[0]>>) ELSE Js("decimal", Decimal(a.ip))

\* getAll(), and IP2Location_get_all() which also answers before the first init.
GetAll(i) ==
  /\ Idle
  /\ IF location # "open"
     THEN Answer("getAll", i, {},
            Failure(IF location = "none" THEN "RUN_INIT_FIRST" ELSE "MISSING_FILE",
                    Unknown, Unknown))
     ELSE \E a \in AddressOf(i) : \E at \in RowsFor(a) :
            IF a.type = 0 \/ (a.type = 6 /\ ~ HasIPV6)
            THEN Begin("getAll", i, {}, a, NotFound, {},
                   Failure(IF a.type = 0 THEN "INVALID_IP_ADDRESS" ELSE "IPV6_NOT_SUPPORTED",
                           Unknown, Unknown))
            ELSE IF at = NotFound
            THEN Begin("getAll", i, {}, a, at, {},
                   Failure("IP_ADDRESS_NOT_FOUND", IpOf(i, a), IpNoOf(a)))
            ELSE Begin("getAll", i, Field, a, at, ModeMask,
                   Result("OK", IpOf(i, a), IpNoOf(a),
                     [f \in Field \ ModeMask |-> IF f \in ZeroFields THEN Zero ELSE NotSupported]))

\* What query() and the getters do with an address.
Find(op, i, mask) ==
  \E a \in AddressOf(i) : \E at \in RowsFor(a) :
    Begin(op, i, mask, a, at, IF at = NotFound THEN {} ELSE ModeMask \cap mask,
          IF at = NotFound THEN Failure("null", Unknown, Unknown)
                           ELSE Result("object", Unknown, Unknown, <<>>))

Query(i, mask) ==
  /\ Idle /\ location # "none"
  /\ IF location = "closed" \/ i = NoInput
     THEN Answer("query", i, mask, Failure("throws", Unknown, Unknown))
     ELSE Find("query", i, mask)

\* IP2Location_get_<f>()
Get(i, f) ==
  /\ Idle
  /\ IF location # "open"
     THEN Answer("get", i, {f}, Result("value", Unknown, Unknown, [g \in {f} |-> Unknown]))
     ELSE Find("get", i, {f})

\* The loop goes through the fields in their order.
IsNext(f) == f \in todo /\ \A g \in todo : f <= g

\* IP2LocationRowData
Fetch(f) ==
  /\ IsNext(f) /\ data = Null
  /\ LET at == Wrap(row + db.column[f])
         s == ReadStrIndexAtOffset(db, str, at, IF f = LongName THEN 3 ELSE 0)
     IN IF f \in Floats
        THEN data' = Pointer("value", 0) /\ value' = ReadFloat(db, at) /\ UNCHANGED str
        ELSE data' = s.data /\ str' = s.str /\ UNCHANGED value
  /\ UNCHANGED <<db, location, call, ipaddr, row, todo, result>>

\* The loop makes a JavaScript value of what the pointer points to.
Store(f) ==
  /\ IsNext(f) /\ data # Null
  /\ LET v == IF data.to = "value" THEN Js("number", <<value>>)
                                   ELSE Js("string", StringAt(db, str, data))
     IN result' = [result EXCEPT !.fields =
                     [g \in DOMAIN @ \cup {f} |-> IF g = f THEN v ELSE @[g]]]
  /\ todo' = todo \ {f}
  /\ data' = Null
  /\ UNCHANGED <<db, location, statics, call, ipaddr, row>>

Done == ~ Idle /\ todo = {} /\ data = Null

\* result ? (result[attr] || fallback) : '?'
Falsy(v) == v.is = <<>> \/ v = Zero
Reply ==
  /\ Done /\ call.op = "get" /\ result.status \in {"object", "null"}
  /\ result' = Result("value", Unknown, Unknown,
       [f \in call.mask |->
          IF result.status = "null" THEN Unknown
          ELSE IF f \in DOMAIN result.fields /\ ~ Falsy(result.fields[f]) THEN result.fields[f]
          ELSE IF f \in ZeroFields THEN Zero ELSE NotSupported])
  /\ UNCHANGED <<db, location, statics, progress>>

Return ==
  /\ Done /\ result.status \notin (IF call.op = "get" THEN {"object", "null"} ELSE {})
  /\ call' = NoCall /\ ipaddr' = NoAddress /\ row' = NotFound /\ result' = NoResult
  /\ UNCHANGED <<db, location, statics, todo, data>>

Next ==
  \/ Open \/ CloseDatabase
  \/ \E i \in Asked[db] : \/ GetAll(i)
                          \/ \E mask \in Masks : Query(i, mask)
                          \/ \E f \in Field : Get(i, f)
  \/ \E f \in todo : Fetch(f) \/ Store(f)
  \/ Reply \/ Return

Spec == Init /\ [][Next]_vars

-----------------------------------------------------------------------------
(* Properties                                                              *)

\* The variables hold what the C++ and JavaScript ones can.
TypeOK ==
  /\ IsDatabase(db)
  /\ location \in {"none", "open", "closed"}
  /\ str \in [0 .. ByteMod -> Octet] /\ value \in Word
  /\ ipaddr.type \in {0, 4, 6} /\ ipaddr.ip \in Number
  /\ row \in Word /\ todo \subseteq Field
  /\ data = Null \/ todo # {}
  /\ DOMAIN result.fields \subseteq Field

\* The whole number that octets stand for, and the one decimal digits do.
NumberOf(octets) == Value(ByteMod, octets)
DecimalOf(digits) == Value(10, digits)

\* The input is an IPv4 address, as such or mapped into IPv6.
IsIPv4(i) ==
  \/ Len(i.octets) = WordBytes
  \/ NumberOf(i.octets) \div WordMod = Mark
LowOctets(octets) == SubSeq(octets, Len(octets) - WordBytes + 1, Len(octets))

(***************************************************************************)
(* All spellings of an address get the same answer: "should query IPv4 and *)
(* IPv4 -> IPv6 embedded addresses" and "should return same records with   *)
(* binary and string IP" (test/test.dropin.js:85, :110).  ip, ip_no and    *)
(* the table that is searched depend on the address alone, whatever the    *)
(* stack held before; a decimal is exact and without leading zeros; and    *)
(* the search compares long addresses as the numbers they are.             *)
(***************************************************************************)
AddressExact ==
  row # NotFound \/ result.ip # Unknown =>
    LET i == call.input
        number == NumberOf(i.octets) IN
    IF IsIPv4(i)
    THEN /\ ipaddr.type = 4 /\ row \in db.rows[4]
         /\ call.op = "getAll" => /\ result.ip = Js("dotted", LowOctets(i.octets))
                                  /\ result.ip_no = Js("number", <<NumberOf(LowOctets(i.octets))>>)
    ELSE /\ ipaddr.type = 6 /\ row \in db.rows[6] \cup {NotFound}
         /\ call.op = "getAll" => /\ result.ip = Js("input", i.octets)
                                  /\ result.ip_no.type = "decimal"
                                  /\ DecimalOf(result.ip_no.is) = number
                                  /\ result.ip_no.is[1] = 0 => number = 0
         /\ \A g \in Garbage :
              LET other == ((g[3] * WordMod + g[2]) * WordMod + g[1]) * WordMod + g[0] IN
                IPv6Cmp(ipaddr.ip, g) = IF number < other THEN -1 ELSE IF number > other THEN 1 ELSE 0

(***************************************************************************)
(* The decimal of any address, with the zero octet behind it, fits into    *)
(* the buffers of ip2lipaddress.c:84-122 and nodeip2location.cc:415, which *)
(* are filled from their ends without a check.                             *)
(***************************************************************************)
DecimalInBuffer ==
  result.ip_no.type = "decimal" => Len(result.ip_no.is) + 1 <= DecimalSize

\* The file is so short that a position and a length of a string do not wrap.
SumsFit == Len(db.bytes) + ByteMod <= WordMod + 1

(***************************************************************************)
(* No string is read behind the end of the memory of a cached database,    *)
(* wherever the positions in it point to: "if (position >= cache->size ||  *)
(* position + p[position] >= cache->size)" (ip2ldatabase.c:544).           *)
(***************************************************************************)
ReadsInside ==
  data.to = "memory" /\ SumsFit =>
    /\ data.at < Len(db.bytes)
    /\ data.at + ByteAt(db, data.at) < Len(db.bytes)

\* What the file holds for field f of the row, however it is read.
WordAt(p) ==
  LET half(k) == db.bytes[p + k] + ByteMod * db.bytes[p + k + 1] IN
    IF WordBytes = 2 THEN half(0) ELSE half(0) + ByteMod * ByteMod * half(2)
TextAt(p) ==
  IF p < Len(db.bytes) /\ p + db.bytes[p + 1] < Len(db.bytes)
  THEN [i \in 1 .. db.bytes[p + 1] |-> db.bytes[p + 1 + i]]
  ELSE <<>>
Held(f) ==
  LET at == row + db.column[f] IN
    IF f \in Floats THEN Js("number", <<WordAt(at)>>)
    ELSE Js("string", TextAt(Wrap(WordAt(at) + IF f = LongName THEN 3 ELSE 0)))

(***************************************************************************)
(* A call returns what the file holds, in every mode the same: of a string *)
(* that is not all in the file it returns nothing, and no octet that an    *)
(* earlier read has left in a static buffer.  A getter says the same as    *)
(* getAll() but for empty strings.                                         *)
(***************************************************************************)
ReadsExact ==
  row # NotFound /\ SumsFit =>
    \A f \in DOMAIN result.fields \cap ModeMask :
      row + db.column[f] + WordBytes - 1 <= Len(db.bytes) =>
        result.fields[f] =
          IF result.status = "value" /\ Falsy(Held(f))
          THEN IF f \in ZeroFields THEN Zero ELSE NotSupported
          ELSE Held(f)
=============================================================================
