------------------------------ MODULE Addresses ------------------------------
(***************************************************************************)
(* The addresses that lookups take (src/ip2location/ip2lipaddress.c): text *)
(* or bytes to numbers, their order, and numbers back to text.             *)
(*                                                                         *)
(* A number has four words, ip[0] the lowest; an IPv4 address is one word. *)
(* A word has WordBytes octets of ByteBits bits (4 and 8 in the code).     *)
(***************************************************************************)
EXTENDS MachineWords, Integers, Sequences

CONSTANTS
  DecimalSize,   \* IP2L_ULONG128_DECIMAL_SIZE, 40
  Garbage        \* what an ipv6le128_t on the stack may hold before

Number == [0 .. 3 -> Word]

\* The buffers have room for four words in decimal: 2^128 is below 10^39.
ASSUME AddressAssumption ==
  /\ DecimalSize \in Nat \ {0}
  /\ WordMod * WordMod * WordMod * WordMod <= 10 ^ (DecimalSize - 1)
  /\ Garbage \subseteq Number /\ Garbage # {}

\* What the provers do not derive of powers.
ASSUME ExponentAssumption ==
  /\ WordMod = ByteMod ^ WordBytes
  /\ \A b \in {2, 10, ByteMod} : b ^ 0 = 1
  /\ \A n \in 0 .. (WordBytes - 1) : ByteMod ^ (n + 1) = ByteMod ^ n * ByteMod
  /\ \A n \in 0 .. (WordBits - 1) : 2 ^ (n + 1) = 2 ^ n * 2
  /\ \A n \in 0 .. (DecimalSize - 2) : 10 ^ (n + 1) = 10 ^ n * 10

-----------------------------------------------------------------------------
\* The number that digits stand for in a base, the highest one first.
Value(base, digits) ==
  LET v[n \in 0 .. Len(digits)] == IF n = 0 THEN 0 ELSE v[n - 1] * base + digits[n]
  IN v[Len(digits)]

\* ntohl, and the shifts of IP2LocationIPBin2No: the first octet is the highest.
BigEndian(b) == Value(ByteMod, b)

WordOf(b, k) == BigEndian(SubSeq(b, k * WordBytes + 1, (k + 1) * WordBytes))

\* The words of a long address, the first one on the wire in ui32[3].
Words(b) == [k \in 0 .. 3 |-> WordOf(b, 3 - k)]

\* The prefix of IPv4-mapped addresses, ::ffff:0:0/96.
Mark == (ByteMod ^ (WordBytes \div 2)) - 1
IsMapped(ip) == ip[1] = Mark /\ ip[2] = 0 /\ ip[3] = 0

(***************************************************************************)
(* IP2LocationIP2No, where family is the one whose inet_pton accepts the   *)
(* text and b what it stores, 0 for neither: what the function may return  *)
(* and leave in ip.  Of a short address only ip[0] is assigned.            *)
(***************************************************************************)
IP2No_Bug(family, b) ==
  IF family = 6 THEN {[type |-> 6, ip |-> Words(b)]}
  ELSE {[type |-> family, ip |-> IF family = 4 THEN [g EXCEPT ![0] = BigEndian(b)] ELSE g] :
          g \in Garbage}
IP2No(family, b) ==
  IF family = 6 THEN {[type |-> IF IsMapped(Words(b)) THEN 4 ELSE 6, ip |-> Words(b)]}
  ELSE {[type |-> family, ip |-> IF family = 4 THEN [g EXCEPT ![0] = BigEndian(b)] ELSE g] :
          g \in Garbage}

\* IP2LocationIPBin2No does the same with the bytes of a Buffer.
IPBin2No(b) ==
  IP2No(IF Len(b) = WordBytes THEN 4 ELSE IF Len(b) = 4 * WordBytes THEN 6 ELSE 0, b)

\* IP2LocationIPv6Cmp: the first words that differ, from the highest.
IPv6Cmp(a, b) ==
  IF a = b THEN 0
  ELSE LET k == CHOOSE i \in 0 .. 3 : a[i] # b[i] /\ \A j \in (i + 1) .. 3 : a[j] = b[j] IN
    IF a[k] > b[k] THEN 1 ELSE -1

\* IP2LocationIPv4Str: ui8[3] to ui8[0] on a little endian machine.
IPv4Str(ip) ==
  [i \in 1 .. WordBytes |-> (ip[0] \div (ByteMod ^ (WordBytes - i))) % ByteMod]

-----------------------------------------------------------------------------
(* IP2LocationULong128ToDecimal                                            *)

\* The bits of a number, as segment and mask go through them.
Bits(ip) ==
  [i \in 1 .. (4 * WordBits) |->
     LET segment == ip[3 - ((i - 1) \div WordBits)] IN
       (segment \div 2 ^ (WordBits - 1 - ((i - 1) % WordBits))) % 2]

\* The carry into the place before each digit when digits, from head to the end
\* of buf, are doubled and a bit is added.
Carries(digits, bit) ==
  LET n == Len(digits)
      c[i \in 1 .. (n + 1)] ==
        IF i = n + 1 THEN bit ELSE IF 2 * digits[i] + c[i + 1] > 9 THEN 1 ELSE 0
  IN c

\* The digits after that: a carry out of the first one is a new first digit.
Doubled_Bug(digits, bit) ==
  LET carry == Carries(digits, bit)
  IN <<carry[1]>> \o [i \in 1 .. Len(digits) |-> (2 * digits[i] + carry[i + 1]) % 10]
Doubled(digits, bit) ==
  LET carry == Carries(digits, bit)
      rest == [i \in 1 .. Len(digits) |-> (2 * digits[i] + carry[i + 1]) % 10]
  IN IF carry[1] = 1 THEN <<1>> \o rest ELSE rest

Decimal(ip) ==
  LET bits == Bits(ip)
      digits[n \in 0 .. Len(bits)] == IF n = 0 THEN <<0>> ELSE Doubled(digits[n - 1], bits[n])
  IN digits[Len(bits)]
=============================================================================
