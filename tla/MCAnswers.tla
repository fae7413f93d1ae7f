------------------------------ MODULE MCAnswers ------------------------------
(* Small databases and inputs for Answers: octets of 2 bits, words of 2     *)
(* octets, so that numbers of 4 words go to 65535.                          *)
EXTENDS Answers

Text(family, octets) == [kind |-> "text", family |-> family, octets |-> octets]
Buffer(octets) == [kind |-> "buffer", family |-> 0, octets |-> octets]

OctetsOf(w) == <<w \div ByteMod, w % ByteMod>>

MCGarbage == {[k \in 0 .. 3 |-> 0], [k \in 0 .. 3 |-> 9], [k \in 0 .. 3 |-> k * 5]}

\* Long addresses: every last word, and words around the mark of mapped ones.
Long == {OctetsOf(c) \o OctetsOf(d) \o OctetsOf(b) \o OctetsOf(a) :
           a \in Word, b \in {0, 3, 4, 15}, c \in {0, 15}, d \in {0, 15}}
Short == {OctetsOf(a) : a \in Word}

MCInputs ==
  {Text(4, o) : o \in Short} \cup {Text(6, o) : o \in Long} \cup {Text(0, <<>>), NoInput}
    \cup {Buffer(o) : o \in Short \cup Long \cup {<<>>, <<1>>, <<0, 0, 1>>, <<3, 3, 3, 3, 3, 3, 3>>}}

\* A database without columns, with and without an IPv6 table.
Bare(rows6) ==
  [cached |-> TRUE, bytes |-> <<0, 0, 0, 0>>, column |-> [f \in Field |-> 0],
   rows |-> [f \in {4, 6} |-> IF f = 4 THEN {1} ELSE rows6]]

(***************************************************************************)
(* Databases of one row: its address, the positions of the country and the *)
(* region, a latitude, then the strings.  A wrapped table, which Header    *)
(* accepts, may have more rows anywhere, cut off by the end of the file.   *)
(***************************************************************************)
Full(cached, country, region, latitude, strings, rows) ==
  [cached |-> cached,
   bytes |-> <<0, 0, country % 4, country \div 4, region % 4, region \div 4,
               latitude % 4, latitude \div 4>> \o strings,
   column |-> [f \in Field |-> <<2, 2, 4, 6, 0, 0>>[f + 1]],
   rows |-> [f \in {4, 6} |-> IF f = 4 THEN rows ELSE {}]]

Strings == {<<a, b, 1, c>> : a \in Octet, b \in {0, 3}, c \in {0, 2}} \cup {<<2, 1, 3>>}

MCFull ==
  {Full(c, p, r, l, s, {1}) :
     c \in BOOLEAN, p \in Word, r \in {10}, l \in {9}, s \in Strings}
    \cup {Full(c, p, 9, 0, s, {1, 5, 6, 10}) : c \in BOOLEAN, p \in {8, 14}, s \in Strings}

MCDatabases == {Bare({}), Bare({1})} \cup MCFull
MCAsked ==
  [d \in MCDatabases |-> IF d.column[0] = 0 THEN MCInputs ELSE {Text(4, <<1, 2>>)}]
MCMasks == {{0, 1, 2, 3, 4, 5}, {1, 2}}
=============================================================================
