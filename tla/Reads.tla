-------------------------------- MODULE Reads --------------------------------
(***************************************************************************)
(* Reading numbers and strings of an open database (ip2ldatabase.c): from  *)
(* its file, or, when it is cached, from the memory that holds it.         *)
(*                                                                         *)
(* Strings are returned as pointers: into the memory of a cached database, *)
(* else to the static buffer str, which the next such read overwrites.  A  *)
(* string is the octet of its length and as many octets.                   *)
(***************************************************************************)
EXTENDS MachineWords, Integers, Sequences

ReadError == WordMod - 1   \* IP2LreadError32

\* The octet at an offset of the file or memory, Outside behind its end.
Outside == ByteMod
ByteAt(r, i) == IF i \in 0 .. (Len(r.bytes) - 1) THEN r.bytes[i + 1] ELSE Outside

(***************************************************************************)
(* IP2LocationRead32 and IP2LocationReadFloat, with what they return when  *)
(* the word is not there.  Both modes bound it by the length: the cached   *)
(* one compares in size_t, so that position 0 is far behind the end.       *)
(***************************************************************************)
ReadWord_Bug(r, position, error) ==
  LET at == Wrap(position - 1)
      half(k) == ByteAt(r, at + k) + ByteMod * ByteAt(r, at + k + 1)
  IN IF at + WordBytes > Len(r.bytes) + 1 THEN error
     ELSE IF WordBytes = 2 THEN half(0) ELSE half(0) + ByteMod * ByteMod * half(2)
ReadWord(r, position, error) ==
  LET at == Wrap(position - 1)
      half(k) == ByteAt(r, at + k) + ByteMod * ByteAt(r, at + k + 1)
  IN IF at + WordBytes > Len(r.bytes) THEN error
     ELSE IF WordBytes = 2 THEN half(0) ELSE half(0) + ByteMod * ByteMod * half(2)
Read32(r, position) == ReadWord(r, position, ReadError)
ReadFloat(r, position) == ReadWord(r, position, 0)

Pointer(to, at) == [to |-> to, at |-> at]
ErrorStr == Pointer("error", 0)

(***************************************************************************)
(* IP2LocationReadStr: the pointer it returns, and str after it.  From a   *)
(* file the length is read first; an fread of no octets counts as failed   *)
(* (the error string is empty too), a short one has stored what there is.  *)
(* From memory the bound is a 32 bit sum.                                  *)
(***************************************************************************)
FileStr_Bug(r, str, position) ==
  LET length == ByteAt(r, position)
      there == {i \in 0 .. length : ByteAt(r, position + i) # Outside}
  IN IF length = Outside
     THEN [data |-> ErrorStr, str |-> str]
     ELSE [data |-> Pointer("str", 0),
           str |-> [i \in DOMAIN str |-> IF i \in there THEN ByteAt(r, position + i)
                                                       ELSE str[i]]]
FileStr(r, str, position) ==
  LET length == ByteAt(r, position)
      there == {i \in 0 .. length : ByteAt(r, position + i) # Outside}
  IN IF length = Outside
     THEN [data |-> ErrorStr, str |-> str]
     ELSE [data |-> IF length > 0 /\ there = 0 .. length THEN Pointer("str", 0) ELSE ErrorStr,
           str |-> [i \in DOMAIN str |-> IF i \in there THEN ByteAt(r, position + i)
                                                       ELSE str[i]]]

MemoryStr_Bug(r, position) ==
  IF position >= Len(r.bytes) \/ Wrap(position + ByteAt(r, position)) > Len(r.bytes)
  THEN ErrorStr ELSE Pointer("memory", position)
MemoryStr(r, position) ==
  IF position >= Len(r.bytes) \/ Wrap(position + ByteAt(r, position)) >= Len(r.bytes)
  THEN ErrorStr ELSE Pointer("memory", position)

ReadStr(r, str, position) ==
  IF r.cached THEN [data |-> MemoryStr(r, position), str |-> str]
              ELSE FileStr(r, str, position)

\* A position that could not be read is not told from a position.
ReadStrIndexAtOffset(r, str, position, offset) ==
  ReadStr(r, str, Wrap(Read32(r, position) + offset))

\* Copying the string that a pointer points to.
StringAt(r, str, p) ==
  IF p.to = "memory" THEN [i \in 1 .. ByteAt(r, p.at) |-> ByteAt(r, p.at + i)]
  ELSE IF p.to = "str" THEN [i \in 1 .. str[0] |-> str[i]]
  ELSE <<>>
=============================================================================
