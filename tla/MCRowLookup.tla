----------------------------- MODULE MCRowLookup -----------------------------
(* Small tables for RowLookup: positions of 7 bits, addresses 0 to MaxAddr. *)
EXTENDS RowLookup

CONSTANTS MaxRows, Bases, Start0

Width(family) == IF family = 4 THEN 4 ELSE 16

(***************************************************************************)
(* The file of a table with the given first addresses, columns of country  *)
(* only, and what lies around the table.                                   *)
(***************************************************************************)
Table(family, cached, base, count, first, junk) ==
  LET w == Width(family)
      col == w + 4
      size == base + col * (count + 1) IN
  [family |-> family, cached |-> cached, width |-> w, base |-> base,
   col |-> col, count |-> count, size |-> size,
   word |-> [o \in 0 .. (size - 1) |->
      LET m == (o - base + 1) \div col IN
        IF o = base - 1 + m * col /\ m \in 0 .. (count - 1)
        THEN first[m] ELSE junk]]

FewestRows(family) == IF family = 4 THEN 2 ELSE 0

\* All tables with MaxRows rows or less, sorted or not.
MCDatabases ==
  UNION {UNION {
    {Table(f, c, b, n, first, MaxAddr) :
       c \in BOOLEAN, b \in Bases,
       first \in {g \in [0 .. (n - 1) -> Address] : n > 0 => g[0] \in Start0}}
      : n \in FewestRows(f) .. MaxRows} : f \in {4, 6}}
=============================================================================
