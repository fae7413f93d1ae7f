------------------------------ MODULE MCHeader ------------------------------
(* Headers for Header: each set bends one part of a well formed header.     *)
EXTENDS Header

\* A file that ends with its last table; IPv6 follows IPv4.
WellFormed(type, count, v6count, spare) ==
  LET col == MaxPosition(type)
      v6addr == BaseAddr + col * 4 * (count + 1)
      v6end == v6addr + (16 + (col - 1) * 4) * (v6count + 1) IN
  [type |-> type, column |-> col, month |-> 1, day |-> 1, count |-> count,
   addr |-> BaseAddr, v6count |-> v6count, v6addr |-> v6addr,
   size |-> (IF v6count = 0 THEN v6addr ELSE v6end) + spare]

AllTypes ==
  {WellFormed(t, 3, n, 0) : t \in 0 .. MaxDbType, n \in {0, 1, 2}}
BadTypes ==
  {[WellFormed(t, 2, 2, 4) EXCEPT !.column = c, !.type = u] :
     t \in {1, 3, 24}, c \in {0, 1, 2, 4, 20, 21}, u \in {0, 1, 2, 3, 24, 25, 255}}
BadDates ==
  {[WellFormed(1, 2, 0, 0) EXCEPT !.month = m, !.day = d] :
     m \in {0, 12, 13}, d \in {0, 31, 32}}
BadTables ==
  {[WellFormed(t, 2, 2, s) EXCEPT !.count = n, !.v6count = m, !.addr = BaseAddr + a,
      !.v6addr = BaseAddr + b] :
     t \in {1, 3}, s \in {-1, 0, 4, 8}, n \in {0, 1, 2, 3}, m \in {0, 1, 2, 3},
     a \in {-1, 0, 1}, b \in {0, 1, 24, 36, 48}}

MCHeaders == AllTypes \cup BadTypes \cup BadDates \cup BadTables
MCMasks == {Field, 0 .. 31} \cup {{f} : f \in 0 .. 20}
             \cup {{0, 1, 2, 3}, {1, 5, 6}}
=============================================================================
