--------------------------- MODULE MCSharedMemory ---------------------------
(* Small instances of SharedMemory for TLC.                                *)
EXTENDS SharedMemory, TLC

CONSTANTS A, B, C   \* the databases

(***************************************************************************)
(* Pages of 4 bytes.  A and B have different sizes and the same number of  *)
(* pages, A and C have different numbers of pages.  B's size is an offset  *)
(* at which A has the byte 0xFF.  The header of C promises more bytes than *)
(* C has.                                                                  *)
(***************************************************************************)
MCPageSize == 4
MCDbSize == [d \in Db |-> CASE d = A -> 6 [] d = B -> 5 [] d = C -> 8]
MCExtent == [d \in Db |-> CASE d = A -> 5 [] d = B -> 5 [] d = C -> 9]
MCFFAt == [d \in Db |-> IF d = A THEN {2, 5} ELSE {}]

Symmetry == UNION {Permutations(Proc), Permutations(Loc), Permutations(Node),
                   Permutations(Ino), Permutations(Name)}
=============================================================================
