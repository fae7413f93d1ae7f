----------------------------- MODULE MCLocalMaps -----------------------------
(* Small instances of LocalMaps for TLC.                                   *)
EXTENDS LocalMaps, TLC

CONSTANTS A, B, C, D   \* the contents of files

(***************************************************************************)
(* B is longer than A, the header of C promises more bytes than C has, and *)
(* D is too short to be a database.                                        *)
(***************************************************************************)
MCDbSize == [d \in Db |-> CASE d = A -> 2 [] d = B -> 3 [] d = C -> 2 [] d = D -> 1]
MCExtent == [d \in Db |-> CASE d = A -> 2 [] d = B -> 3 [] d = C -> 3 [] d = D -> 1]

Symmetry == Permutations(Loc) \cup Permutations(Node) \cup Permutations(Path)
=============================================================================
