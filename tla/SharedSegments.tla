--------------------------- MODULE SharedSegments ---------------------------
(***************************************************************************)
(* What the shared memory mode promises, without its protocol: databases   *)
(* in named segments, and clients that read them.  A segment is filled     *)
(* once, completely, before its first reader; a reader keeps its segment,  *)
(* and the segment its contents, whatever becomes of the name; a segment   *)
(* is used anew when it has neither a name nor a reader.                   *)
(***************************************************************************)
CONSTANTS
  Name,     \* names of shared memory
  Segment,  \* segments, used again when free
  Client,   \* location handles of all processes
  Db,       \* database files
  DbSize,   \* their lengths
  None

VARIABLES
  named,     \* named[nm]: the segment under a name, or None
  contents,  \* contents[s]: the database a segment holds, None until loaded
  reads      \* reads[c]: the segment client c reads and the file it asked for

svars == <<named, contents, reads>>

NoRead == [of |-> None, file |-> None]

Readers(s) == {c \in Client : reads[c].of = s}
Free(s) == Readers(s) = {} /\ \A nm \in Name : named[nm] # s

Init ==
  /\ named = [nm \in Name |-> None]
  /\ contents = [s \in Segment |-> None]
  /\ reads = [c \in Client |-> NoRead]

\* A client puts a blank segment under a name nobody uses.
Reserve(nm, s) ==
  /\ named[nm] = None
  /\ Free(s)
  /\ named' = [named EXCEPT ![nm] = s]
  /\ contents' = [contents EXCEPT ![s] = None]
  /\ UNCHANGED reads

\* It has loaded a database there; the name may be gone by now.
Load(s, d) ==
  /\ contents[s] = None
  /\ contents' = [contents EXCEPT ![s] = d]
  /\ UNCHANGED <<named, reads>>

\* A client starts to read a loaded database of the size of its file.
Attach(c, s, d) ==
  /\ reads[c] = NoRead
  /\ contents[s] # None
  /\ DbSize[contents[s]] = DbSize[d]
  /\ reads' = [reads EXCEPT ![c] = [of |-> s, file |-> d]]
  /\ UNCHANGED <<named, contents>>

\* One client closes, or all clients of a process die.
Leave(C) ==
  /\ reads' = [c \in Client |-> IF c \in C THEN NoRead ELSE reads[c]]
  /\ UNCHANGED <<named, contents>>

\* A name is deleted, or given up by who could not load it or find it loaded.
Remove(nm) ==
  /\ named' = [named EXCEPT ![nm] = None]
  /\ UNCHANGED <<contents, reads>>

Next ==
  \/ \E nm \in Name : Remove(nm) \/ \E s \in Segment : Reserve(nm, s)
  \/ \E s \in Segment, d \in Db : Load(s, d) \/ \E c \in Client : Attach(c, s, d)
  \/ \E C \in SUBSET {c \in Client : reads[c] # NoRead} : Leave(C)

Spec == Init /\ [][Next]_svars
=============================================================================
