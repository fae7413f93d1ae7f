------------------------------ MODULE Locations ------------------------------
(***************************************************************************)
(* The Location objects of the addon (nodeip2location.cc) over the         *)
(* locations of LocalMaps, and the drop-in module (dropin.js), which has   *)
(* one Location object of its own.                                         *)
(*                                                                         *)
(* An object owns the handle iplocdb: close() and the garbage collector    *)
(* close it.  A call runs to its end before the next one; other programs   *)
(* change the files at any time.                                           *)
(***************************************************************************)
EXTENDS LocalMaps

VARIABLES
  dbmode,   \* dbmode[l]: what location.mode says, None where no object is
  current,  \* the variable location of dropin.js
  wanted    \* the last arguments of IP2Location_init

objects == <<dbmode, current, wanted>>
avars == <<file, table, loc, objects>>

AddonInit ==
  /\ Init
  /\ dbmode = [l \in Loc |-> None]
  /\ current = None
  /\ wanted = None

\* new Location(p, m): throws, and keeps no object, if it cannot be opened.
New(l, p, m) ==
  /\ dbmode[l] = None
  /\ Open(l, p, m)
  /\ IF IsOpen(l)'
     THEN dbmode' = [dbmode EXCEPT ![l] = m]
     ELSE UNCHANGED dbmode
  /\ UNCHANGED <<current, wanted>>

\* location.close(), which does nothing the second time; dropin.js keeps its own.
CloseDatabase(l) ==
  /\ l # current
  /\ Close(l)
  /\ dbmode' = [dbmode EXCEPT ![l] = "closed"]
  /\ UNCHANGED <<current, wanted>>

\* The destructor: the program may have dropped any object by now.
Collect_Bug(l) ==
  /\ dbmode[l] # None /\ l # current
  /\ dbmode' = [dbmode EXCEPT ![l] = None]
  /\ UNCHANGED <<file, table, loc, current, wanted>>
Collect(l) ==
  /\ dbmode[l] # None /\ l # current
  /\ IF IsOpen(l) THEN Close(l) ELSE UNCHANGED <<file, table, loc>>
  /\ dbmode' = [dbmode EXCEPT ![l] = None]
  /\ UNCHANGED <<current, wanted>>

-----------------------------------------------------------------------------
(* The drop-in                                                             *)

\* The nodes, handles and modes when the location of the drop-in is closed.
WithoutCurrent ==
  IF current = None \/ ~ IsOpen(current)
  THEN [table |-> table, loc |-> loc, dbmode |-> dbmode]
  ELSE [table |-> Released(table, current),
        loc |-> [loc EXCEPT ![current] = Closed],
        dbmode |-> [dbmode EXCEPT ![current] = "closed"]]

\* IP2Location_init(): only closes.
DropinClose ==
  /\ current # None
  /\ table' = WithoutCurrent.table
  /\ loc' = WithoutCurrent.loc
  /\ dbmode' = WithoutCurrent.dbmode
  /\ wanted' = None
  /\ UNCHANGED <<file, current>>

(***************************************************************************)
(* IP2Location_init(p, m): closes the location and opens another one, in   *)
(* mmap mode unless m is given.  If that throws the closed one stays.      *)
(***************************************************************************)
DropinInit_Bug(l, p, m) ==
  /\ dbmode[l] = None
  /\ \E o \in Opening(table, p, m) :
       IF o.handle = Closed
       THEN UNCHANGED <<table, loc, dbmode, current>>
       ELSE /\ table' = IF current = None THEN o.table ELSE Released(o.table, current)
            /\ loc' = [WithoutCurrent.loc EXCEPT ![l] = o.handle]
            /\ dbmode' = [WithoutCurrent.dbmode EXCEPT ![l] = m]
            /\ current' = l
  /\ wanted' = [path |-> p, mode |-> m]
  /\ UNCHANGED file
DropinInit(l, p, m) ==
  /\ dbmode[l] = None
  /\ \E o \in Opening(WithoutCurrent.table, p, m) :
       /\ table' = o.table
       /\ loc' = [WithoutCurrent.loc EXCEPT ![l] = o.handle]
       /\ IF o.handle = Closed
          THEN dbmode' = WithoutCurrent.dbmode /\ UNCHANGED current
          ELSE dbmode' = [WithoutCurrent.dbmode EXCEPT ![l] = m] /\ current' = l
  /\ wanted' = [path |-> p, mode |-> m]
  /\ UNCHANGED file

AddonNext ==
  \/ \E l \in Loc, p \in Path, m \in Mode : New(l, p, m) \/ DropinInit(l, p, m)
  \/ \E l \in Loc : CloseDatabase(l) \/ Collect(l)
  \/ DropinClose
  \/ \E p \in Path, d \in Db \cup {None} : Replace(p, d) /\ UNCHANGED objects

AddonSpec == AddonInit /\ [][AddonNext]_avars

-----------------------------------------------------------------------------
(* Properties                                                              *)

\* The variables of the objects hold what the C++ and JavaScript ones can.
ObjectsOK ==
  /\ TypeOK
  /\ dbmode \in [Loc -> Mode \cup {"closed", None}]
  /\ current \in Loc \cup {None}
  /\ wanted \in {None} \cup [path : Path, mode : Mode]

(***************************************************************************)
(* Every open handle belongs to an object that says so ("t.strictEqual(    *)
(* location.mode, ...)", test/test.js:51-66), so that close() or the       *)
(* collector can reach it: nothing stays mapped behind a failed            *)
(* constructor, a collected object or a location the drop-in has replaced. *)
(***************************************************************************)
OpenIsOwned ==
  \A l \in Loc : IF IsOpen(l) THEN dbmode[l] = loc[l].mode
                              ELSE dbmode[l] \in {None, "closed"}

\* location.info() of an open location.
Info(l) ==
  LET n == loc[l].node
      file_info == [path |-> loc[l].path, filesize |-> DbSize[loc[l].db]] IN
  IF n = None
  THEN [file |-> file_info]
  ELSE [file |-> file_info,
        cacheoccupants |-> table[loc[l].mode][n].count,
        cachesize |-> table[loc[l].mode][n].size,
        copybythisprocess |-> table[loc[l].mode][n].copied]

(***************************************************************************)
(* A path is mapped once per mode: info().cacheoccupants of a mapped       *)
(* location counts all open locations of its path and mode, whatever has   *)
(* been closed, collected or replaced in between.                          *)
(***************************************************************************)
OccupantsExact ==
  \A l \in Loc : IsOpen(l) /\ loc[l].mode \in Mapped =>
    Info(l).cacheoccupants =
      Cardinality({k \in Loc : loc[k].path = loc[l].path /\ loc[k].mode = loc[l].mode})

(***************************************************************************)
(* The drop-in answers from the file of the last IP2Location_init or not   *)
(* at all: an init that throws leaves nothing of the database before.      *)
(***************************************************************************)
LastInitAnswers ==
  current # None /\ IsOpen(current) =>
    wanted = [path |-> loc[current].path, mode |-> loc[current].mode]

(***************************************************************************)
(* IP2Location_init(p) after p was replaced reads the new file, unless the *)
(* program has p open itself: the old mapping is let go of before the      *)
(* path is looked up.                                                      *)
(***************************************************************************)
InitReadsCurrent ==
  [][/\ current' # current
     /\ ~ \E k \in Loc \ {current} : /\ loc[k].path = wanted'.path
                                     /\ loc[k].mode = wanted'.mode
     => Contents(current)' = file[wanted'.path]]_avars
=============================================================================
