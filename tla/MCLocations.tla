----------------------------- MODULE MCLocations -----------------------------
(* Small instances of Locations for TLC.                                   *)
EXTENDS MCLocalMaps, Locations
=============================================================================
