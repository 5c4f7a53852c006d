---------------------------- MODULE MCKeystream ----------------------------
(***************************************************************************)
(* Blocks of two bytes and a block counter that wraps after three: reads   *)
(* start and end inside blocks, cross several, and pass the wrap; the      *)
(* cache holds two blocks, one or none.                                    *)
(***************************************************************************)
EXTENDS Keystream

Limits == {-1, 1, 2}
============================================================================
