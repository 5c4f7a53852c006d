--------------------------- MODULE MCSessionOverlap ---------------------------
(***************************************************************************)
(* The goroutines and packets of MCSessionThreads, without discipline.     *)
(***************************************************************************)
EXTENDS MCSessionThreads, SessionOverlap
===============================================================================
