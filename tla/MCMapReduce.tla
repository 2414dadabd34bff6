---------------------------- MODULE MCMapReduce ----------------------------
(***************************************************************************)
(* MapReduce with two or three workers and two tasks of each kind.         *)
(***************************************************************************)
EXTENDS MapReduce

CONSTANTS w1, w2, w3
=============================================================================
