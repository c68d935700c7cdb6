---------------------------- MODULE MCRetrieval ----------------------------
(* Instances of Retrieval for TLC. *)
EXTENDS Retrieval

CONSTANTS c1, c2, c3, c4
===========================================================================
