--------------------------- MODULE MCCommandEngine ---------------------------
(* CommandEngine on small instances.                                       *)
EXTENDS CommandEngine, TLC

(* Commands are interchangeable, and so are requests: nothing in the       *)
(* engine orders them.  Used by the runs that check safety only.           *)
Symmetry == Permutations(Cmd) \cup Permutations(Request)
=============================================================================
