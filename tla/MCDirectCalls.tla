--------------------------- MODULE MCDirectCalls ---------------------------
(***************************************************************************)
(* Instances of DirectCalls.                                               *)
(***************************************************************************)
EXTENDS DirectCalls
=============================================================================
