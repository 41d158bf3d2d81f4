---------------------------- MODULE MCSendQueue ----------------------------
(***************************************************************************)
(* Instances of SendQueue.                                                 *)
(***************************************************************************)
EXTENDS SendQueue
=============================================================================
