---------------------------- MODULE FileDelivery ----------------------------
(***************************************************************************)
(* What the two users of a transfer may rely on: the receiver gets the     *)
(* whole file or none of it, once, and the sender is told that it was      *)
(* delivered only when it was.  The sender may be shown a pause again.     *)
(***************************************************************************)
CONSTANTS File, NoFile

VARIABLES copy,       \* the file at its destination
          confirmed   \* the sender was told

Init == copy = NoFile /\ confirmed = FALSE

Deliver == /\ copy = NoFile
           /\ copy' = File
           /\ UNCHANGED confirmed

Confirm == /\ copy = File
           /\ ~ confirmed
           /\ confirmed' = TRUE
           /\ UNCHANGED copy

\* The sender went on after a pause and its peer confirmed meanwhile: when the
\* command to go on cannot be sent, the transfer is shown as paused after all.
Retract == /\ confirmed
           /\ confirmed' = FALSE
           /\ UNCHANGED copy

Next == Deliver \/ Confirm \/ Retract

Spec == Init /\ [][Next]_<<copy, confirmed>>
=============================================================================
