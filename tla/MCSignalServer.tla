--------------------------- MODULE MCSignalServer ---------------------------
(***************************************************************************)
(* Small instances of the signaling server for TLC.                        *)
(***************************************************************************)
EXTENDS SignalServerProperties, TLC

\* Devices and room ids are interchangeable: no definition singles one out.
Symmetry == Permutations(Device) \union Permutations(RoomId)
=============================================================================
