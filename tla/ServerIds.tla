----------------------------- MODULE ServerIds -----------------------------
(***************************************************************************)
(* The device and room ids the signaling server hands out, and the empty   *)
(* id.                                                                     *)
(***************************************************************************)
EXTENDS Naturals, FiniteSets

CONSTANTS
    Device,  \* public device ids
    RoomId,  \* room ids the server may allocate
    None     \* the empty id, and the absence of a map entry

ASSUME DeviceAssumption == IsFiniteSet(Device) /\ None \notin Device

ASSUME RoomIdAssumption == None \notin RoomId /\ RoomId \intersect Device = {}

DeviceOrNone == Device \union {None}
=============================================================================
