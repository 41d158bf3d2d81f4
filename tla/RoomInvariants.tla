--------------------------- MODULE RoomInvariants ---------------------------
(***************************************************************************)
(* What must hold of a room record, of the room registry and of the        *)
(* session registry taken by themselves, as predicates on the records.     *)
(***************************************************************************)
EXTENDS RoomRegistry, DirectSessions

-----------------------------------------------------------------------------
(* One room.                                                               *)

\* The fields of the screen-share lease fit its state: nothing is left of a
\* lease that ended, a switching lease has a taker and no sharer, and the
\* grant that can confirm or stop it is the one its epoch issued.
LeaseShape(room) ==
    /\ room.share = "idle" <=> LeaseHolders(room) = {}
    /\ room.share = "switching" <=> room.pendingSharer # None
    /\ room.share \in {"active", "recovering"} <=> room.sharer # None
    /\ room.grant = IF room.share = "idle" THEN 0 ELSE room.epoch

\* Somebody controls a screen only while it is shared, never the sharer
\* itself, and no second request is open meanwhile; the two kinds of request
\* exist only while there is an active sharer to answer them.
ControlShape(room) ==
    /\ room.controller # None =>
          /\ room.share \in {"active", "recovering"}
          /\ room.controller # room.sharer
          /\ room.pendingController = None
    /\ \A asker \in {room.pendingController, room.switchRequester} :
          asker # None => room.share = "active" /\ asker # room.sharer
    /\ room.switchExpired => room.switchRequester # None
    /\ room.controlExpired => room.pendingController # None

\* The owner belongs to its room, which is never fuller than its capacity.
WithinCapacity(room) ==
    /\ room.owner \in Members(room)
    /\ Cardinality(Members(room)) <= room.capacity

\* Every two members have a peer connection assigned.
Paired(room) ==
    \A a, b \in Members(room) : a # b => {a, b} \in room.pairs

-----------------------------------------------------------------------------
(* The two registries.                                                     *)

\* deviceRooms_ and the member lists tell the same story.
RoomIndexOf(reg) ==
    \A d \in Device, r \in RoomId :
        reg.deviceRooms[d] = r
            <=> r \in OpenRooms(reg) /\ d \in Members(reg.rooms[r])

\* The two maps of join requests agree, and a request is for an open room, by
\* a device that has none.
JoinsOf(reg) ==
    /\ reg.pendingJoins = {d \in Device : reg.joinRequests[d] # None}
    /\ \A d \in reg.pendingJoins :
           /\ reg.joinRequests[d].room \in OpenRooms(reg)
           /\ ~DeviceHasRoom(reg, d)

\* deviceSessions_ names a session for exactly its two ends.
SessionIndexOf(dir) ==
    \A d, k \in Device :
        dir.deviceSessions[d] = k
            <=> k \in OpenSessions(dir) /\ d \in Ends(dir, k)
=============================================================================
