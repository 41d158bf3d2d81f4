---------------------------- MODULE RoomRegistry ----------------------------
(***************************************************************************)
(* The room registry of the signaling server (class RoomRegistry) as a     *)
(* record of its maps, and the composite updates the handlers make to it:  *)
(* closing rooms, removing members, dropping join requests, the fresh      *)
(* start of a device and the maintenance pass.                             *)
(*                                                                         *)
(* pairRooms_ is not kept: CreateRoomPair and CloseRoomPair are the only   *)
(* writers of it and of RoomState::pairs, and write both.                  *)
(***************************************************************************)
EXTENDS RoomLease

JoinRequest == [room : RoomId, expired : BOOLEAN]

ASSUME RecordAssumption == None \notin Room /\ None \notin JoinRequest

\* A device has at most one join request, so a request is named by its
\* requester.  joinRequests is joinRequests_, pendingJoins the key set of
\* pendingJoinRequestsByDevice_.
Registry == [rooms        : [RoomId -> Room \union {None}],
             deviceRooms  : [Device -> RoomId \union {None}],
             joinRequests : [Device -> JoinRequest \union {None}],
             pendingJoins : SUBSET Device]

EmptyRegistry == [rooms        |-> [r \in RoomId |-> None],
                  deviceRooms  |-> [d \in Device |-> None],
                  joinRequests |-> [d \in Device |-> None],
                  pendingJoins |-> {}]

DeviceHasRoom(reg, d) == reg.deviceRooms[d] # None

OpenRooms(reg) == {r \in RoomId : reg.rooms[r] # None}

UpdateRoom(reg, r, room) == [reg EXCEPT !.rooms[r] = room]

-----------------------------------------------------------------------------
(* Join requests.                                                          *)

DropJoins(reg, S) ==
    [reg EXCEPT
        !.joinRequests = [d \in Device |-> IF d \in S THEN None ELSE @[d]],
        !.pendingJoins = @ \ S]

\* CancelPendingRoomJoinForDevice: the index decides.
CancelPendingJoin(reg, d) == DropJoins(reg, {d} \intersect reg.pendingJoins)

InsertJoin(reg, d, r) ==
    [reg EXCEPT !.joinRequests[d] = [room |-> r, expired |-> FALSE],
                !.pendingJoins = @ \union {d}]

ExpireJoin(reg, d) == [reg EXCEPT !.joinRequests[d].expired = TRUE]

-----------------------------------------------------------------------------
(* Rooms and their members.                                                *)

AddRoom(reg, r, d, capacity) ==
    [reg EXCEPT !.rooms[r] = NewRoom(d, capacity), !.deviceRooms[d] = r]

\* The device index entries of the members that rooms R list.
IndexedMembers(reg, R) ==
    {d \in Device : \E r \in R : /\ reg.rooms[r] # None
                                 /\ d \in Members(reg.rooms[r])
                                 /\ reg.deviceRooms[d] = r}

\* The devices that asked to join one of the rooms R.
JoinersOf(reg, R) ==
    {d \in Device : reg.joinRequests[d] # None /\ reg.joinRequests[d].room \in R}

\* CloseRoom for every room of R.
CloseRooms(reg, R) ==
    LET members == IndexedMembers(reg, R)
    IN DropJoins([reg EXCEPT
           !.rooms = [r \in RoomId |-> IF r \in R THEN None ELSE @[r]],
           !.deviceRooms = [d \in Device |->
                               IF d \in members THEN None ELSE @[d]]],
           JoinersOf(reg, R))

\* Member d leaves room r, whose record becomes room.
RemoveMember(reg, r, room, d) ==
    [reg EXCEPT !.rooms[r] = room,
                !.deviceRooms[d] = IF @ = r THEN None ELSE @]

AdmitMember(reg, r, d) ==
    [reg EXCEPT !.rooms[r] = Admit(@, d), !.deviceRooms[d] = r]

\* The owner's departure closes its room, another member's evicts it.
RemoveOrClose(reg, r, d) ==
    IF reg.rooms[r].owner = d THEN CloseRooms(reg, {r})
    ELSE RemoveMember(reg, r, EvictMember(reg.rooms[r], d), d)

\* ReleaseDisconnectedRoomForFreshStart: a device that asks for a new room
\* gives up a membership it has not resumed.
FreshStart(reg, d) ==
    LET r == reg.deviceRooms[d]
        dangling == r # None /\ reg.rooms[r] = None
        stale    == /\ r # None
                    /\ reg.rooms[r] # None
                    /\ d \in Absent(reg.rooms[r])
    IN CASE stale    -> RemoveOrClose(reg, r, d)
         [] dangling -> [reg EXCEPT !.deviceRooms[d] = None]
         [] OTHER    -> reg

\* MarkDeviceDisconnected on the registry.
MarkDisconnected(reg, d) ==
    LET rest == CancelPendingJoin(reg, d)
        r == rest.deviceRooms[d]
    IN IF r = None THEN rest ELSE IF rest.rooms[r] = None THEN rest
       ELSE [rest EXCEPT !.rooms[r] = MarkAway(@, d)]

\* The per-device part of DeleteLocalAccount on the registry.
ForgetDevice(reg, d) ==
    LET rest == CancelPendingJoin(reg, d)
        r == rest.deviceRooms[d]
    IN IF r = None THEN rest ELSE IF rest.rooms[r] = None THEN rest
       ELSE RemoveOrClose(rest, r, d)

-----------------------------------------------------------------------------
(* The maintenance pass: SweepRoomJoinRequests, the two request sweeps and *)
(* SweepRoomRecoveries, in the order SweepIdleClients calls them.          *)

SweepJoins(reg) ==
    DropJoins(reg, {d \in Device : /\ reg.joinRequests[d] # None
                                   /\ reg.joinRequests[d].expired})

LapsedMembers(reg, R) ==
    {d \in Device : \E r \in R : /\ reg.rooms[r] # None
                                 /\ d \in Lapsed(reg.rooms[r])
                                 /\ reg.deviceRooms[d] = r}

SweepRooms(reg) ==
    LET lost == {r \in OpenRooms(reg) : OwnerLost(reg.rooms[r])}
        kept == OpenRooms(reg) \ lost
        gone == LapsedMembers(reg, kept)
    IN CloseRooms([reg EXCEPT
           !.rooms = [r \in RoomId |-> IF r \in kept THEN SweepRoom(@[r])
                                                     ELSE @[r]],
           !.deviceRooms = [d \in Device |->
                               IF d \in gone THEN None ELSE @[d]]],
           lost)

SweepRegistry(reg) == SweepRooms(SweepJoins(reg))
=============================================================================
