----------------------------- MODULE RoomLease -----------------------------
(***************************************************************************)
(* One collaboration room of the signaling server as a record, and the     *)
(* operators SignalServer.RoomLeases.cpp, SignalServer.RoomPairs.cpp and   *)
(* the membership handlers apply to it: the screen-share lease, the        *)
(* takeover request, the control request and the control lease.            *)
(*                                                                         *)
(* A deadline is abstracted to what the code asks of it: a request is      *)
(* expired or not, a member that lost its socket is "away" while its       *)
(* recovery window is open and "lapsed" once it has passed.  The ids of    *)
(* requests and leases are fresh UUIDs: a request exists exactly when its  *)
(* requester is not None; a screen-share grant is named by the epoch that  *)
(* issued it, 0 being the empty id.                                        *)
(***************************************************************************)
EXTENDS ServerIds

CONSTANT MaxMembers   \* config_.maximumRoomMembers

ASSUME MaxMembersAssumption == MaxMembers \in Nat /\ MaxMembers >= 2

-----------------------------------------------------------------------------
(* Room records.                                                           *)

Link == {"none", "online", "away", "lapsed"}

ShareState == {"idle", "switching", "active", "recovering"}

Room == [owner             : Device,
         capacity          : 2 .. MaxMembers,
         members           : [Device -> Link],
         pairs             : SUBSET SUBSET Device,
         share             : ShareState,
         sharer            : DeviceOrNone,
         pendingSharer     : DeviceOrNone,
         epoch             : Nat,
         grant             : Nat,
         switchRequester   : DeviceOrNone,
         switchExpired     : BOOLEAN,
         pendingController : DeviceOrNone,
         controlExpired    : BOOLEAN,
         controller        : DeviceOrNone]

\* The keys of RoomState::members.
Members(room) == {d \in Device : room.members[d] # "none"}

\* The devices the lease of the room names as sharing or about to share.
LeaseHolders(room) == {room.sharer, room.pendingSharer} \ {None}

\* Members in their recovery window or past it, and those past it.
Absent(room) == {d \in Device : room.members[d] \in {"away", "lapsed"}}

Lapsed(room) == {d \in Device : room.members[d] = "lapsed"}

\* The owner can act for its room; the mutant forgets that it may be away.
OwnerPresent(room) == room.owner \in Members(room)

OwnerOnline(room) == room.members[room.owner] = "online"

\* A capacity the configuration allows, and a mutant of it.
PositiveCapacity(capacity) == capacity \in 1 .. MaxMembers + 1

ValidCapacity(capacity) == capacity \in 2 .. MaxMembers

\* A room takes one more member; the mutant is off by one.
HasSeatOrIsFull(room) == Cardinality(Members(room)) <= room.capacity

HasSeat(room) == Cardinality(Members(room)) < room.capacity

NewRoom(d, capacity) ==
    [owner             |-> d,
     capacity          |-> capacity,
     members           |-> [m \in Device |->
                               IF m = d THEN "online" ELSE "none"],
     pairs             |-> {},
     share             |-> "idle",
     sharer            |-> None,
     pendingSharer     |-> None,
     epoch             |-> 0,
     grant             |-> 0,
     switchRequester   |-> None,
     switchExpired     |-> FALSE,
     pendingController |-> None,
     controlExpired    |-> FALSE,
     controller        |-> None]

-----------------------------------------------------------------------------
(* Leases and requests.                                                    *)

CancelSwitch(room) ==
    [room EXCEPT !.switchRequester = None, !.switchExpired = FALSE]

CancelControl(room) ==
    [room EXCEPT !.pendingController = None, !.controlExpired = FALSE]

RevokeControl(room) == [room EXCEPT !.controller = None]

\* ResetRoomScreenShare: every request and lease of the room ends; the epoch
\* moves only when there was something to end.
ResetShare(room) ==
    [RevokeControl(CancelControl(CancelSwitch(room))) EXCEPT
        !.epoch = IF room.share # "idle" \/ LeaseHolders(room) # {}
                  THEN @ + 1 ELSE @,
        !.share = "idle",
        !.sharer = None,
        !.pendingSharer = None,
        !.grant = 0]

ActivateShare(room, d) ==
    [room EXCEPT !.share = "active", !.sharer = d, !.pendingSharer = None]

\* The lease moves to d: the tail of HandleRoomScreenShareRequest and of an
\* accepted takeover.
GrantShare(room, d) ==
    [RevokeControl(CancelControl(room)) EXCEPT
        !.epoch = @ + 1,
        !.share = "switching",
        !.sharer = None,
        !.pendingSharer = d,
        !.grant = room.epoch + 1]

RequestSwitch(room, d) ==
    [room EXCEPT !.switchRequester = d, !.switchExpired = FALSE]

RequestControl(room, d) ==
    [room EXCEPT !.pendingController = d, !.controlExpired = FALSE]

GrantControl(room) ==
    [CancelControl(room) EXCEPT !.controller = room.pendingController]

-----------------------------------------------------------------------------
(* Membership.                                                             *)

ResumeMember(room, d) ==
    [room EXCEPT !.members[d] = "online",
                 !.share = IF @ = "recovering" /\ room.sharer = d
                           THEN "active" ELSE @]

Admit(room, d) ==
    [room EXCEPT !.members[d] = "online",
                 !.pairs = @ \union {{d, m} : m \in Members(room)}]

\* HandleRoomResume after the window: the member is erased and nothing else,
\* neither its pairs nor the leases that name it.
EraseMember(room, d) == [room EXCEPT !.members[d] = "none"]

\* What the members of S hold is given up: the whole lease when one of them
\* shares or is about to, else their control request and control lease.
ReleaseLeases(room, S) ==
    IF LeaseHolders(room) \intersect S # {} THEN ResetShare(room)
    ELSE LET afterRequest == IF room.pendingController \in S
                             THEN CancelControl(room) ELSE room
         IN IF room.controller \in S THEN RevokeControl(afterRequest)
                                     ELSE afterRequest

\* members.remove for every device of S, after CloseRoomPairsForMember.
DropMembers(room, S) ==
    [room EXCEPT
        !.members = [m \in Device |-> IF m \in S THEN "none" ELSE @[m]],
        !.pairs = {p \in @ : p \intersect S = {}}]

\* The removal shared by the recovery sweep, a fresh start and the deletion
\* of an account: a takeover request of the removed member is left alone.
Evict(room, S) == DropMembers(ReleaseLeases(room, S), S)

EvictMember(room, d) == Evict(room, {d})

\* HandleRoomLeave of a member that is not the owner: a takeover request of
\* the leaving member ends too.
LeaveRoom(room, d) ==
    LET asked == d \notin LeaseHolders(room) /\ room.switchRequester = d
    IN EvictMember(IF asked THEN CancelSwitch(room) ELSE room, d)

\* MarkDeviceDisconnected, the part that touches the device's room: only a
\* member that was online starts its recovery window and ends the requests
\* it takes part in.
MarkAway(room, d) ==
    LET endsControl == \/ room.pendingController = d
                       \/ room.pendingController # None /\ room.sharer = d
        endsSwitch  == \/ room.switchRequester = d
                       \/ room.switchRequester # None /\ room.sharer = d
        afterControl == IF endsControl THEN CancelControl(room) ELSE room
        afterSwitch  == IF endsSwitch THEN CancelSwitch(afterControl)
                                      ELSE afterControl
    IN IF room.members[d] # "online" THEN room
       ELSE [afterSwitch EXCEPT
                !.members[d] = "away",
                !.share = IF room.sharer = d /\ @ = "active"
                          THEN "recovering" ELSE @]

-----------------------------------------------------------------------------
(* The sweep of one room, and the deadlines that pass.                     *)

ExpireSwitch(room) == [room EXCEPT !.switchExpired = TRUE]

ExpireControl(room) == [room EXCEPT !.controlExpired = TRUE]

LapseMember(room, d) == [room EXCEPT !.members[d] = "lapsed"]

SweepSwitch(room) == IF room.switchExpired THEN CancelSwitch(room) ELSE room

SweepControl(room) ==
    IF room.controlExpired THEN CancelControl(room) ELSE room

\* SweepRoomRecoveries closes a room whose owner is gone or lapsed.
OwnerLost(room) == room.members[room.owner] \in {"none", "lapsed"}

SweepMembers(room) ==
    LET lapsed == Lapsed(room) \ {room.owner}
    IN IF lapsed = {} THEN room ELSE Evict(room, lapsed)

\* What one maintenance pass leaves of a room that stays open.
SweepRoom(room) == SweepMembers(SweepControl(SweepSwitch(room)))
=============================================================================
