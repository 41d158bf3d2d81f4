------------------------ MODULE SignalServer_proofs ------------------------
(***************************************************************************)
(* The safety invariants of the signaling server hold in every behaviour,  *)
(* for every set of devices and rooms and every configuration.             *)
(*                                                                         *)
(* None of them is inductive alone: a device is evicted from the room its  *)
(* index entry names, so the mesh and the leases need the index; a join is *)
(* accepted on the strength of the join maps; and one engagement per       *)
(* device needs the index of both registries.  Together they are.          *)
(*                                                                         *)
(* The lemmas come by layers: what the operators on a room, on the room    *)
(* registry and on the session registry preserve, first their types, then  *)
(* that every update of one room keeps it sound under the guard with which *)
(* the server applies it, then that every update of a registry does, and   *)
(* that only the updates that say so engage a device.  The handlers, which *)
(* make these updates, are last.                                           *)
(***************************************************************************)
EXTENDS SignalServerProperties, RoomInvariants, FiniteSetTheorems, TLAPS

-----------------------------------------------------------------------------
(* One room.                                                               *)

\* A created room is a room.
LEMMA NewRoomType ==
    ASSUME NEW d \in Device, NEW capacity \in 2 .. MaxMembers
    PROVE  NewRoom(d, capacity) \in Room
BY DEF NewRoom, Room, Link, ShareState, DeviceOrNone

\* Ending a request or a lease leaves a room.
LEMMA CancelTypes ==
    ASSUME NEW room \in Room
    PROVE  /\ CancelSwitch(room) \in Room
           /\ CancelControl(room) \in Room
           /\ RevokeControl(room) \in Room
           /\ ResetShare(room) \in Room
           /\ GrantControl(room) \in Room
<1>1. CancelSwitch(room) \in Room
  BY DEF CancelSwitch, Room, DeviceOrNone
<1>2. \A s \in Room : CancelControl(s) \in Room
  BY DEF CancelControl, Room, DeviceOrNone
<1>3. \A s \in Room : RevokeControl(s) \in Room
  BY DEF RevokeControl, Room, DeviceOrNone
<1>4. ResetShare(room) \in Room
  <2> DEFINE ended == RevokeControl(CancelControl(CancelSwitch(room)))
  <2>1. ended \in Room
    BY <1>1, <1>2, <1>3
  <2>2. \A s \in Room, e \in Nat :
            [s EXCEPT !.epoch = e, !.share = "idle", !.sharer = None,
                      !.pendingSharer = None, !.grant = 0] \in Room
    BY DEF Room, ShareState, DeviceOrNone
  <2>3. ended.epoch \in Nat
    BY <2>1 DEF Room
  <2> HIDE DEF ended
  <2>4. (IF room.share # "idle" \/ LeaseHolders(room) # {}
         THEN ended.epoch + 1 ELSE ended.epoch) \in Nat
    BY <2>3
  <2> QED BY <2>1, <2>2, <2>4 DEF ResetShare, ended
<1>5. GrantControl(room) \in Room
  BY DEF GrantControl, CancelControl, Room, DeviceOrNone
<1> QED BY <1>1, <1>2, <1>3, <1>4, <1>5

\* Giving a lease or recording a request leaves a room.
LEMMA GrantTypes ==
    ASSUME NEW room \in Room, NEW d \in Device
    PROVE  /\ GrantShare(room, d) \in Room
           /\ ActivateShare(room, d) \in Room
           /\ RequestSwitch(room, d) \in Room
           /\ RequestControl(room, d) \in Room
<1>1. GrantShare(room, d) \in Room
  <2> DEFINE ended == RevokeControl(CancelControl(room))
  <2>1. ended \in Room
    BY CancelTypes
  <2>2. \A s \in Room, e, g \in Nat :
            [s EXCEPT !.epoch = e, !.share = "switching", !.sharer = None,
                      !.pendingSharer = d, !.grant = g] \in Room
    BY DEF Room, ShareState, DeviceOrNone
  <2>3. ended.epoch + 1 \in Nat /\ room.epoch + 1 \in Nat
    BY <2>1 DEF Room
  <2> HIDE DEF ended
  <2> QED BY <2>1, <2>2, <2>3 DEF GrantShare, ended
<1>2. ActivateShare(room, d) \in Room
  BY DEF ActivateShare, Room, ShareState, DeviceOrNone
<1>3. RequestSwitch(room, d) \in Room
  BY DEF RequestSwitch, Room, DeviceOrNone
<1>4. RequestControl(room, d) \in Room
  BY DEF RequestControl, Room, DeviceOrNone
<1> QED BY <1>1, <1>2, <1>3, <1>4

\* Changes of one member's link leave a room.
LEMMA LinkTypes ==
    ASSUME NEW room \in Room, NEW d \in Device
    PROVE  /\ ResumeMember(room, d) \in Room
           /\ Admit(room, d) \in Room
           /\ EraseMember(room, d) \in Room
           /\ LapseMember(room, d) \in Room
<1>1. ResumeMember(room, d) \in Room
  BY DEF ResumeMember, Room, Link, ShareState
<1>2. Admit(room, d) \in Room
  <2>1. {{d, m} : m \in Members(room)} \subseteq SUBSET Device
    BY DEF Members
  <2>2. \A P \in SUBSET SUBSET Device :
            [room EXCEPT !.members[d] = "online",
                         !.pairs = @ \union P] \in Room
    BY DEF Room, Link
  <2> QED BY <2>1, <2>2 DEF Admit
<1>3. EraseMember(room, d) \in Room
  BY DEF EraseMember, Room, Link
<1>4. LapseMember(room, d) \in Room
  BY DEF LapseMember, Room, Link
<1> QED BY <1>1, <1>2, <1>3, <1>4

\* Removing members leaves a room.
LEMMA EvictTypes ==
    ASSUME NEW room \in Room, NEW S \in SUBSET Device
    PROVE  /\ ReleaseLeases(room, S) \in Room
           /\ DropMembers(room, S) \in Room
           /\ Evict(room, S) \in Room
<1>1. \A s \in Room : ReleaseLeases(s, S) \in Room
  BY CancelTypes DEF ReleaseLeases
<1>2. \A s \in Room : DropMembers(s, S) \in Room
  BY DEF DropMembers, Room, Link
<1> QED BY <1>1, <1>2 DEF Evict

\* A member's departure and its disconnection leave a room.
LEMMA DepartureTypes ==
    ASSUME NEW room \in Room, NEW d \in Device
    PROVE  /\ EvictMember(room, d) \in Room
           /\ LeaveRoom(room, d) \in Room
           /\ MarkAway(room, d) \in Room
<1>1. \A s \in Room : EvictMember(s, d) \in Room
  BY EvictTypes DEF EvictMember
<1>2. LeaveRoom(room, d) \in Room
  BY <1>1, CancelTypes DEF LeaveRoom
<1>3. MarkAway(room, d) \in Room
  <2> DEFINE afterControl ==
          IF \/ room.pendingController = d
             \/ room.pendingController # None /\ room.sharer = d
          THEN CancelControl(room) ELSE room
      afterSwitch ==
          IF \/ room.switchRequester = d
             \/ room.switchRequester # None /\ room.sharer = d
          THEN CancelSwitch(afterControl) ELSE afterControl
  <2>1. afterControl \in Room
    BY CancelTypes
  <2>2. afterSwitch \in Room
    <3> HIDE DEF afterControl
    <3> QED BY <2>1, CancelTypes
  <2>3. \A s \in Room :
            [s EXCEPT !.members[d] = "away",
                      !.share = IF room.sharer = d /\ @ = "active"
                                THEN "recovering" ELSE @] \in Room
    BY DEF Room, Link, ShareState
  <2> HIDE DEF afterSwitch
  <2>4. MarkAway(room, d) =
            IF room.members[d] # "online" THEN room
            ELSE [afterSwitch EXCEPT
                     !.members[d] = "away",
                     !.share = IF room.sharer = d /\ @ = "active"
                               THEN "recovering" ELSE @]
    BY DEF MarkAway, afterSwitch, afterControl
  <2> QED BY <2>2, <2>3, <2>4
<1> QED BY <1>1, <1>2, <1>3

\* Passing deadlines and the sweep leave a room.
LEMMA SweepTypes ==
    ASSUME NEW room \in Room
    PROVE  /\ ExpireSwitch(room) \in Room
           /\ ExpireControl(room) \in Room
           /\ SweepRoom(room) \in Room
<1>1. ExpireSwitch(room) \in Room
  BY DEF ExpireSwitch, Room
<1>2. ExpireControl(room) \in Room
  BY DEF ExpireControl, Room
<1>3. \A s \in Room : SweepSwitch(s) \in Room /\ SweepControl(s) \in Room
  BY CancelTypes DEF SweepSwitch, SweepControl
<1>4. \A s \in Room : SweepMembers(s) \in Room
  <2> TAKE s \in Room
  <2>1. Lapsed(s) \ {s.owner} \in SUBSET Device
    BY DEF Lapsed
  <2> QED BY <2>1, EvictTypes DEF SweepMembers
<1>5. SweepRoom(room) \in Room
  BY <1>3, <1>4 DEF SweepRoom
<1> QED BY <1>1, <1>2, <1>5

-----------------------------------------------------------------------------
(* The room registry.                                                      *)

\* An open room of a well-typed registry is a room.
LEMMA OpenRoomType ==
    ASSUME NEW reg \in Registry, NEW r \in RoomId, reg.rooms[r] # None
    PROVE  reg.rooms[r] \in Room
BY DEF Registry

\* The registry starts well typed.
LEMMA EmptyRegistryType == EmptyRegistry \in Registry
BY DEF EmptyRegistry, Registry

\* Recording, expiring and dropping join requests leaves a registry.
LEMMA JoinTypes ==
    ASSUME NEW reg \in Registry
    PROVE  /\ \A S \in SUBSET Device : DropJoins(reg, S) \in Registry
           /\ \A d \in Device : CancelPendingJoin(reg, d) \in Registry
           /\ \A d \in Device, r \in RoomId : InsertJoin(reg, d, r) \in Registry
           /\ \A d \in Device :
                 reg.joinRequests[d] # None => ExpireJoin(reg, d) \in Registry
           /\ SweepJoins(reg) \in Registry
<1>1. \A S \in SUBSET Device : DropJoins(reg, S) \in Registry
  BY DEF DropJoins, Registry
<1>2. \A d \in Device : CancelPendingJoin(reg, d) \in Registry
  BY <1>1 DEF CancelPendingJoin
<1>3. \A d \in Device, r \in RoomId : InsertJoin(reg, d, r) \in Registry
  <2> TAKE d \in Device, r \in RoomId
  <2>1. [room |-> r, expired |-> FALSE] \in JoinRequest
    BY DEF JoinRequest
  <2> QED BY <2>1 DEF InsertJoin, Registry
<1>4. \A d \in Device :
          reg.joinRequests[d] # None => ExpireJoin(reg, d) \in Registry
  <2> SUFFICES ASSUME NEW d \in Device, reg.joinRequests[d] # None
               PROVE  ExpireJoin(reg, d) \in Registry
    OBVIOUS
  <2>1. [reg.joinRequests[d] EXCEPT !.expired = TRUE] \in JoinRequest
    BY DEF Registry, JoinRequest
  <2> QED BY <2>1 DEF ExpireJoin, Registry
<1>5. SweepJoins(reg) \in Registry
  BY <1>1 DEF SweepJoins
<1> QED BY <1>1, <1>2, <1>3, <1>4, <1>5

\* Replacing a room leaves a registry.
LEMMA UpdateRoomRegistry ==
    ASSUME NEW reg \in Registry, NEW r \in RoomId, NEW room \in Room
    PROVE  UpdateRoom(reg, r, room) \in Registry
BY DEF UpdateRoom, Registry

\* So does moving one device's index entry with it.
LEMMA RoomUpdateTypes ==
    ASSUME NEW reg \in Registry, NEW r \in RoomId, NEW room \in Room,
           NEW d \in Device
    PROVE  /\ RemoveMember(reg, r, room, d) \in Registry
           /\ [reg EXCEPT !.rooms[r] = room, !.deviceRooms[d] = r] \in Registry
<1>1. RemoveMember(reg, r, room, d) \in Registry
  BY DEF RemoveMember, Registry
<1>2. [reg EXCEPT !.rooms[r] = room, !.deviceRooms[d] = r] \in Registry
  BY DEF Registry
<1> QED BY <1>1, <1>2

\* Opening a room and admitting a member leave a registry.
LEMMA EntryTypes ==
    ASSUME NEW reg \in Registry, NEW r \in RoomId, NEW d \in Device
    PROVE  /\ \A capacity \in 2 .. MaxMembers :
                 AddRoom(reg, r, d, capacity) \in Registry
           /\ reg.rooms[r] # None => AdmitMember(reg, r, d) \in Registry
<1>1. ASSUME NEW capacity \in 2 .. MaxMembers
      PROVE  AddRoom(reg, r, d, capacity) \in Registry
  BY NewRoomType, RoomUpdateTypes DEF AddRoom
<1>2. ASSUME reg.rooms[r] # None
      PROVE  AdmitMember(reg, r, d) \in Registry
  <2> DEFINE room == Admit(reg.rooms[r], d)
  <2>1. room \in Room
    BY <1>2, OpenRoomType, LinkTypes
  <2>2. AdmitMember(reg, r, d) =
            [reg EXCEPT !.rooms[r] = room, !.deviceRooms[d] = r]
    BY DEF AdmitMember
  <2> HIDE DEF room
  <2>3. [reg EXCEPT !.rooms[r] = room, !.deviceRooms[d] = r] \in Registry
    BY <2>1, RoomUpdateTypes
  <2> QED BY <2>2, <2>3
<1> QED BY <1>1, <1>2

\* Closing rooms leaves a registry.
LEMMA CloseTypes ==
    ASSUME NEW reg \in Registry, NEW R \in SUBSET RoomId
    PROVE  CloseRooms(reg, R) \in Registry
<1> DEFINE closed == [reg EXCEPT
               !.rooms = [r \in RoomId |-> IF r \in R THEN None ELSE @[r]],
               !.deviceRooms = [d \in Device |->
                   IF d \in IndexedMembers(reg, R) THEN None ELSE @[d]]]
<1>1. closed \in Registry
  BY DEF Registry
<1>2. JoinersOf(reg, R) \in SUBSET Device
  BY DEF JoinersOf
<1> QED BY <1>1, <1>2, JoinTypes DEF CloseRooms

\* A device's leaving of its room, in each of the ways the server knows,
\* leaves a registry.
LEMMA LeavingTypes ==
    ASSUME NEW reg \in Registry, NEW d \in Device
    PROVE  /\ \A r \in OpenRooms(reg) : RemoveOrClose(reg, r, d) \in Registry
           /\ FreshStart(reg, d) \in Registry
           /\ MarkDisconnected(reg, d) \in Registry
           /\ ForgetDevice(reg, d) \in Registry
<1>1. ASSUME NEW s \in Registry, NEW r \in RoomId, s.rooms[r] # None
      PROVE  RemoveOrClose(s, r, d) \in Registry
  <2>1. CloseRooms(s, {r}) \in Registry
    BY CloseTypes
  <2>2. EvictMember(s.rooms[r], d) \in Room
    BY <1>1, OpenRoomType, DepartureTypes
  <2> QED BY <2>1, <2>2, RoomUpdateTypes DEF RemoveOrClose
<1>2. ASSUME NEW s \in Registry
      PROVE  s.deviceRooms[d] # None => s.deviceRooms[d] \in RoomId
  BY DEF Registry
<1>3. FreshStart(reg, d) \in Registry
  <2>1. [reg EXCEPT !.deviceRooms[d] = None] \in Registry
    BY DEF Registry
  <2> QED BY <1>1, <1>2, <2>1 DEF FreshStart
<1>4. MarkDisconnected(reg, d) \in Registry
  <2> DEFINE rest == CancelPendingJoin(reg, d)
             r == rest.deviceRooms[d]
  <2>1. rest \in Registry
    BY JoinTypes
  <2> HIDE DEF rest
  <2>2. ASSUME r # None, rest.rooms[r] # None
        PROVE  [rest EXCEPT !.rooms[r] = MarkAway(@, d)] \in Registry
    <3>1. r \in RoomId
      BY <2>1, <2>2, <1>2
    <3>2. MarkAway(rest.rooms[r], d) \in Room
      BY <2>1, <2>2, <3>1, OpenRoomType, DepartureTypes
    <3> QED BY <2>1, <3>1, <3>2, UpdateRoomRegistry DEF UpdateRoom
  <2> QED BY <2>1, <2>2 DEF MarkDisconnected, rest
<1>5. ForgetDevice(reg, d) \in Registry
  BY <1>1, <1>2, JoinTypes DEF ForgetDevice
<1> QED BY <1>1, <1>3, <1>4, <1>5 DEF OpenRooms

\* The maintenance pass leaves a registry.
LEMMA SweepRegistryType ==
    ASSUME NEW reg \in Registry
    PROVE  SweepRegistry(reg) \in Registry
<1>1. ASSUME NEW s \in Registry
      PROVE  SweepRooms(s) \in Registry
  <2> DEFINE lost == {r \in OpenRooms(s) : OwnerLost(s.rooms[r])}
             kept == OpenRooms(s) \ lost
             swept == [s EXCEPT
                 !.rooms = [r \in RoomId |->
                     IF r \in kept THEN SweepRoom(@[r]) ELSE @[r]],
                 !.deviceRooms = [d \in Device |->
                     IF d \in LapsedMembers(s, kept) THEN None ELSE @[d]]]
  <2>1. lost \in SUBSET RoomId /\ kept \in SUBSET RoomId
    BY DEF OpenRooms
  <2>2. \A r \in kept : SweepRoom(s.rooms[r]) \in Room
    BY <1>1, OpenRoomType, SweepTypes DEF OpenRooms
  <2>3. swept \in Registry
    <3> HIDE DEF kept
    <3> QED BY <1>1, <2>1, <2>2 DEF Registry
  <2> QED BY <2>1, <2>3, CloseTypes DEF SweepRooms
<1> QED BY <1>1, JoinTypes DEF SweepRegistry

-----------------------------------------------------------------------------
(* The session registry.                                                   *)

\* The directory starts well typed.
LEMMA EmptyDirectoryType == EmptyDirectory \in Directory
BY DEF EmptyDirectory, Directory, DeviceOrNone

\* Adding and removing sessions leaves a directory.
LEMMA SessionSetTypes ==
    ASSUME NEW dir \in Directory
    PROVE  /\ \A d, t \in Device : InsertSession(dir, d, t) \in Directory
           /\ \A K : RemoveSessions(dir, K) \in Directory
           /\ SweepDirectory(dir) \in Directory
<1>1. ASSUME NEW d \in Device, NEW t \in Device
      PROVE  InsertSession(dir, d, t) \in Directory
  <2>1. [target |-> t, phase |-> "pending", requesterLink |-> "online",
         targetLink |-> "online"] \in Session
    BY DEF Session, Phase, SideLink
  <2> QED BY <2>1 DEF InsertSession, Directory, DeviceOrNone
<1>2. \A s \in Directory : \A K : RemoveSessions(s, K) \in Directory
  BY DEF RemoveSessions, Directory, DeviceOrNone
<1>3. SweepDirectory(dir) \in Directory
  BY <1>2 DEF SweepDirectory, SweepPendingSessions, SweepRecoverySessions
<1> QED BY <1>1, <1>2, <1>3

\* Changing a session in place leaves a directory.
LEMMA SessionUpdateTypes ==
    ASSUME NEW dir \in Directory, NEW k \in Device, dir.sessions[k] # None
    PROVE  /\ ActivateSession(dir, k) \in Directory
           /\ ExpirePending(dir, k) \in Directory
           /\ \A d \in Device, l \in SideLink : SetSide(dir, k, d, l) \in Directory
<1>1. dir.sessions[k] \in Session
  BY DEF Directory
<1>2. \A s \in Session : [dir EXCEPT !.sessions[k] = s] \in Directory
  BY DEF Directory
<1>3. ActivateSession(dir, k) \in Directory
  <2>1. [dir.sessions[k] EXCEPT !.phase = "active"] \in Session
    BY <1>1 DEF Session, Phase
  <2> QED BY <1>2, <2>1 DEF ActivateSession
<1>4. ExpirePending(dir, k) \in Directory
  <2>1. [dir.sessions[k] EXCEPT !.phase = "expired"] \in Session
    BY <1>1 DEF Session, Phase
  <2> QED BY <1>2, <2>1 DEF ExpirePending
<1>5. ASSUME NEW d \in Device, NEW l \in SideLink
      PROVE  SetSide(dir, k, d, l) \in Directory
  <2>1. /\ [dir.sessions[k] EXCEPT !.requesterLink = l] \in Session
        /\ [dir.sessions[k] EXCEPT !.targetLink = l] \in Session
    BY <1>1 DEF Session
  <2> QED BY <1>2, <2>1 DEF SetSide
<1> QED BY <1>3, <1>4, <1>5

\* A disconnect leaves a directory.
LEMMA SuspendType ==
    ASSUME NEW dir \in Directory, NEW d \in Device
    PROVE  Suspend(dir, d) \in Directory
<1> DEFINE mine == SessionsOf(dir, d)
           ended == {k \in mine : dir.sessions[k].phase # "active"}
           suspended ==
               [dir EXCEPT !.sessions = [k \in Device |->
                   IF k \in mine \ ended THEN SuspendedSide(dir, k, d)
                                         ELSE @[k]]]
<1>1. \A k \in mine : SuspendedSide(dir, k, d) \in Session
  BY DEF SuspendedSide, LinkLost, SessionsOf, OpenSessions, Directory,
         Session, SideLink
<1>2. suspended \in Directory
  <2> HIDE DEF mine, ended
  <2> QED BY <1>1 DEF Directory
<1>3. Suspend(dir, d) = RemoveSessions(suspended, ended)
  BY DEF Suspend
<1> HIDE DEF suspended
<1> QED BY <1>2, <1>3, SessionSetTypes

-----------------------------------------------------------------------------
(* Soundness of a room.                                                    *)

\* A room whose leases, requests, owner, capacity and pairs are in order.
Sound(room) ==
    /\ room \in Room
    /\ LeaseShape(room)
    /\ ControlShape(room)
    /\ WithinCapacity(room)
    /\ Paired(room)

\* The update of a room by one of the handlers that moves no member.
Refits(room, after) == Sound(after) /\ Members(after) = Members(room)

-----------------------------------------------------------------------------
(* Members and seats.                                                      *)

\* The members of a room are finitely many.
LEMMA MembersFinite ==
    ASSUME NEW room
    PROVE  /\ IsFiniteSet(Members(room))
           /\ Members(room) \subseteq Device
           /\ Cardinality(Members(room)) \in Nat
<1>1. Members(room) \subseteq Device
  BY DEF Members
<1>2. IsFiniteSet(Members(room))
  BY <1>1, DeviceAssumption, FS_Subset
<1> QED BY <1>1, <1>2, FS_CardinalityType

\* A room that keeps its members, or loses some but not its owner, keeps to
\* its capacity and its pairs.
LEMMA SeatsKept ==
    ASSUME NEW room, NEW after, WithinCapacity(room), Paired(room),
           room.capacity \in Nat,
           after.owner = room.owner, after.capacity = room.capacity,
           Members(after) \subseteq Members(room),
           room.owner \in Members(after),
           \A a, b \in Members(after) :
               {a, b} \in room.pairs => {a, b} \in after.pairs
    PROVE  WithinCapacity(after) /\ Paired(after)
<1>1. Cardinality(Members(after)) <= Cardinality(Members(room))
  BY MembersFinite, FS_Subset
<1>2. WithinCapacity(after)
  BY <1>1, MembersFinite DEF WithinCapacity
<1>3. Paired(after)
  BY DEF Paired
<1> QED BY <1>2, <1>3

\* In particular one that only changes its leases and requests.
LEMMA LeaseUpdate ==
    ASSUME NEW room, Sound(room), NEW after \in Room,
           after.owner = room.owner, after.capacity = room.capacity,
           Members(after) = Members(room), after.pairs = room.pairs,
           LeaseShape(after), ControlShape(after)
    PROVE  Refits(room, after)
<1>1. room.owner \in Members(after)
  BY DEF Sound, WithinCapacity
<1>2. room.capacity \in Nat
  BY MaxMembersAssumption DEF Sound, Room
<1>3. WithinCapacity(after) /\ Paired(after)
  BY <1>1, <1>2, SeatsKept DEF Sound
<1> QED BY <1>3 DEF Refits, Sound

-----------------------------------------------------------------------------
(* Leases and requests.                                                    *)

\* Ending a request or a lease, as every handler that removes something does.
LEMMA CancelSound ==
    ASSUME NEW room, Sound(room)
    PROVE  /\ Refits(room, CancelSwitch(room))
           /\ Refits(room, CancelControl(room))
           /\ Refits(room, RevokeControl(room))
           /\ Refits(room, ResetShare(room))
<1>1. room \in Room /\ LeaseShape(room) /\ ControlShape(room)
  BY DEF Sound
<1>2. Refits(room, CancelSwitch(room))
  <2>1. CancelSwitch(room) \in Room
    BY <1>1, CancelTypes
  <2>2. LeaseShape(CancelSwitch(room)) /\ ControlShape(CancelSwitch(room))
    BY <1>1 DEF CancelSwitch, LeaseShape, ControlShape, LeaseHolders, Room
  <2>3. Members(CancelSwitch(room)) = Members(room)
    BY <1>1 DEF CancelSwitch, Members, Room
  <2> QED BY <1>1, <2>1, <2>2, <2>3, LeaseUpdate DEF CancelSwitch, Room
<1>3. Refits(room, CancelControl(room))
  <2>1. CancelControl(room) \in Room
    BY <1>1, CancelTypes
  <2>2. LeaseShape(CancelControl(room)) /\ ControlShape(CancelControl(room))
    BY <1>1 DEF CancelControl, LeaseShape, ControlShape, LeaseHolders, Room
  <2>3. Members(CancelControl(room)) = Members(room)
    BY <1>1 DEF CancelControl, Members, Room
  <2> QED BY <1>1, <2>1, <2>2, <2>3, LeaseUpdate DEF CancelControl, Room
<1>4. Refits(room, RevokeControl(room))
  <2>1. RevokeControl(room) \in Room
    BY <1>1, CancelTypes
  <2>2. LeaseShape(RevokeControl(room)) /\ ControlShape(RevokeControl(room))
    BY <1>1 DEF RevokeControl, LeaseShape, ControlShape, LeaseHolders, Room
  <2>3. Members(RevokeControl(room)) = Members(room)
    BY <1>1 DEF RevokeControl, Members, Room
  <2> QED BY <1>1, <2>1, <2>2, <2>3, LeaseUpdate DEF RevokeControl, Room
<1>5. Refits(room, ResetShare(room))
  <2> DEFINE after == ResetShare(room)
  <2>1. after \in Room
    BY <1>1, CancelTypes
  <2>2. /\ after.owner = room.owner /\ after.capacity = room.capacity
        /\ after.members = room.members /\ after.pairs = room.pairs
        /\ after.share = "idle" /\ after.grant = 0
        /\ after.sharer = None /\ after.pendingSharer = None
        /\ after.switchRequester = None /\ ~after.switchExpired
        /\ after.pendingController = None /\ ~after.controlExpired
        /\ after.controller = None
    BY <1>1 DEF ResetShare, RevokeControl, CancelControl, CancelSwitch, Room
  <2> HIDE DEF after
  <2>3. LeaseShape(after) /\ ControlShape(after)
    BY <2>2 DEF LeaseShape, ControlShape, LeaseHolders
  <2>4. Members(after) = Members(room)
    BY <2>2 DEF Members
  <2>5. Refits(room, after)
    BY <2>1, <2>2, <2>3, <2>4, LeaseUpdate
  <2> QED BY <2>5 DEF after
<1> QED BY <1>2, <1>3, <1>4, <1>5

\* Granting the lease, to a first sharer or on an accepted takeover.
LEMMA GrantSound ==
    ASSUME NEW room, Sound(room), NEW d \in Device,
           room.switchRequester = None
    PROVE  Refits(room, GrantShare(room, d))
<1> DEFINE after == GrantShare(room, d)
<1>1. room \in Room /\ LeaseShape(room) /\ ControlShape(room)
  BY DEF Sound
<1>2. after \in Room
  BY <1>1, GrantTypes
<1>3. /\ after.owner = room.owner /\ after.capacity = room.capacity
      /\ after.members = room.members /\ after.pairs = room.pairs
      /\ after.share = "switching" /\ after.epoch = room.epoch + 1
      /\ after.grant = room.epoch + 1
      /\ after.sharer = None /\ after.pendingSharer = d
      /\ after.switchRequester = None
      /\ after.switchExpired = room.switchExpired
      /\ after.pendingController = None /\ ~after.controlExpired
      /\ after.controller = None
  BY <1>1 DEF GrantShare, RevokeControl, CancelControl, Room
<1> HIDE DEF after
<1>4. LeaseShape(after)
  BY <1>3, DeviceAssumption DEF LeaseShape, LeaseHolders
<1>5. ControlShape(after)
  BY <1>1, <1>3 DEF ControlShape
<1>6. Members(after) = Members(room)
  BY <1>3 DEF Members
<1>7. Refits(room, after)
  BY <1>2, <1>3, <1>4, <1>5, <1>6, LeaseUpdate
<1> QED BY <1>7 DEF after

\* Confirming a granted lease.
LEMMA ActivateSound ==
    ASSUME NEW room, Sound(room), NEW d \in Device, room.share = "switching"
    PROVE  Refits(room, ActivateShare(room, d))
<1> DEFINE after == ActivateShare(room, d)
<1>1. room \in Room /\ LeaseShape(room) /\ ControlShape(room)
  BY DEF Sound
<1>2. after \in Room
  BY <1>1, GrantTypes
<1>3. /\ after.owner = room.owner /\ after.capacity = room.capacity
      /\ after.members = room.members /\ after.pairs = room.pairs
      /\ after.share = "active" /\ after.epoch = room.epoch
      /\ after.grant = room.grant
      /\ after.sharer = d /\ after.pendingSharer = None
      /\ after.switchRequester = room.switchRequester
      /\ after.switchExpired = room.switchExpired
      /\ after.pendingController = room.pendingController
      /\ after.controlExpired = room.controlExpired
      /\ after.controller = room.controller
  BY <1>1 DEF ActivateShare, Room
<1> HIDE DEF after
<1>4. LeaseShape(after)
  BY <1>1, <1>3, DeviceAssumption DEF LeaseShape, LeaseHolders
<1>5. /\ room.controller = None
      /\ room.pendingController = None
      /\ room.switchRequester = None
  BY <1>1 DEF ControlShape
<1>6. ControlShape(after)
  BY <1>1, <1>3, <1>5 DEF ControlShape
<1>7. Members(after) = Members(room)
  BY <1>3 DEF Members
<1>8. Refits(room, after)
  BY <1>2, <1>3, <1>4, <1>6, <1>7, LeaseUpdate
<1> QED BY <1>8 DEF after

\* Asking the active sharer for the screen, or for control of it.
LEMMA RequestSound ==
    ASSUME NEW room, Sound(room), NEW d \in Device,
           room.share = "active", d # room.sharer
    PROVE  /\ Refits(room, RequestSwitch(room, d))
           /\ room.controller = None => Refits(room, RequestControl(room, d))
<1>1. room \in Room /\ LeaseShape(room) /\ ControlShape(room)
  BY DEF Sound
<1>2. Refits(room, RequestSwitch(room, d))
  <2>1. RequestSwitch(room, d) \in Room
    BY <1>1, GrantTypes
  <2>2. LeaseShape(RequestSwitch(room, d))
    BY <1>1 DEF RequestSwitch, LeaseShape, LeaseHolders, Room
  <2>3. ControlShape(RequestSwitch(room, d))
    BY <1>1, DeviceAssumption DEF RequestSwitch, ControlShape, Room
  <2>4. Members(RequestSwitch(room, d)) = Members(room)
    BY <1>1 DEF RequestSwitch, Members, Room
  <2> QED BY <1>1, <2>1, <2>2, <2>3, <2>4, LeaseUpdate DEF RequestSwitch, Room
<1>3. ASSUME room.controller = None
      PROVE  Refits(room, RequestControl(room, d))
  <2>1. RequestControl(room, d) \in Room
    BY <1>1, GrantTypes
  <2>2. LeaseShape(RequestControl(room, d))
    BY <1>1 DEF RequestControl, LeaseShape, LeaseHolders, Room
  <2>3. ControlShape(RequestControl(room, d))
    BY <1>1, <1>3, DeviceAssumption DEF RequestControl, ControlShape, Room
  <2>4. Members(RequestControl(room, d)) = Members(room)
    BY <1>1 DEF RequestControl, Members, Room
  <2> QED BY <1>1, <2>1, <2>2, <2>3, <2>4, LeaseUpdate DEF RequestControl, Room
<1> QED BY <1>2, <1>3

\* Granting a control request.
LEMMA GrantControlSound ==
    ASSUME NEW room, Sound(room), room.pendingController # None
    PROVE  Refits(room, GrantControl(room))
<1>1. room \in Room /\ LeaseShape(room) /\ ControlShape(room)
  BY DEF Sound
<1>2. GrantControl(room) \in Room
  BY <1>1, CancelTypes
<1>3. LeaseShape(GrantControl(room))
  BY <1>1 DEF GrantControl, CancelControl, LeaseShape, LeaseHolders, Room
<1>4. ControlShape(GrantControl(room))
  BY <1>1 DEF GrantControl, CancelControl, ControlShape, Room
<1>5. Members(GrantControl(room)) = Members(room)
  BY <1>1 DEF GrantControl, CancelControl, Members, Room
<1> QED BY <1>1, <1>2, <1>3, <1>4, <1>5, LeaseUpdate
           DEF GrantControl, CancelControl, Room

-----------------------------------------------------------------------------
(* Membership.                                                             *)

\* A new room of a device.
LEMMA NewRoomSound ==
    ASSUME NEW d \in Device, NEW capacity \in 2 .. MaxMembers
    PROVE  Sound(NewRoom(d, capacity)) /\ Members(NewRoom(d, capacity)) = {d}
<1> DEFINE room == NewRoom(d, capacity)
<1>1. room \in Room
  BY NewRoomType
<1>2. LeaseShape(room)
  BY DEF NewRoom, LeaseShape, LeaseHolders
<1>3. ControlShape(room)
  BY DEF NewRoom, ControlShape
<1>4. Members(room) = {d}
  BY DEF NewRoom, Members
<1>5. room.owner = d /\ room.capacity = capacity
  BY DEF NewRoom
<1>6. Cardinality({d}) = 1
  BY FS_Singleton
<1> HIDE DEF room
<1>7. WithinCapacity(room)
  BY <1>4, <1>5, <1>6, MaxMembersAssumption DEF WithinCapacity
<1>8. Paired(room)
  BY <1>4 DEF Paired
<1>9. Sound(room) /\ Members(room) = {d}
  BY <1>1, <1>2, <1>3, <1>4, <1>7, <1>8 DEF Sound
<1> QED BY <1>9 DEF room

\* A member resumes its place, or its recovery window ends.
LEMMA LinkSound ==
    ASSUME NEW room, Sound(room), NEW d \in Members(room)
    PROVE  /\ Refits(room, ResumeMember(room, d))
           /\ Refits(room, LapseMember(room, d))
<1>1. room \in Room /\ LeaseShape(room) /\ ControlShape(room) /\ d \in Device
  BY DEF Sound, Members
<1>2. Refits(room, ResumeMember(room, d))
  <2> DEFINE after == ResumeMember(room, d)
  <2>1. after \in Room
    BY <1>1, LinkTypes
  <2>2. Members(after) = Members(room)
    BY <1>1 DEF ResumeMember, Members, Room
  <2>3. /\ after.owner = room.owner /\ after.capacity = room.capacity
        /\ after.pairs = room.pairs
        /\ after.sharer = room.sharer
        /\ after.pendingSharer = room.pendingSharer
        /\ after.epoch = room.epoch /\ after.grant = room.grant
        /\ after.switchRequester = room.switchRequester
        /\ after.switchExpired = room.switchExpired
        /\ after.pendingController = room.pendingController
        /\ after.controlExpired = room.controlExpired
        /\ after.controller = room.controller
        /\ \/ after.share = room.share
           \/ room.share = "recovering" /\ after.share = "active"
    BY <1>1 DEF ResumeMember, Room
  <2> HIDE DEF after
  <2>4. LeaseShape(after)
    BY <1>1, <2>3 DEF LeaseShape, LeaseHolders
  <2>5. ControlShape(after)
    BY <1>1, <2>3 DEF ControlShape
  <2>6. Refits(room, after)
    BY <2>1, <2>2, <2>3, <2>4, <2>5, LeaseUpdate
  <2> QED BY <2>6 DEF after
<1>3. Refits(room, LapseMember(room, d))
  <2>1. LapseMember(room, d) \in Room
    BY <1>1, LinkTypes
  <2>2. Members(LapseMember(room, d)) = Members(room)
    BY <1>1 DEF LapseMember, Members, Room
  <2>3. LeaseShape(LapseMember(room, d))
    BY <1>1 DEF LapseMember, LeaseShape, LeaseHolders, Room
  <2>4. ControlShape(LapseMember(room, d))
    BY <1>1 DEF LapseMember, ControlShape, Room
  <2> QED BY <1>1, <2>1, <2>2, <2>3, <2>4, LeaseUpdate DEF LapseMember, Room
<1> QED BY <1>2, <1>3

\* A request times out.
LEMMA ExpirySound ==
    ASSUME NEW room, Sound(room)
    PROVE  /\ room.switchRequester # None => Refits(room, ExpireSwitch(room))
           /\ room.pendingController # None => Refits(room, ExpireControl(room))
<1>1. room \in Room /\ LeaseShape(room) /\ ControlShape(room)
  BY DEF Sound
<1>2. ASSUME room.switchRequester # None
      PROVE  Refits(room, ExpireSwitch(room))
  <2>1. ExpireSwitch(room) \in Room
    BY <1>1, SweepTypes
  <2>2. LeaseShape(ExpireSwitch(room)) /\ ControlShape(ExpireSwitch(room))
    BY <1>1, <1>2 DEF ExpireSwitch, LeaseShape, ControlShape, LeaseHolders, Room
  <2>3. Members(ExpireSwitch(room)) = Members(room)
    BY <1>1 DEF ExpireSwitch, Members, Room
  <2> QED BY <1>1, <2>1, <2>2, <2>3, LeaseUpdate DEF ExpireSwitch, Room
<1>3. ASSUME room.pendingController # None
      PROVE  Refits(room, ExpireControl(room))
  <2>1. ExpireControl(room) \in Room
    BY <1>1, SweepTypes
  <2>2. LeaseShape(ExpireControl(room)) /\ ControlShape(ExpireControl(room))
    BY <1>1, <1>3
       DEF ExpireControl, LeaseShape, ControlShape, LeaseHolders, Room
  <2>3. Members(ExpireControl(room)) = Members(room)
    BY <1>1 DEF ExpireControl, Members, Room
  <2> QED BY <1>1, <2>1, <2>2, <2>3, LeaseUpdate DEF ExpireControl, Room
<1> QED BY <1>2, <1>3

\* The owner changes the capacity to one that holds the members there are.
LEMMA CapacitySound ==
    ASSUME NEW room, Sound(room), NEW capacity \in 2 .. MaxMembers,
           capacity >= Cardinality(Members(room))
    PROVE  Refits(room, [room EXCEPT !.capacity = capacity])
<1> DEFINE after == [room EXCEPT !.capacity = capacity]
<1>1. room \in Room
  BY DEF Sound
<1>2. after \in Room
  BY <1>1 DEF Room
<1>3. /\ after.owner = room.owner /\ after.capacity = capacity
      /\ after.members = room.members /\ after.pairs = room.pairs
      /\ after.share = room.share /\ after.sharer = room.sharer
      /\ after.pendingSharer = room.pendingSharer
      /\ after.epoch = room.epoch /\ after.grant = room.grant
      /\ after.switchRequester = room.switchRequester
      /\ after.switchExpired = room.switchExpired
      /\ after.pendingController = room.pendingController
      /\ after.controlExpired = room.controlExpired
      /\ after.controller = room.controller
  BY <1>1 DEF Room
<1> HIDE DEF after
<1>4. Members(after) = Members(room)
  BY <1>3 DEF Members
<1>5. LeaseShape(after) /\ ControlShape(after)
  BY <1>3 DEF Sound, LeaseShape, ControlShape, LeaseHolders
<1>6. WithinCapacity(after) /\ Paired(after)
  BY <1>3, <1>4, MembersFinite DEF Sound, WithinCapacity, Paired
<1>7. Refits(room, after)
  BY <1>2, <1>4, <1>5, <1>6 DEF Refits, Sound
<1> QED BY <1>7 DEF after

\* A device is admitted to a free seat.
LEMMA AdmitSound ==
    ASSUME NEW room, Sound(room), NEW d \in Device, HasSeat(room)
    PROVE  /\ Sound(Admit(room, d))
           /\ Members(Admit(room, d)) = Members(room) \union {d}
<1> DEFINE after == Admit(room, d)
<1>1. room \in Room
  BY DEF Sound
<1>2. after \in Room
  BY <1>1, LinkTypes
<1>3. /\ after.owner = room.owner /\ after.capacity = room.capacity
      /\ after.members = [room.members EXCEPT ![d] = "online"]
      /\ after.pairs = room.pairs \union {{d, m} : m \in Members(room)}
      /\ after.share = room.share /\ after.sharer = room.sharer
      /\ after.pendingSharer = room.pendingSharer
      /\ after.epoch = room.epoch /\ after.grant = room.grant
      /\ after.switchRequester = room.switchRequester
      /\ after.switchExpired = room.switchExpired
      /\ after.pendingController = room.pendingController
      /\ after.controlExpired = room.controlExpired
      /\ after.controller = room.controller
  BY <1>1 DEF Admit, Room
<1>4. room.members \in [Device -> Link] /\ room.capacity \in Nat
  BY <1>1, MaxMembersAssumption DEF Room
<1> HIDE DEF after
<1>5. Members(after) = Members(room) \union {d}
  BY <1>3, <1>4 DEF Members
<1>6. LeaseShape(after) /\ ControlShape(after)
  BY <1>3 DEF Sound, LeaseShape, ControlShape, LeaseHolders
<1>7. Cardinality(Members(room) \union {d}) <= Cardinality(Members(room)) + 1
  BY MembersFinite, FS_AddElement
<1>8. WithinCapacity(after)
  <2>1. Cardinality(Members(after)) <= room.capacity
    BY <1>4, <1>5, <1>7, MembersFinite DEF HasSeat
  <2> QED BY <1>3, <1>5, <2>1 DEF Sound, WithinCapacity
<1>9. Paired(after)
  <2> SUFFICES ASSUME NEW a \in Members(after), NEW b \in Members(after), a # b
               PROVE  {a, b} \in after.pairs
    BY DEF Paired
  <2>1. CASE a = d
    BY <1>3, <1>5, <2>1
  <2>2. CASE b = d
    <3>1. {a, b} = {b, a}
      OBVIOUS
    <3> QED BY <1>3, <1>5, <2>2, <3>1
  <2>3. CASE a # d /\ b # d
    BY <1>3, <1>5, <2>3 DEF Sound, Paired
  <2> QED BY <2>1, <2>2, <2>3
<1>10. Sound(after) /\ Members(after) = Members(room) \union {d}
  BY <1>2, <1>5, <1>6, <1>8, <1>9 DEF Sound
<1> QED BY <1>10 DEF after

\* Members other than the owner are removed together with what they hold.
LEMMA EvictSound ==
    ASSUME NEW room, Sound(room), NEW S, room.owner \notin S
    PROVE  /\ Refits(room, ReleaseLeases(room, S))
           /\ Sound(Evict(room, S))
           /\ Members(Evict(room, S)) = Members(room) \ S
<1>1. Refits(room, ReleaseLeases(room, S))
  <2> DEFINE rest == IF room.pendingController \in S
                     THEN CancelControl(room) ELSE room
  <2>1. Refits(room, rest)
    BY CancelSound DEF Refits
  <2> HIDE DEF rest
  <2>2. Refits(room, RevokeControl(rest))
    BY <2>1, CancelSound DEF Refits
  <2>3. Refits(room, ResetShare(room))
    BY CancelSound
  <2>4. rest.controller = room.controller
    BY DEF rest, CancelControl, Sound, Room
  <2> QED BY <2>1, <2>2, <2>3, <2>4 DEF ReleaseLeases, rest
<1> DEFINE rest == ReleaseLeases(room, S)
           after == Evict(room, S)
<1>2. rest.owner = room.owner
  BY DEF ReleaseLeases, ResetShare, RevokeControl, CancelControl, CancelSwitch,
         Sound, Room
<1>3. after = DropMembers(rest, S)
  BY DEF Evict
<1> HIDE DEF rest, after
<1>4. Sound(rest) /\ Members(rest) = Members(room)
  BY <1>1 DEF Refits, rest
<1>5. after \in Room
  BY <1>3, <1>4 DEF Sound, DropMembers, Room, Link
<1>6. /\ after.owner = room.owner /\ after.capacity = rest.capacity
      /\ after.members = [m \in Device |->
                             IF m \in S THEN "none" ELSE rest.members[m]]
      /\ after.pairs = {p \in rest.pairs : p \intersect S = {}}
      /\ after.share = rest.share /\ after.sharer = rest.sharer
      /\ after.pendingSharer = rest.pendingSharer
      /\ after.epoch = rest.epoch /\ after.grant = rest.grant
      /\ after.switchRequester = rest.switchRequester
      /\ after.switchExpired = rest.switchExpired
      /\ after.pendingController = rest.pendingController
      /\ after.controlExpired = rest.controlExpired
      /\ after.controller = rest.controller
  BY <1>2, <1>3, <1>4 DEF Sound, DropMembers, Room
<1>7. Members(after) = Members(room) \ S
  BY <1>4, <1>6 DEF Members
<1>8. LeaseShape(after) /\ ControlShape(after)
  BY <1>4, <1>6 DEF Sound, LeaseShape, ControlShape, LeaseHolders
<1>9. /\ rest.capacity \in Nat
      /\ rest.owner \in Members(after)
      /\ Members(after) \subseteq Members(rest)
  BY <1>2, <1>4, <1>7, MaxMembersAssumption DEF Sound, WithinCapacity, Room
<1>10. \A a, b \in Members(after) :
           {a, b} \in rest.pairs => {a, b} \in after.pairs
  BY <1>6, <1>7
<1>11. WithinCapacity(after) /\ Paired(after)
  BY <1>2, <1>4, <1>6, <1>9, <1>10, SeatsKept DEF Sound
<1>12. Sound(after)
  BY <1>5, <1>8, <1>11 DEF Sound
<1> QED BY <1>1, <1>7, <1>12 DEF after

\* A member that is not the owner leaves, or is erased by a late resume.
LEMMA DepartureSound ==
    ASSUME NEW room, Sound(room), NEW d \in Device, d # room.owner
    PROVE  /\ Sound(EvictMember(room, d))
           /\ Members(EvictMember(room, d)) = Members(room) \ {d}
           /\ Sound(LeaveRoom(room, d))
           /\ Members(LeaveRoom(room, d)) = Members(room) \ {d}
           /\ Sound(EraseMember(room, d))
           /\ Members(EraseMember(room, d)) = Members(room) \ {d}
<1>1. Sound(EvictMember(room, d)) /\ Members(EvictMember(room, d)) = Members(room) \ {d}
  BY EvictSound DEF EvictMember
<1>2. Sound(LeaveRoom(room, d)) /\ Members(LeaveRoom(room, d)) = Members(room) \ {d}
  <2>1. Sound(CancelSwitch(room)) /\ Members(CancelSwitch(room)) = Members(room)
    BY CancelSound DEF Refits
  <2>2. CancelSwitch(room).owner = room.owner
    BY DEF CancelSwitch, Sound, Room
  <2>3. /\ Sound(EvictMember(CancelSwitch(room), d))
        /\ Members(EvictMember(CancelSwitch(room), d)) = Members(room) \ {d}
    BY <2>1, <2>2, EvictSound DEF EvictMember
  <2> QED BY <1>1, <2>3 DEF LeaveRoom
<1>3. Sound(EraseMember(room, d)) /\ Members(EraseMember(room, d)) = Members(room) \ {d}
  <2> DEFINE after == EraseMember(room, d)
  <2>1. room \in Room
    BY DEF Sound
  <2>2. after \in Room
    BY <2>1, LinkTypes
  <2>3. /\ after.owner = room.owner /\ after.capacity = room.capacity
        /\ after.pairs = room.pairs
    BY <2>1 DEF EraseMember, Room
  <2>4. Members(after) = Members(room) \ {d}
    BY <2>1 DEF EraseMember, Members, Room
  <2>5. LeaseShape(after) /\ ControlShape(after)
    BY <2>1 DEF Sound, EraseMember, LeaseShape, ControlShape, LeaseHolders, Room
  <2> HIDE DEF after
  <2>6. room.capacity \in Nat /\ room.owner \in Members(after)
    BY <2>1, <2>4, MaxMembersAssumption DEF Sound, WithinCapacity, Room
  <2>7. WithinCapacity(after) /\ Paired(after)
    BY <2>3, <2>4, <2>6, SeatsKept DEF Sound
  <2>8. Sound(after)
    BY <2>2, <2>5, <2>7 DEF Sound
  <2> QED BY <2>4, <2>8 DEF after
<1> QED BY <1>1, <1>2, <1>3

\* A member loses its socket.
LEMMA MarkAwaySound ==
    ASSUME NEW room, Sound(room), NEW d \in Device
    PROVE  Refits(room, MarkAway(room, d))
<1> DEFINE endsControl ==
               \/ room.pendingController = d
               \/ room.pendingController # None /\ room.sharer = d
           endsSwitch ==
               \/ room.switchRequester = d
               \/ room.switchRequester # None /\ room.sharer = d
           afterControl == IF endsControl THEN CancelControl(room) ELSE room
           rest == IF endsSwitch THEN CancelSwitch(afterControl)
                                 ELSE afterControl
           after == [rest EXCEPT
                        !.members[d] = "away",
                        !.share = IF room.sharer = d /\ @ = "active"
                                  THEN "recovering" ELSE @]
<1>1. MarkAway(room, d) = IF room.members[d] # "online" THEN room ELSE after
  BY DEF MarkAway
<1>2. CASE room.members[d] # "online"
  BY <1>1, <1>2 DEF Refits
<1>3. CASE room.members[d] = "online"
  <2>1. Sound(afterControl) /\ Members(afterControl) = Members(room)
    BY CancelSound DEF Refits
  <2>2. Sound(rest) /\ Members(rest) = Members(room)
    <3> HIDE DEF afterControl
    <3> QED BY <2>1, CancelSound DEF Refits
  <2>3. /\ rest.members = room.members
        /\ rest.sharer = room.sharer
        /\ room.sharer = d => rest.pendingController = None
        /\ room.sharer = d => rest.switchRequester = None
    BY DEF CancelControl, CancelSwitch, Sound, Room
  <2> HIDE DEF rest
  <2>4. /\ after.owner = rest.owner /\ after.capacity = rest.capacity
        /\ after.members = [rest.members EXCEPT ![d] = "away"]
        /\ after.pairs = rest.pairs
        /\ after.sharer = rest.sharer
        /\ after.pendingSharer = rest.pendingSharer
        /\ after.epoch = rest.epoch /\ after.grant = rest.grant
        /\ after.switchRequester = rest.switchRequester
        /\ after.switchExpired = rest.switchExpired
        /\ after.pendingController = rest.pendingController
        /\ after.controlExpired = rest.controlExpired
        /\ after.controller = rest.controller
        /\ \/ after.share = rest.share
           \/ /\ room.sharer = d
              /\ rest.share = "active"
              /\ after.share = "recovering"
    BY <2>2 DEF Sound, Room
  <2>5. after \in Room
    BY <2>2 DEF Sound, Room, Link, ShareState
  <2>6. rest.members \in [Device -> Link]
    BY <2>2 DEF Sound, Room
  <2> HIDE DEF after
  <2>7. Members(after) = Members(rest)
    BY <1>3, <2>3, <2>4, <2>6 DEF Members
  <2>8. LeaseShape(after)
    BY <2>2, <2>4 DEF Sound, LeaseShape, LeaseHolders
  <2>9. ControlShape(after)
    BY <2>2, <2>3, <2>4 DEF Sound, ControlShape
  <2>10. Refits(rest, after)
    BY <2>2, <2>4, <2>5, <2>7, <2>8, <2>9, LeaseUpdate
  <2> QED BY <1>1, <1>3, <2>2, <2>10 DEF Refits
<1> QED BY <1>2, <1>3

\* One maintenance pass over a room that stays open.
LEMMA SweepRoomSound ==
    ASSUME NEW room, Sound(room), ~OwnerLost(room)
    PROVE  /\ Sound(SweepRoom(room))
           /\ Members(SweepRoom(room)) = Members(room) \ Lapsed(room)
<1> DEFINE rest == SweepControl(SweepSwitch(room))
<1>1. /\ Refits(room, SweepSwitch(room))
      /\ SweepSwitch(room).owner = room.owner
      /\ SweepSwitch(room).members = room.members
  BY CancelSound DEF SweepSwitch, Refits, CancelSwitch, Sound, Room
<1>2. /\ Refits(room, rest)
      /\ rest.owner = room.owner
      /\ rest.members = room.members
  <2> DEFINE swept == SweepSwitch(room)
  <2> HIDE DEF swept
  <2>1. Sound(swept) /\ Members(swept) = Members(room)
    BY <1>1 DEF swept, Refits
  <2>2. Refits(swept, SweepControl(swept))
    BY <2>1, CancelSound DEF SweepControl, Refits
  <2>3. /\ SweepControl(swept).owner = swept.owner
        /\ SweepControl(swept).members = swept.members
    BY <2>1 DEF SweepControl, CancelControl, Sound, Room
  <2>4. rest = SweepControl(swept)
    BY DEF swept
  <2> QED BY <1>1, <2>1, <2>2, <2>3, <2>4 DEF Refits, swept
<1> HIDE DEF rest
<1>3. Lapsed(rest) = Lapsed(room) /\ room.owner \notin Lapsed(room)
  BY <1>2 DEF Lapsed, OwnerLost
<1>4. Lapsed(rest) \ {rest.owner} = Lapsed(room)
  BY <1>2, <1>3
<1>5. Sound(rest) /\ Members(rest) = Members(room)
  BY <1>2 DEF Refits
<1>6. /\ Sound(SweepMembers(rest))
      /\ Members(SweepMembers(rest)) = Members(room) \ Lapsed(room)
  BY <1>2, <1>3, <1>4, <1>5, EvictSound DEF SweepMembers
<1> QED BY <1>6 DEF SweepRoom, rest

-----------------------------------------------------------------------------
(* Soundness of the registries.                                            *)

\* A registry whose indexes agree with its records and whose rooms are sound.
RegistrySound(reg) ==
    /\ reg \in Registry
    /\ RoomIndexOf(reg)
    /\ JoinsOf(reg)
    /\ \A r \in OpenRooms(reg) : Sound(reg.rooms[r])

\* No device gets a room.
Vacates(reg, after) ==
    \A d \in Device : after.deviceRooms[d] \in {reg.deviceRooms[d], None}

\* A session registry whose index agrees with its records.
DirectorySound(dir) == dir \in Directory /\ SessionIndexOf(dir)

\* No device gets a session.
Releases(dir, after) ==
    \A d \in Device : after.deviceSessions[d] \in {dir.deviceSessions[d], None}

-----------------------------------------------------------------------------
(* One room of the registry.                                               *)

\* A room is updated without moving a member.
LEMMA RefitRoom ==
    ASSUME NEW reg, RegistrySound(reg), NEW r \in OpenRooms(reg), NEW room,
           Refits(reg.rooms[r], room)
    PROVE  /\ RegistrySound(UpdateRoom(reg, r, room))
           /\ Vacates(reg, UpdateRoom(reg, r, room))
<1> DEFINE after == UpdateRoom(reg, r, room)
<1>1. reg \in Registry /\ r \in RoomId /\ room \in Room
  BY DEF RegistrySound, OpenRooms, Refits, Sound
<1>2. after \in Registry
  BY <1>1, UpdateRoomRegistry
<1>3. /\ after.rooms = [reg.rooms EXCEPT ![r] = room]
      /\ after.deviceRooms = reg.deviceRooms
      /\ after.joinRequests = reg.joinRequests
      /\ after.pendingJoins = reg.pendingJoins
  BY <1>1 DEF UpdateRoom, Registry
<1>4. room # None
  BY <1>1, RecordAssumption
<1> HIDE DEF after
<1>5. reg.rooms \in [RoomId -> Room \union {None}]
  BY <1>1 DEF Registry
<1>6. OpenRooms(after) = OpenRooms(reg)
  BY <1>3, <1>4, <1>5 DEF OpenRooms
<1>7. \A s \in RoomId : Members(after.rooms[s]) = Members(reg.rooms[s])
  BY <1>1, <1>3, <1>5 DEF Refits
<1>8. RoomIndexOf(after)
  BY <1>3, <1>6, <1>7 DEF RegistrySound, RoomIndexOf
<1>9. JoinsOf(after)
  BY <1>3, <1>6 DEF RegistrySound, JoinsOf, DeviceHasRoom
<1>10. \A s \in OpenRooms(after) : Sound(after.rooms[s])
  BY <1>1, <1>3, <1>5, <1>6 DEF RegistrySound, Refits, OpenRooms
<1>11. RegistrySound(after)
  BY <1>2, <1>8, <1>9, <1>10 DEF RegistrySound
<1>12. Vacates(reg, after)
  BY <1>3 DEF Vacates
<1> QED BY <1>11, <1>12 DEF after

\* A member leaves a room that stays open.
LEMMA RemoveMemberSound ==
    ASSUME NEW reg, RegistrySound(reg), NEW r \in OpenRooms(reg), NEW room,
           Sound(room), NEW d \in Device,
           Members(room) = Members(reg.rooms[r]) \ {d}
    PROVE  /\ RegistrySound(RemoveMember(reg, r, room, d))
           /\ Vacates(reg, RemoveMember(reg, r, room, d))
<1> DEFINE after == RemoveMember(reg, r, room, d)
<1>1. reg \in Registry /\ r \in RoomId /\ room \in Room
  BY DEF RegistrySound, OpenRooms, Sound
<1>2. after \in Registry
  BY <1>1, RoomUpdateTypes
<1>3. /\ after.rooms = [reg.rooms EXCEPT ![r] = room]
      /\ after.deviceRooms = [reg.deviceRooms EXCEPT ![d] =
                                 IF @ = r THEN None ELSE @]
      /\ after.joinRequests = reg.joinRequests
      /\ after.pendingJoins = reg.pendingJoins
  BY <1>1 DEF RemoveMember, Registry
<1>4. room # None
  BY <1>1, RecordAssumption
<1> HIDE DEF after
<1>5. /\ reg.rooms \in [RoomId -> Room \union {None}]
      /\ reg.deviceRooms \in [Device -> RoomId \union {None}]
  BY <1>1 DEF Registry
<1>6. OpenRooms(after) = OpenRooms(reg)
  BY <1>3, <1>4, <1>5 DEF OpenRooms
<1>7. Vacates(reg, after)
  BY <1>3, <1>5 DEF Vacates
<1>8. RoomIndexOf(after)
  <2> SUFFICES ASSUME NEW e \in Device, NEW s \in RoomId
               PROVE  after.deviceRooms[e] = s
                          <=> s \in OpenRooms(after) /\ e \in Members(after.rooms[s])
    BY DEF RoomIndexOf
  <2>1. reg.deviceRooms[e] = s
            <=> s \in OpenRooms(reg) /\ e \in Members(reg.rooms[s])
    BY DEF RegistrySound, RoomIndexOf
  <2>2. CASE s = r /\ e = d
    BY <1>1, <1>3, <1>5, <2>2, RoomIdAssumption
  <2>3. CASE s = r /\ e # d
    BY <1>1, <1>3, <1>5, <1>6, <2>1, <2>3
  <2>4. CASE s # r /\ e # d
    BY <1>3, <1>5, <1>6, <2>1, <2>4
  <2>5. CASE s # r /\ e = d
    BY <1>3, <1>5, <1>6, <2>1, <2>5, RoomIdAssumption
  <2> QED BY <2>2, <2>3, <2>4, <2>5
<1>9. JoinsOf(after)
  BY <1>3, <1>6, <1>7 DEF RegistrySound, JoinsOf, DeviceHasRoom, Vacates
<1>10. \A s \in OpenRooms(after) : Sound(after.rooms[s])
  BY <1>1, <1>3, <1>5, <1>6 DEF RegistrySound, OpenRooms
<1>11. RegistrySound(after)
  BY <1>2, <1>8, <1>9, <1>10 DEF RegistrySound
<1> QED BY <1>7, <1>11 DEF after

\* A device that has no room and waits for none opens one.
LEMMA AddRoomSound ==
    ASSUME NEW reg, RegistrySound(reg),
           NEW r \in RoomId, r \notin OpenRooms(reg),
           NEW d \in Device, ~DeviceHasRoom(reg, d), d \notin reg.pendingJoins,
           NEW capacity \in 2 .. MaxMembers
    PROVE  RegistrySound(AddRoom(reg, r, d, capacity))
<1> DEFINE after == AddRoom(reg, r, d, capacity)
           room == NewRoom(d, capacity)
<1>1. reg \in Registry /\ room \in Room
  BY NewRoomType DEF RegistrySound
<1>2. after \in Registry
  BY <1>1, EntryTypes
<1>3. /\ after.rooms = [reg.rooms EXCEPT ![r] = room]
      /\ after.deviceRooms = [reg.deviceRooms EXCEPT ![d] = r]
      /\ after.joinRequests = reg.joinRequests
      /\ after.pendingJoins = reg.pendingJoins
  BY <1>1 DEF AddRoom, Registry
<1>4. room # None /\ Sound(room) /\ Members(room) = {d}
  BY <1>1, RecordAssumption, NewRoomSound
<1> HIDE DEF after, room
<1>5. /\ reg.rooms \in [RoomId -> Room \union {None}]
      /\ reg.deviceRooms \in [Device -> RoomId \union {None}]
  BY <1>1 DEF Registry
<1>6. OpenRooms(after) = OpenRooms(reg) \union {r}
  BY <1>3, <1>4, <1>5 DEF OpenRooms
<1>7. RoomIndexOf(after)
  <2> SUFFICES ASSUME NEW e \in Device, NEW s \in RoomId
               PROVE  after.deviceRooms[e] = s
                          <=> s \in OpenRooms(after) /\ e \in Members(after.rooms[s])
    BY DEF RoomIndexOf
  <2>1. /\ reg.deviceRooms[e] = s
               <=> s \in OpenRooms(reg) /\ e \in Members(reg.rooms[s])
        /\ reg.deviceRooms[d] = None
    BY DEF RegistrySound, RoomIndexOf, DeviceHasRoom
  <2>2. CASE s = r
    BY <1>3, <1>4, <1>5, <1>6, <2>1, <2>2
  <2>3. CASE s # r
    BY <1>3, <1>5, <1>6, <2>1, <2>3, RoomIdAssumption
  <2> QED BY <2>2, <2>3
<1>8. JoinsOf(after)
  <2>1. \A e \in reg.pendingJoins : e # d /\ e \in Device
    BY <1>1 DEF Registry
  <2> QED BY <1>3, <1>5, <1>6, <2>1 DEF RegistrySound, JoinsOf, DeviceHasRoom
<1>9. \A s \in OpenRooms(after) : Sound(after.rooms[s])
  BY <1>3, <1>4, <1>5, <1>6 DEF RegistrySound, OpenRooms
<1>10. RegistrySound(after)
  BY <1>2, <1>7, <1>8, <1>9 DEF RegistrySound
<1> QED BY <1>10 DEF after

\* A device that has no room and whose request was consumed is admitted.
LEMMA AdmitMemberSound ==
    ASSUME NEW reg, RegistrySound(reg), NEW r \in OpenRooms(reg),
           NEW d \in Device, ~DeviceHasRoom(reg, d), d \notin reg.pendingJoins,
           HasSeat(reg.rooms[r])
    PROVE  RegistrySound(AdmitMember(reg, r, d))
<1> DEFINE after == AdmitMember(reg, r, d)
           room == Admit(reg.rooms[r], d)
<1>1. reg \in Registry /\ r \in RoomId /\ reg.rooms[r] # None
  BY DEF RegistrySound, OpenRooms
<1>2. after \in Registry
  BY <1>1, EntryTypes
<1>3. /\ after.rooms = [reg.rooms EXCEPT ![r] = room]
      /\ after.deviceRooms = [reg.deviceRooms EXCEPT ![d] = r]
      /\ after.joinRequests = reg.joinRequests
      /\ after.pendingJoins = reg.pendingJoins
  BY <1>1 DEF AdmitMember, Registry
<1>4. /\ Sound(room)
      /\ Members(room) = Members(reg.rooms[r]) \union {d}
  BY AdmitSound DEF RegistrySound
<1> HIDE DEF after, room
<1>5. room # None
  BY <1>4, RecordAssumption DEF Sound
<1>6. /\ reg.rooms \in [RoomId -> Room \union {None}]
      /\ reg.deviceRooms \in [Device -> RoomId \union {None}]
  BY <1>1 DEF Registry
<1>7. OpenRooms(after) = OpenRooms(reg)
  BY <1>1, <1>3, <1>5, <1>6 DEF OpenRooms
<1>8. RoomIndexOf(after)
  <2> SUFFICES ASSUME NEW e \in Device, NEW s \in RoomId
               PROVE  after.deviceRooms[e] = s
                          <=> s \in OpenRooms(after) /\ e \in Members(after.rooms[s])
    BY DEF RoomIndexOf
  <2>1. /\ reg.deviceRooms[e] = s
               <=> s \in OpenRooms(reg) /\ e \in Members(reg.rooms[s])
        /\ reg.deviceRooms[d] = None
    BY DEF RegistrySound, RoomIndexOf, DeviceHasRoom
  <2>2. CASE s = r
    BY <1>1, <1>3, <1>4, <1>6, <1>7, <2>1, <2>2
  <2>3. CASE s # r
    BY <1>3, <1>6, <1>7, <2>1, <2>3, RoomIdAssumption
  <2> QED BY <2>2, <2>3
<1>9. JoinsOf(after)
  <2>1. \A e \in reg.pendingJoins : e # d /\ e \in Device
    BY <1>1 DEF Registry
  <2> QED BY <1>3, <1>6, <1>7, <2>1 DEF RegistrySound, JoinsOf, DeviceHasRoom
<1>10. \A s \in OpenRooms(after) : Sound(after.rooms[s])
  BY <1>1, <1>3, <1>4, <1>6, <1>7 DEF RegistrySound, OpenRooms
<1>11. RegistrySound(after)
  BY <1>2, <1>8, <1>9, <1>10 DEF RegistrySound
<1> QED BY <1>11 DEF after

-----------------------------------------------------------------------------
(* Join requests.                                                          *)

\* Requests are answered, withdrawn, swept or time out.
LEMMA DropJoinsSound ==
    ASSUME NEW reg, RegistrySound(reg)
    PROVE  /\ \A S \in SUBSET Device :
                 /\ RegistrySound(DropJoins(reg, S))
                 /\ DropJoins(reg, S).rooms = reg.rooms
                 /\ DropJoins(reg, S).deviceRooms = reg.deviceRooms
                 /\ DropJoins(reg, S).pendingJoins = reg.pendingJoins \ S
           /\ \A d \in Device : reg.joinRequests[d] # None =>
                 /\ RegistrySound(ExpireJoin(reg, d))
                 /\ Vacates(reg, ExpireJoin(reg, d))
<1>1. reg \in Registry
  BY DEF RegistrySound
<1>2. ASSUME NEW S \in SUBSET Device
      PROVE  /\ RegistrySound(DropJoins(reg, S))
             /\ DropJoins(reg, S).rooms = reg.rooms
             /\ DropJoins(reg, S).deviceRooms = reg.deviceRooms
             /\ DropJoins(reg, S).pendingJoins = reg.pendingJoins \ S
  <2> DEFINE after == DropJoins(reg, S)
  <2>1. after \in Registry
    BY <1>1, JoinTypes
  <2>2. /\ after.rooms = reg.rooms
        /\ after.deviceRooms = reg.deviceRooms
        /\ after.joinRequests = [d \in Device |-> IF d \in S THEN None
                                                  ELSE reg.joinRequests[d]]
        /\ after.pendingJoins = reg.pendingJoins \ S
    BY <1>1 DEF DropJoins, Registry
  <2> HIDE DEF after
  <2>3. OpenRooms(after) = OpenRooms(reg)
    BY <2>2 DEF OpenRooms
  <2>4. RoomIndexOf(after)
    BY <2>2, <2>3 DEF RegistrySound, RoomIndexOf
  <2>5. JoinsOf(after)
    BY <2>2, <2>3 DEF RegistrySound, JoinsOf, DeviceHasRoom
  <2>6. RegistrySound(after)
    BY <2>1, <2>2, <2>3, <2>4, <2>5 DEF RegistrySound
  <2> QED BY <2>2, <2>6 DEF after
<1>3. ASSUME NEW d \in Device, reg.joinRequests[d] # None
      PROVE  /\ RegistrySound(ExpireJoin(reg, d))
             /\ Vacates(reg, ExpireJoin(reg, d))
  <2> DEFINE after == ExpireJoin(reg, d)
             request == [reg.joinRequests[d] EXCEPT !.expired = TRUE]
  <2>1. after \in Registry
    BY <1>1, <1>3, JoinTypes
  <2>2. reg.joinRequests[d] \in JoinRequest
    BY <1>1, <1>3 DEF Registry
  <2>3. /\ request \in JoinRequest
        /\ request.room = reg.joinRequests[d].room
    BY <2>2 DEF JoinRequest
  <2>4. /\ after.rooms = reg.rooms
        /\ after.deviceRooms = reg.deviceRooms
        /\ after.joinRequests = [reg.joinRequests EXCEPT ![d] = request]
        /\ after.pendingJoins = reg.pendingJoins
    BY <1>1 DEF ExpireJoin, Registry
  <2>5. reg.joinRequests \in [Device -> JoinRequest \union {None}]
    BY <1>1 DEF Registry
  <2> HIDE DEF after, request
  <2>6. OpenRooms(after) = OpenRooms(reg)
    BY <2>4 DEF OpenRooms
  <2>7. RoomIndexOf(after)
    BY <2>4, <2>6 DEF RegistrySound, RoomIndexOf
  <2>8. JoinsOf(after)
    <3>1. \A e \in Device :
              /\ after.joinRequests[e] # None <=> reg.joinRequests[e] # None
              /\ after.joinRequests[e] # None =>
                     after.joinRequests[e].room = reg.joinRequests[e].room
      BY <1>3, <2>3, <2>4, <2>5, RecordAssumption
    <3> QED BY <2>4, <2>6, <3>1 DEF RegistrySound, JoinsOf, DeviceHasRoom
  <2>9. RegistrySound(after)
    BY <2>1, <2>4, <2>6, <2>7, <2>8 DEF RegistrySound
  <2> QED BY <2>4, <2>9 DEF after, Vacates
<1> QED BY <1>2, <1>3

\* A device without a room asks to join an open one.
LEMMA InsertJoinSound ==
    ASSUME NEW reg, RegistrySound(reg), NEW r \in OpenRooms(reg),
           NEW d \in Device, ~DeviceHasRoom(reg, d)
    PROVE  /\ RegistrySound(InsertJoin(reg, d, r))
           /\ Vacates(reg, InsertJoin(reg, d, r))
<1> DEFINE after == InsertJoin(reg, d, r)
           request == [room |-> r, expired |-> FALSE]
<1>1. reg \in Registry /\ r \in RoomId
  BY DEF RegistrySound, OpenRooms
<1>2. after \in Registry
  BY <1>1, JoinTypes
<1>3. /\ after.rooms = reg.rooms
      /\ after.deviceRooms = reg.deviceRooms
      /\ after.joinRequests = [reg.joinRequests EXCEPT ![d] = request]
      /\ after.pendingJoins = reg.pendingJoins \union {d}
  BY <1>1 DEF InsertJoin, Registry
<1>4. request \in JoinRequest /\ request.room = r
  BY <1>1 DEF JoinRequest
<1>5. reg.joinRequests \in [Device -> JoinRequest \union {None}]
  BY <1>1 DEF Registry
<1> HIDE DEF after, request
<1>6. OpenRooms(after) = OpenRooms(reg)
  BY <1>3 DEF OpenRooms
<1>7. RoomIndexOf(after)
  BY <1>3, <1>6 DEF RegistrySound, RoomIndexOf
<1>8. JoinsOf(after)
  <2>1. request # None
    BY <1>4, RecordAssumption
  <2>2. after.pendingJoins = {e \in Device : after.joinRequests[e] # None}
    BY <1>3, <1>5, <2>1 DEF RegistrySound, JoinsOf
  <2>3. \A e \in after.pendingJoins :
            /\ after.joinRequests[e].room \in OpenRooms(reg)
            /\ after.deviceRooms[e] = None
    BY <1>3, <1>4, <1>5 DEF RegistrySound, JoinsOf, DeviceHasRoom
  <2> QED BY <1>6, <2>2, <2>3 DEF JoinsOf, DeviceHasRoom
<1>9. RegistrySound(after)
  BY <1>2, <1>3, <1>6, <1>7, <1>8 DEF RegistrySound
<1> QED BY <1>3, <1>9 DEF after, Vacates

-----------------------------------------------------------------------------
(* Rooms close and devices leave.                                          *)

\* Closing rooms takes their members' index entries and join requests along.
LEMMA CloseRoomsSound ==
    ASSUME NEW reg, RegistrySound(reg), NEW R \in SUBSET RoomId
    PROVE  /\ RegistrySound(CloseRooms(reg, R))
           /\ Vacates(reg, CloseRooms(reg, R))
<1> DEFINE after == CloseRooms(reg, R)
<1>1. reg \in Registry
  BY DEF RegistrySound
<1>2. after \in Registry
  BY <1>1, CloseTypes
<1>3. /\ after.rooms =
             [r \in RoomId |-> IF r \in R THEN None ELSE reg.rooms[r]]
      /\ after.deviceRooms =
             [d \in Device |-> IF d \in IndexedMembers(reg, R) THEN None
                               ELSE reg.deviceRooms[d]]
      /\ after.joinRequests =
             [d \in Device |-> IF d \in JoinersOf(reg, R) THEN None
                               ELSE reg.joinRequests[d]]
      /\ after.pendingJoins = reg.pendingJoins \ JoinersOf(reg, R)
  BY <1>1 DEF CloseRooms, DropJoins, Registry
<1> HIDE DEF after
<1>4. reg.deviceRooms \in [Device -> RoomId \union {None}]
  BY <1>1 DEF Registry
<1>5. OpenRooms(after) = OpenRooms(reg) \ R
  BY <1>3 DEF OpenRooms
<1>6. Vacates(reg, after)
  BY <1>3 DEF Vacates
<1>7. RoomIndexOf(after)
  <2> SUFFICES ASSUME NEW d \in Device, NEW r \in RoomId
               PROVE  after.deviceRooms[d] = r
                          <=> r \in OpenRooms(after) /\ d \in Members(after.rooms[r])
    BY DEF RoomIndexOf
  <2>1. \A s \in RoomId :
            reg.deviceRooms[d] = s
                <=> s \in OpenRooms(reg) /\ d \in Members(reg.rooms[s])
    BY DEF RegistrySound, RoomIndexOf
  <2>2. d \in IndexedMembers(reg, R) <=> reg.deviceRooms[d] \in R
    BY <2>1, RoomIdAssumption DEF IndexedMembers, OpenRooms
  <2>3. CASE r \in R
    BY <1>3, <1>5, <2>2, <2>3, RoomIdAssumption
  <2>4. CASE r \notin R
    BY <1>3, <1>5, <2>1, <2>2, <2>4, RoomIdAssumption
  <2> QED BY <2>3, <2>4
<1>8. JoinsOf(after)
  <2>1. after.pendingJoins = {d \in Device : after.joinRequests[d] # None}
    BY <1>3 DEF RegistrySound, JoinsOf
  <2>2. ASSUME NEW d \in after.pendingJoins
        PROVE  /\ after.joinRequests[d].room \in OpenRooms(after)
               /\ after.deviceRooms[d] = None
    <3>1. d \in Device /\ d \in reg.pendingJoins /\ d \notin JoinersOf(reg, R)
      BY <1>1, <1>3, <2>2 DEF Registry
    <3>2. /\ reg.joinRequests[d] # None
          /\ reg.joinRequests[d].room \in OpenRooms(reg)
          /\ reg.deviceRooms[d] = None
      BY <3>1 DEF RegistrySound, JoinsOf, DeviceHasRoom
    <3> QED BY <1>3, <1>5, <3>1, <3>2 DEF JoinersOf
  <2> QED BY <2>1, <2>2 DEF JoinsOf, DeviceHasRoom
<1>9. \A r \in OpenRooms(after) : Sound(after.rooms[r])
  BY <1>3, <1>5 DEF RegistrySound, OpenRooms
<1>10. RegistrySound(after)
  BY <1>2, <1>7, <1>8, <1>9 DEF RegistrySound
<1> QED BY <1>6, <1>10 DEF after

\* The room of a device, if any, is open and lists it.
LEMMA RoomOfDevice ==
    ASSUME NEW reg, RegistrySound(reg), NEW d \in Device, DeviceHasRoom(reg, d)
    PROVE  /\ reg.deviceRooms[d] \in OpenRooms(reg)
           /\ d \in Members(reg.rooms[reg.deviceRooms[d]])
BY DEF RegistrySound, Registry, DeviceHasRoom, RoomIndexOf

\* A device gives up its room: the owner closes it, another member leaves.
LEMMA RemoveOrCloseSound ==
    ASSUME NEW reg, RegistrySound(reg), NEW r \in OpenRooms(reg),
           NEW d \in Device
    PROVE  /\ RegistrySound(RemoveOrClose(reg, r, d))
           /\ Vacates(reg, RemoveOrClose(reg, r, d))
<1>1. r \in RoomId /\ Sound(reg.rooms[r])
  BY DEF RegistrySound, OpenRooms
<1>2. /\ RegistrySound(CloseRooms(reg, {r}))
      /\ Vacates(reg, CloseRooms(reg, {r}))
  BY <1>1, CloseRoomsSound
<1>3. ASSUME reg.rooms[r].owner # d
      PROVE  /\ RegistrySound(RemoveMember(reg, r, EvictMember(reg.rooms[r], d), d))
             /\ Vacates(reg, RemoveMember(reg, r, EvictMember(reg.rooms[r], d), d))
  <2>1. /\ Sound(EvictMember(reg.rooms[r], d))
        /\ Members(EvictMember(reg.rooms[r], d)) = Members(reg.rooms[r]) \ {d}
    BY <1>1, <1>3, DepartureSound
  <2> QED BY <2>1, RemoveMemberSound
<1> QED BY <1>2, <1>3 DEF RemoveOrClose

\* What a device leaves behind when it starts afresh, loses its socket or its
\* account is a sound registry, in which nobody got a room.
LEMMA LeavingSound ==
    ASSUME NEW reg, RegistrySound(reg), NEW d \in Device
    PROVE  /\ RegistrySound(FreshStart(reg, d))
           /\ Vacates(reg, FreshStart(reg, d))
           /\ RegistrySound(MarkDisconnected(reg, d))
           /\ Vacates(reg, MarkDisconnected(reg, d))
           /\ RegistrySound(ForgetDevice(reg, d))
           /\ Vacates(reg, ForgetDevice(reg, d))
<1>1. RegistrySound(FreshStart(reg, d)) /\ Vacates(reg, FreshStart(reg, d))
  <2> DEFINE r == reg.deviceRooms[d]
  <2>1. Vacates(reg, reg)
    BY DEF Vacates
  <2>2. ASSUME r # None
        PROVE  /\ reg.rooms[r] # None
               /\ RegistrySound(RemoveOrClose(reg, r, d))
               /\ Vacates(reg, RemoveOrClose(reg, r, d))
    BY <2>2, RoomOfDevice, RemoveOrCloseSound DEF DeviceHasRoom, OpenRooms
  <2> QED BY <2>1, <2>2 DEF FreshStart
<1> DEFINE rest == CancelPendingJoin(reg, d)
           r == rest.deviceRooms[d]
<1>2. RegistrySound(rest) /\ rest.deviceRooms = reg.deviceRooms
  BY DropJoinsSound DEF CancelPendingJoin
<1>3. MarkDisconnected(reg, d) =
          IF r = None THEN rest ELSE IF rest.rooms[r] = None THEN rest
          ELSE UpdateRoom(rest, r, MarkAway(rest.rooms[r], d))
  BY DEF MarkDisconnected, UpdateRoom
<1>4. ForgetDevice(reg, d) =
          IF r = None THEN rest ELSE IF rest.rooms[r] = None THEN rest
          ELSE RemoveOrClose(rest, r, d)
  BY DEF ForgetDevice
<1> HIDE DEF rest
<1>5. ASSUME r # None
      PROVE  r \in OpenRooms(rest) /\ Sound(rest.rooms[r])
  BY <1>2, <1>5, RoomOfDevice DEF DeviceHasRoom, RegistrySound
<1>6. /\ RegistrySound(MarkDisconnected(reg, d))
      /\ Vacates(rest, MarkDisconnected(reg, d))
  <2>1. CASE r = None \/ rest.rooms[r] = None
    BY <1>2, <1>3, <2>1 DEF Vacates
  <2>2. CASE r # None /\ rest.rooms[r] # None
    <3>1. Refits(rest.rooms[r], MarkAway(rest.rooms[r], d))
      BY <1>5, <2>2, MarkAwaySound
    <3> QED BY <1>2, <1>3, <1>5, <2>2, <3>1, RefitRoom
  <2> QED BY <2>1, <2>2
<1>7. /\ RegistrySound(ForgetDevice(reg, d))
      /\ Vacates(rest, ForgetDevice(reg, d))
  <2>1. CASE r = None \/ rest.rooms[r] = None
    BY <1>2, <1>4, <2>1 DEF Vacates
  <2>2. CASE r # None /\ rest.rooms[r] # None
    BY <1>2, <1>4, <1>5, <2>2, RemoveOrCloseSound
  <2> QED BY <2>1, <2>2
<1> QED BY <1>1, <1>2, <1>6, <1>7 DEF Vacates

\* One maintenance pass.
LEMMA SweepRegistrySound ==
    ASSUME NEW reg, RegistrySound(reg)
    PROVE  /\ RegistrySound(SweepRegistry(reg))
           /\ Vacates(reg, SweepRegistry(reg))
<1>1. ASSUME NEW s, RegistrySound(s)
      PROVE  RegistrySound(SweepRooms(s)) /\ Vacates(s, SweepRooms(s))
  <2> DEFINE lost == {r \in OpenRooms(s) : OwnerLost(s.rooms[r])}
             kept == OpenRooms(s) \ lost
             gone == LapsedMembers(s, kept)
             swept == [s EXCEPT
                 !.rooms = [r \in RoomId |->
                     IF r \in kept THEN SweepRoom(@[r]) ELSE @[r]],
                 !.deviceRooms = [d \in Device |->
                     IF d \in gone THEN None ELSE @[d]]]
  <2>1. s \in Registry /\ lost \in SUBSET RoomId /\ kept \in SUBSET RoomId
    BY <1>1 DEF RegistrySound, OpenRooms
  <2>2. /\ swept.rooms = [r \in RoomId |-> IF r \in kept
                                           THEN SweepRoom(s.rooms[r])
                                           ELSE s.rooms[r]]
        /\ swept.deviceRooms = [d \in Device |-> IF d \in gone THEN None
                                                 ELSE s.deviceRooms[d]]
        /\ swept.joinRequests = s.joinRequests
        /\ swept.pendingJoins = s.pendingJoins
    BY <2>1 DEF Registry
  <2>3. SweepRooms(s) = CloseRooms(swept, lost)
    BY DEF SweepRooms
  <2>4. \A r \in kept :
            /\ Sound(SweepRoom(s.rooms[r]))
            /\ Members(SweepRoom(s.rooms[r])) =
                   Members(s.rooms[r]) \ Lapsed(s.rooms[r])
    BY <1>1, SweepRoomSound DEF RegistrySound
  <2>5. swept \in [rooms : [RoomId -> Room \union {None}],
                   deviceRooms : [Device -> RoomId \union {None}],
                   joinRequests : [Device -> JoinRequest \union {None}],
                   pendingJoins : SUBSET Device]
    <3>1. \A r \in kept : SweepRoom(s.rooms[r]) \in Room
      BY <2>4 DEF Sound
    <3> HIDE DEF kept, gone
    <3> QED BY <2>1, <3>1 DEF Registry
  <2>6. \A r \in RoomId : swept.rooms[r] = None <=> r \notin OpenRooms(s)
    <3>1. \A r \in kept : SweepRoom(s.rooms[r]) # None
      BY <2>4, RecordAssumption DEF Sound
    <3> QED BY <2>2, <3>1 DEF OpenRooms
  <2>7. \A d \in Device, r \in RoomId :
            s.deviceRooms[d] = r
                <=> r \in OpenRooms(s) /\ d \in Members(s.rooms[r])
    BY <1>1 DEF RegistrySound, RoomIndexOf
  <2>8. \A d \in Device :
            d \in gone <=> \E r \in kept : /\ s.deviceRooms[d] = r
                                           /\ d \in Lapsed(s.rooms[r])
    BY DEF LapsedMembers, OpenRooms
  <2>9. OpenRooms(swept) = OpenRooms(s)
    BY <2>6 DEF OpenRooms
  <2>10. lost \intersect kept = {} /\ OpenRooms(s) = lost \union kept
    OBVIOUS
  <2> HIDE DEF kept, gone, lost, swept
  <2>11. \A r \in lost : swept.rooms[r] = s.rooms[r]
    BY <2>1, <2>2, <2>10
  <2>12. RoomIndexOf(swept)
    <3> SUFFICES ASSUME NEW d \in Device, NEW r \in RoomId
                 PROVE  swept.deviceRooms[d] = r
                            <=> /\ r \in OpenRooms(swept)
                                /\ d \in Members(swept.rooms[r])
      BY DEF RoomIndexOf
    <3>1. CASE r \in kept
      BY <2>2, <2>4, <2>7, <2>8, <2>9, <2>10, <3>1, RoomIdAssumption
    <3>2. CASE r \notin kept
      BY <2>2, <2>7, <2>8, <2>9, <2>10, <3>2, RoomIdAssumption
    <3> QED BY <3>1, <3>2
  <2>13. Vacates(s, swept)
    BY <2>2 DEF Vacates
  <2>14. JoinsOf(swept)
    <3>1. /\ s.pendingJoins = {d \in Device : s.joinRequests[d] # None}
          /\ \A d \in s.pendingJoins :
                /\ s.joinRequests[d].room \in OpenRooms(s)
                /\ s.deviceRooms[d] = None
      BY <1>1 DEF RegistrySound, JoinsOf, DeviceHasRoom
    <3>2. \A d \in s.pendingJoins : swept.deviceRooms[d] = None
      BY <2>2, <3>1
    <3> QED BY <2>2, <2>9, <3>1, <3>2 DEF JoinsOf, DeviceHasRoom
  <2>15. \A r \in OpenRooms(swept) : Sound(swept.rooms[r])
    BY <1>1, <2>1, <2>2, <2>4, <2>9, <2>10, <2>11 DEF RegistrySound
  <2>16. RegistrySound(swept)
    BY <2>5, <2>12, <2>14, <2>15 DEF RegistrySound, Registry
  <2>17. /\ RegistrySound(CloseRooms(swept, lost))
         /\ Vacates(swept, CloseRooms(swept, lost))
    BY <2>1, <2>16, CloseRoomsSound
  <2> QED BY <2>3, <2>13, <2>17 DEF Vacates
<1>2. /\ RegistrySound(SweepJoins(reg))
      /\ SweepJoins(reg).deviceRooms = reg.deviceRooms
  BY DropJoinsSound DEF SweepJoins
<1>3. /\ RegistrySound(SweepRooms(SweepJoins(reg)))
      /\ Vacates(SweepJoins(reg), SweepRooms(SweepJoins(reg)))
  BY <1>1, <1>2
<1> QED BY <1>2, <1>3 DEF SweepRegistry, Vacates

-----------------------------------------------------------------------------
(* The session registry.                                                   *)

\* A session starts between two devices that have none.
LEMMA InsertSessionSound ==
    ASSUME NEW dir, DirectorySound(dir), NEW d \in Device, NEW t \in Device,
           CanInsert(dir, d, t)
    PROVE  /\ DirectorySound(InsertSession(dir, d, t))
           /\ \A e \in Device \ {d, t} :
                 InsertSession(dir, d, t).deviceSessions[e] = dir.deviceSessions[e]
<1> DEFINE after == InsertSession(dir, d, t)
           session == [target |-> t, phase |-> "pending",
                       requesterLink |-> "online", targetLink |-> "online"]
<1>1. dir \in Directory
  BY DEF DirectorySound
<1>2. after \in Directory
  BY <1>1, SessionSetTypes
<1>3. /\ after.sessions = [dir.sessions EXCEPT ![d] = session]
      /\ after.deviceSessions = [dir.deviceSessions EXCEPT ![d] = d, ![t] = d]
  BY <1>1 DEF InsertSession, Directory
<1>4. session \in Session /\ session.target = t
  BY DEF Session, Phase, SideLink
<1>5. session # None
  BY <1>4, SessionAssumption
<1> HIDE DEF after, session
<1>6. /\ dir.sessions \in [Device -> Session \union {None}]
      /\ dir.deviceSessions \in [Device -> Device \union {None}]
  BY <1>1 DEF Directory, DeviceOrNone
<1>7. OpenSessions(after) = OpenSessions(dir) \union {d}
  BY <1>3, <1>5, <1>6 DEF OpenSessions
<1>8. /\ dir.deviceSessions[d] = None /\ dir.deviceSessions[t] = None
      /\ d \notin OpenSessions(dir)
  BY DEF CanInsert, DeviceHasSession, OpenSessions
<1>9. SessionIndexOf(after)
  <2> SUFFICES ASSUME NEW e \in Device, NEW k \in Device
               PROVE  after.deviceSessions[e] = k
                          <=> k \in OpenSessions(after) /\ e \in Ends(after, k)
    BY DEF SessionIndexOf
  <2>1. /\ dir.deviceSessions[e] = k
               <=> k \in OpenSessions(dir) /\ e \in {k, dir.sessions[k].target}
        /\ Ends(after, k) = {k, after.sessions[k].target}
    BY DEF DirectorySound, SessionIndexOf, Ends
  <2>2. CASE k = d
    BY <1>3, <1>4, <1>6, <1>7, <1>8, <2>1, <2>2
  <2>3. CASE k # d
    BY <1>3, <1>6, <1>7, <1>8, <2>1, <2>3, DeviceAssumption
  <2> QED BY <2>2, <2>3
<1>10. \A e \in Device \ {d, t} : after.deviceSessions[e] = dir.deviceSessions[e]
  BY <1>3, <1>6
<1> QED BY <1>2, <1>9, <1>10 DEF DirectorySound, after

\* A session changes in place: its target stays.
LEMMA SessionUpdateSound ==
    ASSUME NEW dir, DirectorySound(dir), NEW after \in Directory,
           after.deviceSessions = dir.deviceSessions,
           \A k \in Device :
              /\ after.sessions[k] = None <=> dir.sessions[k] = None
              /\ dir.sessions[k] # None =>
                     after.sessions[k].target = dir.sessions[k].target
    PROVE  DirectorySound(after) /\ Releases(dir, after)
<1>1. OpenSessions(after) = OpenSessions(dir)
  BY DEF OpenSessions
<1>2. \A k \in OpenSessions(dir) : Ends(after, k) = Ends(dir, k)
  BY DEF Ends, OpenSessions
<1>3. SessionIndexOf(after)
  BY <1>1, <1>2 DEF DirectorySound, SessionIndexOf
<1> QED BY <1>3 DEF DirectorySound, Releases

\* Sessions end.
LEMMA RemoveSessionsSound ==
    ASSUME NEW dir, DirectorySound(dir), NEW K
    PROVE  /\ DirectorySound(RemoveSessions(dir, K))
           /\ Releases(dir, RemoveSessions(dir, K))
<1> DEFINE after == RemoveSessions(dir, K)
           freed == UNION {IndexEntries(dir, k) : k \in K \intersect OpenSessions(dir)}
<1>1. dir \in Directory
  BY DEF DirectorySound
<1>2. after \in Directory
  BY <1>1, SessionSetTypes
<1>3. /\ after.sessions = [k \in Device |-> IF k \in K THEN None
                                            ELSE dir.sessions[k]]
      /\ after.deviceSessions = [d \in Device |-> IF d \in freed THEN None
                                                  ELSE dir.deviceSessions[d]]
  BY <1>1 DEF RemoveSessions, Directory
<1>4. \A d \in Device, k \in Device :
          dir.deviceSessions[d] = k <=> k \in OpenSessions(dir) /\ d \in Ends(dir, k)
  BY DEF DirectorySound, SessionIndexOf
<1>5. dir.deviceSessions \in [Device -> Device \union {None}]
  BY <1>1 DEF Directory, DeviceOrNone
<1>6. \A d \in Device : d \in freed <=> /\ dir.deviceSessions[d] \in Device
                                        /\ dir.deviceSessions[d] \in K
  <2> TAKE d \in Device
  <2>1. ASSUME d \in freed
        PROVE  dir.deviceSessions[d] \in Device /\ dir.deviceSessions[d] \in K
    BY <2>1 DEF IndexEntries, OpenSessions
  <2>2. ASSUME dir.deviceSessions[d] \in Device, dir.deviceSessions[d] \in K
        PROVE  d \in freed
    BY <1>4, <2>2 DEF IndexEntries
  <2> QED BY <2>1, <2>2
<1> HIDE DEF after, freed
<1>7. OpenSessions(after) = OpenSessions(dir) \ K
  BY <1>3 DEF OpenSessions
<1>8. SessionIndexOf(after)
  <2> SUFFICES ASSUME NEW d \in Device, NEW k \in Device
               PROVE  after.deviceSessions[d] = k
                          <=> k \in OpenSessions(after) /\ d \in Ends(after, k)
    BY DEF SessionIndexOf
  <2>1. CASE k \in K
    BY <1>3, <1>6, <1>7, <2>1, DeviceAssumption
  <2>2. CASE k \notin K
    <3>1. Ends(after, k) = Ends(dir, k)
      BY <1>3, <2>2 DEF Ends
    <3> QED BY <1>3, <1>4, <1>6, <1>7, <2>2, <3>1, DeviceAssumption
  <2> QED BY <2>1, <2>2
<1>9. Releases(dir, after)
  BY <1>3 DEF Releases
<1> QED BY <1>2, <1>8, <1>9 DEF DirectorySound, after

\* A device loses its socket, deadlines are swept.
LEMMA SuspendSound ==
    ASSUME NEW dir, DirectorySound(dir)
    PROVE  /\ \A d \in Device : /\ DirectorySound(Suspend(dir, d))
                                /\ Releases(dir, Suspend(dir, d))
           /\ DirectorySound(SweepDirectory(dir))
           /\ Releases(dir, SweepDirectory(dir))
<1>1. ASSUME NEW d \in Device
      PROVE  DirectorySound(Suspend(dir, d)) /\ Releases(dir, Suspend(dir, d))
  <2> DEFINE mine == SessionsOf(dir, d)
             ended == {k \in mine : dir.sessions[k].phase # "active"}
             suspended ==
                 [dir EXCEPT !.sessions = [k \in Device |->
                     IF k \in mine \ ended THEN SuspendedSide(dir, k, d)
                                           ELSE @[k]]]
  <2>1. dir \in Directory
    BY DEF DirectorySound
  <2>2. \A k \in mine : /\ dir.sessions[k] # None
                        /\ dir.sessions[k] \in Session
    BY <2>1 DEF SessionsOf, OpenSessions, Directory
  <2>3. \A k \in mine : /\ SuspendedSide(dir, k, d) \in Session
                        /\ SuspendedSide(dir, k, d).target = dir.sessions[k].target
    BY <2>2 DEF SuspendedSide, LinkLost, Session, SideLink
  <2>4. /\ suspended.sessions = [k \in Device |-> IF k \in mine \ ended
                                                  THEN SuspendedSide(dir, k, d)
                                                  ELSE dir.sessions[k]]
        /\ suspended.deviceSessions = dir.deviceSessions
    BY <2>1 DEF Directory
  <2>5. suspended \in Directory
    <3> HIDE DEF mine, ended
    <3> QED BY <2>1, <2>3 DEF Directory
  <2>6. Suspend(dir, d) = RemoveSessions(suspended, ended)
    BY DEF Suspend
  <2> HIDE DEF suspended
  <2>7. \A k \in Device :
            /\ suspended.sessions[k] = None <=> dir.sessions[k] = None
            /\ dir.sessions[k] # None =>
                   suspended.sessions[k].target = dir.sessions[k].target
    BY <2>2, <2>3, <2>4, SessionAssumption
  <2>8. DirectorySound(suspended) /\ Releases(dir, suspended)
    BY <2>4, <2>5, <2>7, SessionUpdateSound
  <2>9. /\ DirectorySound(RemoveSessions(suspended, ended))
        /\ Releases(suspended, RemoveSessions(suspended, ended))
    BY <2>8, RemoveSessionsSound
  <2> QED BY <2>6, <2>8, <2>9 DEF Releases
<1>2. DirectorySound(SweepDirectory(dir)) /\ Releases(dir, SweepDirectory(dir))
  <2> DEFINE swept == SweepPendingSessions(dir)
  <2>1. DirectorySound(swept) /\ Releases(dir, swept)
    BY RemoveSessionsSound DEF SweepPendingSessions
  <2> HIDE DEF swept
  <2>2. /\ DirectorySound(SweepRecoverySessions(swept))
        /\ Releases(swept, SweepRecoverySessions(swept))
    BY <2>1, RemoveSessionsSound DEF SweepRecoverySessions
  <2> QED BY <2>1, <2>2 DEF SweepDirectory, swept, Releases
<1> QED BY <1>1, <1>2

\* A session is accepted, expires, or one of its sides changes.
LEMMA SessionChangeSound ==
    ASSUME NEW dir, DirectorySound(dir), NEW k \in OpenSessions(dir)
    PROVE  /\ DirectorySound(ActivateSession(dir, k))
           /\ Releases(dir, ActivateSession(dir, k))
           /\ DirectorySound(ExpirePending(dir, k))
           /\ Releases(dir, ExpirePending(dir, k))
           /\ \A d \in Device, l \in SideLink :
                 /\ DirectorySound(SetSide(dir, k, d, l))
                 /\ Releases(dir, SetSide(dir, k, d, l))
<1>1. dir \in Directory /\ k \in Device /\ dir.sessions[k] \in Session
  BY DEF DirectorySound, OpenSessions, Directory
<1>2. ASSUME NEW session \in Session, session.target = dir.sessions[k].target
      PROVE  /\ DirectorySound([dir EXCEPT !.sessions[k] = session])
             /\ Releases(dir, [dir EXCEPT !.sessions[k] = session])
  <2> DEFINE after == [dir EXCEPT !.sessions[k] = session]
  <2>1. /\ after \in Directory
        /\ after.deviceSessions = dir.deviceSessions
        /\ after.sessions = [dir.sessions EXCEPT ![k] = session]
        /\ dir.sessions \in [Device -> Session \union {None}]
    BY <1>1 DEF Directory
  <2> HIDE DEF after
  <2>2. \A j \in Device :
            /\ after.sessions[j] = None <=> dir.sessions[j] = None
            /\ dir.sessions[j] # None =>
                   after.sessions[j].target = dir.sessions[j].target
    BY <1>1, <1>2, <2>1, SessionAssumption
  <2>3. DirectorySound(after) /\ Releases(dir, after)
    BY <2>1, <2>2, SessionUpdateSound
  <2> QED BY <2>3 DEF after
<1>3. /\ DirectorySound(ActivateSession(dir, k))
      /\ Releases(dir, ActivateSession(dir, k))
  <2> DEFINE session == [dir.sessions[k] EXCEPT !.phase = "active"]
  <2>1. session \in Session /\ session.target = dir.sessions[k].target
    BY <1>1 DEF Session, Phase
  <2> QED BY <1>2, <2>1 DEF ActivateSession
<1>4. /\ DirectorySound(ExpirePending(dir, k))
      /\ Releases(dir, ExpirePending(dir, k))
  <2> DEFINE session == [dir.sessions[k] EXCEPT !.phase = "expired"]
  <2>1. session \in Session /\ session.target = dir.sessions[k].target
    BY <1>1 DEF Session, Phase
  <2> QED BY <1>2, <2>1 DEF ExpirePending
<1>5. ASSUME NEW d \in Device, NEW l \in SideLink
      PROVE  /\ DirectorySound(SetSide(dir, k, d, l))
             /\ Releases(dir, SetSide(dir, k, d, l))
  <2> DEFINE left == [dir.sessions[k] EXCEPT !.requesterLink = l]
             right == [dir.sessions[k] EXCEPT !.targetLink = l]
  <2>1. /\ left \in Session /\ left.target = dir.sessions[k].target
        /\ right \in Session /\ right.target = dir.sessions[k].target
    BY <1>1 DEF Session
  <2> QED BY <1>2, <2>1 DEF SetSide
<1> QED BY <1>3, <1>4, <1>5

-----------------------------------------------------------------------------
(* Type correctness.                                                       *)

\* An update of an open room, whoever asks for it, keeps the types.
LEMMA UpdateRoomType ==
    ASSUME TypeOK, NEW r \in RoomId, IsOpen(r), NEW room \in Room,
           registry' = UpdateRoom(registry, r, room),
           UNCHANGED <<conn, directory>>
    PROVE  TypeOK'
BY UpdateRoomRegistry DEF TypeOK

\* Connecting, disconnecting and deleting an account keep the types.
LEMMA ConnectionsType ==
    ASSUME TypeOK, Connections
    PROVE  TypeOK'
<1>1. PICK d \in Device : \/ Register(d)
                          \/ Disconnect(d)
                          \/ DeleteAccount(d)
                          \/ OrphanCloses(d)
  BY DEF Connections
<1>2. /\ MarkDisconnected(registry, d) \in Registry
      /\ ForgetDevice(registry, d) \in Registry
      /\ Suspend(directory, d) \in Directory
      /\ \A K : RemoveSessions(directory, K) \in Directory
  BY LeavingTypes, SuspendType, SessionSetTypes DEF TypeOK
<1>3. \A c \in Connection : [conn EXCEPT ![d] = c] \in [Device -> Connection]
  BY DEF TypeOK
<1>4. CASE Register(d)
  BY <1>2, <1>3, <1>4 DEF Register, TypeOK, Connection
<1>5. CASE Disconnect(d)
  BY <1>2, <1>3, <1>5 DEF Disconnect, TypeOK, Connection
<1>6. CASE DeleteAccount(d)
  BY <1>2, <1>3, <1>6 DEF DeleteAccount, TypeOK, Connection
<1>7. CASE OrphanCloses(d)
  BY <1>3, <1>7 DEF OrphanCloses, TypeOK, Connection
<1> QED BY <1>1, <1>4, <1>5, <1>6, <1>7

\* The membership handlers keep the types.
LEMMA MembershipType ==
    ASSUME TypeOK, NEW d \in Device, NEW r \in RoomId
    PROVE  /\ \A c : HandleRoomCreate(d, r, c) => TypeOK'
           /\ \A c : HandleRoomSetCapacity(d, r, c) => TypeOK'
           /\ HandleRoomJoinRequest(d, r) => TypeOK'
           /\ \A j \in Device, accepted \in BOOLEAN :
                 HandleRoomJoinResponse(d, r, j, accepted) => TypeOK'
           /\ HandleRoomLeave(d, r) => TypeOK'
           /\ ResumeInTime(d, r) => TypeOK'
           /\ ResumeLate(d, r) => TypeOK'
<1> DEFINE fresh == FreshStart(registry, d)
<1>1. /\ registry \in Registry
      /\ fresh \in Registry
  BY LeavingTypes DEF TypeOK
<1>2. IsOpen(r) => registry.rooms[r] \in Room
  BY OpenRoomType DEF TypeOK, IsOpen
<1>3. CloseRooms(registry, {r}) \in Registry
  BY <1>1, CloseTypes
<1>4. ASSUME NEW c, HandleRoomCreate(d, r, c)
      PROVE  TypeOK'
  <2>1. AddRoom(fresh, r, d, c) \in Registry
    BY <1>1, <1>4, EntryTypes DEF HandleRoomCreate, ValidCapacity
  <2> QED BY <1>1, <1>4, <2>1 DEF HandleRoomCreate, TypeOK
<1>5. ASSUME NEW c, HandleRoomSetCapacity(d, r, c)
      PROVE  TypeOK'
  <2> DEFINE room == [registry.rooms[r] EXCEPT !.capacity = c]
  <2>1. room \in Room
    BY <1>2, <1>5 DEF HandleRoomSetCapacity, ValidCapacity, Room
  <2>2. registry' = UpdateRoom(registry, r, room)
    BY <1>5 DEF HandleRoomSetCapacity, UpdateRoom
  <2> QED BY <1>5, <2>1, <2>2, UpdateRoomType DEF HandleRoomSetCapacity
<1>6. ASSUME HandleRoomJoinRequest(d, r)
      PROVE  TypeOK'
  <2>1. InsertJoin(fresh, d, r) \in Registry
    BY <1>1, JoinTypes
  <2>2. [fresh EXCEPT !.pendingJoins = @ \ {d}] \in Registry
    BY <1>1 DEF Registry
  <2> QED BY <1>1, <1>6, <2>1, <2>2 DEF HandleRoomJoinRequest, TypeOK
<1>7. ASSUME NEW j \in Device, NEW accepted \in BOOLEAN,
             HandleRoomJoinResponse(d, r, j, accepted)
      PROVE  TypeOK'
  <2> DEFINE rest == DropJoins(registry, {j})
  <2>1. rest \in Registry
    BY <1>1, JoinTypes
  <2>2. rest.rooms[r] # None
    BY <1>7 DEF HandleRoomJoinResponse, DropJoins, IsOpen
  <2>3. AdmitMember(rest, r, j) \in Registry
    BY <2>1, <2>2, EntryTypes
  <2> QED BY <1>7, <2>1, <2>3 DEF HandleRoomJoinResponse, TypeOK
<1>8. ASSUME HandleRoomLeave(d, r)
      PROVE  TypeOK'
  <2>1. LeaveRoom(registry.rooms[r], d) \in Room
    BY <1>2, <1>8, DepartureTypes DEF HandleRoomLeave
  <2>2. RemoveMember(registry, r, LeaveRoom(registry.rooms[r], d), d) \in Registry
    BY <1>1, <2>1, RoomUpdateTypes
  <2> QED BY <1>3, <1>8, <2>2 DEF HandleRoomLeave, TypeOK
<1>9. ASSUME ResumeInTime(d, r)
      PROVE  TypeOK'
  <2>1. ResumeMember(registry.rooms[r], d) \in Room
    BY <1>2, <1>9, LinkTypes DEF ResumeInTime, HoldsMembership
  <2> QED BY <1>9, <2>1, UpdateRoomType DEF ResumeInTime, HoldsMembership
<1>10. ASSUME ResumeLate(d, r)
       PROVE  TypeOK'
  <2>1. EraseMember(registry.rooms[r], d) \in Room
    BY <1>2, <1>10, LinkTypes DEF ResumeLate, HoldsMembership
  <2>2. RemoveMember(registry, r, EraseMember(registry.rooms[r], d), d)
            \in Registry
    BY <1>1, <2>1, RoomUpdateTypes
  <2> QED BY <1>3, <1>10, <2>2 DEF ResumeLate, TypeOK
<1> QED BY <1>4, <1>5, <1>6, <1>7, <1>8, <1>9, <1>10

\* The screen-share handlers keep the types.
LEMMA SharingType ==
    ASSUME TypeOK, Sharing
    PROVE  TypeOK'
<1>1. PICK d \in Device, r \in RoomId :
          \/ HandleRoomScreenShareRequest(d, r)
          \/ \E grant \in 1 .. MaxEpoch :
                \/ HandleRoomScreenShareReady(d, r, grant)
                \/ HandleRoomScreenShareStop(d, r, grant)
          \/ \E accepted \in BOOLEAN :
                HandleRoomScreenShareSwitchResponse(d, r, accepted)
          \/ HandleRoomScreenShareSwitchCancel(d, r)
  BY DEF Sharing
<1> DEFINE room == registry.rooms[r]
<1>2. IsOpen(r) => room \in Room
  BY OpenRoomType DEF TypeOK, IsOpen
<1>3. CASE HandleRoomScreenShareRequest(d, r)
  BY <1>2, <1>3, GrantTypes, UpdateRoomType
     DEF HandleRoomScreenShareRequest, OnlineMember
<1>4. ASSUME NEW grant \in 1 .. MaxEpoch, HandleRoomScreenShareReady(d, r, grant)
      PROVE  TypeOK'
  BY <1>2, <1>4, GrantTypes, UpdateRoomType
     DEF HandleRoomScreenShareReady, OnlineMember
<1>5. ASSUME NEW grant \in 1 .. MaxEpoch, HandleRoomScreenShareStop(d, r, grant)
      PROVE  TypeOK'
  BY <1>2, <1>5, CancelTypes, UpdateRoomType DEF HandleRoomScreenShareStop
<1>6. ASSUME NEW accepted \in BOOLEAN,
             HandleRoomScreenShareSwitchResponse(d, r, accepted)
      PROVE  TypeOK'
  <2> DEFINE requester == room.switchRequester
  <2>1. IsOpen(r) /\ room \in Room /\ requester \in Device
    BY <1>2, <1>6 DEF HandleRoomScreenShareSwitchResponse, Room, DeviceOrNone
  <2>2. CancelSwitch(room) \in Room
    BY <2>1, CancelTypes
  <2>3. GrantShare(CancelSwitch(room), requester) \in Room
    BY <2>1, <2>2, GrantTypes
  <2> QED BY <1>6, <2>1, <2>2, <2>3, UpdateRoomType
             DEF HandleRoomScreenShareSwitchResponse
<1>7. CASE HandleRoomScreenShareSwitchCancel(d, r)
  BY <1>2, <1>7, CancelTypes, UpdateRoomType
     DEF HandleRoomScreenShareSwitchCancel
<1> QED BY <1>1, <1>3, <1>4, <1>5, <1>6, <1>7

\* The control handlers keep the types.
LEMMA ControlType ==
    ASSUME TypeOK, Control
    PROVE  TypeOK'
<1>1. PICK d \in Device, r \in RoomId :
          \/ HandleRoomControlRequest(d, r)
          \/ \E accepted \in BOOLEAN : HandleRoomControlResponse(d, r, accepted)
          \/ HandleRoomControlRelease(d, r)
  BY DEF Control
<1>2. IsOpen(r) => registry.rooms[r] \in Room
  BY OpenRoomType DEF TypeOK, IsOpen
<1>3. CASE HandleRoomControlRequest(d, r)
  BY <1>2, <1>3, GrantTypes, UpdateRoomType
     DEF HandleRoomControlRequest, OnlineMember
<1>4. ASSUME NEW accepted \in BOOLEAN, HandleRoomControlResponse(d, r, accepted)
      PROVE  TypeOK'
  BY <1>2, <1>4, CancelTypes, UpdateRoomType DEF HandleRoomControlResponse
<1>5. CASE HandleRoomControlRelease(d, r)
  BY <1>2, <1>5, CancelTypes, UpdateRoomType DEF HandleRoomControlRelease
<1> QED BY <1>1, <1>3, <1>4, <1>5

\* The session handlers keep the types.
LEMMA SessionHandlersType ==
    ASSUME TypeOK, SessionHandlers
    PROVE  TypeOK'
<1>1. PICK d \in Device, k \in Device :
          \/ HandleSessionRequest(d, k)
          \/ \E accepted \in BOOLEAN : HandleSessionResponse(d, k, accepted)
          \/ HandleSessionResume(d, k)
          \/ CloseSession(d, k)
  BY DEF SessionHandlers
<1>2. /\ InsertSession(directory, d, k) \in Directory
      /\ RemoveSessions(directory, {k}) \in Directory
      /\ directory.sessions[k] # None =>
             /\ ActivateSession(directory, k) \in Directory
             /\ SetSide(directory, k, d, "online") \in Directory
  BY SessionSetTypes, SessionUpdateTypes DEF TypeOK, SideLink
<1>3. CASE HandleSessionRequest(d, k)
  BY <1>2, <1>3 DEF HandleSessionRequest, TypeOK
<1>4. ASSUME NEW accepted \in BOOLEAN, HandleSessionResponse(d, k, accepted)
      PROVE  TypeOK'
  BY <1>2, <1>4 DEF HandleSessionResponse, OpenSessions, TypeOK
<1>5. CASE HandleSessionResume(d, k)
  BY <1>2, <1>5 DEF HandleSessionResume, SessionsOf, OpenSessions, TypeOK
<1>6. CASE CloseSession(d, k)
  BY <1>2, <1>6 DEF CloseSession, TypeOK
<1> QED BY <1>1, <1>3, <1>4, <1>5, <1>6

\* Passing deadlines keep the types.
LEMMA TimeType ==
    ASSUME TypeOK, RoomTime \/ SessionTime
    PROVE  TypeOK'
<1>1. ASSUME NEW r \in RoomId, IsOpen(r)
      PROVE  registry.rooms[r] \in Room
  BY <1>1, OpenRoomType DEF TypeOK, IsOpen
<1>2. ASSUME NEW d \in Device, NEW r \in RoomId, MemberLapses(d, r)
      PROVE  TypeOK'
  BY <1>1, <1>2, LinkTypes, UpdateRoomType DEF MemberLapses
<1>3. ASSUME NEW d \in Device, JoinExpires(d)
      PROVE  TypeOK'
  BY <1>3, JoinTypes DEF JoinExpires, TypeOK
<1>4. ASSUME NEW r \in RoomId, SwitchExpires(r) \/ ControlExpires(r)
      PROVE  TypeOK'
  BY <1>1, <1>4, SweepTypes, UpdateRoomType DEF SwitchExpires, ControlExpires
<1>5. ASSUME NEW k \in Device, PendingExpires(k)
      PROVE  TypeOK'
  BY <1>5, SessionUpdateTypes DEF PendingExpires, OpenSessions, TypeOK
<1>6. ASSUME NEW d \in Device, NEW k \in Device, SideLapses(d, k)
      PROVE  TypeOK'
  BY <1>6, SessionUpdateTypes
     DEF SideLapses, SessionsOf, OpenSessions, SideLink, TypeOK
<1> QED BY <1>2, <1>3, <1>4, <1>5, <1>6 DEF RoomTime, SessionTime

\* Every step of the server keeps the types.
LEMMA NextType ==
    ASSUME TypeOK, [Next]_vars
    PROVE  TypeOK'
<1>1. CASE Connections
  BY <1>1, ConnectionsType
<1>2. CASE Membership
  BY <1>2, MembershipType DEF Membership
<1>3. CASE Sharing
  BY <1>3, SharingType
<1>4. CASE Control
  BY <1>4, ControlType
<1>5. CASE SessionHandlers
  BY <1>5, SessionHandlersType
<1>6. CASE RoomTime \/ SessionTime
  BY <1>6, TimeType
<1>7. CASE Sweep
  BY <1>7, SweepRegistryType, SessionSetTypes DEF Sweep, TypeOK
<1>8. CASE Stop
  BY <1>8, EmptyRegistryType, EmptyDirectoryType DEF Stop, TypeOK, Connection
<1>9. ASSUME NEW d \in Device, NEW r \in RoomId, ResumeLate(d, r)
      PROVE  TypeOK'
  BY <1>9, MembershipType
<1>10. CASE UNCHANGED vars
  BY <1>10 DEF vars, TypeOK
<1> QED BY <1>1, <1>2, <1>3, <1>4, <1>5, <1>6, <1>7, <1>8, <1>9, <1>10
           DEF Next, TimelyNext

\* The server's maps always hold values of their declared types.
THEOREM TypeCorrect == Spec => []TypeOK
<1>1. Init => TypeOK
  BY EmptyRegistryType, EmptyDirectoryType DEF Init, TypeOK, Connection
<1>2. TypeOK /\ [Next]_vars => TypeOK'
  BY NextType
<1> QED BY <1>1, <1>2, PTL DEF Spec

-----------------------------------------------------------------------------
(* The inductive invariant.                                                *)

\* Types, both registries sound, one engagement per device.
Inv ==
    /\ TypeOK
    /\ RegistrySound(registry)
    /\ DirectorySound(directory)
    /\ OneEngagement

-----------------------------------------------------------------------------
\* A step that engages nobody keeps a device to one engagement.
LEMMA NobodyEngaged ==
    ASSUME OneEngagement,
           Vacates(registry, registry'), Releases(directory, directory')
    PROVE  OneEngagement'
BY DEF OneEngagement, Vacates, Releases, DeviceHasRoom, DeviceHasSession

\* A step on the rooms that gives nobody a room.
LEMMA RoomsStep ==
    ASSUME Inv, TypeOK', UNCHANGED directory,
           RegistrySound(registry'), Vacates(registry, registry')
    PROVE  Inv'
<1>1. Releases(directory, directory')
  BY DEF Releases
<1> QED BY <1>1, NobodyEngaged DEF Inv

\* A step on the sessions that gives nobody a session.
LEMMA SessionsStep ==
    ASSUME Inv, TypeOK', UNCHANGED registry,
           DirectorySound(directory'), Releases(directory, directory')
    PROVE  Inv'
<1>1. Vacates(registry, registry')
  BY DEF Vacates
<1> QED BY <1>1, NobodyEngaged DEF Inv

\* A step that refits one open room.
LEMMA RefitStep ==
    ASSUME Inv, TypeOK', NEW r \in RoomId, IsOpen(r), NEW room,
           Refits(registry.rooms[r], room),
           registry' = UpdateRoom(registry, r, room), UNCHANGED directory
    PROVE  Inv'
<1>1. r \in OpenRooms(registry)
  BY DEF IsOpen, OpenRooms
<1> QED BY <1>1, RefitRoom, RoomsStep DEF Inv

\* A room that gets a sound record with one member less.
LEMMA DepartureStep ==
    ASSUME Inv, TypeOK', NEW r \in RoomId, IsOpen(r), NEW room, Sound(room),
           NEW d \in Device, Members(room) = Members(registry.rooms[r]) \ {d},
           registry' = RemoveMember(registry, r, room, d), UNCHANGED directory
    PROVE  Inv'
<1>1. r \in OpenRooms(registry)
  BY DEF IsOpen, OpenRooms
<1> QED BY <1>1, RemoveMemberSound, RoomsStep DEF Inv

\* A device that has no session gets a room, others at most lose theirs.
LEMMA EntryStep ==
    ASSUME Inv, TypeOK', UNCHANGED directory, RegistrySound(registry'),
           NEW d \in Device, ~DeviceHasSession(directory, d),
           \A e \in Device \ {d} :
               registry'.deviceRooms[e] \in {registry.deviceRooms[e], None}
    PROVE  Inv'
<1>1. OneEngagement'
  BY DEF Inv, OneEngagement, DeviceHasRoom, DeviceHasSession
<1> QED BY <1>1 DEF Inv

-----------------------------------------------------------------------------
(* The handlers.                                                           *)

\* Connections come, go and are deleted.
LEMMA ConnectionsInv ==
    ASSUME Inv, TypeOK', Connections
    PROVE  Inv'
<1>1. PICK d \in Device : \/ Register(d)
                          \/ Disconnect(d)
                          \/ DeleteAccount(d)
                          \/ OrphanCloses(d)
  BY DEF Connections
<1>2. RegistrySound(registry) /\ DirectorySound(directory)
  BY DEF Inv
<1>3. ASSUME registry' = MarkDisconnected(registry, d),
             directory' = Suspend(directory, d)
      PROVE  Inv'
  <2>1. RegistrySound(registry') /\ Vacates(registry, registry')
    BY <1>2, <1>3, LeavingSound
  <2>2. DirectorySound(directory') /\ Releases(directory, directory')
    BY <1>2, <1>3, SuspendSound
  <2> QED BY <2>1, <2>2, NobodyEngaged DEF Inv
<1>4. ASSUME UNCHANGED <<registry, directory>>
      PROVE  Inv'
  BY <1>4 DEF Inv, OneEngagement
<1>5. CASE Register(d)
  BY <1>3, <1>4, <1>5 DEF Register
<1>6. CASE Disconnect(d)
  BY <1>3, <1>6 DEF Disconnect
<1>7. CASE DeleteAccount(d)
  <2>1. RegistrySound(registry') /\ Vacates(registry, registry')
    BY <1>2, <1>7, LeavingSound DEF DeleteAccount
  <2>2. DirectorySound(directory') /\ Releases(directory, directory')
    BY <1>2, <1>7, RemoveSessionsSound DEF DeleteAccount
  <2> QED BY <2>1, <2>2, NobodyEngaged DEF Inv
<1>8. CASE OrphanCloses(d)
  BY <1>4, <1>8 DEF OrphanCloses
<1> QED BY <1>1, <1>5, <1>6, <1>7, <1>8

\* A room is created.
LEMMA CreateInv ==
    ASSUME Inv, TypeOK', NEW d \in Device, NEW r \in RoomId, NEW capacity,
           HandleRoomCreate(d, r, capacity)
    PROVE  Inv'
<1> DEFINE fresh == FreshStart(registry, d)
<1>1. /\ RegistrySound(fresh) /\ Vacates(registry, fresh)
      /\ capacity \in 2 .. MaxMembers
      /\ UNCHANGED directory
  BY LeavingSound DEF Inv, HandleRoomCreate, ValidCapacity
<1>2. \/ registry' = fresh
      \/ /\ registry' = AddRoom(fresh, r, d, capacity)
         /\ ~IsOpen(r)
         /\ d \notin fresh.pendingJoins
         /\ ~Engaged(fresh, d)
  BY DEF HandleRoomCreate
<1> HIDE DEF fresh
<1>3. CASE registry' = fresh
  BY <1>1, <1>3, RoomsStep
<1>4. CASE /\ registry' = AddRoom(fresh, r, d, capacity)
           /\ ~IsOpen(r)
           /\ d \notin fresh.pendingJoins
           /\ ~Engaged(fresh, d)
  <2>1. ~DeviceHasRoom(fresh, d) /\ ~DeviceHasSession(directory, d)
    BY <1>4 DEF Engaged
  <2>2. r \notin OpenRooms(fresh)
    <3>1. fresh.rooms[r] = None
      BY <1>4 DEF fresh, FreshStart, IsOpen, RemoveOrClose, CloseRooms,
                  RemoveMember, DropJoins, Inv, TypeOK, Registry
    <3> QED BY <3>1 DEF OpenRooms
  <2>3. RegistrySound(registry')
    BY <1>1, <1>4, <2>1, <2>2, AddRoomSound
  <2>4. \A e \in Device \ {d} :
            registry'.deviceRooms[e] \in {registry.deviceRooms[e], None}
    BY <1>1, <1>4 DEF AddRoom, Vacates, RegistrySound, Registry
  <2> QED BY <1>1, <2>1, <2>3, <2>4, EntryStep
<1> QED BY <1>2, <1>3, <1>4

\* A device asks to join.
LEMMA JoinRequestInv ==
    ASSUME Inv, TypeOK', NEW d \in Device, NEW r \in RoomId,
           HandleRoomJoinRequest(d, r)
    PROVE  Inv'
<1> DEFINE fresh == FreshStart(registry, d)
           pending == d \in fresh.pendingJoins /\ fresh.joinRequests[d] # None
<1>1. RegistrySound(fresh) /\ Vacates(registry, fresh) /\ UNCHANGED directory
  BY LeavingSound DEF Inv, HandleRoomJoinRequest
<1>2. \/ registry' = fresh
      \/ /\ registry' = InsertJoin(fresh, d, r)
         /\ fresh.rooms[r] # None
         /\ ~Engaged(fresh, d)
      \/ /\ registry' = [fresh EXCEPT !.pendingJoins = @ \ {d}]
         /\ ~pending
  BY DEF HandleRoomJoinRequest
<1> HIDE DEF fresh
<1>3. CASE registry' = fresh
  BY <1>1, <1>3, RoomsStep
<1>4. CASE /\ registry' = InsertJoin(fresh, d, r)
           /\ fresh.rooms[r] # None
           /\ ~Engaged(fresh, d)
  <2>1. r \in OpenRooms(fresh) /\ ~DeviceHasRoom(fresh, d)
    BY <1>4 DEF OpenRooms, Engaged
  <2>2. RegistrySound(registry') /\ Vacates(fresh, registry')
    BY <1>1, <1>4, <2>1, InsertJoinSound
  <2>3. Vacates(registry, registry')
    BY <1>1, <2>2 DEF Vacates
  <2> QED BY <1>1, <2>2, <2>3, RoomsStep
<1>5. CASE registry' = [fresh EXCEPT !.pendingJoins = @ \ {d}] /\ ~pending
  <2>1. d \notin fresh.pendingJoins
    BY <1>1, <1>5 DEF RegistrySound, JoinsOf
  <2>2. registry' = fresh
    BY <1>1, <1>5, <2>1 DEF RegistrySound, Registry
  <2> QED BY <1>1, <2>2, RoomsStep
<1> QED BY <1>2, <1>3, <1>4, <1>5

\* The owner answers a join request.
LEMMA JoinResponseInv ==
    ASSUME Inv, TypeOK', NEW o \in Device, NEW r \in RoomId, NEW d \in Device,
           NEW accepted \in BOOLEAN, HandleRoomJoinResponse(o, r, d, accepted)
    PROVE  Inv'
<1> DEFINE rest == DropJoins(registry, {d})
<1>1. /\ RegistrySound(rest)
      /\ rest.rooms = registry.rooms
      /\ rest.deviceRooms = registry.deviceRooms
      /\ d \notin rest.pendingJoins
  BY DropJoinsSound DEF Inv
<1>2. /\ IsOpen(r) /\ UNCHANGED directory
      /\ \/ registry' = rest
         \/ /\ registry' = AdmitMember(rest, r, d)
            /\ ~Engaged(rest, d)
            /\ HasSeat(registry.rooms[r])
  BY DEF HandleRoomJoinResponse
<1> HIDE DEF rest
<1>3. CASE registry' = rest
  <2>1. Vacates(registry, rest)
    BY <1>1 DEF Vacates
  <2> QED BY <1>1, <1>2, <1>3, <2>1, RoomsStep
<1>4. CASE /\ registry' = AdmitMember(rest, r, d)
           /\ ~Engaged(rest, d)
           /\ HasSeat(registry.rooms[r])
  <2>1. ~DeviceHasRoom(rest, d) /\ ~DeviceHasSession(directory, d)
    BY <1>4 DEF Engaged
  <2>2. r \in OpenRooms(rest)
    BY <1>1, <1>2 DEF IsOpen, OpenRooms
  <2>3. RegistrySound(registry')
    BY <1>1, <1>4, <2>1, <2>2, AdmitMemberSound
  <2>4. \A e \in Device \ {d} :
            registry'.deviceRooms[e] \in {registry.deviceRooms[e], None}
    BY <1>1, <1>4 DEF AdmitMember, RegistrySound, Registry
  <2> QED BY <1>2, <2>1, <2>3, <2>4, EntryStep
<1> QED BY <1>2, <1>3, <1>4

\* Members leave, or resume their membership in time or late.
LEMMA MemberInv ==
    ASSUME Inv, TypeOK', NEW d \in Device, NEW r \in RoomId
    PROVE  /\ HandleRoomLeave(d, r) => Inv'
           /\ ResumeInTime(d, r) => Inv'
           /\ ResumeLate(d, r) => Inv'
<1>1. IsOpen(r) => Sound(registry.rooms[r])
  BY DEF IsOpen, Inv, RegistrySound, OpenRooms
<1>2. ASSUME registry' = CloseRooms(registry, {r}), UNCHANGED directory
      PROVE  Inv'
  <2>1. /\ RegistrySound(CloseRooms(registry, {r}))
        /\ Vacates(registry, CloseRooms(registry, {r}))
    BY CloseRoomsSound DEF Inv
  <2> QED BY <1>2, <2>1, RoomsStep
<1>3. ASSUME HandleRoomLeave(d, r)
      PROVE  Inv'
  <2> DEFINE room == registry.rooms[r]
  <2>1. IsOpen(r) /\ UNCHANGED directory
    BY <1>3 DEF HandleRoomLeave
  <2>2. CASE room.owner = d
    BY <1>2, <1>3, <2>2 DEF HandleRoomLeave
  <2>3. CASE room.owner # d
    <3>1. registry' = RemoveMember(registry, r, LeaveRoom(room, d), d)
      BY <1>3, <2>3 DEF HandleRoomLeave
    <3>2. /\ Sound(LeaveRoom(room, d))
          /\ Members(LeaveRoom(room, d)) = Members(room) \ {d}
      BY <1>1, <2>1, <2>3, DepartureSound
    <3> QED BY <2>1, <3>1, <3>2, DepartureStep
  <2> QED BY <2>2, <2>3
<1>4. ASSUME ResumeInTime(d, r)
      PROVE  Inv'
  <2>1. /\ IsOpen(r) /\ UNCHANGED directory
        /\ d \in Members(registry.rooms[r])
        /\ registry' = UpdateRoom(registry, r, ResumeMember(registry.rooms[r], d))
    BY <1>4 DEF ResumeInTime, HoldsMembership
  <2>2. Refits(registry.rooms[r], ResumeMember(registry.rooms[r], d))
    BY <1>1, <2>1, LinkSound
  <2> QED BY <2>1, <2>2, RefitStep
<1>5. ASSUME ResumeLate(d, r)
      PROVE  Inv'
  <2> DEFINE room == registry.rooms[r]
  <2>1. IsOpen(r) /\ UNCHANGED directory
    BY <1>5 DEF ResumeLate, HoldsMembership
  <2>2. CASE room.owner = d
    BY <1>2, <1>5, <2>2 DEF ResumeLate
  <2>3. CASE room.owner # d
    <3>1. registry' = RemoveMember(registry, r, EraseMember(room, d), d)
      BY <1>5, <2>3 DEF ResumeLate
    <3>2. /\ Sound(EraseMember(room, d))
          /\ Members(EraseMember(room, d)) = Members(room) \ {d}
      BY <1>1, <2>1, <2>3, DepartureSound
    <3> QED BY <2>1, <3>1, <3>2, DepartureStep
  <2> QED BY <2>2, <2>3
<1> QED BY <1>3, <1>4, <1>5

\* All membership handlers that do not refuse for lack of time.
LEMMA MembershipInv ==
    ASSUME Inv, TypeOK', Membership
    PROVE  Inv'
<1>1. PICK d \in Device, r \in RoomId :
          \/ \E capacity \in 1 .. MaxMembers + 1 :
                \/ HandleRoomCreate(d, r, capacity)
                \/ HandleRoomSetCapacity(d, r, capacity)
          \/ HandleRoomJoinRequest(d, r)
          \/ \E j \in Device, accepted \in BOOLEAN :
                HandleRoomJoinResponse(d, r, j, accepted)
          \/ HandleRoomLeave(d, r)
          \/ ResumeInTime(d, r)
  BY DEF Membership
<1>2. ASSUME NEW capacity, HandleRoomSetCapacity(d, r, capacity)
      PROVE  Inv'
  <2> DEFINE room == registry.rooms[r]
             after == [room EXCEPT !.capacity = capacity]
  <2>1. /\ IsOpen(r) /\ UNCHANGED directory
        /\ capacity \in 2 .. MaxMembers
        /\ capacity >= Cardinality(Members(room))
        /\ registry' = UpdateRoom(registry, r, after)
    BY <1>2 DEF HandleRoomSetCapacity, ValidCapacity, UpdateRoom
  <2>2. Sound(room)
    BY <2>1 DEF IsOpen, Inv, RegistrySound, OpenRooms
  <2>3. Refits(room, after)
    BY <2>1, <2>2, CapacitySound
  <2> QED BY <2>1, <2>3, RefitStep
<1> QED BY <1>1, <1>2, CreateInv, JoinRequestInv, JoinResponseInv, MemberInv

\* The screen-share handlers.
LEMMA SharingInv ==
    ASSUME Inv, TypeOK', Sharing
    PROVE  Inv'
<1>1. PICK d \in Device, r \in RoomId :
          \/ HandleRoomScreenShareRequest(d, r)
          \/ \E grant \in 1 .. MaxEpoch :
                \/ HandleRoomScreenShareReady(d, r, grant)
                \/ HandleRoomScreenShareStop(d, r, grant)
          \/ \E accepted \in BOOLEAN :
                HandleRoomScreenShareSwitchResponse(d, r, accepted)
          \/ HandleRoomScreenShareSwitchCancel(d, r)
  BY DEF Sharing
<1> DEFINE room == registry.rooms[r]
<1>2. IsOpen(r) => Sound(room)
  BY DEF IsOpen, Inv, RegistrySound, OpenRooms
<1>3. CASE HandleRoomScreenShareRequest(d, r)
  <2>1. /\ IsOpen(r) /\ UNCHANGED directory
        /\ room.share # "recovering"
        /\ ~(room.share = "active" /\ room.sharer = d)
        /\ \/ /\ room.share = "active"
              /\ registry' = UpdateRoom(registry, r, RequestSwitch(room, d))
           \/ /\ ~(room.share = "active" /\ room.sharer # None)
              /\ registry' = UpdateRoom(registry, r, GrantShare(room, d))
    BY <1>3 DEF HandleRoomScreenShareRequest, OnlineMember
  <2>2. CASE /\ room.share = "active"
             /\ registry' = UpdateRoom(registry, r, RequestSwitch(room, d))
    <3>1. Refits(room, RequestSwitch(room, d))
      BY <1>2, <2>1, <2>2, RequestSound
    <3> QED BY <2>1, <2>2, <3>1, RefitStep
  <2>3. CASE /\ ~(room.share = "active" /\ room.sharer # None)
             /\ registry' = UpdateRoom(registry, r, GrantShare(room, d))
    <3>1. room.switchRequester = None
      BY <1>2, <2>1, <2>3 DEF Sound, LeaseShape, ControlShape
    <3>2. Refits(room, GrantShare(room, d))
      BY <1>2, <2>1, <3>1, GrantSound
    <3> QED BY <2>1, <2>3, <3>2, RefitStep
  <2> QED BY <2>1, <2>2, <2>3
<1>4. ASSUME NEW grant \in 1 .. MaxEpoch, HandleRoomScreenShareReady(d, r, grant)
      PROVE  Inv'
  <2>1. /\ IsOpen(r) /\ UNCHANGED directory
        /\ room.share = "switching"
        /\ registry' = UpdateRoom(registry, r, ActivateShare(room, d))
    BY <1>4 DEF HandleRoomScreenShareReady, OnlineMember
  <2>2. Refits(room, ActivateShare(room, d))
    BY <1>2, <2>1, ActivateSound
  <2> QED BY <2>1, <2>2, RefitStep
<1>5. ASSUME NEW grant \in 1 .. MaxEpoch, HandleRoomScreenShareStop(d, r, grant)
      PROVE  Inv'
  <2>1. /\ IsOpen(r) /\ UNCHANGED directory
        /\ registry' = UpdateRoom(registry, r, ResetShare(room))
    BY <1>5 DEF HandleRoomScreenShareStop
  <2>2. Refits(room, ResetShare(room))
    BY <1>2, <2>1, CancelSound
  <2> QED BY <2>1, <2>2, RefitStep
<1>6. ASSUME NEW accepted \in BOOLEAN,
             HandleRoomScreenShareSwitchResponse(d, r, accepted)
      PROVE  Inv'
  <2> DEFINE rest == CancelSwitch(room)
             requester == room.switchRequester
  <2>1. /\ IsOpen(r) /\ UNCHANGED directory
        /\ requester # None
        /\ \/ registry' = UpdateRoom(registry, r, GrantShare(rest, requester))
           \/ registry' = UpdateRoom(registry, r, rest)
    BY <1>6 DEF HandleRoomScreenShareSwitchResponse
  <2>2. Refits(room, rest) /\ requester \in Device
    BY <1>2, <2>1, CancelSound DEF Sound, Room, DeviceOrNone
  <2>3. rest.switchRequester = None
    BY <1>2, <2>1 DEF CancelSwitch, Sound, Room
  <2> HIDE DEF rest
  <2>4. Refits(room, GrantShare(rest, requester))
    BY <2>2, <2>3, GrantSound DEF Refits
  <2> QED BY <2>1, <2>2, <2>4, RefitStep
<1>7. CASE HandleRoomScreenShareSwitchCancel(d, r)
  <2>1. /\ IsOpen(r) /\ UNCHANGED directory
        /\ registry' = UpdateRoom(registry, r, CancelSwitch(room))
    BY <1>7 DEF HandleRoomScreenShareSwitchCancel
  <2>2. Refits(room, CancelSwitch(room))
    BY <1>2, <2>1, CancelSound
  <2> QED BY <2>1, <2>2, RefitStep
<1> QED BY <1>1, <1>3, <1>4, <1>5, <1>6, <1>7

\* The control handlers.
LEMMA ControlInv ==
    ASSUME Inv, TypeOK', Control
    PROVE  Inv'
<1>1. PICK d \in Device, r \in RoomId :
          \/ HandleRoomControlRequest(d, r)
          \/ \E accepted \in BOOLEAN : HandleRoomControlResponse(d, r, accepted)
          \/ HandleRoomControlRelease(d, r)
  BY DEF Control
<1> DEFINE room == registry.rooms[r]
<1>2. IsOpen(r) => Sound(room)
  BY DEF IsOpen, Inv, RegistrySound, OpenRooms
<1>3. CASE HandleRoomControlRequest(d, r)
  <2>1. /\ IsOpen(r) /\ UNCHANGED directory
        /\ room.share = "active" /\ room.sharer # d /\ room.controller = None
        /\ registry' = UpdateRoom(registry, r, RequestControl(room, d))
    BY <1>3 DEF HandleRoomControlRequest, OnlineMember
  <2>2. Refits(room, RequestControl(room, d))
    BY <1>2, <2>1, RequestSound
  <2> QED BY <2>1, <2>2, RefitStep
<1>4. ASSUME NEW accepted \in BOOLEAN, HandleRoomControlResponse(d, r, accepted)
      PROVE  Inv'
  <2>1. /\ IsOpen(r) /\ UNCHANGED directory
        /\ room.pendingController # None
        /\ \/ registry' = UpdateRoom(registry, r, GrantControl(room))
           \/ registry' = UpdateRoom(registry, r, CancelControl(room))
    BY <1>4 DEF HandleRoomControlResponse
  <2>2. Refits(room, GrantControl(room)) /\ Refits(room, CancelControl(room))
    BY <1>2, <2>1, GrantControlSound, CancelSound
  <2> QED BY <2>1, <2>2, RefitStep
<1>5. CASE HandleRoomControlRelease(d, r)
  <2>1. /\ IsOpen(r) /\ UNCHANGED directory
        /\ registry' = UpdateRoom(registry, r, RevokeControl(room))
    BY <1>5 DEF HandleRoomControlRelease
  <2>2. Refits(room, RevokeControl(room))
    BY <1>2, <2>1, CancelSound
  <2> QED BY <2>1, <2>2, RefitStep
<1> QED BY <1>1, <1>3, <1>4, <1>5

\* The session handlers.
LEMMA SessionHandlersInv ==
    ASSUME Inv, TypeOK', SessionHandlers
    PROVE  Inv'
<1>1. PICK d \in Device, k \in Device :
          \/ HandleSessionRequest(d, k)
          \/ \E accepted \in BOOLEAN : HandleSessionResponse(d, k, accepted)
          \/ HandleSessionResume(d, k)
          \/ CloseSession(d, k)
  BY DEF SessionHandlers
<1>2. /\ DirectorySound(directory)
      /\ DirectorySound(RemoveSessions(directory, {k}))
      /\ Releases(directory, RemoveSessions(directory, {k}))
  BY RemoveSessionsSound DEF Inv
<1>3. CASE HandleSessionRequest(d, k)
  <2> DEFINE after == InsertSession(directory, d, k)
  <2>1. /\ CanInsert(directory, d, k) /\ directory' = after
        /\ UNCHANGED registry
        /\ ~DeviceHasRoom(registry, d) /\ ~DeviceHasRoom(registry, k)
    BY <1>3 DEF HandleSessionRequest
  <2>2. /\ DirectorySound(after)
        /\ \A e \in Device \ {d, k} :
              after.deviceSessions[e] = directory.deviceSessions[e]
    BY <1>2, <2>1, InsertSessionSound
  <2> HIDE DEF after
  <2>3. OneEngagement'
    BY <2>1, <2>2 DEF Inv, OneEngagement, DeviceHasRoom, DeviceHasSession
  <2> QED BY <2>1, <2>2, <2>3 DEF Inv
<1>4. ASSUME NEW accepted \in BOOLEAN, HandleSessionResponse(d, k, accepted)
      PROVE  Inv'
  <2>1. /\ k \in OpenSessions(directory) /\ UNCHANGED registry
        /\ \/ directory' = ActivateSession(directory, k)
           \/ directory' = RemoveSessions(directory, {k})
    BY <1>4 DEF HandleSessionResponse
  <2>2. /\ DirectorySound(ActivateSession(directory, k))
        /\ Releases(directory, ActivateSession(directory, k))
    BY <1>2, <2>1, SessionChangeSound
  <2> QED BY <1>2, <2>1, <2>2, SessionsStep
<1>5. CASE HandleSessionResume(d, k)
  <2>1. /\ k \in OpenSessions(directory) /\ UNCHANGED registry
        /\ directory' = SetSide(directory, k, d, "online")
    BY <1>5 DEF HandleSessionResume, SessionsOf
  <2>2. DirectorySound(directory') /\ Releases(directory, directory')
    BY <1>2, <2>1, SessionChangeSound DEF SideLink
  <2> QED BY <2>1, <2>2, SessionsStep
<1>6. CASE CloseSession(d, k)
  BY <1>2, <1>6, SessionsStep DEF CloseSession
<1> QED BY <1>1, <1>3, <1>4, <1>5, <1>6

\* Deadlines pass.
LEMMA TimeInv ==
    ASSUME Inv, TypeOK', RoomTime \/ SessionTime
    PROVE  Inv'
<1>1. ASSUME NEW r \in RoomId, IsOpen(r)
      PROVE  Sound(registry.rooms[r])
  BY <1>1 DEF IsOpen, Inv, RegistrySound, OpenRooms
<1>2. RegistrySound(registry) /\ DirectorySound(directory)
  BY DEF Inv
<1>3. ASSUME NEW d \in Device, NEW r \in RoomId, MemberLapses(d, r)
      PROVE  Inv'
  <2>1. /\ IsOpen(r) /\ UNCHANGED directory
        /\ d \in Members(registry.rooms[r])
        /\ registry' = UpdateRoom(registry, r, LapseMember(registry.rooms[r], d))
    BY <1>3 DEF MemberLapses, Members
  <2>2. Refits(registry.rooms[r], LapseMember(registry.rooms[r], d))
    BY <1>1, <2>1, LinkSound
  <2> QED BY <2>1, <2>2, RefitStep
<1>4. ASSUME NEW d \in Device, JoinExpires(d)
      PROVE  Inv'
  BY <1>2, <1>4, DropJoinsSound, RoomsStep DEF JoinExpires
<1>5. ASSUME NEW r \in RoomId, SwitchExpires(r)
      PROVE  Inv'
  <2>1. /\ IsOpen(r) /\ UNCHANGED directory
        /\ registry.rooms[r].switchRequester # None
        /\ registry' = UpdateRoom(registry, r, ExpireSwitch(registry.rooms[r]))
    BY <1>5 DEF SwitchExpires
  <2>2. Refits(registry.rooms[r], ExpireSwitch(registry.rooms[r]))
    BY <1>1, <2>1, ExpirySound
  <2> QED BY <2>1, <2>2, RefitStep
<1>6. ASSUME NEW r \in RoomId, ControlExpires(r)
      PROVE  Inv'
  <2>1. /\ IsOpen(r) /\ UNCHANGED directory
        /\ registry.rooms[r].pendingController # None
        /\ registry' = UpdateRoom(registry, r, ExpireControl(registry.rooms[r]))
    BY <1>6 DEF ControlExpires
  <2>2. Refits(registry.rooms[r], ExpireControl(registry.rooms[r]))
    BY <1>1, <2>1, ExpirySound
  <2> QED BY <2>1, <2>2, RefitStep
<1>7. ASSUME NEW k \in Device, PendingExpires(k)
      PROVE  Inv'
  BY <1>2, <1>7, SessionChangeSound, SessionsStep DEF PendingExpires
<1>8. ASSUME NEW d \in Device, NEW k \in Device, SideLapses(d, k)
      PROVE  Inv'
  <2>1. /\ k \in OpenSessions(directory) /\ UNCHANGED registry
        /\ directory' = SetSide(directory, k, d, "lapsed")
    BY <1>8 DEF SideLapses, SessionsOf
  <2>2. DirectorySound(directory') /\ Releases(directory, directory')
    BY <1>2, <2>1, SessionChangeSound DEF SideLink
  <2> QED BY <2>1, <2>2, SessionsStep
<1> QED BY <1>3, <1>4, <1>5, <1>6, <1>7, <1>8 DEF RoomTime, SessionTime

\* The registries of a server that has just started are sound.
LEMMA EmptySound ==
    /\ RegistrySound(EmptyRegistry)
    /\ DirectorySound(EmptyDirectory)
    /\ \A d \in Device : ~DeviceHasRoom(EmptyRegistry, d)
<1>1. OpenRooms(EmptyRegistry) = {}
  BY DEF OpenRooms, EmptyRegistry
<1>2. RoomIndexOf(EmptyRegistry)
  BY <1>1, RoomIdAssumption DEF RoomIndexOf, EmptyRegistry
<1>3. JoinsOf(EmptyRegistry)
  BY DEF JoinsOf, EmptyRegistry
<1>4. OpenSessions(EmptyDirectory) = {}
  BY DEF OpenSessions, EmptyDirectory
<1>5. SessionIndexOf(EmptyDirectory)
  BY <1>4, DeviceAssumption DEF SessionIndexOf, EmptyDirectory
<1>6. \A d \in Device : ~DeviceHasRoom(EmptyRegistry, d)
  BY DEF DeviceHasRoom, EmptyRegistry
<1> QED BY <1>1, <1>2, <1>3, <1>5, <1>6, EmptyRegistryType, EmptyDirectoryType
           DEF RegistrySound, DirectorySound

-----------------------------------------------------------------------------
(* The induction, and what follows from it.                                *)

\* The invariant holds at the start.
LEMMA InitInv == Init => Inv
<1> SUFFICES ASSUME Init
             PROVE  Inv
  OBVIOUS
<1>1. TypeOK
  BY EmptyRegistryType, EmptyDirectoryType DEF Init, TypeOK, Connection
<1> QED BY <1>1, EmptySound DEF Init, Inv, OneEngagement

\* Every step keeps it.
LEMMA NextInv ==
    ASSUME Inv, [Next]_vars
    PROVE  Inv'
<1>1. TypeOK'
  BY NextType DEF Inv
<1>2. CASE Connections
  BY <1>1, <1>2, ConnectionsInv
<1>3. CASE Membership
  BY <1>1, <1>3, MembershipInv
<1>4. CASE Sharing
  BY <1>1, <1>4, SharingInv
<1>5. CASE Control
  BY <1>1, <1>5, ControlInv
<1>6. CASE SessionHandlers
  BY <1>1, <1>6, SessionHandlersInv
<1>7. CASE RoomTime \/ SessionTime
  BY <1>1, <1>7, TimeInv
<1>8. CASE Sweep
  <2>1. RegistrySound(registry') /\ Vacates(registry, registry')
    BY <1>8, SweepRegistrySound DEF Sweep, Inv
  <2>2. DirectorySound(directory') /\ Releases(directory, directory')
    BY <1>8, SuspendSound DEF Sweep, Inv
  <2> QED BY <1>1, <2>1, <2>2, NobodyEngaged DEF Inv
<1>9. CASE Stop
  BY <1>1, <1>9, EmptySound DEF Stop, Inv, OneEngagement
<1>10. ASSUME NEW d \in Device, NEW r \in RoomId, ResumeLate(d, r)
       PROVE  Inv'
  BY <1>1, <1>10, MemberInv
<1>11. CASE UNCHANGED vars
  BY <1>1, <1>11 DEF vars, Inv, OneEngagement
<1> QED BY <1>2, <1>3, <1>4, <1>5, <1>6, <1>7, <1>8, <1>9, <1>10, <1>11
           DEF Next, TimelyNext

\* The inductive invariant holds in every reachable state.
THEOREM Invariance == Spec => []Inv
<1>1. Init => Inv
  BY InitInv
<1>2. Inv /\ [Next]_vars => Inv'
  BY NextInv
<1> QED BY <1>1, <1>2, PTL DEF Spec

\* deviceRooms_ names a room for exactly its members, deviceSessions_ a session
\* for exactly its two ends, and the two join-request maps agree on requests for
\* open rooms by devices without one.
THEOREM IndexesCorrect == Spec => []IndexesAgree
<1>1. Inv => IndexesAgree
  BY DEF Inv, RegistrySound, DirectorySound, IndexesAgree
<1> QED BY <1>1, Invariance, PTL

\* No device is ever in a room and in a session at once.
THEOREM EngagedOnce == Spec => []OneEngagement
<1>1. Inv => OneEngagement
  BY DEF Inv
<1> QED BY <1>1, Invariance, PTL

\* No room is ever fuller than its capacity, loses its owner, leaves a pair of
\* members unassigned, or has a lease, a controller or a request that its state
\* does not allow.
THEOREM RoomsCorrect == Spec => []RoomsSound
<1>1. Inv => RoomsSound
  BY DEF Inv, RegistrySound, Sound, RoomsSound, OpenRoomIds, Rooms
<1> QED BY <1>1, Invariance, PTL
=============================================================================
