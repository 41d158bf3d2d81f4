---------------------- MODULE SignalServerSteps_proofs ----------------------
(***************************************************************************)
(* What a step of the signaling server may do to a room, and the action    *)
(* properties, refinements and stronger invariants that follow.            *)
(*                                                                         *)
(* Every step leaves an open room as it is, closes it, or applies one      *)
(* update of RoomLease to it under the guard of the handler that asks for  *)
(* the update (StepOfRoom).  What a property says of two successive states *)
(* of a room is then shown update by update, on the records alone.         *)
(***************************************************************************)
EXTENDS SignalServer_proofs

-----------------------------------------------------------------------------
(* How an open room changes.                                               *)

\* d asks for another room, which ends a membership it has not resumed.
StartsAfresh(d) ==
    \E s \in RoomId :
        \/ HandleRoomJoinRequest(d, s)
        \/ \E capacity \in 2 .. MaxMembers : HandleRoomCreate(d, s, capacity)

\* The step is an owner's answer to the join request of d.
Answered(r, d) ==
    \E o \in Device, accepted \in BOOLEAN :
        HandleRoomJoinResponse(o, r, d, accepted)

\* A member's link, or the set of members.
MemberChange(r, room, after) ==
    \E d \in Device :
        \/ after = MarkAway(room, d)
        \/ /\ after = EvictMember(room, d)
           /\ d # room.owner
           /\ DeleteAccount(d) \/ (d \in Absent(room) /\ StartsAfresh(d))
        \/ /\ after = LeaveRoom(room, d)
           /\ d # room.owner
           /\ HandleRoomLeave(d, r)
        \/ /\ after = ResumeMember(room, d)
           /\ room.members[d] \in {"online", "away"}
           /\ Sender(d)
        \/ /\ after = Admit(room, d)
           /\ d \notin Members(room)
           /\ HasSeat(room)
           /\ OwnerOnline(room)
           /\ registry.joinRequests[d] = [room |-> r, expired |-> FALSE]
           /\ Registered(d)
           /\ Answered(r, d)
        \/ /\ after = LapseMember(room, d)
           /\ room.members[d] = "away"

\* The request or the lease of a device that is online.
LeaseRequest(r, room, after) ==
    \E d \in Device :
        /\ room.members[d] = "online"
        /\ \/ /\ after = RequestSwitch(room, d)
              /\ room.share = "active"
              /\ room.sharer # d
              /\ room.members[room.sharer] = "online"
           \/ /\ after = GrantShare(room, d)
              /\ room.share \in {"idle", "switching"}
           \/ /\ after = ActivateShare(room, d)
              /\ room.share = "switching"
              /\ room.pendingSharer = d
           \/ /\ after = RequestControl(room, d)
              /\ room.share = "active"
              /\ room.sharer # d
              /\ room.members[room.sharer] = "online"
              /\ room.controller = None
              /\ room.pendingController = None
           \/ /\ after = GrantControl(room)
              /\ room.share = "active"
              /\ room.pendingController = d
           \/ /\ after = GrantShare(CancelSwitch(room), d)
              /\ room.share = "active"
              /\ room.switchRequester = d
              /\ HandleRoomScreenShareSwitchResponse(room.sharer, r, TRUE)

\* A request or a lease ends, or a deadline of one passes.
LeaseEnd(r, room, after) ==
    \/ after = CancelSwitch(room)
    \/ after = CancelControl(room)
    \/ after = RevokeControl(room)
    \/ after = ExpireSwitch(room) /\ room.switchRequester # None
    \/ after = ExpireControl(room) /\ room.pendingController # None
    \/ /\ after = ResetShare(room)
       /\ \E d \in LeaseHolders(room), grant \in 1 .. MaxEpoch :
              HandleRoomScreenShareStop(d, r, grant)

\* What the step makes of room r, open before and after it.
RoomChange(r) ==
    LET room  == registry.rooms[r]
        after == registry'.rooms[r]
    IN \/ after = room
       \/ \E capacity \in 2 .. MaxMembers :
             after = [room EXCEPT !.capacity = capacity]
       \/ MemberChange(r, room, after)
       \/ LeaseRequest(r, room, after)
       \/ LeaseEnd(r, room, after)
       \/ Sweep /\ ~OwnerLost(room) /\ after = SweepRoom(room)

\* A member of room r that resumes late is erased.
LateErasure(r) ==
    \E d \in Device :
        /\ registry'.rooms[r] = EraseMember(registry.rooms[r], d)
        /\ d # registry.rooms[r].owner
        /\ registry.rooms[r].members[d] = "lapsed"
        /\ ResumeLate(d, r)

\* Room r is opened by the step.
RoomOpens(r) ==
    \E d \in Device, capacity \in 2 .. MaxMembers :
        /\ HandleRoomCreate(d, r, capacity)
        /\ registry'.rooms[r] = NewRoom(d, capacity)

\* Every room that is open after the step was opened by it or changed by it,
\* when every resume is timely and in general.
TimelyRoomSteps ==
    \A r \in OpenRooms(registry') :
        IF IsOpen(r) THEN RoomChange(r) ELSE RoomOpens(r)

RoomSteps ==
    \A r \in OpenRooms(registry') :
        IF IsOpen(r) THEN RoomChange(r) \/ LateErasure(r) ELSE RoomOpens(r)

-----------------------------------------------------------------------------
(* The rooms after an update of the registry.                              *)

\* Closing rooms leaves the others alone.
LEMMA ClosedRooms ==
    ASSUME NEW reg \in Registry, NEW R
    PROVE  CloseRooms(reg, R).rooms =
               [r \in RoomId |-> IF r \in R THEN None ELSE reg.rooms[r]]
BY DEF CloseRooms, DropJoins, Registry

\* When a device leaves its room, that room closes or the device is evicted.
LEMMA LeftRooms ==
    ASSUME NEW reg \in Registry, NEW s \in OpenRooms(reg), NEW d \in Device,
           NEW r \in RoomId, RemoveOrClose(reg, s, d).rooms[r] # None
    PROVE  /\ reg.rooms[r] # None
           /\ \/ RemoveOrClose(reg, s, d).rooms[r] = reg.rooms[r]
              \/ /\ r = s
                 /\ d # reg.rooms[r].owner
                 /\ RemoveOrClose(reg, s, d).rooms[r] =
                        EvictMember(reg.rooms[r], d)
<1>0. s \in RoomId /\ reg.rooms[s] # None
  BY DEF OpenRooms
<1>1. CASE reg.rooms[s].owner = d
  <2>1. RemoveOrClose(reg, s, d) = CloseRooms(reg, {s})
    BY <1>1 DEF RemoveOrClose
  <2>2. CloseRooms(reg, {s}).rooms =
            [q \in RoomId |-> IF q \in {s} THEN None ELSE reg.rooms[q]]
    BY ClosedRooms
  <2> QED BY <1>0, <2>1, <2>2
<1>2. CASE reg.rooms[s].owner # d
  BY <1>0, <1>2 DEF RemoveOrClose, RemoveMember, Registry
<1> QED BY <1>1, <1>2

\* A fresh start evicts the device from the room it has not resumed.
LEMMA FreshRooms ==
    ASSUME NEW reg \in Registry, NEW d \in Device, NEW r \in RoomId,
           FreshStart(reg, d).rooms[r] # None
    PROVE  /\ reg.rooms[r] # None
           /\ \/ FreshStart(reg, d).rooms[r] = reg.rooms[r]
              \/ /\ d \in Absent(reg.rooms[r])
                 /\ d # reg.rooms[r].owner
                 /\ FreshStart(reg, d).rooms[r] = EvictMember(reg.rooms[r], d)
<1> DEFINE s == reg.deviceRooms[d]
           stale == /\ s # None
                    /\ reg.rooms[s] # None
                    /\ d \in Absent(reg.rooms[s])
           dangling == s # None /\ reg.rooms[s] = None
<1>1. CASE stale
  <2>1. FreshStart(reg, d) = RemoveOrClose(reg, s, d)
    BY <1>1 DEF FreshStart
  <2>2. s \in OpenRooms(reg)
    BY <1>1 DEF OpenRooms, Registry
  <2> QED BY <1>1, <2>1, <2>2, LeftRooms
<1>2. CASE dangling
  BY <1>2 DEF FreshStart, Registry
<1>3. CASE ~stale /\ ~dangling
  BY <1>3 DEF FreshStart
<1> QED BY <1>1, <1>2, <1>3

\* A lost socket changes the link of the device in its room.
LEMMA DisconnectedRooms ==
    ASSUME NEW reg \in Registry, NEW d \in Device, NEW r \in RoomId
    PROVE  \/ MarkDisconnected(reg, d).rooms[r] = reg.rooms[r]
           \/ /\ reg.rooms[r] # None
              /\ MarkDisconnected(reg, d).rooms[r] = MarkAway(reg.rooms[r], d)
<1> DEFINE rest == CancelPendingJoin(reg, d)
           s == rest.deviceRooms[d]
<1>1. rest \in Registry /\ rest.rooms = reg.rooms
  BY JoinTypes DEF CancelPendingJoin, DropJoins, Registry
<1>2. MarkDisconnected(reg, d) =
          IF s = None THEN rest ELSE IF rest.rooms[s] = None THEN rest
          ELSE UpdateRoom(rest, s, MarkAway(rest.rooms[s], d))
  BY DEF MarkDisconnected, UpdateRoom
<1> HIDE DEF rest
<1>3. s # None => s \in RoomId
  BY <1>1 DEF Registry
<1>4. UpdateRoom(rest, s, MarkAway(rest.rooms[s], d)).rooms =
          [rest.rooms EXCEPT ![s] = MarkAway(rest.rooms[s], d)]
  BY <1>1 DEF UpdateRoom, Registry
<1>5. rest.rooms \in [RoomId -> Room \union {None}]
  BY <1>1 DEF Registry
<1>6. CASE s = None \/ rest.rooms[s] = None
  BY <1>1, <1>2, <1>6
<1>7. CASE s # None /\ rest.rooms[s] # None
  <2>1. MarkDisconnected(reg, d).rooms =
            [rest.rooms EXCEPT ![s] = MarkAway(rest.rooms[s], d)]
    BY <1>2, <1>4, <1>7
  <2> QED BY <1>1, <1>5, <1>7, <2>1
<1> QED BY <1>6, <1>7

\* A deleted account closes the room of its device or evicts it.
LEMMA ForgottenRooms ==
    ASSUME NEW reg \in Registry, NEW d \in Device, NEW r \in RoomId,
           ForgetDevice(reg, d).rooms[r] # None
    PROVE  /\ reg.rooms[r] # None
           /\ \/ ForgetDevice(reg, d).rooms[r] = reg.rooms[r]
              \/ /\ d # reg.rooms[r].owner
                 /\ ForgetDevice(reg, d).rooms[r] = EvictMember(reg.rooms[r], d)
<1> DEFINE rest == CancelPendingJoin(reg, d)
           s == rest.deviceRooms[d]
<1>1. rest \in Registry /\ rest.rooms = reg.rooms
  BY JoinTypes DEF CancelPendingJoin, DropJoins, Registry
<1>2. ForgetDevice(reg, d) =
          IF s = None THEN rest ELSE IF rest.rooms[s] = None THEN rest
          ELSE RemoveOrClose(rest, s, d)
  BY DEF ForgetDevice
<1> HIDE DEF rest
<1>3. s # None /\ rest.rooms[s] # None => s \in OpenRooms(rest)
  BY <1>1 DEF OpenRooms, Registry
<1> QED BY <1>1, <1>2, <1>3, LeftRooms

\* A maintenance pass sweeps the rooms that keep their owner.
LEMMA SweptRooms ==
    ASSUME NEW reg, RegistrySound(reg), NEW r \in RoomId,
           SweepRegistry(reg).rooms[r] # None
    PROVE  /\ reg.rooms[r] # None
           /\ ~OwnerLost(reg.rooms[r])
           /\ SweepRegistry(reg).rooms[r] = SweepRoom(reg.rooms[r])
<1> DEFINE s == SweepJoins(reg)
           lost == {q \in OpenRooms(s) : OwnerLost(s.rooms[q])}
           kept == OpenRooms(s) \ lost
           gone == LapsedMembers(s, kept)
           swept == [s EXCEPT
               !.rooms = [q \in RoomId |->
                   IF q \in kept THEN SweepRoom(@[q]) ELSE @[q]],
               !.deviceRooms = [d \in Device |->
                   IF d \in gone THEN None ELSE @[d]]]
<1>1. s.rooms = reg.rooms /\ s \in Registry
  BY DropJoinsSound DEF SweepJoins, RegistrySound
<1>2. SweepRegistry(reg) = CloseRooms(swept, lost)
  BY DEF SweepRegistry, SweepRooms
<1> HIDE DEF s
<1>3. \A q \in kept : SweepRoom(s.rooms[q]) \in Room
  BY <1>1, SweepTypes DEF OpenRooms, Registry
<1>4. /\ swept.rooms = [q \in RoomId |-> IF q \in kept THEN SweepRoom(s.rooms[q])
                                         ELSE s.rooms[q]]
      /\ swept \in Registry
  <2> HIDE DEF kept, gone
  <2> QED BY <1>1, <1>3 DEF Registry
<1>5. SweepRegistry(reg).rooms[r] = IF r \in lost THEN None ELSE swept.rooms[r]
  <2> HIDE DEF swept, lost
  <2>1. CloseRooms(swept, lost).rooms =
            [q \in RoomId |-> IF q \in lost THEN None ELSE swept.rooms[q]]
    BY <1>4, ClosedRooms
  <2> QED BY <1>2, <2>1
<1> QED BY <1>1, <1>4, <1>5 DEF OpenRooms

-----------------------------------------------------------------------------
(* Every step of the server is a step of its rooms.                        *)

\* A step that touches no room.
LEMMA NoRoomChanges ==
    ASSUME registry'.rooms = registry.rooms
    PROVE  TimelyRoomSteps
BY DEF TimelyRoomSteps, RoomChange, IsOpen, OpenRooms

\* A step that changes one open room.
LEMMA OneRoomChanges ==
    ASSUME registry \in Registry, NEW s \in RoomId, IsOpen(s), NEW room,
           registry'.rooms = [registry.rooms EXCEPT ![s] = room],
           registry'.rooms[s] = room => RoomChange(s)
    PROVE  TimelyRoomSteps
<1>1. registry.rooms \in [RoomId -> Room \union {None}]
  BY DEF Registry
<1>2. registry'.rooms[s] = room
  BY <1>1
<1>3. \A r \in RoomId \ {s} : registry'.rooms[r] = registry.rooms[r]
  BY <1>1
<1> SUFFICES ASSUME NEW r \in OpenRooms(registry'), r # s
             PROVE  IsOpen(r) /\ RoomChange(r)
  BY <1>2 DEF TimelyRoomSteps
<1> QED BY <1>3 DEF OpenRooms, IsOpen, RoomChange

\* A step that closes rooms.
LEMMA RoomsClose ==
    ASSUME registry \in Registry, NEW R, registry' = CloseRooms(registry, R)
    PROVE  TimelyRoomSteps
<1>1. registry'.rooms =
          [r \in RoomId |-> IF r \in R THEN None ELSE registry.rooms[r]]
  BY ClosedRooms
<1> QED BY <1>1 DEF TimelyRoomSteps, RoomChange, IsOpen, OpenRooms

\* The rooms component of an update that replaces one record.
LEMMA ReplacedRoom ==
    ASSUME NEW reg \in Registry, NEW r \in RoomId, NEW room
    PROVE  /\ UpdateRoom(reg, r, room).rooms = [reg.rooms EXCEPT ![r] = room]
           /\ \A d : RemoveMember(reg, r, room, d).rooms =
                         [reg.rooms EXCEPT ![r] = room]
<1>1. UpdateRoom(reg, r, room).rooms = [reg.rooms EXCEPT ![r] = room]
  BY DEF UpdateRoom, Registry
<1>2. \A d : RemoveMember(reg, r, room, d).rooms = [reg.rooms EXCEPT ![r] = room]
  BY DEF RemoveMember, Registry
<1> QED BY <1>1, <1>2

\* Connections.
LEMMA ConnectionsRooms ==
    ASSUME Inv, Connections
    PROVE  TimelyRoomSteps
<1>1. PICK d \in Device : \/ Register(d)
                          \/ Disconnect(d)
                          \/ DeleteAccount(d)
                          \/ OrphanCloses(d)
  BY DEF Connections
<1>2. registry \in Registry
  BY DEF Inv, TypeOK
<1>3. CASE UNCHANGED registry
  BY <1>3, NoRoomChanges
<1>4. CASE registry' = MarkDisconnected(registry, d)
  <2> SUFFICES ASSUME NEW r \in OpenRooms(registry')
               PROVE  IsOpen(r) /\ RoomChange(r)
    BY DEF TimelyRoomSteps
  <2>1. \/ registry'.rooms[r] = registry.rooms[r]
        \/ /\ registry.rooms[r] # None
           /\ registry'.rooms[r] = MarkAway(registry.rooms[r], d)
    BY <1>2, <1>4, DisconnectedRooms DEF OpenRooms
  <2> QED BY <2>1 DEF OpenRooms, IsOpen, RoomChange, MemberChange
<1>5. CASE DeleteAccount(d)
  <2> SUFFICES ASSUME NEW r \in OpenRooms(registry')
               PROVE  IsOpen(r) /\ RoomChange(r)
    BY DEF TimelyRoomSteps
  <2>1. r \in RoomId /\ registry'.rooms[r] # None
    BY DEF OpenRooms
  <2>2. registry' = ForgetDevice(registry, d)
    BY <1>5 DEF DeleteAccount
  <2>3. /\ IsOpen(r)
        /\ \/ registry'.rooms[r] = registry.rooms[r]
           \/ /\ d # registry.rooms[r].owner
              /\ registry'.rooms[r] = EvictMember(registry.rooms[r], d)
    BY <1>2, <2>1, <2>2, ForgottenRooms DEF IsOpen
  <2> QED BY <1>5, <2>3 DEF RoomChange, MemberChange
<1> QED BY <1>1, <1>3, <1>4, <1>5 DEF Register, Disconnect, OrphanCloses

\* A device that asks for a room starts afresh, and may open one.
LEMMA EntryRooms ==
    ASSUME Inv, NEW d \in Device, NEW s \in RoomId
    PROVE  /\ HandleRoomJoinRequest(d, s) => TimelyRoomSteps
           /\ \A capacity : HandleRoomCreate(d, s, capacity) => TimelyRoomSteps
<1> DEFINE fresh == FreshStart(registry, d)
<1>1. registry \in Registry /\ fresh \in Registry
  BY LeavingTypes DEF Inv, TypeOK
<1>2. ASSUME StartsAfresh(d), NEW r \in RoomId,
             registry'.rooms[r] = fresh.rooms[r], registry'.rooms[r] # None
      PROVE  IsOpen(r) /\ RoomChange(r)
  <2>1. /\ registry.rooms[r] # None
        /\ \/ registry'.rooms[r] = registry.rooms[r]
           \/ /\ d \in Absent(registry.rooms[r])
              /\ d # registry.rooms[r].owner
              /\ registry'.rooms[r] = EvictMember(registry.rooms[r], d)
    BY <1>1, <1>2, FreshRooms
  <2> QED BY <1>2, <2>1 DEF IsOpen, RoomChange, MemberChange
<1>3. ASSUME HandleRoomJoinRequest(d, s)
      PROVE  TimelyRoomSteps
  <2>1. StartsAfresh(d)
    BY <1>3 DEF StartsAfresh
  <2>2. \/ registry' = fresh
        \/ registry' = InsertJoin(fresh, d, s)
        \/ registry' = [fresh EXCEPT !.pendingJoins = @ \ {d}]
    BY <1>3 DEF HandleRoomJoinRequest
  <2> HIDE DEF fresh
  <2>3. registry'.rooms = fresh.rooms
    BY <1>1, <2>2 DEF InsertJoin, Registry
  <2> QED BY <1>2, <2>1, <2>3 DEF TimelyRoomSteps, OpenRooms
<1>4. ASSUME NEW capacity, HandleRoomCreate(d, s, capacity)
      PROVE  TimelyRoomSteps
  <2>1. capacity \in 2 .. MaxMembers /\ StartsAfresh(d)
    BY <1>4 DEF HandleRoomCreate, ValidCapacity, StartsAfresh
  <2>2. \/ registry' = fresh
        \/ registry' = AddRoom(fresh, s, d, capacity) /\ ~IsOpen(s)
    BY <1>4 DEF HandleRoomCreate
  <2> HIDE DEF fresh
  <2>3. CASE registry' = fresh
    BY <1>2, <2>1, <2>3 DEF TimelyRoomSteps, OpenRooms
  <2>4. CASE registry' = AddRoom(fresh, s, d, capacity) /\ ~IsOpen(s)
    <3>1. /\ registry'.rooms[s] = NewRoom(d, capacity)
          /\ \A r \in RoomId \ {s} : registry'.rooms[r] = fresh.rooms[r]
      BY <1>1, <2>4 DEF AddRoom, Registry
    <3>2. RoomOpens(s)
      BY <1>4, <2>1, <3>1 DEF RoomOpens
    <3>3. ASSUME NEW r \in OpenRooms(registry')
          PROVE  IF IsOpen(r) THEN RoomChange(r) ELSE RoomOpens(r)
      BY <1>2, <2>1, <2>4, <3>1, <3>2 DEF OpenRooms
    <3> QED BY <3>3 DEF TimelyRoomSteps
  <2> QED BY <2>2, <2>3, <2>4
<1> QED BY <1>3, <1>4

\* The owner admits a device, or changes the capacity.
LEMMA OwnerRooms ==
    ASSUME Inv, NEW o \in Device, NEW s \in RoomId
    PROVE  /\ \A d \in Device, accepted \in BOOLEAN :
                 HandleRoomJoinResponse(o, s, d, accepted) => TimelyRoomSteps
           /\ \A capacity : HandleRoomSetCapacity(o, s, capacity) => TimelyRoomSteps
<1> DEFINE room == registry.rooms[s]
<1>1. registry \in Registry /\ RegistrySound(registry)
  BY DEF Inv, TypeOK
<1>2. ASSUME NEW d \in Device, NEW accepted \in BOOLEAN,
             HandleRoomJoinResponse(o, s, d, accepted)
      PROVE  TimelyRoomSteps
  <2> DEFINE rest == DropJoins(registry, {d})
  <2>1. /\ rest \in Registry
        /\ rest.rooms = registry.rooms
        /\ rest.deviceRooms = registry.deviceRooms
    BY <1>1, DropJoinsSound DEF RegistrySound
  <2>2. /\ IsOpen(s)
        /\ OwnerOnline(room)
        /\ registry.joinRequests[d].room = s
        /\ registry.joinRequests[d] # None
        /\ \/ registry' = rest
           \/ /\ registry' = AdmitMember(rest, s, d)
              /\ ~registry.joinRequests[d].expired
              /\ Registered(d)
              /\ ~DeviceHasRoom(rest, d)
              /\ HasSeat(room)
    BY <1>2 DEF HandleRoomJoinResponse, Engaged
  <2> HIDE DEF rest
  <2>3. CASE registry' = rest
    BY <2>1, <2>3, NoRoomChanges
  <2>4. CASE /\ registry' = AdmitMember(rest, s, d)
             /\ ~registry.joinRequests[d].expired
             /\ Registered(d)
             /\ ~DeviceHasRoom(rest, d)
             /\ HasSeat(room)
    <3>1. registry'.rooms = [registry.rooms EXCEPT ![s] = Admit(room, d)]
      BY <2>1, <2>4 DEF AdmitMember, Registry
    <3>2. d \notin Members(room)
      BY <1>1, <2>1, <2>2, <2>4, RoomIdAssumption
         DEF RegistrySound, RoomIndexOf, DeviceHasRoom, IsOpen, OpenRooms
    <3>3. registry.joinRequests[d] = [room |-> s, expired |-> FALSE]
      <4>1. registry.joinRequests[d] \in JoinRequest
        BY <1>1, <2>2 DEF Registry
      <4> QED BY <2>2, <2>4, <4>1 DEF JoinRequest
    <3>4. Answered(s, d)
      BY <1>2 DEF Answered
    <3>5. registry'.rooms[s] = Admit(room, d) => RoomChange(s)
      BY <2>2, <2>4, <3>2, <3>3, <3>4 DEF RoomChange, MemberChange
    <3> QED BY <1>1, <2>2, <3>1, <3>5, OneRoomChanges
  <2> QED BY <2>2, <2>3, <2>4
<1>3. ASSUME NEW capacity, HandleRoomSetCapacity(o, s, capacity)
      PROVE  TimelyRoomSteps
  <2> DEFINE after == [room EXCEPT !.capacity = capacity]
  <2>1. /\ IsOpen(s) /\ capacity \in 2 .. MaxMembers
        /\ registry' = [registry EXCEPT !.rooms[s].capacity = capacity]
    BY <1>3 DEF HandleRoomSetCapacity, ValidCapacity
  <2>2. registry'.rooms = [registry.rooms EXCEPT ![s] = after]
    BY <1>1, <2>1 DEF Registry
  <2>3. registry'.rooms[s] = after => RoomChange(s)
    BY <2>1 DEF RoomChange
  <2> QED BY <1>1, <2>1, <2>2, <2>3, OneRoomChanges
<1> QED BY <1>2, <1>3

\* Members leave, or resume their membership in time.
LEMMA MemberRooms ==
    ASSUME Inv, NEW d \in Device, NEW s \in RoomId
    PROVE  /\ HandleRoomLeave(d, s) => TimelyRoomSteps
           /\ ResumeInTime(d, s) => TimelyRoomSteps
<1> DEFINE room == registry.rooms[s]
<1>1. registry \in Registry
  BY DEF Inv, TypeOK
<1>2. ASSUME HandleRoomLeave(d, s)
      PROVE  TimelyRoomSteps
  <2>1. CASE room.owner = d
    BY <1>1, <1>2, <2>1, RoomsClose DEF HandleRoomLeave
  <2>2. CASE room.owner # d
    <3>1. IsOpen(s) /\ registry' = RemoveMember(registry, s, LeaveRoom(room, d), d)
      BY <1>2, <2>2 DEF HandleRoomLeave
    <3>2. registry'.rooms = [registry.rooms EXCEPT ![s] = LeaveRoom(room, d)]
      BY <1>1, <3>1, ReplacedRoom
    <3>3. MemberChange(s, room, LeaveRoom(room, d))
      BY <1>2, <2>2 DEF MemberChange
    <3>4. registry'.rooms[s] = LeaveRoom(room, d) => RoomChange(s)
      BY <3>3 DEF RoomChange
    <3> QED BY <1>1, <3>1, <3>2, <3>4, OneRoomChanges
  <2> QED BY <2>1, <2>2
<1>3. ASSUME ResumeInTime(d, s)
      PROVE  TimelyRoomSteps
  <2>1. /\ IsOpen(s) /\ Sender(d)
        /\ d \in Members(room) /\ room.members[d] # "lapsed"
        /\ registry' = UpdateRoom(registry, s, ResumeMember(room, d))
    BY <1>3 DEF ResumeInTime, HoldsMembership
  <2>2. registry'.rooms = [registry.rooms EXCEPT ![s] = ResumeMember(room, d)]
    BY <1>1, <2>1, ReplacedRoom
  <2>3. room \in Room
    BY <1>1, <2>1, OpenRoomType DEF IsOpen
  <2>4. room.members[d] \in {"online", "away"}
    BY <2>1, <2>3 DEF Members, Room, Link
  <2>5. MemberChange(s, room, ResumeMember(room, d))
    BY <2>1, <2>4 DEF MemberChange
  <2>6. registry'.rooms[s] = ResumeMember(room, d) => RoomChange(s)
    BY <2>5 DEF RoomChange
  <2> QED BY <1>1, <2>1, <2>2, <2>6, OneRoomChanges
<1> QED BY <1>2, <1>3

\* A member resumes late.
LEMMA LateRooms ==
    ASSUME Inv, NEW d \in Device, NEW s \in RoomId, ResumeLate(d, s)
    PROVE  RoomSteps
<1> DEFINE room == registry.rooms[s]
           after == EraseMember(room, d)
<1>1. registry \in Registry
  BY DEF Inv, TypeOK
<1>2. CASE room.owner = d
  <2>1. TimelyRoomSteps
    BY <1>1, <1>2, RoomsClose DEF ResumeLate
  <2> QED BY <2>1 DEF TimelyRoomSteps, RoomSteps
<1>3. CASE room.owner # d
  <2>1. /\ IsOpen(s) /\ room.members[d] = "lapsed"
        /\ registry' = RemoveMember(registry, s, after, d)
    BY <1>3 DEF ResumeLate, HoldsMembership
  <2>2. registry'.rooms = [registry.rooms EXCEPT ![s] = after]
    BY <1>1, <2>1, ReplacedRoom
  <2>3. registry.rooms \in [RoomId -> Room \union {None}]
    BY <1>1 DEF Registry
  <2>4. LateErasure(s)
    BY <1>3, <2>1, <2>2, <2>3 DEF LateErasure
  <2>5. \A r \in RoomId \ {s} : registry'.rooms[r] = registry.rooms[r]
    BY <2>2, <2>3
  <2> QED BY <2>1, <2>4, <2>5 DEF RoomSteps, OpenRooms, IsOpen, RoomChange
<1> QED BY <1>2, <1>3

\* The screen-share handlers.
LEMMA SharingRooms ==
    ASSUME Inv, Sharing
    PROVE  TimelyRoomSteps
<1>1. PICK d \in Device, s \in RoomId :
          \/ HandleRoomScreenShareRequest(d, s)
          \/ \E grant \in 1 .. MaxEpoch :
                \/ HandleRoomScreenShareReady(d, s, grant)
                \/ HandleRoomScreenShareStop(d, s, grant)
          \/ \E accepted \in BOOLEAN :
                HandleRoomScreenShareSwitchResponse(d, s, accepted)
          \/ HandleRoomScreenShareSwitchCancel(d, s)
  BY DEF Sharing
<1> DEFINE room == registry.rooms[s]
<1>2. registry \in Registry
  BY DEF Inv, TypeOK
<1>3. ASSUME NEW after, IsOpen(s), registry' = UpdateRoom(registry, s, after),
             LeaseRequest(s, room, after) \/ LeaseEnd(s, room, after)
      PROVE  TimelyRoomSteps
  <2>1. registry'.rooms = [registry.rooms EXCEPT ![s] = after]
    BY <1>2, <1>3, ReplacedRoom
  <2>2. registry'.rooms[s] = after => RoomChange(s)
    BY <1>3 DEF RoomChange
  <2> QED BY <1>2, <1>3, <2>1, <2>2, OneRoomChanges
<1>4. CASE HandleRoomScreenShareRequest(d, s)
  <2>1. /\ IsOpen(s) /\ room.members[d] = "online"
        /\ room.share # "recovering"
        /\ ~(room.share = "active" /\ room.sharer = d)
        /\ \/ /\ room.share = "active"
              /\ room.members[room.sharer] = "online"
              /\ registry' = UpdateRoom(registry, s, RequestSwitch(room, d))
           \/ /\ ~(room.share = "active" /\ room.sharer # None)
              /\ registry' = UpdateRoom(registry, s, GrantShare(room, d))
    BY <1>4 DEF HandleRoomScreenShareRequest, OnlineMember
  <2>2. CASE /\ room.share = "active"
             /\ room.members[room.sharer] = "online"
             /\ registry' = UpdateRoom(registry, s, RequestSwitch(room, d))
    <3>1. LeaseRequest(s, room, RequestSwitch(room, d))
      BY <2>1, <2>2 DEF LeaseRequest
    <3> QED BY <1>3, <2>1, <2>2, <3>1
  <2>3. CASE /\ ~(room.share = "active" /\ room.sharer # None)
             /\ registry' = UpdateRoom(registry, s, GrantShare(room, d))
    <3>1. Sound(room)
      BY <2>1 DEF Inv, RegistrySound, IsOpen, OpenRooms
    <3>2. room.share \in {"idle", "switching"}
      BY <2>1, <2>3, <3>1 DEF Sound, LeaseShape, Room, ShareState
    <3>3. LeaseRequest(s, room, GrantShare(room, d))
      BY <2>1, <3>2 DEF LeaseRequest
    <3> QED BY <1>3, <2>1, <2>3, <3>3
  <2> QED BY <2>1, <2>2, <2>3
<1>5. ASSUME NEW grant \in 1 .. MaxEpoch, HandleRoomScreenShareReady(d, s, grant)
      PROVE  TimelyRoomSteps
  <2>1. /\ IsOpen(s) /\ room.members[d] = "online"
        /\ room.share = "switching" /\ room.pendingSharer = d
        /\ registry' = UpdateRoom(registry, s, ActivateShare(room, d))
    BY <1>5 DEF HandleRoomScreenShareReady, OnlineMember
  <2>2. LeaseRequest(s, room, ActivateShare(room, d))
    BY <2>1 DEF LeaseRequest
  <2> QED BY <1>3, <2>1, <2>2
<1>6. ASSUME NEW grant \in 1 .. MaxEpoch, HandleRoomScreenShareStop(d, s, grant)
      PROVE  TimelyRoomSteps
  <2>1. /\ IsOpen(s) /\ d \in LeaseHolders(room)
        /\ registry' = UpdateRoom(registry, s, ResetShare(room))
    BY <1>6 DEF HandleRoomScreenShareStop
  <2>2. LeaseEnd(s, room, ResetShare(room))
    BY <1>6, <2>1 DEF LeaseEnd
  <2> QED BY <1>3, <2>1, <2>2
<1>7. ASSUME NEW accepted \in BOOLEAN,
             HandleRoomScreenShareSwitchResponse(d, s, accepted)
      PROVE  TimelyRoomSteps
  <2> DEFINE requester == room.switchRequester
  <2>1. /\ IsOpen(s) /\ room.share = "active" /\ room.sharer = d
        /\ requester # None
        /\ \/ /\ accepted
              /\ room.members[requester] = "online"
              /\ registry' = UpdateRoom(registry, s,
                                 GrantShare(CancelSwitch(room), requester))
           \/ registry' = UpdateRoom(registry, s, CancelSwitch(room))
    BY <1>7 DEF HandleRoomScreenShareSwitchResponse, OnlineMember
  <2>2. CASE /\ accepted
             /\ room.members[requester] = "online"
             /\ registry' = UpdateRoom(registry, s,
                                GrantShare(CancelSwitch(room), requester))
    <3>1. requester \in Device
      BY <1>2, <2>1, OpenRoomType DEF IsOpen, Room, DeviceOrNone
    <3>2. HandleRoomScreenShareSwitchResponse(room.sharer, s, TRUE)
      <4>1. accepted = TRUE
        BY <2>2
      <4> QED BY <1>7, <2>1, <4>1
    <3>3. LeaseRequest(s, room, GrantShare(CancelSwitch(room), requester))
      BY <2>1, <2>2, <3>1, <3>2 DEF LeaseRequest
    <3> QED BY <1>3, <2>1, <2>2, <3>3
  <2>3. CASE registry' = UpdateRoom(registry, s, CancelSwitch(room))
    BY <1>3, <2>1, <2>3 DEF LeaseEnd
  <2> QED BY <2>1, <2>2, <2>3
<1>8. CASE HandleRoomScreenShareSwitchCancel(d, s)
  BY <1>3, <1>8 DEF HandleRoomScreenShareSwitchCancel, LeaseEnd
<1> QED BY <1>1, <1>4, <1>5, <1>6, <1>7, <1>8

\* The control handlers.
LEMMA ControlRooms ==
    ASSUME Inv, Control
    PROVE  TimelyRoomSteps
<1>1. PICK d \in Device, s \in RoomId :
          \/ HandleRoomControlRequest(d, s)
          \/ \E accepted \in BOOLEAN : HandleRoomControlResponse(d, s, accepted)
          \/ HandleRoomControlRelease(d, s)
  BY DEF Control
<1> DEFINE room == registry.rooms[s]
<1>2. registry \in Registry
  BY DEF Inv, TypeOK
<1>3. ASSUME NEW after, IsOpen(s), registry' = UpdateRoom(registry, s, after),
             LeaseRequest(s, room, after) \/ LeaseEnd(s, room, after)
      PROVE  TimelyRoomSteps
  <2>1. registry'.rooms = [registry.rooms EXCEPT ![s] = after]
    BY <1>2, <1>3, ReplacedRoom
  <2>2. registry'.rooms[s] = after => RoomChange(s)
    BY <1>3 DEF RoomChange
  <2> QED BY <1>2, <1>3, <2>1, <2>2, OneRoomChanges
<1>4. CASE HandleRoomControlRequest(d, s)
  <2>1. /\ IsOpen(s) /\ room.members[d] = "online"
        /\ room.share = "active" /\ room.sharer # d
        /\ room.members[room.sharer] = "online"
        /\ room.controller = None /\ room.pendingController = None
        /\ registry' = UpdateRoom(registry, s, RequestControl(room, d))
    BY <1>4 DEF HandleRoomControlRequest, OnlineMember
  <2>2. LeaseRequest(s, room, RequestControl(room, d))
    BY <2>1 DEF LeaseRequest
  <2> QED BY <1>3, <2>1, <2>2
<1>5. ASSUME NEW accepted \in BOOLEAN, HandleRoomControlResponse(d, s, accepted)
      PROVE  TimelyRoomSteps
  <2>1. /\ IsOpen(s) /\ room.share = "active" /\ room.pendingController # None
        /\ \/ /\ room.members[room.pendingController] = "online"
              /\ registry' = UpdateRoom(registry, s, GrantControl(room))
           \/ registry' = UpdateRoom(registry, s, CancelControl(room))
    BY <1>5 DEF HandleRoomControlResponse, OnlineMember
  <2>2. CASE /\ room.members[room.pendingController] = "online"
             /\ registry' = UpdateRoom(registry, s, GrantControl(room))
    <3>1. room.pendingController \in Device
      BY <1>2, <2>1, OpenRoomType DEF IsOpen, Room, DeviceOrNone
    <3>2. LeaseRequest(s, room, GrantControl(room))
      BY <2>1, <2>2, <3>1 DEF LeaseRequest
    <3> QED BY <1>3, <2>1, <2>2, <3>2
  <2>3. CASE registry' = UpdateRoom(registry, s, CancelControl(room))
    BY <1>3, <2>1, <2>3 DEF LeaseEnd
  <2> QED BY <2>1, <2>2, <2>3
<1>6. CASE HandleRoomControlRelease(d, s)
  BY <1>3, <1>6 DEF HandleRoomControlRelease, LeaseEnd
<1> QED BY <1>1, <1>4, <1>5, <1>6

\* Deadlines pass.
LEMMA TimeRooms ==
    ASSUME Inv, RoomTime
    PROVE  TimelyRoomSteps
<1>1. registry \in Registry
  BY DEF Inv, TypeOK
<1>2. ASSUME NEW s \in RoomId, NEW after, IsOpen(s),
             registry' = UpdateRoom(registry, s, after),
             \/ MemberChange(s, registry.rooms[s], after)
             \/ LeaseEnd(s, registry.rooms[s], after)
      PROVE  TimelyRoomSteps
  <2>1. registry'.rooms = [registry.rooms EXCEPT ![s] = after]
    BY <1>1, <1>2, ReplacedRoom
  <2>2. registry'.rooms[s] = after => RoomChange(s)
    BY <1>2 DEF RoomChange
  <2> QED BY <1>1, <1>2, <2>1, <2>2, OneRoomChanges
<1>3. ASSUME NEW d \in Device, NEW s \in RoomId, MemberLapses(d, s)
      PROVE  TimelyRoomSteps
  <2> DEFINE after == LapseMember(registry.rooms[s], d)
  <2>1. /\ IsOpen(s) /\ registry.rooms[s].members[d] = "away"
        /\ registry' = UpdateRoom(registry, s, after)
    BY <1>3 DEF MemberLapses
  <2>2. MemberChange(s, registry.rooms[s], after)
    BY <2>1 DEF MemberChange
  <2> QED BY <1>2, <2>1, <2>2
<1>4. ASSUME NEW d \in Device, JoinExpires(d)
      PROVE  TimelyRoomSteps
  BY <1>1, <1>4, NoRoomChanges DEF JoinExpires, ExpireJoin, Registry
<1>5. ASSUME NEW s \in RoomId, SwitchExpires(s)
      PROVE  TimelyRoomSteps
  BY <1>2, <1>5 DEF SwitchExpires, LeaseEnd
<1>6. ASSUME NEW s \in RoomId, ControlExpires(s)
      PROVE  TimelyRoomSteps
  BY <1>2, <1>6 DEF ControlExpires, LeaseEnd
<1> QED BY <1>3, <1>4, <1>5, <1>6 DEF RoomTime

\* Whatever the server does while every resume is timely, every room that is
\* open afterwards was opened by the step, or changed by one update under the
\* guard of its handler.
LEMMA TimelyStepOfRoom ==
    ASSUME Inv, [TimelyNext]_vars
    PROVE  TimelyRoomSteps
<1>1. CASE Connections
  BY <1>1, ConnectionsRooms
<1>2. CASE Membership
  BY <1>2, EntryRooms, OwnerRooms, MemberRooms DEF Membership
<1>3. CASE Sharing
  BY <1>3, SharingRooms
<1>4. CASE Control
  BY <1>4, ControlRooms
<1>5. CASE RoomTime
  BY <1>5, TimeRooms
<1>6. CASE UNCHANGED registry
  BY <1>6, NoRoomChanges
<1>7. CASE Sweep
  <2> SUFFICES ASSUME NEW r \in OpenRooms(registry')
               PROVE  IsOpen(r) /\ RoomChange(r)
    BY DEF TimelyRoomSteps
  <2>1. registry' = SweepRegistry(registry) /\ RegistrySound(registry)
    BY <1>7 DEF Sweep, Inv
  <2>2. /\ registry.rooms[r] # None
        /\ ~OwnerLost(registry.rooms[r])
        /\ registry'.rooms[r] = SweepRoom(registry.rooms[r])
    BY <2>1, SweptRooms DEF OpenRooms
  <2> QED BY <1>7, <2>2 DEF IsOpen, RoomChange
<1>8. CASE Stop
  BY <1>8 DEF Stop, EmptyRegistry, TimelyRoomSteps, OpenRooms
<1>9. SessionHandlers \/ SessionTime \/ UNCHANGED vars => UNCHANGED registry
  BY DEF SessionHandlers, HandleSessionRequest, HandleSessionResponse,
         HandleSessionResume, CloseSession, SessionTime, PendingExpires,
         SideLapses, vars
<1> QED BY <1>1, <1>2, <1>3, <1>4, <1>5, <1>6, <1>7, <1>8, <1>9
           DEF TimelyNext

\* The same of every step, with the members that resume late.
LEMMA StepOfRoom ==
    ASSUME Inv, [Next]_vars
    PROVE  RoomSteps
<1>1. CASE [TimelyNext]_vars
  BY <1>1, TimelyStepOfRoom DEF TimelyRoomSteps, RoomSteps
<1>2. ASSUME NEW d \in Device, NEW r \in RoomId, ResumeLate(d, r)
      PROVE  RoomSteps
  BY <1>2, LateRooms
<1> QED BY <1>1, <1>2 DEF Next

-----------------------------------------------------------------------------
(* What the updates of a room make of its lease.                           *)

\* The holder and its grant stay; control may end.
LeaseKept(room, after) ==
    /\ after.sharer = room.sharer
    /\ after.pendingSharer = room.pendingSharer
    /\ after.epoch = room.epoch
    /\ after.grant = room.grant
    /\ after.controller \in {room.controller, None}

LeaseEnded(room, after) ==
    /\ room.share # "idle"
    /\ after.share = "idle"
    /\ after.epoch = room.epoch + 1
    /\ after.grant = 0

LeaseOffered(room, after) ==
    /\ after.share = "switching"
    /\ after.epoch = room.epoch + 1
    /\ after.controller = None

LeaseTaken(room, after) ==
    /\ room.share = "switching"
    /\ after.share = "active"
    /\ after.sharer = room.pendingSharer
    /\ after.epoch = room.epoch
    /\ after.grant = room.grant
    /\ after.controller = room.controller

ControlGiven(room, after) ==
    /\ room.share = "active"
    /\ room.controller = None
    /\ after.share = "active"
    /\ after.sharer = room.sharer
    /\ after.pendingSharer = room.pendingSharer
    /\ after.epoch = room.epoch
    /\ after.grant = room.grant
    /\ after.controller \in Device \ {room.sharer}

LeaseMove(room, after) ==
    \/ LeaseKept(room, after) /\ after.share = room.share
    \/ /\ LeaseKept(room, after)
       /\ {room.share, after.share} = {"active", "recovering"}
    \/ LeaseEnded(room, after)
    \/ LeaseOffered(room, after)
    \/ LeaseTaken(room, after)
    \/ ControlGiven(room, after)

\* A lease is in use exactly when somebody holds it.
LEMMA HoldersOf ==
    ASSUME NEW room, Sound(room)
    PROVE  /\ LeaseHolders(room) =
                  CASE room.share = "idle"      -> {}
                    [] room.share = "switching" -> {room.pendingSharer}
                    [] OTHER                    -> {room.sharer}
           /\ room.share = "switching" => /\ room.pendingSharer \in Device
                                          /\ room.sharer = None
           /\ room.share \in {"active", "recovering"} =>
                  /\ room.sharer \in Device
                  /\ room.pendingSharer = None
BY DeviceAssumption
   DEF Sound, LeaseShape, LeaseHolders, Room, ShareState, DeviceOrNone

\* Ending requests and moving links leaves the lease to its holder.
LEMMA KeptLeases ==
    ASSUME NEW room \in Room, NEW d
    PROVE  /\ LeaseKept(room, CancelSwitch(room))
           /\ CancelSwitch(room).share = room.share
           /\ LeaseKept(room, CancelControl(room))
           /\ CancelControl(room).share = room.share
           /\ LeaseKept(room, RevokeControl(room))
           /\ RevokeControl(room).share = room.share
           /\ LeaseKept(room, ExpireSwitch(room))
           /\ ExpireSwitch(room).share = room.share
           /\ LeaseKept(room, ExpireControl(room))
           /\ ExpireControl(room).share = room.share
           /\ LeaseKept(room, RequestSwitch(room, d))
           /\ RequestSwitch(room, d).share = room.share
           /\ LeaseKept(room, RequestControl(room, d))
           /\ RequestControl(room, d).share = room.share
           /\ LeaseKept(room, LapseMember(room, d))
           /\ LapseMember(room, d).share = room.share
           /\ LeaseKept(room, EraseMember(room, d))
           /\ EraseMember(room, d).share = room.share
           /\ LeaseKept(room, Admit(room, d))
           /\ Admit(room, d).share = room.share
           /\ LeaseKept(room, ResumeMember(room, d))
           /\ LeaseKept(room, MarkAway(room, d))
<1>1. /\ LeaseKept(room, CancelSwitch(room))
      /\ CancelSwitch(room).share = room.share
  BY DEF LeaseKept, CancelSwitch, Room
<1>2. /\ LeaseKept(room, CancelControl(room))
      /\ CancelControl(room).share = room.share
  BY DEF LeaseKept, CancelControl, Room
<1>3. /\ LeaseKept(room, RevokeControl(room))
      /\ RevokeControl(room).share = room.share
  BY DEF LeaseKept, RevokeControl, Room
<1>4. /\ LeaseKept(room, ExpireSwitch(room))
      /\ ExpireSwitch(room).share = room.share
  BY DEF LeaseKept, ExpireSwitch, Room
<1>5. /\ LeaseKept(room, ExpireControl(room))
      /\ ExpireControl(room).share = room.share
  BY DEF LeaseKept, ExpireControl, Room
<1>6. /\ LeaseKept(room, RequestSwitch(room, d))
      /\ RequestSwitch(room, d).share = room.share
  BY DEF LeaseKept, RequestSwitch, Room
<1>7. /\ LeaseKept(room, RequestControl(room, d))
      /\ RequestControl(room, d).share = room.share
  BY DEF LeaseKept, RequestControl, Room
<1>8. /\ LeaseKept(room, LapseMember(room, d))
      /\ LapseMember(room, d).share = room.share
  BY DEF LeaseKept, LapseMember, Room
<1>9. /\ LeaseKept(room, EraseMember(room, d))
      /\ EraseMember(room, d).share = room.share
  BY DEF LeaseKept, EraseMember, Room
<1>10. /\ LeaseKept(room, Admit(room, d))
       /\ Admit(room, d).share = room.share
  BY DEF LeaseKept, Admit, Room
<1>11. LeaseKept(room, ResumeMember(room, d))
  BY DEF LeaseKept, ResumeMember, Room
<1>12. LeaseKept(room, MarkAway(room, d))
  BY DEF LeaseKept, MarkAway, CancelControl, CancelSwitch, Room
<1> QED BY <1>1, <1>2, <1>3, <1>4, <1>5, <1>6, <1>7, <1>8, <1>9, <1>10, <1>11, <1>12

\* A device that is evicted takes along the lease it holds, else only what it
\* has of control.
LEMMA EvictedLease ==
    ASSUME NEW room, Sound(room), NEW S
    PROVE  LET after == Evict(room, S)
           IN IF LeaseHolders(room) \intersect S # {}
              THEN LeaseEnded(room, after)
              ELSE LeaseKept(room, after) /\ after.share = room.share
<1> DEFINE rest == ReleaseLeases(room, S)
           after == Evict(room, S)
<1>1. room \in Room
  BY DEF Sound
<1>2. CASE LeaseHolders(room) \intersect S # {}
  <2>1. rest = ResetShare(room)
    BY <1>2 DEF ReleaseLeases
  <2>2. room.share # "idle"
    BY <1>2, HoldersOf
  <2>3. /\ rest.share = "idle" /\ rest.grant = 0
        /\ rest.epoch = room.epoch + 1
    BY <1>1, <2>1, <2>2
       DEF ResetShare, RevokeControl, CancelControl, CancelSwitch, Room
  <2>4. rest \in Room
    BY <1>1, <2>1, CancelTypes
  <2> HIDE DEF rest
  <2>5. /\ after.share = rest.share /\ after.grant = rest.grant
        /\ after.epoch = rest.epoch
    BY <2>4 DEF Evict, DropMembers, Room, rest
  <2> QED BY <1>2, <2>2, <2>3, <2>5 DEF LeaseEnded
<1>3. CASE LeaseHolders(room) \intersect S = {}
  <2> DEFINE some == IF room.pendingController \in S
                     THEN CancelControl(room) ELSE room
  <2>1. some \in Room /\ LeaseKept(room, some) /\ some.share = room.share
    BY <1>1, CancelTypes, KeptLeases DEF LeaseKept
  <2>2. rest = IF room.controller \in S THEN RevokeControl(some) ELSE some
    BY <1>3 DEF ReleaseLeases
  <2> HIDE DEF some, rest
  <2>3. /\ RevokeControl(some) \in Room /\ LeaseKept(some, RevokeControl(some))
        /\ RevokeControl(some).share = some.share
    BY <2>1, CancelTypes, KeptLeases
  <2>4. rest \in Room /\ LeaseKept(room, rest) /\ rest.share = room.share
    BY <2>1, <2>2, <2>3 DEF LeaseKept
  <2>5. LeaseKept(rest, after) /\ after.share = rest.share
    BY <2>4 DEF Evict, DropMembers, Room, LeaseKept, rest
  <2>6. LeaseKept(room, after) /\ after.share = room.share
    BY <2>4, <2>5 DEF LeaseKept
  <2> QED BY <1>3, <2>6
<1> QED BY <1>2, <1>3

\* A sweep ends a lease only with a holder that lapsed.
LEMMA SweptLease ==
    ASSUME NEW room, Sound(room)
    PROVE  LET after == SweepRoom(room)
           IN \/ LeaseKept(room, after) /\ after.share = room.share
              \/ /\ LeaseEnded(room, after)
                 /\ LeaseHolders(room) \intersect Lapsed(room) # {}
<1> DEFINE some == SweepSwitch(room)
           rest == SweepControl(some)
<1>1. Sound(some) /\ LeaseKept(room, some) /\ some.share = room.share
  BY CancelSound, KeptLeases DEF SweepSwitch, Refits, Sound, LeaseKept
<1>2. some.members = room.members
  BY DEF SweepSwitch, CancelSwitch, Sound, Room
<1> HIDE DEF some
<1>3. Sound(rest) /\ LeaseKept(some, rest) /\ rest.share = some.share
  BY <1>1, CancelSound, KeptLeases DEF SweepControl, Refits, Sound, LeaseKept
<1>4. rest.members = some.members
  BY <1>1 DEF SweepControl, CancelControl, Sound, Room
<1> HIDE DEF rest
<1>5. LeaseKept(room, rest) /\ rest.share = room.share
  BY <1>1, <1>3 DEF LeaseKept
<1>6. /\ LeaseHolders(rest) = LeaseHolders(room)
      /\ Lapsed(rest) = Lapsed(room)
  BY <1>2, <1>4, <1>5 DEF LeaseKept, LeaseHolders, Lapsed
<1> DEFINE gone == Lapsed(rest) \ {rest.owner}
<1>7. SweepRoom(room) = IF gone = {} THEN rest ELSE Evict(rest, gone)
  BY DEF SweepRoom, SweepMembers, rest, some
<1>8. CASE gone = {}
  BY <1>5, <1>7, <1>8
<1>9. CASE gone # {}
  <2> DEFINE after == Evict(rest, gone)
  <2>1. SweepRoom(room) = after
    BY <1>7, <1>9
  <2>2. IF LeaseHolders(rest) \intersect gone # {}
        THEN LeaseEnded(rest, after)
        ELSE LeaseKept(rest, after) /\ after.share = rest.share
    BY <1>3, EvictedLease
  <2> HIDE DEF after
  <2>3. LeaseHolders(rest) \intersect gone # {} =>
            LeaseHolders(room) \intersect Lapsed(room) # {}
    BY <1>6
  <2> QED BY <1>5, <2>1, <2>2, <2>3 DEF LeaseKept, LeaseEnded
<1> QED BY <1>8, <1>9

\* Granting, taking up and giving control.
LEMMA GrantedLease ==
    ASSUME NEW room, Sound(room), NEW d \in Device
    PROVE  /\ LeaseOffered(room, GrantShare(room, d))
           /\ GrantShare(room, d).pendingSharer = d
           /\ LeaseOffered(room, GrantShare(CancelSwitch(room), d))
           /\ room.share = "switching" /\ room.pendingSharer = d =>
                  LeaseTaken(room, ActivateShare(room, d))
           /\ room.share = "active" /\ room.pendingController = d =>
                  ControlGiven(room, GrantControl(room))
<1>1. room \in Room
  BY DEF Sound
<1>2. \A s \in Room : /\ GrantShare(s, d).share = "switching"
                      /\ GrantShare(s, d).epoch = s.epoch + 1
                      /\ GrantShare(s, d).controller = None
                      /\ GrantShare(s, d).pendingSharer = d
  BY DEF GrantShare, RevokeControl, CancelControl, Room
<1>3. CancelSwitch(room) \in Room /\ CancelSwitch(room).epoch = room.epoch
  BY <1>1, CancelTypes DEF CancelSwitch, Room
<1>4. room.share = "switching" /\ room.pendingSharer = d =>
          LeaseTaken(room, ActivateShare(room, d))
  BY <1>1 DEF LeaseTaken, ActivateShare, Room
<1>5. ASSUME room.share = "active", room.pendingController = d
      PROVE  ControlGiven(room, GrantControl(room))
  <2>1. room.controller = None /\ d # room.sharer
    BY <1>5, DeviceAssumption DEF Sound, ControlShape
  <2> QED BY <1>1, <1>5, <2>1 DEF ControlGiven, GrantControl, CancelControl, Room
<1> QED BY <1>1, <1>2, <1>3, <1>4, <1>5 DEF LeaseOffered

\* Every change of a room is one of the moves of its lease.
LEMMA LeaseMoves ==
    ASSUME NEW r \in RoomId, NEW room, room = registry.rooms[r],
           NEW after, after = registry'.rooms[r],
           Sound(room), Sound(after), RoomChange(r) \/ LateErasure(r)
    PROVE  LeaseMove(room, after)
<1>1. room \in Room /\ after \in Room
  BY DEF Sound
<1>2. ASSUME LeaseKept(room, after)
      PROVE  LeaseMove(room, after)
  <2>1. /\ after.sharer = room.sharer
        /\ after.pendingSharer = room.pendingSharer
    BY <1>2 DEF LeaseKept
  <2>2. \/ after.share = room.share
        \/ {room.share, after.share} = {"active", "recovering"}
    BY <1>1, <2>1 DEF Sound, LeaseShape, LeaseHolders, Room, ShareState
  <2> QED BY <1>2, <2>2 DEF LeaseMove
<1>3. ASSUME NEW S, NEW before, Sound(before), LeaseKept(room, before),
             before.share = room.share, after = Evict(before, S)
      PROVE  LeaseMove(room, after)
  <2>1. LeaseEnded(before, after) \/ LeaseKept(before, after)
    BY <1>3, EvictedLease
  <2>2. LeaseEnded(room, after) \/ LeaseKept(room, after)
    BY <1>3, <2>1 DEF LeaseKept, LeaseEnded
  <2> QED BY <1>2, <2>2 DEF LeaseMove
<1>4. CASE after = room
  BY <1>2, <1>4 DEF LeaseKept
<1>5. CASE \E capacity \in 2 .. MaxMembers :
              after = [room EXCEPT !.capacity = capacity]
  BY <1>1, <1>2, <1>5 DEF LeaseKept, Room
<1>6. CASE MemberChange(r, room, after)
  <2>1. PICK d \in Device :
            \/ after = MarkAway(room, d)
            \/ after = EvictMember(room, d)
            \/ after = LeaveRoom(room, d)
            \/ after = ResumeMember(room, d)
            \/ after = Admit(room, d)
            \/ after = LapseMember(room, d)
    BY <1>6 DEF MemberChange
  <2>2. CASE after = EvictMember(room, d)
    BY <1>3, <2>2 DEF EvictMember, LeaseKept
  <2>3. CASE after = LeaveRoom(room, d)
    <3>1. /\ Sound(CancelSwitch(room)) /\ LeaseKept(room, CancelSwitch(room))
          /\ CancelSwitch(room).share = room.share
      BY <1>1, CancelSound, KeptLeases DEF Refits
    <3>2. \/ after = Evict(room, {d})
          \/ after = Evict(CancelSwitch(room), {d})
      BY <2>3 DEF LeaveRoom, EvictMember
    <3> QED BY <1>3, <3>1, <3>2 DEF LeaseKept
  <2> QED BY <1>1, <1>2, <2>1, <2>2, <2>3, KeptLeases
<1>7. CASE LeaseRequest(r, room, after)
  <2>1. PICK d \in Device :
            \/ after = RequestSwitch(room, d)
            \/ after = RequestControl(room, d)
            \/ after = GrantShare(room, d)
            \/ after = GrantShare(CancelSwitch(room), d)
            \/ /\ room.share = "switching" /\ room.pendingSharer = d
               /\ after = ActivateShare(room, d)
            \/ /\ room.share = "active" /\ room.pendingController = d
               /\ after = GrantControl(room)
    BY <1>7 DEF LeaseRequest
  <2>2. CASE after = RequestSwitch(room, d) \/ after = RequestControl(room, d)
    BY <1>1, <1>2, <2>2, KeptLeases
  <2> QED BY <2>1, <2>2, GrantedLease DEF LeaseMove
<1>8. CASE LeaseEnd(r, room, after)
  <2>1. CASE after = ResetShare(room) /\ LeaseHolders(room) # {}
    <3>1. room.share # "idle"
      BY <2>1, HoldersOf
    <3>2. LeaseEnded(room, after)
      BY <1>1, <2>1, <3>1
         DEF LeaseEnded, ResetShare, RevokeControl, CancelControl, CancelSwitch,
             Room
    <3> QED BY <3>2 DEF LeaseMove
  <2>2. CASE \/ after = CancelSwitch(room)
             \/ after = CancelControl(room)
             \/ after = RevokeControl(room)
             \/ after = ExpireSwitch(room)
             \/ after = ExpireControl(room)
    BY <1>1, <1>2, <2>2, KeptLeases
  <2> QED BY <1>8, <2>1, <2>2 DEF LeaseEnd
<1>9. CASE after = SweepRoom(room)
  BY <1>2, <1>9, SweptLease DEF LeaseMove
<1>10. CASE LateErasure(r)
  BY <1>1, <1>2, <1>10, KeptLeases DEF LateErasure
<1> QED BY <1>4, <1>5, <1>6, <1>7, <1>8, <1>9, <1>10 DEF RoomChange

-----------------------------------------------------------------------------
(* The lease of a room.                                                    *)

\* A room that is open before and after a step makes a move of its lease.
LEMMA LeaseSteps ==
    ASSUME Inv, Inv', [Next]_vars, NEW r \in RoomId, Persists(r)
    PROVE  /\ Sound(registry.rooms[r])
           /\ Sound(registry'.rooms[r])
           /\ LeaseMove(registry.rooms[r], registry'.rooms[r])
<1>1. registry.rooms[r] # None /\ registry'.rooms[r] # None
  BY DEF Persists, IsOpen
<1>2. Sound(registry.rooms[r]) /\ Sound(registry'.rooms[r])
  BY <1>1 DEF Inv, RegistrySound, OpenRooms
<1>3. RoomChange(r) \/ LateErasure(r)
  BY <1>1, StepOfRoom DEF RoomSteps, OpenRooms, IsOpen
<1> QED BY <1>2, <1>3, LeaseMoves

\* While a room lives, no handler, deadline or sweep lets its epoch fall, and
\* none gives the lease a new holder or a new grant under an old epoch.
THEOREM LeaseFenced == Spec => EpochFencesLease
<1>1. ASSUME Inv, Inv', [Next]_vars
      PROVE  \A r \in RoomId : Persists(r) =>
                LET before == Rooms[r]
                    after == Rooms'[r]
                IN /\ after.epoch >= before.epoch
                   /\ \/ LeaseHolders(after) \subseteq LeaseHolders(before)
                      \/ after.epoch > before.epoch
                   /\ after.grant \notin {0, before.grant} =>
                          after.epoch > before.epoch
  <2> SUFFICES ASSUME NEW r \in RoomId, Persists(r)
               PROVE  LET before == Rooms[r]
                          after == Rooms'[r]
                      IN /\ after.epoch >= before.epoch
                         /\ \/ LeaseHolders(after) \subseteq LeaseHolders(before)
                            \/ after.epoch > before.epoch
                         /\ after.grant \notin {0, before.grant} =>
                                after.epoch > before.epoch
    OBVIOUS
  <2> DEFINE before == registry.rooms[r]
             after  == registry'.rooms[r]
  <2>1. Sound(before) /\ Sound(after) /\ LeaseMove(before, after)
    BY <1>1, LeaseSteps
  <2>2. before.epoch \in Nat /\ after.epoch \in Nat
    BY <2>1 DEF Sound, Room
  <2>3. /\ after.epoch = before.epoch => /\ LeaseHolders(after) \subseteq LeaseHolders(before)
                                         /\ after.grant = before.grant
        /\ after.epoch \in {before.epoch, before.epoch + 1}
    <3> HIDE DEF before, after
    <3>1. CASE LeaseKept(before, after)
      BY <2>2, <3>1 DEF LeaseKept, LeaseHolders
    <3>2. CASE LeaseEnded(before, after) \/ LeaseOffered(before, after)
      BY <2>2, <3>2 DEF LeaseEnded, LeaseOffered
    <3>3. CASE LeaseTaken(before, after)
      <4>1. LeaseHolders(after) = LeaseHolders(before)
        BY <2>1, <3>3, HoldersOf DEF LeaseTaken
      <4> QED BY <2>2, <3>3, <4>1 DEF LeaseTaken
    <3>4. CASE ControlGiven(before, after)
      BY <2>2, <3>4 DEF ControlGiven, LeaseHolders
    <3> QED BY <2>1, <3>1, <3>2, <3>3, <3>4 DEF LeaseMove
  <2> QED BY <2>2, <2>3 DEF Rooms
<1> QED BY <1>1, Invariance, PTL DEF Spec, EpochFencesLease

\* The holder of the lease, as the refinement mapping chooses it.
LEMMA HolderOf ==
    ASSUME NEW room, Sound(room)
    PROVE  (IF LeaseHolders(room) # {}
            THEN CHOOSE d \in LeaseHolders(room) : TRUE ELSE None) =
               CASE room.share = "idle"      -> None
                 [] room.share = "switching" -> room.pendingSharer
                 [] OTHER                    -> room.sharer
<1>1. \A x : (CHOOSE d \in {x} : TRUE) = x
  OBVIOUS
<1> QED BY <1>1, HoldersOf

\* In every room the screen is leased the way ScreenLease allows: the server
\* offers, takes up, ends and revokes a lease in no other way.
THEOREM LeasesImplemented == Spec => ImplementsScreenLease
<1>1. ASSUME Init
      PROVE  \A r \in RoomId : Lease(r)!Init
  <2> TAKE r \in RoomId
  <2>1. ~IsOpen(r)
    BY <1>1 DEF Init, EmptyRegistry, IsOpen
  <2>2. LeasePhase(r) = "closed" /\ LeaseHolder(r) = None
    BY <2>1 DEF LeasePhase, LeaseHolder
  <2> QED BY <2>1, <2>2 DEF Lease!Init, Lease!lease, Lease!Closed
<1>2. ASSUME Inv, Inv', [Next]_vars
      PROVE  \A r \in RoomId : [Lease(r)!Next]_(Lease(r)!lease)
  <2> TAKE r \in RoomId
  <2>1. CASE ~(IsOpen(r))'
    <3>1. LeasePhase(r)' = "closed" /\ LeaseHolder(r)' = None
      BY <2>1 DEF LeasePhase, LeaseHolder
    <3>2. Lease(r)!Close
      BY <2>1, <3>1 DEF Lease!Close, Lease!lease, Lease!Closed
    <3> QED BY <3>2 DEF Lease!Next
  <2>2. CASE ~IsOpen(r) /\ (IsOpen(r))'
    <3>1. RoomOpens(r)
      BY <1>2, <2>2, StepOfRoom DEF RoomSteps, OpenRooms, IsOpen
    <3>2. PICK d \in Device, capacity \in 2 .. MaxMembers :
              registry'.rooms[r] = NewRoom(d, capacity)
      BY <3>1 DEF RoomOpens
    <3>3. /\ LeasePhase(r) = "closed" /\ LeaseHolder(r) = None
          /\ LeasePhase(r)' = "free" /\ LeaseHolder(r)' = None
      BY <2>2, <3>2 DEF LeasePhase, LeaseHolder, LeaseHolders, NewRoom, Rooms
    <3>4. Rooms'[r].controller = None /\ Rooms'[r].epoch = 0
      BY <3>2 DEF NewRoom, Rooms
    <3>5. Lease(r)!Open
      BY <2>2, <3>3, <3>4 DEF Lease!Open, Lease!lease, Lease!Closed, Lease!Free
    <3> QED BY <3>5 DEF Lease!Next
  <2>3. CASE Persists(r)
    <3> DEFINE room  == registry.rooms[r]
               after == registry'.rooms[r]
    <3>1. Sound(room) /\ Sound(after) /\ LeaseMove(room, after)
      BY <1>2, <2>3, LeaseSteps
    <3>2. /\ IsOpen(r) /\ (IsOpen(r))'
          /\ Rooms[r] = room /\ Rooms'[r] = after
      BY <2>3 DEF Persists, Rooms
    <3> HIDE DEF room, after
    <3>3. /\ LeasePhase(r) = CASE room.share = "idle"      -> "free"
                               [] room.share = "switching" -> "offered"
                               [] OTHER                    -> "held"
          /\ LeasePhase(r)' = CASE after.share = "idle"      -> "free"
                                [] after.share = "switching" -> "offered"
                                [] OTHER                     -> "held"
      BY <3>2 DEF LeasePhase, Rooms
    <3>4. /\ LeaseHolder(r) = CASE room.share = "idle"      -> None
                                [] room.share = "switching" -> room.pendingSharer
                                [] OTHER                    -> room.sharer
          /\ LeaseHolder(r)' = CASE after.share = "idle"      -> None
                                 [] after.share = "switching" -> after.pendingSharer
                                 [] OTHER                     -> after.sharer
      BY <3>1, <3>2, HolderOf DEF LeaseHolder, Rooms
    <3>5. /\ Lease(r)!lease =
                 <<LeasePhase(r), LeaseHolder(r), room.controller, room.epoch>>
          /\ (Lease(r)!lease)' =
                 <<LeasePhase(r)', LeaseHolder(r)', after.controller, after.epoch>>
      BY <3>2 DEF Lease!lease, Rooms
    <3>6. CASE LeaseKept(room, after)
      <4>1. \/ after.share = room.share
            \/ {room.share, after.share} = {"active", "recovering"}
        BY <3>1, <3>6 DEF LeaseKept, Sound, LeaseShape, LeaseHolders, Room,
                          ShareState
      <4>2. LeasePhase(r)' = LeasePhase(r) /\ LeaseHolder(r)' = LeaseHolder(r)
        BY <3>3, <3>4, <3>6, <4>1 DEF LeaseKept
      <4>3. CASE after.controller = room.controller
        BY <3>5, <3>6, <4>2, <4>3 DEF LeaseKept
      <4>4. CASE room.controller # None /\ after.controller = None
        <5>1. Lease(r)!RevokeControl
          BY <3>2, <3>5, <3>6, <4>2, <4>4 DEF Lease!RevokeControl, LeaseKept
        <5> QED BY <5>1 DEF Lease!Next
      <4> QED BY <3>6, <4>3, <4>4 DEF LeaseKept
    <3>7. CASE LeaseEnded(room, after)
      <4>1. after.controller = None
        BY <3>1, <3>7 DEF Sound, ControlShape, LeaseEnded
      <4>2. LeasePhase(r) \in {"offered", "held"}
        BY <3>3, <3>7 DEF LeaseEnded
      <4>3. LeasePhase(r)' = "free" /\ LeaseHolder(r)' = None
        BY <3>3, <3>4, <3>7 DEF LeaseEnded
      <4>4. Lease(r)!End
        BY <3>2, <3>5, <3>7, <4>1, <4>2, <4>3
           DEF Lease!End, Lease!Free, LeaseEnded
      <4> QED BY <4>4 DEF Lease!Next
    <3>8. CASE LeaseOffered(room, after)
      <4>1. LeasePhase(r) # "closed" /\ LeasePhase(r)' = "offered"
        BY <3>3, <3>8 DEF LeaseOffered
      <4>2. LeaseHolder(r)' \in Device
        BY <3>1, <3>4, <3>8, HoldersOf DEF LeaseOffered
      <4>3. Lease(r)!Offer
        BY <3>2, <3>5, <3>8, <4>1, <4>2 DEF Lease!Offer, LeaseOffered
      <4> QED BY <4>3 DEF Lease!Next
    <3>9. CASE LeaseTaken(room, after)
      <4>1. LeasePhase(r) = "offered" /\ LeasePhase(r)' = "held"
        BY <3>3, <3>9 DEF LeaseTaken
      <4>2. LeaseHolder(r)' = LeaseHolder(r)
        BY <3>4, <3>9 DEF LeaseTaken
      <4>3. Lease(r)!Take
        BY <3>2, <3>5, <3>9, <4>1, <4>2 DEF Lease!Take, LeaseTaken
      <4> QED BY <4>3 DEF Lease!Next
    <3>10. CASE ControlGiven(room, after)
      <4>1. /\ LeasePhase(r) = "held" /\ LeasePhase(r)' = "held"
            /\ LeaseHolder(r) = room.sharer /\ LeaseHolder(r)' = room.sharer
        BY <3>3, <3>4, <3>10 DEF ControlGiven
      <4>2. Lease(r)!GiveControl
        BY <3>2, <3>5, <3>10, <4>1 DEF Lease!GiveControl, ControlGiven
      <4> QED BY <4>2 DEF Lease!Next
    <3> QED BY <3>1, <3>6, <3>7, <3>8, <3>9, <3>10 DEF LeaseMove
  <2> QED BY <2>1, <2>2, <2>3 DEF Persists
<1> QED BY <1>1, <1>2, Invariance, PTL DEF Spec, ImplementsScreenLease

\* The lease leaves a sharer only by what the sharer itself does, or by the
\* sweep once the sharer's recovery window has passed: no handler lets another
\* member take a shared screen away.
THEOREM SharersKeepTheirLease == Spec => SharerKeepsLease
<1>1. ASSUME Inv, Inv', [Next]_vars,
             NEW r \in RoomId, Persists(r),
             Rooms[r].sharer # None, Rooms'[r].sharer # Rooms[r].sharer
      PROVE  \/ GivesUpShare(Rooms[r].sharer, r)
             \/ Sweep /\ Rooms[r].members[Rooms[r].sharer] = "lapsed"
  <2> DEFINE room  == registry.rooms[r]
             after == registry'.rooms[r]
  <2>1. Sound(room) /\ Rooms[r] = room /\ Rooms'[r] = after
    BY <1>1, LeaseSteps DEF Rooms
  <2>2. RoomChange(r) \/ LateErasure(r)
    BY <1>1, StepOfRoom DEF Persists, RoomSteps, OpenRooms, IsOpen
  <2>3. room.sharer # None /\ after.sharer # room.sharer
    BY <1>1, <2>1
  <2>4. room \in Room /\ ~LeaseKept(room, after)
    BY <2>1, <2>3 DEF Sound, LeaseKept
  <2>5. /\ room.share \in {"active", "recovering"}
        /\ LeaseHolders(room) = {room.sharer}
    BY <2>1, <2>3, HoldersOf DEF Sound, LeaseShape, Room, ShareState
  <2>6. CASE MemberChange(r, room, after)
    <3>1. PICK d \in Device :
              \/ after = MarkAway(room, d)
              \/ /\ after = EvictMember(room, d)
                 /\ DeleteAccount(d) \/ (d \in Absent(room) /\ StartsAfresh(d))
              \/ after = LeaveRoom(room, d) /\ HandleRoomLeave(d, r)
              \/ after = ResumeMember(room, d)
              \/ after = Admit(room, d)
              \/ after = LapseMember(room, d)
      BY <2>6 DEF MemberChange
    <3>2. CASE /\ after = EvictMember(room, d)
               /\ DeleteAccount(d) \/ (d \in Absent(room) /\ StartsAfresh(d))
      <4>1. d = room.sharer
        BY <2>1, <2>4, <2>5, <3>2, EvictedLease DEF EvictMember
      <4>2. d \in Absent(room) => room.members[d] # "online"
        BY DEF Absent
      <4> QED BY <2>1, <3>2, <4>1, <4>2 DEF GivesUpShare, StartsAfresh
    <3>3. CASE after = LeaveRoom(room, d) /\ HandleRoomLeave(d, r)
      <4>1. CASE d \notin LeaseHolders(room)
        <5> DEFINE rest == IF room.switchRequester = d THEN CancelSwitch(room)
                                                       ELSE room
        <5>1. after = Evict(rest, {d})
          BY <3>3, <4>1 DEF LeaveRoom, EvictMember
        <5>2. Sound(rest) /\ LeaseKept(room, rest)
          BY <2>1, <2>4, CancelSound, KeptLeases DEF Refits, LeaseKept
        <5> HIDE DEF rest
        <5>3. LeaseHolders(rest) = LeaseHolders(room)
          BY <5>2 DEF LeaseKept, LeaseHolders
        <5>4. LeaseKept(rest, after)
          BY <4>1, <5>1, <5>2, <5>3, EvictedLease
        <5> QED BY <2>3, <5>2, <5>4 DEF LeaseKept
      <4>2. CASE d \in LeaseHolders(room)
        BY <2>1, <2>5, <3>3, <4>2 DEF GivesUpShare
      <4> QED BY <4>1, <4>2
    <3> QED BY <2>4, <3>1, <3>2, <3>3, KeptLeases
  <2>7. CASE LeaseRequest(r, room, after)
    <3>1. PICK d \in Device :
              \/ after = RequestSwitch(room, d)
              \/ after = RequestControl(room, d)
              \/ room.share = "active" /\ after = GrantControl(room)
              \/ HandleRoomScreenShareSwitchResponse(room.sharer, r, TRUE)
      BY <2>5, <2>7 DEF LeaseRequest
    <3>2. GrantControl(room).sharer = room.sharer
      BY <2>4 DEF GrantControl, CancelControl, Room
    <3> QED BY <2>1, <2>3, <2>4, <3>1, <3>2, KeptLeases DEF GivesUpShare
  <2>8. CASE LeaseEnd(r, room, after)
    BY <2>1, <2>4, <2>5, <2>8, KeptLeases DEF LeaseEnd, GivesUpShare
  <2>9. CASE Sweep /\ after = SweepRoom(room)
    <3>1. room.sharer \in Lapsed(room)
      BY <2>1, <2>4, <2>5, <2>9, SweptLease
    <3> QED BY <2>1, <2>9, <3>1 DEF Lapsed
  <2>10. CASE \E capacity \in 2 .. MaxMembers :
                  after = [room EXCEPT !.capacity = capacity]
    BY <2>3, <2>4, <2>10 DEF Room
  <2>11. CASE LateErasure(r)
    BY <2>4, <2>11, KeptLeases DEF LateErasure
  <2> QED BY <2>2, <2>3, <2>6, <2>7, <2>8, <2>9, <2>10, <2>11 DEF RoomChange
<1>2. ASSUME Inv, Inv', [Next]_vars
      PROVE  \A r \in RoomId :
                LET sharer == Rooms[r].sharer
                IN /\ Persists(r)
                   /\ sharer # None
                   /\ Rooms'[r].sharer # sharer
                   => \/ GivesUpShare(sharer, r)
                      \/ Sweep /\ Rooms[r].members[sharer] = "lapsed"
  BY <1>1, <1>2
<1> QED BY <1>2, Invariance, PTL DEF Spec, SharerKeepsLease

-----------------------------------------------------------------------------
(* The links of the members.                                               *)

\* Requests and leases come and go without moving a member.
LEMMA LinksKept ==
    ASSUME NEW room \in Room, NEW d
    PROVE  /\ CancelSwitch(room).members = room.members
           /\ CancelControl(room).members = room.members
           /\ RevokeControl(room).members = room.members
           /\ ExpireSwitch(room).members = room.members
           /\ ExpireControl(room).members = room.members
           /\ ResetShare(room).members = room.members
           /\ ActivateShare(room, d).members = room.members
           /\ GrantShare(room, d).members = room.members
           /\ RequestSwitch(room, d).members = room.members
           /\ RequestControl(room, d).members = room.members
           /\ GrantControl(room).members = room.members
<1>1. /\ CancelSwitch(room).members = room.members
      /\ CancelControl(room).members = room.members
      /\ RevokeControl(room).members = room.members
  BY DEF CancelSwitch, CancelControl, RevokeControl, Room
<1>2. /\ ExpireSwitch(room).members = room.members
      /\ ExpireControl(room).members = room.members
  BY DEF ExpireSwitch, ExpireControl, Room
<1>3. ResetShare(room).members = room.members
  BY DEF ResetShare, RevokeControl, CancelControl, CancelSwitch, Room
<1>4. /\ ActivateShare(room, d).members = room.members
      /\ GrantShare(room, d).members = room.members
  BY DEF ActivateShare, GrantShare, RevokeControl, CancelControl, Room
<1>5. /\ RequestSwitch(room, d).members = room.members
      /\ RequestControl(room, d).members = room.members
      /\ GrantControl(room).members = room.members
  BY DEF RequestSwitch, RequestControl, GrantControl, CancelControl, Room
<1> QED BY <1>1, <1>2, <1>3, <1>4, <1>5

\* An eviction removes the evicted and nobody else.
LEMMA EvictedLinks ==
    ASSUME NEW room \in Room, NEW S, NEW d \in Device
    PROVE  Evict(room, S).members[d] =
               IF d \in S THEN "none" ELSE room.members[d]
<1> DEFINE rest == ReleaseLeases(room, S)
           some == IF room.pendingController \in S THEN CancelControl(room)
                                                   ELSE room
<1>1. some \in Room /\ some.members = room.members
  BY CancelTypes, LinksKept
<1>2. rest = IF LeaseHolders(room) \intersect S # {} THEN ResetShare(room)
             ELSE IF room.controller \in S THEN RevokeControl(some) ELSE some
  BY DEF ReleaseLeases
<1> HIDE DEF some, rest
<1>3. rest \in Room /\ rest.members = room.members
  BY <1>1, <1>2, CancelTypes, LinksKept
<1>4. DropMembers(rest, S).members =
          [m \in Device |-> IF m \in S THEN "none" ELSE rest.members[m]]
  BY <1>3 DEF DropMembers, Room
<1> QED BY <1>3, <1>4 DEF Evict, rest

\* A sweep removes the lapsed, except the owner.
LEMMA SweptLinks ==
    ASSUME NEW room \in Room, NEW d \in Device
    PROVE  SweepRoom(room).members[d] =
               IF d \in Lapsed(room) \ {room.owner} THEN "none"
               ELSE room.members[d]
<1> DEFINE some == SweepSwitch(room)
           rest == SweepControl(some)
<1>1. some \in Room /\ some.members = room.members /\ some.owner = room.owner
  BY CancelTypes DEF SweepSwitch, CancelSwitch, Room
<1> HIDE DEF some
<1>2. rest \in Room /\ rest.members = some.members /\ rest.owner = some.owner
  BY <1>1, CancelTypes DEF SweepControl, CancelControl, Room
<1>3. SweepRoom(room) = SweepMembers(rest)
  BY DEF SweepRoom, some
<1> HIDE DEF rest
<1> DEFINE gone == Lapsed(rest) \ {rest.owner}
<1>4. gone = Lapsed(room) \ {room.owner}
  BY <1>1, <1>2 DEF Lapsed
<1>5. SweepMembers(rest) = IF gone = {} THEN rest ELSE Evict(rest, gone)
  BY DEF SweepMembers
<1> HIDE DEF gone
<1>6. Evict(rest, gone).members[d] = IF d \in gone THEN "none" ELSE rest.members[d]
  BY <1>2, EvictedLinks
<1> QED BY <1>1, <1>2, <1>3, <1>4, <1>5, <1>6

\* How a step moves the link of device d in room r: the socket is lost, a
\* deadline passes, the device resumes, goes or is swept, or it is admitted.
LinkMove(r, room, after, d) ==
    \/ after.members[d] = room.members[d]
    \/ room.members[d] = "online" /\ after.members[d] = "away"
    \/ room.members[d] = "away" /\ after.members[d] = "lapsed"
    \/ /\ room.members[d] \in {"online", "away"}
       /\ after.members[d] = "online"
       /\ Sender(d)
    \/ /\ after.members[d] = "none"
       /\ Sender(d) \/ room.members[d] = "lapsed"
    \/ /\ room.members[d] = "none"
       /\ after.members[d] = "online"
       /\ registry.joinRequests[d] = [room |-> r, expired |-> FALSE]
       /\ OwnerOnline(room)
       /\ Registered(d)
       /\ Answered(r, d)

\* Every change of a room moves the links of its members in these ways.
LEMMA LinkMoves ==
    ASSUME NEW r \in RoomId, NEW room, room = registry.rooms[r],
           NEW after, after = registry'.rooms[r],
           room \in Room, RoomChange(r) \/ LateErasure(r), NEW d \in Device
    PROVE  LinkMove(r, room, after, d)
<1>1. CASE after.members = room.members
  BY <1>1 DEF LinkMove
<1>2. CASE \E capacity \in 2 .. MaxMembers :
              after = [room EXCEPT !.capacity = capacity]
  BY <1>1, <1>2 DEF Room
<1>3. ASSUME NEW before \in Room, before.members = room.members, NEW e \in Device,
             after = Evict(before, {e}), Sender(e)
      PROVE  LinkMove(r, room, after, d)
  <2>1. after.members[d] = IF d = e THEN "none" ELSE room.members[d]
    BY <1>3, EvictedLinks
  <2> QED BY <1>3, <2>1 DEF LinkMove
<1>4. CASE MemberChange(r, room, after)
  <2>1. PICK e \in Device :
            \/ after = MarkAway(room, e)
            \/ /\ after = EvictMember(room, e)
               /\ DeleteAccount(e) \/ StartsAfresh(e)
            \/ after = LeaveRoom(room, e) /\ HandleRoomLeave(e, r)
            \/ /\ after = ResumeMember(room, e)
               /\ room.members[e] \in {"online", "away"}
               /\ Sender(e)
            \/ /\ after = Admit(room, e)
               /\ e \notin Members(room)
               /\ OwnerOnline(room)
               /\ registry.joinRequests[e] = [room |-> r, expired |-> FALSE]
               /\ Registered(e)
               /\ Answered(r, e)
            \/ /\ after = LapseMember(room, e)
               /\ room.members[e] = "away"
    BY <1>4 DEF MemberChange
  <2>2. CASE after = MarkAway(room, e)
    <3>1. room.members[e] = "online" =>
              after.members = [room.members EXCEPT ![e] = "away"]
      BY <2>2 DEF MarkAway, CancelControl, CancelSwitch, Room
    <3>2. room.members[e] # "online" => after = room
      BY <2>2 DEF MarkAway
    <3> QED BY <3>1, <3>2 DEF LinkMove, Room
  <2>3. CASE /\ after = EvictMember(room, e)
             /\ DeleteAccount(e) \/ StartsAfresh(e)
    <3>1. Sender(e)
      BY <2>3 DEF DeleteAccount, StartsAfresh, HandleRoomJoinRequest,
                  HandleRoomCreate, Sender, Registered
    <3> QED BY <1>3, <2>3, <3>1 DEF EvictMember
  <2>4. CASE after = LeaveRoom(room, e) /\ HandleRoomLeave(e, r)
    <3>1. Sender(e)
      BY <2>4 DEF HandleRoomLeave
    <3>2. /\ CancelSwitch(room) \in Room
          /\ CancelSwitch(room).members = room.members
      BY CancelTypes, LinksKept
    <3>3. \/ after = Evict(room, {e})
          \/ after = Evict(CancelSwitch(room), {e})
      BY <2>4 DEF LeaveRoom, EvictMember
    <3> QED BY <1>3, <3>1, <3>2, <3>3
  <2>5. CASE /\ after = ResumeMember(room, e)
             /\ room.members[e] \in {"online", "away"}
             /\ Sender(e)
    <3>1. after.members = [room.members EXCEPT ![e] = "online"]
      BY <2>5 DEF ResumeMember, Room
    <3> QED BY <2>5, <3>1 DEF LinkMove, Room
  <2>6. CASE /\ after = Admit(room, e)
             /\ e \notin Members(room)
             /\ OwnerOnline(room)
             /\ registry.joinRequests[e] = [room |-> r, expired |-> FALSE]
             /\ Registered(e)
             /\ Answered(r, e)
    <3>1. after.members = [room.members EXCEPT ![e] = "online"]
      BY <2>6 DEF Admit, Room
    <3>2. room.members[e] = "none"
      BY <2>6 DEF Members
    <3> QED BY <2>6, <3>1, <3>2 DEF LinkMove, Room
  <2>7. CASE after = LapseMember(room, e) /\ room.members[e] = "away"
    <3>1. after.members = [room.members EXCEPT ![e] = "lapsed"]
      BY <2>7 DEF LapseMember, Room
    <3> QED BY <2>7, <3>1 DEF LinkMove, Room
  <2> QED BY <2>1, <2>2, <2>3, <2>4, <2>5, <2>6, <2>7
<1>5. CASE LeaseRequest(r, room, after)
  <2>1. PICK e \in Device :
            \/ after = RequestSwitch(room, e)
            \/ after = GrantShare(room, e)
            \/ after = ActivateShare(room, e)
            \/ after = RequestControl(room, e)
            \/ after = GrantControl(room)
            \/ after = GrantShare(CancelSwitch(room), e)
    BY <1>5 DEF LeaseRequest
  <2>2. CASE after = GrantShare(CancelSwitch(room), e)
    <3>1. /\ CancelSwitch(room) \in Room
          /\ CancelSwitch(room).members = room.members
      BY CancelTypes, LinksKept
    <3> QED BY <1>1, <2>2, <3>1, LinksKept
  <2> QED BY <1>1, <2>1, <2>2, LinksKept
<1>6. CASE LeaseEnd(r, room, after)
  BY <1>1, <1>6, LinksKept DEF LeaseEnd
<1>7. CASE after = SweepRoom(room)
  BY <1>7, SweptLinks DEF LinkMove, Lapsed
<1>8. CASE LateErasure(r)
  <2>1. PICK e \in Device : after = EraseMember(room, e) /\ ResumeLate(e, r)
    BY <1>8 DEF LateErasure
  <2>2. after.members = [room.members EXCEPT ![e] = "none"] /\ Sender(e)
    BY <2>1 DEF EraseMember, Room, ResumeLate, HoldsMembership
  <2> QED BY <2>2 DEF LinkMove, Room
<1> QED BY <1>1, <1>2, <1>4, <1>5, <1>6, <1>7, <1>8 DEF RoomChange

\* A room that is open before and after a step moves its links so.
LEMMA LinkSteps ==
    ASSUME Inv, [Next]_vars, NEW r \in RoomId, Persists(r), NEW d \in Device
    PROVE  LinkMove(r, Rooms[r], Rooms'[r], d)
<1>1. registry.rooms[r] # None /\ registry'.rooms[r] # None
  BY DEF Persists, IsOpen
<1>2. registry.rooms[r] \in Room
  BY <1>1 DEF Inv, RegistrySound, OpenRooms, Sound
<1>3. RoomChange(r) \/ LateErasure(r)
  BY <1>1, StepOfRoom DEF RoomSteps, OpenRooms, IsOpen
<1> QED BY <1>2, <1>3, LinkMoves DEF Rooms

\* A member without a socket keeps its place while its recovery window is
\* open: nobody else's message, nor the sweep, removes it from a room that
\* stays open.
THEOREM RecoverySlotsKept == Spec => RecoverySlotKept
<1>1. ASSUME Inv, [Next]_vars
      PROVE  \A r \in RoomId, d \in Device :
                /\ Persists(r)
                /\ Rooms[r].members[d] = "away"
                /\ conn[d] = "offline"
                => Rooms'[r].members[d] \in {"away", "lapsed"}
  BY <1>1, LinkSteps DEF LinkMove, Sender, Registered
<1> QED BY <1>1, Invariance, PTL DEF Spec, RecoverySlotKept

\* A device becomes a member of an existing room only when the owner accepts its
\* request, and then the owner is online, the request in time and used up by the
\* answer, the device connected and in no room and no session, and a seat free.
THEOREM AdmissionByOwner == Spec => AdmittedByOwner
<1>1. ASSUME Inv, [Next]_vars, NEW r \in RoomId, NEW d \in Device,
             Persists(r), d \notin Members(Rooms[r]), d \in Members(Rooms'[r])
      PROVE  /\ HandleRoomJoinResponse(Rooms[r].owner, r, d, TRUE)
             /\ Rooms[r].members[Rooms[r].owner] = "online"
             /\ registry.joinRequests[d] = [room |-> r, expired |-> FALSE]
             /\ registry'.joinRequests[d] = None
             /\ Registered(d)
             /\ \A s \in OpenRooms(registry) : d \notin Members(Rooms[s])
             /\ SessionsOf(directory, d) = {}
             /\ Cardinality(Members(Rooms[r])) < Rooms[r].capacity
  <2> DEFINE rest == DropJoins(registry, {d})
  <2>1. registry \in Registry /\ RegistrySound(registry)
    BY <1>1 DEF Inv, TypeOK
  <2>2. directory \in Directory /\ DirectorySound(directory)
    BY <1>1 DEF Inv, TypeOK
  <2>3. LinkMove(r, Rooms[r], Rooms'[r], d)
    BY <1>1, LinkSteps
  <2>4. /\ registry.joinRequests[d] = [room |-> r, expired |-> FALSE]
        /\ OwnerOnline(Rooms[r])
        /\ Registered(d)
        /\ Answered(r, d)
    BY <1>1, <2>3 DEF LinkMove, Members
  <2>5. /\ rest.rooms = registry.rooms
        /\ rest.deviceRooms = registry.deviceRooms
        /\ rest.joinRequests[d] = None
    BY <2>1 DEF DropJoins, Registry
  <2>6. PICK o \in Device, accepted \in BOOLEAN :
            HandleRoomJoinResponse(o, r, d, accepted)
    BY <2>4 DEF Answered
  <2>7. registry' # rest
    BY <1>1, <2>5 DEF Rooms
  <2>8. /\ o = Rooms[r].owner
        /\ accepted = TRUE
        /\ ~Engaged(rest, d)
        /\ HasSeat(Rooms[r])
        /\ registry' = AdmitMember(rest, r, d)
    BY <2>6, <2>7 DEF HandleRoomJoinResponse, Rooms
  <2>9. registry'.joinRequests[d] = None
    <3>1. rest \in Registry
      BY <2>1, DropJoinsSound DEF RegistrySound
    <3>2. AdmitMember(rest, r, d).joinRequests = rest.joinRequests
      BY <3>1 DEF AdmitMember, Registry
    <3> QED BY <2>5, <2>8, <3>2
  <2>10. ~DeviceHasRoom(registry, d) /\ ~DeviceHasSession(directory, d)
    BY <2>5, <2>8 DEF Engaged, DeviceHasRoom
  <2>11. \A s \in OpenRooms(registry) : d \notin Members(Rooms[s])
    <3>1. registry.deviceRooms[d] = None
      BY <2>10 DEF DeviceHasRoom
    <3>2. RoomIndexOf(registry)
      BY <2>1 DEF RegistrySound
    <3>3. ASSUME NEW s \in OpenRooms(registry)
          PROVE  d \notin Members(Rooms[s])
      <4>1. s \in RoomId /\ s # None
        BY RoomIdAssumption DEF OpenRooms
      <4> QED BY <3>1, <3>2, <4>1 DEF RoomIndexOf, Rooms
    <3> QED BY <3>3
  <2>12. SessionsOf(directory, d) = {}
    <3>1. directory.deviceSessions[d] = None
      BY <2>10 DEF DeviceHasSession
    <3>2. SessionIndexOf(directory)
      BY <2>2 DEF DirectorySound
    <3>3. ASSUME NEW k \in SessionsOf(directory, d)
          PROVE  FALSE
      <4>1. /\ k \in Device /\ k # None
            /\ k \in OpenSessions(directory) /\ d \in Ends(directory, k)
        BY DeviceAssumption DEF SessionsOf, OpenSessions
      <4> QED BY <3>1, <3>2, <4>1 DEF SessionIndexOf
    <3> QED BY <3>3
  <2> QED
    BY <2>4, <2>6, <2>8, <2>9, <2>11, <2>12 DEF OwnerOnline, HasSeat
<1>2. ASSUME Inv, [Next]_vars
      PROVE  \A r \in RoomId, d \in Device :
                LET room == Rooms[r]
                IN /\ Persists(r)
                   /\ d \notin Members(room)
                   /\ d \in Members(Rooms'[r])
                   => /\ HandleRoomJoinResponse(room.owner, r, d, TRUE)
                      /\ room.members[room.owner] = "online"
                      /\ registry.joinRequests[d] = [room |-> r, expired |-> FALSE]
                      /\ registry'.joinRequests[d] = None
                      /\ Registered(d)
                      /\ \A s \in OpenRooms(registry) : d \notin Members(Rooms[s])
                      /\ SessionsOf(directory, d) = {}
                      /\ Cardinality(Members(room)) < room.capacity
  BY <1>1, <1>2
<1> QED BY <1>2, Invariance, PTL DEF Spec, AdmittedByOwner

-----------------------------------------------------------------------------
(* Rooms that keep nothing of those who left.                              *)

\* What OnlyMembersHold says of one room.
Tidy(room) ==
    /\ room.pairs = {p \in SUBSET Members(room) : Cardinality(p) = 2}
    /\ LeaseHolders(room) \union ({room.controller} \ {None})
           \subseteq Members(room)
    /\ room.share = "active" => room.members[room.sharer] = "online"
    /\ room.share = "recovering" =>
           room.members[room.sharer] \in {"away", "lapsed"}

\* A set of two devices, spelled out.
LEMMA TwoDevices ==
    ASSUME NEW S \in SUBSET Device, NEW p
    PROVE  p \in SUBSET S /\ Cardinality(p) = 2
               <=> \E a, b \in S : a # b /\ p = {a, b}
<1>1. IsFiniteSet(S)
  BY DeviceAssumption, FS_Subset
<1>2. ASSUME p \in SUBSET S, Cardinality(p) = 2
      PROVE  \E a, b \in S : a # b /\ p = {a, b}
  <2>1. IsFiniteSet(p)
    BY <1>1, <1>2, FS_Subset
  <2>2. PICK a \in p : TRUE
    BY <1>2, <2>1, FS_EmptySet
  <2>3. IsFiniteSet(p \ {a}) /\ Cardinality(p \ {a}) = 1
    BY <1>2, <2>1, <2>2, FS_RemoveElement
  <2>4. PICK b \in p \ {a} : TRUE
    BY <2>3, FS_EmptySet
  <2>5. IsFiniteSet((p \ {a}) \ {b}) /\ Cardinality((p \ {a}) \ {b}) = 0
    BY <2>3, <2>4, FS_RemoveElement
  <2>6. (p \ {a}) \ {b} = {}
    BY <2>5, FS_EmptySet
  <2>7. p = {a, b}
    BY <2>2, <2>4, <2>6
  <2> QED BY <1>2, <2>2, <2>4, <2>7
<1>3. ASSUME NEW a \in S, NEW b \in S, a # b, p = {a, b}
      PROVE  p \in SUBSET S /\ Cardinality(p) = 2
  <2>1. IsFiniteSet({a}) /\ Cardinality({a}) = 1
    BY FS_Singleton
  <2>2. Cardinality({a} \union {b}) = 2
    BY <1>3, <2>1, FS_AddElement
  <2>3. p = {a} \union {b}
    BY <1>3
  <2> QED BY <2>2, <2>3
<1> QED BY <1>2, <1>3

\* Only an admission and an eviction change the peer connections of a room.
LEMMA PairsKept ==
    ASSUME NEW room \in Room, NEW d
    PROVE  /\ CancelSwitch(room).pairs = room.pairs
           /\ CancelControl(room).pairs = room.pairs
           /\ RevokeControl(room).pairs = room.pairs
           /\ ExpireSwitch(room).pairs = room.pairs
           /\ ExpireControl(room).pairs = room.pairs
           /\ ResetShare(room).pairs = room.pairs
           /\ ActivateShare(room, d).pairs = room.pairs
           /\ GrantShare(room, d).pairs = room.pairs
           /\ RequestSwitch(room, d).pairs = room.pairs
           /\ RequestControl(room, d).pairs = room.pairs
           /\ GrantControl(room).pairs = room.pairs
           /\ MarkAway(room, d).pairs = room.pairs
           /\ ResumeMember(room, d).pairs = room.pairs
           /\ LapseMember(room, d).pairs = room.pairs
<1>1. /\ CancelSwitch(room).pairs = room.pairs
      /\ CancelControl(room).pairs = room.pairs
      /\ RevokeControl(room).pairs = room.pairs
  BY DEF CancelSwitch, CancelControl, RevokeControl, Room
<1>2. /\ ExpireSwitch(room).pairs = room.pairs
      /\ ExpireControl(room).pairs = room.pairs
  BY DEF ExpireSwitch, ExpireControl, Room
<1>3. ResetShare(room).pairs = room.pairs
  BY DEF ResetShare, RevokeControl, CancelControl, CancelSwitch, Room
<1>4. /\ ActivateShare(room, d).pairs = room.pairs
      /\ GrantShare(room, d).pairs = room.pairs
  BY DEF ActivateShare, GrantShare, RevokeControl, CancelControl, Room
<1>5. /\ RequestSwitch(room, d).pairs = room.pairs
      /\ RequestControl(room, d).pairs = room.pairs
      /\ GrantControl(room).pairs = room.pairs
  BY DEF RequestSwitch, RequestControl, GrantControl, CancelControl, Room
<1>6. MarkAway(room, d).pairs = room.pairs
  BY DEF MarkAway, CancelControl, CancelSwitch, Room
<1>7. /\ ResumeMember(room, d).pairs = room.pairs
      /\ LapseMember(room, d).pairs = room.pairs
  BY DEF ResumeMember, LapseMember, Room
<1> QED BY <1>1, <1>2, <1>3, <1>4, <1>5, <1>6, <1>7

\* What an eviction leaves of the peer connections and of the control lease.
LEMMA EvictedRest ==
    ASSUME NEW room \in Room, NEW S
    PROVE  /\ Evict(room, S).pairs = {p \in room.pairs : p \intersect S = {}}
           /\ LeaseHolders(room) \intersect S = {} =>
                  Evict(room, S).controller =
                      IF room.controller \in S THEN None ELSE room.controller
<1> DEFINE rest == ReleaseLeases(room, S)
           some == IF room.pendingController \in S THEN CancelControl(room)
                                                   ELSE room
<1>1. some \in Room /\ some.pairs = room.pairs /\ some.controller = room.controller
  BY CancelTypes, PairsKept DEF CancelControl, Room
<1>2. rest = IF LeaseHolders(room) \intersect S # {} THEN ResetShare(room)
             ELSE IF room.controller \in S THEN RevokeControl(some) ELSE some
  BY DEF ReleaseLeases
<1> HIDE DEF some, rest
<1>3. RevokeControl(some).controller = None
  BY <1>1 DEF RevokeControl, Room
<1>4. rest \in Room /\ rest.pairs = room.pairs
  BY <1>1, <1>2, CancelTypes, PairsKept
<1>5. LeaseHolders(room) \intersect S = {} =>
          rest.controller = IF room.controller \in S THEN None ELSE room.controller
  BY <1>1, <1>2, <1>3
<1>6. DropMembers(rest, S).pairs = {p \in rest.pairs : p \intersect S = {}}
  BY <1>4 DEF DropMembers, Room
<1>7. DropMembers(rest, S).controller = rest.controller
  BY <1>4 DEF DropMembers, Room
<1> QED BY <1>4, <1>5, <1>6, <1>7 DEF Evict, rest

\* A room stays tidy when its requests change, and when control ends.
LEMMA KeptTidy ==
    ASSUME NEW room, NEW after, Tidy(room), LeaseKept(room, after),
           after.members = room.members, after.pairs = room.pairs,
           after.share = room.share
    PROVE  Tidy(after)
<1>1. /\ Members(after) = Members(room)
      /\ LeaseHolders(after) = LeaseHolders(room)
  BY DEF LeaseKept, Members, LeaseHolders
<1> QED BY <1>1 DEF Tidy, LeaseKept

\* A room stays tidy when it loses members other than the owner.
LEMMA EvictedTidy ==
    ASSUME NEW room, NEW S, Sound(room), Sound(Evict(room, S)), Tidy(room)
    PROVE  Tidy(Evict(room, S))
<1> DEFINE after == Evict(room, S)
<1>1. room \in Room /\ Sound(after)
  BY DEF Sound
<1>2. \A d \in Device : after.members[d] =
                            IF d \in S THEN "none" ELSE room.members[d]
  BY <1>1, EvictedLinks
<1>3. /\ after.pairs = {p \in room.pairs : p \intersect S = {}}
      /\ LeaseHolders(room) \intersect S = {} =>
             after.controller = IF room.controller \in S THEN None
                                ELSE room.controller
  BY <1>1, EvictedRest
<1>4. IF LeaseHolders(room) \intersect S # {}
      THEN LeaseEnded(room, after)
      ELSE LeaseKept(room, after) /\ after.share = room.share
  BY EvictedLease
<1> HIDE DEF after
<1>5. Members(after) = Members(room) \ S
  BY <1>2 DEF Members
<1>6. after.pairs = {p \in SUBSET Members(after) : Cardinality(p) = 2}
  BY <1>3, <1>5 DEF Tidy
<1>7. CASE LeaseHolders(room) \intersect S # {}
  <2>1. LeaseHolders(after) = {} /\ after.controller = None /\ after.share = "idle"
    BY <1>1, <1>4, <1>7 DEF LeaseEnded, Sound, LeaseShape, ControlShape
  <2> QED BY <1>6, <2>1 DEF Tidy, after
<1>8. CASE LeaseHolders(room) \intersect S = {}
  <2>1. /\ LeaseHolders(after) = LeaseHolders(room)
        /\ after.sharer = room.sharer /\ after.share = room.share
    BY <1>4, <1>8 DEF LeaseKept, LeaseHolders
  <2>2. LeaseHolders(after) \union ({after.controller} \ {None})
            \subseteq Members(after)
    BY <1>3, <1>5, <1>8, <2>1 DEF Tidy
  <2>3. room.share \in {"active", "recovering"} =>
            room.sharer \in Device /\ room.sharer \notin S
    BY <1>8, HoldersOf DEF LeaseHolders
  <2>4. /\ after.share = "active" => after.members[after.sharer] = "online"
        /\ after.share = "recovering" =>
               after.members[after.sharer] \in {"away", "lapsed"}
    BY <1>2, <2>1, <2>3 DEF Tidy
  <2> QED BY <1>6, <2>2, <2>4 DEF Tidy, after
<1> QED BY <1>7, <1>8

\* A room stays tidy when a member is admitted.
LEMMA AdmittedTidy ==
    ASSUME NEW room, NEW d \in Device, Sound(room), Tidy(room),
           d \notin Members(room)
    PROVE  Tidy(Admit(room, d))
<1> DEFINE after == Admit(room, d)
<1>1. room \in Room
  BY DEF Sound
<1>2. /\ after.members = [room.members EXCEPT ![d] = "online"]
      /\ after.pairs = room.pairs \union {{d, m} : m \in Members(room)}
      /\ after.controller = room.controller
  BY <1>1 DEF Admit, Room
<1>3. LeaseKept(room, after) /\ after.share = room.share
  BY <1>1, KeptLeases
<1> HIDE DEF after
<1>4. Members(after) = Members(room) \union {d}
  BY <1>1, <1>2 DEF Members, Room
<1>5. after.pairs = {p \in SUBSET Members(after) : Cardinality(p) = 2}
  <2>1. \A p : p \in room.pairs <=>
                   \E a, b \in Members(room) : a # b /\ p = {a, b}
    <3>1. \A p : p \in room.pairs <=>
                     p \in SUBSET Members(room) /\ Cardinality(p) = 2
      BY DEF Tidy
    <3>2. \A p : p \in SUBSET Members(room) /\ Cardinality(p) = 2 <=>
                     \E a, b \in Members(room) : a # b /\ p = {a, b}
      <4>1. Members(room) \in SUBSET Device
        BY MembersFinite
      <4> QED BY <4>1, TwoDevices
    <3> QED BY <3>1, <3>2
  <2>2. \A p : p \in SUBSET Members(after) /\ Cardinality(p) = 2 <=>
                   \E a, b \in Members(after) : a # b /\ p = {a, b}
    <3>1. Members(after) \in SUBSET Device
      BY MembersFinite
    <3> QED BY <3>1, TwoDevices
  <2>3. \A p : p \in after.pairs <=>
                   \E a, b \in Members(after) : a # b /\ p = {a, b}
    BY <1>2, <1>4, <2>1
  <2> QED BY <2>2, <2>3
<1>6. LeaseHolders(after) = LeaseHolders(room)
  BY <1>3 DEF LeaseKept, LeaseHolders
<1>7. \A e \in Members(room) : after.members[e] = room.members[e]
  BY <1>1, <1>2 DEF Members, Room
<1>8. room.share \in {"active", "recovering"} => room.sharer \in Members(room)
  BY HoldersOf DEF Tidy, LeaseHolders
<1> QED BY <1>2, <1>3, <1>4, <1>5, <1>6, <1>7, <1>8 DEF Tidy, LeaseKept, after

\* A room stays tidy through a sweep that leaves it its owner.
LEMMA SweptTidy ==
    ASSUME NEW room, Sound(room), Sound(SweepRoom(room)), Tidy(room)
    PROVE  Tidy(SweepRoom(room))
<1> DEFINE some == SweepSwitch(room)
           rest == SweepControl(some)
<1>1. Sound(some) /\ Tidy(some)
  <2>1. room \in Room
    BY DEF Sound
  <2>2. Sound(CancelSwitch(room)) /\ Tidy(CancelSwitch(room))
    BY <2>1, CancelSound, KeptLeases, LinksKept, PairsKept, KeptTidy DEF Refits
  <2> QED BY <2>2 DEF SweepSwitch
<1> HIDE DEF some
<1>2. Sound(rest) /\ Tidy(rest)
  <2>1. some \in Room
    BY <1>1 DEF Sound
  <2>2. Sound(CancelControl(some)) /\ Tidy(CancelControl(some))
    BY <1>1, <2>1, CancelSound, KeptLeases, LinksKept, PairsKept, KeptTidy
       DEF Refits
  <2> QED BY <1>1, <2>2 DEF SweepControl
<1>3. SweepRoom(room) = SweepMembers(rest)
  BY DEF SweepRoom, some
<1> HIDE DEF rest
<1>4. SweepMembers(rest) = rest \/ \E S : SweepMembers(rest) = Evict(rest, S)
  BY DEF SweepMembers
<1> QED BY <1>2, <1>3, <1>4, EvictedTidy

\* A room stays tidy when a link of it moves without anybody leaving.
LEMMA LinkTidy ==
    ASSUME NEW room, NEW d \in Device, Sound(room), Tidy(room)
    PROVE  /\ Tidy(MarkAway(room, d))
           /\ room.members[d] \in {"online", "away"} =>
                  Tidy(ResumeMember(room, d))
           /\ room.members[d] = "away" => Tidy(LapseMember(room, d))
<1>1. room \in Room
  BY DEF Sound
<1>2. room.share \in {"active", "recovering"} => room.sharer \in Device
  BY HoldersOf
<1>3. ASSUME NEW after, LeaseKept(room, after), after.pairs = room.pairs,
             NEW link \in Link \ {"none"}, room.members[d] # "none",
             after.members = [room.members EXCEPT ![d] = link],
             after.share = "active" => after.members[room.sharer] = "online",
             after.share = "recovering" =>
                 after.members[room.sharer] \in {"away", "lapsed"}
      PROVE  Tidy(after)
  <2>1. Members(after) = Members(room)
    BY <1>1, <1>3 DEF Members, Room
  <2>2. LeaseHolders(after) = LeaseHolders(room)
    BY <1>3 DEF LeaseKept, LeaseHolders
  <2> QED BY <1>3, <2>1, <2>2 DEF Tidy, LeaseKept
<1>4. Tidy(MarkAway(room, d))
  <2> DEFINE after == MarkAway(room, d)
  <2>1. CASE room.members[d] # "online"
    BY <2>1 DEF MarkAway
  <2>2. CASE room.members[d] = "online"
    <3>1. /\ after.members = [room.members EXCEPT ![d] = "away"]
          /\ after.share = IF room.sharer = d /\ room.share = "active"
                           THEN "recovering" ELSE room.share
      BY <1>1, <2>2 DEF MarkAway, CancelControl, CancelSwitch, Room
    <3>2. LeaseKept(room, after) /\ after.pairs = room.pairs
      BY <1>1, KeptLeases, PairsKept
    <3> HIDE DEF after
    <3>3. /\ after.share = "active" => after.members[room.sharer] = "online"
          /\ after.share = "recovering" =>
                 after.members[room.sharer] \in {"away", "lapsed"}
      BY <1>1, <1>2, <2>2, <3>1 DEF Tidy, Room
    <3> QED BY <1>3, <2>2, <3>1, <3>2, <3>3 DEF Link, after
  <2> QED BY <2>1, <2>2
<1>5. ASSUME room.members[d] \in {"online", "away"}
      PROVE  Tidy(ResumeMember(room, d))
  <2> DEFINE after == ResumeMember(room, d)
  <2>1. /\ after.members = [room.members EXCEPT ![d] = "online"]
        /\ after.share = IF room.share = "recovering" /\ room.sharer = d
                         THEN "active" ELSE room.share
    BY <1>1 DEF ResumeMember, Room
  <2>2. LeaseKept(room, after) /\ after.pairs = room.pairs
    BY <1>1, KeptLeases, PairsKept
  <2> HIDE DEF after
  <2>3. /\ after.share = "active" => after.members[room.sharer] = "online"
        /\ after.share = "recovering" =>
               after.members[room.sharer] \in {"away", "lapsed"}
    BY <1>1, <1>2, <2>1 DEF Tidy, Room
  <2> QED BY <1>3, <1>5, <2>1, <2>2, <2>3 DEF Link, after
<1>6. ASSUME room.members[d] = "away"
      PROVE  Tidy(LapseMember(room, d))
  <2> DEFINE after == LapseMember(room, d)
  <2>1. after.members = [room.members EXCEPT ![d] = "lapsed"]
    BY <1>1 DEF LapseMember, Room
  <2>2. /\ LeaseKept(room, after) /\ after.share = room.share
        /\ after.pairs = room.pairs
    BY <1>1, KeptLeases, PairsKept
  <2> HIDE DEF after
  <2>3. /\ after.share = "active" => after.members[room.sharer] = "online"
        /\ after.share = "recovering" =>
               after.members[room.sharer] \in {"away", "lapsed"}
    BY <1>1, <1>2, <1>6, <2>1, <2>2 DEF Tidy, Room
  <2> QED BY <1>3, <1>6, <2>1, <2>2, <2>3 DEF Link, after
<1> QED BY <1>4, <1>5, <1>6

\* A room stays tidy when the lease or control goes to a device that is online.
LEMMA GrantTidy ==
    ASSUME NEW room, NEW d \in Device, Sound(room), Tidy(room),
           room.members[d] = "online"
    PROVE  /\ Tidy(GrantShare(room, d))
           /\ room.share = "switching" => Tidy(ActivateShare(room, d))
           /\ room.share = "active" /\ room.pendingController = d =>
                  Tidy(GrantControl(room))
<1>1. room \in Room /\ d \in Members(room)
  BY DEF Sound, Members
<1>2. Tidy(GrantShare(room, d))
  <2> DEFINE after == GrantShare(room, d)
  <2>1. /\ after.members = room.members /\ after.pairs = room.pairs
        /\ after.share = "switching" /\ after.controller = None
        /\ after.sharer = None /\ after.pendingSharer = d
    BY <1>1 DEF GrantShare, RevokeControl, CancelControl, Room
  <2> HIDE DEF after
  <2>2. Members(after) = Members(room) /\ LeaseHolders(after) \subseteq {d}
    BY <2>1 DEF Members, LeaseHolders
  <2> QED BY <1>1, <2>1, <2>2 DEF Tidy, after
<1>3. ASSUME room.share = "switching"
      PROVE  Tidy(ActivateShare(room, d))
  <2> DEFINE after == ActivateShare(room, d)
  <2>1. /\ after.members = room.members /\ after.pairs = room.pairs
        /\ after.share = "active" /\ after.controller = room.controller
        /\ after.sharer = d /\ after.pendingSharer = None
    BY <1>1 DEF ActivateShare, Room
  <2> HIDE DEF after
  <2>2. Members(after) = Members(room) /\ LeaseHolders(after) \subseteq {d}
    BY <2>1 DEF Members, LeaseHolders
  <2> QED BY <1>1, <2>1, <2>2 DEF Tidy, after
<1>4. ASSUME room.share = "active", room.pendingController = d
      PROVE  Tidy(GrantControl(room))
  <2> DEFINE after == GrantControl(room)
  <2>1. /\ after.members = room.members /\ after.pairs = room.pairs
        /\ after.share = room.share /\ after.controller = d
        /\ after.sharer = room.sharer
        /\ after.pendingSharer = room.pendingSharer
    BY <1>1, <1>4 DEF GrantControl, CancelControl, Room
  <2> HIDE DEF after
  <2>2. /\ Members(after) = Members(room)
        /\ LeaseHolders(after) = LeaseHolders(room)
    BY <2>1 DEF Members, LeaseHolders
  <2> QED BY <1>1, <2>1, <2>2 DEF Tidy, after
<1> QED BY <1>2, <1>3, <1>4

\* A room stays tidy when its lease ends.
LEMMA ResetTidy ==
    ASSUME NEW room \in Room, Tidy(room)
    PROVE  Tidy(ResetShare(room))
<1> DEFINE after == ResetShare(room)
<1>1. /\ after.share = "idle" /\ after.controller = None
      /\ after.sharer = None /\ after.pendingSharer = None
  BY DEF ResetShare, RevokeControl, CancelControl, CancelSwitch, Room
<1>2. after.members = room.members /\ after.pairs = room.pairs
  BY LinksKept, PairsKept
<1> HIDE DEF after
<1>3. Members(after) = Members(room) /\ LeaseHolders(after) = {}
  BY <1>1, <1>2 DEF Members, LeaseHolders
<1> QED BY <1>1, <1>2, <1>3 DEF Tidy, after

\* Every change of a room but the erasure of a late member leaves it tidy.
LEMMA TidyMoves ==
    ASSUME NEW r \in RoomId, NEW room, room = registry.rooms[r],
           NEW after, after = registry'.rooms[r],
           Sound(room), Sound(after), Tidy(room), RoomChange(r)
    PROVE  Tidy(after)
<1>1. room \in Room /\ after \in Room
  BY DEF Sound
<1>2. CASE after = room
  BY <1>2
<1>3. CASE \E capacity \in 2 .. MaxMembers :
              after = [room EXCEPT !.capacity = capacity]
  BY <1>1, <1>3, KeptTidy DEF LeaseKept, Room
<1>4. CASE MemberChange(r, room, after)
  <2>1. PICK d \in Device :
            \/ after = MarkAway(room, d)
            \/ after = EvictMember(room, d)
            \/ after = LeaveRoom(room, d)
            \/ /\ after = ResumeMember(room, d)
               /\ room.members[d] \in {"online", "away"}
            \/ after = Admit(room, d) /\ d \notin Members(room)
            \/ after = LapseMember(room, d) /\ room.members[d] = "away"
    BY <1>4 DEF MemberChange
  <2>2. CASE after = EvictMember(room, d)
    BY <2>2, EvictedTidy DEF EvictMember
  <2>3. CASE after = LeaveRoom(room, d)
    <3>1. Sound(CancelSwitch(room)) /\ Tidy(CancelSwitch(room))
      BY <1>1, CancelSound, KeptLeases, LinksKept, PairsKept, KeptTidy DEF Refits
    <3>2. \/ after = Evict(room, {d})
          \/ after = Evict(CancelSwitch(room), {d})
      BY <2>3 DEF LeaveRoom, EvictMember
    <3> QED BY <3>1, <3>2, EvictedTidy
  <2> QED BY <2>1, <2>2, <2>3, LinkTidy, AdmittedTidy
<1>5. CASE LeaseRequest(r, room, after)
  <2>1. PICK d \in Device :
            /\ room.members[d] = "online"
            /\ \/ after = RequestSwitch(room, d)
               \/ after = RequestControl(room, d)
               \/ after = GrantShare(room, d)
               \/ after = GrantShare(CancelSwitch(room), d)
               \/ room.share = "switching" /\ after = ActivateShare(room, d)
               \/ /\ room.share = "active" /\ room.pendingController = d
                  /\ after = GrantControl(room)
    BY <1>5 DEF LeaseRequest
  <2>2. CASE after = RequestSwitch(room, d)
    BY <1>1, <2>2, KeptLeases, LinksKept, PairsKept, KeptTidy
  <2>3. CASE after = RequestControl(room, d)
    BY <1>1, <2>3, KeptLeases, LinksKept, PairsKept, KeptTidy
  <2>4. CASE after = GrantShare(CancelSwitch(room), d)
    <3>1. /\ Sound(CancelSwitch(room)) /\ Tidy(CancelSwitch(room))
          /\ CancelSwitch(room).members = room.members
      BY <1>1, CancelSound, KeptLeases, LinksKept, PairsKept, KeptTidy DEF Refits
    <3> QED BY <2>1, <2>4, <3>1, GrantTidy
  <2> QED BY <2>1, <2>2, <2>3, <2>4, GrantTidy
<1>6. CASE LeaseEnd(r, room, after)
  <2>1. CASE after = ResetShare(room)
    BY <1>1, <2>1, ResetTidy
  <2>2. CASE after = CancelSwitch(room)
    BY <1>1, <2>2, KeptLeases, LinksKept, PairsKept, KeptTidy
  <2>3. CASE after = CancelControl(room)
    BY <1>1, <2>3, KeptLeases, LinksKept, PairsKept, KeptTidy
  <2>4. CASE after = RevokeControl(room)
    BY <1>1, <2>4, KeptLeases, LinksKept, PairsKept, KeptTidy
  <2>5. CASE after = ExpireSwitch(room)
    BY <1>1, <2>5, KeptLeases, LinksKept, PairsKept, KeptTidy
  <2>6. CASE after = ExpireControl(room)
    BY <1>1, <2>6, KeptLeases, LinksKept, PairsKept, KeptTidy
  <2> QED BY <1>6, <2>1, <2>2, <2>3, <2>4, <2>5, <2>6 DEF LeaseEnd
<1>7. CASE after = SweepRoom(room)
  BY <1>7, SweptTidy
<1> QED BY <1>2, <1>3, <1>4, <1>5, <1>6, <1>7 DEF RoomChange

\* A room is tidy when it is opened.
LEMMA NewRoomTidy ==
    ASSUME NEW d \in Device, NEW capacity \in 2 .. MaxMembers
    PROVE  Tidy(NewRoom(d, capacity))
<1> DEFINE room == NewRoom(d, capacity)
<1>1. /\ room.pairs = {} /\ room.share = "idle" /\ room.controller = None
      /\ room.sharer = None /\ room.pendingSharer = None
  BY DEF NewRoom
<1>2. Members(room) = {d}
  BY NewRoomSound
<1> HIDE DEF room
<1>3. \A p : ~(p \in SUBSET Members(room) /\ Cardinality(p) = 2)
  <2>1. Members(room) \in SUBSET Device
    BY <1>2
  <2> QED BY <1>2, <2>1, TwoDevices
<1>4. LeaseHolders(room) = {}
  BY <1>1 DEF LeaseHolders
<1> QED BY <1>1, <1>3, <1>4 DEF Tidy, room

\* A timely step keeps every room tidy.
LEMMA TidySteps ==
    ASSUME Inv, Inv', [TimelyNext]_vars,
           \A r \in OpenRooms(registry) : Tidy(registry.rooms[r])
    PROVE  \A r \in OpenRooms(registry') : Tidy(registry'.rooms[r])
<1> SUFFICES ASSUME NEW r \in OpenRooms(registry')
             PROVE  Tidy(registry'.rooms[r])
  OBVIOUS
<1>1. r \in RoomId
  BY DEF OpenRooms
<1>2. TimelyRoomSteps
  BY TimelyStepOfRoom
<1>3. CASE ~IsOpen(r)
  <2>1. PICK d \in Device, capacity \in 2 .. MaxMembers :
            registry'.rooms[r] = NewRoom(d, capacity)
    BY <1>2, <1>3 DEF TimelyRoomSteps, RoomOpens
  <2> QED BY <2>1, NewRoomTidy
<1>4. CASE IsOpen(r)
  <2>1. RoomChange(r) /\ r \in OpenRooms(registry)
    BY <1>1, <1>2, <1>4 DEF TimelyRoomSteps, OpenRooms, IsOpen
  <2>2. Sound(registry.rooms[r]) /\ Sound(registry'.rooms[r])
    BY <2>1 DEF Inv, RegistrySound
  <2> QED BY <1>1, <2>1, <2>2, TidyMoves
<1> QED BY <1>3, <1>4

\* When every resume is timely, a room keeps nothing of those who left: its
\* peer connections are exactly those between its members, its lease and the
\* control lease name members, and the lease is recovering exactly while the
\* sharer's link is down, deleted accounts included.
THEOREM OnlyMembers == TimelySpec => []OnlyMembersHold
<1> DEFINE AllTidy == \A r \in OpenRooms(registry) : Tidy(registry.rooms[r])
<1>1. Init => Inv /\ AllTidy
  <2>1. Init => AllTidy
    BY DEF Init, EmptyRegistry, OpenRooms
  <2> QED BY <2>1, InitInv
<1>2. Inv /\ AllTidy /\ [TimelyNext]_vars => (Inv /\ AllTidy)'
  <2> SUFFICES ASSUME Inv, AllTidy, [TimelyNext]_vars
               PROVE  Inv' /\ AllTidy'
    OBVIOUS
  <2>1. Inv'
    BY NextInv DEF Next
  <2> QED BY <2>1, TidySteps
<1>3. AllTidy => OnlyMembersHold
  BY DEF OnlyMembersHold, OpenRoomIds, Rooms, Tidy
<1> QED BY <1>1, <1>2, <1>3, PTL DEF TimelySpec

-----------------------------------------------------------------------------
(* Requests that somebody can answer.                                      *)

\* Who waits for an answer of the sharer.
Askers(room) == {room.pendingController, room.switchRequester} \ {None}

\* Whoever asks, and the sharer that is asked, are online.
Answerable(room) ==
    \A asker \in Askers(room) : /\ room.members[asker] = "online"
                                /\ room.members[room.sharer] = "online"

\* Requests stay answerable when none is added and the links of those who
\* take part stay up.
LEMMA KeptAnswerable ==
    ASSUME NEW room, NEW after, Answerable(room),
           Askers(after) \subseteq Askers(room),
           Askers(after) # {} => after.sharer = room.sharer,
           \A e \in Askers(after) :
               /\ room.members[e] = "online" => after.members[e] = "online"
               /\ room.members[room.sharer] = "online" =>
                      after.members[room.sharer] = "online"
    PROVE  Answerable(after)
BY DEF Answerable

\* Requests that end or expire, and control that ends, leave the others.
LEMMA EndsAnswerable ==
    ASSUME NEW room \in Room, Answerable(room)
    PROVE  /\ Answerable(CancelSwitch(room))
           /\ Answerable(CancelControl(room))
           /\ Answerable(RevokeControl(room))
           /\ Answerable(ExpireSwitch(room))
           /\ Answerable(ExpireControl(room))
           /\ Answerable(ResetShare(room))
<1>1. Answerable(CancelSwitch(room))
  BY KeptAnswerable DEF CancelSwitch, Askers, Room
<1>2. Answerable(CancelControl(room))
  BY KeptAnswerable DEF CancelControl, Askers, Room
<1>3. Answerable(RevokeControl(room))
  BY KeptAnswerable DEF RevokeControl, Askers, Room
<1>4. Answerable(ExpireSwitch(room))
  BY KeptAnswerable DEF ExpireSwitch, Askers, Room
<1>5. Answerable(ExpireControl(room))
  BY KeptAnswerable DEF ExpireControl, Askers, Room
<1>6. Askers(ResetShare(room)) = {}
  BY DEF ResetShare, RevokeControl, CancelControl, CancelSwitch, Askers, Room
<1>7. Answerable(ResetShare(room))
  BY <1>6 DEF Answerable
<1> QED BY <1>1, <1>2, <1>3, <1>4, <1>5, <1>7

\* What an eviction leaves of the requests.
LEMMA EvictedAskers ==
    ASSUME NEW room \in Room, NEW S
    PROVE  /\ Evict(room, S).switchRequester \in {room.switchRequester, None}
           /\ \/ Evict(room, S).pendingController = None
              \/ /\ Evict(room, S).pendingController = room.pendingController
                 /\ room.pendingController \notin S
           /\ LeaseHolders(room) \intersect S # {} => Askers(Evict(room, S)) = {}
<1> DEFINE rest == ReleaseLeases(room, S)
           some == IF room.pendingController \in S THEN CancelControl(room)
                                                   ELSE room
           after == Evict(room, S)
<1>1. /\ some \in Room /\ some.switchRequester = room.switchRequester
      /\ some.pendingController = IF room.pendingController \in S THEN None
                                  ELSE room.pendingController
  BY CancelTypes DEF CancelControl, Room
<1>2. rest = IF LeaseHolders(room) \intersect S # {} THEN ResetShare(room)
             ELSE IF room.controller \in S THEN RevokeControl(some) ELSE some
  BY DEF ReleaseLeases
<1> HIDE DEF some, rest
<1>3. /\ RevokeControl(some) \in Room
      /\ RevokeControl(some).switchRequester = some.switchRequester
      /\ RevokeControl(some).pendingController = some.pendingController
  BY <1>1, CancelTypes DEF RevokeControl, Room
<1>4. /\ ResetShare(room) \in Room
      /\ ResetShare(room).switchRequester = None
      /\ ResetShare(room).pendingController = None
  <2>1. ResetShare(room) \in Room
    BY CancelTypes
  <2>2. /\ ResetShare(room).switchRequester = None
        /\ ResetShare(room).pendingController = None
    BY DEF ResetShare, RevokeControl, CancelControl, CancelSwitch, Room
  <2> QED BY <2>1, <2>2
<1>5. rest \in Room
  BY <1>1, <1>2, <1>3, <1>4
<1>6. /\ after.switchRequester = rest.switchRequester
      /\ after.pendingController = rest.pendingController
  BY <1>5 DEF Evict, DropMembers, Room, rest
<1> HIDE DEF after
<1>7. CASE LeaseHolders(room) \intersect S # {}
  <2>1. after.switchRequester = None /\ after.pendingController = None
    BY <1>2, <1>4, <1>6, <1>7
  <2> QED BY <2>1 DEF Askers, after
<1>8. CASE LeaseHolders(room) \intersect S = {}
  <2>1. /\ after.switchRequester = room.switchRequester
        /\ after.pendingController = IF room.pendingController \in S THEN None
                                     ELSE room.pendingController
    BY <1>1, <1>2, <1>3, <1>6, <1>8
  <2> QED BY <1>8, <2>1 DEF after
<1> QED BY <1>7, <1>8

\* Requests stay answerable when members leave, unless one of those asked for
\* the screen: an eviction leaves that request to the other removals.
LEMMA EvictedAnswerable ==
    ASSUME NEW room, NEW S, Sound(room), Answerable(room),
           room.switchRequester \notin S
    PROVE  Answerable(Evict(room, S))
<1> DEFINE after == Evict(room, S)
<1>1. room \in Room
  BY DEF Sound
<1>2. CASE LeaseHolders(room) \intersect S # {}
  BY <1>1, <1>2, EvictedAskers DEF Answerable
<1>3. CASE LeaseHolders(room) \intersect S = {}
  <2>1. LeaseKept(room, after)
    BY <1>3, EvictedLease
  <2>2. Askers(after) \subseteq Askers(room) \ S
    BY <1>1, EvictedAskers DEF Askers
  <2>3. \A e \in Device \ S : after.members[e] = room.members[e]
    BY <1>1, EvictedLinks
  <2> HIDE DEF after
  <2>4. Askers(room) # {} => room.sharer \in Device \ S
    BY <1>3, HoldersOf DEF Sound, ControlShape, Askers, LeaseHolders
  <2>5. Askers(room) \subseteq Device
    BY <1>1 DEF Askers, Room, DeviceOrNone
  <2>6. Answerable(after)
    BY <2>1, <2>2, <2>3, <2>4, <2>5 DEF Answerable, LeaseKept
  <2> QED BY <2>6 DEF after
<1> QED BY <1>2, <1>3

\* Whoever drops out takes its requests along, and those made to it.
LEMMA LinkAnswerable ==
    ASSUME NEW room, NEW d \in Device, Sound(room), Answerable(room)
    PROVE  /\ Answerable(MarkAway(room, d))
           /\ Answerable(ResumeMember(room, d))
           /\ Answerable(Admit(room, d))
           /\ room.members[d] = "away" => Answerable(LapseMember(room, d))
           /\ room.members[d] = "lapsed" => Answerable(EraseMember(room, d))
<1>1. room \in Room
  BY DEF Sound
<1>2. /\ Askers(room) \subseteq Device
      /\ Askers(room) # {} => room.sharer \in Device
  BY <1>1, HoldersOf DEF Askers, Sound, ControlShape, Room, DeviceOrNone
<1>3. ASSUME NEW after, Askers(after) \subseteq Askers(room),
             after.sharer = room.sharer, NEW link,
             after.members = [room.members EXCEPT ![d] = link],
             Askers(after) # {} =>
                 \/ link = "online"
                 \/ room.members[d] # "online"
                 \/ d \notin Askers(after) \union {room.sharer}
      PROVE  Answerable(after)
  <2>1. \A e \in Device : after.members[e] = IF e = d THEN link
                                             ELSE room.members[e]
    BY <1>1, <1>3 DEF Room
  <2> QED BY <1>2, <1>3, <2>1 DEF Answerable
<1>4. Answerable(MarkAway(room, d))
  <2> DEFINE after == MarkAway(room, d)
  <2>1. CASE room.members[d] # "online"
    BY <2>1 DEF MarkAway
  <2>2. CASE room.members[d] = "online"
    <3>1. /\ after.members = [room.members EXCEPT ![d] = "away"]
          /\ after.sharer = room.sharer
      BY <1>1, <2>2 DEF MarkAway, CancelControl, CancelSwitch, Room
    <3>2. /\ after.pendingController =
                 IF \/ room.pendingController = d
                    \/ room.pendingController # None /\ room.sharer = d
                 THEN None ELSE room.pendingController
          /\ after.switchRequester =
                 IF \/ room.switchRequester = d
                    \/ room.switchRequester # None /\ room.sharer = d
                 THEN None ELSE room.switchRequester
      BY <1>1, <2>2 DEF MarkAway, CancelControl, CancelSwitch, Room
    <3> HIDE DEF after
    <3>3. /\ Askers(after) \subseteq Askers(room)
          /\ Askers(after) # {} => d \notin Askers(after) \union {room.sharer}
      BY <3>2 DEF Askers
    <3> QED BY <1>3, <3>1, <3>3 DEF after
  <2> QED BY <2>1, <2>2
<1>5. Answerable(ResumeMember(room, d))
  BY <1>1, <1>3 DEF ResumeMember, Askers, Room
<1>6. Answerable(Admit(room, d))
  BY <1>1, <1>3 DEF Admit, Askers, Room
<1>7. room.members[d] = "away" => Answerable(LapseMember(room, d))
  BY <1>1, <1>3 DEF LapseMember, Askers, Room
<1>8. room.members[d] = "lapsed" => Answerable(EraseMember(room, d))
  BY <1>1, <1>3 DEF EraseMember, Askers, Room
<1> QED BY <1>4, <1>5, <1>6, <1>7, <1>8

\* A device that is online asks for the screen or for control of a sharer that
\* is online; a lease that is granted or taken up leaves no request to answer.
LEMMA GrantAnswerable ==
    ASSUME NEW room, NEW d \in Device, Sound(room), Answerable(room)
    PROVE  /\ /\ room.members[d] = "online"
              /\ room.members[room.sharer] = "online"
              => /\ Answerable(RequestSwitch(room, d))
                 /\ Answerable(RequestControl(room, d))
           /\ room.share # "active" => /\ Answerable(GrantShare(room, d))
                                       /\ Answerable(ActivateShare(room, d))
           /\ Answerable(GrantShare(CancelSwitch(room), d))
           /\ Answerable(GrantControl(room))
<1>1. room \in Room
  BY DEF Sound
<1>2. ASSUME room.members[d] = "online", room.members[room.sharer] = "online"
      PROVE  Answerable(RequestSwitch(room, d)) /\ Answerable(RequestControl(room, d))
  <2>1. Answerable(RequestSwitch(room, d))
    BY <1>1, <1>2 DEF RequestSwitch, Answerable, Askers, Room
  <2>2. Answerable(RequestControl(room, d))
    BY <1>1, <1>2 DEF RequestControl, Answerable, Askers, Room
  <2> QED BY <2>1, <2>2
<1>3. \A s \in Room :
          /\ GrantShare(s, d).pendingController = None
          /\ GrantShare(s, d).switchRequester = s.switchRequester
  BY DEF GrantShare, RevokeControl, CancelControl, Room
<1>4. ASSUME room.share # "active"
      PROVE  Answerable(GrantShare(room, d)) /\ Answerable(ActivateShare(room, d))
  <2>1. room.pendingController = None /\ room.switchRequester = None
    BY <1>4 DEF Sound, ControlShape
  <2>2. Askers(GrantShare(room, d)) = {}
    BY <1>1, <1>3, <2>1 DEF Askers
  <2>3. Askers(ActivateShare(room, d)) = {}
    BY <1>1, <2>1 DEF Askers, ActivateShare, Room
  <2> QED BY <2>2, <2>3 DEF Answerable
<1>5. Answerable(GrantShare(CancelSwitch(room), d))
  <2>1. CancelSwitch(room) \in Room /\ CancelSwitch(room).switchRequester = None
    BY <1>1, CancelTypes DEF CancelSwitch, Room
  <2>2. Askers(GrantShare(CancelSwitch(room), d)) = {}
    BY <1>3, <2>1 DEF Askers
  <2> QED BY <2>2 DEF Answerable
<1>6. Answerable(GrantControl(room))
  <2>1. /\ GrantControl(room).pendingController = None
        /\ GrantControl(room).switchRequester = room.switchRequester
        /\ GrantControl(room).sharer = room.sharer
        /\ GrantControl(room).members = room.members
    BY <1>1 DEF GrantControl, CancelControl, Room
  <2> QED BY <2>1 DEF Answerable, Askers
<1> QED BY <1>2, <1>4, <1>5, <1>6

\* Requests stay answerable through a sweep, late members included.
LEMMA SweptAnswerable ==
    ASSUME NEW room, Sound(room), Answerable(room)
    PROVE  Answerable(SweepRoom(room))
<1> DEFINE some == SweepSwitch(room)
           rest == SweepControl(some)
           gone == Lapsed(rest) \ {rest.owner}
<1>1. room \in Room
  BY DEF Sound
<1>2. Sound(some) /\ Answerable(some)
  BY <1>1, CancelSound, EndsAnswerable DEF SweepSwitch, Refits
<1> HIDE DEF some
<1>3. some \in Room
  BY <1>2 DEF Sound
<1>4. Sound(rest) /\ Answerable(rest)
  BY <1>2, <1>3, CancelSound, EndsAnswerable DEF SweepControl, Refits
<1>5. SweepRoom(room) = SweepMembers(rest)
  BY DEF SweepRoom, some
<1> HIDE DEF rest
<1>6. rest.switchRequester \notin gone
  BY <1>4, DeviceAssumption DEF Answerable, Askers, Lapsed
<1>7. SweepMembers(rest) = rest \/ SweepMembers(rest) = Evict(rest, gone)
  BY DEF SweepMembers
<1> QED BY <1>4, <1>5, <1>6, <1>7, EvictedAnswerable

\* While no account is deleted, every change of a room leaves its requests
\* answerable.
LEMMA AnswerableMoves ==
    ASSUME ~AccountDeletion,
           NEW r \in RoomId, NEW room, room = registry.rooms[r],
           NEW after, after = registry'.rooms[r],
           Sound(room), Answerable(room), RoomChange(r) \/ LateErasure(r)
    PROVE  Answerable(after)
<1>1. room \in Room
  BY DEF Sound
<1>2. CASE \E capacity \in 2 .. MaxMembers :
              after = [room EXCEPT !.capacity = capacity]
  BY <1>1, <1>2, KeptAnswerable DEF Askers, Room
<1>3. CASE MemberChange(r, room, after)
  <2>1. PICK d \in Device :
            \/ after = MarkAway(room, d)
            \/ after = EvictMember(room, d) /\ d \in Absent(room)
            \/ after = LeaveRoom(room, d)
            \/ after = ResumeMember(room, d)
            \/ after = Admit(room, d)
            \/ after = LapseMember(room, d) /\ room.members[d] = "away"
    BY <1>3 DEF MemberChange, DeleteAccount
  <2>2. CASE after = EvictMember(room, d) /\ d \in Absent(room)
    <3>1. room.switchRequester \notin {d}
      BY <2>2, DeviceAssumption DEF Answerable, Askers, Absent
    <3> QED BY <2>2, <3>1, EvictedAnswerable DEF EvictMember
  <2>3. CASE after = LeaveRoom(room, d)
    <3>1. CASE room.switchRequester # d
      BY <2>3, <3>1, EvictedAnswerable DEF LeaveRoom, EvictMember
    <3>2. CASE room.switchRequester = d
      <4>1. d \notin LeaseHolders(room)
        BY <1>1, <3>2, HoldersOf, DeviceAssumption DEF Sound, ControlShape
      <4>2. after = Evict(CancelSwitch(room), {d})
        BY <2>3, <3>2, <4>1 DEF LeaveRoom, EvictMember
      <4>3. /\ Sound(CancelSwitch(room)) /\ Answerable(CancelSwitch(room))
            /\ CancelSwitch(room).switchRequester = None
        BY <1>1, CancelSound, EndsAnswerable DEF Refits, CancelSwitch, Room
      <4> QED BY <4>2, <4>3, EvictedAnswerable, DeviceAssumption
    <3> QED BY <3>1, <3>2
  <2> QED BY <2>1, <2>2, <2>3, LinkAnswerable
<1>4. CASE LeaseRequest(r, room, after)
  <2>1. PICK d \in Device :
            \/ /\ after = RequestSwitch(room, d) \/ after = RequestControl(room, d)
               /\ room.members[d] = "online"
               /\ room.members[room.sharer] = "online"
            \/ /\ after = GrantShare(room, d) \/ after = ActivateShare(room, d)
               /\ room.share # "active"
            \/ after = GrantShare(CancelSwitch(room), d)
            \/ after = GrantControl(room)
    BY <1>4 DEF LeaseRequest
  <2> QED BY <2>1, GrantAnswerable
<1>5. CASE LeaseEnd(r, room, after)
  BY <1>1, <1>5, EndsAnswerable DEF LeaseEnd
<1>6. CASE after = SweepRoom(room)
  BY <1>6, SweptAnswerable
<1>7. CASE LateErasure(r)
  BY <1>7, LinkAnswerable DEF LateErasure
<1> QED BY <1>2, <1>3, <1>4, <1>5, <1>6, <1>7 DEF RoomChange

-----------------------------------------------------------------------------
(* Whoever counts as online has a socket.                                  *)

\* Without account deletion the server knows a socket or none.
NoOrphans == conn \in [Device -> {"offline", "registered"}]

MembersConnected ==
    \A r \in OpenRooms(registry), d \in Device :
        registry.rooms[r].members[d] = "online" => Registered(d)

EndsConnected ==
    \A k \in OpenSessions(directory) : \A d \in Ends(directory, k) :
        SideOf(directory, k, d) = "online" => Registered(d)

JoinersConnected == \A d \in registry.pendingJoins : Registered(d)

RequestsHeld == \A r \in OpenRooms(registry) : Answerable(registry.rooms[r])

\* The socket of a device goes only when it closes or the server stops.
LEMMA SocketSteps ==
    ASSUME ~AccountDeletion, NoOrphans, [Next]_vars
    PROVE  /\ NoOrphans'
           /\ \A d \in Device :
                 Registered(d) => Registered(d)' \/ Disconnect(d) \/ Stop
<1>1. CASE UNCHANGED conn
  BY <1>1 DEF NoOrphans, Registered
<1>2. CASE Connections
  <2>1. PICK d \in Device : Register(d) \/ Disconnect(d)
    BY <1>2 DEF Connections, DeleteAccount, OrphanCloses, NoOrphans
  <2>2. CASE Register(d)
    <3>1. conn' = conn \/ conn' = [conn EXCEPT ![d] = "registered"]
      BY <2>2 DEF Register
    <3> QED BY <3>1 DEF NoOrphans, Registered
  <2>3. CASE Disconnect(d)
    <3>1. conn' = [conn EXCEPT ![d] = "offline"]
      BY <2>3 DEF Disconnect
    <3> QED BY <2>3, <3>1 DEF NoOrphans, Registered
  <2> QED BY <2>1, <2>2, <2>3
<1>3. CASE Stop
  <2>1. conn' = [d \in Device |-> CASE Registered(d)         -> "offline"
                                    [] conn[d] = "orphaned"  -> "gone"
                                    [] OTHER                 -> conn[d]]
    BY <1>3 DEF Stop
  <2>2. ASSUME NEW d \in Device
        PROVE  conn'[d] = "offline"
    <3>1. conn[d] = "offline" \/ conn[d] = "registered"
      BY DEF NoOrphans
    <3>2. CASE conn[d] = "offline"
      BY <2>1, <3>2 DEF Registered
    <3>3. CASE conn[d] = "registered"
      BY <2>1, <3>3 DEF Registered
    <3> QED BY <3>1, <3>2, <3>3
  <2>3. conn' \in [Device -> {"offline"}]
    BY <2>1, <2>2
  <2> QED BY <1>3, <2>3 DEF NoOrphans
<1>4. Membership => UNCHANGED conn
  <2>1. \A d \in Device, r \in RoomId : \A c :
            HandleRoomCreate(d, r, c) => UNCHANGED conn
    BY DEF HandleRoomCreate
  <2>2. \A d \in Device, r \in RoomId : \A c :
            HandleRoomSetCapacity(d, r, c) => UNCHANGED conn
    BY DEF HandleRoomSetCapacity
  <2>3. \A d \in Device, r \in RoomId : \A j \in Device, accepted \in BOOLEAN :
            HandleRoomJoinResponse(d, r, j, accepted) => UNCHANGED conn
    BY DEF HandleRoomJoinResponse
  <2>4. \A d \in Device, r \in RoomId :
            HandleRoomJoinRequest(d, r) => UNCHANGED conn
    BY DEF HandleRoomJoinRequest
  <2>5. \A d \in Device, r \in RoomId :
            HandleRoomLeave(d, r) \/ ResumeInTime(d, r) => UNCHANGED conn
    BY DEF HandleRoomLeave, ResumeInTime
  <2> QED BY <2>1, <2>2, <2>3, <2>4, <2>5 DEF Membership
<1>5. Sharing => UNCHANGED conn
  BY DEF Sharing, HandleRoomScreenShareRequest, HandleRoomScreenShareReady,
         HandleRoomScreenShareStop, HandleRoomScreenShareSwitchResponse,
         HandleRoomScreenShareSwitchCancel
<1>6. Control => UNCHANGED conn
  BY DEF Control, HandleRoomControlRequest, HandleRoomControlResponse,
         HandleRoomControlRelease
<1>7. SessionHandlers => UNCHANGED conn
  BY DEF SessionHandlers, HandleSessionRequest, HandleSessionResponse,
         HandleSessionResume, CloseSession
<1>8. RoomTime \/ SessionTime \/ Sweep => UNCHANGED conn
  BY DEF RoomTime, MemberLapses, JoinExpires, SwitchExpires, ControlExpires,
         SessionTime, PendingExpires, SideLapses, Sweep
<1>9. \A d \in Device, r \in RoomId : ResumeLate(d, r) => UNCHANGED conn
  BY DEF ResumeLate
<1> QED BY <1>1, <1>2, <1>3, <1>4, <1>5, <1>6, <1>7, <1>8, <1>9
           DEF Next, TimelyNext, vars

\* A lost socket leaves the device online in no room, and waiting for none.
LEMMA DisconnectedMember ==
    ASSUME NEW reg, RegistrySound(reg), NEW d \in Device
    PROVE  /\ \A r \in RoomId :
                 MarkDisconnected(reg, d).rooms[r] # None =>
                     MarkDisconnected(reg, d).rooms[r].members[d] # "online"
           /\ MarkDisconnected(reg, d).pendingJoins = reg.pendingJoins \ {d}
<1> DEFINE rest == CancelPendingJoin(reg, d)
           s == reg.deviceRooms[d]
           after == MarkDisconnected(reg, d)
<1>1. reg \in Registry /\ reg.pendingJoins \subseteq Device
  BY DEF RegistrySound, Registry
<1>2. /\ rest \in Registry
      /\ rest.rooms = reg.rooms /\ rest.deviceRooms = reg.deviceRooms
      /\ rest.pendingJoins = reg.pendingJoins \ {d}
  <2>1. {d} \intersect reg.pendingJoins \in SUBSET Device
    OBVIOUS
  <2>2. /\ RegistrySound(rest)
        /\ rest.rooms = reg.rooms /\ rest.deviceRooms = reg.deviceRooms
        /\ rest.pendingJoins = reg.pendingJoins \ ({d} \intersect reg.pendingJoins)
    BY <2>1, DropJoinsSound DEF CancelPendingJoin
  <2> QED BY <2>2 DEF RegistrySound
<1>3. after = IF s = None THEN rest ELSE IF rest.rooms[s] = None THEN rest
              ELSE UpdateRoom(rest, s, MarkAway(rest.rooms[s], d))
  BY <1>2 DEF MarkDisconnected, UpdateRoom
<1> HIDE DEF rest, after
<1>4. /\ UpdateRoom(rest, s, MarkAway(rest.rooms[s], d)).rooms =
             [rest.rooms EXCEPT ![s] = MarkAway(rest.rooms[s], d)]
      /\ UpdateRoom(rest, s, MarkAway(rest.rooms[s], d)).pendingJoins =
             rest.pendingJoins
  BY <1>2 DEF UpdateRoom, Registry
<1>5. after.pendingJoins = reg.pendingJoins \ {d}
  BY <1>2, <1>3, <1>4
<1>6. ASSUME NEW r \in RoomId, after.rooms[r] # None
      PROVE  after.rooms[r].members[d] # "online"
  <2>1. rest.rooms \in [RoomId -> Room \union {None}]
    BY <1>2 DEF Registry
  <2>2. CASE s = r
    <3>1. s # None
      BY <2>2, RoomIdAssumption
    <3>2. reg.rooms[r] # None
      BY <1>2, <1>3, <1>6, <2>2, <3>1
    <3>3. after.rooms[r] = MarkAway(reg.rooms[r], d)
      BY <1>2, <1>3, <1>4, <2>1, <2>2, <3>1, <3>2
    <3>4. reg.rooms[r] \in Room
      BY <1>1, <3>2, OpenRoomType
    <3>5. MarkAway(reg.rooms[r], d).members[d] # "online"
      BY <3>4 DEF MarkAway, CancelControl, CancelSwitch, Room
    <3> QED BY <3>3, <3>5
  <2>3. CASE s # r
    <3>1. after.rooms[r] = reg.rooms[r]
      BY <1>2, <1>3, <1>4, <2>1, <2>3
    <3>2. r \in OpenRooms(reg) /\ d \notin Members(reg.rooms[r])
      BY <1>6, <2>3, <3>1 DEF OpenRooms, RegistrySound, RoomIndexOf
    <3> QED BY <3>1, <3>2 DEF Members
  <2> QED BY <2>2, <2>3
<1> QED BY <1>5, <1>6 DEF after

\* Whoever is online in a room after a step had a socket before it.
LEMMA MemberSteps ==
    ASSUME ~AccountDeletion, Inv, [Next]_vars, NoOrphans, MembersConnected
    PROVE  MembersConnected'
<1> SUFFICES ASSUME NEW r \in OpenRooms(registry'), NEW d \in Device,
                    registry'.rooms[r].members[d] = "online"
             PROVE  Registered(d)'
  BY DEF MembersConnected
<1>1. r \in RoomId /\ registry'.rooms[r] # None
  BY DEF OpenRooms
<1>2. RoomSteps
  BY StepOfRoom
<1>3. Sender(d) => Registered(d)
  BY DEF NoOrphans, Sender, Registered
<1>4. CASE ~IsOpen(r)
  <2>1. PICK e \in Device, capacity \in 2 .. MaxMembers :
            /\ HandleRoomCreate(e, r, capacity)
            /\ registry'.rooms[r] = NewRoom(e, capacity)
    BY <1>2, <1>4 DEF RoomSteps, RoomOpens
  <2>2. d = e
    BY <2>1 DEF NewRoom
  <2> QED BY <1>3, <2>1, <2>2 DEF HandleRoomCreate, Registered
<1>5. CASE IsOpen(r)
  <2>1. LinkMove(r, registry.rooms[r], registry'.rooms[r], d)
    BY <1>1, <1>5, LinkSteps DEF Persists, IsOpen, Rooms
  <2>2. registry.rooms[r].members[d] = "online" => Registered(d)
    BY <1>1, <1>5 DEF MembersConnected, OpenRooms, IsOpen
  <2>3. Registered(d)
    BY <1>3, <2>1, <2>2 DEF LinkMove
  <2>4. ~Stop
    BY <1>1 DEF Stop, EmptyRegistry
  <2>5. ~Disconnect(d)
    <3>1. RegistrySound(registry)
      BY DEF Inv
    <3> QED BY <1>1, <3>1, DisconnectedMember DEF Disconnect
  <2> QED BY <2>3, <2>4, <2>5, SocketSteps
<1> QED BY <1>4, <1>5

\* Whoever gives up a place gets no join request.
LEMMA FreshJoins ==
    ASSUME NEW reg, RegistrySound(reg), NEW d \in Device
    PROVE  FreshStart(reg, d).pendingJoins \subseteq reg.pendingJoins
<1> DEFINE s == reg.deviceRooms[d]
<1>1. reg \in Registry
  BY DEF RegistrySound
<1>2. CASE /\ s # None
           /\ reg.rooms[s] # None
           /\ d \in Absent(reg.rooms[s])
  <2>1. FreshStart(reg, d) = RemoveOrClose(reg, s, d)
    BY <1>2 DEF FreshStart
  <2>2. CloseRooms(reg, {s}).pendingJoins \subseteq reg.pendingJoins
    BY <1>1 DEF CloseRooms, DropJoins, Registry
  <2>3. RemoveMember(reg, s, EvictMember(reg.rooms[s], d), d).pendingJoins =
            reg.pendingJoins
    BY <1>1 DEF RemoveMember, Registry
  <2> QED BY <2>1, <2>2, <2>3 DEF RemoveOrClose
<1>3. CASE s # None /\ reg.rooms[s] = None
  BY <1>1, <1>3 DEF FreshStart, Registry
<1>4. CASE ~(/\ s # None
             /\ reg.rooms[s] # None
             /\ d \in Absent(reg.rooms[s]))
      /\ ~(s # None /\ reg.rooms[s] = None)
  BY <1>4 DEF FreshStart
<1> QED BY <1>2, <1>3, <1>4

\* A join request is added by its requester alone.
LEMMA JoinSteps ==
    ASSUME ~AccountDeletion, Inv, [Next]_vars
    PROVE  \A d \in registry'.pendingJoins :
               d \in registry.pendingJoins \/ Sender(d)
<1>1. registry \in Registry /\ RegistrySound(registry)
  BY DEF Inv, TypeOK
<1>2. \A r \in RoomId : \A room :
          UpdateRoom(registry, r, room).pendingJoins = registry.pendingJoins
  BY <1>1 DEF UpdateRoom, Registry
<1>3. \A R : CloseRooms(registry, R).pendingJoins \subseteq registry.pendingJoins
  BY <1>1 DEF CloseRooms, DropJoins, Registry
<1>4. \A r \in RoomId, d \in Device : \A room :
          RemoveMember(registry, r, room, d).pendingJoins = registry.pendingJoins
  BY <1>1 DEF RemoveMember, Registry
<1>5. ASSUME registry'.pendingJoins \subseteq registry.pendingJoins
      PROVE  \A d \in registry'.pendingJoins :
                 d \in registry.pendingJoins \/ Sender(d)
  BY <1>5
<1>6. CASE Connections
  <2>1. PICK d \in Device : Register(d) \/ Disconnect(d) \/ OrphanCloses(d)
    BY <1>6 DEF Connections, DeleteAccount
  <2>2. MarkDisconnected(registry, d).pendingJoins \subseteq registry.pendingJoins
    BY <1>1, DisconnectedMember
  <2> QED BY <1>5, <2>1, <2>2 DEF Register, Disconnect, OrphanCloses
<1>7. ASSUME NEW d \in Device, NEW r \in RoomId, NEW capacity,
             HandleRoomCreate(d, r, capacity)
      PROVE  registry'.pendingJoins \subseteq registry.pendingJoins
  <2> DEFINE fresh == FreshStart(registry, d)
  <2>1. fresh \in Registry /\ fresh.pendingJoins \subseteq registry.pendingJoins
    BY <1>1, FreshJoins, LeavingTypes
  <2>2. registry' = fresh \/ registry' = AddRoom(fresh, r, d, capacity)
    BY <1>7 DEF HandleRoomCreate
  <2> HIDE DEF fresh
  <2>3. AddRoom(fresh, r, d, capacity).pendingJoins = fresh.pendingJoins
    BY <2>1 DEF AddRoom, Registry
  <2> QED BY <2>1, <2>2, <2>3
<1>8. ASSUME NEW d \in Device, NEW r \in RoomId, HandleRoomJoinRequest(d, r)
      PROVE  \A e \in registry'.pendingJoins :
                 e \in registry.pendingJoins \/ Sender(e)
  <2> DEFINE fresh == FreshStart(registry, d)
  <2>1. fresh \in Registry /\ fresh.pendingJoins \subseteq registry.pendingJoins
    BY <1>1, FreshJoins, LeavingTypes
  <2>2. /\ Sender(d)
        /\ \/ registry' = fresh
           \/ registry' = InsertJoin(fresh, d, r)
           \/ registry' = [fresh EXCEPT !.pendingJoins = @ \ {d}]
    BY <1>8 DEF HandleRoomJoinRequest
  <2> HIDE DEF fresh
  <2>3. InsertJoin(fresh, d, r).pendingJoins = fresh.pendingJoins \union {d}
    BY <2>1 DEF InsertJoin, Registry
  <2>4. [fresh EXCEPT !.pendingJoins = @ \ {d}].pendingJoins \subseteq
            fresh.pendingJoins
    BY <2>1 DEF Registry
  <2> QED BY <2>1, <2>2, <2>3, <2>4
<1>9. ASSUME NEW o \in Device, NEW r \in RoomId, NEW d \in Device,
             NEW accepted \in BOOLEAN,
             HandleRoomJoinResponse(o, r, d, accepted)
      PROVE  registry'.pendingJoins \subseteq registry.pendingJoins
  <2> DEFINE rest == DropJoins(registry, {d})
  <2>1. rest \in Registry /\ rest.pendingJoins = registry.pendingJoins \ {d}
    BY <1>1, DropJoinsSound DEF RegistrySound
  <2>2. registry' = rest \/ registry' = AdmitMember(rest, r, d)
    BY <1>9 DEF HandleRoomJoinResponse
  <2> HIDE DEF rest
  <2>3. AdmitMember(rest, r, d).pendingJoins = rest.pendingJoins
    BY <2>1 DEF AdmitMember, Registry
  <2> QED BY <2>1, <2>2, <2>3
<1>10. ASSUME NEW d \in Device, NEW r \in RoomId,
              \/ \E capacity : HandleRoomSetCapacity(d, r, capacity)
              \/ HandleRoomLeave(d, r)
              \/ ResumeInTime(d, r)
              \/ ResumeLate(d, r)
       PROVE  registry'.pendingJoins \subseteq registry.pendingJoins
  <2>1. \A capacity : HandleRoomSetCapacity(d, r, capacity) =>
            registry'.pendingJoins = registry.pendingJoins
    BY <1>1 DEF HandleRoomSetCapacity, Registry
  <2>2. HandleRoomLeave(d, r) =>
            registry'.pendingJoins \subseteq registry.pendingJoins
    BY <1>3, <1>4 DEF HandleRoomLeave
  <2>3. ResumeInTime(d, r) => registry'.pendingJoins = registry.pendingJoins
    BY <1>2 DEF ResumeInTime
  <2>4. ResumeLate(d, r) =>
            registry'.pendingJoins \subseteq registry.pendingJoins
    BY <1>3, <1>4 DEF ResumeLate
  <2> QED BY <1>10, <2>1, <2>2, <2>3, <2>4
<1>11. Sharing => registry'.pendingJoins = registry.pendingJoins
  BY <1>2 DEF Sharing, HandleRoomScreenShareRequest,
         HandleRoomScreenShareReady, HandleRoomScreenShareStop,
         HandleRoomScreenShareSwitchResponse, HandleRoomScreenShareSwitchCancel
<1>12. Control => registry'.pendingJoins = registry.pendingJoins
  BY <1>2 DEF Control, HandleRoomControlRequest, HandleRoomControlResponse,
         HandleRoomControlRelease
<1>13. RoomTime => registry'.pendingJoins = registry.pendingJoins
  <2>1. \A d \in Device : ExpireJoin(registry, d).pendingJoins =
                              registry.pendingJoins
    BY <1>1 DEF ExpireJoin, Registry
  <2> QED BY <1>2, <2>1
          DEF RoomTime, MemberLapses, JoinExpires, SwitchExpires, ControlExpires
<1>14. CASE Sweep
  <2> DEFINE s == SweepJoins(registry)
  <2>1. RegistrySound(s) /\ s.pendingJoins \subseteq registry.pendingJoins
    BY <1>1, DropJoinsSound DEF SweepJoins
  <2>2. registry' = SweepRooms(s)
    BY <1>14 DEF Sweep, SweepRegistry
  <2>3. s \in Registry
    BY <2>1 DEF RegistrySound
  <2> HIDE DEF s
  <2>4. SweepRooms(s).pendingJoins \subseteq s.pendingJoins
    BY <2>3 DEF SweepRooms, CloseRooms, DropJoins, Registry
  <2> QED BY <2>1, <2>2, <2>4
<1>15. CASE Stop
  BY <1>15 DEF Stop, EmptyRegistry
<1>16. CASE SessionHandlers \/ SessionTime \/ UNCHANGED vars
  BY <1>16 DEF SessionHandlers, HandleSessionRequest, HandleSessionResponse,
         HandleSessionResume, CloseSession, SessionTime, PendingExpires,
         SideLapses, vars
<1>17. CASE Membership
  BY <1>5, <1>7, <1>8, <1>9, <1>10, <1>17 DEF Membership
<1> QED BY <1>5, <1>6, <1>10, <1>11, <1>12, <1>13, <1>14, <1>15, <1>16, <1>17
        DEF Next, TimelyNext

\* Session by session, what is left of a directory: the same ends, and only the
\* devices of S have come online.
SidesKept(dir, after, S) ==
    \A k \in OpenSessions(after) :
        /\ k \in OpenSessions(dir)
        /\ after.sessions[k].target = dir.sessions[k].target
        /\ \A d \in Ends(after, k) :
              SideOf(after, k, d) = "online" =>
                  SideOf(dir, k, d) = "online" \/ d \in S

\* Sessions that end leave the others alone.
LEMMA RemovedSides ==
    ASSUME NEW dir \in Directory, NEW K
    PROVE  /\ SidesKept(dir, RemoveSessions(dir, K), {})
           /\ \A k \in OpenSessions(RemoveSessions(dir, K)) :
                 /\ k \in OpenSessions(dir) \ K
                 /\ RemoveSessions(dir, K).sessions[k] = dir.sessions[k]
<1> DEFINE after == RemoveSessions(dir, K)
<1>1. after.sessions = [k \in Device |-> IF k \in K THEN None ELSE dir.sessions[k]]
  BY DEF RemoveSessions, Directory
<1> HIDE DEF after
<1>2. \A k \in OpenSessions(after) : /\ k \in OpenSessions(dir) \ K
                                     /\ after.sessions[k] = dir.sessions[k]
  BY <1>1 DEF OpenSessions
<1>3. SidesKept(dir, after, {})
  BY <1>2 DEF SidesKept, SideOf
<1> QED BY <1>2, <1>3 DEF after

\* A session that changes in place keeps its ends; only a resume brings a side
\* back.
LEMMA ChangedSides ==
    ASSUME NEW dir \in Directory, NEW k \in OpenSessions(dir)
    PROVE  /\ SidesKept(dir, ActivateSession(dir, k), {})
           /\ SidesKept(dir, ExpirePending(dir, k), {})
           /\ \A d \in Ends(dir, k) :
                 /\ SidesKept(dir, SetSide(dir, k, d, "online"), {d})
                 /\ SidesKept(dir, SetSide(dir, k, d, "lapsed"), {})
<1>1. /\ k \in Device /\ dir.sessions \in [Device -> Session \union {None}]
      /\ dir.sessions[k] \in Session
  BY DEF OpenSessions, Directory
<1>2. ASSUME NEW after, NEW session \in Session, NEW S,
             after.sessions = [dir.sessions EXCEPT ![k] = session],
             session.target = dir.sessions[k].target,
             session.requesterLink = "online" =>
                 dir.sessions[k].requesterLink = "online" \/ k \in S,
             session.targetLink = "online" =>
                 \/ dir.sessions[k].targetLink = "online"
                 \/ dir.sessions[k].target \in S \/ dir.sessions[k].target = k
      PROVE  SidesKept(dir, after, S)
  <2> SUFFICES ASSUME NEW j \in OpenSessions(after)
               PROVE  /\ j \in OpenSessions(dir)
                      /\ after.sessions[j].target = dir.sessions[j].target
                      /\ \A d \in Ends(after, j) :
                            SideOf(after, j, d) = "online" =>
                                SideOf(dir, j, d) = "online" \/ d \in S
    BY DEF SidesKept
  <2>1. CASE j # k
    <3>1. after.sessions[j] = dir.sessions[j] /\ j \in OpenSessions(dir)
      BY <1>1, <1>2, <2>1 DEF OpenSessions
    <3> QED BY <3>1 DEF SideOf
  <2>2. CASE j = k
    <3>1. after.sessions[j] = session
      BY <1>1, <1>2, <2>2
    <3> QED BY <1>2, <2>2, <3>1 DEF SideOf, Ends
  <2> QED BY <2>1, <2>2
<1>3. SidesKept(dir, ActivateSession(dir, k), {})
  <2> DEFINE session == [dir.sessions[k] EXCEPT !.phase = "active"]
  <2>1. ActivateSession(dir, k).sessions = [dir.sessions EXCEPT ![k] = session]
    BY <1>1 DEF ActivateSession, Directory
  <2>2. /\ session \in Session /\ session.target = dir.sessions[k].target
        /\ session.requesterLink = dir.sessions[k].requesterLink
        /\ session.targetLink = dir.sessions[k].targetLink
    BY <1>1 DEF Session, Phase
  <2> HIDE DEF session
  <2> QED BY <1>2, <2>1, <2>2
<1>4. SidesKept(dir, ExpirePending(dir, k), {})
  <2> DEFINE session == [dir.sessions[k] EXCEPT !.phase = "expired"]
  <2>1. ExpirePending(dir, k).sessions = [dir.sessions EXCEPT ![k] = session]
    BY <1>1 DEF ExpirePending, Directory
  <2>2. /\ session \in Session /\ session.target = dir.sessions[k].target
        /\ session.requesterLink = dir.sessions[k].requesterLink
        /\ session.targetLink = dir.sessions[k].targetLink
    BY <1>1 DEF Session, Phase
  <2> HIDE DEF session
  <2> QED BY <1>2, <2>1, <2>2
<1>5. ASSUME NEW d \in Ends(dir, k), NEW link \in SideLink, NEW S,
             link = "online" => d \in S
      PROVE  SidesKept(dir, SetSide(dir, k, d, link), S)
  <2>1. CASE k = d
    <3> DEFINE session == [dir.sessions[k] EXCEPT !.requesterLink = link]
    <3>1. SetSide(dir, k, d, link).sessions = [dir.sessions EXCEPT ![k] = session]
      BY <1>1, <2>1 DEF SetSide, Directory
    <3>2. /\ session \in Session /\ session.target = dir.sessions[k].target
          /\ session.requesterLink = link
          /\ session.targetLink = dir.sessions[k].targetLink
      BY <1>1 DEF Session
    <3> HIDE DEF session
    <3> QED BY <1>2, <1>5, <2>1, <3>1, <3>2
  <2>2. CASE k # d
    <3> DEFINE session == [dir.sessions[k] EXCEPT !.targetLink = link]
    <3>1. SetSide(dir, k, d, link).sessions = [dir.sessions EXCEPT ![k] = session]
      BY <1>1, <2>2 DEF SetSide, Directory
    <3>2. /\ session \in Session /\ session.target = dir.sessions[k].target
          /\ session.requesterLink = dir.sessions[k].requesterLink
          /\ session.targetLink = link
      BY <1>1 DEF Session
    <3>3. d = dir.sessions[k].target
      BY <2>2 DEF Ends
    <3> HIDE DEF session
    <3> QED BY <1>2, <1>5, <3>1, <3>2, <3>3
  <2> QED BY <2>1, <2>2
<1> QED BY <1>3, <1>4, <1>5 DEF SideLink

\* A lost socket suspends the side of its device in an active session and ends
\* the others.
LEMMA SuspendedSides ==
    ASSUME NEW dir \in Directory, NEW d \in Device
    PROVE  /\ SidesKept(dir, Suspend(dir, d), {})
           /\ \A k \in OpenSessions(Suspend(dir, d)) :
                 d \in Ends(Suspend(dir, d), k) =>
                     SideOf(Suspend(dir, d), k, d) # "online"
<1> DEFINE mine  == SessionsOf(dir, d)
           ended == {k \in mine : dir.sessions[k].phase # "active"}
           held  == [dir EXCEPT !.sessions = [k \in Device |->
                        IF k \in mine \ ended THEN SuspendedSide(dir, k, d)
                                              ELSE @[k]]]
           after == Suspend(dir, d)
<1>1. after = RemoveSessions(held, ended)
  BY DEF Suspend
<1>2. /\ held.sessions = [k \in Device |->
                            IF k \in mine \ ended THEN SuspendedSide(dir, k, d)
                                                  ELSE dir.sessions[k]]
      /\ held.deviceSessions = dir.deviceSessions
  BY DEF Directory
<1>3. ASSUME NEW k \in mine
      PROVE  LET session == SuspendedSide(dir, k, d)
             IN /\ session \in Session
                /\ session.target = dir.sessions[k].target
                /\ IF k = d
                   THEN /\ session.requesterLink # "online"
                        /\ session.targetLink = dir.sessions[k].targetLink
                   ELSE /\ session.targetLink # "online"
                        /\ session.requesterLink = dir.sessions[k].requesterLink
  <2>1. dir.sessions[k] \in Session
    BY DEF SessionsOf, OpenSessions, Directory
  <2>2. \A link \in SideLink : LinkLost(link) \in SideLink \ {"online"}
    BY DEF LinkLost, SideLink
  <2>3. CASE k = d
    <3>1. SuspendedSide(dir, k, d) = [dir.sessions[k] EXCEPT
              !.requesterLink = LinkLost(dir.sessions[k].requesterLink)]
      BY <2>3 DEF SuspendedSide
    <3> QED BY <2>1, <2>2, <2>3, <3>1 DEF Session
  <2>4. CASE k # d
    <3>1. SuspendedSide(dir, k, d) = [dir.sessions[k] EXCEPT
              !.targetLink = LinkLost(dir.sessions[k].targetLink)]
      BY <2>4 DEF SuspendedSide
    <3> QED BY <2>1, <2>2, <2>4, <3>1 DEF Session
  <2> QED BY <2>3, <2>4
<1>4. held \in Directory
  <2>1. held.sessions \in [Device -> Session \union {None}]
    BY <1>2, <1>3 DEF Directory
  <2>2. held = [sessions |-> held.sessions, deviceSessions |-> dir.deviceSessions]
    BY DEF Directory
  <2> HIDE DEF held
  <2> QED BY <2>1, <2>2 DEF Directory
<1> HIDE DEF held, after
<1>5. \A k \in OpenSessions(after) : /\ k \in OpenSessions(held) \ ended
                                     /\ after.sessions[k] = held.sessions[k]
  BY <1>1, <1>4, RemovedSides
<1>6. ASSUME NEW k \in OpenSessions(after)
      PROVE  /\ k \in OpenSessions(dir)
             /\ after.sessions[k].target = dir.sessions[k].target
             /\ \A e \in Ends(after, k) : SideOf(after, k, e) = "online" =>
                                              SideOf(dir, k, e) = "online"
             /\ d \in Ends(after, k) => SideOf(after, k, d) # "online"
  <2>1. k \in Device /\ k \notin ended
    BY <1>5 DEF OpenSessions
  <2>2. CASE k \in mine
    <3>1. after.sessions[k] = SuspendedSide(dir, k, d) /\ k \in OpenSessions(dir)
      BY <1>2, <1>5, <2>1, <2>2 DEF SessionsOf
    <3> QED BY <1>3, <2>2, <3>1 DEF SideOf, Ends
  <2>3. CASE k \notin mine
    <3>1. after.sessions[k] = dir.sessions[k] /\ k \in OpenSessions(dir)
      BY <1>2, <1>5, <2>1, <2>3 DEF OpenSessions
    <3>2. d \notin Ends(after, k)
      BY <2>3, <3>1 DEF SessionsOf, Ends
    <3> QED BY <3>1, <3>2 DEF SideOf
  <2> QED BY <2>2, <2>3
<1> QED BY <1>6 DEF SidesKept, after

\* The maintenance pass only ends sessions.
LEMMA SweptSides ==
    ASSUME NEW dir \in Directory
    PROVE  SidesKept(dir, SweepDirectory(dir), {})
<1> DEFINE some == SweepPendingSessions(dir)
<1>1. PICK K : some = RemoveSessions(dir, K)
  BY DEF SweepPendingSessions
<1>2. some \in Directory
  BY <1>1, SessionSetTypes
<1> HIDE DEF some
<1>3. PICK L : SweepRecoverySessions(some) = RemoveSessions(some, L)
  BY DEF SweepRecoverySessions
<1>4. SweepDirectory(dir) = RemoveSessions(some, L)
  BY <1>3 DEF SweepDirectory, some
<1>5. \A k \in OpenSessions(RemoveSessions(some, L)) :
          /\ k \in OpenSessions(dir)
          /\ RemoveSessions(some, L).sessions[k] = dir.sessions[k]
  <2>1. \A k \in OpenSessions(RemoveSessions(some, L)) :
            /\ k \in OpenSessions(some)
            /\ RemoveSessions(some, L).sessions[k] = some.sessions[k]
    BY <1>2, RemovedSides
  <2>2. \A k \in OpenSessions(some) :
            k \in OpenSessions(dir) /\ some.sessions[k] = dir.sessions[k]
    BY <1>1, RemovedSides
  <2> QED BY <2>1, <2>2
<1> QED BY <1>4, <1>5 DEF SidesKept, SideOf

\* A step begins a session, or keeps the ends of those that stay and brings back
\* only the sides of devices that speak up.
LEMMA SessionSteps ==
    ASSUME directory \in Directory, [Next]_vars
    PROVE  \/ \E d, t \in Device : HandleSessionRequest(d, t)
           \/ \E S \in SUBSET Device : /\ SidesKept(directory, directory', S)
                                       /\ \A d \in S : Sender(d)
<1> DEFINE Kept == \E S \in SUBSET Device :
                       /\ SidesKept(directory, directory', S)
                       /\ \A d \in S : Sender(d)
<1>1. SidesKept(directory, directory', {}) => Kept
  OBVIOUS
<1>2. UNCHANGED directory => Kept
  BY <1>1 DEF SidesKept, SideOf
<1> HIDE DEF Kept
<1>3. CASE Connections
  <2>1. PICK d \in Device :
            \/ Register(d)
            \/ Disconnect(d)
            \/ DeleteAccount(d)
            \/ OrphanCloses(d)
    BY <1>3 DEF Connections
  <2>2. \/ directory' = directory
        \/ directory' = Suspend(directory, d)
        \/ \E K : directory' = RemoveSessions(directory, K)
    BY <2>1 DEF Register, Disconnect, DeleteAccount, OrphanCloses
  <2> QED BY <1>1, <1>2, <2>2, SuspendedSides, RemovedSides DEF Kept
<1>4. CASE SessionHandlers
  <2>1. PICK d \in Device, k \in Device :
            \/ HandleSessionRequest(d, k)
            \/ \E accepted \in BOOLEAN : HandleSessionResponse(d, k, accepted)
            \/ HandleSessionResume(d, k)
            \/ CloseSession(d, k)
    BY <1>4 DEF SessionHandlers
  <2>2. CASE \E accepted \in BOOLEAN : HandleSessionResponse(d, k, accepted)
    <3>1. /\ k \in OpenSessions(directory)
          /\ \/ directory' = ActivateSession(directory, k)
             \/ directory' = RemoveSessions(directory, {k})
      BY <2>2 DEF HandleSessionResponse
    <3> QED BY <1>1, <3>1, ChangedSides, RemovedSides DEF Kept
  <2>3. CASE HandleSessionResume(d, k)
    <3>1. /\ k \in OpenSessions(directory) /\ d \in Ends(directory, k)
          /\ directory' = SetSide(directory, k, d, "online") /\ Sender(d)
      BY <2>3 DEF HandleSessionResume, SessionsOf
    <3>2. SidesKept(directory, directory', {d}) /\ {d} \in SUBSET Device
      BY <3>1, ChangedSides
    <3> QED BY <3>1, <3>2 DEF Kept
  <2>4. CASE CloseSession(d, k)
    BY <1>1, <2>4, RemovedSides DEF CloseSession
  <2> QED BY <2>1, <2>2, <2>3, <2>4 DEF Kept
<1>5. CASE SessionTime
  <2>1. PICK k \in Device :
            \/ PendingExpires(k)
            \/ \E d \in Device : SideLapses(d, k)
    BY <1>5 DEF SessionTime
  <2>2. CASE PendingExpires(k)
    BY <1>1, <2>2, ChangedSides DEF PendingExpires
  <2>3. ASSUME NEW d \in Device, SideLapses(d, k)
        PROVE  Kept
    <3>1. /\ k \in OpenSessions(directory) /\ d \in Ends(directory, k)
          /\ directory' = SetSide(directory, k, d, "lapsed")
      BY <2>3 DEF SideLapses, SessionsOf
    <3> QED BY <1>1, <3>1, ChangedSides
  <2> QED BY <2>1, <2>2, <2>3 DEF Kept
<1>6. CASE Sweep
  BY <1>1, <1>6, SweptSides DEF Sweep
<1>7. CASE Stop
  <2>1. OpenSessions(directory') = {}
    BY <1>7 DEF Stop, EmptyDirectory, OpenSessions
  <2> QED BY <1>1, <2>1 DEF SidesKept, Kept
<1>8. CASE Membership \/ \E d \in Device, r \in RoomId : ResumeLate(d, r)
  <2>1. \A d \in Device, r \in RoomId : \A c :
            HandleRoomCreate(d, r, c) => UNCHANGED directory
    BY DEF HandleRoomCreate
  <2>2. \A d \in Device, r \in RoomId : \A c :
            HandleRoomSetCapacity(d, r, c) => UNCHANGED directory
    BY DEF HandleRoomSetCapacity
  <2>3. \A o \in Device, r \in RoomId : \A d \in Device, accepted \in BOOLEAN :
            HandleRoomJoinResponse(o, r, d, accepted) => UNCHANGED directory
    BY DEF HandleRoomJoinResponse
  <2>4. \A d \in Device, r \in RoomId :
            HandleRoomJoinRequest(d, r) => UNCHANGED directory
    BY DEF HandleRoomJoinRequest
  <2>5. \A d \in Device, r \in RoomId :
            HandleRoomLeave(d, r) \/ ResumeInTime(d, r) \/ ResumeLate(d, r)
                => UNCHANGED directory
    BY DEF HandleRoomLeave, ResumeInTime, ResumeLate
  <2> QED BY <1>2, <1>8, <2>1, <2>2, <2>3, <2>4, <2>5 DEF Membership, Kept
<1>9. CASE Sharing \/ Control
  BY <1>2, <1>9
     DEF Sharing, HandleRoomScreenShareRequest, HandleRoomScreenShareReady,
         HandleRoomScreenShareStop, HandleRoomScreenShareSwitchResponse,
         HandleRoomScreenShareSwitchCancel, Control, HandleRoomControlRequest,
         HandleRoomControlResponse, HandleRoomControlRelease, Kept
<1>10. CASE RoomTime \/ UNCHANGED vars
  BY <1>2, <1>10 DEF RoomTime, MemberLapses, JoinExpires, SwitchExpires,
                     ControlExpires, vars, Kept
<1> QED BY <1>3, <1>4, <1>5, <1>6, <1>7, <1>8, <1>9, <1>10
        DEF Next, TimelyNext, Kept

\* Whoever is online in a session after a step had a socket before it, or
\* brought the session about with it.
LEMMA EndSteps ==
    ASSUME ~AccountDeletion, Inv, [Next]_vars, NoOrphans, EndsConnected
    PROVE  EndsConnected'
<1> SUFFICES ASSUME NEW k \in OpenSessions(directory'),
                    NEW d \in Ends(directory', k),
                    SideOf(directory', k, d) = "online"
             PROVE  Registered(d)'
  BY DEF EndsConnected
<1>1. directory \in Directory /\ directory' \in Directory
  BY NextType DEF Inv, TypeOK
<1>2. \A e \in Device : Sender(e) => Registered(e)
  BY DEF NoOrphans, Sender, Registered
<1>3. d \in Device
  BY <1>1 DEF Ends, OpenSessions, Directory, Session
<1>4. Registered(d)
  <2>1. ASSUME NEW e \in Device, NEW t \in Device, HandleSessionRequest(e, t)
        PROVE  Registered(d)
    <3> DEFINE session == [target |-> t, phase |-> "pending",
                           requesterLink |-> "online", targetLink |-> "online"]
    <3>1. /\ Sender(e) /\ Registered(t)
          /\ directory' = InsertSession(directory, e, t)
      BY <2>1 DEF HandleSessionRequest
    <3>2. directory'.sessions = [directory.sessions EXCEPT ![e] = session]
      BY <1>1, <3>1 DEF InsertSession, Directory
    <3>3. session.target = t
      OBVIOUS
    <3> HIDE DEF session
    <3>4. CASE k = e
      <4>1. directory'.sessions[k] = session
        BY <1>1, <3>2, <3>4 DEF Directory
      <4> QED BY <1>2, <3>1, <3>3, <3>4, <4>1 DEF Ends
    <3>5. CASE k # e
      <4>1. directory'.sessions[k] = directory.sessions[k]
        BY <1>1, <3>2, <3>5 DEF Directory
      <4> QED BY <4>1 DEF EndsConnected, SideOf, Ends, OpenSessions
    <3> QED BY <3>4, <3>5
  <2>2. ASSUME NEW S \in SUBSET Device, SidesKept(directory, directory', S),
               \A e \in S : Sender(e)
        PROVE  Registered(d)
    <3>1. /\ k \in OpenSessions(directory)
          /\ directory'.sessions[k].target = directory.sessions[k].target
          /\ SideOf(directory, k, d) = "online" \/ d \in S
      BY <2>2 DEF SidesKept
    <3>2. d \in Ends(directory, k)
      BY <3>1 DEF Ends
    <3> QED BY <1>2, <2>2, <3>1, <3>2 DEF EndsConnected
  <2> QED BY <1>1, <2>1, <2>2, SessionSteps
<1>5. ~Stop
  BY DEF Stop, EmptyDirectory, OpenSessions
<1>6. ~Disconnect(d)
  BY <1>1, <1>3, SuspendedSides DEF Disconnect
<1> QED BY <1>3, <1>4, <1>5, <1>6, SocketSteps

\* Whoever waits to be let in after a step had a socket before it, and keeps
\* it or waits no longer.
LEMMA WaitSteps ==
    ASSUME ~AccountDeletion, Inv, [Next]_vars, NoOrphans, JoinersConnected
    PROVE  JoinersConnected'
<1> SUFFICES ASSUME NEW d \in registry'.pendingJoins
             PROVE  Registered(d)'
  BY DEF JoinersConnected
<1>1. registry' \in Registry /\ RegistrySound(registry)
  BY NextInv DEF Inv, TypeOK
<1>2. d \in Device
  BY <1>1 DEF Registry
<1>3. Registered(d)
  <2>1. d \in registry.pendingJoins \/ Sender(d)
    BY JoinSteps
  <2> QED BY <1>2, <2>1 DEF NoOrphans, JoinersConnected, Sender, Registered
<1>4. ~Stop
  BY DEF Stop, EmptyRegistry
<1>5. ~Disconnect(d)
  BY <1>1, <1>2, DisconnectedMember DEF Disconnect
<1> QED BY <1>2, <1>3, <1>4, <1>5, SocketSteps

\* A request that is pending after a step can be answered after it.
LEMMA RequestSteps ==
    ASSUME ~AccountDeletion, Inv, [Next]_vars, RequestsHeld
    PROVE  RequestsHeld'
<1> SUFFICES ASSUME NEW r \in OpenRooms(registry')
             PROVE  Answerable(registry'.rooms[r])
  BY DEF RequestsHeld
<1>1. r \in RoomId
  BY DEF OpenRooms
<1>2. RoomSteps
  BY StepOfRoom
<1>3. CASE ~IsOpen(r)
  <2>1. PICK d \in Device, capacity \in 2 .. MaxMembers :
            registry'.rooms[r] = NewRoom(d, capacity)
    BY <1>2, <1>3 DEF RoomSteps, RoomOpens
  <2>2. Askers(registry'.rooms[r]) = {}
    BY <2>1 DEF Askers, NewRoom
  <2> QED BY <2>2 DEF Answerable
<1>4. CASE IsOpen(r)
  <2>1. RoomChange(r) \/ LateErasure(r)
    BY <1>2, <1>4 DEF RoomSteps
  <2>2. Sound(registry.rooms[r]) /\ Answerable(registry.rooms[r])
    BY <1>1, <1>4 DEF Inv, RegistrySound, RequestsHeld, OpenRooms, IsOpen
  <2> QED BY <1>1, <2>1, <2>2, AnswerableMoves
<1> QED BY <1>3, <1>4

\* What the links, the sockets and the requests have in common while no
\* account is deleted.
Connected ==
    /\ Inv
    /\ NoOrphans
    /\ MembersConnected
    /\ EndsConnected
    /\ JoinersConnected
    /\ RequestsHeld

\* The reachable states are connected.
LEMMA Connectedness ==
    ASSUME ~AccountDeletion
    PROVE  Spec => []Connected
<1>1. Init => Connected
  <2> SUFFICES ASSUME Init
               PROVE  Connected
    OBVIOUS
  <2>1. Inv
    BY InitInv
  <2>2. OpenRooms(registry) = {} /\ registry.pendingJoins = {}
    BY DEF Init, EmptyRegistry, OpenRooms
  <2>3. OpenSessions(directory) = {}
    BY DEF Init, EmptyDirectory, OpenSessions
  <2>4. NoOrphans
    BY DEF Init, NoOrphans
  <2> QED BY <2>1, <2>2, <2>3, <2>4
          DEF Connected, MembersConnected, EndsConnected, JoinersConnected,
              RequestsHeld
<1>2. Connected /\ [Next]_vars => Connected'
  <2> SUFFICES ASSUME Connected, [Next]_vars
               PROVE  Connected'
    OBVIOUS
  <2>1. Inv'
    BY NextInv DEF Connected
  <2>2. NoOrphans'
    BY SocketSteps DEF Connected
  <2>3. MembersConnected'
    BY MemberSteps DEF Connected
  <2>4. EndsConnected'
    BY EndSteps DEF Connected
  <2>5. JoinersConnected'
    BY WaitSteps DEF Connected
  <2>6. RequestsHeld'
    BY RequestSteps DEF Connected
  <2> QED BY <2>1, <2>2, <2>3, <2>4, <2>5, <2>6 DEF Connected
<1> QED BY <1>1, <1>2, PTL DEF Spec

\* Without account deletion, the members of a room that count as online, the
\* ends of a session that do, and the devices that wait to be let in, all have
\* a registered socket: every handler looks the socket up by the registry's
\* word and finds it.
THEOREM OnlineIsConnected ==
    ASSUME ~AccountDeletion
    PROVE  Spec => []OnlineMeansConnected
<1>1. Connected => OnlineMeansConnected
  BY DEF Connected, OnlineMeansConnected, MembersConnected, EndsConnected,
         JoinersConnected, OpenRoomIds, Rooms, Members
<1> QED BY <1>1, Connectedness, PTL

\* Without account deletion, a pending takeover or control request is between
\* two members that are online and connected, so its answer can still come:
\* whoever drops out first, the asker or the sharer, takes it along.
THEOREM RequestsCanBeAnswered ==
    ASSUME ~AccountDeletion
    PROVE  Spec => []RequestsAnswerable
<1>1. Connected => RequestsAnswerable
  <2> SUFFICES ASSUME Connected, NEW r \in OpenRooms(registry), NEW d \in Device,
                      d \in {registry.rooms[r].pendingController,
                             registry.rooms[r].switchRequester}
               PROVE  /\ OnlineMember(r, d)
                      /\ OnlineMember(r, registry.rooms[r].sharer)
    BY DEF RequestsAnswerable, OpenRoomIds, Rooms
  <2> DEFINE room == registry.rooms[r]
  <2>1. Sound(room)
    BY DEF Connected, Inv, RegistrySound
  <2>2. d \in Askers(room)
    BY DeviceAssumption DEF Askers
  <2>3. room.members[d] = "online" /\ room.members[room.sharer] = "online"
    BY <2>2 DEF Connected, RequestsHeld, Answerable
  <2>4. room.sharer \in Device
    BY <2>1, <2>2
       DEF Askers, Sound, ControlShape, LeaseShape, Room, DeviceOrNone
  <2>5. Registered(d) /\ Registered(room.sharer)
    BY <2>3, <2>4 DEF Connected, MembersConnected
  <2> QED BY <2>3, <2>5 DEF OnlineMember, IsOpen, OpenRooms
<1> QED BY <1>1, Connectedness, PTL

-----------------------------------------------------------------------------
(* The server implements Engagement.                                       *)

\* No device has a session with itself.
TwoEnds(dir) == \A k \in OpenSessions(dir) : dir.sessions[k].target # k

\* Both registries are sound and no device is in both.
Sites(reg, dir) ==
    /\ RegistrySound(reg)
    /\ DirectorySound(dir)
    /\ TwoEnds(dir)
    /\ \A d \in Device : ~(DeviceHasRoom(reg, d) /\ DeviceHasSession(dir, d))

\* Where a device is, according to two registries.
PlaceIn(reg, dir, d) ==
    CASE DeviceHasRoom(reg, d)     -> reg.deviceRooms[d]
      [] DeviceHasSession(dir, d) ->
             LET k == dir.deviceSessions[d]
             IN CHOOSE p \in Ends(dir, k) : p # d
      [] OTHER                    -> None

\* A device is in its room, at the other end of its session, or nowhere.
LEMMA PlaceOfDevice ==
    ASSUME NEW reg, NEW dir, Sites(reg, dir), NEW d \in Device
    PROVE  /\ DeviceHasRoom(reg, d) =>
                  /\ PlaceIn(reg, dir, d) = reg.deviceRooms[d]
                  /\ reg.deviceRooms[d] \in RoomId
           /\ ~DeviceHasRoom(reg, d) /\ ~DeviceHasSession(dir, d) =>
                  PlaceIn(reg, dir, d) = None
           /\ \A k \in OpenSessions(dir) :
                  /\ d = k => PlaceIn(reg, dir, d) = dir.sessions[k].target
                  /\ d = dir.sessions[k].target => PlaceIn(reg, dir, d) = k
<1>1. reg \in Registry /\ dir \in Directory /\ SessionIndexOf(dir)
  BY DEF Sites, RegistrySound, DirectorySound
<1>2. CASE DeviceHasRoom(reg, d)
  <2>1. ~DeviceHasSession(dir, d)
    BY <1>2 DEF Sites
  <2>2. PlaceIn(reg, dir, d) = reg.deviceRooms[d]
    BY <1>2, <2>1 DEF PlaceIn
  <2>3. reg.deviceRooms[d] \in RoomId
    BY <1>1, <1>2 DEF DeviceHasRoom, Registry
  <2>4. \A k \in OpenSessions(dir) : d \notin Ends(dir, k)
    BY <1>1, <2>1, DeviceAssumption
       DEF SessionIndexOf, OpenSessions, DeviceHasSession
  <2> QED BY <1>2, <2>2, <2>3, <2>4 DEF Ends
<1>3. CASE ~DeviceHasRoom(reg, d)
  <2>1. ~DeviceHasSession(dir, d) => PlaceIn(reg, dir, d) = None
    BY <1>3 DEF PlaceIn
  <2>2. ASSUME NEW k \in OpenSessions(dir), d \in Ends(dir, k)
        PROVE  PlaceIn(reg, dir, d) = IF d = k THEN dir.sessions[k].target ELSE k
    <3>1. dir.deviceSessions[d] = k /\ k # None
      BY <1>1, <2>2, DeviceAssumption DEF SessionIndexOf, OpenSessions
    <3>2. PlaceIn(reg, dir, d) = CHOOSE p \in Ends(dir, k) : p # d
      BY <1>3, <3>1 DEF PlaceIn, DeviceHasSession
    <3>3. k # dir.sessions[k].target /\ Ends(dir, k) = {k, dir.sessions[k].target}
      BY DEF Sites, TwoEnds, Ends
    <3> QED BY <2>2, <3>2, <3>3
  <2>3. \A k \in OpenSessions(dir) : dir.sessions[k].target # k
    BY DEF Sites, TwoEnds
  <2> QED BY <1>3, <2>1, <2>2, <2>3 DEF Ends
<1> QED BY <1>2, <1>3

\* The devices that have a session are its ends.
LEMMA SessionOfDevice ==
    ASSUME NEW dir, DirectorySound(dir), NEW d \in Device, DeviceHasSession(dir, d)
    PROVE  \E k \in OpenSessions(dir) : /\ k \in Device
                                        /\ dir.sessions[k].target \in Device
                                        /\ d \in {k, dir.sessions[k].target}
<1>1. dir \in Directory /\ SessionIndexOf(dir)
  BY DEF DirectorySound
<1>2. dir.deviceSessions[d] \in Device
  BY <1>1 DEF Directory, DeviceOrNone, DeviceHasSession
<1>3. dir.deviceSessions[d] \in OpenSessions(dir)
  BY <1>1, <1>2 DEF SessionIndexOf
<1>4. d \in Ends(dir, dir.deviceSessions[d])
  BY <1>1, <1>2 DEF SessionIndexOf
<1>5. dir.sessions[dir.deviceSessions[d]].target \in Device
  BY <1>1, <1>3 DEF OpenSessions, Directory, Session
<1> QED BY <1>2, <1>3, <1>4, <1>5 DEF Ends

\* A step that gives nobody a room and begins no session releases devices, the
\* two ends of a session together.
LEMMA ReleaseStep ==
    ASSUME NEW reg, NEW dir, Sites(reg, dir),
           NEW reg2, NEW dir2, Sites(reg2, dir2), Vacates(reg, reg2),
           NEW S, SidesKept(dir, dir2, S)
    PROVE  \E G \in SUBSET Device : \A d \in Device :
               /\ d \in G /\ PlaceIn(reg, dir, d) \in Device
                      => PlaceIn(reg, dir, d) \in G
               /\ PlaceIn(reg2, dir2, d) =
                      IF d \in G THEN None ELSE PlaceIn(reg, dir, d)
<1> DEFINE G == {d \in Device : PlaceIn(reg2, dir2, d) # PlaceIn(reg, dir, d)}
<1>1. ASSUME NEW d \in Device, DeviceHasRoom(reg2, d)
      PROVE  d \notin G
  <2>1. DeviceHasRoom(reg, d) /\ reg2.deviceRooms[d] = reg.deviceRooms[d]
    BY <1>1 DEF Vacates, DeviceHasRoom
  <2> QED BY <1>1, <2>1, PlaceOfDevice
<1>2. ASSUME NEW d \in Device, DeviceHasSession(dir2, d)
      PROVE  \E e \in Device : /\ d \notin G /\ e \notin G
                               /\ PlaceIn(reg, dir, d) = e
                               /\ PlaceIn(reg, dir, e) = d
  <2>1. PICK k \in OpenSessions(dir2) : /\ k \in Device
                                        /\ dir2.sessions[k].target \in Device
                                        /\ d \in {k, dir2.sessions[k].target}
    BY <1>2, SessionOfDevice DEF Sites
  <2> DEFINE t == dir2.sessions[k].target
  <2>2. k \in OpenSessions(dir) /\ dir.sessions[k].target = t
    BY DEF SidesKept
  <2> HIDE DEF t
  <2>3. /\ PlaceIn(reg, dir, k) = t /\ PlaceIn(reg, dir, t) = k
        /\ PlaceIn(reg2, dir2, k) = t /\ PlaceIn(reg2, dir2, t) = k
    BY <2>1, <2>2, PlaceOfDevice DEF t
  <2> QED BY <2>1, <2>3 DEF t
<1>3. ASSUME NEW d \in G
      PROVE  PlaceIn(reg2, dir2, d) = None
  BY <1>1, <1>2, <1>3, PlaceOfDevice
<1>4. ASSUME NEW d \in G, PlaceIn(reg, dir, d) \in Device
      PROVE  PlaceIn(reg, dir, d) \in G
  <2> DEFINE e == PlaceIn(reg, dir, d)
  <2>1. ~DeviceHasRoom(reg, d)
    BY <1>4, PlaceOfDevice, RoomIdAssumption
  <2>2. DeviceHasSession(dir, d)
    BY <1>4, <2>1, PlaceOfDevice, DeviceAssumption
  <2>3. PICK k \in OpenSessions(dir) : /\ k \in Device
                                       /\ dir.sessions[k].target \in Device
                                       /\ d \in {k, dir.sessions[k].target}
    BY <2>2, SessionOfDevice DEF Sites
  <2>4. PlaceIn(reg, dir, e) = d
    BY <2>3, PlaceOfDevice
  <2>5. PlaceIn(reg2, dir2, e) # d
    <3> SUFFICES ASSUME PlaceIn(reg2, dir2, e) = d
                 PROVE  FALSE
      OBVIOUS
    <3>1. DeviceHasSession(dir2, e)
      BY <1>4, PlaceOfDevice, DeviceAssumption, RoomIdAssumption
    <3> QED BY <1>2, <1>4, <2>4, <3>1
  <2> QED BY <1>4, <2>4, <2>5
<1>5. G \in SUBSET Device
  OBVIOUS
<1>6. \A d \in Device :
          PlaceIn(reg2, dir2, d) = IF d \in G THEN None ELSE PlaceIn(reg, dir, d)
  BY <1>3
<1> HIDE DEF G
<1> QED BY <1>4, <1>5, <1>6

\* A step that gives a device without a session a room, and takes rooms from
\* others only, frees some that were in a room and enters the device.
LEMMA EnterStep ==
    ASSUME NEW reg, NEW dir, Sites(reg, dir), NEW reg2, Sites(reg2, dir),
           NEW d \in Device, ~DeviceHasSession(dir, d), DeviceHasRoom(reg2, d),
           \A e \in Device \ {d} :
               reg2.deviceRooms[e] \in {reg.deviceRooms[e], None}
    PROVE  \E G \in SUBSET Device :
               /\ \A e \in G : PlaceIn(reg, dir, e) \in RoomId
               /\ d \in G \/ PlaceIn(reg, dir, d) = None
               /\ PlaceIn(reg2, dir, d) \in RoomId
               /\ \A e \in Device \ {d} :
                      PlaceIn(reg2, dir, e) =
                          IF e \in G THEN None ELSE PlaceIn(reg, dir, e)
<1> DEFINE G == {e \in Device : /\ PlaceIn(reg, dir, e) \in RoomId
                                /\ \/ e = d
                                   \/ PlaceIn(reg2, dir, e) # PlaceIn(reg, dir, e)}
<1>1. d \in G \/ PlaceIn(reg, dir, d) = None
  BY PlaceOfDevice
<1>2. PlaceIn(reg2, dir, d) \in RoomId
  BY PlaceOfDevice
<1>3. ASSUME NEW e \in Device \ {d}
      PROVE  PlaceIn(reg2, dir, e) =
                 IF e \in G THEN None ELSE PlaceIn(reg, dir, e)
  <2>1. CASE DeviceHasRoom(reg2, e)
    <3>1. DeviceHasRoom(reg, e) /\ reg2.deviceRooms[e] = reg.deviceRooms[e]
      BY <2>1 DEF DeviceHasRoom
    <3> QED BY <2>1, <3>1, PlaceOfDevice
  <2>2. CASE DeviceHasSession(dir, e)
    <3>1. PICK k \in OpenSessions(dir) : /\ k \in Device
                                         /\ dir.sessions[k].target \in Device
                                         /\ e \in {k, dir.sessions[k].target}
      BY <2>2, SessionOfDevice DEF Sites
    <3>2. PlaceIn(reg2, dir, e) = PlaceIn(reg, dir, e)
      BY <3>1, PlaceOfDevice
    <3> QED BY <3>2
  <2>3. CASE ~DeviceHasRoom(reg2, e) /\ ~DeviceHasSession(dir, e)
    <3>1. PlaceIn(reg2, dir, e) = None
      BY <2>3, PlaceOfDevice
    <3>2. PlaceIn(reg, dir, e) \in RoomId \union {None}
      BY <2>3, PlaceOfDevice
    <3> QED BY <3>1, <3>2, RoomIdAssumption
  <2> QED BY <2>1, <2>2, <2>3
<1>4. G \in SUBSET Device /\ \A e \in G : PlaceIn(reg, dir, e) \in RoomId
  OBVIOUS
<1> HIDE DEF G
<1> QED BY <1>1, <1>2, <1>3, <1>4

\* A session begins between two devices that are nowhere.
LEMMA PairStep ==
    ASSUME NEW reg, NEW dir, Sites(reg, dir),
           NEW a \in Device, NEW b \in Device, a # b,
           ~DeviceHasRoom(reg, a), ~DeviceHasRoom(reg, b), CanInsert(dir, a, b),
           NEW dir2, dir2 = InsertSession(dir, a, b), Sites(reg, dir2)
    PROVE  /\ PlaceIn(reg, dir, a) = None /\ PlaceIn(reg, dir, b) = None
           /\ PlaceIn(reg, dir2, a) = b /\ PlaceIn(reg, dir2, b) = a
           /\ \A e \in Device \ {a, b} :
                  PlaceIn(reg, dir2, e) = PlaceIn(reg, dir, e)
<1> DEFINE session == [target |-> b, phase |-> "pending",
                       requesterLink |-> "online", targetLink |-> "online"]
<1>1. dir \in Directory /\ session \in Session
  BY DEF Sites, DirectorySound, Session, Phase, SideLink
<1>2. /\ dir2.sessions = [dir.sessions EXCEPT ![a] = session]
      /\ dir2.deviceSessions = [dir.deviceSessions EXCEPT ![a] = a, ![b] = a]
  BY <1>1 DEF InsertSession, Directory
<1>3. session.target = b /\ session # None
  BY <1>1, SessionAssumption
<1> HIDE DEF session
<1>4. /\ a \in OpenSessions(dir2) /\ dir2.sessions[a].target = b
      /\ \A k \in OpenSessions(dir) : /\ k \in OpenSessions(dir2)
                                      /\ dir2.sessions[k] = dir.sessions[k]
  BY <1>1, <1>2, <1>3 DEF OpenSessions, Directory, CanInsert
<1>5. PlaceIn(reg, dir, a) = None /\ PlaceIn(reg, dir, b) = None
  BY PlaceOfDevice DEF CanInsert
<1>6. PlaceIn(reg, dir2, a) = b /\ PlaceIn(reg, dir2, b) = a
  BY <1>4, PlaceOfDevice
<1>7. ASSUME NEW e \in Device \ {a, b}
      PROVE  PlaceIn(reg, dir2, e) = PlaceIn(reg, dir, e)
  <2>1. DeviceHasSession(dir2, e) <=> DeviceHasSession(dir, e)
    BY <1>1, <1>2 DEF DeviceHasSession, Directory
  <2>2. CASE DeviceHasSession(dir, e)
    <3>1. PICK k \in OpenSessions(dir) : /\ k \in Device
                                         /\ dir.sessions[k].target \in Device
                                         /\ e \in {k, dir.sessions[k].target}
      BY <2>2, SessionOfDevice DEF Sites
    <3> QED BY <1>4, <3>1, PlaceOfDevice
  <2>3. CASE ~DeviceHasSession(dir, e)
    BY <2>1, <2>3, PlaceOfDevice
  <2> QED BY <2>2, <2>3
<1> QED BY <1>5, <1>6, <1>7

\* Somebody gets a room only by creating it or by an owner's answer.
LEMMA Entrants ==
    ASSUME Inv, Inv', [Next]_vars
    PROVE  \/ Vacates(registry, registry')
           \/ \E d \in Device, r \in RoomId :
                 \/ Answered(r, d)
                 \/ \E capacity : HandleRoomCreate(d, r, capacity)
<1> SUFFICES ASSUME NEW d \in Device,
                    registry'.deviceRooms[d] \notin
                        {registry.deviceRooms[d], None}
             PROVE  \E r \in RoomId :
                       \/ Answered(r, d)
                       \/ \E e \in Device : \E capacity :
                              HandleRoomCreate(e, r, capacity)
  BY DEF Vacates
<1> DEFINE r == registry'.deviceRooms[d]
<1>1. /\ r \in RoomId /\ r \in OpenRooms(registry')
      /\ d \in Members(registry'.rooms[r])
  BY RoomOfDevice DEF Inv, TypeOK, Registry, DeviceHasRoom
<1>2. CASE ~IsOpen(r)
  <2>1. RoomOpens(r)
    BY <1>1, <1>2, StepOfRoom DEF RoomSteps
  <2> QED BY <1>1, <2>1 DEF RoomOpens
<1>3. CASE IsOpen(r)
  <2>1. d \notin Members(registry.rooms[r])
    BY <1>1, <1>3 DEF Inv, RegistrySound, RoomIndexOf, OpenRooms, IsOpen
  <2>2. LinkMove(r, registry.rooms[r], registry'.rooms[r], d)
    BY <1>1, <1>3, LinkSteps DEF Persists, IsOpen, Rooms, OpenRooms
  <2>3. Answered(r, d)
    BY <1>1, <2>1, <2>2 DEF LinkMove, Members
  <2> QED BY <1>1, <2>3
<1> QED BY <1>2, <1>3

\* The handlers that let somebody in touch no session, and let in one device,
\* which has none.
LEMMA EntrySteps ==
    ASSUME Inv, NEW r \in RoomId, NEW e \in Device,
           \/ Answered(r, e)
           \/ \E capacity : HandleRoomCreate(e, r, capacity)
    PROVE  /\ directory' = directory
           /\ \/ Vacates(registry, registry')
              \/ \E d \in Device :
                    /\ ~DeviceHasSession(directory, d)
                    /\ DeviceHasRoom(registry', d)
                    /\ \A m \in Device \ {d} : registry'.deviceRooms[m] \in
                                                   {registry.deviceRooms[m], None}
<1>1. registry \in Registry /\ RegistrySound(registry)
  BY DEF Inv, TypeOK
<1>2. CASE Answered(r, e)
  <2> DEFINE rest == DropJoins(registry, {e})
  <2>1. rest \in Registry /\ rest.deviceRooms = registry.deviceRooms
    BY <1>1, DropJoinsSound DEF RegistrySound
  <2>2. /\ directory' = directory
        /\ \/ registry' = rest
           \/ registry' = AdmitMember(rest, r, e) /\ ~Engaged(rest, e)
    BY <1>2 DEF Answered, HandleRoomJoinResponse
  <2> HIDE DEF rest
  <2>3. CASE registry' = rest
    BY <2>1, <2>2, <2>3 DEF Vacates
  <2>4. CASE registry' = AdmitMember(rest, r, e) /\ ~Engaged(rest, e)
    <3>1. registry'.deviceRooms = [registry.deviceRooms EXCEPT ![e] = r]
      BY <2>1, <2>4 DEF AdmitMember, Registry
    <3>2. registry.deviceRooms \in [Device -> RoomId \union {None}]
      BY <1>1 DEF Registry
    <3> QED BY <2>2, <2>4, <3>1, <3>2, RoomIdAssumption
            DEF Engaged, DeviceHasRoom
  <2> QED BY <2>2, <2>3, <2>4
<1>3. ASSUME NEW capacity, HandleRoomCreate(e, r, capacity)
      PROVE  /\ directory' = directory
             /\ \/ Vacates(registry, registry')
                \/ /\ ~DeviceHasSession(directory, e)
                   /\ DeviceHasRoom(registry', e)
                   /\ \A m \in Device \ {e} : registry'.deviceRooms[m] \in
                                                  {registry.deviceRooms[m], None}
  <2> DEFINE fresh == FreshStart(registry, e)
  <2>1. fresh \in Registry /\ Vacates(registry, fresh)
    BY <1>1, LeavingSound DEF RegistrySound
  <2>2. /\ directory' = directory
        /\ \/ registry' = fresh
           \/ registry' = AddRoom(fresh, r, e, capacity) /\ ~Engaged(fresh, e)
    BY <1>3 DEF HandleRoomCreate
  <2> HIDE DEF fresh
  <2>3. CASE registry' = fresh
    BY <2>1, <2>2, <2>3
  <2>4. CASE registry' = AddRoom(fresh, r, e, capacity) /\ ~Engaged(fresh, e)
    <3>1. registry'.deviceRooms = [fresh.deviceRooms EXCEPT ![e] = r]
      BY <2>1, <2>4 DEF AddRoom, Registry
    <3>2. fresh.deviceRooms \in [Device -> RoomId \union {None}]
      BY <2>1 DEF Registry
    <3> QED BY <2>1, <2>2, <2>4, <3>1, <3>2, RoomIdAssumption
            DEF Engaged, DeviceHasRoom, Vacates
  <2> QED BY <2>2, <2>3, <2>4
<1> QED BY <1>2, <1>3


\* The refinement mapping.
Placement == [d \in Device |-> Place(d)]

\* Devices are engaged the way Engagement allows: in one room or with one
\* peer, the two ends of a session entering and leaving it in one step, and
\* nobody passing from a session into anything else without being free.
THEOREM EngagementImplemented == Spec => ImplementsEngagement
<1> DEFINE IInv == Inv /\ TwoEnds(directory)
<1>1. ASSUME Init
      PROVE  IInv /\ Engagements!Init
  <2>1. Inv
    BY <1>1, InitInv
  <2>2. TwoEnds(directory)
    BY <1>1 DEF Init, EmptyDirectory, TwoEnds, OpenSessions
  <2>3. \A d \in Device : Place(d) = None
    BY <1>1 DEF Init, EmptyDirectory, EmptyRegistry, Place, DeviceHasRoom,
                DeviceHasSession
  <2> QED BY <2>1, <2>2, <2>3 DEF Engagements!Init
<1>2. ASSUME IInv, [Next]_vars
      PROVE  IInv' /\ [Engagements!Next]_Placement
  <2> DEFINE p(d) == PlaceIn(registry, directory, d)
             q(d) == PlaceIn(registry', directory', d)
  <2>1. Inv'
    BY <1>2, NextInv
  <2>2. directory \in Directory /\ directory' \in Directory
    BY <1>2, <2>1 DEF Inv, TypeOK
  <2>3. TwoEnds(directory')
    <3>1. ASSUME NEW a \in Device, NEW b \in Device, HandleSessionRequest(a, b)
          PROVE  TwoEnds(directory')
      <4>1. directory'.sessions = [directory.sessions EXCEPT ![a] =
                [target |-> b, phase |-> "pending",
                 requesterLink |-> "online", targetLink |-> "online"]]
        BY <2>2, <3>1 DEF HandleSessionRequest, InsertSession, Directory
      <4>2. a # b
        BY <3>1 DEF HandleSessionRequest
      <4>3. \A k \in OpenSessions(directory') :
                \/ k = a /\ directory'.sessions[k].target = b
                \/ /\ k \in OpenSessions(directory)
                   /\ directory'.sessions[k] = directory.sessions[k]
        BY <2>2, <4>1 DEF OpenSessions, Directory
      <4> QED BY <1>2, <4>2, <4>3 DEF TwoEnds
    <3>2. ASSUME NEW S, SidesKept(directory, directory', S)
          PROVE  TwoEnds(directory')
      BY <1>2, <3>2 DEF TwoEnds, SidesKept
    <3> QED BY <1>2, <2>2, <3>1, <3>2, SessionSteps
  <2>4. Sites(registry, directory) /\ Sites(registry', directory')
    BY <1>2, <2>1, <2>3 DEF Inv, Sites, OneEngagement
  <2>5. /\ Placement = [d \in Device |-> p(d)]
        /\ Placement' = [d \in Device |-> q(d)]
    BY DEF Placement, Place, PlaceIn
  <2> HIDE DEF p, q
  <2>6. ASSUME Vacates(registry, registry'), NEW S,
               SidesKept(directory, directory', S)
        PROVE  Engagements!Release
    <3>1. PICK G \in SUBSET Device : \A d \in Device :
               /\ d \in G /\ p(d) \in Device => p(d) \in G
               /\ q(d) = IF d \in G THEN None ELSE p(d)
      BY <2>4, <2>6, ReleaseStep DEF p, q
    <3> QED BY <2>5, <3>1 DEF Placement, Engagements!Release, Engagements!ClosedUnderPeers,
                              Engagements!Freed
  <2>7. ASSUME NEW a \in Device, NEW b \in Device, HandleSessionRequest(a, b)
        PROVE  Engagements!Pair
    <3>1. /\ a # b /\ p(a) = None /\ p(b) = None /\ q(a) = b /\ q(b) = a
          /\ \A e \in Device \ {a, b} : q(e) = p(e)
      <4>1. /\ a # b /\ ~DeviceHasRoom(registry, a) /\ ~DeviceHasRoom(registry, b)
            /\ CanInsert(directory, a, b)
            /\ directory' = InsertSession(directory, a, b)
            /\ registry' = registry
        BY <2>7 DEF HandleSessionRequest
      <4> QED BY <2>4, <4>1, PairStep DEF p, q
    <3>2. [e \in Device |-> q(e)] =
              [[e \in Device |-> p(e)] EXCEPT ![a] = b, ![b] = a]
      BY <3>1
    <3>3. /\ Placement[a] = None /\ Placement[b] = None
          /\ Placement' = [Placement EXCEPT ![a] = b, ![b] = a]
      BY <2>5, <3>1, <3>2
    <3> QED BY <3>1, <3>3 DEF Placement, Engagements!Pair
  <2>8. ASSUME NEW d \in Device, ~DeviceHasSession(directory, d),
               DeviceHasRoom(registry', d), directory' = directory,
               \A e \in Device \ {d} :
                   registry'.deviceRooms[e] \in {registry.deviceRooms[e], None}
        PROVE  Engagements!Enter
    <3>1. PICK G \in SUBSET Device :
               /\ \A e \in G : p(e) \in RoomId
               /\ d \in G \/ p(d) = None
               /\ q(d) \in RoomId
               /\ \A e \in Device \ {d} : q(e) = IF e \in G THEN None ELSE p(e)
      BY <2>4, <2>8, EnterStep DEF p, q
    <3>2. [e \in Device |-> q(e)] =
              [[e \in Device |-> IF e \in G THEN None ELSE p(e)] EXCEPT ![d] = q(d)]
      BY <3>1
    <3>3. [e \in Device |-> IF e \in G THEN None ELSE p(e)] =
              [e \in Device |-> IF e \in G THEN None ELSE Placement[e]]
      BY <2>5
    <3> DEFINE F == [e \in Device |-> IF e \in G THEN None ELSE Placement[e]]
    <3>4. /\ \A m \in G : Placement[m] \in RoomId
          /\ F[d] = None
          /\ Placement' = [F EXCEPT ![d] = q(d)]
      BY <2>5, <3>1, <3>2, <3>3
    <3> QED BY <3>1, <3>4 DEF Placement, Engagements!Enter, Engagements!Freed
  <2>9. Vacates(registry, registry') => Engagements!Next
    <3>1. directory' = directory => SidesKept(directory, directory', {})
      BY DEF SidesKept, SideOf
    <3> QED BY <1>2, <2>2, <2>6, <2>7, SessionSteps DEF Engagements!Next
  <2>10. ASSUME NEW d \in Device, NEW r \in RoomId,
                \/ Answered(r, d)
                \/ \E capacity : HandleRoomCreate(d, r, capacity)
         PROVE  Engagements!Next
    <3>1. /\ directory' = directory
          /\ \/ Vacates(registry, registry')
             \/ \E e \in Device :
                   /\ ~DeviceHasSession(directory, e)
                   /\ DeviceHasRoom(registry', e)
                   /\ \A m \in Device \ {e} : registry'.deviceRooms[m] \in
                                                  {registry.deviceRooms[m], None}
      BY <1>2, <2>10, EntrySteps
    <3> QED BY <2>8, <2>9, <3>1 DEF Engagements!Next
  <2>11. Engagements!Next
    BY <1>2, <2>1, <2>9, <2>10, Entrants
  <2> QED BY <2>1, <2>3, <2>11
<1> QED BY <1>1, <1>2, PTL DEF Spec, ImplementsEngagement, Engagements!Spec,
                               Placement
=============================================================================
