---------------------------- MODULE SignalServer ----------------------------
(***************************************************************************)
(* The RLink signaling server (SignalServer::Impl).  Qt runs it on one     *)
(* event loop: a WebSocket message, a closed socket and a tick of the      *)
(* maintenance timer each run one handler to completion, so a handler is   *)
(* one action.  What interleaves is the order in which clients' messages,  *)
(* connection losses, passing deadlines and the maintenance timer reach    *)
(* the loop.                                                               *)
(*                                                                         *)
(* A message the handler refuses changes nothing and is a stuttering step. *)
(* The clock is abstracted: the Time actions let a deadline pass, in any   *)
(* order, and the sweep acts on the deadlines that have passed.            *)
(***************************************************************************)
EXTENDS RoomRegistry, DirectSessions

CONSTANTS
    AccountDeletion,  \* is Logto account deletion configured?
    MaxEpoch          \* model bound: no share is granted from this epoch on

ASSUME ConfigurationAssumption ==
    AccountDeletion \in BOOLEAN /\ MaxEpoch \in Nat

VARIABLES
    conn,      \* what the server knows of each device's socket
    registry,  \* roomRegistry_
    directory  \* directSessions_

vars == <<conn, registry, directory>>

(* "registered" : devices_ maps the device to a registered socket.          *)
(* "orphaned"   : its account was deleted; the socket stays registered      *)
(*                until it closes but devices_ no longer lists it.          *)
(* "gone"       : that socket closed; the id is never given out again.      *)
Connection == {"offline", "registered", "orphaned", "gone"}

Registered(d) == conn[d] = "registered"

\* Whose messages pass the client->registered check of OnTextMessage.
Sender(d) == conn[d] \in {"registered", "orphaned"}

IsOpen(r) == registry.rooms[r] # None

\* IsOnlineRoomMember
OnlineMember(r, d) ==
    /\ IsOpen(r)
    /\ registry.rooms[r].members[d] = "online"
    /\ Registered(d)

Init ==
    /\ conn = [d \in Device |-> "offline"]
    /\ registry = EmptyRegistry
    /\ directory = EmptyDirectory

-----------------------------------------------------------------------------
(* Connections.                                                            *)

\* HandleRegister: a new socket of a device that is still registered takes
\* the registration over, which first counts as a disconnect.
Register(d) ==
    \/ /\ conn[d] = "offline"
       /\ conn' = [conn EXCEPT ![d] = "registered"]
       /\ UNCHANGED <<registry, directory>>
    \/ /\ Registered(d)
       /\ registry' = MarkDisconnected(registry, d)
       /\ directory' = Suspend(directory, d)
       /\ UNCHANGED conn

\* OnDisconnected of the registered socket.
Disconnect(d) ==
    /\ Registered(d)
    /\ conn' = [conn EXCEPT ![d] = "offline"]
    /\ registry' = MarkDisconnected(registry, d)
    /\ directory' = Suspend(directory, d)

\* DeleteLocalAccount for one registered device of the deleted account.
DeleteAccount(d) ==
    /\ AccountDeletion
    /\ Registered(d)
    /\ conn' = [conn EXCEPT ![d] = "orphaned"]
    /\ registry' = ForgetDevice(registry, d)
    /\ directory' = RemoveSessions(directory,
                                   {directory.deviceSessions[d]} \ {None})

\* The socket of a deleted account closes: OnDisconnected finds that it no
\* longer owns the registration.
OrphanCloses(d) ==
    /\ conn[d] = "orphaned"
    /\ conn' = [conn EXCEPT ![d] = "gone"]
    /\ UNCHANGED <<registry, directory>>

-----------------------------------------------------------------------------
(* Room membership.                                                        *)

\* A device that may not enter a room; the mutant forgets its session.
InRoom(reg, d) == DeviceHasRoom(reg, d)

Engaged(reg, d) == DeviceHasRoom(reg, d) \/ DeviceHasSession(directory, d)

\* A room id that was in use until this very message is not drawn again.
HandleRoomCreate(d, r, capacity) ==
    LET fresh == FreshStart(registry, d)
    IN /\ Sender(d)
       /\ ValidCapacity(capacity)
       /\ IF \/ d \in fresh.pendingJoins
             \/ Engaged(fresh, d)
             \/ OpenRooms(registry) = RoomId
          THEN registry' = fresh
          ELSE /\ ~IsOpen(r)
               /\ registry' = AddRoom(fresh, r, d, capacity)
       /\ UNCHANGED <<conn, directory>>

HandleRoomJoinRequest(d, r) ==
    LET fresh == FreshStart(registry, d)
        pending == d \in fresh.pendingJoins /\ fresh.joinRequests[d] # None
        open == fresh.rooms[r] # None
        room == fresh.rooms[r]
        admissible == /\ ~Engaged(fresh, d)
                      /\ open
                      /\ HasSeat(room)
                      /\ OwnerOnline(room)
                      /\ Registered(room.owner)
    IN /\ Sender(d)
       /\ registry' = IF pending THEN fresh
                      ELSE IF admissible THEN InsertJoin(fresh, d, r)
                      ELSE [fresh EXCEPT !.pendingJoins = @ \ {d}]
       /\ UNCHANGED <<conn, directory>>

\* The request is consumed whatever the answer; only an accepted one that is
\* still in time, from a device that is online and free, admits the device.
HandleRoomJoinResponse(o, r, d, accepted) ==
    LET room == registry.rooms[r]
        rest == DropJoins(registry, {d})
        admits == /\ accepted
                  /\ ~registry.joinRequests[d].expired
                  /\ Registered(d)
                  /\ ~Engaged(rest, d)
                  /\ HasSeat(room)
    IN /\ Sender(o)
       /\ IsOpen(r)
       /\ room.owner = o
       /\ OwnerOnline(room)
       /\ registry.joinRequests[d] # None
       /\ registry.joinRequests[d].room = r
       /\ registry' = IF admits THEN AdmitMember(rest, r, d) ELSE rest
       /\ UNCHANGED <<conn, directory>>

HandleRoomSetCapacity(o, r, capacity) ==
    /\ Sender(o)
    /\ IsOpen(r)
    /\ registry.rooms[r].owner = o
    /\ OwnerOnline(registry.rooms[r])
    /\ ValidCapacity(capacity)
    /\ capacity >= Cardinality(Members(registry.rooms[r]))
    /\ registry' = [registry EXCEPT !.rooms[r].capacity = capacity]
    /\ UNCHANGED <<conn, directory>>

\* A member may leave without having resumed its membership.
HandleRoomLeave(d, r) ==
    LET room == registry.rooms[r]
    IN /\ Sender(d)
       /\ IsOpen(r)
       /\ d \in Members(room)
       /\ registry' = IF room.owner = d THEN CloseRooms(registry, {r})
                      ELSE RemoveMember(registry, r, LeaveRoom(room, d), d)
       /\ UNCHANGED <<conn, directory>>

\* Guard of HandleRoomResume; the recovery token is that of the membership.
HoldsMembership(d, r) ==
    /\ Sender(d)
    /\ IsOpen(r)
    /\ registry.deviceRooms[d] = r
    /\ d \in Members(registry.rooms[r])

\* HandleRoomResume within the recovery window.
ResumeInTime(d, r) ==
    /\ HoldsMembership(d, r)
    /\ registry.rooms[r].members[d] # "lapsed"
    /\ registry' = UpdateRoom(registry, r, ResumeMember(registry.rooms[r], d))
    /\ UNCHANGED <<conn, directory>>

\* HandleRoomResume after the window, before the sweep saw it.
ResumeLate(d, r) ==
    /\ HoldsMembership(d, r)
    /\ registry.rooms[r].members[d] = "lapsed"
    /\ registry' = IF registry.rooms[r].owner = d
                   THEN CloseRooms(registry, {r})
                   ELSE RemoveMember(registry, r,
                                     EraseMember(registry.rooms[r], d), d)
    /\ UNCHANGED <<conn, directory>>

-----------------------------------------------------------------------------
(* Screen sharing in a room.                                               *)

\* An idle or switching lease goes to the caller at once; an active one asks
\* its sharer.  A recovering lease refuses, a repeated request is answered
\* again without effect.
HandleRoomScreenShareRequest(d, r) ==
    LET room == registry.rooms[r]
        held == \/ room.share = "active" /\ room.sharer = d
                \/ room.share = "switching" /\ room.pendingSharer = d
        occupied == room.share = "active" /\ room.sharer # None
    IN /\ Sender(d)
       /\ OnlineMember(r, d)
       /\ room.share # "recovering"
       /\ ~held
       /\ \/ /\ occupied
             /\ room.switchRequester = None
             /\ OnlineMember(r, room.sharer)
             /\ registry' = UpdateRoom(registry, r, RequestSwitch(room, d))
          \/ /\ ~occupied
             /\ room.epoch < MaxEpoch
             /\ registry' = UpdateRoom(registry, r, GrantShare(room, d))
       /\ UNCHANGED <<conn, directory>>

HandleRoomScreenShareReady(d, r, grant) ==
    LET room == registry.rooms[r]
    IN /\ Sender(d)
       /\ OnlineMember(r, d)
       /\ room.share = "switching"
       /\ room.pendingSharer = d
       /\ room.grant = grant
       /\ registry' = UpdateRoom(registry, r, ActivateShare(room, d))
       /\ UNCHANGED <<conn, directory>>

HandleRoomScreenShareSwitchResponse(d, r, accepted) ==
    LET room == registry.rooms[r]
        requester == room.switchRequester
        hands == /\ accepted
                 /\ ~room.switchExpired
                 /\ OnlineMember(r, requester)
    IN /\ Sender(d)
       /\ IsOpen(r)
       /\ room.share = "active"
       /\ room.sharer = d
       /\ requester # None
       /\ \/ /\ hands
             /\ room.epoch < MaxEpoch
             /\ registry' = UpdateRoom(registry, r,
                                GrantShare(CancelSwitch(room), requester))
          \/ /\ ~hands
             /\ registry' = UpdateRoom(registry, r, CancelSwitch(room))
       /\ UNCHANGED <<conn, directory>>

HandleRoomScreenShareSwitchCancel(d, r) ==
    /\ Sender(d)
    /\ IsOpen(r)
    /\ registry.rooms[r].switchRequester = d
    /\ registry' = UpdateRoom(registry, r, CancelSwitch(registry.rooms[r]))
    /\ UNCHANGED <<conn, directory>>

HandleRoomScreenShareStop(d, r, grant) ==
    LET room == registry.rooms[r]
    IN /\ Sender(d)
       /\ IsOpen(r)
       /\ d \in LeaseHolders(room)
       /\ room.grant = grant
       /\ registry' = UpdateRoom(registry, r, ResetShare(room))
       /\ UNCHANGED <<conn, directory>>

-----------------------------------------------------------------------------
(* Control of the shared screen.                                           *)

HandleRoomControlRequest(d, r) ==
    LET room == registry.rooms[r]
    IN /\ Sender(d)
       /\ OnlineMember(r, d)
       /\ room.share = "active"
       /\ room.sharer # None
       /\ OnlineMember(r, room.sharer)
       /\ room.sharer # d
       /\ room.controller = None
       /\ room.pendingController = None
       /\ registry' = UpdateRoom(registry, r, RequestControl(room, d))
       /\ UNCHANGED <<conn, directory>>

HandleRoomControlResponse(d, r, accepted) ==
    LET room == registry.rooms[r]
        grants == /\ accepted
                  /\ ~room.controlExpired
                  /\ OnlineMember(r, room.pendingController)
    IN /\ Sender(d)
       /\ IsOpen(r)
       /\ room.share = "active"
       /\ room.sharer = d
       /\ room.pendingController # None
       /\ registry' = UpdateRoom(registry, r,
                          IF grants THEN GrantControl(room)
                                    ELSE CancelControl(room))
       /\ UNCHANGED <<conn, directory>>

HandleRoomControlRelease(d, r) ==
    LET room == registry.rooms[r]
    IN /\ Sender(d)
       /\ IsOpen(r)
       /\ room.controller # None
       /\ d \in {room.controller, room.sharer}
       /\ registry' = UpdateRoom(registry, r, RevokeControl(room))
       /\ UNCHANGED <<conn, directory>>

-----------------------------------------------------------------------------
(* One-to-one sessions.  A requester is named by the session it opened.    *)

\* A device in a room, or already in a session, refuses; a pending join
\* request does not.
HandleSessionRequest(d, t) ==
    /\ Sender(d)
    /\ t # d
    /\ ~DeviceHasRoom(registry, d)
    /\ ~DeviceHasRoom(registry, t)
    /\ Registered(t)
    /\ CanInsert(directory, d, t)
    /\ directory' = InsertSession(directory, d, t)
    /\ UNCHANGED <<conn, registry>>

\* The answer counts until the sweep removes the request, in time or not.
HandleSessionResponse(t, k, accepted) ==
    /\ Sender(t)
    /\ k \in OpenSessions(directory)
    /\ directory.sessions[k].phase # "active"
    /\ directory.sessions[k].target = t
    /\ directory' = IF accepted /\ Registered(k)
                    THEN ActivateSession(directory, k)
                    ELSE RemoveSessions(directory, {k})
    /\ UNCHANGED <<conn, registry>>

HandleSessionResume(d, k) ==
    /\ Sender(d)
    /\ k \in SessionsOf(directory, d)
    /\ directory.sessions[k].phase = "active"
    /\ SideOf(directory, k, d) # "lapsed"
    /\ directory' = SetSide(directory, k, d, "online")
    /\ UNCHANGED <<conn, registry>>

CloseSession(d, k) ==
    /\ Sender(d)
    /\ k \in SessionsOf(directory, d)
    /\ directory' = RemoveSessions(directory, {k})
    /\ UNCHANGED <<conn, registry>>

-----------------------------------------------------------------------------
(* Deadlines pass.                                                         *)

MemberLapses(d, r) ==
    /\ IsOpen(r)
    /\ registry.rooms[r].members[d] = "away"
    /\ registry' = UpdateRoom(registry, r, LapseMember(registry.rooms[r], d))
    /\ UNCHANGED <<conn, directory>>

JoinExpires(d) ==
    /\ registry.joinRequests[d] # None
    /\ ~registry.joinRequests[d].expired
    /\ registry' = ExpireJoin(registry, d)
    /\ UNCHANGED <<conn, directory>>

SwitchExpires(r) ==
    /\ IsOpen(r)
    /\ registry.rooms[r].switchRequester # None
    /\ ~registry.rooms[r].switchExpired
    /\ registry' = UpdateRoom(registry, r, ExpireSwitch(registry.rooms[r]))
    /\ UNCHANGED <<conn, directory>>

ControlExpires(r) ==
    /\ IsOpen(r)
    /\ registry.rooms[r].pendingController # None
    /\ ~registry.rooms[r].controlExpired
    /\ registry' = UpdateRoom(registry, r, ExpireControl(registry.rooms[r]))
    /\ UNCHANGED <<conn, directory>>

PendingExpires(k) ==
    /\ k \in OpenSessions(directory)
    /\ directory.sessions[k].phase = "pending"
    /\ directory' = ExpirePending(directory, k)
    /\ UNCHANGED <<conn, registry>>

SideLapses(d, k) ==
    /\ k \in SessionsOf(directory, d)
    /\ SideOf(directory, k, d) = "away"
    /\ directory' = SetSide(directory, k, d, "lapsed")
    /\ UNCHANGED <<conn, registry>>

-----------------------------------------------------------------------------
(* The maintenance timer and the end of the process.                       *)

\* SweepIdleClients, apart from the sockets it aborts: those are Disconnect.
Sweep ==
    /\ registry' = SweepRegistry(registry)
    /\ directory' = SweepDirectory(directory)
    /\ UNCHANGED conn

\* Stop: nothing survives the process, which may start again.
Stop ==
    /\ conn' = [d \in Device |-> CASE Registered(d)         -> "offline"
                                  [] conn[d] = "orphaned"  -> "gone"
                                  [] OTHER                 -> conn[d]]
    /\ registry' = EmptyRegistry
    /\ directory' = EmptyDirectory

-----------------------------------------------------------------------------
Connections ==
    \E d \in Device :
        \/ Register(d)
        \/ Disconnect(d)
        \/ DeleteAccount(d)
        \/ OrphanCloses(d)

Membership ==
    \E d \in Device, r \in RoomId :
        \/ \E capacity \in 1 .. MaxMembers + 1 :
              \/ HandleRoomCreate(d, r, capacity)
              \/ HandleRoomSetCapacity(d, r, capacity)
        \/ HandleRoomJoinRequest(d, r)
        \/ \E j \in Device, accepted \in BOOLEAN :
              HandleRoomJoinResponse(d, r, j, accepted)
        \/ HandleRoomLeave(d, r)
        \/ ResumeInTime(d, r)

Sharing ==
    \E d \in Device, r \in RoomId :
        \/ HandleRoomScreenShareRequest(d, r)
        \/ \E grant \in 1 .. MaxEpoch :
              \/ HandleRoomScreenShareReady(d, r, grant)
              \/ HandleRoomScreenShareStop(d, r, grant)
        \/ \E accepted \in BOOLEAN :
              HandleRoomScreenShareSwitchResponse(d, r, accepted)
        \/ HandleRoomScreenShareSwitchCancel(d, r)

Control ==
    \E d \in Device, r \in RoomId :
        \/ HandleRoomControlRequest(d, r)
        \/ \E accepted \in BOOLEAN : HandleRoomControlResponse(d, r, accepted)
        \/ HandleRoomControlRelease(d, r)

SessionHandlers ==
    \E d, k \in Device :
        \/ HandleSessionRequest(d, k)
        \/ \E accepted \in BOOLEAN : HandleSessionResponse(d, k, accepted)
        \/ HandleSessionResume(d, k)
        \/ CloseSession(d, k)

RoomTime ==
    \/ \E d \in Device, r \in RoomId : MemberLapses(d, r)
    \/ \E d \in Device : JoinExpires(d)
    \/ \E r \in RoomId : SwitchExpires(r) \/ ControlExpires(r)

SessionTime ==
    \E k \in Device :
        \/ PendingExpires(k)
        \/ \E d \in Device : SideLapses(d, k)

\* Every resume arrives within its window or after the sweep.
TimelyNext ==
    \/ Connections
    \/ Membership
    \/ Sharing
    \/ Control
    \/ SessionHandlers
    \/ RoomTime
    \/ SessionTime
    \/ Sweep
    \/ Stop

Next == TimelyNext \/ \E d \in Device, r \in RoomId : ResumeLate(d, r)

Spec == Init /\ [][Next]_vars

TimelySpec == Init /\ [][TimelyNext]_vars

-----------------------------------------------------------------------------
(* Time passes and the maintenance timer keeps firing (Lifecycle.cpp starts *)
(* it repeating with the server).  No message, reconnection or answer is    *)
(* ever owed.                                                               *)

DeadlinesPass ==
    /\ \A d \in Device, r \in RoomId : WF_vars(MemberLapses(d, r))
    /\ \A d \in Device : WF_vars(JoinExpires(d))
    /\ \A r \in RoomId : WF_vars(SwitchExpires(r)) /\ WF_vars(ControlExpires(r))
    /\ \A k \in Device : WF_vars(PendingExpires(k))
    /\ \A d, k \in Device : WF_vars(SideLapses(d, k))

Fairness == DeadlinesPass /\ WF_vars(Sweep)

FairSpec == Spec /\ Fairness
=============================================================================
