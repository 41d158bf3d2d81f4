----------------------- MODULE SignalServerProperties -----------------------
(***************************************************************************)
(* What the signaling server's state must satisfy.  "In every behaviour"   *)
(* below means under Spec, whatever the configuration; the stronger        *)
(* properties hold when every resume is timely (TimelySpec), and some of   *)
(* these only when account deletion is not configured.                     *)
(***************************************************************************)
EXTENDS SignalServer, RoomInvariants

\* The server's maps hold values of their declared types.
TypeOK ==
    /\ conn \in [Device -> Connection]
    /\ registry \in Registry
    /\ directory \in Directory

Rooms == registry.rooms

Sessions == directory.sessions

OpenRoomIds == OpenRooms(registry)

-----------------------------------------------------------------------------
(* Invariants of every behaviour.                                          *)

\* The indexes tell the same story as the records, through every leave,
\* eviction, late resume, account deletion and close: deviceRooms_ and the
\* member lists, deviceSessions_ and the two ends of each session, and the two
\* maps of join requests, whose requests are for an open room by a device that
\* has none.  A disconnect finds what it must clean up only through them.
IndexesAgree ==
    /\ RoomIndexOf(registry)
    /\ SessionIndexOf(directory)
    /\ JoinsOf(registry)

\* A device is never in a room and in a session at once, although a session
\* request is accepted from a device whose join request is undecided.
OneEngagement ==
    \A d \in Device :
        ~(DeviceHasRoom(registry, d) /\ DeviceHasSession(directory, d))

\* Every room is sound: its owner belongs to it and it is never fuller than its
\* capacity, whichever requests the owner accepts and however it shrinks the
\* capacity in between; every two members have a peer connection assigned; the
\* fields of the lease fit its state and the grant that can confirm or stop it
\* is the one its epoch issued; and control, or a request for it or for the
\* screen, exists only while somebody shares, who is not the one that asks.
RoomsSound ==
    \A r \in OpenRoomIds :
        /\ WithinCapacity(Rooms[r])
        /\ Paired(Rooms[r])
        /\ LeaseShape(Rooms[r])
        /\ ControlShape(Rooms[r])

-----------------------------------------------------------------------------
(* Invariants of the behaviours in which every resume is timely.           *)

\* A room has nothing of those who left it: its peer connections are those
\* between its members, no others, the lease names members only, the control
\* lease too, and a sharer whose link is down is exactly what a recovering
\* lease means.
OnlyMembersHold ==
    \A r \in OpenRoomIds :
        LET room == Rooms[r]
        IN /\ room.pairs = {p \in SUBSET Members(room) : Cardinality(p) = 2}
           /\ LeaseHolders(room) \union ({room.controller} \ {None})
                  \subseteq Members(room)
           /\ room.share = "active" => room.members[room.sharer] = "online"
           /\ room.share = "recovering" =>
                  room.members[room.sharer] \in {"away", "lapsed"}

\* A pending control or takeover request is between two members that are
\* both online: whoever drops out first takes the request along, so it never
\* waits for an answer that cannot come.  (Without account deletion.)
RequestsAnswerable ==
    \A r \in OpenRoomIds : \A d \in Device :
        d \in {Rooms[r].pendingController, Rooms[r].switchRequester} =>
            OnlineMember(r, d) /\ OnlineMember(r, Rooms[r].sharer)

\* Whoever a room or a session counts as online has a registered socket, and
\* so has whoever waits to be let into a room.  (Without account deletion.)
OnlineMeansConnected ==
    /\ \A r \in OpenRoomIds : \A d \in Members(Rooms[r]) :
           Rooms[r].members[d] = "online" => Registered(d)
    /\ \A k \in OpenSessions(directory) : \A d \in Ends(directory, k) :
           SideOf(directory, k, d) = "online" => Registered(d)
    /\ \A d \in registry.pendingJoins : Registered(d)

\* A lease in recovery waits for a member: the refusal that other members
\* get meanwhile says that the current sharer is recovering.
RecoveringSharerIsMember ==
    \A r \in OpenRoomIds :
        Rooms[r].share = "recovering" => Rooms[r].sharer \in Members(Rooms[r])

-----------------------------------------------------------------------------
(* Action properties.                                                      *)

\* Room r is the same room before and after the step.
Persists(r) == IsOpen(r) /\ (IsOpen(r))'

\* While a room lives its epoch never falls, and whenever the lease gets a
\* new holder or a new grant the epoch has moved: clients order the room
\* snapshots and grants they receive by it.
EpochFencesLease ==
    [][\A r \in RoomId : Persists(r) =>
          LET before == Rooms[r]
              after == Rooms'[r]
          IN /\ after.epoch >= before.epoch
             /\ \/ LeaseHolders(after) \subseteq LeaseHolders(before)
                \/ after.epoch > before.epoch
             /\ after.grant \notin {0, before.grant} =>
                    after.epoch > before.epoch]_vars

\* What device d itself may do that ends its own screen share in room r.
GivesUpShare(d, r) ==
    \/ \E grant \in 1 .. MaxEpoch : HandleRoomScreenShareStop(d, r, grant)
    \/ HandleRoomScreenShareSwitchResponse(d, r, TRUE)
    \/ HandleRoomLeave(d, r)
    \/ DeleteAccount(d)
    \/ Rooms[r].members[d] # "online"
       /\ \E s \in RoomId :
             \/ HandleRoomJoinRequest(d, s)
             \/ \E capacity \in 2 .. MaxMembers : HandleRoomCreate(d, s, capacity)

\* The lease leaves a sharer only by what the sharer itself does (stop, leave,
\* agree to a takeover, start afresh, lose its account) or by the sweep once
\* its recovery window has passed: no other member can take a shared screen.
SharerKeepsLease ==
    [][\A r \in RoomId :
          LET sharer == Rooms[r].sharer
          IN /\ Persists(r)
             /\ sharer # None
             /\ Rooms'[r].sharer # sharer
             => \/ GivesUpShare(sharer, r)
                \/ Sweep /\ Rooms[r].members[sharer] = "lapsed"]_vars

\* A member within its recovery window and without a socket keeps its place:
\* no other member's message and no sweep removes it unless the room closes.
RecoverySlotKept ==
    [][\A r \in RoomId, d \in Device :
          /\ Persists(r)
          /\ Rooms[r].members[d] = "away"
          /\ conn[d] = "offline"
          => Rooms'[r].members[d] \in {"away", "lapsed"}]_vars

\* Membership of an existing room is gained in one way: its owner accepts, and
\* that acceptance finds all that it relies on still true.  The owner has not
\* lost its connection, the request has not run out, was not replaced by one for
\* another room and was not answered before; the requester is connected and has
\* since entered neither a room nor a session; and the room has not filled up.
AdmittedByOwner ==
    [][\A r \in RoomId, d \in Device :
          LET room == Rooms[r]
          IN /\ Persists(r)
             /\ d \notin Members(room)
             /\ d \in Members(Rooms'[r])
             => /\ HandleRoomJoinResponse(room.owner, r, d, TRUE)
                /\ room.members[room.owner] = "online"
                /\ registry.joinRequests[d] = [room |-> r, expired |-> FALSE]
                /\ registry'.joinRequests[d] = None
                /\ Registered(d)
                /\ \A s \in OpenRooms(registry) : d \notin Members(Rooms[s])
                /\ SessionsOf(directory, d) = {}
                /\ Cardinality(Members(room)) < room.capacity]_vars

-----------------------------------------------------------------------------
(* Liveness, from the passing of time and the maintenance timer alone.      *)

Pending(k) == k \in OpenSessions(directory) /\ Sessions[k].phase # "active"

\* No request waits for ever: one to be let into a room is answered, withdrawn
\* with its socket, or times out; one for the screen or for control does not
\* block the room's next ones, and one for a session not the two devices.
RequestsEnd ==
    /\ \A d \in Device :
           d \in registry.pendingJoins ~> d \notin registry.pendingJoins
    /\ \A r \in RoomId :
        /\ IsOpen(r) /\ Rooms[r].switchRequester # None
               ~> ~IsOpen(r) \/ Rooms[r].switchRequester = None
        /\ IsOpen(r) /\ Rooms[r].pendingController # None
               ~> ~IsOpen(r) \/ Rooms[r].pendingController = None
    /\ \A k \in Device : Pending(k) ~> ~Pending(k)

Adrift(d, r) == IsOpen(r) /\ Rooms[r].members[d] \in {"away", "lapsed"}

Suspended(d, k) ==
    k \in SessionsOf(directory, d) /\ SideOf(directory, k, d) # "online"

\* Whoever lost its socket comes back or loses its place: a member leaves the
\* room, which goes with its owner, and a session does not stay suspended.
LostLinksSettle ==
    /\ \A d \in Device, r \in RoomId : Adrift(d, r) ~> ~Adrift(d, r)
    /\ \A d, k \in Device : Suspended(d, k) ~> ~Suspended(d, k)

\* A lease that waits for a lost sharer becomes active again or ends, unless
\* the sharer comes late and is erased from the room (RecoveringSharerIsMember).
RecoveryEnds ==
    \A r \in RoomId :
        /\ IsOpen(r)
        /\ Rooms[r].share = "recovering"
        /\ Adrift(Rooms[r].sharer, r)
        ~> \/ ~IsOpen(r)
           \/ Rooms[r].share # "recovering"
           \/ Rooms[r].sharer \notin Members(Rooms[r])

-----------------------------------------------------------------------------
(* The abstract specifications the server implements.                      *)

\* Where device d is: its room, else the other end of its session.
Place(d) ==
    CASE DeviceHasRoom(registry, d)     -> registry.deviceRooms[d]
      [] DeviceHasSession(directory, d) ->
             LET k == directory.deviceSessions[d]
             IN CHOOSE p \in Ends(directory, k) : p # d
      [] OTHER                          -> None

Engagements == INSTANCE Engagement WITH place <- [d \in Device |-> Place(d)]

\* The server's rooms and sessions, as its two indexes show them, engage
\* devices the way Engagement allows.
ImplementsEngagement == Engagements!Spec

LeasePhase(r) ==
    IF ~IsOpen(r) THEN "closed"
    ELSE CASE Rooms[r].share = "idle"      -> "free"
           [] Rooms[r].share = "switching" -> "offered"
           [] OTHER                        -> "held"

LeaseHolder(r) ==
    IF IsOpen(r) /\ LeaseHolders(Rooms[r]) # {}
    THEN CHOOSE d \in LeaseHolders(Rooms[r]) : TRUE
    ELSE None

Lease(r) == INSTANCE ScreenLease WITH
    phase      <- LeasePhase(r),
    holder     <- LeaseHolder(r),
    controller <- IF IsOpen(r) THEN Rooms[r].controller ELSE None,
    epoch      <- IF IsOpen(r) THEN Rooms[r].epoch ELSE 0

\* In every room the screen is leased the way ScreenLease allows, a sharer
\* that is recovering still holding its lease.
ImplementsScreenLease ==
    /\ \A r \in RoomId : Lease(r)!Init
    /\ [][\A r \in RoomId : [Lease(r)!Next]_(Lease(r)!lease)]_vars
=============================================================================
