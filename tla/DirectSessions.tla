--------------------------- MODULE DirectSessions ---------------------------
(***************************************************************************)
(* The registry of one-to-one sessions (class DirectSessionRegistry) as a  *)
(* record of its two maps, with the updates the session handlers, the      *)
(* disconnect handler and the sweeps make to it.  A session id is a fresh  *)
(* UUID; as a device takes part in at most one session, the record names   *)
(* a session by its requester.                                             *)
(***************************************************************************)
EXTENDS ServerIds

SideLink == {"online", "away", "lapsed"}

\* "expired" is the pending phase once pendingExpiresAtMs has passed.
Phase == {"pending", "expired", "active"}

Session == [target        : Device,
            phase         : Phase,
            requesterLink : SideLink,
            targetLink    : SideLink]

ASSUME SessionAssumption == None \notin Session

Directory == [sessions       : [Device -> Session \union {None}],
              deviceSessions : [Device -> DeviceOrNone]]

EmptyDirectory == [sessions       |-> [d \in Device |-> None],
                   deviceSessions |-> [d \in Device |-> None]]

DeviceHasSession(dir, d) == dir.deviceSessions[d] # None

OpenSessions(dir) == {k \in Device : dir.sessions[k] # None}

\* The two ends of session k.
Ends(dir, k) == {k, dir.sessions[k].target}

SessionsOf(dir, d) == {k \in OpenSessions(dir) : d \in Ends(dir, k)}

\* DirectSessionRegistry::Insert refuses when an end is already taken; the
\* mutant forgets the target.
CanInsertRequester(dir, requester, target) ==
    ~DeviceHasSession(dir, requester)

CanInsert(dir, requester, target) ==
    /\ dir.sessions[requester] = None
    /\ ~DeviceHasSession(dir, requester)
    /\ ~DeviceHasSession(dir, target)

InsertSession(dir, requester, target) ==
    [dir EXCEPT
        !.sessions[requester] = [target        |-> target,
                                 phase         |-> "pending",
                                 requesterLink |-> "online",
                                 targetLink    |-> "online"],
        !.deviceSessions[requester] = requester,
        !.deviceSessions[target] = requester]

\* The index entries of session k, and a mutant that forgets the target's.
RequesterEntry(dir, k) == {k}

IndexEntries(dir, k) == {d \in Ends(dir, k) : dir.deviceSessions[d] = k}

\* DirectSessionRegistry::Remove for every session of K; an index entry is
\* removed only while it still names the removed session.
RemoveSessions(dir, K) ==
    LET freed == UNION {IndexEntries(dir, k) : k \in K \intersect OpenSessions(dir)}
    IN [dir EXCEPT
           !.sessions = [k \in Device |-> IF k \in K THEN None ELSE @[k]],
           !.deviceSessions = [d \in Device |->
                                  IF d \in freed THEN None ELSE @[d]]]

ActivateSession(dir, k) == [dir EXCEPT !.sessions[k].phase = "active"]

\* The side of device d in session k gets link l.
SetSide(dir, k, d, l) ==
    IF k = d THEN [dir EXCEPT !.sessions[k].requesterLink = l]
             ELSE [dir EXCEPT !.sessions[k].targetLink = l]

SideOf(dir, k, d) == IF k = d THEN dir.sessions[k].requesterLink
                              ELSE dir.sessions[k].targetLink

LinkLost(link) == IF link = "online" THEN "away" ELSE link

\* Session k, an active session of d, after d's socket closed.
SuspendedSide(dir, k, d) ==
    IF k = d THEN [dir.sessions[k] EXCEPT !.requesterLink = LinkLost(@)]
             ELSE [dir.sessions[k] EXCEPT !.targetLink = LinkLost(@)]

\* MarkDeviceDisconnected on the sessions: an active one keeps d's place for
\* the recovery window, a pending one ends.
Suspend(dir, d) ==
    LET mine  == SessionsOf(dir, d)
        ended == {k \in mine : dir.sessions[k].phase # "active"}
    IN RemoveSessions([dir EXCEPT !.sessions = [k \in Device |->
                          IF k \in mine \ ended THEN SuspendedSide(dir, k, d)
                                                ELSE @[k]]],
                      ended)

ExpirePending(dir, k) == [dir EXCEPT !.sessions[k].phase = "expired"]

SweepPendingSessions(dir) ==
    RemoveSessions(dir, {k \in OpenSessions(dir) :
                            dir.sessions[k].phase = "expired"})

SweepRecoverySessions(dir) ==
    RemoveSessions(dir, {k \in OpenSessions(dir) :
        /\ dir.sessions[k].phase = "active"
        /\ "lapsed" \in {dir.sessions[k].requesterLink,
                         dir.sessions[k].targetLink}})

SweepDirectory(dir) == SweepRecoverySessions(SweepPendingSessions(dir))
=============================================================================
