---------------------------- MODULE DirectCalls ----------------------------
(***************************************************************************)
(* One-to-one calls end to end: the engines of the devices                 *)
(* (InProcessSessionEngine), the controller each has for its peer          *)
(* connection, the server's sessions (DirectSessions), and the signaling   *)
(* connections between them, which break and come back.                    *)
(*                                                                         *)
(* The messages on a connection arrive in order or are lost with it.  Both *)
(* ends of a broken connection notice it on their own, the server at the   *)
(* latest when the device registers again.  A call is numbered when it is  *)
(* placed and keeps the number as its session id.  What two peer           *)
(* connections do to each other is reduced to the states their controllers *)
(* publish; SendQueue and IceRestart look inside.                          *)
(***************************************************************************)
EXTENDS DirectSessions, Sequences, SequencesExt

CONSTANTS Caller,    \* the devices whose users place calls
          MaxCalls,  \* calls placed
          MaxCuts,   \* connections that break
          Hasty      \* whether what follows a call may overtake its closing

ASSUME DirectCallsAssumption ==
    /\ Caller \subseteq Device
    /\ MaxCalls \in Nat /\ MaxCuts \in Nat
    /\ Hasty \in BOOLEAN

VARIABLES engine,      \* what each engine knows of its direct session
          controller,  \* sessionController_ of each engine
          link,        \* the signaling connection, as the client sees it
          attached,    \* the devices in the server's devices_
          up, down,    \* messages under way to the server and to the client
          directory,   \* directSessions_ of the server
          ids,         \* the id of the session a requester has there
          calls, cuts  \* how many there were

vars == <<engine, controller, link, attached, up, down, directory, ids, calls, cuts>>

Id == 1 .. MaxCalls

\* The fields of DirectSessionCoordinator and of the snapshot.
Engine == [state : {"ready", "awaiting", "connecting", "active", "failed"},
           session : Id \union {0}, offerer : BOOLEAN,
           closeRequested : BOOLEAN, endSignalSent : BOOLEAN,
           cancelWhenKnown : BOOLEAN, serverActive : BOOLEAN,
           recoveryPending : BOOLEAN, online : BOOLEAN]

\* ResetSessionStateLocked.
Reset(e) == [state |-> "ready", session |-> 0, offerer |-> FALSE,
             closeRequested |-> FALSE, endSignalSent |-> FALSE,
             cancelWhenKnown |-> FALSE, serverActive |-> FALSE,
             recoveryPending |-> FALSE, online |-> e.online]

\* "closing" lasts until the callback for the closed state, "closed" is after.
ControllerPhase == {"open", "connected", "recovering", "closing", "closed"}

Controller == [session : Id, offerer : BOOLEAN, phase : ControllerPhase,
               closePosted : BOOLEAN]

ASSUME NoneIsNoController == None \notin Controller

Gone == {"closing", "closed"}

PhaseOf(d) == IF controller[d] = None THEN "none" ELSE controller[d].phase

\* Close was called, and its callback is still to come.
IsClosing(d) == \/ PhaseOf(d) = "closing"
                \/ PhaseOf(d) \notin {"none", "closed"} /\ controller[d].closePosted

Message(type, id, ok) == [type |-> type, id |-> id, ok |-> ok]

TypeOK ==
    /\ engine \in [Device -> Engine]
    /\ controller \in [Device -> Controller \union {None}]
    /\ link \in [Device -> {"up", "cut", "down"}]
    /\ attached \subseteq Device
    /\ directory \in Directory
    /\ ids \in [Device -> Id \union {0}]

Init ==
    /\ engine = [d \in Device |-> Reset([online |-> TRUE])]
    /\ controller = [d \in Device |-> None]
    /\ link = [d \in Device |-> "up"]
    /\ attached = Device
    /\ up = [d \in Device |-> <<>>]
    /\ down = [d \in Device |-> <<>>]
    /\ directory = EmptyDirectory
    /\ ids = [d \in Device |-> 0]
    /\ calls = 0
    /\ cuts = 0

-----------------------------------------------------------------------------
(* The client's side of a connection.                                      *)

server == <<attached, directory, ids>>

Become(d, e) == engine' = [engine EXCEPT ![d] = e]

\* A registered client accepts what it is given; a cut connection loses it.
Send(d, messages) ==
    up' = IF link[d] = "up" THEN [up EXCEPT ![d] = @ \o messages] ELSE up

Hears(d, type) == down[d] # <<>> /\ Head(down[d]).type = type

Heard(d) == Head(down[d])

Hear(d) == down' = [down EXCEPT ![d] = Tail(@)]

\* SessionControllerBase::Close, a task for the executor.
Closing(c) ==
    IF c = None THEN None
    ELSE [c EXCEPT !.closePosted = @ \/ c.phase \notin Gone]

Close(d) == controller' = [controller EXCEPT ![d] = Closing(@)]

\* DisposeClosedSession.  If the controller has just closed, it takes the
\* observer away before the callback, and the callback with it.
DisposeClosedSession(d) ==
    \E disposes \in {PhaseOf(d) = "closed"} \union
                    {PhaseOf(d) = "closed" \/ (Hasty /\ PhaseOf(d) = "closing")} :
        controller' = [controller EXCEPT ![d] = IF disposes THEN None ELSE @]

\* Nothing is left of an earlier call of d, on its connection or in its engine.
Settled(d) ==
    /\ up[d] = <<>> /\ down[d] = <<>>
    /\ PhaseOf(d) \in {"none", "closed"}

-----------------------------------------------------------------------------
(* Commands of the user.                                                   *)

ConnectDirectDevice(d, t) ==
    /\ d \in Caller /\ t # d
    /\ calls < MaxCalls
    /\ engine[d].state = "ready" /\ engine[d].online
    /\ ~ Hasty => Settled(d)
    /\ DisposeClosedSession(d)
    /\ Become(d, [Reset(engine[d]) EXCEPT !.state = "connecting",
                                          !.offerer = TRUE])
    /\ Send(d, <<[type |-> "request", id |-> calls + 1, to |-> t]>>)
    /\ calls' = calls + 1
    /\ UNCHANGED <<link, down, server, cuts>>

AcceptIncomingSession(d) ==
    /\ engine[d].state = "awaiting" /\ engine[d].online
    /\ Become(d, [engine[d] EXCEPT !.state = "connecting"])
    /\ Send(d, <<Message("response", engine[d].session, TRUE)>>)
    /\ UNCHANGED <<controller, link, down, server, calls, cuts>>

RejectIncomingSession(d) ==
    /\ engine[d].state = "awaiting" /\ engine[d].online
    /\ Become(d, Reset(engine[d]))
    /\ Send(d, <<Message("response", engine[d].session, FALSE)>>)
    /\ UNCHANGED <<controller, link, down, server, calls, cuts>>

\* The id to end the call by is still to come.
IdUnknown(e) == e.session = 0 /\ e.state = "connecting" /\ e.offerer

\* Without a controller only a call that is still being set up can be ended.
Endable(d) ==
    controller[d] # None \/ engine[d].state \in {"connecting", "awaiting"}

\* The engine is ready at once if no controller is to be closed, or if the
\* server cannot be told.
Resets(d) == controller[d] = None \/ (engine[d].session # 0 /\ ~ engine[d].online)

Disconnect(d) ==
    LET e     == [engine[d] EXCEPT !.closeRequested = TRUE]
        known == [e EXCEPT !.endSignalSent = e.session # 0]
        ends  == e.session # 0 /\ e.online /\ Endable(d)
    IN  /\ e.state # "ready" /\ ~ e.endSignalSent
        /\ Close(d)
        /\ Become(d, IF IdUnknown(e) THEN [e EXCEPT !.cancelWhenKnown = TRUE]
                     ELSE IF Endable(d) /\ Resets(d) THEN Reset(e) ELSE known)
        /\ Send(d, IF ends THEN <<Message("end", e.session, TRUE)>> ELSE <<>>)
        /\ UNCHANGED <<link, down, server, calls, cuts>>

-----------------------------------------------------------------------------
(* Signaling callbacks.                                                    *)

OnDisconnected(d) ==
    /\ link[d] = "cut"
    /\ link' = [link EXCEPT ![d] = "down"]
    /\ Become(d, [engine[d] EXCEPT
                     !.online = FALSE,
                     !.recoveryPending =
                         @ \/ (engine[d].serverActive /\ controller[d] # None)])
    /\ UNCHANGED <<controller, up, down, server, calls, cuts>>

OnDeviceRegistered(d) ==
    LET e       == engine[d]
        resumes == e.recoveryPending /\ e.serverActive
                   /\ controller[d] # None /\ e.session # 0
    IN  /\ Hears(d, "registered") /\ Hear(d)
        /\ Become(d, [e EXCEPT !.online = TRUE])
        /\ Send(d, IF resumes THEN <<Message("resume", e.session, TRUE)>> ELSE <<>>)
        /\ UNCHANGED <<controller, link, server, calls, cuts>>

\* The device may ask its user, accept at once (an owned device, a valid
\* verification code), or refuse an invalid code.
OnIncomingSessionRequest(d) ==
    /\ Hears(d, "request") /\ Hear(d)
    /\ DisposeClosedSession(d)
    /\ \E manner \in {"ask", "accept", "refuse"} :
          LET busy == engine[d].state # "ready"
              mine == [Reset(engine[d]) EXCEPT !.session = Heard(d).id]
          IN  IF busy \/ manner = "refuse"
              THEN /\ Send(d, <<Message("response", Heard(d).id, FALSE)>>)
                   /\ UNCHANGED engine
              ELSE IF manner = "ask"
              THEN /\ Become(d, [mine EXCEPT !.state = "awaiting"])
                   /\ UNCHANGED up
              ELSE /\ Become(d, [mine EXCEPT !.state = "connecting"])
                   /\ Send(d, <<Message("response", Heard(d).id, TRUE)>>)
    /\ UNCHANGED <<link, server, calls, cuts>>

\* A message of the session the engine connects, or of the one it does not
\* know the id of yet.
Expected(d) == /\ engine[d].state = "connecting"
               /\ engine[d].session \in {0, Heard(d).id}

OnSessionResponse(d) ==
    /\ Hears(d, "response") /\ Hear(d)
    /\ IF Expected(d)
       THEN Become(d, IF Heard(d).ok
                      THEN [engine[d] EXCEPT !.session = Heard(d).id]
                      ELSE Reset(engine[d]))
       ELSE UNCHANGED engine
    /\ UNCHANGED <<controller, link, up, server, calls, cuts>>

\* The mutant forgets that the user hung up before the id was known.
ForgetCancel(d) == FALSE

CancelKnown(d) == engine[d].cancelWhenKnown

OnSessionPending(d) ==
    /\ Hears(d, "pending") /\ Hear(d)
    /\ IF ~ (Expected(d) /\ engine[d].offerer) THEN UNCHANGED <<engine, up>>
       ELSE IF CancelKnown(d)
       THEN /\ Become(d, Reset(engine[d]))
            /\ Send(d, IF engine[d].online
                       THEN <<Message("end", Heard(d).id, TRUE)>> ELSE <<>>)
       ELSE /\ Become(d, [engine[d] EXCEPT !.session = Heard(d).id])
            /\ UNCHANGED up
    /\ UNCHANGED <<controller, link, server, calls, cuts>>

NewController(d) == [session |-> Heard(d).id, offerer |-> engine[d].offerer,
                     phase |-> "open", closePosted |-> FALSE]

OnSessionReady(d) ==
    /\ Hears(d, "ready") /\ Hear(d)
    /\ IF Expected(d)
       THEN /\ Become(d, [engine[d] EXCEPT !.session = Heard(d).id,
                                           !.serverActive = TRUE,
                                           !.recoveryPending = FALSE])
            /\ controller' = [controller EXCEPT ![d] =
                                 IF @ = None THEN NewController(d) ELSE @]
       ELSE UNCHANGED <<engine, controller>>
    /\ UNCHANGED <<link, up, server, calls, cuts>>

OnSessionResumed(d) ==
    /\ Hears(d, "resumed") /\ Hear(d)
    /\ IF engine[d].session = Heard(d).id /\ controller[d] # None
       THEN Become(d, [engine[d] EXCEPT !.recoveryPending = FALSE,
                                        !.serverActive = TRUE])
       ELSE UNCHANGED engine
    /\ UNCHANGED <<controller, link, up, server, calls, cuts>>

\* "ok" says that the device itself ended the session.
OnSessionEnded(d) ==
    /\ Hears(d, "ended") /\ Hear(d)
    /\ IF engine[d].session = Heard(d).id
       THEN Become(d, IF controller[d] = None THEN Reset(engine[d])
                      ELSE [engine[d] EXCEPT !.closeRequested = @ /\ Heard(d).ok,
                                             !.serverActive = FALSE])
            /\ Close(d)
       ELSE UNCHANGED <<engine, controller>>
    /\ UNCHANGED <<link, up, server, calls, cuts>>

\* A request the server refuses: the error names no session.
OnRequestRefused(d) ==
    /\ Hears(d, "refused") /\ Hear(d)
    /\ Become(d, IF /\ engine[d].state = "connecting" /\ engine[d].offerer
                    /\ controller[d] = None /\ ~ engine[d].serverActive
                 THEN Reset(engine[d]) ELSE engine[d])
    /\ UNCHANGED <<controller, link, up, server, calls, cuts>>

OnResumeRejected(d) ==
    /\ Hears(d, "resume_rejected") /\ Hear(d)
    /\ IF controller[d] # None
       THEN /\ Become(d, [engine[d] EXCEPT !.recoveryPending = FALSE,
                                           !.serverActive = FALSE,
                                           !.closeRequested = FALSE])
            /\ Close(d)
       ELSE UNCHANGED <<engine, controller>>
    /\ UNCHANGED <<link, up, server, calls, cuts>>

-----------------------------------------------------------------------------
(* The controller, and what the engine makes of the states it publishes    *)
(* (OnControllerSnapshot).                                                 *)

Step(d, from, to) ==
    /\ PhaseOf(d) \in from
    /\ controller' = [controller EXCEPT ![d].phase = to]

State(d, state) == Become(d, [engine[d] EXCEPT !.state = state])

\* Two peer connections of one session find each other.
Connected(d) ==
    /\ Step(d, {"open", "recovering"}, "connected")
    /\ \E p \in Device \ {d} : /\ controller[p] # None
                               /\ controller[p].session = controller[d].session
                               /\ controller[p].phase \notin Gone
    /\ State(d, "active")
    /\ UNCHANGED <<link, up, down, server, calls, cuts>>

Disconnected(d) ==
    /\ Step(d, {"connected"}, "recovering")
    /\ State(d, "connecting")
    /\ UNCHANGED <<link, up, down, server, calls, cuts>>

\* Fail: an operation failed or a timeout passed.
Fail(d) ==
    /\ Step(d, {"open", "recovering"}, "closing")
    /\ State(d, "failed")
    /\ UNCHANGED <<link, up, down, server, calls, cuts>>

CloseOnExecutor(d) ==
    /\ controller[d] # None /\ controller[d].closePosted
    /\ controller' = [controller EXCEPT ![d].closePosted = FALSE,
                         ![d].phase = IF @ \in Gone THEN @ ELSE "closing"]
    /\ UNCHANGED <<engine, link, up, down, server, calls, cuts>>

\* The mutant leaves the session to the server when the connection failed.
NeverCloses(e) == FALSE

ClosesSession(e) == ~ e.closeRequested /\ e.serverActive /\ e.session # 0
                    /\ ~ e.endSignalSent

OnControllerClosed(d) ==
    /\ Step(d, {"closing"}, "closed")
    /\ Become(d, Reset(engine[d]))
    /\ Send(d, IF ClosesSession(engine[d]) /\ engine[d].online
               THEN <<Message("end", engine[d].session, TRUE)>> ELSE <<>>)
    /\ UNCHANGED <<link, down, server, calls, cuts>>

-----------------------------------------------------------------------------
(* The server.                                                             *)

client == <<engine, controller, link, calls, cuts>>

\* What the server sends to the devices of to reaches those it knows, over a
\* connection that is whole.
Tell(out) ==
    down' = [d \in Device |-> IF d \in attached /\ link[d] = "up"
                              THEN down[d] \o out[d] ELSE down[d]]

To(d, message) == [x \in Device |-> IF x = d THEN <<message>> ELSE <<>>]

Both(o, p) == [x \in Device |-> o[x] \o p[x]]

Arrives(d, type) == up[d] # <<>> /\ Head(up[d]).type = type

Arrived(d) == Head(up[d])

Take(d) == up' = [up EXCEPT ![d] = Tail(@)]

\* The sessions called id: one or none.
Named(id) == {k \in OpenSessions(directory) : ids[k] = id}

HandleSessionRequest(d) ==
    LET m == Arrived(d) IN
    /\ Arrives(d, "request") /\ Take(d)
    /\ IF m.to \in attached /\ CanInsert(directory, d, m.to)
       THEN /\ directory' = InsertSession(directory, d, m.to)
            /\ ids' = [ids EXCEPT ![d] = m.id]
            /\ Tell(Both(To(d, Message("pending", m.id, TRUE)),
                         To(m.to, Message("request", m.id, TRUE))))
       ELSE /\ Tell(To(d, Message("refused", 0, FALSE)))
            /\ UNCHANGED <<directory, ids>>
    /\ UNCHANGED <<client, attached>>

HandleSessionResponse(d) ==
    LET m    == Arrived(d)
        mine == {k \in Named(m.id) : /\ directory.sessions[k].phase # "active"
                                     /\ directory.sessions[k].target = d}
    IN  /\ Arrives(d, "response") /\ Take(d)
        /\ \/ /\ mine = {}
              /\ UNCHANGED <<directory, down>>
           \/ \E k \in mine :
                /\ directory' = IF m.ok /\ k \in attached
                                THEN ActivateSession(directory, k)
                                ELSE RemoveSessions(directory, {k})
                /\ Tell(IF ~ m.ok \/ k \notin attached THEN To(k, m)
                        ELSE Both(To(k, m), Both(To(k, Message("ready", m.id, TRUE)),
                                                 To(d, Message("ready", m.id, TRUE)))))
        /\ UNCHANGED <<client, attached, ids>>

\* SendSessionEnded to the devices of D, of which d ended the session.
Ended(id, D, d) == [x \in Device |-> IF x \in D THEN <<Message("ended", id, x = d)>>
                                     ELSE <<>>]

CloseSession(d) ==
    LET m == Arrived(d) IN
    /\ Arrives(d, "end") /\ Take(d)
    /\ IF Named(m.id) = {}
       THEN Tell(Ended(m.id, {d}, d)) /\ UNCHANGED directory
       ELSE \E k \in Named(m.id) :
              /\ Tell(Ended(m.id, Ends(directory, k), d))
              /\ directory' = RemoveSessions(directory, {k})
    /\ UNCHANGED <<client, attached, ids>>

\* A resume after the window is refused although the sweep is still to come.
HandleSessionResume(d) ==
    LET id   == Arrived(d).id
        mine == {k \in Named(id) : /\ directory.sessions[k].phase = "active"
                                   /\ d \in Ends(directory, k)
                                   /\ SideOf(directory, k, d) # "lapsed"}
    IN  /\ Arrives(d, "resume") /\ Take(d)
        /\ \/ /\ mine = {}
              /\ Tell(To(d, Message("resume_rejected", id, FALSE)))
              /\ UNCHANGED directory
           \/ \E k \in mine :
                /\ directory' = SetSide(directory, k, d, "online")
                /\ Tell(To(d, Message("resumed", id, TRUE)))
        /\ UNCHANGED <<client, attached, ids>>

\* MarkDeviceDisconnected tells the other end of each session that ends by it.
EndedByLoss(d) ==
    [x \in Device |->
        SetToSeq({Message("ended", ids[k], FALSE) :
                     k \in {j \in SessionsOf(directory, d) :
                               /\ directory.sessions[j].phase # "active"
                               /\ x # d /\ x \in Ends(directory, j)}})]

OnClientDisconnected(d) ==
    /\ link[d] # "up" /\ d \in attached
    /\ attached' = attached \ {d}
    /\ directory' = Suspend(directory, d)
    /\ Tell(EndedByLoss(d))
    /\ UNCHANGED <<client, up, ids>>

\* The client is connected again; if the server still has the device, it takes
\* the old connection for lost first.
HandleRegister(d) ==
    /\ link[d] = "down"
    /\ ~ Hasty => ~ IsClosing(d)
    /\ link' = [link EXCEPT ![d] = "up"]
    /\ attached' = attached \union {d}
    /\ directory' = IF d \in attached THEN Suspend(directory, d) ELSE directory
    /\ down' = [x \in Device |->
                   IF x = d THEN <<Message("registered", 0, TRUE)>>
                   ELSE IF d \in attached /\ x \in attached /\ link[x] = "up"
                   THEN down[x] \o EndedByLoss(d)[x] ELSE down[x]]
    /\ UNCHANGED <<engine, controller, up, ids, calls, cuts>>

Cut(d) ==
    /\ link[d] = "up" /\ cuts < MaxCuts
    /\ link' = [link EXCEPT ![d] = "cut"]
    /\ up' = [up EXCEPT ![d] = <<>>]
    /\ down' = [down EXCEPT ![d] = <<>>]
    /\ cuts' = cuts + 1
    /\ UNCHANGED <<engine, controller, server, calls>>

PendingExpires(k) ==
    /\ k \in OpenSessions(directory) /\ directory.sessions[k].phase = "pending"
    /\ directory' = ExpirePending(directory, k)
    /\ UNCHANGED <<client, attached, ids, up, down>>

RecoveryWindowEnds(d) ==
    /\ \E k \in SessionsOf(directory, d) :
          /\ SideOf(directory, k, d) = "away"
          /\ directory' = SetSide(directory, k, d, "lapsed")
    /\ UNCHANGED <<client, attached, ids, up, down>>

Lapsed(k) == {d \in Ends(directory, k) : SideOf(directory, k, d) = "lapsed"}

\* The mutant tells only the device whose time is over.
TellTheLapsed(k) == Lapsed(k)

TellBothEnds(k) == Ends(directory, k)

\* What the sweep says of session k to its end x, if it ends the session.  A
\* request that got no answer counts as rejected.
Swept(k, x) ==
    IF directory.sessions[k].phase = "active"
    THEN Message("ended", ids[k],
                 x = IF k \in Lapsed(k) THEN k ELSE directory.sessions[k].target)
    ELSE Message(IF x = k THEN "response" ELSE "ended", ids[k], FALSE)

Sweep ==
    LET over == OpenSessions(directory) \ OpenSessions(SweepDirectory(directory))
    IN  /\ over # {}
        /\ directory' = SweepDirectory(directory)
        /\ Tell([x \in Device |->
                   SetToSeq({Swept(k, x) : k \in {j \in over : x \in TellBothEnds(j)}})])
        /\ UNCHANGED <<client, attached, ids, up>>

-----------------------------------------------------------------------------
User(d) == \/ \E t \in Device : ConnectDirectDevice(d, t)
           \/ AcceptIncomingSession(d)
           \/ RejectIncomingSession(d)
           \/ Disconnect(d)

Callback(d) == \/ OnDeviceRegistered(d)
               \/ OnIncomingSessionRequest(d)
               \/ OnSessionResponse(d)
               \/ OnSessionPending(d)
               \/ OnSessionReady(d)
               \/ OnSessionResumed(d)
               \/ OnSessionEnded(d)
               \/ OnRequestRefused(d)
               \/ OnResumeRejected(d)

Handler(d) == \/ HandleSessionRequest(d)
              \/ HandleSessionResponse(d)
              \/ CloseSession(d)
              \/ HandleSessionResume(d)

Executor(d) == CloseOnExecutor(d) \/ OnControllerClosed(d)

Next ==
    \/ \E d \in Device : \/ User(d) \/ Callback(d) \/ Handler(d) \/ Executor(d)
                         \/ Connected(d) \/ Disconnected(d) \/ Fail(d)
                         \/ Cut(d) \/ OnDisconnected(d) \/ OnClientDisconnected(d)
                         \/ HandleRegister(d)
                         \/ PendingExpires(d) \/ RecoveryWindowEnds(d)
    \/ Sweep

Spec == Init /\ [][Next]_vars

\* The offerer's negotiation timeout and everybody's reconnect timeout.
Timed(d) == \/ PhaseOf(d) = "recovering"
            \/ PhaseOf(d) = "open" /\ controller[d].offerer

\* What goes on of itself: messages arrive, tasks run, both ends notice a
\* broken connection, the client comes back, deadlines pass.
Progress ==
    \/ \E d \in Device :
          \/ Callback(d) \/ Handler(d) \/ Executor(d) \/ (Timed(d) /\ Fail(d))
          \/ OnDisconnected(d) \/ OnClientDisconnected(d) \/ HandleRegister(d)
          \/ PendingExpires(d) \/ RecoveryWindowEnds(d)
    \/ Sweep

Fairness == WF_vars(Progress)

FairSpec == Spec /\ Fairness

-----------------------------------------------------------------------------
(* Properties.                                                             *)

AtServer(d, id) == \E k \in SessionsOf(directory, d) :
                       /\ ids[k] = id /\ directory.sessions[k].phase = "active"

UnderWay(d, type, id) == \E i \in DOMAIN down[d] :
                             down[d][i].type = type /\ down[d][i].id = id

\* Ends are heard: an engine that takes its session for active at the server,
\* on a connection that is whole and with nothing to resume, is right, or the
\* message that the session ended is on its way.  Otherwise it would hold on to
\* a session nobody answers for (OnSessionEnded, SendSessionEnded).
EndsAreHeard ==
    \A d \in Device :
        LET e == engine[d] IN
        e.serverActive /\ ~ e.recoveryPending /\ link[d] = "up" =>
            AtServer(d, e.session) \/ UnderWay(d, "ended", e.session)

Holds(d, id) == /\ engine[d].session = id
                /\ controller[d] # None /\ controller[d].session = id

\* Every session at the server either comes to be held by the engines of both
\* its ends or is given up, whoever fails or loses the connection when: the
\* devices are not kept busy (the comment in OnControllerSnapshot).
SessionsAreShared ==
    \A k \in Device, id \in Id :
        (k \in Named(id) /\ ~ \A d \in Ends(directory, k) : Holds(d, id))
            ~> \/ k \notin Named(id)
               \/ k \in Named(id) /\ \A d \in Ends(directory, k) : Holds(d, id)

\* The request, or the message that names its session, was lost with the
\* connection; no message can come that ends the waiting.
RequestLost(d) ==
    cuts > 0 /\ engine[d].cancelWhenKnown /\ up[d] = <<>> /\ down[d] = <<>>

\* Hanging up works: an engine whose user hung up becomes ready for the next
\* call, with or without its signaling connection, its session's id or a
\* controller, unless the request was lost.
HangUpWorks ==
    \A d \in Device :
        engine[d].closeRequested ~> engine[d].state = "ready" \/ RequestLost(d)
=============================================================================
