----------------------------- MODULE IceRestart -----------------------------
(***************************************************************************)
(* Recovery of an established connection by ICE restart                    *)
(* (core/SessionController.cpp): the two session controllers, each a       *)
(* serial executor with delayed tasks, over their native peer connections  *)
(* and the signaling server.                                               *)
(*                                                                         *)
(* The "controller" makes the offers; the "agent" answers and may request  *)
(* a restart.  A task of an executor is one step.  A native operation and  *)
(* the task that handles its result are one step too, so that whatever     *)
(* comes between the start of an operation and its result is a step in     *)
(* between.  Delays are not modelled: a delayed task runs at any time.     *)
(***************************************************************************)
EXTENDS Naturals, Sequences, SequencesExt

CONSTANTS MaximumAttempts,   \* maximumIceRestartAttempts
          Patient,           \* native operations take less than a timeout
          Coincide,          \* the reconnect timeout may fall into a period of
                             \* stability
          MaxChanges,        \* bound on what the transports report
          MaxFlaps,          \* bound on the losses of a signaling connection
          MaxFailures,       \* bound on the native operations that fail
          MaxCloses          \* bound on the sessions closed by their users

ASSUME IceRestartAssumption ==
    /\ {MaxChanges, MaxFlaps, MaxFailures, MaxCloses} \subseteq Nat
    /\ MaximumAttempts \in Nat \ {0}
    /\ {Patient, Coincide} \subseteq BOOLEAN

Side == {"controller", "agent"}

Peer(s) == IF s = "controller" THEN "agent" ELSE "controller"

\* SessionControllerState of a session that was established.
State == {"Connected", "Disconnected", "WaitingForSignaling", "RestartingIce",
          "Closed"}

\* WebRtcSessionState, as the snapshot has it.
View == {"connected", "connecting", "disconnected", "failed", "closed"}

Reason == {"none", "ice_restart_exhausted", "peer_reconnect_timeout",
           "signaling_description_send_failed", "conflicting_remote_sdp",
           "unexpected_negotiation_generation", "operation_failed"}

\* A description is identified by its kind and the generation it was made for;
\* "gen" is the generation it is sent with.
Message ==
    [type : {"offer", "answer"}, gen : Nat, made : Nat]
        \union [type : {"request", "cancel"}, gen : Nat, seq : Nat]

\* A native operation; its id is the one the controller waits for as long as
\* the generation is the one it was started in.
Operation == [do : {"offer", "answer", "apply"}, gen : Nat]

\* Delayed tasks that look at the generation and the attempt.
Watch == [stage : {"timeout", "verify"}, gen : Nat, attempt : Nat]

VARIABLES at,         \* the fields of each controller
          request,    \* the agent's active request and its sequence
          asked,      \* the controller's pending remote request
          ops,        \* native operations of each side, in their order
          channel,    \* messages sent by each side that have not arrived
          link,       \* the signaling connection of each side is up
          used        \* how much of each bound has been used

vars == <<at, request, asked, ops, channel, link, used>>

Fields ==
    [state : State, view : View, gen : Nat, recovering : BOOLEAN,
     started : BOOLEAN,              \* recoveryStarted_ is set
     scheduled : BOOLEAN, attempt : 0 .. MaximumAttempts, available : BOOLEAN,
     closing : BOOLEAN, reason : Reason,
     remote : Nat,                   \* remoteDescriptionSdp_; 0 is empty
     timer : {"none", "grace", "stability"},   \* the task of timerGeneration_
     reconnect : BOOLEAN,                      \* the task of recoveryGeneration_
     watches : SUBSET Watch, retries : Nat]    \* the other delayed tasks

Bounds == {"changes", "flaps", "failures", "closes"}

Bound(b) == CASE b = "changes" -> MaxChanges [] b = "flaps" -> MaxFlaps
              [] b = "failures" -> MaxFailures [] b = "closes" -> MaxCloses

TypeOK ==
    /\ at \in [Side -> Fields]
    /\ request \in [seq : Nat, gen : Nat, next : Nat]
    /\ asked \in [last : Nat, seq : Nat, gen : Nat, debounce : BOOLEAN]
    /\ ops \in [Side -> Seq(Operation)]
    /\ channel \in [Side -> Seq(Message)]
    /\ link \in [Side -> BOOLEAN]
    /\ used \in [Bounds -> Nat]

-----------------------------------------------------------------------------
(* What the handlers are made of.                                          *)

Spend(b) == /\ used[b] < Bound(b)
            /\ used' = [used EXCEPT ![b] = @ + 1]

Become(s, c) == at' = [at EXCEPT ![s] = c]

\* The signaling server passes a message on if the peer is there.
Transmit(s, m) ==
    channel' = IF link[s] /\ link[Peer(s)]
               THEN [channel EXCEPT ![s] = Append(@, m)] ELSE channel

\* CloseOnExecutor and the callback for the closed peer connection.  Delayed
\* tasks that can do nothing any more are left out.
Closed(c) ==
    IF c.closing THEN c
    ELSE [c EXCEPT !.closing = TRUE, !.timer = "none", !.reconnect = FALSE,
                   !.watches = {}, !.retries = 0,
                   !.state = "Closed", !.view = "closed"]

Failed(c, reason) ==
    IF c.closing THEN c ELSE Closed([c EXCEPT !.reason = reason])

\* ArmReconnectTimeout with the fields set before it; the mutant arms nothing.
NeverArmed(c) == [c EXCEPT !.recovering = TRUE, !.started = TRUE]

StartRecovery(c) ==
    [c EXCEPT !.recovering = TRUE, !.started = TRUE, !.reconnect = TRUE]

ArmIceRestartTimeout(c) ==
    [c EXCEPT !.watches =
         @ \union {[stage |-> "timeout", gen |-> c.gen, attempt |-> c.attempt]}]

\* What waits for signaling to come back.
AwaitSignaling(c) == [c EXCEPT !.state = "WaitingForSignaling"]

\* The agent's requests: CancelOutstandingIceRestartRequest, and the
\* controller's: ClearPendingRemoteIceRestartRequest.  The mutant forgets that
\* the debounced task must not run.
NoRequest == [request EXCEPT !.seq = 0, !.gen = 0]

CancelRequest(s) ==
    IF s = "agent" /\ request.seq # 0
    THEN /\ request' = NoRequest
         /\ IF at[s].available
            THEN Transmit(s, [type |-> "cancel", gen |-> request.gen,
                              seq |-> request.seq])
            ELSE UNCHANGED channel
    ELSE UNCHANGED <<request, channel>>

KeepPending(a) == a

ClearPending(a) == [a EXCEPT !.seq = 0, !.gen = 0, !.debounce = FALSE]

\* CompleteConnected
Recovered(c) ==
    [c EXCEPT !.timer = "none", !.reconnect = FALSE, !.recovering = FALSE,
              !.started = FALSE, !.scheduled = FALSE, !.attempt = 0,
              !.view = "connected", !.state = "Connected"]

CompleteConnected(s) ==
    /\ Become(s, Recovered(at[s]))
    /\ CancelRequest(s)
    /\ asked' = IF s = "controller" THEN ClearPending(asked) ELSE asked

\* CreateIceRestartOffer makes the transport "connecting".
Restarted(c) ==
    ArmIceRestartTimeout(
        [c EXCEPT !.scheduled = TRUE, !.attempt = @ + 1, !.gen = @ + 1,
                  !.watches = {}, !.remote = 0, !.state = "RestartingIce",
                  !.view = "connecting"])

\* BeginIceRestart, for a controller that is neither closing nor restarting.
BeginIceRestart(c) ==
    LET d == IF c.recovering THEN c ELSE StartRecovery(c)
    IN  /\ \/ ~ c.available /\ Become("controller", AwaitSignaling(d))
           \/ /\ c.available /\ c.attempt >= MaximumAttempts
              /\ Become("controller", Failed(d, "ice_restart_exhausted"))
           \/ /\ c.available /\ c.attempt < MaximumAttempts
              /\ Become("controller", Restarted(d))
        /\ ops' = IF c.available /\ c.attempt < MaximumAttempts
                  THEN [ops EXCEPT !["controller"] =
                            Append(@, [do |-> "offer", gen |-> c.gen + 1])]
                  ELSE ops
        /\ asked' = ClearPending(asked)
        /\ UNCHANGED <<request, channel>>

\* A request that is active for this generation is repeated.
Replays(c) == request.seq # 0 /\ request.gen = c.gen

RequestIceRestart(c) ==
    LET seq == IF Replays(c) THEN request.seq ELSE request.next + 1
        d == [c EXCEPT !.attempt = IF Replays(c) THEN @ ELSE @ + 1]
    IN  /\ request' = [seq |-> seq, gen |-> c.gen,
                       next |-> IF Replays(c) THEN request.next ELSE seq]
        /\ Become("agent",
                  IF link["agent"]
                  THEN AwaitSignaling(
                           ArmIceRestartTimeout([d EXCEPT !.scheduled = TRUE]))
                  ELSE AwaitSignaling([d EXCEPT !.available = FALSE]))
        /\ Transmit("agent", [type |-> "request", gen |-> c.gen, seq |-> seq])
        /\ UNCHANGED <<ops, asked>>

BeginOrRequest(s, c) ==
    LET d == IF c.started THEN [c EXCEPT !.recovering = TRUE] ELSE StartRecovery(c)
        quiet == UNCHANGED <<request, asked, ops, channel>>
    IN  IF c.closing \/ c.scheduled \/ c.view = "connected"
        THEN Become(s, c) /\ quiet
        ELSE \/ ~ c.available /\ Become(s, AwaitSignaling(d)) /\ quiet
             \/ /\ c.available /\ c.attempt >= MaximumAttempts
                /\ Become(s, Failed(d, "ice_restart_exhausted"))
                /\ quiet
             \/ /\ c.available /\ c.attempt < MaximumAttempts
                /\ IF s = "controller" THEN BeginIceRestart(d)
                   ELSE RequestIceRestart(d)

-----------------------------------------------------------------------------
(* OnSessionStateChanged.                                                  *)

\* The agent withdraws its request at once.  Within a recovery the connection
\* has to be stable for a while.
TransportConnected(s) ==
    /\ at[s].view \in {"connecting", "disconnected"}
    /\ Spend("changes")
    /\ LET c == [at[s] EXCEPT !.view = "connected",
                              !.scheduled = s # "agent" /\ @]
       IN  IF c.recovering
           THEN /\ Become(s, [c EXCEPT !.timer = "stability"])
                /\ CancelRequest(s)
                /\ UNCHANGED asked
           ELSE CompleteConnected(s)
    /\ UNCHANGED <<ops, link>>

TransportDisconnected(s) ==
    /\ at[s].view \in {"connected", "connecting"}
    /\ Spend("changes")
    /\ LET c == [at[s] EXCEPT !.view = "disconnected"]
           d == IF c.recovering THEN c ELSE StartRecovery(c)
       IN  Become(s, [d EXCEPT !.state = "Disconnected", !.timer = "grace"])
    /\ UNCHANGED <<request, asked, ops, channel, link>>

TransportFailed(s) ==
    /\ at[s].view \in {"connecting", "disconnected"}
    /\ Spend("changes")
    /\ LET c == [at[s] EXCEPT !.view = "failed", !.timer = "none"]
       IN  BeginOrRequest(s, IF c.recovering THEN c ELSE StartRecovery(c))
    /\ UNCHANGED link

-----------------------------------------------------------------------------
(* Delayed tasks.                                                          *)

Recovering(s) ==
    ~ at[s].closing /\ at[s].recovering /\ at[s].view # "connected"

GracePeriodEnds(s) ==
    /\ at[s].timer = "grace"
    /\ LET c == [at[s] EXCEPT !.timer = "none"]
       IN  IF Recovering(s) THEN BeginOrRequest(s, c)
           ELSE Become(s, c) /\ UNCHANGED <<request, asked, ops, channel>>
    /\ UNCHANGED <<link, used>>

StabilityPeriodEnds(s) ==
    /\ at[s].timer = "stability"
    /\ IF at[s].recovering /\ at[s].view = "connected" THEN CompleteConnected(s)
       ELSE /\ Become(s, [at[s] EXCEPT !.timer = "none"])
            /\ UNCHANGED <<request, asked, channel>>
    /\ UNCHANGED <<ops, link, used>>

ReconnectTimeout(s) ==
    /\ at[s].reconnect
    /\ Coincide \/ at[s].timer # "stability"
    /\ LET c == [at[s] EXCEPT !.reconnect = FALSE]
       IN  Become(s, IF Recovering(s) THEN Failed(c, "peer_reconnect_timeout")
                     ELSE c)
    /\ UNCHANGED <<request, asked, ops, channel, link, used>>

RetryRestart(s) ==
    /\ at[s].retries > 0
    /\ LET c == [at[s] EXCEPT !.retries = @ - 1]
       IN  IF Recovering(s) THEN BeginOrRequest(s, c)
           ELSE Become(s, c) /\ UNCHANGED <<request, asked, ops, channel>>
    /\ UNCHANGED <<link, used>>

\* A watch is for one attempt in one generation.
Watched(s, w) ==
    Recovering(s) /\ w.gen = at[s].gen /\ w.attempt = at[s].attempt

Without(s, w) == [at[s] EXCEPT !.watches = @ \ {w}]

IceRestartTimeout(s) ==
    /\ Patient => ops[s] = <<>>
    /\ \E w \in at[s].watches :
        /\ w.stage = "timeout"
        /\ Become(s, IF Watched(s, w)
                     THEN [Without(s, w) EXCEPT
                             !.watches = @ \union {[w EXCEPT !.stage = "verify"]}]
                     ELSE Without(s, w))
    /\ UNCHANGED <<request, asked, ops, channel, link, used>>

\* HandleIceRestartTimeout, and what an operation that failed does.
GiveUpAttempt(s, c, reason) ==
    /\ Become(s, LET d == [c EXCEPT !.scheduled = FALSE]
                 IN  IF d.attempt >= MaximumAttempts THEN Failed(d, reason)
                     ELSE [d EXCEPT !.retries = @ + 1])
    /\ CancelRequest(s)

\* The statistics say whether the transport carries packets after all.
VerifyTransport(s) ==
    \E w \in at[s].watches :
        /\ w.stage = "verify"
        /\ \/ /\ ~ Watched(s, w)
              /\ Become(s, Without(s, w))
              /\ UNCHANGED <<request, asked, channel, used>>
           \/ /\ Watched(s, w)
              /\ Spend("changes")
              /\ Become(s, Recovered(Without(s, w)))
              /\ CancelRequest(s)
              /\ asked' = IF s = "controller" THEN ClearPending(asked) ELSE asked
           \/ /\ Watched(s, w)
              /\ GiveUpAttempt(s, Without(s, w), "ice_restart_exhausted")
              /\ UNCHANGED <<asked, used>>
        /\ UNCHANGED <<ops, link>>

-----------------------------------------------------------------------------
(* Results of native operations.                                           *)

\* Whether the controller still waits for an operation.
Current(s, op) == op.gen = at[s].gen

Finish(s) == /\ ops[s] # <<>>
             /\ ops' = [ops EXCEPT ![s] = Tail(@)]

\* The generation a local description is sent with.  The mutant takes one that
\* has not begun.
NextTag(s, op) == at[s].gen + 1

Tag(s, op) == at[s].gen

\* OnLocalDescription.
LocalDescription(s) ==
    /\ Finish(s)
    /\ LET op == Head(ops[s])
           c == at[s]
       IN  /\ op.do \in {"offer", "answer"}
           /\ Transmit(s, [type |-> op.do, gen |-> Tag(s, op), made |-> op.gen])
           /\ Become(s, CASE link[s] -> c
                          [] ~ link[s] /\ c.recovering ->
                                 AwaitSignaling([c EXCEPT !.available = FALSE,
                                                          !.scheduled = FALSE])
                          [] ~ link[s] /\ ~ c.recovering ->
                                 Failed(c, "signaling_description_send_failed"))
    /\ UNCHANGED <<request, asked, link, used>>

\* OnOperationCompleted for ApplyRemoteDescription; the agent answers.
RemoteApplied(s) ==
    /\ ops[s] # <<>>
    /\ LET op == Head(ops[s])
           answers == s = "agent" /\ Current(s, op) /\ ~ at[s].closing
       IN  /\ op.do = "apply"
           /\ ops' = [ops EXCEPT ![s] =
                          IF answers
                          THEN Append(Tail(@), [do |-> "answer", gen |-> at[s].gen])
                          ELSE Tail(@)]
           /\ Become(s, IF answers THEN [at[s] EXCEPT !.view = "connecting"]
                        ELSE at[s])
    /\ UNCHANGED <<request, asked, channel, link, used>>

\* OnWebRtcError
OperationFailed(s) ==
    /\ Finish(s)
    /\ Spend("failures")
    /\ LET op == Head(ops[s])
           c == at[s]
       IN  \/ /\ c.closing \/ c.recovering
              /\ c.closing \/ c.view = "connected" \/ ~ Current(s, op)
              /\ UNCHANGED <<at, request, channel>>
           \/ /\ ~ c.closing /\ c.recovering /\ c.view # "connected"
              /\ Current(s, op)
              /\ GiveUpAttempt(s, c, "ice_restart_exhausted")
           \/ /\ ~ c.closing /\ ~ c.recovering
              /\ Become(s, Failed(c, "operation_failed"))
              /\ UNCHANGED <<request, channel>>
    /\ UNCHANGED <<asked, link>>

-----------------------------------------------------------------------------
(* Messages of the peer.                                                   *)

Receive(s, types) ==
    /\ channel[Peer(s)] # <<>>
    /\ Head(channel[Peer(s)]).type \in types

Letter(s) == Head(channel[Peer(s)])

Consume(s) == channel' = [channel EXCEPT ![Peer(s)] = Tail(@)]

\* The agent follows a newer offer.
Followed(c, m) ==
    IF m.gen <= c.gen THEN c
    ELSE [c EXCEPT !.gen = m.gen, !.recovering = TRUE, !.scheduled = TRUE,
                   !.attempt = IF @ = 0 THEN 1 ELSE @,
                   !.watches = {}, !.remote = 0, !.state = "RestartingIce"]

\* HandleRemoteDescription; what is applied is identified by the generation it
\* was made for.  A session that is closed does not apply it.
ApplyRemote(s, c, m) ==
    CASE c.remote = m.made -> Become(s, c) /\ UNCHANGED ops
      [] c.remote # m.made /\ c.remote # 0 ->
             Become(s, Failed(c, "conflicting_remote_sdp")) /\ UNCHANGED ops
      [] c.remote = 0 /\ c.state = "Closed" -> Become(s, c) /\ UNCHANGED ops
      [] c.remote = 0 /\ c.state # "Closed" ->
             /\ Become(s, LET d == [c EXCEPT !.remote = m.made]
                          IN  IF s = "agent" /\ c.recovering
                              THEN ArmIceRestartTimeout(
                                       [d EXCEPT !.state = "RestartingIce"])
                              ELSE d)
             /\ ops' = IF c.closing THEN ops
                       ELSE [ops EXCEPT ![s] =
                                 Append(@, [do |-> "apply", gen |-> c.gen])]

HandleOffer ==
    /\ Receive("agent", {"offer"})
    /\ LET m == Letter("agent")
           c == at["agent"]
       IN  /\ IF m.gen < c.gen THEN UNCHANGED <<at, ops>>
              ELSE ApplyRemote("agent", Followed(c, m), m)
           /\ request' = IF m.gen > c.gen THEN NoRequest ELSE request
    /\ Consume("agent")
    /\ UNCHANGED <<asked, link, used>>

HandleAnswer ==
    /\ Receive("controller", {"answer"})
    /\ LET m == Letter("controller")
           c == at["controller"]
       IN  \/ m.gen < c.gen /\ UNCHANGED <<at, ops>>
           \/ /\ m.gen > c.gen
              /\ Become("controller", Failed(c, "unexpected_negotiation_generation"))
              /\ UNCHANGED ops
           \/ m.gen = c.gen /\ ApplyRemote("controller", c, m)
    /\ Consume("controller")
    /\ UNCHANGED <<request, asked, link, used>>

\* HandleRemoteIceRestartRequest
Acceptable(m) ==
    /\ ~ at["controller"].closing
    /\ m.gen = at["controller"].gen
    /\ m.seq > asked.last
    /\ ~ at["controller"].scheduled

HandleRequest ==
    /\ Receive("controller", {"request"})
    /\ LET m == Letter("controller")
       IN  asked' = IF Acceptable(m)
                    THEN [last |-> m.seq, seq |-> m.seq, gen |-> m.gen,
                          debounce |-> TRUE]
                    ELSE asked
    /\ Consume("controller")
    /\ UNCHANGED <<at, request, ops, link, used>>

HandleRequestCancel ==
    /\ Receive("controller", {"cancel"})
    /\ LET m == Letter("controller")
       IN  asked' = IF /\ ~ at["controller"].closing
                       /\ m.gen = asked.gen /\ m.seq = asked.seq
                    THEN ClearPending(asked) ELSE asked
    /\ Consume("controller")
    /\ UNCHANGED <<at, request, ops, link, used>>

\* The debounced task: a request that was not withdrawn starts a restart.
RequestIsDue ==
    /\ asked.debounce
    /\ LET c == at["controller"]
       IN  \/ /\ c.closing \/ c.scheduled \/ asked.gen # c.gen
              /\ asked' = [asked EXCEPT !.debounce = FALSE]
              /\ UNCHANGED <<at, ops, request, channel>>
           \/ /\ ~ c.closing /\ ~ c.scheduled /\ asked.gen = c.gen
              /\ BeginIceRestart(c)
    /\ UNCHANGED <<link, used>>

-----------------------------------------------------------------------------
(* Signaling, and the user.                                                *)

\* What the server had for this side is lost, what it had from it may be.
LinkLost(s) ==
    /\ link[s]
    /\ Spend("flaps")
    /\ link' = [link EXCEPT ![s] = FALSE]
    /\ \/ channel' = [channel EXCEPT ![Peer(s)] = <<>>]
       \/ channel' = [t \in Side |-> <<>>]
    /\ UNCHANGED <<at, request, asked, ops>>

LinkBack(s) ==
    /\ ~ link[s]
    /\ link' = [link EXCEPT ![s] = TRUE]
    /\ UNCHANGED <<at, request, asked, ops, channel, used>>

\* SetSignalingAvailable, as the engine says it of a connection that changed.
SignalingGone(s) ==
    /\ ~ link[s] /\ at[s].available
    /\ LET c == [at[s] EXCEPT !.available = FALSE, !.scheduled = FALSE]
       IN  Become(s, IF c.recovering THEN AwaitSignaling(c) ELSE c)
    /\ UNCHANGED <<request, asked, ops, channel, link, used>>

SignalingBack(s) ==
    /\ link[s] /\ ~ at[s].available
    /\ LET c == [at[s] EXCEPT !.available = TRUE]
       IN  \/ /\ s = "agent" /\ request.seq # 0 /\ c.view = "connected"
              /\ Become(s, c)
              /\ request' = NoRequest
              /\ Transmit(s, [type |-> "cancel", gen |-> request.gen,
                              seq |-> request.seq])
              /\ UNCHANGED <<asked, ops>>
           \/ /\ ~ (s = "agent" /\ request.seq # 0 /\ c.view = "connected")
              /\ IF c.recovering THEN BeginOrRequest(s, c)
                 ELSE Become(s, c) /\ UNCHANGED <<request, asked, ops, channel>>
    /\ UNCHANGED <<link, used>>

Close(s) ==
    /\ ~ at[s].closing
    /\ Spend("closes")
    /\ Become(s, Closed(at[s]))
    /\ UNCHANGED <<request, asked, ops, channel, link>>

-----------------------------------------------------------------------------
Established(s) ==
    [state |-> "Connected", view |-> "connected", gen |-> 1, recovering |-> FALSE,
     started |-> FALSE, scheduled |-> FALSE, attempt |-> 0, available |-> TRUE,
     closing |-> FALSE, reason |-> "none", remote |-> 1, timer |-> "none",
     reconnect |-> FALSE, watches |-> {}, retries |-> 0]

Init ==
    /\ at = [s \in Side |-> Established(s)]
    /\ request = [seq |-> 0, gen |-> 0, next |-> 0]
    /\ asked = [last |-> 0, seq |-> 0, gen |-> 0, debounce |-> FALSE]
    /\ ops = [s \in Side |-> <<>>]
    /\ channel = [s \in Side |-> <<>>]
    /\ link = [s \in Side |-> TRUE]
    /\ used = [b \in Bounds |-> 0]

Transport(s) ==
    TransportConnected(s) \/ TransportDisconnected(s) \/ TransportFailed(s)

Delayed(s) ==
    \/ GracePeriodEnds(s) \/ StabilityPeriodEnds(s) \/ ReconnectTimeout(s)
    \/ RetryRestart(s) \/ IceRestartTimeout(s) \/ VerifyTransport(s)

Native(s) == LocalDescription(s) \/ RemoteApplied(s) \/ OperationFailed(s)

Handle == HandleOffer \/ HandleAnswer \/ HandleRequest \/ HandleRequestCancel

Signaling(s) ==
    LinkLost(s) \/ LinkBack(s) \/ SignalingGone(s) \/ SignalingBack(s)

Next == \/ \E s \in Side : \/ Transport(s) \/ Delayed(s) \/ Native(s)
                           \/ Signaling(s) \/ Close(s)
        \/ Handle \/ RequestIsDue

Spec == Init /\ [][Next]_vars

\* Each delayed task runs in the end, native operations end, messages arrive,
\* and a signaling connection comes back and is reported.
Fairness ==
    /\ \A s \in Side :
        /\ WF_vars(GracePeriodEnds(s)) /\ WF_vars(StabilityPeriodEnds(s))
        /\ WF_vars(ReconnectTimeout(s)) /\ WF_vars(RetryRestart(s))
        /\ WF_vars(IceRestartTimeout(s)) /\ WF_vars(VerifyTransport(s))
        /\ WF_vars(Native(s)) /\ WF_vars(LinkBack(s))
        /\ WF_vars(SignalingGone(s)) /\ WF_vars(SignalingBack(s))
    /\ WF_vars(Handle) /\ WF_vars(RequestIsDue)

FairSpec == Spec /\ Fairness

-----------------------------------------------------------------------------
\* Only the offerer starts generations: whatever is lost, repeated or late, an
\* answer is never ahead of the controller, which would end the session
\* ("unexpected_negotiation_generation").
NeverAhead ==
    \A s \in Side : at[s].reason # "unexpected_negotiation_generation"

\* A debounced request is for the generation the controller is in: another
\* restart in between withdraws it.
PendingIsCurrent == asked.debounce => asked.gen = at["controller"].gen

\* Left alone: the connection is up and nothing is due that would look again.
LeftConnected(s) ==
    /\ at[s].view = "connected"
    /\ at[s].timer = "none" /\ ~ at[s].reconnect

\* A recovery for which the reconnect timeout was armed ends: the session is
\* connected again or closed.  Two recoveries may not end: one the agent was
\* drawn into by an offer (no timeout is armed), and one of a controller whose
\* connection is up, as the handlers that would end it return early.
RecoveryEnds ==
    \A s \in Side :
        at[s].recovering /\ at[s].started ~>
            ~ at[s].recovering \/ at[s].closing \/ LeftConnected(s)
=============================================================================
