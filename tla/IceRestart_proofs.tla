------------------------- MODULE IceRestart_proofs -------------------------
(***************************************************************************)
(* Safety of the recovery of a connection, for any number of attempts,     *)
(* changes of the transports, losses of signaling, failures and closes.    *)
(*                                                                         *)
(* The generations of the two sides and of the descriptions on their way   *)
(* are ordered: nothing is ahead of the controller, which alone begins     *)
(* generations.  That is why no answer surprises it; and a debounced       *)
(* request stays current because whatever begins a generation withdraws    *)
(* it.                                                                     *)
(***************************************************************************)
EXTENDS IceRestart, TLAPS

Ahead == "unexpected_negotiation_generation"

Description == {"offer", "answer"}

RequestRecord == [seq : Nat, gen : Nat, next : Nat]

AskedRecord == [last : Nat, seq : Nat, gen : Nat, debounce : BOOLEAN]

\* Messages of which no description is of a later generation than g.
ChannelFits(ch, g) ==
    /\ ch \in [Side -> Seq(Message)]
    /\ \A s \in Side : \A i \in DOMAIN ch[s] :
          ch[s][i].type \in Description => ch[s][i].gen <= g

\* A pending request of a controller in generation g.
AskedFits(a, g) == a \in AskedRecord /\ (a.debounce => a.gen = g)

Inv == /\ TypeOK
       /\ at["agent"].gen <= at["controller"].gen
       /\ ChannelFits(channel, at["controller"].gen)
       /\ AskedFits(asked, at["controller"].gen)
       /\ NeverAhead

\* Fields that side s may have next, when the controller's generation stays.
Fits(s, c) ==
    /\ c \in Fields
    /\ c.reason # Ahead
    /\ IF s = "controller" THEN c.gen = at[s].gen
       ELSE c.gen <= at["controller"].gen

Moves(s) == /\ at' = [at EXCEPT ![s] = at'[s]]
            /\ Fits(s, at'[s])

-----------------------------------------------------------------------------
(* The state before a step and after it.                                   *)

LEMMA Sides == /\ Side = {"controller", "agent"}
               /\ Peer("controller") = "agent" /\ Peer("agent") = "controller"
               /\ \A s \in Side : Peer(s) \in Side
BY DEF Side, Peer

LEMMA Typed == ASSUME TypeOK
               PROVE  /\ at \in [Side -> Fields]
                      /\ request \in RequestRecord
                      /\ asked \in AskedRecord
                      /\ ops \in [Side -> Seq(Operation)]
                      /\ channel \in [Side -> Seq(Message)]
                      /\ link \in [Side -> BOOLEAN]
                      /\ used \in [Bounds -> Nat]
BY DEF TypeOK, RequestRecord, AskedRecord

LEMMA Gens == ASSUME NEW c \in Fields
              PROVE  /\ c.gen \in Nat /\ c.attempt \in 0 .. MaximumAttempts
                     /\ c.remote \in Nat /\ c.retries \in Nat
                     /\ c.watches \subseteq Watch
                     /\ c.recovering \in BOOLEAN /\ c.closing \in BOOLEAN
                     /\ c.available \in BOOLEAN /\ c.started \in BOOLEAN
BY DEF Fields

\* What a side is fits.
LEMMA Stands == ASSUME Inv, NEW s \in Side PROVE Fits(s, at[s])
BY Typed, Sides, Gens DEF Inv, Fits, NeverAhead, Ahead

LEMMA Moved == ASSUME Inv, NEW s \in Side, NEW c, Fits(s, c), Become(s, c)
                 PROVE  Moves(s)
BY Typed DEF Inv, Become, Moves

LEMMA Stays == ASSUME Inv, NEW s \in Side, UNCHANGED at PROVE Moves(s)
<1>1. at' = at BY DEF Inv
<1>2. at \in [Side -> Fields] BY Typed DEF Inv
<1>3. at = [at EXCEPT ![s] = at[s]] BY <1>2
<1> QED BY <1>1, <1>3, Stands DEF Moves

\* A step that moves one side and leaves the controller's generation alone.
LEMMA Settles ==
    ASSUME Inv, NEW s \in Side, Moves(s),
           request' \in RequestRecord,
           AskedFits(asked', at["controller"].gen),
           ops' \in [Side -> Seq(Operation)],
           ChannelFits(channel', at["controller"].gen),
           link' \in [Side -> BOOLEAN],
           used' \in [Bounds -> Nat]
    PROVE  Inv'
<1>1. at \in [Side -> Fields] /\ at'[s] \in Fields
  BY Typed DEF Inv, Moves, Fits
<1>2. at' \in [Side -> Fields]
  BY <1>1 DEF Moves
<1>3. at'["controller"].gen = at["controller"].gen
  BY <1>1, Sides DEF Moves, Fits
<1>4. at'["agent"].gen <= at["controller"].gen
  BY <1>1, Sides DEF Moves, Fits, Inv
<1>5. \A t \in Side : at'[t].reason # Ahead
  BY <1>1, Sides DEF Moves, Fits, Inv, NeverAhead, Ahead
<1>6. TypeOK'
  BY <1>2 DEF TypeOK, RequestRecord, AskedRecord, AskedFits, ChannelFits
<1> QED
  BY <1>3, <1>4, <1>5, <1>6 DEF Inv, NeverAhead, Ahead, ChannelFits, AskedFits

-----------------------------------------------------------------------------
(* What the handlers are made of.                                          *)

LEMMA Spends == ASSUME TypeOK, NEW b \in Bounds, Spend(b)
                PROVE  used' \in [Bounds -> Nat]
BY Typed DEF Spend

LEMMA ClosedFits == ASSUME NEW s, NEW c, Fits(s, c) PROVE Fits(s, Closed(c))
<1> DEFINE e == [c EXCEPT !.closing = TRUE, !.timer = "none", !.reconnect = FALSE]
           f == [e EXCEPT !.watches = {}, !.retries = 0]
           g == [f EXCEPT !.state = "Closed", !.view = "closed"]
<1>1. Closed(c) = c \/ Closed(c) = g BY DEF Closed
<1>2. Fits(s, e) BY DEF Fits, Fields
<1> HIDE DEF e
<1>3. Fits(s, f) BY <1>2 DEF Fits, Fields
<1> HIDE DEF f
<1>4. Fits(s, g) BY <1>3 DEF Fits, Fields, State, View
<1> QED BY <1>1, <1>4

LEMMA FailedFits == ASSUME NEW s, NEW c, Fits(s, c), NEW r \in Reason, r # Ahead
                    PROVE  Fits(s, Failed(c, r))
<1>1. Fits(s, [c EXCEPT !.reason = r]) BY DEF Fits, Fields
<1> QED BY <1>1, ClosedFits DEF Failed

LEMMA RecoveryFits ==
    ASSUME NEW s, NEW c, Fits(s, c)
    PROVE  /\ Fits(s, StartRecovery(c)) /\ Fits(s, AwaitSignaling(c))
           /\ Fits(s, Recovered(c))
           /\ Fits(s, [c EXCEPT !.recovering = TRUE])
           /\ StartRecovery(c).attempt = c.attempt
           /\ [c EXCEPT !.recovering = TRUE].attempt = c.attempt
<1>1. c \in Fields BY DEF Fits
<1>2. 0 \in 0 .. MaximumAttempts BY IceRestartAssumption
<1>3. Recovered(c) \in Fields
  BY <1>1, <1>2 DEF Recovered, Fields, State, View
<1>4. Recovered(c).gen = c.gen /\ Recovered(c).reason = c.reason
  BY <1>1 DEF Recovered, Fields
<1>5. Fits(s, Recovered(c)) BY <1>3, <1>4 DEF Fits
<1>6. Fits(s, AwaitSignaling(c)) BY DEF Fits, AwaitSignaling, Fields, State
<1>7. Fits(s, StartRecovery(c)) /\ Fits(s, [c EXCEPT !.recovering = TRUE])
  BY DEF Fits, StartRecovery, Fields
<1>8. /\ StartRecovery(c).attempt = c.attempt
      /\ [c EXCEPT !.recovering = TRUE].attempt = c.attempt
  BY <1>1 DEF StartRecovery, Fields
<1> QED BY <1>5, <1>6, <1>7, <1>8

LEMMA ArmFits == ASSUME NEW s, NEW c, Fits(s, c)
                 PROVE  Fits(s, ArmIceRestartTimeout(c))
<1>1. [stage |-> "timeout", gen |-> c.gen, attempt |-> c.attempt] \in Watch
  BY Gens DEF Watch, Fits
<1> QED BY <1>1 DEF Fits, ArmIceRestartTimeout, Fields

LEMMA Transmits ==
    ASSUME Inv, NEW s \in Side, NEW m \in Message, Transmit(s, m),
           m.type \in Description => m.gen <= at["controller"].gen
    PROVE  ChannelFits(channel', at["controller"].gen)
<1>1. CASE UNCHANGED channel BY <1>1 DEF Inv
<1>2. CASE channel' = [channel EXCEPT ![s] = Append(@, m)]
  <2>1. channel \in [Side -> Seq(Message)] BY Typed DEF Inv
  <2>2. channel' \in [Side -> Seq(Message)] BY <1>2, <2>1
  <2>3. ASSUME NEW t \in Side, NEW i \in DOMAIN channel'[t],
               channel'[t][i].type \in Description
        PROVE  channel'[t][i].gen <= at["controller"].gen
    <3>1. CASE t = s
      <4>1. channel'[t] = Append(channel[s], m) BY <1>2, <2>1, <3>1
      <4>2. \/ i \in DOMAIN channel[s] /\ channel'[t][i] = channel[s][i]
            \/ channel'[t][i] = m
        BY <4>1, <2>1
      <4> QED BY <4>2, <2>3 DEF Inv, ChannelFits
    <3>2. CASE t # s
      BY <1>2, <2>1, <2>3, <3>2 DEF Inv, ChannelFits
    <3> QED BY <3>1, <3>2
  <2> QED BY <2>2, <2>3 DEF ChannelFits
<1> QED BY <1>1, <1>2 DEF Transmit

LEMMA Consumes ==
    ASSUME Inv, NEW s \in Side, channel[Peer(s)] # <<>>, Consume(s)
    PROVE  ChannelFits(channel', at["controller"].gen)
<1> DEFINE p == Peer(s)
<1>1. channel \in [Side -> Seq(Message)] /\ p \in Side BY Typed, Sides DEF Inv
<1>2. channel' = [channel EXCEPT ![p] = Tail(@)] BY DEF Consume
<1> HIDE DEF p
<1>3. channel[p] # <<>> BY DEF p
<1>4. channel' \in [Side -> Seq(Message)] BY <1>1, <1>2, <1>3
<1>5. ASSUME NEW t \in Side, NEW i \in DOMAIN channel'[t],
             channel'[t][i].type \in Description
      PROVE  channel'[t][i].gen <= at["controller"].gen
  <2>1. CASE t = p
    <3>1. channel'[t] = Tail(channel[p]) BY <1>1, <1>2, <2>1
    <3>2. i + 1 \in DOMAIN channel[p] /\ channel'[t][i] = channel[p][i + 1]
      BY <3>1, <1>1, <1>3
    <3> QED BY <3>2, <1>1, <1>5 DEF Inv, ChannelFits
  <2>2. CASE t # p
    BY <1>1, <1>2, <1>5, <2>2 DEF Inv, ChannelFits
  <2> QED BY <2>1, <2>2
<1> QED BY <1>4, <1>5 DEF ChannelFits

LEMMA Letters ==
    ASSUME Inv, NEW s \in Side, channel[Peer(s)] # <<>>
    PROVE  /\ Letter(s) \in Message /\ Letter(s).gen \in Nat
           /\ Letter(s).type \in Description =>
                  /\ Letter(s).made \in Nat
                  /\ Letter(s).gen <= at["controller"].gen
           /\ Letter(s).type \notin Description => Letter(s).seq \in Nat
<1> DEFINE ch == channel[Peer(s)]
<1>1. ch \in Seq(Message) /\ Peer(s) \in Side BY Typed, Sides DEF Inv
<1>2. 1 \in DOMAIN ch /\ Letter(s) = ch[1] BY <1>1 DEF Letter
<1>3. Letter(s) \in Message BY <1>1, <1>2
<1>4. Letter(s).type \in Description => Letter(s).gen <= at["controller"].gen
  BY <1>1, <1>2 DEF Inv, ChannelFits
<1> QED BY <1>3, <1>4 DEF Message, Description

LEMMA Cancels ==
    ASSUME Inv, NEW s \in Side, CancelRequest(s)
    PROVE  /\ request' \in RequestRecord
           /\ ChannelFits(channel', at["controller"].gen)
<1>1. request \in RequestRecord BY Typed DEF Inv
<1>2. NoRequest \in RequestRecord BY <1>1 DEF NoRequest, RequestRecord
<1>3. CASE s = "agent" /\ request.seq # 0
  <2> DEFINE m == [type |-> "cancel", gen |-> request.gen, seq |-> request.seq]
  <2>1. m \in Message /\ m.type \notin Description
    BY <1>1 DEF Message, RequestRecord, Description
  <2>2. CASE UNCHANGED channel BY <1>2, <1>3, <2>2 DEF CancelRequest, Inv
  <2>3. CASE Transmit(s, m)
    <3> HIDE DEF m
    <3>1. ChannelFits(channel', at["controller"].gen) BY <2>1, <2>3, Transmits
    <3> QED BY <3>1, <1>2, <1>3 DEF CancelRequest
  <2> QED BY <1>3, <2>2, <2>3 DEF CancelRequest
<1>4. CASE ~ (s = "agent" /\ request.seq # 0)
  BY <1>1, <1>4 DEF CancelRequest, Inv
<1> QED BY <1>3, <1>4

LEMMA Clears == ASSUME NEW a \in AskedRecord, NEW g \in Nat
                PROVE  AskedFits(ClearPending(a), g)
BY DEF AskedFits, AskedRecord, ClearPending

LEMMA Completes ==
    ASSUME Inv, NEW s \in Side, CompleteConnected(s),
           ops' \in [Side -> Seq(Operation)], link' \in [Side -> BOOLEAN],
           used' \in [Bounds -> Nat]
    PROVE  Inv'
<1>1. Moves(s) BY Stands, RecoveryFits, Moved DEF CompleteConnected
<1>2. AskedFits(asked', at["controller"].gen)
  <2>1. asked \in AskedRecord /\ at["controller"].gen \in Nat
    BY Typed, Gens, Sides DEF Inv
  <2> QED BY <2>1, Clears DEF CompleteConnected, Inv
<1>3. /\ request' \in RequestRecord
      /\ ChannelFits(channel', at["controller"].gen)
  BY Cancels DEF CompleteConnected
<1> QED BY <1>1, <1>2, <1>3, Settles


-----------------------------------------------------------------------------
(* Restarts begun and requested.                                           *)

\* What a step leaves unchanged is as it has to be.
LEMMA Now == ASSUME Inv
             PROVE  /\ request \in RequestRecord
                    /\ AskedFits(asked, at["controller"].gen)
                    /\ asked \in AskedRecord
                    /\ ops \in [Side -> Seq(Operation)]
                    /\ ChannelFits(channel, at["controller"].gen)
                    /\ link \in [Side -> BOOLEAN]
                    /\ used \in [Bounds -> Nat]
                    /\ at["controller"].gen \in Nat
BY Typed, Sides, Gens DEF Inv

\* A step that begins a generation: the controller's is the newest, and no
\* request for the one before is pending.
LEMMA Advances ==
    ASSUME Inv, NEW c \in Fields, Become("controller", c),
           c.gen = at["controller"].gen + 1, c.reason # Ahead,
           UNCHANGED <<request, channel>>, asked' = ClearPending(asked),
           ops' \in [Side -> Seq(Operation)], link' \in [Side -> BOOLEAN],
           used' \in [Bounds -> Nat]
    PROVE  Inv'
<1>1. at \in [Side -> Fields] BY Typed DEF Inv
<1>2. at' \in [Side -> Fields] /\ at'["controller"] = c /\ at'["agent"] = at["agent"]
  BY <1>1, Sides DEF Become
<1>3. at["agent"].gen \in Nat /\ at["controller"].gen \in Nat
  BY <1>1, Sides, Gens
<1>4. at'["agent"].gen <= at'["controller"].gen
  BY <1>2, <1>3 DEF Inv
<1>5. ChannelFits(channel', at'["controller"].gen)
  <2>1. \A s \in Side : \A i \in DOMAIN channel[s] :
           channel[s][i].type \in Description => channel[s][i].gen \in Nat
    <3> SUFFICES ASSUME NEW s \in Side, NEW i \in DOMAIN channel[s]
                 PROVE  channel[s][i].gen \in Nat
      OBVIOUS
    <3>1. channel[s] \in Seq(Message) BY Typed DEF Inv
    <3>2. channel[s][i] \in Message BY <3>1
    <3> QED BY <3>2 DEF Message
  <2> QED BY <2>1, <1>2, <1>3 DEF Inv, ChannelFits
<1>6. AskedFits(asked', at'["controller"].gen) /\ asked' \in AskedRecord
  <2>1. asked \in AskedRecord /\ c.gen \in Nat BY Now, Gens
  <2> QED BY <2>1, <1>2, Clears DEF AskedFits
<1>7. TypeOK' BY <1>2, <1>6, Typed DEF TypeOK, Inv, RequestRecord, AskedRecord
<1>8. NeverAhead'
  BY <1>2, Sides DEF Inv, NeverAhead, Ahead
<1> QED BY <1>4, <1>5, <1>6, <1>7, <1>8 DEF Inv

LEMMA RestartedFits ==
    ASSUME NEW c \in Fields, c.attempt < MaximumAttempts
    PROVE  /\ Restarted(c) \in Fields /\ Restarted(c).gen = c.gen + 1
           /\ Restarted(c).reason = c.reason
<1> DEFINE e == [c EXCEPT !.attempt = @ + 1, !.gen = @ + 1]
           r == [e EXCEPT !.scheduled = TRUE, !.watches = {}, !.remote = 0,
                          !.state = "RestartingIce", !.view = "connecting"]
           w == [stage |-> "timeout", gen |-> r.gen, attempt |-> r.attempt]
<1>1. c.gen + 1 \in Nat BY Gens
<1>2. c.attempt + 1 \in 0 .. MaximumAttempts BY Gens, IceRestartAssumption
<1>3. e \in Fields BY <1>1, <1>2 DEF Fields
<1>4. e.gen = c.gen + 1 /\ e.reason = c.reason BY DEF Fields
<1>5. Restarted(c) = ArmIceRestartTimeout(r) BY DEF Restarted, Fields
<1> HIDE DEF e
<1>6. r \in Fields BY <1>3 DEF Fields, State, View
<1>7. r.gen = e.gen /\ r.reason = e.reason BY <1>3 DEF Fields
<1> HIDE DEF r
<1>8. w \in Watch BY <1>6, Gens DEF Watch
<1>9. Restarted(c) = [r EXCEPT !.watches = @ \union {w}]
  BY <1>5 DEF ArmIceRestartTimeout
<1> HIDE DEF w
<1> QED BY <1>4, <1>6, <1>7, <1>8, <1>9 DEF Fields

LEMMA Begins ==
    ASSUME Inv, NEW c, Fits("controller", c), BeginIceRestart(c),
           link' \in [Side -> BOOLEAN], used' \in [Bounds -> Nat]
    PROVE  Inv'
<1> DEFINE d == IF c.recovering THEN c ELSE StartRecovery(c)
<1>1. Fits("controller", d) /\ d.attempt = c.attempt BY RecoveryFits
<1>2. "controller" \in Side BY Sides
<1>3. [do |-> "offer", gen |-> c.gen + 1] \in Operation
  BY Gens DEF Fits, Operation
<1>4. ops' \in [Side -> Seq(Operation)]
  BY <1>2, <1>3, Now DEF BeginIceRestart
<1>5. AskedFits(asked', at["controller"].gen)
  BY Now, Clears DEF BeginIceRestart
<1>6. CASE Become("controller", AwaitSignaling(d))
  <2> HIDE DEF d
  <2>1. Moves("controller") BY <1>1, <1>2, <1>6, RecoveryFits, Moved
  <2> QED BY <2>1, <1>2, <1>4, <1>5, Now, Settles DEF BeginIceRestart
<1>7. CASE Become("controller", Failed(d, "ice_restart_exhausted"))
  <2> HIDE DEF d
  <2>1. "ice_restart_exhausted" \in Reason /\ "ice_restart_exhausted" # Ahead
    BY DEF Reason, Ahead
  <2>2. Moves("controller") BY <1>1, <1>2, <1>7, <2>1, FailedFits, Moved
  <2> QED BY <2>2, <1>2, <1>4, <1>5, Now, Settles DEF BeginIceRestart
<1>8. CASE c.attempt < MaximumAttempts /\ Become("controller", Restarted(d))
  <2> HIDE DEF d
  <2>1. /\ d \in Fields /\ d.gen = at["controller"].gen /\ d.reason # Ahead
        /\ d.attempt < MaximumAttempts
    BY <1>1, <1>8 DEF Fits
  <2>2. /\ Restarted(d) \in Fields
        /\ Restarted(d).gen = at["controller"].gen + 1
        /\ Restarted(d).reason # Ahead
    BY <2>1, RestartedFits
  <2> QED BY <2>2, <1>4, <1>8, Advances DEF BeginIceRestart
<1> QED BY <1>6, <1>7, <1>8 DEF BeginIceRestart

LEMMA Requests ==
    ASSUME Inv, NEW c, Fits("agent", c), c.attempt < MaximumAttempts,
           RequestIceRestart(c),
           link' \in [Side -> BOOLEAN], used' \in [Bounds -> Nat]
    PROVE  Inv'
<1> DEFINE seq == IF Replays(c) THEN request.seq ELSE request.next + 1
           d == [c EXCEPT !.attempt = IF Replays(c) THEN @ ELSE @ + 1]
           m == [type |-> "request", gen |-> c.gen, seq |-> seq]
           n == IF link["agent"]
                THEN AwaitSignaling(
                         ArmIceRestartTimeout([d EXCEPT !.scheduled = TRUE]))
                ELSE AwaitSignaling([d EXCEPT !.available = FALSE])
<1>1. "agent" \in Side BY Sides
<1>2. c \in Fields /\ c.gen \in Nat /\ c.attempt \in 0 .. MaximumAttempts
  BY Gens DEF Fits
<1>3. seq \in Nat /\ request' \in RequestRecord
  <2>1. request \in RequestRecord BY Now
  <2> QED BY <2>1, <1>2 DEF RequestIceRestart, RequestRecord
<1>4. Fits("agent", d)
  BY <1>2, IceRestartAssumption DEF Fits, Fields
<1>5. /\ Fits("agent", [d EXCEPT !.scheduled = TRUE])
      /\ Fits("agent", [d EXCEPT !.available = FALSE])
  <2> HIDE DEF d
  <2> QED BY <1>4 DEF Fits, Fields
<1>6. Fits("agent", n)
  <2> HIDE DEF d
  <2> QED BY <1>5, ArmFits, RecoveryFits
<1>7. Become("agent", n) /\ Transmit("agent", m)
  BY DEF RequestIceRestart
<1> HIDE DEF n
<1>8. m \in Message /\ m.type \notin Description
  BY <1>2, <1>3 DEF Message, Description
<1> HIDE DEF m
<1>9. Moves("agent") BY <1>1, <1>6, <1>7, Moved
<1>10. ChannelFits(channel', at["controller"].gen)
  BY <1>1, <1>7, <1>8, Transmits
<1>11. AskedFits(asked', at["controller"].gen) /\ ops' \in [Side -> Seq(Operation)]
  BY Now DEF RequestIceRestart
<1> QED BY <1>1, <1>3, <1>9, <1>10, <1>11, Settles

\* A step that moves one side and nothing else.
LEMMA Quiet ==
    ASSUME Inv, NEW s \in Side, NEW c, Fits(s, c), Become(s, c),
           UNCHANGED <<request, asked, ops, channel>>,
           link' \in [Side -> BOOLEAN], used' \in [Bounds -> Nat]
    PROVE  Inv'
<1>1. Moves(s) BY Moved
<1>2. /\ request' \in RequestRecord /\ AskedFits(asked', at["controller"].gen)
      /\ ops' \in [Side -> Seq(Operation)]
      /\ ChannelFits(channel', at["controller"].gen)
  BY Now
<1> QED BY <1>1, <1>2, Settles

LEMMA BeginsOrRequests ==
    ASSUME Inv, NEW s \in Side, NEW c, Fits(s, c), BeginOrRequest(s, c),
           link' \in [Side -> BOOLEAN], used' \in [Bounds -> Nat]
    PROVE  Inv'
<1> DEFINE d == IF c.started THEN [c EXCEPT !.recovering = TRUE]
                ELSE StartRecovery(c)
           quiet == UNCHANGED <<request, asked, ops, channel>>
<1>1. Fits(s, d) /\ d.attempt = c.attempt BY RecoveryFits
<1>2. Fits(s, AwaitSignaling(d)) /\ Fits(s, Failed(d, "ice_restart_exhausted"))
  <2> HIDE DEF d
  <2>1. "ice_restart_exhausted" \in Reason /\ "ice_restart_exhausted" # Ahead
    BY DEF Reason, Ahead
  <2> QED BY <1>1, <2>1, RecoveryFits, FailedFits
<1>3. CASE Become(s, c) /\ quiet BY <1>3, Quiet
<1>4. CASE Become(s, AwaitSignaling(d)) /\ quiet
  <2> HIDE DEF d
  <2> QED BY <1>2, <1>4, Quiet
<1>5. CASE Become(s, Failed(d, "ice_restart_exhausted")) /\ quiet
  <2> HIDE DEF d
  <2> QED BY <1>2, <1>5, Quiet
<1>6. CASE s = "controller" /\ BeginIceRestart(d)
  <2> HIDE DEF d
  <2> QED BY <1>1, <1>6, Begins
<1>7. CASE s # "controller" /\ c.attempt < MaximumAttempts /\ RequestIceRestart(d)
  <2>1. s = "agent" BY <1>7, Sides
  <2> HIDE DEF d
  <2> QED BY <2>1, <1>1, <1>7, Requests
<1> QED BY <1>3, <1>4, <1>5, <1>6, <1>7 DEF BeginOrRequest

\* Changes of single fields fit.
LEMMA Edits ==
    ASSUME NEW s, NEW c, Fits(s, c)
    PROVE  /\ \A v \in View : Fits(s, [c EXCEPT !.view = v])
           /\ \A v \in State : Fits(s, [c EXCEPT !.state = v])
           /\ \A v \in {"none", "grace", "stability"} :
                 Fits(s, [c EXCEPT !.timer = v])
           /\ \A v \in BOOLEAN : /\ Fits(s, [c EXCEPT !.scheduled = v])
                                 /\ Fits(s, [c EXCEPT !.available = v])
                                 /\ Fits(s, [c EXCEPT !.reconnect = v])
           /\ \A v \in SUBSET Watch : Fits(s, [c EXCEPT !.watches = v])
           /\ \A v \in Nat : /\ Fits(s, [c EXCEPT !.retries = v])
                             /\ Fits(s, [c EXCEPT !.remote = v])
<1>1. \A v \in View : Fits(s, [c EXCEPT !.view = v]) BY DEF Fits, Fields
<1>2. \A v \in State : Fits(s, [c EXCEPT !.state = v]) BY DEF Fits, Fields
<1>3. \A v \in {"none", "grace", "stability"} : Fits(s, [c EXCEPT !.timer = v])
  BY DEF Fits, Fields
<1>4. \A v \in BOOLEAN : Fits(s, [c EXCEPT !.scheduled = v]) BY DEF Fits, Fields
<1>5. \A v \in BOOLEAN : Fits(s, [c EXCEPT !.available = v]) BY DEF Fits, Fields
<1>6. \A v \in BOOLEAN : Fits(s, [c EXCEPT !.reconnect = v]) BY DEF Fits, Fields
<1>7. \A v \in SUBSET Watch : Fits(s, [c EXCEPT !.watches = v])
  BY DEF Fits, Fields
<1>8. \A v \in Nat : Fits(s, [c EXCEPT !.retries = v]) BY DEF Fits, Fields
<1>9. \A v \in Nat : Fits(s, [c EXCEPT !.remote = v]) BY DEF Fits, Fields
<1> QED BY <1>1, <1>2, <1>3, <1>4, <1>5, <1>6, <1>7, <1>8, <1>9

\* A step that moves one side, and withdraws at most a request.
LEMMA Withdraws ==
    ASSUME Inv, NEW s \in Side, NEW c, Fits(s, c), Become(s, c),
           CancelRequest(s), asked' \in {asked, ClearPending(asked)},
           ops' \in [Side -> Seq(Operation)], link' \in [Side -> BOOLEAN],
           used' \in [Bounds -> Nat]
    PROVE  Inv'
<1>1. Moves(s) BY Moved
<1>2. AskedFits(asked', at["controller"].gen) BY Now, Clears
<1>3. /\ request' \in RequestRecord
      /\ ChannelFits(channel', at["controller"].gen)
  BY Cancels
<1> QED BY <1>1, <1>2, <1>3, Settles

-----------------------------------------------------------------------------
(* The transports.                                                         *)

LEMMA Budget == ASSUME Inv, NEW b \in {"changes", "flaps", "failures", "closes"},
                       Spend(b)
                PROVE  used' \in [Bounds -> Nat]
BY Spends DEF Inv, Bounds

LEMMA ConnectedStep ==
    ASSUME Inv, NEW s \in Side, TransportConnected(s) PROVE Inv'
<1> DEFINE c == [at[s] EXCEPT !.view = "connected",
                              !.scheduled = s # "agent" /\ @]
           e == [c EXCEPT !.timer = "stability"]
<1>1. used' \in [Bounds -> Nat] BY Budget DEF TransportConnected
<1>2. ops' \in [Side -> Seq(Operation)] /\ link' \in [Side -> BOOLEAN]
  BY Now DEF TransportConnected
<1>3. CASE c.recovering
  <2>1. Become(s, e) /\ CancelRequest(s) /\ UNCHANGED asked
    BY <1>3 DEF TransportConnected
  <2>2. Fits(s, at[s]) BY Stands
  <2>3. Fits(s, c)
    <3> DEFINE d == [at[s] EXCEPT !.view = "connected"]
    <3>1. Fits(s, d) BY <2>2, Edits DEF View
    <3>2. (s # "agent" /\ d.scheduled) \in BOOLEAN OBVIOUS
    <3>3. Fits(s, [d EXCEPT !.scheduled = (s # "agent" /\ d.scheduled)])
      <4> HIDE DEF d
      <4> QED BY <3>1, <3>2, Edits
    <3>4. at[s] \in Fields BY <2>2 DEF Fits
    <3>5. c = [d EXCEPT !.scheduled = (s # "agent" /\ d.scheduled)]
      BY <3>4 DEF Fields
    <3> QED BY <3>3, <3>5
  <2> HIDE DEF c
  <2>4. Fits(s, e) BY <2>3, Edits
  <2> HIDE DEF e
  <2> QED BY <2>1, <2>4, <1>1, <1>2, Withdraws
<1>4. CASE ~ c.recovering
  <2>1. CompleteConnected(s) BY <1>4 DEF TransportConnected
  <2> QED BY <2>1, <1>1, <1>2, Completes
<1> QED BY <1>3, <1>4

LEMMA DisconnectedStep ==
    ASSUME Inv, NEW s \in Side, TransportDisconnected(s) PROVE Inv'
<1> DEFINE c == [at[s] EXCEPT !.view = "disconnected"]
           d == IF c.recovering THEN c ELSE StartRecovery(c)
           e == [d EXCEPT !.state = "Disconnected"]
           f == [e EXCEPT !.timer = "grace"]
<1>1. used' \in [Bounds -> Nat] /\ link' \in [Side -> BOOLEAN]
  BY Budget, Now DEF TransportDisconnected
<1>2. Fits(s, c) BY Stands, Edits DEF View
<1>3. Fits(s, d)
  <2> HIDE DEF c
  <2> QED BY <1>2, RecoveryFits
<1>4. Become(s, f) /\ UNCHANGED <<request, asked, ops, channel>>
  BY DEF TransportDisconnected
<1> HIDE DEF d
<1>5. Fits(s, e) BY <1>3, Edits DEF State
<1> HIDE DEF e
<1>6. Fits(s, f) BY <1>5, Edits
<1> HIDE DEF f
<1> QED BY <1>1, <1>4, <1>6, Quiet

LEMMA FailedStep ==
    ASSUME Inv, NEW s \in Side, TransportFailed(s) PROVE Inv'
<1> DEFINE e == [at[s] EXCEPT !.view = "failed"]
           c == [e EXCEPT !.timer = "none"]
           d == IF c.recovering THEN c ELSE StartRecovery(c)
<1>1. used' \in [Bounds -> Nat] /\ link' \in [Side -> BOOLEAN]
  BY Budget, Now DEF TransportFailed
<1>2. BeginOrRequest(s, d) BY DEF TransportFailed
<1>3. Fits(s, e) BY Stands, Edits DEF View
<1> HIDE DEF e
<1>4. Fits(s, c) BY <1>3, Edits
<1> HIDE DEF c
<1>5. Fits(s, d) BY <1>4, RecoveryFits
<1> HIDE DEF d
<1> QED BY <1>1, <1>2, <1>5, BeginsOrRequests

-----------------------------------------------------------------------------
(* The delayed tasks.                                                      *)

LEMMA GraceStep ==
    ASSUME Inv, NEW s \in Side, GracePeriodEnds(s) PROVE Inv'
<1> DEFINE c == [at[s] EXCEPT !.timer = "none"]
<1>1. used' \in [Bounds -> Nat] /\ link' \in [Side -> BOOLEAN]
  BY Now DEF GracePeriodEnds
<1>2. \/ BeginOrRequest(s, c)
      \/ Become(s, c) /\ UNCHANGED <<request, asked, ops, channel>>
  BY DEF GracePeriodEnds
<1>3. Fits(s, c) BY Stands, Edits
<1> HIDE DEF c
<1> QED BY <1>1, <1>2, <1>3, BeginsOrRequests, Quiet

LEMMA StabilityStep ==
    ASSUME Inv, NEW s \in Side, StabilityPeriodEnds(s) PROVE Inv'
<1> DEFINE c == [at[s] EXCEPT !.timer = "none"]
<1>1. /\ used' \in [Bounds -> Nat] /\ link' \in [Side -> BOOLEAN]
      /\ ops' \in [Side -> Seq(Operation)]
  BY Now DEF StabilityPeriodEnds
<1>2. \/ CompleteConnected(s)
      \/ Become(s, c) /\ UNCHANGED <<request, asked, ops, channel>>
  BY DEF StabilityPeriodEnds
<1>3. Fits(s, c) BY Stands, Edits
<1> HIDE DEF c
<1> QED BY <1>1, <1>2, <1>3, Completes, Quiet

LEMMA ReconnectStep ==
    ASSUME Inv, NEW s \in Side, ReconnectTimeout(s) PROVE Inv'
<1> DEFINE c == [at[s] EXCEPT !.reconnect = FALSE]
           d == Failed(c, "peer_reconnect_timeout")
<1>1. /\ used' \in [Bounds -> Nat] /\ link' \in [Side -> BOOLEAN]
      /\ UNCHANGED <<request, asked, ops, channel>>
  BY Now DEF ReconnectTimeout
<1>2. Become(s, c) \/ Become(s, d) BY DEF ReconnectTimeout
<1>3. Fits(s, c) BY Stands, Edits
<1> HIDE DEF c
<1>4. "peer_reconnect_timeout" \in Reason /\ "peer_reconnect_timeout" # Ahead
  BY DEF Reason, Ahead
<1>5. Fits(s, d) BY <1>3, <1>4, FailedFits
<1> HIDE DEF d
<1> QED BY <1>1, <1>2, <1>3, <1>5, Quiet

LEMMA RetryStep ==
    ASSUME Inv, NEW s \in Side, RetryRestart(s) PROVE Inv'
<1> DEFINE c == [at[s] EXCEPT !.retries = @ - 1]
<1>1. used' \in [Bounds -> Nat] /\ link' \in [Side -> BOOLEAN]
  BY Now DEF RetryRestart
<1>2. \/ BeginOrRequest(s, c)
      \/ Become(s, c) /\ UNCHANGED <<request, asked, ops, channel>>
  BY DEF RetryRestart
<1>3. Fits(s, c)
  <2>1. Fits(s, at[s]) BY Stands
  <2>2. at[s].retries - 1 \in Nat BY <2>1, Gens DEF RetryRestart, Fits
  <2> QED BY <2>1, <2>2, Edits
<1> HIDE DEF c
<1> QED BY <1>1, <1>2, <1>3, BeginsOrRequests, Quiet

LEMMA WithoutFits == ASSUME Inv, NEW s \in Side, NEW w
                     PROVE  Fits(s, Without(s, w))
<1>1. Fits(s, at[s]) BY Stands
<1>2. at[s].watches \ {w} \in SUBSET Watch BY <1>1, Gens DEF Fits
<1> QED BY <1>1, <1>2, Edits DEF Without

LEMMA TimeoutStep ==
    ASSUME Inv, NEW s \in Side, IceRestartTimeout(s) PROVE Inv'
<1>1. /\ used' \in [Bounds -> Nat] /\ link' \in [Side -> BOOLEAN]
      /\ UNCHANGED <<request, asked, ops, channel>>
  BY Now DEF IceRestartTimeout
<1>2. PICK w \in at[s].watches :
         Become(s, IF Watched(s, w)
                   THEN [Without(s, w) EXCEPT
                           !.watches = @ \union {[w EXCEPT !.stage = "verify"]}]
                   ELSE Without(s, w))
  BY DEF IceRestartTimeout
<1>3. Fits(s, Without(s, w)) BY WithoutFits
<1>4. [w EXCEPT !.stage = "verify"] \in Watch
  <2>1. w \in Watch BY Stands, Gens DEF Fits
  <2> QED BY <2>1 DEF Watch
<1> DEFINE c == Without(s, w)
           d == [c EXCEPT !.watches = @ \union {[w EXCEPT !.stage = "verify"]}]
<1>5. Become(s, c) \/ Become(s, d) BY <1>2
<1> HIDE DEF c
<1>6. Fits(s, d)
  <2>1. c.watches \union {[w EXCEPT !.stage = "verify"]} \in SUBSET Watch
    BY <1>3, <1>4, Gens DEF Fits, c
  <2> QED BY <1>3, <2>1, Edits DEF c
<1> HIDE DEF d
<1> QED BY <1>1, <1>3, <1>5, <1>6, Quiet DEF c

\* An attempt is given up: tried again later, or the session ends.
LEMMA GivesUp ==
    ASSUME Inv, NEW s \in Side, NEW c, Fits(s, c),
           GiveUpAttempt(s, c, "ice_restart_exhausted"), UNCHANGED asked,
           ops' \in [Side -> Seq(Operation)], link' \in [Side -> BOOLEAN],
           used' \in [Bounds -> Nat]
    PROVE  Inv'
<1> DEFINE d == [c EXCEPT !.scheduled = FALSE]
           f == Failed(d, "ice_restart_exhausted")
           r == [d EXCEPT !.retries = @ + 1]
<1>1. (Become(s, f) \/ Become(s, r)) /\ CancelRequest(s) BY DEF GiveUpAttempt
<1>2. Fits(s, d) BY Edits
<1> HIDE DEF d
<1>3. "ice_restart_exhausted" \in Reason /\ "ice_restart_exhausted" # Ahead
  BY DEF Reason, Ahead
<1>4. Fits(s, f) BY <1>2, <1>3, FailedFits
<1>5. Fits(s, r)
  <2>1. d.retries + 1 \in Nat BY <1>2, Gens DEF Fits
  <2> QED BY <1>2, <2>1, Edits
<1> HIDE DEF f, r
<1> QED BY <1>1, <1>4, <1>5, Withdraws

LEMMA VerifyStep ==
    ASSUME Inv, NEW s \in Side, VerifyTransport(s) PROVE Inv'
<1>1. ops' \in [Side -> Seq(Operation)] /\ link' \in [Side -> BOOLEAN]
  BY Now DEF VerifyTransport
<1>2. PICK w \in at[s].watches :
        \/ /\ Become(s, Without(s, w))
           /\ UNCHANGED <<request, asked, channel, used>>
        \/ /\ Spend("changes")
           /\ Become(s, Recovered(Without(s, w)))
           /\ CancelRequest(s)
           /\ asked' = IF s = "controller" THEN ClearPending(asked) ELSE asked
        \/ /\ GiveUpAttempt(s, Without(s, w), "ice_restart_exhausted")
           /\ UNCHANGED <<asked, used>>
  BY DEF VerifyTransport
<1> DEFINE c == Without(s, w)
<1>3. Fits(s, c) BY WithoutFits
<1> HIDE DEF c
<1>4. Fits(s, Recovered(c)) BY <1>3, RecoveryFits
<1>5. CASE Become(s, c) /\ UNCHANGED <<request, asked, channel, used>>
  <2>1. UNCHANGED ops BY DEF VerifyTransport
  <2> QED BY <1>3, <1>5, <2>1, <1>1, Now, Quiet
<1>6. CASE /\ Spend("changes")
           /\ Become(s, Recovered(c))
           /\ CancelRequest(s)
           /\ asked' = IF s = "controller" THEN ClearPending(asked) ELSE asked
  <2>1. used' \in [Bounds -> Nat] BY <1>6, Budget
  <2> QED BY <1>4, <1>6, <1>1, <2>1, Withdraws
<1>7. CASE /\ GiveUpAttempt(s, c, "ice_restart_exhausted")
           /\ UNCHANGED <<asked, used>>
  BY <1>3, <1>7, <1>1, Now, GivesUp
<1> QED BY <1>2, <1>5, <1>6, <1>7 DEF c

-----------------------------------------------------------------------------
(* Native operations.                                                      *)

LEMMA Finishes ==
    ASSUME Inv, NEW s \in Side, Finish(s)
    PROVE  /\ ops' \in [Side -> Seq(Operation)]
           /\ Head(ops[s]) \in Operation
BY Now DEF Finish

LEMMA LocalStep ==
    ASSUME Inv, NEW s \in Side, LocalDescription(s) PROVE Inv'
<1> DEFINE op == Head(ops[s])
           c == at[s]
           m == [type |-> op.do, gen |-> at[s].gen, made |-> op.gen]
           a == [c EXCEPT !.available = FALSE]
           b == [a EXCEPT !.scheduled = FALSE]
           f == Failed(c, "signaling_description_send_failed")
<1>1. ops' \in [Side -> Seq(Operation)] /\ op \in Operation
  BY Finishes DEF LocalDescription
<1>2. Fits(s, c) /\ c \in Fields /\ c.gen \in Nat
  BY Stands, Gens DEF Fits
<1>3. op.gen \in Nat /\ op.do \in {"offer", "answer"}
  BY <1>1 DEF LocalDescription, Operation
<1>4. Transmit(s, m) BY DEF LocalDescription, Tag
<1>5. m \in Message BY <1>2, <1>3 DEF Message
<1>6. c.gen <= at["controller"].gen
  BY <1>2, Sides, Now DEF Fits
<1>7. Become(s, c) \/ Become(s, AwaitSignaling(b)) \/ Become(s, f)
  <2>1. b = [c EXCEPT !.available = FALSE, !.scheduled = FALSE] OBVIOUS
  <2> HIDE DEF b, f
  <2> QED BY <2>1 DEF LocalDescription, f
<1>8. Fits(s, AwaitSignaling(b))
  <2> HIDE DEF c
  <2>1. Fits(s, a) BY <1>2, Edits
  <2> HIDE DEF a
  <2>2. Fits(s, b) BY <2>1, Edits
  <2> HIDE DEF b
  <2> QED BY <2>2, RecoveryFits
<1>9. Fits(s, f)
  <2>1. /\ "signaling_description_send_failed" \in Reason
        /\ "signaling_description_send_failed" # Ahead
    BY DEF Reason, Ahead
  <2> HIDE DEF c
  <2> QED BY <1>2, <2>1, FailedFits
<1>10. m.gen = c.gen OBVIOUS
<1>11. /\ link' \in [Side -> BOOLEAN] /\ used' \in [Bounds -> Nat]
       /\ request' \in RequestRecord /\ AskedFits(asked', at["controller"].gen)
  BY Now DEF LocalDescription
<1> HIDE DEF m, b, f, c
<1>12. ChannelFits(channel', at["controller"].gen)
  BY <1>4, <1>5, <1>6, <1>10, Transmits
<1>13. Moves(s) BY <1>2, <1>7, <1>8, <1>9, Moved
<1> QED BY <1>1, <1>11, <1>12, <1>13, Settles

LEMMA AppliedStep ==
    ASSUME Inv, NEW s \in Side, RemoteApplied(s) PROVE Inv'
<1> DEFINE op == Head(ops[s])
           answers == s = "agent" /\ Current(s, op) /\ ~ at[s].closing
           c == [at[s] EXCEPT !.view = "connecting"]
           answer == [do |-> "answer", gen |-> at[s].gen]
<1>1. Fits(s, at[s]) /\ at[s].gen \in Nat BY Stands, Gens DEF Fits
<1>2. Fits(s, c) BY <1>1, Edits DEF View
<1>3. Become(s, c) \/ Become(s, at[s]) BY DEF RemoteApplied
<1>4. answer \in Operation BY <1>1 DEF Operation
<1>5. \/ ops' = [ops EXCEPT ![s] = Append(Tail(@), answer)]
      \/ ops' = [ops EXCEPT ![s] = Tail(@)]
  BY DEF RemoteApplied
<1>6. ops \in [Side -> Seq(Operation)] /\ ops[s] # <<>>
  BY Now DEF RemoteApplied
<1> HIDE DEF c, answer
<1>7. Tail(ops[s]) \in Seq(Operation) BY <1>6
<1>8. Append(Tail(ops[s]), answer) \in Seq(Operation) BY <1>4, <1>7
<1>9. ops' \in [Side -> Seq(Operation)] BY <1>5, <1>6, <1>7, <1>8
<1>10. Moves(s) BY <1>1, <1>2, <1>3, Moved
<1>11. /\ link' \in [Side -> BOOLEAN] /\ used' \in [Bounds -> Nat]
       /\ request' \in RequestRecord /\ AskedFits(asked', at["controller"].gen)
       /\ ChannelFits(channel', at["controller"].gen)
  BY Now DEF RemoteApplied
<1> QED BY <1>9, <1>10, <1>11, Settles

LEMMA OperationStep ==
    ASSUME Inv, NEW s \in Side, OperationFailed(s) PROVE Inv'
<1> DEFINE c == at[s]
           f == Failed(c, "operation_failed")
<1>1. ops' \in [Side -> Seq(Operation)] BY Finishes DEF OperationFailed
<1>2. used' \in [Bounds -> Nat] BY Budget DEF OperationFailed
<1>3. link' \in [Side -> BOOLEAN] /\ UNCHANGED asked
  BY Now DEF OperationFailed
<1>4. Fits(s, c) BY Stands
<1>5. Fits(s, f)
  <2>1. "operation_failed" \in Reason /\ "operation_failed" # Ahead
    BY DEF Reason, Ahead
  <2> HIDE DEF c
  <2> QED BY <1>4, <2>1, FailedFits
<1>6. \/ UNCHANGED <<at, request, channel>>
      \/ GiveUpAttempt(s, c, "ice_restart_exhausted")
      \/ Become(s, f) /\ UNCHANGED <<request, channel>>
  BY DEF OperationFailed
<1>7. CASE UNCHANGED <<at, request, channel>>
  <2>1. Moves(s) BY <1>7, Stays
  <2> QED BY <2>1, <1>1, <1>2, <1>3, <1>7, Now, Settles
<1>8. CASE GiveUpAttempt(s, c, "ice_restart_exhausted")
  BY <1>1, <1>2, <1>3, <1>4, <1>8, GivesUp
<1>9. CASE Become(s, f) /\ UNCHANGED <<request, channel>>
  <2> HIDE DEF f
  <2>1. Moves(s) BY <1>5, <1>9, Moved
  <2> QED BY <2>1, <1>1, <1>2, <1>3, <1>9, Now, Settles
<1> QED BY <1>6, <1>7, <1>8, <1>9

-----------------------------------------------------------------------------
(* Messages of the peer.                                                   *)

\* The agent follows an offer up to the controller's generation.
LEMMA Follows ==
    ASSUME Inv, NEW m, m.gen \in Nat, m.gen <= at["controller"].gen
    PROVE  Fits("agent", Followed(at["agent"], m))
<1> DEFINE c == at["agent"]
           e == [c EXCEPT !.gen = m.gen, !.attempt = IF @ = 0 THEN 1 ELSE @]
           f == [e EXCEPT !.recovering = TRUE, !.scheduled = TRUE,
                          !.watches = {}, !.remote = 0,
                          !.state = "RestartingIce"]
<1>1. Fits("agent", c) /\ c \in Fields BY Stands, Sides DEF Fits
<1>2. CASE m.gen <= c.gen BY <1>1, <1>2 DEF Followed
<1>3. CASE ~ m.gen <= c.gen
  <2> HIDE DEF c
  <2>1. Followed(c, m) = f BY <1>1, <1>3 DEF Followed, Fields
  <2>2. e \in Fields
    <3>1. (IF c.attempt = 0 THEN 1 ELSE c.attempt) \in 0 .. MaximumAttempts
      BY <1>1, Gens, IceRestartAssumption
    <3> QED BY <1>1, <3>1 DEF Fields
  <2>3. e.gen = m.gen /\ e.reason = c.reason BY <1>1 DEF Fields
  <2>4. Fits("agent", e) BY <1>1, <2>2, <2>3 DEF Fits
  <2> HIDE DEF e
  <2>5. Fits("agent", f) BY <2>4 DEF Fits, Fields, State
  <2> QED BY <2>1, <2>5 DEF c
<1> QED BY <1>2, <1>3

LEMMA Applies ==
    ASSUME Inv, NEW s \in Side, NEW c, Fits(s, c), NEW m, m.made \in Nat,
           ApplyRemote(s, c, m)
    PROVE  Moves(s) /\ ops' \in [Side -> Seq(Operation)]
<1> DEFINE f == Failed(c, "conflicting_remote_sdp")
           d == [c EXCEPT !.remote = m.made]
           r == [d EXCEPT !.state = "RestartingIce"]
           n == ArmIceRestartTimeout(r)
           o == [do |-> "apply", gen |-> c.gen]
<1>1. /\ Become(s, c) \/ Become(s, f) \/ Become(s, n) \/ Become(s, d)
      /\ ops' = ops \/ ops' = [ops EXCEPT ![s] = Append(@, o)]
  <2>1. c.remote \in Nat BY Gens DEF Fits
  <2> HIDE DEF f, n
  <2> QED BY <2>1 DEF ApplyRemote, f, n
<1>2. Fits(s, f)
  <2>1. "conflicting_remote_sdp" \in Reason /\ "conflicting_remote_sdp" # Ahead
    BY DEF Reason, Ahead
  <2> QED BY <2>1, FailedFits
<1>3. Fits(s, d) BY Edits
<1>4. Fits(s, n)
  <2> HIDE DEF d
  <2>1. Fits(s, r) BY <1>3, Edits DEF State
  <2> HIDE DEF r
  <2> QED BY <2>1, ArmFits
<1>5. o \in Operation BY Gens DEF Fits, Operation
<1> HIDE DEF f, n, d, o
<1>6. Moves(s) BY <1>1, <1>2, <1>3, <1>4, Moved
<1>7. ops \in [Side -> Seq(Operation)] BY Now
<1>8. Append(ops[s], o) \in Seq(Operation) BY <1>5, <1>7
<1>9. ops' \in [Side -> Seq(Operation)] BY <1>1, <1>7, <1>8
<1> QED BY <1>6, <1>9

LEMMA OfferStep == ASSUME Inv, HandleOffer PROVE Inv'
<1> DEFINE m == Letter("agent")
           c == Followed(at["agent"], m)
<1>1. /\ "agent" \in Side /\ channel[Peer("agent")] # <<>>
      /\ m.type \in Description
  BY Sides DEF HandleOffer, Receive, Letter, Description
<1>2. m.gen \in Nat /\ m.made \in Nat /\ m.gen <= at["controller"].gen
  BY <1>1, Letters
<1>3. Fits("agent", c) BY <1>2, Follows
<1>4. \/ UNCHANGED <<at, ops>>
      \/ ApplyRemote("agent", c, m)
  BY DEF HandleOffer
<1>5. request' \in {NoRequest, request} /\ Consume("agent")
      /\ UNCHANGED <<asked, link, used>>
  BY DEF HandleOffer
<1> HIDE DEF c, m
<1>6. Moves("agent") /\ ops' \in [Side -> Seq(Operation)]
  BY <1>1, <1>2, <1>3, <1>4, Stays, Applies, Now
<1>7. request' \in RequestRecord
  <2>1. request \in RequestRecord BY Now
  <2>2. NoRequest \in RequestRecord BY <2>1 DEF NoRequest, RequestRecord
  <2> QED BY <1>5, <2>1, <2>2
<1>8. ChannelFits(channel', at["controller"].gen) BY <1>1, <1>5, Consumes
<1> QED BY <1>1, <1>5, <1>6, <1>7, <1>8, Now, Settles

LEMMA AnswerStep == ASSUME Inv, HandleAnswer PROVE Inv'
<1> DEFINE m == Letter("controller")
           c == at["controller"]
<1>1. /\ "controller" \in Side /\ channel[Peer("controller")] # <<>>
      /\ m.type \in Description
  BY Sides DEF HandleAnswer, Receive, Letter, Description
<1>2. m.gen \in Nat /\ m.made \in Nat /\ m.gen <= c.gen
  BY <1>1, Letters
<1>3. Fits("controller", c) BY <1>1, Stands
<1>4. \/ UNCHANGED <<at, ops>>
      \/ ApplyRemote("controller", c, m)
  BY <1>2, Now DEF HandleAnswer
<1>5. Consume("controller") /\ UNCHANGED <<request, asked, link, used>>
  BY DEF HandleAnswer
<1> HIDE DEF c, m
<1>6. Moves("controller") /\ ops' \in [Side -> Seq(Operation)]
  BY <1>1, <1>2, <1>3, <1>4, Stays, Applies, Now
<1>7. ChannelFits(channel', at["controller"].gen) BY <1>1, <1>5, Consumes
<1> QED BY <1>1, <1>5, <1>6, <1>7, Now, Settles

\* A message about a request changes at most what is asked of the controller.
LEMMA RequestMessages ==
    ASSUME Inv, channel["agent"] # <<>>, Consume("controller"),
           AskedFits(asked', at["controller"].gen),
           UNCHANGED <<at, request, ops, link, used>>
    PROVE  Inv'
<1>1. "controller" \in Side /\ channel[Peer("controller")] # <<>> BY Sides
<1>2. ChannelFits(channel', at["controller"].gen) BY <1>1, Consumes
<1>3. Moves("controller") BY <1>1, Stays
<1> QED BY <1>1, <1>2, <1>3, Now, Settles

LEMMA RequestStep == ASSUME Inv, HandleRequest PROVE Inv'
<1> DEFINE m == Letter("controller")
           a == [last |-> m.seq, seq |-> m.seq, gen |-> m.gen, debounce |-> TRUE]
<1>1. /\ "controller" \in Side /\ channel[Peer("controller")] # <<>>
      /\ m.type \notin Description /\ channel["agent"] # <<>>
  BY Sides DEF HandleRequest, Receive, Letter, Description
<1>2. m.seq \in Nat /\ m.gen \in Nat BY <1>1, Letters
<1>3. \/ asked' = a /\ m.gen = at["controller"].gen
      \/ asked' = asked
  BY DEF HandleRequest, Acceptable
<1> HIDE DEF m
<1>4. a \in AskedRecord /\ a.gen = m.gen BY <1>2 DEF AskedRecord
<1> HIDE DEF a
<1>5. AskedFits(asked', at["controller"].gen)
  <2>1. CASE asked' = a /\ m.gen = at["controller"].gen
    BY <2>1, <1>4 DEF AskedFits
  <2>2. CASE asked' = asked BY <2>2, Now
  <2> QED BY <2>1, <2>2, <1>3
<1> QED BY <1>1, <1>5, RequestMessages DEF HandleRequest

LEMMA CancelStep == ASSUME Inv, HandleRequestCancel PROVE Inv'
<1>1. channel["agent"] # <<>> BY Sides DEF HandleRequestCancel, Receive
<1>2. asked' \in {asked, ClearPending(asked)} BY DEF HandleRequestCancel
<1>3. AskedFits(asked', at["controller"].gen) BY <1>2, Now, Clears
<1> QED BY <1>1, <1>3, RequestMessages DEF HandleRequestCancel

LEMMA DueStep == ASSUME Inv, RequestIsDue PROVE Inv'
<1>1. "controller" \in Side BY Sides
<1>2. link' \in [Side -> BOOLEAN] /\ used' \in [Bounds -> Nat]
  BY Now DEF RequestIsDue
<1>3. CASE /\ asked' = [asked EXCEPT !.debounce = FALSE]
           /\ UNCHANGED <<at, ops, request, channel>>
  <2>1. AskedFits(asked', at["controller"].gen)
    BY <1>3, Now DEF AskedFits, AskedRecord
  <2>2. Moves("controller") BY <1>1, <1>3, Stays
  <2> QED BY <2>1, <2>2, <1>1, <1>2, <1>3, Now, Settles
<1>4. CASE BeginIceRestart(at["controller"])
  BY <1>1, <1>2, <1>4, Stands, Begins
<1> QED BY <1>3, <1>4 DEF RequestIsDue

-----------------------------------------------------------------------------
(* Signaling, and the user.                                                *)

LEMMA LostStep == ASSUME Inv, NEW s \in Side, LinkLost(s) PROVE Inv'
<1>1. used' \in [Bounds -> Nat] BY Budget DEF LinkLost
<1>2. link' \in [Side -> BOOLEAN] BY Now DEF LinkLost
<1>3. UNCHANGED <<at, request, asked, ops>> BY DEF LinkLost
<1>4. ChannelFits(channel', at["controller"].gen)
  <2>1. PICK p \in Side : p = Peer(s) BY Sides
  <2>2. channel \in [Side -> Seq(Message)] BY Now DEF ChannelFits
  <2>3. CASE channel' = [channel EXCEPT ![Peer(s)] = <<>>]
    <3>1. channel' = [channel EXCEPT ![p] = <<>>] BY <2>1, <2>3
    <3>2. channel' \in [Side -> Seq(Message)] BY <2>2, <3>1
    <3>3. \A t \in Side : channel'[t] = channel[t] \/ channel'[t] = <<>>
      BY <2>2, <3>1
    <3> QED BY <3>2, <3>3, Now DEF ChannelFits
  <2>4. CASE channel' = [t \in Side |-> <<>>]
    BY <2>4 DEF ChannelFits
  <2> QED BY <2>3, <2>4 DEF LinkLost
<1>5. Moves(s) BY <1>3, Stays
<1> QED BY <1>1, <1>2, <1>3, <1>4, <1>5, Now, Settles

LEMMA BackStep == ASSUME Inv, NEW s \in Side, LinkBack(s) PROVE Inv'
<1>1. link' \in [Side -> BOOLEAN] BY Now DEF LinkBack
<1>2. UNCHANGED <<at, request, asked, ops, channel, used>> BY DEF LinkBack
<1>3. Moves(s) BY <1>2, Stays
<1> QED BY <1>1, <1>2, <1>3, Now, Settles

LEMMA GoneStep == ASSUME Inv, NEW s \in Side, SignalingGone(s) PROVE Inv'
<1> DEFINE a == [at[s] EXCEPT !.available = FALSE]
           c == [a EXCEPT !.scheduled = FALSE]
<1>1. Fits(s, a) BY Stands, Edits
<1>2. /\ Become(s, AwaitSignaling(c)) \/ Become(s, c)
      /\ UNCHANGED <<request, asked, ops, channel, link, used>>
  BY DEF SignalingGone
<1> HIDE DEF a
<1>3. Fits(s, c) BY <1>1, Edits
<1> HIDE DEF c
<1>4. Fits(s, AwaitSignaling(c)) BY <1>3, RecoveryFits
<1> QED BY <1>2, <1>3, <1>4, Now, Quiet

LEMMA ReturnedStep == ASSUME Inv, NEW s \in Side, SignalingBack(s) PROVE Inv'
<1> DEFINE c == [at[s] EXCEPT !.available = TRUE]
           m == [type |-> "cancel", gen |-> request.gen, seq |-> request.seq]
<1>1. Fits(s, c) BY Stands, Edits
<1>2. link' \in [Side -> BOOLEAN] /\ used' \in [Bounds -> Nat]
  BY Now DEF SignalingBack
<1>3. \/ /\ Become(s, c) /\ request' = NoRequest /\ Transmit(s, m)
         /\ UNCHANGED <<asked, ops>>
      \/ BeginOrRequest(s, c)
      \/ Become(s, c) /\ UNCHANGED <<request, asked, ops, channel>>
  BY DEF SignalingBack
<1> HIDE DEF c
<1>4. CASE /\ Become(s, c) /\ request' = NoRequest /\ Transmit(s, m)
           /\ UNCHANGED <<asked, ops>>
  <2>1. m \in Message /\ m.type \notin Description /\ NoRequest \in RequestRecord
    BY Now DEF Message, Description, RequestRecord, NoRequest
  <2> HIDE DEF m
  <2>2. ChannelFits(channel', at["controller"].gen) BY <2>1, <1>4, Transmits
  <2>3. Moves(s) BY <1>1, <1>4, Moved
  <2> QED BY <2>1, <2>2, <2>3, <1>2, <1>4, Now, Settles
<1> QED BY <1>1, <1>2, <1>3, <1>4, BeginsOrRequests, Quiet

LEMMA CloseStep == ASSUME Inv, NEW s \in Side, Close(s) PROVE Inv'
<1>1. used' \in [Bounds -> Nat] BY Budget DEF Close
<1>2. link' \in [Side -> BOOLEAN] BY Now DEF Close
<1>3. Fits(s, Closed(at[s])) BY Stands, ClosedFits
<1> QED BY <1>1, <1>2, <1>3, Quiet DEF Close

-----------------------------------------------------------------------------
(* The invariant.                                                          *)

LEMMA Starts == Init => Inv
<1> SUFFICES ASSUME Init PROVE Inv
  OBVIOUS
<1>1. \A s \in Side : Established(s) \in Fields
  BY IceRestartAssumption DEF Established, Fields, State, View, Reason
<1>2. at \in [Side -> Fields] BY <1>1 DEF Init
<1>3. /\ asked \in AskedRecord /\ ~ asked.debounce /\ request \in RequestRecord
  BY DEF Init, AskedRecord, RequestRecord
<1>4. ChannelFits(channel, at["controller"].gen)
  BY DEF Init, ChannelFits
<1>5. /\ ops \in [Side -> Seq(Operation)] /\ link \in [Side -> BOOLEAN]
      /\ used \in [Bounds -> Nat]
  BY DEF Init
<1>6. /\ at["agent"].gen <= at["controller"].gen
      /\ NeverAhead
  BY Sides DEF Init, Established, NeverAhead
<1> QED
  BY <1>2, <1>3, <1>4, <1>5, <1>6
     DEF Inv, TypeOK, AskedFits, ChannelFits, AskedRecord, RequestRecord

LEMMA Steps == Inv /\ [Next]_vars => Inv'
<1> SUFFICES ASSUME Inv, [Next]_vars PROVE Inv'
  OBVIOUS
<1>1. ASSUME NEW s \in Side, Transport(s) PROVE Inv'
  BY <1>1, ConnectedStep, DisconnectedStep, FailedStep DEF Transport
<1>2. ASSUME NEW s \in Side, Delayed(s) PROVE Inv'
  BY <1>2, GraceStep, StabilityStep, ReconnectStep, RetryStep, TimeoutStep,
     VerifyStep DEF Delayed
<1>3. ASSUME NEW s \in Side, Native(s) PROVE Inv'
  BY <1>3, LocalStep, AppliedStep, OperationStep DEF Native
<1>4. ASSUME NEW s \in Side, Signaling(s) PROVE Inv'
  BY <1>4, LostStep, BackStep, GoneStep, ReturnedStep DEF Signaling
<1>5. ASSUME NEW s \in Side, Close(s) PROVE Inv'
  BY <1>5, CloseStep
<1>6. CASE Handle
  BY <1>6, OfferStep, AnswerStep, RequestStep, CancelStep DEF Handle
<1>7. CASE RequestIsDue BY <1>7, DueStep
<1>8. CASE UNCHANGED vars
  BY <1>8 DEF vars, Inv, TypeOK, ChannelFits, AskedFits, NeverAhead, Fields
<1> QED BY <1>1, <1>2, <1>3, <1>4, <1>5, <1>6, <1>7, <1>8 DEF Next

LEMMA Invariant == Spec => []Inv
BY Starts, Steps, PTL DEF Spec

\* The fields of the controllers keep their types: no attempt is counted beyond
\* maximumIceRestartAttempts.
THEOREM TypeCorrect == Spec => []TypeOK
<1>1. Inv => TypeOK BY DEF Inv
<1> QED BY <1>1, Invariant, PTL

\* Whatever is lost, repeated or late, no side closes its session because of an
\* answer of a generation that has not begun (HandleRemoteSdp).
THEOREM NothingAhead == Spec => []NeverAhead
<1>1. Inv => NeverAhead BY DEF Inv
<1> QED BY <1>1, Invariant, PTL

\* A debounced request of the peer is for the controller's own generation: a
\* restart begun in between by a failure, a timeout or a retry withdraws it, so
\* that none is made twice (HandleRemoteIceRestartRequest).
THEOREM RequestsCurrent == Spec => []PendingIsCurrent
<1>1. Inv => PendingIsCurrent BY DEF Inv, AskedFits, PendingIsCurrent
<1> QED BY <1>1, Invariant, PTL
=============================================================================
