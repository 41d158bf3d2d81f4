-------------------------- MODULE ConnectionGate ---------------------------
(***************************************************************************)
(* What a connection goes through before the rest of the signaling server  *)
(* listens to it: admission by the limits on connections, the window of    *)
(* message ids, authentication by the identity provider's answer, which    *)
(* arrives later, and the registration of a device                         *)
(* (SignalServer.Connection.cpp, SignalServer.Authentication.cpp,          *)
(* SignalServer.Recovery.cpp, LogtoUserInfoClient.cpp).                    *)
(*                                                                         *)
(* The server authenticates with Logto.  A socket that was told to close   *)
(* still delivers what arrived before its peer answered.  Deadlines pass   *)
(* at any time.  What registered devices say is SignalServer's business.   *)
(***************************************************************************)
EXTENDS Naturals, Sequences, FiniteSets, SequencesExt

CONSTANTS Socket, Address, User, Device, None,
          OwnerOf,          \* the user of each device of the identity store
          MessageId,
          MaximumConnections, MaximumConnectionsPerIp,
          MaximumUnauthenticatedConnections,
          MaximumRememberedMessageIds

ASSUME ConnectionGateAssumption ==
    /\ None \notin Socket \union User \union Device
    /\ OwnerOf \in [Device -> User]
    /\ {MaximumConnections, MaximumConnectionsPerIp,
        MaximumUnauthenticatedConnections, MaximumRememberedMessageIds}
           \subseteq Nat \ {0}

VARIABLES running,          \* the server listens
          clients,          \* clients_: the state of each accepted socket
          unauthenticated,  \* unauthenticatedConnectionCount_
          byAddress,        \* connectionCountByIp_
          rememberedIds,    \* totalRememberedMessageIds_
          devices,          \* devices_: the socket that registered a device
          accounts,         \* accountConnections_
          replies           \* UserInfo requests the provider still owes

vars == <<running, clients, unauthenticated, byAddress, rememberedIds, devices,
          accounts, replies>>

\* ClientState.  The deadline and the idle time are flags that time sets.
Client == [address : Address, closing : BOOLEAN, authenticated : BOOLEAN,
           authenticationPending : BOOLEAN, deadlinePassed : BOOLEAN,
           idle : BOOLEAN, user : User \union {None}, registered : BOOLEAN,
           device : Device \union {None}, receivedIds : SUBSET MessageId,
           receivedOrder : Seq(MessageId)]

ASSUME NoneIsNoClient == None \notin Client

NewClient(a) ==
    [address |-> a, closing |-> FALSE, authenticated |-> FALSE,
     authenticationPending |-> FALSE, deadlinePassed |-> FALSE, idle |-> FALSE,
     user |-> None, registered |-> FALSE, device |-> None,
     receivedIds |-> {}, receivedOrder |-> <<>>]

Clients == {s \in Socket : clients[s] # None}

\* The variables hold values of their types and the counters keep to the
\* limits.  The window of message ids: the set that finds a repetition and the
\* queue that bounds it hold the same ids, each once, so that an id is handled
\* again only after as many others as the window holds, and not dropped then.
TypeOK ==
    /\ running \in BOOLEAN
    /\ clients \in [Socket -> Client \union {None}]
    /\ \A s \in Clients :
          LET order == clients[s].receivedOrder
          IN  /\ clients[s].receivedIds = ToSet(order)
              /\ Cardinality(ToSet(order)) = Len(order)
              /\ Len(order) <= MaximumRememberedMessageIds
    /\ unauthenticated \in 0 .. MaximumUnauthenticatedConnections
    /\ byAddress \in [Address -> 0 .. MaximumConnectionsPerIp]
    /\ rememberedIds \in Nat
    /\ devices \in [Device -> Socket \union {None}]
    /\ accounts \in [User -> SUBSET Socket]
    /\ replies \subseteq Socket

-----------------------------------------------------------------------------
(***************************************************************************)
(* OnDisconnected, for any set of sockets one after the other.             *)
(***************************************************************************)

\* std::max(0, n - k), the form in which the counters are lowered.
Lower(n, k) == IF n > k THEN n - k ELSE 0

\* The mutant forgets that the lost connection may not have authenticated.
KeepUnauthenticated(lost) == unauthenticated

LowerUnauthenticated(lost) ==
    Lower(unauthenticated, Cardinality({s \in lost : ~ clients[s].authenticated}))

LowerAddresses(lost) ==
    [a \in Address |->
        Lower(byAddress[a], Cardinality({s \in lost : clients[s].address = a}))]

\* The ids in the windows of some clients.
RememberedBy(some) ==
    {p \in some \X MessageId : p[2] \in clients[p[1]].receivedIds}

LowerRememberedIds(lost) ==
    Lower(rememberedIds, Cardinality(RememberedBy(lost)))

\* Only the socket that owns a registration takes it along.  The mutant takes
\* the registration of the device whoever owns it.
ReleaseAnyDevice(lost) ==
    [d \in Device |->
        IF \E s \in lost : clients[s].device = d THEN None ELSE devices[d]]

ReleaseDevices(lost) ==
    [d \in Device |->
        IF devices[d] \in lost /\ clients[devices[d]].registered
        THEN None ELSE devices[d]]

RemoveAccountConnections(lost) == [u \in User |-> accounts[u] \ lost]

\* The request of a lost connection is canceled and its completion dropped;
\* the mutant lets it go on.
KeepReplies(lost) == replies

CancelReplies(lost) == replies \ lost

Disconnect(lost) ==
    /\ clients' = [s \in Socket |-> IF s \in lost THEN None ELSE clients[s]]
    /\ unauthenticated' = LowerUnauthenticated(lost)
    /\ byAddress' = LowerAddresses(lost)
    /\ rememberedIds' = LowerRememberedIds(lost)
    /\ devices' = ReleaseDevices(lost)
    /\ accounts' = RemoveAccountConnections(lost)
    /\ replies' = CancelReplies(lost)

-----------------------------------------------------------------------------
(***************************************************************************)
(* Accepting a connection.                                                 *)
(***************************************************************************)

Admits(a) ==
    /\ Cardinality(Clients) < MaximumConnections
    /\ byAddress[a] < MaximumConnectionsPerIp
    /\ unauthenticated < MaximumUnauthenticatedConnections

AcceptConnection(s, a) ==
    /\ running
    /\ clients[s] = None
    /\ Admits(a)
    /\ clients' = [clients EXCEPT ![s] = NewClient(a)]
    /\ unauthenticated' = unauthenticated + 1
    /\ byAddress' = [byAddress EXCEPT ![a] = @ + 1]
    /\ UNCHANGED <<running, rememberedIds, devices, accounts, replies>>

-----------------------------------------------------------------------------
(***************************************************************************)
(* Messages.  A handler maps the state of the client to a new one.         *)
(***************************************************************************)

\* The mutant drops the oldest id from the queue but not from the set.
RememberInQueue(client, id) ==
    LET order == Append(client.receivedOrder, id)
    IN  [client EXCEPT
            !.receivedIds = @ \union {id},
            !.receivedOrder = IF Len(order) > MaximumRememberedMessageIds
                              THEN Tail(order) ELSE order]

RememberMessageId(client, id) ==
    LET order == Append(client.receivedOrder, id)
        full == Len(order) > MaximumRememberedMessageIds
    IN  [client EXCEPT
            !.receivedIds = (@ \union {id}) \ (IF full THEN {Head(order)} ELSE {}),
            !.receivedOrder = IF full THEN Tail(order) ELSE order]

\* An envelope whose id is known is dropped; any other counts as activity.
Hears(s, id) ==
    /\ running
    /\ clients[s] # None
    /\ id \notin clients[s].receivedIds

Heard(s, id) == [RememberMessageId(clients[s], id) EXCEPT !.idle = FALSE]

Handle(s, id, client) ==
    /\ clients' = [clients EXCEPT ![s] = client]
    /\ rememberedIds' = rememberedIds + Cardinality(client.receivedIds)
                            - Cardinality(clients[s].receivedIds)

StartAuthentication(s, id) ==
    /\ Hears(s, id)
    /\ ~ clients[s].authenticated
    /\ ~ clients[s].authenticationPending
    /\ Handle(s, id, [Heard(s, id) EXCEPT !.authenticationPending = TRUE])
    /\ replies' = replies \union {s}
    /\ UNCHANGED <<running, unauthenticated, byAddress, devices, accounts>>

\* An auth message that is limited, malformed, untimely or cannot be sent on,
\* and any other message but a heartbeat before authentication.
RefuseMessage(s, id) ==
    /\ Hears(s, id)
    /\ Handle(s, id, [Heard(s, id) EXCEPT !.closing = TRUE])
    /\ UNCHANGED <<running, unauthenticated, byAddress, devices, accounts, replies>>

\* A heartbeat, a message the device may not send yet, a refused registration.
IgnoreMessage(s, id) ==
    /\ Hears(s, id)
    /\ Handle(s, id, Heard(s, id))
    /\ UNCHANGED <<running, unauthenticated, byAddress, devices, accounts, replies>>

\* HandleRegister: the socket that holds the registration is told to give it
\* up and aborted, which runs OnDisconnected at once.
HandleRegister(s, id, d) ==
    LET previous == {devices[d]} \ {None}
        dropped == {p \in previous : clients[p] # None}
        client == [Heard(s, id) EXCEPT !.registered = TRUE, !.device = d]
    IN  /\ Hears(s, id)
        /\ clients[s].authenticated
        /\ ~ clients[s].registered
        /\ OwnerOf[d] = clients[s].user
        /\ clients' = [t \in Socket |->
                          IF t = s THEN client
                          ELSE IF t \in dropped THEN None ELSE clients[t]]
        /\ rememberedIds' =
               LowerRememberedIds(dropped) + Cardinality(client.receivedIds)
                   - Cardinality(clients[s].receivedIds)
        /\ unauthenticated' = LowerUnauthenticated(dropped)
        /\ byAddress' = LowerAddresses(dropped)
        /\ devices' = [devices EXCEPT ![d] = s]
        /\ accounts' = RemoveAccountConnections(dropped)
        /\ replies' = CancelReplies(dropped)
        /\ UNCHANGED running

-----------------------------------------------------------------------------
(***************************************************************************)
(* The provider's answer.                                                  *)
(***************************************************************************)

Answered(s) == [clients[s] EXCEPT !.authenticationPending = FALSE]

\* CompleteClientAuthentication and AddAccountConnection.
AuthenticationSucceeds(s, u) ==
    /\ s \in replies
    /\ clients' = [clients EXCEPT ![s] =
                      [Answered(s) EXCEPT !.authenticated = TRUE,
                                          !.deadlinePassed = FALSE,
                                          !.user = u]]
    /\ unauthenticated' = Lower(unauthenticated, 1)
    /\ accounts' = [accounts EXCEPT ![u] = @ \union {s}]
    /\ replies' = replies \ {s}
    /\ UNCHANGED <<running, byAddress, rememberedIds, devices>>

\* A refusal, a timeout of the request, or an identity store that fails.
AuthenticationFails(s) ==
    /\ s \in replies
    /\ clients' = [clients EXCEPT ![s] = [Answered(s) EXCEPT !.closing = TRUE]]
    /\ replies' = replies \ {s}
    /\ UNCHANGED <<running, unauthenticated, byAddress, rememberedIds, devices,
                   accounts>>

-----------------------------------------------------------------------------
(***************************************************************************)
(* Time, lost connections, deleted accounts, and the end of the server.    *)
(***************************************************************************)

DeadlinePasses(s) ==
    /\ clients[s] # None
    /\ ~ clients[s].authenticated
    /\ ~ clients[s].deadlinePassed
    /\ clients' = [clients EXCEPT ![s].deadlinePassed = TRUE]
    /\ UNCHANGED <<running, unauthenticated, byAddress, rememberedIds, devices,
                   accounts, replies>>

FallsIdle(s) ==
    /\ clients[s] # None
    /\ ~ clients[s].idle
    /\ clients' = [clients EXCEPT ![s].idle = TRUE]
    /\ UNCHANGED <<running, unauthenticated, byAddress, rememberedIds, devices,
                   accounts, replies>>

OnDisconnected(s) ==
    /\ clients[s] # None
    /\ Disconnect({s})
    /\ UNCHANGED running

\* The mutant spares a connection whose answer is still expected.
ExpiredUnlessPending ==
    {s \in Clients : \/ /\ ~ clients[s].authenticated
                        /\ ~ clients[s].authenticationPending
                        /\ clients[s].deadlinePassed
                     \/ clients[s].idle}

Expired ==
    {s \in Clients : \/ ~ clients[s].authenticated /\ clients[s].deadlinePassed
                     \/ clients[s].idle}

\* The maintenance timer aborts the sockets it collected one after the other.
SweepIdleClients ==
    /\ running
    /\ Expired # {}
    /\ Disconnect(Expired)
    /\ UNCHANGED running

\* DeleteLocalAccount takes the registrations at once and closes the sockets
\* a little later.
DeleteLocalAccount(u) ==
    LET doomed == {s \in Clients : clients[s].user = u}
    IN  /\ running
        /\ doomed # {}
        /\ devices' = [d \in Device |->
               IF \E s \in doomed : clients[s].registered /\ clients[s].device = d
               THEN None ELSE devices[d]]
        /\ clients' = [s \in Socket |->
               IF s \in doomed THEN [clients[s] EXCEPT !.closing = TRUE]
               ELSE clients[s]]
        /\ UNCHANGED <<running, unauthenticated, byAddress, rememberedIds,
                       accounts, replies>>

\* The sockets of a stopped server close on their own and are no clients.
Stop ==
    /\ running
    /\ running' = FALSE
    /\ clients' = [s \in Socket |-> None]
    /\ unauthenticated' = 0
    /\ byAddress' = [a \in Address |-> 0]
    /\ rememberedIds' = 0
    /\ devices' = [d \in Device |-> None]
    /\ accounts' = [u \in User |-> {}]
    /\ replies' = {}

Start ==
    /\ ~ running
    /\ running' = TRUE
    /\ UNCHANGED <<clients, unauthenticated, byAddress, rememberedIds, devices,
                   accounts, replies>>

Init ==
    /\ running = TRUE
    /\ clients = [s \in Socket |-> None]
    /\ unauthenticated = 0
    /\ byAddress = [a \in Address |-> 0]
    /\ rememberedIds = 0
    /\ devices = [d \in Device |-> None]
    /\ accounts = [u \in User |-> {}]
    /\ replies = {}

OnTextMessage(s) ==
    \E id \in MessageId :
        \/ StartAuthentication(s, id)
        \/ RefuseMessage(s, id)
        \/ IgnoreMessage(s, id)
        \/ \E d \in Device : HandleRegister(s, id, d)

ProviderAnswers(s) ==
    (\E u \in User : AuthenticationSucceeds(s, u)) \/ AuthenticationFails(s)

Next ==
    \/ \E s \in Socket :
          \/ \E a \in Address : AcceptConnection(s, a)
          \/ OnTextMessage(s)
          \/ ProviderAnswers(s)
          \/ DeadlinePasses(s)
          \/ FallsIdle(s)
          \/ OnDisconnected(s)
    \/ SweepIdleClients
    \/ \E u \in User : DeleteLocalAccount(u)
    \/ Stop
    \/ Start

\* Time passes, the maintenance timer of the running server fires, and a
\* UserInfo request ends by its answer or its own timeout.
Fairness ==
    /\ WF_vars(SweepIdleClients)
    /\ \A s \in Socket : WF_vars(DeadlinePasses(s)) /\ WF_vars(ProviderAnswers(s))

Spec == Init /\ [][Next]_vars

FairSpec == Spec /\ Fairness

-----------------------------------------------------------------------------
(***************************************************************************)
(* Properties.                                                             *)
(***************************************************************************)

\* The counters the limits go by are exact on every path a connection can
\* take: authenticated or not, lost, swept, displaced, deleted or stopped.
\* Lowering one twice would lift the limit, forgetting once would lock peers
\* out until the server restarts.
CountersAgree ==
    /\ unauthenticated = Cardinality({s \in Clients : ~ clients[s].authenticated})
    /\ \A a \in Address :
          byAddress[a] = Cardinality({s \in Clients : clients[s].address = a})
    /\ rememberedIds = Cardinality(RememberedBy(Clients))

\* The indexes tell the truth whatever sockets of a device came and went: a
\* device's entry names a live connection of its owner that holds the
\* registration; a registered connection holds its device's entry until a newer
\* one, which ends the older, or the account's deletion takes it, so that no
\* live device is silently unreachable; and the connections that are told of an
\* account's devices are its own.
IndexesAgree ==
    /\ \A d \in Device : devices[d] # None =>
          /\ clients[devices[d]] # None
          /\ clients[devices[d]].registered
          /\ clients[devices[d]].device = d
          /\ clients[devices[d]].user = OwnerOf[d]
    /\ \A s \in Clients : clients[s].registered =>
          devices[clients[s].device] = s \/ clients[s].closing
    /\ \A u \in User : accounts[u] = {s \in Clients : clients[s].user = u}

\* The provider owes an answer exactly to the live connections that wait for
\* one, and each connection asks at most once at a time: an answer that comes
\* after its socket is gone, or after a stop, touches nobody.
AnswersExpected ==
    replies = {s \in Clients : clients[s].authenticationPending}

\* Every connection authenticates or ends: one that stays silent, whose token
\* is refused, or whose answer never comes is removed by the sweep.
UnauthenticatedSettle ==
    \A s \in Socket :
        (clients[s] # None /\ ~ clients[s].authenticated)
            ~> (clients[s] = None \/ clients[s].authenticated)
=============================================================================
