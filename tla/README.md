# RLink: a verification project

RLink is a remote-desktop program for Windows: a controller application and an
agent meet through a signaling server, open a WebRTC connection and exchange
screen, input, audio, clipboard and files. This directory holds TLA+
specifications of the parts whose correctness depends on the order in which
messages, threads, connection losses and deadlines meet, the TLC configurations
that check them on small instances, and theorems about them, proved with TLAPS
for every value of the constants.

Paths below are relative to the repository root. `PROJECT.json` maps each
definition to the lines it models.

## 1. The system

### Components

| Component | Where | State | Operations |
|---|---|---|---|
| Signaling server: rooms | `src/server/signaling/RoomRegistry.*`, `SignalServer.Room*.cpp` | `rooms_`, `deviceRooms_`, `joinRequests_`, `pendingJoins_`, `pairRooms_` | create, join request and answer, capacity, leave, resume; screen-share request, ready, takeover answer and cancel, stop; control request, answer, release; media state |
| Signaling server: one-to-one sessions | `DirectSessionRegistry.*`, `SignalServer.LegacySession.cpp` | `sessions_`, `deviceSessions_` | request, answer, ready, resume, end |
| Signaling server: recovery | `SignalServer.Recovery.cpp`, `SignalServer.Lifecycle.cpp` | deadlines in the records above, maintenance timer | connection loss, sweep, start and stop |
| Signaling server: connections | `SignalServer.Connection.cpp`, `SignalServer.Authentication.cpp`, `SignalServer.Internal.h` | `clients_`, `devices_`, counts by peer and account, remembered message ids | admit, authenticate, register, close |
| Signaling server: relay, owned devices, account deletion, rate limiter | `SignalServer.Relay.cpp`, `SignalServer.OwnedDevices.cpp`, `SignalServer.AccountManagement.cpp`, `SlidingWindowRateLimiter.h` | event times by key (limiter) | forward an offer, answer or candidate; list devices; delete; acquire |
| Identity | `AccessTokenService.*`, `src/server/auth`, `src/server/persistence` | SQL database | tokens, provider requests, webhook, device ids |
| Client signaling | `src/signaling` | socket, registration, session or room to resume, remembered message ids | connect, dispatch, send, recover |
| Session controller | `src/core/SessionController.*` | executor queue, pending updates, negotiation generation, restart attempt and budget, snapshot | send, queue, close, shutdown; negotiate, restart ICE |
| WebRTC session | `src/webrtc` | peer connection, pending operations, channels, media slots | descriptions, candidates, channel data, statistics |
| Engine and coordinators | `src/apps/remote/InProcessSessionEngine*`, `*Coordinator.*` | room pairs, the direct session, lease and media state | build and dispose of pairs, dispatch data |
| File transfer, clipboard | `src/apps/remote/FileTransfer*`, `Clipboard*` | transfers with offset and state, partial files, cache | offer, accept, chunk, progress, pause, resume, verify |
| Protocols | `src/protocol` | none | encode, decode |
| Screen policies, media intelligence | `src/core/Screen*Policy.*`, `src/media_intelligence` | estimates, back-off, worker queue | choose rate, size and content class |
| Platform, GUI, updater, client login | `src/platform/win`, `src/apps/controller`, `src/apps/update`, `src/auth` | devices, windows, downloads, tokens | operating-system and user interfaces |

### How they interact

* Every client holds one WebSocket to the server. Qt runs the server on a
  single event loop: a message, a closed socket or a timer tick runs a handler
  to completion. A handler updates several maps and sends messages to several
  clients. The clients' messages, the loss of sockets and the deadlines arrive
  in any order.
* A device is engaged in a room or in a one-to-one session. In a room every two
  members get a *pair*, whose peer connection is negotiated through the relay.
  One member at a time may share its screen under a *lease*: it is granted
  (`switching`), confirmed by the sharer (`active`), kept for a while when the
  sharer's connection is lost (`recovering`), and taken over by another member
  when the sharer agrees. Under an active lease one other member may control
  the screen. Every grant has an *epoch* by which clients order what they hear.
* On the client one session controller per peer connection runs its work on a
  serial executor. Threads of the user interface, of capture and of WebRTC
  post tasks to it; callbacks of WebRTC and of signaling are posted too.
* The engine owns controllers and calls them from several threads; files,
  clipboard and input travel as channel data through the controller's sends.

### What is hard

Handlers that keep several maps in line on every path out of a room; deadlines
that race the message they guard; a device that registers again before its old
socket closes; grants and requests that outlive the state they refer to;
threads that post while the executor stops; a pending update replaced while its
task runs; callbacks that apply to a negotiation that is over; a connection
lost, resumed or declared dead on both sides at different times; files written
with the lock released; a call that is answered, cancelled or cut off before
its session has a name. `PROJECT.json` lists each under `hazards` at its line.

### What makes each part correct

* Rooms and sessions: the indexes agree with the records; a device is engaged
  once; a member was admitted by the owner and has a seat; pairs are a full
  mesh; the lease, takeover and control requests of a room are consistent, a
  lease moves only with a new epoch, and a sharer loses it only by its own act
  or by its recovery window ending; every request and every recovery ends.
* Connections: the counts behind the limits are those of the sockets, a late
  authentication has no effect on a closed socket, a message id is handled
  once within the window, no connection stays unauthenticated.
* Rate limiter: no window holds more events than the limit of a key that is not
  evicted in it, and a key is forgotten only to make room for another.
* Calls: an engine knows of the end of its session, the server keeps no session
  that its ends do not hold, and a user who hangs up can place another call.
* Session controller, sends: every accepted send is reported once, in order,
  and none after the shutdown; an update replaces the one that waits.
* Session controller, recovery: nothing is ahead of the offerer's generation; a
  debounced request does not outlive its generation; a recovery ends.
* File transfer: the sender is told of a delivery only when there was one; the
  partial file and the offsets of both sides agree whenever the transfer can be
  resumed; a transfer ends or can be resumed.

## 2. The specifications

| Module | Models |
|---|---|
| `ServerIds` | devices, room ids, `None` |
| `RoomLease` | `RoomState`: members, pairs, lease, takeover and control request of one room, as functions from a record to a record |
| `RoomRegistry` | `RoomRegistry` and the operations that touch several rooms or the index: close, leave, disconnect, sweep |
| `DirectSessions` | `DirectSessionRegistry` and the session part of the sweep |
| `SignalServer` | the server: one action per handler, timer and deadline of a registered device |
| `SignalServerProperties` | what is checked of it, and the refinement mappings |
| `RoomInvariants` | the invariants as predicates on a record, which the properties and the proofs share |
| `ScreenLease`, `Engagement` | what the server promises about a room's screen and about a device's engagements, without rooms, requests or timers |
| `ConnectionGate` | what a connection goes through before `SignalServer` listens to it |
| `RateLimiter` | `SlidingWindowRateLimiter` and the groups of limiters a request passes together |
| `DirectCalls` | one-to-one calls end to end: engines, controllers, connections that break, and the server's `DirectSessions` |
| `SendQueue` | the executor of a session controller and its send path |
| `IceRestart` | two session controllers that recover their connection by ICE restart |
| `FileTransfer` | one file between two `FileTransferController`s, with their workers, the channel and the partial file |
| `FileDelivery` | what the two users of a transfer may rely on |
| `..._proofs` | theorems and lemmas |
| `MC...` | constants that a `.cfg` cannot write, symmetry sets, spellings |

`DirectCalls` composes with `DirectSessions`, the registry that `SignalServer`
uses too; the other modules meet in the interfaces named below.

### The server: `SignalServer`

`registry` and `directory` are the two registry objects; `conn` is what
`devices_` and the client records say of each device. A handler's guard is the
conjunction of the checks that let it go on; a message the handler refuses
changes nothing and is a stuttering step. Helpers carry the name of the method
they model, and an action calls all that its handler calls: `HandleRoomLeave`
closes pairs, ends the lease, cancels the requests and closes the room if the
owner leaves.

What the data is reduced to:

* *Time.* A timestamp is a status: a member is `online`, `away` or `lapsed`
  (away for longer than the window), a request is open or expired. Actions let
  a deadline pass at any moment; `Sweep` is the maintenance timer and does what
  every `Sweep...` function does, in their order. `ResumeLate` is a resume that
  arrives after the window and before the sweep.
* *Ids and grants.* Request ids and tokens are fresh random ids, so a stale one
  is refused: a stutter. A grant is named by the epoch that issued it, 0 when
  the field is empty, which keeps stale grants distinguishable from current
  ones. A session is named by its requester. A room id that a step closes is not
  drawn again by the same step; the refusals for want of ids
  (`kMaximumRooms`, `kMaximumSessions`) are not modelled.
* *Pairs* are sets of two devices: `CreateRoomPair` refuses a duplicate, the
  offerer is the lexicographically first, and `pairRooms_` changes with them.
* *Accounts.* `DeleteAccount` is the deletion of an account with one device in
  the Logto mode. Its public id is not given out again, hence `gone`; its socket
  stays registered until it closes, hence `orphaned`.
* *Left out:* messages to clients, device names, permissions, camera and
  microphone flags, rate limits, the read-only queries.

### Connections: `ConnectionGate`

`clients`, `devices`, `accounts` and the counters are the fields of the same
names; `replies` are the UserInfo requests the provider still owes. Admission,
a message with its id, the provider's answer (or none, or a refusal), the
registration, which takes over from an older socket and aborts it inside the
handler, the sweep, the deletion of an account as far as sockets go, and `Stop`
are actions, in the Logto mode. A socket that was told to close still delivers
what arrived before. A deadline is a flag that time sets.

### Limits: `RateLimiter`

`buckets` is the table of each limiter: the event times of a key and when it was
seen last. A request names a key per limiter, is asked of all, and is recorded
by all or by none. `behind` lets the wall clock be set back
(`QDateTime::currentMSecsSinceEpoch` is no steady clock). `admitted` is a
history variable, the reference the tables are compared with.

### Calls: `DirectCalls`

An engine is the fields of `DirectSessionCoordinator` and of the snapshot that
its handlers read; a controller is the states it publishes and whether a close
is posted. `up` and `down` are the messages on each connection, in order;
`Cut` loses them, and the two ends notice on their own (`OnDisconnected`,
`OnClientDisconnected`), the server at the latest when the device registers
again (`HandleRegister`). A command or callback is one step, although it sends
after it has released the engine's lock. A call keeps its number as its session
id. `session_suspended` and the peer's `session_resumed` set only a text for
the user and are left out; so is a reason. `Connected`, `Disconnected` and
`Fail` are what `IceRestart` is about, reduced to what the engine sees.

`Hasty = FALSE` excludes three coincidences: a user who calls again before what
the last call left behind has arrived and closed; a client that registers again
before the executor has run a close posted before; an incoming request between
the controller's closed state and its callback. Section 3 says what happens then.

### Sends: `SendQueue`

`SendQueue` models the `SerialExecutor` of `SessionController.cpp` and
`SendData`, `QueueData`, `QueueLatestData`, `Close` and `Shutdown` above it, at
the grain of its locks. A call is a number given when it begins, and stands for
its payload. A post is two steps, since the due time is read before the lock
is taken. The executor takes the first task, runs it outside the lock, and, for
an update, first collects its value under the map's mutex. Stopping is the
shutdown's own `Invoke`, the swap in `Stop`, the cancellations one by one, and
the join. "sent" is data given to an open session, whatever it answered,
"refused" data given to a closed one; the send and its completion are one step,
as they are one task of one thread.

Not modelled: tasks posted for later (no send uses them), `Invoke` on the
executor's own thread, which runs the task in place. Threads may post after
`Stop`, as `TestExecutorCancellation` of the core tests does, and are refused.

### Recovery: `IceRestart`

Two controllers that were connected once. A task of an executor is a step; a
native operation and the task for its result are one step at the end of the
operation, so that everything may happen in between. Delayed tasks are fields
(`timer`, `reconnect`, `watches`, `retries`, `debounce`) and run at any time. A
description is the generation it was made for (`made`) and the one it is sent
with (`gen`), which differ when a restart comes in between. `Transmit` and
`LinkLost` are the relay: what is sent while a link is down is lost, and what
the server held for a side is lost with that side's connection.

A fresh restart offer is assumed to reach the agent's controller. The engine
passes it on only while the engine is `Connecting`
(`InProcessSessionEngine.DirectCallbacks.cpp:554`), which an agent whose own
transport is still connected is not: the offer is dropped there, and in the
model an offer lost with the link stands for it.

### Files: `FileTransfer`

Side `out` sends, `in` receives. `file` is the `TransferRecord`, `queue` and
`worker` the worker thread with the task it is in the middle of, `scheduled`
the retries it has planned, `view` what `UpdatePeerConnectivity` said last,
`channel` the messages on their way, `part`, `handle` and `final` the
destination. What holds the controller's lock is a step; a send, a write and a
verification, done without the lock, are a step each, so that commands and
messages come in between. Offsets count chunks. `FileDelivery` is the abstract
specification: nothing, then the whole file, then the confirmation, which may
be taken back (section 3) although the file stays.

## 3. What is checked

| Run | Instance | Distinct states | Question |
|---|---|---|---|
| `one_room` | 3 devices, 1 room, epochs to 2, deletion | 176,773 | is the lease, takeover and control protocol consistent, and does it implement `ScreenLease`? |
| `two_rooms` | 3 devices, 2 rooms, sessions, no shares, deletion | 29,663 | do indexes and records agree, is a device engaged once, does the server implement `Engagement`? |
| `timely` | 4 devices, 1 room, epochs to 2, resumes in time | 150,976 | are leases and requests held by members that can answer, are pairs the full mesh? |
| `fair` | 2 devices, 1 room, epochs to 1 | 998 | does every request, every lost member or side and every recovering lease settle? |
| `late_resume` | 2 devices, 1 room | violation | see below |
| `gate` | 3 sockets of 2 users, limits of 2, window of 1 id | 68,234 | are counters, indexes and outstanding answers true, does every connection settle? |
| `limits` | 2 limiters, 4 keys, tables of 2, a clock set back by 1 | 23,881 | is a limit never exceeded, and what is forgotten? |
| `calls` | 2 devices, 2 calls, 1 broken connection | 254,399 | do both ends and the server agree on a call, can a user hang up? |
| `sends` | 2 threads, 1 key, 3 calls | 251,037 | is every send reported once and in order while the executor stops, do updates flow, does the shutdown return? |
| `lost_invoke` | 1 thread, 2 calls | violation | see below |
| `ice` | 1 attempt, 3 changes, 1 lost link, 1 failure, 1 close | 318,597 | is anything ahead of the offerer, does a recovery end? |
| `file` | 3 chunks, window 2, 1 command, 1 trouble | 912,768 | is a receipt true, do the offsets agree, does the transfer implement `FileDelivery` and end? |

The properties are stated, each with the behaviour it is about, in
`SignalServerProperties` and at the end of the other modules.

**Bounds.** *Server.* Three devices are a sharer, a controller and a third that
asks for the one or the other, or an owner, a member and one who joins; `timely`
has a fourth so that a takeover and a control request of two members can be open
while a fourth comes, goes or resumes. Two rooms let a device be indexed under
the wrong one. `MaxEpoch` bounds only *granting* (no grant is given from that
epoch on; leases still end); two is enough for a stale grant to meet a newer
one. `MaxMembers` is the server's option. *Gate.* Three sockets are one that
registered a device, one that takes it over, and one more at a limit; a window
of one id forgets with the second message. *Limits.* Tables of two keys evict
with the third; the time to five is two windows and a half. *Calls.* One device
calls twice, so that what is left of a call meets the next; a second caller
would mirror it, except for calls that cross, which pass with two callers and
two calls without a cut, and with one call and one cut. *Sends.* `MaxCalls`
bounds the calls: with three, one thread can have a send before or after the
queue while the other replaces an update. One key is enough, for updates of
different keys meet only in the mutex, which the model shares among all keys.
*Recovery.* One attempt reaches the limit and its end; three changes of
transports let a recovery begin, come up and fail again. *Files.* Three chunks
through a window of two fill the window, move it, and leave a last chunk; one
command and one trouble at any moment interrupt every state. The symmetry is in
devices, rooms and keys, which no definition tells apart, and is used only for
safety.

**Deadlock** is not checked where the system may stop for good: a server with no
client is idle, and the send path, a call, a recovery and a transfer end when
there is nothing left to do. It is checked in `gate`.

**Fairness.** *Server:* the deadlines pass (weak fairness of each `Time` action:
a clock does not stop) and the maintenance timer, which `Start` starts as a
repeating one, keeps firing (weak fairness of `Sweep`). Nothing is assumed of
clients. *Gate:* the sweep, the deadlines and the provider's answer or the
request's own timeout. *Sends:* a thread that can go on does (weak fairness of
posting, taking, running, stopping), the session's send returns, and a thread
waiting for the update mutex, which others release again and again, gets it in
the end (strong fairness of collecting and cancelling, for a mutex of the
operating system). *Calls:* one weak fairness for all that goes on of itself:
messages arrive, tasks run, both ends notice a broken connection, the client
registers again, deadlines pass, and a controller that negotiates as the offerer
or recovers ends by its timeout; no user ever has to act. *Recovery:* delayed
tasks run, native operations end, messages arrive, a lost link comes back and
the engine says so; nothing is assumed of the transports. *Files:* the workers
go on, messages arrive, a lost channel is opened again and announced, and the
two stall timeouts fire. No command or call is ever assumed to be made.

Two constants stand for the lengths of the code's timeouts. `Patient` (`file`,
`ice`) keeps a stall timeout from firing while messages are on their way, and a
restart timeout while a native operation runs: the timeouts are seconds, the
operations milliseconds. `Coincide = FALSE` keeps the reconnect timeout (60 s)
out of a period of stability (2 s).

**Refinement.** `ImplementsScreenLease` maps one room of the server to
`ScreenLease`: the room's lease is an exclusive, fenced lease with at most one
controller under it, through every disconnect, sweep and deletion.
`ImplementsEngagement` maps the two registries to `Engagement`: both ends of a
session enter and leave it together, and a device changes engagement only
through being free, except where it starts afresh from a lost connection.
`Delivers` maps the committed file and the sender's state to `FileDelivery`.

### Two disagreements

* `late_resume`: a resume that arrives after the recovery window but before the
  sweep erases its member (`SignalServer.RoomMembership.cpp:657`) without
  resetting the lease or closing the pairs, as the sweep would. If the member
  was sharing, the room stays `recovering` with a sharer that is no member, and
  refuses every other share because "the current sharer is recovering" until its
  owner closes it, the erased device stops the share with its old grant, or it
  is let in again and leaves, stops or loses its connection. The `Timely`
  specification leaves this one action out; what is checked of it holds whenever
  resumes are in time, and everything checked of `Spec` holds with late resumes
  too.
* `lost_invoke`: "Accepted sends must finish or report cancellation"
  (`SessionController.cpp:77`), but a synchronous `SendData` accepted between
  the shutdown's own `Invoke` and `Stop`'s swap is discarded, and has no
  cancellation: its caller waits for ever at `completed.wait()`. `QueueData`,
  which registers one, keeps the promise: `ReportedOnce` and `SendsEnd` hold.

### What the models show besides

Behaviours met while modelling that contradict no sentence of the repository.
Where one would break a property, the property says so (`RequestLost`,
`TailStranded`, `Interrupted`, `LeftConnected`) or a constant excludes it.

*Calls.* With `Hasty = TRUE`, two calls and no broken connection:

* `d1` hangs up and calls again before the answer to its first call arrives.
  While the id of the new call is unknown, `OnSessionResponse`
  (`DirectCallbacks.cpp:315`) takes any answer for its own: a late rejection
  resets the engine, `session_pending` and `session_ready` of the new session
  are ignored, the callee waits for an offer, and the server keeps both busy.
  `SessionsAreShared` fails.
* `DisposeClosedSession` (`RuntimeHelpers.cpp:58`) asks for the controller's
  state without the engine's lock held by whoever publishes it. Called between
  the closed state and its callback, it takes the observer away and the engine,
  which the callback would have made ready, keeps its state. `HangUpWorks` fails.
* A `Disconnect` while offline resets the engine at once, with the old
  controller still closing; its callback then resets a session begun since.

`EndsAreHeard` holds then too (section 4). In every instance: a request, or the
`session_pending` that names it, lost with the connection leaves the engine
`Connecting` without an id, and hanging up only notes that the id is to be
cancelled when known (`RequestLost`). A pending call whose connection is lost
ends at the server at once, but `OnSignalingStateChanged` does not reset the
engine, and an acceptance that the server answers `invalid_session_response`
is not undone either: both wait until the user hangs up.

*Recovery.*

* A description is tagged with the generation current when it is sent
  (`SessionController.cpp:466`): an answer made before a newer offer was followed
  is taken for an answer to it, and the right one is then
  `conflicting_remote_sdp`, which ends the session.
* A debounced request that falls due on a connected controller begins a recovery
  that no handler ends: those that would return early because the connection is
  up (lines 848, 899, 1078). It stays `recovering` (`LeftConnected`).
* An agent that an offer draws into a recovery (line 660) has no reconnect
  timeout, since `recoveryStarted_` is not set; disconnected again with
  `restartScheduled_` still set, it stays so (hence `started` in `RecoveryEnds`).
* The attempt's timeout is not armed again when it finds the connection up
  within its period of stability.
* An agent whose offer was lost and whose connection came back by itself stays
  at the older generation; its later requests are ignored until its attempts
  are used up.
* `RecoveryEnds` fails with `Coincide = TRUE`: the reconnect timeout runs while
  the connection is up for a moment and is not repeated.

*Files.*

* A last chunk that fills the window is sent, acknowledged, and followed by
  nothing: the pump stopped (`Chunking.cpp:53`) and `Progress` restarts it only
  for unsent data (`Receive.cpp:289`). No `Complete` is sent until a stall or a
  user interferes (`TailStranded`).
* An interruption that only the receiver notices (`Lifecycle.cpp:104`) drops
  what arrives; the sender does not ask to resume, and its own timeouts decide.
* `Progress` that arrives after a resynchronization moved the sender back is
  applied to the new position (`Chunking.cpp:152`), within what was written.
* A receiver that pauses and continues quickly meets chunks sent before the
  pause (`Commands.cpp:183`) and drops them by their offset; one paused during
  a write finds the partial file longer than its offset (`Receive.cpp:354`).
* `Completed` and `Canceled` are not always the last word: a verification that
  was under way overwrites a cancellation (`Receive.cpp:470`), and a failed
  send pauses what a message finished meanwhile (`Commands.cpp:208`). What was
  delivered stays so, but a sender that was told may be shown a pause again
  (`Retract` of `FileDelivery`): it takes a pause, a continuation whose command
  cannot be sent and the confirmation in between, more than the bounds of `file`
  allow, and was found by the proof of `Delivers`.
* A buffer that stays full while the receiver accepts loses the `Response`; the
  sender waits for the peer's acceptance until its user cancels.

## 4. What is proved

The theorems hold for every value of the constants that satisfies the named
assumptions: there are finitely many devices, `None` is no device, room id or
record and no room id is a device (`ServerIds`, `RoomRegistry`,
`DirectSessions`) and no controller (`DirectCalls`), the member limit is at
least two (`RoomLease`), the epoch bound is a number (`SignalServer`); the
stopping thread is no caller, `NoKey` is no key and the number of calls is
bounded by some number (`SendQueue`); the callers are devices, and calls and
cuts are bounded by some number (`DirectCalls`); the bounds are numbers, the
window and the number of attempts positive (`FileTransfer`, `IceRestart`); the
limits are positive, `None` is no socket, user, device or record and every
device has an owner (`ConnectionGate`); maximum cost, window and table size are
positive, no request costs more, and the clock is set back by no more than the
time there is (`RateLimiter`). Two theorems have the hypothesis that the server
is not configured for account deletion, as the run `timely` is: a deleted
account's socket stays registered without one (`orphaned`), so they are false
with it.

### Server: what always holds

`SignalServer_proofs` proves `TypeCorrect`, and `IndexesCorrect`, `EngagedOnce`
and `RoomsCorrect` from `Invariance`, that of

    Inv == TypeOK /\ RegistrySound(registry) /\ DirectorySound(directory) /\ OneEngagement

They are not inductive one by one. That indexes agree with records needs that
a joiner has no room, which needs the index; that control stays within a share
needs the shape of the lease, and that needs the controller and requester to be
released by whoever ends the lease; the count of members against the capacity
needs the owner's membership and the members' finiteness; and no device is
engaged twice only because the answer to a join request checks the session
index, which must be right.

The argument goes by layers. The types of the operations come first. Each update
of one room keeps it sound (lease, control, capacity, pairs) and says which
members it adds or removes. Then the registries: an update of a room that moves
no member, one that admits, one that removes, a closing, a disconnection, a
sweep; each lemma also says that nobody gets engaged, unless the operation is
the one that engages. The server's proof then has one step per handler.

### Server: what a step may do

`SignalServerSteps_proofs` shows of every step that it leaves an open room as it
is, closes it, or applies one update of `RoomLease` under the guard of the
handler that asks for it (`StepOfRoom`). What a property says of two successive
states is then shown update by update, on records alone.

* `LeaseFenced` (`EpochFencesLease`), `SharersKeepTheirLease`
  (`SharerKeepsLease`), `RecoverySlotsKept` (`RecoverySlotKept`) and
  `AdmissionByOwner` (`AdmittedByOwner`) are action properties. The second says
  that a sharer loses the lease only by its own act or the end of its window.
  The last says that a step that makes a device a member is its owner's
  acceptance, and that everything it relies on still holds then: the owner is
  online, the request in time and used up, the device connected, in no room and
  in no session, and a seat free. What the handler reads are indexes; that no
  record of a room or session names the device follows from `Inv`.
* `LeasesImplemented` and `EngagementImplemented` are the two refinements. The
  first follows from the updates and the soundness of a room; the second from
  `Inv` and from the fact that a session has two ends in every state. What is
  open at the server is one of the abstract states, and a device passes
  from one engagement to another only by starting afresh.
* `OnlyMembers` (`OnlyMembersHold`) holds of `TimelySpec`. It needs a stronger
  statement (`Tidy`): the mesh is full, all who hold anything in a room are
  members, and the link of the sharer is what the state of the share says. The
  late resume is the one step that breaks it, and `TimelySpec` the specification
  without it.
* `OnlineIsConnected` (`OnlineMeansConnected`) and `RequestsCanBeAnswered`
  (`RequestsAnswerable`) hold without account deletion, late resumes included,
  from

        Connected == Inv /\ NoOrphans /\ MembersConnected /\ EndsConnected
                         /\ JoinersConnected /\ RequestsHeld

  Members and ends that count as online, and devices that wait to be let in,
  have a registered socket; and a takeover or control request is between two
  online members, since whoever drops out first takes it along.

### Connections

`ConnectionGate_proofs` proves `GateTypes`, `CountersExact`, `IndexesTrue` and
`AnswersAwaited` for any sets of sockets, addresses and ids, finite or not:

    Inv == Types /\ Limits /\ Sound(clients, ...) /\ AnswersExpected

`Sound` relates the table of clients to the counters (the number of those not
authenticated, at an address, of remembered ids), to the window of ids of each
(each id once, the set the same ids) and to the two indexes; it is a predicate
on a table because a handler goes through tables that are no state of the
server: a registration aborts the older socket half-way. The counters are never
lowered past zero because they are exact, and exact because the set of clients
grows by one connection at a time, so that it is finite.

### Limits

`RateLimiter_proofs` proves `LimiterTypes`, `WindowHolds` (`WindowRespected`)
and `OnlyTheIdlestForgotten` (`ForgetsOnlyTheIdlest`) for any keys, requests,
costs up to the maximum and steps of the clock. The history of a key begins anew
when it is evicted, as its bucket does: a key that comes back after an eviction
has its full quota again, and `WindowRespected` does not count across it. What
`ForgetsOnlyTheIdlest` says is when that may happen. The buckets do not hold the
times of admission: the wall clock may be behind, and a bucket's last use
replaces a time that lies before it. The invariant relates the two: the latest
events of a bucket vouch for the admissions that still count, one for one, an
event lies no later than its admission, and earlier by no more than the clock is
behind. So expiry never drops an event whose admission still counts, and the
limit on events is one on admissions.

### Calls

`DirectCalls_proofs` proves `EndsHeard`, that `EndsAreHeard` holds, and
`TypeCorrect`, for any devices, calls and broken connections, from

    Inv == Typed /\ for each device: Linked /\ Kept /\ Vouched /\ Right

`EndsAreHeard` speaks of the moment; what the engine will believe next is in the
messages under way. `Vouched`: every `session_ready` and `session_resumed` on
its way to a device is true of the server and nobody asks the device for another
session behind it, or `session_ended` follows on the same connection before
anybody asks. `Right` says the same of what the engine believes already. A
message that is heard is the first, so what followed it is still to come; what
the server says is behind what it said before; every handler and sweep that ends
an active session tells both its ends in the same step; and a device is asked
only when it is in no session, which rests on the index of the sessions
(`Indexed`). A broken connection takes all of this along. Then `Kept` says that
the engine resumes: it sets `recoveryPending` only if it has a controller, and an
active session has one or waits to be resumed already. `Linked`: the server
knows every device whose connection is whole, and one that is not carries nothing.

The first invariant spoke only of `session_ended`, and needed `~ Hasty`: a
request heard while an active session's controller is closing may dispose of
the controller. That the request cannot come before the end of the session, unless
the connection was lost in between, is what the part about requests adds, and
with it the theorems hold whatever overtakes what.

The proof has one lemma for each kind of step (`Acted`, `Heeded` for the client,
`Served` for the server), under which the handlers fall.

### Send path

`SendQueue_proofs` proves `TypeCorrect`, `ReportsOnce` and `Quiet` from

    Inv == TypeOK /\ Fresh /\ OnePlace /\ Waiting /\ Phases /\ Values /\ Conserved

A call not yet issued has left no trace (`Fresh`); the task of a call is at one
place at a time, about to be posted, queued, running or taken over by `Stop`
(`OnePlace`); a task posted by `Invoke` and not yet done has a thread waiting for
it (`Waiting`); the phases of the shutdown fix what the queue can hold
(`Phases`); what an update carries is the value of an update (`Values`); an
accepted call with a completion is either outstanding and not reported or
reported once (`Conserved`). `ReportedOnce` is the last conjunct together with
the fact that nothing is outstanding once the stopper is gone.

`OrderKept` (`SentInCallOrder`) follows from

    Ordered == Clocked /\ PostsNewest /\ QueueInOrder /\ OldestRuns /\ SentInCallOrder

No task is due later than the clock reads (`Clocked`); what a thread is about to
post is newer than what it has in the queue (`PostsNewest`); the queue orders the
tasks of a thread by call (`QueueInOrder`), which needs both, for due time and
number are compared; so what runs is the oldest of its thread (`OldestRuns`).
`Collapsing` (`UpdatesCollapse`) needs that an entry of the map is an update of
its key and carries one newer than what the running task has collected
(`Entries`).

### Files

`FileTransfer_proofs` proves `TypeCorrect`, `ReceiptIsTrue` (`OnlyDelivered`),
`OffsetsTrue` (`OffsetsAgree`) and `DeliveryImplemented` (`Delivers`) from

    Inv == Files /\ Storage /\ Carried(Sayable) /\ Sent /\ Counters

The partial file begins empty, holds the first chunks in order, is at least as
long as the offsets both sides have committed, and once removed or committed
does not come back (`Storage`, `Files`). That rests on what the messages claim,
and messages wait in queues, are in a worker's hands or on their way while the
state moves on. `Sayable` is what each side may say by now: a chunk of the file,
a receipt only of a committed file, an offset only within the partial file. It
only grows while there is a partial file, so what may have been said in the past
may be said still; `Carried` says that whatever is queued, worked on or under
way is drawn from it. A chunk is recorded as sent only if it is the next one and
within the window (`Sent`), in spite of the send being made with the lock
released.

The attempt to prove `Delivers` failed on the abstract specification as it first
stood, in which a confirmation was final: see the last but one point of the
list in section 3.

### Recovery

`IceRestart_proofs` proves `TypeCorrect`, `NothingAhead`, that `NeverAhead`
holds, and `RequestsCurrent`, that `PendingIsCurrent` does, from

    Inv == TypeOK /\ the agent is not ahead of the controller
                  /\ no description on its way is ahead of the controller
                  /\ a debounced request is of the controller's generation
                  /\ NeverAhead

The controller alone begins generations, and its generation never falls, so what
was behind it stays behind; the agent follows offers, which are behind it, and
answers with the generation it has. A request is debounced in the generation it
names, and `BeginIceRestart`, which is the only step into another, withdraws it.

### Only model-checked

All liveness (fairness and ENABLED are outside the prover's reach):
`RequestsEnd`, `LostLinksSettle`, the two `RecoveryEnds`,
`UnauthenticatedSettle`, `SessionsAreShared`, `HangUpWorks`, `SendsEnd`,
`ShutdownReturns`, `Settles`.
Every other property of a passing run is stated by a theorem.

## 5. What is not modelled, and what a next step would be

* *Client signaling* beyond calls: authentication, back-off, heartbeats, room
  messages, the client's window of message ids; the engine's room pairs and
  `ScreenShareCoordinator` against the leases of `SignalServer`, composed as
  `DirectCalls` composes the one-to-one sessions.
* *First negotiation*: `PeerNegotiator`, `DataChannelManager`, ICE candidates,
  audio slots, the preparation of an answer; `IceRestart` begins connected.
* *Calls*: what two engines do between their locks (a command is one step), the
  media and data of a call, rooms entered meanwhile.
* *Files*: several transfers sharing a worker and a channel, rates and times,
  the destructor, a partial file left by an earlier process.
* *Clipboard*: it rests on `FileTransfer` for files and keeps a cache and an
  on-demand read that waits for the other side's chunks.
* *Server*: the bearer and HMAC modes of authentication and the expiry of their
  tokens, the media flags of members, the list of owned devices, the webhook.
* *Screen policies and media intelligence*: single-threaded estimates that unit
  tests reach, except for the lifecycle of the remote classifier.

Left out for good: codecs, capture, rendering and user interface (data and
operating-system calls), the encoders of `src/protocol` and of tokens
(conversions), the identity provider and its database (external), third-party
code.
