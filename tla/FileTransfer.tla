---------------------------- MODULE FileTransfer ----------------------------
(***************************************************************************)
(* One file on its way between two FileTransferControllers                 *)
(* (apps/remote/FileTransferController.*.cpp): the record of the transfer  *)
(* on each side, the worker thread of each side with its queue, the        *)
(* commands of the users, what the engine tells of the connection, the     *)
(* file channel, and the partial file at the receiver.                     *)
(*                                                                         *)
(* Side "out" sends the file and "in" receives it.  Everything that holds  *)
(* the controller's lock is one step; so is a send, a write and a          *)
(* verification, which the worker does without the lock.  Offsets count    *)
(* chunks.  The time an action has to wait for is not modelled, except     *)
(* that Patient keeps the stall timeouts from firing while messages flow.  *)
(***************************************************************************)
EXTENDS Naturals, Sequences, SequencesExt

CONSTANTS Chunks,             \* size of the file
          Window,             \* kFileTransferMaximumInFlightBytes
          MaximumResyncs,     \* kMaximumFileResyncAttempts
          Patient,            \* no timeout while anything is on its way
          PeersLeave,         \* a side may be gone for good
          MaxCommands,        \* bound on the users' Cancel and Resume
          MaxLosses,          \* bound on the channels lost
          MaxBlips,           \* bound on interruptions that keep the channel
          MaxRefusals,        \* bound on the chunks refused by a full buffer
          MaxJams,            \* bound on the buffer staying full
          MaxFaults,          \* bound on the failures of a disk
          MaxTroubles         \* bound on the last five together

ASSUME FileTransferAssumption ==
    /\ {Patient, PeersLeave} \subseteq BOOLEAN
    /\ {Chunks, MaximumResyncs, MaxCommands, MaxLosses, MaxBlips, MaxRefusals,
        MaxJams, MaxFaults, MaxTroubles} \subseteq Nat
    /\ Window \in Nat \ {0}

Side == {"out", "in"}

Peer(s) == IF s = "out" THEN "in" ELSE "out"

\* FileTransferState; "Absent" is a record that is not there yet.
Finished == {"Completed", "Rejected", "Canceled", "Failed"}

State == Finished \union
    {"Absent", "Preparing", "AwaitingPeerAcceptance", "AwaitingLocalAcceptance",
     "Transferring", "Verifying", "AwaitingCompletion", "Recovering", "Paused",
     "Resuming"}

IsTerminal(state) == state \in Finished \union {"Paused"}

\* FileTransferMessageType.  A Response is an "accept" or a "reject", a Cancel
\* is a "pause" or a "cancel" by its error code.
Offset == 0 .. Chunks

Message ==
    [type : {"offer", "accept", "reject", "resume", "chunk", "progress",
             "complete", "pause", "cancel", "error"},
     offset : Offset]

Told(type, offset) == [type |-> type, offset |-> offset]

Just(type) == Told(type, 0)

\* What waits in workQueue_: a message to process, a message to send with the
\* reaction to a failure, and the tasks that need no message.
Reaction == {"nothing", "fail", "refuse", "pause", "recover", "interrupt"}

Task ==
    [do : {"process"}, m : Message]
        \union [do : {"send"}, m : Message, or : Reaction]
        \union [do : {"prepare", "pump", "close", "remove"}]
        \union [do : {"stop"}, m : Message]

\* What the worker is in the middle of: a task with steps left to do.
Doing ==
    [at : {"idle", "pump", "completing", "verifying"}]
        \union [at : {"sent", "appending"}, offset : Offset]
        \union [at : {"send"}, m : Message, or : Reaction]

Idle == [at |-> "idle"]

VARIABLES file,        \* TransferRecord of each side
          queue,       \* workQueue_ of each side
          worker,      \* what the worker thread of each side is doing
          scheduled,   \* retries of SendAvailableChunks in scheduledTasks_
          view,        \* what UpdatePeerConnectivity said last of the peer
          channel,     \* messages sent by each side that have not arrived
          open,        \* the file channel is open
          part,        \* the partial file: its chunks, or that it is not there
          handle,      \* offset of the open handle on it
          final,       \* the committed file
          used         \* how much of each bound has been used

vars == <<file, queue, worker, scheduled, view, channel, open, part, handle,
          final, used>>

\* No chunk has this number.
NoFile == <<Chunks>>

NotOpen == Chunks + 1

Record == [state : State, committed : Offset, next : Offset,
           prepared : BOOLEAN, interrupted : BOOLEAN, backpressured : BOOLEAN,
           resyncs : 0 .. MaximumResyncs]

Bounds == {"commands", "losses", "blips", "refusals", "jams", "faults"}

Bound(b) == CASE b = "commands" -> MaxCommands [] b = "losses" -> MaxLosses
              [] b = "blips" -> MaxBlips [] b = "refusals" -> MaxRefusals
              [] b = "jams" -> MaxJams [] b = "faults" -> MaxFaults

TypeOK ==
    /\ file \in [Side -> Record]
    /\ queue \in [Side -> Seq(Task)]
    /\ worker \in [Side -> Doing]
    /\ scheduled \in Nat
    /\ view \in [Side -> {"available", "recovering", "gone"}]
    /\ channel \in [Side -> Seq(Message)]
    /\ open \in BOOLEAN
    /\ {part, final} \subseteq Seq(Offset)
    /\ handle \in 0 .. NotOpen
    /\ used \in [Bounds -> Nat]

-----------------------------------------------------------------------------
(* Pieces of the actions.                                                  *)

Troubles == used["losses"] + used["blips"] + used["refusals"] + used["jams"]
                + used["faults"]

Spend(b) == /\ used[b] < Bound(b)
            /\ b # "commands" => Troubles < MaxTroubles
            /\ used' = [used EXCEPT ![b] = @ + 1]

SetState(s, state) == file' = [file EXCEPT ![s].state = state]

Do(s, work) == worker' = [worker EXCEPT ![s] = work]

Rest(s) == Do(s, Idle)

ThenSend(s, m, or) == Do(s, [at |-> "send", m |-> m, or |-> or])

Post(s, task) == queue' = [queue EXCEPT ![s] = Append(@, task)]

PostPriority(s, task) == queue' = [queue EXCEPT ![s] = <<task>> \o @]

\* WorkerMain takes the first task.
Take(s) ==
    /\ worker[s].at = "idle"
    /\ queue[s] # <<>>
    /\ queue' = [queue EXCEPT ![s] = Tail(@)]

TakeTask(s, do) == Take(s) /\ Head(queue[s]).do = do

TakeMessage(s, type) ==
    /\ TakeTask(s, "process")
    /\ Head(queue[s]).m.type = type
    /\ file[s].state # "Absent"

Offered == Head(queue["in"]).m.offset

\* The storage belongs to the worker.  The source needs no state: it does not
\* change and can be opened again.
KeepPartial == UNCHANGED <<part, handle>>

RemovePartial(s) ==
    IF s = "in" /\ file["in"].prepared
    THEN part' = NoFile /\ handle' = NotOpen
    ELSE KeepPartial

CloseDestination(s) ==
    /\ handle' = IF s = "in" THEN NotOpen ELSE handle
    /\ UNCHANGED part

\* FailTransfer as the last thing of a task.
FailTransfer(s, notify) ==
    IF IsTerminal(file[s].state)
    THEN Rest(s) /\ KeepPartial /\ UNCHANGED file
    ELSE /\ SetState(s, "Failed")
         /\ RemovePartial(s)
         /\ IF notify THEN ThenSend(s, Just("error"), "nothing") ELSE Rest(s)

\* SendProtocolError
ProtocolError(s) ==
    /\ ThenSend(s, Just("error"), "nothing")
    /\ KeepPartial
    /\ UNCHANGED file

\* A message that changes nothing.
Ignore(s) ==
    /\ Rest(s)
    /\ KeepPartial
    /\ UNCHANGED file

environment == <<scheduled, view, channel, open, final, used>>

-----------------------------------------------------------------------------
(* The users.                                                              *)

SendFile ==
    /\ file["out"].state = "Absent"
    /\ SetState("out", "Preparing")
    /\ Post("out", [do |-> "prepare"])
    /\ UNCHANGED <<worker, part, handle, environment>>

AcceptIncoming ==
    /\ file["in"].state = "AwaitingLocalAcceptance"
    /\ SetState("in", "Preparing")
    /\ Post("in", [do |-> "prepare"])
    /\ UNCHANGED <<worker, part, handle, environment>>

RejectIncoming ==
    /\ file["in"].state = "AwaitingLocalAcceptance"
    /\ SetState("in", "Rejected")
    /\ Post("in", [do |-> "send", m |-> Just("reject"), or |-> "nothing"])
    /\ UNCHANGED <<worker, part, handle, environment>>

\* A transfer that moves is paused, any other is canceled.
Cancel(s) ==
    /\ file[s].state # "Absent"
    /\ ~ IsTerminal(file[s].state)
    /\ Spend("commands")
    /\ LET resumable == file[s].state = "Transferring"
       IN  /\ SetState(s, IF resumable THEN "Paused" ELSE "Canceled")
           /\ PostPriority(s, [do |-> "stop",
                               m |-> Just(IF resumable THEN "pause" ELSE "cancel")])
    /\ UNCHANGED <<worker, part, handle, scheduled, view, channel, open, final>>

Resume(s) ==
    /\ file[s].state = "Paused"
    /\ Spend("commands")
    /\ file' = [file EXCEPT
                  ![s].state = IF s = "in" THEN "Transferring" ELSE "Resuming",
                  ![s].backpressured = FALSE]
    /\ Post(s, [do |-> "send", or |-> "pause",
                m |-> IF s = "in" THEN Told("accept", file["in"].committed)
                      ELSE Just("resume")])
    /\ UNCHANGED <<worker, part, handle, scheduled, view, channel, open, final>>

-----------------------------------------------------------------------------
(* Sends of the worker, and its tasks that are not messages.               *)

\* The reaction of a task to a send that failed: Resume pauses whatever the
\* state is by now, and so does, or recovers, the answer to a Resume.
React(s, or) ==
    CASE or \in {"fail", "refuse"} -> FailTransfer(s, FALSE)
      [] or = "pause" -> SetState(s, "Paused") /\ KeepPartial /\ Rest(s)
      [] or = "recover" -> SetState(s, "Recovering") /\ KeepPartial /\ Rest(s)
      [] or = "interrupt" ->
            /\ file' = [file EXCEPT ![s].interrupted =
                                        @ \/ file[s].state = "Resuming"]
            /\ KeepPartial
            /\ Rest(s)
      [] or = "nothing" -> Ignore(s)

\* SendWithBackpressureRetry, and what follows it.  It fails when the channel
\* is closed or stays full.
SendControl(s) ==
    /\ worker[s].at = "send"
    /\ \/ /\ open
          /\ channel' = [channel EXCEPT ![s] = Append(@, worker[s].m)]
          /\ IF worker[s].or = "refuse" THEN FailTransfer(s, FALSE) ELSE Ignore(s)
          /\ UNCHANGED used
       \/ /\ IF open THEN Spend("jams") ELSE UNCHANGED used
          /\ React(s, worker[s].or)
          /\ UNCHANGED channel
    /\ UNCHANGED <<queue, scheduled, view, open, final>>

PostedSend(s) ==
    /\ TakeTask(s, "send")
    /\ ThenSend(s, Head(queue[s]).m, Head(queue[s]).or)
    /\ UNCHANGED <<file, part, handle, environment>>

\* The task of Cancel.  The mutant keeps a pause to itself.
StopQuietly(s) ==
    /\ TakeTask(s, "stop")
    /\ IF Head(queue[s]).m.type = "pause"
       THEN CloseDestination(s) /\ Rest(s)
       ELSE RemovePartial(s) /\ ThenSend(s, Head(queue[s]).m, "nothing")
    /\ UNCHANGED <<file, environment>>

StopTransfer(s) ==
    /\ TakeTask(s, "stop")
    /\ IF Head(queue[s]).m.type = "pause" THEN CloseDestination(s)
       ELSE RemovePartial(s)
    /\ ThenSend(s, Head(queue[s]).m, "nothing")
    /\ UNCHANGED <<file, environment>>

\* The tasks of UpdatePeerConnectivity.
Tidy(s) ==
    /\ \/ TakeTask(s, "close") /\ CloseDestination(s)
       \/ TakeTask(s, "remove") /\ RemovePartial(s)
    /\ UNCHANGED <<file, worker, environment>>

PrepareOutgoing ==
    /\ TakeTask("out", "prepare")
    /\ \/ /\ file["out"].state = "Preparing"
          /\ SetState("out", "AwaitingPeerAcceptance")
          /\ ThenSend("out", Just("offer"), "fail")
          /\ UNCHANGED used
       \/ /\ file["out"].state = "Preparing"
          /\ Spend("faults")
          /\ SetState("out", "Failed")
          /\ Rest("out")
       \/ /\ file["out"].state # "Preparing"
          /\ UNCHANGED <<file, worker, used>>
    /\ UNCHANGED <<part, handle, scheduled, view, channel, open, final>>

\* The name of the partial file is new, as the id of the transfer is.
PrepareIncoming ==
    /\ TakeTask("in", "prepare")
    /\ \/ /\ file["in"].state = "Preparing"
          /\ file' = [file EXCEPT !["in"].state = "Transferring",
                                  !["in"].prepared = TRUE,
                                  !["in"].committed = 0,
                                  !["in"].backpressured = FALSE]
          /\ part' = <<>>
          /\ ThenSend("in", Told("accept", 0), "fail")
          /\ UNCHANGED used
       \/ /\ file["in"].state = "Preparing"
          /\ Spend("faults")
          /\ ThenSend("in", Just("reject"), "refuse")
          /\ UNCHANGED <<file, part>>
       \/ /\ file["in"].state # "Preparing"
          /\ UNCHANGED <<file, worker, part, used>>
    /\ UNCHANGED <<handle, scheduled, view, channel, open, final>>

-----------------------------------------------------------------------------
(* SendAvailableChunks.                                                    *)

\* Posted by a Progress or by a burst that was long enough.
TakePump ==
    /\ TakeTask("out", "pump")
    /\ Do("out", [at |-> "pump"])
    /\ UNCHANGED <<file, part, handle, environment>>

\* WorkerMain takes a scheduled task when there is no other.
RetryPump ==
    /\ worker["out"].at = "idle"
    /\ queue["out"] = <<>>
    /\ scheduled > 0
    /\ scheduled' = scheduled - 1
    /\ Do("out", [at |-> "pump"])
    /\ UNCHANGED <<file, queue, part, handle, view, channel, open, final, used>>

WindowFull ==
    /\ file["out"].state = "Transferring"
    /\ file["out"].next >= file["out"].committed
    /\ file["out"].next - file["out"].committed >= Window

Pumps == /\ worker["out"].at = "pump"
         /\ file["out"].state \in {"Transferring", "AwaitingCompletion"}
         /\ ~ WindowFull

StopPump ==
    /\ worker["out"].at = "pump"
    /\ ~ Pumps
    /\ Rest("out")
    /\ UNCHANGED <<file, queue, part, handle, environment>>

\* SendOnce: the channel takes the message, or its buffer is full, or the
\* channel is closed or the source cannot be read.
SendOnce(m, accepted, refused) ==
    \/ /\ open
       /\ channel' = [channel EXCEPT !["out"] = Append(@, m)]
       /\ accepted
       /\ KeepPartial
       /\ UNCHANGED <<scheduled, used>>
    \/ /\ open
       /\ Spend("refusals")
       /\ refused
       /\ KeepPartial
       /\ UNCHANGED channel
    \/ /\ IF open THEN m.type = "chunk" /\ Spend("faults") ELSE UNCHANGED used
       /\ FailTransfer("out", TRUE)
       /\ UNCHANGED <<channel, scheduled>>

\* Backpressure: the same message is tried again later.
TryLater ==
    /\ file' = [file EXCEPT !["out"].backpressured = TRUE]
    /\ scheduled' = scheduled + 1
    /\ Rest("out")

\* The chunk is read and sent before the lock is taken again.
SendChunk ==
    /\ Pumps
    /\ file["out"].next < Chunks
    /\ SendOnce(Told("chunk", file["out"].next),
                /\ Do("out", [at |-> "sent", offset |-> file["out"].next])
                /\ UNCHANGED file,
                TryLater)
    /\ UNCHANGED <<queue, view, open, final>>

\* What a chunk that was sent changes; the mutant counts it as delivered.
CountChunk(f) == [f EXCEPT !.next = @ + 1, !.committed = @ + 1,
                           !.backpressured = FALSE]

ChunkSent(f) == [f EXCEPT !.next = @ + 1, !.backpressured = FALSE]

\* Then the offset advances if the transfer is still where it was.  The loop
\* goes on, or a new task does after a burst.
AfterChunk ==
    /\ worker["out"].at = "sent"
    /\ IF /\ file["out"].state = "Transferring"
          /\ file["out"].next = worker["out"].offset
       THEN /\ file' = [file EXCEPT !["out"] = ChunkSent(@)]
            /\ \/ Do("out", [at |-> "pump"]) /\ UNCHANGED queue
               \/ Rest("out") /\ Post("out", [do |-> "pump"])
       ELSE Rest("out") /\ UNCHANGED <<file, queue>>
    /\ UNCHANGED <<part, handle, environment>>

AllSent ==
    /\ Pumps
    /\ file["out"].next = Chunks
    /\ SetState("out", "AwaitingCompletion")
    /\ Do("out", [at |-> "completing"])
    /\ UNCHANGED <<queue, part, handle, environment>>

SendComplete ==
    /\ worker["out"].at = "completing"
    /\ SendOnce(Just("complete"),
                /\ Rest("out")
                /\ file' = [file EXCEPT !["out"].backpressured = FALSE],
                IF file["out"].state = "AwaitingCompletion" THEN TryLater
                ELSE Rest("out") /\ UNCHANGED <<file, scheduled>>)
    /\ UNCHANGED <<queue, view, open, final>>

-----------------------------------------------------------------------------
(* ProcessEnvelope.  What only the other side sends does not arrive.       *)

\* Arrival of a message: OnFileTransferMessage posts it.
Arrive(s) ==
    /\ channel[Peer(s)] # <<>>
    /\ Post(s, [do |-> "process", m |-> Head(channel[Peer(s)])])
    /\ channel' = [channel EXCEPT ![Peer(s)] = Tail(@)]
    /\ UNCHANGED <<file, worker, part, handle, scheduled, view, open, final, used>>

HandleUnknown ==
    /\ TakeTask("in", "process")
    /\ file["in"].state = "Absent"
    /\ IF Head(queue["in"]).m.type = "offer"
       THEN Rest("in") /\ SetState("in", "AwaitingLocalAcceptance") /\ KeepPartial
       ELSE ProtocolError("in")
    /\ UNCHANGED environment

HandleResponse ==
    /\ \/ TakeMessage("out", "accept")
       \/ TakeMessage("out", "reject")
    /\ LET m == Head(queue["out"]).m
           state == file["out"].state
           expected == state \in {"AwaitingPeerAcceptance", "Paused", "Resuming"}
       IN  CASE ~ expected -> ProtocolError("out")
             [] expected /\ m.type = "reject" ->
                    /\ SetState("out", IF state = "Resuming" THEN "Paused"
                                       ELSE "Rejected")
                    /\ Rest("out")
                    /\ KeepPartial
             [] OTHER ->
                    /\ file' = [file EXCEPT
                           !["out"] = [@ EXCEPT
                               !.state = "Transferring", !.committed = m.offset,
                               !.next = m.offset, !.interrupted = FALSE,
                               !.backpressured = FALSE, !.resyncs = 0]]
                    /\ Do("out", [at |-> "pump"])
                    /\ KeepPartial
    /\ UNCHANGED environment

\* The receipt is repeated if the file was committed; the mutant goes by the
\* bytes that were written.
Written == file["in"].committed = Chunks

Received == file["in"].state = "Completed"

HandleResume ==
    /\ TakeMessage("in", "resume")
    /\ file["in"].state # "Absent"
    /\ LET state == file["in"].state
       IN  CASE Received ->
                    /\ ThenSend("in", Just("complete"), "nothing")
                    /\ UNCHANGED file
             [] /\ ~ Received
                /\ state \in {"Paused", "Transferring", "Recovering"}
                /\ file["in"].prepared ->
                    /\ file' = [file EXCEPT
                           !["in"] = [@ EXCEPT
                               !.state = "Transferring", !.interrupted = FALSE,
                               !.backpressured = FALSE, !.resyncs = 0]]
                    /\ ThenSend("in", Told("accept", file["in"].committed),
                                IF state = "Recovering" THEN "recover" ELSE "pause")
             [] OTHER ->
                    /\ ThenSend("in", Just("error"), "nothing")
                    /\ UNCHANGED file
    /\ KeepPartial
    /\ UNCHANGED environment

\* A Progress that is known or comes after the end is ignored; one beyond what
\* was sent is an error.
HandleProgress ==
    /\ worker["out"].at = "idle"
    /\ queue["out"] # <<>>
    /\ LET task == Head(queue["out"])
           f == file["out"]
           known == task.m.offset <= f.committed \/ f.state \in Finished
       IN  /\ task.do = "process" /\ task.m.type = "progress"
           /\ queue' = [queue EXCEPT !["out"] =
                  IF /\ f.state = "Transferring" /\ f.next < Chunks
                     /\ task.m.offset \in f.committed + 1 .. f.next
                  THEN Append(Tail(@), [do |-> "pump"]) ELSE Tail(@)]
           /\ CASE known -> Ignore("out")
                [] /\ ~ known
                   /\ \/ task.m.offset > f.next
                      \/ f.state \notin {"Transferring", "AwaitingCompletion",
                                         "Paused", "Resuming", "Recovering"} ->
                       ProtocolError("out")
                [] OTHER ->
                       /\ file' = [file EXCEPT
                              !["out"] = [@ EXCEPT !.committed = task.m.offset,
                                                   !.resyncs = 0,
                                                   !.backpressured = FALSE]]
                       /\ Rest("out")
                       /\ KeepPartial
    /\ UNCHANGED environment

\* A chunk that was written is ignored, and so is any chunk of a transfer that
\* is paused, recovers or is over.
HandleChunk ==
    /\ TakeMessage("in", "chunk")
    /\ LET f == file["in"]
       IN  CASE \/ IsTerminal(f.state) \/ f.state = "Recovering"
                \/ f.state = "Transferring" /\ Offered < f.committed ->
                    Ignore("in")
             [] f.state = "Transferring" /\ Offered = f.committed ->
                    /\ Do("in", [at |-> "appending", offset |-> Offered])
                    /\ KeepPartial
                    /\ UNCHANGED file
             [] OTHER -> FailTransfer("in", TRUE)
    /\ UNCHANGED environment

\* AppendChunk: a file that is opened has the size that is expected.
Appendable(offset) ==
    IF handle = NotOpen THEN part # NoFile /\ Len(part) = offset
    ELSE handle = offset

\* The chunk is written without the lock, and counts if the transfer still
\* goes on.  The last chunk is acknowledged, any other when it is time to.
AppendChunk ==
    /\ worker["in"].at = "appending"
    /\ LET offset == worker["in"].offset
       IN  \/ /\ Appendable(offset)
              /\ part' = Append(part, offset)
              /\ handle' = offset + 1
              /\ IF IsTerminal(file["in"].state)
                 THEN Rest("in") /\ UNCHANGED file
                 ELSE /\ file' = [file EXCEPT
                             !["in"] = [@ EXCEPT !.committed = offset + 1,
                                                 !.resyncs = 0,
                                                 !.backpressured = FALSE]]
                      /\ \/ ThenSend("in", Told("progress", offset + 1), "nothing")
                         \/ offset + 1 < Chunks /\ Rest("in")
              /\ UNCHANGED used
           \/ /\ IF Appendable(offset) THEN Spend("faults") ELSE UNCHANGED used
              /\ FailTransfer("in", TRUE)
    /\ UNCHANGED <<queue, scheduled, view, channel, open, final>>

HandleComplete(s) ==
    /\ TakeMessage(s, "complete")
    /\ LET f == file[s]
       IN  CASE IsTerminal(f.state) \/ f.state = "Recovering" -> Ignore(s)
             [] s = "out" /\ f.state \in {"AwaitingCompletion", "Resuming"} ->
                    SetState(s, "Completed") /\ Rest(s) /\ KeepPartial
             [] s = "in" /\ f.state = "Transferring" /\ f.committed = Chunks ->
                    /\ SetState(s, "Verifying")
                    /\ Do(s, [at |-> "verifying"])
                    /\ KeepPartial
             [] OTHER -> IF s = "out" THEN ProtocolError(s) ELSE FailTransfer(s, TRUE)
    /\ UNCHANGED environment

Source == [i \in 1 .. Chunks |-> i - 1]

\* VerifyAndCommit, without the lock; the transfer is completed whatever became
\* of it meanwhile.
VerifyAndCommit ==
    /\ worker["in"].at = "verifying"
    /\ \/ /\ part = Source
          /\ final' = part
          /\ part' = NoFile
          /\ handle' = NotOpen
          /\ SetState("in", "Completed")
          /\ ThenSend("in", Just("complete"), "nothing")
          /\ UNCHANGED used
       \/ /\ IF part = Source THEN Spend("faults") ELSE UNCHANGED used
          /\ IF IsTerminal(file["in"].state)
             THEN Rest("in") /\ UNCHANGED file
             ELSE SetState("in", "Failed") /\ ThenSend("in", Just("error"), "nothing")
          /\ part' = NoFile
          /\ handle' = NotOpen
          /\ UNCHANGED final
    /\ UNCHANGED <<queue, scheduled, view, channel, open>>

\* The peer paused, canceled or failed.
HandleCancel(s) ==
    /\ \E type \in {"pause", "cancel", "error"} :
        /\ TakeMessage(s, type)
        /\ IF file[s].state \in Finished
           THEN Ignore(s)
           ELSE /\ Rest(s)
                /\ IF type = "pause" /\ (s = "out" \/ file["in"].prepared)
                   THEN SetState(s, "Paused") /\ CloseDestination(s)
                   ELSE /\ SetState(s, IF type = "error" THEN "Failed"
                                       ELSE "Canceled")
                        /\ RemovePartial(s)
    /\ UNCHANGED environment

-----------------------------------------------------------------------------
(* CheckStalledTransfers, and what the engine tells of the connection.     *)

\* Nothing is on its way, nothing is retried and no connection recovers.
Quiet == /\ \A s \in Side : /\ channel[s] = <<>>
                            /\ queue[s] = <<>>
                            /\ worker[s] = Idle
                            /\ view[s] # "recovering"
         /\ scheduled = 0

OutStalled ==
    /\ ~ file["out"].backpressured
    /\ \/ file["out"].state = "Transferring" /\ file["out"].next < Chunks
       \/ file["out"].state = "Resuming"

MayResync == file["out"].resyncs < MaximumResyncs

\* Nothing moved for fifteen seconds.
ResyncOutgoing ==
    /\ worker["out"].at = "idle"
    /\ Patient => Quiet
    /\ OutStalled
    /\ IF MayResync
       THEN /\ file' = [file EXCEPT !["out"].state = "Resuming",
                                    !["out"].resyncs = @ + 1]
            /\ ThenSend("out", Just("resume"), "nothing")
            /\ KeepPartial
       ELSE FailTransfer("out", TRUE)
    /\ UNCHANGED <<queue, environment>>

\* Nothing moved for a minute.
GiveUpIncoming ==
    /\ worker["in"].at = "idle"
    /\ Patient => Quiet /\ ~ OutStalled
    /\ file["in"].state = "Transferring"
    /\ file["in"].committed < Chunks
    /\ FailTransfer("in", TRUE)
    /\ UNCHANGED <<queue, environment>>

LoseChannel ==
    /\ open
    /\ Spend("losses")
    /\ open' = FALSE
    /\ channel' = [s \in Side |-> <<>>]
    /\ UNCHANGED <<file, queue, worker, scheduled, view, part, handle, final>>

OpenChannel ==
    /\ ~ open
    /\ \A s \in Side : view[s] # "gone"
    /\ open' = TRUE
    /\ UNCHANGED <<file, queue, worker, scheduled, view, channel, part, handle,
                   final, used>>

\* UpdatePeerConnectivity, for each of the things it can say of the peer.
PeerRecovers(s) ==
    /\ view[s] = "available"
    /\ IF open THEN Spend("blips") ELSE UNCHANGED used
    /\ view' = [view EXCEPT ![s] = "recovering"]
    /\ IF file[s].state \in {"Transferring", "Resuming", "AwaitingCompletion"}
       THEN /\ file' = [file EXCEPT ![s].state = "Recovering",
                                    ![s].interrupted = TRUE]
            /\ PostPriority(s, [do |-> "close"])
       ELSE UNCHANGED <<file, queue>>
    /\ UNCHANGED <<worker, scheduled, channel, open, part, handle, final>>

PeerAvailable(s) ==
    /\ view[s] = "recovering"
    /\ open
    /\ view' = [view EXCEPT ![s] = "available"]
    /\ IF s = "out" /\ file[s].state = "Recovering" /\ file[s].interrupted
       THEN /\ file' = [file EXCEPT ![s].state = "Resuming",
                                    ![s].interrupted = FALSE]
            /\ Post(s, [do |-> "send", m |-> Just("resume"), or |-> "interrupt"])
       ELSE UNCHANGED <<file, queue>>
    /\ UNCHANGED <<worker, scheduled, channel, open, part, handle, final, used>>

PeerGone(s) ==
    /\ PeersLeave
    /\ ~ open
    /\ view[s] # "gone"
    /\ view' = [view EXCEPT ![s] = "gone"]
    /\ IF file[s].state # "Absent" /\ ~ IsTerminal(file[s].state)
       THEN SetState(s, "Failed") /\ PostPriority(s, [do |-> "remove"])
       ELSE UNCHANGED <<file, queue>>
    /\ UNCHANGED <<worker, scheduled, channel, open, part, handle, final, used>>

-----------------------------------------------------------------------------
NewRecord == [state |-> "Absent", committed |-> 0, next |-> 0, prepared |-> FALSE,
              interrupted |-> FALSE, backpressured |-> FALSE, resyncs |-> 0]

Init ==
    /\ file = [s \in Side |-> NewRecord]
    /\ queue = [s \in Side |-> <<>>]
    /\ worker = [s \in Side |-> Idle]
    /\ scheduled = 0
    /\ view = [s \in Side |-> "available"]
    /\ channel = [s \in Side |-> <<>>]
    /\ open = TRUE
    /\ part = NoFile
    /\ handle = NotOpen
    /\ final = NoFile
    /\ used = [b \in Bounds |-> 0]

\* What the worker of a side can do.
Work(s) ==
    \/ SendControl(s) \/ PostedSend(s) \/ StopTransfer(s) \/ Tidy(s)
    \/ HandleComplete(s) \/ HandleCancel(s)

WorkOutgoing ==
    \/ Work("out") \/ PrepareOutgoing
    \/ TakePump \/ RetryPump \/ StopPump \/ SendChunk \/ AfterChunk
    \/ AllSent \/ SendComplete \/ HandleResponse \/ HandleProgress

WorkIncoming ==
    \/ Work("in") \/ PrepareIncoming \/ HandleUnknown
    \/ HandleResume \/ HandleChunk \/ AppendChunk \/ VerifyAndCommit

Users == \/ SendFile \/ AcceptIncoming \/ RejectIncoming
         \/ \E s \in Side : Cancel(s) \/ Resume(s)

Connection == \/ LoseChannel \/ OpenChannel
              \/ \E s \in Side : PeerRecovers(s) \/ PeerAvailable(s) \/ PeerGone(s)

Next == \/ WorkOutgoing \/ WorkIncoming
        \/ \E s \in Side : Arrive(s)
        \/ ResyncOutgoing \/ GiveUpIncoming
        \/ Users \/ Connection

Spec == Init /\ [][Next]_vars

\* A worker goes on, messages arrive while the channel is open, a channel that
\* was lost is opened again and the engine says so, and the timeouts fire.
Fairness ==
    /\ WF_vars(WorkOutgoing) /\ WF_vars(WorkIncoming)
    /\ \A s \in Side : WF_vars(Arrive(s)) /\ WF_vars(PeerAvailable(s))
    /\ WF_vars(OpenChannel)
    /\ WF_vars(ResyncOutgoing) /\ WF_vars(GiveUpIncoming)

FairSpec == Spec /\ Fairness

-----------------------------------------------------------------------------
(* Safety.                                                                 *)

\* The sender is told that the transfer is complete only when the whole file,
\* with its chunks in order, is at its destination.  The receipt of
\* ProcessEnvelope is repeated on a Resume and may cross pauses, losses and
\* resynchronizations.
OnlyDelivered == file["out"].state = "Completed" => final = Source

\* The offsets tell the truth through every pause, loss and retry: the partial
\* file holds a prefix of the source, since no chunk is repeated or left out,
\* and what the sender takes for delivered is in it ("bytes already written to
\* the peer's .part file"); chunks beyond that never exceed the window,
\* although Responses move both ends of it back and forth.
OffsetsAgree ==
    /\ part # NoFile =>
          /\ IsPrefix(part, Source)
          /\ file["out"].committed <= Len(part)
    /\ file["out"].committed <= file["out"].next
    /\ file["out"].next <= file["out"].committed + Window

\* A transfer implements FileDelivery: the copy appears once and whole, whatever
\* is lost, repeated or failing, and the confirmation comes after it.  It is
\* retracted when a Resume the sender posted before cannot be sent.
Delivery == INSTANCE FileDelivery
    WITH File <- Source, copy <- final,
         confirmed <- file["out"].state = "Completed"

Delivers == Delivery!Spec

(* Liveness.                                                               *)

\* The last chunk filled the window: the pump stopped there, and no Progress
\* starts it again, since there is nothing left to send.
TailStranded ==
    /\ file["out"].state = "Transferring"
    /\ file["out"].next = Chunks
    /\ file["out"].committed = Chunks

\* The channel, the peer or the room in the channel's buffer was lost, and a
\* message with it.
Interrupted ==
    \/ used["losses"] + used["blips"] + used["jams"] > 0
    \/ \E s \in Side : view[s] = "gone"

\* A transfer over an uninterrupted connection does not hang: nobody waits for
\* a message, a burst or a retry that never comes, whatever is full, fails or
\* is paused, except at a stranded tail.  Each side ends, or pauses until its
\* user goes on, and both complete if no user or disk stops them: backpressure
\* is flow control, not failure.
Settles ==
    file["in"].state = "Transferring" ~>
        \/ \A s \in Side : file[s].state = "Completed"
        \/ /\ \A s \in Side : IsTerminal(file[s].state)
           /\ used["commands"] + used["faults"] > 0
        \/ TailStranded
        \/ Interrupted
=============================================================================
