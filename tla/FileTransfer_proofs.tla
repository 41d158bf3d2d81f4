------------------------ MODULE FileTransfer_proofs -------------------------
(***************************************************************************)
(* What two FileTransferControllers promise their users, for every size,   *)
(* window and number of disturbances: the types, the offsets, the receipt  *)
(* and the implementation of FileDelivery.  The invariant relates the      *)
(* records of the two sides to the partial file, and bounds what may wait, *)
(* be in work or be on its way by what a side may say by now.              *)
(***************************************************************************)
EXTENDS FileTransfer, TLAPS

\* What a side may say by now: a chunk is one of the file's, a receipt is true,
\* and an offset that the receiver names is in its partial file.
Sayable ==
    [s \in Side |->
       IF s = "out" THEN {m \in Message : m.type = "chunk" => m.offset < Chunks}
       ELSE {m \in Message :
               /\ m.type = "complete" => final = Source
               /\ m.type \in {"accept", "progress"} =>
                      /\ file["in"].prepared
                      /\ part # NoFile => m.offset <= Len(part)}]

\* A receiver that is to go back to a pause or a recovery, should it be unable
\* to send, sends its acceptance.
Meant(s, m, or) == s = "in" /\ or \in {"pause", "recover"} => m.type = "accept"

TaskOf(S, s) ==
    [do : {"process"}, m : S[Peer(s)]]
        \union {t \in [do : {"send"}, m : S[s], or : Reaction] : Meant(s, t.m, t.or)}
        \union [do : {"prepare", "pump", "close", "remove"}]
        \union [do : {"stop"}, m : S[s]]

WorkOf(S, s) ==
    [at : {"idle", "pump", "completing", "verifying"}]
        \union [at : {"sent"}, offset : Offset]
        \union [at : {"appending"}, offset : {n \in Offset : n < Chunks}]
        \union {w \in [at : {"send"}, m : S[s], or : Reaction] : Meant(s, w.m, w.or)}

\* S covers what waits, what is being done and what is on its way.
Queued(S) == /\ queue = [s \in Side |-> queue[s]]
             /\ \A s \in Side : queue[s] \in Seq(TaskOf(S, s))

Worked(S) == /\ worker = [s \in Side |-> worker[s]]
             /\ \A s \in Side : worker[s] \in WorkOf(S, s)

Channeled(S) == /\ channel = [s \in Side |-> channel[s]]
                /\ \A s \in Side : channel[s] \in Seq(S[s])

Carried(S) == Queued(S) /\ Worked(S) /\ Channeled(S)

\* The offsets of the sender's record.
Sender(r) == /\ r.committed <= r.next
             /\ r.next <= r.committed + Window
             /\ r.state = "AwaitingCompletion" => r.next = Chunks

\* The receiver prepares its destination once, and only then goes on.
Before == {"Absent", "AwaitingLocalAcceptance", "Preparing"}

Receiver(r) ==
    IF r.prepared THEN r.state \notin Before
    ELSE r.state \in Before \union {"Rejected", "Canceled", "Failed"}

Files == /\ file \in [Side -> Record]
         /\ Sender(file["out"]) /\ Receiver(file["in"])
         /\ \A s \in Side : file[s].state = "Completed" => final = Source

\* The first n chunks.
Start(n) == [i \in 1 .. n |-> i - 1]

\* The partial file begins empty, grows chunk by chunk, and is gone for good
\* when it is removed or committed.
Storage ==
    /\ ~ file["in"].prepared =>
           part = NoFile /\ final = NoFile /\ file["out"].committed = 0
    /\ part # NoFile =>
           /\ Len(part) \in Offset /\ part = Start(Len(part))
           /\ \A s \in Side : file[s].committed <= Len(part)
           /\ final = NoFile
    /\ handle # NotOpen => part # NoFile /\ handle = Len(part)
    /\ final \in {NoFile, Source}

\* A chunk that was sent is the next one and fits into the window.
Sent == worker["out"].at = "sent" =>
            /\ worker["out"].offset = file["out"].next
            /\ file["out"].next < Chunks
            /\ file["out"].next < file["out"].committed + Window

Counters == /\ scheduled \in Nat
            /\ view \in [Side -> {"available", "recovering", "gone"}]
            /\ open \in BOOLEAN
            /\ used \in [Bounds -> Nat]

Inv == Files /\ Storage /\ Carried(Sayable) /\ Sent /\ Counters

-----------------------------------------------------------------------------
(* What may be said.                                                       *)

LEMMA Sides == /\ Side = {"out", "in"} /\ "out" # "in"
               /\ \A s \in Side : Peer(s) \in Side /\ Peer(Peer(s)) = s
  BY DEF Side, Peer

LEMMA Offsets == /\ Chunks \in Nat /\ 0 \in Offset /\ Chunks \in Offset
                 /\ Offset \subseteq Nat
                 /\ \A n \in Nat : n <= Chunks <=> n \in Offset
                 /\ Window \in Nat /\ Window > 0
                 /\ MaximumResyncs \in Nat
  BY FileTransferAssumption DEF Offset

\* What may be said at any time, and the chunks that may not.
Words(S) ==
    /\ S \in [Side -> SUBSET Message]
    /\ \A s \in Side :
           \A t \in {"offer", "resume", "reject", "pause", "cancel", "error"} :
               Just(t) \in S[s]
    /\ Just("complete") \in S["out"]
    /\ \A n \in Offset : n < Chunks => Told("chunk", n) \in S["out"]
    /\ \A m \in S["out"] : m.type = "chunk" => m.offset < Chunks

\* The receiver may name its offset once it has a file, and acknowledge the
\* whole file once it is committed.
Heard(S) ==
    /\ file["in"].prepared =>
           /\ Told("accept", file["in"].committed) \in S["in"]
           /\ Told("progress", file["in"].committed) \in S["in"]
    /\ final = Source => Just("complete") \in S["in"]

LEMMA SayableTypes == Words(Sayable)
<1>1. Sayable \in [Side -> SUBSET Message]
  BY DEF Sayable
<1>2. ASSUME NEW s \in Side,
             NEW t \in {"offer", "resume", "reject", "pause", "cancel", "error"}
      PROVE  Just(t) \in Sayable[s]
  BY Offsets DEF Sayable, Just, Told, Message
<1>3. Just("complete") \in Sayable["out"]
  BY Offsets, Sides DEF Sayable, Just, Told, Message
<1>4. ASSUME NEW n \in Offset, n < Chunks PROVE Told("chunk", n) \in Sayable["out"]
  BY <1>4, Offsets, Sides DEF Sayable, Told, Message
<1>5. \A m \in Sayable["out"] : m.type = "chunk" => m.offset < Chunks
  BY Sides DEF Sayable
<1> QED
  BY <1>1, <1>2, <1>3, <1>4, <1>5 DEF Words

LEMMA SayableHeard == Files /\ Storage => Heard(Sayable)
<1> SUFFICES ASSUME Files, Storage PROVE Heard(Sayable)
  OBVIOUS
<1>1. file["in"] \in Record
  BY Sides DEF Files
<1>2. file["in"].committed \in Offset
  BY <1>1 DEF Record
<1>3. ASSUME file["in"].prepared, NEW t \in {"accept", "progress"}
      PROVE  Told(t, file["in"].committed) \in Sayable["in"]
  <2>1. part # NoFile => file["in"].committed <= Len(part)
    BY Sides DEF Storage
  <2> QED
    BY <1>2, <1>3, <2>1, Sides DEF Sayable, Told, Message
<1>4. final = Source => Just("complete") \in Sayable["in"]
  BY Offsets, Sides DEF Sayable, Just, Told, Message
<1> QED
  BY <1>3, <1>4 DEF Heard

\* What a side may say grows: a receipt stays true and a partial file does not
\* shrink, but goes as a whole.
Grown ==
    /\ final = Source => final' = Source
    /\ file["in"].prepared =>
           /\ file'["in"].prepared
           /\ part' # NoFile => part # NoFile /\ Len(part) <= Len(part')

LEMMA SayableGrows ==
    ASSUME Storage, Storage', Grown, NEW s \in Side
    PROVE  Sayable[s] \subseteq Sayable'[s]
<1>1. CASE s = "out"
  BY <1>1 DEF Sayable
<1>2. CASE s = "in"
  <2> SUFFICES ASSUME NEW m \in Sayable["in"] PROVE m \in Sayable'["in"]
    BY <1>2
  <2>1. /\ m \in Message
        /\ m.type = "complete" => final = Source
        /\ m.type \in {"accept", "progress"} =>
               file["in"].prepared /\ (part # NoFile => m.offset <= Len(part))
    BY Sides DEF Sayable
  <2>2. m.type = "complete" => final' = Source
    BY <2>1 DEF Grown
  <2>3. ASSUME m.type \in {"accept", "progress"}, part' # NoFile
        PROVE  m.offset <= Len(part')
    <3>1. part # NoFile /\ Len(part) <= Len(part') /\ m.offset <= Len(part)
      BY <2>1, <2>3 DEF Grown
    <3>2. Len(part) \in Nat /\ Len(part') \in Nat /\ m.offset \in Nat
      BY <2>1, <2>3, <3>1, Offsets DEF Storage, Message
    <3> QED
      BY <3>1, <3>2
  <2>4. m.type \in {"accept", "progress"} => file'["in"].prepared
    BY <2>1 DEF Grown
  <2> QED
    BY <2>1, <2>2, <2>3, <2>4, Sides DEF Sayable, Source
<1> QED
  BY <1>1, <1>2 DEF Side

LEMMA CarriedMore ==
    ASSUME NEW S, NEW T, \A s \in Side : S[s] \subseteq T[s], Carried(S)
    PROVE  Carried(T)
<1>1. ASSUME NEW s \in Side PROVE TaskOf(S, s) \subseteq TaskOf(T, s)
  <2>1. S[s] \subseteq T[s] /\ S[Peer(s)] \subseteq T[Peer(s)]
    BY Sides
  <2> QED
    BY <2>1 DEF TaskOf
<1>2. ASSUME NEW s \in Side PROVE WorkOf(S, s) \subseteq WorkOf(T, s)
  <2>1. S[s] \subseteq T[s]
    OBVIOUS
  <2> QED
    BY <2>1 DEF WorkOf
<1>3. Queued(T)
  <2>1. ASSUME NEW s \in Side PROVE Seq(TaskOf(S, s)) \subseteq Seq(TaskOf(T, s))
    BY <1>1
  <2> QED
    BY <2>1 DEF Carried, Queued
<1>4. Worked(T)
  BY <1>2 DEF Carried, Worked
<1>5. Channeled(T)
  <2>1. ASSUME NEW s \in Side PROVE Seq(S[s]) \subseteq Seq(T[s])
    OBVIOUS
  <2> QED
    BY <2>1 DEF Carried, Channeled
<1> QED
  BY <1>3, <1>4, <1>5 DEF Carried

-----------------------------------------------------------------------------
(* Queues, workers and channels, under a constant bound on what is said.   *)

LEMMA TaskKinds ==
    ASSUME NEW S, NEW s, NEW t \in TaskOf(S, s)
    PROVE /\ t.do = "process" => t.m \in S[Peer(s)]
          /\ t.do \in {"send", "stop"} => t.m \in S[s]
          /\ t.do = "send" => t.or \in Reaction /\ Meant(s, t.m, t.or)
  BY DEF TaskOf

LEMMA TasksOf ==
    ASSUME NEW S, NEW s
    PROVE /\ \A m \in S[Peer(s)] : [do |-> "process", m |-> m] \in TaskOf(S, s)
          /\ \A m \in S[s], r \in Reaction :
                 Meant(s, m, r) => [do |-> "send", m |-> m, or |-> r] \in TaskOf(S, s)
          /\ \A m \in S[s] : [do |-> "stop", m |-> m] \in TaskOf(S, s)
          /\ \A d \in {"prepare", "pump", "close", "remove"} :
                 [do |-> d] \in TaskOf(S, s)
<1>1. ASSUME NEW m \in S[s], NEW r \in Reaction, Meant(s, m, r)
      PROVE  [do |-> "send", m |-> m, or |-> r] \in TaskOf(S, s)
  <2> DEFINE t == [do |-> "send", m |-> m, or |-> r]
  <2>1. t \in [do : {"send"}, m : S[s], or : Reaction] /\ t.m = m /\ t.or = r
    OBVIOUS
  <2> QED
    BY <1>1, <2>1 DEF TaskOf
<1> QED
  BY <1>1 DEF TaskOf

LEMMA WorksOf ==
    ASSUME NEW S, NEW s
    PROVE /\ \A a \in {"idle", "pump", "completing", "verifying"} :
                 [at |-> a] \in WorkOf(S, s)
          /\ \A n \in Offset : [at |-> "sent", offset |-> n] \in WorkOf(S, s)
          /\ \A n \in Offset :
                 n < Chunks => [at |-> "appending", offset |-> n] \in WorkOf(S, s)
          /\ \A m \in S[s], r \in Reaction :
                 Meant(s, m, r) => [at |-> "send", m |-> m, or |-> r] \in WorkOf(S, s)
<1>1. ASSUME NEW m \in S[s], NEW r \in Reaction, Meant(s, m, r)
      PROVE  [at |-> "send", m |-> m, or |-> r] \in WorkOf(S, s)
  <2> DEFINE w == [at |-> "send", m |-> m, or |-> r]
  <2>1. w \in [at : {"send"}, m : S[s], or : Reaction] /\ w.m = m /\ w.or = r
    OBVIOUS
  <2> QED
    BY <1>1, <2>1 DEF WorkOf
<1> QED
  BY <1>1 DEF WorkOf

LEMMA WorkKinds ==
    ASSUME NEW S, NEW s, NEW w \in WorkOf(S, s)
    PROVE /\ w.at = "send" => /\ w.m \in S[s] /\ w.or \in Reaction
                              /\ Meant(s, w.m, w.or)
          /\ w.at = "sent" => w.offset \in Offset
          /\ w.at = "appending" => w.offset \in Offset /\ w.offset < Chunks
  BY DEF WorkOf

LEMMA Posts ==
    ASSUME NEW S, Queued(S), NEW s \in Side, NEW t \in TaskOf(S, s),
           Post(s, t) \/ PostPriority(s, t)
    PROVE Queued(S)'
<1>1. Append(queue[s], t) \in Seq(TaskOf(S, s))
  BY DEF Queued
<1>2. <<t>> \in Seq(TaskOf(S, s)) /\ <<t>> \o queue[s] \in Seq(TaskOf(S, s))
  BY DEF Queued
<1>3. \A r \in Side : queue'[r] \in Seq(TaskOf(S, r))
  BY <1>1, <1>2 DEF Queued, Post, PostPriority
<1> QED
  BY <1>3 DEF Queued, Post, PostPriority

LEMMA Takes ==
    ASSUME NEW S, Queued(S), NEW s \in Side, Take(s)
    PROVE  /\ Queued(S)'
           /\ Head(queue[s]).do = "process" => Head(queue[s]).m \in S[Peer(s)]
           /\ Head(queue[s]).do \in {"send", "stop"} => Head(queue[s]).m \in S[s]
           /\ Head(queue[s]).do = "send" =>
                  /\ Head(queue[s]).or \in Reaction
                  /\ Meant(s, Head(queue[s]).m, Head(queue[s]).or)
<1>1. \A r \in Side : queue'[r] \in Seq(TaskOf(S, r))
  BY DEF Queued, Take
<1>2. Head(queue[s]) \in TaskOf(S, s)
  BY DEF Queued, Take
<1> QED
  BY <1>1, <1>2, TaskKinds DEF Queued, Take

LEMMA Does ==
    ASSUME NEW S, Worked(S), NEW s \in Side, NEW w \in WorkOf(S, s), Do(s, w)
    PROVE Worked(S)'
<1>1. \A r \in Side : worker'[r] \in WorkOf(S, r)
  BY DEF Worked, Do
<1> QED
  BY <1>1 DEF Worked, Do

LEMMA Rests ==
    ASSUME NEW S, Worked(S), NEW s \in Side, Rest(s)
    PROVE Worked(S)'
  BY Does, WorksOf DEF Rest, Idle

LEMMA Utters ==
    ASSUME NEW S, Worked(S), NEW s \in Side, NEW m \in S[s],
           NEW r \in Reaction, Meant(s, m, r), ThenSend(s, m, r)
    PROVE Worked(S)'
<1>1. [at |-> "send", m |-> m, or |-> r] \in WorkOf(S, s)
  BY WorksOf
<1> QED
  BY <1>1, Does DEF ThenSend

\* Most sends are not followed by a pause or a recovery.
LEMMA Plain ==
    /\ {"nothing", "fail", "refuse", "interrupt"} \subseteq Reaction
    /\ \A s, m : \A r \in {"nothing", "fail", "refuse", "interrupt"} : Meant(s, m, r)
  BY DEF Reaction, Meant

LEMMA Reports ==
    ASSUME NEW S, Worked(S), Words(S), NEW s \in Side,
           NEW t \in {"offer", "resume", "reject", "pause", "cancel", "error"},
           NEW r \in {"nothing", "fail", "refuse", "interrupt"},
           ThenSend(s, Just(t), r)
    PROVE Worked(S)'
  BY Utters, Plain DEF Words

LEMMA FailsWork ==
    ASSUME NEW S, Worked(S), Words(S), NEW s \in Side, NEW b, FailTransfer(s, b)
    PROVE Worked(S)'
  BY Rests, Reports DEF FailTransfer

LEMMA Same ==
    ASSUME NEW S, Carried(S)
    PROVE /\ UNCHANGED queue => Queued(S)'
          /\ UNCHANGED worker => Worked(S)'
          /\ UNCHANGED channel => Channeled(S)'
  BY DEF Carried, Queued, Worked, Channeled

LEMMA Transmits ==
    ASSUME NEW S, Channeled(S), NEW s \in Side, NEW m \in S[s],
           channel' = [channel EXCEPT ![s] = Append(@, m)]
    PROVE Channeled(S)'
<1>1. Append(channel[s], m) \in Seq(S[s])
  BY DEF Channeled
<1>2. \A r \in Side : channel'[r] \in Seq(S[r])
  BY <1>1 DEF Channeled
<1> QED
  BY <1>2 DEF Channeled

LEMMA ReactsWork ==
    ASSUME NEW S, Worked(S), Words(S), NEW s \in Side, NEW or, React(s, or),
           or \in Reaction
    PROVE Worked(S)'
<1>1. CASE or \in {"fail", "refuse"}
  BY <1>1, FailsWork DEF React
<1>2. CASE or = "pause"
  BY <1>2, Rests DEF React
<1>3. CASE or = "recover"
  BY <1>3, Rests DEF React
<1>4. CASE or = "interrupt"
  BY <1>4, Rests DEF React
<1>5. CASE or = "nothing"
  BY <1>5, Rests DEF React, Ignore
<1> QED
  BY <1>1, <1>2, <1>3, <1>4, <1>5 DEF Reaction

LEMMA UsersCarry ==
    ASSUME NEW S, Carried(S), Words(S), Heard(S), Files, Users
    PROVE  Carried(S)'
<1>0. /\ "in" \in Side /\ "out" \in Side
      /\ Queued(S) /\ Worked(S) /\ Channeled(S)
  BY Sides DEF Carried
<1>1. CASE SendFile
  <2>1. Queued(S)'
    BY <1>0, <1>1, Posts, TasksOf DEF SendFile
  <2> QED
    BY <1>1, <2>1, Same DEF SendFile, environment, Carried
<1>2. CASE AcceptIncoming
  <2>1. Queued(S)'
    BY <1>0, <1>2, Posts, TasksOf DEF AcceptIncoming
  <2> QED
    BY <1>2, <2>1, Same DEF AcceptIncoming, environment, Carried
<1>3. CASE RejectIncoming
  <2> DEFINE t == [do |-> "send", m |-> Just("reject"), or |-> "nothing"]
  <2>1. t \in TaskOf(S, "in")
    BY <1>0, Plain, TasksOf DEF Words
  <2>2. Post("in", t)
    BY <1>3 DEF RejectIncoming
  <2> HIDE DEF t
  <2>3. Queued(S)'
    BY <1>0, <2>1, <2>2, Posts
  <2> QED
    BY <1>3, <2>3, Same DEF RejectIncoming, environment, Carried
<1>4. ASSUME NEW s \in Side, Cancel(s) PROVE Carried(S)'
  <2> DEFINE m == Just(IF file[s].state = "Transferring" THEN "pause" ELSE "cancel")
             t == [do |-> "stop", m |-> m]
  <2>1. m \in S[s]
    BY DEF Words
  <2>2. t \in TaskOf(S, s)
    <3> HIDE DEF m
    <3> QED BY <2>1, TasksOf
  <2>3. PostPriority(s, t) /\ UNCHANGED <<worker, channel>>
    BY <1>4 DEF Cancel
  <2> HIDE DEF t
  <2>4. Queued(S)'
    BY <1>0, <2>2, <2>3, Posts
  <2> QED
    BY <2>3, <2>4, Same DEF Carried
<1>5. ASSUME NEW s \in Side, Resume(s) PROVE Carried(S)'
  <2> DEFINE m == IF s = "in" THEN Told("accept", file["in"].committed)
                  ELSE Just("resume")
             t == [do |-> "send", m |-> m, or |-> "pause"]
  <2>1. m \in S[s] /\ Meant(s, m, "pause")
    <3>1. CASE s = "in"
      <4>1. file["in"].prepared
        BY <1>5, <3>1 DEF Resume, Files, Receiver, Before
      <4> QED
        BY <3>1, <4>1 DEF Heard, Meant, Told
    <3>2. CASE s # "in"
      BY <3>2 DEF Words, Meant
    <3> QED
      BY <3>1, <3>2
  <2>2. t \in TaskOf(S, s)
    <3> HIDE DEF m
    <3> QED BY <2>1, TasksOf DEF Reaction
  <2>3. Post(s, t) /\ UNCHANGED <<worker, channel>>
    BY <1>5 DEF Resume
  <2> HIDE DEF t
  <2>4. Queued(S)'
    BY <1>0, <2>2, <2>3, Posts
  <2> QED
    BY <2>3, <2>4, Same DEF Carried
<1> QED
  BY <1>1, <1>2, <1>3, <1>4, <1>5 DEF Users

LEMMA ConnectionCarries ==
    ASSUME NEW S, Carried(S), Words(S), Connection
    PROVE  Carried(S)'
<1>0. Queued(S) /\ Worked(S) /\ Channeled(S)
  BY DEF Carried
<1>1. CASE LoseChannel
  <2>1. Channeled(S)'
    BY <1>1 DEF LoseChannel, Channeled
  <2> QED
    BY <1>1, <2>1, Same DEF LoseChannel, Carried
<1>2. CASE OpenChannel
  BY <1>2, Same DEF OpenChannel, Carried
<1>3. ASSUME NEW s \in Side, PeerRecovers(s) PROVE Carried(S)'
  <2>1. Queued(S)'
    <3>1. CASE PostPriority(s, [do |-> "close"])
      BY <1>0, <3>1, Posts, TasksOf
    <3>2. CASE UNCHANGED queue
      BY <3>2, Same
    <3> QED
      BY <1>3, <3>1, <3>2 DEF PeerRecovers
  <2> QED
    BY <1>3, <2>1, Same DEF PeerRecovers, Carried
<1>4. ASSUME NEW s \in Side, PeerAvailable(s) PROVE Carried(S)'
  <2> DEFINE t == [do |-> "send", m |-> Just("resume"), or |-> "interrupt"]
  <2>1. Queued(S)'
    <3>1. CASE Post(s, t)
      <4>1. t \in TaskOf(S, s)
        BY Plain, TasksOf DEF Words
      <4> HIDE DEF t
      <4> QED
        BY <1>0, <3>1, <4>1, Posts
    <3>2. CASE UNCHANGED queue
      BY <3>2, Same
    <3> QED
      BY <1>4, <3>1, <3>2 DEF PeerAvailable
  <2> QED
    BY <1>4, <2>1, Same DEF PeerAvailable, Carried
<1>5. ASSUME NEW s \in Side, PeerGone(s) PROVE Carried(S)'
  <2>1. Queued(S)'
    <3>1. CASE PostPriority(s, [do |-> "remove"])
      BY <1>0, <3>1, Posts, TasksOf
    <3>2. CASE UNCHANGED queue
      BY <3>2, Same
    <3> QED
      BY <1>5, <3>1, <3>2 DEF PeerGone
  <2> QED
    BY <1>5, <2>1, Same DEF PeerGone, Carried
<1> QED
  BY <1>1, <1>2, <1>3, <1>4, <1>5 DEF Connection

LEMMA SharedCarry ==
    ASSUME NEW S, Carried(S), Words(S), NEW s \in Side, Work(s)
    PROVE  Carried(S)'
<1>0. Queued(S) /\ Worked(S) /\ Channeled(S)
  BY DEF Carried
<1>1. CASE SendControl(s)
  <2>0. worker[s].m \in S[s] /\ worker[s].or \in Reaction /\ UNCHANGED queue
    BY <1>0, <1>1, WorkKinds DEF SendControl, Worked
  <2>1. Worked(S)'
    <3>1. CASE FailTransfer(s, FALSE)
      BY <1>0, <3>1, FailsWork
    <3>2. CASE Ignore(s)
      BY <1>0, <3>2, Rests DEF Ignore
    <3>3. CASE React(s, worker[s].or)
      BY <1>0, <2>0, <3>3, ReactsWork
    <3> QED
      BY <1>1, <3>1, <3>2, <3>3 DEF SendControl
  <2>2. Channeled(S)'
    <3>1. CASE channel' = [channel EXCEPT ![s] = Append(@, worker[s].m)]
      BY <1>0, <2>0, <3>1, Transmits
    <3>2. CASE UNCHANGED channel
      BY <3>2, Same
    <3> QED
      BY <1>1, <3>1, <3>2 DEF SendControl
  <2> QED
    BY <2>0, <2>1, <2>2, Same DEF Carried
<1>2. CASE PostedSend(s)
  <2>1. Take(s) /\ UNCHANGED channel
    BY <1>2 DEF PostedSend, TakeTask, environment
  <2>2. Worked(S)'
    BY <1>0, <1>2, <2>1, Takes, Utters DEF PostedSend, TakeTask
  <2> QED
    BY <1>0, <2>1, <2>2, Takes, Same DEF Carried
<1>3. CASE StopTransfer(s)
  <2>1. Take(s) /\ UNCHANGED channel
    BY <1>3 DEF StopTransfer, TakeTask, environment
  <2>2. Worked(S)'
    BY <1>0, <1>3, <2>1, Takes, Utters, Plain DEF StopTransfer, TakeTask
  <2> QED
    BY <1>0, <2>1, <2>2, Takes, Same DEF Carried
<1>4. CASE Tidy(s)
  BY <1>0, <1>4, Takes, Same DEF Tidy, TakeTask, environment, Carried
<1>5. CASE HandleComplete(s)
  <2>1. Take(s) /\ UNCHANGED channel
    BY <1>5 DEF HandleComplete, TakeMessage, TakeTask, environment
  <2>2. Worked(S)'
    <3>1. CASE Rest(s)
      BY <1>0, <3>1, Rests
    <3>2. CASE Do(s, [at |-> "verifying"])
      BY <1>0, <3>2, Does, WorksOf
    <3>3. CASE ProtocolError(s)
      BY <1>0, <3>3, Reports DEF ProtocolError
    <3>4. CASE FailTransfer(s, TRUE)
      BY <1>0, <3>4, FailsWork
    <3> QED
      BY <1>5, <3>1, <3>2, <3>3, <3>4 DEF HandleComplete, Ignore
  <2> QED
    BY <1>0, <2>1, <2>2, Takes, Same DEF Carried
<1>6. CASE HandleCancel(s)
  <2>1. Take(s) /\ UNCHANGED channel /\ Rest(s)
    BY <1>6 DEF HandleCancel, TakeMessage, TakeTask, environment, Ignore
  <2> QED
    BY <1>0, <2>1, Takes, Rests, Same DEF Carried
<1> QED
  BY <1>1, <1>2, <1>3, <1>4, <1>5, <1>6 DEF Work

LEMMA OutgoingCarries ==
    ASSUME NEW S, Carried(S), Words(S), Files, WorkOutgoing
    PROVE  Carried(S)'
<1>0. /\ "out" \in Side /\ file["out"].next \in Offset
      /\ Queued(S) /\ Worked(S) /\ Channeled(S)
  BY Sides DEF Carried, Files, Record
<1>1. CASE Work("out")
  BY <1>0, <1>1, SharedCarry
<1>2. CASE PrepareOutgoing
  <2>1. Take("out") /\ UNCHANGED channel
    BY <1>2 DEF PrepareOutgoing, TakeTask
  <2>2. Worked(S)'
    <3>1. CASE ThenSend("out", Just("offer"), "fail")
      BY <1>0, <3>1, Reports
    <3>2. CASE Rest("out")
      BY <1>0, <3>2, Rests
    <3>3. CASE UNCHANGED worker
      BY <3>3, Same
    <3> QED
      BY <1>2, <3>1, <3>2, <3>3 DEF PrepareOutgoing
  <2> QED
    BY <1>0, <2>1, <2>2, Takes, Same DEF Carried
<1>3. CASE TakePump
  <2>1. Take("out") /\ UNCHANGED channel /\ Do("out", [at |-> "pump"])
    BY <1>3 DEF TakePump, TakeTask, environment
  <2> QED
    BY <1>0, <2>1, Takes, Does, WorksOf, Same DEF Carried
<1>4. CASE RetryPump
  BY <1>0, <1>4, Does, WorksOf, Same DEF RetryPump, Carried
<1>5. CASE StopPump
  BY <1>0, <1>5, Rests, Same DEF StopPump, environment, Carried
<1>6. CASE SendChunk
  <2> DEFINE n == file["out"].next
  <2>0. UNCHANGED queue /\ n < Chunks /\ Told("chunk", n) \in S["out"]
    BY <1>0, <1>6 DEF SendChunk, Words
  <2>1. CASE /\ channel' = [channel EXCEPT !["out"] = Append(@, Told("chunk", n))]
             /\ Do("out", [at |-> "sent", offset |-> n])
    <3>1. Channeled(S)'
      BY <1>0, <2>0, <2>1, Transmits
    <3>2. Worked(S)'
      BY <1>0, <2>1, Does, WorksOf
    <3> QED
      BY <2>0, <3>1, <3>2, Same DEF Carried
  <2>2. CASE UNCHANGED channel /\ TryLater
    BY <1>0, <2>0, <2>2, Rests, Same DEF TryLater, Carried
  <2>3. CASE UNCHANGED channel /\ FailTransfer("out", TRUE)
    BY <1>0, <2>0, <2>3, FailsWork, Same DEF Carried
  <2> QED
    BY <1>6, <2>1, <2>2, <2>3 DEF SendChunk, SendOnce
<1>7. CASE AfterChunk
  <2>0. UNCHANGED channel
    BY <1>7 DEF AfterChunk, environment
  <2>1. CASE Do("out", [at |-> "pump"]) /\ UNCHANGED queue
    BY <1>0, <2>0, <2>1, Does, WorksOf, Same DEF Carried
  <2>2. CASE Rest("out") /\ Post("out", [do |-> "pump"])
    <3>1. Queued(S)'
      BY <1>0, <2>2, Posts, TasksOf
    <3> QED
      BY <1>0, <2>0, <2>2, <3>1, Rests, Same DEF Carried
  <2>3. CASE Rest("out") /\ UNCHANGED queue
    BY <1>0, <2>0, <2>3, Rests, Same DEF Carried
  <2> QED
    BY <1>7, <2>1, <2>2, <2>3 DEF AfterChunk
<1>8. CASE AllSent
  BY <1>0, <1>8, Does, WorksOf, Same DEF AllSent, environment, Carried
<1>9. CASE SendComplete
  <2>0. UNCHANGED queue /\ Just("complete") \in S["out"]
    BY <1>9 DEF SendComplete, Words
  <2>1. CASE /\ channel' = [channel EXCEPT !["out"] = Append(@, Just("complete"))]
             /\ Rest("out")
    <3>1. Channeled(S)'
      BY <1>0, <2>0, <2>1, Transmits
    <3> QED
      BY <1>0, <2>0, <2>1, <3>1, Rests, Same DEF Carried
  <2>2. CASE UNCHANGED channel /\ TryLater
    BY <1>0, <2>0, <2>2, Rests, Same DEF TryLater, Carried
  <2>3. CASE UNCHANGED channel /\ Rest("out")
    BY <1>0, <2>0, <2>3, Rests, Same DEF Carried
  <2>4. CASE UNCHANGED channel /\ FailTransfer("out", TRUE)
    BY <1>0, <2>0, <2>4, FailsWork, Same DEF Carried
  <2> QED
    BY <1>9, <2>1, <2>2, <2>3, <2>4 DEF SendComplete, SendOnce
<1>10. CASE HandleResponse
  <2>1. Take("out") /\ UNCHANGED channel
    BY <1>10 DEF HandleResponse, TakeMessage, TakeTask, environment
  <2>2. Worked(S)'
    <3>1. CASE ProtocolError("out")
      BY <1>0, <3>1, Reports DEF ProtocolError
    <3>2. CASE Rest("out")
      BY <1>0, <3>2, Rests
    <3>3. CASE Do("out", [at |-> "pump"])
      BY <1>0, <3>3, Does, WorksOf
    <3> QED
      BY <1>10, <3>1, <3>2, <3>3 DEF HandleResponse
  <2> QED
    BY <1>0, <2>1, <2>2, Takes, Same DEF Carried
<1>11. CASE HandleProgress
  <2>1. /\ UNCHANGED channel
        /\ queue["out"] # <<>>
        /\ \/ queue' = [queue EXCEPT !["out"] = Tail(@)]
           \/ queue' = [queue EXCEPT !["out"] = Append(Tail(@), [do |-> "pump"])]
    BY <1>11 DEF HandleProgress, environment
  <2>2. Tail(queue["out"]) \in Seq(TaskOf(S, "out"))
    BY <1>0, <2>1 DEF Queued
  <2>3. [do |-> "pump"] \in TaskOf(S, "out")
    BY TasksOf
  <2>4. Append(Tail(queue["out"]), [do |-> "pump"]) \in Seq(TaskOf(S, "out"))
    BY <2>2, <2>3
  <2>5. Queued(S)'
    <3>1. \A s \in Side : queue'[s] \in Seq(TaskOf(S, s))
      BY <1>0, <2>1, <2>2, <2>4 DEF Queued
    <3>2. queue' = [s \in Side |-> queue'[s]]
      BY <1>0, <2>1 DEF Queued
    <3> QED
      BY <3>1, <3>2 DEF Queued
  <2>6. Worked(S)'
    <3>1. CASE ProtocolError("out")
      BY <1>0, <3>1, Reports DEF ProtocolError
    <3>2. CASE Rest("out")
      BY <1>0, <3>2, Rests
    <3> QED
      BY <1>11, <3>1, <3>2 DEF HandleProgress, Ignore
  <2> QED
    BY <2>1, <2>5, <2>6, Same DEF Carried
<1> QED
  BY <1>1, <1>2, <1>3, <1>4, <1>5, <1>6, <1>7, <1>8, <1>9, <1>10, <1>11
     DEF WorkOutgoing

LEMMA IncomingCarries ==
    ASSUME NEW S, Carried(S), Words(S), Heard(S), Heard(S)', Files, Storage,
           WorkIncoming
    PROVE  Carried(S)'
<1>0. /\ "in" \in Side /\ Peer("in") = "out"
      /\ file["in"] \in Record /\ file = [s \in Side |-> file[s]]
      /\ Queued(S) /\ Worked(S) /\ Channeled(S)
  BY Sides DEF Carried, Files, Peer
<1>1. CASE Work("in")
  BY <1>0, <1>1, SharedCarry
<1>2. CASE PrepareIncoming
  <2>1. Take("in") /\ UNCHANGED channel
    BY <1>2 DEF PrepareIncoming, TakeTask
  <2>2. Worked(S)'
    <3>1. CASE /\ file' = [file EXCEPT !["in"].state = "Transferring",
                                       !["in"].prepared = TRUE,
                                       !["in"].committed = 0,
                                       !["in"].backpressured = FALSE]
               /\ ThenSend("in", Told("accept", 0), "fail")
      <4>1. file'["in"].prepared /\ file'["in"].committed = 0
        BY <1>0, <3>1 DEF Record
      <4>2. Told("accept", 0) \in S["in"]
        BY <4>1 DEF Heard
      <4> QED
        BY <1>0, <3>1, <4>2, Utters, Plain
    <3>2. CASE ThenSend("in", Just("reject"), "refuse")
      BY <1>0, <3>2, Reports
    <3>3. CASE UNCHANGED worker
      BY <3>3, Same
    <3> QED
      BY <1>2, <3>1, <3>2, <3>3 DEF PrepareIncoming
  <2> QED
    BY <1>0, <2>1, <2>2, Takes, Same DEF Carried
<1>3. CASE HandleUnknown
  <2>1. Take("in") /\ UNCHANGED channel
    BY <1>3 DEF HandleUnknown, TakeTask, environment
  <2>2. Worked(S)'
    BY <1>0, <1>3, Rests, Reports DEF HandleUnknown, ProtocolError
  <2> QED
    BY <1>0, <2>1, <2>2, Takes, Same DEF Carried
<1>4. CASE HandleResume
  <2>1. Take("in") /\ UNCHANGED channel
    BY <1>4 DEF HandleResume, TakeMessage, TakeTask, environment
  <2>2. Worked(S)'
    <3>1. CASE Received /\ ThenSend("in", Just("complete"), "nothing")
      <4>1. Just("complete") \in S["in"]
        BY <1>0, <3>1 DEF Received, Files, Heard
      <4> QED
        BY <1>0, <3>1, <4>1, Utters, Plain
    <3>2. CASE /\ file["in"].prepared
               /\ \E x \in {"recover", "pause"} :
                      ThenSend("in", Told("accept", file["in"].committed), x)
      <4>1. Told("accept", file["in"].committed) \in S["in"]
        BY <3>2 DEF Heard
      <4>2. \A x \in {"recover", "pause"} :
               x \in Reaction /\ Meant("in", Told("accept", file["in"].committed), x)
        BY DEF Meant, Told, Reaction
      <4> QED
        BY <1>0, <3>2, <4>1, <4>2, Utters
    <3>3. CASE ThenSend("in", Just("error"), "nothing")
      BY <1>0, <3>3, Reports
    <3> QED
      BY <1>4, <3>1, <3>2, <3>3 DEF HandleResume
  <2> QED
    BY <1>0, <2>1, <2>2, Takes, Same DEF Carried
<1>5. CASE HandleChunk
  <2> DEFINE m == Head(queue["in"]).m
  <2>1. /\ Take("in") /\ UNCHANGED channel
        /\ Head(queue["in"]).do = "process" /\ m.type = "chunk"
    BY <1>5 DEF HandleChunk, TakeMessage, TakeTask, environment
  <2>2. m \in S["out"]
    BY <1>0, <2>1, Takes
  <2>3. m \in Message
    BY <2>2, Sides DEF Words
  <2>4. m.offset \in Offset /\ m.offset < Chunks
    <3> HIDE DEF m
    <3> QED BY <2>1, <2>2, <2>3 DEF Words, Message
  <2>5. Offered \in Offset /\ Offered < Chunks
    BY <2>4 DEF Offered
  <2>6. Worked(S)'
    <3>1. CASE Rest("in")
      BY <1>0, <3>1, Rests
    <3>2. CASE Do("in", [at |-> "appending", offset |-> Offered])
      BY <1>0, <3>2, <2>5, Does, WorksOf
    <3>3. CASE FailTransfer("in", TRUE)
      BY <1>0, <3>3, FailsWork
    <3> QED
      BY <1>5, <3>1, <3>2, <3>3 DEF HandleChunk, Ignore
  <2> QED
    BY <1>0, <2>1, <2>6, Takes, Same DEF Carried
<1>6. CASE AppendChunk
  <2> DEFINE n == worker["in"].offset + 1
  <2>1. UNCHANGED <<queue, channel>>
    BY <1>6 DEF AppendChunk
  <2>2. Worked(S)'
    <3>1. CASE Rest("in")
      BY <1>0, <3>1, Rests
    <3>2. CASE /\ file' = [file EXCEPT
                     !["in"] = [@ EXCEPT !.committed = n, !.resyncs = 0,
                                         !.backpressured = FALSE]]
               /\ Appendable(worker["in"].offset)
               /\ ~ IsTerminal(file["in"].state)
               /\ ThenSend("in", Told("progress", n), "nothing")
      <4>1. file'["in"].prepared /\ file'["in"].committed = n
        <5>1. file["in"].prepared
          BY <3>2, Offsets DEF Appendable, Storage
        <5> QED
          BY <1>0, <3>2, <5>1 DEF Record
      <4>2. Told("progress", n) \in S["in"]
        BY <4>1 DEF Heard
      <4> QED
        BY <1>0, <3>2, <4>2, Utters, Plain
    <3>3. CASE FailTransfer("in", TRUE)
      BY <1>0, <3>3, FailsWork
    <3> QED
      BY <1>6, <3>1, <3>2, <3>3 DEF AppendChunk
  <2> QED
    BY <2>1, <2>2, Same DEF Carried
<1>7. CASE VerifyAndCommit
  <2>1. UNCHANGED <<queue, channel>>
    BY <1>7 DEF VerifyAndCommit
  <2>2. Worked(S)'
    <3>1. CASE part = Source /\ final' = part /\ ThenSend("in", Just("complete"), "nothing")
      <4>1. Just("complete") \in S["in"]
        BY <3>1 DEF Heard, Source
      <4> QED
        BY <1>0, <3>1, <4>1, Utters, Plain
    <3>2. CASE Rest("in")
      BY <1>0, <3>2, Rests
    <3>3. CASE ThenSend("in", Just("error"), "nothing")
      BY <1>0, <3>3, Reports
    <3> QED
      BY <1>7, <3>1, <3>2, <3>3 DEF VerifyAndCommit
  <2> QED
    BY <2>1, <2>2, Same DEF Carried
<1> QED
  BY <1>1, <1>2, <1>3, <1>4, <1>5, <1>6, <1>7 DEF WorkIncoming

-----------------------------------------------------------------------------
(* Records and the partial file.                                           *)

\* A record that may take the place of a side's: nothing but the state and the
\* flags differ, and the state fits.
Kept(s, r) ==
    /\ r \in Record
    /\ r.committed = file[s].committed
    /\ r.next = file[s].next
    /\ r.prepared = file[s].prepared
    /\ s = "out" /\ r.state = "AwaitingCompletion" => r.next = Chunks
    /\ s = "in" => Receiver(r)
    /\ r.state = "Completed" => final = Source

\* The partial file is left alone, closed or removed.
Leaves == \/ UNCHANGED <<part, handle>>
          \/ UNCHANGED part /\ handle' = NotOpen
          \/ part' = NoFile /\ handle' = NotOpen

\* What most steps do at most.
Ordinary ==
    /\ \/ UNCHANGED file
       \/ \E s \in Side : \E r \in Record :
              Kept(s, r) /\ file' = [file EXCEPT ![s] = r]
    /\ Leaves
    /\ UNCHANGED final

\* Nothing is sent off and left to count.
NoneSent == worker'["out"] = worker["out"] \/ worker'["out"].at # "sent"

LEMMA NoFileOdd == /\ NoFile # <<>> /\ NoFile # Source
                   /\ Source = Start(Chunks) /\ <<>> = Start(0)
                   /\ \A n \in Offset : Start(n) # NoFile
<1>1. Chunks \in Nat
  BY Offsets
<1>2. \A n \in Offset : Start(n) # NoFile
  <2> SUFFICES ASSUME NEW n \in Offset, Start(n) = NoFile PROVE FALSE
    OBVIOUS
  <2>1. n \in Nat /\ n <= Chunks
    BY Offsets
  <2>2. DOMAIN Start(n) = 1 .. n /\ DOMAIN NoFile = 1 .. 1
    BY DEF Start, NoFile
  <2>3. n = 1
    <3>1. 1 .. n = 1 .. 1
      BY <2>2
    <3> QED
      BY <2>1, <3>1
  <2>4. Start(n)[1] = 0 /\ NoFile[1] = Chunks
    BY <2>3 DEF Start, NoFile
  <2> QED
    BY <1>1, <2>1, <2>3, <2>4
<1>3. Source = Start(Chunks)
  BY DEF Source, Start
<1>4. <<>> = Start(0)
  BY DEF Start
<1> QED
  BY <1>2, <1>3, <1>4, Offsets

LEMMA FilesKept ==
    ASSUME Files, NEW s \in Side, NEW r \in Record, Kept(s, r),
           file' = [file EXCEPT ![s] = r], UNCHANGED final
    PROVE  /\ Files'
           /\ file'["in"].prepared = file["in"].prepared
           /\ \A q \in Side : /\ file'[q].committed = file[q].committed
                              /\ file'[q].next = file[q].next
<1>1. file' \in [Side -> Record]
  BY DEF Files
<1>2. \A q \in Side : file'[q] = IF q = s THEN r ELSE file[q]
  BY DEF Files
<1>3. \A q \in Side : /\ file'[q].committed = file[q].committed
                      /\ file'[q].next = file[q].next
                      /\ file'[q].prepared = file[q].prepared
  BY <1>2 DEF Kept
<1>4. Sender(file["out"])'
  <2>1. CASE s = "out"
    BY <1>2, <2>1, Sides DEF Files, Sender, Kept
  <2>2. CASE s # "out"
    BY <1>2, <2>2, Sides DEF Files, Sender
  <2> QED
    BY <2>1, <2>2
<1>5. Receiver(file["in"])'
  <2>1. CASE s = "in"
    BY <1>2, <2>1, Sides DEF Receiver, Kept
  <2>2. CASE s # "in"
    BY <1>2, <2>2, Sides DEF Files, Receiver
  <2> QED
    BY <2>1, <2>2
<1>6. \A q \in Side : file'[q].state = "Completed" => final' = Source
  BY <1>2 DEF Files, Kept
<1> QED
  BY <1>1, <1>3, <1>4, <1>5, <1>6, Sides DEF Files, Source

LEMMA OrdinaryKeeps ==
    ASSUME Files, Storage, Ordinary
    PROVE  /\ Files' /\ Storage' /\ Grown
           /\ file'["out"].committed = file["out"].committed
           /\ file'["out"].next = file["out"].next
<1>1. /\ Files'
      /\ file'["in"].prepared = file["in"].prepared
      /\ \A q \in Side : /\ file'[q].committed = file[q].committed
                         /\ file'[q].next = file[q].next
  <2>1. CASE UNCHANGED file
    BY <2>1 DEF Ordinary, Files, Source
  <2>2. ASSUME NEW s \in Side, NEW r \in Record, Kept(s, r),
               file' = [file EXCEPT ![s] = r]
        PROVE  /\ Files'
               /\ file'["in"].prepared = file["in"].prepared
               /\ \A q \in Side : /\ file'[q].committed = file[q].committed
                                  /\ file'[q].next = file[q].next
    BY <2>2, FilesKept DEF Ordinary
  <2> QED
    BY <2>1, <2>2 DEF Ordinary
<1>2. Storage'
  <2>0. UNCHANGED final
    BY DEF Ordinary
  <2>1. CASE UNCHANGED <<part, handle>>
    BY <1>1, <2>0, <2>1, Sides DEF Storage, Source, Start
  <2>2. CASE UNCHANGED part /\ handle' = NotOpen
    BY <1>1, <2>0, <2>2, Sides DEF Storage, Source, Start
  <2>3. CASE part' = NoFile /\ handle' = NotOpen
    BY <1>1, <2>0, <2>3, Sides DEF Storage, Source
  <2> QED
    BY <2>1, <2>2, <2>3 DEF Ordinary, Leaves
<1>3. Grown
  <2>1. part # NoFile => Len(part) \in Nat
    BY Offsets DEF Storage
  <2> QED
    BY <1>1, <2>1 DEF Grown, Ordinary, Leaves
<1> QED
  BY <1>1, <1>2, <1>3, Sides

LEMMA SentKept ==
    ASSUME Sent, NoneSent, file'["out"].committed = file["out"].committed,
           file'["out"].next = file["out"].next
    PROVE  Sent'
  BY DEF Sent, NoneSent

LEMMA NoneSents ==
    ASSUME NEW S, Worked(S), NEW s \in Side, NEW w, w.at # "sent", Do(s, w)
    PROVE  NoneSent
  BY Sides DEF Worked, Do, NoneSent

LEMMA Quiets ==
    ASSUME NEW S, Worked(S), NEW s \in Side
    PROVE  /\ Rest(s) => NoneSent
           /\ \A m, r : ThenSend(s, m, r) => NoneSent
           /\ \A b : FailTransfer(s, b) => NoneSent
           /\ ProtocolError(s) => NoneSent
           /\ Ignore(s) => NoneSent
           /\ UNCHANGED worker => NoneSent
<1>1. Rest(s) => NoneSent
  BY NoneSents DEF Rest, Idle
<1>2. \A m, r : ThenSend(s, m, r) => NoneSent
  BY NoneSents DEF ThenSend
<1> QED
  BY <1>1, <1>2 DEF FailTransfer, ProtocolError, Ignore, NoneSent

\* The states a side may be set to.
Fits(s, x) ==
    /\ x \in State
    /\ s = "out" /\ x = "AwaitingCompletion" => file[s].next = Chunks
    /\ s = "in" => IF file[s].prepared THEN x \notin Before
                   ELSE x \in Before \union {"Rejected", "Canceled", "Failed"}
    /\ x = "Completed" => final = Source

LEMMA StateKept ==
    ASSUME Files, NEW s \in Side, NEW x, Fits(s, x), SetState(s, x), UNCHANGED final,
           Leaves
    PROVE  Ordinary
<1> DEFINE r == [file[s] EXCEPT !.state = x]
<1>1. file[s] \in Record
  BY DEF Files
<1>2. /\ r \in Record /\ r.state = x
      /\ r.committed = file[s].committed /\ r.next = file[s].next
      /\ r.prepared = file[s].prepared
  BY <1>1 DEF Record, Fits
<1>3. file' = [file EXCEPT ![s] = r]
  BY DEF SetState
<1> HIDE DEF r
<1>4. Kept(s, r)
  BY <1>2 DEF Kept, Fits, Receiver
<1> QED
  BY <1>2, <1>3, <1>4 DEF Ordinary

LEMMA EndsFit ==
    ASSUME Files, NEW s \in Side
    PROVE  /\ Fits(s, "Failed") /\ Fits(s, "Canceled") /\ Fits(s, "Rejected")
           /\ s = "out" \/ file[s].prepared => Fits(s, "Paused") /\ Fits(s, "Recovering")
  BY DEF Fits, State, Finished, Before

LEMMA Removals ==
    ASSUME NEW s
    PROVE  /\ RemovePartial(s) => Leaves
           /\ CloseDestination(s) => Leaves
           /\ KeepPartial => Leaves
  BY DEF RemovePartial, CloseDestination, KeepPartial, Leaves

LEMMA FailsOrdinarily ==
    ASSUME Files, NEW s \in Side, NEW b, FailTransfer(s, b), UNCHANGED final
    PROVE  Ordinary
<1>1. CASE IsTerminal(file[s].state)
  BY <1>1 DEF FailTransfer, KeepPartial, Ordinary, Leaves
<1>2. CASE ~ IsTerminal(file[s].state)
  BY <1>2, StateKept, EndsFit, Removals DEF FailTransfer
<1> QED
  BY <1>1, <1>2

-----------------------------------------------------------------------------
(* Steps and the records.                                                  *)

Safe == Files /\ Storage /\ Sent

LEMMA OrdinarySafe ==
    ASSUME Safe, Ordinary, NoneSent
    PROVE  Safe' /\ Grown
  BY OrdinaryKeeps, SentKept DEF Safe

LEMMA UsersSafe == ASSUME Safe, Users PROVE Safe' /\ Grown
<1>0. "in" \in Side /\ "out" \in Side /\ Files
  BY Sides DEF Safe
<1>1. CASE SendFile
  <2>1. Fits("out", "Preparing")
    BY DEF Fits, State, Finished
  <2> QED
    BY <1>0, <1>1, <2>1, StateKept, OrdinarySafe
       DEF SendFile, environment, Leaves, NoneSent
<1>2. CASE AcceptIncoming
  <2>1. Fits("in", "Preparing")
    BY <1>0, <1>2 DEF AcceptIncoming, Fits, State, Finished, Files, Receiver, Before
  <2> QED
    BY <1>0, <1>2, <2>1, StateKept, OrdinarySafe
       DEF AcceptIncoming, environment, Leaves, NoneSent
<1>3. CASE RejectIncoming
  BY <1>0, <1>3, EndsFit, StateKept, OrdinarySafe
     DEF RejectIncoming, environment, Leaves, NoneSent
<1>4. ASSUME NEW s \in Side, Cancel(s) PROVE Safe' /\ Grown
  <2> DEFINE x == IF file[s].state = "Transferring" THEN "Paused" ELSE "Canceled"
  <2>1. SetState(s, x) /\ UNCHANGED <<part, handle, final, worker>>
    BY <1>4 DEF Cancel
  <2>2. Fits(s, x)
    <3>1. CASE file[s].state = "Transferring"
      <4>1. s = "out" \/ file[s].prepared
        BY <1>0, <3>1 DEF Side, Files, Receiver, Before
      <4> QED
        BY <1>0, <3>1, <4>1, EndsFit
    <3>2. CASE file[s].state # "Transferring"
      BY <1>0, <3>2, EndsFit
    <3> QED
      BY <3>1, <3>2
  <2> HIDE DEF x
  <2>3. Ordinary
    BY <1>0, <2>1, <2>2, StateKept DEF Leaves
  <2> QED
    BY <2>1, <2>3, OrdinarySafe DEF NoneSent
<1>5. ASSUME NEW s \in Side, Resume(s) PROVE Safe' /\ Grown
  <2> DEFINE r == [file[s] EXCEPT
                     !.state = IF s = "in" THEN "Transferring" ELSE "Resuming",
                     !.backpressured = FALSE]
  <2>1. file[s] \in Record
    BY <1>0 DEF Files
  <2>2. /\ file' = [file EXCEPT ![s] = r]
        /\ UNCHANGED <<part, handle, final, worker>>
    BY <1>5 DEF Resume
  <2>3. /\ r \in Record /\ r.committed = file[s].committed
        /\ r.next = file[s].next /\ r.prepared = file[s].prepared
        /\ r.state \in {"Transferring", "Resuming"}
    BY <2>1 DEF Record, State
  <2>4. s = "in" => file[s].prepared
    BY <1>0, <1>5 DEF Resume, Files, Receiver, Before
  <2> HIDE DEF r
  <2>5. Kept(s, r)
    BY <2>3, <2>4 DEF Kept, Receiver, Before
  <2> QED
    BY <2>2, <2>3, <2>5, OrdinarySafe DEF Ordinary, Leaves, NoneSent
<1> QED
  BY <1>1, <1>2, <1>3, <1>4, <1>5 DEF Users

LEMMA ConnectionSafe == ASSUME Safe, Connection PROVE Safe' /\ Grown
<1>0. Files
  BY DEF Safe
<1>1. CASE LoseChannel
  BY <1>1, OrdinarySafe DEF LoseChannel, Ordinary, Leaves, NoneSent
<1>2. CASE OpenChannel
  BY <1>2, OrdinarySafe DEF OpenChannel, Ordinary, Leaves, NoneSent
<1>3. ASSUME NEW s \in Side, PeerRecovers(s) PROVE Safe' /\ Grown
  <2>0. UNCHANGED <<part, handle, final, worker>>
    BY <1>3 DEF PeerRecovers
  <2>1. CASE file[s].state \in {"Transferring", "Resuming", "AwaitingCompletion"}
    <3> DEFINE r == [file[s] EXCEPT !.state = "Recovering", !.interrupted = TRUE]
    <3>1. file[s] \in Record
      BY <1>0 DEF Files
    <3>2. file' = [file EXCEPT ![s] = r]
      BY <1>3, <2>1 DEF PeerRecovers
    <3>3. /\ r \in Record /\ r.committed = file[s].committed
          /\ r.next = file[s].next /\ r.prepared = file[s].prepared
          /\ r.state = "Recovering"
      BY <3>1 DEF Record, State
    <3>4. s = "in" => file[s].prepared
      BY <1>0, <2>1 DEF Files, Receiver, Before
    <3> HIDE DEF r
    <3>5. Kept(s, r)
      BY <3>3, <3>4 DEF Kept, Receiver, Before
    <3> QED
      BY <2>0, <3>2, <3>3, <3>5, OrdinarySafe DEF Ordinary, Leaves, NoneSent
  <2>2. CASE file[s].state \notin {"Transferring", "Resuming", "AwaitingCompletion"}
    BY <1>3, <2>0, <2>2, OrdinarySafe DEF PeerRecovers, Ordinary, Leaves, NoneSent
  <2> QED
    BY <2>1, <2>2
<1>4. ASSUME NEW s \in Side, PeerAvailable(s) PROVE Safe' /\ Grown
  <2>0. UNCHANGED <<part, handle, final, worker>>
    BY <1>4 DEF PeerAvailable
  <2>1. CASE UNCHANGED file
    BY <2>0, <2>1, OrdinarySafe DEF Ordinary, Leaves, NoneSent
  <2>2. CASE s = "out" /\ file' = [file EXCEPT ![s].state = "Resuming",
                                               ![s].interrupted = FALSE]
    <3> DEFINE r == [file[s] EXCEPT !.state = "Resuming", !.interrupted = FALSE]
    <3>1. file[s] \in Record
      BY <1>0 DEF Files
    <3>2. file' = [file EXCEPT ![s] = r]
      BY <2>2
    <3>3. /\ r \in Record /\ r.committed = file[s].committed
          /\ r.next = file[s].next /\ r.prepared = file[s].prepared
          /\ r.state = "Resuming"
      BY <3>1 DEF Record, State
    <3> HIDE DEF r
    <3>5. Kept(s, r)
      BY <2>2, <3>3 DEF Kept
    <3> QED
      BY <2>0, <3>2, <3>3, <3>5, OrdinarySafe DEF Ordinary, Leaves, NoneSent
  <2> QED
    BY <1>4, <2>1, <2>2 DEF PeerAvailable
<1>5. ASSUME NEW s \in Side, PeerGone(s) PROVE Safe' /\ Grown
  <2>0. UNCHANGED <<part, handle, final, worker>>
    BY <1>5 DEF PeerGone
  <2>1. CASE UNCHANGED file
    BY <2>0, <2>1, OrdinarySafe DEF Ordinary, Leaves, NoneSent
  <2>2. CASE SetState(s, "Failed")
    BY <1>0, <2>0, <2>2, EndsFit, StateKept, OrdinarySafe DEF Leaves, NoneSent
  <2> QED
    BY <1>5, <2>1, <2>2 DEF PeerGone
<1> QED
  BY <1>1, <1>2, <1>3, <1>4, <1>5 DEF Connection

LEMMA ReactsOrdinarily ==
    ASSUME Files, NEW s \in Side, NEW or \in Reaction, React(s, or), UNCHANGED final,
           s = "in" /\ or \in {"pause", "recover"} => file["in"].prepared
    PROVE  Ordinary
<1>1. CASE or \in {"fail", "refuse"}
  BY <1>1, FailsOrdinarily DEF React
<1>2. CASE or = "pause"
  <2>1. Fits(s, "Paused")
    BY <1>2, EndsFit, Sides
  <2> QED
    BY <1>2, <2>1, StateKept, Removals DEF React
<1>3. CASE or = "recover"
  <2>1. Fits(s, "Recovering")
    BY <1>3, EndsFit, Sides
  <2> QED
    BY <1>3, <2>1, StateKept, Removals DEF React
<1>4. CASE or = "interrupt"
  <2> DEFINE b == file[s].interrupted \/ file[s].state = "Resuming"
             r == [file[s] EXCEPT !.interrupted = b]
  <2>1. file[s] \in Record /\ b \in BOOLEAN
    BY DEF Files, Record
  <2>2. file' = [file EXCEPT ![s] = r] /\ UNCHANGED <<part, handle>>
    BY <1>4 DEF React, KeepPartial
  <2> HIDE DEF b
  <2>3. /\ r \in Record /\ r.committed = file[s].committed
        /\ r.next = file[s].next /\ r.prepared = file[s].prepared
        /\ r.state = file[s].state
    BY <2>1 DEF Record
  <2> HIDE DEF r
  <2>4. Kept(s, r)
    BY <2>3 DEF Kept, Files, Sender, Receiver
  <2> QED
    BY <2>2, <2>3, <2>4 DEF Ordinary, Leaves
<1>5. CASE or = "nothing"
  BY <1>5 DEF React, Ignore, KeepPartial, Ordinary, Leaves
<1> QED
  BY <1>1, <1>2, <1>3, <1>4, <1>5 DEF Reaction

LEMMA ReactsQuietly ==
    ASSUME NEW S, Worked(S), NEW s \in Side, NEW or \in Reaction, React(s, or)
    PROVE  NoneSent
<1>1. CASE or \in {"fail", "refuse"}
  BY <1>1, Quiets DEF React
<1>2. CASE or = "pause"
  BY <1>2, Quiets DEF React
<1>3. CASE or = "recover"
  BY <1>3, Quiets DEF React
<1>4. CASE or = "interrupt"
  BY <1>4, Quiets DEF React
<1>5. CASE or = "nothing"
  BY <1>5, Quiets DEF React
<1> QED
  BY <1>1, <1>2, <1>3, <1>4, <1>5 DEF Reaction

\* What a message of the peer says is so.
LEMMA Honest ==
    ASSUME Carried(Sayable), NEW s \in Side, Take(s),
           Head(queue[s]).do = "process"
    PROVE  LET m == Head(queue[s]).m
           IN  /\ m \in Message
               /\ s = "out" /\ m.type = "complete" => final = Source
               /\ s = "out" /\ m.type \in {"accept", "progress"} =>
                      /\ file["in"].prepared
                      /\ part # NoFile => m.offset <= Len(part)
<1> DEFINE m == Head(queue[s]).m
<1>1. m \in Sayable[Peer(s)]
  BY Takes DEF Carried
<1> HIDE DEF m
<1>2. m \in Message
  BY <1>1, SayableTypes, Sides DEF Words
<1>3. s = "out" =>
         /\ m.type = "complete" => final = Source
         /\ m.type \in {"accept", "progress"} =>
                file["in"].prepared /\ (part # NoFile => m.offset <= Len(part))
  BY <1>1, Sides DEF Sayable, Peer
<1> QED
  BY <1>2, <1>3 DEF m

LEMMA SharedSafe ==
    ASSUME Safe, Carried(Sayable), NEW s \in Side, Work(s)
    PROVE  Safe' /\ Grown
<1>0. Files /\ Queued(Sayable) /\ Worked(Sayable)
  BY DEF Safe, Carried
<1>1. CASE SendControl(s)
  <2> DEFINE or == worker[s].or
  <2>0. /\ worker[s].m \in Sayable[s] /\ or \in Reaction
        /\ Meant(s, worker[s].m, or)
    BY <1>0, <1>1, WorkKinds DEF SendControl, Worked
  <2>1. UNCHANGED final
    BY <1>1 DEF SendControl
  <2>2. s = "in" /\ or \in {"pause", "recover"} => file["in"].prepared
    BY <2>0, Sides DEF Meant, Sayable
  <2> HIDE DEF or
  <2>3. CASE FailTransfer(s, FALSE)
    BY <1>0, <2>1, <2>3, FailsOrdinarily, Quiets, OrdinarySafe
  <2>4. CASE Ignore(s)
    BY <1>0, <2>1, <2>4, Quiets, OrdinarySafe DEF Ignore, KeepPartial, Ordinary, Leaves
  <2>5. CASE React(s, or)
    BY <1>0, <2>0, <2>1, <2>2, <2>5, ReactsOrdinarily, ReactsQuietly, OrdinarySafe
  <2> QED
    BY <1>1, <2>3, <2>4, <2>5 DEF SendControl, or
<1>2. CASE PostedSend(s)
  <2>1. NoneSent
    BY <1>0, <1>2, Quiets DEF PostedSend
  <2> QED
    BY <1>2, <2>1, OrdinarySafe DEF PostedSend, environment, Ordinary, Leaves
<1>3. CASE StopTransfer(s)
  <2>1. NoneSent
    BY <1>0, <1>3, Quiets DEF StopTransfer
  <2>2. Leaves
    BY <1>3, Removals DEF StopTransfer
  <2> QED
    BY <1>3, <2>1, <2>2, OrdinarySafe DEF StopTransfer, environment, Ordinary
<1>4. CASE Tidy(s)
  <2>1. Leaves
    BY <1>4, Removals DEF Tidy
  <2> QED
    BY <1>4, <2>1, OrdinarySafe DEF Tidy, environment, Ordinary, NoneSent
<1>5. CASE HandleComplete(s)
  <2>1. /\ Take(s) /\ UNCHANGED final
        /\ Head(queue[s]).do = "process"
        /\ Head(queue[s]).m.type = "complete"
    BY <1>5 DEF HandleComplete, TakeMessage, TakeTask, environment
  <2>2. CASE Ignore(s)
    BY <1>0, <2>1, <2>2, Quiets, OrdinarySafe DEF Ignore, KeepPartial, Ordinary, Leaves
  <2>3. CASE s = "out" /\ SetState(s, "Completed") /\ Rest(s) /\ KeepPartial
    <3>1. final = Source
      BY <2>1, <2>3, Honest
    <3>2. Fits(s, "Completed")
      BY <2>3, <3>1 DEF Fits, State, Finished
    <3> QED
      BY <1>0, <2>1, <2>3, <3>2, StateKept, Removals, Quiets, OrdinarySafe
  <2>4. CASE /\ s = "in" /\ file[s].state = "Transferring"
             /\ SetState(s, "Verifying") /\ Do(s, [at |-> "verifying"])
             /\ KeepPartial
    <3>1. Fits(s, "Verifying")
      BY <1>0, <2>4 DEF Files, Receiver, Before, Fits, State, Finished
    <3>2. NoneSent
      BY <1>0, <2>4, NoneSents
    <3> QED
      BY <1>0, <2>1, <2>4, <3>1, <3>2, StateKept, Removals, OrdinarySafe
  <2>5. CASE ProtocolError(s)
    BY <1>0, <2>1, <2>5, Quiets, OrdinarySafe
       DEF ProtocolError, KeepPartial, Ordinary, Leaves
  <2>6. CASE FailTransfer(s, TRUE)
    BY <1>0, <2>1, <2>6, FailsOrdinarily, Quiets, OrdinarySafe
  <2> QED
    BY <1>5, <2>2, <2>3, <2>4, <2>5, <2>6 DEF HandleComplete
<1>6. CASE HandleCancel(s)
  <2>1. UNCHANGED final /\ Rest(s)
    BY <1>6 DEF HandleCancel, environment, Ignore
  <2>2. CASE KeepPartial /\ UNCHANGED file
    BY <1>0, <2>1, <2>2, Quiets, OrdinarySafe DEF KeepPartial, Ordinary, Leaves
  <2>3. CASE /\ s = "out" \/ file["in"].prepared
             /\ SetState(s, "Paused") /\ CloseDestination(s)
    <3>1. Fits(s, "Paused")
      BY <1>0, <2>3, EndsFit, Sides
    <3> QED
      BY <1>0, <2>1, <2>3, <3>1, StateKept, Removals, Quiets, OrdinarySafe
  <2>4. CASE /\ \E x \in {"Failed", "Canceled"} : SetState(s, x)
             /\ RemovePartial(s)
    BY <1>0, <2>1, <2>4, EndsFit, StateKept, Removals, Quiets, OrdinarySafe
  <2> QED
    BY <1>6, <2>2, <2>3, <2>4 DEF HandleCancel, Ignore
<1> QED
  BY <1>1, <1>2, <1>3, <1>4, <1>5, <1>6 DEF Work

LEMMA RetriesQuietly ==
    ASSUME Safe, Carried(Sayable), TryLater, UNCHANGED <<part, handle, final>>
    PROVE  Safe' /\ Grown
<1> DEFINE r == [file["out"] EXCEPT !.backpressured = TRUE]
<1>1. "out" \in Side /\ file["out"] \in Record /\ Worked(Sayable)
  BY Sides DEF Safe, Files, Carried
<1>2. file' = [file EXCEPT !["out"] = r] /\ Rest("out")
  BY DEF TryLater
<1>3. /\ r \in Record /\ r.committed = file["out"].committed
      /\ r.next = file["out"].next /\ r.prepared = file["out"].prepared
      /\ r.state = file["out"].state
  BY <1>1 DEF Record
<1> HIDE DEF r
<1>4. Kept("out", r)
  BY <1>1, <1>3 DEF Kept, Safe, Files, Sender
<1> QED
  BY <1>1, <1>2, <1>3, <1>4, Quiets, OrdinarySafe DEF Ordinary, Leaves

\* The steps that change an offset of the sender leave the partial file alone.
LEMMA SenderMoves ==
    ASSUME Safe, NEW r \in Record, Sender(r), r.state # "Completed",
           file' = [file EXCEPT !["out"] = r],
           ~ file["in"].prepared => r.committed = 0,
           part # NoFile => r.committed <= Len(part),
           UNCHANGED <<part, handle, final>>
    PROVE  Files' /\ Storage' /\ Grown
<1>1. file' \in [Side -> Record]
  BY DEF Safe, Files
<1>2. file'["out"] = r /\ file'["in"] = file["in"]
  BY Sides DEF Safe, Files
<1>3. Files'
  BY <1>1, <1>2, Sides DEF Safe, Files, Receiver, Sender, Source
<1>4. Storage'
  <2>1. \A s \in Side : part' # NoFile => file'[s].committed <= Len(part')
    BY <1>2, Sides DEF Safe, Storage
  <2> QED
    BY <1>2, <2>1 DEF Safe, Storage, Source, Start
<1>5. Grown
  <2>1. part # NoFile => Len(part) \in Nat
    BY Offsets DEF Safe, Storage
  <2> QED
    BY <1>2, <2>1 DEF Grown
<1> QED
  BY <1>3, <1>4, <1>5

LEMMA OutgoingSafe ==
    ASSUME Safe, Carried(Sayable), WorkOutgoing
    PROVE  Safe' /\ Grown
<1>0. /\ "out" \in Side /\ file["out"] \in Record /\ Sender(file["out"])
      /\ Files /\ Queued(Sayable) /\ Worked(Sayable)
      /\ file["out"].next \in Nat /\ file["out"].committed \in Nat
  BY Sides, Offsets DEF Safe, Carried, Files, Record
<1>1. CASE Work("out")
  BY <1>0, <1>1, SharedSafe
<1>2. CASE PrepareOutgoing
  <2>1. UNCHANGED <<part, handle, final>>
    BY <1>2 DEF PrepareOutgoing
  <2>2. CASE /\ SetState("out", "AwaitingPeerAcceptance")
             /\ ThenSend("out", Just("offer"), "fail")
    <3>1. Fits("out", "AwaitingPeerAcceptance")
      BY DEF Fits, State, Finished
    <3> QED
      BY <1>0, <2>1, <2>2, <3>1, StateKept, Quiets, OrdinarySafe DEF Leaves
  <2>3. CASE SetState("out", "Failed") /\ Rest("out")
    BY <1>0, <2>1, <2>3, EndsFit, StateKept, Quiets, OrdinarySafe DEF Leaves
  <2>4. CASE UNCHANGED <<file, worker>>
    BY <2>1, <2>4, OrdinarySafe DEF Ordinary, Leaves, NoneSent
  <2> QED
    BY <1>2, <2>2, <2>3, <2>4 DEF PrepareOutgoing
<1>3. CASE TakePump
  <2>1. NoneSent
    BY <1>0, <1>3, NoneSents DEF TakePump
  <2> QED
    BY <1>3, <2>1, OrdinarySafe DEF TakePump, environment, Ordinary, Leaves
<1>4. CASE RetryPump
  <2>1. NoneSent
    BY <1>0, <1>4, NoneSents DEF RetryPump
  <2> QED
    BY <1>4, <2>1, OrdinarySafe DEF RetryPump, Ordinary, Leaves
<1>5. CASE StopPump
  <2>1. NoneSent
    BY <1>0, <1>5, Quiets DEF StopPump
  <2> QED
    BY <1>5, <2>1, OrdinarySafe DEF StopPump, environment, Ordinary, Leaves
<1>6. CASE SendChunk
  <2>0. /\ UNCHANGED final
        /\ file["out"].next < Chunks
        /\ file["out"].next < file["out"].committed + Window
    <3>1. file["out"].state = "Transferring"
      BY <1>0, <1>6, Offsets DEF SendChunk, Pumps, Sender
    <3> QED
      BY <1>0, <1>6, <3>1, Offsets DEF SendChunk, Pumps, WindowFull, Sender
  <2>1. CASE /\ Do("out", [at |-> "sent", offset |-> file["out"].next])
             /\ UNCHANGED file /\ KeepPartial
    <3>1. Files' /\ Storage' /\ Grown
      BY <2>0, <2>1, OrdinaryKeeps DEF Safe, KeepPartial, Ordinary, Leaves
    <3>2. worker'["out"] = [at |-> "sent", offset |-> file["out"].next]
      BY <1>0, <2>1 DEF Do, Worked
    <3> QED
      BY <2>0, <2>1, <3>1, <3>2 DEF Safe, Sent
  <2>2. CASE TryLater /\ KeepPartial
    BY <2>0, <2>2, RetriesQuietly DEF KeepPartial
  <2>3. CASE FailTransfer("out", TRUE)
    BY <1>0, <2>0, <2>3, FailsOrdinarily, Quiets, OrdinarySafe
  <2> QED
    BY <1>6, <2>1, <2>2, <2>3 DEF SendChunk, SendOnce
<1>7. CASE AfterChunk
  <2>0. UNCHANGED <<part, handle, final>>
    BY <1>7 DEF AfterChunk, environment
  <2>1. NoneSent
    BY <1>0, <1>7, NoneSents, Quiets DEF AfterChunk
  <2>2. CASE UNCHANGED file
    BY <2>0, <2>1, <2>2, OrdinarySafe DEF Ordinary, Leaves
  <2>3. CASE /\ file["out"].state = "Transferring"
             /\ file' = [file EXCEPT !["out"] = ChunkSent(@)]
    <3> DEFINE n == file["out"].next + 1
               r == [file["out"] EXCEPT !.next = n, !.backpressured = FALSE]
    <3>1. /\ worker["out"].at = "sent"
          /\ file["out"].next < Chunks
          /\ file["out"].next < file["out"].committed + Window
      BY <1>7 DEF AfterChunk, Safe, Sent
    <3>2. n \in Offset /\ file["out"].committed <= n /\ n <= file["out"].committed + Window
      BY <1>0, <3>1, Offsets DEF Sender
    <3>3. file' = [file EXCEPT !["out"] = r]
      BY <2>3 DEF ChunkSent
    <3>4. worker'["out"].at # "sent"
      <4>1. CASE Do("out", [at |-> "pump"])
        BY <1>0, <4>1 DEF Do, Worked
      <4>2. CASE Rest("out")
        BY <1>0, <4>2 DEF Rest, Idle, Do, Worked
      <4> QED
        BY <1>7, <4>1, <4>2 DEF AfterChunk
    <3> HIDE DEF n
    <3>5. /\ r \in Record /\ r.state = "Transferring" /\ r.next = n
          /\ r.committed = file["out"].committed
      BY <1>0, <2>3, <3>2 DEF Record
    <3> HIDE DEF r
    <3>6. Sender(r)
      BY <3>2, <3>5 DEF Sender
    <3>7. /\ ~ file["in"].prepared => r.committed = 0
          /\ part # NoFile => r.committed <= Len(part)
      BY <3>5, Sides DEF Safe, Storage
    <3>8. Files' /\ Storage' /\ Grown
      BY <2>0, <3>3, <3>5, <3>6, <3>7, SenderMoves
    <3> QED
      BY <3>4, <3>8 DEF Safe, Sent
  <2> QED
    BY <1>7, <2>2, <2>3 DEF AfterChunk
<1>8. CASE AllSent
  <2>1. Fits("out", "AwaitingCompletion")
    BY <1>8 DEF AllSent, Fits, State, Finished
  <2>2. NoneSent
    BY <1>0, <1>8, NoneSents DEF AllSent
  <2> QED
    BY <1>0, <1>8, <2>1, <2>2, StateKept, OrdinarySafe DEF AllSent, environment, Leaves
<1>9. CASE SendComplete
  <2>0. UNCHANGED final
    BY <1>9 DEF SendComplete
  <2>1. CASE /\ Rest("out") /\ KeepPartial
             /\ file' = [file EXCEPT !["out"].backpressured = FALSE]
    <3> DEFINE r == [file["out"] EXCEPT !.backpressured = FALSE]
    <3>1. file' = [file EXCEPT !["out"] = r]
      BY <2>1
    <3>2. /\ r \in Record /\ r.committed = file["out"].committed
          /\ r.next = file["out"].next /\ r.prepared = file["out"].prepared
          /\ r.state = file["out"].state
      BY <1>0 DEF Record
    <3> HIDE DEF r
    <3>3. Kept("out", r)
      BY <1>0, <3>2 DEF Kept, Files, Sender
    <3> QED
      BY <1>0, <2>0, <2>1, <3>1, <3>2, <3>3, Quiets, OrdinarySafe
         DEF KeepPartial, Ordinary, Leaves
  <2>2. CASE TryLater /\ KeepPartial
    BY <2>0, <2>2, RetriesQuietly DEF KeepPartial
  <2>3. CASE Rest("out") /\ UNCHANGED file /\ KeepPartial
    BY <1>0, <2>0, <2>3, Quiets, OrdinarySafe DEF KeepPartial, Ordinary, Leaves
  <2>4. CASE FailTransfer("out", TRUE)
    BY <1>0, <2>0, <2>4, FailsOrdinarily, Quiets, OrdinarySafe
  <2> QED
    BY <1>9, <2>1, <2>2, <2>3, <2>4 DEF SendComplete, SendOnce
<1>10. CASE HandleResponse
  <2>1. /\ Take("out") /\ UNCHANGED final
        /\ Head(queue["out"]).do = "process"
    BY <1>10 DEF HandleResponse, TakeMessage, TakeTask, environment
  <2> DEFINE m == Head(queue["out"]).m
  <2>2. CASE ProtocolError("out")
    BY <1>0, <2>1, <2>2, Quiets, OrdinarySafe
       DEF ProtocolError, KeepPartial, Ordinary, Leaves
  <2>3. CASE /\ \E x \in {"Paused", "Rejected"} : SetState("out", x)
             /\ Rest("out") /\ KeepPartial
    BY <1>0, <2>1, <2>3, EndsFit, StateKept, Removals, Quiets, OrdinarySafe
  <2>4. CASE /\ m.type = "accept"
             /\ file' = [file EXCEPT
                   !["out"] = [@ EXCEPT
                       !.state = "Transferring", !.committed = m.offset,
                       !.next = m.offset, !.interrupted = FALSE,
                       !.backpressured = FALSE, !.resyncs = 0]]
             /\ Do("out", [at |-> "pump"])
             /\ KeepPartial
    <3> DEFINE n == m.offset
               r == [file["out"] EXCEPT
                       !.state = "Transferring", !.committed = n,
                       !.next = n, !.interrupted = FALSE,
                       !.backpressured = FALSE, !.resyncs = 0]
    <3>1. file' = [file EXCEPT !["out"] = r]
      BY <2>4
    <3>2. /\ m \in Message /\ file["in"].prepared
          /\ part # NoFile => n <= Len(part)
      BY <1>0, <2>1, <2>4, Honest DEF Safe, Carried
    <3>3. n \in Offset /\ n \in Nat
      <4> HIDE DEF m
      <4> QED BY <3>2, Offsets DEF Message
    <3> HIDE DEF n
    <3>4. /\ r \in Record /\ r.state = "Transferring"
          /\ r.committed = n /\ r.next = n
      <4>1. 0 \in 0 .. MaximumResyncs /\ "Transferring" \in State
        BY Offsets DEF State
      <4> QED
        BY <1>0, <3>3, <4>1 DEF Record
    <3> HIDE DEF r
    <3>5. Sender(r)
      BY <3>3, <3>4, Offsets DEF Sender
    <3>6. Files' /\ Storage' /\ Grown
      BY <2>1, <2>4, <3>1, <3>2, <3>4, <3>5, SenderMoves DEF KeepPartial
    <3>7. worker'["out"].at # "sent"
      BY <1>0, <2>4 DEF Do, Worked
    <3> QED
      BY <3>6, <3>7 DEF Safe, Sent
  <2> QED
    BY <1>10, <2>2, <2>3, <2>4 DEF HandleResponse, TakeMessage
<1>11. CASE HandleProgress
  <2> DEFINE task == Head(queue["out"])
             m == task.m
  <2>1. /\ queue["out"] # <<>> /\ UNCHANGED final
        /\ task.do = "process" /\ m.type = "progress"
    BY <1>11 DEF HandleProgress, environment
  <2>2. m \in Sayable["in"] /\ m.offset \in Nat
    <3>1. task \in TaskOf(Sayable, "out")
      BY <1>0, <2>1 DEF Queued
    <3> HIDE DEF task
    <3>2. m \in Sayable["in"]
      BY <2>1, <3>1, TaskKinds DEF Peer
    <3> HIDE DEF m
    <3>3. m \in Message
      BY <3>2, Sides DEF Sayable
    <3> QED
      BY <3>2, <3>3, Offsets DEF Message
  <2>3. CASE Ignore("out")
    BY <1>0, <2>1, <2>3, Quiets, OrdinarySafe DEF Ignore, KeepPartial, Ordinary, Leaves
  <2>4. CASE ProtocolError("out")
    BY <1>0, <2>1, <2>4, Quiets, OrdinarySafe
       DEF ProtocolError, KeepPartial, Ordinary, Leaves
  <2>5. CASE /\ file["out"].state # "Completed"
             /\ file["out"].committed < m.offset /\ m.offset <= file["out"].next
             /\ file' = [file EXCEPT
                   !["out"] = [@ EXCEPT !.committed = m.offset, !.resyncs = 0,
                                        !.backpressured = FALSE]]
             /\ Rest("out") /\ KeepPartial
    <3> DEFINE n == m.offset
               r == [file["out"] EXCEPT !.committed = n, !.resyncs = 0,
                                        !.backpressured = FALSE]
    <3>1. file' = [file EXCEPT !["out"] = r]
      BY <2>5
    <3>2. /\ m \in Message /\ file["in"].prepared
          /\ part # NoFile => n <= Len(part)
      BY <2>1, <2>2, Sides DEF Sayable
    <3>3. n \in Offset
      <4> HIDE DEF m
      <4> QED BY <3>2 DEF Message
    <3>4. n \in Nat /\ file["out"].committed < n /\ n <= file["out"].next
      BY <2>5, <3>3, Offsets
    <3>5. part # NoFile => n <= Len(part)
      BY <3>2
    <3> HIDE DEF n
    <3>6. /\ r \in Record /\ r.state = file["out"].state
          /\ r.committed = n /\ r.next = file["out"].next
      <4>1. 0 \in 0 .. MaximumResyncs
        BY Offsets
      <4> QED
        BY <1>0, <3>3, <4>1 DEF Record
    <3> HIDE DEF r
    <3>7. Sender(r)
      BY <1>0, <3>4, <3>6, Offsets DEF Sender
    <3>8. Files' /\ Storage' /\ Grown
      BY <2>1, <2>5, <3>1, <3>2, <3>6, <3>7, <3>5, SenderMoves DEF KeepPartial
    <3>9. worker'["out"].at # "sent"
      BY <1>0, <2>5 DEF Rest, Idle, Do, Worked
    <3> QED
      BY <3>8, <3>9 DEF Safe, Sent
  <2> QED
    <3> DEFINE known == \/ m.offset <= file["out"].committed
                        \/ file["out"].state \in Finished
    <3>1. CASE known
      BY <1>11, <2>3, <3>1 DEF HandleProgress
    <3>2. CASE ~ known
      <4>1. file["out"].state # "Completed" /\ file["out"].committed < m.offset
        BY <1>0, <2>2, <3>2 DEF Finished
      <4>2. m.offset <= file["out"].next \/ m.offset > file["out"].next
        BY <1>0, <2>2
      <4> QED
        BY <1>11, <2>4, <2>5, <3>2, <4>1, <4>2 DEF HandleProgress
    <3> QED
      BY <3>1, <3>2
<1> QED
  BY <1>1, <1>2, <1>3, <1>4, <1>5, <1>6, <1>7, <1>8, <1>9, <1>10, <1>11
     DEF WorkOutgoing

\* The first chunk, and each next one, extends the partial file.
LEMMA Extends ==
    ASSUME NEW n \in Nat, NEW p, p = Start(n)
    PROVE  Append(p, n) = Start(n + 1) /\ Len(p) = n /\ Len(Append(p, n)) = n + 1
<1>1. p = [i \in 1 .. n |-> i - 1] /\ p \in Seq(Int)
  BY DEF Start
<1>2. Len(p) = n
  BY <1>1
<1>3. Append(p, n) = [i \in 1 .. n + 1 |-> i - 1]
  <2>1. Append(p, n) = [i \in 1 .. n + 1 |-> IF i = n + 1 THEN n ELSE p[i]]
    BY <1>1, <1>2
  <2>2. \A i \in 1 .. n + 1 : (IF i = n + 1 THEN n ELSE p[i]) = i - 1
    BY <1>1
  <2> QED
    BY <2>1, <2>2
<1> QED
  BY <1>2, <1>3 DEF Start

LEMMA Replaces ==
    ASSUME NEW f \in [Side -> Record], NEW s \in Side, NEW r \in Record
    PROVE  /\ [f EXCEPT ![s] = r] \in [Side -> Record]
           /\ [f EXCEPT ![s] = r][s] = r
           /\ \A q \in Side : q # s => [f EXCEPT ![s] = r][q] = f[q]
  OBVIOUS

LEMMA Prepares ==
    ASSUME Safe, file["in"].state = "Preparing",
           file' = [file EXCEPT !["in"].state = "Transferring",
                                !["in"].prepared = TRUE,
                                !["in"].committed = 0,
                                !["in"].backpressured = FALSE],
           part' = <<>>, UNCHANGED <<handle, final>>
    PROVE  Files' /\ Storage' /\ Grown /\ file'["out"] = file["out"]
<1> DEFINE r == [file["in"] EXCEPT !.state = "Transferring", !.prepared = TRUE,
                                   !.committed = 0, !.backpressured = FALSE]
<1>1. /\ file["in"] \in Record /\ ~ file["in"].prepared
      /\ file \in [Side -> Record]
  BY Sides DEF Safe, Files, Receiver, Before
<1>2. file' = [file EXCEPT !["in"] = r]
  OBVIOUS
<1>3. /\ r \in Record /\ r.state = "Transferring" /\ r.prepared
      /\ r.committed = 0
  BY <1>1, Offsets DEF Record, State
<1> HIDE DEF r
<1>4. /\ file' \in [Side -> Record] /\ file'["in"] = r
      /\ file'["out"] = file["out"]
  <2> DEFINE g == [file EXCEPT !["in"] = r]
  <2>1. g \in [Side -> Record] /\ g["in"] = r /\ g["out"] = file["out"]
    BY <1>1, <1>3, Replaces, Sides
  <2>2. file' = g
    BY <1>2
  <2> HIDE DEF g
  <2> QED
    BY <2>1, <2>2
<1>5. /\ part = NoFile /\ final = NoFile /\ handle = NotOpen
      /\ file["out"].committed = 0
  BY <1>1 DEF Safe, Storage
<1>6. Files'
  BY <1>3, <1>4, Sides DEF Safe, Files, Sender, Receiver, Before, Source
<1>7. Storage'
  <2>1. Len(part') = 0 /\ part' = Start(0) /\ 0 \in Offset
    BY NoFileOdd, Offsets
  <2>2. \A s \in Side : file'[s].committed = 0
    BY <1>3, <1>4, <1>5, Sides
  <2> QED
    BY <1>3, <1>4, <1>5, <2>1, <2>2 DEF Storage, Start
<1>8. Grown
  BY <1>1, <1>5 DEF Grown
<1> QED
  BY <1>4, <1>6, <1>7, <1>8

LEMMA Appends ==
    ASSUME Safe, NEW n \in Offset, n < Chunks, Appendable(n),
           part' = Append(part, n), handle' = n + 1, UNCHANGED final,
           \/ UNCHANGED file
           \/ /\ ~ IsTerminal(file["in"].state)
              /\ file' = [file EXCEPT
                     !["in"] = [@ EXCEPT !.committed = n + 1, !.resyncs = 0,
                                         !.backpressured = FALSE]]
    PROVE  Files' /\ Storage' /\ Grown /\ file'["out"] = file["out"]
<1> DEFINE k == n + 1
<1>1. /\ part # NoFile /\ Len(part) = n /\ part = Start(n)
      /\ file["in"].prepared /\ final = NoFile
      /\ \A s \in Side : file[s].committed <= n
  BY DEF Safe, Storage, Appendable
<1>2. n \in Nat /\ k \in Offset /\ k \in Nat
  BY Offsets
<1>3. part' = Start(k) /\ Len(part') = k /\ part' # NoFile
  BY <1>1, <1>2, Extends, NoFileOdd
<1>4. handle' = k
  OBVIOUS
<1>5. file \in [Side -> Record]
  BY DEF Safe, Files
<1>6. /\ Files' /\ file'["out"] = file["out"]
      /\ file'["in"].prepared = file["in"].prepared
      /\ \A s \in Side : file'[s].committed <= k
  <2>1. CASE UNCHANGED file
    <3>1. \A s \in Side : file[s].committed \in Nat
      BY <1>5, Offsets DEF Record
    <3>2. \A s \in Side : file[s].committed <= k
      BY <1>1, <1>2, <3>1
    <3> QED
      BY <2>1, <3>2 DEF Safe, Files, Source
  <2>2. CASE /\ ~ IsTerminal(file["in"].state)
             /\ file' = [file EXCEPT
                     !["in"] = [@ EXCEPT !.committed = k, !.resyncs = 0,
                                         !.backpressured = FALSE]]
    <3> DEFINE r == [file["in"] EXCEPT !.committed = k, !.resyncs = 0,
                                       !.backpressured = FALSE]
    <3>1. file' = [file EXCEPT !["in"] = r]
      BY <2>2
    <3> HIDE DEF k
    <3>2. /\ r \in Record /\ r.state = file["in"].state /\ r.committed = k
          /\ r.prepared = file["in"].prepared
      <4>1. 0 \in 0 .. MaximumResyncs /\ file["in"] \in Record
        BY <1>5, Offsets, Sides
      <4> QED
        BY <1>2, <4>1 DEF Record
    <3> HIDE DEF r
    <3>3. /\ file' \in [Side -> Record] /\ file'["in"] = r
          /\ file'["out"] = file["out"]
      BY <1>5, <3>1, <3>2, Sides
    <3>4. file["out"].committed \in Nat /\ file["out"].committed <= k
      BY <1>1, <1>2, <1>5, Sides, Offsets DEF Record, k
    <3>5. Files'
      BY <3>2, <3>3, Sides DEF Safe, Files, Sender, Receiver, Source
    <3> QED
      BY <1>2, <3>2, <3>3, <3>4, <3>5, Sides
  <2> QED
    BY <2>1, <2>2
<1> HIDE DEF k
<1>7. Storage'
  BY <1>1, <1>2, <1>3, <1>4, <1>6 DEF Storage, Start
<1>8. Grown
  <2>1. Len(part) <= Len(part')
    BY <1>1, <1>2, <1>3 DEF k
  <2> QED
    BY <1>1, <1>6, <2>1 DEF Grown
<1> QED
  BY <1>6, <1>7, <1>8

LEMMA Commits ==
    ASSUME Safe, part = Source, final' = part, part' = NoFile, handle' = NotOpen,
           SetState("in", "Completed")
    PROVE  Files' /\ Storage' /\ Grown /\ file'["out"] = file["out"]
<1>1. part # NoFile /\ file["in"].prepared /\ final' = Source
  BY NoFileOdd DEF Safe, Storage
<1> DEFINE r == [file["in"] EXCEPT !.state = "Completed"]
<1>2. file["in"] \in Record /\ file \in [Side -> Record]
  BY Sides DEF Safe, Files
<1>3. /\ r \in Record /\ r.state = "Completed" /\ r.prepared
      /\ r.committed = file["in"].committed
  BY <1>1, <1>2 DEF Record, State, Finished
<1>4. file' = [file EXCEPT !["in"] = r]
  BY DEF SetState
<1> HIDE DEF r
<1>5. /\ file' \in [Side -> Record] /\ file'["in"] = r
      /\ file'["out"] = file["out"]
  BY <1>2, <1>3, <1>4, Sides
<1>6. Files'
  BY <1>1, <1>3, <1>5, Sides DEF Safe, Files, Sender, Receiver, Before, Source
<1>7. Storage'
  BY <1>1, <1>3, <1>5 DEF Storage, Source
<1>8. Grown
  BY <1>1, <1>3, <1>5 DEF Grown
<1> QED
  BY <1>5, <1>6, <1>7, <1>8

\* The receiver's own steps do not touch what the sender has sent off.
LEMMA SentAside ==
    ASSUME Safe, Worked(Sayable), file'["out"] = file["out"],
           \/ UNCHANGED worker \/ \E w : Do("in", w)
    PROVE  Sent'
<1>1. worker'["out"] = worker["out"]
  BY Sides DEF Worked, Do
<1> QED
  BY <1>1 DEF Safe, Sent

LEMMA IncomingSafe ==
    ASSUME Safe, Carried(Sayable), WorkIncoming
    PROVE  Safe' /\ Grown
<1>0. /\ "in" \in Side /\ file["in"] \in Record /\ Receiver(file["in"])
      /\ Files /\ Queued(Sayable) /\ Worked(Sayable)
  BY Sides DEF Safe, Carried, Files
<1>1. CASE Work("in")
  BY <1>0, <1>1, SharedSafe
<1>2. CASE PrepareIncoming
  <2>0. UNCHANGED <<handle, final>>
    BY <1>2 DEF PrepareIncoming
  <2>1. CASE /\ file["in"].state = "Preparing"
             /\ file' = [file EXCEPT !["in"].state = "Transferring",
                                     !["in"].prepared = TRUE,
                                     !["in"].committed = 0,
                                     !["in"].backpressured = FALSE]
             /\ part' = <<>>
             /\ ThenSend("in", Told("accept", 0), "fail")
    <3>1. Files' /\ Storage' /\ Grown /\ file'["out"] = file["out"]
      BY <2>0, <2>1, Prepares
    <3> QED
      BY <1>0, <2>1, <3>1, SentAside DEF ThenSend, Safe
  <2>2. CASE ThenSend("in", Just("reject"), "refuse") /\ UNCHANGED <<file, part>>
    BY <1>0, <2>0, <2>2, Quiets, OrdinarySafe DEF Ordinary, Leaves
  <2>3. CASE UNCHANGED <<file, worker, part>>
    BY <2>0, <2>3, OrdinarySafe DEF Ordinary, Leaves, NoneSent
  <2> QED
    BY <1>2, <2>1, <2>2, <2>3 DEF PrepareIncoming
<1>3. CASE HandleUnknown
  <2>0. UNCHANGED final
    BY <1>3 DEF HandleUnknown, environment
  <2>1. CASE Rest("in") /\ SetState("in", "AwaitingLocalAcceptance") /\ KeepPartial
    <3>1. Fits("in", "AwaitingLocalAcceptance")
      BY <1>0, <1>3 DEF HandleUnknown, Fits, Receiver, Before, State, Finished
    <3> QED
      BY <1>0, <2>0, <2>1, <3>1, StateKept, Removals, Quiets, OrdinarySafe
  <2>2. CASE ProtocolError("in")
    BY <1>0, <2>0, <2>2, Quiets, OrdinarySafe
       DEF ProtocolError, KeepPartial, Ordinary, Leaves
  <2> QED
    BY <1>3, <2>1, <2>2 DEF HandleUnknown
<1>4. CASE HandleResume
  <2>0. UNCHANGED <<part, handle, final>>
    BY <1>4 DEF HandleResume, KeepPartial, environment
  <2>1. NoneSent
    BY <1>0, <1>4, Quiets DEF HandleResume
  <2>2. CASE UNCHANGED file
    BY <2>0, <2>1, <2>2, OrdinarySafe DEF Ordinary, Leaves
  <2>3. CASE /\ file["in"].prepared
             /\ file' = [file EXCEPT
                   !["in"] = [@ EXCEPT
                       !.state = "Transferring", !.interrupted = FALSE,
                       !.backpressured = FALSE, !.resyncs = 0]]
    <3> DEFINE r == [file["in"] EXCEPT
                       !.state = "Transferring", !.interrupted = FALSE,
                       !.backpressured = FALSE, !.resyncs = 0]
    <3>1. file' = [file EXCEPT !["in"] = r]
      BY <2>3
    <3>2. /\ r \in Record /\ r.committed = file["in"].committed
          /\ r.next = file["in"].next /\ r.prepared = file["in"].prepared
          /\ r.state = "Transferring"
      <4>1. 0 \in 0 .. MaximumResyncs /\ "Transferring" \in State
        BY Offsets DEF State
      <4> QED
        BY <1>0, <4>1 DEF Record
    <3> HIDE DEF r
    <3>3. Kept("in", r)
      BY <2>3, <3>2 DEF Kept, Receiver, Before
    <3> QED
      BY <1>0, <2>0, <2>1, <3>1, <3>2, <3>3, OrdinarySafe DEF Ordinary, Leaves
  <2> QED
    BY <1>4, <2>2, <2>3 DEF HandleResume
<1>5. CASE HandleChunk
  <2>0. UNCHANGED final
    BY <1>5 DEF HandleChunk, environment
  <2>1. CASE Ignore("in")
    BY <1>0, <2>0, <2>1, Quiets, OrdinarySafe DEF Ignore, KeepPartial, Ordinary, Leaves
  <2>2. CASE /\ Do("in", [at |-> "appending", offset |-> Offered])
             /\ KeepPartial /\ UNCHANGED file
    <3>1. NoneSent
      BY <1>0, <2>2, NoneSents
    <3> QED
      BY <2>0, <2>2, <3>1, OrdinarySafe DEF KeepPartial, Ordinary, Leaves
  <2>3. CASE FailTransfer("in", TRUE)
    BY <1>0, <2>0, <2>3, FailsOrdinarily, Quiets, OrdinarySafe
  <2> QED
    BY <1>5, <2>1, <2>2, <2>3 DEF HandleChunk
<1>6. CASE AppendChunk
  <2> DEFINE n == worker["in"].offset
  <2>0. UNCHANGED final /\ n \in Offset /\ n < Chunks
    BY <1>0, <1>6, WorkKinds DEF AppendChunk, Worked
  <2>1. CASE /\ Appendable(n)
             /\ part' = Append(part, n)
             /\ handle' = n + 1
             /\ \/ Rest("in") /\ UNCHANGED file
                \/ /\ ~ IsTerminal(file["in"].state)
                   /\ file' = [file EXCEPT
                         !["in"] = [@ EXCEPT !.committed = n + 1, !.resyncs = 0,
                                             !.backpressured = FALSE]]
                   /\ \/ ThenSend("in", Told("progress", n + 1), "nothing")
                      \/ Rest("in")
    <3>1. \E w : Do("in", w)
      BY <2>1 DEF Rest, ThenSend
    <3> HIDE DEF n
    <3>2. Files' /\ Storage' /\ Grown /\ file'["out"] = file["out"]
      BY <2>0, <2>1, Appends
    <3> QED
      BY <1>0, <3>1, <3>2, SentAside DEF Safe
  <2>2. CASE FailTransfer("in", TRUE)
    BY <1>0, <2>0, <2>2, FailsOrdinarily, Quiets, OrdinarySafe
  <2> QED
    BY <1>6, <2>1, <2>2 DEF AppendChunk
<1>7. CASE VerifyAndCommit
  <2>1. CASE /\ part = Source /\ final' = part /\ part' = NoFile /\ handle' = NotOpen
             /\ SetState("in", "Completed")
             /\ ThenSend("in", Just("complete"), "nothing")
    <3>1. Files' /\ Storage' /\ Grown /\ file'["out"] = file["out"]
      BY <2>1, Commits
    <3> QED
      BY <1>0, <2>1, <3>1, SentAside DEF ThenSend, Safe
  <2>2. CASE /\ Rest("in") /\ UNCHANGED <<file, final>>
             /\ part' = NoFile /\ handle' = NotOpen
    BY <1>0, <2>2, Quiets, OrdinarySafe DEF Ordinary, Leaves
  <2>3. CASE /\ SetState("in", "Failed") /\ ThenSend("in", Just("error"), "nothing")
             /\ part' = NoFile /\ handle' = NotOpen /\ UNCHANGED final
    BY <1>0, <2>3, EndsFit, StateKept, Quiets, OrdinarySafe DEF Leaves
  <2> QED
    BY <1>7, <2>1, <2>2, <2>3 DEF VerifyAndCommit
<1> QED
  BY <1>1, <1>2, <1>3, <1>4, <1>5, <1>6, <1>7 DEF WorkIncoming

-----------------------------------------------------------------------------
(* Every step.                                                             *)

LEMMA NextSafe ==
    ASSUME Safe, Carried(Sayable), [Next]_vars
    PROVE  Safe' /\ Grown
<1>0. "in" \in Side /\ "out" \in Side /\ Files /\ Worked(Sayable)
  BY Sides DEF Safe, Carried
<1>1. ASSUME NEW s \in Side, Arrive(s) PROVE Safe' /\ Grown
  BY <1>1, OrdinarySafe DEF Arrive, Ordinary, Leaves, NoneSent
<1>2. CASE ResyncOutgoing
  <2>0. UNCHANGED final
    BY <1>2 DEF ResyncOutgoing, environment
  <2>1. CASE /\ MayResync
             /\ file' = [file EXCEPT !["out"].state = "Resuming",
                                     !["out"].resyncs = @ + 1]
             /\ ThenSend("out", Just("resume"), "nothing")
             /\ KeepPartial
    <3> DEFINE n == file["out"].resyncs + 1
               r == [file["out"] EXCEPT !.state = "Resuming", !.resyncs = n]
    <3>1. file["out"] \in Record
      BY <1>0 DEF Files
    <3>2. n \in 0 .. MaximumResyncs
      BY <2>1, <3>1, Offsets DEF MayResync, Record
    <3>3. file' = [file EXCEPT !["out"] = r]
      BY <2>1
    <3> HIDE DEF n
    <3>4. /\ r \in Record /\ r.committed = file["out"].committed
          /\ r.next = file["out"].next /\ r.prepared = file["out"].prepared
          /\ r.state = "Resuming"
      BY <3>1, <3>2 DEF Record, State
    <3> HIDE DEF r
    <3>5. Kept("out", r)
      BY <3>4 DEF Kept
    <3>6. NoneSent
      BY <1>0, <2>1, Quiets
    <3> QED
      BY <1>0, <2>0, <2>1, <3>3, <3>4, <3>5, <3>6, OrdinarySafe
         DEF KeepPartial, Ordinary, Leaves
  <2>2. CASE FailTransfer("out", TRUE)
    BY <1>0, <2>0, <2>2, FailsOrdinarily, Quiets, OrdinarySafe
  <2> QED
    BY <1>2, <2>1, <2>2 DEF ResyncOutgoing
<1>3. CASE GiveUpIncoming
  <2>1. FailTransfer("in", TRUE) /\ UNCHANGED final
    BY <1>3 DEF GiveUpIncoming, environment
  <2> QED
    BY <1>0, <2>1, FailsOrdinarily, Quiets, OrdinarySafe
<1>4. CASE UNCHANGED vars
  BY <1>4, OrdinarySafe DEF vars, Ordinary, Leaves, NoneSent
<1> QED
  BY <1>1, <1>2, <1>3, <1>4, UsersSafe, ConnectionSafe, OutgoingSafe, IncomingSafe
     DEF Next

LEMMA NextCarries ==
    ASSUME NEW S, Carried(S), Words(S), Heard(S), Heard(S)', Safe, [Next]_vars
    PROVE  Carried(S)'
<1>0. /\ "in" \in Side /\ "out" \in Side /\ Files /\ Storage
      /\ Queued(S) /\ Worked(S) /\ Channeled(S)
  BY Sides DEF Safe, Carried
<1>1. ASSUME NEW s \in Side, Arrive(s) PROVE Carried(S)'
  <2> DEFINE p == Peer(s)
             t == [do |-> "process", m |-> Head(channel[p])]
  <2>1. /\ p \in Side /\ channel[p] # <<>>
        /\ channel' = [channel EXCEPT ![p] = Tail(@)]
        /\ Post(s, t) /\ UNCHANGED worker
    BY <1>1, Sides DEF Arrive
  <2>2. Head(channel[p]) \in S[p] /\ Tail(channel[p]) \in Seq(S[p])
    BY <1>0, <2>1 DEF Channeled
  <2>3. t \in TaskOf(S, s)
    BY <2>2, TasksOf
  <2> HIDE DEF t
  <2>4. Queued(S)'
    BY <1>0, <2>1, <2>3, Posts
  <2> HIDE DEF p
  <2>5. Channeled(S)'
    <3>1. \A r \in Side : channel'[r] \in Seq(S[r])
      BY <1>0, <2>1, <2>2 DEF Channeled
    <3>2. channel' = [r \in Side |-> channel'[r]]
      BY <1>0, <2>1 DEF Channeled
    <3> QED
      BY <3>1, <3>2 DEF Channeled
  <2> QED
    BY <2>1, <2>4, <2>5, Same DEF Carried
<1>2. CASE ResyncOutgoing
  <2>1. UNCHANGED <<queue, channel>>
    BY <1>2 DEF ResyncOutgoing, environment
  <2>2. Worked(S)'
    <3>1. CASE ThenSend("out", Just("resume"), "nothing")
      BY <1>0, <3>1, Reports
    <3>2. CASE FailTransfer("out", TRUE)
      BY <1>0, <3>2, FailsWork
    <3> QED
      BY <1>2, <3>1, <3>2 DEF ResyncOutgoing
  <2> QED
    BY <2>1, <2>2, Same DEF Carried
<1>3. CASE GiveUpIncoming
  BY <1>0, <1>3, FailsWork, Same DEF GiveUpIncoming, environment, Carried
<1>4. CASE UNCHANGED vars
  BY <1>4, Same DEF vars, Carried
<1> QED
  BY <1>0, <1>1, <1>2, <1>3, <1>4, UsersCarry, ConnectionCarries, OutgoingCarries,
     IncomingCarries DEF Next

LEMMA Spends ==
    ASSUME Counters, NEW b \in Bounds, Spend(b) PROVE used' \in [Bounds -> Nat]
<1>1. used[b] \in Nat
  BY DEF Counters
<1> QED
  BY <1>1 DEF Counters, Spend

LEMMA NextCounts == ASSUME Counters, [Next]_vars PROVE Counters'
<1>0. {"commands", "losses", "blips", "refusals", "jams", "faults"} = Bounds
  BY DEF Bounds
<1>1. used' \in [Bounds -> Nat]
  <2>1. UNCHANGED used \/ \E b \in Bounds : Spend(b)
    <3>1. CASE Users
      BY <1>0, <3>1 DEF Users, SendFile, AcceptIncoming, RejectIncoming, Cancel,
                        Resume, environment
    <3>2. CASE Connection
      BY <1>0, <3>2 DEF Connection, LoseChannel, OpenChannel, PeerRecovers,
                        PeerAvailable, PeerGone
    <3>3. ASSUME NEW s \in Side, Work(s) PROVE UNCHANGED used \/ \E b \in Bounds : Spend(b)
      BY <1>0, <3>3 DEF Work, SendControl, PostedSend, StopTransfer, Tidy,
                        HandleComplete, HandleCancel, environment
    <3>4. CASE WorkOutgoing
      <4>1. CASE Work("out")
        BY <3>3, <4>1, Sides
      <4>2. CASE PrepareOutgoing \/ TakePump \/ RetryPump \/ StopPump
        BY <1>0, <4>2 DEF PrepareOutgoing, TakePump, RetryPump, StopPump, environment
      <4>3. CASE SendChunk \/ SendComplete
        BY <1>0, <4>3 DEF SendChunk, SendComplete, SendOnce
      <4>4. CASE AfterChunk \/ AllSent \/ HandleResponse \/ HandleProgress
        BY <4>4 DEF AfterChunk, AllSent, HandleResponse, HandleProgress, environment
      <4> QED
        BY <3>4, <4>1, <4>2, <4>3, <4>4 DEF WorkOutgoing
    <3>5. CASE WorkIncoming
      <4>1. CASE Work("in")
        BY <3>3, <4>1, Sides
      <4>2. CASE PrepareIncoming \/ HandleUnknown \/ HandleResume \/ HandleChunk
        BY <1>0, <4>2 DEF PrepareIncoming, HandleUnknown, HandleResume, HandleChunk,
                          environment
      <4>3. CASE AppendChunk \/ VerifyAndCommit
        BY <1>0, <4>3 DEF AppendChunk, VerifyAndCommit
      <4> QED
        BY <3>5, <4>1, <4>2, <4>3 DEF WorkIncoming
    <3>6. ASSUME NEW s \in Side, Arrive(s) PROVE UNCHANGED used
      BY <3>6 DEF Arrive
    <3>7. CASE ResyncOutgoing \/ GiveUpIncoming \/ UNCHANGED vars
      BY <3>7 DEF ResyncOutgoing, GiveUpIncoming, environment, vars
    <3> QED
      BY <3>1, <3>2, <3>4, <3>5, <3>6, <3>7 DEF Next
  <2> QED
    BY <2>1, Spends DEF Counters
<1>2. scheduled' \in Nat
  <2>1. CASE Users
    BY <2>1 DEF Users, SendFile, AcceptIncoming, RejectIncoming, Cancel,
                Resume, environment, Counters
  <2>2. CASE Connection
    BY <2>2 DEF Connection, LoseChannel, OpenChannel, PeerRecovers,
                PeerAvailable, PeerGone, Counters
  <2>3. ASSUME NEW s \in Side, Work(s) PROVE UNCHANGED scheduled
    BY <2>3 DEF Work, SendControl, PostedSend, StopTransfer, Tidy,
                HandleComplete, HandleCancel, environment
  <2>4. CASE WorkOutgoing
    <3>1. CASE Work("out")
      BY <2>3, <3>1, Sides DEF Counters
    <3>2. CASE PrepareOutgoing \/ TakePump \/ StopPump
      BY <3>2 DEF PrepareOutgoing, TakePump, StopPump, environment, Counters
    <3>3. CASE RetryPump
      BY <3>3 DEF RetryPump, Counters
    <3>4. CASE SendChunk \/ SendComplete
      <4>1. UNCHANGED scheduled \/ scheduled' = scheduled + 1
        BY <3>4 DEF SendChunk, SendComplete, SendOnce, TryLater
      <4> QED
        BY <4>1 DEF Counters
    <3>5. CASE AfterChunk \/ AllSent \/ HandleResponse \/ HandleProgress
      BY <3>5 DEF AfterChunk, AllSent, HandleResponse, HandleProgress, environment,
                  Counters
    <3> QED
      BY <2>4, <3>1, <3>2, <3>3, <3>4, <3>5 DEF WorkOutgoing
  <2>5. CASE WorkIncoming
    <3>1. CASE Work("in")
      BY <2>3, <3>1, Sides DEF Counters
    <3>2. CASE PrepareIncoming \/ HandleUnknown \/ HandleResume \/ HandleChunk
      BY <3>2 DEF PrepareIncoming, HandleUnknown, HandleResume, HandleChunk,
                  environment, Counters
    <3>3. CASE AppendChunk \/ VerifyAndCommit
      BY <3>3 DEF AppendChunk, VerifyAndCommit, Counters
    <3> QED
      BY <2>5, <3>1, <3>2, <3>3 DEF WorkIncoming
  <2>6. ASSUME NEW s \in Side, Arrive(s) PROVE UNCHANGED scheduled
    BY <2>6 DEF Arrive
  <2>7. CASE ResyncOutgoing \/ GiveUpIncoming \/ UNCHANGED vars
    BY <2>7 DEF ResyncOutgoing, GiveUpIncoming, environment, vars, Counters
  <2> QED
    BY <2>1, <2>2, <2>4, <2>5, <2>6, <2>7 DEF Next, Counters
<1>3. view' \in [Side -> {"available", "recovering", "gone"}] /\ open' \in BOOLEAN
  <2>1. UNCHANGED <<view, open>> \/ Connection
    <3>1. CASE Users
      BY <3>1 DEF Users, SendFile, AcceptIncoming, RejectIncoming, Cancel,
                  Resume, environment
    <3>3. ASSUME NEW s \in Side, Work(s) PROVE UNCHANGED <<view, open>>
      BY <3>3 DEF Work, SendControl, PostedSend, StopTransfer, Tidy,
                  HandleComplete, HandleCancel, environment
    <3>4. CASE WorkOutgoing
      <4>1. CASE Work("out")
        BY <3>3, <4>1, Sides
      <4>2. CASE PrepareOutgoing \/ TakePump \/ RetryPump \/ StopPump
        BY <4>2 DEF PrepareOutgoing, TakePump, RetryPump, StopPump, environment
      <4>3. CASE SendChunk \/ SendComplete
        BY <4>3 DEF SendChunk, SendComplete
      <4>4. CASE AfterChunk \/ AllSent \/ HandleResponse \/ HandleProgress
        BY <4>4 DEF AfterChunk, AllSent, HandleResponse, HandleProgress, environment
      <4> QED
        BY <3>4, <4>1, <4>2, <4>3, <4>4 DEF WorkOutgoing
    <3>5. CASE WorkIncoming
      <4>1. CASE Work("in")
        BY <3>3, <4>1, Sides
      <4>2. CASE PrepareIncoming \/ HandleUnknown \/ HandleResume \/ HandleChunk
        BY <4>2 DEF PrepareIncoming, HandleUnknown, HandleResume, HandleChunk,
                    environment
      <4>3. CASE AppendChunk \/ VerifyAndCommit
        BY <4>3 DEF AppendChunk, VerifyAndCommit
      <4> QED
        BY <3>5, <4>1, <4>2, <4>3 DEF WorkIncoming
    <3>6. ASSUME NEW s \in Side, Arrive(s) PROVE UNCHANGED <<view, open>>
      BY <3>6 DEF Arrive
    <3>7. CASE ResyncOutgoing \/ GiveUpIncoming \/ UNCHANGED vars
      BY <3>7 DEF ResyncOutgoing, GiveUpIncoming, environment, vars
    <3> QED
      BY <3>1, <3>4, <3>5, <3>6, <3>7 DEF Next
  <2>2. CASE Connection
    BY <2>2 DEF Connection, LoseChannel, OpenChannel, PeerRecovers, PeerAvailable,
                PeerGone, Counters
  <2> QED
    BY <2>1, <2>2 DEF Counters
<1> QED
  BY <1>1, <1>2, <1>3 DEF Counters

LEMMA Starts == Init => Inv
<1> SUFFICES ASSUME Init PROVE Inv
  OBVIOUS
<1>1. Files
  <2>1. NewRecord \in Record
    BY Offsets DEF NewRecord, Record, State
  <2> QED
    BY <2>1, Offsets, Sides
       DEF Init, Files, NewRecord, Sender, Receiver, Before
<1>2. Storage
  BY Sides DEF Init, Storage, NewRecord
<1>3. Carried(Sayable)
  <2>1. Queued(Sayable)
    BY DEF Init, Queued
  <2>2. Worked(Sayable)
    BY WorksOf DEF Init, Worked, Idle
  <2>3. Channeled(Sayable)
    BY DEF Init, Channeled
  <2> QED
    BY <2>1, <2>2, <2>3 DEF Carried
<1>4. Sent
  BY Sides DEF Init, Sent, Idle
<1>5. Counters
  BY DEF Init, Counters
<1> QED
  BY <1>1, <1>2, <1>3, <1>4, <1>5 DEF Inv

LEMMA Keeps == Inv /\ [Next]_vars => Inv'
<1> SUFFICES ASSUME Inv, [Next]_vars PROVE Inv'
  OBVIOUS
<1>1. Safe' /\ Grown
  BY NextSafe DEF Inv, Safe
<1>2. Counters'
  BY NextCounts DEF Inv
<1>3. Carried(Sayable)'
  <2>1. Sayable' \in [Side -> SUBSET Message]
    <3>1. Words(Sayable)'
      BY SayableTypes, PTL
    <3> QED
      BY <3>1 DEF Words
  <2>2. PICK S \in [Side -> SUBSET Message] : S = Sayable'
    BY <2>1
  <2>3. \A s \in Side : Sayable[s] \subseteq S[s]
    BY <1>1, <2>2, SayableGrows DEF Inv, Safe
  <2>4. Carried(S)
    BY <2>3, CarriedMore DEF Inv
  <2>5. Words(S)
    <3>1. Words(Sayable)'
      BY SayableTypes, PTL
    <3> QED
      BY <2>2, <3>1 DEF Words
  <2>6. Heard(S)
    BY <2>3, SayableHeard, Sides DEF Heard, Inv
  <2>7. Heard(S)'
    <3>1. (Files /\ Storage)' => Heard(Sayable)'
      BY SayableHeard, PTL
    <3>2. Heard(Sayable)'
      BY <1>1, <3>1 DEF Safe
    <3> QED
      BY <2>2, <3>2 DEF Heard
  <2>8. Carried(S)'
    BY <2>4, <2>5, <2>6, <2>7, NextCarries DEF Inv, Safe
  <2>9. Queued(Sayable)'
    BY <2>2, <2>8 DEF Carried, Queued, TaskOf
  <2>10. Worked(Sayable)'
    BY <2>2, <2>8 DEF Carried, Worked, WorkOf
  <2>11. Channeled(Sayable)'
    BY <2>2, <2>8 DEF Carried, Channeled
  <2> QED
    BY <2>9, <2>10, <2>11 DEF Carried
<1> QED
  BY <1>1, <1>2, <1>3 DEF Inv, Safe

LEMMA StartIsPrefix ==
    ASSUME NEW n \in Offset
    PROVE  Len(Start(n)) = n /\ IsPrefix(Start(n), Source) /\ Start(n) \in Seq(Offset)
<1>1. n \in Nat /\ Chunks \in Nat /\ n <= Chunks
  BY Offsets
<1>2. Start(n) \in Seq(Offset)
  <2>1. \A i \in 1 .. n : i - 1 \in Offset
    BY <1>1 DEF Offset
  <2> QED
    BY <1>1, <2>1 DEF Start
<1>3. Len(Start(n)) = n
  BY <1>1, <1>2 DEF Start
<1>4. Len(Source) = Chunks /\ Source \in Seq(Int)
  <2>1. \A i \in 1 .. Chunks : i - 1 \in Int
    BY <1>1
  <2> QED
    BY <1>1, <2>1 DEF Source
<1>5. SubSeq(Start(n), 1, n) = [i \in 1 .. n |-> i - 1]
  BY <1>1, <1>2, <1>3 DEF Start
<1>6. SubSeq(Source, 1, n) = [i \in 1 .. n |-> i - 1]
  BY <1>1, <1>4 DEF Source
<1> QED
  BY <1>1, <1>2, <1>3, <1>4, <1>5, <1>6 DEF IsPrefix

LEMMA Typed == Inv => TypeOK
<1> SUFFICES ASSUME Inv PROVE TypeOK
  OBVIOUS
<1>1. Sayable \in [Side -> SUBSET Message]
  BY SayableTypes DEF Words
<1>2. queue \in [Side -> Seq(Task)]
  <2>1. ASSUME NEW s \in Side PROVE TaskOf(Sayable, s) \subseteq Task
    <3>1. Sayable[s] \subseteq Message /\ Sayable[Peer(s)] \subseteq Message
      BY <1>1, Sides
    <3> QED
      BY <3>1 DEF TaskOf, Task
  <2>2. ASSUME NEW s \in Side PROVE queue[s] \in Seq(Task)
    BY <2>1 DEF Inv, Carried, Queued
  <2> QED
    BY <2>2 DEF Inv, Carried, Queued
<1>3. worker \in [Side -> Doing]
  <2>1. ASSUME NEW s \in Side PROVE WorkOf(Sayable, s) \subseteq Doing
    <3>1. Sayable[s] \subseteq Message
      BY <1>1
    <3> QED
      BY <3>1 DEF WorkOf, Doing
  <2> QED
    BY <2>1 DEF Inv, Carried, Worked
<1>4. channel \in [Side -> Seq(Message)]
  <2>1. ASSUME NEW s \in Side PROVE channel[s] \in Seq(Message)
    <3>1. Sayable[s] \subseteq Message
      BY <1>1
    <3> QED
      BY <3>1 DEF Inv, Carried, Channeled
  <2> QED
    BY <2>1 DEF Inv, Carried, Channeled
<1>5. {part, final} \subseteq Seq(Offset) /\ handle \in 0 .. NotOpen
  <2>1. NoFile \in Seq(Offset)
    BY Offsets DEF NoFile
  <2>2. Source \in Seq(Offset)
    BY NoFileOdd, StartIsPrefix, Offsets
  <2>3. part \in Seq(Offset)
    BY <2>1, StartIsPrefix DEF Inv, Storage
  <2>4. final \in Seq(Offset)
    BY <2>1, <2>2 DEF Inv, Storage
  <2>5. handle \in 0 .. NotOpen
    BY Offsets DEF Inv, Storage, NotOpen, Offset
  <2> QED
    BY <2>3, <2>4, <2>5
<1> QED
  BY <1>2, <1>3, <1>4, <1>5 DEF Inv, Files, Counters, TypeOK

LEMMA Agreed == Inv => OffsetsAgree
<1> SUFFICES ASSUME Inv PROVE OffsetsAgree
  OBVIOUS
<1>1. part # NoFile => IsPrefix(part, Source) /\ file["out"].committed <= Len(part)
  BY StartIsPrefix, Sides DEF Inv, Storage
<1> QED
  BY <1>1 DEF Inv, Files, Sender, OffsetsAgree

\* Whatever changes the committed file is the commit of the receiver.
LEMMA OnlyCommits ==
    ASSUME Inv, Inv', [Next]_vars, final' # final
    PROVE  /\ final = NoFile /\ final' = Source
           /\ file'["out"].state = file["out"].state
<1>1. CASE VerifyAndCommit
  <2>1. part = Source /\ final' = part /\ SetState("in", "Completed")
    BY <1>1 DEF VerifyAndCommit
  <2>2. part # NoFile /\ final = NoFile
    BY <2>1, NoFileOdd DEF Inv, Storage
  <2>3. file'["out"] = file["out"]
    BY <2>1, Sides DEF Inv, Files, SetState
  <2> QED
    BY <2>1, <2>2, <2>3
<1>2. ASSUME ~ VerifyAndCommit PROVE UNCHANGED final
  <2>1. CASE Users
    BY <2>1 DEF Users, SendFile, AcceptIncoming, RejectIncoming, Cancel, Resume,
                environment
  <2>2. CASE Connection
    BY <2>2 DEF Connection, LoseChannel, OpenChannel, PeerRecovers, PeerAvailable,
                PeerGone
  <2>3. ASSUME NEW s \in Side, Work(s) PROVE UNCHANGED final
    BY <2>3 DEF Work, SendControl, PostedSend, StopTransfer, Tidy,
                HandleComplete, HandleCancel, environment
  <2>4. CASE WorkOutgoing
    <3>1. CASE Work("out")
      BY <2>3, <3>1, Sides
    <3>2. CASE PrepareOutgoing \/ TakePump \/ RetryPump \/ StopPump
      BY <3>2 DEF PrepareOutgoing, TakePump, RetryPump, StopPump, environment
    <3>3. CASE SendChunk \/ SendComplete
      BY <3>3 DEF SendChunk, SendComplete
    <3>4. CASE AfterChunk \/ AllSent \/ HandleResponse \/ HandleProgress
      BY <3>4 DEF AfterChunk, AllSent, HandleResponse, HandleProgress, environment
    <3> QED
      BY <2>4, <3>1, <3>2, <3>3, <3>4 DEF WorkOutgoing
  <2>5. CASE WorkIncoming
    <3>1. CASE Work("in")
      BY <2>3, <3>1, Sides
    <3>2. CASE PrepareIncoming \/ HandleUnknown \/ HandleResume \/ HandleChunk
      BY <3>2 DEF PrepareIncoming, HandleUnknown, HandleResume, HandleChunk,
                  environment
    <3>3. CASE AppendChunk
      BY <3>3 DEF AppendChunk
    <3> QED
      BY <1>2, <2>5, <3>1, <3>2, <3>3 DEF WorkIncoming
  <2>6. ASSUME NEW s \in Side, Arrive(s) PROVE UNCHANGED final
    BY <2>6 DEF Arrive
  <2>7. CASE ResyncOutgoing \/ GiveUpIncoming \/ UNCHANGED vars
    BY <2>7 DEF ResyncOutgoing, GiveUpIncoming, environment, vars
  <2> QED
    BY <2>1, <2>2, <2>4, <2>5, <2>6, <2>7 DEF Next
<1> QED
  BY <1>1, <1>2

-----------------------------------------------------------------------------
\* Records, queues, messages and the partial file hold values of their declared
\* types; no offset exceeds the file and no side resynchronizes more often than
\* kMaximumFileResyncAttempts.
THEOREM TypeCorrect == Spec => []TypeOK
<1> QED
  BY Starts, Keeps, Typed, PTL DEF Spec

\* Only what is whole at its destination is reported as complete to the sender,
\* for every size, window and number of faults: the receipt that
\* ProcessEnvelope acts on says so only after VerifyAndCommit.
THEOREM ReceiptIsTrue == Spec => []OnlyDelivered
<1>1. Inv => OnlyDelivered
  BY Sides DEF Inv, Files, OnlyDelivered
<1> QED
  BY <1>1, Starts, Keeps, PTL DEF Spec

\* The partial file is a prefix of the source, what the sender takes for
\* delivered is in it, and what it sent beyond that fits into the window, however
\* Responses and Progress move both ends of it.
THEOREM OffsetsTrue == Spec => []OffsetsAgree
<1> QED
  BY Starts, Keeps, Agreed, PTL DEF Spec

\* Every step of a transfer is a delivery, a confirmation, a retraction, or
\* none of the users' concern.
THEOREM DeliveryImplemented == Spec => Delivers
<1>1. Init => Delivery!Init
  <2>1. Init => final = NoFile /\ file["out"].state = "Absent"
    BY Sides DEF Init, NewRecord
  <2> QED
    BY <2>1 DEF Delivery!Init
<1>2. Inv /\ [Next]_vars => [Delivery!Next]_<<final, file["out"].state = "Completed">>
  <2> SUFFICES ASSUME Inv, [Next]_vars
               PROVE  [Delivery!Next]_<<final, file["out"].state = "Completed">>
    OBVIOUS
  <2>0. Inv'
    BY Keeps
  <2>1. CASE final' # final
    BY <2>0, <2>1, OnlyCommits
       DEF Delivery!Next, Delivery!Deliver, Source
  <2>2. CASE final' = final
    <3>1. file'["out"].state = "Completed" => final = Source
      BY <2>0, <2>2, Sides DEF Inv, Files, Source
    <3> QED
      BY <2>2, <3>1 DEF Delivery!Next, Delivery!Confirm, Delivery!Retract
  <2> QED
    BY <2>1, <2>2
<1> QED
  BY <1>1, <1>2, Starts, Keeps, PTL DEF Spec, Delivers, Delivery!Spec
=============================================================================
