----------------------------- MODULE SendQueue -----------------------------
(***************************************************************************)
(* The send path of a session controller (core/SessionController.cpp): the *)
(* serial executor, the three ways threads of the application hand data to *)
(* it (SendData, QueueData, QueueLatestData), Close, and the shutdown that  *)
(* stops the executor.                                                     *)
(*                                                                         *)
(* Application threads, the executor thread and the thread that shuts the  *)
(* controller down interleave at every lock.  A call is a number, given    *)
(* when the call begins; the data of a call is named by its number.  A     *)
(* post is two steps, because PostAt gets its due time before it takes the *)
(* lock that gives it its sequence number.  Tasks that are posted with a   *)
(* delay are not modelled: none of them carries data or is waited for.     *)
(***************************************************************************)
EXTENDS Naturals, FiniteSets

CONSTANTS Caller,     \* application threads
          Stopper,    \* the thread that destroys the controller
          Key,        \* channel and key of a transient update
          NoKey,
          MaxCalls    \* bound on the calls of a behaviour

ASSUME SendQueueAssumption ==
    /\ Stopper \notin Caller
    /\ NoKey \notin Key
    /\ MaxCalls \in Nat

Thread == Caller \union {Stopper}

Call == 1 .. MaxCalls

NoCall == 0

CallOrNone == 0 .. MaxCalls

\* What a call posts: data with a completion, data its caller waits for, the
\* newest value of a key, the close of the session, the last task of Shutdown.
Kind == {"none", "queued", "sync", "latest", "close", "shutdown"}

Posting == [by : Thread, kind : Kind, key : Key \union {NoKey}]

\* SerialExecutor::WorkItem; the call stands for its two functions.
WorkItem == [due : Nat, sequence : Nat, call : Call]

\* What became of a call: nothing yet, its task was accepted, the session got
\* the data, the session was closed.
Outcome == {"none", "accepted", "sent", "refused"}

Phase == {"idle", "posting", "waiting", "stopping", "canceling", "gone"}

VARIABLES pc,         \* where each thread is
          at,         \* the call it is in
          due,        \* the due time it has read
          issued,     \* number of calls so far
          posting,    \* what each call posts
          clock,      \* last reading of the steady clock
          tasks,      \* SerialExecutor::tasks_
          sequence,   \* SerialExecutor::nextSequence_
          stopping,   \* SerialExecutor::stopping_
          discarded,  \* tasks that Stop took and has not canceled yet
          running,    \* the task of the executor thread
          outgoing,   \* the update it collected
          latest,     \* latestSends_: the pending update of a key
          newest,     \* LatestSend::payload of the update a call created
          closed,     \* the WebRTC session is closed
          outcome,    \* what the session did with the data of a call
          reports     \* how often the completion of a call ran

threads == <<pc, at, due>>
calls == <<issued, posting, clock>>
queue == <<tasks, sequence, stopping, discarded>>
worker == <<running, outgoing>>
updates == <<latest, newest>>
results == <<closed, outcome, reports>>
vars == <<threads, calls, queue, worker, updates, results>>

-----------------------------------------------------------------------------
(* The executor's order.                                                   *)

\* WorkItemLater turned round; the mutant forgets that the standard priority
\* queue puts the largest element first.
LaterFirst(i, j) == i.due > j.due

Precedes(i, j) ==
    \/ i.due < j.due
    \/ i.due = j.due /\ i.sequence < j.sequence

IsTop(i, items) == i \in items /\ \A j \in items \ {i} : Precedes(i, j)

CallsOf(items) == {i.call : i \in items}

-----------------------------------------------------------------------------
(* The pending update of a key.                                            *)

\* latestSendMutex_ is held over several steps only by QueueLatestData while
\* it posts.
LatestMutexFree ==
    \A t \in Caller : ~(pc[t] = "posting" /\ posting[at[t]].kind = "latest")

\* The map without the update that call c created; a mutant that keeps it.
KeepUpdate(c) == latest

RemoveUpdate(c) ==
    [k \in Key |-> IF latest[k] = c THEN NoCall ELSE latest[k]]

\* The pending update of key k gets the value of call c.
SetValue(k, c) == [newest EXCEPT ![latest[k]] = c]

-----------------------------------------------------------------------------
Init ==
    /\ pc = [t \in Thread |-> "idle"]
    /\ at = [t \in Thread |-> NoCall]
    /\ due = [t \in Thread |-> 0]
    /\ issued = 0
    /\ posting = [c \in Call |-> [by |-> Stopper, kind |-> "none", key |-> NoKey]]
    /\ clock = 0
    /\ tasks = {}
    /\ sequence = 1
    /\ stopping = FALSE
    /\ discarded = {}
    /\ running = NoCall
    /\ outgoing = NoCall
    /\ latest = [k \in Key |-> NoCall]
    /\ newest = [c \in Call |-> NoCall]
    /\ closed = FALSE
    /\ outcome = [c \in Call |-> "none"]
    /\ reports = [c \in Call |-> 0]

-----------------------------------------------------------------------------
(* Threads that call the controller.                                       *)

\* A call gets its number and says what it will post.
Number(t, kind, key) ==
    /\ pc[t] = "idle"
    /\ issued < MaxCalls
    /\ issued' = issued + 1
    /\ posting' = [posting EXCEPT ![issued + 1] =
                      [by |-> t, kind |-> kind, key |-> key]]

\* Readings of the steady clock never fall and may be equal.
Readings == {clock, clock + 1}

\* The call reads its due time before PostAt takes the lock.
Begin(t, kind, key) ==
    /\ Number(t, kind, key)
    /\ clock' \in Readings
    /\ pc' = [pc EXCEPT ![t] = "posting"]
    /\ at' = [at EXCEPT ![t] = issued + 1]
    /\ due' = [due EXCEPT ![t] = clock']

QueueData(t) ==
    /\ Begin(t, "queued", NoKey)
    /\ UNCHANGED <<queue, worker, updates, results>>

SendData(t) ==
    /\ Begin(t, "sync", NoKey)
    /\ UNCHANGED <<queue, worker, updates, results>>

Close(t) ==
    /\ Begin(t, "close", NoKey)
    /\ UNCHANGED <<queue, worker, updates, results>>

\* QueueLatestData finds an unsent update of the key: it gives it the new
\* value and posts nothing.
ReplaceUpdate(t, k) ==
    /\ LatestMutexFree
    /\ latest[k] # NoCall
    /\ Number(t, "latest", k)
    /\ newest' = SetValue(k, issued + 1)
    /\ UNCHANGED <<threads, clock, queue, worker, latest, results>>

\* QueueLatestData of a key that has no unsent update.
CreateUpdate(t, k) ==
    /\ LatestMutexFree
    /\ latest[k] = NoCall
    /\ Begin(t, "latest", k)
    /\ latest' = [latest EXCEPT ![k] = issued + 1]
    /\ newest' = [newest EXCEPT ![issued + 1] = issued + 1]
    /\ UNCHANGED <<queue, worker, results>>

\* Whether a thread waits in Invoke for what it posts.
IsInvoked(c) == posting[c].kind \in {"sync", "shutdown"}

\* PostAt takes the lock of an executor that is not stopping.
Post(t) ==
    /\ pc[t] = "posting"
    /\ ~stopping
    /\ tasks' = tasks \union
                  {[due |-> due[t], sequence |-> sequence, call |-> at[t]]}
    /\ sequence' = sequence + 1
    /\ outcome' = [outcome EXCEPT ![at[t]] = "accepted"]
    /\ pc' = [pc EXCEPT ![t] = IF IsInvoked(at[t]) THEN "waiting" ELSE "idle"]
    /\ UNCHANGED <<at, due, calls, stopping, discarded, worker, updates,
                   closed, reports>>

\* PostAt refuses once the executor stops: no completion, the caller returns.
Refuse(t) ==
    /\ pc[t] = "posting"
    /\ stopping
    /\ latest' = RemoveUpdate(at[t])
    /\ pc' = [pc EXCEPT ![t] = "idle"]
    /\ UNCHANGED <<at, due, calls, queue, worker, newest, results>>

-----------------------------------------------------------------------------
(* The executor thread.                                                    *)

\* The task leaves the queue before it runs; the mutant leaves it there.
TakeKeeping(i) == tasks

TakeOut(i) == tasks \ {i}

Take ==
    \E i \in tasks :
        /\ running = NoCall
        /\ ~stopping
        /\ IsTop(i, tasks)
        /\ running' = i.call
        /\ tasks' = TakeOut(i)
        /\ UNCHANGED <<threads, calls, sequence, stopping, discarded, outgoing,
                       updates, results>>

\* The task of an update moves the newest value out, under the mutex.
Collect ==
    /\ running # NoCall
    /\ posting[running].kind = "latest"
    /\ outgoing = NoCall
    /\ LatestMutexFree
    /\ outgoing' = newest[running]
    /\ latest' = RemoveUpdate(running)
    /\ UNCHANGED <<threads, calls, queue, running, newest, results>>

\* The data that the running task hands to the session.
Data ==
    CASE posting[running].kind \in {"queued", "sync"} -> running
      [] posting[running].kind = "latest"             -> outgoing
      [] OTHER                                        -> NoCall

\* The threads whose Invoke the task completes; the mutant forgets the
\* promise.
WakeNobody(c) == {}

Woken(c) == IF IsInvoked(c) THEN {posting[c].by} ELSE {}

\* The task calls the session, reports the result and is done.
Run ==
    /\ running # NoCall
    /\ posting[running].kind = "latest" => outgoing # NoCall
    /\ outcome' = [c \in Call |->
                      IF c = Data THEN IF closed THEN "refused" ELSE "sent"
                      ELSE outcome[c]]
    /\ closed' = (closed \/ posting[running].kind \in {"close", "shutdown"})
    /\ reports' = [c \in Call |->
                      IF c = running /\ posting[c].kind = "queued"
                      THEN reports[c] + 1 ELSE reports[c]]
    /\ pc' = [t \in Thread |->
                 IF t \in Woken(running)
                 THEN IF t = Stopper THEN "stopping" ELSE "idle"
                 ELSE pc[t]]
    /\ running' = NoCall
    /\ outgoing' = NoCall
    /\ UNCHANGED <<at, due, calls, queue, updates>>

-----------------------------------------------------------------------------
(* Shutdown: Invoke of the last task, then SerialExecutor::Stop.            *)

Shutdown ==
    /\ Begin(Stopper, "shutdown", NoKey)
    /\ UNCHANGED <<queue, worker, updates, results>>

\* The tasks that Stop takes over to cancel; the mutant lets them go.
DropTasks == {}

TakeOver == tasks

Stop ==
    /\ pc[Stopper] = "stopping"
    /\ stopping' = TRUE
    /\ discarded' = TakeOver
    /\ tasks' = {}
    /\ pc' = [pc EXCEPT ![Stopper] = "canceling"]
    /\ UNCHANGED <<at, due, calls, sequence, worker, updates, results>>

\* Data with a completion reports, an update leaves the map; a task that a
\* thread waits for in Invoke has no notification to run.
Cancel ==
    \E i \in discarded :
        /\ pc[Stopper] = "canceling"
        /\ IsTop(i, discarded)
        /\ posting[i.call].kind = "latest" => LatestMutexFree
        /\ reports' = [c \in Call |->
                          IF c = i.call /\ posting[c].kind = "queued"
                          THEN reports[c] + 1 ELSE reports[c]]
        /\ latest' = RemoveUpdate(i.call)
        /\ discarded' = discarded \ {i}
        /\ UNCHANGED <<threads, calls, tasks, sequence, stopping, worker,
                       newest, closed, outcome>>

\* The executor thread has ended: it runs nothing; the mutant does not wait.
NoWait == TRUE

ThreadEnded == running = NoCall

Join ==
    /\ pc[Stopper] = "canceling"
    /\ discarded = {}
    /\ ThreadEnded
    /\ pc' = [pc EXCEPT ![Stopper] = "gone"]
    /\ UNCHANGED <<at, due, calls, queue, worker, updates, results>>

-----------------------------------------------------------------------------
Calls ==
    \E t \in Caller :
        \/ QueueData(t)
        \/ SendData(t)
        \/ Close(t)
        \/ \E k \in Key : ReplaceUpdate(t, k) \/ CreateUpdate(t, k)

Posts == \E t \in Thread : Post(t) \/ Refuse(t)

Executor == Take \/ Collect \/ Run

Stopping == Shutdown \/ Stop \/ Cancel \/ Join

Next == Calls \/ Posts \/ Executor \/ Stopping

Spec == Init /\ [][Next]_vars

-----------------------------------------------------------------------------
(* Threads run; the session's SendData returns; whoever waits for the       *)
(* update mutex gets it in the end.  Nobody is obliged to call.             *)
Fairness ==
    /\ \A t \in Thread : WF_vars(Post(t)) /\ WF_vars(Refuse(t))
    /\ WF_vars(Take) /\ SF_vars(Collect) /\ WF_vars(Run)
    /\ WF_vars(Stop) /\ SF_vars(Cancel) /\ WF_vars(Join)

FairSpec == Spec /\ Fairness

-----------------------------------------------------------------------------
(* Properties.                                                             *)

TypeOK ==
    /\ pc \in [Thread -> Phase]
    /\ at \in [Thread -> CallOrNone]
    /\ due \in [Thread -> Nat]
    /\ issued \in CallOrNone
    /\ posting \in [Call -> Posting]
    /\ clock \in Nat
    /\ tasks \in SUBSET WorkItem
    /\ sequence \in Nat
    /\ stopping \in BOOLEAN
    /\ discarded \in SUBSET WorkItem
    /\ running \in CallOrNone
    /\ outgoing \in CallOrNone
    /\ latest \in [Key -> CallOrNone]
    /\ newest \in [Call -> CallOrNone]
    /\ closed \in BOOLEAN
    /\ outcome \in [Call -> Outcome]
    /\ reports \in [Call -> Nat]

\* Data with a completion whose task the executor accepted.
QueuedCalls == {c \in Call : posting[c].kind = "queued" /\ outcome[c] # "none"}

\* The calls whose tasks are still to run or to be canceled.
Outstanding == CallsOf(tasks \union discarded) \union ({running} \ {NoCall})

\* "An accepted task reports its send result exactly once": never twice, not
\* before it has left the executor, and when the shutdown returns none has
\* been forgotten, however the shutdown raced with the posts and with the task
\* that was running.
ReportedOnce ==
    /\ \A c \in Call : reports[c] <= 1
    /\ \A c \in Outstanding : reports[c] = 0
    /\ pc[Stopper] = "gone" => \A c \in QueuedCalls : reports[c] = 1

Handed(c) == outcome[c] \in {"sent", "refused"}

\* Data of one thread reaches the session in the order of its calls, whatever
\* the executor's clock readings; only transient updates may overtake.
SentInCallOrder ==
    \A c, d \in Call :
        /\ c < d
        /\ posting[c].by = posting[d].by
        /\ {posting[c].kind, posting[d].kind} \subseteq {"queued", "sync"}
        /\ outcome[c] = "accepted"
        => ~Handed(d)

\* The values that the threads gave to a key.
ValuesOf(k) ==
    {c \in Call : posting[c].kind = "latest" /\ posting[c].key = k}

\* Where the task of a pending update can be: about to be posted, in the
\* queue, taken but not collected, or taken over by Stop.
Carried(c) ==
    \/ \E t \in Caller : pc[t] = "posting" /\ at[t] = c
    \/ c \in CallsOf(tasks \union discarded)
    \/ running = c /\ outgoing = NoCall

\* "At most one update waits on the executor for each key", and the map
\* entry is that one: an entry without a task would swallow every later
\* update of its key, a task without its entry would send an empty payload.
\* It carries the newest value, and the values of a key reach the session
\* oldest first: the remote cursor never jumps back.
UpdatesCollapse ==
    \A k \in Key :
        /\ \A c \in ValuesOf(k) : Carried(c) <=> latest[k] = c
        /\ latest[k] # NoCall =>
               \A c \in ValuesOf(k) : c <= newest[latest[k]]
        /\ \A c \in ValuesOf(k) : Handed(c) =>
               /\ latest[k] # NoCall => c < newest[latest[k]]
               /\ outgoing \in ValuesOf(k) => c < outgoing

\* Once the shutdown has returned no completion runs and the session, which
\* the application destroys next, is not called.
QuietAfterShutdown ==
    [][pc[Stopper] = "gone" => UNCHANGED results]_vars

\* Data that QueueData accepts is reported in the end, and the newest value of
\* a key does not wait for ever: it is collected, or the executor is stopped
\* and the value dropped.
SendsEnd ==
    /\ \A c \in Call : (c \in QueuedCalls) ~> (reports[c] > 0)
    /\ \A k \in Key, c \in Call : (latest[k] = c) ~> (latest[k] # c)

\* A shutdown returns: no thread, no lock and no task holds it up for ever.
ShutdownReturns == (pc[Stopper] = "posting") ~> (pc[Stopper] = "gone")

\* A thread that sends and waits gets an answer: "accepted sends must finish
\* or report cancellation".
WaitingSendsReturn ==
    \A t \in Caller : (pc[t] = "waiting") ~> (pc[t] # "waiting")
=============================================================================
