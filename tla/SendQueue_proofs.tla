-------------------------- MODULE SendQueue_proofs --------------------------
(***************************************************************************)
(* What the send path promises, for any number of threads, keys and calls. *)
(* ReportedOnce is not inductive: it needs to know that a call has one     *)
(* place at a time (a thread about to post it, one task, the executor's    *)
(* hands), that only the stopping thread cancels and only what Stop took   *)
(* over, and whom the executor wakes (Inv).  SentInCallOrder needs the     *)
(* order of each thread's tasks in the queue besides (Ordered), and        *)
(* UpdatesCollapse what the map's entries carry (Collapsed).               *)
(***************************************************************************)
EXTENDS SendQueue, TLAPS

Items == tasks \union discarded

\* Numbers that no call has yet are used nowhere.
Fresh ==
    /\ \A i \in Items : i.call <= issued
    /\ running <= issued
    /\ outgoing <= issued
    /\ \A c \in Call : newest[c] <= issued
    /\ \A t \in Thread : pc[t] = "posting" => at[t] \in 1 .. issued
    /\ \A c \in Call : c > issued => reports[c] = 0 /\ outcome[c] = "none"

\* A call is in one place at a time.
OnePlace ==
    /\ \A i, j \in Items : i.call = j.call => i = j
    /\ running \notin CallsOf(Items)
    /\ \A t \in Thread : pc[t] = "posting" =>
           at[t] \notin Outstanding /\ reports[at[t]] = 0
    /\ \A t, u \in Thread :
           pc[t] = "posting" /\ pc[u] = "posting" /\ at[t] = at[u] => t = u

\* A thread in Invoke waits for its own outstanding task.
Waiting ==
    /\ \A c \in Outstanding : IsInvoked(c) =>
           pc[posting[c].by] = "waiting" /\ at[posting[c].by] = c
    /\ \A t \in Thread : pc[t] = "posting" => posting[at[t]].by = t
    /\ \A c \in Call :
           IsInvoked(c) => (posting[c].kind = "shutdown" <=> posting[c].by = Stopper)

\* The executor stops when the stopping thread says so, and what is left is
\* what that thread cancels.
Phases ==
    /\ stopping <=> pc[Stopper] \in {"canceling", "gone"}
    /\ stopping => tasks = {}
    /\ discarded # {} => pc[Stopper] = "canceling"
    /\ pc[Stopper] = "gone" => running = NoCall
    /\ \A t \in Caller : pc[t] \in {"idle", "posting", "waiting"}

\* Updates carry the values of updates.
Values ==
    /\ \A c \in Call : newest[c] # NoCall => posting[newest[c]].kind = "latest"
    /\ outgoing # NoCall => posting[outgoing].kind = "latest"

\* Nothing is reported early or twice, nothing accepted is lost.
Conserved ==
    /\ \A c \in Call : reports[c] <= 1
    /\ \A c \in Outstanding : reports[c] = 0
    /\ \A c \in QueuedCalls : c \in Outstanding \/ reports[c] = 1

Inv == TypeOK /\ Fresh /\ OnePlace /\ Waiting /\ Phases /\ Values /\ Conserved

-----------------------------------------------------------------------------
(* The initial state and the steps of the calling threads.                 *)

LEMMA InitInv == Init => Inv
<1> SUFFICES ASSUME Init PROVE Inv
  OBVIOUS
<1> USE SendQueueAssumption DEF Init
<1>1. TypeOK
  <2>1. [by |-> Stopper, kind |-> "none", key |-> NoKey] \in Posting
    BY DEF Posting, Thread, Kind
  <2>2. NoCall \in CallOrNone
    BY DEF NoCall, CallOrNone
  <2>3. /\ pc \in [Thread -> Phase] /\ at \in [Thread -> CallOrNone]
        /\ due \in [Thread -> Nat] /\ posting \in [Call -> Posting]
    BY <2>1, <2>2 DEF Phase
  <2>4. issued \in CallOrNone /\ running \in CallOrNone /\ outgoing \in CallOrNone
    BY <2>2 DEF NoCall
  <2>5. /\ latest \in [Key -> CallOrNone] /\ newest \in [Call -> CallOrNone]
        /\ outcome \in [Call -> Outcome] /\ reports \in [Call -> Nat]
    BY <2>2 DEF Outcome
  <2> QED BY <2>3, <2>4, <2>5 DEF TypeOK
<1>2. Items = {} /\ Outstanding = {} /\ CallsOf(Items) = {}
  BY DEF Items, Outstanding, CallsOf, NoCall
<1>3. Fresh /\ OnePlace
  BY <1>2 DEF Fresh, OnePlace, Thread, Call, NoCall
<1>4. Waiting /\ Phases
  BY <1>2 DEF Waiting, Phases, IsInvoked, Thread, Call, NoCall
<1>5. Values /\ Conserved
  BY <1>2 DEF Values, Conserved, QueuedCalls, Call, NoCall
<1> QED BY <1>1, <1>3, <1>4, <1>5 DEF Inv

\* A call that gets a number disturbs no call that has one.
LEMMA NumberFacts ==
    ASSUME Inv, NEW t \in Thread, NEW kind \in Kind,
           NEW key \in Key \union {NoKey}, Number(t, kind, key)
    PROVE  /\ issued \in Nat /\ issued' = issued + 1 /\ issued' \in Call
           /\ posting' \in [Call -> Posting]
           /\ \A c \in 1 .. issued : c \in Call /\ posting'[c] = posting[c]
           /\ posting'[issued'].kind = kind /\ posting'[issued'].by = t
<1>1. issued \in Nat /\ issued' = issued + 1 /\ issued' \in Call
  BY SendQueueAssumption DEF Number, Inv, TypeOK, CallOrNone, Call
<1>2. [by |-> t, kind |-> kind, key |-> key] \in Posting
  BY DEF Posting
<1>3. posting' \in [Call -> Posting]
  BY <1>1, <1>2 DEF Number, Inv, TypeOK
<1>4. \A c \in 1 .. issued : c \in Call /\ posting'[c] = posting[c]
  BY <1>1, SendQueueAssumption DEF Number, Inv, TypeOK, CallOrNone, Call
<1>5. posting'[issued'].kind = kind /\ posting'[issued'].by = t
  BY <1>1 DEF Number, Inv, TypeOK
<1> QED BY <1>1, <1>3, <1>4, <1>5

\* What the invariant says of the map of updates, after a call got a number.
ValuesKept ==
    /\ latest' \in [Key -> CallOrNone]
    /\ newest' \in [Call -> CallOrNone]
    /\ \A c \in Call :
           \/ newest'[c] = newest[c]
           \/ newest'[c] = issued' /\ posting'[issued'].kind = "latest"

\* A call that gets a number keeps what does not concern its thread.
LEMMA NumberInv ==
    ASSUME Inv, NEW t \in Thread, NEW kind \in Kind,
           NEW key \in Key \union {NoKey}, Number(t, kind, key),
           (kind \in {"sync", "shutdown"}) => (kind = "shutdown" <=> t = Stopper),
           UNCHANGED <<queue, worker, results>>, ValuesKept
    PROVE  /\ Items' = Items /\ Outstanding' = Outstanding
           /\ Outstanding \subseteq 1 .. issued
           /\ Values' /\ Conserved'
           /\ \A c \in Call : newest'[c] <= issued'
           /\ \A c \in Call : c > issued' => reports'[c] = 0 /\ outcome'[c] = "none"
           /\ \A c \in Call : IsInvoked(c)' =>
                  (posting'[c].kind = "shutdown" <=> posting'[c].by = Stopper)
           /\ \A c \in 1 .. issued : IsInvoked(c)' = IsInvoked(c)
<1> USE NumberFacts
<1>0. \A c \in CallOrNone : c # NoCall => c \in Call
  BY SendQueueAssumption DEF CallOrNone, Call, NoCall
<1>1. Items' = Items /\ Outstanding' = Outstanding
  BY DEF Items, Outstanding, CallsOf, queue, worker
<1>2. Outstanding \subseteq 1 .. issued
  BY <1>0, SendQueueAssumption DEF Outstanding, CallsOf, Items, Inv, Fresh, TypeOK, WorkItem, Call,
         CallOrNone, NoCall
<1>3. \A c \in Call : c \notin 1 .. issued => c > issued
  BY DEF Call
<1>4. \A c \in Call : c \in 1 .. issued \/ c = issued' \/ c > issued'
  BY DEF Call
<1>5. Values'
  <2>1. \A c \in Call : newest'[c] # NoCall => posting'[newest'[c]].kind = "latest"
    <3> TAKE c \in Call
    <3>1. CASE newest'[c] = newest[c]
      BY <3>1 DEF Inv, Values, Fresh, TypeOK, CallOrNone, NoCall
    <3>2. CASE newest'[c] = issued' /\ posting'[issued'].kind = "latest"
      BY <3>2
    <3> QED BY <3>1, <3>2 DEF ValuesKept
  <2>2. outgoing' # NoCall => posting'[outgoing'].kind = "latest"
    BY DEF worker, Inv, Values, Fresh, TypeOK, CallOrNone, NoCall
  <2> QED BY <2>1, <2>2 DEF Values
<1>6. QueuedCalls' = QueuedCalls
  <2>1. \A c \in Call : outcome[c] # "none" => c \in 1 .. issued
    BY <1>3 DEF Inv, Fresh
  <2> QED BY <2>1 DEF QueuedCalls, results
<1>7. Conserved'
  BY <1>1, <1>6 DEF Conserved, Inv, results
<1>8. \A c \in Call : newest'[c] <= issued'
  BY DEF ValuesKept, Inv, Fresh, TypeOK, CallOrNone
<1>9. \A c \in Call : c > issued' => reports'[c] = 0 /\ outcome'[c] = "none"
  BY DEF Inv, Fresh, results, Call
<1>10. \A c \in Call : IsInvoked(c)' =>
          (posting'[c].kind = "shutdown" <=> posting'[c].by = Stopper)
  <2> SUFFICES ASSUME NEW c \in Call, IsInvoked(c)'
               PROVE  posting'[c].kind = "shutdown" <=> posting'[c].by = Stopper
    OBVIOUS
  <2>1. CASE c = issued'
    BY <2>1 DEF IsInvoked
  <2>2. CASE c # issued'
    BY <2>2 DEF IsInvoked, Inv, Waiting, TypeOK, Number
  <2> QED BY <2>1, <2>2
<1>11. \A c \in 1 .. issued : IsInvoked(c)' = IsInvoked(c)
  BY DEF IsInvoked
<1> QED BY <1>1, <1>2, <1>5, <1>7, <1>8, <1>9, <1>10, <1>11

\* A thread that begins a call.
LEMMA BeginInv ==
    ASSUME Inv, NEW t \in Thread, NEW kind \in Kind,
           NEW key \in Key \union {NoKey}, Begin(t, kind, key),
           (kind \in {"sync", "shutdown"}) => (kind = "shutdown" <=> t = Stopper),
           UNCHANGED <<queue, worker, results>>, ValuesKept
    PROVE  Inv'
<1>0. Number(t, kind, key)
  BY DEF Begin
<1> USE <1>0, NumberFacts, NumberInv
<1>1. TypeOK'
  <2>1. clock' \in Nat
    BY DEF Begin, Readings, Inv, TypeOK
  <2>2. issued' \in CallOrNone
    BY DEF Call, CallOrNone
  <2>3. pc' \in [Thread -> Phase] /\ at' \in [Thread -> CallOrNone]
    BY <2>2 DEF Begin, Inv, TypeOK, Phase
  <2>4. due' \in [Thread -> Nat]
    BY <2>1 DEF Begin, Inv, TypeOK
  <2> QED BY <2>1, <2>2, <2>3, <2>4
       DEF TypeOK, Inv, ValuesKept, queue, worker, results
<1>2. /\ pc'[t] = "posting" /\ at'[t] = issued'
      /\ \A u \in Thread \ {t} : pc'[u] = pc[u] /\ at'[u] = at[u]
      /\ pc[t] = "idle"
  BY DEF Begin, Number, Inv, TypeOK
<1>3. Fresh'
  <2>1. \A i \in Items' : i.call <= issued'
    <3>1. Items' = Items /\ issued' = issued + 1 /\ issued \in Nat
      OBVIOUS
    <3>2. \A i \in Items : i.call \in Nat /\ i.call <= issued
      BY DEF Inv, Fresh, TypeOK, Items, WorkItem, Call
    <3> QED BY <3>1, <3>2
  <2>2. running' <= issued' /\ outgoing' <= issued'
    BY DEF Inv, Fresh, worker, TypeOK, CallOrNone
  <2>3. \A u \in Thread : pc'[u] = "posting" => at'[u] \in 1 .. issued'
    BY <1>2 DEF Inv, Fresh
  <2> QED BY <2>1, <2>2, <2>3 DEF Fresh
<1>4. OnePlace'
  <2>1. \A u \in Thread : pc'[u] = "posting" =>
           at'[u] \notin Outstanding' /\ reports'[at'[u]] = 0
    BY <1>2 DEF Inv, OnePlace, Fresh, results, Call
  <2>2. \A u, w \in Thread :
           pc'[u] = "posting" /\ pc'[w] = "posting" /\ at'[u] = at'[w] => u = w
    BY <1>2 DEF Inv, OnePlace, Fresh
  <2>3. running' \notin CallsOf(Items')
    BY DEF Inv, OnePlace, worker
  <2> QED BY <2>1, <2>2, <2>3 DEF OnePlace, Inv, CallsOf
<1>5. Waiting'
  <2>1. \A c \in Outstanding' : IsInvoked(c)' =>
           pc'[posting'[c].by] = "waiting" /\ at'[posting'[c].by] = c
    <3> SUFFICES ASSUME NEW c \in Outstanding, IsInvoked(c)'
                 PROVE  pc'[posting'[c].by] = "waiting" /\ at'[posting'[c].by] = c
      OBVIOUS
    <3>1. c \in 1 .. issued /\ IsInvoked(c) /\ posting'[c] = posting[c]
      OBVIOUS
    <3>2. pc[posting[c].by] = "waiting" /\ at[posting[c].by] = c
      BY <3>1 DEF Inv, Waiting
    <3>3. posting[c].by \in Thread
      BY <3>1 DEF Inv, TypeOK, Posting
    <3> QED BY <1>2, <3>1, <3>2, <3>3
  <2>2. \A u \in Thread : pc'[u] = "posting" => posting'[at'[u]].by = u
    BY <1>2 DEF Inv, Waiting, Fresh
  <2> QED BY <2>1, <2>2 DEF Waiting
<1>6. Phases'
  BY <1>2, SendQueueAssumption DEF Phases, Inv, queue, worker, Thread
<1> QED BY <1>1, <1>3, <1>4, <1>5, <1>6 DEF Inv

\* The steps in which a thread begins to send or to close.
LEMMA CallsInv ==
    ASSUME Inv, NEW t \in Caller,
           QueueData(t) \/ SendData(t) \/ Close(t)
    PROVE  Inv'
<1>1. t \in Thread /\ t # Stopper
  BY SendQueueAssumption DEF Thread
<1>2. ValuesKept /\ UNCHANGED <<queue, worker, results>>
  BY DEF ValuesKept, QueueData, SendData, Close, updates, Inv, TypeOK
<1>3. PICK kind \in {"queued", "sync", "close"} : Begin(t, kind, NoKey)
  BY DEF QueueData, SendData, Close
<1> QED BY <1>1, <1>2, <1>3, BeginInv DEF Kind

LEMMA ShutdownInv ==
    ASSUME Inv, Shutdown
    PROVE  Inv'
<1>1. ValuesKept /\ UNCHANGED <<queue, worker, results>>
  BY DEF ValuesKept, Shutdown, updates, Inv, TypeOK
<1> QED BY <1>1, BeginInv DEF Kind, Shutdown, Thread

LEMMA CreateInv ==
    ASSUME Inv, NEW t \in Caller, NEW k \in Key, CreateUpdate(t, k)
    PROVE  Inv'
<1>1. t \in Thread /\ "latest" \in Kind
  BY DEF Thread, Kind
<1>2. Begin(t, "latest", k) /\ Number(t, "latest", k)
  BY DEF CreateUpdate, Begin
<1>3. issued' = issued + 1 /\ issued' \in Call /\ posting'[issued'].kind = "latest"
  BY <1>1, <1>2, NumberFacts
<1>4. issued' \in CallOrNone
  BY <1>3 DEF Call, CallOrNone
<1>5. ValuesKept
  BY <1>3, <1>4 DEF ValuesKept, CreateUpdate, Inv, TypeOK
<1> QED BY <1>1, <1>2, <1>5, BeginInv DEF CreateUpdate

LEMMA ReplaceInv ==
    ASSUME Inv, NEW t \in Caller, NEW k \in Key, ReplaceUpdate(t, k)
    PROVE  Inv'
<1>1. t \in Thread /\ "latest" \in Kind /\ Number(t, "latest", k)
  BY DEF Thread, Kind, ReplaceUpdate
<1> USE <1>1, NumberFacts
<1>2. issued' \in CallOrNone
  BY DEF Call, CallOrNone
<1>3. ValuesKept /\ UNCHANGED <<threads, clock, queue, worker, results>>
  BY <1>2 DEF ValuesKept, ReplaceUpdate, SetValue, Inv, TypeOK
<1> USE <1>3, NumberInv
<1>4. TypeOK'
  BY <1>2 DEF TypeOK, Inv, ValuesKept, threads, queue, worker, results
<1>5. Fresh'
  <2>1. \A i \in Items' : i.call <= issued'
    <3>1. Items' = Items /\ issued' = issued + 1 /\ issued \in Nat
      OBVIOUS
    <3>2. \A i \in Items : i.call \in Nat /\ i.call <= issued
      BY DEF Inv, Fresh, TypeOK, Items, WorkItem, Call
    <3> QED BY <3>1, <3>2
  <2>2. running' <= issued' /\ outgoing' <= issued'
    BY DEF Inv, Fresh, worker, TypeOK, CallOrNone
  <2>3. \A u \in Thread : pc'[u] = "posting" => at'[u] \in 1 .. issued'
    BY DEF Inv, Fresh, threads
  <2> QED BY <2>1, <2>2, <2>3 DEF Fresh
<1>6. OnePlace'
  BY DEF OnePlace, Inv, CallsOf, threads, worker, results
<1>7. Waiting'
  <2>1. \A c \in Outstanding' : IsInvoked(c)' =>
           pc'[posting'[c].by] = "waiting" /\ at'[posting'[c].by] = c
    BY DEF Inv, Waiting, threads
  <2>2. \A u \in Thread : pc'[u] = "posting" => posting'[at'[u]].by = u
    BY DEF Inv, Waiting, Fresh, threads
  <2> QED BY <2>1, <2>2 DEF Waiting
<1>8. Phases'
  BY DEF Phases, Inv, queue, worker, threads
<1> QED BY <1>4, <1>5, <1>6, <1>7, <1>8 DEF Inv

-----------------------------------------------------------------------------
(* The steps of a posting thread.                                          *)

\* Where the outstanding calls are.
LEMMA OutstandingCases ==
    ASSUME NEW c
    PROVE  c \in Outstanding <=> \/ \E i \in Items : i.call = c
                                 \/ c = running /\ running # NoCall
BY DEF Outstanding, CallsOf, Items

LEMMA OutstandingTyped == TypeOK => Outstanding \subseteq Call
BY SendQueueAssumption
   DEF TypeOK, Outstanding, CallsOf, WorkItem, Call, CallOrNone, NoCall

LEMMA RemoveTyped ==
    ASSUME TypeOK, NEW c
    PROVE  RemoveUpdate(c) \in [Key -> CallOrNone]
BY SendQueueAssumption DEF RemoveUpdate, TypeOK, CallOrNone, NoCall

LEMMA PostInv ==
    ASSUME Inv, NEW t \in Thread, Post(t)
    PROVE  Inv'
<1> DEFINE c == at[t]
           item == [due |-> due[t], sequence |-> sequence, call |-> c]
<1>0. TypeOK /\ Fresh /\ OnePlace /\ Waiting /\ Phases /\ Values /\ Conserved
  BY DEF Inv
<1>1. /\ c \in 1 .. issued /\ c \in Call
      /\ c \notin Outstanding /\ reports[c] = 0 /\ posting[c].by = t
  BY <1>0, SendQueueAssumption
     DEF Post, Fresh, OnePlace, Waiting, TypeOK, CallOrNone, Call
<1>2. ~stopping /\ discarded = {} /\ discarded' = {}
  BY <1>0 DEF Post, Phases
<1>3. item \in WorkItem /\ item.call = c
  BY <1>0, <1>1 DEF TypeOK, WorkItem
<1>4. Items' = Items \union {item} /\ tasks' = tasks \union {item}
  BY <1>2 DEF Items, Post
<1>5. running' = running /\ outgoing' = outgoing /\ posting' = posting
      /\ reports' = reports /\ newest' = newest /\ at' = at /\ issued' = issued
  BY DEF Post, worker, updates, calls
<1>6. Outstanding' = Outstanding \union {c}
  BY <1>3, <1>4, <1>5 DEF Outstanding, CallsOf, Items
<1>7. /\ pc'[t] = IF IsInvoked(c) THEN "waiting" ELSE "idle"
      /\ \A u \in Thread \ {t} : pc'[u] = pc[u]
      /\ pc[t] = "posting"
  BY <1>0 DEF Post, TypeOK
<1>8. \A d \in Call : outcome'[d] = IF d = c THEN "accepted" ELSE outcome[d]
  BY <1>0 DEF Post, TypeOK
<1>9. TypeOK'
  <2>1. pc' \in [Thread -> Phase]
    BY <1>0 DEF Post, TypeOK, Phase
  <2>2. outcome' \in [Call -> Outcome]
    BY <1>0 DEF Post, TypeOK, Outcome
  <2>3. tasks' \in SUBSET WorkItem /\ sequence' \in Nat
    BY <1>0, <1>3, <1>4 DEF Post, TypeOK
  <2> QED BY <1>0, <2>1, <2>2, <2>3 DEF Post, TypeOK, calls, worker, updates
<1>10. Fresh'
  <2>1. \A i \in Items' : i.call <= issued'
    BY <1>0, <1>1, <1>3, <1>4, <1>5 DEF Fresh, TypeOK, CallOrNone
  <2>2. \A u \in Thread : pc'[u] = "posting" => at'[u] \in 1 .. issued'
    BY <1>0, <1>5, <1>7 DEF Fresh
  <2>3. \A d \in Call : d > issued' => reports'[d] = 0 /\ outcome'[d] = "none"
    BY <1>0, <1>1, <1>5, <1>8 DEF Fresh, TypeOK, CallOrNone, Call
  <2> QED BY <1>0, <1>5, <2>1, <2>2, <2>3 DEF Fresh
<1>11. OnePlace'
  <2>1. \A i, j \in Items' : i.call = j.call => i = j
    <3>1. \A i \in Items : i.call # c
      BY <1>1 DEF Outstanding, CallsOf, Items
    <3> QED BY <1>0, <1>3, <1>4, <3>1 DEF OnePlace
  <2>2. running' \notin CallsOf(Items')
    <3>1. running # c
      BY <1>1, SendQueueAssumption DEF Outstanding, Call, NoCall
    <3> QED BY <1>0, <1>3, <1>4, <1>5, <3>1 DEF OnePlace, CallsOf
  <2>3. \A u \in Thread : pc'[u] = "posting" =>
           at'[u] \notin Outstanding' /\ reports'[at'[u]] = 0
    BY <1>0, <1>5, <1>6, <1>7 DEF OnePlace
  <2>4. \A u, w \in Thread :
           pc'[u] = "posting" /\ pc'[w] = "posting" /\ at'[u] = at'[w] => u = w
    BY <1>0, <1>5, <1>7 DEF OnePlace
  <2> QED BY <2>1, <2>2, <2>3, <2>4 DEF OnePlace, CallsOf
<1>12. Waiting'
  <2>1. \A d \in Outstanding' : IsInvoked(d)' =>
           pc'[posting'[d].by] = "waiting" /\ at'[posting'[d].by] = d
    <3> SUFFICES ASSUME NEW d \in Outstanding', IsInvoked(d)
                 PROVE  pc'[posting[d].by] = "waiting" /\ at[posting[d].by] = d
      BY <1>5 DEF IsInvoked
    <3>1. CASE d = c
      BY <1>1, <1>7, <3>1
    <3>2. CASE d # c
      <4>1. d \in Outstanding /\ d \in Call
        BY <1>0, <1>6, <3>2, OutstandingTyped
      <4>2. pc[posting[d].by] = "waiting" /\ at[posting[d].by] = d
        BY <1>0, <4>1 DEF Waiting
      <4>3. posting[d].by \in Thread
        BY <1>0, <4>1 DEF TypeOK, Posting
      <4> QED BY <1>7, <4>2, <4>3
    <3> QED BY <3>1, <3>2
  <2>2. \A u \in Thread : pc'[u] = "posting" => posting'[at'[u]].by = u
    BY <1>0, <1>5, <1>7 DEF Waiting
  <2> QED BY <1>0, <1>5, <2>1, <2>2 DEF Waiting, IsInvoked
<1>13. Phases'
  <2>1. stopping' = stopping /\ pc'[Stopper] \notin {"canceling", "gone"}
    BY <1>0, <1>2, <1>7 DEF Phases, Post, Thread
  <2>2. \A u \in Caller : pc'[u] \in {"idle", "posting", "waiting"}
    BY <1>0, <1>7 DEF Phases, Thread
  <2> QED BY <1>2, <2>1, <2>2 DEF Phases
<1>14. Values'
  BY <1>0, <1>5 DEF Values
<1>15. Conserved'
  <2>1. QueuedCalls' \subseteq QueuedCalls \union {c}
    BY <1>5, <1>8 DEF QueuedCalls
  <2> QED BY <1>0, <1>1, <1>5, <1>6, <2>1 DEF Conserved
<1> QED BY <1>9, <1>10, <1>11, <1>12, <1>13, <1>14, <1>15 DEF Inv

LEMMA RefuseInv ==
    ASSUME Inv, NEW t \in Thread, Refuse(t)
    PROVE  Inv'
<1>0. TypeOK /\ Fresh /\ OnePlace /\ Waiting /\ Phases /\ Values /\ Conserved
  BY DEF Inv
<1>1. /\ pc'[t] = "idle" /\ pc[t] = "posting" /\ stopping
      /\ \A u \in Thread \ {t} : pc'[u] = pc[u]
  BY <1>0 DEF Refuse, TypeOK
<1>2. t \in Caller /\ t # Stopper
  BY <1>0, <1>1 DEF Phases, Thread
<1>3. /\ UNCHANGED <<at, due, issued, posting, clock, tasks, sequence, stopping>>
      /\ UNCHANGED <<discarded, running, outgoing, newest, closed, outcome, reports>>
  BY DEF Refuse, calls, queue, worker, results
<1>4. Items' = Items /\ Outstanding' = Outstanding /\ QueuedCalls' = QueuedCalls
  BY <1>3 DEF Items, Outstanding, CallsOf, QueuedCalls
<1>5. TypeOK'
  <2>1. pc' \in [Thread -> Phase]
    BY <1>0 DEF Refuse, TypeOK, Phase
  <2>2. latest' \in [Key -> CallOrNone]
    BY <1>0, RemoveTyped DEF Refuse
  <2> QED BY <1>0, <1>3, <2>1, <2>2 DEF TypeOK
<1>6. Fresh' /\ Values' /\ Conserved'
  BY <1>0, <1>1, <1>3, <1>4 DEF Fresh, Values, Conserved
<1>7. OnePlace'
  BY <1>0, <1>1, <1>3, <1>4 DEF OnePlace, CallsOf
<1>8. Waiting'
  <2>1. \A d \in Outstanding' : IsInvoked(d)' =>
           pc'[posting'[d].by] = "waiting" /\ at'[posting'[d].by] = d
    <3> SUFFICES ASSUME NEW d \in Outstanding, IsInvoked(d)
                 PROVE  pc'[posting[d].by] = "waiting" /\ at[posting[d].by] = d
      BY <1>3, <1>4 DEF IsInvoked
    <3>1. pc[posting[d].by] = "waiting" /\ at[posting[d].by] = d
      BY <1>0 DEF Waiting
    <3>2. posting[d].by \in Thread
      BY <1>0, OutstandingTyped DEF TypeOK, Posting
    <3> QED BY <1>1, <3>1, <3>2
  <2>2. \A u \in Thread : pc'[u] = "posting" => posting'[at'[u]].by = u
    BY <1>0, <1>1, <1>3 DEF Waiting
  <2> QED BY <1>0, <1>3, <2>1, <2>2 DEF Waiting, IsInvoked
<1>9. Phases'
  BY <1>0, <1>1, <1>2, <1>3 DEF Phases, Thread
<1> QED BY <1>5, <1>6, <1>7, <1>8, <1>9 DEF Inv

-----------------------------------------------------------------------------
(* The steps of the executor and of the stopping thread.                   *)

\* A task that changes hands without running.
LEMMA TakeInv ==
    ASSUME Inv, Take
    PROVE  Inv'
<1>0. TypeOK /\ Fresh /\ OnePlace /\ Waiting /\ Phases /\ Values /\ Conserved
  BY DEF Inv
<1>1. PICK i \in tasks : /\ running = NoCall /\ ~stopping
                         /\ running' = i.call /\ tasks' = tasks \ {i}
  BY DEF Take, TakeOut
<1>2. /\ UNCHANGED <<pc, at, due, issued, posting, clock, sequence, stopping>>
      /\ UNCHANGED <<discarded, outgoing, latest, newest, closed, outcome, reports>>
  BY DEF Take, threads, calls, updates, results
<1>3. i \in Items /\ i.call \in Call /\ discarded = {}
  BY <1>0, <1>1 DEF Items, TypeOK, WorkItem, Phases
<1>4. Items' = Items \ {i}
  BY <1>1, <1>2, <1>3 DEF Items
<1>5. i.call # NoCall
  BY <1>3, SendQueueAssumption DEF Call, NoCall
<1>6. Outstanding' = Outstanding
  BY <1>1, <1>2, <1>3, <1>4, <1>5 DEF Outstanding, CallsOf, Items
<1>7. TypeOK'
  BY <1>0, <1>1, <1>2, <1>3, SendQueueAssumption DEF TypeOK, Call, CallOrNone
<1>8. Fresh' /\ Values'
  BY <1>0, <1>1, <1>2, <1>3, <1>4 DEF Fresh, Values
<1>9. OnePlace'
  <2>1. running' \notin CallsOf(Items')
    BY <1>0, <1>1, <1>3, <1>4 DEF OnePlace, CallsOf
  <2> QED BY <1>0, <1>2, <1>4, <1>6, <2>1 DEF OnePlace, CallsOf
<1>10. Waiting' /\ Conserved'
  <2>1. QueuedCalls' = QueuedCalls
    BY <1>2 DEF QueuedCalls
  <2> QED BY <1>0, <1>2, <1>6, <2>1 DEF Waiting, Conserved, IsInvoked
<1>11. Phases'
  BY <1>0, <1>1, <1>2, <1>3 DEF Phases
<1> QED BY <1>7, <1>8, <1>9, <1>10, <1>11 DEF Inv

LEMMA CollectInv ==
    ASSUME Inv, Collect
    PROVE  Inv'
<1>0. TypeOK /\ Fresh /\ OnePlace /\ Waiting /\ Phases /\ Values /\ Conserved
  BY DEF Inv
<1>1. /\ UNCHANGED <<pc, at, due, issued, posting, clock, tasks, sequence, stopping>>
      /\ UNCHANGED <<discarded, running, newest, closed, outcome, reports>>
      /\ outgoing' = newest[running] /\ running \in Call
  BY <1>0, SendQueueAssumption
     DEF Collect, threads, calls, queue, results, TypeOK, CallOrNone, Call, NoCall
<1>2. Items' = Items /\ Outstanding' = Outstanding /\ QueuedCalls' = QueuedCalls
  BY <1>1 DEF Items, Outstanding, CallsOf, QueuedCalls
<1>3. TypeOK'
  <2>1. latest' \in [Key -> CallOrNone]
    BY <1>0, RemoveTyped DEF Collect
  <2>2. outgoing' \in CallOrNone
    BY <1>0, <1>1 DEF TypeOK
  <2> QED BY <1>0, <1>1, <2>1, <2>2 DEF TypeOK
<1>4. Fresh' /\ Values' /\ Conserved' /\ Phases'
  BY <1>0, <1>1, <1>2 DEF Fresh, Values, Conserved, Phases
<1>5. OnePlace' /\ Waiting'
  BY <1>0, <1>1, <1>2 DEF OnePlace, Waiting, CallsOf, IsInvoked
<1> QED BY <1>3, <1>4, <1>5 DEF Inv

\* The data of the running task is its own or that of an update.
LEMMA DataFacts ==
    ASSUME Inv, running # NoCall, NEW c \in Call, c = Data
    PROVE  c = running \/ posting[c].kind = "latest"
<1>1. CASE posting[running].kind \in {"queued", "sync"}
  BY <1>1 DEF Data
<1>2. CASE posting[running].kind = "latest"
  <2>1. c = outgoing /\ c # NoCall
    BY <1>2 DEF Data, Call, NoCall
  <2> QED BY <2>1 DEF Inv, Values
<1>3. CASE posting[running].kind \notin {"queued", "sync", "latest"}
  <2>1. c = NoCall
    BY <1>3 DEF Data
  <2> QED BY <2>1 DEF Call, NoCall
<1> QED BY <1>1, <1>2, <1>3

LEMMA RunInv ==
    ASSUME Inv, Run
    PROVE  Inv'
<1>0. TypeOK /\ Fresh /\ OnePlace /\ Waiting /\ Phases /\ Values /\ Conserved
  BY DEF Inv
<1>1. /\ UNCHANGED <<at, due, issued, posting, clock, tasks, sequence, stopping>>
      /\ UNCHANGED <<discarded, latest, newest>>
      /\ running' = NoCall /\ outgoing' = NoCall /\ running \in Call
      /\ running # NoCall
  BY <1>0, SendQueueAssumption
     DEF Run, calls, queue, updates, TypeOK, CallOrNone, Call, NoCall
<1>2. /\ Items' = Items /\ running \in Outstanding
      /\ Outstanding' = Outstanding \ {running}
      /\ \A d \in Outstanding : d # running => d \in Outstanding'
  BY <1>0, <1>1 DEF Items, Outstanding, CallsOf, OnePlace
<1>3. \A d \in Call : reports'[d] = IF d = running /\ posting[d].kind = "queued"
                                   THEN reports[d] + 1 ELSE reports[d]
  BY DEF Run
<1>4. \A d \in Call : d # Data => outcome'[d] = outcome[d]
  BY DEF Run
<1>5. \A u \in Thread : \/ pc'[u] = pc[u]
                        \/ /\ IsInvoked(running) /\ u = posting[running].by
                           /\ pc'[u] = IF u = Stopper THEN "stopping" ELSE "idle"
  BY DEF Run, Woken
<1>6. IsInvoked(running) =>
         /\ pc[posting[running].by] = "waiting" /\ at[posting[running].by] = running
         /\ posting[running].by \in Thread
  BY <1>0, <1>1, <1>2 DEF Waiting, TypeOK, Posting
<1>7. \A u \in Thread : pc'[u] = pc[u] \/ (pc[u] = "waiting" /\ at[u] = running
                           /\ pc'[u] = IF u = Stopper THEN "stopping" ELSE "idle")
  BY <1>5, <1>6
<1>8. TypeOK'
  <2>1. pc' \in [Thread -> Phase]
    <3>1. pc' = [u \in Thread |-> pc'[u]]
      BY DEF Run
    <3>2. \A u \in Thread : pc'[u] \in Phase
      BY <1>0, <1>7 DEF TypeOK, Phase
    <3> QED BY <3>1, <3>2
  <2>2. outcome' \in [Call -> Outcome]
    BY <1>0 DEF Run, TypeOK, Outcome
  <2>3. reports' \in [Call -> Nat]
    BY <1>0 DEF Run, TypeOK
  <2>4. closed' \in BOOLEAN /\ NoCall \in CallOrNone
    BY <1>0, SendQueueAssumption DEF Run, TypeOK, CallOrNone, NoCall
  <2> QED BY <1>0, <1>1, <2>1, <2>2, <2>3, <2>4 DEF TypeOK
<1>9. Fresh'
  <2>1. \A i \in Items' : i.call <= issued'
    BY <1>0, <1>1, <1>2 DEF Fresh
  <2>2. running' <= issued' /\ outgoing' <= issued'
    BY <1>0, <1>1 DEF TypeOK, CallOrNone, NoCall
  <2>3. \A u \in Thread : pc'[u] = "posting" => at'[u] \in 1 .. issued'
    BY <1>0, <1>1, <1>7 DEF Fresh
  <2>4. \A d \in Call : d > issued' => reports'[d] = 0 /\ outcome'[d] = "none"
    <3> SUFFICES ASSUME NEW d \in Call, d > issued
                 PROVE  reports'[d] = 0 /\ outcome'[d] = "none"
      BY <1>1
    <3>1. d # running /\ d # outgoing
      BY <1>0 DEF Fresh, TypeOK, CallOrNone, Call
    <3>2. d # Data
      BY <3>1 DEF Data, Call, NoCall
    <3> QED BY <1>0, <1>3, <1>4, <3>1, <3>2 DEF Fresh
  <2> QED BY <1>0, <1>1, <2>1, <2>2, <2>3, <2>4 DEF Fresh
<1>10. OnePlace'
  <2>1. running' \notin CallsOf(Items')
    BY <1>0, <1>1, <1>2 DEF CallsOf, Items, TypeOK, WorkItem, Call, NoCall
  <2>2. \A u \in Thread : pc'[u] = "posting" =>
           at'[u] \notin Outstanding' /\ reports'[at'[u]] = 0
    <3> SUFFICES ASSUME NEW u \in Thread, pc'[u] = "posting"
                 PROVE  at[u] \notin Outstanding' /\ reports'[at[u]] = 0
      BY <1>1
    <3>1. pc[u] = "posting" /\ at[u] \notin Outstanding /\ reports[at[u]] = 0
      BY <1>0, <1>7 DEF OnePlace
    <3>2. at[u] # running /\ at[u] \in Call
      BY <1>0, <1>2, <3>1, SendQueueAssumption DEF Fresh, TypeOK, Call, CallOrNone
    <3> QED BY <1>2, <1>3, <3>1, <3>2
  <2>3. \A u, w \in Thread :
           pc'[u] = "posting" /\ pc'[w] = "posting" /\ at'[u] = at'[w] => u = w
    BY <1>0, <1>1, <1>7 DEF OnePlace
  <2> QED BY <1>0, <1>2, <2>1, <2>2, <2>3 DEF OnePlace, CallsOf
<1>11. Waiting'
  <2>1. \A d \in Outstanding' : IsInvoked(d)' =>
           pc'[posting'[d].by] = "waiting" /\ at'[posting'[d].by] = d
    <3> SUFFICES ASSUME NEW d \in Outstanding, d # running, IsInvoked(d)
                 PROVE  pc'[posting[d].by] = "waiting" /\ at[posting[d].by] = d
      BY <1>1, <1>2 DEF IsInvoked
    <3>1. pc[posting[d].by] = "waiting" /\ at[posting[d].by] = d
      BY <1>0 DEF Waiting
    <3>2. posting[d].by \in Thread
      BY <1>0, OutstandingTyped DEF TypeOK, Posting
    <3> QED BY <1>7, <3>1, <3>2
  <2>2. \A u \in Thread : pc'[u] = "posting" => posting'[at'[u]].by = u
    BY <1>0, <1>1, <1>7 DEF Waiting
  <2> QED BY <1>0, <1>1, <2>1, <2>2 DEF Waiting, IsInvoked
<1>12. Phases'
  <2>1. Stopper \in Thread /\ \A u \in Caller : u \in Thread /\ u # Stopper
    BY SendQueueAssumption DEF Thread
  <2>2. pc[Stopper] \in {"canceling", "gone"} <=> pc'[Stopper] \in {"canceling", "gone"}
    BY <1>7, <2>1
  <2>3. pc'[Stopper] = "gone" => pc[Stopper] = "gone"
    BY <1>7, <2>1
  <2>4. pc[Stopper] = "canceling" => pc'[Stopper] = "canceling"
    BY <1>7, <2>1
  <2>5. \A u \in Caller : pc'[u] \in {"idle", "posting", "waiting"}
    BY <1>0, <1>7, <2>1 DEF Phases
  <2> QED BY <1>0, <1>1, <2>2, <2>3, <2>4, <2>5 DEF Phases
<1>13. Values'
  BY <1>0, <1>1 DEF Values
<1>14. Conserved'
  <2>1. \A d \in Call : reports'[d] <= 1
    BY <1>0, <1>1, <1>2, <1>3 DEF Conserved, TypeOK
  <2>2. \A d \in Outstanding' : reports'[d] = 0
    BY <1>0, <1>2, <1>3, OutstandingTyped DEF Conserved
  <2>3. \A d \in QueuedCalls' : d \in Outstanding' \/ reports'[d] = 1
    <3> SUFFICES ASSUME NEW d \in Call, posting[d].kind = "queued",
                        outcome'[d] # "none"
                 PROVE  d \in Outstanding' \/ reports'[d] = 1
      BY <1>1 DEF QueuedCalls
    <3>1. CASE d = running
      BY <1>0, <1>2, <1>3, <3>1 DEF Conserved
    <3>2. CASE d # running
      <4>1. d # Data
        BY <1>1, <3>2, DataFacts
      <4>2. d \in QueuedCalls
        BY <1>4, <4>1 DEF QueuedCalls
      <4> QED BY <1>0, <1>2, <1>3, <3>2, <4>2 DEF Conserved
    <3> QED BY <3>1, <3>2
  <2> QED BY <2>1, <2>2, <2>3 DEF Conserved
<1> QED BY <1>8, <1>9, <1>10, <1>11, <1>12, <1>13, <1>14 DEF Inv

LEMMA StopInv ==
    ASSUME Inv, Stop
    PROVE  Inv'
<1>0. TypeOK /\ Fresh /\ OnePlace /\ Waiting /\ Phases /\ Values /\ Conserved
  BY DEF Inv
<1>1. /\ UNCHANGED <<at, due, issued, posting, clock, sequence, running, outgoing>>
      /\ UNCHANGED <<latest, newest, closed, outcome, reports>>
      /\ stopping' /\ tasks' = {} /\ discarded' = tasks
  BY DEF Stop, TakeOver, calls, worker, updates, results
<1>2. discarded = {}
  BY <1>0 DEF Phases, Stop
<1>3. Items' = Items /\ Outstanding' = Outstanding /\ QueuedCalls' = QueuedCalls
  BY <1>1, <1>2 DEF Items, Outstanding, CallsOf, QueuedCalls
<1>4. /\ pc[Stopper] = "stopping" /\ pc'[Stopper] = "canceling"
      /\ \A u \in Thread \ {Stopper} : pc'[u] = pc[u]
  BY <1>0 DEF Stop, TypeOK, Thread
<1>5. TypeOK'
  <2>1. pc' \in [Thread -> Phase]
    BY <1>0 DEF Stop, TypeOK, Phase
  <2> QED BY <1>0, <1>1, <2>1 DEF TypeOK, Stop
<1>6. Fresh' /\ Values' /\ Conserved'
  BY <1>0, <1>1, <1>3, <1>4 DEF Fresh, Values, Conserved
<1>7. OnePlace'
  BY <1>0, <1>1, <1>3, <1>4 DEF OnePlace, CallsOf
<1>8. Waiting'
  <2>1. \A d \in Outstanding' : IsInvoked(d)' =>
           pc'[posting'[d].by] = "waiting" /\ at'[posting'[d].by] = d
    <3> SUFFICES ASSUME NEW d \in Outstanding, IsInvoked(d)
                 PROVE  pc'[posting[d].by] = "waiting" /\ at[posting[d].by] = d
      BY <1>1, <1>3 DEF IsInvoked
    <3>1. pc[posting[d].by] = "waiting" /\ at[posting[d].by] = d
      BY <1>0 DEF Waiting
    <3>2. posting[d].by \in Thread
      BY <1>0, OutstandingTyped DEF TypeOK, Posting
    <3> QED BY <1>4, <3>1, <3>2
  <2>2. \A u \in Thread : pc'[u] = "posting" => posting'[at'[u]].by = u
    BY <1>0, <1>1, <1>4 DEF Waiting
  <2> QED BY <1>0, <1>1, <2>1, <2>2 DEF Waiting, IsInvoked
<1>9. Phases'
  BY <1>0, <1>1, <1>4, SendQueueAssumption DEF Phases, Thread
<1> QED BY <1>5, <1>6, <1>7, <1>8, <1>9 DEF Inv

LEMMA CancelInv ==
    ASSUME Inv, Cancel
    PROVE  Inv'
<1>0. TypeOK /\ Fresh /\ OnePlace /\ Waiting /\ Phases /\ Values /\ Conserved
  BY DEF Inv
<1>1. PICK i \in discarded :
         /\ pc[Stopper] = "canceling" /\ discarded' = discarded \ {i}
         /\ reports' = [d \in Call |-> IF d = i.call /\ posting[d].kind = "queued"
                                       THEN reports[d] + 1 ELSE reports[d]]
         /\ latest' = RemoveUpdate(i.call)
  BY DEF Cancel
<1>2. /\ UNCHANGED <<pc, at, due, issued, posting, clock, tasks, sequence, stopping>>
      /\ UNCHANGED <<running, outgoing, newest, closed, outcome>>
  BY DEF Cancel, threads, calls, worker
<1>3. i \in Items /\ i.call \in Call /\ tasks = {}
  BY <1>0, <1>1 DEF Items, TypeOK, WorkItem, Phases
<1>4. Items' = Items \ {i}
  BY <1>1, <1>2, <1>3 DEF Items
<1>5. i.call \in Outstanding /\ Outstanding' = Outstanding \ {i.call}
  BY <1>0, <1>2, <1>3, <1>4 DEF Outstanding, CallsOf, Items, OnePlace
<1>6. \A d \in Call : d # i.call => reports'[d] = reports[d]
  BY <1>1
<1>7. TypeOK'
  <2>1. latest' \in [Key -> CallOrNone]
    BY <1>0, <1>1, RemoveTyped
  <2>2. reports' \in [Call -> Nat]
    BY <1>0, <1>1 DEF TypeOK
  <2> QED BY <1>0, <1>1, <1>2, <2>1, <2>2 DEF TypeOK
<1>8. Fresh'
  <2>1. i.call <= issued /\ issued \in Nat
    BY <1>0, <1>3 DEF Fresh, TypeOK, CallOrNone
  <2>2. \A d \in Call : d > issued => reports'[d] = 0
    BY <1>0, <1>3, <1>6, <2>1 DEF Fresh, Call
  <2> QED BY <1>0, <1>2, <1>4, <2>2 DEF Fresh
<1>9. OnePlace'
  <2>1. \A u \in Thread : pc'[u] = "posting" =>
           at'[u] \notin Outstanding' /\ reports'[at'[u]] = 0
    <3> SUFFICES ASSUME NEW u \in Thread, pc[u] = "posting"
                 PROVE  at[u] \notin Outstanding' /\ reports'[at[u]] = 0
      BY <1>2
    <3>1. at[u] \in Call /\ at[u] \notin Outstanding /\ reports[at[u]] = 0
      BY <1>0, SendQueueAssumption DEF OnePlace, Fresh, TypeOK, CallOrNone, Call
    <3> QED BY <1>5, <1>6, <3>1
  <2> QED BY <1>0, <1>2, <1>4, <2>1 DEF OnePlace, CallsOf
<1>10. Waiting' /\ Phases' /\ Values'
  <2>1. Waiting'
    BY <1>0, <1>2, <1>5 DEF Waiting, IsInvoked
  <2>2. Phases'
    BY <1>0, <1>1, <1>2 DEF Phases
  <2> QED BY <1>0, <1>2, <2>1, <2>2 DEF Values
<1>11. Conserved'
  <2>1. QueuedCalls' = QueuedCalls
    BY <1>2 DEF QueuedCalls
  <2>2. reports[i.call] = 0 /\ (posting[i.call].kind = "queued" => reports'[i.call] = 1)
    BY <1>0, <1>1, <1>3, <1>5 DEF Conserved
  <2>3. \A d \in Call : reports'[d] <= 1
    BY <1>0, <1>1, <2>2 DEF Conserved
  <2>4. \A d \in Outstanding' : reports'[d] = 0
    BY <1>0, <1>5, <1>6, OutstandingTyped DEF Conserved
  <2>5. \A d \in QueuedCalls : d \in Outstanding' \/ reports'[d] = 1
    BY <1>0, <1>5, <1>6, <2>2 DEF Conserved, QueuedCalls
  <2> QED BY <2>1, <2>3, <2>4, <2>5 DEF Conserved
<1> QED BY <1>7, <1>8, <1>9, <1>10, <1>11 DEF Inv

LEMMA JoinInv ==
    ASSUME Inv, Join
    PROVE  Inv'
<1>0. TypeOK /\ Fresh /\ OnePlace /\ Waiting /\ Phases /\ Values /\ Conserved
  BY DEF Inv
<1>1. /\ UNCHANGED <<at, due, issued, posting, clock, tasks, sequence, stopping>>
      /\ UNCHANGED <<discarded, running, outgoing, latest, newest, closed>>
      /\ UNCHANGED <<outcome, reports>>
      /\ discarded = {} /\ running = NoCall
  BY DEF Join, ThreadEnded, calls, queue, worker, updates, results
<1>2. /\ pc[Stopper] = "canceling" /\ pc'[Stopper] = "gone"
      /\ \A u \in Thread \ {Stopper} : pc'[u] = pc[u]
  BY <1>0 DEF Join, TypeOK, Thread
<1>3. Items' = Items /\ Outstanding' = Outstanding /\ QueuedCalls' = QueuedCalls
  BY <1>1 DEF Items, Outstanding, CallsOf, QueuedCalls
<1>4. Outstanding = {}
  BY <1>0, <1>1, <1>2 DEF Phases, Outstanding, CallsOf
<1>5. TypeOK'
  <2>1. pc' \in [Thread -> Phase]
    BY <1>0 DEF Join, TypeOK, Phase
  <2> QED BY <1>0, <1>1, <2>1 DEF TypeOK
<1>6. Fresh' /\ Values' /\ Conserved'
  BY <1>0, <1>1, <1>2, <1>3 DEF Fresh, Values, Conserved
<1>7. OnePlace' /\ Waiting'
  <2>1. OnePlace'
    BY <1>0, <1>1, <1>2, <1>3 DEF OnePlace, CallsOf
  <2> QED BY <1>0, <1>1, <1>2, <1>3, <1>4, <2>1 DEF Waiting, IsInvoked
<1>8. Phases'
  BY <1>0, <1>1, <1>2, SendQueueAssumption DEF Phases, Thread
<1> QED BY <1>5, <1>6, <1>7, <1>8 DEF Inv

-----------------------------------------------------------------------------
(* The theorems.                                                           *)

LEMMA StepInv == Inv /\ [Next]_vars => Inv'
<1> SUFFICES ASSUME Inv, [Next]_vars PROVE Inv'
  OBVIOUS
<1>1. CASE Calls
  BY <1>1, CallsInv, CreateInv, ReplaceInv DEF Calls
<1>2. CASE Posts
  BY <1>2, PostInv, RefuseInv DEF Posts
<1>3. CASE Executor
  BY <1>3, TakeInv, CollectInv, RunInv DEF Executor
<1>4. CASE Stopping
  BY <1>4, ShutdownInv, StopInv, CancelInv, JoinInv DEF Stopping
<1>5. CASE UNCHANGED vars
  BY <1>5 DEF vars, threads, calls, queue, worker, updates, results, Inv, TypeOK,
              Fresh, OnePlace, Waiting, Phases, Values, Conserved, Items,
              Outstanding, QueuedCalls, CallsOf, IsInvoked
<1> QED BY <1>1, <1>2, <1>3, <1>4, <1>5 DEF Next

\* The inductive invariant of the send path.
THEOREM Invariance == Spec => []Inv
BY InitInv, StepInv, PTL DEF Spec

\* The variables of the send path hold values of their types.
THEOREM TypeCorrect == Spec => []TypeOK
<1>1. Inv => TypeOK
  BY DEF Inv
<1> QED BY <1>1, Invariance, PTL

\* Every send that QueueData accepts reports exactly once: not twice, not
\* before it left the executor, and always by the time a shutdown returns.
THEOREM ReportsOnce == Spec => []ReportedOnce
<1>1. Inv => ReportedOnce
  <2> SUFFICES ASSUME Inv PROVE ReportedOnce
    OBVIOUS
  <2>1. pc[Stopper] = "gone" => Outstanding = {}
    BY DEF Inv, Phases, Outstanding, CallsOf
  <2> QED BY <2>1 DEF Inv, Conserved, ReportedOnce
<1> QED BY <1>1, Invariance, PTL

\* After a shutdown has returned no completion runs and the session is left
\* alone.
THEOREM Quiet == Spec => QuietAfterShutdown
<1>1. Inv /\ [Next]_vars => (pc[Stopper] = "gone" => UNCHANGED results)
  <2> SUFFICES ASSUME Inv, Next, pc[Stopper] = "gone" PROVE UNCHANGED results
    BY DEF vars
  <2>1. stopping /\ tasks = {} /\ discarded = {} /\ running = NoCall
    BY DEF Inv, Phases
  <2>2. CASE Calls
    BY <2>2 DEF Calls, QueueData, SendData, Close, ReplaceUpdate, CreateUpdate
  <2>3. CASE Posts
    BY <2>1, <2>3 DEF Posts, Post, Refuse
  <2>4. CASE Executor
    BY <2>1, <2>4 DEF Executor, Take, Collect, Run
  <2>5. CASE Stopping
    BY <2>1, <2>5 DEF Stopping, Shutdown, Begin, Number, Stop, Cancel, Join
  <2> QED BY <2>2, <2>3, <2>4, <2>5 DEF Next
<1> QED BY <1>1, Invariance, PTL DEF Spec, QuietAfterShutdown

-----------------------------------------------------------------------------
(* The order of a thread's data.                                           *)

SameThread(c, d) == posting[c].by = posting[d].by

IsData(c) == posting[c].kind \in {"queued", "sync"}

\* The readings that the order of the queue goes by come from one clock and
\* one counter, which never fall.
Clocked ==
    /\ \A t \in Thread : due[t] <= clock
    /\ \A i \in tasks : i.due <= clock /\ i.sequence < sequence

\* A thread posts its newest call, and reads its due time after those of the
\* tasks it has posted.
PostsNewest ==
    \A t \in Thread : pc[t] = "posting" =>
        /\ \A c \in 1 .. issued : posting[c].by = t => c <= at[t]
        /\ \A i \in tasks : posting[i.call].by = t => i.due <= due[t]

\* The queue holds the tasks of a thread in the order of its calls.
QueueInOrder ==
    \A i, j \in tasks :
        SameThread(i.call, j.call) /\ i.call < j.call => Precedes(i, j)

\* Data that was accepted waits for its turn, and the running task is the
\* oldest of its thread, until the executor stops and the rest is canceled.
OldestRuns ==
    /\ ~stopping => \A c \in Call :
           IsData(c) /\ outcome[c] = "accepted" => c \in CallsOf(tasks) \/ c = running
    /\ running # NoCall => \A c \in Call :
           SameThread(c, running) /\ IsData(c) /\ outcome[c] = "accepted" => running <= c

Ordered == Clocked /\ PostsNewest /\ QueueInOrder /\ OldestRuns /\ SentInCallOrder

-----------------------------------------------------------------------------
(* The pending updates.                                                    *)

\* Only callers post updates, each for a key.
FromCallers ==
    \A c \in Call : posting[c].kind = "latest" =>
        c \in 1 .. issued /\ posting[c].by \in Caller /\ posting[c].key \in Key

\* What is collected is handed over by the task that collected it.
Collected == running = NoCall => outgoing = NoCall

\* An entry of the map is an update of its key and carries one, newer than
\* what its task's predecessor has collected.
Entries ==
    \A k \in Key : latest[k] # NoCall =>
        /\ latest[k] \in ValuesOf(k)
        /\ newest[latest[k]] \in ValuesOf(k)
        /\ outgoing \in ValuesOf(k) => outgoing < newest[latest[k]]

Collapsed == FromCallers /\ Collected /\ Entries /\ UpdatesCollapse


\* The calls that have left a trace have a number.
LEMMA Traces ==
    ASSUME Inv
    PROVE  /\ issued \in Nat /\ clock \in Nat /\ sequence \in Nat
           /\ \A i \in tasks : /\ i.call \in Call /\ i.call \in 1 .. issued
                               /\ i.due \in Nat /\ i.sequence \in Nat
           /\ running # NoCall => running \in Call /\ running \in 1 .. issued
           /\ \A c \in Call : outcome[c] # "none" => c \in 1 .. issued
           /\ \A t \in Thread : pc[t] = "posting" => at[t] \in Call /\ at[t] \in 1 .. issued
           /\ \A t \in Thread : due[t] \in Nat
<1>1. issued \in Nat /\ clock \in Nat /\ sequence \in Nat /\ issued <= MaxCalls
  BY SendQueueAssumption DEF Inv, TypeOK, CallOrNone
<1>2. \A i \in tasks : /\ i.call \in Call /\ i.call \in 1 .. issued
                       /\ i.due \in Nat /\ i.sequence \in Nat
  BY <1>1, SendQueueAssumption DEF Inv, TypeOK, Fresh, Items, WorkItem, Call
<1>3. running # NoCall => running \in Call /\ running \in 1 .. issued
  BY <1>1, SendQueueAssumption DEF Inv, TypeOK, Fresh, CallOrNone, Call, NoCall
<1>4. \A c \in Call : outcome[c] # "none" => c \in 1 .. issued
  BY <1>1, SendQueueAssumption DEF Inv, Fresh, Call
<1>5. \A t \in Thread : pc[t] = "posting" => at[t] \in Call /\ at[t] \in 1 .. issued
  BY <1>1, SendQueueAssumption DEF Inv, Fresh, Call
<1> QED BY <1>1, <1>2, <1>3, <1>4, <1>5 DEF Inv, TypeOK

LEMMA InitOrdered == Init => Ordered
<1> SUFFICES ASSUME Init PROVE Ordered
  OBVIOUS
<1>1. Clocked /\ PostsNewest /\ QueueInOrder
  BY DEF Init, Clocked, PostsNewest, QueueInOrder
<1>2. OldestRuns /\ SentInCallOrder
  BY DEF Init, OldestRuns, SentInCallOrder, IsData
<1> QED BY <1>1, <1>2 DEF Ordered

\* A call that gets a number is the newest of its thread, and reads the clock
\* last.
LEMMA NumberOrdered ==
    ASSUME Inv, Ordered, NEW t \in Thread, NEW kind \in Kind,
           NEW key \in Key \union {NoKey}, Number(t, kind, key),
           UNCHANGED <<tasks, sequence, stopping, running, outcome>>,
           clock' \in Nat, clock <= clock',
           \A u \in Thread \ {t} : pc'[u] = pc[u] /\ at'[u] = at[u] /\ due'[u] = due[u],
           \/ pc'[t] = "idle" /\ due'[t] = due[t]
           \/ pc'[t] = "posting" /\ at'[t] = issued' /\ due'[t] = clock'
    PROVE  Ordered'
<1> USE Traces
<1>0. Clocked /\ PostsNewest /\ QueueInOrder /\ OldestRuns /\ SentInCallOrder
  BY DEF Ordered
<1>1. /\ issued' = issued + 1
      /\ \A c \in 1 .. issued : c \in Call /\ posting'[c] = posting[c]
      /\ posting'[issued'].by = t
  BY NumberFacts
<1>2. \A c, d \in 1 .. issued : SameThread(c, d)' = SameThread(c, d)
  BY <1>1 DEF SameThread
<1>3. \A c \in 1 .. issued : IsData(c)' = IsData(c)
  BY <1>1 DEF IsData
<1>4. Clocked'
  <2>1. \A u \in Thread : due'[u] <= clock'
    BY <1>0 DEF Clocked
  <2>2. \A i \in tasks : i.due <= clock' /\ i.sequence < sequence
    BY <1>0 DEF Clocked
  <2> QED BY <2>1, <2>2 DEF Clocked
<1>5. PostsNewest'
  <2> SUFFICES ASSUME NEW u \in Thread, pc'[u] = "posting"
               PROVE  /\ \A c \in 1 .. issued' : posting'[c].by = u => c <= at'[u]
                      /\ \A i \in tasks : posting'[i.call].by = u => i.due <= due'[u]
    BY DEF PostsNewest
  <2>1. CASE u = t
    <3>1. at'[u] = issued' /\ due'[u] = clock'
      BY <2>1
    <3>2. \A i \in tasks : i.due <= clock'
      BY <1>0 DEF Clocked
    <3> QED BY <3>1, <3>2
  <2>2. CASE u # t
    <3>1. pc[u] = "posting" /\ at'[u] = at[u] /\ due'[u] = due[u]
      BY <2>2
    <3>2. \A c \in 1 .. issued' : posting'[c].by = u => c \in 1 .. issued
      BY <1>1, <2>2
    <3> QED BY <1>0, <1>1, <3>1, <3>2 DEF PostsNewest
  <2> QED BY <2>1, <2>2
<1>6. QueueInOrder'
  <2> SUFFICES ASSUME NEW i \in tasks, NEW j \in tasks,
                      SameThread(i.call, j.call)', i.call < j.call
               PROVE  Precedes(i, j)
    BY DEF QueueInOrder, Precedes
  <2> QED BY <1>0, <1>2 DEF QueueInOrder
<1>7. OldestRuns'
  <2>1. ~stopping => \A c \in Call :
           IsData(c)' /\ outcome[c] = "accepted" => c \in CallsOf(tasks) \/ c = running
    BY <1>0, <1>3 DEF OldestRuns
  <2>2. running # NoCall => \A c \in Call :
           SameThread(c, running)' /\ IsData(c)' /\ outcome[c] = "accepted"
               => running <= c
    <3> SUFFICES ASSUME running # NoCall, NEW c \in Call, SameThread(c, running)',
                        IsData(c)', outcome[c] = "accepted"
                 PROVE  running <= c
      OBVIOUS
    <3>1. c \in 1 .. issued /\ running \in 1 .. issued
      OBVIOUS
    <3>2. SameThread(c, running) /\ IsData(c)
      BY <1>2, <1>3, <3>1 DEF SameThread
    <3> QED BY <1>0, <3>2 DEF OldestRuns
  <2> QED BY <2>1, <2>2 DEF OldestRuns, CallsOf
<1>8. SentInCallOrder'
  <2> SUFFICES ASSUME NEW c \in Call, NEW d \in Call, c < d,
                      posting'[c].by = posting'[d].by,
                      {posting'[c].kind, posting'[d].kind} \subseteq {"queued", "sync"},
                      outcome[c] = "accepted", outcome[d] \in {"sent", "refused"}
               PROVE  FALSE
    BY DEF SentInCallOrder, Handed
  <2>1. c \in 1 .. issued /\ d \in 1 .. issued
    OBVIOUS
  <2>2. posting'[c] = posting[c] /\ posting'[d] = posting[d]
    BY <1>1, <2>1
  <2> QED BY <1>0, <2>2 DEF SentInCallOrder, Handed
<1> QED BY <1>4, <1>5, <1>6, <1>7, <1>8 DEF Ordered

LEMMA BeginOrdered ==
    ASSUME Inv, Ordered, NEW t \in Thread, NEW kind \in Kind,
           NEW key \in Key \union {NoKey}, Begin(t, kind, key),
           UNCHANGED <<queue, worker, results>>
    PROVE  Ordered'
<1>1. Number(t, kind, key)
  BY DEF Begin
<1>2. clock' \in Nat /\ clock <= clock'
  BY DEF Begin, Readings, Inv, TypeOK
<1>3. \A u \in Thread \ {t} : pc'[u] = pc[u] /\ at'[u] = at[u] /\ due'[u] = due[u]
  BY DEF Begin, Inv, TypeOK
<1>4. pc'[t] = "posting" /\ at'[t] = issued' /\ due'[t] = clock'
  BY <1>1 DEF Begin, Number, Inv, TypeOK
<1>5. UNCHANGED <<tasks, sequence, stopping, running, outcome>>
  BY DEF queue, worker, results
<1> QED BY <1>1, <1>2, <1>3, <1>4, <1>5, NumberOrdered

LEMMA CallsOrdered ==
    ASSUME Inv, Ordered, Calls \/ Shutdown
    PROVE  Ordered'
<1> USE DEF Kind, Thread
<1>1. CASE Shutdown
  BY <1>1, BeginOrdered DEF Shutdown
<1>2. ASSUME NEW t \in Caller, QueueData(t) \/ SendData(t) \/ Close(t)
      PROVE  Ordered'
  <2>1. PICK kind \in {"queued", "sync", "close"} : Begin(t, kind, NoKey)
    BY <1>2 DEF QueueData, SendData, Close
  <2>2. UNCHANGED <<queue, worker, results>>
    BY <1>2 DEF QueueData, SendData, Close
  <2> QED BY <2>1, <2>2, BeginOrdered
<1>3. ASSUME NEW t \in Caller, NEW k \in Key, CreateUpdate(t, k)
      PROVE  Ordered'
  BY <1>3, BeginOrdered DEF CreateUpdate
<1>4. ASSUME NEW t \in Caller, NEW k \in Key, ReplaceUpdate(t, k)
      PROVE  Ordered'
  <2>1. Number(t, "latest", k) /\ pc[t] = "idle"
    BY <1>4 DEF ReplaceUpdate, Number
  <2>2. UNCHANGED <<pc, at, due, clock, tasks, sequence, stopping, running, outcome>>
    BY <1>4 DEF ReplaceUpdate, threads, queue, worker, results
  <2>3. clock' \in Nat /\ clock <= clock'
    BY <2>2 DEF Inv, TypeOK
  <2> QED BY <2>1, <2>2, <2>3, NumberOrdered
<1> QED BY <1>1, <1>2, <1>3, <1>4 DEF Calls

\* The newest call of a thread goes behind what the thread has in the queue.
LEMMA PostOrdered ==
    ASSUME Inv, Ordered, NEW t \in Thread, Post(t)
    PROVE  Ordered'
<1> DEFINE c == at[t]
           item == [due |-> due[t], sequence |-> sequence, call |-> c]
<1> USE Traces
<1>0. Clocked /\ PostsNewest /\ QueueInOrder /\ OldestRuns /\ SentInCallOrder
  BY DEF Ordered
<1>1. /\ UNCHANGED <<at, due, issued, posting, clock, stopping, running>>
      /\ ~stopping /\ tasks' = tasks \union {item} /\ sequence' = sequence + 1
  BY DEF Post, calls, worker
<1>2. c \in Call /\ c \in 1 .. issued /\ posting[c].by = t
  BY DEF Inv, Waiting, Post
<1>3. \A i \in tasks : i.call # c
  BY DEF Inv, OnePlace, Post, Outstanding, CallsOf
<1>4. item.due = due[t] /\ item.sequence = sequence /\ item.call = c
  OBVIOUS
<1>5. \A d \in Call : outcome'[d] = IF d = c THEN "accepted" ELSE outcome[d]
  BY DEF Post, Inv, TypeOK
<1>6. \A u \in Thread : pc'[u] = "posting" => u # t /\ pc[u] = "posting"
  BY DEF Post, Inv, TypeOK
<1>7. \A d \in 1 .. issued : posting[d].by = t => d <= c
  BY <1>0 DEF PostsNewest, Post
<1>8. \A i \in tasks : posting[i.call].by = t => i.due <= due[t] /\ i.call < c
  BY <1>0, <1>3, <1>7 DEF PostsNewest, Post
<1> HIDE DEF c, item
<1>9. Clocked'
  <2>1. \A i \in tasks' : i.due <= clock /\ i.sequence < sequence + 1
    BY <1>0, <1>1, <1>4 DEF Clocked
  <2> QED BY <1>0, <1>1, <2>1 DEF Clocked
<1>10. PostsNewest'
  <2> SUFFICES ASSUME NEW u \in Thread, pc'[u] = "posting"
               PROVE  /\ \A d \in 1 .. issued : posting[d].by = u => d <= at[u]
                      /\ \A i \in tasks' : posting[i.call].by = u => i.due <= due[u]
    BY <1>1 DEF PostsNewest
  <2> QED BY <1>0, <1>1, <1>2, <1>4, <1>6 DEF PostsNewest
<1>11. QueueInOrder'
  <2> SUFFICES ASSUME NEW i \in tasks', NEW j \in tasks',
                      SameThread(i.call, j.call), i.call < j.call
               PROVE  Precedes(i, j)
    BY <1>1 DEF QueueInOrder, Precedes, SameThread
  <2>1. CASE i \in tasks /\ j \in tasks
    BY <1>0, <2>1 DEF QueueInOrder
  <2>2. CASE i \in tasks /\ j = item
    <3>1. i.due <= due[t] /\ i.sequence < sequence
      BY <1>0, <1>2, <1>4, <1>8, <2>2 DEF SameThread, Clocked
    <3> QED BY <1>4, <2>2, <3>1 DEF Precedes
  <2>3. CASE i = item /\ j \in tasks
    BY <1>2, <1>4, <1>8, <2>3 DEF SameThread
  <2>4. CASE i = item /\ j = item
    BY <1>2, <1>4, <2>4
  <2> QED BY <1>1, <2>1, <2>2, <2>3, <2>4
<1>12. OldestRuns'
  <2>1. c \in CallsOf(tasks') /\ CallsOf(tasks) \subseteq CallsOf(tasks')
    BY <1>1, <1>4 DEF CallsOf
  <2>2. \A d \in Call : IsData(d) /\ outcome'[d] = "accepted"
           => d \in CallsOf(tasks') \/ d = running
    BY <1>0, <1>1, <1>5, <2>1 DEF OldestRuns
  <2>3. running # NoCall => \A d \in Call :
           SameThread(d, running) /\ IsData(d) /\ outcome'[d] = "accepted"
               => running <= d
    <3> SUFFICES ASSUME running # NoCall, NEW d \in Call, SameThread(d, running),
                        IsData(d), outcome'[d] = "accepted"
                 PROVE  running <= d
      OBVIOUS
    <3>1. CASE d = c
      BY <1>2, <1>7, <3>1 DEF SameThread
    <3>2. CASE d # c
      BY <1>0, <1>5, <3>2 DEF OldestRuns
    <3> QED BY <3>1, <3>2
  <2> QED BY <1>1, <2>2, <2>3 DEF OldestRuns, SameThread, IsData
<1>13. SentInCallOrder'
  <2> SUFFICES ASSUME NEW d \in Call, NEW e \in Call, d < e,
                      posting[d].by = posting[e].by,
                      {posting[d].kind, posting[e].kind} \subseteq {"queued", "sync"},
                      outcome'[d] = "accepted", outcome'[e] \in {"sent", "refused"}
               PROVE  FALSE
    BY <1>1 DEF SentInCallOrder, Handed
  <2>1. e # c /\ outcome[e] = outcome'[e] /\ e \in 1 .. issued
    BY <1>5
  <2>2. CASE d = c
    BY <1>2, <1>7, <2>1, <2>2
  <2>3. CASE d # c
    BY <1>0, <1>5, <2>1, <2>3 DEF SentInCallOrder, Handed
  <2> QED BY <2>2, <2>3
<1> QED BY <1>9, <1>10, <1>11, <1>12, <1>13 DEF Ordered

\* The first task of the queue is the oldest of its thread.
LEMMA TakeOrdered ==
    ASSUME Inv, Ordered, Take
    PROVE  Ordered'
<1> USE Traces
<1>0. Clocked /\ PostsNewest /\ QueueInOrder /\ OldestRuns /\ SentInCallOrder
  BY DEF Ordered
<1>1. PICK i \in tasks : /\ running = NoCall /\ ~stopping /\ IsTop(i, tasks)
                         /\ running' = i.call /\ tasks' = tasks \ {i}
  BY DEF Take, TakeOut
<1>2. UNCHANGED <<pc, at, due, issued, posting, clock, sequence, stopping, outcome>>
  BY DEF Take, threads, calls, results
<1>3. Clocked' /\ PostsNewest' /\ QueueInOrder' /\ SentInCallOrder'
  <2>1. Clocked' /\ PostsNewest'
    BY <1>0, <1>1, <1>2 DEF Clocked, PostsNewest
  <2>2. QueueInOrder'
    BY <1>0, <1>1, <1>2 DEF QueueInOrder, SameThread, Precedes
  <2> QED BY <1>0, <1>2, <2>1, <2>2 DEF SentInCallOrder, Handed
<1>4. OldestRuns'
  <2>1. \A c \in Call : IsData(c) /\ outcome[c] = "accepted" => c \in CallsOf(tasks)
    BY <1>0, <1>1, SendQueueAssumption DEF OldestRuns, Call, NoCall
  <2>2. \A c \in Call : IsData(c) /\ outcome[c] = "accepted"
           => c \in CallsOf(tasks \ {i}) \/ c = i.call
    BY <2>1 DEF CallsOf
  <2>3. \A c \in Call : SameThread(c, i.call) /\ IsData(c) /\ outcome[c] = "accepted"
           => i.call <= c
    <3> SUFFICES ASSUME NEW c \in Call, SameThread(c, i.call), IsData(c),
                        outcome[c] = "accepted", c < i.call
                 PROVE  FALSE
      BY DEF Call
    <3>1. PICK j \in tasks : j.call = c
      BY <2>1 DEF CallsOf
    <3>2. Precedes(j, i) /\ j # i
      BY <1>0, <3>1 DEF QueueInOrder
    <3>3. Precedes(i, j)
      BY <1>1, <3>2 DEF IsTop
    <3> QED BY <3>2, <3>3 DEF Precedes
  <2> QED BY <1>1, <1>2, <2>2, <2>3 DEF OldestRuns, CallsOf, SameThread, IsData
<1> QED BY <1>3, <1>4 DEF Ordered

\* The running task hands over the oldest data of its thread.
LEMMA RunOrdered ==
    ASSUME Inv, Ordered, Run
    PROVE  Ordered'
<1> USE Traces
<1>0. Clocked /\ PostsNewest /\ QueueInOrder /\ OldestRuns /\ SentInCallOrder
  BY DEF Ordered
<1>1. /\ UNCHANGED <<at, due, issued, posting, clock, tasks, sequence, stopping>>
      /\ running' = NoCall /\ running # NoCall
  BY DEF Run, calls, queue
<1>2. \A u \in Thread : pc'[u] = "posting" => pc[u] = "posting"
  BY DEF Run
<1>3. \A c \in Call : c # Data => outcome'[c] = outcome[c]
  BY DEF Run
<1>4. \A c \in Call : c = Data => outcome'[c] \in {"sent", "refused"}
  BY DEF Run
<1>5. \A c \in Call : IsData(c) => (c = Data <=> c = running)
  BY <1>1, DataFacts DEF IsData, Data
<1>6. Clocked' /\ PostsNewest' /\ QueueInOrder'
  <2>1. Clocked' /\ PostsNewest'
    BY <1>0, <1>1, <1>2 DEF Clocked, PostsNewest
  <2> QED BY <1>0, <1>1, <2>1 DEF QueueInOrder, SameThread, Precedes
<1>7. OldestRuns'
  <2>1. \A c \in Call : IsData(c) /\ outcome'[c] = "accepted"
           => c # running /\ outcome[c] = "accepted"
    BY <1>3, <1>4, <1>5
  <2> QED BY <1>0, <1>1, <2>1 DEF OldestRuns, IsData, CallsOf
<1>8. SentInCallOrder'
  <2> SUFFICES ASSUME NEW c \in Call, NEW d \in Call, c < d, SameThread(c, d),
                      IsData(c), IsData(d),
                      outcome'[c] = "accepted", outcome'[d] \in {"sent", "refused"}
               PROVE  FALSE
    BY <1>1 DEF SentInCallOrder, Handed, SameThread, IsData
  <2>1. outcome[c] = "accepted" /\ c # running
    BY <1>3, <1>4, <1>5
  <2>2. CASE d = running
    BY <1>0, <1>1, <2>1, <2>2 DEF OldestRuns, SameThread, Call
  <2>3. CASE d # running
    <3>1. outcome[d] \in {"sent", "refused"}
      BY <1>3, <1>5, <2>3
    <3> QED BY <1>0, <2>1, <3>1 DEF SentInCallOrder, Handed, SameThread, IsData
  <2> QED BY <2>2, <2>3
<1> QED BY <1>6, <1>7, <1>8 DEF Ordered

\* The other steps hand over nothing and put nothing into the queue.
LEMMA OthersOrdered ==
    ASSUME Inv, Ordered,
           UNCHANGED <<at, due, issued, posting, clock, sequence, running, outcome>>,
           tasks' \subseteq tasks, stopping' \/ (~stopping /\ tasks' = tasks),
           \A u \in Thread : pc'[u] = "posting" => pc[u] = "posting"
    PROVE  Ordered'
<1>0. Clocked /\ PostsNewest /\ QueueInOrder /\ OldestRuns /\ SentInCallOrder
  BY DEF Ordered
<1>1. Clocked' /\ PostsNewest'
  BY <1>0 DEF Clocked, PostsNewest
<1>2. QueueInOrder'
  BY <1>0 DEF QueueInOrder, SameThread, Precedes
<1>3. OldestRuns'
  <2>1. ~stopping' => tasks' = tasks /\ ~stopping
    OBVIOUS
  <2>2. CallsOf(tasks') = CallsOf(tasks) \/ stopping'
    BY <2>1
  <2>3. ~stopping' => \A c \in Call :
           IsData(c) /\ outcome[c] = "accepted" => c \in CallsOf(tasks') \/ c = running
    BY <1>0, <2>1, <2>2 DEF OldestRuns
  <2>4. running # NoCall => \A c \in Call :
           SameThread(c, running) /\ IsData(c) /\ outcome[c] = "accepted" => running <= c
    BY <1>0 DEF OldestRuns
  <2> QED BY <2>3, <2>4 DEF OldestRuns, SameThread, IsData, CallsOf
<1>4. SentInCallOrder'
  BY <1>0 DEF SentInCallOrder, Handed
<1> QED BY <1>1, <1>2, <1>3, <1>4 DEF Ordered

LEMMA StepOrdered == Inv /\ Ordered /\ [Next]_vars => Ordered'
<1> SUFFICES ASSUME Inv, Ordered, [Next]_vars PROVE Ordered'
  OBVIOUS
<1>1. CASE Calls
  BY <1>1, CallsOrdered
<1>2. ASSUME NEW t \in Thread, Refuse(t) PROVE Ordered'
  <2>1. \A u \in Thread : pc'[u] = "posting" => pc[u] = "posting"
    BY <1>2 DEF Refuse, Inv, TypeOK
  <2> QED BY <1>2, <2>1, OthersOrdered DEF Refuse, calls, queue, worker, results
<1>3. CASE Collect
  <2>1. stopping' \/ (~stopping /\ tasks' = tasks)
    BY <1>3 DEF Collect, queue, Inv, TypeOK
  <2> QED BY <1>3, <2>1, OthersOrdered DEF Collect, threads, calls, queue, results
<1>4. CASE Stop
  <2>1. \A u \in Thread : pc'[u] = "posting" => pc[u] = "posting"
    BY <1>4 DEF Stop, Inv, TypeOK
  <2>2. tasks' \subseteq tasks /\ stopping'
    BY <1>4 DEF Stop
  <2> QED BY <1>4, <2>1, <2>2, OthersOrdered DEF Stop, calls, worker, results
<1>5. CASE Cancel
  <2>1. stopping'
    BY <1>5 DEF Cancel, Inv, Phases
  <2> QED BY <1>5, <2>1, OthersOrdered DEF Cancel, threads, calls, worker
<1>6. CASE Join
  <2>1. \A u \in Thread : pc'[u] = "posting" => pc[u] = "posting"
    BY <1>6 DEF Join, Inv, TypeOK
  <2>2. stopping'
    BY <1>6 DEF Join, queue, Inv, Phases
  <2> QED BY <1>6, <2>1, <2>2, OthersOrdered DEF Join, calls, queue, worker, results
<1>7. CASE UNCHANGED vars
  <2>1. stopping' \/ (~stopping /\ tasks' = tasks)
    BY <1>7 DEF vars, queue
  <2> QED BY <1>7, <2>1, OthersOrdered
      DEF vars, threads, calls, queue, worker, results
<1>8. CASE Posts
  BY <1>2, <1>8, PostOrdered DEF Posts
<1>9. CASE Executor
  BY <1>3, <1>9, TakeOrdered, RunOrdered DEF Executor
<1>10. CASE Stopping
  BY <1>4, <1>5, <1>6, <1>10, CallsOrdered DEF Stopping
<1> QED BY <1>1, <1>7, <1>8, <1>9, <1>10 DEF Next

-----------------------------------------------------------------------------
(* The steps and the pending updates.                                      *)

LEMMA ValuesTyped ==
    ASSUME Inv, FromCallers, NEW k \in Key
    PROVE  /\ ValuesOf(k) \subseteq Call /\ ValuesOf(k) \subseteq 1 .. issued
           /\ \A c \in ValuesOf(k) : /\ c # NoCall /\ posting[c].by \in Caller
                                     /\ posting[c].kind = "latest"
                                     /\ posting[c].key = k
           /\ \A j \in Key : ValuesOf(k) \intersect ValuesOf(j) # {} => j = k
BY SendQueueAssumption DEF ValuesOf, FromCallers, Call, NoCall

LEMMA InitCollapsed == Init => Collapsed
<1> SUFFICES ASSUME Init PROVE Collapsed
  OBVIOUS
<1>1. \A c \in Call : posting[c].kind # "latest"
  BY DEF Init
<1>2. \A k \in Key : ValuesOf(k) = {} /\ latest[k] = NoCall
  BY <1>1 DEF Init, ValuesOf
<1> QED BY <1>1, <1>2
    DEF Collapsed, FromCallers, Collected, Entries, UpdatesCollapse, Init

\* A step that leaves the map alone and every update where it can be.
LEMMA Undisturbed ==
    ASSUME Inv, Collapsed, UNCHANGED <<latest, newest>>,
           outgoing' = outgoing \/ outgoing' = NoCall,
           FromCallers', Collected',
           \A k \in Key : ValuesOf(k)' = ValuesOf(k),
           \A k \in Key : \A c \in ValuesOf(k) : Carried(c)' <=> Carried(c),
           \A k \in Key : \A c \in ValuesOf(k) : Handed(c)' =>
               Handed(c) \/ (c = outgoing /\ outgoing' = NoCall)
    PROVE  Collapsed'
<1> USE ValuesTyped
<1>0. FromCallers /\ Entries /\ UpdatesCollapse
  BY DEF Collapsed
<1>1. Entries'
  <2> SUFFICES ASSUME NEW k \in Key, latest[k] # NoCall
               PROVE  /\ latest[k] \in ValuesOf(k)
                      /\ newest[latest[k]] \in ValuesOf(k)
                      /\ outgoing' \in ValuesOf(k) => outgoing' < newest[latest[k]]
    BY DEF Entries
  <2> QED BY <1>0 DEF Entries
<1>2. UpdatesCollapse'
  <2> SUFFICES ASSUME NEW k \in Key
               PROVE  /\ \A c \in ValuesOf(k) : Carried(c)' <=> latest[k] = c
                      /\ latest[k] # NoCall =>
                             \A c \in ValuesOf(k) : c <= newest[latest[k]]
                      /\ \A c \in ValuesOf(k) : Handed(c)' =>
                             /\ latest[k] # NoCall => c < newest[latest[k]]
                             /\ outgoing' \in ValuesOf(k) => c < outgoing'
    BY DEF UpdatesCollapse
  <2>1. \A c \in ValuesOf(k) : Carried(c)' <=> latest[k] = c
    BY <1>0 DEF UpdatesCollapse
  <2>2. latest[k] # NoCall => \A c \in ValuesOf(k) : c <= newest[latest[k]]
    BY <1>0 DEF UpdatesCollapse
  <2>3. ASSUME NEW c \in ValuesOf(k), Handed(c)', latest[k] # NoCall
        PROVE  c < newest[latest[k]]
    BY <1>0, <2>3 DEF UpdatesCollapse, Entries
  <2>4. ASSUME NEW c \in ValuesOf(k), Handed(c)', outgoing' \in ValuesOf(k)
        PROVE  c < outgoing'
    BY <1>0, <2>4 DEF UpdatesCollapse
  <2> QED BY <2>1, <2>2, <2>3, <2>4
<1> QED BY <1>1, <1>2 DEF Collapsed

\* A call that gets a number adds its value to its key.
LEMMA NumberValues ==
    ASSUME Inv, FromCallers, NEW t \in Thread, NEW kind \in Kind,
           NEW key \in Key \union {NoKey}, Number(t, kind, key),
           kind = "latest" => t \in Caller /\ key \in Key
    PROVE  /\ FromCallers'
           /\ \A k \in Key : kind = "latest" /\ key = k =>
                  ValuesOf(k)' = ValuesOf(k) \union {issued'}
           /\ \A k \in Key : kind # "latest" \/ key # k => ValuesOf(k)' = ValuesOf(k)
<1>1. /\ issued \in Nat /\ issued' = issued + 1 /\ issued' \in Call
      /\ \A c \in 1 .. issued : c \in Call /\ posting'[c] = posting[c]
  BY NumberFacts
<1>2. posting'[issued'] = [by |-> t, kind |-> kind, key |-> key]
  BY <1>1 DEF Number, Inv, TypeOK
<1>3. \A c \in Call : c # issued' => posting'[c] = posting[c]
  BY <1>1 DEF Number, Inv, TypeOK
<1>4. FromCallers'
  <2> SUFFICES ASSUME NEW c \in Call, posting'[c].kind = "latest"
               PROVE  /\ c \in 1 .. issued' /\ posting'[c].by \in Caller
                      /\ posting'[c].key \in Key
    BY DEF FromCallers
  <2>1. CASE c = issued'
    BY <1>1, <1>2, <2>1
  <2>2. CASE c # issued'
    <3>1. posting'[c] = posting[c]
      BY <1>3, <2>2
    <3>2. c \in 1 .. issued /\ posting[c].by \in Caller /\ posting[c].key \in Key
      BY <3>1 DEF FromCallers
    <3> QED BY <1>1, <3>1, <3>2
  <2> QED BY <2>1, <2>2
<1>5. issued' \notin 1 .. issued
  BY <1>1
<1>6. ASSUME NEW k \in Key, kind = "latest", key = k
      PROVE  ValuesOf(k)' = ValuesOf(k) \union {issued'}
  <2>1. issued' \in ValuesOf(k)'
    BY <1>1, <1>2, <1>6 DEF ValuesOf
  <2>2. \A c \in Call : c # issued' => (c \in ValuesOf(k)' <=> c \in ValuesOf(k))
    BY <1>3 DEF ValuesOf
  <2>3. ValuesOf(k)' \subseteq Call /\ ValuesOf(k) \subseteq Call
    BY DEF ValuesOf
  <2> QED BY <1>1, <2>1, <2>2, <2>3
<1>7. ASSUME NEW k \in Key, kind # "latest" \/ key # k
      PROVE  ValuesOf(k)' = ValuesOf(k)
  <2>1. issued' \notin ValuesOf(k)'
    BY <1>2, <1>7 DEF ValuesOf
  <2>2. issued' \notin ValuesOf(k)
    BY <1>5 DEF ValuesOf, FromCallers
  <2>3. \A c \in Call : c # issued' => (c \in ValuesOf(k)' <=> c \in ValuesOf(k))
    BY <1>3 DEF ValuesOf
  <2>4. ValuesOf(k)' \subseteq Call /\ ValuesOf(k) \subseteq Call
    BY DEF ValuesOf
  <2> QED BY <2>1, <2>2, <2>3, <2>4
<1> QED BY <1>4, <1>6, <1>7

\* An update that has a number stays where it is when another call begins.
LEMMA BeginCarried ==
    ASSUME Inv, FromCallers, NEW t \in Thread, NEW kind \in Kind,
           NEW key \in Key \union {NoKey}, Begin(t, kind, key),
           UNCHANGED <<queue, worker, results>>
    PROVE  /\ \A k \in Key : \A c \in ValuesOf(k) : Carried(c)' <=> Carried(c)
           /\ t \in Caller => \A c \in Call : c = issued' => Carried(c)'
           /\ \A c : Handed(c)' <=> Handed(c)
<1>1. issued' = issued + 1 /\ issued \in Nat
  BY NumberFacts DEF Begin
<1>2. /\ pc[t] = "idle" /\ pc'[t] = "posting" /\ at'[t] = issued'
      /\ \A u \in Thread \ {t} : pc'[u] = pc[u] /\ at'[u] = at[u]
  BY DEF Begin, Number, Inv, TypeOK
<1>3. UNCHANGED <<tasks, discarded, running, outgoing, outcome>>
  BY DEF queue, worker, results
<1>4. ASSUME NEW k \in Key, NEW c \in ValuesOf(k) PROVE Carried(c)' <=> Carried(c)
  <2>1. c # issued'
    BY <1>1, ValuesTyped
  <2>2. \A u \in Caller : pc'[u] = "posting" /\ at'[u] = c
                              <=> pc[u] = "posting" /\ at[u] = c
    BY <1>2, <2>1 DEF Thread
  <2> QED BY <1>3, <2>2 DEF Carried, CallsOf
<1>5. t \in Caller => \A c \in Call : c = issued' => Carried(c)'
  BY <1>2 DEF Carried
<1>6. \A c : Handed(c)' <=> Handed(c)
  BY <1>3 DEF Handed
<1> QED BY <1>4, <1>5, <1>6

LEMMA BeginCollapsed ==
    ASSUME Inv, Collapsed, NEW t \in Thread, NEW kind \in Kind \ {"latest"},
           Begin(t, kind, NoKey), UNCHANGED <<queue, worker, updates, results>>
    PROVE  Collapsed'
<1>1. FromCallers /\ Collected /\ Number(t, kind, NoKey)
  BY DEF Collapsed, Begin
<1>2. FromCallers' /\ \A k \in Key : ValuesOf(k)' = ValuesOf(k)
  BY <1>1, NumberValues
<1>3. /\ \A k \in Key : \A c \in ValuesOf(k) : Carried(c)' <=> Carried(c)
      /\ \A c : Handed(c)' <=> Handed(c)
  BY <1>1, BeginCarried
<1>4. UNCHANGED <<latest, newest, running, outgoing>>
  BY DEF updates, worker
<1>5. Collected'
  BY <1>1, <1>4 DEF Collected
<1> QED BY <1>2, <1>3, <1>4, <1>5, Undisturbed

\* A new update gets the entry of its key and its task.
LEMMA CreateCollapsed ==
    ASSUME Inv, Collapsed, NEW t \in Caller, NEW k \in Key, CreateUpdate(t, k)
    PROVE  Collapsed'
<1> DEFINE n == issued'
<1>0. FromCallers /\ Collected /\ Entries /\ UpdatesCollapse
  BY DEF Collapsed
<1>1. /\ Begin(t, "latest", k) /\ Number(t, "latest", k)
      /\ t \in Thread /\ "latest" \in Kind
      /\ latest[k] = NoCall /\ UNCHANGED <<queue, worker, results>>
  BY DEF CreateUpdate, Begin, Thread, Kind
<1>2. /\ n = issued + 1 /\ issued \in Nat /\ n \in Call /\ n # NoCall
  BY <1>1, NumberFacts DEF NoCall
<1>3. /\ FromCallers' /\ ValuesOf(k)' = ValuesOf(k) \union {n}
      /\ \A j \in Key : j # k => ValuesOf(j)' = ValuesOf(j)
  BY <1>0, <1>1, NumberValues
<1>4. /\ \A j \in Key : \A c \in ValuesOf(j) : Carried(c)' <=> Carried(c)
      /\ \A c \in Call : c = n => Carried(c)'
      /\ \A c : Handed(c)' <=> Handed(c)
  BY <1>0, <1>1, BeginCarried
<1>5. /\ latest'[k] = n /\ \A j \in Key : j # k => latest'[j] = latest[j]
      /\ newest'[n] = n /\ \A c \in Call : c # n => newest'[c] = newest[c]
      /\ outgoing' = outgoing /\ running' = running
  BY <1>1, <1>2 DEF CreateUpdate, Inv, TypeOK, worker
<1>6. \A j \in Key : /\ ValuesOf(j) \subseteq 1 .. issued /\ n \notin ValuesOf(j)
                     /\ ValuesOf(j) \subseteq Call
  BY <1>0, <1>2, ValuesTyped
<1>7. outgoing # n /\ outgoing \in Nat /\ ~Handed(n)
  BY <1>2 DEF Inv, Fresh, TypeOK, CallOrNone, Handed
<1> HIDE DEF n
<1>8. \A j \in Key : j # k /\ latest[j] # NoCall => newest'[latest[j]] = newest[latest[j]]
  BY <1>0, <1>5, <1>6 DEF Entries
<1>9. Collected'
  BY <1>0, <1>5 DEF Collected
<1>10. Entries'
  <2> SUFFICES ASSUME NEW j \in Key, latest'[j] # NoCall
               PROVE  /\ latest'[j] \in ValuesOf(j)'
                      /\ newest'[latest'[j]] \in ValuesOf(j)'
                      /\ outgoing \in ValuesOf(j)' => outgoing < newest'[latest'[j]]
    BY <1>5 DEF Entries
  <2>1. CASE j = k
    BY <1>2, <1>3, <1>5, <1>6, <1>7, <2>1
  <2>2. CASE j # k
    BY <1>0, <1>3, <1>5, <1>8, <2>2 DEF Entries
  <2> QED BY <2>1, <2>2
<1>11. UpdatesCollapse'
  <2> SUFFICES ASSUME NEW j \in Key
               PROVE  /\ \A c \in ValuesOf(j)' : Carried(c)' <=> latest'[j] = c
                      /\ latest'[j] # NoCall =>
                             \A c \in ValuesOf(j)' : c <= newest'[latest'[j]]
                      /\ \A c \in ValuesOf(j)' : Handed(c)' =>
                             /\ latest'[j] # NoCall => c < newest'[latest'[j]]
                             /\ outgoing \in ValuesOf(j)' => c < outgoing
    BY <1>5 DEF UpdatesCollapse
  <2>1. CASE j = k
    <3>1. \A c \in ValuesOf(k) : ~Carried(c) /\ c # n
      BY <1>0, <1>1, <1>6, ValuesTyped DEF UpdatesCollapse
    <3>2. \A c \in ValuesOf(k)' : Carried(c)' <=> latest'[k] = c
      <4> SUFFICES ASSUME NEW c \in ValuesOf(k)'
                   PROVE  Carried(c)' <=> latest'[k] = c
        OBVIOUS
      <4>1. CASE c = n
        BY <1>2, <1>4, <1>5, <4>1
      <4>2. CASE c # n
        BY <1>3, <1>4, <1>5, <3>1, <4>2
      <4> QED BY <4>1, <4>2
    <3>3. \A c \in ValuesOf(k)' : c <= n /\ (Handed(c)' => c < n)
      BY <1>2, <1>3, <1>4, <1>6, <1>7
    <3>4. \A c \in ValuesOf(k)' : Handed(c)' /\ outgoing \in ValuesOf(k)' => c < outgoing
      BY <1>0, <1>3, <1>4, <1>7 DEF UpdatesCollapse
    <3> QED BY <1>5, <2>1, <3>2, <3>3, <3>4
  <2>2. CASE j # k
    BY <1>0, <1>3, <1>4, <1>5, <1>8, <2>2 DEF UpdatesCollapse
  <2> QED BY <2>1, <2>2
<1> QED BY <1>3, <1>9, <1>10, <1>11 DEF Collapsed

\* A waiting update takes the new value.
LEMMA ReplaceCollapsed ==
    ASSUME Inv, Collapsed, NEW t \in Caller, NEW k \in Key, ReplaceUpdate(t, k)
    PROVE  Collapsed'
<1> DEFINE n == issued'
           m == latest[k]
<1>0. FromCallers /\ Collected /\ Entries /\ UpdatesCollapse
  BY DEF Collapsed
<1>1. /\ Number(t, "latest", k) /\ t \in Thread /\ "latest" \in Kind
      /\ m # NoCall
      /\ UNCHANGED <<pc, at, tasks, discarded, running, outgoing, latest, outcome>>
  BY DEF ReplaceUpdate, Thread, Kind, threads, queue, worker, results
<1>2. n = issued + 1 /\ issued \in Nat /\ n \in Call /\ n # NoCall
  BY <1>1, NumberFacts DEF NoCall
<1>3. /\ FromCallers' /\ ValuesOf(k)' = ValuesOf(k) \union {n}
      /\ \A j \in Key : j # k => ValuesOf(j)' = ValuesOf(j)
  BY <1>0, <1>1, NumberValues
<1>4. \A c : (Carried(c)' <=> Carried(c)) /\ (Handed(c)' <=> Handed(c))
  BY <1>1 DEF Carried, CallsOf, Handed
<1>5. m \in ValuesOf(k) /\ newest[m] \in ValuesOf(k)
  BY <1>0, <1>1 DEF Entries
<1>6. newest'[m] = n /\ \A c \in Call : c # m => newest'[c] = newest[c]
  BY <1>2, <1>5 DEF ReplaceUpdate, SetValue, ValuesOf, Inv, TypeOK, Number
<1>7. \A j \in Key : /\ ValuesOf(j) \subseteq 1 .. issued /\ n \notin ValuesOf(j)
                     /\ ValuesOf(j) \subseteq Call
  BY <1>0, <1>2, ValuesTyped
<1>8. /\ outgoing # n /\ outgoing \in Nat /\ outgoing < n
      /\ ~Handed(n) /\ ~Carried(n)
  <2>1. outgoing # n /\ outgoing \in Nat /\ outgoing < n /\ ~Handed(n)
    BY <1>2 DEF Inv, Fresh, TypeOK, CallOrNone, Handed
  <2>2. \A i \in tasks \union discarded : i.call # n
    BY <1>2 DEF Inv, Fresh, TypeOK, Items, WorkItem, Call
  <2>3. \A u \in Caller : pc[u] = "posting" => at[u] # n
    BY <1>2 DEF Inv, Fresh, Thread
  <2>4. running # n
    BY <1>2 DEF Inv, Fresh, TypeOK, CallOrNone
  <2> QED BY <2>1, <2>2, <2>3, <2>4 DEF Carried, CallsOf
<1> HIDE DEF n, m
<1>9. \A j \in Key : j # k /\ latest[j] # NoCall => newest'[latest[j]] = newest[latest[j]]
  <2> SUFFICES ASSUME NEW j \in Key, j # k, latest[j] # NoCall
               PROVE  latest[j] \in Call /\ latest[j] # m
    BY <1>6
  <2>1. latest[j] \in ValuesOf(j)
    BY <1>0 DEF Entries
  <2> QED BY <1>0, <1>5, <2>1, ValuesTyped
<1>10. Collected'
  BY <1>0, <1>1 DEF Collected
<1>11. Entries'
  <2> SUFFICES ASSUME NEW j \in Key, latest[j] # NoCall
               PROVE  /\ latest[j] \in ValuesOf(j)'
                      /\ newest'[latest[j]] \in ValuesOf(j)'
                      /\ outgoing \in ValuesOf(j)' => outgoing < newest'[latest[j]]
    BY <1>1 DEF Entries
  <2>1. CASE j = k
    BY <1>3, <1>5, <1>6, <1>8, <2>1 DEF m
  <2>2. CASE j # k
    BY <1>0, <1>3, <1>9, <2>2 DEF Entries
  <2> QED BY <2>1, <2>2
<1>12. UpdatesCollapse'
  <2> SUFFICES ASSUME NEW j \in Key
               PROVE  /\ \A c \in ValuesOf(j)' : Carried(c)' <=> latest[j] = c
                      /\ latest[j] # NoCall =>
                             \A c \in ValuesOf(j)' : c <= newest'[latest[j]]
                      /\ \A c \in ValuesOf(j)' : Handed(c)' =>
                             /\ latest[j] # NoCall => c < newest'[latest[j]]
                             /\ outgoing \in ValuesOf(j)' => c < outgoing
    BY <1>1 DEF UpdatesCollapse
  <2>1. CASE j = k
    <3>1. n # m
      BY <1>5, <1>7
    <3>2. \A c \in ValuesOf(k)' : Carried(c)' <=> m = c
      <4> SUFFICES ASSUME NEW c \in ValuesOf(k)' PROVE Carried(c) <=> m = c
        BY <1>4
      <4>1. CASE c = n
        BY <1>8, <3>1, <4>1
      <4>2. CASE c # n
        BY <1>0, <1>3, <4>2 DEF UpdatesCollapse, m
      <4> QED BY <4>1, <4>2
    <3>3. \A c \in ValuesOf(k)' : c <= n /\ (Handed(c)' => c < n)
      <4> SUFFICES ASSUME NEW c \in ValuesOf(k)'
                   PROVE  c <= n /\ (Handed(c) => c < n)
        BY <1>4
      <4>1. CASE c = n
        BY <1>2, <1>8, <4>1
      <4>2. CASE c # n
        BY <1>2, <1>3, <1>7, <4>2
      <4> QED BY <4>1, <4>2
    <3>4. \A c \in ValuesOf(k)' : Handed(c)' /\ outgoing \in ValuesOf(k)' => c < outgoing
      BY <1>0, <1>3, <1>4, <1>8 DEF UpdatesCollapse
    <3> QED BY <1>6, <2>1, <3>2, <3>3, <3>4 DEF m
  <2>2. CASE j # k
    BY <1>0, <1>3, <1>4, <1>9, <2>2 DEF UpdatesCollapse
  <2> QED BY <2>1, <2>2
<1> QED BY <1>3, <1>10, <1>11, <1>12 DEF Collapsed

\* A posted update is carried by its task.
LEMMA PostCollapsed ==
    ASSUME Inv, Collapsed, NEW t \in Thread, Post(t)
    PROVE  Collapsed'
<1> DEFINE item == [due |-> due[t], sequence |-> sequence, call |-> at[t]]
<1>0. FromCallers /\ Collected
  BY DEF Collapsed
<1>1. /\ UNCHANGED <<at, issued, posting, discarded, running, outgoing, latest, newest>>
      /\ tasks' = tasks \union {item}
  BY DEF Post, calls, worker, updates
<1>2. /\ \A u \in Thread : pc'[u] = "posting" <=> u # t /\ pc[u] = "posting"
      /\ pc[t] = "posting"
  BY DEF Post, Inv, TypeOK
<1>3. at[t] \in Call /\ posting[at[t]].by = t
  BY Traces DEF Inv, Waiting, Post
<1>4. item.call = at[t]
  OBVIOUS
<1> HIDE DEF item
<1>5. \A c : c \in CallsOf((tasks \union discarded)')
              <=> c \in CallsOf(tasks \union discarded) \/ c = at[t]
  BY <1>1, <1>4 DEF CallsOf
<1>6. ASSUME NEW k \in Key, NEW c \in ValuesOf(k) PROVE Carried(c)' <=> Carried(c)
  <2>1. c \in Call /\ posting[c].by \in Caller
    BY <1>0, ValuesTyped
  <2>2. CASE c = at[t]
    <3>1. Carried(c)
      BY <1>2, <1>3, <2>1, <2>2 DEF Carried
    <3>2. Carried(c)'
      BY <1>5, <2>2 DEF Carried
    <3> QED BY <3>1, <3>2
  <2>3. CASE c # at[t]
    <3>1. \A u \in Caller : pc'[u] = "posting" /\ at'[u] = c
                                <=> pc[u] = "posting" /\ at[u] = c
      BY <1>1, <1>2, <2>3 DEF Thread
    <3> QED BY <1>1, <1>5, <2>3, <3>1 DEF Carried
  <2> QED BY <2>2, <2>3
<1>7. \A c \in Call : Handed(c)' => Handed(c)
  BY DEF Post, Inv, TypeOK, Handed
<1>8. FromCallers' /\ Collected'
  BY <1>0, <1>1 DEF FromCallers, Collected
<1>9. \A k \in Key : ValuesOf(k)' = ValuesOf(k) /\ ValuesOf(k) \subseteq Call
  BY <1>1 DEF ValuesOf
<1> QED BY <1>1, <1>6, <1>7, <1>8, <1>9, Undisturbed

\* A taken task carries its update until it collects it.
LEMMA TakeCollapsed ==
    ASSUME Inv, Collapsed, Take
    PROVE  Collapsed'
<1>0. FromCallers /\ Collected
  BY DEF Collapsed
<1>1. PICK i \in tasks : /\ running = NoCall /\ running' = i.call
                         /\ tasks' = tasks \ {i}
  BY DEF Take, TakeOut
<1>2. /\ UNCHANGED <<pc, at, issued, posting, discarded, outgoing, latest, newest>>
      /\ UNCHANGED outcome
  BY DEF Take, threads, calls, updates, results
<1>3. outgoing = NoCall /\ i.call \in Call
  BY <1>0, <1>1, Traces DEF Collected
<1>4. discarded = {}
  BY DEF Take, Inv, Phases
<1>5. \A c : c \in CallsOf(tasks \union discarded)
              <=> c \in CallsOf((tasks \union discarded)') \/ c = i.call
  BY <1>1, <1>2, <1>4 DEF CallsOf
<1>6. \A c \in Call : Carried(c)' <=> Carried(c)
  <2> SUFFICES ASSUME NEW c \in Call PROVE Carried(c)' <=> Carried(c)
    OBVIOUS
  <2>1. running # c
    BY <1>1, SendQueueAssumption DEF Call, NoCall
  <2> QED BY <1>1, <1>2, <1>3, <1>5, <2>1 DEF Carried
<1>7. FromCallers' /\ Collected'
  BY <1>0, <1>2, <1>3 DEF FromCallers, Collected
<1>8. \A k \in Key : ValuesOf(k)' = ValuesOf(k) /\ ValuesOf(k) \subseteq Call
  BY <1>2 DEF ValuesOf
<1>9. \A c \in Call : Handed(c)' => Handed(c)
  BY <1>2 DEF Handed
<1> QED BY <1>2, <1>6, <1>7, <1>8, <1>9, Undisturbed

\* The value that a task hands over is the one it collected.
LEMMA RunCollapsed ==
    ASSUME Inv, Collapsed, Run
    PROVE  Collapsed'
<1>0. FromCallers /\ Collected
  BY DEF Collapsed
<1>1. /\ UNCHANGED <<at, issued, posting, tasks, discarded, latest, newest>>
      /\ running' = NoCall /\ outgoing' = NoCall /\ running # NoCall
      /\ posting[running].kind = "latest" => outgoing # NoCall
  BY DEF Run, calls, queue, updates
<1>2. \A u \in Caller : pc'[u] = "posting" <=> pc[u] = "posting"
  <2> SUFFICES ASSUME NEW u \in Caller PROVE pc'[u] = "posting" <=> pc[u] = "posting"
    OBVIOUS
  <2>1. u \in Thread
    BY DEF Thread
  <2>2. CASE u \in Woken(running)
    <3>1. IsInvoked(running) /\ u = posting[running].by /\ running \in Outstanding
      BY <1>1, <2>2 DEF Woken, Outstanding
    <3>2. pc[u] = "waiting"
      BY <3>1 DEF Inv, Waiting
    <3>3. pc'[u] \in {"stopping", "idle"}
      BY <2>1, <2>2 DEF Run
    <3> QED BY <3>2, <3>3
  <2>3. CASE u \notin Woken(running)
    BY <2>1, <2>3 DEF Run
  <2> QED BY <2>2, <2>3
<1>3. ASSUME NEW k \in Key, NEW c \in ValuesOf(k)
      PROVE  /\ Carried(c)' <=> Carried(c)
             /\ Handed(c)' => Handed(c) \/ (c = outgoing /\ outgoing' = NoCall)
  <2>1. c \in Call /\ c # NoCall /\ posting[c].kind = "latest"
    BY <1>0, ValuesTyped
  <2>2. Carried(c)' <=> Carried(c)
    BY <1>1, <1>2, <2>1 DEF Carried, CallsOf
  <2>3. c = Data => c = outgoing
    BY <2>1 DEF Data
  <2>4. c # Data => outcome'[c] = outcome[c]
    BY <2>1 DEF Run
  <2> QED BY <1>1, <2>2, <2>3, <2>4 DEF Handed
<1>4. FromCallers' /\ Collected'
  BY <1>0, <1>1 DEF FromCallers, Collected
<1>5. \A k \in Key : ValuesOf(k)' = ValuesOf(k)
  BY <1>1 DEF ValuesOf
<1> QED BY <1>1, <1>3, <1>4, <1>5, Undisturbed

\* A step that takes a call away from where its update could be, and the
\* update from the map.
LEMMA Removed ==
    ASSUME Inv, Collapsed, NEW r \in Call, UNCHANGED <<posting, issued, newest, running>>,
           latest' = RemoveUpdate(r), UNCHANGED outcome,
           \/ outgoing' = outgoing
           \/ \E k \in Key : latest[k] = r /\ outgoing' = newest[r],
           Collected',
           \A k \in Key : \A c \in ValuesOf(k) : Carried(c)' <=> Carried(c) /\ c # r
    PROVE  Collapsed'
<1> USE ValuesTyped
<1>0. FromCallers /\ Entries /\ UpdatesCollapse
  BY DEF Collapsed
<1>1. FromCallers' /\ \A k \in Key : ValuesOf(k)' = ValuesOf(k)
  BY <1>0 DEF FromCallers, ValuesOf
<1>2. r # NoCall
  BY SendQueueAssumption DEF Call, NoCall
<1>3. \A k \in Key : latest'[k] = IF latest[k] = r THEN NoCall ELSE latest[k]
  BY DEF RemoveUpdate
<1>4. \A k \in Key : latest'[k] # NoCall => latest'[k] = latest[k] /\ latest[k] # r
  BY <1>3
<1>5. \A k \in Key : /\ ValuesOf(k) \subseteq Nat /\ newest[r] \in CallOrNone
                     /\ outgoing \in Nat
  BY <1>0 DEF Inv, TypeOK, CallOrNone, Call
<1>6. ASSUME NEW k \in Key, outgoing' # outgoing, outgoing' \in ValuesOf(k)
      PROVE  latest[k] = r /\ outgoing' = newest[r]
  <2>1. PICK j \in Key : latest[j] = r /\ outgoing' = newest[r]
    BY <1>6
  <2>2. newest[r] \in ValuesOf(j)
    BY <1>0, <1>2, <2>1 DEF Entries
  <2>3. j = k
    BY <1>0, <1>6, <2>1, <2>2
  <2> QED BY <2>1, <2>3
<1>7. Entries'
  <2> SUFFICES ASSUME NEW k \in Key, latest'[k] # NoCall
               PROVE  /\ latest'[k] \in ValuesOf(k)
                      /\ newest[latest'[k]] \in ValuesOf(k)
                      /\ outgoing' \in ValuesOf(k) => outgoing' < newest[latest'[k]]
    BY <1>1 DEF Entries
  <2>1. latest'[k] = latest[k] /\ latest[k] # r /\ latest[k] # NoCall
    BY <1>4
  <2>2. outgoing' \in ValuesOf(k) => outgoing' = outgoing
    BY <1>6, <2>1
  <2> QED BY <1>0, <2>1, <2>2 DEF Entries
<1>8. UpdatesCollapse'
  <2> SUFFICES ASSUME NEW k \in Key
               PROVE  /\ \A c \in ValuesOf(k) : Carried(c)' <=> latest'[k] = c
                      /\ latest'[k] # NoCall =>
                             \A c \in ValuesOf(k) : c <= newest[latest'[k]]
                      /\ \A c \in ValuesOf(k) : Handed(c) =>
                             /\ latest'[k] # NoCall => c < newest[latest'[k]]
                             /\ outgoing' \in ValuesOf(k) => c < outgoing'
    BY <1>1 DEF UpdatesCollapse, Handed
  <2>1. \A c \in ValuesOf(k) : Carried(c) <=> latest[k] = c
    BY <1>0 DEF UpdatesCollapse
  <2>2. \A c \in ValuesOf(k) : Carried(c)' <=> latest'[k] = c
    BY <1>0, <1>3, <2>1
  <2>3. latest'[k] # NoCall => \A c \in ValuesOf(k) : c <= newest[latest'[k]]
    BY <1>0, <1>4 DEF UpdatesCollapse
  <2>4. ASSUME NEW c \in ValuesOf(k), Handed(c)
        PROVE  /\ latest'[k] # NoCall => c < newest[latest'[k]]
               /\ outgoing' \in ValuesOf(k) => c < outgoing'
    <3>1. latest'[k] # NoCall => c < newest[latest'[k]]
      BY <1>0, <1>4, <2>4 DEF UpdatesCollapse
    <3>2. CASE outgoing' = outgoing
      BY <1>0, <2>4, <3>1, <3>2 DEF UpdatesCollapse
    <3>3. CASE outgoing' # outgoing
      <4>1. latest[k] = r => c < newest[r]
        BY <1>0, <1>2, <2>4 DEF UpdatesCollapse
      <4> QED BY <1>6, <3>1, <3>3, <4>1
    <3> QED BY <3>2, <3>3
  <2> QED BY <2>2, <2>3, <2>4
<1> QED BY <1>1, <1>7, <1>8 DEF Collapsed

\* A refused update leaves the map.
LEMMA RefuseCollapsed ==
    ASSUME Inv, Collapsed, NEW t \in Thread, Refuse(t)
    PROVE  Collapsed'
<1>0. FromCallers /\ Collected
  BY DEF Collapsed
<1>1. /\ UNCHANGED <<at, issued, posting, tasks, discarded, running, outgoing>>
      /\ UNCHANGED <<newest, outcome>> /\ latest' = RemoveUpdate(at[t])
  BY DEF Refuse, calls, queue, worker, results
<1>2. /\ \A u \in Thread : pc'[u] = "posting" <=> u # t /\ pc[u] = "posting"
      /\ pc[t] = "posting"
  BY DEF Refuse, Inv, TypeOK
<1>3. at[t] \in Call /\ posting[at[t]].by = t /\ at[t] \notin Outstanding
  BY Traces DEF Inv, Waiting, OnePlace, Refuse
<1>4. ASSUME NEW k \in Key, NEW c \in ValuesOf(k)
      PROVE  Carried(c)' <=> Carried(c) /\ c # at[t]
  <2>1. c \in Call /\ posting[c].by \in Caller /\ c # NoCall
    BY <1>0, ValuesTyped
  <2>2. CASE c = at[t]
    <3>1. c \notin CallsOf(tasks \union discarded) /\ running # c
      BY <1>3, <2>1, <2>2 DEF Outstanding
    <3>2. \A u \in Caller : pc[u] = "posting" /\ at[u] = c => u = t
      BY <1>2, <2>2 DEF Inv, OnePlace, Thread
    <3>3. ~Carried(c)'
      BY <1>1, <1>2, <3>1, <3>2 DEF Carried, CallsOf, Thread
    <3> QED BY <2>2, <3>3
  <2>3. CASE c # at[t]
    <3>1. \A u \in Caller : pc'[u] = "posting" /\ at'[u] = c
                                <=> pc[u] = "posting" /\ at[u] = c
      BY <1>1, <1>2, <2>3 DEF Thread
    <3> QED BY <1>1, <2>3, <3>1 DEF Carried, CallsOf
  <2> QED BY <2>2, <2>3
<1>5. Collected'
  BY <1>0, <1>1 DEF Collected
<1> QED BY <1>1, <1>3, <1>4, <1>5, Removed

\* So does one that Stop took over.
LEMMA CancelCollapsed ==
    ASSUME Inv, Collapsed, Cancel
    PROVE  Collapsed'
<1>0. FromCallers /\ Collected
  BY DEF Collapsed
<1>1. PICK i \in discarded : discarded' = discarded \ {i} /\ latest' = RemoveUpdate(i.call)
  BY DEF Cancel
<1>2. /\ UNCHANGED <<pc, at, issued, posting, tasks, running, outgoing, newest, outcome>>
      /\ tasks = {}
  BY DEF Cancel, threads, calls, worker, Inv, Phases
<1>3. /\ i \in Items /\ i.call \in Call /\ i.call \in Outstanding
      /\ i.call \in CallsOf(Items)
  BY <1>1 DEF Items, Inv, TypeOK, WorkItem, Outstanding, CallsOf
<1>4. \A c : c \in CallsOf((tasks \union discarded)')
              <=> c \in CallsOf(tasks \union discarded) /\ c # i.call
  BY <1>1, <1>2, <1>3 DEF CallsOf, Inv, OnePlace, Items
<1>5. ~\E u \in Caller : pc[u] = "posting" /\ at[u] = i.call
  BY <1>3 DEF Inv, OnePlace, Thread
<1>6. running # i.call
  BY <1>3 DEF Inv, OnePlace
<1>7. \A c \in Call : Carried(c)' <=> Carried(c) /\ c # i.call
  BY <1>2, <1>4, <1>5, <1>6 DEF Carried
<1>8. Collected'
  BY <1>0, <1>2 DEF Collected
<1>9. \A k \in Key : ValuesOf(k) \subseteq Call
  BY DEF ValuesOf
<1> QED BY <1>1, <1>2, <1>3, <1>7, <1>8, <1>9, Removed

\* What a task collects is no longer in the map.
LEMMA CollectCollapsed ==
    ASSUME Inv, Collapsed, Collect
    PROVE  Collapsed'
<1>0. FromCallers /\ Collected /\ Entries /\ UpdatesCollapse
  BY DEF Collapsed
<1>1. /\ UNCHANGED <<pc, at, issued, posting, tasks, discarded, running>>
      /\ UNCHANGED <<newest, outcome>>
      /\ running # NoCall /\ posting[running].kind = "latest" /\ outgoing = NoCall
      /\ outgoing' = newest[running] /\ latest' = RemoveUpdate(running)
  BY DEF Collect, threads, calls, queue, results
<1>2. running \in Call /\ running \in Outstanding
  BY <1>1, Traces DEF Outstanding
<1> DEFINE k == posting[running].key
<1>3. k \in Key /\ running \in ValuesOf(k)
  BY <1>0, <1>1, <1>2 DEF FromCallers, ValuesOf
<1>4. latest[k] = running
  BY <1>0, <1>1, <1>3 DEF UpdatesCollapse, Carried
<1>5. outgoing' # NoCall
  BY <1>0, <1>1, <1>3, <1>4, ValuesTyped DEF Entries
<1>6. ~\E u \in Caller : pc[u] = "posting" /\ at[u] = running
  BY <1>2 DEF Inv, OnePlace, Thread
<1>7. running \notin CallsOf(tasks \union discarded)
  BY DEF Inv, OnePlace, Items
<1>8. \A c \in Call : Carried(c)' <=> Carried(c) /\ c # running
  BY <1>1, <1>5, <1>6, <1>7 DEF Carried, CallsOf
<1>9. Collected'
  BY <1>1 DEF Collected
<1>10. \A j \in Key : ValuesOf(j) \subseteq Call
  BY DEF ValuesOf
<1> HIDE DEF k
<1>11. \E j \in Key : latest[j] = running /\ outgoing' = newest[running]
  BY <1>1, <1>3, <1>4
<1> QED BY <1>1, <1>2, <1>8, <1>9, <1>10, <1>11, Removed

\* The steps in which only the stopping thread moves, and tasks from the queue
\* to what Stop took over.
LEMMA OthersCollapsed ==
    ASSUME Inv, Collapsed,
           UNCHANGED <<at, issued, posting, running, outgoing, latest, newest, outcome>>,
           (tasks \union discarded)' = tasks \union discarded,
           \A u \in Caller : pc'[u] = pc[u]
    PROVE  Collapsed'
<1>0. FromCallers /\ Collected
  BY DEF Collapsed
<1>1. \A c : (Carried(c)' <=> Carried(c)) /\ (Handed(c)' <=> Handed(c))
  BY DEF Carried, CallsOf, Handed
<1>2. FromCallers' /\ Collected' /\ \A k \in Key : ValuesOf(k)' = ValuesOf(k)
  BY <1>0 DEF FromCallers, Collected, ValuesOf
<1> QED BY <1>1, <1>2, Undisturbed

LEMMA StepCollapsed == Inv /\ Collapsed /\ [Next]_vars => Collapsed'
<1> SUFFICES ASSUME Inv, Collapsed, [Next]_vars PROVE Collapsed'
  OBVIOUS
<1> USE DEF Kind, Thread
<1>1. ASSUME NEW t \in Caller, QueueData(t) \/ SendData(t) \/ Close(t)
      PROVE  Collapsed'
  <2>1. PICK kind \in {"queued", "sync", "close"} : Begin(t, kind, NoKey)
    BY <1>1 DEF QueueData, SendData, Close
  <2>2. UNCHANGED <<queue, worker, updates, results>>
    BY <1>1 DEF QueueData, SendData, Close
  <2> QED BY <2>1, <2>2, BeginCollapsed
<1>2. CASE Shutdown
  BY <1>2, BeginCollapsed DEF Shutdown
<1>3. CASE Calls
  BY <1>1, <1>3, CreateCollapsed, ReplaceCollapsed DEF Calls
<1>4. CASE Posts
  BY <1>4, PostCollapsed, RefuseCollapsed DEF Posts
<1>5. CASE Executor
  BY <1>5, TakeCollapsed, CollectCollapsed, RunCollapsed DEF Executor
<1>6. CASE Stop
  <2>1. discarded = {} /\ discarded' = tasks /\ tasks' = {}
    BY <1>6 DEF Stop, TakeOver, Inv, Phases
  <2>2. \A u \in Caller : pc'[u] = pc[u]
    BY <1>6, SendQueueAssumption DEF Stop, Inv, TypeOK
  <2> QED BY <1>6, <2>1, <2>2, OthersCollapsed DEF Stop, calls, worker, updates, results
<1>7. CASE Join
  <2>1. \A u \in Caller : pc'[u] = pc[u]
    BY <1>7, SendQueueAssumption DEF Join, Inv, TypeOK
  <2> QED BY <1>7, <2>1, OthersCollapsed DEF Join, calls, queue, worker, updates, results
<1>8. CASE Stopping
  BY <1>2, <1>6, <1>7, <1>8, CancelCollapsed DEF Stopping
<1>9. CASE UNCHANGED vars
  BY <1>9, OthersCollapsed DEF vars, threads, calls, queue, worker, updates, results
<1> QED BY <1>3, <1>4, <1>5, <1>8, <1>9 DEF Next

\* Data of one thread reaches the session in the order of its calls, for any
\* number of threads and calls and however often the clock stands still.
THEOREM OrderKept == Spec => []SentInCallOrder
<1>1. Init => Inv /\ Ordered
  BY InitInv, InitOrdered
<1>2. Inv /\ Ordered /\ [Next]_vars => (Inv /\ Ordered)'
  BY StepInv, StepOrdered
<1>3. Inv /\ Ordered => SentInCallOrder
  BY DEF Ordered
<1> QED BY <1>1, <1>2, <1>3, PTL DEF Spec

\* At most one update of a key waits, the map holds exactly the waiting ones
\* with their newest values, and the values of a key are handed over oldest
\* first.
THEOREM Collapsing == Spec => []UpdatesCollapse
<1>1. Init => Inv /\ Collapsed
  BY InitInv, InitCollapsed
<1>2. Inv /\ Collapsed /\ [Next]_vars => (Inv /\ Collapsed)'
  BY StepInv, StepCollapsed
<1>3. Inv /\ Collapsed => UpdatesCollapse
  BY DEF Collapsed
<1> QED BY <1>1, <1>2, <1>3, PTL DEF Spec
=============================================================================
