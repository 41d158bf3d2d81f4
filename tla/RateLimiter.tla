---------------------------- MODULE RateLimiter ----------------------------
(***************************************************************************)
(* The rate limits of the signaling server: SlidingWindowRateLimiter.h and *)
(* the groups of limiters a request has to pass together                   *)
(* (SignalServer.Internal.h, AllowRoomAvailabilityQuery and its siblings). *)
(*                                                                         *)
(* A request names one key per limiter (its address, its user, its device) *)
(* and has a cost.  It is admitted if every limiter can take the cost, and *)
(* then every limiter records it.  The wall clock of the server may be set *)
(* back between two requests; time itself only passes.                     *)
(***************************************************************************)
EXTENDS Integers, Sequences, FiniteSets, FiniteSetsExt

CONSTANTS Limiter,        \* the limiters of one group
          Key,            \* what they count by
          NoKey,          \* a request without a user or a device
          MaximumCost, WindowMs, MaximumKeys,   \* SlidingWindowRateLimitPolicy
          Requests,       \* the key of each limiter, for every possible request
          Costs,          \* costs of the requests: none asks for more than a
                          \* limiter ever grants (an availability query names
                          \* at most eight rooms, all else costs one)
          MaxTime,        \* bound on the time that passes
          MaxStepBack     \* bound on how far the clock is set back

ASSUME RateLimiterAssumption ==
    /\ NoKey \notin Key
    /\ Requests \subseteq [Limiter -> Key \union {NoKey}]
    /\ {MaximumCost, WindowMs, MaximumKeys} \subseteq Nat \ {0}
    /\ Costs \subseteq 1 .. MaximumCost
    /\ MaxTime \in Nat /\ MaxStepBack \in 0 .. MaxTime

VARIABLES time,       \* the time that has passed
          behind,     \* how far the wall clock is behind it
          buckets,    \* buckets_ of each limiter: a function on the keys it holds
          admitted    \* times at which each key was admitted, since it was
                      \* last evicted (history)

vars == <<time, behind, buckets, admitted>>

Now == time - behind

Bucket == [events : Seq(Int), lastSeen : Int]

\* The variables hold values of their types; no limiter holds more keys than
\* its policy allows, whatever mix of known and new keys a group of limiters is
\* asked about (EnsureCapacityFor), and no key more cost than the maximum.
\* A bucket may have been used later than the wall clock shows, but never later
\* than time has really come: expiry by lastSeen stays short of the future.
TypeOK ==
    /\ time \in 0 .. MaxTime
    /\ behind \in 0 .. MaxStepBack
    /\ \A l \in Limiter :
          /\ DOMAIN buckets[l] \subseteq Key
          /\ Cardinality(DOMAIN buckets[l]) <= MaximumKeys
          /\ \A k \in DOMAIN buckets[l] :
                /\ buckets[l][k] \in Bucket
                /\ buckets[l][k].lastSeen <= time
                /\ Len(buckets[l][k].events) <= MaximumCost
    /\ admitted \in [Limiter -> [Key -> Seq(Int)]]

-----------------------------------------------------------------------------
(***************************************************************************)
(* One limiter.                                                            *)
(***************************************************************************)

\* The mutant of Expire forgets an event a unit of time too early.
ExpireEarly(events, now) == SelectSeq(events, LAMBDA e : e > now - WindowMs + 1)

\* Events are dropped from the head while they are at or before the cutoff.
Expire(events, now) ==
    LET kept == {i \in DOMAIN events : events[i] > now - WindowMs}
    IN  IF kept = {} THEN <<>> ELSE SubSeq(events, Min(kept), Len(events))

EffectiveNow(bucket, now) == Max({now, bucket.lastSeen})

Refresh(bucket, now) ==
    LET t == EffectiveNow(bucket, now)
    IN  [events |-> Expire(bucket.events, t), lastSeen |-> t]

\* CanAcquire expires and touches the bucket of a known key, whatever it answers.
Touch(table, key, now) ==
    [k \in DOMAIN table |->
        IF k = key THEN Refresh(table[k], now) ELSE table[k]]

Fits(table, key, cost) ==
    /\ cost <= MaximumCost
    /\ key \in DOMAIN table => Len(table[key].events) + cost <= MaximumCost

\* Prune expires every bucket but leaves its lastSeen.
PruneTable(table, now) ==
    LET expired(k) == Expire(table[k].events, EffectiveNow(table[k], now))
        idle(k) == /\ expired(k) = <<>>
                   /\ EffectiveNow(table[k], now) - table[k].lastSeen >= WindowMs
    IN  [k \in {k \in DOMAIN table : ~ idle(k)} |->
            [table[k] EXCEPT !.events = expired(k)]]

\* The mutant evicts when the limit was passed already.
MustEvictLate(table, key) ==
    key \notin DOMAIN table /\ Cardinality(DOMAIN table) > MaximumKeys

MustEvict(table, key) ==
    key \notin DOMAIN table /\ Cardinality(DOMAIN table) >= MaximumKeys

\* The mutant takes any key of a full table.
AnyVictims(table, key, now) ==
    IF MustEvict(table, key) THEN DOMAIN table ELSE {NoKey}

\* EnsureCapacityFor scans a hash table: any key seen longest ago may be the
\* one it finds.
Victims(table, key, now) ==
    LET pruned == PruneTable(table, now)
    IN  IF ~ MustEvict(table, key) \/ ~ MustEvict(pruned, key) THEN {NoKey}
        ELSE {k \in DOMAIN pruned :
                \A other \in DOMAIN pruned :
                    pruned[k].lastSeen <= pruned[other].lastSeen}

MakeRoom(table, key, victim, now) ==
    LET pruned == IF MustEvict(table, key) THEN PruneTable(table, now) ELSE table
    IN  [k \in DOMAIN pruned \ {victim} |-> pruned[k]]

NewBucket == [events |-> <<>>, lastSeen |-> 0]

Record(table, key, cost, victim, now) ==
    LET room == MakeRoom(table, key, victim, now)
        old == IF key \in DOMAIN room THEN room[key] ELSE NewBucket
        bucket == Refresh(old, now)
        new == [bucket EXCEPT !.events = @ \o [i \in 1 .. cost |-> bucket.lastSeen]]
    IN  [k \in DOMAIN room \union {key} |-> IF k = key THEN new ELSE room[k]]

-----------------------------------------------------------------------------
(***************************************************************************)
(* A group of limiters.  keys[l] is the request's key for limiter l.       *)
(***************************************************************************)

TouchAll(keys) == [l \in Limiter |-> Touch(buckets[l], keys[l], Now)]

Admissible(tables, keys, cost) ==
    \A l \in Limiter : keys[l] # NoKey => Fits(tables[l], keys[l], cost)

RecordAll(tables, keys, cost, victims) ==
    [l \in Limiter |->
        IF keys[l] = NoKey THEN tables[l]
        ELSE Record(tables[l], keys[l], cost, victims[l], Now)]

\* Only what lies within a window of the present matters to the properties.
\* Times are admitted in order, so that those before it are the first ones.
Recent(times, t) ==
    LET past == {i \in DOMAIN times : times[i] <= t - WindowMs}
    IN  SubSeq(times, Cardinality(past) + 1, Len(times))

Remember(keys, cost, victims) ==
    [l \in Limiter |-> [k \in Key |->
        IF k = victims[l] THEN <<>>
        ELSE IF k = keys[l]
             THEN Recent(admitted[l][k], time) \o [i \in 1 .. cost |-> time]
             ELSE Recent(admitted[l][k], time)]]

Admit(keys, cost) ==
    LET tables == TouchAll(keys)
    IN  /\ Admissible(tables, keys, cost)
        /\ \E victims \in [Limiter -> Key \union {NoKey}] :
              /\ \A l \in Limiter :
                    victims[l] \in IF keys[l] = NoKey THEN {NoKey}
                                   ELSE Victims(tables[l], keys[l], Now)
              /\ buckets' = RecordAll(tables, keys, cost, victims)
              /\ admitted' = Remember(keys, cost, victims)
        /\ UNCHANGED <<time, behind>>

Refuse(keys, cost) ==
    LET tables == TouchAll(keys)
    IN  /\ ~ Admissible(tables, keys, cost)
        /\ buckets' = tables
        /\ UNCHANGED <<time, behind, admitted>>

\* PruneRateLimiters, from the maintenance timer.
Prune ==
    /\ buckets' = [l \in Limiter |-> PruneTable(buckets[l], Now)]
    /\ UNCHANGED <<time, behind, admitted>>

\* ClearRateLimiters, when the server stops.
Clear ==
    /\ buckets' = [l \in Limiter |-> << >>]
    /\ admitted' = [l \in Limiter |-> [k \in Key |-> <<>>]]
    /\ UNCHANGED <<time, behind>>

PassTime ==
    /\ time < MaxTime
    /\ time' = time + 1
    /\ admitted' = [l \in Limiter |-> [k \in Key |-> Recent(admitted[l][k], time')]]
    /\ UNCHANGED <<behind, buckets>>

SetClockBack ==
    /\ \E d \in 1 .. MaxStepBack - behind : behind' = behind + d
    /\ UNCHANGED <<time, buckets, admitted>>

\* A wall clock is far from zero, the lastSeen of a new bucket.
Init ==
    /\ time = MaxStepBack
    /\ behind = 0
    /\ buckets = [l \in Limiter |-> << >>]
    /\ admitted = [l \in Limiter |-> [k \in Key |-> <<>>]]

Request(keys, cost) == Admit(keys, cost) \/ Refuse(keys, cost)

\* AllowAuthenticationAttempt and AllowAccountDeletion ask one limiter, the
\* others a group whose first limiter counts addresses, which are never empty.
Next ==
    \/ \E keys \in Requests, cost \in Costs : Request(keys, cost)
    \/ Prune
    \/ Clear
    \/ PassTime
    \/ SetClockBack

Spec == Init /\ [][Next]_vars

-----------------------------------------------------------------------------
(***************************************************************************)
(* Properties.                                                             *)
(***************************************************************************)

\* Within any window of real time a key that was not evicted in it is admitted
\* for at most the maximum cost, even when the clock was set back meanwhile:
\* expiry goes by the later of the clock and the bucket's lastSeen, and a
\* bucket is pruned only when nothing in it could still count.  While the clock
\* was never set back a limiter is exact: the events a key would be judged by
\* are the admissions of the last window, so nothing is refused that the policy
\* allows.
WindowRespected ==
    \A l \in Limiter, k \in Key :
        /\ Len(Recent(admitted[l][k], time)) <= MaximumCost
        /\ behind = 0 =>
              (IF k \in DOMAIN buckets[l] THEN Expire(buckets[l][k].events, Now) ELSE <<>>)
                  = Recent(admitted[l][k], time)

\* A key whose events still count disappears from a limiter only for a
\* new key that found the limiter full of keys seen no earlier, or because the
\* server stops: pruning and busy neighbours alone never reset a limit.
ForgetsOnlyTheIdlest ==
    [][\A l \in Limiter : \A k \in DOMAIN buckets[l] \ DOMAIN buckets'[l] :
          \/ Expire(buckets[l][k].events, EffectiveNow(buckets[l][k], Now)) = <<>>
          \/ /\ Cardinality(DOMAIN buckets[l]) = MaximumKeys
             /\ DOMAIN buckets'[l] \ DOMAIN buckets[l] # {}
             /\ \A other \in DOMAIN buckets[l] \ {k} :
                   buckets[l][other].lastSeen >= buckets[l][k].lastSeen
          \/ Clear]_vars
=============================================================================
