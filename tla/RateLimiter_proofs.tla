------------------------- MODULE RateLimiter_proofs -------------------------
(***************************************************************************)
(* What holds of a group of limiters for every policy, every set of keys   *)
(* and every request: the types and the bound on the keys, that no key is  *)
(* admitted for more than the maximum within a window although the clock   *)
(* may be set back, and what may make a limiter forget a key.              *)
(*                                                                         *)
(* The argument relates the events of a bucket, which carry the time of    *)
(* the wall clock or that of the bucket's last use, to the times at which  *)
(* the key was really admitted.  The latest events are those of the        *)
(* admissions that still count, one for one; an event lies no later than   *)
(* its admission, and earlier by no more than the clock is behind, nor     *)
(* more than the bucket's last use lies before the present.  So expiry     *)
(* never drops an event whose admission still counts.                      *)
(***************************************************************************)
EXTENDS RateLimiter, FiniteSetTheorems, TLAPS

-----------------------------------------------------------------------------
(***************************************************************************)
(* The inductive invariant, of a bucket, the admissions of its key, the    *)
(* time and how far the clock is behind.                                   *)
(***************************************************************************)

\* Times in order, all of them within a window of the present.
History(times, now) ==
    /\ times \in Seq(Int)
    /\ \A i, j \in 1 .. Len(times) : i <= j => times[i] <= times[j]
    /\ \A i \in 1 .. Len(times) : now - WindowMs < times[i] /\ times[i] <= now

\* The event of the i-th admission, counted from the end of the bucket.
EventOf(events, times, i) == events[Len(events) - Len(times) + i]

Vouches(bucket, times, now, back) ==
    /\ bucket \in Bucket
    /\ bucket.lastSeen <= now
    /\ Len(times) <= Len(bucket.events)
    /\ Len(bucket.events) <= MaximumCost
    /\ \A i \in 1 .. Len(times) :
          /\ EventOf(bucket.events, times, i) <= times[i]
          /\ times[i] - EventOf(bucket.events, times, i) <= back
          /\ times[i] - EventOf(bucket.events, times, i) <= now - bucket.lastSeen
    /\ \A j \in 1 .. Len(bucket.events) - Len(times) :
          bucket.events[j] <= now - WindowMs

\* A table of buckets and the admissions of all keys.
Keeps(table, history, now, back) ==
    /\ DOMAIN table \subseteq Key
    /\ \A k \in Key :
          /\ History(history[k], now)
          /\ k \in DOMAIN table => Vouches(table[k], history[k], now, back)
          /\ k \notin DOMAIN table => history[k] = <<>>

Small(table) ==
    /\ IsFiniteSet(DOMAIN table)
    /\ Cardinality(DOMAIN table) <= MaximumKeys

Clock ==
    /\ time \in MaxStepBack .. MaxTime
    /\ behind \in 0 .. MaxStepBack

Inv ==
    /\ Clock
    /\ admitted \in [Limiter -> [Key -> Seq(Int)]]
    /\ \A l \in Limiter : /\ Keeps(buckets[l], admitted[l], time, behind)
                          /\ Small(buckets[l])

-----------------------------------------------------------------------------
(***************************************************************************)
(* The least and the greatest of some numbers, and parts of a sequence.    *)
(***************************************************************************)

\* The order of the naturals has no endless descent.
LEMMA LessIsWellFounded == IsWellFoundedOn({p \in Nat \X Nat : p[1] < p[2]}, Nat)
BY NatLessThanWellFounded DEF OpToRel

\* A set of naturals has a least element, and Min is it.
LEMMA MinIsLeast ==
    ASSUME NEW S \in SUBSET Nat, S # {}
    PROVE  Min(S) \in S /\ \A x \in S : Min(S) <= x
<1> DEFINE less == {p \in Nat \X Nat : p[1] < p[2]}
<1>1. \E x \in S : \A y \in S : ~ (<<y, x>> \in less)
    <2>1. IsWellFoundedOn(less, Nat)
        BY LessIsWellFounded
    <2> HIDE DEF less
    <2> QED
        BY <2>1, WFMin
<1>2. \E x \in S : \A y \in S : x <= y
    <2>1. PICK x \in S : \A y \in S : ~ (<<y, x>> \in less)
        BY <1>1
    <2>2. ASSUME NEW y \in S
          PROVE  x <= y
        <3>1. x \in Nat /\ y \in Nat
            OBVIOUS
        <3>2. <<y, x>> \in Nat \X Nat => ~ (y < x)
            BY <2>1
        <3> QED
            BY <3>1, <3>2
    <2> QED
        BY <2>2
<1> QED
    BY <1>2 DEF Min

\* The later of two times.
LEMMA LaterOfTwo ==
    ASSUME NEW a \in Int, NEW b \in Int
    PROVE  Max({a, b}) = IF a <= b THEN b ELSE a
<1> DEFINE later == IF a <= b THEN b ELSE a
<1>1. later \in {a, b} /\ \A y \in {a, b} : later >= y
    OBVIOUS
<1>2. \A x \in {a, b} : (\A y \in {a, b} : x >= y) => x = later
    OBVIOUS
<1> QED
    BY <1>1, <1>2 DEF Max

\* What is left of a sequence after its first elements.
LEMMA RestOf ==
    ASSUME NEW T, NEW s \in Seq(T), NEW f \in 1 .. Len(s) + 1
    PROVE  /\ SubSeq(s, f, Len(s)) \in Seq(T)
           /\ Len(SubSeq(s, f, Len(s))) = Len(s) - f + 1
           /\ \A i \in 1 .. Len(s) - f + 1 : SubSeq(s, f, Len(s))[i] = s[i + f - 1]
OBVIOUS

\* A sequence that got the same number several times at its end.
LEMMA WithMarks ==
    ASSUME NEW s \in Seq(Int), NEW cost \in Nat, NEW v \in Int
    PROVE  /\ s \o [i \in 1 .. cost |-> v] \in Seq(Int)
           /\ Len(s \o [i \in 1 .. cost |-> v]) = Len(s) + cost
           /\ \A i \in 1 .. Len(s) : (s \o [j \in 1 .. cost |-> v])[i] = s[i]
           /\ \A i \in Len(s) + 1 .. Len(s) + cost : (s \o [j \in 1 .. cost |-> v])[i] = v
<1> DEFINE marks == [i \in 1 .. cost |-> v]
<1>1. marks \in Seq(Int) /\ Len(marks) = cost /\ \A i \in 1 .. cost : marks[i] = v
    OBVIOUS
<1> HIDE DEF marks
<1>2. s \o marks \in Seq(Int) /\ Len(s \o marks) = Len(s) + cost
    BY <1>1
<1>3. \A i \in 1 .. Len(s) : (s \o marks)[i] = s[i]
    BY <1>1
<1>4. ASSUME NEW i \in Len(s) + 1 .. Len(s) + cost
      PROVE  (s \o marks)[i] = v
    <2>1. i - Len(s) \in 1 .. cost /\ (s \o marks)[i] = marks[i - Len(s)]
        BY <1>1
    <2> QED
        BY <1>1, <2>1
<1> QED
    BY <1>2, <1>3, <1>4 DEF marks

\* Expire drops the first events, all of them too old, and the first of those
\* it keeps is not.
LEMMA ExpireDropsOld ==
    ASSUME NEW events \in Seq(Int), NEW now \in Int
    PROVE  \E f \in 1 .. Len(events) + 1 :
              /\ Expire(events, now) = SubSeq(events, f, Len(events))
              /\ \A i \in 1 .. f - 1 : events[i] <= now - WindowMs
              /\ f <= Len(events) => events[f] > now - WindowMs
<1> DEFINE kept == {i \in DOMAIN events : events[i] > now - WindowMs}
<1>1. DOMAIN events = 1 .. Len(events) /\ Len(events) \in Nat
    OBVIOUS
<1>2. \A i \in 1 .. Len(events) : events[i] \in Int
    OBVIOUS
<1>3. WindowMs \in Nat
    BY RateLimiterAssumption
<1>4. CASE kept = {}
    <2>1. Expire(events, now) = <<>>
        BY <1>4 DEF Expire
    <2>2. SubSeq(events, Len(events) + 1, Len(events)) = <<>>
        BY <1>1
    <2>3. \A i \in 1 .. Len(events) : events[i] <= now - WindowMs
        BY <1>1, <1>2, <1>3, <1>4
    <2> DEFINE f == Len(events) + 1
    <2>4. f \in 1 .. Len(events) + 1 /\ ~ (f <= Len(events))
        BY <1>1
    <2>5. /\ Expire(events, now) = SubSeq(events, f, Len(events))
          /\ \A i \in 1 .. f - 1 : events[i] <= now - WindowMs
        BY <1>1, <2>1, <2>2, <2>3
    <2> HIDE DEF f
    <2> QED
        BY <2>4, <2>5
<1>5. CASE kept # {}
    <2> DEFINE f == Min(kept)
    <2>1. f \in kept /\ \A i \in kept : f <= i
        <3>1. kept \in SUBSET Nat
            BY <1>1
        <3> HIDE DEF kept
        <3> QED
            BY <1>5, <3>1, MinIsLeast
    <2>2. Expire(events, now) = SubSeq(events, f, Len(events))
        BY <1>5 DEF Expire
    <2> HIDE DEF f
    <2>3. f \in 1 .. Len(events) /\ events[f] > now - WindowMs
        BY <1>1, <2>1
    <2>4. ASSUME NEW i \in 1 .. f - 1
          PROVE  events[i] <= now - WindowMs
        <3>1. i \in DOMAIN events /\ ~ (f <= i)
            BY <1>1, <2>3
        <3>2. i \notin kept
            BY <2>1, <3>1
        <3> QED
            BY <1>1, <1>2, <1>3, <3>1, <3>2
    <2>5. f \in 1 .. Len(events) + 1
        BY <1>1, <2>3
    <2> HIDE DEF kept
    <2> QED
        BY <2>2, <2>3, <2>4, <2>5
<1> QED
    BY <1>4, <1>5

\* So does Recent, of times in order, and all it keeps are recent.
LEMMA RecentDropsPast ==
    ASSUME NEW times \in Seq(Int), NEW now \in Int,
           \A i, j \in 1 .. Len(times) : i <= j => times[i] <= times[j]
    PROVE  \E f \in 1 .. Len(times) + 1 :
              /\ Recent(times, now) = SubSeq(times, f, Len(times))
              /\ \A i \in 1 .. f - 1 : times[i] <= now - WindowMs
              /\ \A i \in f .. Len(times) : times[i] > now - WindowMs
<1> DEFINE past == {i \in DOMAIN times : times[i] <= now - WindowMs}
           kept == {i \in DOMAIN times : times[i] > now - WindowMs}
<1>1. DOMAIN times = 1 .. Len(times) /\ Len(times) \in Nat
    OBVIOUS
<1>2. \A i \in 1 .. Len(times) : times[i] \in Int
    OBVIOUS
<1>3. WindowMs \in Nat
    BY RateLimiterAssumption
<1>4. \E f \in 1 .. Len(times) + 1 : past = 1 .. f - 1
    <2>1. CASE kept = {}
        <3>1. past = 1 .. (Len(times) + 1) - 1
            BY <1>1, <1>2, <1>3, <2>1
        <3> QED
            BY <1>1, <3>1
    <2>2. CASE kept # {}
        <3> DEFINE f == Min(kept)
        <3>1. f \in kept /\ \A i \in kept : f <= i
            <4>1. kept \in SUBSET Nat
                BY <1>1
            <4> HIDE DEF kept
            <4> QED
                BY <2>2, <4>1, MinIsLeast
        <3> HIDE DEF f
        <3>2. f \in 1 .. Len(times) /\ times[f] > now - WindowMs
            BY <1>1, <3>1
        <3>3. ASSUME NEW i \in 1 .. Len(times)
              PROVE  i \in past <=> i <= f - 1
            <4>1. CASE i <= f - 1
                <5>1. i \notin kept
                    BY <3>1, <3>2, <4>1
                <5> QED
                    BY <1>1, <1>2, <1>3, <4>1, <5>1
            <4>2. CASE ~ (i <= f - 1)
                <5>1. times[f] <= times[i]
                    BY <3>2, <4>2
                <5> QED
                    BY <1>1, <1>2, <1>3, <3>2, <4>2, <5>1
            <4> QED
                BY <4>1, <4>2
        <3>4. past = 1 .. f - 1
            BY <1>1, <3>2, <3>3
        <3> QED
            BY <1>1, <3>2, <3>4
    <2> QED
        BY <2>1, <2>2
<1>5. PICK f \in 1 .. Len(times) + 1 : past = 1 .. f - 1
    BY <1>4
<1>6. Cardinality(past) + 1 = f
    <2>1. f \in Int /\ 1 \in Int /\ f - 1 \in Int
        BY <1>1
    <2>2. Cardinality(1 .. f - 1) = IF 1 > f - 1 THEN 0 ELSE (f - 1) - 1 + 1
        BY <2>1, FS_Interval
    <2>3. Cardinality(past) = IF 1 > f - 1 THEN 0 ELSE (f - 1) - 1 + 1
        BY <1>5, <2>2
    <2> HIDE DEF past
    <2> QED
        BY <1>1, <2>3
<1>7. Recent(times, now) = SubSeq(times, f, Len(times))
    BY <1>6 DEF Recent
<1>8. \A i \in 1 .. f - 1 : times[i] <= now - WindowMs
    BY <1>5
<1>9. ASSUME NEW i \in f .. Len(times)
      PROVE  times[i] > now - WindowMs
    <2>1. i \in 1 .. Len(times) /\ i \notin past
        BY <1>1, <1>5
    <2> QED
        BY <1>1, <1>2, <1>3, <2>1
<1> QED
    BY <1>7, <1>8, <1>9

-----------------------------------------------------------------------------
(***************************************************************************)
(* One bucket.                                                             *)
(***************************************************************************)

\* Where the wall clock and the last use of a bucket stand.
LEMMA EffectiveNowIs ==
    ASSUME NEW bucket \in Bucket, NEW now \in Int
    PROVE  /\ EffectiveNow(bucket, now) \in Int
           /\ EffectiveNow(bucket, now) =
                  IF now <= bucket.lastSeen THEN bucket.lastSeen ELSE now
<1>1. bucket.lastSeen \in Int
    BY DEF Bucket
<1> QED
    BY <1>1, LaterOfTwo DEF EffectiveNow

\* The events of the admissions that still count are younger than the cutoff.
LEMMA CountedEventsStay ==
    ASSUME NEW now \in Int, NEW back \in Int, NEW times, History(times, now),
           NEW bucket, Vouches(bucket, times, now, back),
           NEW i \in 1 .. Len(times)
    PROVE  EventOf(bucket.events, times, i) > EffectiveNow(bucket, now - back) - WindowMs
<1> DEFINE e == EventOf(bucket.events, times, i)
           seen == EffectiveNow(bucket, now - back)
<1>1. times \in Seq(Int) /\ bucket \in Bucket
    BY DEF History, Vouches
<1>2. bucket.events \in Seq(Int) /\ bucket.lastSeen \in Int
    BY <1>1 DEF Bucket
<1>3. WindowMs \in Nat
    BY RateLimiterAssumption
<1>4. times[i] \in Int /\ e \in Int
    <2>1. Len(bucket.events) - Len(times) + i \in 1 .. Len(bucket.events)
        BY <1>1, <1>2 DEF Vouches
    <2> QED
        BY <1>1, <1>2, <2>1 DEF EventOf
<1>5. /\ times[i] - e <= back
      /\ times[i] - e <= now - bucket.lastSeen
      /\ now - WindowMs < times[i]
    BY DEF Vouches, History
<1>6. seen = IF now - back <= bucket.lastSeen THEN bucket.lastSeen ELSE now - back
    <2>1. now - back \in Int
        OBVIOUS
    <2> QED
        BY <1>1, <2>1, EffectiveNowIs
<1> HIDE DEF e, seen
<1>7. e > seen - WindowMs
    BY <1>2, <1>3, <1>4, <1>5, <1>6
<1> QED
    BY <1>7 DEF e, seen

\* Expiring the events of a bucket, used at the present or not, loses no event
\* that counts.
LEMMA ExpireVouches ==
    ASSUME NEW now \in Int, NEW back \in Int, NEW times, History(times, now),
           NEW bucket, Vouches(bucket, times, now, back), 0 <= back,
           NEW last \in {bucket.lastSeen, EffectiveNow(bucket, now - back)}
    PROVE  LET seen == EffectiveNow(bucket, now - back)
           IN  Vouches([events |-> Expire(bucket.events, seen), lastSeen |-> last],
                       times, now, back)
<1> DEFINE seen == EffectiveNow(bucket, now - back)
           E == bucket.events
           E2 == Expire(E, seen)
           m == Len(E)
           n == Len(times)
<1>1. times \in Seq(Int) /\ bucket \in Bucket
    BY DEF History, Vouches
<1>2. E \in Seq(Int) /\ bucket.lastSeen \in Int
    BY <1>1 DEF Bucket
<1>3. seen \in Int /\ seen = IF now - back <= bucket.lastSeen THEN bucket.lastSeen
                                                              ELSE now - back
    <2>1. now - back \in Int
        OBVIOUS
    <2> QED
        BY <1>1, <2>1, EffectiveNowIs
<1>4. PICK f \in 1 .. m + 1 : /\ E2 = SubSeq(E, f, m)
                              /\ \A i \in 1 .. f - 1 : E[i] <= seen - WindowMs
    BY <1>2, <1>3, ExpireDropsOld
<1>5. m \in Nat /\ n \in Nat /\ n <= m /\ WindowMs \in Nat
    BY <1>1, <1>2, RateLimiterAssumption DEF Vouches
<1>6. \A i \in 1 .. n : EventOf(E, times, i) > seen - WindowMs
    BY CountedEventsStay
<1>7. f <= m - n + 1
    <2>1. CASE n = 0
        BY <1>5, <2>1
    <2>2. CASE n # 0
        <3>1. 1 \in 1 .. n
            BY <1>5, <2>2
        <3>2. E[m - n + 1] > seen - WindowMs
            BY <1>6, <3>1 DEF EventOf
        <3>3. m - n + 1 \notin 1 .. f - 1
            <4>1. m - n + 1 \in 1 .. m
                BY <1>5, <2>2
            <4>2. E[m - n + 1] \in Int
                BY <1>2, <4>1
            <4>3. ~ (E[m - n + 1] <= seen - WindowMs)
                BY <1>3, <1>5, <3>2, <4>2
            <4> QED
                BY <1>4, <4>3
        <3> QED
            BY <1>5, <3>3
    <2> QED
        BY <2>1, <2>2
<1>8. /\ E2 \in Seq(Int)
      /\ Len(E2) = m - f + 1
      /\ \A i \in 1 .. m - f + 1 : E2[i] = E[i + f - 1]
    BY <1>2, <1>4, RestOf
<1> HIDE DEF seen, E2, m, n
<1>9. ASSUME NEW i \in 1 .. n
      PROVE  EventOf(E2, times, i) = EventOf(E, times, i)
    <2>1. Len(E2) - n + i \in 1 .. m - f + 1 /\ (Len(E2) - n + i) + f - 1 = m - n + i
        BY <1>5, <1>7, <1>8
    <2> QED
        BY <1>8, <2>1 DEF EventOf, n, m
<1>10. ASSUME NEW j \in 1 .. Len(E2) - n
       PROVE  E2[j] <= now - WindowMs
    <2>1. j \in 1 .. m - f + 1 /\ j + f - 1 \in 1 .. m - n
        BY <1>5, <1>7, <1>8
    <2>2. E[j + f - 1] <= now - WindowMs
        BY <2>1 DEF Vouches, m, n
    <2> QED
        BY <1>8, <2>1, <2>2
<1>11. last \in Int /\ last <= now
    BY <1>2, <1>3 DEF Vouches, seen
<1>12. ASSUME NEW i \in 1 .. n
       PROVE  /\ EventOf(E, times, i) <= times[i]
              /\ times[i] - EventOf(E, times, i) <= back
              /\ times[i] - EventOf(E, times, i) <= now - last
    <2>1. /\ EventOf(E, times, i) <= times[i]
          /\ times[i] - EventOf(E, times, i) <= back
          /\ times[i] - EventOf(E, times, i) <= now - bucket.lastSeen
        BY DEF Vouches, n
    <2>2. CASE last = bucket.lastSeen
        BY <2>1, <2>2
    <2>3. CASE last = seen
        <3>1. CASE now - back <= bucket.lastSeen
            BY <1>3, <2>1, <2>3, <3>1
        <3>2. CASE ~ (now - back <= bucket.lastSeen)
            <4>1. now - last = back
                BY <1>3, <2>3, <3>2
            <4> QED
                BY <2>1, <4>1
        <3> QED
            BY <3>1, <3>2
    <2> QED
        BY <2>2, <2>3 DEF seen
<1> DEFINE b2 == [events |-> E2, lastSeen |-> last]
<1>13. b2 \in Bucket /\ b2.events = E2 /\ b2.lastSeen = last
    BY <1>8, <1>11 DEF Bucket
<1>14. n <= Len(E2) /\ Len(E2) <= MaximumCost
    <2>1. m <= MaximumCost /\ MaximumCost \in Nat
        BY RateLimiterAssumption DEF Vouches, m
    <2> QED
        BY <1>5, <1>7, <1>8, <2>1
<1> HIDE DEF b2
<1>15. Vouches(b2, times, now, back)
    BY <1>9, <1>10, <1>11, <1>12, <1>13, <1>14 DEF Vouches, n
<1> QED
    BY <1>15 DEF b2, E2, seen

\* A bucket without events vouches for a key without admissions.
LEMMA EmptyVouches ==
    ASSUME NEW now \in Nat, NEW back
    PROVE  Vouches(NewBucket, <<>>, now, back)
<1>1. /\ NewBucket \in Bucket /\ NewBucket.events = <<>> /\ NewBucket.lastSeen = 0
    BY DEF NewBucket, Bucket
<1> QED
    BY <1>1, RateLimiterAssumption DEF Vouches

\* Recording an admission keeps the bucket's word.
LEMMA RecordVouches ==
    ASSUME NEW now \in Int, NEW back \in Int, 0 <= back,
           NEW times, History(times, now),
           NEW bucket, Vouches(bucket, times, now, back),
           now - back <= bucket.lastSeen,
           NEW cost \in Nat, Len(bucket.events) + cost <= MaximumCost
    PROVE  Vouches([bucket EXCEPT !.events = @ \o [i \in 1 .. cost |-> bucket.lastSeen]],
                   times \o [i \in 1 .. cost |-> now], now, back)
<1> DEFINE E == bucket.events
           m == Len(E)
           n == Len(times)
           marks == [i \in 1 .. cost |-> bucket.lastSeen]
           stamps == [i \in 1 .. cost |-> now]
           E2 == E \o marks
           times2 == times \o stamps
           b2 == [bucket EXCEPT !.events = E2]
<1>1. times \in Seq(Int) /\ bucket \in Bucket
    BY DEF History, Vouches
<1>2. E \in Seq(Int) /\ bucket.lastSeen \in Int /\ bucket.lastSeen <= now
    BY <1>1 DEF Bucket, Vouches
<1>3. m \in Nat /\ n \in Nat /\ n <= m /\ WindowMs \in Nat
    BY <1>1, <1>2, RateLimiterAssumption DEF Vouches
<1>5. /\ E2 \in Seq(Int) /\ Len(E2) = m + cost
      /\ \A i \in 1 .. m : E2[i] = E[i]
      /\ \A i \in m + 1 .. m + cost : E2[i] = bucket.lastSeen
    <2>1. E \in Seq(Int) /\ bucket.lastSeen \in Int
        BY <1>2
    <2> HIDE DEF E
    <2> QED
        BY <2>1, WithMarks
<1>6. /\ times2 \in Seq(Int) /\ Len(times2) = n + cost
      /\ \A i \in 1 .. n : times2[i] = times[i]
      /\ \A i \in n + 1 .. n + cost : times2[i] = now
    BY <1>1, WithMarks
<1>7. /\ b2 \in Bucket /\ b2.events = E2 /\ b2.lastSeen = bucket.lastSeen
    BY <1>1, <1>5 DEF Bucket
<1> HIDE DEF marks, stamps, E2, times2, b2, m, n
<1>8. ASSUME NEW i \in 1 .. n + cost
      PROVE  /\ EventOf(E2, times2, i) <= times2[i]
             /\ times2[i] - EventOf(E2, times2, i) <= back
             /\ times2[i] - EventOf(E2, times2, i) <= now - bucket.lastSeen
    <2>1. EventOf(E2, times2, i) = E2[m - n + i]
        <3>1. Len(E2) - Len(times2) + i = m - n + i
            BY <1>3, <1>5, <1>6
        <3> QED
            BY <3>1 DEF EventOf
    <2>2. CASE i \in 1 .. n
        <3>1. EventOf(E, times, i) = E[m - n + i]
            BY DEF EventOf, m, n
        <3>2. m - n + i \in 1 .. m
            BY <1>3, <2>2
        <3>3. /\ EventOf(E, times, i) <= times[i]
              /\ times[i] - EventOf(E, times, i) <= back
              /\ times[i] - EventOf(E, times, i) <= now - bucket.lastSeen
            BY <2>2 DEF Vouches, n
        <3> QED
            BY <1>5, <1>6, <2>1, <2>2, <3>1, <3>2, <3>3
    <2>3. CASE i \in n + 1 .. n + cost
        <3>1. m - n + i \in m + 1 .. m + cost
            BY <1>3, <2>3
        <3>2. E2[m - n + i] = bucket.lastSeen /\ times2[i] = now
            BY <1>5, <1>6, <2>3, <3>1
        <3> QED
            BY <1>2, <2>1, <3>2
    <2> QED
        BY <1>3, <2>2, <2>3
<1>9. ASSUME NEW j \in 1 .. Len(E2) - Len(times2)
      PROVE  E2[j] <= now - WindowMs
    <2>1. j \in 1 .. m - n /\ j \in 1 .. m
        BY <1>3, <1>5, <1>6
    <2>2. E[j] <= now - WindowMs
        BY <2>1 DEF Vouches, m, n
    <2> QED
        BY <1>5, <2>1, <2>2
<1>10. Len(times2) <= Len(E2) /\ Len(E2) <= MaximumCost
    BY <1>3, <1>5, <1>6 DEF m
<1>11. Vouches(b2, times2, now, back)
    BY <1>2, <1>6, <1>7, <1>8, <1>9, <1>10 DEF Vouches
<1> QED
    BY <1>11 DEF b2, E2, times2, marks, stamps

-----------------------------------------------------------------------------
(***************************************************************************)
(* The admissions of a key.                                                *)
(***************************************************************************)

\* At the same time, everything in a history is recent.
LEMMA RecentIsAll ==
    ASSUME NEW now \in Int, NEW times, History(times, now)
    PROVE  Recent(times, now) = times
<1>1. times \in Seq(Int) /\ \A i, j \in 1 .. Len(times) : i <= j => times[i] <= times[j]
    BY DEF History
<1>2. PICK f \in 1 .. Len(times) + 1 :
          /\ Recent(times, now) = SubSeq(times, f, Len(times))
          /\ \A i \in 1 .. f - 1 : times[i] <= now - WindowMs
    BY <1>1, RecentDropsPast
<1>3. f = 1
    <2> SUFFICES ASSUME f # 1
                 PROVE  FALSE
        OBVIOUS
    <2>1. 1 \in 1 .. f - 1 /\ 1 \in 1 .. Len(times)
        BY <1>1
    <2>2. times[1] <= now - WindowMs /\ now - WindowMs < times[1] /\ times[1] \in Int
        BY <1>1, <1>2, <2>1 DEF History
    <2> QED
        BY <2>2, RateLimiterAssumption
<1>4. SubSeq(times, 1, Len(times)) = times
    BY <1>1
<1> QED
    BY <1>2, <1>3, <1>4

\* Admissions at the present are the latest.
LEMMA HistoryWith ==
    ASSUME NEW now \in Int, NEW times, History(times, now), NEW cost \in Nat
    PROVE  History(times \o [i \in 1 .. cost |-> now], now)
<1> DEFINE stamps == [i \in 1 .. cost |-> now]
           times2 == times \o stamps
           n == Len(times)
<1>1. times \in Seq(Int) /\ n \in Nat
    BY DEF History
<1>2. /\ times2 \in Seq(Int) /\ Len(times2) = n + cost
      /\ \A i \in 1 .. n : times2[i] = times[i]
      /\ \A i \in n + 1 .. n + cost : times2[i] = now
    BY <1>1, WithMarks
<1>6. /\ WindowMs \in Nat \ {0}
      /\ \A i, j \in 1 .. n : i <= j => times[i] <= times[j]
      /\ \A i \in 1 .. n : now - WindowMs < times[i] /\ times[i] <= now
    BY RateLimiterAssumption DEF History
<1> HIDE DEF stamps, times2, n
<1>7. ASSUME NEW i \in 1 .. n + cost
      PROVE  now - WindowMs < times2[i] /\ times2[i] <= now
    <2>1. i \in 1 .. n \/ i \in n + 1 .. n + cost
        BY <1>1
    <2> QED
        BY <1>2, <1>6, <2>1
<1>8. ASSUME NEW i \in 1 .. n + cost, NEW j \in 1 .. n + cost, i <= j
      PROVE  times2[i] <= times2[j]
    <2>1. CASE j \in 1 .. n
        <3>1. i \in 1 .. n
            BY <1>1, <1>8, <2>1
        <3> QED
            BY <1>2, <1>6, <1>8, <2>1, <3>1
    <2>2. CASE j \in n + 1 .. n + cost
        BY <1>2, <1>7, <2>2
    <2> QED
        BY <1>1, <2>1, <2>2
<1>9. History(times2, now)
    BY <1>2, <1>7, <1>8 DEF History
<1> QED
    BY <1>9 DEF times2, stamps

\* What is left of a history when time passes is one, and the bucket still
\* vouches for it.
LEMMA TimeVouches ==
    ASSUME NEW now \in Int, NEW back, NEW times, History(times, now)
    PROVE  /\ History(Recent(times, now + 1), now + 1)
           /\ \A bucket : Vouches(bucket, times, now, back)
                             => Vouches(bucket, Recent(times, now + 1), now + 1, back)
<1> DEFINE later == Recent(times, now + 1)
           n == Len(times)
<1>1. /\ times \in Seq(Int)
      /\ \A i, j \in 1 .. n : i <= j => times[i] <= times[j]
      /\ \A i \in 1 .. n : times[i] <= now
    BY DEF History
<1>2. PICK f \in 1 .. n + 1 :
          /\ later = SubSeq(times, f, n)
          /\ \A i \in 1 .. f - 1 : times[i] <= (now + 1) - WindowMs
          /\ \A i \in f .. n : times[i] > (now + 1) - WindowMs
    <2> DEFINE next == now + 1
    <2>1. next \in Int
        OBVIOUS
    <2> HIDE DEF next
    <2>2. \E f \in 1 .. Len(times) + 1 :
              /\ Recent(times, next) = SubSeq(times, f, Len(times))
              /\ \A i \in 1 .. f - 1 : times[i] <= next - WindowMs
              /\ \A i \in f .. Len(times) : times[i] > next - WindowMs
        BY <1>1, <2>1, RecentDropsPast
    <2> QED
        BY <2>2 DEF next
<1>3. /\ later \in Seq(Int)
      /\ Len(later) = n - f + 1
      /\ \A i \in 1 .. n - f + 1 : later[i] = times[i + f - 1]
    BY <1>1, <1>2, RestOf
<1>4. n \in Nat /\ WindowMs \in Nat /\ \A i \in 1 .. n : times[i] \in Int
    BY <1>1, RateLimiterAssumption
<1> HIDE DEF later, n
<1>5. \A i \in 1 .. n - f + 1 : i + f - 1 \in f .. n /\ i + f - 1 \in 1 .. n
    BY <1>4
<1>6. History(later, now + 1)
    <2>1. ASSUME NEW i \in 1 .. Len(later), NEW j \in 1 .. Len(later), i <= j
          PROVE  later[i] <= later[j]
        <3>1. /\ i + f - 1 \in 1 .. n /\ j + f - 1 \in 1 .. n /\ i + f - 1 <= j + f - 1
              /\ later[i] = times[i + f - 1] /\ later[j] = times[j + f - 1]
            BY <1>3, <1>4, <1>5, <2>1
        <3> QED
            BY <1>1, <3>1
    <2>2. ASSUME NEW i \in 1 .. Len(later)
          PROVE  (now + 1) - WindowMs < later[i] /\ later[i] <= now + 1
        <3>1. /\ i + f - 1 \in f .. n /\ i + f - 1 \in 1 .. n
              /\ later[i] = times[i + f - 1]
            BY <1>3, <1>5
        <3>2. /\ times[i + f - 1] > (now + 1) - WindowMs /\ times[i + f - 1] <= now
              /\ times[i + f - 1] \in Int
            BY <1>1, <1>2, <1>4, <3>1
        <3> QED
            BY <1>4, <3>1, <3>2
    <2> QED
        BY <1>3, <2>1, <2>2 DEF History
<1>7. ASSUME NEW bucket, Vouches(bucket, times, now, back)
      PROVE  Vouches(bucket, later, now + 1, back)
    <2> DEFINE E == bucket.events
               m == Len(E)
    <2>1. bucket \in Bucket /\ E \in Seq(Int) /\ bucket.lastSeen \in Int
        BY <1>7 DEF Vouches, Bucket
    <2>2. /\ m \in Nat /\ n <= m /\ m <= MaximumCost /\ bucket.lastSeen <= now
          /\ \A i \in 1 .. n :
                /\ E[m - n + i] <= times[i]
                /\ times[i] - E[m - n + i] <= back
                /\ times[i] - E[m - n + i] <= now - bucket.lastSeen
          /\ \A j \in 1 .. m - n : E[j] <= now - WindowMs
        BY <1>7, <2>1 DEF Vouches, EventOf, n
    <2> HIDE DEF m
    <2>3. ASSUME NEW i \in 1 .. Len(later)
          PROVE  /\ EventOf(E, later, i) <= later[i]
                 /\ later[i] - EventOf(E, later, i) <= back
                 /\ later[i] - EventOf(E, later, i) <= (now + 1) - bucket.lastSeen
        <3> DEFINE g == i + f - 1
        <3>1. g \in 1 .. n /\ later[i] = times[g]
            BY <1>3, <1>5
        <3>2. EventOf(E, later, i) = E[m - n + g]
            <4>1. m - Len(later) + i = m - n + g
                BY <1>3, <1>4, <2>2
            <4> QED
                BY <4>1 DEF EventOf, m
        <3> HIDE DEF g
        <3>3. m - n + g \in 1 .. m /\ E[m - n + g] \in Int /\ times[g] \in Int
            BY <1>4, <2>1, <2>2, <3>1 DEF m
        <3>4. /\ E[m - n + g] <= times[g]
              /\ times[g] - E[m - n + g] <= back
              /\ times[g] - E[m - n + g] <= now - bucket.lastSeen
            BY <2>2, <3>1
        <3>5. times[g] - E[m - n + g] <= (now + 1) - bucket.lastSeen
            <4> DEFINE x == times[g]
                       y == E[m - n + g]
                       z == bucket.lastSeen
            <4>1. x \in Int /\ y \in Int /\ z \in Int /\ x - y <= now - z
                BY <2>1, <3>3, <3>4
            <4> HIDE DEF x, y, z
            <4>2. x - y <= (now + 1) - z
                BY <4>1
            <4> QED
                BY <4>2 DEF x, y, z
        <3> QED
            BY <3>1, <3>2, <3>4, <3>5
    <2>4. ASSUME NEW j \in 1 .. m - Len(later)
          PROVE  E[j] <= (now + 1) - WindowMs
        <3>1. j \in 1 .. m /\ E[j] \in Int
            BY <1>3, <1>4, <2>1, <2>2 DEF m
        <3>2. CASE j \in 1 .. m - n
            BY <1>4, <2>2, <3>1, <3>2
        <3>3. CASE j \notin 1 .. m - n
            <4> DEFINE i == j - (m - n)
            <4>1. i \in 1 .. f - 1 /\ i \in 1 .. n /\ m - n + i = j
                BY <1>3, <1>4, <2>2, <3>1, <3>3
            <4>2. E[j] <= times[i] /\ times[i] <= (now + 1) - WindowMs /\ times[i] \in Int
                BY <1>2, <1>4, <2>2, <4>1
            <4> QED
                BY <1>4, <3>1, <4>2
        <3> QED
            BY <3>2, <3>3
    <2>5. Len(later) <= m
        BY <1>3, <1>4, <2>2
    <2>6. bucket.lastSeen <= now + 1
        BY <2>1, <2>2
    <2> QED
        BY <2>1, <2>2, <2>3, <2>4, <2>5, <2>6 DEF Vouches, m
<1> QED
    BY <1>6, <1>7 DEF later

-----------------------------------------------------------------------------
(***************************************************************************)
(* One table.                                                              *)
(***************************************************************************)

\* What Keeps says of a key that has a bucket, and of one that has none.
LEMMA KeepsOf ==
    ASSUME NEW table, NEW history, NEW now, NEW back,
           Keeps(table, history, now, back), NEW k \in Key
    PROVE  /\ History(history[k], now)
           /\ k \in DOMAIN table => Vouches(table[k], history[k], now, back)
           /\ k \notin DOMAIN table => history[k] = <<>>
BY DEF Keeps

\* A bucket that is asked about expires its events and is used at the present.
LEMMA RefreshVouches ==
    ASSUME NEW now \in Int, NEW back \in Int, 0 <= back,
           NEW times, History(times, now),
           NEW bucket, Vouches(bucket, times, now, back)
    PROVE  /\ Vouches(Refresh(bucket, now - back), times, now, back)
           /\ now - back <= Refresh(bucket, now - back).lastSeen
<1> DEFINE seen == EffectiveNow(bucket, now - back)
           r == [events |-> Expire(bucket.events, seen), lastSeen |-> seen]
<1>1. r = Refresh(bucket, now - back)
    BY DEF Refresh
<1>2. Vouches(r, times, now, back)
    BY ExpireVouches
<1>3. bucket \in Bucket /\ bucket.lastSeen \in Int /\ now - back \in Int
    BY DEF Vouches, Bucket
<1>4. seen \in Int /\ now - back <= seen
    BY <1>3, EffectiveNowIs
<1>5. r.lastSeen = seen
    OBVIOUS
<1> QED
    BY <1>1, <1>2, <1>4, <1>5

\* CanAcquire keeps the keys of a table and what they vouch for.
LEMMA TouchKeeps ==
    ASSUME NEW now \in Int, NEW back \in Int, 0 <= back, NEW table, NEW history,
           Keeps(table, history, now, back), NEW key
    PROVE  /\ Keeps(Touch(table, key, now - back), history, now, back)
           /\ DOMAIN Touch(table, key, now - back) = DOMAIN table
           /\ \A k \in DOMAIN table \ {key} : Touch(table, key, now - back)[k] = table[k]
<1> DEFINE touched == Touch(table, key, now - back)
<1>1. DOMAIN touched = DOMAIN table
    BY DEF Touch
<1>2. \A k \in DOMAIN table :
          touched[k] = IF k = key THEN Refresh(table[k], now - back) ELSE table[k]
    BY DEF Touch
<1> HIDE DEF touched
<1>3. ASSUME NEW k \in Key, k \in DOMAIN table
      PROVE  Vouches(touched[k], history[k], now, back)
    <2>1. History(history[k], now) /\ Vouches(table[k], history[k], now, back)
        BY <1>3, KeepsOf
    <2>2. Vouches(Refresh(table[k], now - back), history[k], now, back)
        BY <2>1, RefreshVouches
    <2> QED
        BY <1>2, <1>3, <2>1, <2>2
<1>4. Keeps(touched, history, now, back)
    BY <1>1, <1>3 DEF Keeps
<1> QED
    BY <1>1, <1>2, <1>4 DEF touched

\* Prune keeps what buckets vouch for, forgets only keys without admissions
\* that count, and the idlest.
LEMMA PruneKeeps ==
    ASSUME NEW now \in Int, NEW back \in Int, 0 <= back, NEW table, NEW history,
           Keeps(table, history, now, back)
    PROVE  LET pruned == PruneTable(table, now - back)
           IN  /\ Keeps(pruned, history, now, back)
               /\ DOMAIN pruned \subseteq DOMAIN table
               /\ \A k \in DOMAIN pruned : pruned[k].lastSeen = table[k].lastSeen
               /\ \A k \in DOMAIN table \ DOMAIN pruned :
                     Expire(table[k].events, EffectiveNow(table[k], now - back)) = <<>>
<1> DEFINE expired(k) == Expire(table[k].events, EffectiveNow(table[k], now - back))
           idle(k) == /\ expired(k) = <<>>
                      /\ EffectiveNow(table[k], now - back) - table[k].lastSeen >= WindowMs
           short(k) == [table[k] EXCEPT !.events = expired(k)]
           pruned == PruneTable(table, now - back)
<1>1. /\ DOMAIN pruned = {k \in DOMAIN table : ~ idle(k)}
      /\ \A k \in DOMAIN pruned : pruned[k] = short(k)
    BY DEF PruneTable
<1>2. \A k \in DOMAIN table : k \in Key /\ table[k] \in Bucket
    BY DEF Keeps, Vouches
<1>3. ASSUME NEW k \in DOMAIN table
      PROVE  /\ short(k) = [events |-> expired(k), lastSeen |-> table[k].lastSeen]
             /\ short(k).lastSeen = table[k].lastSeen
    BY <1>2 DEF Bucket
<1>4. ASSUME NEW k \in DOMAIN table
      PROVE  Vouches(short(k), history[k], now, back) /\ short(k).events = expired(k)
    <2>1. History(history[k], now) /\ Vouches(table[k], history[k], now, back)
        BY <1>2, KeepsOf
    <2>2. Vouches([events |-> expired(k), lastSeen |-> table[k].lastSeen],
                  history[k], now, back)
        BY <2>1, ExpireVouches
    <2> QED
        BY <1>3, <2>2
<1>5. ASSUME NEW k \in DOMAIN table, k \notin DOMAIN pruned
      PROVE  expired(k) = <<>> /\ history[k] = <<>>
    <2>1. expired(k) = <<>>
        BY <1>1, <1>5
    <2>2. Vouches(short(k), history[k], now, back) /\ short(k).events = <<>>
        BY <1>4, <2>1
    <2>3. Len(history[k]) <= Len(<<>>) /\ history[k] \in Seq(Int)
        BY <1>2, <2>2, KeepsOf DEF Vouches, History
    <2> QED
        BY <2>1, <2>3
<1> HIDE DEF short
<1>6. DOMAIN pruned \subseteq DOMAIN table
    BY <1>1
<1>7. \A k \in DOMAIN pruned : pruned[k].lastSeen = table[k].lastSeen
    BY <1>1, <1>3
<1>8. Keeps(pruned, history, now, back)
    <2>1. DOMAIN pruned \subseteq Key
        BY <1>2, <1>6
    <2>2. ASSUME NEW k \in Key
          PROVE  /\ History(history[k], now)
                 /\ k \in DOMAIN pruned => Vouches(pruned[k], history[k], now, back)
                 /\ k \notin DOMAIN pruned => history[k] = <<>>
        BY <1>1, <1>4, <1>5, <1>6, KeepsOf
    <2> HIDE DEF pruned
    <2> QED
        BY <2>1, <2>2 DEF Keeps
<1> QED
    BY <1>5, <1>6, <1>7, <1>8

\* Expiring makes no bucket longer.
LEMMA RefreshShortens ==
    ASSUME NEW bucket \in Bucket, NEW now \in Int
    PROVE  Len(Refresh(bucket, now).events) <= Len(bucket.events)
<1> DEFINE seen == EffectiveNow(bucket, now)
           E == bucket.events
<1>1. E \in Seq(Int) /\ seen \in Int
    BY EffectiveNowIs DEF Bucket
<1>2. Refresh(bucket, now).events = Expire(E, seen)
    BY DEF Refresh
<1> HIDE DEF seen, E
<1>3. PICK f \in 1 .. Len(E) + 1 : Expire(E, seen) = SubSeq(E, f, Len(E))
    BY <1>1, ExpireDropsOld
<1>4. Len(Expire(E, seen)) = Len(E) - f + 1 /\ Len(E) \in Nat
    BY <1>1, <1>3, RestOf
<1> QED
    BY <1>2, <1>4 DEF E

\* The history of no admissions.
LEMMA EmptyHistory ==
    ASSUME NEW now
    PROVE  History(<<>>, now)
BY DEF History

\* EnsureCapacityFor: whom it evicts was in the table and is not the new key.
LEMMA VictimIsOther ==
    ASSUME NEW table, DOMAIN table \subseteq Key, NEW key \in Key, NEW now,
           NEW victim \in Victims(table, key, now)
    PROVE  victim # key
<1>1. CASE ~ MustEvict(table, key) \/ ~ MustEvict(PruneTable(table, now), key)
    BY <1>1, RateLimiterAssumption DEF Victims
<1>2. CASE MustEvict(table, key) /\ MustEvict(PruneTable(table, now), key)
    <2>1. victim \in DOMAIN PruneTable(table, now)
        BY <1>2 DEF Victims
    <2> QED
        BY <1>2, <2>1 DEF MustEvict
<1> QED
    BY <1>1, <1>2

\* It leaves a place for the new key.
LEMMA RoomIsSmall ==
    ASSUME NEW table, Small(table), NEW key, NEW now,
           DOMAIN PruneTable(table, now) \subseteq DOMAIN table,
           NEW victim \in Victims(table, key, now)
    PROVE  /\ IsFiniteSet(DOMAIN MakeRoom(table, key, victim, now) \union {key})
           /\ Cardinality(DOMAIN MakeRoom(table, key, victim, now) \union {key}) <= MaximumKeys
<1> DEFINE pruned == IF MustEvict(table, key) THEN PruneTable(table, now) ELSE table
           D == DOMAIN pruned
           room == MakeRoom(table, key, victim, now)
<1>1. DOMAIN room = D \ {victim}
    BY DEF MakeRoom
<1>2. D \subseteq DOMAIN table
    OBVIOUS
<1>3. IsFiniteSet(DOMAIN table) /\ Cardinality(DOMAIN table) <= MaximumKeys
      /\ Cardinality(DOMAIN table) \in Nat /\ MaximumKeys \in Nat
    BY FS_CardinalityType, RateLimiterAssumption DEF Small
<1>4. IsFiniteSet(D) /\ Cardinality(D) <= Cardinality(DOMAIN table) /\ Cardinality(D) \in Nat
    BY <1>2, <1>3, FS_Subset, FS_CardinalityType
<1>5. /\ IsFiniteSet(D \ {victim})
      /\ Cardinality(D \ {victim}) = IF victim \in D THEN Cardinality(D) - 1 ELSE Cardinality(D)
    BY <1>4, FS_RemoveElement
<1>6. /\ IsFiniteSet((D \ {victim}) \union {key})
      /\ Cardinality((D \ {victim}) \union {key}) =
             IF key \in D \ {victim} THEN Cardinality(D \ {victim})
             ELSE Cardinality(D \ {victim}) + 1
    BY <1>5, FS_AddElement
<1>7. \/ key \in D \ {victim}
      \/ Cardinality(D \ {victim}) < MaximumKeys
    <2>1. CASE ~ MustEvict(table, key)
        <3>1. CASE key \in DOMAIN table
            <4>1. D = DOMAIN table /\ victim = NoKey
                BY <2>1 DEF Victims
            <4>2. CASE key = NoKey
                <5>1. Cardinality(D \ {victim}) = Cardinality(D) - 1
                    BY <1>5, <3>1, <4>1, <4>2
                <5> QED
                    BY <1>3, <1>4, <5>1
            <4>3. CASE key # NoKey
                BY <3>1, <4>1, <4>3
            <4> QED
                BY <4>2, <4>3
        <3>2. CASE key \notin DOMAIN table
            <4>1. Cardinality(D) < MaximumKeys
                BY <1>3, <2>1, <3>2 DEF MustEvict
            <4> QED
                BY <1>3, <1>4, <1>5, <4>1
        <3> QED
            BY <3>1, <3>2
    <2>2. CASE MustEvict(table, key) /\ ~ MustEvict(PruneTable(table, now), key)
        <3>1. key \notin D /\ Cardinality(D) < MaximumKeys
            BY <1>2, <1>3, <1>4, <2>2 DEF MustEvict
        <3> QED
            BY <1>3, <1>4, <1>5, <3>1
    <2>3. CASE MustEvict(table, key) /\ MustEvict(PruneTable(table, now), key)
        <3>1. victim \in D
            BY <2>3 DEF Victims
        <3> HIDE DEF D
        <3> QED
            BY <1>3, <1>4, <1>5, <3>1
    <2> QED
        BY <2>1, <2>2, <2>3
<1> HIDE DEF D, room
<1>8. Cardinality((D \ {victim}) \union {key}) <= MaximumKeys
    <2>1. Cardinality(D \ {victim}) \in Nat
        BY <1>5, FS_CardinalityType
    <2> QED
        BY <1>3, <1>4, <1>5, <1>6, <1>7, <2>1
<1> QED
    BY <1>1, <1>6, <1>8 DEF room

\* Record keeps the word of every bucket: of the key's, that has room for the
\* cost, of the others, and of the one that is evicted with its history.
LEMMA RecordKeeps ==
    ASSUME NEW now \in Nat, NEW back \in Nat, NEW table, NEW history,
           Keeps(table, history, now, back), Small(table),
           NEW key \in Key, NEW cost \in Nat, Fits(table, key, cost),
           NEW victim \in Victims(table, key, now - back)
    PROVE  LET result == Record(table, key, cost, victim, now - back)
               later == [k \in Key |->
                            IF k = victim THEN <<>>
                            ELSE IF k = key THEN history[k] \o [i \in 1 .. cost |-> now]
                            ELSE history[k]]
           IN  Keeps(result, later, now, back) /\ Small(result)
<1> DEFINE t == now - back
           pruned == IF MustEvict(table, key) THEN PruneTable(table, t) ELSE table
           room == MakeRoom(table, key, victim, t)
           old == IF key \in DOMAIN room THEN room[key] ELSE NewBucket
           bucket == Refresh(old, t)
           new == [bucket EXCEPT !.events = @ \o [i \in 1 .. cost |-> bucket.lastSeen]]
           result == Record(table, key, cost, victim, t)
           later == [k \in Key |->
                        IF k = victim THEN <<>>
                        ELSE IF k = key THEN history[k] \o [i \in 1 .. cost |-> now]
                        ELSE history[k]]
<1>1. t \in Int /\ now \in Int /\ back \in Int /\ 0 <= back
    OBVIOUS
<1>2. /\ Keeps(PruneTable(table, t), history, now, back)
      /\ DOMAIN PruneTable(table, t) \subseteq DOMAIN table
    BY <1>1, PruneKeeps
<1>3. /\ Keeps(pruned, history, now, back)
      /\ DOMAIN pruned \subseteq DOMAIN table
    BY <1>2
<1>4. victim # key
    BY VictimIsOther DEF Keeps
<1>5. /\ DOMAIN room = DOMAIN pruned \ {victim}
      /\ \A k \in DOMAIN room : room[k] = pruned[k]
    BY DEF MakeRoom
<1>6. /\ DOMAIN result = DOMAIN room \union {key}
      /\ \A k \in DOMAIN result : result[k] = IF k = key THEN new ELSE room[k]
    BY DEF Record
<1>7. Small(result)
    BY <1>2, <1>6, RoomIsSmall DEF Small
<1>8. /\ Vouches(old, history[key], now, back)
      /\ Len(old.events) + cost <= MaximumCost
    <2>1. CASE key \in DOMAIN room
        <3>1. key \in DOMAIN table /\ pruned = table /\ old = table[key]
            BY <1>3, <1>5, <2>1 DEF MustEvict
        <3> QED
            BY <3>1, KeepsOf DEF Fits
    <2>2. CASE key \notin DOMAIN room
        <3>1. key \notin DOMAIN pruned
            BY <1>4, <1>5, <2>2
        <3>2. history[key] = <<>>
            BY <1>3, <3>1, KeepsOf
        <3>3. old = NewBucket
            BY <2>2
        <3>4. Len(NewBucket.events) = 0 /\ cost <= MaximumCost
            BY DEF NewBucket, Fits
        <3> QED
            BY <3>2, <3>3, <3>4, EmptyVouches
    <2> QED
        BY <2>1, <2>2
<1>9. History(history[key], now)
    BY KeepsOf
<1> HIDE DEF old
<1>10. Vouches(bucket, history[key], now, back) /\ t <= bucket.lastSeen
    BY <1>1, <1>8, <1>9, RefreshVouches
<1>11. Len(bucket.events) + cost <= MaximumCost
    <2>1. old \in Bucket
        BY <1>8 DEF Vouches
    <2>2. Len(bucket.events) <= Len(old.events)
        BY <1>1, <2>1, RefreshShortens
    <2>3. Len(bucket.events) \in Nat /\ Len(old.events) \in Nat /\ MaximumCost \in Nat
        <3>1. bucket.events \in Seq(Int) /\ old.events \in Seq(Int)
            BY <1>8, <1>10 DEF Vouches, Bucket
        <3> QED
            BY <3>1, RateLimiterAssumption
    <2> QED
        BY <1>8, <2>2, <2>3
<1> HIDE DEF bucket
<1>12. Vouches(new, history[key] \o [i \in 1 .. cost |-> now], now, back)
    BY <1>1, <1>9, <1>10, <1>11, RecordVouches
<1>13. History(history[key] \o [i \in 1 .. cost |-> now], now)
    BY <1>1, <1>9, HistoryWith
<1> HIDE DEF new, room, pruned, result
<1>14. DOMAIN result \subseteq Key
    BY <1>3, <1>5, <1>6 DEF Keeps
<1>15. ASSUME NEW k \in Key
       PROVE  /\ History(later[k], now)
              /\ k \in DOMAIN result => Vouches(result[k], later[k], now, back)
              /\ k \notin DOMAIN result => later[k] = <<>>
    <2>1. CASE k = key
        <3>1. later[k] = history[key] \o [i \in 1 .. cost |-> now]
            BY <1>4, <2>1
        <3>2. k \in DOMAIN result /\ result[k] = new
            BY <1>6, <2>1
        <3> QED
            BY <1>12, <1>13, <3>1, <3>2
    <2>2. CASE k = victim
        <3>1. later[k] = <<>> /\ k \notin DOMAIN result
            BY <1>4, <1>5, <1>6, <2>2
        <3> QED
            BY <3>1, EmptyHistory
    <2>3. CASE k # key /\ k # victim
        <3>1. later[k] = history[k]
            BY <2>3
        <3>2. k \in DOMAIN result <=> k \in DOMAIN pruned
            BY <1>5, <1>6, <2>3
        <3>3. k \in DOMAIN result => result[k] = pruned[k]
            BY <1>5, <1>6, <2>3
        <3> QED
            BY <1>3, <3>1, <3>2, <3>3, KeepsOf
    <2> QED
        BY <2>1, <2>2, <2>3
<1> HIDE DEF later
<1>16. Keeps(result, later, now, back)
    BY <1>14, <1>15 DEF Keeps
<1> QED
    BY <1>7, <1>16 DEF result, later

-----------------------------------------------------------------------------
(***************************************************************************)
(* Each action keeps the invariant.                                        *)
(***************************************************************************)

\* The numbers of the clock.
LEMMA ClockNumbers ==
    ASSUME Clock
    PROVE  /\ time \in Nat /\ behind \in Nat /\ 0 <= behind
           /\ Now = time - behind /\ Now \in Int
BY RateLimiterAssumption DEF Clock, Now

\* A limiter whose table was touched.
LEMMA TouchedTable ==
    ASSUME Inv, NEW l \in Limiter, NEW key
    PROVE  /\ Keeps(Touch(buckets[l], key, Now), admitted[l], time, behind)
           /\ Small(Touch(buckets[l], key, Now))
           /\ DOMAIN Touch(buckets[l], key, Now) = DOMAIN buckets[l]
           /\ \A k \in DOMAIN buckets[l] \ {key} :
                 Touch(buckets[l], key, Now)[k] = buckets[l][k]
<1> DEFINE b == buckets[l]
           h == admitted[l]
<1>1. Keeps(b, h, time, behind) /\ Small(b)
    BY DEF Inv
<1>2. time \in Int /\ behind \in Int /\ 0 <= behind /\ Now = time - behind
    BY ClockNumbers DEF Inv
<1> HIDE DEF b, h
<1>3. /\ Keeps(Touch(b, key, Now), h, time, behind)
      /\ DOMAIN Touch(b, key, Now) = DOMAIN b
      /\ \A k \in DOMAIN b \ {key} : Touch(b, key, Now)[k] = b[k]
    BY <1>1, <1>2, TouchKeeps
<1> QED
    BY <1>1, <1>3 DEF Small, b, h

\* A request that passes every limiter of its group.
LEMMA AdmitKeepsInv ==
    ASSUME Inv, NEW keys \in Requests, NEW cost \in Costs, Admit(keys, cost)
    PROVE  Inv'
<1> DEFINE tables == TouchAll(keys)
<1>1. PICK victims \in [Limiter -> Key \union {NoKey}] :
          /\ \A l \in Limiter :
                victims[l] \in IF keys[l] = NoKey THEN {NoKey}
                               ELSE Victims(tables[l], keys[l], Now)
          /\ buckets' = RecordAll(tables, keys, cost, victims)
          /\ admitted' = Remember(keys, cost, victims)
    BY DEF Admit
<1>2. time' = time /\ behind' = behind
    BY DEF Admit
<1>3. /\ keys \in [Limiter -> Key \union {NoKey}]
      /\ cost \in Nat
      /\ NoKey \notin Key
    BY RateLimiterAssumption
<1>4. time \in Nat /\ behind \in Nat /\ Now = time - behind
    BY ClockNumbers DEF Inv
<1>5. ASSUME NEW l \in Limiter
      PROVE  /\ Keeps(buckets'[l], admitted'[l], time, behind)
             /\ Small(buckets'[l])
             /\ admitted'[l] \in [Key -> Seq(Int)]
    <2> DEFINE h == admitted[l]
               v == victims[l]
               later == [k \in Key |->
                            IF k = v THEN <<>>
                            ELSE IF k = keys[l] THEN h[k] \o [i \in 1 .. cost |-> time]
                            ELSE h[k]]
               table == tables[l]
    <2>1. table = Touch(buckets[l], keys[l], Now)
        BY DEF TouchAll
    <2>2. Keeps(table, h, time, behind) /\ Small(table)
        BY <2>1, TouchedTable
    <2>3. \A k \in Key : History(h[k], time)
        BY <2>2 DEF Keeps
    <2>4. \A k \in Key : Recent(h[k], time) = h[k]
        BY <1>4, <2>3, RecentIsAll
    <2>5. admitted'[l] = [k \in Key |->
              IF k = v THEN <<>>
              ELSE IF k = keys[l] THEN Recent(h[k], time) \o [i \in 1 .. cost |-> time]
              ELSE Recent(h[k], time)]
        BY <1>1 DEF Remember
    <2>6. admitted'[l] = later
        BY <2>4, <2>5
    <2>7. buckets'[l] = IF keys[l] = NoKey THEN table
                        ELSE Record(table, keys[l], cost, v, Now)
        BY <1>1 DEF RecordAll
    <2>8. v \in IF keys[l] = NoKey THEN {NoKey} ELSE Victims(table, keys[l], Now)
        BY <1>1
    <2>9. keys[l] # NoKey => Fits(table, keys[l], cost)
        BY DEF Admit, Admissible
    <2> HIDE DEF tables, table, v
    <2>10. Keeps(buckets'[l], later, time, behind) /\ Small(buckets'[l])
        <3>1. CASE keys[l] = NoKey
            <4>1. \A k \in Key : later[k] = h[k]
                BY <1>3, <2>8, <3>1
            <4>2. buckets'[l] = table
                BY <2>7, <3>1
            <4> HIDE DEF later
            <4> QED
                BY <2>2, <4>1, <4>2 DEF Keeps
        <3>2. CASE keys[l] # NoKey
            <4> DEFINE key == keys[l]
            <4>1. key \in Key /\ Fits(table, key, cost) /\ v \in Victims(table, key, Now)
                BY <1>3, <2>8, <2>9, <3>2
            <4>2. buckets'[l] = Record(table, key, cost, v, Now)
                BY <2>7, <3>2
            <4> HIDE DEF key
            <4>3. v \in Victims(table, key, time - behind)
                BY <1>4, <4>1
            <4>4. LET result == Record(table, key, cost, v, time - behind)
                      next == [k \in Key |->
                                  IF k = v THEN <<>>
                                  ELSE IF k = key THEN h[k] \o [i \in 1 .. cost |-> time]
                                  ELSE h[k]]
                  IN  Keeps(result, next, time, behind) /\ Small(result)
                BY <1>3, <1>4, <2>2, <4>1, <4>3, RecordKeeps
            <4> QED
                BY <1>4, <4>2, <4>4 DEF key
        <3> QED
            BY <3>1, <3>2
    <2>11. later \in [Key -> Seq(Int)]
        <3>1. \A k \in Key : later[k] \in Seq(Int)
            BY <2>10 DEF Keeps, History
        <3> QED
            BY <3>1
    <2> HIDE DEF later
    <2> QED
        BY <2>6, <2>10, <2>11
<1>6. admitted' \in [Limiter -> [Key -> Seq(Int)]]
    <2>1. admitted' = [l \in Limiter |-> admitted'[l]]
        BY <1>1 DEF Remember
    <2> QED
        BY <1>5, <2>1
<1> QED
    BY <1>2, <1>5, <1>6 DEF Inv, Clock

\* A request that one of them refuses.
LEMMA RefuseKeepsInv ==
    ASSUME Inv, NEW keys \in Requests, NEW cost \in Costs, Refuse(keys, cost)
    PROVE  Inv'
<1>1. buckets' = [l \in Limiter |-> Touch(buckets[l], keys[l], Now)]
    BY DEF Refuse, TouchAll
<1>2. UNCHANGED <<time, behind, admitted>>
    BY DEF Refuse
<1>3. ASSUME NEW l \in Limiter
      PROVE  Keeps(buckets'[l], admitted[l], time, behind) /\ Small(buckets'[l])
    BY <1>1, TouchedTable
<1> QED
    BY <1>2, <1>3 DEF Inv, Clock

\* The maintenance timer.
LEMMA PruneKeepsInv ==
    ASSUME Inv, Prune
    PROVE  Inv'
<1>1. /\ buckets' = [l \in Limiter |-> PruneTable(buckets[l], Now)]
      /\ UNCHANGED <<time, behind, admitted>>
    BY DEF Prune
<1>2. time \in Int /\ behind \in Int /\ 0 <= behind /\ Now = time - behind
    BY ClockNumbers DEF Inv
<1>3. ASSUME NEW l \in Limiter
      PROVE  Keeps(buckets'[l], admitted[l], time, behind) /\ Small(buckets'[l])
    <2> DEFINE b == buckets[l]
               h == admitted[l]
    <2>1. Keeps(b, h, time, behind) /\ Small(b) /\ buckets'[l] = PruneTable(b, Now)
        BY <1>1 DEF Inv
    <2> HIDE DEF b, h
    <2>2. /\ Keeps(PruneTable(b, Now), h, time, behind)
          /\ DOMAIN PruneTable(b, Now) \subseteq DOMAIN b
        BY <1>2, <2>1, PruneKeeps
    <2>3. Small(PruneTable(b, Now))
        BY <2>1, <2>2, FS_Subset, FS_CardinalityType, RateLimiterAssumption DEF Small
    <2> QED
        BY <2>1, <2>2, <2>3 DEF h
<1> QED
    BY <1>1, <1>3 DEF Inv, Clock

\* A table without buckets.
LEMMA EmptyTables ==
    ASSUME NEW now, NEW back
    PROVE  Keeps(<< >>, [k \in Key |-> <<>>], now, back) /\ Small(<< >>)
<1>1. DOMAIN << >> = {}
    OBVIOUS
<1>2. Small(<< >>)
    BY <1>1, FS_EmptySet, RateLimiterAssumption DEF Small
<1>3. \A k \in Key : [j \in Key |-> <<>>][k] = <<>>
    OBVIOUS
<1> QED
    BY <1>1, <1>2, <1>3, EmptyHistory DEF Keeps

\* The end of the server.
LEMMA ClearKeepsInv ==
    ASSUME Inv, Clear
    PROVE  Inv'
<1>1. /\ \A l \in Limiter : buckets'[l] = << >> /\ admitted'[l] = [k \in Key |-> <<>>]
      /\ admitted' \in [Limiter -> [Key -> Seq(Int)]]
      /\ UNCHANGED <<time, behind>>
    BY DEF Clear
<1> QED
    BY <1>1, EmptyTables DEF Inv, Clock

\* Time passes.
LEMMA PassTimeKeepsInv ==
    ASSUME Inv, PassTime
    PROVE  Inv'
<1>1. /\ time < MaxTime /\ time' = time + 1
      /\ admitted' = [l \in Limiter |-> [k \in Key |-> Recent(admitted[l][k], time + 1)]]
      /\ UNCHANGED <<behind, buckets>>
    BY DEF PassTime
<1>2. time \in Int
    BY ClockNumbers DEF Inv
<1>3. ASSUME NEW l \in Limiter
      PROVE  Keeps(buckets[l], admitted'[l], time + 1, behind)
    <2> DEFINE b == buckets[l]
               h == admitted[l]
               later == admitted'[l]
    <2>1. Keeps(b, h, time, behind)
        BY DEF Inv
    <2>2. \A k \in Key : later[k] = Recent(h[k], time + 1)
        BY <1>1
    <2> HIDE DEF b, h, later
    <2>3. ASSUME NEW k \in Key
          PROVE  /\ History(later[k], time + 1)
                 /\ k \in DOMAIN b => Vouches(b[k], later[k], time + 1, behind)
                 /\ k \notin DOMAIN b => later[k] = <<>>
        <3>1. /\ History(h[k], time)
              /\ k \in DOMAIN b => Vouches(b[k], h[k], time, behind)
              /\ k \notin DOMAIN b => h[k] = <<>>
            BY <2>1, KeepsOf
        <3>2. History(later[k], time + 1)
            BY <1>2, <2>2, <3>1, TimeVouches
        <3>3. k \in DOMAIN b => Vouches(b[k], later[k], time + 1, behind)
            BY <1>2, <2>2, <3>1, TimeVouches
        <3>4. k \notin DOMAIN b => later[k] = <<>>
            <4>1. \A u \in Int : Recent(<<>>, u) = <<>>
                BY DEF Recent
            <4> QED
                BY <1>2, <2>2, <3>1, <4>1
        <3> QED
            BY <3>2, <3>3, <3>4
    <2>4. DOMAIN b \subseteq Key
        BY <2>1 DEF Keeps
    <2> QED
        BY <2>3, <2>4 DEF Keeps, b, later
<1>4. admitted' \in [Limiter -> [Key -> Seq(Int)]]
    <2>1. \A l \in Limiter, k \in Key : Recent(admitted[l][k], time + 1) \in Seq(Int)
        <3> SUFFICES ASSUME NEW l \in Limiter, NEW k \in Key
                     PROVE  admitted'[l][k] \in Seq(Int)
            BY <1>1
        <3> QED
            BY <1>3 DEF Keeps, History
    <2> QED
        BY <1>1, <2>1
<1>5. Clock'
    BY <1>1, RateLimiterAssumption DEF Inv, Clock
<1> QED
    BY <1>1, <1>3, <1>4, <1>5 DEF Inv

\* The wall clock is set back: no event moves nearer to the cutoff.
LEMMA SetClockBackKeepsInv ==
    ASSUME Inv, SetClockBack
    PROVE  Inv'
<1>1. PICK d \in 1 .. MaxStepBack - behind : behind' = behind + d
    BY DEF SetClockBack
<1>2. UNCHANGED <<time, buckets, admitted>>
    BY DEF SetClockBack
<1>3. behind \in Int /\ behind' \in Int /\ behind <= behind'
    BY <1>1, ClockNumbers DEF Inv
<1>4. ASSUME NEW bucket, NEW times, NEW now \in Int, History(times, now),
             Vouches(bucket, times, now, behind)
      PROVE  Vouches(bucket, times, now, behind')
    <2>1. times \in Seq(Int) /\ bucket.events \in Seq(Int)
        BY <1>4 DEF History, Vouches, Bucket
    <2>2. ASSUME NEW i \in 1 .. Len(times)
          PROVE  times[i] - EventOf(bucket.events, times, i) <= behind'
        <3>1. times[i] - EventOf(bucket.events, times, i) <= behind
            BY <1>4 DEF Vouches
        <3>2. times[i] \in Int
            BY <2>1
        <3>3. EventOf(bucket.events, times, i) \in Int
            <4>1. Len(bucket.events) - Len(times) + i \in 1 .. Len(bucket.events)
                BY <1>4, <2>1 DEF Vouches
            <4> QED
                BY <2>1, <4>1 DEF EventOf
        <3> QED
            BY <1>3, <3>1, <3>2, <3>3
    <2> QED
        BY <1>4, <2>2 DEF Vouches
<1>5. \A l \in Limiter : Keeps(buckets[l], admitted[l], time, behind')
    <2>1. time \in Int
        BY ClockNumbers DEF Inv
    <2> QED
        BY <1>4, <2>1 DEF Inv, Keeps
<1>6. Clock'
    BY <1>1, <1>2, RateLimiterAssumption DEF Inv, Clock
<1> QED
    BY <1>2, <1>5, <1>6 DEF Inv

\* The invariant holds of empty limiters,
LEMMA InitInv == Init => Inv
<1> SUFFICES ASSUME Init
             PROVE  Inv
    OBVIOUS
<1>1. /\ \A l \in Limiter : buckets[l] = << >> /\ admitted[l] = [k \in Key |-> <<>>]
      /\ admitted \in [Limiter -> [Key -> Seq(Int)]]
    BY DEF Init
<1>2. Clock
    BY RateLimiterAssumption DEF Init, Clock
<1> QED
    BY <1>1, <1>2, EmptyTables DEF Inv

\* every step keeps it,
LEMMA InvInductive ==
    ASSUME Inv, [Next]_vars
    PROVE  Inv'
<1>1. ASSUME UNCHANGED vars
      PROVE  Inv'
    BY <1>1 DEF vars, Inv, Clock
<1> QED
    BY <1>1, AdmitKeepsInv, RefuseKeepsInv, PruneKeepsInv, ClearKeepsInv,
       PassTimeKeepsInv, SetClockBackKeepsInv DEF Next, Request

\* and so it always holds.
LEMMA InvInvariant == Spec => []Inv
BY InitInv, InvInductive, PTL DEF Spec

-----------------------------------------------------------------------------
(***************************************************************************)
(* The results.                                                            *)
(***************************************************************************)

\* The variables have their types, no limiter holds more keys than its policy
\* allows, whatever was known and new, no key more cost than the maximum, and no
\* bucket was used later than time has come.
THEOREM LimiterTypes == Spec => []TypeOK
<1>1. ASSUME Inv
      PROVE  TypeOK
    <2>1. time \in 0 .. MaxTime /\ behind \in 0 .. MaxStepBack
        BY <1>1, RateLimiterAssumption DEF Inv, Clock
    <2>2. ASSUME NEW l \in Limiter
          PROVE  /\ DOMAIN buckets[l] \subseteq Key
                 /\ Cardinality(DOMAIN buckets[l]) <= MaximumKeys
                 /\ \A k \in DOMAIN buckets[l] :
                       /\ buckets[l][k] \in Bucket
                       /\ buckets[l][k].lastSeen <= time
                       /\ Len(buckets[l][k].events) <= MaximumCost
        BY <1>1 DEF Inv, Keeps, Small, Vouches
    <2> QED
        BY <1>1, <2>1, <2>2 DEF TypeOK, Inv
<1> QED
    BY <1>1, InvInvariant, PTL

\* While the clock was never set back, the events of a bucket that would count
\* now are the admissions that do.
LEMMA ExactWithoutStep ==
    ASSUME NEW now \in Int, NEW times, History(times, now),
           NEW bucket, Vouches(bucket, times, now, 0)
    PROVE  Expire(bucket.events, now) = times
<1> DEFINE E == bucket.events
           m == Len(E)
           n == Len(times)
<1>1. times \in Seq(Int) /\ E \in Seq(Int)
    BY DEF History, Vouches, Bucket
<1>2. m \in Nat /\ n \in Nat /\ n <= m /\ WindowMs \in Nat
    BY <1>1, RateLimiterAssumption DEF Vouches
<1>3. PICK f \in 1 .. m + 1 :
          /\ Expire(E, now) = SubSeq(E, f, m)
          /\ \A i \in 1 .. f - 1 : E[i] <= now - WindowMs
          /\ f <= m => E[f] > now - WindowMs
    BY <1>1, ExpireDropsOld
<1> HIDE DEF m, n, E
<1>4. ASSUME NEW i \in 1 .. n
      PROVE  E[m - n + i] = times[i]
    <2>1. m - n + i \in 1 .. m
        BY <1>2
    <2>2. E[m - n + i] \in Int /\ times[i] \in Int
        BY <1>1, <2>1 DEF m, n
    <2>3. E[m - n + i] <= times[i] /\ times[i] - E[m - n + i] <= 0
        BY DEF Vouches, EventOf, E, m, n
    <2> QED
        BY <2>2, <2>3
<1>5. f = m - n + 1
    <2>1. CASE f < m - n + 1
        <3>1. f \in 1 .. m - n /\ f <= m
            BY <1>2, <2>1
        <3>2. E[f] <= now - WindowMs
            BY <3>1 DEF Vouches, E, m, n
        <3>3. f \in 1 .. m
            BY <1>2, <3>1
        <3>4. E[f] \in Int
            BY <1>1, <3>3 DEF m
        <3> QED
            BY <1>2, <1>3, <3>1, <3>2, <3>4
    <2>2. CASE f > m - n + 1
        <3>1. m - n + 1 \in 1 .. f - 1 /\ 1 \in 1 .. n
            BY <1>2, <2>2
        <3>2. times[1] <= now - WindowMs
            BY <1>3, <1>4, <3>1
        <3>3. now - WindowMs < times[1] /\ times[1] \in Int
            BY <1>1, <3>1 DEF History, n
        <3> QED
            BY <1>2, <3>2, <3>3
    <2> QED
        BY <1>2, <2>1, <2>2
<1>6. /\ SubSeq(E, f, m) \in Seq(Int)
      /\ Len(SubSeq(E, f, m)) = n
      /\ \A i \in 1 .. n : SubSeq(E, f, m)[i] = times[i]
    <2>1. /\ SubSeq(E, f, m) \in Seq(Int)
          /\ Len(SubSeq(E, f, m)) = m - f + 1
          /\ \A i \in 1 .. m - f + 1 : SubSeq(E, f, m)[i] = E[i + f - 1]
        BY <1>1, RestOf DEF m
    <2>2. m - f + 1 = n /\ \A i \in 1 .. n : i + f - 1 = m - n + i
        BY <1>2, <1>5
    <2> QED
        BY <1>4, <2>1, <2>2
<1> DEFINE rest == SubSeq(E, f, m)
<1> HIDE DEF rest
<1>7. rest = times
    <2>1. /\ rest \in Seq(Int) /\ Len(rest) = Len(times)
          /\ \A i \in 1 .. Len(times) : rest[i] = times[i]
        BY <1>6 DEF rest, n
    <2>2. /\ rest = [i \in 1 .. Len(rest) |-> rest[i]]
          /\ times = [i \in 1 .. Len(times) |-> times[i]]
        BY <1>1, <2>1
    <2> QED
        BY <2>1, <2>2
<1> QED
    BY <1>3, <1>7 DEF rest, E

\* No key is admitted for more than the maximum cost within a window of real
\* time in which it was not evicted, though the clock may be set back; and while
\* it was not, what a key is
\* judged by is what was admitted, so that nothing is refused without need.
THEOREM WindowHolds == Spec => []WindowRespected
<1>1. ASSUME Inv
      PROVE  WindowRespected
    <2> SUFFICES ASSUME NEW l \in Limiter, NEW k \in Key
                 PROVE  /\ Len(Recent(admitted[l][k], time)) <= MaximumCost
                        /\ behind = 0 =>
                              (IF k \in DOMAIN buckets[l]
                               THEN Expire(buckets[l][k].events, Now) ELSE <<>>)
                                  = Recent(admitted[l][k], time)
        BY DEF WindowRespected
    <2> DEFINE times == admitted[l][k]
    <2>1. /\ History(times, time)
          /\ k \in DOMAIN buckets[l] => Vouches(buckets[l][k], times, time, behind)
          /\ k \notin DOMAIN buckets[l] => times = <<>>
        BY <1>1 DEF Inv, Keeps
    <2>2. time \in Int /\ Now = time - behind
        BY <1>1, ClockNumbers DEF Inv
    <2>3. Recent(times, time) = times /\ times \in Seq(Int)
        BY <2>1, <2>2, RecentIsAll DEF History
    <2> HIDE DEF times
    <2>4. Len(times) <= MaximumCost
        <3>1. MaximumCost \in Nat
            BY RateLimiterAssumption
        <3>2. CASE k \in DOMAIN buckets[l]
            <4>1. /\ Len(times) <= Len(buckets[l][k].events)
                  /\ Len(buckets[l][k].events) <= MaximumCost
                  /\ buckets[l][k].events \in Seq(Int)
                BY <2>1, <3>2 DEF Vouches, Bucket
            <4> QED
                BY <2>3, <3>1, <4>1
        <3>3. CASE k \notin DOMAIN buckets[l]
            BY <2>1, <3>1, <3>3
        <3> QED
            BY <3>2, <3>3
    <2>5. ASSUME behind = 0
          PROVE  (IF k \in DOMAIN buckets[l]
                  THEN Expire(buckets[l][k].events, Now) ELSE <<>>) = times
        <3>1. Now = time
            BY <2>2, <2>5
        <3>2. CASE k \in DOMAIN buckets[l]
            <4>1. Vouches(buckets[l][k], times, time, 0)
                BY <2>1, <2>5, <3>2
            <4>2. Expire(buckets[l][k].events, time) = times
                BY <2>1, <2>2, <4>1, ExactWithoutStep
            <4> QED
                BY <3>1, <3>2, <4>2
        <3>3. CASE k \notin DOMAIN buckets[l]
            BY <2>1, <3>3
        <3> QED
            BY <3>2, <3>3
    <2> QED
        BY <2>3, <2>4, <2>5 DEF times
<1> QED
    BY <1>1, InvInvariant, PTL

\* What a table may lose when a new key needs room: a bucket without events
\* that count, or, of a full table, a bucket used no later than any other.
LEMMA RecordForgets ==
    ASSUME NEW now \in Int, NEW back \in Int, 0 <= back, NEW table, NEW history,
           Keeps(table, history, now, back), Small(table),
           NEW key \in Key, NEW cost, NEW victim \in Victims(table, key, now - back),
           NEW k \in DOMAIN table,
           k \notin DOMAIN Record(table, key, cost, victim, now - back)
    PROVE  /\ k # key /\ key \notin DOMAIN table
           /\ \/ Expire(table[k].events, EffectiveNow(table[k], now - back)) = <<>>
              \/ /\ Cardinality(DOMAIN table) = MaximumKeys
                 /\ \A other \in DOMAIN table \ {k} :
                       table[other].lastSeen >= table[k].lastSeen
<1> DEFINE t == now - back
           pruned == PruneTable(table, t)
<1>1. /\ DOMAIN pruned \subseteq DOMAIN table
      /\ \A j \in DOMAIN pruned : pruned[j].lastSeen = table[j].lastSeen
      /\ \A j \in DOMAIN table \ DOMAIN pruned :
            Expire(table[j].events, EffectiveNow(table[j], t)) = <<>>
    BY PruneKeeps
<1>2. /\ k # key
      /\ k = victim \/ (MustEvict(table, key) /\ k \notin DOMAIN pruned)
    BY DEF Record, MakeRoom
<1> HIDE DEF pruned
<1>3. CASE k = victim
    <2>1. k \in Key /\ k # NoKey
        BY RateLimiterAssumption DEF Keeps
    <2>2. /\ MustEvict(table, key) /\ MustEvict(pruned, key)
          /\ k \in DOMAIN pruned
          /\ \A other \in DOMAIN pruned : pruned[k].lastSeen <= pruned[other].lastSeen
        BY <1>3, <2>1 DEF Victims, pruned
    <2>3. /\ IsFiniteSet(DOMAIN table)
          /\ Cardinality(DOMAIN table) <= MaximumKeys
          /\ Cardinality(DOMAIN pruned) >= MaximumKeys
        BY <2>2 DEF Small, MustEvict
    <2>4. /\ Cardinality(DOMAIN pruned) <= Cardinality(DOMAIN table)
          /\ Cardinality(DOMAIN pruned) \in Nat /\ Cardinality(DOMAIN table) \in Nat
          /\ Cardinality(DOMAIN table) = Cardinality(DOMAIN pruned)
                => DOMAIN table = DOMAIN pruned
        BY <1>1, <2>3, FS_Subset, FS_CardinalityType
    <2>5. Cardinality(DOMAIN table) = MaximumKeys /\ DOMAIN table = DOMAIN pruned
        BY <2>3, <2>4, RateLimiterAssumption
    <2>6. ASSUME NEW other \in DOMAIN table \ {k}
          PROVE  table[other].lastSeen >= table[k].lastSeen
        <3>1. pruned[k].lastSeen <= pruned[other].lastSeen
            BY <2>2, <2>5
        <3>2. table[k].lastSeen <= table[other].lastSeen
            BY <1>1, <2>2, <2>5, <3>1
        <3> QED
            BY <3>2
    <2> QED
        BY <1>2, <2>2, <2>5, <2>6 DEF MustEvict
<1>4. CASE MustEvict(table, key) /\ k \notin DOMAIN pruned
    BY <1>1, <1>2, <1>4 DEF MustEvict
<1> QED
    BY <1>2, <1>3, <1>4

\* A key whose events still count is forgotten only for a new key that found the
\* limiter full of keys used no earlier, or because the server stops.
THEOREM OnlyTheIdlestForgotten == Spec => ForgetsOnlyTheIdlest
<1> DEFINE Spared == \A l \in Limiter : \A k \in DOMAIN buckets[l] \ DOMAIN buckets'[l] :
          \/ Expire(buckets[l][k].events, EffectiveNow(buckets[l][k], Now)) = <<>>
          \/ /\ Cardinality(DOMAIN buckets[l]) = MaximumKeys
             /\ DOMAIN buckets'[l] \ DOMAIN buckets[l] # {}
             /\ \A other \in DOMAIN buckets[l] \ {k} :
                   buckets[l][other].lastSeen >= buckets[l][k].lastSeen
          \/ Clear
<1>1. ASSUME Inv, NEW keys \in Requests, NEW cost \in Costs, Admit(keys, cost)
      PROVE  Spared
    <2> SUFFICES ASSUME NEW l \in Limiter, NEW k \in DOMAIN buckets[l],
                        k \notin DOMAIN buckets'[l]
                 PROVE  \/ Expire(buckets[l][k].events, EffectiveNow(buckets[l][k], Now)) = <<>>
                        \/ /\ Cardinality(DOMAIN buckets[l]) = MaximumKeys
                           /\ DOMAIN buckets'[l] \ DOMAIN buckets[l] # {}
                           /\ \A other \in DOMAIN buckets[l] \ {k} :
                                 buckets[l][other].lastSeen >= buckets[l][k].lastSeen
        OBVIOUS
    <2> DEFINE b == buckets[l]
               key == keys[l]
               table == Touch(b, key, Now)
    <2>1. PICK victims \in [Limiter -> Key \union {NoKey}] :
              /\ victims[l] \in IF key = NoKey THEN {NoKey} ELSE Victims(table, key, Now)
              /\ buckets'[l] = IF key = NoKey THEN table
                               ELSE Record(table, key, cost, victims[l], Now)
        BY <1>1 DEF Admit, RecordAll, TouchAll
    <2>2. /\ Keeps(table, admitted[l], time, behind) /\ Small(table)
          /\ DOMAIN table = DOMAIN b
          /\ \A j \in DOMAIN b \ {key} : table[j] = b[j]
        BY <1>1, TouchedTable
    <2>3. key # NoKey /\ key \in Key
        <3>1. key # NoKey
            BY <2>1, <2>2
        <3> QED
            BY <3>1, RateLimiterAssumption
    <2>4. time \in Int /\ behind \in Int /\ 0 <= behind /\ Now = time - behind
        BY <1>1, ClockNumbers DEF Inv
    <2> DEFINE v == victims[l]
    <2>5. v \in Victims(table, key, Now) /\ k \notin DOMAIN Record(table, key, cost, v, Now)
        BY <2>1, <2>3
    <2>6. buckets'[l] = Record(table, key, cost, v, Now)
        BY <2>1, <2>3
    <2>7. key \in DOMAIN buckets'[l]
        BY <2>6 DEF Record
    <2> HIDE DEF table, b, key, v
    <2>8. k \in DOMAIN table
        BY <2>2 DEF b
    <2>9. /\ k # key /\ key \notin DOMAIN table
          /\ \/ Expire(table[k].events, EffectiveNow(table[k], Now)) = <<>>
             \/ /\ Cardinality(DOMAIN table) = MaximumKeys
                /\ \A other \in DOMAIN table \ {k} :
                      table[other].lastSeen >= table[k].lastSeen
        BY <2>2, <2>3, <2>4, <2>5, <2>8, RecordForgets
    <2>10. table[k] = b[k]
        BY <2>2, <2>8, <2>9
    <2>11. CASE Expire(table[k].events, EffectiveNow(table[k], Now)) = <<>>
        BY <2>10, <2>11 DEF b
    <2>12. CASE /\ Cardinality(DOMAIN table) = MaximumKeys
                /\ \A other \in DOMAIN table \ {k} :
                      table[other].lastSeen >= table[k].lastSeen
        <3>1. \A other \in DOMAIN b \ {k} : b[other].lastSeen >= b[k].lastSeen
            BY <2>2, <2>9, <2>10, <2>12
        <3>2. key \in DOMAIN buckets'[l] \ DOMAIN b
            BY <2>2, <2>9, <2>7
        <3> QED
            BY <2>2, <2>12, <3>1, <3>2 DEF b
    <2> QED
        BY <2>9, <2>11, <2>12
<1>2. ASSUME Inv, NEW keys \in Requests, NEW cost \in Costs, Refuse(keys, cost)
      PROVE  Spared
    <2>1. \A l \in Limiter : DOMAIN buckets'[l] = DOMAIN buckets[l]
        BY <1>2 DEF Refuse, TouchAll, Touch
    <2> QED
        BY <2>1
<1>3. ASSUME Inv, Prune
      PROVE  Spared
    <2> SUFFICES ASSUME NEW l \in Limiter, NEW k \in DOMAIN buckets[l],
                        k \notin DOMAIN buckets'[l]
                 PROVE  Expire(buckets[l][k].events, EffectiveNow(buckets[l][k], Now)) = <<>>
        OBVIOUS
    <2> DEFINE b == buckets[l]
    <2>1. Keeps(b, admitted[l], time, behind) /\ buckets'[l] = PruneTable(b, Now)
        BY <1>3 DEF Prune, Inv
    <2>2. time \in Int /\ behind \in Int /\ 0 <= behind /\ Now = time - behind
        BY <1>3, ClockNumbers DEF Inv
    <2>3. k \in DOMAIN b \ DOMAIN PruneTable(b, Now)
        BY <2>1
    <2> HIDE DEF b
    <2>4. Expire(b[k].events, EffectiveNow(b[k], Now)) = <<>>
        BY <2>1, <2>2, <2>3, PruneKeeps
    <2> QED
        BY <2>4 DEF b
<1>4. ASSUME Clear
      PROVE  Spared
    BY <1>4
<1>5. ASSUME PassTime \/ SetClockBack \/ UNCHANGED vars
      PROVE  Spared
    <2>1. buckets' = buckets
        BY <1>5 DEF PassTime, SetClockBack, vars
    <2> QED
        BY <2>1
<1>6. ASSUME Inv, [Next]_vars
      PROVE  [Spared]_vars
    BY <1>1, <1>2, <1>3, <1>4, <1>5, <1>6 DEF Next, Request
<1> QED
    BY <1>6, InvInvariant, PTL DEF Spec, ForgetsOnlyTheIdlest
=============================================================================
