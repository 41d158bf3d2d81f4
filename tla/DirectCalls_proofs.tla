------------------------- MODULE DirectCalls_proofs -------------------------
(***************************************************************************)
(* An engine that holds on to its session is right or is being told, for   *)
(* any number of devices, calls and broken connections.                    *)
(*                                                                         *)
(* What the server says of a session is true when it is said, or the end   *)
(* of the session follows on the same connection, before anybody else's    *)
(* request: a device is asked only when it is in no session.  A connection *)
(* that breaks takes both along, and then the engine knows that it has to  *)
(* resume, since an active session has a controller or waits to be resumed *)
(* already.                                                                *)
(***************************************************************************)
EXTENDS DirectCalls, FiniteSetTheorems, SequenceTheorems, TLAPS

\* The messages of clients and those of the server.
Saying == [type : {"request"}, id : Id, to : Device]
              \union [type : {"response", "end", "resume"}, id : Id, ok : BOOLEAN]

Naming == {"request", "response", "pending", "ready", "resumed", "ended",
           "resume_rejected"}

Telling == [type : {"registered", "refused"}, id : {0}, ok : BOOLEAN]
               \union [type : Naming, id : Id, ok : BOOLEAN]

\* The index of the sessions names those of each device.
Indexed(dir) ==
    \A k \in OpenSessions(dir) : \A d \in Ends(dir, k) : dir.deviceSessions[d] = k

Typed ==
    /\ TypeOK
    /\ up \in [Device -> Seq(Saying)]
    /\ down \in [Device -> Seq(Telling)]
    /\ \A k \in OpenSessions(directory) : ids[k] \in Id
    /\ Indexed(directory)
    /\ calls \in Nat

\* A connection that is whole is known at both ends, one that is not is empty.
Linked(d) == IF link[d] = "up" THEN d \in attached ELSE down[d] = <<>>

\* A closed controller has reset the engine, an active session has a controller
\* or is to be resumed, and a request names its session.
Agree(e, c) ==
    /\ c # None /\ c.phase = "closed" =>
           e.state = "ready" /\ e.session = 0 /\ ~ e.serverActive
    /\ e.serverActive => (c # None \/ e.recoveryPending) /\ e.session # 0
    /\ e.state = "awaiting" => e.session # 0

\* Besides, an active session is resumed after the connection was lost.
Kept(d) ==
    /\ Agree(engine[d], controller[d])
    /\ link[d] = "down" /\ engine[d].serverActive => engine[d].recoveryPending

\* Nobody asks for a session in q after place i.
Unasked(q, i) == \A h \in DOMAIN q : i < h => q[h].type # "request"

\* The end of session id is told in q after place i, and before anybody asks.
EndFollows(q, i, id) ==
    \E j \in DOMAIN q : /\ i < j /\ q[j].type = "ended" /\ q[j].id = id
                        /\ \A h \in DOMAIN q : i < h /\ h < j => q[h].type # "request"

\* Session id is active, or what follows place i undoes it.
Sure(d, i, id) == \/ AtServer(d, id) /\ Unasked(down[d], i)
                  \/ EndFollows(down[d], i, id)

\* What the server says of an active session is true or is going to be undone.
Vouched(d) ==
    link[d] = "up" => \A i \in DOMAIN down[d] :
        down[d][i].type \in {"ready", "resumed"} => Sure(d, i, down[d][i].id)

\* EndsAreHeard of one device.
Right(d) ==
    LET e == engine[d] IN
    e.serverActive /\ ~ e.recoveryPending /\ link[d] = "up" => Sure(d, 0, e.session)

Inv == Typed /\ \A d \in Device : Linked(d) /\ Kept(d) /\ Vouched(d) /\ Right(d)

-----------------------------------------------------------------------------
(* Sequences.                                                              *)

\* A message that is heard is the first; the others move up by one.
LEMMA FirstOut ==
    ASSUME NEW M, NEW q \in Seq(M), q # <<>>
    PROVE  /\ Head(q) \in M /\ Head(q) = q[1] /\ 1 \in DOMAIN q
           /\ Tail(q) \in Seq(M)
           /\ \A i \in DOMAIN Tail(q) :
                  i \in Nat \ {0} /\ i + 1 \in DOMAIN q /\ Tail(q)[i] = q[i + 1]
           /\ \A i \in DOMAIN q : i # 1 =>
                  i - 1 \in DOMAIN Tail(q) /\ Tail(q)[i - 1] = q[i]
<1>1. /\ Head(q) \in M /\ Tail(q) \in Seq(M)
      /\ Len(Tail(q)) = Len(q) - 1
      /\ \A i \in 1 .. Len(Tail(q)) : Tail(q)[i] = q[i + 1]
  BY HeadTailProperties
<1>2. Len(q) \in Nat /\ Len(q) # 0 /\ DOMAIN q = 1 .. Len(q)
      /\ DOMAIN Tail(q) = 1 .. Len(Tail(q))
  BY <1>1, EmptySeq
<1>3. Head(q) = q[1]
  OBVIOUS
<1>4. \A i \in 1 .. Len(Tail(q)) : i + 1 \in 1 .. Len(q)
  BY <1>1, <1>2
<1>5. ASSUME NEW i \in 1 .. Len(q), i # 1
      PROVE  i - 1 \in 1 .. Len(Tail(q)) /\ Tail(q)[i - 1] = q[i]
  <2>1. i - 1 \in 1 .. Len(Tail(q)) /\ (i - 1) + 1 = i
    BY <1>1, <1>2, <1>5
  <2> QED BY <1>1, <2>1
<1> QED BY <1>1, <1>2, <1>3, <1>4, <1>5

\* What was said before keeps its place when more is said.
LEMMA More ==
    ASSUME NEW M, NEW q \in Seq(M), NEW r \in Seq(M)
    PROVE  /\ q \o r \in Seq(M)
           /\ \A i \in DOMAIN q : i \in DOMAIN (q \o r) /\ (q \o r)[i] = q[i]
           /\ \A i \in DOMAIN r :
                  /\ Len(q) + i \in DOMAIN (q \o r) /\ (q \o r)[Len(q) + i] = r[i]
                  /\ \A j \in DOMAIN q : j < Len(q) + i
           /\ \A i \in DOMAIN (q \o r) : i \in DOMAIN q \/
                  \E j \in DOMAIN r : i = Len(q) + j
<1>1. /\ q \o r \in Seq(M) /\ Len(q \o r) = Len(q) + Len(r)
      /\ \A i \in 1 .. Len(q) + Len(r) :
             (q \o r)[i] = IF i <= Len(q) THEN q[i] ELSE r[i - Len(q)]
  BY ConcatProperties
<1> DEFINE m == Len(q)
           n == Len(r)
           s == q \o r
<1>2. /\ m \in Nat /\ n \in Nat
      /\ DOMAIN q = 1 .. m /\ DOMAIN r = 1 .. n /\ DOMAIN s = 1 .. m + n
  BY <1>1
<1>3. s \in Seq(M) /\ \A i \in 1 .. m + n : s[i] = IF i <= m THEN q[i] ELSE r[i - m]
  BY <1>1
<1> HIDE DEF m, n, s
<1>4. \A i \in 1 .. m : i \in 1 .. m + n /\ s[i] = q[i]
  BY <1>2, <1>3
<1>5. ASSUME NEW i \in 1 .. n
      PROVE  m + i \in 1 .. m + n /\ s[m + i] = r[i] /\ \A j \in 1 .. m : j < m + i
  <2>1. m + i \in 1 .. m + n /\ ~ (m + i <= m) /\ (m + i) - m = i
    BY <1>2
  <2> QED BY <1>2, <1>3, <2>1
<1>6. ASSUME NEW i \in 1 .. m + n, i \notin 1 .. m
      PROVE  \E j \in 1 .. n : i = m + j
  <2>1. i - m \in 1 .. n /\ i = m + (i - m)
    BY <1>2, <1>6
  <2> QED BY <2>1
<1> QED BY <1>2, <1>3, <1>4, <1>5, <1>6 DEF m, n, s

\* What follows a message after more was said.
LEMMA Appended ==
    ASSUME NEW M, NEW q \in Seq(M), NEW r \in Seq(M)
    PROVE  /\ \A i \in DOMAIN q \union {0} : \A id :
                  /\ EndFollows(q, i, id) => EndFollows(q \o r, i, id)
                  /\ Unasked(q, i) /\ EndFollows(r, 0, id) => EndFollows(q \o r, i, id)
                  /\ Unasked(q, i) /\ Unasked(r, 0) => Unasked(q \o r, i)
           /\ \A i \in DOMAIN r : Unasked(r, 0) => Unasked(q \o r, Len(q) + i)
<1> DEFINE s == q \o r
           m == Len(q)
<1>1. /\ \A i \in DOMAIN q : i \in DOMAIN s /\ s[i] = q[i]
      /\ \A i \in DOMAIN r : m + i \in DOMAIN s /\ s[m + i] = r[i]
      /\ \A i \in DOMAIN s : i \in DOMAIN q \/ \E j \in DOMAIN r : i = m + j
  BY More
<1>2. /\ m \in Nat /\ DOMAIN q = 1 .. m
      /\ \A i \in DOMAIN r : i \in Nat /\ 0 < i
  OBVIOUS
<1> HIDE DEF s, m
<1>3. ASSUME NEW i \in DOMAIN q \union {0}, NEW id, EndFollows(q, i, id)
      PROVE  EndFollows(s, i, id)
  <2>1. PICK j \in DOMAIN q :
            /\ i < j /\ q[j].type = "ended" /\ q[j].id = id
            /\ \A h \in DOMAIN q : i < h /\ h < j => q[h].type # "request"
    BY <1>3 DEF EndFollows
  <2>2. \A h \in DOMAIN s : h < j => h \in DOMAIN q
    BY <1>1, <1>2
  <2> QED BY <1>1, <2>1, <2>2 DEF EndFollows
<1>4. ASSUME NEW i \in DOMAIN q \union {0}, NEW id, Unasked(q, i), EndFollows(r, 0, id)
      PROVE  EndFollows(s, i, id)
  <2>1. PICK j \in DOMAIN r :
            /\ 0 < j /\ r[j].type = "ended" /\ r[j].id = id
            /\ \A h \in DOMAIN r : 0 < h /\ h < j => r[h].type # "request"
    BY <1>4 DEF EndFollows
  <2>2. i < m + j
    BY <1>2
  <2>3. ASSUME NEW h \in DOMAIN s, i < h, h < m + j
        PROVE  s[h].type # "request"
    <3>1. CASE h \in DOMAIN q
      BY <1>1, <1>4, <2>3, <3>1 DEF Unasked
    <3>2. ASSUME NEW g \in DOMAIN r, h = m + g
          PROVE  s[h].type # "request"
      BY <1>1, <1>2, <2>1, <2>3, <3>2
    <3> QED BY <1>1, <3>1, <3>2
  <2> QED BY <1>1, <2>1, <2>2, <2>3 DEF EndFollows
<1>5. ASSUME NEW i \in DOMAIN q \union {0}, Unasked(q, i), Unasked(r, 0)
      PROVE  Unasked(s, i)
  BY <1>1, <1>2, <1>5 DEF Unasked
<1>6. ASSUME NEW i \in DOMAIN r, Unasked(r, 0)
      PROVE  Unasked(s, m + i)
  <2>1. \A h \in DOMAIN q : ~ (m + i < h)
    BY <1>2
  <2> QED BY <1>1, <1>2, <1>6, <2>1 DEF Unasked
<1> QED BY <1>3, <1>4, <1>5, <1>6 DEF s, m

\* What follows a message after the first was heard.
LEMMA Shifted ==
    ASSUME NEW M, NEW q \in Seq(M), q # <<>>
    PROVE  /\ \A i \in DOMAIN Tail(q) \union {0} : \A id :
                  /\ EndFollows(q, i + 1, id) => EndFollows(Tail(q), i, id)
                  /\ Unasked(q, i + 1) => Unasked(Tail(q), i)
           /\ \A id : /\ EndFollows(q, 0, id)
                      /\ q[1].type = "ended" => q[1].id # id
                      => EndFollows(q, 1, id) /\ q[1].type # "request"
           /\ Unasked(q, 0) => Unasked(q, 1) /\ q[1].type # "request"
<1> DEFINE s == Tail(q)
<1>1. /\ 1 \in DOMAIN q
      /\ \A i \in DOMAIN s : i \in Nat \ {0} /\ i + 1 \in DOMAIN q /\ s[i] = q[i + 1]
      /\ \A i \in DOMAIN q : i # 1 => i - 1 \in DOMAIN s /\ s[i - 1] = q[i]
      /\ \A i \in DOMAIN q : i \in Nat \ {0}
  BY FirstOut
<1> HIDE DEF s
<1>2. ASSUME NEW i \in DOMAIN s \union {0}, NEW id, EndFollows(q, i + 1, id)
      PROVE  EndFollows(s, i, id)
  <2>1. PICK j \in DOMAIN q :
            /\ i + 1 < j /\ q[j].type = "ended" /\ q[j].id = id
            /\ \A h \in DOMAIN q : i + 1 < h /\ h < j => q[h].type # "request"
    BY <1>2 DEF EndFollows
  <2>2. j # 1 /\ i < j - 1
    BY <1>1, <2>1
  <2>3. \A h \in DOMAIN s : i < h /\ h < j - 1 => i + 1 < h + 1 /\ h + 1 < j
    BY <1>1
  <2>4. \A h \in DOMAIN s : i < h /\ h < j - 1 => s[h].type # "request"
    BY <1>1, <2>1, <2>3
  <2> QED BY <1>1, <2>1, <2>2, <2>4 DEF EndFollows
<1>3. ASSUME NEW i \in DOMAIN s \union {0}, Unasked(q, i + 1)
      PROVE  Unasked(s, i)
  <2>1. \A h \in DOMAIN s : i < h => i + 1 < h + 1
    BY <1>1
  <2> QED BY <1>1, <1>3, <2>1 DEF Unasked
<1>4. ASSUME NEW id, EndFollows(q, 0, id), q[1].type = "ended" => q[1].id # id
      PROVE  EndFollows(q, 1, id) /\ q[1].type # "request"
  <2>1. PICK j \in DOMAIN q :
            /\ 0 < j /\ q[j].type = "ended" /\ q[j].id = id
            /\ \A h \in DOMAIN q : 0 < h /\ h < j => q[h].type # "request"
    BY <1>4 DEF EndFollows
  <2>2. 1 < j /\ \A h \in DOMAIN q : 1 < h => 0 < h
    BY <1>1, <1>4, <2>1
  <2> QED BY <1>1, <2>1, <2>2 DEF EndFollows
<1>5. ASSUME Unasked(q, 0)
      PROVE  Unasked(q, 1) /\ q[1].type # "request"
  BY <1>1, <1>5 DEF Unasked
<1> QED BY <1>2, <1>3, <1>4, <1>5 DEF s

\* The set of what is said about several sessions is said in some order.
LEMMA InSomeOrder ==
    ASSUME NEW S, IsFiniteSet(S)
    PROVE  /\ SetToSeq(S) \in Seq(S)
           /\ \A x \in S : \E i \in DOMAIN SetToSeq(S) : SetToSeq(S)[i] = x
<1> DEFINE n == Cardinality(S)
           f == SetToSeq(S)
<1>1. n \in Nat /\ ExistsBijection(1 .. n, S)
  BY FS_CardinalityType
<1>2. \E g \in [1 .. n -> S] : IsInjective(g)
  BY <1>1 DEF ExistsBijection, Bijection, Injection
<1>3. f \in [1 .. n -> S] /\ IsInjective(f)
  BY <1>2 DEF SetToSeq
<1>4. Cardinality(1 .. n) = n
  BY <1>1, FS_Interval
<1> HIDE DEF n, f
<1>5. f \in Injection(1 .. n, S)
  BY <1>3 DEF Injection
<1>6. f \in Surjection(1 .. n, S)
  BY <1>4, <1>5, FS_Injection DEF n
<1>7. f \in Seq(S) /\ DOMAIN f = 1 .. n
  BY <1>1, <1>3
<1>8. \A x \in S : \E i \in 1 .. n : f[i] = x
  BY <1>6 DEF Surjection
<1> QED BY <1>7, <1>8 DEF f

\* Finitely many sessions give finitely many messages.
LEMMA FinitelyMany ==
    ASSUME NEW K, IsFiniteSet(K), NEW f, DOMAIN f = K
    PROVE  IsFiniteSet({f[k] : k \in K})
<1> DEFINE T == {f[k] : k \in K}
           g == [k \in K |-> f[k]]
<1>1. g \in Surjection(K, T)
  BY DEF Surjection
<1> QED BY <1>1, FS_Surjection

-----------------------------------------------------------------------------
(* The registry of the sessions.                                           *)

\* From one directory to another the active sessions last, but for those of K,
\* only those of N are new, and the index stays right.
Lasts(dir, after, K, N) ==
    /\ after \in Directory
    /\ OpenSessions(after) \subseteq OpenSessions(dir) \union N
    /\ Indexed(dir) => Indexed(after)
    /\ \A k \in OpenSessions(dir) \ K : dir.sessions[k].phase = "active" =>
           /\ k \in OpenSessions(after)
           /\ after.sessions[k].phase = "active"
           /\ after.sessions[k].target = dir.sessions[k].target

\* A change of one session in place.
LEMMA SessionChanged ==
    ASSUME NEW dir \in Directory, NEW k \in OpenSessions(dir), NEW s \in Session,
           s.target = dir.sessions[k].target,
           dir.sessions[k].phase = "active" => s.phase = "active"
    PROVE  /\ Lasts(dir, [dir EXCEPT !.sessions[k] = s], {}, {})
           /\ k \in OpenSessions([dir EXCEPT !.sessions[k] = s])
           /\ [dir EXCEPT !.sessions[k] = s].sessions[k] = s
<1> DEFINE after == [dir EXCEPT !.sessions[k] = s]
<1>1. k \in Device
  BY DEF OpenSessions
<1>2. after \in Directory
  BY <1>1 DEF Directory
<1>3. after.sessions = [dir.sessions EXCEPT ![k] = s]
  BY DEF Directory
<1>4. dir.sessions \in [Device -> Session \union {None}] /\ s # None
  BY SessionAssumption DEF Directory
<1> HIDE DEF after
<1>5. /\ after.sessions[k] = s
      /\ \A j \in Device : j # k => after.sessions[j] = dir.sessions[j]
  BY <1>1, <1>3, <1>4
<1>6. OpenSessions(after) = OpenSessions(dir)
  BY <1>1, <1>4, <1>5 DEF OpenSessions
<1>7. after.deviceSessions = dir.deviceSessions
  BY DEF Directory, after
<1>8. \A j \in OpenSessions(dir) : after.sessions[j].target = dir.sessions[j].target
  BY <1>5 DEF OpenSessions
<1>9. Indexed(dir) => Indexed(after)
  BY <1>6, <1>7, <1>8 DEF Indexed, Ends
<1>10. Lasts(dir, after, {}, {})
  BY <1>2, <1>5, <1>6, <1>9 DEF Lasts, OpenSessions
<1> QED BY <1>5, <1>6, <1>10 DEF after

LEMMA SessionChanges ==
    ASSUME NEW dir \in Directory, NEW k \in OpenSessions(dir)
    PROVE  /\ Lasts(dir, ActivateSession(dir, k), {}, {})
           /\ k \in OpenSessions(ActivateSession(dir, k))
           /\ ActivateSession(dir, k).sessions[k].phase = "active"
           /\ ActivateSession(dir, k).sessions[k].target = dir.sessions[k].target
           /\ dir.sessions[k].phase = "pending" => Lasts(dir, ExpirePending(dir, k), {}, {})
           /\ \A d \in Device, l \in SideLink : Lasts(dir, SetSide(dir, k, d, l), {}, {})
<1>1. k \in Device /\ dir.sessions[k] \in Session
  BY DEF Directory, OpenSessions
<1> DEFINE s == dir.sessions[k]
<1>2. [s EXCEPT !.phase = "active"] \in Session /\ [s EXCEPT !.phase = "expired"] \in Session
  BY <1>1 DEF Session, Phase
<1>3. \A l \in SideLink : /\ [s EXCEPT !.requesterLink = l] \in Session
                          /\ [s EXCEPT !.targetLink = l] \in Session
  BY <1>1 DEF Session
<1>4. /\ [s EXCEPT !.phase = "active"].phase = "active"
      /\ [s EXCEPT !.phase = "active"].target = s.target
      /\ [s EXCEPT !.phase = "expired"].target = s.target
      /\ \A l : /\ [s EXCEPT !.requesterLink = l].target = s.target
                /\ [s EXCEPT !.requesterLink = l].phase = s.phase
                /\ [s EXCEPT !.targetLink = l].target = s.target
                /\ [s EXCEPT !.targetLink = l].phase = s.phase
  BY <1>1 DEF Session
<1>5. /\ ActivateSession(dir, k) = [dir EXCEPT !.sessions[k] = [s EXCEPT !.phase = "active"]]
      /\ ExpirePending(dir, k) = [dir EXCEPT !.sessions[k] = [s EXCEPT !.phase = "expired"]]
      /\ \A d, l : SetSide(dir, k, d, l) =
             IF k = d THEN [dir EXCEPT !.sessions[k] = [s EXCEPT !.requesterLink = l]]
                      ELSE [dir EXCEPT !.sessions[k] = [s EXCEPT !.targetLink = l]]
  BY <1>1 DEF ActivateSession, ExpirePending, SetSide, Directory
<1>6. \A u \in Session : /\ u.target = dir.sessions[k].target
                         /\ dir.sessions[k].phase = "active" => u.phase = "active"
          => /\ Lasts(dir, [dir EXCEPT !.sessions[k] = u], {}, {})
             /\ k \in OpenSessions([dir EXCEPT !.sessions[k] = u])
             /\ [dir EXCEPT !.sessions[k] = u].sessions[k] = u
  BY SessionChanged
<1> DEFINE With(u) == [dir EXCEPT !.sessions[k] = u]
<1>7. /\ ActivateSession(dir, k) = With([s EXCEPT !.phase = "active"])
      /\ ExpirePending(dir, k) = With([s EXCEPT !.phase = "expired"])
      /\ \A d, l : SetSide(dir, k, d, l) = IF k = d THEN With([s EXCEPT !.requesterLink = l])
                                                    ELSE With([s EXCEPT !.targetLink = l])
  BY <1>5
<1>8. \A u \in Session : u.target = s.target /\ (s.phase = "active" => u.phase = "active")
          => Lasts(dir, With(u), {}, {}) /\ k \in OpenSessions(With(u))
             /\ With(u).sessions[k] = u
  BY <1>6
<1> HIDE DEF s, With
<1>9. /\ Lasts(dir, ActivateSession(dir, k), {}, {})
      /\ k \in OpenSessions(ActivateSession(dir, k))
      /\ ActivateSession(dir, k).sessions[k] = [s EXCEPT !.phase = "active"]
  BY <1>2, <1>4, <1>7, <1>8
<1>10. s.phase = "pending" => Lasts(dir, ExpirePending(dir, k), {}, {})
  BY <1>2, <1>4, <1>7, <1>8
<1>11. ASSUME NEW d \in Device, NEW l \in SideLink
       PROVE  Lasts(dir, SetSide(dir, k, d, l), {}, {})
  <2>1. Lasts(dir, With([s EXCEPT !.requesterLink = l]), {}, {})
    BY <1>3, <1>4, <1>8
  <2>2. Lasts(dir, With([s EXCEPT !.targetLink = l]), {}, {})
    BY <1>3, <1>4, <1>8
  <2> QED BY <1>7, <2>1, <2>2
<1>12. /\ ActivateSession(dir, k).sessions[k].phase = "active"
       /\ ActivateSession(dir, k).sessions[k].target = s.target
  BY <1>4, <1>9
<1> QED BY <1>9, <1>10, <1>11, <1>12 DEF s

LEMMA SessionInserted ==
    ASSUME NEW dir \in Directory, NEW d \in Device, NEW t \in Device,
           CanInsert(dir, d, t)
    PROVE  Lasts(dir, InsertSession(dir, d, t), {}, {d})
<1> DEFINE s == [target |-> t, phase |-> "pending", requesterLink |-> "online",
                 targetLink |-> "online"]
           after == InsertSession(dir, d, t)
<1>1. s \in Session
  BY DEF Session, Phase, SideLink
<1>2. after \in Directory
  BY <1>1 DEF InsertSession, Directory, DeviceOrNone
<1>3. after.sessions = [dir.sessions EXCEPT ![d] = s]
  BY DEF InsertSession, Directory
<1>4. after.deviceSessions = [dir.deviceSessions EXCEPT ![d] = d, ![t] = d]
  BY DEF InsertSession, Directory
<1>5. s.target = t
  OBVIOUS
<1> HIDE DEF s, after
<1>6. /\ after.sessions[d] = s
      /\ \A j \in Device : j # d => after.sessions[j] = dir.sessions[j]
  BY <1>3 DEF Directory
<1>7. /\ after.deviceSessions[d] = d /\ after.deviceSessions[t] = d
      /\ \A j \in Device \ {d, t} : after.deviceSessions[j] = dir.deviceSessions[j]
  BY <1>4 DEF Directory
<1>8. d \notin OpenSessions(dir)
  BY DEF CanInsert, OpenSessions
<1>9. ASSUME Indexed(dir), NEW j \in OpenSessions(after), NEW x \in Ends(after, j)
      PROVE  after.deviceSessions[x] = j
  <2>1. CASE j = d
    BY <1>5, <1>6, <1>7, <1>9, <2>1 DEF Ends
  <2>2. CASE j # d
    <3>1. j \in OpenSessions(dir) /\ x \in Ends(dir, j) /\ x \in Device
      BY <1>6, <1>9, <2>2 DEF OpenSessions, Ends, Directory, Session
    <3>2. dir.deviceSessions[x] = j /\ j # None
      BY <1>9, <3>1, DeviceAssumption DEF Indexed, OpenSessions
    <3>3. x # d /\ x # t
      BY <3>2 DEF CanInsert, DeviceHasSession
    <3> QED BY <1>7, <3>1, <3>2, <3>3
  <2> QED BY <2>1, <2>2
<1>10. Indexed(dir) => Indexed(after)
  BY <1>9 DEF Indexed
<1> QED BY <1>2, <1>6, <1>8, <1>10 DEF Lasts, OpenSessions, after

LEMMA SessionsRemoved ==
    ASSUME NEW dir \in Directory, NEW K
    PROVE  /\ Lasts(dir, RemoveSessions(dir, K), K, {})
           /\ OpenSessions(RemoveSessions(dir, K)) = OpenSessions(dir) \ K
<1> DEFINE after == RemoveSessions(dir, K)
<1>1. after \in Directory
  BY DEF RemoveSessions, Directory, DeviceOrNone
<1>2. after.sessions = [k \in Device |-> IF k \in K THEN None ELSE dir.sessions[k]]
  BY DEF RemoveSessions, Directory
<1> DEFINE freed == UNION {IndexEntries(dir, k) : k \in K \intersect OpenSessions(dir)}
<1>3. after.deviceSessions = [x \in Device |-> IF x \in freed THEN None
                                               ELSE dir.deviceSessions[x]]
  BY DEF RemoveSessions, Directory
<1>4. \A x \in freed : dir.deviceSessions[x] \in K
  BY DEF IndexEntries
<1> HIDE DEF after, freed
<1>5. \A k \in Device : after.sessions[k] = IF k \in K THEN None ELSE dir.sessions[k]
  BY <1>2
<1>6. OpenSessions(after) = OpenSessions(dir) \ K
  BY <1>5 DEF OpenSessions
<1>7. ASSUME Indexed(dir), NEW j \in OpenSessions(after), NEW x \in Ends(after, j)
      PROVE  after.deviceSessions[x] = j
  <2>1. j \in OpenSessions(dir) \ K /\ x \in Ends(dir, j) /\ x \in Device
    BY <1>5, <1>6, <1>7 DEF OpenSessions, Ends, Directory, Session
  <2>2. dir.deviceSessions[x] = j
    BY <1>7, <2>1 DEF Indexed
  <2> QED BY <1>3, <1>4, <2>1, <2>2
<1>8. Indexed(dir) => Indexed(after)
  BY <1>7 DEF Indexed
<1>9. Lasts(dir, after, K, {})
  BY <1>1, <1>5, <1>6, <1>8 DEF Lasts, OpenSessions
<1> QED BY <1>6, <1>9 DEF after

\* A lost connection suspends the active sessions of a device and ends no
\* other than the pending ones.
LEMMA SessionsSuspended ==
    ASSUME NEW dir \in Directory, NEW d \in Device
    PROVE  Lasts(dir, Suspend(dir, d), {}, {})
<1> DEFINE mine == SessionsOf(dir, d)
           ended == {k \in mine : dir.sessions[k].phase # "active"}
           sessions == [k \in Device |-> IF k \in mine \ ended
                                         THEN SuspendedSide(dir, k, d)
                                         ELSE dir.sessions[k]]
           suspended == [dir EXCEPT !.sessions = sessions]
<1>1. \A k \in OpenSessions(dir) : k \in Device /\ dir.sessions[k] \in Session
  BY DEF OpenSessions, Directory
<1>2. ASSUME NEW k \in OpenSessions(dir)
      PROVE  /\ SuspendedSide(dir, k, d) \in Session
             /\ SuspendedSide(dir, k, d).target = dir.sessions[k].target
             /\ SuspendedSide(dir, k, d).phase = dir.sessions[k].phase
  <2>1. \A l \in SideLink : LinkLost(l) \in SideLink
    BY DEF SideLink, LinkLost
  <2>2. dir.sessions[k] \in Session
    BY <1>1
  <2> QED BY <2>1, <2>2 DEF SuspendedSide, Session
<1>3. Suspend(dir, d) = RemoveSessions(suspended, ended)
  BY DEF Suspend
<1>4. \A k \in mine : k \in OpenSessions(dir)
  BY DEF SessionsOf
<1>5. \A k \in ended : dir.sessions[k].phase # "active"
  OBVIOUS
<1> HIDE DEF mine, ended
<1>6. sessions \in [Device -> Session \union {None}]
  BY <1>2, <1>4 DEF Directory
<1>7. suspended \in Directory
  <2> HIDE DEF sessions
  <2> QED BY <1>6 DEF Directory
<1>8. suspended.sessions = sessions /\ suspended.deviceSessions = dir.deviceSessions
  BY DEF Directory
<1> HIDE DEF suspended
<1>9. \A k \in Device : suspended.sessions[k] =
          IF k \in mine \ ended THEN SuspendedSide(dir, k, d) ELSE dir.sessions[k]
  BY <1>8
<1>10. OpenSessions(suspended) = OpenSessions(dir)
  <2>1. \A k \in mine : SuspendedSide(dir, k, d) # None /\ dir.sessions[k] # None
    BY <1>2, <1>4, SessionAssumption DEF OpenSessions
  <2> QED BY <1>9, <2>1 DEF OpenSessions
<1> HIDE DEF sessions
<1>11. \A k \in OpenSessions(dir) :
           /\ suspended.sessions[k].phase = dir.sessions[k].phase
           /\ suspended.sessions[k].target = dir.sessions[k].target
  BY <1>1, <1>2, <1>9
<1>12. /\ Lasts(suspended, Suspend(dir, d), ended, {})
       /\ OpenSessions(Suspend(dir, d)) \subseteq OpenSessions(suspended)
  BY <1>3, <1>7, SessionsRemoved
<1>13. Indexed(dir) => Indexed(suspended)
  BY <1>8, <1>10, <1>11 DEF Indexed, Ends
<1> QED BY <1>5, <1>10, <1>11, <1>12, <1>13 DEF Lasts

LEMMA SessionsSwept ==
    ASSUME NEW dir \in Directory
    PROVE  Lasts(dir, SweepDirectory(dir),
                 OpenSessions(dir) \ OpenSessions(SweepDirectory(dir)), {})
<1> DEFINE first == SweepPendingSessions(dir)
<1>1. PICK K : Lasts(dir, first, K, {}) /\ OpenSessions(first) = OpenSessions(dir) \ K
  BY SessionsRemoved DEF SweepPendingSessions
<1>2. first \in Directory
  BY <1>1 DEF Lasts
<1> HIDE DEF first
<1>3. PICK L : /\ Lasts(first, SweepRecoverySessions(first), L, {})
               /\ OpenSessions(SweepRecoverySessions(first)) = OpenSessions(first) \ L
  BY <1>2, SessionsRemoved DEF SweepRecoverySessions
<1> QED BY <1>1, <1>3 DEF Lasts, SweepDirectory, first

-----------------------------------------------------------------------------
(* What a step changes for one device.                                     *)

\* What the invariant says of a device.
Fine(d) == Linked(d) /\ Kept(d) /\ Vouched(d) /\ Right(d)

\* A step that leaves the engine of x alone and in which the server says r to x:
\* what it says is true, and it says so if a session of x ends; only otherwise
\* may it ask for another.
LEMMA Told ==
    ASSUME Inv, NEW x \in Device, NEW r \in Seq(Telling),
           engine'[x] = engine[x], controller'[x] = controller[x],
           link'[x] = link[x],
           link[x] = "up" => x \in attached',
           down'[x] = IF link[x] = "up" THEN down[x] \o r ELSE down[x],
           \A id : AtServer(x, id) =>
               (AtServer(x, id)' /\ Unasked(r, 0)) \/ EndFollows(r, 0, id),
           \A i \in DOMAIN r : r[i].type \in {"ready", "resumed"} =>
               AtServer(x, r[i].id)' /\ Unasked(r, 0)
    PROVE  Fine(x)'
<1> DEFINE q == down[x]
<1>1. /\ q \in Seq(Telling)
      /\ Linked(x) /\ Kept(x) /\ Vouched(x) /\ Right(x)
  BY DEF Inv, Typed
<1>2. Linked(x)'
  BY <1>1 DEF Linked
<1>3. Kept(x)'
  BY <1>1 DEF Kept
<1>4. CASE link[x] # "up"
  BY <1>2, <1>3, <1>4 DEF Fine, Vouched, Right
<1>5. CASE link[x] = "up"
  <2> DEFINE s == q \o r
  <2>1. down'[x] = s /\ link'[x] = "up"
    BY <1>5
  <2>2. /\ \A i \in DOMAIN q : i \in DOMAIN s /\ s[i] = q[i]
        /\ \A i \in DOMAIN r : Len(q) + i \in DOMAIN s /\ s[Len(q) + i] = r[i]
        /\ \A i \in DOMAIN s : i \in DOMAIN q \/ \E j \in DOMAIN r : i = Len(q) + j
    BY <1>1, More
  <2>3. ASSUME NEW id, NEW i \in DOMAIN q \union {0}, Sure(x, i, id)
        PROVE  (AtServer(x, id)' /\ Unasked(s, i)) \/ EndFollows(s, i, id)
    <3>1. /\ EndFollows(q, i, id) => EndFollows(s, i, id)
          /\ Unasked(q, i) /\ EndFollows(r, 0, id) => EndFollows(s, i, id)
          /\ Unasked(q, i) /\ Unasked(r, 0) => Unasked(s, i)
      BY <1>1, Appended
    <3>2. (AtServer(x, id) /\ Unasked(q, i)) \/ EndFollows(q, i, id)
      BY <2>3 DEF Sure
    <3>3. AtServer(x, id) => (AtServer(x, id)' /\ Unasked(r, 0)) \/ EndFollows(r, 0, id)
      OBVIOUS
    <3> QED BY <3>1, <3>2, <3>3
  <2>4. Vouched(x)'
    <3> SUFFICES ASSUME NEW i \in DOMAIN s, s[i].type \in {"ready", "resumed"},
                        NEW id, id = s[i].id
                 PROVE  (AtServer(x, id)' /\ Unasked(s, i)) \/ EndFollows(s, i, id)
      BY <2>1 DEF Vouched, Sure
    <3>1. CASE i \in DOMAIN q
      <4>1. s[i] = q[i]
        BY <2>2, <3>1
      <4>2. Sure(x, i, id)
        BY <1>1, <1>5, <3>1, <4>1 DEF Vouched
      <4> QED BY <2>3, <3>1, <4>2
    <3>2. ASSUME NEW j \in DOMAIN r, i = Len(q) + j
          PROVE  AtServer(x, id)' /\ Unasked(s, i)
      <4>1. s[i] = r[j]
        BY <2>2, <3>2
      <4>2. Unasked(r, 0) => Unasked(s, i)
        BY <1>1, <3>2, Appended
      <4> QED BY <4>1, <4>2
    <3> QED BY <2>2, <3>1, <3>2
  <2>5. Right(x)'
    <3> SUFFICES ASSUME engine[x].serverActive, ~ engine[x].recoveryPending,
                        NEW id, id = engine[x].session
                 PROVE  (AtServer(x, id)' /\ Unasked(s, 0)) \/ EndFollows(s, 0, id)
      BY <2>1 DEF Right, Sure
    <3>1. Sure(x, 0, id)
      BY <1>1, <1>5 DEF Right
    <3> QED BY <2>3, <3>1
  <2> QED BY <1>2, <1>3, <2>4, <2>5 DEF Fine
<1> QED BY <1>4, <1>5

\* A step of the client of x in which nothing is heard.
LEMMA Done ==
    ASSUME Inv, NEW x \in Device,
           UNCHANGED <<directory, ids, attached>>,
           link'[x] = link[x], down'[x] = down[x],
           Kept(x)',
           engine'[x].serverActive /\ ~ engine'[x].recoveryPending =>
               /\ engine[x].serverActive /\ ~ engine[x].recoveryPending
               /\ engine'[x].session = engine[x].session
    PROVE  Fine(x)'
<1>1. Linked(x) /\ Vouched(x) /\ Right(x)
  BY DEF Inv
<1>2. \A id : AtServer(x, id)' <=> AtServer(x, id)
  BY DEF AtServer
<1>3. \A i, id : Sure(x, i, id)' <=> Sure(x, i, id)
  BY <1>2 DEF Sure
<1>4. Linked(x)' /\ Vouched(x)' /\ Right(x)'
  BY <1>1, <1>3 DEF Linked, Vouched, Right
<1> QED BY <1>4 DEF Fine

\* A step in which the client of x hears what the server said.
LEMMA Listened ==
    ASSUME Inv, NEW x \in Device,
           UNCHANGED <<directory, ids, attached, link>>,
           down[x] # <<>>, down' = [down EXCEPT ![x] = Tail(@)],
           Kept(x)',
           LET e == engine[x]
               n == engine'[x]
               m == Head(down[x])
           IN  n.serverActive /\ ~ n.recoveryPending =>
                   \/ m.type \in {"ready", "resumed"} /\ m.id = n.session
                   \/ /\ e.serverActive /\ ~ e.recoveryPending
                      /\ n.session = e.session
                      /\ m.type = "ended" => m.id # e.session
    PROVE  Fine(x)'
<1> DEFINE q == down[x]
           s == Tail(down[x])
<1>1. /\ q \in Seq(Telling) /\ down'[x] = s
      /\ Linked(x) /\ Vouched(x) /\ Right(x)
  BY DEF Inv, Typed
<1>2. \A id : AtServer(x, id)' <=> AtServer(x, id)
  BY DEF AtServer
<1>3. /\ Head(q) = q[1] /\ 1 \in DOMAIN q
      /\ \A i \in DOMAIN s : i \in Nat \ {0} /\ i + 1 \in DOMAIN q /\ s[i] = q[i + 1]
      /\ \A i \in DOMAIN q : i # 1 => i - 1 \in DOMAIN s /\ s[i - 1] = q[i]
      /\ \A i \in DOMAIN q : i \in Nat
  BY <1>1, FirstOut
<1>4. link[x] = "up"
  BY <1>1 DEF Linked
<1>5. Linked(x)'
  BY <1>1, <1>4 DEF Linked
<1>6. ASSUME NEW i \in DOMAIN s \union {0}, NEW id, Sure(x, i + 1, id)
      PROVE  (AtServer(x, id)' /\ Unasked(s, i)) \/ EndFollows(s, i, id)
  <2>1. /\ EndFollows(q, i + 1, id) => EndFollows(s, i, id)
        /\ Unasked(q, i + 1) => Unasked(s, i)
    BY <1>1, Shifted
  <2> QED BY <1>2, <1>6, <2>1 DEF Sure
<1>7. Vouched(x)'
  <2> SUFFICES ASSUME NEW i \in DOMAIN s, s[i].type \in {"ready", "resumed"},
                      NEW id, id = s[i].id
               PROVE  (AtServer(x, id)' /\ Unasked(s, i)) \/ EndFollows(s, i, id)
    BY <1>1 DEF Vouched, Sure
  <2>1. Sure(x, i + 1, id)
    BY <1>1, <1>3, <1>4 DEF Vouched
  <2> QED BY <1>6, <2>1
<1>8. Right(x)'
  <2> SUFFICES ASSUME engine'[x].serverActive, ~ engine'[x].recoveryPending,
                      NEW id, id = engine'[x].session
               PROVE  (AtServer(x, id)' /\ Unasked(s, 0)) \/ EndFollows(s, 0, id)
    BY <1>1 DEF Right, Sure
  <2>1. CASE q[1].type \in {"ready", "resumed"} /\ q[1].id = id
    <3>1. Sure(x, 1, id)
      BY <1>1, <1>3, <1>4, <2>1 DEF Vouched
    <3> QED BY <1>6, <3>1
  <2>2. CASE /\ engine[x].serverActive /\ ~ engine[x].recoveryPending
             /\ id = engine[x].session
             /\ q[1].type = "ended" => q[1].id # id
    <3>1. Sure(x, 0, id)
      BY <1>1, <1>4, <2>2 DEF Right
    <3>2. /\ EndFollows(q, 0, id) => EndFollows(q, 1, id)
          /\ Unasked(q, 0) => Unasked(q, 1)
      BY <1>1, <2>2, Shifted
    <3>3. Sure(x, 1, id)
      BY <3>1, <3>2 DEF Sure
    <3> QED BY <1>6, <3>3
  <2> QED BY <1>3, <2>1, <2>2
<1> QED BY <1>5, <1>7, <1>8 DEF Fine

-----------------------------------------------------------------------------
(* Steps of a client.                                                      *)

\* The new state n of an engine does not take a session for active that the old
\* one did not.
Modest(e, n) ==
    n.serverActive /\ ~ n.recoveryPending =>
        e.serverActive /\ ~ e.recoveryPending /\ n.session = e.session

\* Device d comes to be in state e, with controller c, and says ms.
ClientStep(d, e, c, ms) ==
    /\ e \in Engine /\ c \in Controller \union {None} /\ ms \in Seq(Saying)
    /\ Agree(e, c)
    /\ Become(d, e)
    /\ controller' = [controller EXCEPT ![d] = c]
    /\ Send(d, ms)
    /\ calls' \in Nat
    /\ UNCHANGED <<link, server>>

LEMMA ClientTypes ==
    ASSUME Inv, NEW d \in Device, NEW e, NEW c, NEW ms, ClientStep(d, e, c, ms),
           down' \in [Device -> Seq(Telling)]
    PROVE  /\ Typed'
           /\ engine'[d] = e /\ controller'[d] = c
           /\ \A x \in Device \ {d} : engine'[x] = engine[x] /\ controller'[x] = controller[x]
<1>1. /\ engine' = [engine EXCEPT ![d] = e]
      /\ controller' = [controller EXCEPT ![d] = c]
      /\ e \in Engine /\ c \in Controller \union {None} /\ ms \in Seq(Saying)
      /\ engine \in [Device -> Engine]
      /\ controller \in [Device -> Controller \union {None}]
      /\ up \in [Device -> Seq(Saying)]
  BY DEF ClientStep, Become, Inv, Typed, TypeOK
<1>2. /\ engine' \in [Device -> Engine]
      /\ controller' \in [Device -> Controller \union {None}]
      /\ engine'[d] = e /\ controller'[d] = c
      /\ \A x \in Device \ {d} : engine'[x] = engine[x] /\ controller'[x] = controller[x]
  BY <1>1
<1>3. up[d] \o ms \in Seq(Saying)
  BY <1>1, More
<1>4. up' \in [Device -> Seq(Saying)]
  BY <1>1, <1>3 DEF ClientStep, Send
<1>5. UNCHANGED <<link, attached, directory, ids>> /\ calls' \in Nat
  BY DEF ClientStep, server
<1>6. TypeOK'
  BY <1>2, <1>5 DEF TypeOK, Inv, Typed
<1>7. Typed'
  BY <1>4, <1>5, <1>6 DEF Typed, Inv
<1> QED BY <1>2, <1>7

\* A step in which d hears nothing.
LEMMA Acted ==
    ASSUME Inv, NEW d \in Device, NEW e, NEW c, NEW ms, ClientStep(d, e, c, ms),
           UNCHANGED down,
           Modest(engine[d], e),
           link[d] = "down" /\ e.serverActive => e.recoveryPending
    PROVE  Inv'
<1>1. down' \in [Device -> Seq(Telling)]
  BY DEF Inv, Typed
<1>2. /\ Typed'
      /\ engine'[d] = e /\ controller'[d] = c
      /\ \A x \in Device \ {d} : engine'[x] = engine[x] /\ controller'[x] = controller[x]
  BY <1>1, ClientTypes
<1>3. UNCHANGED <<link, attached, directory, ids>>
  BY DEF ClientStep, server
<1>4. ASSUME NEW x \in Device
      PROVE  Fine(x)'
  <2>1. Kept(x)'
    <3>1. CASE x = d
      BY <1>2, <1>3, <3>1 DEF Kept, ClientStep
    <3>2. CASE x # d
      BY <1>2, <1>3, <3>2 DEF Kept, Inv
    <3> QED BY <3>1, <3>2
  <2>2. engine'[x].serverActive /\ ~ engine'[x].recoveryPending =>
               /\ engine[x].serverActive /\ ~ engine[x].recoveryPending
               /\ engine'[x].session = engine[x].session
    BY <1>2 DEF Modest
  <2> QED BY <1>3, <2>1, <2>2, Done
<1> QED BY <1>2, <1>4 DEF Inv, Fine

\* A step in which d hears m.
LEMMA Heeded ==
    ASSUME Inv, NEW d \in Device, NEW e, NEW c, NEW ms, ClientStep(d, e, c, ms),
           down[d] # <<>>, Hear(d),
           \/ Modest(engine[d], e) /\ (Heard(d).type = "ended" =>
                  Heard(d).id # engine[d].session \/ ~ e.serverActive)
           \/ Heard(d).type \in {"ready", "resumed"} /\ Heard(d).id = e.session
    PROVE  Inv'
<1>1. /\ down[d] \in Seq(Telling) /\ Tail(down[d]) \in Seq(Telling)
      /\ down \in [Device -> Seq(Telling)]
  BY FirstOut DEF Inv, Typed
<1>2. down' = [down EXCEPT ![d] = Tail(@)] /\ down' \in [Device -> Seq(Telling)]
  BY <1>1 DEF Hear
<1>3. /\ Typed'
      /\ engine'[d] = e /\ controller'[d] = c
      /\ \A x \in Device \ {d} : engine'[x] = engine[x] /\ controller'[x] = controller[x]
  BY <1>2, ClientTypes
<1>4. UNCHANGED <<link, attached, directory, ids>>
  BY DEF ClientStep, server
<1>5. link[d] = "up"
  BY DEF Inv, Linked
<1>6. Fine(d)'
  <2>1. Kept(d)'
    BY <1>3, <1>4, <1>5 DEF Kept, ClientStep
  <2> QED BY <1>2, <1>3, <1>4, <2>1, Listened DEF Modest, Heard
<1>7. ASSUME NEW x \in Device \ {d}
      PROVE  Fine(x)'
  <2>1. Kept(x)'
    BY <1>3, <1>4 DEF Kept, Inv
  <2>2. down'[x] = down[x]
    BY <1>1, <1>2
  <2> QED BY <1>3, <1>4, <2>1, <2>2, Done
<1> QED BY <1>3, <1>6, <1>7 DEF Inv, Fine

LEMMA Known ==
    ASSUME Inv, NEW d \in Device
    PROVE  /\ engine[d] \in Engine
           /\ controller[d] \in Controller \union {None}
           /\ Agree(engine[d], controller[d])
           /\ link[d] = "down" /\ engine[d].serverActive => engine[d].recoveryPending
           /\ controller = [controller EXCEPT ![d] = controller[d]]
           /\ engine = [engine EXCEPT ![d] = engine[d]]
           /\ calls \in Nat
           /\ up = [up EXCEPT ![d] = @ \o <<>>]
<1>1. /\ engine \in [Device -> Engine]
      /\ controller \in [Device -> Controller \union {None}]
      /\ up \in [Device -> Seq(Saying)] /\ calls \in Nat
      /\ Kept(d)
  BY DEF Inv, Typed, TypeOK
<1>2. up[d] \o <<>> = up[d]
  BY <1>1, ConcatEmptySeq
<1> QED BY <1>1, <1>2 DEF Kept

\* A client that says nothing.
LEMMA Silent ==
    ASSUME Inv, NEW d \in Device, UNCHANGED up
    PROVE  Send(d, <<>>) /\ <<>> \in Seq(Saying)
BY Known DEF Send

LEMMA ResetEngine ==
    ASSUME NEW e \in Engine
    PROVE  /\ Reset(e) \in Engine
           /\ Reset(e).state = "ready" /\ Reset(e).session = 0
           /\ ~ Reset(e).serverActive
           /\ \A c : Agree(Reset(e), c)
           /\ \A o : Modest(o, Reset(e))
<1>1. Reset(e) \in Engine
  BY DEF Reset, Engine
<1>2. Reset(e).state = "ready" /\ Reset(e).session = 0 /\ ~ Reset(e).serverActive
  BY DEF Reset
<1> QED BY <1>1, <1>2 DEF Agree, Modest

\* What a client may say.
LEMMA Sayings ==
    ASSUME NEW id \in Id
    PROVE  /\ \A t \in {"response", "end", "resume"}, ok \in BOOLEAN :
                  <<Message(t, id, ok)>> \in Seq(Saying)
           /\ \A t \in Device :
                  <<[type |-> "request", id |-> id, to |-> t]>> \in Seq(Saying)
<1>1. \A t \in {"response", "end", "resume"}, ok \in BOOLEAN : Message(t, id, ok) \in Saying
  BY DEF Message, Saying
<1>2. \A t \in Device : [type |-> "request", id |-> id, to |-> t] \in Saying
  BY DEF Saying
<1> QED BY <1>1, <1>2

\* Posting a close does not change what the engine may rely on.
LEMMA ClosingAgrees ==
    ASSUME NEW c \in Controller \union {None}
    PROVE  /\ Closing(c) \in Controller \union {None}
           /\ \A e : Agree(e, c) => Agree(e, Closing(c))
<1>1. CASE c = None
  BY <1>1 DEF Closing
<1>2. CASE c # None
  <2> DEFINE p == c.closePosted \/ c.phase \notin Gone
  <2>1. c \in Controller /\ p \in BOOLEAN /\ Closing(c) = [c EXCEPT !.closePosted = p]
    BY <1>2 DEF Closing, Controller
  <2> HIDE DEF p
  <2>2. Closing(c) \in Controller /\ Closing(c).phase = c.phase
    BY <2>1 DEF Controller
  <2> QED BY <1>2, <2>2, NoneIsNoController DEF Agree
<1> QED BY <1>1, <1>2

-----------------------------------------------------------------------------
(* Commands.                                                               *)

\* A disposal leaves no closed controller.
LEMMA Disposes ==
    ASSUME NEW d \in Device, DisposeClosedSession(d)
    PROVE  \E c \in {controller[d], None} :
              /\ controller' = [controller EXCEPT ![d] = c]
              /\ c # None => c.phase # "closed"
<1>1. PICK disposes \in BOOLEAN :
          /\ controller' = [controller EXCEPT ![d] = IF disposes THEN None ELSE controller[d]]
          /\ PhaseOf(d) = "closed" => disposes
  BY DEF DisposeClosedSession
<1>2. CASE disposes
  BY <1>1, <1>2
<1>3. CASE ~ disposes
  <2>1. controller[d] # None => controller[d].phase # "closed"
    BY <1>1, <1>3 DEF PhaseOf
  <2> QED BY <1>1, <1>3, <2>1
<1> QED BY <1>2, <1>3

LEMMA Connects ==
    ASSUME Inv, NEW d \in Device, NEW t \in Device, ConnectDirectDevice(d, t)
    PROVE  Inv'
<1>1. /\ engine[d] \in Engine /\ controller[d] \in Controller \union {None}
      /\ Agree(engine[d], controller[d]) /\ calls \in Nat
  BY Known
<1> DEFINE r == Reset(engine[d])
           e == [r EXCEPT !.state = "connecting", !.offerer = TRUE]
           ms == <<[type |-> "request", id |-> calls + 1, to |-> t]>>
<1>2. PICK c \in {controller[d], None} :
          /\ controller' = [controller EXCEPT ![d] = c]
          /\ c # None => c.phase # "closed"
  BY Disposes DEF ConnectDirectDevice
<1>3. r \in Engine /\ ~ r.serverActive
  BY <1>1, ResetEngine
<1> HIDE DEF r
<1>4. e \in Engine /\ ~ e.serverActive /\ e.state = "connecting"
  BY <1>3 DEF Engine
<1>5. Become(d, e) /\ Send(d, ms) /\ calls' = calls + 1
      /\ UNCHANGED <<link, down, server>> /\ calls < MaxCalls
  BY DEF ConnectDirectDevice, r
<1>6. ms \in Seq(Saying)
  <2>1. calls + 1 \in Id
    BY <1>1, <1>5, DirectCallsAssumption DEF Id
  <2> QED BY <2>1, Sayings
<1> HIDE DEF e, ms
<1>7. ClientStep(d, e, c, ms)
  BY <1>1, <1>2, <1>4, <1>5, <1>6 DEF ClientStep, Agree
<1> QED BY <1>4, <1>5, <1>7, Acted DEF Modest

LEMMA Accepts ==
    ASSUME Inv, NEW d \in Device, AcceptIncomingSession(d)
    PROVE  Inv'
<1>1. /\ engine[d] \in Engine /\ controller[d] \in Controller \union {None}
      /\ Agree(engine[d], controller[d]) /\ calls \in Nat
      /\ controller = [controller EXCEPT ![d] = controller[d]]
      /\ link[d] = "down" /\ engine[d].serverActive => engine[d].recoveryPending
  BY Known
<1> DEFINE c == controller[d]
           e == [engine[d] EXCEPT !.state = "connecting"]
           ms == <<Message("response", engine[d].session, TRUE)>>
<1>2. /\ e \in Engine /\ e.session = engine[d].session /\ e.state = "connecting"
      /\ e.serverActive = engine[d].serverActive
      /\ e.recoveryPending = engine[d].recoveryPending
  BY <1>1 DEF Engine
<1>3. /\ engine[d].state = "awaiting" /\ Become(d, e) /\ Send(d, ms)
      /\ UNCHANGED <<controller, link, down, server, calls>>
  BY DEF AcceptIncomingSession
<1>4. engine[d].session \in Id
  BY <1>1, <1>3 DEF Agree, Engine
<1>5. ms \in Seq(Saying)
  BY <1>4, Sayings
<1> HIDE DEF e, ms
<1>6. Agree(e, c)
  BY <1>1, <1>2, <1>3 DEF Agree
<1>7. ClientStep(d, e, c, ms)
  BY <1>1, <1>2, <1>3, <1>5, <1>6 DEF ClientStep
<1> QED BY <1>1, <1>2, <1>3, <1>7, Acted DEF Modest

LEMMA Rejects ==
    ASSUME Inv, NEW d \in Device, RejectIncomingSession(d)
    PROVE  Inv'
<1>1. /\ engine[d] \in Engine /\ controller[d] \in Controller \union {None}
      /\ Agree(engine[d], controller[d]) /\ calls \in Nat
      /\ controller = [controller EXCEPT ![d] = controller[d]]
  BY Known
<1> DEFINE c == controller[d]
           e == Reset(engine[d])
           ms == <<Message("response", engine[d].session, FALSE)>>
<1>2. /\ engine[d].state = "awaiting" /\ Become(d, e) /\ Send(d, ms)
      /\ UNCHANGED <<controller, link, down, server, calls>>
  BY DEF RejectIncomingSession
<1>3. e \in Engine /\ Agree(e, c) /\ Modest(engine[d], e) /\ ~ e.serverActive
  BY <1>1, ResetEngine
<1>4. engine[d].session \in Id
  BY <1>1, <1>2 DEF Agree, Engine
<1>5. ms \in Seq(Saying)
  BY <1>4, Sayings
<1> HIDE DEF e, ms
<1>6. ClientStep(d, e, c, ms)
  BY <1>1, <1>2, <1>3, <1>5 DEF ClientStep
<1> QED BY <1>2, <1>3, <1>6, Acted

\* Whatever the engine makes of hanging up, it keeps its session or resets.
LEMMA HangsUp ==
    ASSUME Inv, NEW d \in Device, Disconnect(d)
    PROVE  Inv'
<1>1. /\ engine[d] \in Engine /\ controller[d] \in Controller \union {None}
      /\ Agree(engine[d], controller[d]) /\ calls \in Nat
      /\ link[d] = "down" /\ engine[d].serverActive => engine[d].recoveryPending
  BY Known
<1> DEFINE c == Closing(controller[d])
           o == [engine[d] EXCEPT !.closeRequested = TRUE]
           known == [o EXCEPT !.endSignalSent = o.session # 0]
           cancels == [o EXCEPT !.cancelWhenKnown = TRUE]
           ends == o.session # 0 /\ o.online /\ Endable(d)
           e == IF IdUnknown(o) THEN cancels
                ELSE IF Endable(d) /\ Resets(d) THEN Reset(o) ELSE known
           ms == IF ends THEN <<Message("end", o.session, TRUE)>> ELSE <<>>
<1>2. /\ Become(d, e) /\ Send(d, ms) /\ controller' = [controller EXCEPT ![d] = c]
      /\ UNCHANGED <<link, down, server, calls>>
  BY DEF Disconnect, Close
<1>3. /\ o \in Engine /\ o.session = engine[d].session /\ o.state = engine[d].state
      /\ o.serverActive = engine[d].serverActive
      /\ o.recoveryPending = engine[d].recoveryPending
  BY <1>1 DEF Engine
<1> HIDE DEF o
<1>4. \A n \in {cancels, known} :
          /\ n \in Engine /\ n.session = o.session /\ n.state = o.state
          /\ n.serverActive = o.serverActive
          /\ n.recoveryPending = o.recoveryPending
  BY <1>3 DEF Engine
<1>5. ms \in Seq(Saying)
  <2>1. CASE ends
    <3>1. o.session \in Id
      BY <1>3, <2>1 DEF Engine
    <3> QED BY <2>1, <3>1, Sayings
  <2>2. <<>> \in Seq(Saying)
    OBVIOUS
  <2> QED BY <2>1, <2>2
<1>6. \/ e = Reset(o)
      \/ e \in {cancels, known}
  OBVIOUS
<1>7. c \in Controller \union {None} /\ Agree(engine[d], c)
  BY <1>1, ClosingAgrees
<1> HIDE DEF cancels, known, e, ms, ends, c
<1>8. /\ e \in Engine /\ Agree(e, c) /\ Modest(engine[d], e)
      /\ link[d] = "down" /\ e.serverActive => e.recoveryPending
  <2>1. CASE e = Reset(o)
    <3>1. Reset(o) \in Engine /\ ~ Reset(o).serverActive /\ Agree(Reset(o), c)
      BY <1>3, ResetEngine
    <3> QED BY <2>1, <3>1 DEF Modest
  <2>2. CASE e \in {cancels, known}
    BY <1>1, <1>3, <1>4, <1>7, <2>2 DEF Agree, Modest
  <2> QED BY <1>6, <2>1, <2>2
<1>9. ClientStep(d, e, c, ms)
  BY <1>1, <1>2, <1>5, <1>7, <1>8 DEF ClientStep
<1> QED BY <1>2, <1>8, <1>9, Acted

-----------------------------------------------------------------------------
(* Signaling callbacks.                                                    *)

LEMMA HeardType ==
    ASSUME Inv, NEW d \in Device, down[d] # <<>>
    PROVE  Heard(d).type \in Naming => Heard(d).id \in Id
<1>1. Heard(d) \in Telling
  BY FirstOut DEF Inv, Typed, Heard
<1> QED BY <1>1 DEF Telling, Naming

LEMMA HearsRegistered ==
    ASSUME Inv, NEW d \in Device, OnDeviceRegistered(d)
    PROVE  Inv'
<1>1. /\ engine[d] \in Engine /\ controller[d] \in Controller \union {None}
      /\ Agree(engine[d], controller[d]) /\ calls \in Nat
      /\ controller = [controller EXCEPT ![d] = controller[d]]
  BY Known
<1> DEFINE c == controller[d]
           e == [engine[d] EXCEPT !.online = TRUE]
           resumes == /\ engine[d].recoveryPending /\ engine[d].serverActive
                      /\ controller[d] # None /\ engine[d].session # 0
           ms == IF resumes THEN <<Message("resume", engine[d].session, TRUE)>> ELSE <<>>
<1>2. /\ Become(d, e) /\ Send(d, ms) /\ Hear(d)
      /\ down[d] # <<>> /\ Heard(d).type = "registered"
      /\ UNCHANGED <<controller, link, server, calls>>
  BY DEF OnDeviceRegistered, Hears, Heard
<1>3. /\ e \in Engine /\ e.session = engine[d].session /\ e.state = engine[d].state
      /\ e.serverActive = engine[d].serverActive
      /\ e.recoveryPending = engine[d].recoveryPending
  BY <1>1 DEF Engine
<1>4. ms \in Seq(Saying)
  <2>1. CASE resumes
    <3>1. engine[d].session \in Id
      BY <1>1, <2>1 DEF Engine
    <3> QED BY <2>1, <3>1, Sayings
  <2>2. <<>> \in Seq(Saying)
    OBVIOUS
  <2> QED BY <2>1, <2>2
<1> HIDE DEF e, ms
<1>5. ClientStep(d, e, c, ms)
  BY <1>1, <1>2, <1>3, <1>4 DEF ClientStep, Agree
<1> QED BY <1>2, <1>3, <1>5, Heeded DEF Modest

\* Whoever is asked is in no active session, as far as it is not to be resumed.
LEMMA AskedWhenFree ==
    ASSUME Inv, NEW d \in Device, down[d] # <<>>, Heard(d).type = "request",
           engine[d].serverActive
    PROVE  engine[d].recoveryPending
<1> SUFFICES ASSUME ~ engine[d].recoveryPending, NEW id, id = engine[d].session
             PROVE  FALSE
  OBVIOUS
<1> DEFINE q == down[d]
<1>1. q \in Seq(Telling) /\ link[d] = "up" /\ Right(d)
  BY DEF Inv, Typed, Linked
<1>2. q[1].type = "request"
  BY <1>1, FirstOut DEF Heard
<1>3. (AtServer(d, id) /\ Unasked(q, 0)) \/ EndFollows(q, 0, id)
  BY <1>1 DEF Right, Sure
<1>4. /\ Unasked(q, 0) => q[1].type # "request"
      /\ (EndFollows(q, 0, id) /\ (q[1].type = "ended" => q[1].id # id)) =>
             q[1].type # "request"
  BY <1>1, Shifted
<1> QED BY <1>2, <1>3, <1>4

\* A request finds the engine busy, is refused, or resets it for a new session.
LEMMA HearsRequest ==
    ASSUME Inv, NEW d \in Device, OnIncomingSessionRequest(d)
    PROVE  Inv'
<1>1. /\ engine[d] \in Engine /\ controller[d] \in Controller \union {None}
      /\ Agree(engine[d], controller[d]) /\ calls \in Nat
      /\ engine = [engine EXCEPT ![d] = engine[d]]
  BY Known
<1>2. /\ down[d] # <<>> /\ Hear(d) /\ Heard(d).type = "request"
      /\ UNCHANGED <<link, server, calls>>
  BY DEF OnIncomingSessionRequest, Hears, Heard
<1> DEFINE id == Heard(d).id
           mine == [Reset(engine[d]) EXCEPT !.session = id]
<1>3. id \in Id /\ id # 0
  BY <1>2, HeardType DEF Naming, Id
<1>4. PICK c \in {controller[d], None} :
          /\ controller' = [controller EXCEPT ![d] = c]
          /\ c # None => c.phase # "closed"
  BY Disposes DEF OnIncomingSessionRequest
<1>5. Agree(engine[d], c)
  BY <1>1, <1>2, <1>4, AskedWhenFree DEF Agree
<1>6. /\ mine \in Engine /\ ~ mine.serverActive /\ mine.session = id
  <2>1. Reset(engine[d]) \in Engine /\ ~ Reset(engine[d]).serverActive
    BY <1>1, ResetEngine
  <2> QED BY <1>3, <2>1 DEF Engine
<1>7. \A n \in {[mine EXCEPT !.state = "awaiting"], [mine EXCEPT !.state = "connecting"]} :
          n \in Engine /\ ~ n.serverActive /\ n.session = id
  <2> HIDE DEF mine
  <2> QED BY <1>6 DEF Engine
<1>8. PICK e, ms :
          /\ \/ e = engine[d]
             \/ e \in {[mine EXCEPT !.state = "awaiting"], [mine EXCEPT !.state = "connecting"]}
          /\ \/ ms = <<>>
             \/ \E ok \in BOOLEAN : ms = <<Message("response", id, ok)>>
          /\ Become(d, e) /\ Send(d, ms)
  <2>1. PICK manner \in {"ask", "accept", "refuse"} :
          IF engine[d].state # "ready" \/ manner = "refuse"
          THEN /\ Send(d, <<Message("response", id, FALSE)>>)
               /\ UNCHANGED engine
          ELSE IF manner = "ask"
          THEN /\ Become(d, [mine EXCEPT !.state = "awaiting"])
               /\ UNCHANGED up
          ELSE /\ Become(d, [mine EXCEPT !.state = "connecting"])
               /\ Send(d, <<Message("response", id, TRUE)>>)
    BY DEF OnIncomingSessionRequest
  <2>2. UNCHANGED engine => Become(d, engine[d])
    BY <1>1 DEF Become
  <2>3. UNCHANGED up => Send(d, <<>>)
    BY Silent
  <2> HIDE DEF mine, id
  <2> QED BY <2>1, <2>2, <2>3
<1>9. ms \in Seq(Saying)
  <2>1. <<>> \in Seq(Saying)
    OBVIOUS
  <2>2. \A ok \in BOOLEAN : <<Message("response", id, ok)>> \in Seq(Saying)
    BY <1>3, Sayings
  <2> QED BY <1>8, <2>1, <2>2
<1> HIDE DEF mine, id
<1>10. e \in Engine /\ Agree(e, c) /\ Modest(engine[d], e)
  <2>1. CASE e = engine[d]
    BY <1>1, <1>5, <2>1 DEF Modest
  <2>2. CASE e \in {[mine EXCEPT !.state = "awaiting"], [mine EXCEPT !.state = "connecting"]}
    <3>1. e \in Engine /\ ~ e.serverActive /\ e.session # 0
      BY <1>3, <1>7, <2>2
    <3> QED BY <1>4, <3>1 DEF Agree, Modest
  <2> QED BY <1>8, <2>1, <2>2
<1>11. ClientStep(d, e, c, ms)
  BY <1>1, <1>2, <1>4, <1>8, <1>9, <1>10 DEF ClientStep
<1> QED BY <1>2, <1>10, <1>11, Heeded

\* The callbacks that may leave the engine as it is, reset it, or give it the
\* id of its session, and neither touch the controller.
LEMMA HearsAnswer ==
    ASSUME Inv, NEW d \in Device,
           \/ OnSessionResponse(d)
           \/ OnSessionPending(d)
           \/ OnRequestRefused(d)
    PROVE  Inv'
<1>1. /\ engine[d] \in Engine /\ controller[d] \in Controller \union {None}
      /\ Agree(engine[d], controller[d]) /\ calls \in Nat
      /\ controller = [controller EXCEPT ![d] = controller[d]]
      /\ engine = [engine EXCEPT ![d] = engine[d]]
  BY Known
<1> DEFINE id == Heard(d).id
           c == controller[d]
           named == [engine[d] EXCEPT !.session = id]
<1>2. /\ down[d] # <<>> /\ Hear(d)
      /\ Heard(d).type \in {"response", "pending", "refused"}
      /\ UNCHANGED <<controller, link, server, calls>>
  BY DEF OnSessionResponse, OnSessionPending, OnRequestRefused, Hears, Heard
<1>3. Heard(d).type # "refused" => id \in Id /\ id # 0
  BY <1>2, HeardType DEF Naming, Id
<1>4. UNCHANGED engine => Become(d, engine[d])
  BY <1>1 DEF Become
<1>5. UNCHANGED up => Send(d, <<>>)
  BY Silent
<1>6. PICK e, ms :
          /\ \/ e \in {engine[d], Reset(engine[d])}
             \/ e = named /\ Expected(d) /\ Heard(d).type # "refused"
          /\ \/ ms = <<>>
             \/ ms = <<Message("end", id, TRUE)>> /\ Heard(d).type # "refused"
          /\ Become(d, e) /\ Send(d, ms)
  <2>1. CASE OnSessionResponse(d)
    <3>1. Send(d, <<>>) /\ Heard(d).type = "response"
      BY <1>5, <2>1 DEF OnSessionResponse, Hears, Heard
    <3>2. \/ Expected(d) /\ Become(d, named)
          \/ Become(d, Reset(engine[d]))
          \/ Become(d, engine[d])
      BY <1>4, <2>1 DEF OnSessionResponse
    <3> HIDE DEF named
    <3> QED BY <3>1, <3>2
  <2>2. CASE OnSessionPending(d)
    <3>1. Heard(d).type = "pending"
      BY <2>2 DEF OnSessionPending, Hears, Heard
    <3>2. \/ Become(d, engine[d]) /\ Send(d, <<>>)
          \/ /\ Become(d, Reset(engine[d]))
             /\ Send(d, <<Message("end", id, TRUE)>>) \/ Send(d, <<>>)
          \/ Expected(d) /\ Become(d, named) /\ Send(d, <<>>)
      BY <1>4, <1>5, <2>2 DEF OnSessionPending
    <3> HIDE DEF named
    <3> QED BY <3>1, <3>2
  <2>3. CASE OnRequestRefused(d)
    <3>1. Send(d, <<>>)
      BY <1>5, <2>3 DEF OnRequestRefused
    <3>2. Become(d, Reset(engine[d])) \/ Become(d, engine[d])
      BY <2>3 DEF OnRequestRefused
    <3> HIDE DEF named
    <3> QED BY <3>1, <3>2
  <2> QED BY <2>1, <2>2, <2>3
<1>7. ms \in Seq(Saying)
  <2>1. <<>> \in Seq(Saying)
    OBVIOUS
  <2>2. Heard(d).type # "refused" => <<Message("end", id, TRUE)>> \in Seq(Saying)
    BY <1>3, Sayings
  <2> QED BY <1>6, <2>1, <2>2
<1>8. e \in Engine /\ Agree(e, c) /\ Modest(engine[d], e)
  <2>1. CASE e = engine[d]
    BY <1>1, <2>1 DEF Modest
  <2>2. CASE e = Reset(engine[d])
    BY <1>1, <2>2, ResetEngine
  <2>3. CASE e = named /\ Expected(d) /\ Heard(d).type # "refused"
    <3>1. /\ id \in Id /\ id # 0
          /\ engine[d].state = "connecting" /\ engine[d].session \in {0, id}
      BY <1>3, <2>3 DEF Expected
    <3>2. /\ named \in Engine /\ named.session = id /\ named.state = "connecting"
          /\ named.serverActive = engine[d].serverActive
          /\ named.recoveryPending = engine[d].recoveryPending
      BY <1>1, <3>1 DEF Engine
    <3> HIDE DEF named
    <3> QED BY <1>1, <2>3, <3>1, <3>2 DEF Agree, Modest
  <2> QED BY <1>6, <2>1, <2>2, <2>3
<1> HIDE DEF named, id
<1>9. ClientStep(d, e, c, ms)
  BY <1>1, <1>2, <1>6, <1>7, <1>8 DEF ClientStep
<1> QED BY <1>2, <1>8, <1>9, Heeded

\* A session that is ready gets a controller if there is none.
LEMMA HearsReady ==
    ASSUME Inv, NEW d \in Device, OnSessionReady(d)
    PROVE  Inv'
<1>1. /\ engine[d] \in Engine /\ controller[d] \in Controller \union {None}
      /\ Agree(engine[d], controller[d]) /\ calls \in Nat
      /\ controller = [controller EXCEPT ![d] = controller[d]]
      /\ engine = [engine EXCEPT ![d] = engine[d]]
  BY Known
<1> DEFINE id == Heard(d).id
           e == [engine[d] EXCEPT !.session = id, !.serverActive = TRUE,
                                  !.recoveryPending = FALSE]
           c == IF controller[d] = None THEN NewController(d) ELSE controller[d]
<1>2. /\ down[d] # <<>> /\ Hear(d) /\ Heard(d).type = "ready"
      /\ UNCHANGED <<link, up, server, calls>>
  BY DEF OnSessionReady, Hears, Heard
<1>3. id \in Id /\ id # 0
  BY <1>2, HeardType DEF Naming, Id
<1>4. Send(d, <<>>) /\ <<>> \in Seq(Saying)
  BY <1>2, Silent
<1>5. CASE Expected(d)
  <2>1. /\ e \in Engine /\ e.session = id /\ e.state = "connecting"
    BY <1>1, <1>3, <1>5 DEF Engine, Expected
  <2>2. /\ NewController(d) \in Controller /\ NewController(d).phase = "open"
    BY <1>1, <1>3 DEF NewController, Controller, ControllerPhase, Engine
  <2>3. c \in Controller /\ c # None /\ c.phase # "closed"
    BY <1>1, <1>5, <2>2, NoneIsNoController DEF Agree, Expected
  <2>4. Become(d, e) /\ controller' = [controller EXCEPT ![d] = c]
    BY <1>5 DEF OnSessionReady
  <2> HIDE DEF e, c
  <2>5. ClientStep(d, e, c, <<>>)
    BY <1>1, <1>2, <1>3, <1>4, <2>1, <2>3, <2>4 DEF ClientStep, Agree
  <2> QED BY <1>2, <2>1, <2>5, Heeded
<1>6. CASE ~ Expected(d)
  <2>1. Become(d, engine[d]) /\ controller' = [controller EXCEPT ![d] = controller[d]]
    BY <1>1, <1>6 DEF OnSessionReady, Become
  <2>2. ClientStep(d, engine[d], controller[d], <<>>)
    BY <1>1, <1>2, <1>4, <2>1 DEF ClientStep
  <2> QED BY <1>2, <2>2, Heeded DEF Modest
<1> QED BY <1>5, <1>6

LEMMA HearsResumed ==
    ASSUME Inv, NEW d \in Device, OnSessionResumed(d)
    PROVE  Inv'
<1>1. /\ engine[d] \in Engine /\ controller[d] \in Controller \union {None}
      /\ Agree(engine[d], controller[d]) /\ calls \in Nat
      /\ controller = [controller EXCEPT ![d] = controller[d]]
      /\ engine = [engine EXCEPT ![d] = engine[d]]
  BY Known
<1> DEFINE id == Heard(d).id
           c == controller[d]
           e == [engine[d] EXCEPT !.recoveryPending = FALSE, !.serverActive = TRUE]
<1>2. /\ down[d] # <<>> /\ Hear(d) /\ Heard(d).type = "resumed"
      /\ UNCHANGED <<controller, link, up, server, calls>>
  BY DEF OnSessionResumed, Hears, Heard
<1>3. id \in Id /\ id # 0
  BY <1>2, HeardType DEF Naming, Id
<1>4. Send(d, <<>>) /\ <<>> \in Seq(Saying)
  BY <1>2, Silent
<1>5. CASE engine[d].session = id /\ c # None
  <2>1. /\ e \in Engine /\ e.session = id /\ e.state = engine[d].state
    BY <1>1, <1>3, <1>5 DEF Engine
  <2>2. c.phase # "closed"
    BY <1>1, <1>3, <1>5 DEF Agree
  <2>3. Become(d, e)
    BY <1>5 DEF OnSessionResumed
  <2> HIDE DEF e
  <2>4. ClientStep(d, e, c, <<>>)
    BY <1>1, <1>2, <1>3, <1>4, <1>5, <2>1, <2>2, <2>3 DEF ClientStep, Agree
  <2> QED BY <1>2, <2>1, <2>4, Heeded
<1>6. CASE ~ (engine[d].session = id /\ c # None)
  <2>1. Become(d, engine[d])
    BY <1>1, <1>6 DEF OnSessionResumed, Become
  <2>2. ClientStep(d, engine[d], c, <<>>)
    BY <1>1, <1>2, <1>4, <2>1 DEF ClientStep
  <2> QED BY <1>2, <2>2, Heeded DEF Modest
<1> QED BY <1>5, <1>6

\* The engine gives up an ended session, or one it may not resume, and lets its
\* controller close.
LEMMA HearsTheEnd ==
    ASSUME Inv, NEW d \in Device, OnSessionEnded(d) \/ OnResumeRejected(d)
    PROVE  Inv'
<1>1. /\ engine[d] \in Engine /\ controller[d] \in Controller \union {None}
      /\ Agree(engine[d], controller[d]) /\ calls \in Nat
      /\ controller = [controller EXCEPT ![d] = controller[d]]
      /\ engine = [engine EXCEPT ![d] = engine[d]]
  BY Known
<1> DEFINE over == [engine[d] EXCEPT !.closeRequested = @ /\ Heard(d).ok,
                                     !.serverActive = FALSE]
           refused == [engine[d] EXCEPT !.recoveryPending = FALSE,
                                        !.serverActive = FALSE,
                                        !.closeRequested = FALSE]
<1>2. /\ down[d] # <<>> /\ Hear(d)
      /\ Heard(d).type \in {"ended", "resume_rejected"}
      /\ UNCHANGED <<link, up, server, calls>>
  BY DEF OnSessionEnded, OnResumeRejected, Hears, Heard
<1>3. Send(d, <<>>) /\ <<>> \in Seq(Saying)
  BY <1>2, Silent
<1>4. \A n \in {over, refused} :
          /\ n \in Engine /\ n.session = engine[d].session
          /\ n.state = engine[d].state /\ ~ n.serverActive
  BY <1>1 DEF Engine
<1>5. /\ Reset(engine[d]) \in Engine /\ ~ Reset(engine[d]).serverActive
      /\ \A c : Agree(Reset(engine[d]), c)
  BY <1>1, ResetEngine
<1>6. PICK e, c :
          /\ \/ /\ e = engine[d] /\ c = controller[d]
                /\ Heard(d).type = "ended" => Heard(d).id # engine[d].session
             \/ /\ e \in {over, refused, Reset(engine[d])}
                /\ c = Closing(controller[d])
          /\ Become(d, e) /\ controller' = [controller EXCEPT ![d] = c]
  <2> HIDE DEF over, refused
  <2>1. CASE OnSessionEnded(d)
    <3>1. CASE engine[d].session = Heard(d).id
      <4>1. Become(d, Reset(engine[d])) \/ Become(d, over)
        BY <2>1, <3>1 DEF OnSessionEnded, over
      <4>2. controller' = [controller EXCEPT ![d] = Closing(controller[d])]
        BY <2>1, <3>1 DEF OnSessionEnded, Close
      <4> QED BY <4>1, <4>2
    <3>2. CASE engine[d].session # Heard(d).id
      <4>1. UNCHANGED <<engine, controller>>
        BY <2>1, <3>2 DEF OnSessionEnded
      <4> QED BY <1>1, <3>2, <4>1 DEF Become
    <3> QED BY <3>1, <3>2
  <2>2. CASE OnResumeRejected(d)
    <3>1. Heard(d).type = "resume_rejected"
      BY <2>2 DEF OnResumeRejected, Hears, Heard
    <3>2. CASE controller[d] # None
      <4>1. Become(d, refused)
        BY <2>2, <3>2 DEF OnResumeRejected, refused
      <4>2. controller' = [controller EXCEPT ![d] = Closing(controller[d])]
        BY <2>2, <3>2 DEF OnResumeRejected, Close
      <4> QED BY <4>1, <4>2
    <3>3. CASE controller[d] = None
      <4>1. UNCHANGED <<engine, controller>>
        BY <2>2, <3>3 DEF OnResumeRejected
      <4> QED BY <1>1, <3>1, <4>1 DEF Become
    <3> QED BY <3>2, <3>3
  <2> QED BY <2>1, <2>2
<1> HIDE DEF over, refused
<1>7. /\ e \in Engine /\ c \in Controller \union {None} /\ Agree(e, c)
      /\ Modest(engine[d], e)
      /\ Heard(d).type = "ended" => Heard(d).id # engine[d].session \/ ~ e.serverActive
  <2>1. CASE /\ e = engine[d] /\ c = controller[d]
             /\ Heard(d).type = "ended" => Heard(d).id # engine[d].session
    BY <1>1, <2>1 DEF Modest
  <2>2. CASE /\ e \in {over, refused, Reset(engine[d])}
             /\ c = Closing(controller[d])
    <3>1. /\ c \in Controller \union {None} /\ Agree(engine[d], c)
      BY <1>1, <2>2, ClosingAgrees
    <3>2. e \in Engine /\ ~ e.serverActive
      BY <1>4, <1>5, <2>2
    <3>3. Agree(e, c)
      BY <1>4, <1>5, <2>2, <3>1 DEF Agree
    <3> QED BY <3>1, <3>2, <3>3 DEF Modest
  <2> QED BY <1>6, <2>1, <2>2
<1>8. ClientStep(d, e, c, <<>>)
  BY <1>1, <1>2, <1>3, <1>6, <1>7 DEF ClientStep
<1> QED BY <1>2, <1>7, <1>8, Heeded

-----------------------------------------------------------------------------
(* The controller.                                                         *)

LEMMA ControllerSteps ==
    ASSUME Inv, NEW d \in Device,
           Connected(d) \/ Disconnected(d) \/ Fail(d)
    PROVE  Inv'
<1>1. /\ engine[d] \in Engine /\ controller[d] \in Controller \union {None}
      /\ Agree(engine[d], controller[d]) /\ calls \in Nat
      /\ link[d] = "down" /\ engine[d].serverActive => engine[d].recoveryPending
      /\ controller \in [Device -> Controller \union {None}]
  BY Known DEF Inv, Typed, TypeOK
<1>2. PICK state \in {"active", "connecting", "failed"},
           to \in {"connected", "recovering", "closing"} :
          /\ controller' = [controller EXCEPT ![d].phase = to]
          /\ State(d, state)
          /\ PhaseOf(d) \in {"open", "recovering", "connected"}
          /\ UNCHANGED <<link, up, down, server, calls>>
  <2>1. CASE Connected(d)
    BY <2>1 DEF Connected, Step
  <2>2. CASE Disconnected(d)
    BY <2>2 DEF Disconnected, Step
  <2>3. CASE Fail(d)
    BY <2>3 DEF Fail, Step
  <2> QED BY <2>1, <2>2, <2>3
<1> DEFINE e == [engine[d] EXCEPT !.state = state]
           c == [controller[d] EXCEPT !.phase = to]
<1>3. /\ e \in Engine /\ e.session = engine[d].session /\ e.state = state
      /\ e.serverActive = engine[d].serverActive
      /\ e.recoveryPending = engine[d].recoveryPending
  BY <1>1 DEF Engine
<1>4. controller[d] \in Controller
  BY <1>1, <1>2 DEF PhaseOf
<1>5. c \in Controller /\ c.phase = to /\ c # None
  <2>1. c \in Controller /\ c.phase = to
    BY <1>4 DEF Controller, ControllerPhase
  <2> QED BY <2>1, NoneIsNoController
<1>6. Become(d, e) /\ controller' = [controller EXCEPT ![d] = c]
  BY <1>2 DEF State
<1>7. Send(d, <<>>) /\ <<>> \in Seq(Saying)
  BY <1>2, Silent
<1> HIDE DEF e, c
<1>8. ClientStep(d, e, c, <<>>)
  BY <1>1, <1>2, <1>3, <1>5, <1>6, <1>7 DEF ClientStep, Agree
<1> QED BY <1>1, <1>2, <1>3, <1>8, Acted DEF Modest

LEMMA Closes ==
    ASSUME Inv, NEW d \in Device, CloseOnExecutor(d)
    PROVE  Inv'
<1>1. /\ engine[d] \in Engine /\ controller[d] \in Controller \union {None}
      /\ Agree(engine[d], controller[d]) /\ calls \in Nat
      /\ link[d] = "down" /\ engine[d].serverActive => engine[d].recoveryPending
      /\ engine = [engine EXCEPT ![d] = engine[d]]
      /\ controller \in [Device -> Controller \union {None}]
  BY Known DEF Inv, Typed, TypeOK
<1> DEFINE p == IF controller[d].phase \in Gone THEN controller[d].phase ELSE "closing"
           c == [controller[d] EXCEPT !.closePosted = FALSE, !.phase = p]
<1>2. /\ controller[d] # None
      /\ controller' = [controller EXCEPT ![d] = c]
      /\ UNCHANGED <<engine, link, up, down, server, calls>>
  BY <1>1 DEF CloseOnExecutor
<1>3. p \in ControllerPhase /\ (p = "closed" => controller[d].phase = "closed")
  BY DEF Gone, ControllerPhase
<1> HIDE DEF p
<1>4. c \in Controller /\ c.phase = p /\ c # None
  <2>1. c \in Controller /\ c.phase = p
    BY <1>1, <1>2, <1>3 DEF Controller
  <2> QED BY <2>1, NoneIsNoController
<1>5. Send(d, <<>>) /\ <<>> \in Seq(Saying) /\ Become(d, engine[d])
  BY <1>1, <1>2, Silent DEF Become
<1> HIDE DEF c
<1>6. ClientStep(d, engine[d], c, <<>>)
  BY <1>1, <1>2, <1>3, <1>4, <1>5 DEF ClientStep, Agree
<1> QED BY <1>1, <1>2, <1>6, Acted DEF Modest

\* The callback for the closed state, which resets the engine.
LEMMA HasClosed ==
    ASSUME Inv, NEW d \in Device, OnControllerClosed(d)
    PROVE  Inv'
<1>1. /\ engine[d] \in Engine /\ controller[d] \in Controller \union {None}
      /\ calls \in Nat
      /\ controller \in [Device -> Controller \union {None}]
  BY Known DEF Inv, Typed, TypeOK
<1> DEFINE e == Reset(engine[d])
           c == [controller[d] EXCEPT !.phase = "closed"]
           tells == ClosesSession(engine[d]) /\ engine[d].online
           ms == IF tells THEN <<Message("end", engine[d].session, TRUE)>> ELSE <<>>
<1>2. /\ PhaseOf(d) = "closing"
      /\ controller' = [controller EXCEPT ![d] = c]
      /\ Become(d, e) /\ Send(d, ms)
      /\ UNCHANGED <<link, down, server, calls>>
  BY <1>1 DEF OnControllerClosed, Step
<1>3. c \in Controller
  BY <1>1, <1>2 DEF Controller, ControllerPhase, PhaseOf
<1>4. e \in Engine /\ ~ e.serverActive /\ Agree(e, c) /\ Modest(engine[d], e)
  BY <1>1, ResetEngine
<1>5. ms \in Seq(Saying)
  <2>1. CASE tells
    <3>1. engine[d].session \in Id
      BY <1>1, <2>1 DEF Engine, ClosesSession
    <3> QED BY <2>1, <3>1, Sayings
  <2>2. <<>> \in Seq(Saying)
    OBVIOUS
  <2> QED BY <2>1, <2>2
<1> HIDE DEF e, c, ms
<1>6. ClientStep(d, e, c, ms)
  BY <1>1, <1>2, <1>3, <1>4, <1>5 DEF ClientStep
<1> QED BY <1>2, <1>4, <1>6, Acted

-----------------------------------------------------------------------------
(* What the server says.                                                   *)

\* What out says, it says to devices of D and from T.
Says(out, D, T) ==
    /\ out \in [Device -> Seq(Telling)]
    /\ \A x \in Device : \A i \in DOMAIN out[x] : x \in D /\ out[x][i] \in T

LEMMA SayBoth ==
    ASSUME NEW o, NEW D, NEW T, Says(o, D, T),
           NEW p, NEW E, NEW U, Says(p, E, U),
           NEW out, out = Both(o, p)
    PROVE  Says(out, D \union E, T \union U)
<1>1. /\ o \in [Device -> Seq(Telling)] /\ p \in [Device -> Seq(Telling)]
      /\ out = [x \in Device |-> o[x] \o p[x]]
  BY DEF Both, Says
<1>2. ASSUME NEW x \in Device
      PROVE  /\ o[x] \o p[x] \in Seq(Telling)
             /\ \A i \in DOMAIN out[x] : \/ \E j \in DOMAIN o[x] : out[x][i] = o[x][j]
                                         \/ \E j \in DOMAIN p[x] : out[x][i] = p[x][j]
  <2> DEFINE q == o[x]
             r == p[x]
             s == out[x]
  <2>1. q \in Seq(Telling) /\ r \in Seq(Telling) /\ s = q \o r
    BY <1>1
  <2> HIDE DEF q, r, s
  <2>2. /\ s \in Seq(Telling)
        /\ \A i \in DOMAIN q : i \in DOMAIN s /\ s[i] = q[i]
        /\ \A i \in DOMAIN r : Len(q) + i \in DOMAIN s /\ s[Len(q) + i] = r[i]
        /\ \A i \in DOMAIN s : i \in DOMAIN q \/ \E j \in DOMAIN r : i = Len(q) + j
    BY <2>1, More
  <2>3. \A i \in DOMAIN s : \/ \E j \in DOMAIN q : s[i] = q[j]
                            \/ \E j \in DOMAIN r : s[i] = r[j]
    BY <2>2
  <2> QED BY <2>1, <2>2, <2>3 DEF q, r, s
<1>3. out \in [Device -> Seq(Telling)]
  BY <1>1, <1>2
<1> QED BY <1>2, <1>3 DEF Says

LEMMA SayTo ==
    ASSUME NEW d \in Device, NEW m \in Telling, NEW out, out = To(d, m)
    PROVE  Says(out, {d}, {m})
<1>1. <<m>> \in Seq(Telling) /\ <<>> \in Seq(Telling)
  OBVIOUS
<1>2. DOMAIN <<m>> = {1} /\ <<m>>[1] = m /\ DOMAIN <<>> = {}
  OBVIOUS
<1> QED BY <1>1, <1>2 DEF To, Says

LEMMA SayEnded ==
    ASSUME NEW id \in Id, NEW D, NEW d
    PROVE  /\ Ended(id, D, d) \in [Device -> Seq(Telling)]
           /\ \A x \in Device : \A i \in DOMAIN Ended(id, D, d)[x] :
                  Ended(id, D, d)[x][i].type = "ended"
           /\ \A x \in Device \intersect D : EndFollows(Ended(id, D, d)[x], 0, id)
<1>1. ASSUME NEW x \in Device
      PROVE  /\ Ended(id, D, d)[x] \in Seq(Telling)
             /\ \A i \in DOMAIN Ended(id, D, d)[x] : Ended(id, D, d)[x][i].type = "ended"
             /\ x \in D => EndFollows(Ended(id, D, d)[x], 0, id)
  <2> DEFINE m == Message("ended", id, x = d)
  <2>1. m \in Telling /\ m.type = "ended" /\ m.id = id
    BY DEF Message, Telling, Naming
  <2>2. Ended(id, D, d)[x] = IF x \in D THEN <<m>> ELSE <<>>
    BY DEF Ended
  <2> HIDE DEF m
  <2>3. /\ <<m>> \in Seq(Telling) /\ <<>> \in Seq(Telling)
        /\ DOMAIN <<m>> = {1} /\ <<m>>[1] = m /\ DOMAIN <<>> = {}
    BY <2>1
  <2>4. EndFollows(<<m>>, 0, id)
    BY <2>1, <2>3 DEF EndFollows
  <2> QED BY <2>1, <2>2, <2>3, <2>4
<1>2. Ended(id, D, d) = [x \in Device |-> Ended(id, D, d)[x]]
  BY DEF Ended
<1> QED BY <1>1, <1>2

\* The messages about several sessions, in some order.
Listing(f) == SetToSeq({f[k] : k \in DOMAIN f})

LEMMA SayOf ==
    ASSUME NEW K \in SUBSET Device, NEW f \in [K -> Telling]
    PROVE  /\ Listing(f) \in Seq(Telling)
           /\ \A i \in DOMAIN Listing(f) : \E k \in K : Listing(f)[i] = f[k]
           /\ \A k \in K : \E i \in DOMAIN Listing(f) : Listing(f)[i] = f[k]
<1> DEFINE S == {f[k] : k \in K}
           s == SetToSeq(S)
<1>1. IsFiniteSet(K)
  BY DeviceAssumption, FS_Subset
<1>2. IsFiniteSet(S)
  BY <1>1, FinitelyMany
<1>3. S \subseteq Telling
  OBVIOUS
<1>4. \A y : y \in S <=> \E k \in K : y = f[k]
  OBVIOUS
<1> HIDE DEF S
<1>5. s \in Seq(S) /\ \A y \in S : \E i \in DOMAIN s : s[i] = y
  BY <1>2, InSomeOrder
<1> HIDE DEF s
<1>6. s \in Seq(Telling) /\ \A i \in DOMAIN s : s[i] \in S
  BY <1>3, <1>5
<1>7. /\ s \in Seq(Telling)
      /\ \A i \in DOMAIN s : \E k \in K : s[i] = f[k]
      /\ \A k \in K : \E i \in DOMAIN s : s[i] = f[k]
  BY <1>4, <1>5, <1>6
<1>8. s = Listing(f)
  BY DEF Listing, s, S
<1> QED BY <1>7, <1>8

-----------------------------------------------------------------------------
(* Steps of the server.                                                    *)

\* The active sessions last but for those of K, of which out tells both ends;
\* what out says besides is true, and it asks nobody who is in an active session.
ServerStep(out, K, N) ==
    /\ Lasts(directory, directory', K, N)
    /\ ids' \in [Device -> Id \union {0}]
    /\ \A k \in OpenSessions(directory') : ids'[k] \in Id
    /\ \A k \in OpenSessions(directory) : ids'[k] = ids[k]
    /\ out \in [Device -> Seq(Telling)]
    /\ \A k \in K \intersect OpenSessions(directory) :
           directory.sessions[k].phase = "active" =>
               \A x \in Ends(directory, k) : EndFollows(out[x], 0, ids[k])
    /\ \A x \in Device : \A i \in DOMAIN out[x] :
           out[x][i].type \in {"ready", "resumed"} =>
               AtServer(x, out[x][i].id)' /\ Unasked(out[x], 0)
    /\ \A x \in Device : Unasked(out[x], 0) \/
           \A k \in OpenSessions(directory) :
               directory.sessions[k].phase = "active" => x \notin Ends(directory, k)
    /\ up' \in [Device -> Seq(Saying)]
    /\ attached' \subseteq Device
    /\ UNCHANGED <<engine, controller, calls>>

LEMMA SessionsLast ==
    ASSUME NEW out, NEW K, NEW N, ServerStep(out, K, N), NEW x \in Device, NEW id,
           AtServer(x, id)
    PROVE  (AtServer(x, id)' /\ Unasked(out[x], 0)) \/ EndFollows(out[x], 0, id)
<1>1. PICK k \in OpenSessions(directory) :
          /\ x \in Ends(directory, k) /\ ids[k] = id
          /\ directory.sessions[k].phase = "active"
  BY DEF AtServer, SessionsOf
<1>2. CASE k \in K
  BY <1>1, <1>2 DEF ServerStep
<1>3. CASE k \notin K
  <2>1. /\ k \in OpenSessions(directory')
        /\ directory'.sessions[k].phase = "active"
        /\ directory'.sessions[k].target = directory.sessions[k].target
        /\ ids'[k] = id
    BY <1>1, <1>3 DEF ServerStep, Lasts
  <2>2. Unasked(out[x], 0)
    BY <1>1 DEF ServerStep
  <2> QED BY <1>1, <2>1, <2>2 DEF AtServer, SessionsOf, Ends
<1> QED BY <1>2, <1>3

LEMMA ServerTypes ==
    ASSUME Inv, NEW out, NEW K, NEW N, ServerStep(out, K, N),
           link' \in [Device -> {"up", "cut", "down"}],
           down' \in [Device -> Seq(Telling)]
    PROVE  Typed'
<1>1. directory' \in Directory /\ Indexed(directory')
  BY DEF ServerStep, Lasts, Inv, Typed
<1>2. TypeOK'
  BY <1>1 DEF TypeOK, Inv, Typed, ServerStep
<1> QED BY <1>1, <1>2 DEF Typed, Inv, ServerStep

\* A step in which no connection comes back.
LEMMA Served ==
    ASSUME Inv, NEW out, NEW K, NEW N, ServerStep(out, K, N),
           UNCHANGED link, Tell(out),
           \A x \in attached \ attached' : link[x] # "up"
    PROVE  Inv'
<1>1. /\ down \in [Device -> Seq(Telling)] /\ out \in [Device -> Seq(Telling)]
      /\ link \in [Device -> {"up", "cut", "down"}]
      /\ \A x \in Device : link[x] = "up" => x \in attached /\ x \in attached'
  BY DEF Inv, Typed, TypeOK, ServerStep, Linked
<1>2. \A x \in Device : down'[x] = IF link[x] = "up" THEN down[x] \o out[x] ELSE down[x]
  BY <1>1 DEF Tell
<1>3. \A x \in Device : down[x] \o out[x] \in Seq(Telling)
  BY <1>1, More
<1>4. down' \in [Device -> Seq(Telling)]
  BY <1>1, <1>3 DEF Tell
<1>5. Typed'
  BY <1>1, <1>4, ServerTypes
<1>6. ASSUME NEW x \in Device
      PROVE  Fine(x)'
  <2>1. out[x] \in Seq(Telling) /\ engine'[x] = engine[x] /\ controller'[x] = controller[x]
        /\ link'[x] = link[x]
    BY <1>1 DEF ServerStep
  <2>2. \A id : AtServer(x, id) =>
            (AtServer(x, id)' /\ Unasked(out[x], 0)) \/ EndFollows(out[x], 0, id)
    BY SessionsLast
  <2>3. PICK r : r = out[x]
    OBVIOUS
  <2>4. \A i \in DOMAIN r : r[i].type \in {"ready", "resumed"} =>
            AtServer(x, r[i].id)' /\ Unasked(r, 0)
    <3> SUFFICES ASSUME NEW i \in DOMAIN r, r[i].type \in {"ready", "resumed"},
                        NEW id, id = r[i].id
                 PROVE  AtServer(x, id)' /\ Unasked(r, 0)
      OBVIOUS
    <3> QED BY <2>3 DEF ServerStep
  <2>5. down'[x] = IF link[x] = "up" THEN down[x] \o r ELSE down[x]
    BY <1>2, <2>3
  <2>6. \A id : AtServer(x, id) =>
            (AtServer(x, id)' /\ Unasked(r, 0)) \/ EndFollows(r, 0, id)
    BY <2>2, <2>3
  <2> QED BY <1>1, <2>1, <2>3, <2>4, <2>5, <2>6, Told
<1> QED BY <1>5, <1>6 DEF Inv, Fine

LEMMA Same ==
    ASSUME Inv
    PROVE  /\ directory \in Directory /\ Indexed(directory)
           /\ Lasts(directory, directory, {}, {})
           /\ ids \in [Device -> Id \union {0}]
           /\ \A k \in OpenSessions(directory) : ids[k] \in Id
           /\ attached \subseteq Device
           /\ up \in [Device -> Seq(Saying)]
BY DEF Inv, Typed, TypeOK, Lasts

LEMMA ArrivedType ==
    ASSUME Inv, NEW d \in Device, up[d] # <<>>
    PROVE  /\ Arrived(d) \in Saying /\ Arrived(d).id \in Id
           /\ Take(d) => up' \in [Device -> Seq(Saying)]
<1>1. up \in [Device -> Seq(Saying)]
  BY DEF Inv, Typed
<1>2. Head(up[d]) \in Saying /\ Tail(up[d]) \in Seq(Saying)
  BY <1>1, FirstOut
<1>3. Arrived(d) \in Saying
  BY <1>2 DEF Arrived
<1>4. Arrived(d).id \in Id
  BY <1>3 DEF Saying
<1>5. Take(d) => up' \in [Device -> Seq(Saying)]
  BY <1>1, <1>2 DEF Take
<1> QED BY <1>3, <1>4, <1>5

\* A step after which the sessions have their ids, and that neither says that a
\* session is active nor asks for one.
LEMMA Serves ==
    ASSUME Inv, NEW out \in [Device -> Seq(Telling)], NEW K, NEW N,
           Lasts(directory, directory', K, N),
           N = {} /\ ids' = ids,
           \A k \in K \intersect OpenSessions(directory) :
               directory.sessions[k].phase = "active" =>
                   \A x \in Ends(directory, k) : EndFollows(out[x], 0, ids[k]),
           \A x \in Device : \A i \in DOMAIN out[x] :
               out[x][i].type \notin {"ready", "resumed", "request"},
           up' \in [Device -> Seq(Saying)],
           attached' \subseteq Device,
           UNCHANGED <<engine, controller, calls>>
    PROVE  ServerStep(out, K, N)
<1>1. \A k \in OpenSessions(directory') : ids'[k] \in Id
  BY Same DEF Lasts
<1>2. \A x \in Device : Unasked(out[x], 0)
  BY DEF Unasked
<1> QED BY <1>1, <1>2, Same DEF ServerStep

\* A step in which the server says nothing.
LEMMA Unsaid ==
    ASSUME Inv, Lasts(directory, directory', {}, {}),
           up' \in [Device -> Seq(Saying)],
           UNCHANGED <<engine, controller, link, calls, attached, ids, down>>
    PROVE  Inv'
<1>1. PICK out : out = [x \in Device |-> <<>>]
  OBVIOUS
<1>2. /\ out \in [Device -> Seq(Telling)]
      /\ \A x \in Device : out[x] = <<>> /\ DOMAIN out[x] = {}
  <2>1. <<>> \in Seq(Telling) /\ DOMAIN <<>> = {}
    OBVIOUS
  <2> QED BY <1>1, <2>1
<1>3. down \in [Device -> Seq(Telling)]
  BY DEF Inv, Typed
<1>4. \A x \in Device : down[x] \o out[x] = down[x]
  BY <1>2, <1>3, ConcatEmptySeq
<1>5. Tell(out)
  BY <1>3, <1>4 DEF Tell
<1>6. ServerStep(out, {}, {})
  BY <1>2, Same, Serves
<1> QED BY <1>5, <1>6, Served

LEMMA Requests ==
    ASSUME Inv, NEW d \in Device, HandleSessionRequest(d)
    PROVE  Inv'
<1> DEFINE m == Arrived(d)
<1>1. /\ up[d] # <<>> /\ m.type = "request" /\ Take(d)
      /\ UNCHANGED <<engine, controller, link, calls, attached>>
  BY DEF HandleSessionRequest, Arrives, Arrived, client
<1>2. m \in Saying /\ m.id \in Id /\ up' \in [Device -> Seq(Saying)]
  BY <1>1, ArrivedType
<1>3. m.to \in Device
  BY <1>1, <1>2 DEF Saying
<1>4. CASE m.to \in attached /\ CanInsert(directory, d, m.to)
  <2>1. /\ directory' = InsertSession(directory, d, m.to)
        /\ ids' = [ids EXCEPT ![d] = m.id]
        /\ Tell(Both(To(d, Message("pending", m.id, TRUE)),
                     To(m.to, Message("request", m.id, TRUE))))
    BY <1>4 DEF HandleSessionRequest
  <2>2. PICK a, b : a = Message("pending", m.id, TRUE) /\ b = Message("request", m.id, TRUE)
    OBVIOUS
  <2>3. PICK o, p : o = To(d, a) /\ p = To(m.to, b)
    OBVIOUS
  <2>4. PICK out : out = Both(o, p)
    OBVIOUS
  <2>5. a \in Telling /\ b \in Telling /\ a.type = "pending" /\ b.type = "request"
    BY <1>2, <2>2 DEF Message, Telling, Naming
  <2>6. Says(o, {d}, {a}) /\ Says(p, {m.to}, {b})
    BY <1>3, <2>3, <2>5, SayTo
  <2>7. /\ out \in [Device -> Seq(Telling)]
        /\ \A x \in Device : \A i \in DOMAIN out[x] :
               x \in {d, m.to} /\ out[x][i].type \notin {"ready", "resumed"}
    <3>1. Says(out, {d} \union {m.to}, {a} \union {b})
      BY <2>4, <2>6, SayBoth
    <3> QED BY <2>5, <3>1 DEF Says
  <2>8. Lasts(directory, directory', {}, {d}) /\ d \notin OpenSessions(directory)
    BY <1>3, <1>4, <2>1, Same, SessionInserted DEF CanInsert, OpenSessions
  <2>9. ServerStep(out, {}, {d})
    <3>1. /\ ids' \in [Device -> Id \union {0}] /\ ids'[d] \in Id
          /\ \A k \in Device \ {d} : ids'[k] = ids[k]
      BY <1>2, <2>1, Same
    <3>2. /\ \A k \in OpenSessions(directory') : ids'[k] \in Id
          /\ \A k \in OpenSessions(directory) : ids'[k] = ids[k]
      BY <2>8, <3>1, Same DEF Lasts, OpenSessions
    <3>3. attached' \subseteq Device
      BY <1>1, Same
    <3>4. ASSUME NEW k \in OpenSessions(directory), NEW x \in Ends(directory, k)
          PROVE  x \notin {d, m.to}
      <4>1. directory.deviceSessions[x] = k /\ k # None
        BY <3>4, Same, DeviceAssumption DEF Indexed, OpenSessions
      <4> QED BY <1>4, <4>1 DEF CanInsert, DeviceHasSession
    <3>5. \A x \in Device : Unasked(out[x], 0) \/ x \in {d, m.to}
      BY <2>7 DEF Unasked
    <3> QED BY <1>1, <1>2, <2>7, <2>8, <3>1, <3>2, <3>3, <3>4, <3>5 DEF ServerStep
  <2> QED BY <1>1, <2>1, <2>2, <2>3, <2>4, <2>9, Served
<1>5. CASE ~ (m.to \in attached /\ CanInsert(directory, d, m.to))
  <2>1. /\ UNCHANGED <<directory, ids>>
        /\ Tell(To(d, Message("refused", 0, FALSE)))
    BY <1>5 DEF HandleSessionRequest
  <2>2. PICK a : a = Message("refused", 0, FALSE)
    OBVIOUS
  <2>3. PICK out : out = To(d, a)
    OBVIOUS
  <2>4. /\ out \in [Device -> Seq(Telling)]
        /\ \A x \in Device : \A i \in DOMAIN out[x] : out[x][i].type = "refused"
    <3>1. a \in Telling /\ a.type = "refused"
      BY <2>2 DEF Message, Telling
    <3>2. Says(out, {d}, {a})
      BY <2>3, <3>1, SayTo
    <3> QED BY <3>1, <3>2 DEF Says
  <2>5. ServerStep(out, {}, {})
    BY <1>1, <1>2, <2>1, <2>4, Same, Serves
  <2> QED BY <1>1, <2>1, <2>2, <2>3, <2>5, Served
<1> QED BY <1>4, <1>5

\* An acceptance makes the session active and says so to both ends.
LEMMA Responses ==
    ASSUME Inv, NEW d \in Device, HandleSessionResponse(d)
    PROVE  Inv'
<1> DEFINE m == Arrived(d)
<1>1. /\ up[d] # <<>> /\ m.type = "response" /\ Take(d)
      /\ UNCHANGED <<engine, controller, link, calls, attached, ids>>
  BY DEF HandleSessionResponse, Arrives, Arrived, client
<1>2. m \in Saying /\ m.id \in Id /\ up' \in [Device -> Seq(Saying)]
  BY <1>1, ArrivedType
<1>3. m \in Telling
  BY <1>1, <1>2 DEF Saying, Telling, Naming
<1>4. CASE UNCHANGED <<directory, down>>
  BY <1>1, <1>2, <1>4, Same, Unsaid
<1>5. ASSUME NEW k \in Named(m.id),
             directory.sessions[k].phase # "active", directory.sessions[k].target = d,
             directory' = IF m.ok /\ k \in attached
                          THEN ActivateSession(directory, k)
                          ELSE RemoveSessions(directory, {k}),
             Tell(IF ~ m.ok \/ k \notin attached THEN To(k, m)
                  ELSE Both(To(k, m), Both(To(k, Message("ready", m.id, TRUE)),
                                           To(d, Message("ready", m.id, TRUE)))))
      PROVE  Inv'
  <2>1. k \in OpenSessions(directory) /\ ids[k] = m.id /\ k \in Device
    BY DEF Named, OpenSessions
  <2>2. CASE m.ok /\ k \in attached
    <3>1. PICK a, b : a = m /\ b = Message("ready", m.id, TRUE)
      OBVIOUS
    <3>2. PICK o, p, r : o = To(k, a) /\ p = To(k, b) /\ r = To(d, b)
      OBVIOUS
    <3>3. PICK t : t = Both(p, r)
      OBVIOUS
    <3>4. PICK out : out = Both(o, t)
      OBVIOUS
    <3>5. a \in Telling /\ a.type = "response" /\ b \in Telling /\ b.id = m.id
          /\ b.type = "ready"
      BY <1>1, <1>2, <1>3, <3>1 DEF Message, Telling, Naming
    <3>6. Says(o, {k}, {a}) /\ Says(p, {k}, {b}) /\ Says(r, {d}, {b})
      BY <2>1, <3>2, <3>5, SayTo
    <3>7. Says(t, {k} \union {d}, {b} \union {b})
      BY <3>3, <3>6, SayBoth
    <3>8. Says(out, {k} \union ({k} \union {d}), {a} \union ({b} \union {b}))
      BY <3>4, <3>6, <3>7, SayBoth
    <3>9. /\ out \in [Device -> Seq(Telling)]
          /\ \A x \in Device : \A i \in DOMAIN out[x] :
                 /\ x \in {k, d} /\ out[x][i].type # "request"
                 /\ out[x][i].type = "response" \/ out[x][i].id = m.id
      BY <3>5, <3>8 DEF Says
    <3>10. /\ Lasts(directory, directory', {}, {})
           /\ k \in OpenSessions(directory')
           /\ directory'.sessions[k].phase = "active"
           /\ directory'.sessions[k].target = d
      BY <1>5, <2>1, <2>2, Same, SessionChanges
    <3>11. ASSUME NEW x \in {k, d}, NEW id, id = m.id
           PROVE  AtServer(x, id)'
      BY <1>1, <2>1, <3>10, <3>11 DEF AtServer, SessionsOf, Ends
    <3>12. ASSUME NEW x \in Device, NEW i \in DOMAIN out[x],
                  out[x][i].type \in {"ready", "resumed"}, NEW id, id = out[x][i].id
           PROVE  AtServer(x, id)'
      BY <3>9, <3>11, <3>12
    <3>13. /\ \A j \in OpenSessions(directory') : ids'[j] \in Id
           /\ \A j \in OpenSessions(directory) : ids'[j] = ids[j]
           /\ ids' \in [Device -> Id \union {0}] /\ attached' \subseteq Device
      BY <1>1, <3>10, Same DEF Lasts
    <3>14. \A x \in Device : Unasked(out[x], 0)
      BY <3>9 DEF Unasked
    <3>15. ServerStep(out, {}, {})
      BY <1>1, <1>2, <3>9, <3>10, <3>12, <3>13, <3>14 DEF ServerStep
    <3>16. Tell(out)
      BY <1>5, <2>2, <3>1, <3>2, <3>3, <3>4
    <3> QED BY <1>1, <3>15, <3>16, Served
  <2>3. CASE ~ (m.ok /\ k \in attached)
    <3>1. PICK a, out : a = m /\ out = To(k, a)
      OBVIOUS
    <3>2. /\ out \in [Device -> Seq(Telling)]
          /\ \A x \in Device : \A i \in DOMAIN out[x] : out[x][i].type = "response"
      <4>1. Says(out, {k}, {a}) /\ a.type = "response"
        BY <1>1, <1>3, <2>1, <3>1, SayTo
      <4> QED BY <4>1 DEF Says
    <3>3. Lasts(directory, directory', {k}, {})
      BY <1>5, <2>3, Same, SessionsRemoved
    <3>4. ServerStep(out, {k}, {})
      BY <1>1, <1>2, <1>5, <3>2, <3>3, Same, Serves
    <3> QED BY <1>1, <1>5, <2>3, <3>1, <3>4, Served
  <2> QED BY <2>2, <2>3
<1> QED BY <1>4, <1>5 DEF HandleSessionResponse

\* The end of a session is told to both ends; a client that ends one which is
\* gone is told so.
LEMMA Ending ==
    ASSUME Inv, NEW d \in Device, CloseSession(d)
    PROVE  Inv'
<1> DEFINE m == Arrived(d)
<1>1. /\ up[d] # <<>> /\ Take(d)
      /\ UNCHANGED <<engine, controller, link, calls, attached, ids>>
  BY DEF CloseSession, Arrives, client
<1>2. m.id \in Id /\ up' \in [Device -> Seq(Saying)]
  BY <1>1, ArrivedType
<1>3. ASSUME NEW D, NEW K, Tell(Ended(m.id, D, d)),
             Lasts(directory, directory', K, {}),
             \A k \in K \intersect OpenSessions(directory) :
                 ids[k] = m.id /\ Ends(directory, k) \subseteq Device \intersect D
      PROVE  Inv'
  <2>1. PICK id, out : id = m.id /\ out = Ended(id, D, d)
    OBVIOUS
  <2>2. /\ out \in [Device -> Seq(Telling)]
        /\ \A x \in Device : \A i \in DOMAIN out[x] : out[x][i].type = "ended"
        /\ \A x \in Device \intersect D : EndFollows(out[x], 0, id)
    BY <1>2, <2>1, SayEnded
  <2>3. ServerStep(out, K, {})
    BY <1>1, <1>2, <1>3, <2>1, <2>2, Same, Serves
  <2> QED BY <1>1, <1>3, <2>1, <2>3, Served
<1>4. CASE UNCHANGED directory /\ Tell(Ended(m.id, {d}, d))
  BY <1>3, <1>4, Same
<1>5. ASSUME NEW k \in Named(m.id), Tell(Ended(m.id, Ends(directory, k), d)),
             directory' = RemoveSessions(directory, {k})
      PROVE  Inv'
  <2>1. ids[k] = m.id /\ Ends(directory, k) \subseteq Device
    BY Same DEF Named, OpenSessions, Ends, Directory, Session
  <2>2. Lasts(directory, directory', {k}, {})
    BY <1>5, Same, SessionsRemoved
  <2> QED BY <1>3, <1>5, <2>1, <2>2
<1> QED BY <1>4, <1>5 DEF CloseSession

\* A resume is refused, or it is true that the session is active.
LEMMA Resumes ==
    ASSUME Inv, NEW d \in Device, HandleSessionResume(d)
    PROVE  Inv'
<1> DEFINE m == Arrived(d)
<1>1. /\ up[d] # <<>> /\ Take(d)
      /\ UNCHANGED <<engine, controller, link, calls, attached, ids>>
  BY DEF HandleSessionResume, Arrives, client
<1>2. m.id \in Id /\ up' \in [Device -> Seq(Saying)]
  BY <1>1, ArrivedType
<1>3. CASE /\ UNCHANGED directory
           /\ Tell(To(d, Message("resume_rejected", m.id, FALSE)))
  <2>1. PICK a : a = Message("resume_rejected", m.id, FALSE)
    OBVIOUS
  <2>2. PICK out : out = To(d, a)
    OBVIOUS
  <2>3. a \in Telling /\ a.type = "resume_rejected"
    BY <1>2, <2>1 DEF Message, Telling, Naming
  <2>4. /\ out \in [Device -> Seq(Telling)]
        /\ \A x \in Device : \A i \in DOMAIN out[x] : out[x][i].type = "resume_rejected"
    <3>1. Says(out, {d}, {a})
      BY <2>2, <2>3, SayTo
    <3> QED BY <2>3, <3>1 DEF Says
  <2>5. ServerStep(out, {}, {})
    BY <1>1, <1>2, <1>3, <2>4, Same, Serves
  <2> QED BY <1>1, <1>3, <2>1, <2>2, <2>5, Served
<1>4. ASSUME NEW k \in Named(m.id),
             directory.sessions[k].phase = "active", d \in Ends(directory, k),
             directory' = SetSide(directory, k, d, "online"),
             Tell(To(d, Message("resumed", m.id, TRUE)))
      PROVE  Inv'
  <2>1. PICK a : a = Message("resumed", m.id, TRUE)
    OBVIOUS
  <2>2. PICK out : out = To(d, a)
    OBVIOUS
  <2>3. a \in Telling /\ a.id = m.id /\ a.type = "resumed"
    BY <1>2, <2>1 DEF Message, Telling, Naming
  <2>4. /\ out \in [Device -> Seq(Telling)]
        /\ \A x \in Device : \A i \in DOMAIN out[x] :
               x = d /\ out[x][i].id = m.id /\ out[x][i].type = "resumed"
    <3>1. Says(out, {d}, {a})
      BY <2>2, <2>3, SayTo
    <3> QED BY <2>3, <3>1 DEF Says
  <2>5. k \in OpenSessions(directory) /\ ids[k] = m.id
    BY DEF Named
  <2>6. Lasts(directory, directory', {}, {})
    BY <1>4, <2>5, Same, SessionChanges DEF SideLink
  <2>7. ASSUME NEW id, id = m.id
        PROVE  AtServer(d, id)'
    BY <1>1, <1>4, <2>5, <2>6, <2>7 DEF Lasts, AtServer, SessionsOf, Ends
  <2>8. ASSUME NEW x \in Device, NEW i \in DOMAIN out[x], NEW id, id = out[x][i].id
        PROVE  AtServer(x, id)'
    BY <2>4, <2>7, <2>8
  <2>9. /\ \A j \in OpenSessions(directory') : ids'[j] \in Id
        /\ \A j \in OpenSessions(directory) : ids'[j] = ids[j]
        /\ ids' \in [Device -> Id \union {0}] /\ attached' \subseteq Device
    BY <1>1, <2>6, Same DEF Lasts
  <2>10. \A x \in Device : Unasked(out[x], 0)
    BY <2>4 DEF Unasked
  <2>11. ServerStep(out, {}, {})
    BY <1>1, <1>2, <2>4, <2>6, <2>8, <2>9, <2>10 DEF ServerStep
  <2> QED BY <1>1, <1>4, <2>1, <2>2, <2>11, Served
<1> QED BY <1>3, <1>4 DEF HandleSessionResume

\* What the loss of a connection makes the server say is that sessions ended.
LEMMA Losses ==
    ASSUME Inv, NEW d \in Device
    PROVE  /\ EndedByLoss(d) \in [Device -> Seq(Telling)]
           /\ \A x \in Device : \A i \in DOMAIN EndedByLoss(d)[x] :
                  EndedByLoss(d)[x][i].type = "ended"
<1>1. ASSUME NEW x \in Device
      PROVE  /\ EndedByLoss(d)[x] \in Seq(Telling)
             /\ \A i \in DOMAIN EndedByLoss(d)[x] : EndedByLoss(d)[x][i].type = "ended"
  <2> DEFINE K == {j \in SessionsOf(directory, d) :
                      /\ directory.sessions[j].phase # "active"
                      /\ x # d /\ x \in Ends(directory, j)}
             f == [k \in K |-> Message("ended", ids[k], FALSE)]
             s == EndedByLoss(d)[x]
  <2>1. K \subseteq OpenSessions(directory) /\ K \in SUBSET Device
    BY DEF SessionsOf, OpenSessions
  <2>2. s = SetToSeq({Message("ended", ids[k], FALSE) : k \in K})
    BY DEF EndedByLoss
  <2> HIDE DEF K, s
  <2>3. \A k \in K : /\ Message("ended", ids[k], FALSE) \in Telling
                     /\ Message("ended", ids[k], FALSE).type = "ended"
    BY <2>1, Same DEF Message, Telling, Naming
  <2>4. {Message("ended", ids[k], FALSE) : k \in K} = {f[k] : k \in DOMAIN f}
    OBVIOUS
  <2>5. f \in [K -> Telling] /\ \A k \in K : f[k].type = "ended"
    BY <2>3
  <2>6. s = Listing(f)
    BY <2>2, <2>4 DEF Listing
  <2> HIDE DEF f
  <2>7. s \in Seq(Telling) /\ \A i \in DOMAIN s : \E k \in K : s[i] = f[k]
    BY <2>1, <2>5, <2>6, SayOf
  <2> QED BY <2>5, <2>7 DEF s
<1>2. EndedByLoss(d) = [x \in Device |-> EndedByLoss(d)[x]]
  BY DEF EndedByLoss
<1> QED BY <1>1, <1>2

\* The server notices that a connection was lost, and no active session ends.
LEMMA Leaves ==
    ASSUME Inv, NEW d \in Device, OnClientDisconnected(d)
    PROVE  Inv'
<1>1. PICK out : out = EndedByLoss(d)
  OBVIOUS
<1>2. /\ link[d] # "up" /\ attached' = attached \ {d} /\ Tell(out)
      /\ directory' = Suspend(directory, d)
      /\ UNCHANGED <<engine, controller, link, calls, up, ids>>
  BY <1>1 DEF OnClientDisconnected, client
<1>3. Lasts(directory, directory', {}, {}) /\ attached' \subseteq Device
  BY <1>2, Same, SessionsSuspended
<1>4. /\ out \in [Device -> Seq(Telling)]
      /\ \A x \in Device : \A i \in DOMAIN out[x] : out[x][i].type = "ended"
  BY <1>1, Losses
<1>5. ServerStep(out, {}, {})
  BY <1>2, <1>3, <1>4, Same, Serves
<1> QED BY <1>2, <1>5, Served

LEMMA Expires ==
    ASSUME Inv, NEW k \in Device, PendingExpires(k) \/ RecoveryWindowEnds(k)
    PROVE  Inv'
<1>1. UNCHANGED <<engine, controller, link, calls, attached, ids, up, down>>
  BY DEF PendingExpires, RecoveryWindowEnds, client
<1>2. Lasts(directory, directory', {}, {})
  <2>1. CASE PendingExpires(k)
    BY <2>1, Same, SessionChanges DEF PendingExpires
  <2>2. CASE RecoveryWindowEnds(k)
    BY <2>2, Same, SessionChanges DEF RecoveryWindowEnds, SessionsOf, SideLink
  <2> QED BY <2>1, <2>2
<1> QED BY <1>1, <1>2, Same, Unsaid

\* The sweep tells both ends of each active session that it ends.
LEMMA Sweeps ==
    ASSUME Inv, Sweep
    PROVE  Inv'
<1> DEFINE over == OpenSessions(directory) \ OpenSessions(SweepDirectory(directory))
           Mine(x) == {j \in over : x \in TellBothEnds(j)}
<1>1. PICK out : out = [x \in Device |-> SetToSeq({Swept(k, x) : k \in Mine(x)})]
  OBVIOUS
<1>2. /\ directory' = SweepDirectory(directory) /\ Tell(out)
      /\ UNCHANGED <<engine, controller, link, calls, attached, ids, up>>
  BY <1>1 DEF Sweep, client
<1>3. Lasts(directory, directory', over, {})
  BY <1>2, Same, SessionsSwept
<1>4. over \subseteq OpenSessions(directory)
  OBVIOUS
<1> HIDE DEF over
<1>5. ASSUME NEW x \in Device
      PROVE  /\ out[x] \in Seq(Telling)
             /\ \A i \in DOMAIN out[x] :
                    out[x][i].type \notin {"ready", "resumed", "request"}
             /\ \A k \in over : directory.sessions[k].phase = "active"
                                /\ x \in Ends(directory, k) => EndFollows(out[x], 0, ids[k])
  <2> DEFINE K == Mine(x)
             f == [k \in K |-> Swept(k, x)]
             s == out[x]
  <2>1. K \in SUBSET Device /\ K \subseteq OpenSessions(directory)
    BY <1>4 DEF OpenSessions
  <2>2. s = SetToSeq({Swept(k, x) : k \in K})
    BY <1>1
  <2>3. \A k \in over : x \in Ends(directory, k) => k \in K
    BY DEF TellBothEnds
  <2> HIDE DEF K, s
  <2>4. ASSUME NEW k \in K
        PROVE  /\ Swept(k, x) \in Telling
               /\ Swept(k, x).type \notin {"ready", "resumed", "request"}
               /\ directory.sessions[k].phase = "active" =>
                      Swept(k, x).type = "ended" /\ Swept(k, x).id = ids[k]
    <3>1. ids[k] \in Id
      BY <2>1, Same
    <3>2. PICK a \in BOOLEAN :
              a = (x = IF k \in Lapsed(k) THEN k ELSE directory.sessions[k].target)
      OBVIOUS
    <3>3. Swept(k, x) = IF directory.sessions[k].phase = "active"
                        THEN Message("ended", ids[k], a)
                        ELSE Message(IF x = k THEN "response" ELSE "ended", ids[k], FALSE)
      BY <3>2 DEF Swept
    <3> QED BY <3>1, <3>3 DEF Message, Telling, Naming
  <2>5. {Swept(k, x) : k \in K} = {f[k] : k \in DOMAIN f}
    OBVIOUS
  <2>6. f \in [K -> Telling] /\ \A k \in K : f[k] = Swept(k, x)
    BY <2>4
  <2>7. s = Listing(f)
    BY <2>2, <2>5 DEF Listing
  <2> HIDE DEF f
  <2>8. /\ s \in Seq(Telling)
        /\ \A i \in DOMAIN s : \E k \in K : s[i] = f[k]
        /\ \A k \in K : \E i \in DOMAIN s : s[i] = f[k]
    BY <2>1, <2>6, <2>7, SayOf
  <2>9. ASSUME NEW k \in over, directory.sessions[k].phase = "active",
               x \in Ends(directory, k)
        PROVE  EndFollows(s, 0, ids[k])
    <3>1. PICK i \in DOMAIN s : s[i] = Swept(k, x)
      BY <2>3, <2>6, <2>8, <2>9
    <3>2. 0 < i
      BY <2>8
    <3>3. \A h \in DOMAIN s : s[h].type # "request"
      BY <2>4, <2>6, <2>8
    <3> QED BY <2>3, <2>4, <2>9, <3>1, <3>2, <3>3 DEF EndFollows
  <2> QED BY <2>4, <2>6, <2>8, <2>9 DEF s
<1>6. out = [x \in Device |-> out[x]]
  BY <1>1
<1>7. out \in [Device -> Seq(Telling)]
  BY <1>5, <1>6
<1>8. ASSUME NEW k \in over, directory.sessions[k].phase = "active",
             NEW x \in Ends(directory, k)
      PROVE  EndFollows(out[x], 0, ids[k])
  <2>1. x \in Device
    BY <1>4, Same DEF OpenSessions, Ends, Directory, Session
  <2> QED BY <1>5, <1>8, <2>1
<1>9. ServerStep(out, over, {})
  BY <1>2, <1>3, <1>5, <1>7, <1>8, Same, Serves
<1> QED BY <1>2, <1>9, Served

-----------------------------------------------------------------------------
(* Connections.                                                            *)

\* The client is back: it has to resume what it takes for active.
LEMMA Registers ==
    ASSUME Inv, NEW d \in Device, HandleRegister(d)
    PROVE  Inv'
<1>1. PICK out : out = IF d \in attached THEN EndedByLoss(d) ELSE [x \in Device |-> <<>>]
  OBVIOUS
<1>2. /\ link[d] = "down" /\ link' = [link EXCEPT ![d] = "up"]
      /\ attached' = attached \union {d}
      /\ directory' = IF d \in attached THEN Suspend(directory, d) ELSE directory
      /\ UNCHANGED <<engine, controller, up, ids, calls>>
      /\ down' = [x \in Device |->
                     IF x = d THEN <<Message("registered", 0, TRUE)>>
                     ELSE IF d \in attached /\ x \in attached /\ link[x] = "up"
                     THEN down[x] \o EndedByLoss(d)[x] ELSE down[x]]
  BY DEF HandleRegister
<1>3. /\ link \in [Device -> {"up", "cut", "down"}]
      /\ down \in [Device -> Seq(Telling)]
      /\ \A x \in Device : Linked(x) /\ Kept(x)
  BY DEF Inv, Typed, TypeOK
<1>4. /\ out \in [Device -> Seq(Telling)]
      /\ \A x \in Device : \A i \in DOMAIN out[x] : out[x][i].type = "ended"
  <2>1. CASE d \in attached
    BY <1>1, <2>1, Losses
  <2>2. CASE d \notin attached
    <3>1. <<>> \in Seq(Telling) /\ DOMAIN <<>> = {}
      OBVIOUS
    <3> QED BY <1>1, <2>2, <3>1
  <2> QED BY <2>1, <2>2
<1>5. Lasts(directory, directory', {}, {}) /\ attached' \subseteq Device
  BY <1>2, Same, SessionsSuspended
<1>6. ServerStep(out, {}, {})
  BY <1>2, <1>4, <1>5, Same, Serves
<1>7. ASSUME NEW x \in Device \ {d}
      PROVE  down'[x] = IF link[x] = "up" THEN down[x] \o out[x] ELSE down[x]
  <2>1. CASE d \in attached
    BY <1>1, <1>2, <1>3, <2>1 DEF Linked
  <2>2. CASE d \notin attached
    <3>1. down[x] \o <<>> = down[x]
      BY <1>3, ConcatEmptySeq
    <3> QED BY <1>1, <1>2, <2>2, <3>1
  <2> QED BY <2>1, <2>2
<1>8. PICK m : m = Message("registered", 0, TRUE)
  OBVIOUS
<1>9. /\ down'[d] = <<m>> /\ m \in Telling /\ m.type = "registered"
      /\ <<m>> \in Seq(Telling) /\ \A i \in DOMAIN <<m>> : <<m>>[i] = m
  <2>1. down'[d] = <<m>> /\ m \in Telling /\ m.type = "registered"
    BY <1>2, <1>8 DEF Message, Telling
  <2>2. DOMAIN <<m>> = {1} /\ <<m>>[1] = m
    OBVIOUS
  <2> QED BY <2>1, <2>2
<1>10. Typed'
  <2>1. \A x \in Device : down[x] \o out[x] \in Seq(Telling)
    BY <1>3, <1>4, More
  <2>2. \A x \in Device : down'[x] \in Seq(Telling)
    BY <1>3, <1>7, <1>9, <2>1
  <2>3. down' = [x \in Device |-> down'[x]]
    BY <1>2
  <2>4. down' \in [Device -> Seq(Telling)]
    BY <2>2, <2>3
  <2>5. link' \in [Device -> {"up", "cut", "down"}]
    BY <1>2, <1>3
  <2> QED BY <1>6, <2>4, <2>5, ServerTypes
<1>11. Fine(d)'
  <2>1. link'[d] = "up" /\ d \in attached' /\ engine[d].serverActive => engine[d].recoveryPending
    BY <1>2, <1>3 DEF Kept
  <2>2. Linked(d)' /\ Kept(d)' /\ Right(d)'
    BY <1>2, <1>3, <2>1 DEF Linked, Kept, Right
  <2>3. Vouched(d)'
    BY <1>9 DEF Vouched
  <2> QED BY <2>2, <2>3 DEF Fine
<1>12. ASSUME NEW x \in Device \ {d}
       PROVE  Fine(x)'
  <2>1. PICK r : r = out[x]
    OBVIOUS
  <2>2. /\ r \in Seq(Telling) /\ \A i \in DOMAIN r : r[i].type = "ended"
        /\ down'[x] = IF link[x] = "up" THEN down[x] \o r ELSE down[x]
    BY <1>4, <1>7, <2>1
  <2>3. /\ link'[x] = link[x] /\ engine'[x] = engine[x] /\ controller'[x] = controller[x]
        /\ link[x] = "up" => x \in attached'
    BY <1>2, <1>3 DEF Linked
  <2>4. \A id : AtServer(x, id) =>
            (AtServer(x, id)' /\ Unasked(r, 0)) \/ EndFollows(r, 0, id)
    BY <1>6, <2>1, SessionsLast
  <2> QED BY <2>2, <2>3, <2>4, Told
<1> QED BY <1>10, <1>11, <1>12 DEF Inv, Fine

\* A connection breaks, and takes what was under way along.
LEMMA Cuts ==
    ASSUME Inv, NEW d \in Device, Cut(d)
    PROVE  Inv'
<1>1. /\ link' = [link EXCEPT ![d] = "cut"]
      /\ up' = [up EXCEPT ![d] = <<>>] /\ down' = [down EXCEPT ![d] = <<>>]
      /\ UNCHANGED <<engine, controller, attached, directory, ids, calls>>
  BY DEF Cut, server
<1>2. /\ link \in [Device -> {"up", "cut", "down"}]
      /\ up \in [Device -> Seq(Saying)] /\ down \in [Device -> Seq(Telling)]
      /\ \A x \in Device : Kept(x)
  BY DEF Inv, Typed, TypeOK
<1>3. /\ link' \in [Device -> {"up", "cut", "down"}]
      /\ up' \in [Device -> Seq(Saying)] /\ down' \in [Device -> Seq(Telling)]
  BY <1>1, <1>2
<1>4. Typed'
  BY <1>1, <1>3 DEF Inv, Typed, TypeOK
<1>5. Fine(d)'
  <2>1. link'[d] = "cut" /\ down'[d] = <<>>
    BY <1>1, <1>2
  <2> QED BY <1>1, <1>2, <2>1 DEF Fine, Linked, Kept, Vouched, Right
<1>6. ASSUME NEW x \in Device \ {d}
      PROVE  Fine(x)'
  <2>1. link'[x] = link[x] /\ down'[x] = down[x]
    BY <1>1, <1>2
  <2>2. Kept(x)'
    BY <1>1, <1>2, <2>1 DEF Kept
  <2> QED BY <1>1, <2>1, <2>2, Done
<1> QED BY <1>4, <1>5, <1>6 DEF Inv, Fine

\* The client notices, and an active session is to be resumed.
LEMMA Notices ==
    ASSUME Inv, NEW d \in Device, OnDisconnected(d)
    PROVE  Inv'
<1>1. /\ engine[d] \in Engine /\ Agree(engine[d], controller[d])
  BY Known
<1> DEFINE p == engine[d].recoveryPending \/ (engine[d].serverActive /\ controller[d] # None)
           e == [engine[d] EXCEPT !.online = FALSE, !.recoveryPending = p]
<1>2. /\ link[d] = "cut" /\ link' = [link EXCEPT ![d] = "down"]
      /\ engine' = [engine EXCEPT ![d] = e]
      /\ UNCHANGED <<controller, up, down, attached, directory, ids, calls>>
  BY DEF OnDisconnected, Become, server
<1>3. p \in BOOLEAN /\ (engine[d].serverActive => p)
  BY <1>1 DEF Engine, Agree
<1> HIDE DEF p
<1>4. /\ e \in Engine /\ e.recoveryPending = p /\ e.serverActive = engine[d].serverActive
      /\ e.state = engine[d].state /\ e.session = engine[d].session
  BY <1>1, <1>3 DEF Engine
<1> HIDE DEF e
<1>5. /\ link \in [Device -> {"up", "cut", "down"}] /\ engine \in [Device -> Engine]
      /\ down[d] = <<>> /\ \A x \in Device : Kept(x)
  BY <1>2 DEF Inv, Typed, TypeOK, Linked
<1>6. /\ link' \in [Device -> {"up", "cut", "down"}] /\ engine' \in [Device -> Engine]
      /\ link'[d] = "down" /\ engine'[d] = e
      /\ \A x \in Device \ {d} : link'[x] = link[x] /\ engine'[x] = engine[x]
  BY <1>2, <1>4, <1>5
<1>7. Typed'
  BY <1>2, <1>6 DEF Inv, Typed, TypeOK
<1>8. Fine(d)'
  <2>1. Agree(e, controller[d])
    BY <1>1, <1>3, <1>4 DEF Agree
  <2>2. Kept(d)'
    BY <1>2, <1>3, <1>4, <1>6, <2>1 DEF Kept
  <2> QED BY <1>2, <1>5, <1>6, <2>2 DEF Fine, Linked, Vouched, Right
<1>9. ASSUME NEW x \in Device \ {d}
      PROVE  Fine(x)'
  <2>1. Kept(x)'
    BY <1>2, <1>5, <1>6 DEF Kept
  <2> QED BY <1>2, <1>6, <2>1, Done
<1> QED BY <1>7, <1>8, <1>9 DEF Inv, Fine

-----------------------------------------------------------------------------
(* The theorems.                                                           *)

LEMMA Begins == Init => Inv
<1> SUFFICES ASSUME Init PROVE Inv
  OBVIOUS
<1> DEFINE e == Reset([online |-> TRUE])
<1>1. /\ e \in Engine /\ e.state = "ready" /\ e.session = 0 /\ ~ e.serverActive
  BY DEF Reset, Engine
<1>2. /\ EmptyDirectory \in Directory /\ OpenSessions(EmptyDirectory) = {}
      /\ Indexed(EmptyDirectory)
  BY DEF EmptyDirectory, Directory, OpenSessions, DeviceOrNone, Indexed
<1>3. engine = [d \in Device |-> e]
  BY DEF Init
<1> HIDE DEF e
<1>4. Typed
  <2>1. TypeOK
    BY <1>1, <1>2, <1>3 DEF Init, TypeOK
  <2>2. up \in [Device -> Seq(Saying)] /\ down \in [Device -> Seq(Telling)]
    BY DEF Init
  <2> QED BY <1>2, <2>1, <2>2 DEF Init, Typed
<1>5. ASSUME NEW d \in Device
      PROVE  Fine(d)
  <2>1. engine[d] = e /\ controller[d] = None /\ link[d] = "up" /\ down[d] = <<>>
        /\ d \in attached
    BY <1>3 DEF Init
  <2>2. Agree(e, None)
    BY <1>1 DEF Agree
  <2>3. DOMAIN <<>> = {}
    OBVIOUS
  <2> QED BY <1>1, <2>1, <2>2, <2>3 DEF Fine, Linked, Kept, Vouched, Right
<1> QED BY <1>4, <1>5 DEF Inv, Fine

LEMMA Stays == Inv /\ [Next]_vars => Inv'
<1> SUFFICES ASSUME Inv, [Next]_vars
             PROVE  Inv'
  OBVIOUS
<1>1. ASSUME NEW d \in Device, User(d)
      PROVE  Inv'
  BY <1>1, Connects, Accepts, Rejects, HangsUp DEF User
<1>2. ASSUME NEW d \in Device, Callback(d)
      PROVE  Inv'
  BY <1>2, HearsRegistered, HearsRequest, HearsAnswer, HearsReady, HearsResumed,
     HearsTheEnd DEF Callback
<1>3. ASSUME NEW d \in Device, Handler(d)
      PROVE  Inv'
  BY <1>3, Requests, Responses, Ending, Resumes DEF Handler
<1>4. ASSUME NEW d \in Device, Executor(d)
      PROVE  Inv'
  BY <1>4, Closes, HasClosed DEF Executor
<1>5. ASSUME NEW d \in Device, Connected(d) \/ Disconnected(d) \/ Fail(d)
      PROVE  Inv'
  BY <1>5, ControllerSteps
<1>6. ASSUME NEW d \in Device, \/ Cut(d) \/ OnDisconnected(d)
                               \/ OnClientDisconnected(d) \/ HandleRegister(d)
      PROVE  Inv'
  BY <1>6, Cuts, Notices, Leaves, Registers
<1>7. ASSUME NEW d \in Device, PendingExpires(d) \/ RecoveryWindowEnds(d)
      PROVE  Inv'
  BY <1>7, Expires
<1>8. CASE Sweep
  BY <1>8, Sweeps
<1>9. CASE UNCHANGED vars
  BY <1>9 DEF vars, Inv, Typed, TypeOK, Linked, Kept, Vouched, Right, Sure, AtServer
<1> QED BY <1>1, <1>2, <1>3, <1>4, <1>5, <1>6, <1>7, <1>8, <1>9 DEF Next

LEMMA Suffices == Inv => EndsAreHeard
<1> SUFFICES ASSUME Inv, NEW d \in Device, NEW id, id = engine[d].session,
                    engine[d].serverActive, ~ engine[d].recoveryPending, link[d] = "up"
             PROVE  AtServer(d, id) \/ UnderWay(d, "ended", id)
  BY DEF EndsAreHeard
<1>1. AtServer(d, id) \/ EndFollows(down[d], 0, id)
  BY DEF Inv, Right, Sure
<1> QED BY <1>1 DEF EndFollows, UnderWay

\* TypeOK: what the engines, the controllers and the server know of the calls
\* has its type.
THEOREM TypeCorrect == Spec => []TypeOK
<1>1. Inv => TypeOK
  BY DEF Inv, Typed
<1> QED BY <1>1, Begins, Stays, PTL DEF Spec

\* EndsAreHeard: an engine that takes its session for active at the server, on a
\* connection that is whole and with nothing to resume, is right, or the message
\* that the session ended is on its way, also if what follows a call overtakes
\* its closing (OnSessionEnded, SendSessionEnded).
THEOREM EndsHeard == Spec => []EndsAreHeard
BY Begins, Stays, Suffices, PTL DEF Spec
=============================================================================
