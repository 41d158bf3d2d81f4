------------------------ MODULE ConnectionGate_proofs -----------------------
(***************************************************************************)
(* What holds of the gate for every set of sockets, addresses, users,      *)
(* devices and message ids, finite or not, and every limit: the types and  *)
(* the windows of message ids, the exactness of the counters, the truth of *)
(* the indexes, and that answers are expected by those who wait for them.  *)
(*                                                                         *)
(* The counters are never lowered past zero because they are exact, and    *)
(* they are exact because the set of clients stays finite: it grows by one *)
(* connection at a time.                                                   *)
(***************************************************************************)
EXTENDS ConnectionGate, FiniteSetTheorems, TLAPS

-----------------------------------------------------------------------------
(***************************************************************************)
(* The inductive invariant, about a table c of clients where a lemma has   *)
(* to speak of a table that is no state of the server.                     *)
(***************************************************************************)

Live(c) == {s \in Socket : c[s] # None}

Waiting(c) == {s \in Live(c) : ~ c[s].authenticated}

AtAddress(c, a) == {s \in Live(c) : c[s].address = a}

Remembered(c, some) == {p \in some \X MessageId : p[2] \in c[p[1]].receivedIds}

\* The queue of the window holds each id once, and the set the same ids.
Window(client) ==
    /\ \A i, j \in 1 .. Len(client.receivedOrder) :
          client.receivedOrder[i] = client.receivedOrder[j] => i = j
    /\ client.receivedIds = ToSet(client.receivedOrder)
    /\ Len(client.receivedOrder) <= MaximumRememberedMessageIds

\* A request is under way only before authentication; a user is known exactly
\* after it; and a registration is of a device of that user.
Proper(client) ==
    /\ client \in Client
    /\ Window(client)
    /\ client.authenticationPending => ~ client.authenticated
    /\ client.authenticated <=> client.user # None
    /\ client.registered => client.device # None /\ client.user = OwnerOf[client.device]

Table(c) ==
    /\ c \in [Socket -> Client \union {None}]
    /\ \A s \in Live(c) : Proper(c[s])

Counted(c, waiting, at, ids) ==
    /\ IsFiniteSet(Live(c))
    /\ IsFiniteSet(Remembered(c, Live(c)))
    /\ waiting = Cardinality(Waiting(c))
    /\ at \in [Address -> Nat]
    /\ \A a \in Address : at[a] = Cardinality(AtAddress(c, a))
    /\ ids = Cardinality(Remembered(c, Live(c)))

Types ==
    /\ running \in BOOLEAN
    /\ devices \in [Device -> Socket \union {None}]
    /\ accounts \in [User -> SUBSET Socket]
    /\ replies \subseteq Socket

Limits ==
    /\ unauthenticated <= MaximumUnauthenticatedConnections
    /\ \A a \in Address : byAddress[a] <= MaximumConnectionsPerIp

\* IndexesAgree, of a table, the entries of devices and those of accounts.
Indexed(c, held, joined) ==
    /\ \A d \in Device : held[d] # None =>
          /\ held[d] \in Live(c)
          /\ c[held[d]].registered
          /\ c[held[d]].device = d
          /\ c[held[d]].user = OwnerOf[d]
    /\ \A s \in Live(c) : c[s].registered =>
          held[c[s].device] = s \/ c[s].closing
    /\ \A u \in User : joined[u] = {s \in Live(c) : c[s].user = u}

Sound(c, waiting, at, ids, held, joined) ==
    Table(c) /\ Counted(c, waiting, at, ids) /\ Indexed(c, held, joined)

Inv ==
    /\ Types
    /\ Limits
    /\ Sound(clients, unauthenticated, byAddress, rememberedIds, devices, accounts)
    /\ AnswersExpected

-----------------------------------------------------------------------------
(***************************************************************************)
(* Counting.                                                               *)
(***************************************************************************)

\* Taking some of the elements of a finite set away lowers its size by their
\* number, and Lower computes it.
LEMMA LowerIsExact ==
    ASSUME NEW A, IsFiniteSet(A), NEW B \in SUBSET A
    PROVE  /\ IsFiniteSet(A \ B)
           /\ Lower(Cardinality(A), Cardinality(B)) = Cardinality(A \ B)
           /\ Cardinality(A \ B) \in Nat
           /\ Cardinality(A \ B) <= Cardinality(A)
<1>1. A \cap B = B
    OBVIOUS
<1>2. /\ IsFiniteSet(A \ B)
      /\ Cardinality(A \ B) = Cardinality(A) - Cardinality(B)
    BY <1>1, FS_Difference
<1>3. IsFiniteSet(B) /\ Cardinality(B) <= Cardinality(A)
    BY FS_Subset
<1>4. Cardinality(A) \in Nat /\ Cardinality(B) \in Nat
    BY <1>3, FS_CardinalityType
<1> QED
    BY <1>2, <1>3, <1>4 DEF Lower

\* A set of pairs with one first element has as many members as there are
\* second elements.
LEMMA Row ==
    ASSUME NEW s, NEW A, IsFiniteSet(A)
    PROVE  /\ IsFiniteSet({s} \X A)
           /\ Cardinality({s} \X A) = Cardinality(A)
<1>1. IsFiniteSet({s}) /\ Cardinality({s}) = 1
    BY FS_Singleton
<1>2. Cardinality(A) \in Nat
    BY FS_CardinalityType
<1> QED
    BY <1>1, <1>2, FS_Product

\* The set of a window has as many ids as its queue.
LEMMA WindowSize ==
    ASSUME NEW client \in Client, Window(client)
    PROVE  /\ IsFiniteSet(client.receivedIds)
           /\ Cardinality(client.receivedIds) = Len(client.receivedOrder)
<1> DEFINE order == client.receivedOrder
<1>1. order \in Seq(MessageId)
    BY DEF Client
<1>2. Len(order) \in Nat /\ DOMAIN order = 1 .. Len(order)
    BY <1>1
<1>3. IsFiniteSet(1 .. Len(order)) /\ Cardinality(1 .. Len(order)) = Len(order)
    BY <1>2, FS_Interval
<1>4. order \in Bijection(1 .. Len(order), ToSet(order))
    <2>1. order \in [1 .. Len(order) -> ToSet(order)]
        BY <1>1, <1>2 DEF ToSet
    <2>2. \A i, j \in 1 .. Len(order) : order[i] = order[j] => i = j
        BY DEF Window
    <2>3. \A x \in ToSet(order) : \E i \in 1 .. Len(order) : order[i] = x
        BY <1>2 DEF ToSet
    <2> QED
        BY <2>1, <2>2, <2>3 DEF Bijection, Injection, Surjection, IsInjective
<1>5. ExistsBijection(1 .. Len(order), ToSet(order))
    BY <1>4 DEF ExistsBijection
<1>6. IsFiniteSet(ToSet(order)) /\ Cardinality(ToSet(order)) = Len(order)
    BY <1>3, <1>5, FS_Bijection
<1> QED
    BY <1>6 DEF Window

-----------------------------------------------------------------------------
(***************************************************************************)
(* Tables of clients.                                                      *)
(***************************************************************************)

Without(c, lost) == [s \in Socket |-> IF s \in lost THEN None ELSE c[s]]

\* Who is left when some connections are lost.
LEMMA TableWithout ==
    ASSUME NEW c, Table(c), NEW lost \in SUBSET Socket
    PROVE  /\ Table(Without(c, lost))
           /\ Live(Without(c, lost)) = Live(c) \ lost
           /\ \A s \in Live(c) \ lost : Without(c, lost)[s] = c[s]
<1> DEFINE c2 == Without(c, lost)
<1>1. c2 \in [Socket -> Client \union {None}]
    BY DEF Without, Table
<1>2. \A s \in Socket : c2[s] = IF s \in lost THEN None ELSE c[s]
    BY DEF Without
<1> HIDE DEF c2
<1>3. Live(c2) = Live(c) \ lost
    BY <1>2 DEF Live
<1>4. \A s \in Live(c) \ lost : c2[s] = c[s]
    BY <1>2 DEF Live
<1>5. Table(c2)
    BY <1>1, <1>3, <1>4 DEF Table
<1> QED
    BY <1>3, <1>4, <1>5 DEF c2

\* The counters follow when they are lowered as OnDisconnected lowers them.
LEMMA CountedWithout ==
    ASSUME NEW c, Table(c), NEW lost \in SUBSET Live(c),
           NEW waiting, NEW at, NEW ids, Counted(c, waiting, at, ids)
    PROVE  LET waiting2 == Lower(waiting, Cardinality({s \in lost : ~ c[s].authenticated}))
               at2 == [a \in Address |->
                          Lower(at[a], Cardinality({s \in lost : c[s].address = a}))]
               ids2 == Lower(ids, Cardinality(Remembered(c, lost)))
           IN  /\ Counted(Without(c, lost), waiting2, at2, ids2)
               /\ waiting2 <= waiting
               /\ \A a \in Address : at2[a] <= at[a]
<1> DEFINE c2 == Without(c, lost)
           silent == {s \in lost : ~ c[s].authenticated}
           from(a) == {s \in lost : c[s].address = a}
           waiting2 == Lower(waiting, Cardinality(silent))
           at2 == [a \in Address |-> Lower(at[a], Cardinality(from(a)))]
           ids2 == Lower(ids, Cardinality(Remembered(c, lost)))
<1>1. /\ Live(c2) = Live(c) \ lost
      /\ \A s \in Live(c) \ lost : c2[s] = c[s]
    BY TableWithout DEF Live
<1> HIDE DEF c2
<1>2. Waiting(c2) = Waiting(c) \ silent /\ silent \subseteq Waiting(c)
    BY <1>1 DEF Waiting
<1>3. \A a \in Address : /\ AtAddress(c2, a) = AtAddress(c, a) \ from(a)
                         /\ from(a) \subseteq AtAddress(c, a)
    BY <1>1 DEF AtAddress
<1>4. /\ Remembered(c2, Live(c2)) = Remembered(c, Live(c)) \ Remembered(c, lost)
      /\ Remembered(c, lost) \subseteq Remembered(c, Live(c))
    <2>1. Remembered(c, lost) \subseteq Remembered(c, Live(c))
        BY DEF Remembered
    <2>2. Remembered(c2, Live(c2)) = Remembered(c, Live(c) \ lost)
        BY <1>1 DEF Remembered
    <2>3. Remembered(c, Live(c) \ lost) = Remembered(c, Live(c)) \ Remembered(c, lost)
        BY DEF Remembered
    <2> QED
        BY <2>1, <2>2, <2>3
<1>5. IsFiniteSet(Live(c)) /\ IsFiniteSet(Remembered(c, Live(c)))
    BY DEF Counted
<1>6. IsFiniteSet(Live(c2))
    BY <1>1, <1>5, FS_Difference
<1>7. IsFiniteSet(Waiting(c))
    BY <1>5, FS_Subset DEF Waiting
<1>8. waiting2 = Cardinality(Waiting(c2)) /\ waiting2 <= waiting
    <2>1. waiting = Cardinality(Waiting(c))
        BY DEF Counted
    <2>2. silent \in SUBSET Waiting(c)
        BY <1>2
    <2> HIDE DEF silent
    <2> QED
        BY <1>2, <1>7, <2>1, <2>2, LowerIsExact
<1>9. ASSUME NEW a \in Address
      PROVE  at2[a] \in Nat /\ at2[a] = Cardinality(AtAddress(c2, a)) /\ at2[a] <= at[a]
    <2>1. IsFiniteSet(AtAddress(c, a))
        BY <1>5, FS_Subset DEF AtAddress
    <2>2. at[a] = Cardinality(AtAddress(c, a))
        BY DEF Counted
    <2>3. at2[a] = Lower(Cardinality(AtAddress(c, a)), Cardinality(from(a)))
        BY <2>2
    <2> HIDE DEF at2, from
    <2>4. from(a) \in SUBSET AtAddress(c, a)
        BY <1>3
    <2> QED
        BY <1>3, <2>1, <2>2, <2>3, <2>4, LowerIsExact
<1>10. at2 \in [Address -> Nat]
    BY <1>9
<1>11. ids2 = Cardinality(Remembered(c2, Live(c2))) /\ IsFiniteSet(Remembered(c2, Live(c2)))
    BY <1>4, <1>5, LowerIsExact DEF Counted
<1>12. Counted(c2, waiting2, at2, ids2)
    BY <1>6, <1>8, <1>9, <1>10, <1>11 DEF Counted
<1> QED
    BY <1>8, <1>9, <1>12 DEF c2

\* One client changes.
LEMMA TableWith ==
    ASSUME NEW c, Table(c), NEW s \in Live(c), NEW r, Proper(r)
    PROVE  /\ Table([c EXCEPT ![s] = r])
           /\ Live([c EXCEPT ![s] = r]) = Live(c)
           /\ [c EXCEPT ![s] = r][s] = r
           /\ \A t \in Live(c) \ {s} : [c EXCEPT ![s] = r][t] = c[t]
<1> DEFINE c2 == [c EXCEPT ![s] = r]
<1>1. s \in Socket /\ c \in [Socket -> Client \union {None}] /\ r \in Client
    BY DEF Live, Table, Proper
<1>2. r # None
    BY <1>1, NoneIsNoClient
<1>3. c2 \in [Socket -> Client \union {None}]
    BY <1>1
<1>4. \A t \in Socket : c2[t] = IF t = s THEN r ELSE c[t]
    BY <1>1
<1> HIDE DEF c2
<1>5. Live(c2) = Live(c)
    BY <1>2, <1>4 DEF Live
<1>6. \A t \in Live(c) : c2[t] = IF t = s THEN r ELSE c[t]
    BY <1>4 DEF Live
<1>7. Table(c2)
    BY <1>3, <1>5, <1>6 DEF Table
<1> QED
    BY <1>5, <1>6, <1>7 DEF c2

\* A client that stays at its address and keeps its window: the count of those
\* who wait changes by what became of it.
LEMMA CountedWith ==
    ASSUME NEW c, Table(c), NEW s \in Live(c), NEW r, Proper(r),
           NEW waiting, NEW at, NEW ids, Counted(c, waiting, at, ids),
           r.address = c[s].address,
           r.authenticated = c[s].authenticated
    PROVE  Counted([c EXCEPT ![s] = r], waiting, at,
                   ids + Cardinality(r.receivedIds) - Cardinality(c[s].receivedIds))
<1> DEFINE c2 == [c EXCEPT ![s] = r]
           before == {s} \X c[s].receivedIds
           after == {s} \X r.receivedIds
           all == Remembered(c, Live(c))
<1>1. /\ Live(c2) = Live(c)
      /\ c2[s] = r
      /\ \A t \in Live(c) \ {s} : c2[t] = c[t]
    BY TableWith
<1> HIDE DEF c2
<1>2. Waiting(c2) = Waiting(c)
    BY <1>1 DEF Waiting
<1>3. \A a \in Address : AtAddress(c2, a) = AtAddress(c, a)
    BY <1>1 DEF AtAddress
<1>4. /\ r \in Client /\ Window(r)
      /\ c[s] \in Client /\ Window(c[s])
    BY DEF Proper, Table
<1>5. /\ IsFiniteSet(r.receivedIds) /\ IsFiniteSet(c[s].receivedIds)
      /\ r.receivedIds \subseteq MessageId /\ c[s].receivedIds \subseteq MessageId
    BY <1>4, WindowSize DEF Client
<1>6. Remembered(c2, Live(c2)) = (all \ before) \union after
    BY <1>1, <1>5 DEF Remembered
<1>7. before \subseteq all
    BY <1>5 DEF Remembered
<1>8. (all \ before) \cap after = {}
    BY DEF Remembered
<1>9. IsFiniteSet(all) /\ ids = Cardinality(all)
    BY DEF Counted
<1>10. /\ IsFiniteSet(before) /\ Cardinality(before) = Cardinality(c[s].receivedIds)
       /\ IsFiniteSet(after) /\ Cardinality(after) = Cardinality(r.receivedIds)
    BY <1>5, Row
<1> HIDE DEF before, after, all
<1>11. IsFiniteSet(all \ before) /\ Cardinality(all \ before) = Cardinality(all) - Cardinality(before)
    <2>1. all \cap before = before
        BY <1>7
    <2> QED
        BY <1>9, <2>1, FS_Difference
<1>12. /\ IsFiniteSet((all \ before) \union after)
       /\ Cardinality((all \ before) \union after) =
              Cardinality(all) - Cardinality(before) + Cardinality(after)
    <2>1. Cardinality({}) = 0
        BY FS_EmptySet
    <2>2. /\ Cardinality(all) \in Nat /\ Cardinality(before) \in Nat
          /\ Cardinality(after) \in Nat
        BY <1>9, <1>10, FS_CardinalityType
    <2> QED
        <3>1. Cardinality((all \ before) \union after) =
                  Cardinality(all \ before) + Cardinality(after) - Cardinality({})
            BY <1>8, <1>10, <1>11, FS_Union
        <3>2. IsFiniteSet((all \ before) \union after)
            BY <1>10, <1>11, FS_Union
        <3> QED
            BY <1>11, <2>1, <2>2, <3>1, <3>2
<1>13. /\ Cardinality(all) \in Nat /\ Cardinality(before) \in Nat
       /\ Cardinality(after) \in Nat
    BY <1>9, <1>10, FS_CardinalityType
<1>14. Cardinality(Remembered(c2, Live(c2))) =
           ids + Cardinality(r.receivedIds) - Cardinality(c[s].receivedIds)
    BY <1>6, <1>9, <1>10, <1>12, <1>13
<1>15. IsFiniteSet(Remembered(c2, Live(c2)))
    BY <1>6, <1>12
<1> QED
    BY <1>1, <1>2, <1>3, <1>14, <1>15 DEF Counted, c2

-----------------------------------------------------------------------------
(***************************************************************************)
(* What a message does to the state of its client.                         *)
(***************************************************************************)

\* Remembering an id that is not known keeps the window a window.
LEMMA WindowKept ==
    ASSUME NEW client \in Client, Window(client),
           NEW id \in MessageId, id \notin client.receivedIds
    PROVE  LET r == RememberMessageId(client, id)
           IN  r \in Client /\ Window(r)
<1> DEFINE order == client.receivedOrder
           longer == Append(order, id)
           full == Len(longer) > MaximumRememberedMessageIds
           ids == (client.receivedIds \union {id}) \ (IF full THEN {Head(longer)} ELSE {})
           queue == IF full THEN Tail(longer) ELSE longer
           r == [client EXCEPT !.receivedIds = ids, !.receivedOrder = queue]
<1>1. order \in Seq(MessageId) /\ client.receivedIds \subseteq MessageId
    BY DEF Client
<1>2. /\ longer \in Seq(MessageId)
      /\ Len(longer) = Len(order) + 1
      /\ Len(order) \in Nat
      /\ \A i \in 1 .. Len(order) : longer[i] = order[i]
      /\ longer[Len(order) + 1] = id
    BY <1>1
<1>3. /\ client.receivedIds = {order[i] : i \in 1 .. Len(order)}
      /\ Len(order) <= MaximumRememberedMessageIds
      /\ \A i, j \in 1 .. Len(order) : order[i] = order[j] => i = j
    BY <1>1 DEF Window, ToSet
<1>4. MaximumRememberedMessageIds \in Nat \ {0}
    BY ConnectionGateAssumption
<1>5. \A i, j \in 1 .. Len(longer) : longer[i] = longer[j] => i = j
    <2>1. \A i \in 1 .. Len(order) : order[i] # id
        BY <1>3
    <2> HIDE DEF longer, order
    <2> SUFFICES ASSUME NEW i \in 1 .. Len(longer), NEW j \in 1 .. Len(longer),
                        longer[i] = longer[j]
                 PROVE  i = j
        OBVIOUS
    <2>2. \/ i \in 1 .. Len(order)
          \/ i = Len(order) + 1
        BY <1>2
    <2>3. \/ j \in 1 .. Len(order)
          \/ j = Len(order) + 1
        BY <1>2
    <2> QED
        BY <1>2, <1>3, <2>1, <2>2, <2>3
<1>6. client.receivedIds \union {id} = {longer[i] : i \in 1 .. Len(longer)}
    <2> HIDE DEF longer, order
    <2>1. ASSUME NEW x \in client.receivedIds \union {id}
          PROVE  \E i \in 1 .. Len(longer) : longer[i] = x
        <3>1. CASE x = id
            BY <1>2, <3>1
        <3>2. CASE x # id
            <4>1. PICK i \in 1 .. Len(order) : order[i] = x
                BY <1>3, <3>2
            <4> QED
                BY <1>2, <4>1
        <3> QED
            BY <3>1, <3>2
    <2>2. ASSUME NEW i \in 1 .. Len(longer)
          PROVE  longer[i] \in client.receivedIds \union {id}
        <3>1. \/ i \in 1 .. Len(order)
              \/ i = Len(order) + 1
            BY <1>2
        <3> QED
            BY <1>2, <1>3, <3>1
    <2> QED
        BY <2>1, <2>2
<1>7. /\ queue \in Seq(MessageId)
      /\ Len(queue) <= MaximumRememberedMessageIds
      /\ ids = {queue[i] : i \in 1 .. Len(queue)}
      /\ \A i, j \in 1 .. Len(queue) : queue[i] = queue[j] => i = j
    <2>1. CASE full
        <3> HIDE DEF longer
        <3>1. /\ queue = Tail(longer) /\ longer # <<>>
              /\ queue \in Seq(MessageId)
              /\ Len(queue) = Len(longer) - 1
              /\ Head(longer) = longer[1]
              /\ \A i \in 1 .. Len(queue) : queue[i] = longer[i + 1]
            BY <1>2, <1>4, <2>1
        <3>2. ids = (client.receivedIds \union {id}) \ {longer[1]}
            BY <2>1, <3>1
        <3> HIDE DEF queue, ids, full, order
        <3>3. Len(queue) <= MaximumRememberedMessageIds
            BY <1>2, <1>3, <1>4, <3>1
        <3>4. \A i, j \in 1 .. Len(queue) : queue[i] = queue[j] => i = j
            BY <1>2, <1>5, <3>1
        <3>5. ASSUME NEW x \in ids
              PROVE  \E i \in 1 .. Len(queue) : queue[i] = x
            <4>1. PICK i \in 1 .. Len(longer) : longer[i] = x
                BY <1>6, <3>2
            <4>2. i # 1
                BY <3>2, <4>1
            <4>3. i - 1 \in 1 .. Len(queue) /\ queue[i - 1] = x
                BY <1>2, <3>1, <4>1, <4>2
            <4> QED
                BY <4>3
        <3>6. ASSUME NEW i \in 1 .. Len(queue)
              PROVE  queue[i] \in ids
            <4>1. i + 1 \in 1 .. Len(longer) /\ 1 \in 1 .. Len(longer) /\ i + 1 # 1
                BY <1>2, <3>1
            <4>2. longer[i + 1] # longer[1]
                BY <1>5, <4>1
            <4> QED
                BY <1>6, <3>1, <3>2, <4>1, <4>2
        <3> QED
            BY <3>1, <3>3, <3>4, <3>5, <3>6
    <2>2. CASE ~ full
        <3>1. queue = longer /\ ids = client.receivedIds \union {id}
            BY <2>2
        <3>2. Len(longer) <= MaximumRememberedMessageIds
            BY <1>2, <1>4, <2>2
        <3> HIDE DEF queue, ids, longer
        <3> QED
            BY <1>2, <1>5, <1>6, <3>1, <3>2
    <2> QED
        BY <2>1, <2>2
<1>8. ids \subseteq MessageId
    BY <1>1
<1>9. r = RememberMessageId(client, id)
    BY DEF RememberMessageId
<1> HIDE DEF ids, queue
<1>10. r \in Client
    BY <1>7, <1>8 DEF Client
<1>11. r.receivedIds = ids /\ r.receivedOrder = queue
    BY DEF Client
<1> HIDE DEF r
<1>12. Window(r)
    <2>1. ToSet(queue) = {queue[i] : i \in 1 .. Len(queue)}
        BY <1>7 DEF ToSet
    <2> QED
        BY <1>7, <1>11, <2>1 DEF Window
<1> QED
    BY <1>9, <1>10, <1>12

\* A message that is heard changes the window and ends the idleness.
LEMMA HeardIsProper ==
    ASSUME NEW client, Proper(client), NEW id \in MessageId, id \notin client.receivedIds
    PROVE  LET r == [RememberMessageId(client, id) EXCEPT !.idle = FALSE]
           IN  /\ Proper(r)
               /\ r.address = client.address
               /\ r.closing = client.closing
               /\ r.authenticated = client.authenticated
               /\ r.authenticationPending = client.authenticationPending
               /\ r.user = client.user
               /\ r.registered = client.registered
               /\ r.device = client.device
<1> DEFINE w == RememberMessageId(client, id)
           r == [w EXCEPT !.idle = FALSE]
<1>1. client \in Client /\ Window(client)
    BY DEF Proper
<1>2. w \in Client /\ Window(w)
    BY <1>1, WindowKept
<1>3. /\ w.address = client.address
      /\ w.closing = client.closing
      /\ w.authenticated = client.authenticated
      /\ w.authenticationPending = client.authenticationPending
      /\ w.user = client.user
      /\ w.registered = client.registered
      /\ w.device = client.device
    BY <1>1 DEF RememberMessageId, Client
<1> HIDE DEF w
<1>4. r \in Client
    BY <1>2 DEF Client
<1>5. /\ r.address = w.address
      /\ r.closing = w.closing
      /\ r.authenticated = w.authenticated
      /\ r.authenticationPending = w.authenticationPending
      /\ r.user = w.user
      /\ r.registered = w.registered
      /\ r.device = w.device
      /\ r.receivedIds = w.receivedIds
      /\ r.receivedOrder = w.receivedOrder
    BY <1>2 DEF Client
<1> HIDE DEF r
<1>6. Window(r)
    BY <1>2, <1>5 DEF Window
<1>7. Proper(r)
    BY <1>3, <1>4, <1>5, <1>6 DEF Proper
<1> QED
    BY <1>3, <1>5, <1>7 DEF r, w

\* A client whose window, user and registration stay is as proper as it was,
\* when a request is under way only before authentication.
LEMMA StillProper ==
    ASSUME NEW client, Proper(client), NEW r \in Client,
           r.receivedIds = client.receivedIds,
           r.receivedOrder = client.receivedOrder,
           r.authenticated = client.authenticated,
           r.user = client.user,
           r.registered = client.registered,
           r.device = client.device,
           r.authenticationPending => ~ r.authenticated
    PROVE  Proper(r)
<1>1. Window(r)
    BY DEF Proper, Window
<1> QED
    BY <1>1 DEF Proper

\* A client that keeps its address, its user and its registration disturbs
\* neither the counters, but for the ids it remembers, nor the indexes.
LEMMA SoundWith ==
    ASSUME NEW c, NEW waiting, NEW at, NEW ids, NEW held, NEW joined,
           Sound(c, waiting, at, ids, held, joined),
           NEW s \in Live(c), NEW r, Proper(r),
           r.address = c[s].address,
           r.authenticated = c[s].authenticated,
           r.user = c[s].user,
           r.registered = c[s].registered,
           r.device = c[s].device,
           c[s].closing => r.closing
    PROVE  Sound([c EXCEPT ![s] = r], waiting, at,
                 ids + Cardinality(r.receivedIds) - Cardinality(c[s].receivedIds),
                 held, joined)
<1> DEFINE c2 == [c EXCEPT ![s] = r]
           ids2 == ids + Cardinality(r.receivedIds) - Cardinality(c[s].receivedIds)
<1>1. Table(c)
    BY DEF Sound
<1>2. /\ Table(c2)
      /\ Live(c2) = Live(c)
      /\ c2[s] = r
      /\ \A t \in Live(c) \ {s} : c2[t] = c[t]
    BY <1>1, TableWith
<1>3. Counted(c2, waiting, at, ids2)
    BY <1>1, CountedWith DEF Sound
<1> HIDE DEF c2, ids2
<1>4. \A t \in Live(c) : /\ c2[t].user = c[t].user
                         /\ c2[t].registered = c[t].registered
                         /\ c2[t].device = c[t].device
                         /\ c[t].closing => c2[t].closing
    BY <1>2
<1>5. Indexed(c2, held, joined)
    <2>1. Indexed(c, held, joined)
        BY DEF Sound
    <2> QED
        BY <1>2, <1>4, <2>1 DEF Indexed
<1> QED
    BY <1>2, <1>3, <1>5 DEF Sound, c2, ids2

\* The counters are numbers.
LEMMA CountsAreNumbers ==
    ASSUME NEW c, NEW waiting, NEW at, NEW ids, Counted(c, waiting, at, ids)
    PROVE  waiting \in Nat /\ at \in [Address -> Nat] /\ ids \in Nat
<1>1. IsFiniteSet(Waiting(c))
    BY FS_Subset DEF Counted, Waiting
<1> QED
    BY <1>1, FS_CardinalityType DEF Counted

\* Lost connections take their registrations along, and nobody else's.
LEMMA IndexedWithout ==
    ASSUME NEW c, NEW held, NEW joined, Indexed(c, held, joined), Table(c),
           held \in [Device -> Socket \union {None}],
           NEW lost \in SUBSET Live(c)
    PROVE  Indexed(Without(c, lost),
                   [d \in Device |-> IF held[d] \in lost /\ c[held[d]].registered
                                     THEN None ELSE held[d]],
                   [u \in User |-> joined[u] \ lost])
<1> DEFINE c2 == Without(c, lost)
           held2 == [d \in Device |-> IF held[d] \in lost /\ c[held[d]].registered
                                      THEN None ELSE held[d]]
           joined2 == [u \in User |-> joined[u] \ lost]
<1>1. /\ Live(c2) = Live(c) \ lost
      /\ \A s \in Live(c) \ lost : c2[s] = c[s]
    BY TableWithout DEF Live
<1>2. \A d \in Device : held2[d] = IF held[d] \in lost THEN None ELSE held[d]
    BY ConnectionGateAssumption DEF Indexed, Live
<1>3. \A u \in User : joined2[u] = joined[u] \ lost
    OBVIOUS
<1>4. \A s \in Live(c) : c[s].registered => c[s].device \in Device
    BY DEF Table, Proper, Client
<1> HIDE DEF c2, held2, joined2
<1>5. \A d \in Device : held2[d] # None =>
          /\ held2[d] \in Live(c2)
          /\ c2[held2[d]].registered
          /\ c2[held2[d]].device = d
          /\ c2[held2[d]].user = OwnerOf[d]
    BY <1>1, <1>2 DEF Indexed
<1>6. \A s \in Live(c2) : c2[s].registered => held2[c2[s].device] = s \/ c2[s].closing
    <2> SUFFICES ASSUME NEW s \in Live(c2), c2[s].registered
                 PROVE  held2[c2[s].device] = s \/ c2[s].closing
        OBVIOUS
    <2>1. s \in Live(c) /\ s \notin lost /\ c2[s] = c[s]
        BY <1>1
    <2>2. held[c[s].device] = s \/ c[s].closing
        BY <2>1 DEF Indexed
    <2> QED
        BY <1>2, <1>4, <2>1, <2>2
<1>7. \A u \in User : joined2[u] = {s \in Live(c2) : c2[s].user = u}
    BY <1>1, <1>3 DEF Indexed
<1> QED
    BY <1>5, <1>6, <1>7 DEF Indexed, c2, held2, joined2

\* What stands for no socket is none.
LEMMA NoneIsNoSocket == None \notin Socket
BY ConnectionGateAssumption

-----------------------------------------------------------------------------
(***************************************************************************)
(* Each action keeps the invariant.                                        *)
(***************************************************************************)

\* The clients are those of the table.
LEMMA TheTable == Clients = Live(clients)
BY DEF Clients, Live

\* A step that only changes one client, says what the ids become, and leaves
\* the counters, the indexes and their kin alone.
LEMMA OneClientChanges ==
    ASSUME Inv, NEW s \in Live(clients), NEW r, Proper(r),
           r.address = clients[s].address,
           r.authenticated = clients[s].authenticated,
           r.user = clients[s].user,
           r.registered = clients[s].registered,
           r.device = clients[s].device,
           clients[s].closing => r.closing,
           clients' = [clients EXCEPT ![s] = r],
           rememberedIds' = rememberedIds + Cardinality(r.receivedIds)
                                - Cardinality(clients[s].receivedIds),
           replies' = IF r.authenticationPending THEN replies \union {s}
                                                 ELSE replies \ {s},
           UNCHANGED <<running, unauthenticated, byAddress, devices, accounts>>
    PROVE  Inv'
<1>1. Sound(clients, unauthenticated, byAddress, rememberedIds, devices, accounts)
    BY DEF Inv
<1>2. Sound(clients', unauthenticated', byAddress', rememberedIds', devices', accounts')
    BY <1>1, SoundWith
<1>3. /\ Live(clients') = Live(clients)
      /\ clients'[s] = r
      /\ \A t \in Live(clients) \ {s} : clients'[t] = clients[t]
    <2> DEFINE c2 == [clients EXCEPT ![s] = r]
    <2>1. Table(clients)
        BY <1>1 DEF Sound
    <2>2. Live(c2) = Live(clients)
        <3>1. s \in Socket /\ clients[s] # None /\ clients \in [Socket -> Client \union {None}]
            BY <2>1 DEF Live, Table
        <3>2. r # None
            BY NoneIsNoClient DEF Proper
        <3> QED
            BY <3>1, <3>2 DEF Live
    <2>3. c2[s] = r /\ \A t \in Live(clients) \ {s} : c2[t] = clients[t]
        BY <2>1 DEF Table, Live
    <2>4. clients' = c2
        OBVIOUS
    <2> HIDE DEF c2
    <2> QED
        BY <2>2, <2>3, <2>4
<1>4. replies = {t \in Live(clients) : clients[t].authenticationPending}
    BY TheTable DEF Inv, AnswersExpected
<1>5. replies' = {t \in Live(clients') : clients'[t].authenticationPending}
    BY <1>3, <1>4
<1>6. Types'
    BY <1>5 DEF Inv, Types, Live
<1>7. Limits'
    BY DEF Inv, Limits
<1>8. AnswersExpected'
    BY <1>5 DEF AnswersExpected, Clients, Live
<1> QED
    BY <1>2, <1>6, <1>7, <1>8 DEF Inv

\* The same, when the window stays as well.
LEMMA OneClientChangesAside ==
    ASSUME Inv, NEW s \in Live(clients), NEW r, Proper(r),
           r.address = clients[s].address,
           r.authenticated = clients[s].authenticated,
           r.user = clients[s].user,
           r.registered = clients[s].registered,
           r.device = clients[s].device,
           r.receivedIds = clients[s].receivedIds,
           clients[s].closing => r.closing,
           clients' = [clients EXCEPT ![s] = r],
           replies' = IF r.authenticationPending THEN replies \union {s}
                                                 ELSE replies \ {s},
           UNCHANGED <<running, unauthenticated, byAddress, rememberedIds, devices,
                       accounts>>
    PROVE  Inv'
<1>1. rememberedIds \in Nat
    BY FS_CardinalityType DEF Inv, Sound, Counted
<1>2. Cardinality(r.receivedIds) \in Nat
    BY WindowSize, FS_CardinalityType DEF Proper
<1>3. rememberedIds' = rememberedIds + Cardinality(r.receivedIds)
                           - Cardinality(clients[s].receivedIds)
    BY <1>1, <1>2
<1> QED
    BY <1>3, OneClientChanges

\* A client of the invariant is proper, and waits for an answer or not.
LEMMA ProperClient ==
    ASSUME Inv, NEW s \in Socket, clients[s] # None
    PROVE  /\ s \in Live(clients)
           /\ Proper(clients[s])
           /\ clients[s] \in Client
           /\ s \in replies <=> clients[s].authenticationPending
<1>1. s \in Live(clients)
    BY DEF Live
<1>2. Proper(clients[s])
    BY <1>1 DEF Inv, Sound, Table
<1> QED
    BY <1>1, <1>2, TheTable DEF Inv, AnswersExpected, Proper

\* A message that is heard and does not register keeps the invariant.
LEMMA HearingKeepsInv ==
    ASSUME Inv, NEW s \in Socket, NEW id \in MessageId
    PROVE  /\ StartAuthentication(s, id) => Inv'
           /\ RefuseMessage(s, id) => Inv'
           /\ IgnoreMessage(s, id) => Inv'
<1> SUFFICES ASSUME Hears(s, id)
             PROVE  /\ StartAuthentication(s, id) => Inv'
                    /\ RefuseMessage(s, id) => Inv'
                    /\ IgnoreMessage(s, id) => Inv'
    BY DEF StartAuthentication, RefuseMessage, IgnoreMessage
<1> DEFINE client == clients[s]
           heard == [RememberMessageId(client, id) EXCEPT !.idle = FALSE]
<1>1. /\ s \in Live(clients)
      /\ Proper(client)
      /\ s \in replies <=> client.authenticationPending
    BY ProperClient DEF Hears
<1>2. /\ Proper(heard)
      /\ heard.address = client.address
      /\ heard.closing = client.closing
      /\ heard.authenticated = client.authenticated
      /\ heard.authenticationPending = client.authenticationPending
      /\ heard.user = client.user
      /\ heard.registered = client.registered
      /\ heard.device = client.device
    BY <1>1, HeardIsProper DEF Hears
<1>3. heard = Heard(s, id)
    BY DEF Heard
<1> HIDE DEF heard
<1>4. heard \in Client
    BY <1>2 DEF Proper
<1>5. ASSUME StartAuthentication(s, id)
      PROVE  Inv'
    <2> DEFINE r == [heard EXCEPT !.authenticationPending = TRUE]
    <2>1. /\ r \in Client
          /\ r.authenticationPending
          /\ r.receivedIds = heard.receivedIds
          /\ r.receivedOrder = heard.receivedOrder
          /\ r.address = heard.address
          /\ r.closing = heard.closing
          /\ r.authenticated = heard.authenticated
          /\ r.user = heard.user
          /\ r.registered = heard.registered
          /\ r.device = heard.device
        BY <1>4 DEF Client
    <2>2. /\ clients' = [clients EXCEPT ![s] = r]
          /\ rememberedIds' = rememberedIds + Cardinality(r.receivedIds)
                                  - Cardinality(clients[s].receivedIds)
          /\ ~ clients[s].authenticated
          /\ replies' = replies \union {s}
          /\ UNCHANGED <<running, unauthenticated, byAddress, devices, accounts>>
        BY <1>3, <1>5 DEF StartAuthentication, Handle
    <2> HIDE DEF r
    <2>3. Proper(r)
        BY <1>2, <2>1, <2>2, StillProper
    <2>4. replies' = IF r.authenticationPending THEN replies \union {s} ELSE replies \ {s}
        BY <2>1, <2>2
    <2> QED
        BY <1>1, <1>2, <2>1, <2>2, <2>3, <2>4, OneClientChanges
<1>6. ASSUME RefuseMessage(s, id)
      PROVE  Inv'
    <2> DEFINE r == [heard EXCEPT !.closing = TRUE]
    <2>1. /\ r \in Client
          /\ r.closing
          /\ r.receivedIds = heard.receivedIds
          /\ r.receivedOrder = heard.receivedOrder
          /\ r.address = heard.address
          /\ r.authenticationPending = heard.authenticationPending
          /\ r.authenticated = heard.authenticated
          /\ r.user = heard.user
          /\ r.registered = heard.registered
          /\ r.device = heard.device
        BY <1>4 DEF Client
    <2>2. /\ clients' = [clients EXCEPT ![s] = r]
          /\ rememberedIds' = rememberedIds + Cardinality(r.receivedIds)
                                  - Cardinality(clients[s].receivedIds)
          /\ replies' = replies
          /\ UNCHANGED <<running, unauthenticated, byAddress, devices, accounts>>
        BY <1>3, <1>6 DEF RefuseMessage, Handle
    <2> HIDE DEF r
    <2>3. Proper(r)
        BY <1>2, <2>1, StillProper DEF Proper
    <2>4. replies' = IF r.authenticationPending THEN replies \union {s} ELSE replies \ {s}
        BY <1>1, <1>2, <2>1, <2>2
    <2> QED
        BY <1>1, <1>2, <2>1, <2>2, <2>3, <2>4, OneClientChanges
<1>7. ASSUME IgnoreMessage(s, id)
      PROVE  Inv'
    <2>1. /\ clients' = [clients EXCEPT ![s] = heard]
          /\ rememberedIds' = rememberedIds + Cardinality(heard.receivedIds)
                                  - Cardinality(clients[s].receivedIds)
          /\ replies' = replies
          /\ UNCHANGED <<running, unauthenticated, byAddress, devices, accounts>>
        BY <1>3, <1>7 DEF IgnoreMessage, Handle
    <2>2. replies' = IF heard.authenticationPending THEN replies \union {s}
                                                    ELSE replies \ {s}
        BY <1>1, <1>2, <2>1
    <2> QED
        BY <1>1, <1>2, <2>1, <2>2, OneClientChanges
<1> QED
    BY <1>5, <1>6, <1>7

\* So do an answer that refuses and the passing of time.
LEMMA AsideKeepsInv ==
    ASSUME Inv, NEW s \in Socket
    PROVE  /\ AuthenticationFails(s) => Inv'
           /\ DeadlinePasses(s) => Inv'
           /\ FallsIdle(s) => Inv'
<1> DEFINE client == clients[s]
<1>1. ASSUME AuthenticationFails(s)
      PROVE  Inv'
    <2> DEFINE r == [Answered(s) EXCEPT !.closing = TRUE]
    <2>1. clients[s] # None
        BY <1>1 DEF AuthenticationFails, Inv, AnswersExpected, Clients
    <2>2. s \in Live(clients) /\ Proper(client) /\ client \in Client
        BY <2>1, ProperClient
    <2>3. /\ r \in Client
          /\ r.closing
          /\ ~ r.authenticationPending
          /\ r.receivedIds = client.receivedIds
          /\ r.receivedOrder = client.receivedOrder
          /\ r.address = client.address
          /\ r.authenticated = client.authenticated
          /\ r.user = client.user
          /\ r.registered = client.registered
          /\ r.device = client.device
        BY <2>2 DEF Client, Answered
    <2>4. /\ clients' = [clients EXCEPT ![s] = r]
          /\ replies' = replies \ {s}
          /\ UNCHANGED <<running, unauthenticated, byAddress, rememberedIds, devices,
                         accounts>>
        BY <1>1 DEF AuthenticationFails
    <2> HIDE DEF r
    <2>5. Proper(r)
        BY <2>2, <2>3, StillProper
    <2>6. replies' = IF r.authenticationPending THEN replies \union {s} ELSE replies \ {s}
        BY <2>3, <2>4
    <2> QED
        BY <2>2, <2>3, <2>4, <2>5, <2>6, OneClientChangesAside
<1>2. ASSUME DeadlinePasses(s)
      PROVE  Inv'
    <2> DEFINE r == [client EXCEPT !.deadlinePassed = TRUE]
    <2>1. clients[s] # None
        BY <1>2 DEF DeadlinePasses
    <2>2. /\ s \in Live(clients) /\ Proper(client) /\ client \in Client
          /\ s \in replies <=> client.authenticationPending
        BY <2>1, ProperClient
    <2>3. /\ r \in Client
          /\ r.closing = client.closing
          /\ r.authenticationPending = client.authenticationPending
          /\ r.receivedIds = client.receivedIds
          /\ r.receivedOrder = client.receivedOrder
          /\ r.address = client.address
          /\ r.authenticated = client.authenticated
          /\ r.user = client.user
          /\ r.registered = client.registered
          /\ r.device = client.device
        BY <2>2 DEF Client
    <2>4. /\ clients' = [clients EXCEPT ![s] = r]
          /\ replies' = replies
          /\ UNCHANGED <<running, unauthenticated, byAddress, rememberedIds, devices,
                         accounts>>
        BY <1>2 DEF DeadlinePasses
    <2> HIDE DEF r
    <2>5. Proper(r)
        BY <2>2, <2>3, StillProper DEF Proper
    <2>6. replies' = IF r.authenticationPending THEN replies \union {s} ELSE replies \ {s}
        BY <2>2, <2>3, <2>4
    <2> QED
        BY <2>2, <2>3, <2>4, <2>5, <2>6, OneClientChangesAside
<1>3. ASSUME FallsIdle(s)
      PROVE  Inv'
    <2> DEFINE r == [client EXCEPT !.idle = TRUE]
    <2>1. clients[s] # None
        BY <1>3 DEF FallsIdle
    <2>2. /\ s \in Live(clients) /\ Proper(client) /\ client \in Client
          /\ s \in replies <=> client.authenticationPending
        BY <2>1, ProperClient
    <2>3. /\ r \in Client
          /\ r.closing = client.closing
          /\ r.authenticationPending = client.authenticationPending
          /\ r.receivedIds = client.receivedIds
          /\ r.receivedOrder = client.receivedOrder
          /\ r.address = client.address
          /\ r.authenticated = client.authenticated
          /\ r.user = client.user
          /\ r.registered = client.registered
          /\ r.device = client.device
        BY <2>2 DEF Client
    <2>4. /\ clients' = [clients EXCEPT ![s] = r]
          /\ replies' = replies
          /\ UNCHANGED <<running, unauthenticated, byAddress, rememberedIds, devices,
                         accounts>>
        BY <1>3 DEF FallsIdle
    <2> HIDE DEF r
    <2>5. Proper(r)
        BY <2>2, <2>3, StillProper DEF Proper
    <2>6. replies' = IF r.authenticationPending THEN replies \union {s} ELSE replies \ {s}
        BY <2>2, <2>3, <2>4
    <2> QED
        BY <2>2, <2>3, <2>4, <2>5, <2>6, OneClientChangesAside
<1> QED
    BY <1>1, <1>2, <1>3

\* A new connection is counted once everywhere.
LEMMA AcceptanceKeepsInv ==
    ASSUME Inv, NEW s \in Socket, NEW a \in Address, AcceptConnection(s, a)
    PROVE  Inv'
<1> DEFINE r == NewClient(a)
<1>1. /\ r \in Client
      /\ ~ r.authenticated /\ ~ r.authenticationPending /\ ~ r.registered
      /\ r.address = a /\ r.user = None
      /\ r.receivedIds = {} /\ r.receivedOrder = <<>>
    BY DEF NewClient, Client
<1>2. /\ clients[s] = None
      /\ clients' = [clients EXCEPT ![s] = r]
      /\ unauthenticated' = unauthenticated + 1
      /\ byAddress' = [byAddress EXCEPT ![a] = @ + 1]
      /\ byAddress[a] < MaximumConnectionsPerIp
      /\ unauthenticated < MaximumUnauthenticatedConnections
      /\ UNCHANGED <<running, rememberedIds, devices, accounts, replies>>
    BY DEF AcceptConnection, Admits
<1> HIDE DEF r
<1>3. r # None
    BY <1>1, NoneIsNoClient
<1>4. /\ clients \in [Socket -> Client \union {None}]
      /\ \A t \in Live(clients) : Proper(clients[t])
    BY DEF Inv, Sound, Table
<1>5. Proper(r)
    BY <1>1, ConnectionGateAssumption DEF Proper, Window, ToSet
<1>6. \A t \in Socket : clients'[t] = IF t = s THEN r ELSE clients[t]
    BY <1>2, <1>4
<1>7. /\ Live(clients') = Live(clients) \union {s}
      /\ s \notin Live(clients)
      /\ clients'[s] = r
      /\ \A t \in Live(clients) : clients'[t] = clients[t]
    BY <1>2, <1>3, <1>6 DEF Live
<1>8. Table(clients')
    <2>1. clients' \in [Socket -> Client \union {None}]
        BY <1>1, <1>2, <1>4
    <2> QED
        BY <1>4, <1>5, <1>7, <2>1 DEF Table
<1>9. Counted(clients, unauthenticated, byAddress, rememberedIds)
    BY DEF Inv, Sound
<1>10. IsFiniteSet(Live(clients)) /\ IsFiniteSet(Live(clients'))
    BY <1>7, <1>9, FS_AddElement DEF Counted
<1>11. unauthenticated \in Nat /\ unauthenticated' = Cardinality(Waiting(clients'))
    <2>1. Waiting(clients') = Waiting(clients) \union {s} /\ s \notin Waiting(clients)
        BY <1>1, <1>7 DEF Waiting
    <2>2. IsFiniteSet(Waiting(clients))
        BY <1>10, FS_Subset DEF Waiting
    <2>3. unauthenticated = Cardinality(Waiting(clients))
        BY <1>9 DEF Counted
    <2> QED
        BY <1>2, <2>1, <2>2, <2>3, FS_AddElement, FS_CardinalityType
<1>12. byAddress \in [Address -> Nat] /\ byAddress' \in [Address -> Nat]
    BY <1>2, <1>9 DEF Counted
<1>13. ASSUME NEW b \in Address
       PROVE  byAddress'[b] = Cardinality(AtAddress(clients', b))
    <2>1. byAddress[b] = Cardinality(AtAddress(clients, b))
        BY <1>9 DEF Counted
    <2>2. IsFiniteSet(AtAddress(clients, b)) /\ s \notin AtAddress(clients, b)
        BY <1>7, <1>10, FS_Subset DEF AtAddress
    <2>3. CASE b = a
        <3>1. AtAddress(clients', b) = AtAddress(clients, b) \union {s}
            BY <1>1, <1>7, <2>3 DEF AtAddress
        <3>2. byAddress'[b] = byAddress[b] + 1
            BY <1>2, <1>12, <2>3
        <3> QED
            BY <2>1, <2>2, <3>1, <3>2, FS_AddElement
    <2>4. CASE b # a
        <3>1. AtAddress(clients', b) = AtAddress(clients, b)
            BY <1>1, <1>7, <2>4 DEF AtAddress
        <3>2. byAddress'[b] = byAddress[b]
            BY <1>2, <1>12, <2>4
        <3> QED
            BY <2>1, <3>1, <3>2
    <2> QED
        BY <2>3, <2>4
<1>14. Remembered(clients', Live(clients')) = Remembered(clients, Live(clients))
    BY <1>1, <1>7 DEF Remembered
<1>15. Counted(clients', unauthenticated', byAddress', rememberedIds')
    BY <1>2, <1>9, <1>10, <1>11, <1>12, <1>13, <1>14 DEF Counted
<1>16. Indexed(clients', devices', accounts')
    <2>1. Indexed(clients, devices, accounts)
        BY DEF Inv, Sound
    <2>2. \A u \in User : u # None
        BY ConnectionGateAssumption
    <2>3. \A u \in User : {t \in Live(clients') : clients'[t].user = u}
                             = {t \in Live(clients) : clients[t].user = u}
        BY <1>1, <1>7, <2>2
    <2>4. \A t \in Live(clients') : clients'[t].registered =>
              devices'[clients'[t].device] = t \/ clients'[t].closing
        BY <1>1, <1>2, <1>7, <2>1 DEF Indexed
    <2>5. ASSUME NEW d \in Device, devices'[d] # None
          PROVE  /\ devices'[d] \in Live(clients')
                 /\ clients'[devices'[d]].registered
                 /\ clients'[devices'[d]].device = d
                 /\ clients'[devices'[d]].user = OwnerOf[d]
        <3>1. /\ devices'[d] = devices[d]
              /\ devices[d] \in Live(clients)
              /\ clients[devices[d]].registered
              /\ clients[devices[d]].device = d
              /\ clients[devices[d]].user = OwnerOf[d]
            BY <1>2, <2>1, <2>5 DEF Indexed
        <3> QED
            BY <1>7, <3>1
    <2>6. ASSUME NEW u \in User
          PROVE  accounts'[u] = {t \in Live(clients') : clients'[t].user = u}
        <3>1. accounts[u] = {t \in Live(clients) : clients[t].user = u}
            BY <2>1 DEF Indexed
        <3> QED
            BY <1>2, <2>3, <3>1
    <2> QED
        BY <2>4, <2>5, <2>6 DEF Indexed
<1>17. AnswersExpected'
    <2>1. replies = {t \in Live(clients) : clients[t].authenticationPending}
        BY TheTable DEF Inv, AnswersExpected
    <2>2. replies' = {t \in Live(clients') : clients'[t].authenticationPending}
        BY <1>1, <1>2, <1>7, <2>1
    <2> QED
        BY <2>2 DEF AnswersExpected, Clients, Live
<1>18. Types'
    BY <1>2 DEF Inv, Types
<1>19. Limits'
    <2>1. unauthenticated' <= MaximumUnauthenticatedConnections
        BY <1>2, <1>11, ConnectionGateAssumption
    <2>2. \A b \in Address : byAddress'[b] <= MaximumConnectionsPerIp
        BY <1>2, <1>12, ConnectionGateAssumption DEF Inv, Limits
    <2> QED
        BY <2>1, <2>2 DEF Limits
<1> QED
    BY <1>8, <1>15, <1>16, <1>17, <1>18, <1>19 DEF Inv, Sound

\* An answer counts its connection out of those who wait.
LEMMA AuthenticationKeepsInv ==
    ASSUME Inv, NEW s \in Socket, NEW u \in User, AuthenticationSucceeds(s, u)
    PROVE  Inv'
<1> DEFINE client == clients[s]
           r == [Answered(s) EXCEPT !.authenticated = TRUE, !.deadlinePassed = FALSE,
                                    !.user = u]
<1>1. s \in replies /\ clients[s] # None
    BY DEF AuthenticationSucceeds, Inv, AnswersExpected, Clients
<1>2. /\ s \in Live(clients) /\ Proper(client) /\ client \in Client
      /\ client.authenticationPending
    BY <1>1, ProperClient
<1>3. ~ client.authenticated /\ client.user = None /\ ~ client.registered
    <2>1. ~ client.authenticated /\ client.user = None
        BY <1>2 DEF Proper, Client
    <2>2. client.registered => client.user \in User
        BY <1>2, ConnectionGateAssumption DEF Proper, Client
    <2> QED
        BY <2>1, <2>2, ConnectionGateAssumption
<1>4. /\ r \in Client
      /\ r.authenticated
      /\ ~ r.authenticationPending
      /\ r.user = u
      /\ r.address = client.address
      /\ r.receivedIds = client.receivedIds
      /\ r.receivedOrder = client.receivedOrder
      /\ r.registered = client.registered
      /\ r.device = client.device
    BY <1>2 DEF Client, Answered
<1>5. /\ clients' = [clients EXCEPT ![s] = r]
      /\ unauthenticated' = Lower(unauthenticated, 1)
      /\ accounts' = [accounts EXCEPT ![u] = @ \union {s}]
      /\ replies' = replies \ {s}
      /\ UNCHANGED <<running, byAddress, rememberedIds, devices>>
    BY DEF AuthenticationSucceeds
<1> HIDE DEF r
<1>6. Proper(r)
    <2>1. Window(r)
        BY <1>2, <1>4 DEF Proper, Window
    <2>2. r.user # None
        BY <1>4, ConnectionGateAssumption
    <2> QED
        BY <1>3, <1>4, <2>1, <2>2 DEF Proper
<1>7. Table(clients)
    BY DEF Inv, Sound
<1>8. /\ Table(clients')
      /\ Live(clients') = Live(clients)
      /\ clients'[s] = r
    <2>1. Table([clients EXCEPT ![s] = r])
        BY <1>2, <1>6, <1>7, TableWith
    <2>2. Live([clients EXCEPT ![s] = r]) = Live(clients)
        BY <1>2, <1>6, <1>7, TableWith
    <2>3. clients'[s] = r
        BY <1>2, <1>5, <1>7 DEF Table, Live
    <2> QED
        BY <1>5, <2>1, <2>2, <2>3
<1>9. \A t \in Live(clients) \ {s} : clients'[t] = clients[t]
    BY <1>5, <1>7 DEF Table, Live
<1>10. Counted(clients, unauthenticated, byAddress, rememberedIds)
    BY DEF Inv, Sound
<1>11. /\ unauthenticated' = Cardinality(Waiting(clients'))
       /\ unauthenticated' <= unauthenticated
    <2>1. Waiting(clients') = Waiting(clients) \ {s} /\ {s} \in SUBSET Waiting(clients)
        BY <1>2, <1>3, <1>4, <1>8, <1>9 DEF Waiting
    <2>2. IsFiniteSet(Waiting(clients))
        BY <1>10, FS_Subset DEF Waiting, Counted
    <2>3. unauthenticated = Cardinality(Waiting(clients))
        BY <1>10 DEF Counted
    <2>4. Cardinality({s}) = 1
        BY FS_Singleton
    <2>5. /\ Lower(Cardinality(Waiting(clients)), Cardinality({s})) = Cardinality(Waiting(clients'))
          /\ Cardinality(Waiting(clients')) <= Cardinality(Waiting(clients))
        BY <2>1, <2>2, LowerIsExact
    <2> QED
        BY <1>5, <2>3, <2>4, <2>5
<1>12. \A a \in Address : AtAddress(clients', a) = AtAddress(clients, a)
    BY <1>4, <1>8, <1>9 DEF AtAddress
<1>13. Remembered(clients', Live(clients')) = Remembered(clients, Live(clients))
    BY <1>4, <1>8, <1>9 DEF Remembered
<1>14. Counted(clients', unauthenticated', byAddress', rememberedIds')
    BY <1>5, <1>8, <1>10, <1>11, <1>12, <1>13 DEF Counted
<1>15. Indexed(clients', devices', accounts')
    <2>1. Indexed(clients, devices, accounts) /\ accounts \in [User -> SUBSET Socket]
        BY DEF Inv, Sound, Types
    <2>2. ASSUME NEW d \in Device, devices'[d] # None
          PROVE  /\ devices'[d] \in Live(clients')
                 /\ clients'[devices'[d]].registered
                 /\ clients'[devices'[d]].device = d
                 /\ clients'[devices'[d]].user = OwnerOf[d]
        <3>1. /\ devices[d] = devices'[d]
              /\ devices[d] \in Live(clients)
              /\ clients[devices[d]].registered
              /\ clients[devices[d]].device = d
              /\ clients[devices[d]].user = OwnerOf[d]
            BY <1>5, <2>1, <2>2 DEF Indexed
        <3>2. devices[d] # s
            BY <1>3, <3>1
        <3> QED
            BY <1>8, <1>9, <3>1, <3>2
    <2>3. \A t \in Live(clients') : clients'[t].registered =>
              devices'[clients'[t].device] = t \/ clients'[t].closing
        BY <1>3, <1>4, <1>5, <1>8, <1>9, <2>1 DEF Indexed
    <2>4. ASSUME NEW v \in User
          PROVE  accounts'[v] = {t \in Live(clients') : clients'[t].user = v}
        <3>1. accounts[v] = {t \in Live(clients) : clients[t].user = v}
            BY <2>1 DEF Indexed
        <3>2. CASE v = u
            <4>1. accounts'[v] = accounts[v] \union {s}
                BY <1>5, <2>1, <3>2
            <4> QED
                BY <1>2, <1>4, <1>8, <1>9, <3>1, <3>2, <4>1
        <3>3. CASE v # u
            <4>1. accounts'[v] = accounts[v]
                BY <1>5, <2>1, <3>3
            <4>2. v # None
                BY ConnectionGateAssumption
            <4> QED
                BY <1>3, <1>4, <1>8, <1>9, <3>1, <3>3, <4>1, <4>2
        <3> QED
            BY <3>2, <3>3
    <2> QED
        BY <2>2, <2>3, <2>4 DEF Indexed
<1>16. AnswersExpected'
    <2>1. replies = {t \in Live(clients) : clients[t].authenticationPending}
        BY TheTable DEF Inv, AnswersExpected
    <2>2. replies' = {t \in Live(clients') : clients'[t].authenticationPending}
        BY <1>4, <1>5, <1>8, <1>9, <2>1
    <2> QED
        BY <2>2 DEF AnswersExpected, Clients, Live
<1>17. Types'
    BY <1>5 DEF Inv, Types
<1>18. Limits'
    <2>1. unauthenticated \in Nat /\ unauthenticated' \in Nat
        <3>1. IsFiniteSet(Waiting(clients)) /\ unauthenticated = Cardinality(Waiting(clients))
            BY <1>10, FS_Subset DEF Counted, Waiting
        <3> QED
            BY <1>5, <3>1, FS_CardinalityType DEF Lower
    <2> QED
        BY <1>5, <1>11, <2>1, ConnectionGateAssumption DEF Inv, Limits
<1> QED
    BY <1>8, <1>14, <1>15, <1>16, <1>17, <1>18 DEF Inv, Sound

\* OnDisconnected, for any connections at once.
LEMMA DisconnectKeepsInv ==
    ASSUME Inv, NEW lost \in SUBSET Live(clients), Disconnect(lost), UNCHANGED running
    PROVE  Inv'
<1>1. /\ Table(clients)
      /\ Counted(clients, unauthenticated, byAddress, rememberedIds)
      /\ Indexed(clients, devices, accounts)
      /\ devices \in [Device -> Socket \union {None}]
    BY DEF Inv, Sound, Types
<1>2. /\ clients' = Without(clients, lost)
      /\ unauthenticated' = Lower(unauthenticated,
                                  Cardinality({s \in lost : ~ clients[s].authenticated}))
      /\ byAddress' = [a \in Address |->
             Lower(byAddress[a], Cardinality({s \in lost : clients[s].address = a}))]
      /\ rememberedIds' = Lower(rememberedIds, Cardinality(Remembered(clients, lost)))
      /\ devices' = [d \in Device |->
             IF devices[d] \in lost /\ clients[devices[d]].registered
             THEN None ELSE devices[d]]
      /\ accounts' = [u \in User |-> accounts[u] \ lost]
      /\ replies' = replies \ lost
    BY DEF Disconnect, Without, Remembered, RememberedBy, LowerUnauthenticated,
           LowerAddresses, LowerRememberedIds, ReleaseDevices,
           RemoveAccountConnections, CancelReplies
<1>3. /\ Counted(clients', unauthenticated', byAddress', rememberedIds')
      /\ unauthenticated' <= unauthenticated
      /\ \A a \in Address : byAddress'[a] <= byAddress[a]
    BY <1>1, <1>2, CountedWithout
<1>4. Indexed(clients', devices', accounts')
    BY <1>1, <1>2, IndexedWithout
<1>5. /\ Table(clients')
      /\ Live(clients') = Live(clients) \ lost
      /\ \A s \in Live(clients) \ lost : clients'[s] = clients[s]
    BY <1>1, <1>2, TableWithout DEF Live
<1>6. AnswersExpected'
    <2>1. replies = {t \in Live(clients) : clients[t].authenticationPending}
        BY TheTable DEF Inv, AnswersExpected
    <2>2. replies' = {t \in Live(clients') : clients'[t].authenticationPending}
        BY <1>2, <1>5, <2>1
    <2> QED
        BY <2>2 DEF AnswersExpected, Clients, Live
<1>7. Types'
    BY <1>2 DEF Inv, Types
<1>8. Limits'
    BY <1>1, <1>3, CountsAreNumbers, ConnectionGateAssumption DEF Inv, Limits
<1> QED
    BY <1>3, <1>4, <1>5, <1>6, <1>7, <1>8 DEF Inv, Sound

\* A connection that is lost, and those the maintenance sweep aborts.
LEMMA LossesKeepInv ==
    ASSUME Inv
    PROVE  /\ \A s \in Socket : OnDisconnected(s) => Inv'
           /\ SweepIdleClients => Inv'
<1>1. ASSUME NEW s \in Socket, OnDisconnected(s)
      PROVE  Inv'
    <2>1. {s} \in SUBSET Live(clients)
        BY <1>1 DEF OnDisconnected, Live
    <2> QED
        BY <1>1, <2>1, DisconnectKeepsInv DEF OnDisconnected
<1>2. ASSUME SweepIdleClients
      PROVE  Inv'
    <2>1. Expired \in SUBSET Live(clients)
        BY DEF Expired, Clients, Live
    <2> QED
        BY <1>2, <2>1, DisconnectKeepsInv DEF SweepIdleClients
<1> QED
    BY <1>1, <1>2

\* The accounts' sockets are told to close before they are gone.
LEMMA DeletionKeepsInv ==
    ASSUME Inv, NEW u \in User, DeleteLocalAccount(u)
    PROVE  Inv'
<1> DEFINE doomed == {s \in Clients : clients[s].user = u}
           told(s) == [clients[s] EXCEPT !.closing = TRUE]
<1>1. /\ devices' = [d \in Device |->
             IF \E s \in doomed : clients[s].registered /\ clients[s].device = d
             THEN None ELSE devices[d]]
      /\ clients' = [s \in Socket |-> IF s \in doomed THEN told(s) ELSE clients[s]]
      /\ UNCHANGED <<running, unauthenticated, byAddress, rememberedIds, accounts, replies>>
    BY DEF DeleteLocalAccount
<1>2. /\ clients \in [Socket -> Client \union {None}]
      /\ \A s \in Live(clients) : Proper(clients[s])
    BY DEF Inv, Sound, Table
<1>3. ASSUME NEW s \in Live(clients)
      PROVE  /\ told(s) \in Client
             /\ told(s).closing
             /\ told(s).receivedIds = clients[s].receivedIds
             /\ told(s).receivedOrder = clients[s].receivedOrder
             /\ told(s).authenticated = clients[s].authenticated
             /\ told(s).authenticationPending = clients[s].authenticationPending
             /\ told(s).user = clients[s].user
             /\ told(s).registered = clients[s].registered
             /\ told(s).device = clients[s].device
             /\ told(s).address = clients[s].address
    <2>1. clients[s] \in Client
        BY <1>2 DEF Proper
    <2> QED
        BY <2>1 DEF Client
<1>4. ASSUME NEW s \in Live(clients)
      PROVE  Proper(told(s))
    <2>1. Proper(clients[s])
        BY <1>2
    <2> HIDE DEF told
    <2> QED
        BY <1>3, <2>1, StillProper DEF Proper
<1>5. doomed \subseteq Live(clients)
    BY TheTable
<1>6. \A s \in Socket : clients'[s] = IF s \in doomed THEN told(s) ELSE clients[s]
    BY <1>1
<1>7. \A s \in Live(clients) : told(s) # None
    BY <1>3, NoneIsNoClient
<1> HIDE DEF told
<1>8. /\ Live(clients') = Live(clients)
      /\ \A s \in Live(clients) : clients'[s] = IF s \in doomed THEN told(s) ELSE clients[s]
    BY <1>5, <1>6, <1>7 DEF Live
<1>9. Table(clients')
    <2>1. clients' \in [Socket -> Client \union {None}]
        <3>1. \A s \in Socket : clients'[s] \in Client \union {None}
            BY <1>2, <1>3, <1>5, <1>6
        <3> QED
            BY <1>1, <3>1
    <2> QED
        BY <1>2, <1>4, <1>8, <2>1 DEF Table
<1>10. \A s \in Live(clients) :
           /\ clients'[s].receivedIds = clients[s].receivedIds
           /\ clients'[s].authenticated = clients[s].authenticated
           /\ clients'[s].authenticationPending = clients[s].authenticationPending
           /\ clients'[s].user = clients[s].user
           /\ clients'[s].registered = clients[s].registered
           /\ clients'[s].device = clients[s].device
           /\ clients'[s].address = clients[s].address
           /\ clients[s].closing => clients'[s].closing
    BY <1>3, <1>8
<1>11. Counted(clients', unauthenticated', byAddress', rememberedIds')
    <2>1. Counted(clients, unauthenticated, byAddress, rememberedIds)
        BY DEF Inv, Sound
    <2>2. Waiting(clients') = Waiting(clients)
        BY <1>8, <1>10 DEF Waiting
    <2>3. \A a \in Address : AtAddress(clients', a) = AtAddress(clients, a)
        BY <1>8, <1>10 DEF AtAddress
    <2>4. Remembered(clients', Live(clients')) = Remembered(clients, Live(clients))
        BY <1>8, <1>10 DEF Remembered
    <2> QED
        BY <1>1, <1>8, <2>1, <2>2, <2>3, <2>4 DEF Counted
<1>12. Indexed(clients', devices', accounts')
    <2>1. Indexed(clients, devices, accounts)
        BY DEF Inv, Sound
    <2>2. ASSUME NEW d \in Device
          PROVE  devices'[d] = IF \E s \in doomed : clients[s].registered
                                                    /\ clients[s].device = d
                               THEN None ELSE devices[d]
        BY <1>1
    <2>3. ASSUME NEW d \in Device, devices'[d] # None
          PROVE  /\ devices'[d] \in Live(clients')
                 /\ clients'[devices'[d]].registered
                 /\ clients'[devices'[d]].device = d
                 /\ clients'[devices'[d]].user = OwnerOf[d]
        <3>1. devices'[d] = devices[d] /\ devices[d] # None
            BY <2>2, <2>3
        <3>2. /\ devices[d] \in Live(clients)
              /\ clients[devices[d]].registered
              /\ clients[devices[d]].device = d
              /\ clients[devices[d]].user = OwnerOf[d]
            BY <2>1, <3>1 DEF Indexed
        <3> QED
            BY <1>8, <1>10, <3>1, <3>2
    <2>4. ASSUME NEW s \in Live(clients'), clients'[s].registered
          PROVE  devices'[clients'[s].device] = s \/ clients'[s].closing
        <3>1. s \in Live(clients) /\ clients[s].registered
            BY <1>8, <1>10, <2>4
        <3>2. CASE s \in doomed
            BY <1>3, <1>8, <3>1, <3>2
        <3>3. CASE s \notin doomed
            <4>1. devices[clients[s].device] = s \/ clients[s].closing
                BY <2>1, <3>1 DEF Indexed
            <4>2. CASE clients[s].closing
                BY <1>10, <3>1, <4>2
            <4>3. CASE devices[clients[s].device] = s
                <5> DEFINE d == clients[s].device
                <5>1. d \in Device /\ clients[s].user = OwnerOf[d]
                    BY <1>2, <3>1 DEF Proper, Client
                <5>2. ASSUME NEW t \in doomed, clients[t].registered, clients[t].device = d
                      PROVE  FALSE
                    <6>1. clients[t].user = u /\ clients[t].user = OwnerOf[d]
                        BY <1>2, <1>5, <5>2 DEF Proper
                    <6>2. s \in doomed
                        BY <3>1, <5>1, <6>1, TheTable
                    <6> QED
                        BY <3>3, <6>2
                <5>3. devices'[d] = devices[d]
                    BY <2>2, <5>1, <5>2
                <5> QED
                    BY <1>10, <3>1, <4>3, <5>3
            <4> QED
                BY <4>1, <4>2, <4>3
        <3> QED
            BY <3>2, <3>3
    <2>5. ASSUME NEW v \in User
          PROVE  accounts'[v] = {t \in Live(clients') : clients'[t].user = v}
        <3>1. accounts[v] = {t \in Live(clients) : clients[t].user = v}
            BY <2>1 DEF Indexed
        <3> QED
            BY <1>1, <1>8, <1>10, <3>1
    <2> QED
        BY <2>3, <2>4, <2>5 DEF Indexed
<1>13. AnswersExpected'
    <2>1. replies = {t \in Live(clients) : clients[t].authenticationPending}
        BY TheTable DEF Inv, AnswersExpected
    <2>2. replies' = {t \in Live(clients') : clients'[t].authenticationPending}
        BY <1>1, <1>8, <1>10, <2>1
    <2> QED
        BY <2>2 DEF AnswersExpected, Clients, Live
<1>14. Types'
    BY <1>1 DEF Inv, Types
<1>15. Limits'
    BY <1>1 DEF Inv, Limits
<1> QED
    BY <1>9, <1>11, <1>12, <1>13, <1>14, <1>15 DEF Inv, Sound

\* A registration ends the one before it and takes its place.
LEMMA RegistrationKeepsInv ==
    ASSUME Inv, NEW s \in Socket, NEW id \in MessageId, NEW d \in Device,
           HandleRegister(s, id, d)
    PROVE  Inv'
<1> DEFINE heard == [RememberMessageId(clients[s], id) EXCEPT !.idle = FALSE]
           r == [heard EXCEPT !.registered = TRUE, !.device = d]
           dropped == {p \in {devices[d]} \ {None} : clients[p] # None}
           c1 == Without(clients, dropped)
           waiting1 == Lower(unauthenticated,
                             Cardinality({t \in dropped : ~ clients[t].authenticated}))
           at1 == [a \in Address |->
                      Lower(byAddress[a], Cardinality({t \in dropped : clients[t].address = a}))]
           ids1 == Lower(rememberedIds, Cardinality(Remembered(clients, dropped)))
           held1 == [e \in Device |->
                        IF devices[e] \in dropped /\ clients[devices[e]].registered
                        THEN None ELSE devices[e]]
           joined1 == [u \in User |-> accounts[u] \ dropped]
<1>1. /\ Table(clients)
      /\ Counted(clients, unauthenticated, byAddress, rememberedIds)
      /\ Indexed(clients, devices, accounts)
      /\ devices \in [Device -> Socket \union {None}]
    BY DEF Inv, Sound, Types
<1>2. /\ s \in Live(clients) /\ Proper(clients[s])
      /\ clients[s].authenticated /\ ~ clients[s].registered
      /\ OwnerOf[d] = clients[s].user
      /\ id \notin clients[s].receivedIds
    BY ProperClient DEF HandleRegister, Hears
<1>3. /\ dropped \in SUBSET Live(clients)
      /\ \A p \in dropped : p = devices[d] /\ p # s /\ clients[p].device = d
      /\ devices[d] # None => dropped = {devices[d]}
      /\ devices[d] = None => dropped = {}
    BY <1>1, <1>2 DEF Indexed, Live
<1>4. /\ Proper(heard)
      /\ heard.address = clients[s].address
      /\ heard.closing = clients[s].closing
      /\ heard.authenticated = clients[s].authenticated
      /\ heard.authenticationPending = clients[s].authenticationPending
      /\ heard.user = clients[s].user
    BY <1>2, HeardIsProper
<1>5. heard = Heard(s, id)
    BY DEF Heard
<1> HIDE DEF heard
<1>6. /\ r \in Client
      /\ r.registered
      /\ r.device = d
      /\ r.receivedIds = heard.receivedIds
      /\ r.receivedOrder = heard.receivedOrder
      /\ r.authenticationPending = heard.authenticationPending
      /\ r.address = heard.address
      /\ r.closing = heard.closing
      /\ r.authenticated = heard.authenticated
      /\ r.user = heard.user
    BY <1>4 DEF Client, Proper
<1>7. /\ clients' = [t \in Socket |-> IF t = s THEN r
                                       ELSE IF t \in dropped THEN None ELSE clients[t]]
      /\ rememberedIds' = ids1 + Cardinality(r.receivedIds)
                              - Cardinality(clients[s].receivedIds)
      /\ unauthenticated' = waiting1
      /\ byAddress' = at1
      /\ devices' = [devices EXCEPT ![d] = s]
      /\ accounts' = joined1
      /\ replies' = replies \ dropped
      /\ UNCHANGED running
    BY <1>5 DEF HandleRegister, Remembered, RememberedBy, LowerUnauthenticated,
                LowerAddresses, LowerRememberedIds, RemoveAccountConnections, CancelReplies
<1>8. /\ Counted(c1, waiting1, at1, ids1)
      /\ waiting1 <= unauthenticated
      /\ \A a \in Address : at1[a] <= byAddress[a]
    BY <1>1, <1>3, CountedWithout
<1>9. Indexed(c1, held1, joined1)
    BY <1>1, <1>3, IndexedWithout
<1>10. /\ Table(c1)
       /\ Live(c1) = Live(clients) \ dropped
       /\ \A t \in Live(clients) \ dropped : c1[t] = clients[t]
    BY <1>1, <1>3, TableWithout DEF Live
<1>11. /\ held1[d] = None
       /\ \A e \in Device \ {d} : held1[e] = devices[e]
    <2>1. held1[d] = None
        BY <1>1, <1>3 DEF Indexed
    <2>2. ASSUME NEW e \in Device \ {d}
          PROVE  held1[e] = devices[e]
        <3>1. devices[e] \notin dropped
            BY <1>1, <1>3, NoneIsNoSocket DEF Indexed, Live
        <3> QED
            BY <3>1
    <2> QED
        BY <2>1, <2>2
<1>12. \A t \in Socket : c1[t] = IF t \in dropped THEN None ELSE clients[t]
    BY DEF Without
<1>13. s \in Socket /\ s \notin dropped /\ s \in Live(c1) /\ c1[s] = clients[s]
    BY <1>2, <1>3, <1>10
<1> HIDE DEF r, dropped, c1, waiting1, at1, ids1, held1, joined1
<1>14. clients' = [c1 EXCEPT ![s] = r]
    <2>1. \A t \in Socket : clients'[t] = IF t = s THEN r ELSE c1[t]
        BY <1>7, <1>12
    <2>2. c1 \in [Socket -> Client \union {None}]
        BY <1>10 DEF Table
    <2>3. clients' = [t \in Socket |-> clients'[t]]
        BY <1>7
    <2> QED
        BY <2>1, <2>2, <2>3
<1>15. Proper(r)
    <2>1. Window(r)
        BY <1>4, <1>6 DEF Proper, Window
    <2>2. r.user = OwnerOf[d] /\ r.device # None
        BY <1>2, <1>4, <1>6, ConnectionGateAssumption
    <2> QED
        BY <1>4, <1>6, <2>1, <2>2 DEF Proper
<1>16. Counted(clients', unauthenticated', byAddress', rememberedIds')
    <2>1. r.address = c1[s].address /\ r.authenticated = c1[s].authenticated
        BY <1>4, <1>6, <1>13
    <2>2. Counted([c1 EXCEPT ![s] = r], waiting1, at1,
                  ids1 + Cardinality(r.receivedIds) - Cardinality(c1[s].receivedIds))
        BY <1>8, <1>10, <1>13, <1>15, <2>1, CountedWith
    <2> QED
        BY <1>7, <1>13, <1>14, <2>2
<1>17. Table(clients') /\ Live(clients') = Live(c1)
    BY <1>10, <1>13, <1>14, <1>15, TableWith
<1>18. clients'[s] = r /\ \A t \in Live(c1) \ {s} : clients'[t] = c1[t]
    BY <1>10, <1>13, <1>14 DEF Table, Live
<1>19. Indexed(clients', devices', accounts')
    <2>1. ASSUME NEW e \in Device, devices'[e] # None
          PROVE  /\ devices'[e] \in Live(clients')
                 /\ clients'[devices'[e]].registered
                 /\ clients'[devices'[e]].device = e
                 /\ clients'[devices'[e]].user = OwnerOf[e]
        <3>1. CASE e = d
            <4>1. devices'[e] = s
                BY <1>1, <1>7, <3>1
            <4> QED
                BY <1>2, <1>4, <1>6, <1>13, <1>17, <1>18, <3>1, <4>1
        <3>2. CASE e # d
            <4>1. devices'[e] = held1[e]
                BY <1>1, <1>7, <1>11, <3>2
            <4>2. /\ held1[e] \in Live(c1)
                  /\ c1[held1[e]].registered
                  /\ c1[held1[e]].device = e
                  /\ c1[held1[e]].user = OwnerOf[e]
                BY <1>9, <2>1, <4>1 DEF Indexed
            <4>3. held1[e] # s
                BY <1>2, <1>13, <4>2
            <4> QED
                BY <1>17, <1>18, <4>1, <4>2, <4>3
        <3> QED
            BY <3>1, <3>2
    <2>2. ASSUME NEW t \in Live(clients'), clients'[t].registered
          PROVE  devices'[clients'[t].device] = t \/ clients'[t].closing
        <3>1. CASE t = s
            BY <1>1, <1>6, <1>7, <1>18, <3>1
        <3>2. CASE t # s
            <4>1. t \in Live(c1) /\ clients'[t] = c1[t]
                BY <1>17, <1>18, <3>2
            <4>2. held1[c1[t].device] = t \/ c1[t].closing
                BY <1>9, <2>2, <4>1 DEF Indexed
            <4>3. CASE held1[c1[t].device] = t
                <5>1. c1[t].device \in Device /\ t # None
                    BY <1>10, <2>2, <4>1, NoneIsNoSocket DEF Table, Proper, Client, Live
                <5>2. c1[t].device # d
                    BY <1>11, <4>3, <5>1
                <5>3. devices'[c1[t].device] = held1[c1[t].device]
                    BY <1>1, <1>7, <1>11, <5>1, <5>2
                <5> QED
                    BY <4>1, <4>3, <5>3
            <4>4. CASE c1[t].closing
                BY <4>1, <4>4
            <4> QED
                BY <4>2, <4>3, <4>4
        <3> QED
            BY <3>1, <3>2
    <2>3. ASSUME NEW u \in User
          PROVE  accounts'[u] = {t \in Live(clients') : clients'[t].user = u}
        <3>1. accounts'[u] = {t \in Live(c1) : c1[t].user = u}
            BY <1>7, <1>9 DEF Indexed
        <3>2. r.user = c1[s].user
            BY <1>4, <1>6, <1>13
        <3>3. \A t \in Live(c1) : clients'[t].user = c1[t].user
            BY <1>18, <3>2
        <3> QED
            BY <1>17, <3>1, <3>3
    <2> QED
        BY <2>1, <2>2, <2>3 DEF Indexed
<1>20. AnswersExpected'
    <2>1. replies = {t \in Live(clients) : clients[t].authenticationPending}
        BY TheTable DEF Inv, AnswersExpected
    <2>2. \A t \in Live(c1) : clients'[t].authenticationPending = clients[t].authenticationPending
        BY <1>4, <1>6, <1>10, <1>13, <1>18
    <2>3. replies' = {t \in Live(clients') : clients'[t].authenticationPending}
        BY <1>7, <1>10, <1>17, <2>1, <2>2
    <2> QED
        BY <2>3 DEF AnswersExpected, Clients, Live
<1>21. Types'
    <2>1. devices' \in [Device -> Socket \union {None}]
        BY <1>1, <1>7
    <2>2. accounts' \in [User -> SUBSET Socket] /\ replies' \subseteq Socket
        BY <1>7 DEF Inv, Types, joined1
    <2> QED
        BY <1>7, <2>1, <2>2 DEF Inv, Types
<1>22. Limits'
    BY <1>1, <1>7, <1>8, CountsAreNumbers, ConnectionGateAssumption DEF Inv, Limits
<1> QED
    BY <1>16, <1>17, <1>19, <1>20, <1>21, <1>22 DEF Inv, Sound

\* A server that stops forgets everything at once.
LEMMA StopKeepsInv ==
    ASSUME Inv, Stop
    PROVE  Inv'
<1>1. /\ clients' = [s \in Socket |-> None]
      /\ unauthenticated' = 0 /\ byAddress' = [a \in Address |-> 0]
      /\ rememberedIds' = 0 /\ devices' = [d \in Device |-> None]
      /\ accounts' = [u \in User |-> {}] /\ replies' = {}
      /\ running' = FALSE
    BY DEF Stop
<1>2. Live(clients') = {}
    BY <1>1 DEF Live
<1>3. Table(clients')
    BY <1>1, <1>2 DEF Table
<1>4. Counted(clients', unauthenticated', byAddress', rememberedIds')
    BY <1>1, <1>2, FS_EmptySet DEF Counted, Waiting, AtAddress, Remembered
<1>5. Indexed(clients', devices', accounts')
    BY <1>1, <1>2 DEF Indexed
<1>6. Types'
    BY <1>1 DEF Types
<1>7. Limits'
    <2>1. MaximumUnauthenticatedConnections \in Nat /\ MaximumConnectionsPerIp \in Nat
        BY ConnectionGateAssumption
    <2> QED
        BY <1>1, <2>1 DEF Limits
<1>8. AnswersExpected'
    BY <1>1, <1>2 DEF AnswersExpected, Clients, Live
<1> QED
    BY <1>3, <1>4, <1>5, <1>6, <1>7, <1>8 DEF Inv, Sound

\* The invariant holds of a server that just started,
LEMMA InitInv == Init => Inv
<1> SUFFICES ASSUME Init
             PROVE  Inv
    OBVIOUS
<1>1. Live(clients) = {}
    BY DEF Live, Init
<1>2. Table(clients)
    BY <1>1 DEF Table, Init
<1>3. Counted(clients, unauthenticated, byAddress, rememberedIds)
    BY <1>1, FS_EmptySet DEF Counted, Waiting, AtAddress, Remembered, Init
<1>4. Indexed(clients, devices, accounts)
    BY <1>1 DEF Indexed, Init
<1>5. Types /\ Limits
    BY ConnectionGateAssumption DEF Types, Limits, Init
<1>6. AnswersExpected
    BY <1>1 DEF AnswersExpected, Clients, Live, Init
<1> QED
    BY <1>2, <1>3, <1>4, <1>5, <1>6 DEF Inv, Sound

\* every step keeps it,
LEMMA InvInductive ==
    ASSUME Inv, [Next]_vars
    PROVE  Inv'
<1>1. ASSUME NEW s \in Socket, NEW a \in Address, AcceptConnection(s, a)
      PROVE  Inv'
    BY <1>1, AcceptanceKeepsInv
<1>2. ASSUME NEW s \in Socket, OnTextMessage(s)
      PROVE  Inv'
    BY <1>2, HearingKeepsInv, RegistrationKeepsInv DEF OnTextMessage
<1>3. ASSUME NEW s \in Socket, ProviderAnswers(s)
      PROVE  Inv'
    BY <1>3, AuthenticationKeepsInv, AsideKeepsInv DEF ProviderAnswers
<1>4. ASSUME NEW s \in Socket, DeadlinePasses(s) \/ FallsIdle(s)
      PROVE  Inv'
    BY <1>4, AsideKeepsInv
<1>5. ASSUME NEW s \in Socket, OnDisconnected(s)
      PROVE  Inv'
    BY <1>5, LossesKeepInv
<1>6. ASSUME SweepIdleClients
      PROVE  Inv'
    BY <1>6, LossesKeepInv
<1>7. ASSUME NEW u \in User, DeleteLocalAccount(u)
      PROVE  Inv'
    BY <1>7, DeletionKeepsInv
<1>8. ASSUME Stop
      PROVE  Inv'
    BY <1>8, StopKeepsInv
<1>9. ASSUME Start
      PROVE  Inv'
    BY <1>9 DEF Start, Inv, Types, Limits, AnswersExpected, Clients
<1>10. ASSUME UNCHANGED vars
       PROVE  Inv'
    BY <1>10 DEF vars, Inv, Types, Limits, AnswersExpected, Clients
<1> QED
    BY <1>1, <1>2, <1>3, <1>4, <1>5, <1>6, <1>7, <1>8, <1>9, <1>10 DEF Next

\* and so it always holds.
LEMMA InvInvariant == Spec => []Inv
BY InitInv, InvInductive, PTL DEF Spec

-----------------------------------------------------------------------------
(***************************************************************************)
(* The results.                                                            *)
(***************************************************************************)

\* The variables have their types, the counters keep to the limits of
\* AcceptConnections, and the set and the queue of each window of message ids
\* hold the same ids, each once and no more than the window allows.
THEOREM GateTypes == Spec => []TypeOK
<1>1. ASSUME Inv
      PROVE  TypeOK
    <2>1. /\ unauthenticated \in Nat /\ byAddress \in [Address -> Nat]
          /\ rememberedIds \in Nat
        BY <1>1, CountsAreNumbers DEF Inv, Sound
    <2>2. /\ unauthenticated \in 0 .. MaximumUnauthenticatedConnections
          /\ byAddress \in [Address -> 0 .. MaximumConnectionsPerIp]
        BY <1>1, <2>1, ConnectionGateAssumption DEF Inv, Limits
    <2>3. ASSUME NEW s \in Clients
          PROVE  LET order == clients[s].receivedOrder
                 IN  /\ clients[s].receivedIds = ToSet(order)
                     /\ Cardinality(ToSet(order)) = Len(order)
                     /\ Len(order) <= MaximumRememberedMessageIds
        <3>1. clients[s] \in Client /\ Window(clients[s])
            BY <1>1, TheTable DEF Inv, Sound, Table, Proper
        <3>2. Cardinality(clients[s].receivedIds) = Len(clients[s].receivedOrder)
            BY <3>1, WindowSize
        <3> QED
            BY <3>1, <3>2 DEF Window
    <2> QED
        BY <1>1, <2>1, <2>2, <2>3 DEF TypeOK, Inv, Types, Sound, Table
<1> QED
    BY <1>1, InvInvariant, PTL

\* The counters the limits go by are exact: of the connections that have not
\* authenticated, of those of each address, and of the message ids remembered.
THEOREM CountersExact == Spec => []CountersAgree
<1>1. ASSUME Inv
      PROVE  CountersAgree
    BY <1>1, TheTable DEF Inv, Sound, Counted, CountersAgree, Waiting, AtAddress,
                          Remembered, RememberedBy
<1> QED
    BY <1>1, InvInvariant, PTL

\* The entries of devices and of accounts name live connections, the right
\* ones, and every registered connection that is not being closed has its own.
THEOREM IndexesTrue == Spec => []IndexesAgree
<1>1. ASSUME Inv
      PROVE  IndexesAgree
    <2>1. Indexed(clients, devices, accounts)
        BY <1>1 DEF Inv, Sound
    <2>2. ASSUME NEW d \in Device, devices[d] # None
          PROVE  /\ clients[devices[d]] # None
                 /\ clients[devices[d]].registered
                 /\ clients[devices[d]].device = d
                 /\ clients[devices[d]].user = OwnerOf[d]
        BY <2>1, <2>2 DEF Indexed, Live
    <2> QED
        BY <2>1, <2>2, TheTable DEF Indexed, IndexesAgree
<1> QED
    BY <1>1, InvInvariant, PTL

\* The provider owes an answer to exactly the live connections that wait.
THEOREM AnswersAwaited == Spec => []AnswersExpected
<1>1. Inv => AnswersExpected
    BY DEF Inv
<1> QED
    BY <1>1, InvInvariant, PTL
=============================================================================
