----------------------------- MODULE Engagement -----------------------------
(***************************************************************************)
(* What the signaling server promises about engagements: a device is free, *)
(* in one room, or in a session with one peer.  The two ends of a session  *)
(* enter and leave it together; a device goes from one engagement to       *)
(* another through being free, except that a device which starts afresh    *)
(* gives up its stale room in the step that takes it into its new one.     *)
(***************************************************************************)
EXTENDS ServerIds

VARIABLE place   \* place[d]: None, a room id, or the peer of d's session

Init == place = [d \in Device |-> None]

\* S holds a session's ends both or not at all.
ClosedUnderPeers(S) ==
    \A d \in S : place[d] \in Device => place[d] \in S

Freed(S) == [d \in Device |-> IF d \in S THEN None ELSE place[d]]

\* Members leave, rooms close, sessions end.
Release == \E S \in SUBSET Device :
    /\ ClosedUnderPeers(S)
    /\ place' = Freed(S)

\* A device enters a room; if it was in another one, it leaves that one, and
\* takes along those that its leaving puts out.
Enter == \E S \in SUBSET Device, d \in Device, r \in RoomId :
    /\ \A m \in S : place[m] \in RoomId
    /\ Freed(S)[d] = None
    /\ place' = [Freed(S) EXCEPT ![d] = r]

\* A session begins between two free devices.
Pair == \E a, b \in Device :
    /\ a # b
    /\ place[a] = None
    /\ place[b] = None
    /\ place' = [place EXCEPT ![a] = b, ![b] = a]

Next == Release \/ Enter \/ Pair

Spec == Init /\ [][Next]_place

\* Sessions are mutual: who is engaged with a peer is the peer's peer.
PeersMutual ==
    \A a \in Device : place[a] \in Device => place[place[a]] = a
=============================================================================
