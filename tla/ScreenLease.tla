---------------------------- MODULE ScreenLease ----------------------------
(***************************************************************************)
(* What the signaling server promises about the screen of one room: a      *)
(* lease that at most one device holds at a time, fenced by an epoch, and  *)
(* under it at most one controller, which is never the holder and never    *)
(* outlives the holder's lease.                                            *)
(***************************************************************************)
EXTENDS ServerIds

VARIABLES
    phase,       \* "closed" (no room), "free", "offered" or "held"
    holder,      \* whom the lease is offered to or held by, None if free
    controller,  \* who may drive the holder's screen
    epoch        \* the number of the current lease

lease == <<phase, holder, controller, epoch>>

Closed == <<"closed", None, None, 0>>

Free(e) == <<"free", None, None, e>>

Init == lease = Closed

Open == /\ lease = Closed
        /\ lease' = Free(0)

Close == lease' = Closed

\* A new lease: it ends the old one and whatever control was given under it.
Offer == /\ phase # "closed"
         /\ \E d \in Device : lease' = <<"offered", d, None, epoch + 1>>

\* The device the lease is offered to takes it up.
Take == /\ phase = "offered"
        /\ lease' = <<"held", holder, controller, epoch>>

\* The lease ends and nobody holds the screen.
End == /\ phase \in {"offered", "held"}
       /\ lease' = Free(epoch + 1)

GiveControl ==
    /\ phase = "held"
    /\ controller = None
    /\ \E c \in Device \ {holder} : lease' = <<"held", holder, c, epoch>>

RevokeControl ==
    /\ controller # None
    /\ lease' = <<phase, holder, None, epoch>>

Next == Open \/ Close \/ Offer \/ Take \/ End \/ GiveControl \/ RevokeControl

Spec == Init /\ [][Next]_lease

TypeOK ==
    /\ phase \in {"closed", "free", "offered", "held"}
    /\ holder \in DeviceOrNone
    /\ controller \in DeviceOrNone
    /\ epoch \in Nat

\* Control exists only under a held lease, and never in the holder's hands.
ControlUnderLease ==
    /\ controller # None => phase = "held" /\ controller # holder
    /\ holder # None <=> phase \in {"offered", "held"}
=============================================================================
