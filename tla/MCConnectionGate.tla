------------------------- MODULE MCConnectionGate --------------------------
(***************************************************************************)
(* Instances of ConnectionGate.                                            *)
(***************************************************************************)
EXTENDS ConnectionGate

CONSTANTS u1, u2,   \* users
          d1, d2    \* a device of each

MCOwnerOf == [d \in {d1, d2} |-> IF d = d1 THEN u1 ELSE u2]
=============================================================================
