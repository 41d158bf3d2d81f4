--------------------------- MODULE MCRateLimiter ---------------------------
(***************************************************************************)
(* Instances of RateLimiter.                                               *)
(***************************************************************************)
EXTENDS RateLimiter, TLC

CONSTANTS address, device,   \* the two limiters
          proxy,             \* the only address
          k1, k2, k3         \* devices; a request may have none

DeviceRequest(k) == [l \in {address, device} |-> IF l = address THEN proxy ELSE k]

MCRequests == {DeviceRequest(k) : k \in {k1, k2, k3, NoKey}}

Symmetry == Permutations({k1, k2, k3})
=============================================================================
