------------------------------ MODULE MCGateway -----------------------------
(* Instances of GatewayProperties for TLC. *)
EXTENDS GatewayProperties, TLC

CONSTANTS f1, f2, f3, k1, k2, k3, s1, s2, r1, r2, w

\* Faces, keys, subjects and requests are interchangeable; legacy faces are
\* not interchangeable with the others.
Symmetry ==
  Permutations(Face \ Legacy) \cup Permutations(Key)
    \cup Permutations(Subject) \cup Permutations(Request)
=============================================================================
