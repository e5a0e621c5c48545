--------------------------- MODULE MCApplications ----------------------------
\* An instance of Applications for TLC.
EXTENDS Applications, TLC

CONSTANTS u1, u2, user_1, user_2

MCBound == u1 :> user_1 @@ u2 :> user_2

\* Refreshes of one instance are interchangeable.
Symmetry == Permutations(Refresh)
=============================================================================
