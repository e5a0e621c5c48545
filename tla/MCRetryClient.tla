---------------------------- MODULE MCRetryClient ----------------------------
\* Instances of RetryClient for TLC.
EXTENDS RetryClient, TLC

CONSTANTS c1, c2, s1, s2

\* Calls of one instance are interchangeable, and so are subjects.
Symmetry == Permutations(Call) \cup Permutations(Subject)
=============================================================================
