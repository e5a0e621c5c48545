----------------------------- MODULE MCFacePages ----------------------------
\* An instance of FacePages for TLC: seven faces, pages of two.
EXTENDS FacePages

MCFace == 1 .. 7
MCMine == {1, 2, 4, 5, 6, 7}
=============================================================================
