---------------------------- MODULE MCAftenMain ----------------------------
(* Instances of AftenMain for TLC. *)
EXTENDS AftenMain

\* Empty and tiny inputs, and both sides of every multiple of the frame, of the
\* padding limit and of the initial samples.
BoundaryLengths ==
    {0, 1, 255, 256, 257} \cup
    {f * 1536 + d : f \in 0 .. 5, d \in {0, 1, 255, 256, 257, 1279, 1280, 1281, 1535}}
=============================================================================
