-------------------------- MODULE MCSerialEncoder --------------------------
(* Instances of SerialEncoder for TLC. *)
EXTENDS SerialEncoder

\* Full frames, the two sides of the padding limit, flush, out of range.
BoundaryCounts == {-1, 0, 1, 1280, 1281, 1535, 1536, 1537}
=============================================================================
