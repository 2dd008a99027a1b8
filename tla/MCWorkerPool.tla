---------------------------- MODULE MCWorkerPool ----------------------------
(* Instances of WorkerPool for TLC. *)
EXTENDS WorkerPool

\* Full frames, the two sides of the padding limit, flush, and a count that is
\* out of range.
BoundaryCounts == {0, 1280, 1281, 1536, 1537}
=============================================================================
