--------------------------- MODULE MCFrameEncoder ---------------------------
(* An instance of FrameEncoder for TLC. *)
EXTENDS FrameEncoder

(* Short of a frame, a frame, and one with a remainder. *)
CallLengths == {1, 5, 6, 8}
=============================================================================
