---------------------------- MODULE MCUvcCapture ----------------------------
(* UvcCapture with the permutations of frames and of consumers as symmetry. *)
EXTENDS UvcCapture, TLC

Symmetry == Permutations(Frames) \cup Permutations(Consumers)
=============================================================================
