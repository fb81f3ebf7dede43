---------------------------- MODULE MCSBZeroCopy ----------------------------
(* Two applications, and room for three buffers: when a1 exits, one of a2   *)
(* may be between two of its own on the list.                              *)
EXTENDS SBZeroCopy, TLC

CONSTANTS a1, a2

BufSymmetry == Permutations(Bufs)

MCMaxHeld == a1 :> 2 @@ a2 :> 2
=============================================================================
