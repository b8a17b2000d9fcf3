----------------------------- MODULE MCHostScan -----------------------------
(***************************************************************************)
(* The instance of HostScan for TLC: the boxes of MCHostBoxes.  A box      *)
(* changes into the sound one or comes of it, or loses a part.             *)
(***************************************************************************)
EXTENDS MCHostBoxes, HostScan
=============================================================================
