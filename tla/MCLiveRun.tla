----------------------------- MODULE MCLiveRun ------------------------------
(* Instances of LiveRun for TLC. *)
EXTENDS LiveRun
=============================================================================
