------------------------- MODULE MCHostedExecution -------------------------
(***************************************************************************)
(* Instances of HostedExecution for TLC.                                   *)
(***************************************************************************)
EXTENDS HostedExecution

TwoIds == {1, 2}
ThreeIds == {1, 2, 3}
=============================================================================
