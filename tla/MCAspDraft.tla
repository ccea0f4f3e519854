----------------------------- MODULE MCAspDraft -----------------------------
(***************************************************************************)
(* Instances of AspDraft for TLC, in two scenes.  In the first, time       *)
(* passes and native requests are edited, and the keys run out before the  *)
(* quota does.  In the second, nothing but the quota stops the third       *)
(* proposal of a grant: it has a key, an execution id and a request id of  *)
(* its own, and its approval.                                              *)
(***************************************************************************)
EXTENDS AspDraft, TLC

CONSTANTS g1, k1, k2, e1, e2, u1, u2, k3, e3

TwoIds == {1, 2}
TwoKeys == {k1, k2}
TwoExecutions == {e1, e2}
TwoSessions == {u1, u2}
ThreeIds == {1, 2, 3}
ThreeKeys == {k1, k2, k3}
ThreeExecutions == {e1, e2, e3}

Quota == INSTANCE AspDraft
           WITH Keys <- ThreeKeys, Executions <- ThreeExecutions,
                RequestIds <- ThreeIds, MaxApprovals <- 3,
                MaxSessions <- 1, MaxTime <- 0, MaxEdits <- 0

VARIABLE scene
both == <<vars, scene>>

BothInit == Init /\ scene \in {"time", "quota"}
BothNext ==
    /\ \/ scene = "time" /\ Next
       \/ scene = "quota" /\ Quota!Next
    /\ UNCHANGED scene
BothSpec == BothInit /\ [][BothNext]_both

\* Keys, execution ids and sessions are interchangeable names.
NameSymmetry ==
    Permutations(TwoSessions)
    \cup Permutations(TwoKeys) \cup Permutations(TwoExecutions)
=============================================================================
