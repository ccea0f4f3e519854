------------------------- MODULE MCLocalOperations -------------------------
(***************************************************************************)
(* Instances of PromotionPath and WorkspaceInitialization for TLC: the     *)
(* first and the last operations a local executor runs for a workspace.    *)
(* They share no state, so they are explored side by side, each in its own *)
(* scene.                                                                  *)
(***************************************************************************)
EXTENDS PromotionPath, WorkspaceInitialization, TLC

CONSTANTS j1, j2, t1, t2, w1, w2

TwoJobs == {j1, j2}
TwoHandlers == {t1, t2}
TwoWorkspaces == {w1, w2}
OneBackendOf == [t \in TwoHandlers |-> "b"]
Symmetry == Permutations(TwoJobs) \cup Permutations(TwoHandlers) \cup Permutations(TwoWorkspaces)

VARIABLE scene
both == <<vars, initializing, scene>>

\* The scene that is not played stays as it begins.
Fresh == art = NewSession(1, TRUE)
BothInit ==
    /\ Init /\ InitializationInit
    /\ scene \in {"promotion", "initialization"} /\ (scene = "promotion" \/ Fresh)
BothNext ==
    \/ scene = "promotion" /\ Next /\ UNCHANGED <<initializing, scene>>
    \/ scene = "initialization" /\ InitializationNext /\ UNCHANGED <<vars, scene>>
BothSpec == BothInit /\ [][BothNext]_both
=============================================================================
