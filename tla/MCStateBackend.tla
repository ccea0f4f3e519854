--------------------------- MODULE MCStateBackend ---------------------------
(***************************************************************************)
(* Instances of StateBackend for TLC.                                      *)
(***************************************************************************)
EXTENDS StateBackend, TLC

CONSTANTS t1, t2, s1, s2, a, b, x, y

TwoThreads == {t1, t2}
OneProcess == [t \in TwoThreads |-> s1]
TwoProcesses == (t1 :> s1) @@ (t2 :> s2)
TwoWorkspaces == {a, b}
TwoEntries == {x, y}
Symmetric == Permutations(TwoWorkspaces) \cup Permutations(TwoEntries)
=============================================================================
