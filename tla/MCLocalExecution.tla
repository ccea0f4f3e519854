-------------------------- MODULE MCLocalExecution --------------------------
(***************************************************************************)
(* Instances of LocalExecution for TLC: the threads of one backend         *)
(* process, or one thread in each of two processes on one state directory. *)
(***************************************************************************)
EXTENDS LocalExecution, TLC

CONSTANTS t1, t2, s1, s2

OneServer == [t \in {t1, t2} |-> s1]
TwoServers == [t \in {t1, t2} |-> IF t = t1 THEN s1 ELSE s2]

\* The threads of one process are interchangeable.
ThreadSymmetry == Permutations({t1, t2})

TwoIds == {1, 2}
ThreeIds == {1, 2, 3}
TwoVersions == {1, 2}
Single == {1}
=============================================================================
