-------------------------- MODULE MCStateBackends ---------------------------
(***************************************************************************)
(* Both backends of StateBackend for TLC, each in its own scene: the file  *)
(* backend as the configuration gives it, with the lock of one process,    *)
(* and the external backend with two processes that hold no lock, on       *)
(* records that exist.                                                     *)
(***************************************************************************)
EXTENDS MCStateBackend

Service == INSTANCE StateBackend
              WITH External <- TRUE, Locked <- FALSE, MaxCalls <- 3,
                   Servers <- {s1, s2}, Server <- TwoProcesses,
                   Established <- TwoWorkspaces

VARIABLE scene

ScenesInit ==
    \/ scene = "file" /\ Init
    \/ scene = "service" /\ Service!Init
ScenesNext ==
    /\ \/ scene = "file" /\ Next
       \/ scene = "service" /\ Service!Next
    /\ UNCHANGED scene
ScenesSpec == ScenesInit /\ [][ScenesNext]_<<vars, scene>>

EntriesAreAlike == Permutations(TwoEntries)
=============================================================================
