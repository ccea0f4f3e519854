-------------------------- MODULE OneShotExecution --------------------------
(***************************************************************************)
(* What managed execution promises about Platform, without leases, claims  *)
(* or crashes: each request content is run at most once, one at a time,    *)
(* but for a process that the operating system does not let it end.        *)
(***************************************************************************)
CONSTANT Keys      \* request contents: <<request id, version>>

VARIABLES started, \* the contents Platform was ever started for
          running, \* the content a live Platform process works on
          escaped  \* the contents whose process could not be signalled

Init == started = {} /\ running = {} /\ escaped = {}

Start(k) ==
    /\ running = {}
    /\ k \notin started
    /\ started' = started \cup {k}
    /\ running' = {k}
    /\ UNCHANGED escaped

Stop ==
    /\ running # {}
    /\ running' = {}
    /\ UNCHANGED <<started, escaped>>

\* A process that cannot be signalled is given up, and may go on beside the
\* next one; its content is not started again.
Escape ==
    /\ running # {}
    /\ escaped' = escaped \cup running
    /\ running' = {}
    /\ UNCHANGED started

Next == Stop \/ Escape \/ \E k \in Keys : Start(k)

Spec == Init /\ [][Next]_<<started, running, escaped>>
=============================================================================
