--------------------------- MODULE LocalExecution ---------------------------
(***************************************************************************)
(* Managed Platform execution on the SpecSpace backend for one product     *)
(* workspace: viewer/real_idea_intake_execution.py together with the       *)
(* request store viewer/real_idea_intake_execution_requests.py.            *)
(*                                                                         *)
(* Request threads of one or more backend processes save execution         *)
(* requests and execute the active one.  An execution                      *)
(*   - takes a lease file with O_EXCL,                                     *)
(*   - copies its inputs into a private attempt directory,                 *)
(*   - claims (consumes) the request it selected, by digest,               *)
(*   - re-checks the inputs and runs one Platform process group,           *)
(*   - publishes the report and deletes the lease.                         *)
(* Threads fail, backends crash and restart, Platform times out; files and *)
(* Platform process groups survive a backend.                              *)
(*                                                                         *)
(* The answer-continuation executor                                        *)
(* (viewer/real_idea_answer_continuation_execution.py) is the same         *)
(* protocol with two differences, which are the two boolean constants.     *)
(*                                                                         *)
(* Simplifications.  One workspace: leases, attempt directories and the    *)
(* written part of the request file are per workspace.  Requests that are  *)
(* refused before the lease is taken, and HTTP bodies, change no state and *)
(* are left out.                                                           *)
(***************************************************************************)
EXTENDS Integers, Sequences, FiniteSets

CONSTANTS
    Threads,         \* request-handler threads
    Servers,         \* backend processes that share the state directory
    ServerOf,        \* the backend process of each thread
    Ids,             \* request_id values
    Versions,        \* record contents apart from status, in created_at order
    MaxSuperseded,   \* MAX_SUPERSEDED_PER_WORKSPACE
    MaxSaves,        \* bound on accepted save requests
    MaxEdits,        \* bound on edits of each input file
    MaxStarts,       \* bound on Platform processes
    SaveTakesFileLock,    \* save_request holds the flock (continuation)
    PromotionDropsAttempt \* a failed promotion deletes the attempt directory
                          \* it collided with (continuation)

ASSUME LocalExecutionAssumption ==
    /\ ServerOf \in [Threads -> Servers]
    /\ Ids \subseteq Nat
    /\ Versions \subseteq Nat
    /\ MaxSuperseded \in Nat
    /\ MaxSaves \in Nat
    /\ MaxEdits \in Nat
    /\ MaxStarts \in Nat
    /\ SaveTakesFileLock \in BOOLEAN
    /\ PromotionDropsAttempt \in BOOLEAN

(***************************************************************************)
(* Two records with the same id and version have the same request_digest:  *)
(* created_at has a resolution of one second, so the same payload saved    *)
(* twice within a second, or after the wall clock stepped back, repeats a  *)
(* version.  A key names an attempt directory.                             *)
(***************************************************************************)
Keys == Ids \X Versions
Requests == [id : Ids, version : Versions,
             status : {"requested", "superseded", "consumed"}]
Key(r) == <<r.id, r.version>>
NoRequest == [id |-> -1, version |-> -1, status |-> "none"]

\* The two input files an execution copies before it claims.
Sources == {"entry_requests", "workspace_initialization"}

AttemptStatus ==
    {"absent", "snapshots", "prepared", "input_snapshot_changed", "running",
     "start_failed", "timeout", "ambiguous", "completed", "failed"}

VARIABLES
    requests,   \* the workspace's records in the request state file
    lease,      \* the lease file: "none" or the status it holds
    attempts,   \* attempt directories and the status of their report
    marks,      \* attempt directories that hold an ambiguous.json
    source,     \* the input files: a version number and their validity
    published,  \* which process start produced the published report, or 0
    starts,     \* the keys of the Platform processes started, in order
    live,       \* the starts whose process group still exists
    strays,     \* history: the starts that outlived a refused signal
    pc, request, view, snap, proc,  \* the program state of each thread
    saves,      \* accepted save requests so far
    claimed,    \* history: keys whose claim was persisted
    cut         \* history: input versions when the thread's claim persisted

fileVars == <<requests, lease, attempts, marks, source, published>>
threadVars == <<pc, request, view, snap, proc>>
vars == <<requests, lease, attempts, marks, source, published, starts, live,
          strays, pc, request, view, snap, proc, saves, claimed, cut>>

(***************************************************************************)
(* Threads.  The stages from "leased" to "conceding" run inside            *)
(* execute_requested_intake with the lease file taken.                     *)
(***************************************************************************)
ExecutionStages ==
    {"leased", "selected", "initialized", "validated", "copying", "copied",
     "promoted", "prepared", "claiming", "claimed", "rechecking", "current",
     "starting", "waiting", "published", "overdue", "conceding", "returning"}
Stages == ExecutionStages \cup {"idle", "saving"}

Executing(t) == pc[t] \in ExecutionStages

\* The state-file locks are held exactly inside the critical sections.
HoldsStateLock(t) == pc[t] \in {"saving", "claiming"}
HoldsFileLock(t) == \/ pc[t] = "claiming"
                    \/ pc[t] = "saving" /\ SaveTakesFileLock
StateLockFree(s) == \A u \in Threads : ServerOf[u] = s => ~HoldsStateLock(u)
FileLockFree == \A u \in Threads : ~HoldsFileLock(u)

\* The thread moves to stage p and keeps its locals.
GoTo(t, p) == /\ pc' = [pc EXCEPT ![t] = p]
              /\ UNCHANGED <<request, view, snap, proc, cut>>

\* The threads in T forget everything they hold in memory.
NoSnapshot == [f \in Sources |-> 0]
Forget(T) ==
    /\ pc' = [t \in Threads |-> IF t \in T THEN "idle" ELSE pc[t]]
    /\ request' = [t \in Threads |-> IF t \in T THEN NoRequest ELSE request[t]]
    /\ view' = [t \in Threads |-> IF t \in T THEN {} ELSE view[t]]
    /\ snap' = [t \in Threads |-> IF t \in T THEN NoSnapshot ELSE snap[t]]
    /\ proc' = [t \in Threads |-> IF t \in T THEN 0 ELSE proc[t]]
    /\ cut' = [t \in Threads |-> IF t \in T THEN NoSnapshot ELSE cut[t]]

Init ==
    /\ requests = {}
    /\ lease = "none"
    /\ attempts = [k \in Keys |-> "absent"]
    /\ marks = {}
    /\ source = [f \in Sources |-> [version |-> 0, valid |-> TRUE]]
    /\ published = 0
    /\ starts = <<>>
    /\ live = {}
    /\ strays = {}
    /\ pc = [t \in Threads |-> "idle"]
    /\ request = [t \in Threads |-> NoRequest]
    /\ view = [t \in Threads |-> {}]
    /\ snap = [t \in Threads |-> NoSnapshot]
    /\ proc = [t \in Threads |-> 0]
    /\ saves = 0
    /\ claimed = {}
    /\ cut = [t \in Threads |-> NoSnapshot]

-----------------------------------------------------------------------------
(***************************************************************************)
(* The request state file: save_request.                                   *)
(***************************************************************************)
Active(S) == {r \in S : r.status = "requested"}

\* _cap_superseded_history keeps the newest superseded records, ordered by
\* created_at and then request_id; other records are never dropped.
Newer(q, r) == \/ q.version > r.version
               \/ q.version = r.version /\ q.id > r.id
NewerSuperseded(r, S) == {q \in S : q.status = "superseded" /\ Newer(q, r)}
\* Fault: the history cap counts and drops records of every status.
CapSupersededFault(S) ==
    {r \in S : Cardinality({q \in S : Newer(q, r)}) < MaxSuperseded}
CapSuperseded(S) ==
    {r \in S : r.status = "superseded"
                 => Cardinality(NewerSuperseded(r, S)) < MaxSuperseded}

Supersede(r) ==
    IF r.status = "requested" THEN [r EXCEPT !.status = "superseded"] ELSE r

\* The new list of records: a record with the same id is dropped, the
\* requested ones are superseded, the new one is appended.
WithRequest(S, new) ==
    CapSuperseded({Supersede(r) : r \in {q \in S : q.id # new.id}} \cup {new})

(***************************************************************************)
(* save_request takes the process-wide _STATE_LOCK and reads the file;     *)
(* unlike the claim, the intake version does not take the flock.           *)
(***************************************************************************)
SaveRead(t) ==
    /\ pc[t] = "idle"
    /\ saves < MaxSaves
    /\ StateLockFree(ServerOf[t])
    /\ SaveTakesFileLock => FileLockFree
    /\ \E i \in Ids, v \in Versions :
         request' = [request EXCEPT ![t] = [id |-> i, version |-> v,
                                            status |-> "requested"]]
    /\ view' = [view EXCEPT ![t] = requests]
    /\ pc' = [pc EXCEPT ![t] = "saving"]
    /\ saves' = saves + 1
    /\ UNCHANGED <<requests, lease, attempts, marks, source, published,
                   starts, live, strays, snap, proc, claimed, cut>>

\* The whole file is rewritten from the copy that was read.
SaveWrite(t) ==
    /\ pc[t] = "saving"
    /\ requests' = WithRequest(view[t], request[t])
    /\ Forget({t})
    /\ UNCHANGED <<lease, attempts, marks, source, published, starts, live, strays,
                   saves, claimed>>

\* The file could not be read or persisted: nothing was written.
SaveFails(t) ==
    /\ pc[t] = "saving"
    /\ Forget({t})
    /\ UNCHANGED <<fileVars, starts, live, strays, saves, claimed>>

-----------------------------------------------------------------------------
(***************************************************************************)
(* execute_requested_intake up to the claim.                               *)
(***************************************************************************)

\* _create_workspace_execution_lease: O_CREAT | O_EXCL.  When the file
\* exists the thread answers 409 and changes nothing.
\* Fault: a lease that is no longer active is taken over.
LeaseAvailableFault == lease # "active"
LeaseAvailable == lease = "none"
TakeLease(t) ==
    /\ pc[t] = "idle"
    /\ LeaseAvailable
    /\ lease' = "active"
    /\ GoTo(t, "leased")
    /\ UNCHANGED <<requests, attempts, marks, source, published, starts, live, strays,
                   saves, claimed>>

\* _active_requested_intake_execution: exactly one requested record, with
\* the requested id when the payload names one.
Select(t) ==
    /\ pc[t] = "leased"
    /\ \E r \in Active(requests) :
         /\ Active(requests) = {r}
         /\ request' = [request EXCEPT ![t] = r]
    /\ pc' = [pc EXCEPT ![t] = "selected"]
    /\ UNCHANGED <<fileVars, starts, live, strays, view, snap, proc, saves, claimed, cut>>

\* _initialization_report_error, then _entry_request_error.
ValidateInitialization(t) ==
    /\ pc[t] = "selected"
    /\ source["workspace_initialization"].valid
    /\ GoTo(t, "initialized")
    /\ UNCHANGED <<fileVars, starts, live, strays, saves, claimed>>

ValidateEntry(t) ==
    /\ pc[t] = "initialized"
    /\ source["entry_requests"].valid
    /\ GoTo(t, "validated")
    /\ UNCHANGED <<fileVars, starts, live, strays, saves, claimed>>

\* No ambiguous.json below the attempt root, then the first copy into a
\* fresh pending directory.
\* Fault: the attempt directories are not searched.
NoAmbiguousAttemptFault == marks \subseteq Keys
NoAmbiguousAttempt == marks = {}
CopyEntry(t) ==
    /\ pc[t] = "validated"
    /\ NoAmbiguousAttempt
    /\ snap' = [snap EXCEPT ![t]["entry_requests"] =
                                source["entry_requests"].version]
    /\ pc' = [pc EXCEPT ![t] = "copying"]
    /\ UNCHANGED <<fileVars, starts, live, strays, request, view, proc, saves, claimed, cut>>

CopyInitialization(t) ==
    /\ pc[t] = "copying"
    /\ snap' = [snap EXCEPT ![t]["workspace_initialization"] =
                                source["workspace_initialization"].version]
    /\ pc' = [pc EXCEPT ![t] = "copied"]
    /\ UNCHANGED <<fileVars, starts, live, strays, request, view, proc, saves, claimed, cut>>

\* Any refusal or I/O error up to the promotion: the pending directory is
\* removed and the call returns.
Refuse(t) ==
    /\ pc[t] \in {"leased", "selected", "initialized", "validated",
                  "copying", "copied"}
    /\ GoTo(t, "returning")
    /\ UNCHANGED <<fileVars, starts, live, strays, saves, claimed>>

\* Fault: an attempt directory in use is overwritten.
PromoteFault(t) ==
    /\ pc[t] = "copied"
    /\ attempts' = [attempts EXCEPT ![Key(request[t])] = "snapshots"]
    /\ GoTo(t, "promoted")
    /\ UNCHANGED <<requests, lease, marks, source, published, starts, live, strays,
                   saves, claimed>>

\* pending_attempt_dir.replace(attempt_dir) succeeds only on a name that is
\* not in use.
Promote(t) ==
    LET k == Key(request[t]) IN
    /\ pc[t] = "copied"
    /\ attempts[k] = "absent"
    /\ attempts' = [attempts EXCEPT ![k] = "snapshots"]
    /\ GoTo(t, "promoted")
    /\ UNCHANGED <<requests, lease, marks, source, published, starts, live, strays,
                   saves, claimed>>

RemoveAttempt(k) ==
    /\ attempts' = [attempts EXCEPT ![k] = "absent"]
    /\ marks' = marks \ {k}

\* Fault: cleaning up removes the attempt directory it collided with.
PromoteCollidesFault(t) ==
    /\ pc[t] = "copied"
    /\ attempts[Key(request[t])] # "absent"
    /\ RemoveAttempt(Key(request[t]))
    /\ GoTo(t, "returning")
    /\ UNCHANGED <<requests, lease, source, published, starts, live, strays, saves, claimed>>

\* The name is in use (OSError).  The intake executor removes only its
\* pending directory; the continuation executor removes both.
PromoteCollides(t) ==
    LET k == Key(request[t]) IN
    /\ pc[t] = "copied"
    /\ attempts[k] # "absent"
    /\ IF PromotionDropsAttempt THEN RemoveAttempt(k)
                                ELSE UNCHANGED <<attempts, marks>>
    /\ GoTo(t, "returning")
    /\ UNCHANGED <<requests, lease, source, published, starts, live, strays, saves, claimed>>

WritePrepared(t) ==
    /\ pc[t] = "promoted"
    /\ attempts' = [attempts EXCEPT ![Key(request[t])] = "prepared"]
    /\ GoTo(t, "prepared")
    /\ UNCHANGED <<requests, lease, marks, source, published, starts, live, strays,
                   saves, claimed>>

\* The report could not be written: the promoted directory is removed.
PrepareFails(t) ==
    /\ pc[t] = "promoted"
    /\ RemoveAttempt(Key(request[t]))
    /\ GoTo(t, "returning")
    /\ UNCHANGED <<requests, lease, source, published, starts, live, strays, saves, claimed>>

-----------------------------------------------------------------------------
(***************************************************************************)
(* claim_request_for_execution, under _STATE_LOCK and the flock.           *)
(***************************************************************************)
ClaimRead(t) ==
    /\ pc[t] = "prepared"
    /\ StateLockFree(ServerOf[t])
    /\ FileLockFree
    /\ view' = [view EXCEPT ![t] = requests]
    /\ pc' = [pc EXCEPT ![t] = "claiming"]
    /\ UNCHANGED <<fileVars, starts, live, strays, request, snap, proc, saves, claimed, cut>>

\* The record to consume: still requested, and with the selected digest.
Claimable(S, r) == {q \in Active(S) : q.id = r.id /\ q.version = r.version}
Consume(S, C) ==
    CapSuperseded((S \ C) \cup {[r EXCEPT !.status = "consumed"] : r \in C})

ClaimWrite(t) ==
    LET matched == Claimable(view[t], request[t]) IN
    /\ pc[t] = "claiming"
    /\ matched # {}
    /\ requests' = Consume(view[t], matched)
    /\ claimed' = claimed \cup {Key(r) : r \in matched}
    /\ cut' = [cut EXCEPT ![t] = [f \in Sources |-> source[f].version]]
    /\ view' = [view EXCEPT ![t] = {}]
    /\ pc' = [pc EXCEPT ![t] = "claimed"]
    /\ UNCHANGED <<lease, attempts, marks, source, published, starts, live, strays,
                   request, snap, proc, saves>>

\* No matching record, or the file could not be read or persisted: the
\* attempt directory is removed and the call returns.
ClaimFails(t) ==
    /\ pc[t] = "claiming"
    /\ RemoveAttempt(Key(request[t]))
    /\ view' = [view EXCEPT ![t] = {}]
    /\ pc' = [pc EXCEPT ![t] = "returning"]
    /\ UNCHANGED <<requests, lease, source, published, starts, live, strays,
                   request, snap, proc, saves, claimed, cut>>

-----------------------------------------------------------------------------
(***************************************************************************)
(* From the claim to the Platform process and its outcome.                 *)
(***************************************************************************)
Report(t, status) == attempts' = [attempts EXCEPT ![Key(request[t])] = status]

\* _changed_snapshot_sources hashes the sources one after the other.
Unchanged(t, f) == source[f].version = snap[t][f]

RecheckEntry(t) ==
    /\ pc[t] = "claimed"
    /\ Unchanged(t, "entry_requests")
    /\ GoTo(t, "rechecking")
    /\ UNCHANGED <<fileVars, starts, live, strays, saves, claimed>>

\* Fault: only the first input is hashed again.
RecheckInitializationFault(t) ==
    /\ pc[t] = "rechecking"
    /\ GoTo(t, "current")
    /\ UNCHANGED <<fileVars, starts, live, strays, saves, claimed>>
RecheckInitialization(t) ==
    /\ pc[t] = "rechecking"
    /\ Unchanged(t, "workspace_initialization")
    /\ GoTo(t, "current")
    /\ UNCHANGED <<fileVars, starts, live, strays, saves, claimed>>

InputChanged(t) ==
    /\ \/ pc[t] = "claimed" /\ ~Unchanged(t, "entry_requests")
       \/ pc[t] = "rechecking" /\ ~Unchanged(t, "workspace_initialization")
    /\ Report(t, "input_snapshot_changed")
    /\ GoTo(t, "returning")
    /\ UNCHANGED <<requests, lease, marks, source, published, starts, live, strays,
                   saves, claimed>>

WriteRunning(t) ==
    /\ pc[t] = "current"
    /\ Report(t, "running")
    /\ GoTo(t, "starting")
    /\ UNCHANGED <<requests, lease, marks, source, published, starts, live, strays,
                   saves, claimed>>

\* subprocess.Popen with start_new_session.
StartProcess(t) ==
    /\ pc[t] = "starting"
    /\ Len(starts) < MaxStarts
    /\ starts' = Append(starts, Key(request[t]))
    /\ live' = live \cup {Len(starts')}
    /\ proc' = [proc EXCEPT ![t] = Len(starts')]
    /\ pc' = [pc EXCEPT ![t] = "waiting"]
    /\ UNCHANGED <<fileVars, strays, request, view, snap, saves, claimed, cut>>

\* Nothing was started: Popen raised OSError.
StartFails(t) ==
    /\ pc[t] = "starting"
    /\ Report(t, "start_failed")
    /\ GoTo(t, "returning")
    /\ UNCHANGED <<requests, lease, marks, source, published, starts, live, strays,
                   saves, claimed>>

\* Exit status 0 and a valid staged report: os.replace to the output path.
Publish(t) ==
    /\ pc[t] = "waiting"
    /\ proc[t] \notin live
    /\ published' = proc[t]
    /\ GoTo(t, "published")
    /\ UNCHANGED <<requests, lease, attempts, marks, source, starts, live, strays,
                   saves, claimed>>

RecordCompleted(t) ==
    /\ pc[t] = "published"
    /\ Report(t, "completed")
    /\ GoTo(t, "returning")
    /\ UNCHANGED <<requests, lease, marks, source, published, starts, live, strays,
                   saves, claimed>>

\* Nonzero exit status, or a report that fails validation.
RecordFailed(t) ==
    /\ pc[t] = "waiting"
    /\ proc[t] \notin live
    /\ Report(t, "failed")
    /\ GoTo(t, "returning")
    /\ UNCHANGED <<requests, lease, marks, source, published, starts, live, strays,
                   saves, claimed>>

\* Fault: communicate() waits without a timeout.
TimeoutExpiredFault(t) == pc[t] = "waiting" /\ proc[t] \notin live
TimeoutExpired(t) == pc[t] = "waiting"

\* The timeout expired and _terminate_process_group saw the group gone.
TimeoutTerminated(t) ==
    /\ TimeoutExpired(t)
    /\ live' = live \ {proc[t]}
    /\ Report(t, "timeout")
    /\ GoTo(t, "returning")
    /\ UNCHANGED <<requests, lease, marks, source, published, starts, strays, saves, claimed>>

\* The group survived SIGTERM and SIGKILL: report, ambiguous.json, lease.
TimeoutAmbiguous(t) ==
    /\ TimeoutExpired(t)
    /\ proc[t] \in live
    /\ Report(t, "ambiguous")
    /\ GoTo(t, "overdue")
    /\ UNCHANGED <<requests, lease, marks, source, published, starts, live, strays,
                   saves, claimed>>

\* The operating system refuses to signal the group (os.killpg raises
\* PermissionError).  The OSError ends where that of a failed start ends: the
\* report says that nothing ran, and the lease is released.
SignalRefused(t) ==
    /\ TimeoutExpired(t)
    /\ proc[t] \in live
    /\ strays' = strays \cup {proc[t]}
    /\ Report(t, "start_failed")
    /\ GoTo(t, "returning")
    /\ UNCHANGED <<requests, lease, marks, source, published, starts, live,
                   saves, claimed>>

MarkAmbiguous(t) ==
    /\ pc[t] = "overdue"
    /\ marks' = marks \cup {Key(request[t])}
    /\ GoTo(t, "conceding")
    /\ UNCHANGED <<requests, lease, attempts, source, published, starts, live, strays,
                   saves, claimed>>

-----------------------------------------------------------------------------
(***************************************************************************)
(* How an execution ends.                                                  *)
(***************************************************************************)
ReleaseLease(t) ==
    /\ pc[t] = "returning"
    /\ lease' = "none"
    /\ Forget({t})
    /\ UNCHANGED <<requests, attempts, marks, source, published, starts, live, strays,
                   saves, claimed>>

ConcedeLease(t) ==
    /\ pc[t] = "conceding"
    /\ lease' = "ambiguous"
    /\ Forget({t})
    /\ UNCHANGED <<requests, attempts, marks, source, published, starts, live, strays,
                   saves, claimed>>

\* An exception the stages do not handle.  The handler marks the lease
\* unless the lease file itself cannot be written; past the handler
\* ("returning", "conceding") the lease file stays as it was.
FailUnclean(t) ==
    /\ Executing(t)
    /\ \/ UNCHANGED lease
       \/ pc[t] \notin {"returning", "conceding"} /\ lease' = "recovery_required"
    /\ Forget({t})
    /\ UNCHANGED <<requests, attempts, marks, source, published, starts, live, strays,
                   saves, claimed>>

\* A backend process dies and restarts: its threads and locks are gone, the
\* files and the Platform process groups remain.
Crash(s) ==
    LET own == {t \in Threads : ServerOf[t] = s} IN
    /\ \E t \in own : pc[t] # "idle"
    /\ Forget(own)
    /\ UNCHANGED <<fileVars, starts, live, strays, saves, claimed>>

-----------------------------------------------------------------------------
(***************************************************************************)
(* The environment.                                                        *)
(***************************************************************************)

\* A Platform process group exits by itself.
ProcessExits(n) ==
    /\ n \in live
    /\ live' = live \ {n}
    /\ UNCHANGED <<fileVars, starts, strays, threadVars, saves, claimed, cut>>

\* Another handler or Platform replaces an input file with new content.
EditSource(f) ==
    /\ source[f].version < MaxEdits
    /\ \E ok \in BOOLEAN :
         source' = [source EXCEPT ![f] = [version |-> source[f].version + 1,
                                          valid |-> ok]]
    /\ UNCHANGED <<requests, lease, attempts, marks, published, starts, live, strays,
                   threadVars, saves, claimed, cut>>

\* "Inspect local processes and private attempt evidence": the operator
\* deletes a left-over lease or ambiguous.json once nothing runs.
Quiescent == live = {} /\ \A t \in Threads : ~Executing(t)
RecoverLease ==
    /\ lease # "none"
    /\ Quiescent
    /\ lease' = "none"
    /\ UNCHANGED <<requests, attempts, marks, source, published, starts, live, strays,
                   threadVars, saves, claimed, cut>>
RecoverAmbiguous(k) ==
    /\ k \in marks
    /\ Quiescent
    /\ marks' = marks \ {k}
    /\ UNCHANGED <<requests, lease, attempts, source, published, starts, live, strays,
                   threadVars, saves, claimed, cut>>

-----------------------------------------------------------------------------
Save(t) == SaveRead(t) \/ SaveWrite(t) \/ SaveFails(t)

Prepare(t) ==
    \/ Select(t) \/ ValidateInitialization(t) \/ ValidateEntry(t)
    \/ CopyEntry(t) \/ CopyInitialization(t) \/ Refuse(t)
    \/ Promote(t) \/ PromoteCollides(t) \/ WritePrepared(t) \/ PrepareFails(t)

Claim(t) == ClaimRead(t) \/ ClaimWrite(t) \/ ClaimFails(t)

Run(t) ==
    \/ RecheckEntry(t) \/ RecheckInitialization(t) \/ InputChanged(t)
    \/ WriteRunning(t) \/ StartProcess(t) \/ StartFails(t)
    \/ Publish(t) \/ RecordCompleted(t) \/ RecordFailed(t)
    \/ TimeoutTerminated(t) \/ TimeoutAmbiguous(t) \/ MarkAmbiguous(t)
    \/ SignalRefused(t)

Finish(t) == ReleaseLease(t) \/ ConcedeLease(t)

\* What a scheduled handler thread does next once it is inside a handler.
Proceed(t) ==
    SaveWrite(t) \/ SaveFails(t) \/ Prepare(t) \/ Claim(t) \/ Run(t) \/ Finish(t)

Environment ==
    \/ \E s \in Servers : Crash(s)
    \/ \E n \in live : ProcessExits(n)
    \/ \E f \in Sources : EditSource(f)
    \/ RecoverLease
    \/ \E k \in Keys : RecoverAmbiguous(k)

Next ==
    \/ \E t \in Threads : \/ Save(t) \/ TakeLease(t) \/ Prepare(t) \/ Claim(t)
                          \/ Run(t) \/ Finish(t) \/ FailUnclean(t)
    \/ Environment

Spec == Init /\ [][Next]_vars

\* The operating system schedules every handler thread; the Platform
\* timeout is what bounds the wait for a process.
FairSpec == Spec /\ \A t \in Threads : WF_vars(Proceed(t))

-----------------------------------------------------------------------------
(***************************************************************************)
(* Properties.                                                             *)
(***************************************************************************)

\* Every variable has its type.
TypeOK ==
    /\ requests \subseteq Requests
    /\ lease \in {"none", "active", "recovery_required", "ambiguous"}
    /\ attempts \in [Keys -> AttemptStatus]
    /\ marks \subseteq Keys
    /\ source \in [Sources -> [version : Nat, valid : BOOLEAN]]
    /\ published \in Nat
    /\ starts \in Seq(Keys)
    /\ live \subseteq 1 .. Len(starts)
    /\ strays \subseteq 1 .. Len(starts)
    /\ pc \in [Threads -> Stages]
    /\ request \in [Threads -> Requests \cup {NoRequest}]
    /\ view \in [Threads -> SUBSET Requests]
    /\ snap \in [Threads -> [Sources -> Nat]]
    /\ proc \in [Threads -> Nat]
    /\ saves \in Nat
    /\ claimed \subseteq Keys
    /\ cut \in [Threads -> [Sources -> Nat]]

\* The process groups the executor answers for: all but those it was not
\* allowed to signal.
Held == live \ strays

\* At most one Platform process group of the workspace exists at any time,
\* whatever crashes, timeouts and recoveries happened before (the lease of
\* _create_workspace_execution_lease and when it is deleted).  The exception
\* is a group that the operating system did not let the executor signal: it
\* may live on beside the next one.
SingleFlight == \A m, n \in Held : m = n

\* The same request content never starts Platform twice, also when it is
\* saved again or its consumption is overwritten (claim_request_for_execution
\* and the attempt directory name).
StartedOnce ==
    \A m, n \in 1 .. Len(starts) : starts[m] = starts[n] => m = n

\* Platform runs only on a request content whose own claim was persisted,
\* never on one that was replaced after it was selected (the digest
\* comparison in claim_request_for_execution).
StartedWasClaimed == \A n \in 1 .. Len(starts) : starts[n] \in claimed

\* A request that was consumed has an attempt directory with its report,
\* through every failure and crash (the order prepare, claim, run).
ConsumedHasEvidence ==
    \A k \in claimed : attempts[k] \notin {"absent", "snapshots"}

\* Every Platform process that was ever started has an attempt directory
\* whose report says so; that of a process that could not be signalled says
\* instead that it did not start.
Ran == {"running", "timeout", "ambiguous", "completed", "failed"}
EvidenceKept ==
    \A n \in 1 .. Len(starts) :
        IF n \in strays THEN attempts[starts[n]] = "start_failed"
                        ELSE attempts[starts[n]] \in Ran

\* The snapshots a Platform process runs on were the live contents of all
\* input files at one moment, that of the claim, although the files are
\* copied and checked one by one (_changed_snapshot_sources).
SnapshotIsConsistentCut ==
    \A t \in Threads : pc[t] \in {"current", "starting", "waiting"}
                          => snap[t] = cut[t]

\* The detailed executor implements the one-shot promise.
OneShot == INSTANCE OneShotExecution
              WITH started <- {starts[n] : n \in 1 .. Len(starts)},
                   running <- {starts[n] : n \in Held},
                   escaped <- {starts[n] : n \in strays}
ImplementsOneShot == OneShot!Spec

\* A consumed record stays consumed until its id is requested again: no
\* stale rewrite of the state file takes the consumption back (_STATE_LOCK
\* around each read-modify-write).
ConsumedStays ==
    [][\A r \in requests :
          r.status = "consumed" =>
             \/ r \in requests'
             \/ \E q \in requests' : q.id = r.id /\ q.status = "requested"]_requests

\* An accepted request stays active until it is claimed or a newer request
\* takes its place; it is never dropped by a concurrent rewrite.
ActiveRequestNotLost ==
    [][\A r \in Active(requests) :
          \/ Active(requests') # {}
          \/ Key(r) \in claimed']_requests

\* No Platform process starts while ambiguous evidence is unresolved.
AmbiguousBlocks == [][marks # {} => starts' = starts]_starts

\* Every execution ends: the handler thread returns, with the lease
\* released, conceded or left for recovery.
ExecutionEnds == \A t \in Threads : Executing(t) ~> ~Executing(t)

-----------------------------------------------------------------------------
(***************************************************************************)
(* The inductive invariant behind the safety properties.                   *)
(***************************************************************************)
ProcessStages == {"waiting", "overdue", "conceding"}
SelectedStages == ExecutionStages \ {"leased", "returning"}

\* A thread that saves or has selected a request holds a record.
TypeInv ==
    /\ TypeOK
    /\ \A t \in Threads : pc[t] \in SelectedStages \cup {"saving"} =>
           request[t] \in Requests

\* An executing thread is alone and owns an active lease; a process group
\* that exists is its own, and a lease file outlives every process group.
LeaseInv ==
    /\ \A t \in Threads : Executing(t) => lease = "active"
    /\ \A t, u \in Threads : Executing(t) /\ Executing(u) => t = u
    /\ Held # {} => lease # "none"
    /\ \A t \in Threads : Executing(t) /\ pc[t] \notin ProcessStages => Held = {}
    /\ \A t \in Threads : pc[t] \in ProcessStages => Held \subseteq {proc[t]}
    /\ SingleFlight

\* What the attempt directory of the thread's request, the history of
\* claims and the history of starts are at each stage.
AttemptInv ==
    /\ \A t \in Threads : pc[t] = "promoted" =>
           attempts[Key(request[t])] = "snapshots"
    /\ \A t \in Threads :
           pc[t] \in {"prepared", "claiming", "claimed", "rechecking", "current"}
             => attempts[Key(request[t])] = "prepared"
    /\ \A t \in Threads : pc[t] = "starting" =>
           /\ attempts[Key(request[t])] = "running"
           /\ \A n \in 1 .. Len(starts) : starts[n] # Key(request[t])
    /\ \A t \in Threads : pc[t] \in {"promoted", "prepared", "claiming"} =>
           Key(request[t]) \notin claimed
    /\ \A t \in Threads :
           pc[t] \in {"claimed", "rechecking", "current", "starting"} \cup ProcessStages
             => Key(request[t]) \in claimed
    /\ \A t \in Threads : pc[t] \in ProcessStages \cup {"published"} =>
           /\ proc[t] \in (1 .. Len(starts)) \ strays
           /\ starts[proc[t]] = Key(request[t])
    /\ ConsumedHasEvidence
    /\ EvidenceKept
    /\ StartedWasClaimed
    /\ StartedOnce

\* Input versions only grow: snapshot, claim and now are in order, and
\* equal once the re-check has passed.
CutInv ==
    /\ \A t \in Threads :
           /\ pc[t] \in SelectedStages \ {"selected", "initialized", "validated"}
                => snap[t]["entry_requests"] <= source["entry_requests"].version
           /\ pc[t] \in SelectedStages \ {"selected", "initialized", "validated", "copying"}
                => snap[t]["workspace_initialization"]
                      <= source["workspace_initialization"].version
           /\ pc[t] \in {"claimed", "rechecking"} => \A f \in Sources :
                  snap[t][f] <= cut[t][f] /\ cut[t][f] <= source[f].version
           /\ pc[t] = "rechecking" =>
                  snap[t]["entry_requests"] = cut[t]["entry_requests"]
    /\ SnapshotIsConsistentCut
=============================================================================
