-------------------------- MODULE HostedExecution --------------------------
(***************************************************************************)
(* Hosted managed execution (viewer/hosted_managed_execution.py) of one    *)
(* workspace.  Handler threads enqueue operations at the hosted Platform   *)
(* executor and keep a compact record of each answer; a workspace read     *)
(* polls the executor for the recorded requests that are still active and  *)
(* stores what it learns.                                                  *)
(*                                                                         *)
(* The HTTP call and the following update of the state are separate steps, *)
(* so answers are stored in any order.  The update itself is one step: it  *)
(* holds _STATE_LOCK, and StateBackend shows that the backend then changes *)
(* what is stored atomically, or fails; a write that arrives after its     *)
(* caller gave up is only stored if no other was in between, and counts as *)
(* stored when the caller gives up.  The executor is external; it answers  *)
(* a repeated request with the job it already has.  What must hold         *)
(* before an enqueue (configuration, allowlist, binding, confirmation) is  *)
(* left out: a refused call changes nothing.                               *)
(***************************************************************************)
EXTENDS Integers, FiniteSets

CONSTANTS
    Threads,    \* handler threads
    RequestIds, \* request ids, ordered; each stands for one request content
    Keep,       \* 500: records that are kept
    PollLimit,  \* 12: requests polled by one refresh
    MaxTime,    \* bound on the clock
    MaxEnqueues \* bound on enqueues

ASSUME HostedExecutionAssumption ==
    /\ RequestIds \subseteq Nat
    /\ Keep \in Nat \ {0}
    /\ PollLimit \in Nat \ {0}
    /\ {MaxTime, MaxEnqueues} \subseteq Nat

\* Of ACTIVE_STATUSES and TERMINAL_STATUSES two each.
Active == {"queued", "running"}
Terminal == {"succeeded", "failed"}

VARIABLES
    now,      \* the clock, in seconds
    jobs,     \* the executor: status and creation time of each request's job
    requests, \* the recorded requests
    thread,   \* what each thread does
    enqueues, \* enqueues so far
    acked     \* history: requests that were answered as accepted

vars == <<now, jobs, requests, thread, enqueues, acked>>

NoJob == [status |-> "none", created |-> 0]
\* A thread has the requests it goes on to poll, as it read them, and the
\* request it works on with the executor's answer.
NoId == -1
Idle == [pc |-> "idle", queue |-> {}, id |-> NoId, report |-> NoJob]

Init ==
    /\ now = 0
    /\ jobs = [i \in RequestIds |-> NoJob]
    /\ requests = {}
    /\ thread = [t \in Threads |-> Idle]
    /\ enqueues = 0
    /\ acked = {}

-----------------------------------------------------------------------------
\* _request_order_key.
Before(r, q) ==
    \/ r.updated < q.updated
    \/ r.updated = q.updated /\ r.created < q.created
    \/ r.updated = q.updated /\ r.created = q.created /\ r.id < q.id

\* Fault: a request that waits in the queue is not polled.
ActiveRequestsFault == {r \in requests : r.status \in Active \ {"queued"}}
ActiveRequests == {r \in requests : r.status \in Active}

\* What refresh_workspace polls: the PollLimit last of the active requests.
PollQueue == {r \in ActiveRequests :
                Cardinality({q \in ActiveRequests : Before(r, q)}) < PollLimit}

\* The requests that are kept when id is recorded again.
Others(id) == {r \in requests : r.id # id}

\* The requests that are left of R when one more is recorded.  Which ones go
\* is the backend's order: the file keeps the order of the calls, the external
\* backend returns the records sorted by their JSON text.
Left(R) ==
    IF Cardinality(R) < Keep THEN {R}
                             ELSE {L \in SUBSET R : Cardinality(L) = Keep - 1}

-----------------------------------------------------------------------------
(***************************************************************************)
(* enqueue_operation.                                                      *)
(***************************************************************************)

\* The executor has a job for i: the one it had, or a new one it accepts or
\* rejects.
Accepted(i, status) ==
    /\ enqueues < MaxEnqueues
    /\ enqueues' = enqueues + 1
    /\ jobs' = IF jobs[i].status = "none"
               THEN [jobs EXCEPT ![i] = [status |-> status, created |-> now]]
               ELSE jobs

Enqueue(t, i, status) ==
    /\ thread[t].pc = "idle"
    /\ Accepted(i, status)
    /\ thread' = [thread EXCEPT ![t] =
                    [pc |-> "save", queue |-> {}, id |-> i, report |-> jobs'[i]]]
    /\ UNCHANGED <<now, requests, acked>>

\* The answer is lost or late: the caller reads that the executor failed.
EnqueueUnanswered(t, i, status) ==
    /\ thread[t].pc = "idle"
    /\ Accepted(i, status)
    /\ UNCHANGED <<now, requests, thread, acked>>

\* save_enqueue_report.
Record(i, job) == [id |-> i, status |-> job.status, created |-> job.created, updated |-> now]
Recorded(i, job) == \E L \in Left(Others(i)) : requests' = L \cup {Record(i, job)}
Save(t) ==
    /\ thread[t].pc = "save"
    /\ Recorded(thread[t].id, thread[t].report)
    /\ thread' = [thread EXCEPT ![t] = Idle]
    /\ acked' = acked \cup {thread[t].id}
    /\ UNCHANGED <<now, jobs, enqueues>>

\* The state backend fails: may_have_enqueued.  The write may have been done.
\* Fault: the caller is told that it was accepted.
SaveFailsFault(t) ==
    /\ thread[t].pc = "save"
    /\ \/ Recorded(thread[t].id, thread[t].report)
       \/ UNCHANGED requests
    /\ thread' = [thread EXCEPT ![t] = Idle]
    /\ acked' = acked \cup {thread[t].id}
    /\ UNCHANGED <<now, jobs, enqueues>>
SaveFails(t) ==
    /\ thread[t].pc = "save"
    /\ \/ Recorded(thread[t].id, thread[t].report)
       \/ UNCHANGED requests
    /\ thread' = [thread EXCEPT ![t] = Idle]
    /\ UNCHANGED <<now, jobs, enqueues, acked>>

-----------------------------------------------------------------------------
(***************************************************************************)
(* refresh_workspace.                                                      *)
(***************************************************************************)
\* The thread goes on with the requests in Q.
GoOn(t, Q) ==
    thread' = [thread EXCEPT ![t] = IF Q = {} THEN Idle
                                    ELSE [Idle EXCEPT !.pc = "poll", !.queue = Q]]

Refresh(t) ==
    /\ thread[t].pc = "idle"
    /\ ActiveRequests # {}
    /\ GoOn(t, PollQueue)
    /\ UNCHANGED <<now, jobs, requests, enqueues, acked>>

\* The request that is polled next.
First(r, Q) == r \in Q /\ \A q \in Q : ~Before(q, r)

Poll(t) ==
    /\ thread[t].pc = "poll"
    /\ \E r \in thread[t].queue :
         /\ First(r, thread[t].queue)
         /\ thread' = [thread EXCEPT ![t] =
                         [pc |-> "update", queue |-> @.queue \ {r},
                          id |-> r.id, report |-> jobs[r.id]]]
    /\ UNCHANGED <<now, jobs, requests, enqueues, acked>>

PollFails(t) ==
    /\ thread[t].pc = "poll"
    /\ \E r \in thread[t].queue :
         First(r, thread[t].queue) /\ GoOn(t, thread[t].queue \ {r})
    /\ UNCHANGED <<now, jobs, requests, enqueues, acked>>

\* update_status_report; a request that is no longer recorded is an error.
UpdatedFault(r, i, job) ==
    IF r.created = job.created THEN [r EXCEPT !.status = job.status, !.updated = now] ELSE r
Updated(r, i, job) ==
    IF r.id = i THEN [r EXCEPT !.status = job.status, !.updated = now] ELSE r
Update(t) ==
    /\ thread[t].pc = "update"
    /\ requests' = {Updated(r, thread[t].id, thread[t].report) : r \in requests}
    /\ GoOn(t, thread[t].queue)
    /\ UNCHANGED <<now, jobs, enqueues, acked>>

UpdateFails(t) ==
    /\ thread[t].pc = "update"
    /\ GoOn(t, thread[t].queue)
    /\ UNCHANGED <<now, jobs, requests, enqueues, acked>>

-----------------------------------------------------------------------------
\* The executor: an active job changes its status, a terminal one is final.
JobChanges(i, status) ==
    /\ jobs[i].status \in Active
    /\ jobs' = [jobs EXCEPT ![i].status = status]
    /\ UNCHANGED <<now, requests, thread, enqueues, acked>>
JobEnds(i) == \E status \in Terminal : JobChanges(i, status)

Tick ==
    /\ now < MaxTime
    /\ now' = now + 1
    /\ UNCHANGED <<jobs, requests, thread, enqueues, acked>>

\* The server process ends and is started again; its state is persistent.
Restart ==
    /\ thread' = [t \in Threads |-> Idle]
    /\ UNCHANGED <<now, jobs, requests, enqueues, acked>>

Next ==
    \/ \E t \in Threads :
         \/ \E i \in RequestIds, status \in {"queued", "failed"} :
              Enqueue(t, i, status) \/ EnqueueUnanswered(t, i, status)
         \/ Save(t) \/ SaveFails(t)
         \/ Refresh(t) \/ Poll(t) \/ PollFails(t) \/ Update(t) \/ UpdateFails(t)
    \/ \E i \in RequestIds : JobEnds(i) \/ \E status \in Active : JobChanges(i, status)
    \/ Tick \/ Restart

Spec == Init /\ [][Next]_vars

\* An open workspace is read again and again, and neither the executor nor the
\* state backend fails for ever; jobs end (the executor has time limits).
Fairness ==
    /\ \A t \in Threads :
         /\ WF_vars(Save(t) \/ SaveFails(t)) /\ WF_vars(Refresh(t))
         /\ SF_vars(Poll(t)) /\ SF_vars(Update(t))
    /\ \A i \in RequestIds : WF_vars(JobEnds(i))
FairSpec == Spec /\ Fairness

-----------------------------------------------------------------------------
(***************************************************************************)
(* Properties.                                                             *)
(***************************************************************************)
Jobs == [status : {"none"} \cup Active \cup Terminal, created : Nat]
RequestRecords == [id : RequestIds, status : Active \cup Terminal, created : Nat, updated : Nat]

\* Every variable has its type.
TypeOK ==
    /\ now \in Nat
    /\ jobs \in [RequestIds -> Jobs]
    /\ requests \subseteq RequestRecords
    /\ IsFiniteSet(requests) /\ Cardinality(requests) <= Keep
    /\ thread \in [Threads -> [pc : {"idle", "save", "poll", "update"},
                               queue : SUBSET RequestRecords,
                               id : RequestIds \cup {NoId}, report : Jobs]]
    /\ enqueues \in Nat
    /\ acked \subseteq RequestIds

\* A request has one record, however often it is enqueued.
OneRecordPerRequest == \A r, q \in requests : r.id = q.id => r = q

\* A record that says a job has ended says how it ended, although answers of
\* the executor are stored late and out of order.
TerminalIsTrue == \A r \in requests : r.status \in Terminal => jobs[r.id].status = r.status

\* A request that was answered as accepted is recorded unless the state is full.
AckedIsRecorded ==
    \A i \in acked : (\E r \in requests : r.id = i) \/ Cardinality(requests) = Keep

\* In the end every recorded request of a job that ended says so and keeps
\* saying so, although a late answer can set it back to active.
Settles ==
    \A i \in RequestIds :
        <>[](\A r \in requests : r.id = i => r.status \in Terminal)
=============================================================================
