----------------------- MODULE HostedExecutionProofs -----------------------
(***************************************************************************)
(* Proofs about HostedExecution for any threads, requests and limits.      *)
(***************************************************************************)
EXTENDS HostedExecution, FiniteSetTheorems, TLAPS

USE HostedExecutionAssumption

\* What was once told of a job stays true of it.
Told(i, status) ==
    /\ status # "none"
    /\ jobs[i].status # "none"
    /\ status \in Terminal => jobs[i].status = status

\* The records.
RecordsInv ==
    /\ requests \subseteq RequestRecords
    /\ IsFiniteSet(requests) /\ Cardinality(requests) <= Keep
    /\ OneRecordPerRequest /\ AckedIsRecorded
    /\ \A r \in requests : Told(r.id, r.status)

\* What a thread holds.
Ops == [pc : {"idle", "save", "poll", "update"}, queue : SUBSET RequestRecords,
        id : RequestIds \cup {NoId}, report : Jobs]
Sound(o) ==
    /\ o \in Ops
    /\ o.pc \in {"save", "update"} => o.id \in RequestIds /\ Told(o.id, o.report.status)
    /\ \A r \in o.queue : Told(r.id, r.status)

IInv == TypeOK /\ RecordsInv /\ \A t \in Threads : Sound(thread[t])

\* The inductive invariant holds at first.
LEMMA InitIInv == Init => IInv
<1> SUFFICES ASSUME Init PROVE IInv
  OBVIOUS
<1>1. Idle \in Ops
  BY DEF Idle, Ops, Jobs, NoJob
<1>2. TypeOK
  BY <1>1, FS_EmptySet DEF Init, TypeOK, Jobs, NoJob, Ops
<1>3. RecordsInv
  BY FS_EmptySet DEF Init, RecordsInv, OneRecordPerRequest, AckedIsRecorded
<1> QED BY <1>1, <1>2, <1>3 DEF Init, IInv, Sound, Idle

\* A job that ended does not change and no job disappears.
LEMMA ToldStays ==
    ASSUME TypeOK, [Next]_vars, NEW i \in RequestIds, NEW s, Told(i, s)
    PROVE  Told(i, s)'
<1> USE DEF TypeOK
<1>1. CASE UNCHANGED jobs
  BY <1>1 DEF Told
<1>2. ASSUME NEW j \in RequestIds, NEW status \in {"queued", "failed"}, Accepted(j, status)
      PROVE  Told(i, s)'
  <2>1. jobs'[i] = jobs[i]
    BY <1>2 DEF Accepted, Told
  <2> QED BY <2>1 DEF Told
<1>3. ASSUME NEW j \in RequestIds, NEW status, JobChanges(j, status),
             status \in Active \cup Terminal
      PROVE  Told(i, s)'
  <2>1. status # "none"
    BY <1>3 DEF Active, Terminal
  <2>2. CASE i = j
    <3>1. s \notin Terminal
      BY <1>3, <2>2 DEF JobChanges, Told, Active, Terminal
    <3>2. jobs'[i].status = status
      BY <1>3, <2>2 DEF JobChanges, Jobs
    <3> QED BY <2>1, <3>1, <3>2 DEF Told
  <2>3. CASE i # j
    BY <1>3, <2>3 DEF JobChanges, Told
  <2> QED BY <2>2, <2>3
<1> QED BY <1>1, <1>2, <1>3 DEF Next, vars, Enqueue, EnqueueUnanswered, Save, SaveFails,
      Refresh, Poll, PollFails, Update, UpdateFails, JobEnds, Tick, Restart

\* An enqueue gives every request that it names a job.
LEMMA AcceptedJobs ==
    ASSUME TypeOK, NEW i \in RequestIds, NEW status \in {"queued", "failed"}, Accepted(i, status)
    PROVE  jobs' \in [RequestIds -> Jobs] /\ jobs'[i].status # "none"
  BY DEF TypeOK, Accepted, Jobs, Active, Terminal

\* What a write of one record leaves: the record, at most Keep - 1 others, and
\* all others unless there are Keep records.
LEMMA RecordedFacts ==
    ASSUME IInv, NEW i \in RequestIds, NEW job \in Jobs, Told(i, job.status), Recorded(i, job)
    PROVE  /\ requests' \subseteq RequestRecords
           /\ IsFiniteSet(requests') /\ Cardinality(requests') <= Keep
           /\ \A r \in requests' : r \in Others(i) \/ r = Record(i, job)
           /\ Record(i, job) \in requests'
           /\ \/ Cardinality(requests') = Keep
              \/ requests' = Others(i) \cup {Record(i, job)} /\ Cardinality(requests) < Keep
<1> USE DEF IInv, TypeOK
<1> DEFINE R == Record(i, job)
<1>1. PICK L \in Left(Others(i)) : requests' = L \cup {R}
  BY DEF Recorded
<1>2. IsFiniteSet(Others(i)) /\ Cardinality(Others(i)) <= Cardinality(requests)
  BY FS_Subset DEF Others
<1>3. Cardinality(Others(i)) \in Nat /\ Cardinality(requests) \in Nat
  BY <1>2, FS_CardinalityType
<1>4. L \subseteq Others(i) /\ IsFiniteSet(L)
  BY <1>1, <1>2, FS_Subset DEF Left
<1>5. R \in RequestRecords /\ R \notin L
  BY <1>4 DEF Record, RequestRecords, Told, Jobs, Others
<1>6. IsFiniteSet(requests') /\ Cardinality(requests') = Cardinality(L) + 1
  BY <1>1, <1>4, <1>5, FS_AddElement
<1>7. CASE Cardinality(Others(i)) < Keep
  <2>1. L = Others(i)
    BY <1>1, <1>7 DEF Left
  <2>2. Cardinality(requests) = Keep => Cardinality(Others(i)) # Keep
    BY <1>7
  <2>3. Cardinality(requests') <= Keep
    BY <1>3, <1>6, <1>7, <2>1
  <2>4. Cardinality(requests) = Keep => Cardinality(requests') = Keep
    <3> SUFFICES ASSUME Cardinality(requests) = Keep
                 PROVE  Cardinality(Others(i)) = Keep - 1
      BY <1>6, <2>1
    <3>1. Others(i) # requests
      BY <1>7
    <3>2. PICK r \in requests : r.id = i
      BY <3>1 DEF Others
    <3>3. Others(i) = requests \ {r}
      BY <3>2 DEF Others, OneRecordPerRequest, RecordsInv
    <3> QED BY <3>2, <3>3, FS_RemoveElement
  <2> QED BY <1>1, <1>3, <1>4, <1>5, <1>6, <2>1, <2>3, <2>4 DEF Others
<1>8. CASE Cardinality(Others(i)) >= Keep
  <2>1. Cardinality(L) = Keep - 1
    BY <1>1, <1>3, <1>8 DEF Left
  <2> QED BY <1>1, <1>4, <1>5, <1>6, <2>1 DEF Others
<1> QED BY <1>3, <1>7, <1>8

\* A write of one record keeps what the invariant says of the records, and a
\* request that it acknowledges is recorded.
LEMMA RecordedStep ==
    ASSUME IInv, [Next]_vars, NEW i \in RequestIds, NEW job \in Jobs, Told(i, job.status),
           Recorded(i, job), acked' \subseteq acked \cup {i}
    PROVE  RecordsInv'
<1> USE DEF IInv
<1> DEFINE R == Record(i, job)
<1>1. /\ requests' \subseteq RequestRecords
      /\ IsFiniteSet(requests') /\ Cardinality(requests') <= Keep
      /\ \A r \in requests' : r \in Others(i) \/ r = R
      /\ R \in requests'
      /\ \/ Cardinality(requests') = Keep
         \/ requests' = Others(i) \cup {R} /\ Cardinality(requests) < Keep
  BY RecordedFacts
<1>2. R.id = i /\ R.status = job.status
  BY DEF Record
<1>3. OneRecordPerRequest'
  BY <1>1, <1>2 DEF OneRecordPerRequest, Others, RecordsInv
<1>4. ASSUME NEW r \in requests' PROVE Told(r.id, r.status)'
  <2>1. Told(r.id, r.status)
    BY <1>1, <1>2 DEF RecordsInv, Others
  <2>2. r.id \in RequestIds
    BY <1>1 DEF RequestRecords
  <2> QED BY <2>1, <2>2, ToldStays
<1>5. AckedIsRecorded'
  <2> SUFFICES ASSUME NEW j \in acked', Cardinality(requests') # Keep
               PROVE  \E r \in requests' : r.id = j
    BY DEF AckedIsRecorded
  <2>1. requests' = Others(i) \cup {R} /\ Cardinality(requests) < Keep
    BY <1>1
  <2>2. CASE j = i
    BY <1>1, <1>2, <2>2
  <2>3. CASE j # i
    <3>1. Cardinality(requests) # Keep
      BY <2>1, FS_CardinalityType DEF TypeOK
    <3>2. PICK r \in requests : r.id = j
      BY <2>3, <3>1 DEF AckedIsRecorded, RecordsInv
    <3> QED BY <2>1, <2>3, <3>2 DEF Others
  <2> QED BY <2>2, <2>3
<1> QED BY <1>1, <1>3, <1>4, <1>5 DEF RecordsInv

\* A status report changes at most one record and adds and drops none.
LEMMA UpdatedStep ==
    ASSUME IInv, [Next]_vars, NEW i \in RequestIds, NEW job \in Jobs, Told(i, job.status),
           requests' = {Updated(r, i, job) : r \in requests}, acked' = acked
    PROVE  RecordsInv'
<1> USE DEF IInv
<1>1. \A r \in requests : /\ Updated(r, i, job) \in RequestRecords
                          /\ Updated(r, i, job).id = r.id
                          /\ \/ Updated(r, i, job).status = r.status
                             \/ r.id = i /\ Updated(r, i, job).status = job.status
  BY DEF TypeOK, RequestRecords, Updated, Jobs, Told
<1>2. requests' \subseteq RequestRecords
  BY <1>1
<1>3. OneRecordPerRequest'
  BY <1>1 DEF OneRecordPerRequest, RecordsInv
<1>4. IsFiniteSet(requests') /\ Cardinality(requests') = Cardinality(requests)
  <2> DEFINE f == [r \in requests |-> Updated(r, i, job)]
  <2>1. \A r, q \in requests : f[r] = f[q] => r = q
    <3> SUFFICES ASSUME NEW r \in requests, NEW q \in requests, f[r] = f[q] PROVE r = q
      OBVIOUS
    <3>1. r.id = q.id
      BY <1>1
    <3> QED BY <3>1 DEF OneRecordPerRequest, RecordsInv
  <2>2. f \in Bijection(requests, requests')
    BY <2>1 DEF Bijection, Injection, Surjection, IsInjective
  <2>3. ExistsBijection(requests, requests')
    BY <2>2 DEF ExistsBijection
  <2> QED BY <2>3, FS_Bijection DEF TypeOK
<1>5. ASSUME NEW r \in requests' PROVE Told(r.id, r.status)'
  <2>1. Told(r.id, r.status)
    BY <1>1 DEF RecordsInv
  <2>2. r.id \in RequestIds
    BY <1>2 DEF RequestRecords
  <2> QED BY <2>1, <2>2, ToldStays
<1>6. AckedIsRecorded'
  <2> SUFFICES ASSUME NEW j \in acked', Cardinality(requests') # Keep
               PROVE  \E r \in requests' : r.id = j
    BY DEF AckedIsRecorded
  <2>1. PICK r \in requests : r.id = j
    BY <1>4 DEF AckedIsRecorded, RecordsInv
  <2> QED BY <1>1, <2>1
<1> QED BY <1>2, <1>3, <1>4, <1>5, <1>6 DEF TypeOK, RecordsInv

\* A thread that goes on polls requests it was told of.
LEMMA GoOnSound ==
    ASSUME TypeOK, NEW t \in Threads, NEW Q, GoOn(t, Q),
           Q \subseteq RequestRecords, \A r \in Q : Told(r.id, r.status)'
    PROVE  Sound(thread[t])' /\ \A u \in Threads \ {t} : thread'[u] = thread[u]
<1>1. NoJob \in Jobs
  BY DEF NoJob, Jobs
<1> QED BY <1>1 DEF TypeOK, GoOn, Sound, Ops, Idle

\* The threads are sound after every step.
LEMMA ThreadStep ==
    ASSUME IInv, [Next]_vars PROVE \A t \in Threads : Sound(thread[t])'
<1> USE DEF IInv
<1>1. \A t \in Threads : Sound(thread[t])
  OBVIOUS
<1>3. \A t \in Threads : thread'[t] = thread[t] => Sound(thread[t])'
  <2> SUFFICES ASSUME NEW t \in Threads, thread'[t] = thread[t] PROVE Sound(thread[t])'
    OBVIOUS
  <2>1. Sound(thread[t]) /\ (\A r \in thread[t].queue : r.id \in RequestIds)
    BY <1>1 DEF Sound, Ops, RequestRecords
  <2>2. \A r \in thread[t].queue : Told(r.id, r.status)'
    BY <2>1, ToldStays DEF Sound
  <2>3. thread[t].pc \in {"save", "update"} => Told(thread[t].id, thread[t].report.status)'
    BY <2>1, ToldStays DEF Sound
  <2> QED BY <2>1, <2>2, <2>3 DEF Sound, Told
<1>4. \A t \in Threads : thread'[t] = Idle => Sound(thread[t])'
  BY DEF Sound, Ops, Idle, NoJob, Jobs
<1>5. ASSUME NEW t \in Threads, NEW i \in RequestIds, NEW status \in {"queued", "failed"},
             Enqueue(t, i, status)
      PROVE  \A u \in Threads : Sound(thread[u])'
  <2>1. jobs' \in [RequestIds -> Jobs] /\ jobs'[i].status # "none"
    BY <1>5, AcceptedJobs DEF Enqueue
  <2>2. thread'[t] = [pc |-> "save", queue |-> {}, id |-> i, report |-> jobs'[i]]
    BY <1>5 DEF Enqueue, TypeOK
  <2>3. Sound(thread[t])'
    BY <2>1, <2>2 DEF Sound, Ops, Told
  <2>4. \A u \in Threads \ {t} : thread'[u] = thread[u]
    BY <1>5 DEF Enqueue, TypeOK
  <2> QED BY <1>3, <2>3, <2>4
<1>6. ASSUME NEW t \in Threads, Save(t) \/ SaveFails(t)
      PROVE  \A u \in Threads : Sound(thread[u])'
  <2>1. \A u \in Threads : thread'[u] = Idle \/ thread'[u] = thread[u]
    BY <1>6 DEF Save, SaveFails, TypeOK
  <2> QED BY <1>3, <1>4, <2>1
<1>7. ASSUME NEW t \in Threads, Refresh(t) PROVE \A u \in Threads : Sound(thread[u])'
  <2>1. PollQueue \subseteq RequestRecords /\ \A r \in PollQueue : r \in requests
    BY DEF PollQueue, ActiveRequests, TypeOK
  <2>2. \A r \in PollQueue : Told(r.id, r.status)'
    BY <2>1, ToldStays DEF RecordsInv, RequestRecords
  <2> QED BY <1>3, <1>7, <2>1, <2>2, GoOnSound DEF Refresh
<1>8. ASSUME NEW t \in Threads, Poll(t) PROVE \A u \in Threads : Sound(thread[u])'
  <2>1. PICK r \in thread[t].queue :
           thread' = [thread EXCEPT ![t] =
                        [pc |-> "update", queue |-> @.queue \ {r},
                         id |-> r.id, report |-> jobs[r.id]]]
    BY <1>8 DEF Poll
  <2>2. /\ thread'[t] = [pc |-> "update", queue |-> thread[t].queue \ {r},
                         id |-> r.id, report |-> jobs[r.id]]
        /\ \A u \in Threads \ {t} : thread'[u] = thread[u]
        /\ jobs' = jobs
    BY <1>8, <2>1 DEF Poll, TypeOK
  <2>3. r.id \in RequestIds /\ jobs[r.id] \in Jobs /\ jobs[r.id].status # "none"
    BY <1>1 DEF Sound, Ops, RequestRecords, Told, TypeOK
  <2>4. thread'[t] \in Ops
    BY <1>1, <2>2, <2>3 DEF Sound, Ops
  <2>5. \A q \in thread'[t].queue : Told(q.id, q.status)'
    <3> SUFFICES ASSUME NEW q \in thread'[t].queue PROVE Told(q.id, q.status)'
      OBVIOUS
    <3>1. q.id \in RequestIds /\ Told(q.id, q.status)
      BY <1>1, <2>2 DEF Sound, Ops, RequestRecords
    <3> QED BY <3>1, ToldStays
  <2>6. Sound(thread[t])'
    BY <2>2, <2>3, <2>4, <2>5 DEF Sound, Told
  <2> QED BY <1>3, <2>2, <2>6
<1>9. ASSUME NEW t \in Threads, PollFails(t) \/ Update(t) \/ UpdateFails(t)
      PROVE  \A u \in Threads : Sound(thread[u])'
  <2>1. PICK Q \in SUBSET thread[t].queue : GoOn(t, Q)
    BY <1>9 DEF PollFails, Update, UpdateFails
  <2>2. Q \subseteq RequestRecords /\ \A r \in Q : Told(r.id, r.status)
    BY <1>1 DEF Sound, Ops
  <2>3. \A r \in Q : Told(r.id, r.status)'
    BY <2>2, ToldStays DEF RequestRecords
  <2> QED BY <1>3, <2>1, <2>2, <2>3, GoOnSound
<1>10. CASE Restart
  BY <1>4, <1>10 DEF Restart
<1>11. CASE UNCHANGED thread
  BY <1>3, <1>11
<1> QED BY <1>5, <1>6, <1>7, <1>8, <1>9, <1>10, <1>11 DEF Next, vars, EnqueueUnanswered,
      JobEnds, JobChanges, Tick

\* Every step keeps the records.
LEMMA RecordsStep == IInv /\ [Next]_vars => RecordsInv'
<1> SUFFICES ASSUME IInv, [Next]_vars PROVE RecordsInv'
  OBVIOUS
<1>1. CASE UNCHANGED <<requests, acked>>
  <2>1. \A r \in requests : r.id \in RequestIds /\ Told(r.id, r.status)
    BY DEF IInv, RequestRecords, RecordsInv
  <2>2. \A r \in requests : Told(r.id, r.status)'
    BY <2>1, ToldStays DEF IInv
  <2> QED BY <1>1, <2>2 DEF IInv, RecordsInv, OneRecordPerRequest, AckedIsRecorded
<1>2. ASSUME NEW t \in Threads, thread[t].pc \in {"save", "update"}
      PROVE  /\ thread[t].id \in RequestIds /\ thread[t].report \in Jobs
             /\ Told(thread[t].id, thread[t].report.status)
  BY <1>2 DEF IInv, Sound, Ops
<1>3. ASSUME NEW t \in Threads, Save(t) \/ SaveFails(t) PROVE RecordsInv'
  <2>1. CASE Recorded(thread[t].id, thread[t].report)
    <3>1. thread[t].pc = "save" /\ acked' \subseteq acked \cup {thread[t].id}
      BY <1>3 DEF Save, SaveFails
    <3> QED BY <1>2, <2>1, <3>1, RecordedStep
  <2>2. CASE ~Recorded(thread[t].id, thread[t].report)
    <3>1. UNCHANGED <<requests, acked>>
      BY <1>3, <2>2 DEF Save, SaveFails
    <3> QED BY <1>1, <3>1
  <2> QED BY <2>1, <2>2
<1>4. ASSUME NEW t \in Threads, Update(t) PROVE RecordsInv'
  <2>1. /\ thread[t].pc = "update" /\ acked' = acked
        /\ requests' = {Updated(r, thread[t].id, thread[t].report) : r \in requests}
    BY <1>4 DEF Update
  <2> QED BY <1>2, <2>1, UpdatedStep
<1> QED BY <1>1, <1>3, <1>4 DEF Next, vars, Enqueue, EnqueueUnanswered, Refresh, Poll,
      PollFails, UpdateFails, JobEnds, JobChanges, Tick, Restart

\* Every step keeps the inductive invariant.
LEMMA IInvStep == IInv /\ [Next]_vars => IInv'
<1> SUFFICES ASSUME IInv, [Next]_vars PROVE IInv'
  OBVIOUS
<1>1. RecordsInv' /\ \A t \in Threads : Sound(thread[t])'
  BY RecordsStep, ThreadStep
<1>2. thread' \in [Threads -> Ops]
  <2>1. \A t \in Threads : thread'[t] \in Ops
    BY <1>1 DEF Sound, Ops, Jobs, RequestRecords
  <2>2. thread' = [t \in Threads |-> thread'[t]]
    BY DEF IInv, TypeOK, Next, vars, Enqueue, EnqueueUnanswered, Save, SaveFails, Refresh, Poll,
      PollFails, Update, UpdateFails, GoOn, JobEnds, JobChanges, Tick, Restart
  <2> QED BY <2>1, <2>2
<1>3. jobs' \in [RequestIds -> Jobs]
  <2>1. ASSUME NEW i \in RequestIds, NEW status \in Active \cup Terminal, JobChanges(i, status)
        PROVE  jobs' \in [RequestIds -> Jobs]
    BY <2>1 DEF IInv, TypeOK, JobChanges, Jobs
  <2> QED BY <2>1, AcceptedJobs DEF IInv, TypeOK, Next, vars, Enqueue, EnqueueUnanswered, Save, SaveFails,
      Refresh, Poll, PollFails, Update, UpdateFails, JobEnds, Tick, Restart
<1>4. now' \in Nat /\ enqueues' \in Nat
  BY DEF IInv, TypeOK, Next, vars, Enqueue, EnqueueUnanswered, Accepted, Save, SaveFails,
      Refresh, Poll, PollFails, Update, UpdateFails, JobEnds, JobChanges, Tick, Restart
<1>5. acked' \subseteq RequestIds
  <2>1. ASSUME NEW t \in Threads, Save(t) PROVE acked' \subseteq RequestIds
    BY <2>1 DEF IInv, TypeOK, Save, Sound
  <2> QED BY <2>1 DEF IInv, TypeOK, Next, vars, Enqueue, EnqueueUnanswered, SaveFails,
      Refresh, Poll, PollFails, Update, UpdateFails, JobEnds, JobChanges, Tick, Restart
<1>6. TypeOK'
  BY <1>1, <1>2, <1>3, <1>4, <1>5 DEF TypeOK, RecordsInv, Ops, Jobs, RequestRecords
<1> QED BY <1>1, <1>6 DEF IInv

\* The invariant holds always.
LEMMA Invariance == Spec => []IInv
  BY InitIInv, IInvStep, PTL DEF Spec

\* Every variable keeps its type; never more than Keep records are stored.
THEOREM TypeCorrect == Spec => []TypeOK
<1>1. IInv => TypeOK
  BY DEF IInv
<1> QED BY <1>1, Invariance, PTL

\* save_enqueue_report keeps one record for each request, whatever threads,
\* retries, restarts and state failures there are.
THEOREM RecordsCorrect == Spec => []OneRecordPerRequest
<1>1. IInv => OneRecordPerRequest
  BY DEF IInv, RecordsInv
<1> QED BY <1>1, Invariance, PTL

\* update_status_report and save_enqueue_report store a final status only when
\* the job has it, however late they come.
THEOREM TerminalCorrect == Spec => []TerminalIsTrue
<1>1. IInv => TerminalIsTrue
  BY DEF IInv, RecordsInv, TerminalIsTrue, Told
<1> QED BY <1>1, Invariance, PTL

\* A request answered as accepted is recorded unless Keep records are stored.
THEOREM AckedCorrect == Spec => []AckedIsRecorded
<1>1. IInv => AckedIsRecorded
  BY DEF IInv, RecordsInv
<1> QED BY <1>1, Invariance, PTL
=============================================================================
