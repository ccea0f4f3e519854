------------------------ MODULE LocalExecutionProofs ------------------------
(***************************************************************************)
(* Proofs about LocalExecution for any number of threads, backend          *)
(* processes, request ids and versions.                                    *)
(***************************************************************************)
EXTENDS LocalExecution, TLAPS

USE LocalExecutionAssumption

\* The history cap only removes records (_cap_superseded_history).
LEMMA CapShrinks ==
    ASSUME NEW S PROVE CapSuperseded(S) \subseteq S
  BY DEF CapSuperseded

\* Keys of well-formed records are keys of attempt directories.
LEMMA KeyType ==
    ASSUME NEW r \in Requests PROVE Key(r) \in Keys
  BY DEF Requests, Key, Keys

\* Superseding and appending keeps the list of records well-formed.
LEMMA WithRequestType ==
    ASSUME NEW S \in SUBSET Requests, NEW new \in Requests
    PROVE  WithRequest(S, new) \subseteq Requests
<1>1. \A r \in S : Supersede(r) \in Requests
  BY DEF Requests, Supersede
<1> QED BY <1>1, CapShrinks DEF WithRequest

\* Consuming keeps the list of records well-formed.
LEMMA ConsumeType ==
    ASSUME NEW S \in SUBSET Requests, NEW C \in SUBSET S
    PROVE  Consume(S, C) \subseteq Requests
<1>1. \A r \in C : [r EXCEPT !.status = "consumed"] \in Requests
  BY DEF Requests
<1> QED BY <1>1, CapShrinks DEF Consume

\* One more start extends the range of start numbers.
LEMMA ExtendRange ==
    ASSUME NEW n \in Nat, NEW L \in SUBSET (1 .. n)
    PROVE  L \cup {n + 1} \subseteq 1 .. (n + 1)
  OBVIOUS

\* Every step keeps the types.
LEMMA TypeStep == TypeInv /\ [Next]_vars => TypeInv'
<1> SUFFICES ASSUME TypeInv, [Next]_vars PROVE TypeInv'
  OBVIOUS
<1> USE DEF TypeInv, TypeOK, Stages, ExecutionStages, SelectedStages,
            AttemptStatus, GoTo, Forget, NoSnapshot, fileVars, threadVars
<1>1. CASE UNCHANGED vars
  BY <1>1 DEF vars
<1>2. CASE Next
  <2>1. ASSUME NEW t \in Threads, SaveRead(t) PROVE TypeInv'
    BY <2>1 DEF SaveRead, Requests
  <2>2. ASSUME NEW t \in Threads, SaveWrite(t) PROVE TypeInv'
    BY <2>2, WithRequestType DEF SaveWrite
  <2>3. ASSUME NEW t \in Threads, SaveFails(t) PROVE TypeInv'
    BY <2>3 DEF SaveFails
  <2>4. ASSUME NEW t \in Threads, TakeLease(t) PROVE TypeInv'
    BY <2>4 DEF TakeLease
  <2>5. ASSUME NEW t \in Threads, Select(t) PROVE TypeInv'
    BY <2>5 DEF Select, Active
  <2>6. ASSUME NEW t \in Threads, ValidateInitialization(t) PROVE TypeInv'
    BY <2>6 DEF ValidateInitialization
  <2>7. ASSUME NEW t \in Threads, ValidateEntry(t) PROVE TypeInv'
    BY <2>7 DEF ValidateEntry
  <2>8. ASSUME NEW t \in Threads, CopyEntry(t) PROVE TypeInv'
    BY <2>8 DEF CopyEntry
  <2>9. ASSUME NEW t \in Threads, CopyInitialization(t) PROVE TypeInv'
    BY <2>9 DEF CopyInitialization
  <2>10. ASSUME NEW t \in Threads, Refuse(t) PROVE TypeInv'
    BY <2>10 DEF Refuse
  <2>11. ASSUME NEW t \in Threads, Promote(t) PROVE TypeInv'
    BY <2>11, KeyType DEF Promote
  <2>12. ASSUME NEW t \in Threads, PromoteCollides(t) PROVE TypeInv'
    BY <2>12, KeyType DEF PromoteCollides, RemoveAttempt
  <2>13. ASSUME NEW t \in Threads, WritePrepared(t) PROVE TypeInv'
    BY <2>13, KeyType DEF WritePrepared
  <2>14. ASSUME NEW t \in Threads, PrepareFails(t) PROVE TypeInv'
    BY <2>14, KeyType DEF PrepareFails, RemoveAttempt
  <2>15. ASSUME NEW t \in Threads, ClaimRead(t) PROVE TypeInv'
    BY <2>15 DEF ClaimRead
  <2>16. ASSUME NEW t \in Threads, ClaimWrite(t) PROVE TypeInv'
    <3> DEFINE matched == Claimable(view[t], request[t])
    <3>1. matched \in SUBSET view[t] /\ view[t] \in SUBSET Requests
      BY DEF Claimable, Active
    <3>2. requests' \subseteq Requests
      BY <2>16, <3>1, ConsumeType DEF ClaimWrite
    <3>3. claimed' \subseteq Keys
      <4>1. \A r \in matched : Key(r) \in Keys
        BY <3>1, KeyType
      <4> QED BY <2>16, <4>1 DEF ClaimWrite
    <3>4. cut' \in [Threads -> [Sources -> Nat]]
      BY <2>16 DEF ClaimWrite
    <3> QED BY <2>16, <3>2, <3>3, <3>4 DEF ClaimWrite
  <2>17. ASSUME NEW t \in Threads, ClaimFails(t) PROVE TypeInv'
    BY <2>17, KeyType DEF ClaimFails, RemoveAttempt
  <2>18. ASSUME NEW t \in Threads, RecheckEntry(t) PROVE TypeInv'
    BY <2>18 DEF RecheckEntry
  <2>19. ASSUME NEW t \in Threads, RecheckInitialization(t) PROVE TypeInv'
    BY <2>19 DEF RecheckInitialization
  <2>20. ASSUME NEW t \in Threads, InputChanged(t) PROVE TypeInv'
    BY <2>20, KeyType DEF InputChanged, Report
  <2>21. ASSUME NEW t \in Threads, WriteRunning(t) PROVE TypeInv'
    BY <2>21, KeyType DEF WriteRunning, Report
  <2>22. ASSUME NEW t \in Threads, StartProcess(t) PROVE TypeInv'
    <3>1. Key(request[t]) \in Keys
      BY <2>22, KeyType DEF StartProcess
    <3>2. starts' \in Seq(Keys) /\ Len(starts') = Len(starts) + 1
      BY <2>22, <3>1 DEF StartProcess
    <3>3. Len(starts) \in Nat
      OBVIOUS
    <3>4. live' \subseteq 1 .. Len(starts')
      <4> HIDE DEF TypeInv
      <4>1. live' = live \cup {Len(starts) + 1}
        BY <2>22, <3>2 DEF StartProcess
      <4>2. live \subseteq 1 .. Len(starts)
        BY DEF TypeInv
      <4> QED BY <4>1, <4>2, <3>2, <3>3, ExtendRange
    <3>5. proc' \in [Threads -> Nat]
      BY <2>22, <3>2, <3>3 DEF StartProcess
    <3> QED BY <2>22, <3>2, <3>4, <3>5 DEF StartProcess
  <2>23. ASSUME NEW t \in Threads, StartFails(t) PROVE TypeInv'
    BY <2>23, KeyType DEF StartFails, Report
  <2>24. ASSUME NEW t \in Threads, Publish(t) PROVE TypeInv'
    BY <2>24 DEF Publish
  <2>25. ASSUME NEW t \in Threads, RecordCompleted(t) PROVE TypeInv'
    BY <2>25, KeyType DEF RecordCompleted, Report
  <2>26. ASSUME NEW t \in Threads, RecordFailed(t) PROVE TypeInv'
    BY <2>26, KeyType DEF RecordFailed, Report
  <2>27. ASSUME NEW t \in Threads, TimeoutTerminated(t) PROVE TypeInv'
    BY <2>27, KeyType DEF TimeoutTerminated, Report, TimeoutExpired
  <2>28. ASSUME NEW t \in Threads, TimeoutAmbiguous(t) PROVE TypeInv'
    BY <2>28, KeyType DEF TimeoutAmbiguous, Report, TimeoutExpired
  <2>29. ASSUME NEW t \in Threads, MarkAmbiguous(t) PROVE TypeInv'
    BY <2>29, KeyType DEF MarkAmbiguous
  <2>30. ASSUME NEW t \in Threads, ReleaseLease(t) PROVE TypeInv'
    BY <2>30 DEF ReleaseLease
  <2>31. ASSUME NEW t \in Threads, ConcedeLease(t) PROVE TypeInv'
    BY <2>31 DEF ConcedeLease
  <2>32. ASSUME NEW t \in Threads, FailUnclean(t) PROVE TypeInv'
    BY <2>32 DEF FailUnclean
  <2>33. ASSUME NEW s \in Servers, Crash(s) PROVE TypeInv'
    BY <2>33 DEF Crash
  <2>34. ASSUME NEW k \in live, ProcessExits(k) PROVE TypeInv'
    BY <2>34 DEF ProcessExits
  <2>35. ASSUME NEW f \in Sources, EditSource(f) PROVE TypeInv'
    BY <2>35 DEF EditSource
  <2>36. CASE RecoverLease
    BY <2>36 DEF RecoverLease
  <2>37. ASSUME NEW k \in Keys, RecoverAmbiguous(k) PROVE TypeInv'
    BY <2>37 DEF RecoverAmbiguous
  <2>38. ASSUME NEW t \in Threads, SignalRefused(t) PROVE TypeInv'
    BY <2>38, KeyType DEF SignalRefused, Report, TimeoutExpired
  <2> QED
    BY <1>2, <2>1, <2>2, <2>3, <2>4, <2>5, <2>6, <2>7, <2>8, <2>9, <2>10, <2>11, <2>12, <2>13, <2>14, <2>15, <2>16, <2>17, <2>18, <2>19, <2>20, <2>21, <2>22, <2>23, <2>24, <2>25, <2>26, <2>27, <2>28, <2>29, <2>30, <2>31, <2>32, <2>33, <2>34, <2>35, <2>36, <2>37, <2>38
       DEF Next, Environment, Save, Prepare, Claim, Run, Finish
<1> QED BY <1>1, <1>2

\* An executing thread keeps the lease to itself and to its process group.
LEMMA LeaseStep == TypeInv /\ LeaseInv /\ [Next]_vars => LeaseInv'
<1> SUFFICES ASSUME TypeInv, LeaseInv, [Next]_vars PROVE LeaseInv'
  OBVIOUS
<1> USE DEF LeaseInv, SingleFlight, Executing, ExecutionStages, ProcessStages,
            Held, TypeInv, TypeOK, GoTo, Forget, fileVars, threadVars
<1>1. CASE UNCHANGED vars
  BY <1>1 DEF vars
<1>2. CASE Next
  <2>1. ASSUME NEW t \in Threads, SaveRead(t) PROVE LeaseInv'
    BY <2>1 DEF SaveRead
  <2>2. ASSUME NEW t \in Threads, SaveWrite(t) PROVE LeaseInv'
    BY <2>2 DEF SaveWrite
  <2>3. ASSUME NEW t \in Threads, SaveFails(t) PROVE LeaseInv'
    BY <2>3 DEF SaveFails
  <2>4. ASSUME NEW t \in Threads, TakeLease(t) PROVE LeaseInv'
    BY <2>4 DEF TakeLease, LeaseAvailable
  <2>5. ASSUME NEW t \in Threads, Select(t) PROVE LeaseInv'
    BY <2>5 DEF Select
  <2>6. ASSUME NEW t \in Threads, ValidateInitialization(t) PROVE LeaseInv'
    BY <2>6 DEF ValidateInitialization
  <2>7. ASSUME NEW t \in Threads, ValidateEntry(t) PROVE LeaseInv'
    BY <2>7 DEF ValidateEntry
  <2>8. ASSUME NEW t \in Threads, CopyEntry(t) PROVE LeaseInv'
    BY <2>8 DEF CopyEntry
  <2>9. ASSUME NEW t \in Threads, CopyInitialization(t) PROVE LeaseInv'
    BY <2>9 DEF CopyInitialization
  <2>10. ASSUME NEW t \in Threads, Refuse(t) PROVE LeaseInv'
    BY <2>10 DEF Refuse
  <2>11. ASSUME NEW t \in Threads, Promote(t) PROVE LeaseInv'
    BY <2>11 DEF Promote
  <2>12. ASSUME NEW t \in Threads, PromoteCollides(t) PROVE LeaseInv'
    BY <2>12 DEF PromoteCollides
  <2>13. ASSUME NEW t \in Threads, WritePrepared(t) PROVE LeaseInv'
    BY <2>13 DEF WritePrepared
  <2>14. ASSUME NEW t \in Threads, PrepareFails(t) PROVE LeaseInv'
    BY <2>14 DEF PrepareFails
  <2>15. ASSUME NEW t \in Threads, ClaimRead(t) PROVE LeaseInv'
    BY <2>15 DEF ClaimRead
  <2>16. ASSUME NEW t \in Threads, ClaimWrite(t) PROVE LeaseInv'
    BY <2>16 DEF ClaimWrite
  <2>17. ASSUME NEW t \in Threads, ClaimFails(t) PROVE LeaseInv'
    BY <2>17 DEF ClaimFails
  <2>18. ASSUME NEW t \in Threads, RecheckEntry(t) PROVE LeaseInv'
    BY <2>18 DEF RecheckEntry
  <2>19. ASSUME NEW t \in Threads, RecheckInitialization(t) PROVE LeaseInv'
    BY <2>19 DEF RecheckInitialization
  <2>20. ASSUME NEW t \in Threads, InputChanged(t) PROVE LeaseInv'
    BY <2>20 DEF InputChanged
  <2>21. ASSUME NEW t \in Threads, WriteRunning(t) PROVE LeaseInv'
    BY <2>21 DEF WriteRunning
  <2>22. ASSUME NEW t \in Threads, StartProcess(t) PROVE LeaseInv'
    <3>1. pc[t] = "starting" /\ pc' = [pc EXCEPT ![t] = "waiting"] /\ lease' = lease
      BY <2>22 DEF StartProcess
    <3>2. lease = "active" /\ Held = {} /\ \A u \in Threads \ {t} : ~Executing(u)
      BY <3>1
    <3>3. proc' = [proc EXCEPT ![t] = Len(starts')] /\ Held' \subseteq {Len(starts')}
      BY <2>22, <3>2 DEF StartProcess
    <3>4. /\ pc'[t] = "waiting" /\ proc'[t] = Len(starts')
          /\ \A u \in Threads \ {t} : pc'[u] = pc[u]
      BY <3>1, <3>3
    <3> HIDE DEF TypeInv, LeaseInv, TypeOK
    <3>5. \A u \in Threads : Executing(u)' => u = t
      BY <3>2, <3>4
    <3> QED BY <3>1, <3>2, <3>3, <3>4, <3>5 DEF LeaseInv
  <2>23. ASSUME NEW t \in Threads, StartFails(t) PROVE LeaseInv'
    BY <2>23 DEF StartFails
  <2>24. ASSUME NEW t \in Threads, Publish(t) PROVE LeaseInv'
    BY <2>24 DEF Publish
  <2>25. ASSUME NEW t \in Threads, RecordCompleted(t) PROVE LeaseInv'
    BY <2>25 DEF RecordCompleted
  <2>26. ASSUME NEW t \in Threads, RecordFailed(t) PROVE LeaseInv'
    BY <2>26 DEF RecordFailed
  <2>27. ASSUME NEW t \in Threads, TimeoutTerminated(t) PROVE LeaseInv'
    BY <2>27 DEF TimeoutTerminated, TimeoutExpired
  <2>28. ASSUME NEW t \in Threads, TimeoutAmbiguous(t) PROVE LeaseInv'
    BY <2>28 DEF TimeoutAmbiguous, TimeoutExpired
  <2>29. ASSUME NEW t \in Threads, MarkAmbiguous(t) PROVE LeaseInv'
    BY <2>29 DEF MarkAmbiguous
  <2>30. ASSUME NEW t \in Threads, ReleaseLease(t) PROVE LeaseInv'
    BY <2>30 DEF ReleaseLease
  <2>31. ASSUME NEW t \in Threads, ConcedeLease(t) PROVE LeaseInv'
    BY <2>31 DEF ConcedeLease
  <2>32. ASSUME NEW t \in Threads, FailUnclean(t) PROVE LeaseInv'
    BY <2>32 DEF FailUnclean
  <2>33. ASSUME NEW s \in Servers, Crash(s) PROVE LeaseInv'
    BY <2>33 DEF Crash
  <2>34. ASSUME NEW n \in live, ProcessExits(n) PROVE LeaseInv'
    BY <2>34 DEF ProcessExits
  <2>35. ASSUME NEW f \in Sources, EditSource(f) PROVE LeaseInv'
    BY <2>35 DEF EditSource
  <2>36. CASE RecoverLease
    BY <2>36 DEF RecoverLease, Quiescent
  <2>37. ASSUME NEW k \in Keys, RecoverAmbiguous(k) PROVE LeaseInv'
    BY <2>37 DEF RecoverAmbiguous
  <2>38. ASSUME NEW t \in Threads, SignalRefused(t) PROVE LeaseInv'
    BY <2>38 DEF SignalRefused, TimeoutExpired
  <2> QED
    BY <1>2, <2>1, <2>2, <2>3, <2>4, <2>5, <2>6, <2>7, <2>8, <2>9, <2>10,
       <2>11, <2>12, <2>13, <2>14, <2>15, <2>16, <2>17, <2>18, <2>19,
       <2>20, <2>21, <2>22, <2>23, <2>24, <2>25, <2>26, <2>27, <2>28,
       <2>29, <2>30, <2>31, <2>32, <2>33, <2>34, <2>35, <2>36, <2>37, <2>38
       DEF Next, Environment, Save, Prepare, Claim, Run, Finish
<1> QED BY <1>1, <1>2

\* A step keeps the attempt directories, the claims and the starts in line.
LEMMA AttemptStep == 
    ~PromotionDropsAttempt /\ TypeInv /\ LeaseInv /\ AttemptInv /\ [Next]_vars
        => AttemptInv'
<1> SUFFICES ASSUME ~PromotionDropsAttempt, TypeInv, LeaseInv, AttemptInv, [Next]_vars
             PROVE AttemptInv'
  OBVIOUS
<1> USE DEF LeaseInv, Executing, ExecutionStages, ProcessStages, SelectedStages,
            AttemptInv, ConsumedHasEvidence, EvidenceKept, Ran, StartedWasClaimed,
            StartedOnce, TypeInv, TypeOK, GoTo, Forget, fileVars, threadVars
<1>1. CASE UNCHANGED vars
  BY <1>1 DEF vars
<1>2. CASE Next
  <2>1. ASSUME NEW t \in Threads, SaveRead(t) PROVE AttemptInv'
    BY <2>1 DEF SaveRead
  <2>2. ASSUME NEW t \in Threads, SaveWrite(t) PROVE AttemptInv'
    BY <2>2 DEF SaveWrite
  <2>3. ASSUME NEW t \in Threads, SaveFails(t) PROVE AttemptInv'
    BY <2>3 DEF SaveFails
  <2>4. ASSUME NEW t \in Threads, TakeLease(t) PROVE AttemptInv'
    BY <2>4 DEF TakeLease, LeaseAvailable
  <2>5. ASSUME NEW t \in Threads, Select(t) PROVE AttemptInv'
    BY <2>5 DEF Select
  <2>6. ASSUME NEW t \in Threads, ValidateInitialization(t) PROVE AttemptInv'
    BY <2>6 DEF ValidateInitialization
  <2>7. ASSUME NEW t \in Threads, ValidateEntry(t) PROVE AttemptInv'
    BY <2>7 DEF ValidateEntry
  <2>8. ASSUME NEW t \in Threads, CopyEntry(t) PROVE AttemptInv'
    BY <2>8 DEF CopyEntry
  <2>9. ASSUME NEW t \in Threads, CopyInitialization(t) PROVE AttemptInv'
    BY <2>9 DEF CopyInitialization
  <2>10. ASSUME NEW t \in Threads, Refuse(t) PROVE AttemptInv'
    BY <2>10 DEF Refuse
  <2>11. ASSUME NEW t \in Threads, Promote(t) PROVE AttemptInv'
    <3>1. /\ pc[t] = "copied" /\ attempts[Key(request[t])] = "absent"
          /\ pc' = [pc EXCEPT ![t] = "promoted"]
          /\ attempts' = [attempts EXCEPT ![Key(request[t])] = "snapshots"]
          /\ UNCHANGED <<request, starts, strays, proc, claimed>>
      BY <2>11 DEF Promote
    <3>2. Key(request[t]) \in Keys
      BY <3>1, KeyType
    <3>3. \A u \in Threads \ {t} : pc'[u] = pc[u] /\ ~Executing(u)
      BY <3>1
    <3> QED BY <3>1, <3>2, <3>3
  <2>12. ASSUME NEW t \in Threads, PromoteCollides(t) PROVE AttemptInv'
    BY <2>12, KeyType DEF PromoteCollides
  <2>13. ASSUME NEW t \in Threads, WritePrepared(t) PROVE AttemptInv'
    <3>1. /\ pc[t] = "promoted"
          /\ pc' = [pc EXCEPT ![t] = "prepared"]
          /\ attempts' = [attempts EXCEPT ![Key(request[t])] = "prepared"]
          /\ UNCHANGED <<request, starts, strays, proc, claimed>>
      BY <2>13 DEF WritePrepared
    <3>2. Key(request[t]) \in Keys /\ attempts[Key(request[t])] = "snapshots"
      BY <3>1, KeyType
    <3>3. \A u \in Threads \ {t} : pc'[u] = pc[u] /\ ~Executing(u)
      BY <3>1
    <3> QED BY <3>1, <3>2, <3>3
  <2>14. ASSUME NEW t \in Threads, PrepareFails(t) PROVE AttemptInv'
    BY <2>14, KeyType DEF PrepareFails, RemoveAttempt
  <2>15. ASSUME NEW t \in Threads, ClaimRead(t) PROVE AttemptInv'
    BY <2>15 DEF ClaimRead
  <2>16. ASSUME NEW t \in Threads, ClaimWrite(t) PROVE AttemptInv'
    <3>1. claimed' = claimed \cup {Key(request[t])}
      BY <2>16 DEF ClaimWrite, Claimable, Key
    <3>2. /\ pc[t] = "claiming"
          /\ pc' = [pc EXCEPT ![t] = "claimed"]
          /\ UNCHANGED <<request, attempts, starts, strays, proc>>
      BY <2>16 DEF ClaimWrite
    <3> QED BY <3>1, <3>2
  <2>17. ASSUME NEW t \in Threads, ClaimFails(t) PROVE AttemptInv'
    BY <2>17, KeyType DEF ClaimFails, RemoveAttempt
  <2>18. ASSUME NEW t \in Threads, RecheckEntry(t) PROVE AttemptInv'
    BY <2>18 DEF RecheckEntry
  <2>19. ASSUME NEW t \in Threads, RecheckInitialization(t) PROVE AttemptInv'
    BY <2>19 DEF RecheckInitialization
  <2>20. ASSUME NEW t \in Threads, InputChanged(t) PROVE AttemptInv'
    BY <2>20, KeyType DEF InputChanged, Report
  <2>21. ASSUME NEW t \in Threads, WriteRunning(t) PROVE AttemptInv'
    <3>1. /\ pc[t] = "current"
          /\ pc' = [pc EXCEPT ![t] = "starting"]
          /\ attempts' = [attempts EXCEPT ![Key(request[t])] = "running"]
          /\ UNCHANGED <<request, starts, strays, proc, claimed>>
      BY <2>21 DEF WriteRunning, Report
    <3>2. Key(request[t]) \in Keys /\ attempts[Key(request[t])] = "prepared"
      BY <3>1, KeyType
    <3>3. \A u \in Threads \ {t} : pc'[u] = pc[u] /\ ~Executing(u)
      BY <3>1
    <3>4. Key(request[t]) \in claimed
      BY <3>1
    <3>5. \A n \in 1 .. Len(starts) : starts[n] # Key(request[t])
      BY <3>2
    <3>6. /\ ConsumedHasEvidence' /\ EvidenceKept'
          /\ StartedWasClaimed' /\ StartedOnce'
      BY <3>1, <3>2, <3>5
    <3>7. pc'[t] = "starting" /\ attempts'[Key(request[t])] = "running"
      BY <3>1, <3>2
    <3> QED BY <3>1, <3>3, <3>4, <3>5, <3>6, <3>7
  <2>22. ASSUME NEW t \in Threads, StartProcess(t) PROVE AttemptInv'
    <3>1. /\ pc[t] = "starting" /\ pc' = [pc EXCEPT ![t] = "waiting"]
          /\ starts' = Append(starts, Key(request[t]))
          /\ proc' = [proc EXCEPT ![t] = Len(starts')]
          /\ UNCHANGED <<request, attempts, strays, claimed>>
      BY <2>22 DEF StartProcess
    <3>2. /\ Key(request[t]) \in claimed
          /\ attempts[Key(request[t])] = "running"
          /\ \A n \in 1 .. Len(starts) : starts[n] # Key(request[t])
      BY <3>1
    <3>3. \A u \in Threads \ {t} : pc'[u] = pc[u] /\ ~Executing(u)
      BY <3>1
    <3>4. /\ Len(starts) \in Nat /\ Len(starts') = Len(starts) + 1
          /\ starts'[Len(starts')] = Key(request[t])
          /\ \A n \in 1 .. Len(starts) : starts'[n] = starts[n]
      BY <3>1
    <3>5. /\ Len(starts') \in (1 .. Len(starts')) \ strays'
          /\ pc'[t] = "waiting" /\ proc'[t] = Len(starts')
      BY <3>1, <3>4
    <3>6. /\ ConsumedHasEvidence' /\ EvidenceKept'
          /\ StartedWasClaimed' /\ StartedOnce'
      BY <3>1, <3>2, <3>4, <3>5
    <3> HIDE DEF ConsumedHasEvidence, EvidenceKept, StartedWasClaimed, StartedOnce
    <3> QED BY <3>1, <3>2, <3>3, <3>4, <3>5, <3>6
  <2>23. ASSUME NEW t \in Threads, StartFails(t) PROVE AttemptInv'
    BY <2>23, KeyType DEF StartFails, Report
  <2>24. ASSUME NEW t \in Threads, Publish(t) PROVE AttemptInv'
    BY <2>24 DEF Publish
  <2>25. ASSUME NEW t \in Threads, RecordCompleted(t) PROVE AttemptInv'
    <3>1. /\ pc[t] = "published" /\ pc' = [pc EXCEPT ![t] = "returning"]
          /\ attempts' = [attempts EXCEPT ![Key(request[t])] = "completed"]
          /\ UNCHANGED <<request, starts, strays, proc, claimed>>
      BY <2>25 DEF RecordCompleted, Report
    <3>2. /\ Key(request[t]) \in Keys
          /\ proc[t] \in (1 .. Len(starts)) \ strays /\ starts[proc[t]] = Key(request[t])
      BY <3>1, KeyType
    <3>3. \A n \in 1 .. Len(starts) : starts[n] = Key(request[t]) => n = proc[t]
      BY <3>2
    <3>4. pc'[t] = "returning" /\ \A u \in Threads \ {t} : pc'[u] = pc[u] /\ ~Executing(u)
      BY <3>1
    <3> QED BY <3>1, <3>2, <3>3, <3>4
  <2>26. ASSUME NEW t \in Threads, RecordFailed(t) PROVE AttemptInv'
    <3>1. /\ pc[t] = "waiting" /\ pc' = [pc EXCEPT ![t] = "returning"]
          /\ attempts' = [attempts EXCEPT ![Key(request[t])] = "failed"]
          /\ UNCHANGED <<request, starts, strays, proc, claimed>>
      BY <2>26 DEF RecordFailed, Report
    <3>2. /\ Key(request[t]) \in Keys
          /\ proc[t] \in (1 .. Len(starts)) \ strays /\ starts[proc[t]] = Key(request[t])
      BY <3>1, KeyType
    <3>3. \A n \in 1 .. Len(starts) : starts[n] = Key(request[t]) => n = proc[t]
      BY <3>2
    <3>4. pc'[t] = "returning" /\ \A u \in Threads \ {t} : pc'[u] = pc[u] /\ ~Executing(u)
      BY <3>1
    <3> QED BY <3>1, <3>2, <3>3, <3>4
  <2>27. ASSUME NEW t \in Threads, TimeoutTerminated(t) PROVE AttemptInv'
    <3>1. /\ pc[t] = "waiting" /\ pc' = [pc EXCEPT ![t] = "returning"]
          /\ attempts' = [attempts EXCEPT ![Key(request[t])] = "timeout"]
          /\ UNCHANGED <<request, starts, strays, proc, claimed>>
      BY <2>27 DEF TimeoutTerminated, Report, TimeoutExpired
    <3>2. /\ Key(request[t]) \in Keys
          /\ proc[t] \in (1 .. Len(starts)) \ strays /\ starts[proc[t]] = Key(request[t])
      BY <3>1, KeyType
    <3>3. \A n \in 1 .. Len(starts) : starts[n] = Key(request[t]) => n = proc[t]
      BY <3>2
    <3>4. pc'[t] = "returning" /\ \A u \in Threads \ {t} : pc'[u] = pc[u] /\ ~Executing(u)
      BY <3>1
    <3> QED BY <3>1, <3>2, <3>3, <3>4
  <2>28. ASSUME NEW t \in Threads, TimeoutAmbiguous(t) PROVE AttemptInv'
    <3>1. /\ pc[t] = "waiting" /\ pc' = [pc EXCEPT ![t] = "overdue"]
          /\ attempts' = [attempts EXCEPT ![Key(request[t])] = "ambiguous"]
          /\ UNCHANGED <<request, starts, strays, proc, claimed>>
      BY <2>28 DEF TimeoutAmbiguous, Report, TimeoutExpired
    <3>2. /\ Key(request[t]) \in Keys
          /\ proc[t] \in (1 .. Len(starts)) \ strays /\ starts[proc[t]] = Key(request[t])
      BY <3>1, KeyType
    <3>3. \A n \in 1 .. Len(starts) : starts[n] = Key(request[t]) => n = proc[t]
      BY <3>2
    <3>4. pc'[t] = "overdue" /\ \A u \in Threads \ {t} : pc'[u] = pc[u] /\ ~Executing(u)
      BY <3>1
    <3> QED BY <3>1, <3>2, <3>3, <3>4
  <2>29. ASSUME NEW t \in Threads, MarkAmbiguous(t) PROVE AttemptInv'
    BY <2>29 DEF MarkAmbiguous
  <2>30. ASSUME NEW t \in Threads, ReleaseLease(t) PROVE AttemptInv'
    BY <2>30 DEF ReleaseLease
  <2>31. ASSUME NEW t \in Threads, ConcedeLease(t) PROVE AttemptInv'
    BY <2>31 DEF ConcedeLease
  <2>32. ASSUME NEW t \in Threads, FailUnclean(t) PROVE AttemptInv'
    BY <2>32 DEF FailUnclean
  <2>33. ASSUME NEW s \in Servers, Crash(s) PROVE AttemptInv'
    BY <2>33 DEF Crash
  <2>34. ASSUME NEW n \in live, ProcessExits(n) PROVE AttemptInv'
    BY <2>34 DEF ProcessExits
  <2>35. ASSUME NEW f \in Sources, EditSource(f) PROVE AttemptInv'
    BY <2>35 DEF EditSource
  <2>36. CASE RecoverLease
    BY <2>36 DEF RecoverLease
  <2>37. ASSUME NEW k \in Keys, RecoverAmbiguous(k) PROVE AttemptInv'
    BY <2>37 DEF RecoverAmbiguous
  <2>38. ASSUME NEW t \in Threads, SignalRefused(t) PROVE AttemptInv'
    <3>1. /\ pc[t] = "waiting" /\ pc' = [pc EXCEPT ![t] = "returning"]
          /\ attempts' = [attempts EXCEPT ![Key(request[t])] = "start_failed"]
          /\ UNCHANGED <<request, starts, proc, claimed>>
          /\ strays' = strays \cup {proc[t]}
      BY <2>38 DEF SignalRefused, Report, TimeoutExpired
    <3>2. /\ Key(request[t]) \in Keys
          /\ proc[t] \in (1 .. Len(starts)) \ strays /\ starts[proc[t]] = Key(request[t])
      BY <3>1, KeyType
    <3>3. \A n \in 1 .. Len(starts) : starts[n] = Key(request[t]) => n = proc[t]
      BY <3>2
    <3>4. pc'[t] = "returning" /\ \A u \in Threads \ {t} : pc'[u] = pc[u] /\ ~Executing(u)
      BY <3>1
    <3> QED BY <3>1, <3>2, <3>3, <3>4
  <2> QED
    BY <1>2, <2>1, <2>2, <2>3, <2>4, <2>5, <2>6, <2>7, <2>8, <2>9, <2>10,
       <2>11, <2>12, <2>13, <2>14, <2>15, <2>16, <2>17, <2>18, <2>19,
       <2>20, <2>21, <2>22, <2>23, <2>24, <2>25, <2>26, <2>27, <2>28,
       <2>29, <2>30, <2>31, <2>32, <2>33, <2>34, <2>35, <2>36, <2>37, <2>38
       DEF Next, Environment, Save, Prepare, Claim, Run, Finish
<1> QED BY <1>1, <1>2

\* A step keeps the snapshots behind the claims and the claims behind the
\* inputs; the two checks after the claim close the gap.
LEMMA CutStep == TypeInv /\ CutInv /\ [Next]_vars => CutInv'
<1> SUFFICES ASSUME TypeInv, CutInv, [Next]_vars PROVE CutInv'
  OBVIOUS
<1> USE DEF CutInv, SnapshotIsConsistentCut, ExecutionStages, SelectedStages,
            Executing, Sources, TypeInv, TypeOK, GoTo, Forget, NoSnapshot,
            fileVars, threadVars
<1>1. CASE UNCHANGED vars
  BY <1>1 DEF vars
<1>2. CASE Next
  <2>1. ASSUME NEW t \in Threads, SaveRead(t) PROVE CutInv'
    BY <2>1 DEF SaveRead
  <2>2. ASSUME NEW t \in Threads, SaveWrite(t) PROVE CutInv'
    BY <2>2 DEF SaveWrite
  <2>3. ASSUME NEW t \in Threads, SaveFails(t) PROVE CutInv'
    BY <2>3 DEF SaveFails
  <2>4. ASSUME NEW t \in Threads, TakeLease(t) PROVE CutInv'
    BY <2>4 DEF TakeLease
  <2>5. ASSUME NEW t \in Threads, Select(t) PROVE CutInv'
    BY <2>5 DEF Select
  <2>6. ASSUME NEW t \in Threads, ValidateInitialization(t) PROVE CutInv'
    BY <2>6 DEF ValidateInitialization
  <2>7. ASSUME NEW t \in Threads, ValidateEntry(t) PROVE CutInv'
    BY <2>7 DEF ValidateEntry
  <2>8. ASSUME NEW t \in Threads, CopyEntry(t) PROVE CutInv'
    BY <2>8 DEF CopyEntry
  <2>9. ASSUME NEW t \in Threads, CopyInitialization(t) PROVE CutInv'
    <3>1. /\ snap'[t]["entry_requests"] = snap[t]["entry_requests"]
          /\ snap'[t]["workspace_initialization"] =
                source["workspace_initialization"].version
          /\ \A u \in Threads \ {t} : snap'[u] = snap[u]
      BY <2>9 DEF CopyInitialization
    <3>2. /\ pc[t] = "copying"
          /\ pc' = [pc EXCEPT ![t] = "copied"]
          /\ UNCHANGED <<source, cut>>
      BY <2>9 DEF CopyInitialization
    <3>3. pc'[t] = "copied" /\ \A u \in Threads \ {t} : pc'[u] = pc[u]
      BY <3>2
    <3>4. snap[t]["entry_requests"] <= source["entry_requests"].version
      BY <3>2
    <3>5. source["workspace_initialization"].version \in Nat
      OBVIOUS
    <3> HIDE DEF TypeInv, TypeOK
    <3> QED BY <3>1, <3>2, <3>3, <3>4, <3>5
  <2>10. ASSUME NEW t \in Threads, Refuse(t) PROVE CutInv'
    BY <2>10 DEF Refuse
  <2>11. ASSUME NEW t \in Threads, Promote(t) PROVE CutInv'
    BY <2>11 DEF Promote
  <2>12. ASSUME NEW t \in Threads, PromoteCollides(t) PROVE CutInv'
    BY <2>12 DEF PromoteCollides
  <2>13. ASSUME NEW t \in Threads, WritePrepared(t) PROVE CutInv'
    BY <2>13 DEF WritePrepared
  <2>14. ASSUME NEW t \in Threads, PrepareFails(t) PROVE CutInv'
    BY <2>14 DEF PrepareFails
  <2>15. ASSUME NEW t \in Threads, ClaimRead(t) PROVE CutInv'
    BY <2>15 DEF ClaimRead
  <2>16. ASSUME NEW t \in Threads, ClaimWrite(t) PROVE CutInv'
    <3>1. /\ \A f \in Sources : cut'[t][f] = source[f].version
          /\ \A u \in Threads \ {t} : cut'[u] = cut[u]
      BY <2>16 DEF ClaimWrite
    <3>2. /\ pc[t] = "claiming"
          /\ pc' = [pc EXCEPT ![t] = "claimed"]
          /\ UNCHANGED <<source, snap>>
      BY <2>16 DEF ClaimWrite
    <3>3. \A f \in Sources : snap[t][f] <= source[f].version
      BY <3>2
    <3>4. pc'[t] = "claimed" /\ \A u \in Threads \ {t} : pc'[u] = pc[u]
      BY <3>2
    <3>5. \A f \in Sources : source[f].version \in Nat
      OBVIOUS
    <3> HIDE DEF TypeInv, TypeOK
    <3> QED BY <3>1, <3>2, <3>3, <3>4, <3>5
  <2>17. ASSUME NEW t \in Threads, ClaimFails(t) PROVE CutInv'
    BY <2>17 DEF ClaimFails
  <2>18. ASSUME NEW t \in Threads, RecheckEntry(t) PROVE CutInv'
    BY <2>18 DEF RecheckEntry, Unchanged
  <2>19. ASSUME NEW t \in Threads, RecheckInitialization(t) PROVE CutInv'
    <3>1. \A f \in Sources : snap[t][f] = cut[t][f]
      BY <2>19 DEF RecheckInitialization, Unchanged
    <3>2. snap[t] = cut[t]
      <4>1. snap[t] \in [Sources -> Nat] /\ cut[t] \in [Sources -> Nat]
        OBVIOUS
      <4> HIDE DEF Sources, CutInv, TypeInv
      <4> QED BY <3>1, <4>1
    <3> QED BY <2>19, <3>2 DEF RecheckInitialization
  <2>20. ASSUME NEW t \in Threads, InputChanged(t) PROVE CutInv'
    BY <2>20 DEF InputChanged
  <2>21. ASSUME NEW t \in Threads, WriteRunning(t) PROVE CutInv'
    BY <2>21 DEF WriteRunning
  <2>22. ASSUME NEW t \in Threads, StartProcess(t) PROVE CutInv'
    BY <2>22 DEF StartProcess
  <2>23. ASSUME NEW t \in Threads, StartFails(t) PROVE CutInv'
    BY <2>23 DEF StartFails
  <2>24. ASSUME NEW t \in Threads, Publish(t) PROVE CutInv'
    BY <2>24 DEF Publish
  <2>25. ASSUME NEW t \in Threads, RecordCompleted(t) PROVE CutInv'
    BY <2>25 DEF RecordCompleted
  <2>26. ASSUME NEW t \in Threads, RecordFailed(t) PROVE CutInv'
    BY <2>26 DEF RecordFailed
  <2>27. ASSUME NEW t \in Threads, TimeoutTerminated(t) PROVE CutInv'
    BY <2>27 DEF TimeoutTerminated, TimeoutExpired
  <2>28. ASSUME NEW t \in Threads, TimeoutAmbiguous(t) PROVE CutInv'
    BY <2>28 DEF TimeoutAmbiguous, TimeoutExpired
  <2>29. ASSUME NEW t \in Threads, MarkAmbiguous(t) PROVE CutInv'
    BY <2>29 DEF MarkAmbiguous
  <2>30. ASSUME NEW t \in Threads, ReleaseLease(t) PROVE CutInv'
    BY <2>30 DEF ReleaseLease
  <2>31. ASSUME NEW t \in Threads, ConcedeLease(t) PROVE CutInv'
    BY <2>31 DEF ConcedeLease
  <2>32. ASSUME NEW t \in Threads, FailUnclean(t) PROVE CutInv'
    BY <2>32 DEF FailUnclean
  <2>33. ASSUME NEW s \in Servers, Crash(s) PROVE CutInv'
    BY <2>33 DEF Crash
  <2>34. ASSUME NEW n \in live, ProcessExits(n) PROVE CutInv'
    BY <2>34 DEF ProcessExits
  <2>35. ASSUME NEW f \in Sources, EditSource(f) PROVE CutInv'
    BY <2>35 DEF EditSource
  <2>36. CASE RecoverLease
    BY <2>36 DEF RecoverLease
  <2>37. ASSUME NEW k \in Keys, RecoverAmbiguous(k) PROVE CutInv'
    BY <2>37 DEF RecoverAmbiguous
  <2>38. ASSUME NEW t \in Threads, SignalRefused(t) PROVE CutInv'
    BY <2>38 DEF SignalRefused, TimeoutExpired
  <2> QED
    BY <1>2, <2>1, <2>2, <2>3, <2>4, <2>5, <2>6, <2>7, <2>8, <2>9, <2>10,
       <2>11, <2>12, <2>13, <2>14, <2>15, <2>16, <2>17, <2>18, <2>19,
       <2>20, <2>21, <2>22, <2>23, <2>24, <2>25, <2>26, <2>27, <2>28,
       <2>29, <2>30, <2>31, <2>32, <2>33, <2>34, <2>35, <2>36, <2>37, <2>38
       DEF Next, Environment, Save, Prepare, Claim, Run, Finish
<1> QED BY <1>1, <1>2

\* What a step may do to the starts and to the live process groups: start one
\* process with the key of an executing thread, let one end, give one up, or
\* nothing.
LEMMA StartsStep ==
    ASSUME [Next]_vars
    PROVE  \/ UNCHANGED <<starts, live, strays>>
           \/ \E t \in Threads : StartProcess(t)
           \/ \E t \in Threads : TimeoutTerminated(t)
           \/ \E t \in Threads : SignalRefused(t)
           \/ \E n \in live : ProcessExits(n)
<1> USE DEF GoTo, Forget, fileVars, threadVars
<1>1. CASE UNCHANGED vars
  BY <1>1 DEF vars
<1>2. ASSUME NEW t \in Threads, Save(t) \/ TakeLease(t) \/ Prepare(t)
      PROVE  UNCHANGED <<starts, live, strays>>
  BY <1>2 DEF Save, SaveRead, SaveWrite, SaveFails, TakeLease, Prepare, Select,
       ValidateInitialization, ValidateEntry, CopyEntry, CopyInitialization,
       Refuse, Promote, PromoteCollides, WritePrepared, PrepareFails
<1>3. ASSUME NEW t \in Threads, Claim(t) \/ Finish(t) \/ FailUnclean(t)
      PROVE  UNCHANGED <<starts, live, strays>>
  BY <1>3 DEF Claim, ClaimRead, ClaimWrite, ClaimFails, Finish, ReleaseLease,
       ConcedeLease, FailUnclean
<1>4. ASSUME NEW t \in Threads, Run(t), ~StartProcess(t), ~TimeoutTerminated(t),
             ~SignalRefused(t)
      PROVE  UNCHANGED <<starts, live, strays>>
  BY <1>4 DEF Run, RecheckEntry, RecheckInitialization, InputChanged,
       WriteRunning, StartFails, Publish, RecordCompleted, RecordFailed,
       TimeoutAmbiguous, MarkAmbiguous
<1>5. ASSUME Environment, \A n \in live : ~ProcessExits(n)
      PROVE  UNCHANGED <<starts, live, strays>>
  BY <1>5 DEF Environment, Crash, EditSource, RecoverLease, RecoverAmbiguous
<1> QED BY <1>1, <1>2, <1>3, <1>4, <1>5 DEF Next

\* A step of the executor is a step of the one-shot promise or a stutter.
LEMMA OneShotStep ==
    TypeInv /\ LeaseInv /\ AttemptInv /\ [Next]_vars
      => [OneShot!Next]_<<{starts[n] : n \in 1 .. Len(starts)},
                          {starts[n] : n \in Held}, {starts[n] : n \in strays}>>
<1> DEFINE started == {starts[n] : n \in 1 .. Len(starts)}
           running == {starts[n] : n \in Held}
           escaped == {starts[n] : n \in strays}
<1> SUFFICES ASSUME TypeInv, LeaseInv, AttemptInv, [Next]_vars
             PROVE  OneShot!Next \/ UNCHANGED <<started, running, escaped>>
  OBVIOUS
<1>1. CASE UNCHANGED <<starts, live, strays>>
  BY <1>1 DEF Held
<1>2. ASSUME NEW t \in Threads, StartProcess(t) PROVE OneShot!Next
  <2> DEFINE k == Key(request[t])
  <2>1. Held = {} /\ k \notin started
    BY <1>2 DEF StartProcess, LeaseInv, AttemptInv, Executing,
         ExecutionStages, ProcessStages
  <2>2. k \in Keys
    BY <1>2, KeyType DEF StartProcess, TypeInv, SelectedStages, ExecutionStages
  <2>3. starts \in Seq(Keys) /\ Len(starts) \in Nat /\ strays \subseteq 1 .. Len(starts)
    BY DEF TypeInv, TypeOK
  <2>4. starts' = Append(starts, k) /\ live' = live \cup {Len(starts) + 1} /\ strays' = strays
    BY <1>2, <2>2, <2>3 DEF StartProcess
  <2>5. started' = started \cup {k}
    BY <2>2, <2>3, <2>4
  <2>6. Held' = {Len(starts) + 1}
    BY <2>1, <2>3, <2>4 DEF Held
  <2>7. running = {} /\ running' = {k}
    BY <2>1, <2>2, <2>3, <2>4, <2>6
  <2>8. escaped' = escaped
    BY <2>2, <2>3, <2>4
  <2> QED BY <2>1, <2>2, <2>5, <2>7, <2>8 DEF OneShot!Next, OneShot!Start
<1>3. ASSUME Held # {}, Held' = {}, UNCHANGED <<starts, strays>> PROVE OneShot!Next
  BY <1>3 DEF OneShot!Next, OneShot!Stop
<1>4. ASSUME NEW t \in Threads, TimeoutTerminated(t)
      PROVE  OneShot!Next \/ UNCHANGED <<started, running, escaped>>
  <2>1. Held' = {} /\ UNCHANGED <<starts, strays>>
    BY <1>4 DEF TimeoutTerminated, TimeoutExpired, LeaseInv, ProcessStages, Held
  <2>2. CASE Held = {}
    BY <2>1, <2>2
  <2> QED BY <2>1, <2>2, <1>3
<1>5. ASSUME NEW n \in live, ProcessExits(n)
      PROVE  OneShot!Next \/ UNCHANGED <<started, running, escaped>>
  <2>1. Held' = Held \ {n} /\ UNCHANGED <<starts, strays>>
    BY <1>5 DEF ProcessExits, Held
  <2>2. CASE n \in Held
    <3>1. Held' = {}
      BY <2>1, <2>2 DEF LeaseInv, SingleFlight
    <3> QED BY <2>1, <2>2, <3>1, <1>3
  <2>3. CASE n \notin Held
    BY <2>1, <2>3
  <2> QED BY <2>2, <2>3
<1>6. ASSUME NEW t \in Threads, SignalRefused(t) PROVE OneShot!Next
  <2>1. pc[t] = "waiting" /\ proc[t] \in live
    BY <1>6 DEF SignalRefused, TimeoutExpired
  <2>2. Held = {proc[t]}
    BY <2>1 DEF LeaseInv, AttemptInv, ProcessStages, Held
  <2>3. strays' = strays \cup {proc[t]} /\ UNCHANGED <<starts, live>>
    BY <1>6 DEF SignalRefused
  <2>4. Held' = {}
    BY <2>2, <2>3 DEF Held
  <2>5. running # {} /\ running' = {} /\ started' = started
    BY <2>2, <2>3, <2>4
  <2>6. escaped' = escaped \cup running
    BY <2>2, <2>3
  <2> QED BY <2>5, <2>6 DEF OneShot!Next, OneShot!Escape
<1> QED BY <1>1, <1>2, <1>4, <1>5, <1>6, StartsStep

\* Between its search for ambiguous evidence and its end an execution meets
\* none: only its own timeout leaves some.
MarkInv ==
    \A t \in Threads :
        pc[t] \in SelectedStages \ {"selected", "initialized", "validated", "conceding"}
            => marks = {}

\* A step writes no evidence but after a timeout.
LEMMA MarkStep == TypeInv /\ LeaseInv /\ MarkInv /\ [Next]_vars => MarkInv'
<1> SUFFICES ASSUME TypeInv, LeaseInv, MarkInv, [Next]_vars PROVE MarkInv'
  OBVIOUS
<1> USE DEF MarkInv, ExecutionStages, SelectedStages, GoTo, Forget, fileVars, threadVars
<1>1. pc \in [Threads -> Stages]
  BY DEF TypeInv, TypeOK
<1>2. \A t, u \in Threads : Executing(t) /\ Executing(u) => t = u
  BY DEF LeaseInv
<1>3. CASE UNCHANGED vars
  BY <1>3 DEF vars
<1>4. ASSUME NEW t \in Threads, Save(t) \/ TakeLease(t) \/ Finish(t) \/ FailUnclean(t)
      PROVE  MarkInv'
  BY <1>1, <1>4 DEF Save, SaveRead, SaveWrite, SaveFails, TakeLease, Finish, ReleaseLease,
       ConcedeLease, FailUnclean
<1>5. ASSUME NEW t \in Threads, Prepare(t) PROVE MarkInv'
  <2>1. CASE PromoteCollides(t) \/ PrepareFails(t)
    BY <1>1, <2>1 DEF PromoteCollides, PrepareFails, RemoveAttempt
  <2>2. CASE Promote(t) \/ WritePrepared(t)
    BY <1>1, <2>2 DEF Promote, WritePrepared
  <2>3. CASE Select(t) \/ ValidateInitialization(t) \/ ValidateEntry(t) \/ Refuse(t)
    BY <1>1, <2>3 DEF Select, ValidateInitialization, ValidateEntry, Refuse
  <2>4. CASE CopyEntry(t) \/ CopyInitialization(t)
    BY <1>1, <2>4 DEF CopyEntry, CopyInitialization, NoAmbiguousAttempt
  <2> QED BY <1>5, <2>1, <2>2, <2>3, <2>4 DEF Prepare
<1>6. ASSUME NEW t \in Threads, Claim(t) PROVE MarkInv'
  BY <1>1, <1>6 DEF Claim, ClaimRead, ClaimWrite, ClaimFails, RemoveAttempt
<1>7. ASSUME NEW t \in Threads, Run(t) PROVE MarkInv'
  <2>1. CASE MarkAmbiguous(t)
    <3>1. pc[t] = "overdue" /\ pc' = [pc EXCEPT ![t] = "conceding"]
      BY <2>1 DEF MarkAmbiguous
    <3>2. \A u \in Threads \ {t} : ~Executing(u)
      BY <1>2, <3>1 DEF Executing
    <3> QED BY <1>1, <3>1, <3>2 DEF Executing
  <2>2. CASE RecheckEntry(t) \/ RecheckInitialization(t) \/ InputChanged(t) \/ WriteRunning(t)
    BY <1>1, <2>2 DEF RecheckEntry, RecheckInitialization, InputChanged, WriteRunning
  <2>3. CASE StartProcess(t) \/ StartFails(t) \/ Publish(t) \/ RecordCompleted(t)
    BY <1>1, <2>3 DEF StartProcess, StartFails, Publish, RecordCompleted
  <2>4. CASE RecordFailed(t) \/ TimeoutTerminated(t) \/ TimeoutAmbiguous(t) \/ SignalRefused(t)
    BY <1>1, <2>4 DEF RecordFailed, TimeoutTerminated, TimeoutAmbiguous, TimeoutExpired,
         SignalRefused
  <2> QED BY <1>7, <2>1, <2>2, <2>3, <2>4 DEF Run
<1>8. CASE Environment
  BY <1>1, <1>8 DEF Environment, Crash, ProcessExits, EditSource, RecoverLease, RecoverAmbiguous
<1> QED BY <1>3, <1>4, <1>5, <1>6, <1>7, <1>8 DEF Next

-----------------------------------------------------------------------------
(***************************************************************************)
(* The request state file.  Its writers exclude one another when they take *)
(* the flock, as all of the continuation executor do, or when one backend  *)
(* has the state directory for itself.                                     *)
(***************************************************************************)
OneWriter == SaveTakesFileLock \/ \A t, u \in Threads : ServerOf[t] = ServerOf[u]

\* Whoever is about to write has read what the file holds now, and a save
\* writes a request.
WriteInv ==
    /\ \A t \in Threads : HoldsStateLock(t) => view[t] = requests
    /\ \A t, u \in Threads : HoldsStateLock(t) /\ HoldsStateLock(u) => t = u
    /\ \A t \in Threads : pc[t] = "saving" => request[t].status = "requested"

\* The locks that a save takes keep every other writer out.
LEMMA SaveAlone ==
    ASSUME OneWriter, NEW t \in Threads, StateLockFree(ServerOf[t]),
           SaveTakesFileLock => FileLockFree
    PROVE  \A u \in Threads : ~HoldsStateLock(u)
<1>1. CASE SaveTakesFileLock
  BY <1>1 DEF FileLockFree, HoldsFileLock, HoldsStateLock
<1>2. CASE ~SaveTakesFileLock
  BY <1>2 DEF OneWriter, StateLockFree
<1> QED BY <1>1, <1>2

\* A thread that holds no lock of the file after a step disturbs no writer.
LEMMA WriterKept ==
    ASSUME WriteInv, NEW t \in Threads, pc \in [Threads -> Stages], UNCHANGED requests,
           ~HoldsStateLock(t)',
           \A u \in Threads \ {t} : /\ pc'[u] = pc[u] /\ view'[u] = view[u]
                                   /\ request'[u] = request[u]
    PROVE  WriteInv'
  BY DEF WriteInv, HoldsStateLock

\* The records change only in the two writes of the file.
LEMMA WriteStep == OneWriter /\ TypeInv /\ WriteInv /\ [Next]_vars => WriteInv'
<1> SUFFICES ASSUME OneWriter, TypeInv, WriteInv, [Next]_vars PROVE WriteInv'
  OBVIOUS
<1> USE DEF GoTo, Forget, fileVars, threadVars
<1>1. /\ pc \in [Threads -> Stages]
      /\ request \in [Threads -> Requests \cup {NoRequest}]
      /\ view \in [Threads -> SUBSET Requests]
  BY DEF TypeInv, TypeOK
<1>2. CASE UNCHANGED vars
  BY <1>2 DEF vars, WriteInv, HoldsStateLock
<1>3. ASSUME NEW t \in Threads, SaveRead(t) PROVE WriteInv'
  <2>1. \A u \in Threads : ~HoldsStateLock(u)
    BY <1>3, SaveAlone DEF SaveRead
  <2>2. /\ pc'[t] = "saving" /\ view'[t] = requests /\ request'[t].status = "requested"
        /\ \A u \in Threads \ {t} : pc'[u] = pc[u]
        /\ UNCHANGED requests
    BY <1>1, <1>3 DEF SaveRead
  <2> QED BY <2>1, <2>2 DEF WriteInv, HoldsStateLock
<1>4. ASSUME NEW t \in Threads, ClaimRead(t) PROVE WriteInv'
  <2>1. \A u \in Threads : ~HoldsStateLock(u)
    BY <1>4, SaveAlone DEF ClaimRead
  <2>2. /\ pc'[t] = "claiming" /\ view'[t] = requests
        /\ \A u \in Threads \ {t} : pc'[u] = pc[u]
        /\ UNCHANGED requests
    BY <1>1, <1>4 DEF ClaimRead
  <2> QED BY <2>1, <2>2 DEF WriteInv, HoldsStateLock
<1>5. ASSUME NEW t \in Threads, SaveWrite(t) \/ ClaimWrite(t) PROVE WriteInv'
  <2>1. \A u \in Threads \ {t} : ~HoldsStateLock(u)
    BY <1>5 DEF SaveWrite, ClaimWrite, WriteInv, HoldsStateLock
  <2>2. /\ pc'[t] \in {"idle", "claimed"}
        /\ \A u \in Threads \ {t} : pc'[u] = pc[u]
    BY <1>1, <1>5 DEF SaveWrite, ClaimWrite
  <2> QED BY <2>1, <2>2 DEF WriteInv, HoldsStateLock
<1>6. ASSUME NEW t \in Threads, SaveFails(t) \/ TakeLease(t) \/ Finish(t) \/ FailUnclean(t)
      PROVE  WriteInv'
  <2>1. /\ UNCHANGED requests /\ pc'[t] \in {"idle", "leased"}
        /\ \A u \in Threads \ {t} : /\ pc'[u] = pc[u] /\ view'[u] = view[u]
                                     /\ request'[u] = request[u]
    BY <1>1, <1>6 DEF SaveFails, TakeLease, Finish, ReleaseLease, ConcedeLease, FailUnclean
  <2> QED BY <1>1, <2>1, WriterKept DEF HoldsStateLock
<1>7. ASSUME NEW t \in Threads, Prepare(t) PROVE WriteInv'
  <2>1. /\ UNCHANGED requests /\ pc'[t] \in ExecutionStages \ {"claiming"}
        /\ \A u \in Threads \ {t} : /\ pc'[u] = pc[u] /\ view'[u] = view[u]
                                     /\ request'[u] = request[u]
    <3>1. CASE Select(t) \/ ValidateInitialization(t) \/ ValidateEntry(t) \/ Refuse(t)
      BY <1>1, <3>1 DEF Select, ValidateInitialization, ValidateEntry, Refuse, ExecutionStages
    <3>2. CASE CopyEntry(t) \/ CopyInitialization(t)
      BY <1>1, <3>2 DEF CopyEntry, CopyInitialization, ExecutionStages
    <3>3. CASE Promote(t) \/ PromoteCollides(t) \/ WritePrepared(t) \/ PrepareFails(t)
      BY <1>1, <3>3 DEF Promote, PromoteCollides, WritePrepared, PrepareFails, ExecutionStages
    <3> QED BY <1>7, <3>1, <3>2, <3>3 DEF Prepare
  <2> QED BY <1>1, <2>1, WriterKept DEF HoldsStateLock, ExecutionStages
<1>8. ASSUME NEW t \in Threads, ClaimFails(t) \/ Run(t) PROVE WriteInv'
  <2>1. /\ UNCHANGED requests /\ pc'[t] \in ExecutionStages \ {"claiming"}
        /\ \A u \in Threads \ {t} : /\ pc'[u] = pc[u] /\ view'[u] = view[u]
                                     /\ request'[u] = request[u]
    <3>1. CASE ClaimFails(t) \/ RecheckEntry(t) \/ RecheckInitialization(t) \/ InputChanged(t)
      BY <1>1, <3>1 DEF ClaimFails, RecheckEntry, RecheckInitialization, InputChanged,
                        ExecutionStages
    <3>2. CASE \/ WriteRunning(t) \/ StartProcess(t) \/ StartFails(t) \/ Publish(t)
               \/ RecordCompleted(t)
      BY <1>1, <3>2 DEF WriteRunning, StartProcess, StartFails, Publish, RecordCompleted,
                        ExecutionStages
    <3>3. CASE \/ RecordFailed(t) \/ TimeoutTerminated(t) \/ TimeoutAmbiguous(t)
               \/ MarkAmbiguous(t) \/ SignalRefused(t)
      BY <1>1, <3>3 DEF RecordFailed, TimeoutTerminated, TimeoutAmbiguous, MarkAmbiguous,
                        SignalRefused, ExecutionStages
    <3> QED BY <1>8, <3>1, <3>2, <3>3 DEF Run
  <2> QED BY <1>1, <2>1, WriterKept DEF HoldsStateLock, ExecutionStages
<1>9. CASE Environment
  <2>1. ASSUME NEW s \in Servers, Crash(s) PROVE WriteInv'
    <3>1. /\ UNCHANGED requests
          /\ \A u \in Threads : \/ pc'[u] = "idle"
                                 \/ /\ pc'[u] = pc[u] /\ view'[u] = view[u]
                                    /\ request'[u] = request[u]
      BY <1>1, <2>1 DEF Crash
    <3> QED BY <3>1 DEF WriteInv, HoldsStateLock
  <2>2. ASSUME ~\E s \in Servers : Crash(s) PROVE WriteInv'
    BY <1>9, <2>2 DEF Environment, ProcessExits, EditSource, RecoverLease, RecoverAmbiguous,
                      WriteInv, HoldsStateLock
  <2> QED BY <2>1, <2>2
<1> QED BY <1>2, <1>3, <1>4, <1>5, <1>6, <1>7, <1>8, <1>9
        DEF Next, Save, Claim

\* The file is rewritten by a save or by a claim, from what it holds.
LEMMA Rewrites ==
    ASSUME TypeInv, WriteInv, [Next]_vars
    PROVE  \/ UNCHANGED requests
           \/ \E t \in Threads : SaveWrite(t) /\ view[t] = requests
                                  /\ request[t].status = "requested"
           \/ \E t \in Threads : ClaimWrite(t) /\ view[t] = requests
<1> USE DEF GoTo, fileVars, threadVars
<1>1. CASE UNCHANGED vars
  BY <1>1 DEF vars
<1>2. ASSUME NEW t \in Threads,
             SaveRead(t) \/ SaveFails(t) \/ TakeLease(t) \/ Prepare(t)
      PROVE  UNCHANGED requests
  BY <1>2 DEF SaveRead, SaveFails, TakeLease, Prepare, Select,
       ValidateInitialization, ValidateEntry, CopyEntry, CopyInitialization,
       Refuse, Promote, PromoteCollides, WritePrepared, PrepareFails
<1>3. ASSUME NEW t \in Threads, SaveWrite(t) \/ ClaimWrite(t)
      PROVE  view[t] = requests /\ (SaveWrite(t) => request[t].status = "requested")
  BY <1>3 DEF SaveWrite, ClaimWrite, WriteInv, HoldsStateLock
<1>4. ASSUME NEW t \in Threads,
             ClaimRead(t) \/ ClaimFails(t) \/ Finish(t) \/ FailUnclean(t)
      PROVE  UNCHANGED requests
  BY <1>4 DEF ClaimRead, ClaimFails, Finish, ReleaseLease, ConcedeLease, FailUnclean
<1>5. ASSUME NEW t \in Threads, Run(t) PROVE UNCHANGED requests
  BY <1>5 DEF Run, RecheckEntry, RecheckInitialization, InputChanged, StartProcess,
       WriteRunning, StartFails, Publish, RecordCompleted, RecordFailed,
       TimeoutTerminated, TimeoutAmbiguous, MarkAmbiguous, SignalRefused
<1>6. CASE Environment
  BY <1>6 DEF Environment, Crash, ProcessExits, EditSource, RecoverLease, RecoverAmbiguous
<1> QED BY <1>1, <1>2, <1>3, <1>4, <1>5, <1>6 DEF Next, Save, Claim

\* A save keeps every record that is not superseded, but the one of its id,
\* and the request it saves is in the file.
LEMMA SaveKeeps ==
    ASSUME NEW S \in SUBSET Requests, NEW new \in Requests, new.status = "requested"
    PROVE  /\ new \in WithRequest(S, new)
           /\ \A r \in S : r.status = "consumed" /\ r.id # new.id => r \in WithRequest(S, new)
<1>1. \A r \in S : r.status = "consumed" => Supersede(r) = r
  BY DEF Supersede
<1>2. ASSUME NEW T, NEW r \in T, r.status # "superseded" PROVE r \in CapSuperseded(T)
  BY <1>2 DEF CapSuperseded
<1> DEFINE T == {Supersede(r) : r \in {q \in S : q.id # new.id}} \cup {new}
<1>3. new \in T /\ \A r \in S : r.status = "consumed" /\ r.id # new.id => r \in T
  BY <1>1
<1> HIDE DEF T
<1>4. /\ new \in CapSuperseded(T)
      /\ \A r \in S : r.status = "consumed" /\ r.id # new.id => r \in CapSuperseded(T)
  BY <1>2, <1>3
<1> QED BY <1>4 DEF WithRequest, T

\* A claim keeps every record that is not superseded, but those it consumes.
LEMMA ClaimKeeps ==
    ASSUME NEW S, NEW C, NEW r \in S \ C, r.status # "superseded"
    PROVE  r \in Consume(S, C)
  BY DEF Consume, CapSuperseded

LEMMA ConsumedStep ==
    TypeInv /\ WriteInv /\ [Next]_vars
      => [\A r \in requests :
             r.status = "consumed" =>
                \/ r \in requests'
                \/ \E q \in requests' : q.id = r.id /\ q.status = "requested"]_requests
<1> SUFFICES ASSUME TypeInv, WriteInv, [Next]_vars, requests' # requests,
                    NEW r \in requests, r.status = "consumed"
             PROVE  \/ r \in requests'
                    \/ \E q \in requests' : q.id = r.id /\ q.status = "requested"
  OBVIOUS
<1>1. ASSUME NEW t \in Threads, SaveWrite(t), view[t] = requests,
             request[t].status = "requested"
      PROVE  \/ r \in requests'
             \/ \E q \in requests' : q.id = r.id /\ q.status = "requested"
  <2>1. request[t] \in Requests /\ requests \in SUBSET Requests
    BY <1>1 DEF SaveWrite, TypeInv, TypeOK
  <2>2. requests' = WithRequest(requests, request[t])
    BY <1>1 DEF SaveWrite
  <2>3. /\ request[t] \in WithRequest(requests, request[t])
        /\ r.id # request[t].id => r \in WithRequest(requests, request[t])
    BY <1>1, <2>1, SaveKeeps
  <2> QED BY <1>1, <2>2, <2>3
<1>2. ASSUME NEW t \in Threads, ClaimWrite(t), view[t] = requests PROVE r \in requests'
  <2>1. r \notin Claimable(requests, request[t])
    BY DEF Claimable, Active
  <2>2. requests' = Consume(requests, Claimable(requests, request[t]))
    BY <1>2 DEF ClaimWrite
  <2> QED BY <2>1, <2>2, ClaimKeeps
<1> QED BY <1>1, <1>2, Rewrites

LEMMA ActiveStep ==
    TypeInv /\ WriteInv /\ [Next]_vars
      => [\A r \in Active(requests) :
             \/ Active(requests') # {}
             \/ Key(r) \in claimed']_requests
<1> SUFFICES ASSUME TypeInv, WriteInv, [Next]_vars, requests' # requests,
                    NEW r \in Active(requests)
             PROVE  Active(requests') # {} \/ Key(r) \in claimed'
  OBVIOUS
<1>1. ASSUME NEW t \in Threads, SaveWrite(t), view[t] = requests,
             request[t].status = "requested"
      PROVE  Active(requests') # {}
  <2>1. request[t] \in Requests /\ requests \in SUBSET Requests
    BY <1>1 DEF SaveWrite, TypeInv, TypeOK
  <2>2. request[t] \in requests'
    BY <1>1, <2>1, SaveKeeps DEF SaveWrite
  <2> QED BY <1>1, <2>2 DEF Active
<1>2. ASSUME NEW t \in Threads, ClaimWrite(t), view[t] = requests
      PROVE  Active(requests') # {} \/ Key(r) \in claimed'
  <2>1. CASE r \in Claimable(requests, request[t])
    BY <1>2, <2>1 DEF ClaimWrite
  <2>2. CASE r \notin Claimable(requests, request[t])
    <3>1. requests' = Consume(requests, Claimable(requests, request[t]))
      BY <1>2 DEF ClaimWrite
    <3>2. r \in requests /\ r.status = "requested"
      BY DEF Active
    <3>3. r \in requests'
      BY <2>2, <3>1, <3>2, ClaimKeeps
    <3> QED BY <3>2, <3>3 DEF Active
  <2> QED BY <2>1, <2>2
<1> QED BY <1>1, <1>2, Rewrites

-----------------------------------------------------------------------------
(***************************************************************************)
(* The theorems.                                                           *)
(***************************************************************************)

\* The conditions of Init.
LEMMA InitInv == Init => TypeInv /\ LeaseInv /\ AttemptInv /\ CutInv
<1> SUFFICES ASSUME Init PROVE TypeInv /\ LeaseInv /\ AttemptInv /\ CutInv
  OBVIOUS
<1> USE DEF Init, NoSnapshot, Stages, ExecutionStages, SelectedStages,
            ProcessStages, Executing
<1>1. TypeInv
  BY DEF TypeInv, TypeOK, AttemptStatus
<1>2. LeaseInv
  BY DEF LeaseInv, SingleFlight, Held
<1>3. AttemptInv
  BY DEF AttemptInv, ConsumedHasEvidence, EvidenceKept, StartedWasClaimed,
         StartedOnce
<1>4. CutInv
  BY DEF CutInv, SnapshotIsConsistentCut
<1> QED BY <1>1, <1>2, <1>3, <1>4

\* Every variable keeps its type.
THEOREM TypeCorrect == Spec => []TypeOK
<1>1. TypeInv => TypeOK
  BY DEF TypeInv
<1> QED BY <1>1, InitInv, TypeStep, PTL DEF Spec

\* However many threads and backend processes execute, crash and restart,
\* and in both executors, at most one Platform process group exists.
THEOREM SingleFlightCorrect == Spec => []SingleFlight
<1>1. LeaseInv => SingleFlight
  BY DEF LeaseInv
<1> QED BY <1>1, InitInv, TypeStep, LeaseStep, PTL DEF Spec

\* In both executors Platform runs on inputs that were all current together
\* when its request was claimed.
THEOREM ConsistentCutCorrect == Spec => []SnapshotIsConsistentCut
<1>1. CutInv => SnapshotIsConsistentCut
  BY DEF CutInv
<1> QED BY <1>1, InitInv, TypeStep, CutStep, PTL DEF Spec

\* The intake executor, whose failed promotion keeps the directory it
\* collided with, keeps the evidence of every claim and of every process,
\* runs claimed contents only, and runs each of them once.
THEOREM EvidenceCorrect ==
    ~PromotionDropsAttempt /\ Spec
      => [](ConsumedHasEvidence /\ EvidenceKept /\ StartedWasClaimed /\ StartedOnce)
<1>1. AttemptInv
        => ConsumedHasEvidence /\ EvidenceKept /\ StartedWasClaimed /\ StartedOnce
  BY DEF AttemptInv
<1>2. CASE ~PromotionDropsAttempt
  <2>1. TypeInv /\ LeaseInv /\ AttemptInv /\ [Next]_vars => AttemptInv'
    BY <1>2, AttemptStep
  <2> QED BY <1>1, <2>1, InitInv, TypeStep, LeaseStep, PTL DEF Spec
<1>3. CASE PromotionDropsAttempt
  BY <1>3, PTL
<1> QED BY <1>2, <1>3

\* The intake executor implements the one-shot promise.
THEOREM OneShotCorrect == ~PromotionDropsAttempt /\ Spec => ImplementsOneShot
<1>1. Init => OneShot!Init
  BY DEF Init, OneShot!Init, Held
<1>2. CASE ~PromotionDropsAttempt
  <2>1. TypeInv /\ LeaseInv /\ AttemptInv /\ [Next]_vars => AttemptInv'
    BY <1>2, AttemptStep
  <2> QED BY <1>1, <2>1, InitInv, TypeStep, LeaseStep, OneShotStep, PTL
          DEF Spec, ImplementsOneShot, OneShot!Spec
<1>3. CASE PromotionDropsAttempt
  BY <1>3, PTL
<1> QED BY <1>2, <1>3
\* In both executors, whoever times out, crashes or is recovered, Platform is
\* not started while ambiguous evidence lies in an attempt directory.
THEOREM AmbiguousCorrect == Spec => AmbiguousBlocks
<1>1. Init => MarkInv
  BY DEF Init, MarkInv, SelectedStages, ExecutionStages
<1>2. MarkInv /\ [Next]_vars => [marks # {} => starts' = starts]_starts
  <2> SUFFICES ASSUME MarkInv, [Next]_vars, starts' # starts PROVE marks = {}
    OBVIOUS
  <2>1. \E t \in Threads : StartProcess(t)
    BY StartsStep DEF TimeoutTerminated, ProcessExits, SignalRefused
  <2> QED BY <2>1 DEF StartProcess, MarkInv, SelectedStages, ExecutionStages
<1> QED BY <1>1, <1>2, InitInv, TypeStep, LeaseStep, MarkStep, PTL DEF Spec, AmbiguousBlocks

\* What the writers of the request file know, from the start.
LEMMA WriteInvariant == OneWriter /\ Spec => [](TypeInv /\ WriteInv)
<1>1. Init => WriteInv
  BY DEF Init, WriteInv, HoldsStateLock
<1>2. CASE OneWriter
  <2>1. TypeInv /\ WriteInv /\ [Next]_vars => WriteInv'
    BY <1>2, WriteStep
  <2> QED BY <1>1, <2>1, InitInv, TypeStep, PTL DEF Spec
<1>3. CASE ~OneWriter
  BY <1>3, PTL
<1> QED BY <1>2, <1>3

\* Wherever the writers of the request file exclude one another, a consumed
\* request stays consumed until its id is requested again.
THEOREM ConsumedCorrect == OneWriter /\ Spec => ConsumedStays
  BY WriteInvariant, ConsumedStep, PTL DEF Spec, ConsumedStays

\* There an accepted request stays active until it is claimed or replaced.
THEOREM ActiveCorrect == OneWriter /\ Spec => ActiveRequestNotLost
  BY WriteInvariant, ActiveStep, PTL DEF Spec, ActiveRequestNotLost
=============================================================================
