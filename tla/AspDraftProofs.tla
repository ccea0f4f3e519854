--------------------------- MODULE AspDraftProofs ---------------------------
(***************************************************************************)
(* Proofs about AspDraft for any sets of grants, sessions, keys, execution *)
(* ids, requests and texts, and any quotas.                                *)
(***************************************************************************)
EXTENDS AspDraft, FiniteSetTheorems, TLAPS

USE AspDraftAssumption

\* An approved row was accepted by the operator.
ApprovedRows == \A a \in approvals : a.approved => a.request \in accepted

\* Each grant with drafts has them counted, and finitely many.
Counted ==
    \A g \in Grants :
        /\ IsFiniteSet({p \in drafts : p.grant = g})
        /\ Cardinality({p \in drafts : p.grant = g}) = grants[g].proposals
        /\ grants[g].proposals <= MaxProposals

\* Grants that were never issued have no drafts.
DraftGrants == \A p \in drafts : p.grant \in Grants /\ grants[p.grant].status # "none"

IInv ==
    /\ TypeOK
    /\ ApprovedRows
    /\ DraftsWereAccepted
    /\ ResultsMatchDrafts
    /\ OneDraftPerKey
    /\ OneLiveSession
    /\ DraftGrants
    /\ Counted

\* Saving a record of the right type keeps the type of the records.
LEMMA SavedType ==
    ASSUME NEW R \in SUBSET Records, NEW new \in Records
    PROVE  Saved(R, new) \subseteq Records
<1>1. \A r \in Records : Supersede(r) \in Records
  BY DEF Supersede, Records, Statuses
<1>2. \A S \in SUBSET Records : CapSuperseded(S) \subseteq Records
  BY DEF CapSuperseded
<1> QED BY <1>1, <1>2 DEF Saved

\* The inductive invariant holds of an empty store.
LEMMA InitIInv == Init => IInv
<1> SUFFICES ASSUME Init PROVE IInv
  OBVIOUS
<1> USE DEF Init
<1>1. TypeOK
  BY DEF TypeOK, Live
<1>2. drafts = {} /\ \A g \in Grants : {p \in drafts : p.grant = g} = {}
  OBVIOUS
<1>3. Counted
  BY <1>2, FS_EmptySet DEF Counted
<1>4. OneLiveSession
  BY DEF OneLiveSession, Live
<1> QED BY <1>1, <1>2, <1>3, <1>4
        DEF IInv, ApprovedRows, DraftsWereAccepted, ResultsMatchDrafts,
            OneDraftPerKey, DraftGrants

\* A fresh proposal keeps keys and execution ids apart.
LEMMA ProposeKeepsKeys ==
    ASSUME ResultsMatchDrafts, OneDraftPerKey, NEW p, Propose(p)
    PROVE  /\ ResultsMatchDrafts'
           /\ OneDraftPerKey'
           /\ p \notin drafts
           /\ drafts' = drafts \cup {p}
<1>1. \A q \in drafts : ~(q.grant = p.grant /\ q.key = p.key)
  <2> SUFFICES ASSUME NEW q \in drafts, q.grant = p.grant, q.key = p.key
               PROVE FALSE
    OBVIOUS
  <2>1. PICK r \in results : r.request = q
    BY DEF ResultsMatchDrafts
  <2>2. r.grant = q.grant /\ r.key = q.key
    BY <2>1 DEF ResultsMatchDrafts
  <2> QED BY <2>2 DEF Propose, Unused, SameKey
<1>2. \A q \in drafts : ~(q.grant = p.grant /\ q.execution = p.execution)
  <2> SUFFICES ASSUME NEW q \in drafts, q.grant = p.grant, q.execution = p.execution
               PROVE FALSE
    OBVIOUS
  <2>1. PICK r \in results : r.request = q
    BY DEF ResultsMatchDrafts
  <2>2. /\ r.grant = q.grant /\ r.key = q.key
        /\ [grant |-> r.grant, execution |-> q.execution, key |-> r.key] \in executions
    BY <2>1 DEF ResultsMatchDrafts
  <2>3. r.key = p.key
    BY <2>2 DEF Propose, Unused, SameExecution
  <2> QED BY <2>2, <2>3, <1>1
<1>3. results' = results \cup {[grant |-> p.grant, key |-> p.key, request |-> p]}
  <2>1. ResultOf(p) = results
    BY DEF ResultOf, Propose, Unused
  <2> QED BY <2>1 DEF Propose
<1>4. /\ p \notin drafts
      /\ drafts' = drafts \cup {p}
  BY <1>1 DEF Propose
<1>5. {r.request : r \in results'} = drafts'
  <2> DEFINE n == [grant |-> p.grant, key |-> p.key, request |-> p]
  <2>1. n.request = p /\ n \in results' /\ results' = results \cup {n}
    BY <1>3
  <2>2. {r.request : r \in results'} = {r.request : r \in results} \cup {n.request}
    BY <2>1, Zenon
  <2> QED BY <2>1, <2>2, <1>4 DEF ResultsMatchDrafts
<1>6. ASSUME NEW r \in results'
      PROVE  /\ r.request.grant = r.grant /\ r.request.key = r.key
             /\ [grant |-> r.grant, execution |-> r.request.execution, key |-> r.key]
                    \in executions'
  <2>1. CASE r = [grant |-> p.grant, key |-> p.key, request |-> p]
    BY <2>1 DEF Propose
  <2>2. CASE r \in results
    <3> DEFINE e == [grant |-> r.grant, execution |-> r.request.execution, key |-> r.key]
    <3>1. r.request.grant = r.grant /\ r.request.key = r.key /\ e \in executions
      BY <2>2 DEF ResultsMatchDrafts
    <3>2. r.request \in drafts
      BY <2>2 DEF ResultsMatchDrafts
    <3>3. ~SameExecution(e, p)
      BY <3>1, <3>2, <1>2 DEF SameExecution
    <3> QED BY <3>1, <3>3 DEF Propose
  <2> QED BY <2>1, <2>2, <1>3
<1>7. ResultsMatchDrafts'
  BY <1>5, <1>6 DEF ResultsMatchDrafts
<1>8. OneDraftPerKey'
  BY <1>1, <1>2, <1>4 DEF OneDraftPerKey
<1> QED BY <1>4, <1>7, <1>8

\* A fresh proposal is counted once.
LEMMA ProposeCounts ==
    ASSUME TypeOK, Counted, NEW p, p.grant \in Grants, p \notin drafts, Propose(p)
    PROVE  Counted'
<1> SUFFICES ASSUME NEW g \in Grants
             PROVE  /\ IsFiniteSet({q \in drafts' : q.grant = g})
                    /\ Cardinality({q \in drafts' : q.grant = g}) = grants'[g].proposals
                    /\ grants'[g].proposals <= MaxProposals
  BY DEF Counted
<1> DEFINE D == {q \in drafts : q.grant = g}
<1>1. IsFiniteSet(D) /\ Cardinality(D) = grants[g].proposals
      /\ grants[g].proposals <= MaxProposals /\ grants[g].proposals \in Nat
  BY DEF Counted, TypeOK
<1>2. CASE g = p.grant
  <2>1. {q \in drafts' : q.grant = g} = D \cup {p} /\ p \notin D
    BY <1>2 DEF Propose
  <2>2. IsFiniteSet(D \cup {p}) /\ Cardinality(D \cup {p}) = Cardinality(D) + 1
    BY <1>1, <2>1, FS_AddElement
  <2>3. grants'[g].proposals = grants[g].proposals + 1
    BY <1>2 DEF Propose, TypeOK
  <2>4. grants[g].proposals < MaxProposals
    BY <1>2 DEF Propose, WithinQuota
  <2>5. MaxProposals \in Nat
    BY DEF AspDraftAssumption
  <2>6. grants'[g].proposals <= MaxProposals
    BY <1>1, <2>3, <2>4, <2>5
  <2> QED BY <1>1, <2>1, <2>2, <2>3, <2>6
<1>3. CASE g # p.grant
  <2>1. {q \in drafts' : q.grant = g} = D
    BY <1>3 DEF Propose
  <2>2. grants'[g] = grants[g]
    BY <1>3 DEF Propose, TypeOK
  <2> QED BY <1>1, <2>1, <2>2
<1> QED BY <1>2, <1>3

\* Every call of the service, every native save, tick of the clock and change
\* of the identity evidence keeps the inductive invariant.
LEMMA StepIInv == IInv /\ [Next]_vars => IInv'
<1> SUFFICES ASSUME IInv, [Next]_vars PROVE IInv'
  OBVIOUS
<1> USE DEF IInv
<1>1. CASE UNCHANGED vars
  BY <1>1 DEF vars, TypeOK, ApprovedRows, DraftsWereAccepted, ResultsMatchDrafts,
              OneDraftPerKey, OneLiveSession, DraftGrants, Counted
<1>2. ASSUME NEW g \in Grants, Issue(g) PROVE IInv'
  <2>1. \A p \in drafts : p.grant # g
    BY <1>2 DEF Issue, DraftGrants
  <2>2. \A h \in Grants \ {g} : grants'[h] = grants[h]
    BY <1>2 DEF Issue, TypeOK
  <2>3. /\ TypeOK'
        /\ grants'[g].status = "active"
        /\ grants'[g].proposals = 0
    <3>1. PICK ttl \in Lifetimes : grants' = [grants EXCEPT ![g] =
              [status |-> "active", expires |-> Earlier(now + ttl, IdentityExpiry),
               proposals |-> 0]]
      BY <1>2 DEF Issue
    <3>2. Earlier(now + ttl, IdentityExpiry) \in Nat
      <4>1. now \in Nat /\ IdentityExpiry \in Nat /\ ttl \in Nat
        BY DEF TypeOK, AspDraftAssumption
      <4> QED BY <4>1 DEF Earlier
    <3>3. UNCHANGED <<now, identity, records, sessions, approvals, results, executions,
                      edits, accepted, drafts>>
      BY <1>2 DEF Issue
    <3> QED BY <3>1, <3>2, <3>3 DEF TypeOK
  <2>4. {p \in drafts' : p.grant = g} = {}
    BY <1>2, <2>1 DEF Issue
  <2>5. Counted'
    BY <1>2, <2>2, <2>3, <2>4, FS_EmptySet DEF Issue, Counted
  <2>6. DraftGrants'
    BY <1>2, <2>1, <2>2 DEF Issue, DraftGrants
  <2> QED BY <1>2, <2>3, <2>5, <2>6
          DEF Issue, ApprovedRows, DraftsWereAccepted, ResultsMatchDrafts,
              OneDraftPerKey, OneLiveSession
<1>3. ASSUME NEW g \in Grants, Revoke(g) PROVE IInv'
  <2>1. TypeOK' /\ \A h \in Grants : /\ grants'[h].proposals = grants[h].proposals
                                    /\ grants[h].status # "none" => grants'[h].status # "none"
    BY <1>3 DEF Revoke, TypeOK
  <2>2. Counted' /\ DraftGrants'
    BY <1>3, <2>1 DEF Revoke, Counted, DraftGrants
  <2> QED BY <1>3, <2>1, <2>2
          DEF Revoke, ApprovedRows, DraftsWereAccepted, ResultsMatchDrafts,
              OneDraftPerKey, OneLiveSession
<1>4. ASSUME NEW s \in Sessions, NEW g \in Grants, StartSession(s, g) PROVE IInv'
  <2>1. TypeOK'
    BY <1>4 DEF StartSession, TypeOK, Live
  <2>2. OneLiveSession'
    BY <1>4 DEF StartSession, NoLiveSession, OneLiveSession, TypeOK
  <2> QED BY <1>4, <2>1, <2>2
          DEF StartSession, ApprovedRows, DraftsWereAccepted, ResultsMatchDrafts,
              OneDraftPerKey, DraftGrants, Counted
<1>5. ASSUME NEW s \in Sessions, Pause(s) \/ Cancel(s) PROVE IInv'
  <2>1. PICK row \in {[sessions[s] EXCEPT !.state = "interrupted", !.paused = TRUE],
                      [sessions[s] EXCEPT !.state = "cancelled"]} :
            /\ sessions' = [sessions EXCEPT ![s] = row]
            /\ row.state \in Live => sessions[s].state \in Live
    BY <1>5 DEF Pause, Cancel, Moved, Live, TypeOK
  <2>2. /\ row \in [grant : Grants \cup {NoGrant},
                     state : {"none", "cancelled"} \cup Live, paused : BOOLEAN]
        /\ row.grant = sessions[s].grant
    BY <2>1 DEF TypeOK, Live
  <2>3. TypeOK'
    BY <1>5, <2>1, <2>2 DEF Pause, Cancel, Moved, TypeOK
  <2>4. \A u \in Sessions : /\ sessions'[u].grant = sessions[u].grant
                            /\ sessions'[u].state \in Live => sessions[u].state \in Live
    BY <2>1, <2>2 DEF TypeOK
  <2>5. OneLiveSession'
    BY <2>4 DEF OneLiveSession
  <2> QED BY <1>5, <2>3, <2>5
          DEF Pause, Cancel, Moved, ApprovedRows, DraftsWereAccepted,
              ResultsMatchDrafts, OneDraftPerKey, DraftGrants, Counted
<1>6. ASSUME NEW p \in AgentRequests, RequestApproval(p) PROVE IInv'
  <2> DEFINE a == [request |-> p, approved |-> FALSE, expires |-> now + ApprovalLifetime]
  <2>1. /\ approvals' = approvals \cup {a}
        /\ UNCHANGED <<now, identity, records, grants, sessions, results, executions,
                       edits, accepted, drafts>>
    BY <1>6 DEF RequestApproval
  <2>2. p \in Requests
    BY <1>6 DEF AgentRequests, Requests, TypeOK
  <2>3. a \in [request : Requests, approved : BOOLEAN, expires : Nat] /\ ~a.approved
    <3>1. now + ApprovalLifetime \in Nat
      BY DEF TypeOK, AspDraftAssumption
    <3> QED BY <2>2, <3>1
  <2>4. TypeOK'
    BY <2>1, <2>3 DEF TypeOK
  <2>5. ApprovedRows'
    BY <1>6, <2>1, <2>3 DEF RequestApproval, ApprovedRows
  <2> QED BY <1>6, <2>4, <2>5 DEF RequestApproval, DraftsWereAccepted,
      ResultsMatchDrafts, OneDraftPerKey, OneLiveSession, DraftGrants, Counted
<1>7. ASSUME NEW a \in approvals, Approve(a) PROVE IInv'
  <2> DEFINE b == [a EXCEPT !.approved = TRUE]
  <2>1. a \in [request : Requests, approved : BOOLEAN, expires : Nat]
    BY DEF TypeOK
  <2>2. b \in [request : Requests, approved : BOOLEAN, expires : Nat] /\ b.request = a.request
    BY <2>1
  <2>3. /\ approvals' = (approvals \ {a}) \cup {b} /\ accepted' = accepted \cup {a.request}
        /\ UNCHANGED <<now, identity, records, grants, sessions, results, executions,
                       edits, drafts>>
    BY <1>7 DEF Approve
  <2>4. TypeOK'
    BY <2>1, <2>2, <2>3 DEF TypeOK
  <2>5. ApprovedRows'
    BY <2>2, <2>3 DEF ApprovedRows
  <2> QED BY <1>7, <2>4, <2>5 DEF Approve, DraftsWereAccepted,
      ResultsMatchDrafts, OneDraftPerKey, OneLiveSession, DraftGrants, Counted
<1>8. ASSUME NEW a \in approvals, Propose(a.request) PROVE IInv'
  <2> DEFINE p == a.request
  <2>1. p.grant \in Grants /\ grants[p.grant].status = "active"
    <3>1. p.grant \in Grants
      BY DEF TypeOK, Requests
    <3> QED BY <1>8, <3>1 DEF Propose, InSession, Authentic
  <2>2. TypeOK' /\ \A h \in Grants : grants'[h].status = grants[h].status
    <3> DEFINE new == [id |-> p.id, text |-> p.text, status |-> "draft", at |-> now]
    <3>1. new \in Records
      BY DEF TypeOK, Requests, Records, Statuses
    <3>2. records' \subseteq Records
      BY <1>8, <3>1, SavedType DEF Propose, TypeOK
    <3>3. /\ grants' = [grants EXCEPT ![p.grant].proposals = @ + 1]
          /\ UNCHANGED <<now, identity, sessions, approvals, edits, accepted>>
          /\ drafts' = drafts \cup {p}
      BY <1>8 DEF Propose
    <3>4. p \in Requests
      BY DEF TypeOK
    <3>5. results' \subseteq [grant : Grants, key : Keys, request : Requests]
      BY <1>8, <3>4 DEF Propose, ResultOf, TypeOK, Requests
    <3>6. executions' \subseteq [grant : Grants, execution : Executions, key : Keys]
      BY <1>8, <3>4 DEF Propose, TypeOK, Requests
    <3>7. \A q \in accepted' \cup drafts' : q \in Requests
      BY <3>3, <3>4 DEF TypeOK
    <3> QED BY <2>1, <3>2, <3>3, <3>5, <3>6, <3>7 DEF TypeOK
  <2>3. p \in accepted
    BY <1>8 DEF Propose, Approved, ApprovedRows
  <2>4. ResultsMatchDrafts' /\ OneDraftPerKey' /\ p \notin drafts /\ drafts' = drafts \cup {p}
    BY <1>8, ProposeKeepsKeys
  <2>5. Counted'
    BY <1>8, <2>1, <2>4, ProposeCounts
  <2>6. DraftGrants'
    BY <2>1, <2>2, <2>4 DEF DraftGrants
  <2> QED BY <1>8, <2>2, <2>3, <2>4, <2>5, <2>6
          DEF Propose, ApprovedRows, DraftsWereAccepted, OneLiveSession
<1>9. CASE NativeSave
  <2>1. PICK i \in RequestIds, x \in Texts, st \in Statuses :
            records' = Saved(records, [id |-> i, text |-> x, status |-> st, at |-> now])
    BY <1>9 DEF NativeSave
  <2>2. records' \subseteq Records
    BY <2>1, SavedType DEF TypeOK, Records
  <2>3. /\ edits' = edits + 1
        /\ UNCHANGED <<now, identity, grants, sessions, approvals, results, executions,
                       accepted, drafts>>
    BY <1>9 DEF NativeSave
  <2>4. TypeOK'
    BY <2>2, <2>3 DEF TypeOK
  <2> QED BY <2>3, <2>4 DEF ApprovedRows, DraftsWereAccepted,
      ResultsMatchDrafts, OneDraftPerKey, OneLiveSession, DraftGrants, Counted
<1>10. CASE Tick \/ IdentityChanges
  <2>1. /\ UNCHANGED <<records, grants, sessions, approvals, results, executions, edits,
                       accepted, drafts>>
        /\ now' \in Nat /\ identity' \in BOOLEAN
    <3>1. now \in Nat /\ identity \in BOOLEAN
      BY DEF TypeOK
    <3>2. CASE Tick
      BY <3>1, <3>2 DEF Tick
    <3>3. CASE IdentityChanges
      BY <3>1, <3>3, Zenon DEF IdentityChanges
    <3> QED BY <1>10, <3>2, <3>3
  <2>2. TypeOK'
    BY <2>1 DEF TypeOK
  <2> QED BY <2>1, <2>2 DEF ApprovedRows, DraftsWereAccepted,
      ResultsMatchDrafts, OneDraftPerKey, OneLiveSession, DraftGrants, Counted
<1> QED BY <1>1, <1>2, <1>3, <1>4, <1>5, <1>6, <1>7, <1>8, <1>9, <1>10 DEF Next

-----------------------------------------------------------------------------
\* The type invariant.
THEOREM TypeCorrect == Spec => []TypeOK
<1>1. IInv => TypeOK
  BY DEF IInv
<1> QED BY <1>1, InitIInv, StepIInv, PTL DEF Spec

\* Every saved draft was approved by the operator in exactly its form.
THEOREM ConsentCorrect == Spec => []DraftsWereAccepted
<1>1. IInv => DraftsWereAccepted
  BY DEF IInv
<1> QED BY <1>1, InitIInv, StepIInv, PTL DEF Spec

\* An idempotency key and an execution id save at most one draft.
THEOREM IdempotencyCorrect == Spec => []OneDraftPerKey
<1>1. IInv => OneDraftPerKey
  BY DEF IInv
<1> QED BY <1>1, InitIInv, StepIInv, PTL DEF Spec

\* Stored results and saved drafts belong together one to one.
THEOREM ResultsCorrect == Spec => []ResultsMatchDrafts
<1>1. IInv => ResultsMatchDrafts
  BY DEF IInv
<1> QED BY <1>1, InitIInv, StepIInv, PTL DEF Spec

\* A grant saves as many drafts as it counts, within its quota.
THEOREM QuotaCorrect == Spec => []QuotaIsExact
<1>1. IInv => QuotaIsExact
  BY DEF IInv, Counted, QuotaIsExact
<1> QED BY <1>1, InitIInv, StepIInv, PTL DEF Spec

\* A grant has at most one session that can still act or is paused.
THEOREM SessionCorrect == Spec => []OneLiveSession
<1>1. IInv => OneLiveSession
  BY DEF IInv
<1> QED BY <1>1, InitIInv, StepIInv, PTL DEF Spec

\* A stored answer is returned unchanged for ever.
THEOREM ReplayCorrect == Spec => ResultsStay
<1>1. ASSUME IInv, [Next]_vars PROVE results \subseteq results'
  <2>1. CASE \E a \in approvals : Propose(a.request)
    BY <2>1 DEF Propose, ResultOf, Unused
  <2>2. CASE UNCHANGED results
    BY <2>2
  <2> QED BY <1>1, <2>1, <2>2 DEF Next, vars, Issue, Revoke, Pause, Cancel, Moved,
          StartSession, RequestApproval, Approve, NativeSave, Tick, IdentityChanges
<1> QED BY <1>1, InitIInv, StepIInv, PTL DEF Spec, ResultsStay

\* No draft is saved under a grant while one of its sessions is paused.
THEOREM PauseCorrect == Spec => PausedGrantSavesNothing
<1>1. ASSUME IInv, [Next]_vars, NEW s \in Sessions, sessions[s].state = "interrupted",
             NEW p \in drafts' \ drafts
      PROVE  p.grant # sessions[s].grant
  <2>1. PICK a \in approvals : Propose(a.request)
    BY <1>1 DEF Next, vars, Issue, Revoke, Pause, Cancel, Moved,
          StartSession, RequestApproval, Approve, NativeSave, Tick, IdentityChanges
  <2>2. p = a.request /\ p.session \in Sessions
    BY <1>1, <2>1 DEF Propose, IInv, TypeOK, Requests
  <2>3. sessions[p.session].grant = p.grant /\ sessions[p.session].state = "active"
    BY <2>1, <2>2 DEF Propose, InSession
  <2> QED BY <1>1, <2>2, <2>3 DEF IInv, OneLiveSession, Live
<1>2. IInv /\ [Next]_vars =>
        [\A s \in Sessions : sessions[s].state = "interrupted" =>
            \A p \in drafts' \ drafts : p.grant # sessions[s].grant]_drafts
  BY <1>1
<1> QED BY <1>2, InitIInv, StepIInv, PTL DEF Spec, PausedGrantSavesNothing

\* A revoked grant is never active again and saves nothing more.
THEOREM RevocationCorrect == Spec => RevocationIsFinal
<1>1. ASSUME IInv, [Next]_vars, NEW g \in Grants, grants[g].status = "revoked"
      PROVE  grants'[g] = grants[g]
  <2>1. ASSUME NEW h \in Grants, Issue(h) \/ Revoke(h) PROVE grants'[g] = grants[g]
    BY <1>1, <2>1 DEF Issue, Revoke, IInv, TypeOK
  <2>2. ASSUME NEW a \in approvals, Propose(a.request) PROVE grants'[g] = grants[g]
    <3>1. a.request.grant # g
      BY <1>1, <2>2 DEF Propose, InSession, Authentic
    <3> QED BY <2>2, <3>1 DEF Propose, IInv, TypeOK
  <2>3. CASE UNCHANGED grants
    BY <2>3
  <2> QED BY <1>1, <2>1, <2>2, <2>3 DEF Next, vars, Pause, Cancel, Moved,
          StartSession, RequestApproval, Approve, NativeSave, Tick, IdentityChanges
<1>2. IInv /\ [Next]_vars =>
        [\A g \in Grants : grants[g].status = "revoked" => grants'[g] = grants[g]]_grants
  BY <1>1
<1> QED BY <1>2, InitIInv, StepIInv, PTL DEF Spec, RevocationIsFinal

\* A session that was paused or cancelled never leaves that state but by being
\* cancelled, and its grant starts no session while it is paused.
LEMMA StoppedSession ==
    ASSUME IInv, [Next]_vars, NEW s \in Sessions,
           sessions[s].state \in {"interrupted", "cancelled"}
    PROVE  /\ sessions'[s] \in {sessions[s], [sessions[s] EXCEPT !.state = "cancelled"]}
           /\ sessions[s].state = "interrupted" =>
                  \A u \in Sessions : sessions'[u].grant = sessions[s].grant =>
                      sessions[u].grant = sessions[s].grant
<1>1. ASSUME NEW u \in Sessions, NEW g \in Grants, StartSession(u, g)
      PROVE  /\ sessions'[s] = sessions[s]
             /\ sessions[s].state = "interrupted" => g # sessions[s].grant
             /\ \A v \in Sessions \ {u} : sessions'[v] = sessions[v]
             /\ sessions'[u].grant = g
  BY <1>1 DEF StartSession, NoLiveSession, Live, IInv, TypeOK
<1>2. ASSUME NEW u \in Sessions, Pause(u)
      PROVE  /\ sessions'[s] = sessions[s]
             /\ \A v \in Sessions : sessions'[v].grant = sessions[v].grant
  BY <1>2 DEF Pause, Moved, IInv, TypeOK
<1>3. ASSUME NEW u \in Sessions, Cancel(u)
      PROVE  /\ sessions'[s] \in {sessions[s], [sessions[s] EXCEPT !.state = "cancelled"]}
             /\ \A v \in Sessions : sessions'[v].grant = sessions[v].grant
  BY <1>3 DEF Cancel, Moved, IInv, TypeOK
<1>4. CASE UNCHANGED sessions
  BY <1>4
<1> QED BY <1>1, <1>2, <1>3, <1>4
        DEF Next, vars, Issue, Revoke, RequestApproval, Approve, Propose,
            NativeSave, Tick, IdentityChanges

\* A stopped session saves nothing; while it is paused its grant does nothing,
\* and a revoked grant is final.
THEOREM StopsCorrect == Spec => StopsHold
<1>1. ASSUME IInv, [Next]_vars, NEW s \in Sessions,
             sessions[s].state \in {"interrupted", "cancelled"},
             NEW p \in drafts' \ drafts
      PROVE  p.session # s
  <2>1. PICK a \in approvals : Propose(a.request)
    BY <1>1 DEF Next, vars, Issue, Revoke, Pause, Cancel, Moved,
          StartSession, RequestApproval, Approve, NativeSave, Tick, IdentityChanges
  <2> QED BY <1>1, <2>1 DEF Propose, InSession
<1>2. IInv /\ [Next]_vars =>
          \A s \in Sessions : sessions[s].state \in {"interrupted", "cancelled"} =>
              /\ sessions'[s] \in {sessions[s], [sessions[s] EXCEPT !.state = "cancelled"]}
              /\ \A p \in drafts' \ drafts : p.session # s
  BY <1>1, StoppedSession
<1>3. IInv /\ [Next]_vars =>
          \A s \in Sessions : sessions[s].state = "interrupted" =>
              \A u \in Sessions : sessions'[u].grant = sessions[s].grant =>
                  sessions[u].grant = sessions[s].grant
  BY StoppedSession
<1>4. /\ IInv /\ [Next]_vars
      /\ [\A s \in Sessions : sessions[s].state = "interrupted" =>
              \A p \in drafts' \ drafts : p.grant # sessions[s].grant]_drafts
      /\ [\A g \in Grants : grants[g].status = "revoked" => grants'[g] = grants[g]]_grants
      => [/\ \A s \in Sessions : sessions[s].state \in {"interrupted", "cancelled"} =>
                /\ sessions'[s] \in {sessions[s], [sessions[s] EXCEPT !.state = "cancelled"]}
                /\ \A p \in drafts' \ drafts : p.session # s
          /\ \A s \in Sessions : sessions[s].state = "interrupted" =>
                /\ \A p \in drafts' \ drafts : p.grant # sessions[s].grant
                /\ \A u \in Sessions : sessions'[u].grant = sessions[s].grant =>
                       sessions[u].grant = sessions[s].grant
          /\ \A g \in Grants : grants[g].status = "revoked" => grants'[g] = grants[g]
         ]_<<grants, sessions, drafts>>
  BY <1>2, <1>3
<1> QED BY <1>4, PauseCorrect, RevocationCorrect, InitIInv, StepIInv, PTL
        DEF Spec, StopsHold, PausedGrantSavesNothing, RevocationIsFinal
=============================================================================
