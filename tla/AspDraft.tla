------------------------------ MODULE AspDraft ------------------------------
(***************************************************************************)
(* The agent-surface draft service (viewer/asp_draft.py) on its SQLite     *)
(* store (viewer/asp_draft_store.py), with the native raw-idea requests    *)
(* of the same workspace (viewer/real_idea_entry_requests.py).             *)
(*                                                                         *)
(* An operator issues a grant; the agent holding it starts a session,      *)
(* reads the drafts, asks for approval of one exact proposal and, once the *)
(* operator approved it, executes it with an idempotency key.  Meanwhile   *)
(* the operator edits the native requests, revokes grants, and approvals,  *)
(* grants and the identity evidence expire.                                *)
(*                                                                         *)
(* Every call is one BEGIN IMMEDIATE transaction, and a failed one rolls   *)
(* back, so every action is atomic and a crash or restart of the service   *)
(* changes nothing.  A rejected call, a read and a replay that returns a   *)
(* stored answer change no state and are no actions.                       *)
(***************************************************************************)
EXTENDS Integers, FiniteSets

CONSTANTS
    Grants,        \* grant ids, each with its own bearer credential
    NoGrant,       \* the grant of a session that was not started
    Sessions,      \* session ids
    Keys,          \* idempotency keys
    Executions,    \* execution ids
    RequestIds,    \* native request ids, ordered
    Texts,         \* idea texts
    Lifetimes,     \* expires_in of a grant
    IdentityExpiry,  \* expiry of the pinned identity evidence
    ApprovalLifetime,\* 120 seconds
    MaxGrants,     \* 32
    MaxSessions,   \* 32
    MaxApprovals,  \* 64
    MaxProposals,  \* 8 for each grant
    MaxSuperseded, \* MAX_SUPERSEDED_PER_WORKSPACE
    MaxTime,       \* bound on the clock
    MaxEdits       \* bound on native saves

ASSUME AspDraftAssumption ==
    /\ NoGrant \notin Grants
    /\ RequestIds \subseteq Nat
    /\ Lifetimes \subseteq Nat
    /\ {IdentityExpiry, ApprovalLifetime, MaxGrants, MaxSessions, MaxApprovals,
        MaxProposals, MaxSuperseded, MaxTime, MaxEdits} \subseteq Nat

VARIABLES
    now,        \* the clock, in seconds
    identity,   \* the identity evidence verifies and its status is active
    records,    \* the native requests of the workspace
    grants,     \* status, expiry and proposal count of each grant
    sessions,   \* the grant and the state of each session, and whether it
                \* was ever paused
    approvals,  \* the approval rows
    results,    \* the request stored under each grant and idempotency key
    executions, \* the idempotency key bound to each grant and execution id
    edits,      \* native saves so far
    accepted,   \* history: requests an operator approved
    drafts      \* history: requests that saved a draft

vars == <<now, identity, records, grants, sessions, approvals, results,
          executions, edits, accepted, drafts>>

Statuses == {"draft", "submitted", "superseded"}
Records == [id : RequestIds, text : Texts, status : Statuses, at : Nat]

\* The members of an action.request that _fingerprint keeps.  The snapshot
\* hash stands for the native requests it is the digest of.
Requests == [grant : Grants, session : Sessions, key : Keys,
             execution : Executions, id : RequestIds, text : Texts,
             snapshot : SUBSET Records]

Init ==
    /\ now = 0
    /\ identity = TRUE
    /\ records = {}
    /\ grants = [g \in Grants |-> [status |-> "none", expires |-> 0, proposals |-> 0]]
    /\ sessions = [s \in Sessions |-> [grant |-> NoGrant, state |-> "none", paused |-> FALSE]]
    /\ approvals = {}
    /\ results = {}
    /\ executions = {}
    /\ edits = 0
    /\ accepted = {}
    /\ drafts = {}

-----------------------------------------------------------------------------
(***************************************************************************)
(* Native requests.                                                        *)
(***************************************************************************)
Newer(q, r) == \/ q.at > r.at
               \/ q.at = r.at /\ q.id > r.id
Superseded(R) == {r \in R : r.status = "superseded"}
CapSuperseded(R) ==
    {r \in R : r.status = "superseded"
                 => Cardinality({q \in Superseded(R) : Newer(q, r)}) < MaxSuperseded}

\* A record with the same id is replaced; a submitted one supersedes the
\* submitted ones before it.
Supersede(r) ==
    IF r.status = "submitted" THEN [r EXCEPT !.status = "superseded"] ELSE r
Saved(R, new) ==
    LET others == {r \in R : r.id # new.id}
        kept == IF new.status = "submitted" THEN {Supersede(r) : r \in others}
                                            ELSE others
    IN  CapSuperseded(kept \cup {new})

NativeSave ==
    /\ edits < MaxEdits
    /\ edits' = edits + 1
    /\ \E i \in RequestIds, x \in Texts, st \in Statuses :
         records' = Saved(records, [id |-> i, text |-> x, status |-> st, at |-> now])
    /\ UNCHANGED <<now, identity, grants, sessions, approvals, results,
                   executions, accepted, drafts>>

-----------------------------------------------------------------------------
(***************************************************************************)
(* Grants.                                                                 *)
(***************************************************************************)
IdentityValid == identity /\ now < IdentityExpiry

Authentic(g) ==
    /\ grants[g].status = "active"
    /\ now < grants[g].expires
    /\ IdentityValid

Earlier(a, b) == IF a < b THEN a ELSE b

Issue(g) ==
    /\ IdentityValid
    /\ grants[g].status = "none"
    /\ Cardinality({h \in Grants : grants[h].status # "none"}) < MaxGrants
    /\ \E ttl \in Lifetimes :
         grants' = [grants EXCEPT ![g] =
             [status |-> "active", expires |-> Earlier(now + ttl, IdentityExpiry),
              proposals |-> 0]]
    /\ UNCHANGED <<now, identity, records, sessions, approvals, results,
                   executions, edits, accepted, drafts>>

Revoke(g) ==
    /\ grants[g].status # "none"
    /\ grants' = [grants EXCEPT ![g].status = "revoked"]
    /\ UNCHANGED <<now, identity, records, sessions, approvals, results,
                   executions, edits, accepted, drafts>>

-----------------------------------------------------------------------------
(***************************************************************************)
(* Sessions.                                                               *)
(***************************************************************************)
Live == {"active", "interrupted"}
Moved(s, row) ==
    /\ sessions' = [sessions EXCEPT ![s] = row]
    /\ UNCHANGED <<now, identity, records, grants, approvals, results,
                   executions, edits, accepted, drafts>>

\* Fault: an interrupted session does not keep its grant from starting one.
NoLiveSessionFault(g) ==
    \A u \in Sessions : sessions[u].grant = g => sessions[u].state # "active"
NoLiveSession(g) ==
    \A u \in Sessions : sessions[u].grant = g => sessions[u].state \notin Live

StartSession(s, g) ==
    /\ Authentic(g)
    /\ sessions[s].state = "none"
    /\ Cardinality({u \in Sessions : sessions[u].state # "none"}) < MaxSessions
    /\ NoLiveSession(g)
    /\ sessions' = [sessions EXCEPT ![s] = [grant |-> g, state |-> "active", paused |-> FALSE]]
    /\ UNCHANGED <<now, identity, records, grants, approvals, results,
                   executions, edits, accepted, drafts>>

\* The runaway guard of the runtime.  The row keeps the pause, and the same
\* pause again is answered from it.
Pause(s) ==
    /\ sessions[s].state = "active"
    /\ Authentic(sessions[s].grant)
    /\ Moved(s, [sessions[s] EXCEPT !.state = "interrupted", !.paused = TRUE])

\* The holder of the grant cancels a session in any state, a paused one too.
Cancel(s) ==
    /\ sessions[s].state # "none"
    /\ Authentic(sessions[s].grant)
    /\ Moved(s, [sessions[s] EXCEPT !.state = "cancelled"])

-----------------------------------------------------------------------------
(***************************************************************************)
(* Approvals and actions.                                                  *)
(***************************************************************************)

\* _request: the grant authenticates and owns the session.
InSession(p, states) ==
    /\ Authentic(p.grant)
    /\ sessions[p.session].grant = p.grant
    /\ sessions[p.session].state \in states

RequestApproval(p) ==
    /\ InSession(p, {"active"})
    /\ \A a \in approvals : a.request # p
    /\ Cardinality(approvals) < MaxApprovals
    /\ p.snapshot = records
    /\ approvals' = approvals \cup
           {[request |-> p, approved |-> FALSE, expires |-> now + ApprovalLifetime]}
    /\ UNCHANGED <<now, identity, records, grants, sessions, results,
                   executions, edits, accepted, drafts>>

Approve(a) ==
    /\ IdentityValid
    /\ now < a.expires
    /\ a.request.snapshot = records
    /\ approvals' = (approvals \ {a}) \cup {[a EXCEPT !.approved = TRUE]}
    /\ accepted' = accepted \cup {a.request}
    /\ UNCHANGED <<now, identity, records, grants, sessions, results,
                   executions, edits, drafts>>

\* Fault: any request under an approval row counts as approved.
ApprovedFault(p) == \E a \in approvals : a.request = p /\ now < a.expires
Approved(p) == \E a \in approvals : a.request = p /\ a.approved /\ now < a.expires

\* Neither the idempotency key nor the execution id was used before.
SameKey(r, p) == r.grant = p.grant /\ r.key = p.key
SameExecution(e, p) == e.grant = p.grant /\ e.execution = p.execution
\* Fault: the execution id is not checked.
UnusedFault(p) == \A r \in results : ~SameKey(r, p)
Unused(p) ==
    /\ \A e \in executions : SameExecution(e, p) => e.key = p.key
    /\ \A r \in results : ~SameKey(r, p)

CreatesOnly(p) ==
    /\ p.snapshot = records
    /\ \A r \in records : r.id # p.id

\* Fault: one proposal too many.
WithinQuotaFault(g) == grants[g].proposals <= MaxProposals
WithinQuota(g) == grants[g].proposals < MaxProposals

ResultOf(p) == {r \in results : ~SameKey(r, p)}

\* action, for a proposal that was not executed before.
Propose(p) ==
    /\ InSession(p, {"active"})
    /\ Unused(p)
    /\ Approved(p)
    /\ CreatesOnly(p)
    /\ WithinQuota(p.grant)
    /\ records' = Saved(records, [id |-> p.id, text |-> p.text,
                                  status |-> "draft", at |-> now])
    /\ results' = ResultOf(p) \cup {[grant |-> p.grant, key |-> p.key, request |-> p]}
    /\ executions' = {e \in executions : ~SameExecution(e, p)} \cup
           {[grant |-> p.grant, execution |-> p.execution, key |-> p.key]}
    /\ grants' = [grants EXCEPT ![p.grant].proposals = @ + 1]
    /\ drafts' = drafts \cup {p}
    /\ UNCHANGED <<now, identity, sessions, approvals, edits, accepted>>

-----------------------------------------------------------------------------
Tick ==
    /\ now < MaxTime
    /\ now' = now + 1
    /\ UNCHANGED <<identity, records, grants, sessions, approvals, results,
                   executions, edits, accepted, drafts>>

\* The evidence or its status is withdrawn, unreadable or back again.
IdentityChanges ==
    /\ identity' = ~identity
    /\ UNCHANGED <<now, records, grants, sessions, approvals, results,
                   executions, edits, accepted, drafts>>

AgentRequests == [grant : Grants, session : Sessions, key : Keys,
                  execution : Executions, id : RequestIds, text : Texts,
                  snapshot : {records}]

Next ==
    \/ \E g \in Grants : Issue(g) \/ Revoke(g)
    \/ \E s \in Sessions : Pause(s) \/ Cancel(s) \/ \E g \in Grants : StartSession(s, g)
    \/ \E p \in AgentRequests : RequestApproval(p)
    \/ \E a \in approvals : Approve(a) \/ Propose(a.request)
    \/ NativeSave \/ Tick \/ IdentityChanges

Spec == Init /\ [][Next]_vars

-----------------------------------------------------------------------------
(***************************************************************************)
(* Properties.                                                             *)
(***************************************************************************)

\* Every variable has its type.
TypeOK ==
    /\ now \in Nat
    /\ identity \in BOOLEAN
    /\ records \subseteq Records
    /\ grants \in [Grants -> [status : {"none", "active", "revoked"},
                              expires : Nat, proposals : Nat]]
    /\ sessions \in [Sessions -> [grant : Grants \cup {NoGrant},
                                  state : {"none", "cancelled"} \cup Live,
                                  paused : BOOLEAN]]
    /\ \A a \in approvals : a \in [request : Requests, approved : BOOLEAN, expires : Nat]
    /\ \A r \in results : r \in [grant : Grants, key : Keys, request : Requests]
    /\ executions \subseteq [grant : Grants, execution : Executions, key : Keys]
    /\ edits \in Nat
    /\ \A p \in accepted \cup drafts : p \in Requests

\* Each draft the service saved was approved by the operator in exactly this
\* form: same text, id, snapshot, grant, session and execution (the
\* fingerprint that approvals and results are stored under).
DraftsWereAccepted == drafts \subseteq accepted

\* An idempotency key and an execution id of a grant each save at most one
\* draft, whatever is retried, approved again or moved to another session.
OneDraftPerKey ==
    \A p, q \in drafts :
        p.grant = q.grant /\ (p.key = q.key \/ p.execution = q.execution) => p = q

\* The drafts a grant saved are counted, and never exceed its quota.
QuotaIsExact ==
    \A g \in Grants :
        /\ Cardinality({p \in drafts : p.grant = g}) = grants[g].proposals
        /\ grants[g].proposals <= MaxProposals

\* A grant has at most one session that is not cancelled (session.start counts
\* interrupted sessions too).
OneLiveSession ==
    \A s, u \in Sessions :
        /\ sessions[s].state \in Live
        /\ sessions[u].state \in Live
        /\ sessions[s].grant = sessions[u].grant
        => s = u

\* Every stored result is a draft that was saved, under the key it names and
\* with its execution id bound to that key, and every draft has its result.
ResultsMatchDrafts ==
    /\ {r.request : r \in results} = drafts
    /\ \A r \in results :
           /\ r.request.grant = r.grant /\ r.request.key = r.key
           /\ [grant |-> r.grant, execution |-> r.request.execution, key |-> r.key]
                  \in executions

\* An answer that was stored for a key is returned unchanged for ever.
ResultsStay == [][results \subseteq results']_results

\* Nothing is saved under a grant that has a paused session, in no session.
PausedGrantSavesNothing ==
    [][\A s \in Sessions : sessions[s].state = "interrupted" =>
          \A p \in drafts' \ drafts : p.grant # sessions[s].grant]_drafts

\* A revoked grant stays as it is: not active again, no further proposal.
RevocationIsFinal ==
    [][\A g \in Grants : grants[g].status = "revoked" => grants'[g] = grants[g]]_grants

\* How far a stop reaches.  A session that was paused or cancelled is never
\* active again and saves no draft, whatever was approved for it.  While it is
\* paused, its grant starts no other session and saves nothing in any; that
\* lasts until the holder of the grant cancels it.  A revoked grant stays as it
\* is, also against a proposal that stores the row of the grant again.
StopsHold ==
    [][/\ \A s \in Sessions : sessions[s].state \in {"interrupted", "cancelled"} =>
             /\ sessions'[s] \in {sessions[s], [sessions[s] EXCEPT !.state = "cancelled"]}
             /\ \A p \in drafts' \ drafts : p.session # s
       /\ \A s \in Sessions : sessions[s].state = "interrupted" =>
             /\ \A p \in drafts' \ drafts : p.grant # sessions[s].grant
             /\ \A u \in Sessions : sessions'[u].grant = sessions[s].grant =>
                    sessions[u].grant = sessions[s].grant
       /\ \A g \in Grants : grants[g].status = "revoked" => grants'[g] = grants[g]
      ]_<<grants, sessions, drafts>>

\* After a pause, no session starts under the same grant: a freshly issued
\* grant is needed.
PauseFencesGrant ==
    [][\A s, u \in Sessions :
          sessions[s].paused /\ sessions[u].state = "none" =>
              sessions'[u].grant # sessions[s].grant]_sessions
=============================================================================
