----------------------- MODULE WorkspaceInitialization -----------------------
(***************************************************************************)
(* The initialization of product workspaces: somebody asks for a workspace,*)
(* the backend prepares a plan and a request that pins the plan's digest,  *)
(* and Platform executes the request.                                      *)
(*                                                                         *)
(* A preparation runs two commands of Platform on inputs that anybody may  *)
(* change, and replaces two files one after the other.  A lock lets one    *)
(* preparation of a backend run at a time; saves of creation requests,     *)
(* executions, crashes and the operator's edits of the catalog do not      *)
(* take it.                                                                *)
(*                                                                         *)
(* An input is known by its version, and a version never comes back.  The  *)
(* file of the creation requests is that of all workspaces, as with the    *)
(* file backend of the state.                                              *)
(***************************************************************************)
EXTENDS Naturals, FiniteSets

CONSTANTS Handlers,        \* threads of the backends
          Backends,
          BackendOf,       \* the backend of a thread
          Workspaces,
          MaxSaves,        \* Bound: saves of creation requests
          MaxEdits,        \* Bound: edits of the catalog
          MaxPlans,        \* Bound: plans made
          MaxExecutions    \* Bound: executions started

ASSUME InitializationAssumption ==
    /\ BackendOf \in [Handlers -> Backends] /\ "nobody" \notin Handlers
    /\ "none" \notin Workspaces
    /\ MaxSaves \in Nat /\ MaxEdits \in Nat /\ MaxPlans \in Nat /\ MaxExecutions \in Nat

Inputs == {"creation", "catalog"}
Versions == [Inputs -> Nat]
Unread == [i \in Inputs |-> 0]
Plans == [n : Nat, of : Versions]     \* a plan, or what a request pins
NoFile == [n |-> 0, of |-> Unread]
NoHandler == "nobody"
NoWorkspace == "none"
Steps == {"idle", "saving", "select", "digest_creation", "digest_catalog", "plan",
          "check_creation", "check_catalog", "unlink", "place", "request", "pin",
          "recheck_creation", "recheck_catalog", "publish", "execute"}

VARIABLES
    version,         \* of each input
    requested,       \* the workspaces with an active creation request
    known,           \* the workspaces of the catalog
    plan, request, report,   \* the files of each workspace
    lock,            \* _PREPARATION_LOCK of each backend
    step, target,    \* what a thread does next, and of which workspace
    digests,         \* of a preparation: the digests of the inputs it began with
    draft, pinned,   \* of a preparation: the staged plan and request
    executions,      \* the running executions of Platform
    plans, started, edits,   \* how many there were
    moments,         \* history: the versions that were current together
    inForce          \* history: those when a workspace's plan was put in place

files == <<plan, request, report>>
inputs == <<version, requested, known, edits, moments>>
preparing == <<digests, draft, pinned>>
initializing == <<inputs, files, lock, step, target, preparing, executions, plans, started,
                  inForce>>

Goes(t, next) == step' = [step EXCEPT ![t] = next]
\* Calls end, and their locals are gone.
End(T) ==
    /\ step' = [t \in Handlers |-> IF t \in T THEN "idle" ELSE step[t]]
    /\ target' = [t \in Handlers |-> IF t \in T THEN NoWorkspace ELSE target[t]]
    /\ digests' = [t \in Handlers |-> IF t \in T THEN Unread ELSE digests[t]]
    /\ draft' = [t \in Handlers |-> IF t \in T THEN NoFile ELSE draft[t]]
    /\ pinned' = [t \in Handlers |-> IF t \in T THEN NoFile ELSE pinned[t]]

InitializationInit ==
    /\ version = [i \in Inputs |-> 1] /\ requested = {} /\ known = {} /\ edits = 0
    /\ plan = [w \in Workspaces |-> NoFile] /\ request = plan /\ report = plan
    /\ lock = [b \in Backends |-> NoHandler]
    /\ step = [t \in Handlers |-> "idle"] /\ target = [t \in Handlers |-> NoWorkspace]
    /\ digests = [t \in Handlers |-> Unread]
    /\ draft = [t \in Handlers |-> NoFile] /\ pinned = draft
    /\ executions = {} /\ plans = 0 /\ started = 0
    /\ moments = {version} /\ inForce = [w \in Workspaces |-> version]

-----------------------------------------------------------------------------
(* The inputs.                                                             *)
Changes(i) ==
    /\ version' = [version EXCEPT ![i] = @ + 1]
    /\ moments' = moments \cup {version'}

\* save_request looks at the catalog before it takes the lock of the state.
SaveChecks(t, w) ==
    /\ step[t] = "idle" /\ w \notin known /\ version["creation"] <= MaxSaves
    /\ Goes(t, "saving") /\ target' = [target EXCEPT ![t] = w]
    /\ UNCHANGED <<inputs, files, lock, preparing, executions, plans, started, inForce>>
SaveWrites(t) ==
    /\ step[t] = "saving" /\ End({t})
    /\ \/ requested' = requested \cup {target[t]} /\ Changes("creation")
       \/ UNCHANGED <<requested, version, moments>>     \* or it is refused, or the state is not available
    /\ UNCHANGED <<known, edits, files, lock, executions, plans, started, inForce>>
EditCatalog ==
    /\ edits < MaxEdits /\ edits' = edits + 1 /\ Changes("catalog")
    /\ UNCHANGED <<requested, known, files, lock, step, target, preparing, executions, plans,
                   started, inForce>>

-----------------------------------------------------------------------------
(* A preparation.  An error or a timeout can end each of its steps.        *)
Prepares(t, now, next) ==
    /\ step[t] = now /\ Goes(t, next)
    /\ UNCHANGED <<inputs, lock, target, executions, started>>

TakeLockFault(t, w) ==     \* Fault: the lock is not looked at
    /\ step[t] = "idle" /\ plans < MaxPlans
    /\ lock' = [lock EXCEPT ![BackendOf[t]] = t]
    /\ Goes(t, "select") /\ target' = [target EXCEPT ![t] = w]
    /\ UNCHANGED <<inputs, files, preparing, executions, plans, started, inForce>>
TakeLock(t, w) ==
    /\ step[t] = "idle" /\ plans < MaxPlans
    /\ lock[BackendOf[t]] = NoHandler /\ lock' = [lock EXCEPT ![BackendOf[t]] = t]
    /\ Goes(t, "select") /\ target' = [target EXCEPT ![t] = w]
    /\ UNCHANGED <<inputs, files, preparing, executions, plans, started, inForce>>
SelectActive(t) ==
    /\ Prepares(t, "select", "digest_creation") /\ target[t] \in requested
    /\ UNCHANGED <<files, preparing, plans, inForce>>
DigestCreation(t) ==
    /\ Prepares(t, "digest_creation", "digest_catalog")
    /\ digests' = [digests EXCEPT ![t] = [@ EXCEPT !["creation"] = version["creation"]]]
    /\ UNCHANGED <<files, draft, pinned, plans, inForce>>
DigestCatalog(t) ==
    /\ Prepares(t, "digest_catalog", "plan")
    /\ digests' = [digests EXCEPT ![t] = [@ EXCEPT !["catalog"] = version["catalog"]]]
    /\ plans' = plans + 1 /\ draft' = [draft EXCEPT ![t] = [n |-> plans', of |-> Unread]]
    /\ UNCHANGED <<files, pinned, inForce>>

\* The first command reads the inputs, in some order, and stages a plan.
InitializeFromRequest(t) ==
    /\ \E i \in Inputs :
          /\ draft[t].of[i] = 0
          /\ draft' = [draft EXCEPT ![t] =
                         [n |-> draft[t].n, of |-> [draft[t].of EXCEPT ![i] = version[i]]]]
    /\ Prepares(t, "plan", IF \E i \in Inputs : draft'[t].of[i] = 0 THEN "plan"
                           ELSE "check_creation")
    /\ UNCHANGED <<files, digests, pinned, plans, inForce>>

\* _input_digests_match, one file after the other.
InputDigestMatchesFault(t, i, now, next) ==     \* Fault: the digest is not compared
    /\ Prepares(t, now, next)
    /\ UNCHANGED <<files, preparing, plans, inForce>>
InputDigestMatches(t, i, now, next) ==
    /\ Prepares(t, now, next) /\ version[i] = digests[t][i]
    /\ UNCHANGED <<files, preparing, plans, inForce>>

\* The previous request goes before its plan does.
UnlinkRequestFault(t) ==     \* Fault: it stays
    /\ Prepares(t, "unlink", "place")
    /\ UNCHANGED <<files, preparing, plans, inForce>>
UnlinkRequest(t) ==
    /\ Prepares(t, "unlink", "place")
    /\ request' = [request EXCEPT ![target[t]] = NoFile]
    /\ UNCHANGED <<plan, report, preparing, plans, inForce>>
PlacePlan(t) ==
    /\ Prepares(t, "place", "request")
    /\ plan' = [plan EXCEPT ![target[t]] = draft[t]]
    /\ inForce' = [inForce EXCEPT ![target[t]] = version]
    /\ UNCHANGED <<request, report, preparing, plans>>

\* The second command pins the plan it finds; the backend compares.
RequestInitializationExecution(t) ==
    /\ Prepares(t, "request", "pin")
    /\ pinned' = [pinned EXCEPT ![t] = plan[target[t]]]
    /\ UNCHANGED <<files, digests, draft, plans, inForce>>
PreparedRequestFits(t) ==
    /\ Prepares(t, "pin", "recheck_creation") /\ pinned[t] = plan[target[t]]
    /\ UNCHANGED <<files, preparing, plans, inForce>>
PublishRequest(t) ==
    /\ step[t] = "publish" /\ End({t})
    /\ request' = [request EXCEPT ![target[t]] = pinned[t]]
    /\ lock' = [lock EXCEPT ![BackendOf[t]] = NoHandler]
    /\ UNCHANGED <<inputs, plan, report, executions, plans, started, inForce>>
PreparationFails(t) ==
    /\ step[t] \notin {"idle", "saving", "execute"} /\ End({t})
    /\ lock' = [lock EXCEPT ![BackendOf[t]] = NoHandler]
    /\ UNCHANGED <<inputs, files, executions, plans, started, inForce>>

Preparation(t) ==
    \/ \E w \in Workspaces : TakeLock(t, w)
    \/ SelectActive(t) \/ DigestCreation(t) \/ DigestCatalog(t) \/ InitializeFromRequest(t)
    \/ InputDigestMatches(t, "creation", "check_creation", "check_catalog")
    \/ InputDigestMatches(t, "catalog", "check_catalog", "unlink")
    \/ UnlinkRequest(t) \/ PlacePlan(t)
    \/ RequestInitializationExecution(t) \/ PreparedRequestFits(t)
    \/ InputDigestMatches(t, "creation", "recheck_creation", "recheck_catalog")
    \/ InputDigestMatches(t, "catalog", "recheck_catalog", "publish")
    \/ PublishRequest(t) \/ PreparationFails(t)

-----------------------------------------------------------------------------
(* An execution.  The backend looks at the request and starts Platform on  *)
(* its path; Platform reads it again, and the plan it pins.                *)
FindRequest(t, w) ==
    /\ step[t] = "idle" /\ started < MaxExecutions /\ request[w] # NoFile
    /\ Goes(t, "execute") /\ target' = [target EXCEPT ![t] = w]
    /\ UNCHANGED <<inputs, files, lock, preparing, executions, plans, started, inForce>>
StartExecution(t) ==
    /\ step[t] = "execute" /\ End({t})
    /\ started < MaxExecutions /\ started' = started + 1
    /\ executions' = executions \cup
          {[id |-> started', ws |-> target[t], pins |-> NoFile, runs |-> FALSE]}
    /\ UNCHANGED <<inputs, files, lock, plans, inForce>>

Platform == UNCHANGED <<plan, request, lock, step, target, preparing, plans, started, inForce>>
Becomes(e, f) == executions' = (executions \ {e}) \cup {f}
OpenRequest(e) ==
    /\ e.pins = NoFile /\ request[e.ws] # NoFile
    /\ Becomes(e, [e EXCEPT !.pins = request[e.ws]])
    /\ UNCHANGED <<inputs, report>> /\ Platform
OpenPlan(e) ==
    /\ e.pins # NoFile /\ ~e.runs /\ plan[e.ws] = e.pins
    /\ Becomes(e, [e EXCEPT !.runs = TRUE])
    /\ UNCHANGED <<inputs, report>> /\ Platform
\* It writes the catalog, then its report, unless it is killed before.
WriteCatalog(e) ==
    /\ e.runs /\ e.ws \notin known
    /\ known' = known \cup {e.ws} /\ Changes("catalog")
    /\ UNCHANGED <<requested, edits, report, executions>> /\ Platform
WriteReport(e) ==
    /\ e.runs /\ e.ws \in known
    /\ report' = [report EXCEPT ![e.ws] = e.pins] /\ executions' = executions \ {e}
    /\ UNCHANGED inputs /\ Platform
ExecutionEnds(e) ==     \* an error, or the timeout
    /\ executions' = executions \ {e}
    /\ UNCHANGED <<inputs, report>> /\ Platform
Execution(e) ==
    \/ OpenRequest(e) \/ OpenPlan(e) \/ WriteCatalog(e) \/ WriteReport(e) \/ ExecutionEnds(e)

\* What Platform was started for by a backend that dies goes on; the staged
\* files of a preparation stay under names that nobody reads.
Crash(b) ==
    /\ End({t \in Handlers : BackendOf[t] = b})
    /\ lock' = [lock EXCEPT ![b] = NoHandler]
    /\ UNCHANGED <<inputs, files, executions, plans, started, inForce>>

InitializationNext ==
    \/ EditCatalog
    \/ \E t \in Handlers :
          \/ SaveWrites(t) \/ Preparation(t) \/ StartExecution(t)
          \/ \E w \in Workspaces : SaveChecks(t, w) \/ FindRequest(t, w)
    \/ \E e \in executions : Execution(e)
    \/ \E b \in Backends : Crash(b)

InitializationSpec == InitializationInit /\ [][InitializationNext]_initializing

-----------------------------------------------------------------------------
(* The files and locals have their types.                                  *)
InitializationTypeOK ==
    /\ version \in Versions /\ requested \subseteq Workspaces /\ known \subseteq Workspaces
    /\ plan \in [Workspaces -> Plans] /\ request \in [Workspaces -> Plans]
    /\ report \in [Workspaces -> Plans]
    /\ lock \in [Backends -> Handlers \cup {NoHandler}]
    /\ step \in [Handlers -> Steps] /\ target \in [Handlers -> Workspaces \cup {NoWorkspace}]
    /\ digests \in [Handlers -> Versions]
    /\ draft \in [Handlers -> Plans] /\ pinned \in [Handlers -> Plans]
    /\ executions \subseteq [id : Nat, ws : Workspaces, pins : Plans, runs : BOOLEAN]
    /\ plans \in Nat /\ started \in Nat /\ edits \in Nat
    /\ moments \subseteq Versions /\ inForce \in [Workspaces -> Versions]

(* A request never lies beside a plan it was not made for, also when a     *)
(* preparation fails or its backend dies between the steps.                *)
PairFits == \A w \in Workspaces : request[w] # NoFile => request[w] = plan[w]

(* A plan that is in place, or that was executed, was made of inputs that  *)
(* were current together, and a request only appears beside a plan whose   *)
(* inputs were still current when the plan was put in place, whoever       *)
(* changes them meanwhile.                                                 *)
PlansAreOfOneMoment ==
    \A w \in Workspaces :
        /\ \A p \in {plan[w], report[w]} \ {NoFile} : p.of \in moments
        /\ request[w] # NoFile => plan[w].of = inForce[w]

=============================================================================
