--------------------------- MODULE PromotionPath ----------------------------
(***************************************************************************)
(* The way of one repaired candidate of one workspace to its published     *)
(* read model, run by the local executor: the approval intent, the         *)
(* approval, the promotion request, the dry run, the review, the review    *)
(* status and the publication.                                             *)
(*                                                                         *)
(* The server keeps no lock across an operation.  It reads the artifacts   *)
(* of the workspace, decides, and runs Platform, which writes the report   *)
(* of the operation at some later time or not at all.  A request can come  *)
(* at any time: a browser tab enables its controls by a document it loaded *)
(* earlier, takes a lost answer for a failure and asks again, and another  *)
(* tab or client asks as well.                                             *)
(***************************************************************************)
EXTENDS Naturals, Sequences, FiniteSets

CONSTANTS Jobs,          \* the handler threads that can be busy at a time
          MaxSessions,   \* published repair sessions of the candidate
          MaxIntents

ASSUME PathAssumption ==
    /\ IsFiniteSet(Jobs) /\ MaxSessions \in Nat \ {0} /\ MaxIntents \in Nat

Ops == {"intent", "approval", "request", "dryrun", "review", "status", "publish"}

VARIABLES
    art,       \* the state and the artifacts of the workspace at the server
    jobs,      \* the requests the server is busy with
    pr,        \* the pull request of the candidate
    ran,       \* how often Platform approved because of an intent
    overlap    \* two executions of a promotion have been under way at once

vars == <<art, jobs, pr, ran, overlap>>

IntentStatus == {"requested", "superseded", "consumed"}
Artifacts ==
    [session: 1..MaxSessions,
     ready: BOOLEAN,                            \* its approval readiness
     intents: Seq([status: IntentStatus, session: 1..MaxSessions]),
     approval: {"none", "failed", "ok"},
     decision: 0..MaxSessions,                  \* 0, or the session it approved
     plan: BOOLEAN,                             \* SpecGraph's execution plan is there
     request: {"none", "failed", "ready"},
     promotion: {"none", "dryfailed", "dry", "realfailed", "unopened", "real"},
     git: BOOLEAN,                              \* the Git Service report is of a review
     status: {"none", "failed", "open", "closed", "probe", "merged"},
     bundle: BOOLEAN,                           \* SpecGraph's public bundle is there
     model: {"none", "failed", "published"}]

Idle == [op |-> "none", at |-> "idle", intent |-> 0]

TypeOK ==
    /\ art \in Artifacts /\ Len(art.intents) <= MaxIntents
    /\ jobs \in [Jobs -> [op: Ops \cup {"none"}, at: {"idle", "sent", "chosen", "running"},
                          intent: 0..MaxIntents]]
    /\ pr \in {"none", "open", "closed", "merged"}
    /\ ran \in [1..MaxIntents -> Nat]
    /\ overlap \in BOOLEAN

-----------------------------------------------------------------------------
(* What the document derives from the artifacts.                           *)

Requested(a) == {i \in DOMAIN a.intents : a.intents[i].status = "requested"}

(* workspace_state_hygiene: an intent of the current repair session.       *)
IntentUsable(a) == \E i \in Requested(a) : a.intents[i].session = a.session

IsReal(a) == a.promotion \in {"realfailed", "unopened", "real"}
PromotionFailed(a) == a.promotion \in {"dryfailed", "realfailed"}
ReviewUsable(a) == a.status # "none" /\ a.promotion \in {"none", "unopened", "real"}

(* _guided_approval_path: the first rule that holds.                       *)
StageRules(a) == <<
    <<a.model = "published",                    "published">>,
    <<a.model = "failed",                       "read_model_publication_needed">>,
    <<ReviewUsable(a) /\ a.status = "probe",    "review_merge_waiting">>,
    <<ReviewUsable(a) /\ a.status = "merged",   "read_model_publication_needed">>,
    <<ReviewUsable(a) /\ a.status = "closed",   "review_closed">>,
    <<PromotionFailed(a),                       "promotion_execution_needed">>,
    <<a.promotion = "dry",                      "promotion_execution_needed">>,
    <<ReviewUsable(a) \/ IsReal(a),             "review_merge_waiting">>,
    <<a.request = "failed",                     "promotion_request_needed">>,
    <<a.request = "ready",                      "promotion_execution_needed">>,
    <<a.approval = "failed",                    "approval_execution_needed">>,
    <<a.decision # 0,                           "promotion_request_needed">>,
    <<a.ready /\ IntentUsable(a),               "approval_execution_needed">>,
    <<a.ready,                                  "approval_intent_needed">>,
    <<TRUE,                                     "approval_not_ready">> >>

Stage(a) ==
    LET rules == StageRules(a)
        first == CHOOSE n \in DOMAIN rules :
                     rules[n][1] /\ \A m \in 1..(n - 1) : ~rules[m][1]
    IN  rules[first][2]

(* ApprovalReadinessSection and GuidedApprovalPathSection: the control of  *)
(* each operation is enabled by the document alone.  The dry run and the   *)
(* review status are also enabled by the list of managed operations, which *)
(* asks for their input files only.                                        *)
ApprovalEnabledFault(a) ==     \* Fault: no retry of a failed approval
    Stage(a) = "approval_execution_needed" /\ IntentUsable(a) /\ a.approval = "none"
ApprovalEnabled(a) ==
    Stage(a) = "approval_execution_needed" /\ IntentUsable(a) /\ a.approval # "ok"
RequestEnabled(a) ==
    Stage(a) = "promotion_request_needed" /\ a.decision # 0 /\ a.request # "ready"
DryRunEnabled(a) == a.request = "ready" /\ a.decision # 0
ReviewEnabled(a) ==
    Stage(a) = "promotion_execution_needed" /\ a.promotion = "dry" /\ a.request = "ready"
StatusEnabled(a) == a.promotion # "none" \/ a.status # "none"
PublishEnabled(a) == Stage(a) = "read_model_publication_needed"

Enabled(a, op) ==
    CASE op = "intent" -> a.ready
      [] op = "approval" -> ApprovalEnabled(a)
      [] op = "request" -> RequestEnabled(a)
      [] op = "dryrun" -> DryRunEnabled(a)
      [] op = "review" -> ReviewEnabled(a)
      [] op = "status" -> StatusEnabled(a)
      [] op = "publish" -> PublishEnabled(a)

-----------------------------------------------------------------------------
(* What the server requires before it runs Platform.  The approval matches *)
(* intents by the reference of the repair session, a path, which every     *)
(* repaired session of the workspace shares; it does not ask again whether *)
(* the candidate is ready.  A promotion leaves two reports, the product's  *)
(* and the Git Service's, and neither may be of a review already.          *)
ApprovalAccepted(a) == Cardinality(Requested(a)) = 1
RequestAccepted(a) == a.plan /\ a.decision # 0 /\ a.request # "failed"
DryRunAcceptedFault(a) == a.request = "ready" /\ a.decision # 0  \* Fault: no look at the reports
DryRunAccepted(a) == a.request = "ready" /\ a.decision # 0 /\ ~IsReal(a) /\ ~a.git
ReviewAccepted(a) ==
    /\ a.request = "ready" /\ a.decision # 0
    /\ a.promotion = "real" \/ (a.promotion = "dry" /\ ~a.git)
StatusAccepted(a) == a.promotion = "real"
PublishAcceptedFault(a) ==     \* Fault: a probe is enough
    a.status \in {"merged", "probe"} /\ a.bundle
PublishAccepted(a) == a.status = "merged" /\ a.bundle

Accepted(a, op) ==
    CASE op = "intent" -> a.ready
      [] op = "approval" -> ApprovalAccepted(a)
      [] op = "request" -> RequestAccepted(a)
      [] op = "dryrun" -> DryRunAccepted(a)
      [] op = "review" -> ReviewAccepted(a)
      [] op = "status" -> StatusAccepted(a)
      [] op = "publish" -> PublishAccepted(a)

(* A report that is there already is the answer, and Platform does not run.*)
Reused(a, op) ==
    \/ op = "request" /\ a.request = "ready"
    \/ op = "review" /\ a.promotion = "real"

-----------------------------------------------------------------------------
NewSession(n, ready) ==
    [session |-> n, ready |-> ready, intents |-> << >>, approval |-> "none", decision |-> 0,
     plan |-> FALSE, request |-> "none", promotion |-> "none", git |-> FALSE,
     status |-> "none", bundle |-> FALSE, model |-> "none"]

Init ==
    /\ \E ready \in BOOLEAN : art = NewSession(1, ready)
    /\ jobs = [j \in Jobs |-> Idle]
    /\ pr = "none"
    /\ ran = [i \in 1..MaxIntents |-> 0]
    /\ overlap = FALSE

(* Another repair rerun of the candidate is published.                     *)
RerunPublished ==
    /\ art.session < MaxSessions
    /\ \E ready \in BOOLEAN :
           art' = [art EXCEPT !.session = @ + 1, !.ready = ready]
    /\ UNCHANGED <<jobs, pr, ran, overlap>>

(* SpecGraph writes the execution plan and builds the public bundle; no    *)
(* operation of the path does.                                             *)
PlanWritten ==
    /\ ~art.plan
    /\ art' = [art EXCEPT !.plan = TRUE]
    /\ UNCHANGED <<jobs, pr, ran, overlap>>

BundleBuilt ==
    /\ ~art.bundle
    /\ art' = [art EXCEPT !.bundle = TRUE]
    /\ UNCHANGED <<jobs, pr, ran, overlap>>

(* A request for an operation comes to a handler thread that is free.      *)
Receive(j, op) ==
    /\ jobs[j].at = "idle"
    /\ op = "intent" =>
           Len(art.intents) + Cardinality({k \in Jobs : jobs[k].op = op}) < MaxIntents
    /\ jobs' = [jobs EXCEPT ![j] = [op |-> op, at |-> "sent", intent |-> 0]]
    /\ UNCHANGED <<art, pr, ran, overlap>>

Refuse(j) ==
    /\ jobs[j].at = "sent"
    /\ ~Accepted(art, jobs[j].op)
    /\ jobs' = [jobs EXCEPT ![j] = Idle]
    /\ UNCHANGED <<art, pr, ran, overlap>>

Reuse(j) ==
    /\ jobs[j].at = "sent"
    /\ Accepted(art, jobs[j].op) /\ Reused(art, jobs[j].op)
    /\ jobs' = [jobs EXCEPT ![j] = Idle]
    /\ UNCHANGED <<art, pr, ran, overlap>>

(* save_candidate_approval_intent supersedes the intent before it; all     *)
(* under the lock of the state.                                            *)
Superseded(intents) ==
    [i \in DOMAIN intents |-> IF intents[i].status = "requested"
                              THEN [intents[i] EXCEPT !.status = "superseded"] ELSE intents[i]]

SaveIntent(j) ==
    /\ jobs[j].at = "sent" /\ jobs[j].op = "intent"
    /\ Accepted(art, "intent")
    /\ art' = [art EXCEPT !.intents =
                  Append(Superseded(@), [status |-> "requested", session |-> art.session])]
    /\ jobs' = [jobs EXCEPT ![j] = Idle]
    /\ UNCHANGED <<pr, ran, overlap>>

(* The approval reads the intents, and chooses the only one that matches.  *)
ChooseIntent(j) ==
    /\ jobs[j].at = "sent" /\ jobs[j].op = "approval"
    /\ Accepted(art, "approval")
    /\ \E i \in Requested(art) :
           jobs' = [jobs EXCEPT ![j].at = "chosen", ![j].intent = i]
    /\ UNCHANGED <<art, pr, ran, overlap>>

MarkConsumedFault(j) ==     \* Fault: consumed already, or superseded, is not noticed
    /\ jobs[j].at = "chosen"
    /\ jobs' = [jobs EXCEPT ![j].at = "running"]
    /\ art' = [art EXCEPT !.intents[jobs[j].intent].status = "consumed"]
    /\ ran' = [ran EXCEPT ![jobs[j].intent] = @ + 1]
    /\ UNCHANGED <<pr, overlap>>

(* mark_intent_consumed: under the lock, and only if it is still active.   *)
MarkConsumed(j) ==
    /\ jobs[j].at = "chosen"
    /\ art.intents[jobs[j].intent].status = "requested"
    /\ jobs' = [jobs EXCEPT ![j].at = "running"]
    /\ art' = [art EXCEPT !.intents[jobs[j].intent].status = "consumed"]
    /\ ran' = [ran EXCEPT ![jobs[j].intent] = @ + 1]
    /\ UNCHANGED <<pr, overlap>>

IntentGone(j) ==
    /\ jobs[j].at = "chosen"
    /\ art.intents[jobs[j].intent].status # "requested"
    /\ jobs' = [jobs EXCEPT ![j] = Idle]
    /\ UNCHANGED <<art, pr, ran, overlap>>

Promoting == {j \in Jobs : jobs[j].op \in {"dryrun", "review"} /\ jobs[j].at = "running"}

(* The other operations run Platform when what they read is in order.      *)
Run(j) ==
    /\ jobs[j].at = "sent" /\ jobs[j].op \notin {"intent", "approval"}
    /\ Accepted(art, jobs[j].op) /\ ~Reused(art, jobs[j].op)
    /\ jobs' = [jobs EXCEPT ![j].at = "running"]
    /\ overlap' = (overlap \/ (jobs[j].op \in {"dryrun", "review"} /\ Promoting # {}))
    /\ UNCHANGED <<art, pr, ran>>

-----------------------------------------------------------------------------
(* Platform and the repository, from outside: what an operation may leave. *)

(* A promotion writes its two reports one after the other.                 *)
Promoted(outcomes, git) ==
    UNION {{[art EXCEPT !.promotion = p], [art EXCEPT !.promotion = p, !.git = git]} :
               p \in outcomes \cup {art.promotion}}

Reports(op) ==
    CASE op = "approval" ->
           {[art EXCEPT !.approval = "failed"],
            [art EXCEPT !.approval = "ok", !.decision = art.session]}
      [] op = "request" -> {[art EXCEPT !.request = r] : r \in {"failed", "ready"}}
      [] op = "dryrun" -> Promoted({"dryfailed", "dry"}, FALSE)
      [] op = "review" -> Promoted({"realfailed", "unopened"}, TRUE)
      [] op = "status" -> {[art EXCEPT !.status = r] : r \in {"failed", "probe", pr} \ {"none"}}
      [] op = "publish" -> {[art EXCEPT !.model = r] : r \in {"failed", "published"}}

(* It writes its reports, or is killed after the timeout before it does.   *)
Finish(j) ==
    /\ jobs[j].at = "running"
    /\ jobs' = [jobs EXCEPT ![j] = Idle]
    /\ art' \in Reports(jobs[j].op) \cup {art}
    /\ UNCHANGED <<pr, ran, overlap>>

(* A review run opens the pull request, once for the candidate.            *)
OpenReview(j) ==
    /\ jobs[j].at = "running" /\ jobs[j].op = "review"
    /\ jobs' = [jobs EXCEPT ![j] = Idle]
    /\ art' \in Promoted({"real"}, TRUE)
    /\ pr' = IF pr = "none" THEN "open" ELSE pr
    /\ UNCHANGED <<ran, overlap>>

(* People merge or close it.                                               *)
Decide ==
    /\ pr = "open"
    /\ pr' \in {"merged", "closed"}
    /\ UNCHANGED <<art, jobs, ran, overlap>>

Next ==
    \/ RerunPublished \/ PlanWritten \/ BundleBuilt
    \/ Decide
    \/ \E j \in Jobs, op \in Ops : Receive(j, op)
    \/ \E j \in Jobs : \/ Refuse(j) \/ Reuse(j) \/ SaveIntent(j)
                       \/ ChooseIntent(j) \/ MarkConsumed(j) \/ IntentGone(j)
                       \/ Run(j) \/ Finish(j) \/ OpenReview(j)

Spec == Init /\ [][Next]_vars

-----------------------------------------------------------------------------
(* Platform approves at most once because of one intent, whatever tabs,    *)
(* lost answers and retries do; an intent can be consumed without success. *)
OneApprovalPerIntent == \A i \in DOMAIN ran : ran[i] <= 1

(* A published read model is of a pull request that was merged, and that   *)
(* was opened after an approval.                                           *)
PublishedWasMerged ==
    art.model = "published" => pr = "merged" /\ art.decision # 0

(* The report of a review execution is kept: neither a dry run nor another *)
(* review replaces it, unless two executions were under way at once.       *)
RealReportStays == [][IsReal(art) /\ ~overlap => art'.promotion = art.promotion]_vars

(* A path that is not finished goes on.  When nothing is under way, an     *)
(* operator who loads the workspace can press a control that the server    *)
(* accepts and that is the next of the path.  Three ends are the code's    *)
(* own: a report the server will not replace, of a failed request or of a  *)
(* review without a pull request; a review that was killed between its two *)
(* reports, which the panel still offers and the server refuses for ever;  *)
(* and a closed review.  And a file of SpecGraph may have to come first.   *)
Moves(a) ==
    CASE Stage(a) = "approval_intent_needed" -> {"intent"}
      [] Stage(a) = "approval_execution_needed" ->
             IF IntentUsable(a) THEN {"approval"} ELSE {"intent"}
      [] Stage(a) = "promotion_request_needed" -> {"request"}
      [] Stage(a) = "promotion_execution_needed" -> {"dryrun", "review"}
      [] Stage(a) = "review_merge_waiting" -> {"status"}
      [] Stage(a) = "read_model_publication_needed" ->
             IF a.status = "merged" THEN {"publish"} ELSE {"status"}
      [] OTHER -> {}
KilledBetween(a) == a.git /\ ~IsReal(a)
Final(a) ==
    \/ a.model = "published" \/ a.request = "failed" \/ KilledBetween(a)
    \/ a.promotion \in {"realfailed", "unopened"} \/ a.status = "closed"
Awaits(a) ==
    \/ Moves(a) = {"request"} /\ ~a.plan
    \/ Moves(a) = {"publish"} /\ ~a.bundle

NeverStuck ==
    (\A j \in Jobs : jobs[j].at = "idle") /\ ~overlap /\ art.ready /\ ~Final(art) /\ ~Awaits(art) =>
        \E op \in Moves(art) : Enabled(art, op) /\ Accepted(art, op)
=============================================================================
