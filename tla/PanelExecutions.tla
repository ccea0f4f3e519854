-------------------------- MODULE PanelExecutions --------------------------
(***************************************************************************)
(* The requests the workspace page sends to the managed endpoints and what *)
(* becomes of their answers while the operator moves between workspaces.   *)
(* Three kinds of flow:                                                    *)
(*   scoped   the two of the initialization: their state names the         *)
(*            workspace, and an answer for another workspace is dropped;   *)
(*   panel    the seven of approval and promotion: their state is the      *)
(*            panel's, and names no workspace;                             *)
(*   section  the five of intake, answers and repair: their state is that  *)
(*            of a section, which goes with the loaded document.           *)
(* Effects run after the page has been drawn, so an answer, a click or     *)
(* another document can come between the drawing and the effects.          *)
(*                                                                         *)
(* The panel is one of the rail's: closing it or choosing another unmounts *)
(* it and with it the state of every flow, while the requests go on; the   *)
(* panel that is opened next knows nothing of them.                        *)
(***************************************************************************)
EXTENDS PanelSections, FiniteSets

CONSTANTS Workspaces, Refs, MaxClicks
ASSUME RefsName == Workspaces \cup {"none", "legacy"} \subseteq Refs

Scoped  == {"prepare", "initialize"}
PanelFlows == {"approve", "promotion_request", "dry_run", "open_review", "confirm",
               "inspect_review", "publish"}
SectionFlows == {"run_intake", "run_continuation", "repair_gate", "repair_rerun",
                 "repair_publish"}
Flows == Scoped \cup PanelFlows \cup SectionFlows

VARIABLES
  opened,     \* whether the panel is mounted
  current,    \* the workspace of the loaded document, "none" while there is none
  planned,    \* the execution request reference its document carries
  seen,       \* selectedWorkspaceStateKeyRef, written by an effect
  slot,       \* the state of every flow: pending, status, ws and, of the
              \* preparation, ref; ws is the workspace only for scoped flows
  wire,       \* requests without an answer yet
  clicks      \* requests sent, up to MaxClicks
execs == <<opened, current, planned, seen, slot, wire, clicks>>

Blank == [pending |-> FALSE, status |-> "none", ws |-> "none", ref |-> "none"]

ExecTypeOK ==
  /\ opened \in BOOLEAN
  /\ current \in Workspaces \cup {"none"} /\ seen \in Workspaces \cup {"none"}
  /\ planned \in Refs /\ clicks \in 0..MaxClicks
  /\ slot \in [Flows -> [pending : BOOLEAN, status : Workspaces \cup {"none", "failed"},
                         ws : Workspaces \cup {"none"}, ref : Refs]]
  /\ \A r \in wire : r.flow \in Flows /\ r.ws \in Workspaces

ExecInit ==
  /\ opened = TRUE /\ current = "none" /\ planned = "none" /\ seen = "none"
  /\ slot = [f \in Flows |-> Blank] /\ wire = {} /\ clicks = 0

\* Fault: the panel is mounted anew for every workspace.
ShowFault(w, ref) ==
  /\ <<current, planned>> # <<w, ref>>
  /\ current' = w /\ planned' = ref
  /\ slot' = IF w = current THEN slot
             ELSE [f \in Flows |-> IF f \in Scoped THEN slot[f] ELSE Blank]
  /\ UNCHANGED <<opened, seen, wire, clicks>>
\* The document of a workspace is loaded, or the page breaks.  Sections leave
\* with the document; the key of the workbench and the layouts make them leave
\* with the workspace too.
Show(w, ref) ==
  /\ <<current, planned>> # <<w, ref>>
  /\ current' = w /\ planned' = ref
  /\ IF w = current THEN UNCHANGED <<slot, wire>>
     ELSE /\ slot' = [f \in Flows |-> IF f \in SectionFlows THEN Blank ELSE slot[f]]
          /\ wire' = {[r EXCEPT !.mounted = (r.flow \notin SectionFlows) /\ @] : r \in wire}
  /\ UNCHANGED <<opened, seen, clicks>>

\* Another panel of the rail is chosen, or this one is closed: the state of
\* every flow is gone, and nobody waits for the answers to its requests.
UnmountPanel ==
  /\ opened /\ opened' = FALSE /\ seen' = "none"
  /\ slot' = [f \in Flows |-> Blank]
  /\ wire' = {[r EXCEPT !.mounted = FALSE] : r \in wire}
  /\ UNCHANGED <<current, planned, clicks>>
\* The panel is mounted anew, its reference at the workspace it is drawn for.
MountPanel ==
  /\ ~opened /\ opened' = TRUE /\ seen' = current
  /\ UNCHANGED <<current, planned, slot, wire, clicks>>

\* The effects of the last drawing: the reference follows the key, and the
\* state of the initialization of another workspace is thrown away.
Stray(f) == current # "none" /\ slot[f].ws \notin {"none", current}
EffectsDue == seen # current \/ \E f \in Scoped : Stray(f)
RunEffects ==
  /\ opened /\ EffectsDue
  /\ seen' = current
  /\ slot' = [f \in Flows |-> IF f \in Scoped /\ Stray(f) THEN Blank ELSE slot[f]]
  /\ UNCHANGED <<opened, current, planned, wire, clicks>>

\* Fault: the state is drawn whichever workspace it is of.
visibleWorkspaceInitializationExecutionStateFault == slot["initialize"]
\* What is drawn of the execution's state.
visibleWorkspaceInitializationExecutionState ==
  IF slot["initialize"].ws = current THEN slot["initialize"] ELSE Blank

ExecutionRef == scopedInitializationExecutionRequestRef(
                  current, planned, slot["prepare"].ws, slot["prepare"].ref)

\* A click sends the request and marks the flow; w is the workspace of the
\* document the click was made in.
Sends(f, ref, cell) ==
  /\ opened /\ current # "none" /\ clicks < MaxClicks
  /\ clicks' = clicks + 1
  /\ wire' = wire \cup {[flow |-> f, ws |-> current, ref |-> ref, mounted |-> TRUE,
                         n |-> clicks]}
  /\ slot' = [slot EXCEPT ![f] = cell]
  /\ UNCHANGED <<opened, current, planned, seen>>

\* The button follows the visible state, the request the whole of it.
executeWorkspaceInitialization ==
  /\ ~visibleWorkspaceInitializationExecutionState.pending /\ ExecutionRef # "none"
  /\ Sends("initialize", ExecutionRef, [Blank EXCEPT !.pending = TRUE, !.ws = current])

\* A second preparation keeps the reference of the first until it is answered.
prepareWorkspaceInitialization ==
  /\ ~slot["prepare"].pending /\ ExecutionRef = "none"
  /\ Sends("prepare", "none",
       [pending |-> TRUE, status |-> "none", ws |-> current,
        ref |-> IF slot["prepare"].ws = current THEN slot["prepare"].ref ELSE "none"])

\* The twelve other flows differ in their endpoint and in the words of their
\* messages.  Their buttons are disabled while the flow is pending.
Executes(f) == ~slot[f].pending /\ Sends(f, "none", [Blank EXCEPT !.pending = TRUE])
executeCandidateApproval == Executes("approve")
executePromotionRequest  == Executes("promotion_request")
executePromotionDryRun   == Executes("dry_run")
executePromotionReview   == Executes("open_review")
authorPromotionReviewConfirmation == Executes("confirm")
executeReviewStatus      == Executes("inspect_review")
executeReadModelPublication == Executes("publish")
runManagedIntakeExecution == Executes("run_intake")
runManagedAnswerContinuationExecution == Executes("run_continuation")
runManagedRequestGate    == Executes("repair_gate")
runManagedRerun          == Executes("repair_rerun")
runManagedPublication    == Executes("repair_publish")

workspacePreparationResponseIsCurrent(requested) == requested = seen

\* An answer, a refusal or a lost connection.  A successful preparation names
\* the request it wrote in the directory of its workspace.
Settled(r, ok) ==
  [pending |-> FALSE, status |-> IF ok THEN r.ws ELSE "failed",
   ws |-> IF r.flow \in Scoped THEN r.ws ELSE "none",
   ref |-> IF r.flow = "prepare" /\ ok THEN r.ws ELSE "none"]
Answer(r, ok) ==
  /\ wire' = wire \ {r}
  /\ slot' = IF /\ r.flow \in Scoped => workspacePreparationResponseIsCurrent(r.ws)
                /\ r.mounted
             THEN [slot EXCEPT ![r.flow] = Settled(r, ok)] ELSE slot
  /\ UNCHANGED <<opened, current, planned, seen, clicks>>

ExecNext ==
  \/ \E w \in Workspaces, ref \in Refs : Show(w, ref)
  \/ Show("none", "none")
  \/ UnmountPanel \/ MountPanel \/ RunEffects
  \/ executeWorkspaceInitialization \/ prepareWorkspaceInitialization
  \/ executeCandidateApproval \/ executePromotionRequest \/ executePromotionDryRun
  \/ executePromotionReview \/ authorPromotionReviewConfirmation
  \/ executeReviewStatus \/ executeReadModelPublication
  \/ runManagedIntakeExecution \/ runManagedAnswerContinuationExecution
  \/ runManagedRequestGate \/ runManagedRerun \/ runManagedPublication
  \/ \E r \in wire, ok \in BOOLEAN : Answer(r, ok)
ExecSpec == ExecInit /\ [][ExecNext]_execs

---------------------------------------------------------------------------

\* The initialization of one workspace never shows or steers another's: what
\* the page shows of an execution was said about the workspace it shows, and a
\* request names a plan of its own workspace or the unscoped one of old
\* deployments, whatever is left of another workspace's preparation.
AnswersStayHome ==
  /\ visibleWorkspaceInitializationExecutionState.status \in {"none", "failed", current}
  /\ \A r \in wire : r.flow = "initialize" => r.ref \in {r.ws, "legacy"}

\* A flow of the panel or of a section is pending exactly while one request is
\* out that the mounted panel or section sent, whichever workspaces and errors
\* came in between: its button neither sends a second one nor stays disabled
\* after the answer.  A panel that was closed and opened again starts anew: the
\* requests of the one before are not counted, and its button offers a second.
OneInFlight ==
  \A f \in PanelFlows \cup SectionFlows :
    Cardinality({r \in wire : r.flow = f /\ r.mounted}) = IF slot[f].pending THEN 1 ELSE 0
=============================================================================
