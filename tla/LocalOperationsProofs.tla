------------------------ MODULE LocalOperationsProofs ------------------------
(***************************************************************************)
(* Proofs about PromotionPath, for any number of handler threads, sessions *)
(* and intents, and about WorkspaceInitialization, for any number of       *)
(* handler threads, workspaces, saves, edits, plans and executions.        *)
(***************************************************************************)
EXTENDS PromotionPath, WorkspaceInitialization, SequenceTheorems, FiniteSetTheorems, TLAPS

Intent == [status: IntentStatus, session: 1..MaxSessions]

(* The saves that are under way.                                           *)
Saving == {k \in Jobs : jobs[k].op = "intent"}

-----------------------------------------------------------------------------
(* Superseding changes the status of intents and nothing else.             *)
LEMMA SupersededIntents ==
    ASSUME NEW s \in Seq(Intent)
    PROVE  /\ Superseded(s) \in Seq(Intent)
           /\ Len(Superseded(s)) = Len(s)
           /\ \A i \in 1..Len(s) : /\ Superseded(s)[i].status # "requested"
                                   /\ s[i].status # "requested" =>
                                         Superseded(s)[i].status = s[i].status
<1>1. DOMAIN s = 1..Len(s) /\ Len(s) \in Nat
  BY LenProperties
<1>2. \A i \in 1..Len(s) : s[i] \in Intent
  BY ElementOfSeq
<1>3. Superseded(s) = [i \in 1..Len(s) |-> IF s[i].status = "requested"
                          THEN [s[i] EXCEPT !.status = "superseded"] ELSE s[i]]
  BY <1>1, Zenon DEF Superseded
<1>4. \A i \in 1..Len(s) : /\ Superseded(s)[i] \in Intent
                           /\ Superseded(s)[i].status # "requested"
                           /\ s[i].status # "requested" =>
                                 Superseded(s)[i].status = s[i].status
  <2>1. TAKE i \in 1..Len(s)
  <2>2. Superseded(s)[i] = IF s[i].status = "requested"
                           THEN [s[i] EXCEPT !.status = "superseded"] ELSE s[i]
    BY <1>3
  <2>3. s[i] \in Intent
    BY <1>2
  <2>4. [s[i] EXCEPT !.status = "superseded"] \in Intent
    BY <2>3 DEF Intent, IntentStatus
  <2>5. [s[i] EXCEPT !.status = "superseded"].status = "superseded"
    BY <2>3 DEF Intent
  <2>. QED BY <2>2, <2>3, <2>4, <2>5
<1>5. Superseded(s) \in [1..Len(s) -> Intent]
  BY <1>3, <1>4
<1>6. Superseded(s) \in Seq(Intent)
  BY <1>1, <1>5, IsASeq
<1>7. Len(Superseded(s)) = Len(s)
  BY <1>1, <1>5, <1>6, LenProperties
<1>. QED BY <1>4, <1>6, <1>7

(* The saves under way are a finite set of threads.                        *)
LEMMA SavingFinite ==
    /\ IsFiniteSet(Saving) /\ IsFiniteSet(Saving')
    /\ Cardinality(Saving) \in Nat /\ Cardinality(Saving') \in Nat
<1>1. Saving \subseteq Jobs /\ Saving' \subseteq Jobs
  BY DEF Saving
<1>2. IsFiniteSet(Saving) /\ IsFiniteSet(Saving')
  BY <1>1, PathAssumption, FS_Subset
<1>. QED BY <1>2, FS_CardinalityType

-----------------------------------------------------------------------------
(* The bound of the intents counts the saves that are under way.           *)
Bounded == Len(art.intents) + Cardinality(Saving) <= MaxIntents

(* A job that waits to run, or runs, has an operation that can.            *)
JobShape == \A j \in Jobs :
    /\ jobs[j].at = "chosen" => jobs[j].op = "approval"
    /\ jobs[j].at = "sent" => jobs[j].op \in Ops
    /\ jobs[j].at = "running" => jobs[j].op \in Ops \ {"intent"}

TypeInv == TypeOK /\ Bounded /\ JobShape

LEMMA ArtifactsType ==
    ASSUME TypeOK
    PROVE  art.intents \in Seq(Intent) /\ Len(art.intents) \in Nat
<1>1. art.intents \in Seq(Intent)
  BY DEF TypeOK, Artifacts, Intent
<1>. QED BY <1>1, LenProperties

(* A step that keeps the intents and starts no save keeps the bound.       *)
LEMMA BoundedKept ==
    ASSUME TypeInv, Len(art'.intents) = Len(art.intents), Saving' \subseteq Saving
    PROVE  Bounded'
<1>1. Cardinality(Saving') <= Cardinality(Saving)
  BY SavingFinite, FS_Subset
<1>. QED BY <1>1, SavingFinite, ArtifactsType, PathAssumption DEF TypeInv, Bounded

(* A step gives a job an operation that can run.                           *)
LEMMA JobShapeStep == TypeOK /\ JobShape /\ [Next]_vars => JobShape'
<1>. SUFFICES ASSUME TypeOK, JobShape, [Next]_vars PROVE JobShape'
  OBVIOUS
<1>. USE DEF TypeOK, JobShape
<1>1. CASE RerunPublished \/ PlanWritten \/ BundleBuilt \/ Decide \/ UNCHANGED vars
  BY <1>1 DEF RerunPublished, PlanWritten, BundleBuilt, Decide, vars
<1>2. ASSUME NEW j \in Jobs, NEW op \in Ops, Receive(j, op) PROVE JobShape'
  BY <1>2 DEF Receive
<1>3. ASSUME NEW j \in Jobs, jobs' = [jobs EXCEPT ![j] = Idle] PROVE JobShape'
  BY <1>3 DEF Idle
<1>4. ASSUME NEW j \in Jobs, ChooseIntent(j) PROVE JobShape'
  BY <1>4 DEF ChooseIntent
<1>5. ASSUME NEW j \in Jobs, MarkConsumed(j) PROVE JobShape'
  BY <1>5 DEF MarkConsumed, Ops
<1>6. ASSUME NEW j \in Jobs, Run(j) PROVE JobShape'
  BY <1>6 DEF Run
<1>. QED
  BY <1>1, <1>2, <1>3, <1>4, <1>5, <1>6
  DEF Next, Refuse, Reuse, SaveIntent, IntentGone, Finish, OpenReview

(* What SpecGraph writes, and what a promotion reports, is a file of its   *)
(* own: the other artifacts stay.                                          *)
LEMMA WrittenOutside ==
    ASSUME art \in Artifacts, PlanWritten \/ BundleBuilt
    PROVE  /\ art' \in Artifacts /\ UNCHANGED <<jobs, pr, ran, overlap>>
           /\ art'.session = art.session /\ art'.intents = art.intents
           /\ art'.approval = art.approval /\ art'.decision = art.decision
           /\ art'.request = art.request /\ art'.promotion = art.promotion
           /\ art'.status = art.status /\ art'.model = art.model
<1>1. art' \in {[art EXCEPT !.plan = TRUE], [art EXCEPT !.bundle = TRUE]}
  BY DEF PlanWritten, BundleBuilt
<1>. QED BY <1>1 DEF Artifacts, PlanWritten, BundleBuilt

LEMMA PromotionReports ==
    ASSUME art \in Artifacts, NEW outcomes, NEW git \in BOOLEAN,
           outcomes \subseteq {"dryfailed", "dry", "realfailed", "unopened", "real"},
           art' \in Promoted(outcomes, git)
    PROVE  /\ art' \in Artifacts /\ art'.promotion \in outcomes \cup {art.promotion}
           /\ art'.session = art.session /\ art'.intents = art.intents
           /\ art'.approval = art.approval /\ art'.decision = art.decision
           /\ art'.request = art.request /\ art'.status = art.status /\ art'.model = art.model
<1>1. PICK p \in outcomes \cup {art.promotion} :
          \/ art' = [art EXCEPT !.promotion = p]
          \/ art' = [art EXCEPT !.promotion = p, !.git = git]
  BY DEF Promoted
<1>2. p \in {"none", "dryfailed", "dry", "realfailed", "unopened", "real"}
  BY DEF Artifacts
<1>3. art' \in Artifacts
  <2>1. CASE art' = [art EXCEPT !.promotion = p]
    BY <1>2, <2>1 DEF Artifacts
  <2>2. CASE art' = [art EXCEPT !.promotion = p, !.git = git]
    BY <1>2, <2>2 DEF Artifacts
  <2>. QED BY <1>1, <2>1, <2>2
<1>4. art'.promotion = p
  BY <1>1 DEF Artifacts
<1>5. /\ art'.session = art.session /\ art'.intents = art.intents
      /\ art'.approval = art.approval /\ art'.decision = art.decision
      /\ art'.request = art.request /\ art'.status = art.status /\ art'.model = art.model
  <2>1. CASE art' = [art EXCEPT !.promotion = p]
    BY <2>1 DEF Artifacts
  <2>2. CASE art' = [art EXCEPT !.promotion = p, !.git = git]
    BY <2>2 DEF Artifacts
  <2>. QED BY <1>1, <2>1, <2>2
<1>. QED BY <1>3, <1>4, <1>5

LEMMA PromotionFinishes ==
    ASSUME TypeOK, NEW j \in Jobs, Finish(j), jobs[j].op \in {"dryrun", "review"}
    PROVE  /\ art' \in Artifacts
           /\ art'.session = art.session /\ art'.intents = art.intents
           /\ art'.approval = art.approval /\ art'.decision = art.decision
           /\ art'.request = art.request /\ art'.status = art.status /\ art'.model = art.model
<1>1. art \in Artifacts /\ art' \in Reports(jobs[j].op) \cup {art}
  BY DEF TypeOK, Finish
<1>2. CASE jobs[j].op = "dryrun" /\ art' # art
  <2>1. art' \in Promoted({"dryfailed", "dry"}, FALSE)
    BY <1>1, <1>2 DEF Reports
  <2>. QED BY <1>1, <2>1, PromotionReports
<1>3. CASE jobs[j].op = "review" /\ art' # art
  <2>1. art' \in Promoted({"realfailed", "unopened"}, TRUE)
    BY <1>1, <1>3 DEF Reports
  <2>. QED BY <1>1, <2>1, PromotionReports
<1>. QED BY <1>1, <1>2, <1>3

(* A review execution that opens the pull request writes reports as well.  *)
LEMMA ReviewOpens ==
    ASSUME TypeOK, NEW j \in Jobs, OpenReview(j)
    PROVE  /\ art' \in Artifacts /\ art'.promotion \in {art.promotion, "real"}
           /\ art'.session = art.session /\ art'.intents = art.intents
           /\ art'.approval = art.approval /\ art'.decision = art.decision
           /\ art'.request = art.request /\ art'.status = art.status /\ art'.model = art.model
<1>1. art \in Artifacts /\ art' \in Promoted({"real"}, TRUE)
  BY DEF TypeOK, OpenReview
<1>. QED BY <1>1, PromotionReports

LEMMA TypeInit == Init => TypeInv
<1>. SUFFICES ASSUME Init PROVE TypeInv
  OBVIOUS
<1>1. << >> \in Seq(Intent) /\ Len(<< >>) = 0
  BY EmptySeq, LenProperties
<1>2. art \in Artifacts /\ art.intents = << >>
  BY <1>1, PathAssumption DEF Init, NewSession, Artifacts, Intent
<1>3. TypeOK
  <2>1. jobs \in [Jobs -> [op: Ops \cup {"none"}, at: {"idle", "sent", "chosen", "running"},
                           intent: 0..MaxIntents]]
    BY PathAssumption DEF Init, Idle
  <2>2. Len(art.intents) <= MaxIntents
    BY <1>1, <1>2, PathAssumption
  <2>3. ran \in [1..MaxIntents -> Nat]
    BY DEF Init
  <2>. QED BY <1>2, <2>1, <2>2, <2>3 DEF Init, TypeOK
<1>4. Saving = {} /\ JobShape
  BY DEF Init, Saving, Idle, JobShape
<1>5. Cardinality({}) = 0
  BY FS_EmptySet
<1>. QED BY <1>1, <1>2, <1>3, <1>4, <1>5, PathAssumption DEF TypeInv, Bounded

LEMMA TypeStep == TypeInv /\ [Next]_vars => TypeInv'
<1>. SUFFICES ASSUME TypeInv, [Next]_vars PROVE TypeOK' /\ Bounded'
  BY JobShapeStep DEF TypeInv
<1>. USE PathAssumption
<1>0. /\ TypeOK /\ Bounded /\ JobShape
      /\ art.intents \in Seq(Intent) /\ Len(art.intents) \in Nat
  BY ArtifactsType DEF TypeInv
<1>1. CASE RerunPublished
  <2>a. PICK ready \in BOOLEAN : art' = [art EXCEPT !.session = @ + 1, !.ready = ready]
    BY <1>1 DEF RerunPublished
  <2>b. art.session + 1 \in 1..MaxSessions
    BY <1>0, <1>1 DEF RerunPublished, TypeOK, Artifacts
  <2>1. art' \in Artifacts /\ art'.intents = art.intents
    BY <1>0, <2>a, <2>b DEF TypeOK, Artifacts
  <2>2. TypeOK'
    BY <1>0, <1>1, <2>1 DEF RerunPublished, TypeOK
  <2>3. Saving' = Saving
    BY <1>1 DEF RerunPublished, Saving
  <2>. QED BY <2>1, <2>2, <2>3, BoundedKept
<1>2. CASE Decide
  <2>1. TypeOK'
    BY <1>0, <1>2 DEF Decide, TypeOK
  <2>. QED BY <1>2, <2>1, BoundedKept DEF Decide, Saving
<1>3. ASSUME NEW j \in Jobs, NEW op \in Ops, Receive(j, op) PROVE TypeOK' /\ Bounded'
  <2>1. TypeOK'
    BY <1>0, <1>3 DEF Receive, TypeOK
  <2>2. CASE op = "intent"
    <3>1. Saving' = Saving \cup {j}
      BY <1>0, <1>3, <2>2 DEF Receive, TypeOK, Saving
    <3>2. Cardinality(Saving') <= Cardinality(Saving) + 1
      BY <3>1, SavingFinite, FS_AddElement
    <3>3. Len(art.intents) + Cardinality(Saving) < MaxIntents
      BY <1>3, <2>2 DEF Receive, Saving
    <3>. QED BY <1>0, <1>3, <2>1, <3>2, <3>3, SavingFinite DEF Receive, Bounded
  <2>3. CASE op # "intent"
    <3>1. Saving' \subseteq Saving
      BY <1>0, <1>3, <2>3 DEF Receive, TypeOK, Saving
    <3>. QED BY <1>3, <2>1, <3>1, BoundedKept DEF Receive
  <2>. QED BY <2>2, <2>3
<1>4. ASSUME NEW j \in Jobs, Refuse(j) \/ Reuse(j) \/ IntentGone(j) PROVE TypeOK' /\ Bounded'
  <2>1. jobs' = [jobs EXCEPT ![j] = Idle] /\ UNCHANGED <<art, pr, ran, overlap>>
    BY <1>4 DEF Refuse, Reuse, IntentGone
  <2>2. TypeOK' /\ Saving' \subseteq Saving
    BY <1>0, <2>1 DEF TypeOK, Idle, Saving
  <2>. QED BY <2>1, <2>2, BoundedKept
<1>5. ASSUME NEW j \in Jobs, SaveIntent(j) PROVE TypeOK' /\ Bounded'
  <2>. DEFINE s == Superseded(art.intents)
              new == [status |-> "requested", session |-> art.session]
  <2>1. new \in Intent
    BY <1>0 DEF TypeOK, Artifacts, Intent, IntentStatus
  <2>2. s \in Seq(Intent) /\ Len(s) = Len(art.intents)
    BY <1>0, SupersededIntents
  <2>3. Append(s, new) \in Seq(Intent) /\ Len(Append(s, new)) = Len(art.intents) + 1
    BY <2>1, <2>2, AppendProperties
  <2>. HIDE DEF s, new
  <2>4. art' = [art EXCEPT !.intents = Append(s, new)]
    BY <1>5 DEF SaveIntent, s, new
  <2>5. art' \in Artifacts /\ art'.intents = Append(s, new)
    BY <1>0, <2>3, <2>4 DEF TypeOK, Artifacts, Intent
  <2>6. jobs' = [jobs EXCEPT ![j] = Idle] /\ j \in Saving
    BY <1>5 DEF SaveIntent, Saving
  <2>7. Saving' = Saving \ {j}
    BY <1>0, <2>6 DEF TypeOK, Saving, Idle
  <2>8. Cardinality(Saving') = Cardinality(Saving) - 1
    BY <2>6, <2>7, SavingFinite, FS_RemoveElement
  <2>9. Len(art'.intents) + Cardinality(Saving') <= MaxIntents
    BY <1>0, <2>3, <2>5, <2>8, SavingFinite DEF Bounded
  <2>10. Len(art'.intents) <= MaxIntents
    BY <1>0, <2>3, <2>5, <2>9, SavingFinite
  <2>11. TypeOK'
    BY <1>0, <1>5, <2>5, <2>6, <2>10 DEF SaveIntent, TypeOK, Idle
  <2>. QED BY <2>9, <2>11 DEF Bounded
<1>6. ASSUME NEW j \in Jobs, ChooseIntent(j) PROVE TypeOK' /\ Bounded'
  <2>1. PICK i \in Requested(art) : jobs' = [jobs EXCEPT ![j].at = "chosen", ![j].intent = i]
    BY <1>6 DEF ChooseIntent
  <2>2. i \in 1..Len(art.intents)
    BY <1>0, <2>1, LenProperties DEF Requested
  <2>3. i \in 0..MaxIntents
    BY <1>0, <2>2 DEF TypeOK
  <2>4. UNCHANGED <<art, pr, ran, overlap>> /\ jobs[j].at = "sent"
    BY <1>6 DEF ChooseIntent
  <2>5. /\ jobs'[j] = [op |-> jobs[j].op, at |-> "chosen", intent |-> i]
        /\ \A k \in Jobs \ {j} : jobs'[k] = jobs[k]
        /\ DOMAIN jobs' = Jobs
    BY <1>0, <2>1 DEF TypeOK
  <2>6. jobs' \in [Jobs -> [op: Ops \cup {"none"}, at: {"idle", "sent", "chosen", "running"},
                            intent: 0..MaxIntents]]
    BY <1>0, <2>1, <2>3 DEF TypeOK
  <2>7. TypeOK'
    BY <1>0, <2>4, <2>6 DEF TypeOK
  <2>8. Saving' \subseteq Saving
    BY <2>5 DEF Saving
  <2>. QED BY <2>4, <2>7, <2>8, BoundedKept
<1>7. ASSUME NEW j \in Jobs, MarkConsumed(j) PROVE TypeOK' /\ Bounded'
  <2>. DEFINE i == jobs[j].intent
              s == [art.intents EXCEPT ![i].status = "consumed"]
  <2>1. art' = [art EXCEPT !.intents = s]
    BY <1>7 DEF MarkConsumed
  <2>2. s \in Seq(Intent) /\ Len(s) = Len(art.intents)
    <3>1. CASE i \in 1..Len(art.intents)
      <4>1. art.intents[i] \in Intent
        BY <1>0, <3>1, ElementOfSeq
      <4>2. [art.intents[i] EXCEPT !.status = "consumed"] \in Intent
        BY <4>1 DEF Intent, IntentStatus
      <4>. QED BY <1>0, <3>1, <4>2, ExceptSeq
    <3>2. CASE i \notin 1..Len(art.intents)
      <4>1. s = art.intents
        BY <1>0, <3>2, LenProperties
      <4>. QED BY <1>0, <4>1
    <3>. QED BY <3>1, <3>2
  <2>. HIDE DEF s
  <2>3. art' \in Artifacts /\ art'.intents = s
    BY <1>0, <2>1, <2>2 DEF TypeOK, Artifacts, Intent
  <2>a. ran' \in [1..MaxIntents -> Nat]
    <3>1. ran \in [1..MaxIntents -> Nat] /\ ran' = [ran EXCEPT ![i] = @ + 1]
      BY <1>0, <1>7 DEF MarkConsumed, TypeOK
    <3>2. i \in 1..MaxIntents => ran[i] + 1 \in Nat
      BY <3>1
    <3>. QED BY <3>1, <3>2
  <2>b. jobs' \in [Jobs -> [op: Ops \cup {"none"}, at: {"idle", "sent", "chosen", "running"},
                            intent: 0..MaxIntents]]
    BY <1>0, <1>7 DEF MarkConsumed, TypeOK
  <2>4. TypeOK' /\ Saving' \subseteq Saving
    BY <1>0, <1>7, <2>2, <2>3, <2>a, <2>b DEF MarkConsumed, TypeOK, Saving
  <2>. QED BY <2>2, <2>3, <2>4, BoundedKept
<1>8. ASSUME NEW j \in Jobs, Run(j) PROVE TypeOK' /\ Bounded'
  <2>1. TypeOK' /\ Saving' \subseteq Saving
    BY <1>0, <1>8 DEF Run, TypeOK, Saving
  <2>. QED BY <1>8, <2>1, BoundedKept DEF Run
<1>9. ASSUME NEW j \in Jobs, Finish(j) PROVE TypeOK' /\ Bounded'
  <2>1. art' \in Artifacts /\ art'.intents = art.intents
    <3>1. jobs[j].op \in Ops \ {"intent"} /\ art' \in Reports(jobs[j].op) \cup {art}
      BY <1>0, <1>9 DEF Finish, JobShape
    <3>2. CASE jobs[j].op = "approval"
      <4>1. \/ art' = art \/ art' = [art EXCEPT !.approval = "failed"]
            \/ art' = [art EXCEPT !.approval = "ok", !.decision = art.session]
        BY <3>1, <3>2 DEF Reports
      <4>2. art.session \in 0..MaxSessions
        BY <1>0 DEF TypeOK, Artifacts
      <4>. QED BY <1>0, <4>1, <4>2 DEF TypeOK, Artifacts
    <3>3. CASE jobs[j].op = "request"
      <4>1. art' = art \/ \E r \in {"failed", "ready"} : art' = [art EXCEPT !.request = r]
        BY <1>0, <3>1, <3>3 DEF Reports, TypeOK
      <4>. QED BY <1>0, <4>1 DEF TypeOK, Artifacts
    <3>4. CASE jobs[j].op \in {"dryrun", "review"}
      BY <1>0, <1>9, <3>4, PromotionFinishes
    <3>6. CASE jobs[j].op = "status"
      <4>1. art' = art \/ \E r \in {"failed", "probe", "open", "closed", "merged"} : art' = [art EXCEPT !.status = r]
        BY <1>0, <3>1, <3>6 DEF Reports, TypeOK
      <4>. QED BY <1>0, <4>1 DEF TypeOK, Artifacts
    <3>7. CASE jobs[j].op = "publish"
      <4>1. art' = art \/ \E r \in {"failed", "published"} : art' = [art EXCEPT !.model = r]
        BY <1>0, <3>1, <3>7 DEF Reports, TypeOK
      <4>. QED BY <1>0, <4>1 DEF TypeOK, Artifacts
    <3>. QED BY <3>1, <3>2, <3>3, <3>4, <3>6, <3>7 DEF Ops
  <2>2. TypeOK' /\ Saving' \subseteq Saving
    BY <1>0, <1>9, <2>1 DEF Finish, TypeOK, Saving, Idle
  <2>. QED BY <2>1, <2>2, BoundedKept
<1>10. ASSUME NEW j \in Jobs, OpenReview(j) PROVE TypeOK' /\ Bounded'
  <2>1. art' \in Artifacts /\ art'.intents = art.intents
    BY <1>0, <1>10, ReviewOpens
  <2>2. TypeOK' /\ Saving' \subseteq Saving
    BY <1>0, <1>10, <2>1 DEF OpenReview, TypeOK, Saving, Idle
  <2>. QED BY <2>1, <2>2, BoundedKept
<1>11. CASE UNCHANGED vars
  BY <1>11, <1>0 DEF vars, TypeOK, Bounded, Saving
<1>12. CASE PlanWritten \/ BundleBuilt
  <2>1. /\ art' \in Artifacts /\ art'.intents = art.intents
        /\ UNCHANGED <<jobs, pr, ran, overlap>>
    BY <1>0, <1>12, WrittenOutside DEF TypeOK
  <2>2. TypeOK' /\ Saving' = Saving
    BY <1>0, <2>1 DEF TypeOK, Saving
  <2>. QED BY <2>1, <2>2, BoundedKept
<1>. QED
  BY <1>1, <1>2, <1>3, <1>4, <1>5, <1>6, <1>7, <1>8, <1>9, <1>10, <1>11, <1>12 DEF Next

(* The values of the variables, for every number of threads and intents.   *)
THEOREM TypeCorrect == Spec => []TypeOK
<1>1. TypeInv => TypeOK
  BY DEF TypeInv
<1>. QED BY <1>1, TypeInit, TypeStep, PTL DEF Spec

-----------------------------------------------------------------------------
(* An intent that is active, or not saved yet, has led to no approval; a   *)
(* job that chose an intent chose one that exists.                         *)
OneInv ==
    /\ \A i \in 1..MaxIntents :
           /\ ran[i] <= 1
           /\ i > Len(art.intents) => ran[i] = 0
           /\ i <= Len(art.intents) /\ art.intents[i].status = "requested" => ran[i] = 0
    /\ \A j \in Jobs : jobs[j].at = "chosen" => jobs[j].intent \in 1..Len(art.intents)

(* What Platform reports leaves the intents, and only a promotion changes  *)
(* the report of the promotion.                                            *)
LEMMA FinishKeepsIntents ==
    ASSUME TypeOK, JobShape, NEW j \in Jobs, Finish(j)
    PROVE  art'.intents = art.intents
<1>1. /\ jobs[j].op \in Ops \ {"intent"} /\ art' \in Reports(jobs[j].op) \cup {art}
      /\ art \in Artifacts
  BY DEF Finish, JobShape, TypeOK
<1>2. CASE jobs[j].op \in {"dryrun", "review"}
  BY <1>2, PromotionFinishes
<1>3. CASE jobs[j].op \notin {"dryrun", "review"}
  <2>1. \/ art' = art \/ art' = [art EXCEPT !.approval = "failed"]
        \/ art' = [art EXCEPT !.approval = "ok", !.decision = art.session]
        \/ \E r : \/ art' = [art EXCEPT !.request = r]
                  \/ art' = [art EXCEPT !.status = r]
                  \/ art' = [art EXCEPT !.model = r]
    BY <1>1, <1>3 DEF Reports, Ops
  <2>. QED BY <1>1, <2>1 DEF Artifacts
<1>. QED BY <1>2, <1>3

LEMMA OtherReports ==
    ASSUME TypeOK, JobShape, NEW j \in Jobs, Finish(j), jobs[j].op \notin {"dryrun", "review"}
    PROVE  art'.promotion = art.promotion
<1>1. /\ jobs[j].op \in Ops \ {"intent", "dryrun", "review"}
      /\ art' \in Reports(jobs[j].op) \cup {art} /\ art \in Artifacts
  BY DEF Finish, JobShape, TypeOK
<1>2. \/ art' = art \/ art' = [art EXCEPT !.approval = "failed"]
      \/ art' = [art EXCEPT !.approval = "ok", !.decision = art.session]
      \/ \E r : \/ art' = [art EXCEPT !.request = r]
                \/ art' = [art EXCEPT !.status = r]
                \/ art' = [art EXCEPT !.model = r]
  BY <1>1 DEF Reports, Ops
<1>. QED BY <1>1, <1>2 DEF Artifacts

(* Nothing else changes the intents or the approvals.                      *)
LEMMA OneKept ==
    ASSUME TypeInv, OneInv, art'.intents = art.intents, ran' = ran,
           \A j \in Jobs : jobs'[j].at = "chosen" =>
               jobs[j].at = "chosen" /\ jobs'[j].intent = jobs[j].intent
    PROVE  OneInv'
BY DEF OneInv

LEMMA OneStep == TypeInv /\ OneInv /\ [Next]_vars => OneInv'
<1>. SUFFICES ASSUME TypeInv, OneInv, [Next]_vars PROVE OneInv'
  OBVIOUS
<1>0. /\ TypeOK /\ art.intents \in Seq(Intent) /\ Len(art.intents) \in Nat
      /\ Len(art.intents) <= MaxIntents /\ PathAssumption /\ art \in Artifacts
      /\ JobShape
  BY ArtifactsType, PathAssumption DEF TypeInv, TypeOK
<1>1. CASE RerunPublished
  BY <1>0, <1>1, OneKept DEF RerunPublished, Artifacts
<1>2. CASE Decide \/ UNCHANGED vars
  BY <1>2, OneKept DEF Decide, vars
<1>3. ASSUME NEW j \in Jobs, NEW op \in Ops, Receive(j, op) PROVE OneInv'
  BY <1>0, <1>3, OneKept DEF Receive, TypeOK
<1>4. ASSUME NEW j \in Jobs, Refuse(j) \/ Reuse(j) \/ IntentGone(j) PROVE OneInv'
  <2>1. jobs' = [jobs EXCEPT ![j] = Idle] /\ UNCHANGED <<art, ran>>
    BY <1>4 DEF Refuse, Reuse, IntentGone
  <2>. QED BY <1>0, <2>1, OneKept DEF Idle, TypeOK
<1>5. ASSUME NEW j \in Jobs, SaveIntent(j) PROVE OneInv'
  <2>. DEFINE s == Superseded(art.intents)
              new == [status |-> "requested", session |-> art.session]
  <2>1. new \in Intent
    BY <1>0 DEF Artifacts, Intent, IntentStatus
  <2>2. /\ s \in Seq(Intent) /\ Len(s) = Len(art.intents)
        /\ \A i \in 1..Len(art.intents) : s[i].status # "requested"
    BY <1>0, SupersededIntents
  <2>. HIDE DEF s
  <2>3. /\ Len(Append(s, new)) = Len(art.intents) + 1
        /\ \A i \in 1..Len(art.intents) : Append(s, new)[i] = s[i]
    BY <2>1, <2>2, AppendProperties
  <2>. HIDE DEF new
  <2>4. art'.intents = Append(s, new) /\ ran' = ran
    BY <1>0, <1>5 DEF SaveIntent, Artifacts, s, new
  <2>5. \A i \in 1..MaxIntents :
            /\ ran'[i] <= 1
            /\ i > Len(art'.intents) => ran'[i] = 0
            /\ i <= Len(art'.intents) /\ art'.intents[i].status = "requested" => ran'[i] = 0
    BY <1>0, <2>2, <2>3, <2>4 DEF OneInv
  <2>6. \A k \in Jobs : jobs'[k].at = "chosen" => jobs'[k].intent \in 1..Len(art'.intents)
    BY <1>0, <1>5, <2>3, <2>4 DEF OneInv, SaveIntent, TypeOK, Idle
  <2>. QED BY <2>5, <2>6 DEF OneInv
<1>6. ASSUME NEW j \in Jobs, ChooseIntent(j) PROVE OneInv'
  <2>1. PICK i \in Requested(art) : jobs' = [jobs EXCEPT ![j].at = "chosen", ![j].intent = i]
    BY <1>6 DEF ChooseIntent
  <2>2. i \in 1..Len(art.intents)
    BY <1>0, <2>1, LenProperties DEF Requested
  <2>. QED BY <1>0, <1>6, <2>1, <2>2 DEF ChooseIntent, OneInv, TypeOK
<1>7. ASSUME NEW j \in Jobs, MarkConsumed(j) PROVE OneInv'
  <2>. DEFINE c == jobs[j].intent
              s == [art.intents EXCEPT ![c].status = "consumed"]
  <2>1. c \in 1..Len(art.intents) /\ art.intents[c].status = "requested"
    BY <1>7 DEF MarkConsumed, OneInv
  <2>2. art'.intents = s
    BY <1>0, <1>7 DEF MarkConsumed, Artifacts
  <2>3. DOMAIN art.intents = 1..Len(art.intents) /\ art.intents[c] \in Intent
    BY <1>0, <2>1, LenProperties, ElementOfSeq
  <2>4. s = [art.intents EXCEPT ![c] = [art.intents[c] EXCEPT !.status = "consumed"]]
    OBVIOUS
  <2>5. [art.intents[c] EXCEPT !.status = "consumed"] \in Intent
    BY <2>3 DEF Intent, IntentStatus
  <2>6. Len(s) = Len(art.intents)
    BY <1>0, <2>1, <2>4, <2>5, ExceptSeq
  <2>7. /\ s[c].status = "consumed"
        /\ \A i \in 1..Len(art.intents) : i # c => s[i] = art.intents[i]
    BY <2>1, <2>3 DEF Intent
  <2>. HIDE DEF s
  <2>8. ran \in [1..MaxIntents -> Nat] /\ ran' = [ran EXCEPT ![c] = @ + 1]
    BY <1>0, <1>7 DEF MarkConsumed, TypeOK
  <2>9. c \in 1..MaxIntents /\ ran[c] = 0
    BY <1>0, <2>1 DEF OneInv
  <2>10. \A i \in 1..MaxIntents :
            /\ ran'[i] <= 1
            /\ i > Len(s) => ran'[i] = 0
            /\ i <= Len(s) /\ s[i].status = "requested" => ran'[i] = 0
    <3>1. TAKE i \in 1..MaxIntents
    <3>2. CASE i = c
      BY <1>0, <2>1, <2>6, <2>7, <2>8, <2>9, <3>2
    <3>3. CASE i # c
      <4>1. ran'[i] = ran[i]
        BY <2>8, <3>3
      <4>2. i <= Len(s) => s[i] = art.intents[i]
        BY <1>0, <2>6, <2>7, <3>3
      <4>. QED BY <2>6, <4>1, <4>2 DEF OneInv
    <3>. QED BY <3>2, <3>3
  <2>11. \A k \in Jobs : jobs'[k].at = "chosen" => jobs'[k].intent \in 1..Len(s)
    BY <1>0, <1>7, <2>6 DEF OneInv, MarkConsumed, TypeOK
  <2>. QED BY <2>2, <2>10, <2>11 DEF OneInv
<1>8. ASSUME NEW j \in Jobs, Run(j) PROVE OneInv'
  BY <1>0, <1>8, OneKept DEF Run, TypeOK
<1>9. ASSUME NEW j \in Jobs, Finish(j) PROVE OneInv'
  <2>1. art'.intents = art.intents
    BY <1>0, <1>9, FinishKeepsIntents
  <2>. QED BY <1>0, <1>9, <2>1, OneKept DEF Finish, TypeOK, Idle
<1>10. ASSUME NEW j \in Jobs, OpenReview(j) PROVE OneInv'
  <2>1. art'.intents = art.intents
    BY <1>0, <1>10, ReviewOpens
  <2>. QED BY <1>0, <1>10, <2>1, OneKept DEF OpenReview, TypeOK, Idle
<1>11. CASE PlanWritten \/ BundleBuilt
  BY <1>0, <1>11, WrittenOutside, OneKept
<1>. QED
  BY <1>1, <1>2, <1>3, <1>4, <1>5, <1>6, <1>7, <1>8, <1>9, <1>10, <1>11 DEF Next

(* Platform approves at most once because of one intent, whatever the      *)
(* number of tabs, handler threads and lost answers.                       *)
THEOREM OneApproval == Spec => []OneApprovalPerIntent
<1>1. Init => OneInv
  <2>. SUFFICES ASSUME Init PROVE OneInv
    OBVIOUS
  <2>1. art.intents = << >> /\ Len(<< >>) = 0
    BY EmptySeq DEF Init, NewSession
  <2>. QED BY <2>1, PathAssumption DEF Init, OneInv, Idle
<1>2. TypeInv /\ OneInv => OneApprovalPerIntent
  BY DEF TypeInv, TypeOK, OneInv, OneApprovalPerIntent
<1>. QED BY <1>1, <1>2, TypeInit, TypeStep, OneStep, PTL DEF Spec

-----------------------------------------------------------------------------
(* As long as promotions did not overlap one at most runs, and none runs   *)
(* when the report of a review execution is there.                         *)
AloneInv ==
    ~overlap => /\ \A j, k \in Promoting : j = k
                /\ IsReal(art) => Promoting = {}

LEMMA AloneStep == TypeInv /\ AloneInv /\ [Next]_vars => AloneInv'
<1>. SUFFICES ASSUME TypeOK, JobShape, AloneInv, [Next]_vars PROVE AloneInv'
  BY DEF TypeInv
<1>0. art \in Artifacts
  BY DEF TypeOK
<1>1. CASE RerunPublished
  BY <1>0, <1>1 DEF RerunPublished, AloneInv, Promoting, IsReal, Artifacts
<1>2. CASE Decide \/ UNCHANGED vars
  BY <1>2 DEF Decide, vars, AloneInv, Promoting, IsReal
<1>3. ASSUME NEW j \in Jobs, NEW op \in Ops, Receive(j, op) PROVE AloneInv'
  <2>1. Promoting' = Promoting
    BY <1>3 DEF Receive, Promoting, TypeOK
  <2>. QED BY <1>3, <2>1 DEF Receive, AloneInv, IsReal
<1>4. ASSUME NEW j \in Jobs, jobs' = [jobs EXCEPT ![j] = Idle], UNCHANGED <<art, overlap>>
      PROVE  AloneInv'
  <2>1. Promoting' \subseteq Promoting
    BY <1>4 DEF Promoting, TypeOK, Idle
  <2>. QED BY <1>4, <2>1 DEF AloneInv, IsReal
<1>5. ASSUME NEW j \in Jobs, SaveIntent(j) PROVE AloneInv'
  <2>1. Promoting' \subseteq Promoting
    BY <1>5 DEF SaveIntent, Promoting, TypeOK, Idle
  <2>2. art'.promotion = art.promotion
    BY <1>0, <1>5 DEF SaveIntent, Artifacts
  <2>. QED BY <1>5, <2>1, <2>2 DEF SaveIntent, AloneInv, IsReal
<1>6. ASSUME NEW j \in Jobs, ChooseIntent(j) PROVE AloneInv'
  <2>1. Promoting' = Promoting
    BY <1>6 DEF ChooseIntent, Promoting, TypeOK
  <2>. QED BY <1>6, <2>1 DEF ChooseIntent, AloneInv, IsReal
<1>7. ASSUME NEW j \in Jobs, MarkConsumed(j) PROVE AloneInv'
  <2>1. Promoting' = Promoting
    BY <1>7 DEF MarkConsumed, Promoting, TypeOK, JobShape
  <2>2. art'.promotion = art.promotion
    BY <1>0, <1>7 DEF MarkConsumed, Artifacts
  <2>. QED BY <1>7, <2>1, <2>2 DEF MarkConsumed, AloneInv, IsReal
<1>8. ASSUME NEW j \in Jobs, Run(j) PROVE AloneInv'
  <2>1. CASE jobs[j].op \in {"dryrun", "review"}
    <3>1. Promoting' = Promoting \cup {j}
      BY <1>8, <2>1 DEF Run, Promoting, TypeOK
    <3>2. ~overlap' => Promoting = {}
      BY <1>8, <2>1 DEF Run
    <3>3. ~IsReal(art)
      BY <1>8, <2>1 DEF Run, Accepted, Reused, DryRunAccepted, ReviewAccepted, IsReal
    <3>. QED BY <1>8, <3>1, <3>2, <3>3 DEF Run, AloneInv, IsReal
  <2>2. CASE jobs[j].op \notin {"dryrun", "review"}
    <3>1. Promoting' = Promoting
      BY <1>8, <2>2 DEF Run, Promoting, TypeOK
    <3>. QED BY <1>8, <2>2, <3>1 DEF Run, AloneInv, IsReal
  <2>. QED BY <2>1, <2>2
<1>9. ASSUME NEW j \in Jobs, Finish(j) \/ OpenReview(j) PROVE AloneInv'
  <2>1. jobs' = [jobs EXCEPT ![j] = Idle] /\ jobs[j].at = "running" /\ overlap' = overlap
    BY <1>9 DEF Finish, OpenReview
  <2>2. Promoting' = Promoting \ {j}
    BY <2>1 DEF Promoting, TypeOK, Idle
  <2>3. CASE jobs[j].op \in {"dryrun", "review"}
    <3>1. j \in Promoting
      BY <2>1, <2>3 DEF Promoting
    <3>2. ~overlap => Promoting' = {}
      BY <2>2, <3>1 DEF AloneInv
    <3>. QED BY <2>1, <3>2 DEF AloneInv
  <2>4. CASE jobs[j].op \notin {"dryrun", "review"}
    <3>1. art'.promotion = art.promotion
      BY <1>0, <1>9, <2>4, OtherReports DEF OpenReview
    <3>. QED BY <2>1, <2>2, <3>1 DEF AloneInv, IsReal
  <2>. QED BY <2>3, <2>4
<1>10. CASE PlanWritten \/ BundleBuilt
  BY <1>0, <1>10, WrittenOutside DEF AloneInv, Promoting, IsReal
<1>. QED
  BY <1>1, <1>2, <1>3, <1>4, <1>5, <1>6, <1>7, <1>8, <1>9, <1>10
  DEF Next, Refuse, Reuse, IntentGone

(* The report of a review execution is kept while promotions do not        *)
(* overlap, whatever else is asked for and however often.                  *)
LEMMA RealStep ==
    TypeInv /\ AloneInv /\ [Next]_vars =>
        [IsReal(art) /\ ~overlap => art'.promotion = art.promotion]_vars
<1>. SUFFICES ASSUME TypeOK, JobShape, AloneInv, [Next]_vars, IsReal(art), ~overlap
              PROVE  art'.promotion = art.promotion
  BY DEF TypeInv
<1>0. art \in Artifacts /\ Promoting = {}
  BY DEF TypeOK, AloneInv
<1>1. ASSUME NEW j \in Jobs, Finish(j) PROVE art'.promotion = art.promotion
  <2>1. jobs[j].op \notin {"dryrun", "review"}
    BY <1>0, <1>1 DEF Finish, Promoting
  <2>. QED BY <1>1, <2>1, OtherReports
<1>2. ASSUME NEW j \in Jobs PROVE ~OpenReview(j)
  BY <1>0 DEF OpenReview, Promoting
<1>3. CASE RerunPublished
  BY <1>0, <1>3 DEF RerunPublished, Artifacts
<1>4. ASSUME NEW j \in Jobs, SaveIntent(j) \/ MarkConsumed(j)
      PROVE  art'.promotion = art.promotion
  BY <1>0, <1>4 DEF SaveIntent, MarkConsumed, Artifacts
<1>5. CASE PlanWritten \/ BundleBuilt
  BY <1>0, <1>5, WrittenOutside
<1>. QED
  BY <1>1, <1>2, <1>3, <1>4, <1>5
  DEF Next, vars, Decide, Receive, Refuse, Reuse, ChooseIntent, IntentGone, Run

THEOREM RealReportKept == Spec => RealReportStays
<1>1. Init => AloneInv
  BY DEF Init, AloneInv, Promoting, Idle, IsReal, NewSession
<1>. QED BY <1>1, TypeInit, TypeStep, AloneStep, RealStep, PTL DEF Spec, RealReportStays

-----------------------------------------------------------------------------
(* What is known of the pull request when a step towards the publication   *)
(* is taken, and stays true because a merge is final.                      *)
MergeInv ==
    /\ art.status = "merged" => pr = "merged"
    /\ art.model = "published" => pr = "merged"
    /\ pr # "none" => art.decision # 0
    /\ \A j \in Jobs : jobs[j].at = "running" =>
           /\ jobs[j].op = "publish" => pr = "merged"
           /\ jobs[j].op = "review" => art.decision # 0

LEMMA MergeStep == TypeInv /\ MergeInv /\ [Next]_vars => MergeInv'
<1>. SUFFICES ASSUME TypeOK, JobShape, MergeInv, [Next]_vars PROVE MergeInv'
  BY DEF TypeInv
<1>. USE DEF MergeInv
<1>0. art \in Artifacts /\ art.session # 0
  BY PathAssumption DEF TypeOK, Artifacts
<1>1. CASE RerunPublished
  BY <1>0, <1>1 DEF RerunPublished, Artifacts
<1>2. CASE Decide \/ UNCHANGED vars
  BY <1>2 DEF Decide, vars
<1>3. ASSUME NEW j \in Jobs, NEW op \in Ops, Receive(j, op) PROVE MergeInv'
  BY <1>3 DEF Receive, TypeOK
<1>4. ASSUME NEW j \in Jobs, jobs' = [jobs EXCEPT ![j] = Idle], UNCHANGED <<art, pr>>
      PROVE  MergeInv'
  BY <1>4 DEF TypeOK, Idle
<1>5. ASSUME NEW j \in Jobs, SaveIntent(j) PROVE MergeInv'
  BY <1>0, <1>5 DEF SaveIntent, TypeOK, Artifacts, Idle
<1>6. ASSUME NEW j \in Jobs, ChooseIntent(j) PROVE MergeInv'
  BY <1>6 DEF ChooseIntent, TypeOK
<1>7. ASSUME NEW j \in Jobs, MarkConsumed(j) PROVE MergeInv'
  BY <1>0, <1>7 DEF MarkConsumed, TypeOK, Artifacts, JobShape
<1>8. ASSUME NEW j \in Jobs, Run(j) PROVE MergeInv'
  <2>1. jobs[j].op = "publish" => pr = "merged"
    BY <1>8 DEF Run, Accepted, PublishAccepted
  <2>2. jobs[j].op = "review" => art.decision # 0
    BY <1>8 DEF Run, Accepted, ReviewAccepted
  <2>. QED BY <1>8, <2>1, <2>2 DEF Run, TypeOK
<1>9. ASSUME NEW j \in Jobs, Finish(j) PROVE MergeInv'
  <2>1. /\ jobs[j].op \in Ops \ {"intent"} /\ jobs[j].at = "running"
        /\ art' \in Reports(jobs[j].op) \cup {art}
        /\ jobs' = [jobs EXCEPT ![j] = Idle] /\ pr' = pr
    BY <1>9 DEF Finish, JobShape
  <2>0. CASE jobs[j].op \in {"dryrun", "review"}
    <3>1. /\ art'.status = art.status /\ art'.model = art.model
          /\ art'.decision = art.decision
      BY <1>9, <2>0, PromotionFinishes
    <3>. QED BY <2>1, <3>1 DEF TypeOK, Idle
  <2>. SUFFICES ASSUME jobs[j].op \notin {"dryrun", "review"} PROVE MergeInv'
    BY <2>0
  <2>a. jobs[j].op \in Ops \ {"intent", "dryrun", "review"}
    BY <2>1
  <2>2. art'.status = "merged" => pr = "merged"
    <3>1. CASE jobs[j].op = "status"
      <4>1. art' = art \/ \E r \in {"failed", "probe", pr} \ {"none"} :
                              art' = [art EXCEPT !.status = r]
        BY <2>1, <3>1 DEF Reports
      <4>. QED BY <1>0, <4>1 DEF Artifacts
    <3>2. CASE jobs[j].op # "status"
      <4>1. \/ art' = art \/ art' = [art EXCEPT !.approval = "failed"]
            \/ art' = [art EXCEPT !.approval = "ok", !.decision = art.session]
            \/ \E r : \/ art' = [art EXCEPT !.request = r]
                      \/ art' = [art EXCEPT !.model = r]
        BY <2>1, <2>a, <3>2 DEF Reports, Ops
      <4>. QED BY <1>0, <4>1 DEF Artifacts
    <3>. QED BY <3>1, <3>2
  <2>3. art'.model = "published" => pr = "merged"
    <3>1. CASE jobs[j].op = "publish"
      BY <2>1, <3>1
    <3>2. CASE jobs[j].op # "publish"
      <4>1. \/ art' = art \/ art' = [art EXCEPT !.approval = "failed"]
            \/ art' = [art EXCEPT !.approval = "ok", !.decision = art.session]
            \/ \E r : \/ art' = [art EXCEPT !.request = r]
                      \/ art' = [art EXCEPT !.status = r]
        BY <2>1, <2>a, <3>2 DEF Reports, Ops
      <4>. QED BY <1>0, <4>1 DEF Artifacts
    <3>. QED BY <3>1, <3>2
  <2>4. art.decision # 0 => art'.decision # 0
    <3>1. \/ art' = art \/ art' = [art EXCEPT !.approval = "failed"]
          \/ art' = [art EXCEPT !.approval = "ok", !.decision = art.session]
          \/ \E r : \/ art' = [art EXCEPT !.request = r]
                    \/ art' = [art EXCEPT !.status = r]
                    \/ art' = [art EXCEPT !.model = r]
      BY <2>1, <2>a DEF Reports, Ops
    <3>. QED BY <1>0, <3>1 DEF Artifacts
  <2>. QED BY <2>1, <2>2, <2>3, <2>4 DEF TypeOK, Idle
<1>10. ASSUME NEW j \in Jobs, OpenReview(j) PROVE MergeInv'
  <2>1. /\ art'.status = art.status /\ art'.model = art.model
        /\ art'.decision = art.decision /\ art.decision # 0
    <3>1. art.decision # 0
      BY <1>10 DEF OpenReview
    <3>. QED BY <1>10, <3>1, ReviewOpens
  <2>. QED BY <1>10, <2>1 DEF OpenReview, TypeOK, Idle
<1>11. CASE PlanWritten \/ BundleBuilt
  BY <1>0, <1>11, WrittenOutside
<1>. QED
  BY <1>1, <1>2, <1>3, <1>4, <1>5, <1>6, <1>7, <1>8, <1>9, <1>10, <1>11
  DEF Next, Refuse, Reuse, IntentGone

(* What is published was merged, and was approved before it was opened.    *)
THEOREM PublishedMerged == Spec => []PublishedWasMerged
<1>1. Init => MergeInv
  BY DEF Init, MergeInv, NewSession, Idle
<1>2. MergeInv => PublishedWasMerged
  BY DEF MergeInv, PublishedWasMerged
<1>. QED BY <1>1, <1>2, TypeInit, TypeStep, MergeStep, PTL DEF Spec

-----------------------------------------------------------------------------
(* What each report of the path presupposes: no step is taken before the   *)
(* one in front of it has left something.  Once a review status is there   *)
(* the promotion was a real one, as long as promotions did not overlap.    *)
PathInv ==
    /\ art.request # "none" => art.decision # 0
    /\ art.promotion # "none" => art.request # "none"
    /\ art.model # "none" => art.status # "none"
    /\ art.approval = "ok" => art.decision # 0
    /\ ~overlap /\ art.status # "none" => art.promotion = "real"
    /\ \A j \in Jobs : jobs[j].at = "running" =>
           /\ jobs[j].op = "request" => art.decision # 0
           /\ jobs[j].op \in {"dryrun", "review"} => art.request # "none"
           /\ jobs[j].op = "publish" => art.status # "none"
           /\ jobs[j].op = "status" /\ ~overlap => art.promotion = "real"

LEMMA PathStep == TypeInv /\ AloneInv /\ PathInv /\ [Next]_vars => PathInv'
<1>. SUFFICES ASSUME TypeOK, JobShape, AloneInv, PathInv, [Next]_vars PROVE PathInv'
  BY DEF TypeInv
<1>. USE DEF PathInv
<1>0. art \in Artifacts /\ art.session # 0
  BY PathAssumption DEF TypeOK, Artifacts
<1>1. CASE RerunPublished
  BY <1>0, <1>1 DEF RerunPublished, Artifacts
<1>2. CASE Decide \/ UNCHANGED vars
  BY <1>2 DEF Decide, vars
<1>3. ASSUME NEW j \in Jobs, NEW op \in Ops, Receive(j, op) PROVE PathInv'
  BY <1>3 DEF Receive, TypeOK
<1>4. ASSUME NEW j \in Jobs, jobs' = [jobs EXCEPT ![j] = Idle], UNCHANGED <<art, overlap>>
      PROVE  PathInv'
  BY <1>4 DEF TypeOK, Idle
<1>5. ASSUME NEW j \in Jobs, SaveIntent(j) PROVE PathInv'
  BY <1>0, <1>5 DEF SaveIntent, TypeOK, Artifacts, Idle
<1>6. ASSUME NEW j \in Jobs, ChooseIntent(j) PROVE PathInv'
  BY <1>6 DEF ChooseIntent, TypeOK
<1>7. ASSUME NEW j \in Jobs, MarkConsumed(j) PROVE PathInv'
  BY <1>0, <1>7 DEF MarkConsumed, TypeOK, Artifacts, JobShape
<1>8. ASSUME NEW j \in Jobs, Run(j) PROVE PathInv'
  <2>1. /\ jobs[j].op = "request" => art.decision # 0
        /\ jobs[j].op \in {"dryrun", "review"} => art.request # "none"
        /\ jobs[j].op = "publish" => art.status # "none"
        /\ jobs[j].op = "status" => art.promotion = "real"
    BY <1>8 DEF Run, Accepted, RequestAccepted, DryRunAccepted, ReviewAccepted,
                PublishAccepted, StatusAccepted
  <2>. QED BY <1>8, <2>1 DEF Run, TypeOK
<1>9. ASSUME NEW j \in Jobs, Finish(j) PROVE PathInv'
  <2>1. /\ jobs[j].op \in Ops \ {"intent"} /\ jobs[j].at = "running"
        /\ art' \in Reports(jobs[j].op) \cup {art}
        /\ jobs' = [jobs EXCEPT ![j] = Idle] /\ overlap' = overlap
    BY <1>9 DEF Finish, JobShape
  <2>2. \A k \in Jobs : jobs'[k].at = "running" => jobs'[k] = jobs[k] /\ k # j
    BY <2>1 DEF TypeOK, Idle
  <2>3. CASE jobs[j].op \notin {"dryrun", "review"}
    <3>1. \/ art' = art
          \/ /\ jobs[j].op = "approval"
             /\ \/ art' = [art EXCEPT !.approval = "failed"]
                \/ art' = [art EXCEPT !.approval = "ok", !.decision = art.session]
          \/ /\ jobs[j].op = "request"
             /\ \E r \in {"failed", "ready"} : art' = [art EXCEPT !.request = r]
          \/ /\ jobs[j].op = "status"
             /\ \E r \in {"failed", "probe", pr} \ {"none"} : art' = [art EXCEPT !.status = r]
          \/ /\ jobs[j].op = "publish"
             /\ \E r : art' = [art EXCEPT !.model = r]
      BY <2>1, <2>3 DEF Reports, Ops
    <3>2. CASE art' = art
      BY <2>1, <2>2, <3>2
    <3>3. CASE jobs[j].op = "approval" /\ art' = [art EXCEPT !.approval = "failed"]
      <4>1. /\ art'.approval = "failed" /\ art'.decision = art.decision
            /\ art'.request = art.request /\ art'.promotion = art.promotion
            /\ art'.status = art.status /\ art'.model = art.model
        BY <1>0, <3>3 DEF Artifacts
      <4>. QED BY <2>1, <2>2, <4>1
    <3>4. CASE jobs[j].op = "approval"
               /\ art' = [art EXCEPT !.approval = "ok", !.decision = art.session]
      <4>1. /\ art'.decision # 0
            /\ art'.request = art.request /\ art'.promotion = art.promotion
            /\ art'.status = art.status /\ art'.model = art.model
        BY <1>0, <3>4 DEF Artifacts
      <4>. QED BY <2>1, <2>2, <4>1
    <3>5. ASSUME jobs[j].op = "request",
                 NEW r \in {"failed", "ready"}, art' = [art EXCEPT !.request = r]
          PROVE  PathInv'
      <4>1. /\ art'.approval = art.approval /\ art'.decision = art.decision
            /\ art'.request # "none" /\ art'.promotion = art.promotion
            /\ art'.status = art.status /\ art'.model = art.model
        BY <1>0, <3>5 DEF Artifacts
      <4>. QED BY <2>1, <2>2, <3>5, <4>1
    <3>6. ASSUME jobs[j].op = "status", NEW r \in {"failed", "probe", pr} \ {"none"},
                 art' = [art EXCEPT !.status = r]
          PROVE  PathInv'
      <4>1. /\ art'.approval = art.approval /\ art'.decision = art.decision
            /\ art'.request = art.request /\ art'.promotion = art.promotion
            /\ art'.status # "none" /\ art'.model = art.model
        BY <1>0, <3>6 DEF Artifacts
      <4>. QED BY <2>1, <2>2, <3>6, <4>1
    <3>7. ASSUME jobs[j].op = "publish", NEW r, art' = [art EXCEPT !.model = r]
          PROVE  PathInv'
      <4>1. /\ art'.approval = art.approval /\ art'.decision = art.decision
            /\ art'.request = art.request /\ art'.promotion = art.promotion
            /\ art'.status = art.status
        BY <1>0, <3>7 DEF Artifacts
      <4>. QED BY <2>1, <2>2, <3>7, <4>1
    <3>. QED BY <3>1, <3>2, <3>3, <3>4, <3>5, <3>6, <3>7
  <2>4. CASE jobs[j].op \in {"dryrun", "review"}
    <3>1. j \in Promoting /\ art.request # "none"
      BY <2>1, <2>4 DEF Promoting
    <3>2. ~overlap => art.promotion # "real"
      BY <3>1 DEF AloneInv, IsReal
    <3>4. /\ art'.approval = art.approval /\ art'.decision = art.decision
          /\ art'.request = art.request /\ art'.status = art.status /\ art'.model = art.model
      BY <1>9, <2>4, PromotionFinishes
    <3>. QED BY <2>1, <2>2, <3>1, <3>2, <3>4
  <2>. QED BY <2>3, <2>4
<1>10. ASSUME NEW j \in Jobs, OpenReview(j) PROVE PathInv'
  <2>1. /\ art'.approval = art.approval /\ art'.decision = art.decision
        /\ art'.request = art.request /\ art'.status = art.status /\ art'.model = art.model
        /\ art'.promotion \in {art.promotion, "real"} /\ overlap' = overlap
    BY <1>10, ReviewOpens DEF OpenReview
  <2>2. art.request # "none"
    BY <1>10 DEF OpenReview
  <2>3. \A k \in Jobs : jobs'[k].at = "running" => jobs'[k] = jobs[k]
    BY <1>10 DEF OpenReview, TypeOK, Idle
  <2>. QED BY <2>1, <2>2, <2>3
<1>11. CASE PlanWritten \/ BundleBuilt
  BY <1>0, <1>11, WrittenOutside
<1>. QED
  BY <1>1, <1>2, <1>3, <1>4, <1>5, <1>6, <1>7, <1>8, <1>9, <1>10, <1>11
  DEF Next, Refuse, Reuse, IntentGone

(* At most one intent is requested at a time.                              *)
OneRequested == \A i, k \in 1..Len(art.intents) :
    art.intents[i].status = "requested" /\ art.intents[k].status = "requested" => i = k

LEMMA RequestedStep == TypeInv /\ OneInv /\ OneRequested /\ [Next]_vars => OneRequested'
<1>. SUFFICES ASSUME TypeInv, OneInv, OneRequested, [Next]_vars PROVE OneRequested'
  OBVIOUS
<1>0. /\ TypeOK /\ art.intents \in Seq(Intent) /\ Len(art.intents) \in Nat
      /\ art \in Artifacts /\ JobShape
  BY ArtifactsType DEF TypeInv, TypeOK
<1>1. ASSUME art'.intents = art.intents PROVE OneRequested'
  BY <1>1 DEF OneRequested
<1>2. ASSUME NEW j \in Jobs, SaveIntent(j) PROVE OneRequested'
  <2>. DEFINE s == Superseded(art.intents)
              new == [status |-> "requested", session |-> art.session]
  <2>1. new \in Intent
    BY <1>0 DEF Artifacts, Intent, IntentStatus
  <2>2. /\ s \in Seq(Intent) /\ Len(s) = Len(art.intents)
        /\ \A i \in 1..Len(art.intents) : s[i].status # "requested"
    BY <1>0, SupersededIntents
  <2>. HIDE DEF s
  <2>3. /\ Len(Append(s, new)) = Len(art.intents) + 1
        /\ \A i \in 1..Len(art.intents) : Append(s, new)[i] = s[i]
    BY <2>1, <2>2, AppendProperties
  <2>. HIDE DEF new
  <2>4. art'.intents = Append(s, new)
    BY <1>0, <1>2 DEF SaveIntent, Artifacts, s, new
  <2>5. \A i \in 1..Len(art'.intents) :
            art'.intents[i].status = "requested" => i = Len(art'.intents)
    BY <1>0, <2>2, <2>3, <2>4
  <2>. QED BY <2>5 DEF OneRequested
<1>3. ASSUME NEW j \in Jobs, MarkConsumed(j) PROVE OneRequested'
  <2>. DEFINE c == jobs[j].intent
              s == [art.intents EXCEPT ![c].status = "consumed"]
  <2>1. c \in 1..Len(art.intents)
    BY <1>3 DEF MarkConsumed, OneInv
  <2>2. art'.intents = s
    BY <1>0, <1>3 DEF MarkConsumed, Artifacts
  <2>3. DOMAIN art.intents = 1..Len(art.intents) /\ art.intents[c] \in Intent
    BY <1>0, <2>1, LenProperties, ElementOfSeq
  <2>4. s = [art.intents EXCEPT ![c] = [art.intents[c] EXCEPT !.status = "consumed"]]
    OBVIOUS
  <2>5. [art.intents[c] EXCEPT !.status = "consumed"] \in Intent
    BY <2>3 DEF Intent, IntentStatus
  <2>6. Len(s) = Len(art.intents)
    BY <1>0, <2>1, <2>4, <2>5, ExceptSeq
  <2>7. /\ s[c].status = "consumed"
        /\ \A i \in 1..Len(art.intents) : i # c => s[i] = art.intents[i]
    BY <2>1, <2>3 DEF Intent
  <2>. HIDE DEF s
  <2>. QED BY <2>2, <2>6, <2>7 DEF OneRequested
<1>4. CASE RerunPublished
  BY <1>0, <1>1, <1>4 DEF RerunPublished, Artifacts
<1>5. ASSUME NEW j \in Jobs, Finish(j) \/ OpenReview(j) PROVE OneRequested'
  <2>1. art'.intents = art.intents
    BY <1>0, <1>5, FinishKeepsIntents, ReviewOpens
  <2>. QED BY <1>1, <2>1
<1>6. CASE PlanWritten \/ BundleBuilt
  BY <1>0, <1>1, <1>6, WrittenOutside
<1>. QED
  BY <1>1, <1>2, <1>3, <1>4, <1>5, <1>6
  DEF Next, vars, Decide, Receive, Refuse, Reuse, ChooseIntent, IntentGone, Run

(* The stage of a workspace is that of the first rule that holds.          *)
LEMMA FirstRule ==
    ASSUME NEW a, NEW n \in 1..15, StageRules(a)[n][1],
           \A m \in 1..(n - 1) : ~StageRules(a)[m][1]
    PROVE  Stage(a) = StageRules(a)[n][2]
<1>. DEFINE rules == StageRules(a)
            Is(k) == rules[k][1] /\ \A m \in 1..(k - 1) : ~rules[m][1]
            first == CHOOSE k \in DOMAIN rules : Is(k)
<1>1. DOMAIN rules = 1..15
  BY DEF StageRules
<1>. HIDE DEF rules
<1>2. Is(n) /\ \A k \in 1..15 : Is(k) => k = n
  <2>1. Is(n)
    BY DEF rules
  <2>2. ASSUME NEW k \in 1..15, Is(k) PROVE k = n
    <3>1. ~(k < n) /\ ~(n < k)
      BY <2>1, <2>2
    <3>. QED BY <3>1
  <2>. QED BY <2>1, <2>2
<1>. HIDE DEF Is
<1>3. first = n
  BY <1>1, <1>2
<1>4. Stage(a) = rules[first][2]
  BY Zenon DEF Stage, rules, Is, first
<1>. QED BY <1>3, <1>4 DEF rules

(* What the rules ask for, and what they say.                              *)
LEMMA Rules ==
    ASSUME NEW a
    PROVE  /\ StageRules(a)[1][1] <=> (a.model = "published")
           /\ StageRules(a)[2][1] <=> (a.model = "failed")
           /\ StageRules(a)[3][1] <=> (ReviewUsable(a) /\ a.status = "probe")
           /\ StageRules(a)[4][1] <=> (ReviewUsable(a) /\ a.status = "merged")
           /\ StageRules(a)[5][1] <=> (ReviewUsable(a) /\ a.status = "closed")
           /\ StageRules(a)[6][1] <=> (PromotionFailed(a))
           /\ StageRules(a)[7][1] <=> (a.promotion = "dry")
           /\ StageRules(a)[8][1] <=> (ReviewUsable(a) \/ IsReal(a))
           /\ StageRules(a)[9][1] <=> (a.request = "failed")
           /\ StageRules(a)[10][1] <=> (a.request = "ready")
           /\ StageRules(a)[11][1] <=> (a.approval = "failed")
           /\ StageRules(a)[12][1] <=> (a.decision # 0)
           /\ StageRules(a)[13][1] <=> (a.ready /\ IntentUsable(a))
           /\ StageRules(a)[14][1] <=> (a.ready)
<1>1. StageRules(a)[1][1] <=> (a.model = "published")
  BY DEF StageRules
<1>2. StageRules(a)[2][1] <=> (a.model = "failed")
  BY DEF StageRules
<1>3. StageRules(a)[3][1] <=> (ReviewUsable(a) /\ a.status = "probe")
  BY DEF StageRules
<1>4. StageRules(a)[4][1] <=> (ReviewUsable(a) /\ a.status = "merged")
  BY DEF StageRules
<1>5. StageRules(a)[5][1] <=> (ReviewUsable(a) /\ a.status = "closed")
  BY DEF StageRules
<1>6. StageRules(a)[6][1] <=> (PromotionFailed(a))
  BY DEF StageRules
<1>7. StageRules(a)[7][1] <=> (a.promotion = "dry")
  BY DEF StageRules
<1>8. StageRules(a)[8][1] <=> (ReviewUsable(a) \/ IsReal(a))
  BY DEF StageRules
<1>9. StageRules(a)[9][1] <=> (a.request = "failed")
  BY DEF StageRules
<1>10. StageRules(a)[10][1] <=> (a.request = "ready")
  BY DEF StageRules
<1>11. StageRules(a)[11][1] <=> (a.approval = "failed")
  BY DEF StageRules
<1>12. StageRules(a)[12][1] <=> (a.decision # 0)
  BY DEF StageRules
<1>13. StageRules(a)[13][1] <=> (a.ready /\ IntentUsable(a))
  BY DEF StageRules
<1>14. StageRules(a)[14][1] <=> (a.ready)
  BY DEF StageRules
<1>. QED BY <1>1, <1>2, <1>3, <1>4, <1>5, <1>6, <1>7, <1>8, <1>9, <1>10, <1>11, <1>12, <1>13, <1>14

LEMMA Stages ==
    ASSUME NEW a
    PROVE  /\ StageRules(a)[1][2] = "published"
           /\ StageRules(a)[2][2] = "read_model_publication_needed"
           /\ StageRules(a)[3][2] = "review_merge_waiting"
           /\ StageRules(a)[4][2] = "read_model_publication_needed"
           /\ StageRules(a)[5][2] = "review_closed"
           /\ StageRules(a)[6][2] = "promotion_execution_needed"
           /\ StageRules(a)[7][2] = "promotion_execution_needed"
           /\ StageRules(a)[8][2] = "review_merge_waiting"
           /\ StageRules(a)[9][2] = "promotion_request_needed"
           /\ StageRules(a)[10][2] = "promotion_execution_needed"
           /\ StageRules(a)[11][2] = "approval_execution_needed"
           /\ StageRules(a)[12][2] = "promotion_request_needed"
           /\ StageRules(a)[13][2] = "approval_execution_needed"
           /\ StageRules(a)[14][2] = "approval_intent_needed"
  BY DEF StageRules

(* Whatever the state, the next control of the path can be pressed.        *)
LEMMA GoesOn ==
    ASSUME TypeInv, PathInv, OneRequested, ~overlap, art.ready, ~Final(art), ~Awaits(art)
    PROVE  \E op \in Moves(art) : Enabled(art, op) /\ Accepted(art, op)
<1>. DEFINE a == art
            NoRule(n) == \A m \in 1..n : ~StageRules(a)[m][1]
            CanMove == \E op \in Moves(a) : Enabled(a, op) /\ Accepted(a, op)
<1>a. /\ a \in Artifacts /\ a.request # "failed" /\ a.model # "published" /\ a.status # "closed"
      /\ a.promotion \notin {"realfailed", "unopened"} /\ (a.git => IsReal(a))
      /\ a.request # "none" => a.decision # 0
      /\ a.promotion # "none" => a.request # "none"
      /\ a.model # "none" => a.status # "none"
      /\ a.approval = "ok" => a.decision # 0
      /\ a.status # "none" => a.promotion = "real"
      /\ a.ready
  BY DEF TypeInv, TypeOK, PathInv, Final, KilledBetween
<1>b. /\ a.request \in {"none", "ready"}
      /\ a.promotion \in {"none", "dryfailed", "dry", "real"}
  BY <1>a DEF Artifacts
<1>c. ASSUME Stage(a) = "review_merge_waiting", a.promotion = "real" PROVE CanMove
  BY <1>c DEF Moves, Enabled, StatusEnabled, Accepted, StatusAccepted
<1>d. ASSUME Stage(a) = "read_model_publication_needed", a.promotion = "real" PROVE CanMove
  <2>1. CASE a.status = "merged"
    <3>1. Moves(a) = {"publish"}
      BY <1>d, <2>1 DEF Moves
    <3>2. a.bundle
      BY <3>1 DEF Awaits
    <3>. QED BY <1>d, <2>1, <3>1, <3>2 DEF Enabled, PublishEnabled, Accepted, PublishAccepted
  <2>2. CASE a.status # "merged"
    BY <1>d, <2>2 DEF Moves, Enabled, StatusEnabled, Accepted, StatusAccepted
  <2>. QED BY <2>1, <2>2
<1>e. ASSUME Stage(a) = "promotion_execution_needed", a.request = "ready", ~IsReal(a)
      PROVE  CanMove
  BY <1>a, <1>e DEF Moves, Enabled, DryRunEnabled, Accepted, DryRunAccepted
<1>f. ASSUME Stage(a) = "approval_execution_needed", IntentUsable(a), a.approval # "ok"
      PROVE  CanMove
  <2>1. Cardinality(Requested(a)) = 1
    <3>1. PICK i \in Requested(a) : TRUE
      BY <1>f DEF IntentUsable
    <3>2. a.intents \in Seq(Intent) /\ DOMAIN a.intents = 1..Len(a.intents)
      BY ArtifactsType, LenProperties DEF TypeInv, TypeOK
    <3>3. Requested(a) = {i}
      BY <3>1, <3>2 DEF Requested, OneRequested
    <3>. QED BY <3>3, FS_Singleton
  <2>. QED BY <1>a, <1>f, <2>1 DEF Moves, Enabled, ApprovalEnabled, Accepted, ApprovalAccepted
<1>g. ASSUME Stage(a) \in {"approval_execution_needed", "approval_intent_needed"},
             ~IntentUsable(a)
      PROVE  CanMove
  BY <1>a, <1>g DEF Moves, Enabled, Accepted
<1>h. ASSUME Stage(a) = "promotion_request_needed", a.decision # 0, a.request = "none"
      PROVE  CanMove
  <2>1. Moves(a) = {"request"}
    BY <1>h DEF Moves
  <2>2. a.plan
    BY <2>1 DEF Awaits
  <2>. QED BY <1>a, <1>h, <2>1, <2>2 DEF Enabled, RequestEnabled, Accepted, RequestAccepted
<1>. HIDE DEF a, CanMove
<1>0. NoRule(0)
  OBVIOUS
<1>1. NoRule(0) => NoRule(1)
  BY <1>a, Rules
<1>2. NoRule(1) => CanMove \/ NoRule(2)
  <2>. SUFFICES ASSUME NoRule(1), a.model = "failed" PROVE CanMove
    BY Rules
  <2>1. StageRules(a)[2][1] /\ \A m \in 1..(2 - 1) : ~StageRules(a)[m][1]
    BY Rules
  <2>2. Stage(a) = "read_model_publication_needed"
    BY <2>1, FirstRule, Stages
  <2>. QED BY <1>a, <1>d, <2>2
<1>3. NoRule(2) => CanMove \/ NoRule(3)
  <2>. SUFFICES ASSUME NoRule(2), ReviewUsable(a) /\ a.status = "probe" PROVE CanMove
    BY Rules
  <2>1. StageRules(a)[3][1] /\ \A m \in 1..(3 - 1) : ~StageRules(a)[m][1]
    BY Rules
  <2>2. Stage(a) = "review_merge_waiting"
    BY <2>1, FirstRule, Stages
  <2>. QED BY <1>a, <1>c, <2>2
<1>4. NoRule(3) => CanMove \/ NoRule(4)
  <2>. SUFFICES ASSUME NoRule(3), ReviewUsable(a) /\ a.status = "merged" PROVE CanMove
    BY Rules
  <2>1. StageRules(a)[4][1] /\ \A m \in 1..(4 - 1) : ~StageRules(a)[m][1]
    BY Rules
  <2>2. Stage(a) = "read_model_publication_needed"
    BY <2>1, FirstRule, Stages
  <2>. QED BY <1>a, <1>d, <2>2
<1>5. NoRule(4) => NoRule(5)
  BY <1>a, Rules
<1>6. NoRule(5) => CanMove \/ NoRule(6)
  <2>. SUFFICES ASSUME NoRule(5), PromotionFailed(a) PROVE CanMove
    BY Rules
  <2>1. StageRules(a)[6][1] /\ \A m \in 1..(6 - 1) : ~StageRules(a)[m][1]
    BY Rules
  <2>2. Stage(a) = "promotion_execution_needed"
    BY <2>1, FirstRule, Stages
  <2>. QED BY <1>a, <1>b, <1>e, <2>2 DEF PromotionFailed, IsReal
<1>7. NoRule(6) => CanMove \/ NoRule(7)
  <2>. SUFFICES ASSUME NoRule(6), a.promotion = "dry" PROVE CanMove
    BY Rules
  <2>1. StageRules(a)[7][1] /\ \A m \in 1..(7 - 1) : ~StageRules(a)[m][1]
    BY Rules
  <2>2. Stage(a) = "promotion_execution_needed"
    BY <2>1, FirstRule, Stages
  <2>. QED BY <1>a, <1>b, <1>e, <2>2 DEF IsReal
<1>8. NoRule(7) => CanMove \/ NoRule(8)
  <2>. SUFFICES ASSUME NoRule(7), ReviewUsable(a) \/ IsReal(a) PROVE CanMove
    BY Rules
  <2>1. StageRules(a)[8][1] /\ \A m \in 1..(8 - 1) : ~StageRules(a)[m][1]
    BY Rules
  <2>2. Stage(a) = "review_merge_waiting"
    BY <2>1, FirstRule, Stages
  <2>. QED BY <1>a, <1>b, <1>c, <2>2 DEF ReviewUsable, IsReal
<1>9. NoRule(8) => NoRule(9)
  BY <1>a, Rules
<1>10. NoRule(9) => CanMove \/ NoRule(10)
  <2>. SUFFICES ASSUME NoRule(9), a.request = "ready" PROVE CanMove
    BY Rules
  <2>1. StageRules(a)[10][1] /\ \A m \in 1..(10 - 1) : ~StageRules(a)[m][1]
    BY Rules
  <2>2. Stage(a) = "promotion_execution_needed"
    BY <2>1, FirstRule, Stages
  <2>3. \A m \in 8..9 : ~StageRules(a)[m][1]
    OBVIOUS
  <2>. QED BY <1>a, <1>e, <2>2, <2>3, Rules
<1>11. NoRule(10) => CanMove \/ NoRule(11)
  <2>. SUFFICES ASSUME NoRule(10), a.approval = "failed" PROVE CanMove
    BY Rules
  <2>1. StageRules(a)[11][1] /\ \A m \in 1..(11 - 1) : ~StageRules(a)[m][1]
    BY Rules
  <2>2. Stage(a) = "approval_execution_needed"
    BY <2>1, FirstRule, Stages
  <2>. QED BY <1>f, <1>g, <2>2
<1>12. NoRule(11) => CanMove \/ NoRule(12)
  <2>. SUFFICES ASSUME NoRule(11), a.decision # 0 PROVE CanMove
    BY Rules
  <2>1. StageRules(a)[12][1] /\ \A m \in 1..(12 - 1) : ~StageRules(a)[m][1]
    BY Rules
  <2>2. Stage(a) = "promotion_request_needed"
    BY <2>1, FirstRule, Stages
  <2>3. \A m \in 8..11 : ~StageRules(a)[m][1]
    OBVIOUS
  <2>. QED BY <1>a, <1>b, <1>h, <2>2, <2>3, Rules
<1>13. NoRule(12) => CanMove \/ NoRule(13)
  <2>. SUFFICES ASSUME NoRule(12), a.ready /\ IntentUsable(a) PROVE CanMove
    BY Rules
  <2>1. StageRules(a)[13][1] /\ \A m \in 1..(13 - 1) : ~StageRules(a)[m][1]
    BY Rules
  <2>2. Stage(a) = "approval_execution_needed"
    BY <2>1, FirstRule, Stages
  <2>3. \A m \in 12..12 : ~StageRules(a)[m][1]
    OBVIOUS
  <2>. QED BY <1>a, <1>f, <2>2, <2>3, Rules
<1>14. NoRule(13) => CanMove \/ NoRule(14)
  <2>. SUFFICES ASSUME NoRule(13), a.ready PROVE CanMove
    BY Rules
  <2>1. StageRules(a)[14][1] /\ \A m \in 1..(14 - 1) : ~StageRules(a)[m][1]
    BY Rules
  <2>2. Stage(a) = "approval_intent_needed"
    BY <2>1, FirstRule, Stages
  <2>3. \A m \in 12..13 : ~StageRules(a)[m][1]
    OBVIOUS
  <2>. QED BY <1>a, <1>g, <2>2, <2>3, Rules
<1>. QED
  BY <1>a, <1>0, <1>1, <1>2, <1>3, <1>4, <1>5, <1>6, <1>7, <1>8, <1>9, <1>10, <1>11, <1>12, <1>13, <1>14, Rules DEF a, CanMove

(* A path that is not finished goes on: no order of requests, lost answers *)
(* and reruns leaves the operator without a control that the server takes. *)
THEOREM NeverStuckCorrect == Spec => []NeverStuck
<1>1. Init => AloneInv /\ OneInv /\ PathInv /\ OneRequested
  <2>. SUFFICES ASSUME Init PROVE AloneInv /\ OneInv /\ PathInv /\ OneRequested
    OBVIOUS
  <2>1. art.intents = << >> /\ Len(<< >>) = 0
    BY EmptySeq DEF Init, NewSession
  <2>2. OneInv /\ OneRequested
    BY <2>1, PathAssumption DEF Init, OneInv, Idle, OneRequested
  <2>. QED BY <2>2 DEF Init, AloneInv, Promoting, Idle, IsReal, NewSession, PathInv
<1>2. TypeInv /\ PathInv /\ OneRequested => NeverStuck
  BY GoesOn DEF NeverStuck
<1>. QED
  BY <1>1, <1>2, TypeInit, TypeStep, AloneStep, OneStep, PathStep, RequestedStep, PTL DEF Spec

-----------------------------------------------------------------------------
(* WorkspaceInitialization.  A digest that is the same before and after a   *)
(* command says that the input was the same meanwhile, because a version   *)
(* never comes back: what Platform read lies between the two.              *)

(* One backend.  Its lock is of its process.                               *)
OneBackend == \A t, u \in Handlers : BackendOf[t] = BackendOf[u]

FromRecheck == {"recheck_creation", "recheck_catalog", "publish"}
FromRequest == {"request", "pin"} \cup FromRecheck
FromPlace == {"place"} \cup FromRequest
FromUnlink == {"unlink"} \cup FromPlace
FromCheck == {"check_creation", "check_catalog"} \cup FromUnlink
FromPlan == {"plan"} \cup FromCheck
Holding == {"select", "digest_creation", "digest_catalog"} \cup FromPlan

Between(a, b, c) == \A i \in Inputs : a[i] <= b[i] /\ b[i] <= c[i]

\* The types, and a call knows its workspace.
Typed == InitializationTypeOK /\ \A t \in Handlers : step[t] # "idle" => target[t] \in Workspaces

\* What a thread knows when it comes to a step.  Until it has compared an
\* input again it only knows that versions do not go back.
Own(t) ==
    /\ step[t] \in Holding => lock[BackendOf[t]] = t
    /\ step[t] = "digest_catalog" => digests[t]["creation"] <= version["creation"]
    /\ step[t] \in FromPlan =>
          \A i \in Inputs :
              /\ digests[t][i] <= version[i]
              /\ draft[t].of[i] # 0 => digests[t][i] <= draft[t].of[i] /\ draft[t].of[i] <= version[i]
    /\ step[t] \in FromCheck => \A i \in Inputs : draft[t].of[i] # 0
    /\ step[t] = "check_catalog" =>
          /\ draft[t].of["creation"] = digests[t]["creation"]
          /\ \E m \in moments : /\ m["creation"] = digests[t]["creation"]
                                /\ draft[t].of["catalog"] <= m["catalog"]
                                /\ m["catalog"] <= version["catalog"]
    /\ step[t] \in FromUnlink => draft[t].of = digests[t] /\ draft[t].of \in moments
    /\ step[t] \in FromPlace => request[target[t]] = NoFile
    /\ step[t] \in FromRequest =>
          plan[target[t]] = draft[t] /\ Between(digests[t], inForce[target[t]], version)
    /\ step[t] \in FromRecheck => pinned[t] = draft[t]
    /\ step[t] \in {"recheck_catalog", "publish"} =>
          inForce[target[t]]["creation"] = digests[t]["creation"]
    /\ step[t] = "publish" => inForce[target[t]]["catalog"] = digests[t]["catalog"]

\* What is true of the files.
Whole ==
    /\ version \in moments
    /\ \A w \in Workspaces :
          /\ plan[w] # NoFile => plan[w].of \in moments
          /\ report[w] # NoFile => report[w].of \in moments
          /\ request[w] # NoFile => request[w] = plan[w] /\ plan[w].of = inForce[w]
    /\ \A e \in executions : e.pins # NoFile => e.pins.of \in moments

IInv == Typed /\ Whole /\ \A t \in Handlers : Own(t)

LEMMA LeqIsTransitive == \A a, b, c \in Nat : a <= b /\ b <= c => a <= c
  OBVIOUS

LEMMA Sandwiched == \A a, b, c \in Nat : a <= b /\ b <= c /\ c = a => b = a
  OBVIOUS

LEMMA NoFileType == NoFile \in Plans /\ Unread \in Versions
  BY DEF NoFile, Plans, Unread, Versions

LEMMA InitIInv == InitializationInit => IInv
<1> SUFFICES ASSUME InitializationInit PROVE IInv
  OBVIOUS
<1>1. Typed
  BY NoFileType DEF InitializationInit, Typed, InitializationTypeOK, Versions, Steps
<1>2. Whole
  BY DEF InitializationInit, Whole
<1>3. \A t \in Handlers : step[t] = "idle"
  BY DEF InitializationInit
<1>4. \A t \in Handlers : Own(t)
  BY <1>3 DEF Own, Holding, FromPlan, FromCheck, FromUnlink, FromPlace, FromRequest, FromRecheck
<1> QED BY <1>1, <1>2, <1>4 DEF IInv


LEMMA TypesOf ==
    ASSUME Typed, NEW t \in Handlers
    PROVE  /\ digests[t] \in Versions /\ draft[t] \in Plans /\ pinned[t] \in Plans
           /\ draft[t].of \in Versions /\ draft[t].n \in Nat
           /\ \A i \in Inputs : version[i] \in Nat /\ digests[t][i] \in Nat /\ draft[t].of[i] \in Nat
           /\ step[t] \in Steps /\ target[t] \in Workspaces \cup {NoWorkspace}
           /\ \A w \in Workspaces : \A i \in Inputs : inForce[w][i] \in Nat
  BY DEF Typed, InitializationTypeOK, Versions, Plans

\* A change of an input only makes its version larger.
LEMMA ChangesGrow ==
    ASSUME Typed, NEW i \in Inputs, Changes(i)
    PROVE  /\ version' \in Versions /\ moments' \subseteq Versions
           /\ moments \subseteq moments' /\ version' \in moments'
           /\ \A j \in Inputs : version[j] <= version'[j]
<1>1. version \in [Inputs -> Nat] /\ version' = [version EXCEPT ![i] = version[i] + 1]
  BY DEF Typed, InitializationTypeOK, Changes, Versions
<1>2. version[i] \in Nat /\ version[i] + 1 \in Nat /\ version[i] <= version[i] + 1
  BY <1>1
<1>3. version' \in [Inputs -> Nat]
  BY <1>1, <1>2
<1>4. \A j \in Inputs : version[j] <= version'[j]
  BY <1>1, <1>2
<1>5. moments' = moments \cup {version'} /\ moments \subseteq Versions
  BY DEF Changes, Typed, InitializationTypeOK
<1> QED
  BY <1>3, <1>4, <1>5 DEF Versions

\* The names of the steps at which a thread knows something.
LEMMA IdleKnows ==
    ASSUME NEW t \in Handlers, step'[t] \in {"idle", "saving", "execute"} PROVE Own(t)'
  BY DEF Own, Holding, FromPlan, FromCheck, FromUnlink, FromPlace, FromRequest, FromRecheck

\* What a thread knows stays true when another moves, unless that one
\* changes the files under it.
LEMMA OwnKept ==
    ASSUME Typed, Typed', NEW t \in Handlers, Own(t),
           step'[t] = step[t], target'[t] = target[t], digests'[t] = digests[t],
           draft'[t] = draft[t], pinned'[t] = pinned[t],
           moments \subseteq moments',
           \A j \in Inputs : version[j] <= version'[j],
           step[t] \in Holding =>
               /\ lock'[BackendOf[t]] = lock[BackendOf[t]]
               /\ plan' = plan /\ request' = request /\ inForce' = inForce
    PROVE  Own(t)'
<1>1. \A i \in Inputs : /\ version[i] \in Nat /\ version'[i] \in Nat /\ version[i] <= version'[i]
                        /\ digests[t][i] \in Nat /\ draft[t].of[i] \in Nat
  BY TypesOf DEF Typed, InitializationTypeOK, Versions
<1>2. /\ FromRecheck \subseteq FromRequest /\ FromRequest \subseteq FromPlace
      /\ FromPlace \subseteq FromUnlink /\ FromUnlink \subseteq FromCheck
      /\ FromCheck \subseteq FromPlan /\ FromPlan \subseteq Holding
  BY DEF Holding, FromPlan, FromCheck, FromUnlink, FromPlace, FromRequest, FromRecheck
<1>3. "creation" \in Inputs /\ "catalog" \in Inputs
  BY DEF Inputs
<1>4. "idle" \notin Holding
  BY DEF Holding, FromPlan, FromCheck, FromUnlink, FromPlace, FromRequest, FromRecheck
<1>5. step'[t] \in Holding => lock'[BackendOf[t]] = t
  BY DEF Own
<1>6. step'[t] = "digest_catalog" => digests'[t]["creation"] <= version'["creation"]
  <2> SUFFICES ASSUME step[t] = "digest_catalog"
      PROVE  digests[t]["creation"] <= version'["creation"]
    OBVIOUS
  <2>1. digests[t]["creation"] <= version["creation"]
    BY DEF Own
  <2>2. /\ version["creation"] \in Nat /\ version'["creation"] \in Nat
        /\ version["creation"] <= version'["creation"] /\ digests[t]["creation"] \in Nat
    BY <1>1, <1>3
  <2> QED
    BY <2>1, <2>2, LeqIsTransitive
<1>7. step'[t] \in FromPlan =>
          \A i \in Inputs :
              /\ digests'[t][i] <= version'[i]
              /\ draft'[t].of[i] # 0 =>
                    digests'[t][i] <= draft'[t].of[i] /\ draft'[t].of[i] <= version'[i]
  <2> SUFFICES ASSUME step[t] \in FromPlan, NEW i \in Inputs
      PROVE  /\ digests[t][i] <= version'[i]
             /\ draft[t].of[i] # 0 =>
                   digests[t][i] <= draft[t].of[i] /\ draft[t].of[i] <= version'[i]
    OBVIOUS
  <2>1. /\ digests[t][i] <= version[i]
        /\ draft[t].of[i] # 0 => digests[t][i] <= draft[t].of[i] /\ draft[t].of[i] <= version[i]
    BY DEF Own
  <2> QED
    BY <1>1, <2>1
<1>8. step'[t] \in FromCheck => \A i \in Inputs : draft'[t].of[i] # 0
  BY DEF Own
<1>9. step'[t] = "check_catalog" =>
          /\ draft'[t].of["creation"] = digests'[t]["creation"]
          /\ \E m \in moments' : /\ m["creation"] = digests'[t]["creation"]
                                 /\ draft'[t].of["catalog"] <= m["catalog"]
                                 /\ m["catalog"] <= version'["catalog"]
  <2> SUFFICES ASSUME step[t] = "check_catalog"
      PROVE  /\ draft[t].of["creation"] = digests[t]["creation"]
             /\ \E m \in moments' : /\ m["creation"] = digests[t]["creation"]
                                    /\ draft[t].of["catalog"] <= m["catalog"]
                                    /\ m["catalog"] <= version'["catalog"]
    OBVIOUS
  <2>1. PICK m \in moments : /\ m["creation"] = digests[t]["creation"]
                             /\ draft[t].of["catalog"] <= m["catalog"]
                             /\ m["catalog"] <= version["catalog"]
    BY DEF Own
  <2>2. m["catalog"] \in Nat
    BY <1>3 DEF Typed, InitializationTypeOK, Versions
  <2>5. /\ version["catalog"] \in Nat /\ version'["catalog"] \in Nat
        /\ version["catalog"] <= version'["catalog"]
    BY <1>1, <1>3
  <2>3. m["catalog"] <= version'["catalog"]
    BY <2>1, <2>2, <2>5, LeqIsTransitive
  <2>4. draft[t].of["creation"] = digests[t]["creation"] /\ m \in moments'
    BY <2>1 DEF Own
  <2> QED
    BY <2>1, <2>3, <2>4
<1>10. step'[t] \in FromUnlink => draft'[t].of = digests'[t] /\ draft'[t].of \in moments'
  BY DEF Own
<1>11. step'[t] \in FromPlace => request'[target'[t]] = NoFile
  BY <1>2 DEF Own
<1>12. step'[t] \in FromRequest =>
          plan'[target'[t]] = draft'[t] /\ Between(digests'[t], inForce'[target'[t]], version')
  <2> SUFFICES ASSUME step[t] \in FromRequest
      PROVE  plan[target[t]] = draft[t] /\ Between(digests[t], inForce[target[t]], version')
    BY <1>2
  <2>1. target[t] \in Workspaces /\ plan[target[t]] = draft[t]
    BY <1>2, <1>4 DEF Own, Typed
  <2>2. \A i \in Inputs : /\ digests[t][i] <= inForce[target[t]][i]
                          /\ inForce[target[t]][i] <= version[i]
    BY DEF Own, Between
  <2>3. \A i \in Inputs : inForce[target[t]][i] \in Nat
    BY <2>1 DEF Typed, InitializationTypeOK, Versions
  <2> QED
    BY <1>1, <2>1, <2>2, <2>3 DEF Between
<1>13. step'[t] \in FromRecheck => pinned'[t] = draft'[t]
  BY DEF Own
<1>14. step'[t] \in {"recheck_catalog", "publish"} =>
          inForce'[target'[t]]["creation"] = digests'[t]["creation"]
  BY <1>2 DEF Own, FromRecheck
<1>15. step'[t] = "publish" => inForce'[target'[t]]["catalog"] = digests'[t]["catalog"]
  BY <1>2 DEF Own, FromRecheck
<1> QED
  BY <1>5, <1>6, <1>7, <1>8, <1>9, <1>10, <1>11, <1>12, <1>13, <1>14, <1>15 DEF Own

-----------------------------------------------------------------------------
(* Types.                                                                  *)
LEMMA EndTypes ==
    ASSUME Typed, NEW T, End(T)
    PROVE  /\ step' \in [Handlers -> Steps]
           /\ target' \in [Handlers -> Workspaces \cup {NoWorkspace}]
           /\ digests' \in [Handlers -> Versions]
           /\ draft' \in [Handlers -> Plans] /\ pinned' \in [Handlers -> Plans]
           /\ \A t \in Handlers : t \in T => step'[t] = "idle"
           /\ \A t \in Handlers : t \notin T =>
                 /\ step'[t] = step[t] /\ target'[t] = target[t] /\ digests'[t] = digests[t]
                 /\ draft'[t] = draft[t] /\ pinned'[t] = pinned[t]
<1>1. "idle" \in Steps
  BY DEF Steps
<1> QED
  BY <1>1, NoFileType DEF End, Typed, InitializationTypeOK

LEMMA StepTypes ==
    ASSUME Typed, [InitializationNext]_initializing
    PROVE  Typed'
<1> USE DEF inputs, files, preparing, initializing, Prepares, Goes
<1>0. CASE UNCHANGED initializing
  BY <1>0 DEF Typed, InitializationTypeOK
<1>1. CASE EditCatalog
  <2>1. version' \in Versions /\ moments' \subseteq Versions
    BY <1>1, ChangesGrow DEF EditCatalog, Inputs
  <2> QED
    BY <1>1, <2>1 DEF EditCatalog, Typed, InitializationTypeOK
<1>2. ASSUME NEW t \in Handlers, SaveWrites(t) PROVE Typed'
  <2>1. version' \in Versions /\ moments' \subseteq Versions
    BY <1>2, ChangesGrow DEF SaveWrites, Inputs, Typed, InitializationTypeOK
  <2>2. requested' \subseteq Workspaces
    BY <1>2 DEF SaveWrites, Typed, InitializationTypeOK
  <2> QED
    BY <1>2, <2>1, <2>2, EndTypes DEF SaveWrites, Typed, InitializationTypeOK
<1>3. ASSUME NEW t \in Handlers, NEW w \in Workspaces, TakeLock(t, w) PROVE Typed'
  BY <1>3 DEF TakeLock, Typed, InitializationTypeOK, Steps
<1>4. ASSUME NEW t \in Handlers, SelectActive(t) PROVE Typed'
  BY <1>4 DEF SelectActive, Typed, InitializationTypeOK, Steps
<1>5. ASSUME NEW t \in Handlers, DigestCreation(t) PROVE Typed'
  <2>1. [digests[t] EXCEPT !["creation"] = version["creation"]] \in Versions
    BY DEF Typed, InitializationTypeOK, Versions, Inputs
  <2>2. digests' \in [Handlers -> Versions]
    BY <1>5, <2>1 DEF DigestCreation, Typed, InitializationTypeOK
  <2> QED
    BY <1>5, <2>2 DEF DigestCreation, Typed, InitializationTypeOK, Steps
<1>6. ASSUME NEW t \in Handlers, DigestCatalog(t) PROVE Typed'
  <2>1. [digests[t] EXCEPT !["catalog"] = version["catalog"]] \in Versions
    BY DEF Typed, InitializationTypeOK, Versions, Inputs
  <2>2. digests' \in [Handlers -> Versions]
    BY <1>6, <2>1 DEF DigestCatalog, Typed, InitializationTypeOK
  <2>5. plans' \in Nat
    <3>1. plans' = plans + 1
      BY <1>6 DEF DigestCatalog
    <3>2. plans \in Nat
      BY DEF Typed, InitializationTypeOK
    <3> QED
      BY <3>1, <3>2
  <2>6. Unread \in Versions
    BY NoFileType
  <2>3. [n |-> plans', of |-> Unread] \in Plans
    BY <2>5, <2>6 DEF Plans
  <2>4. draft' \in [Handlers -> Plans]
    BY <1>6, <2>3 DEF DigestCatalog, Typed, InitializationTypeOK
  <2> QED
    BY <1>6, <2>2, <2>4, <2>5 DEF DigestCatalog, Typed, InitializationTypeOK, Steps
<1>7. ASSUME NEW t \in Handlers, InitializeFromRequest(t) PROVE Typed'
  <2>1. PICK i \in Inputs :
            draft' = [draft EXCEPT ![t] =
                        [n |-> draft[t].n, of |-> [draft[t].of EXCEPT ![i] = version[i]]]]
    BY <1>7 DEF InitializeFromRequest
  <2>2. draft[t].n \in Nat /\ [draft[t].of EXCEPT ![i] = version[i]] \in Versions
    BY TypesOf DEF Typed, InitializationTypeOK, Versions
  <2>3. [n |-> draft[t].n, of |-> [draft[t].of EXCEPT ![i] = version[i]]] \in Plans
    BY <2>2 DEF Plans
  <2>4. draft' \in [Handlers -> Plans]
    BY <2>1, <2>3 DEF Typed, InitializationTypeOK
  <2>5. step' \in [Handlers -> Steps]
    BY <1>7 DEF InitializeFromRequest, Typed, InitializationTypeOK, Steps
  <2> QED
    BY <1>7, <2>4, <2>5 DEF InitializeFromRequest, Typed, InitializationTypeOK
<1>8. ASSUME NEW t \in Handlers, NEW i, NEW now \in Steps \ {"idle"}, NEW next \in Steps,
             InputDigestMatches(t, i, now, next)
      PROVE Typed'
  BY <1>8 DEF InputDigestMatches, Typed, InitializationTypeOK
<1>9. ASSUME NEW t \in Handlers, UnlinkRequest(t) PROVE Typed'
  BY <1>9, NoFileType DEF UnlinkRequest, Typed, InitializationTypeOK, Steps
<1>10. ASSUME NEW t \in Handlers, PlacePlan(t) PROVE Typed'
  BY <1>10 DEF PlacePlan, Typed, InitializationTypeOK, Steps
<1>11. ASSUME NEW t \in Handlers, PreparedRequestFits(t) PROVE Typed'
  BY <1>11 DEF PreparedRequestFits, Typed, InitializationTypeOK, Steps
<1>12. ASSUME NEW t \in Handlers, PublishRequest(t) PROVE Typed'
  BY <1>12, EndTypes DEF PublishRequest, Typed, InitializationTypeOK
<1>13. ASSUME NEW t \in Handlers, PreparationFails(t) PROVE Typed'
  BY <1>13, EndTypes DEF PreparationFails, Typed, InitializationTypeOK
<1>14. ASSUME NEW t \in Handlers, StartExecution(t) PROVE Typed'
  <2>1. target[t] \in Workspaces /\ started' \in Nat
    BY <1>14 DEF StartExecution, Typed, InitializationTypeOK
  <2>2. NoFile \in Plans
    BY NoFileType
  <2>3. [id |-> started', ws |-> target[t], pins |-> NoFile, runs |-> FALSE]
            \in [id : Nat, ws : Workspaces, pins : Plans, runs : BOOLEAN]
    BY <2>1, <2>2
  <2>4. executions' \subseteq [id : Nat, ws : Workspaces, pins : Plans, runs : BOOLEAN]
    BY <1>14, <2>3 DEF StartExecution, Typed, InitializationTypeOK
  <2> QED
    BY <1>14, <2>1, <2>4, EndTypes DEF StartExecution, Typed, InitializationTypeOK
<1>15. ASSUME NEW t \in Handlers, NEW w \in Workspaces, SaveChecks(t, w) \/ FindRequest(t, w)
       PROVE Typed'
  BY <1>15 DEF SaveChecks, FindRequest, Typed, InitializationTypeOK, Steps
<1>16. ASSUME NEW e \in executions, Execution(e) PROVE Typed'
  <2>1. version' \in Versions /\ moments' \subseteq Versions /\ known' \subseteq Workspaces
    <3>1. CASE WriteCatalog(e)
      BY <3>1, ChangesGrow DEF WriteCatalog, Inputs, Typed, InitializationTypeOK
    <3>2. CASE ~WriteCatalog(e)
      BY <1>16, <3>2 DEF Execution, OpenRequest, OpenPlan, WriteReport, ExecutionEnds, Typed,
                         InitializationTypeOK
    <3> QED
      BY <3>1, <3>2
  <2> DEFINE E == [id : Nat, ws : Workspaces, pins : Plans, runs : BOOLEAN]
  <2>2. e \in E /\ executions \subseteq E
    BY DEF Typed, InitializationTypeOK
  <2>3. [e EXCEPT !.pins = request[e.ws]] \in E /\ [e EXCEPT !.runs = TRUE] \in E
    BY <2>2 DEF Typed, InitializationTypeOK
  <2>4. executions' \subseteq E
    BY <1>16, <2>2, <2>3 DEF Execution, OpenRequest, OpenPlan, WriteCatalog, WriteReport,
                             ExecutionEnds, Becomes
  <2>5. report' \in [Workspaces -> Plans]
    BY <1>16, <2>2 DEF Execution, OpenRequest, OpenPlan, WriteCatalog, WriteReport,
                       ExecutionEnds, Typed, InitializationTypeOK
  <2>6. UNCHANGED <<plan, request, lock, step, target, preparing, plans, started, inForce>>
    BY <1>16 DEF Execution, OpenRequest, OpenPlan, WriteCatalog, WriteReport, ExecutionEnds, Platform
  <2>7. requested' = requested /\ edits' = edits
    BY <1>16 DEF Execution, OpenRequest, OpenPlan, WriteCatalog, WriteReport, ExecutionEnds
  <2> QED
    BY <2>1, <2>4, <2>5, <2>6, <2>7 DEF Typed, InitializationTypeOK
<1>17. ASSUME NEW b \in Backends, Crash(b) PROVE Typed'
  BY <1>17, EndTypes DEF Crash, Typed, InitializationTypeOK
<1>18. ASSUME NEW t \in Handlers, RequestInitializationExecution(t) PROVE Typed'
  <2>1. plan[target[t]] \in Plans
    BY <1>18 DEF RequestInitializationExecution, Typed, InitializationTypeOK
  <2>2. pinned' \in [Handlers -> Plans]
    BY <1>18, <2>1 DEF RequestInitializationExecution, Typed, InitializationTypeOK
  <2> QED
    BY <1>18, <2>2 DEF RequestInitializationExecution, Typed, InitializationTypeOK, Steps
<1> QED
  BY <1>0, <1>1, <1>2, <1>3, <1>4, <1>5, <1>6, <1>7, <1>8, <1>9, <1>10, <1>11, <1>12, <1>13,
     <1>14, <1>15, <1>16, <1>17, <1>18 DEF InitializationNext, Preparation, Steps

-----------------------------------------------------------------------------
(* What threads know, and the files.                                       *)

\* Two threads of one backend do not prepare at once.
LEMMA OneHolder ==
    ASSUME OneBackend, NEW t \in Handlers, NEW u \in Handlers, Own(u), step[u] \in Holding,
           lock[BackendOf[t]] \in {t, NoHandler}
    PROVE  u = t
<1>1. lock[BackendOf[t]] = u
  BY DEF Own, OneBackend
<1> QED
  BY <1>1, InitializationAssumption DEF NoHandler

\* A step of one thread that holds the lock, or takes it.
OnlyMoves(t) == \A u \in Handlers \ {t} :
    /\ step'[u] = step[u] /\ target'[u] = target[u] /\ digests'[u] = digests[u]
    /\ draft'[u] = draft[u] /\ pinned'[u] = pinned[u]
LEMMA OthersKept ==
    ASSUME OneBackend, IInv, Typed', NEW t \in Handlers, OnlyMoves(t),
           lock[BackendOf[t]] \in {t, NoHandler}, UNCHANGED <<version, moments>>
    PROVE  \A u \in Handlers \ {t} : Own(u)'
<1> SUFFICES ASSUME NEW u \in Handlers \ {t} PROVE Own(u)'
  OBVIOUS
<1>1. step[u] \notin Holding
  BY OneHolder DEF IInv
<1>2. \A j \in Inputs : version[j] <= version'[j]
  BY DEF IInv, Typed, InitializationTypeOK, Versions
<1> QED
  BY <1>1, <1>2, OwnKept DEF IInv, OnlyMoves

\* A step that changes no file.
Rests(u) ==
    /\ step'[u] = step[u] /\ target'[u] = target[u] /\ digests'[u] = digests[u]
    /\ draft'[u] = draft[u] /\ pinned'[u] = pinned[u]
    /\ lock'[BackendOf[u]] = lock[BackendOf[u]]
LEMMA OthersKeep ==
    ASSUME IInv, Typed', \A u \in Handlers : Own(u)' \/ Rests(u),
           UNCHANGED <<plan, request, inForce>>,
           moments \subseteq moments', \A j \in Inputs : version[j] <= version'[j]
    PROVE  \A u \in Handlers : Own(u)'
<1> SUFFICES ASSUME NEW u \in Handlers, Rests(u) PROVE Own(u)'
  OBVIOUS
<1> QED
  BY OwnKept DEF IInv, Rests

LEMMA SameVersions ==
    ASSUME IInv, UNCHANGED <<version, moments>>
    PROVE  moments \subseteq moments' /\ \A j \in Inputs : version[j] <= version'[j]
  BY DEF IInv, Typed, InitializationTypeOK, Versions

LEMMA SavesKeep ==
    ASSUME IInv, Typed', NEW t \in Handlers,
           \/ SaveWrites(t) \/ StartExecution(t)
           \/ \E w \in Workspaces : SaveChecks(t, w) \/ FindRequest(t, w)
    PROVE  Whole' /\ \A u \in Handlers : Own(u)'
<1> USE DEF inputs, files, preparing
<1>1. /\ UNCHANGED <<plan, request, report, inForce, lock>>
      /\ step'[t] \in {"idle", "saving", "execute"} /\ OnlyMoves(t)
  <2>1. CASE SaveWrites(t) \/ StartExecution(t)
    BY <2>1, EndTypes DEF SaveWrites, StartExecution, OnlyMoves, IInv
  <2>2. CASE \E w \in Workspaces : SaveChecks(t, w) \/ FindRequest(t, w)
    BY <2>2 DEF SaveChecks, FindRequest, Goes, OnlyMoves, IInv, Typed, InitializationTypeOK
  <2> QED
    BY <2>1, <2>2
<1>2. /\ moments \subseteq moments' /\ version' \in moments'
      /\ \A j \in Inputs : version[j] <= version'[j]
  <2>1. CASE UNCHANGED <<version, moments>>
    BY <2>1, SameVersions DEF IInv, Whole
  <2>2. CASE Changes("creation")
    BY <2>2, ChangesGrow DEF IInv, Typed, Inputs
  <2> QED
    BY <2>1, <2>2 DEF SaveWrites, StartExecution, SaveChecks, FindRequest
<1>3. \A e \in executions' : e.pins # NoFile => e \in executions
  BY DEF SaveWrites, StartExecution, SaveChecks, FindRequest
<1>4. Whole'
  BY <1>1, <1>2, <1>3 DEF IInv, Whole
<1>5. \A u \in Handlers : Own(u)' \/ Rests(u)
  BY <1>1, IdleKnows DEF OnlyMoves, Rests
<1> QED
  BY <1>1, <1>2, <1>4, <1>5, OthersKeep

LEMMA EditKeeps ==
    ASSUME IInv, Typed', EditCatalog
    PROVE  Whole' /\ \A u \in Handlers : Own(u)'
<1> USE DEF files, preparing
<1>1. /\ moments \subseteq moments' /\ version' \in moments'
      /\ \A j \in Inputs : version[j] <= version'[j]
  BY ChangesGrow DEF EditCatalog, IInv, Typed, Inputs
<1>2. Whole'
  BY <1>1 DEF EditCatalog, IInv, Whole
<1>3. \A u \in Handlers : Rests(u)
  BY DEF EditCatalog, Rests
<1>4. UNCHANGED <<plan, request, inForce>>
  BY DEF EditCatalog
<1> QED
  BY <1>1, <1>2, <1>3, <1>4, OthersKeep

LEMMA ExecutionKeeps ==
    ASSUME IInv, Typed', NEW e \in executions, Execution(e)
    PROVE  Whole' /\ \A u \in Handlers : Own(u)'
<1> USE DEF inputs, preparing
<1>1. UNCHANGED <<plan, request, lock, step, target, digests, draft, pinned, inForce>>
  BY DEF Execution, OpenRequest, OpenPlan, WriteCatalog, WriteReport, ExecutionEnds, Platform
<1>2. /\ moments \subseteq moments' /\ version' \in moments'
      /\ \A j \in Inputs : version[j] <= version'[j]
  <2>1. CASE WriteCatalog(e)
    BY <2>1, ChangesGrow DEF WriteCatalog, IInv, Typed, Inputs
  <2>2. CASE ~WriteCatalog(e)
    BY <2>2, SameVersions
       DEF Execution, OpenRequest, OpenPlan, WriteReport, ExecutionEnds, IInv, Whole
  <2> QED
    BY <2>1, <2>2
<1>3. e.pins # NoFile => e.pins.of \in moments
  BY DEF IInv, Whole
<1>4. e.ws \in Workspaces
  BY DEF IInv, Typed, InitializationTypeOK
<1>5. \A f \in executions' : f.pins # NoFile => f.pins.of \in moments
  <2>1. CASE OpenRequest(e)
    <3>1. request[e.ws].of \in moments
      BY <1>4, <2>1 DEF OpenRequest, IInv, Whole
    <3>2. executions' = (executions \ {e}) \cup {[e EXCEPT !.pins = request[e.ws]]}
      BY <2>1 DEF OpenRequest, Becomes
    <3>3. [e EXCEPT !.pins = request[e.ws]].pins = request[e.ws]
      BY DEF IInv, Typed, InitializationTypeOK
    <3> QED
      BY <3>1, <3>2, <3>3 DEF IInv, Whole
  <2>2. CASE OpenPlan(e)
    <3>1. executions' = (executions \ {e}) \cup {[e EXCEPT !.runs = TRUE]}
      BY <2>2 DEF OpenPlan, Becomes
    <3>2. [e EXCEPT !.runs = TRUE].pins = e.pins
      BY DEF IInv, Typed, InitializationTypeOK
    <3> QED
      BY <1>3, <3>1, <3>2 DEF IInv, Whole
  <2>3. CASE WriteCatalog(e) \/ WriteReport(e) \/ ExecutionEnds(e)
    BY <2>3 DEF WriteCatalog, WriteReport, ExecutionEnds, IInv, Whole
  <2> QED
    BY <2>1, <2>2, <2>3 DEF Execution
<1>6. \A w \in Workspaces : report'[w] # NoFile => report'[w].of \in moments
  <2>1. CASE WriteReport(e)
    BY <1>3, <2>1 DEF WriteReport, IInv, Whole, Typed, InitializationTypeOK
  <2>2. CASE ~WriteReport(e)
    BY <2>2 DEF Execution, OpenRequest, OpenPlan, WriteCatalog, ExecutionEnds, IInv, Whole
  <2> QED
    BY <2>1, <2>2
<1>7. Whole'
  BY <1>1, <1>2, <1>5, <1>6 DEF IInv, Whole
<1>8. \A u \in Handlers : Rests(u)
  BY <1>1 DEF Rests
<1> QED
  BY <1>1, <1>2, <1>7, <1>8, OthersKeep

LEMMA CrashKeeps ==
    ASSUME IInv, Typed', NEW b \in Backends, Crash(b)
    PROVE  Whole' /\ \A u \in Handlers : Own(u)'
<1> USE DEF inputs, files
<1>1. \A u \in Handlers : BackendOf[u] = b => Own(u)'
  BY EndTypes, IdleKnows DEF Crash, IInv
<1>2. \A u \in Handlers : BackendOf[u] # b => Rests(u)
  BY EndTypes, InitializationAssumption
     DEF Crash, IInv, Typed, InitializationTypeOK, Rests
<1>3. moments \subseteq moments' /\ \A j \in Inputs : version[j] <= version'[j]
  BY SameVersions DEF Crash
<1>4. Whole'
  BY DEF Crash, IInv, Whole
<1> QED
  BY <1>1, <1>2, <1>3, <1>4, OthersKeep DEF Crash

\* The steps of a preparation.  Each leaves the versions alone, and its
\* thread holds the lock, so it is enough to see what this thread knows.
Alone(t) ==
    /\ OnlyMoves(t) /\ UNCHANGED <<version, moments>>
    /\ lock[BackendOf[t]] \in {t, NoHandler}
LEMMA AloneKeeps ==
    ASSUME OneBackend, IInv, Typed', NEW t \in Handlers, Alone(t), Own(t)'
    PROVE  \A u \in Handlers : Own(u)'
  BY OthersKept DEF Alone

OthersLocals(t) == \A u \in Handlers \ {t} :
    digests'[u] = digests[u] /\ draft'[u] = draft[u] /\ pinned'[u] = pinned[u]
LEMMA PreparesAlone ==
    ASSUME IInv, NEW t \in Handlers, NEW now \in Holding, NEW next, Prepares(t, now, next),
           OthersLocals(t)
    PROVE  /\ Alone(t) /\ step'[t] = next /\ target'[t] = target[t] /\ target[t] \in Workspaces
           /\ lock'[BackendOf[t]] = t
           /\ UNCHANGED <<version, moments, executions>>
<1>1. step[t] = now /\ step' = [step EXCEPT ![t] = next] /\ step \in [Handlers -> Steps]
  BY DEF Prepares, Goes, IInv, Typed, InitializationTypeOK
<1>2. lock[BackendOf[t]] = t
  BY <1>1 DEF IInv, Own
<1>3. "idle" \notin Holding
  BY DEF Holding, FromPlan, FromCheck, FromUnlink, FromPlace, FromRequest, FromRecheck
<1>4. target[t] \in Workspaces
  BY <1>1, <1>3 DEF IInv, Typed
<1> QED
  BY <1>1, <1>2, <1>4 DEF Prepares, Alone, OnlyMoves, OthersLocals, inputs

\* Where each name of a step belongs.
LEMMA StepSets ==
    /\ FromRecheck \subseteq FromRequest /\ FromRequest \subseteq FromPlace
    /\ FromPlace \subseteq FromUnlink /\ FromUnlink \subseteq FromCheck
    /\ FromCheck \subseteq FromPlan /\ FromPlan \subseteq Holding
    /\ {"select", "digest_creation", "digest_catalog"} \cap FromPlan = {}
    /\ {"select", "digest_creation", "digest_catalog"} \subseteq Holding
    /\ "plan" \in FromPlan \ FromCheck
    /\ {"check_creation", "check_catalog"} \subseteq FromCheck \ FromUnlink
    /\ "unlink" \in FromUnlink \ FromPlace /\ "place" \in FromPlace \ FromRequest
    /\ {"request", "pin"} \subseteq FromRequest \ FromRecheck
    /\ FromRecheck = {"recheck_creation", "recheck_catalog", "publish"}
    /\ {"digest_catalog", "check_catalog"} \cap FromUnlink = {}
  BY DEF Holding, FromPlan, FromCheck, FromUnlink, FromPlace, FromRequest, FromRecheck

LEMMA BeginKeeps ==
    ASSUME OneBackend, IInv, Typed', NEW t \in Handlers,
           \/ \E w \in Workspaces : TakeLock(t, w)
           \/ SelectActive(t) \/ DigestCreation(t) \/ DigestCatalog(t)
    PROVE  Whole' /\ \A u \in Handlers : Own(u)'
<1> USE DEF files, preparing, inputs
<1>1. Whole'
  BY DEF TakeLock, SelectActive, DigestCreation, DigestCatalog, Prepares, IInv, Whole
<1>2. CASE \E w \in Workspaces : TakeLock(t, w)
  <2>1. /\ step'[t] = "select" /\ lock'[BackendOf[t]] = t /\ OnlyMoves(t)
        /\ UNCHANGED <<version, moments>> /\ lock[BackendOf[t]] = NoHandler
    BY <1>2, InitializationAssumption
       DEF TakeLock, Goes, OnlyMoves, IInv, Typed, InitializationTypeOK
  <2>2. Own(t)'
    BY <2>1, StepSets DEF Own
  <2> QED
    BY <1>1, <2>1, <2>2, AloneKeeps DEF Alone
<1>3. CASE SelectActive(t)
  <2>1. Alone(t) /\ step'[t] = "digest_creation" /\ lock'[BackendOf[t]] = t
    BY <1>3, PreparesAlone, StepSets DEF SelectActive, OthersLocals
  <2>2. Own(t)'
    BY <2>1, StepSets DEF Own
  <2> QED
    BY <1>1, <2>1, <2>2, AloneKeeps
<1>4. CASE DigestCreation(t)
  <2>1. digests' = [digests EXCEPT ![t] = [digests[t] EXCEPT !["creation"] = version["creation"]]]
    BY <1>4 DEF DigestCreation
  <2>2. digests'[t]["creation"] = version["creation"]
    BY <2>1 DEF IInv, Typed, InitializationTypeOK, Versions, Inputs
  <2>9. OthersLocals(t)
    BY <1>4, <2>1 DEF DigestCreation, OthersLocals, IInv, Typed, InitializationTypeOK
  <2>3. Alone(t) /\ step'[t] = "digest_catalog" /\ lock'[BackendOf[t]] = t /\ version' = version
    BY <1>4, <2>9, PreparesAlone, StepSets DEF DigestCreation
  <2>4. version["creation"] <= version["creation"]
    BY DEF IInv, Typed, InitializationTypeOK, Versions, Inputs
  <2>5. Own(t)'
    BY <2>2, <2>3, <2>4, StepSets DEF Own
  <2> QED
    BY <1>1, <2>3, <2>5, AloneKeeps
<1>5. CASE DigestCatalog(t)
  <2>1. digests' = [digests EXCEPT ![t] = [digests[t] EXCEPT !["catalog"] = version["catalog"]]]
    BY <1>5 DEF DigestCatalog
  <2>2. /\ digests'[t]["catalog"] = version["catalog"]
        /\ digests'[t]["creation"] = digests[t]["creation"]
    BY <2>1 DEF IInv, Typed, InitializationTypeOK, Versions, Inputs
  <2>3. draft' = [draft EXCEPT ![t] = [n |-> plans', of |-> Unread]]
    BY <1>5 DEF DigestCatalog
  <2>4. draft'[t].of = Unread
    BY <2>3 DEF IInv, Typed, InitializationTypeOK
  <2>9. OthersLocals(t)
    BY <1>5, <2>1, <2>3 DEF DigestCatalog, OthersLocals, IInv, Typed, InitializationTypeOK
  <2>5. Alone(t) /\ step'[t] = "plan" /\ lock'[BackendOf[t]] = t /\ version' = version
    BY <1>5, <2>9, PreparesAlone, StepSets DEF DigestCatalog
  <2>6. digests[t]["creation"] <= version["creation"] /\ version["catalog"] <= version["catalog"]
    <3>1. step[t] = "digest_catalog"
      BY <1>5 DEF DigestCatalog, Prepares
    <3>2. version["catalog"] \in Nat
      BY DEF IInv, Typed, InitializationTypeOK, Versions, Inputs
    <3>3. Own(t)
      BY DEF IInv
    <3>4. digests[t]["creation"] <= version["creation"]
      BY <3>1, <3>3 DEF Own
    <3>5. version["catalog"] <= version["catalog"]
      BY <3>2
    <3> QED
      BY <3>4, <3>5
  <2>7. \A i \in Inputs : digests'[t][i] <= version'[i] /\ draft'[t].of[i] = 0
    BY <2>2, <2>4, <2>5, <2>6 DEF Inputs, Unread
  <2>8. Own(t)'
    BY <2>5, <2>7, StepSets DEF Own
  <2> QED
    BY <1>1, <2>5, <2>8, AloneKeeps
<1> QED
  BY <1>2, <1>3, <1>4, <1>5

LEMMA PlanKeeps ==
    ASSUME OneBackend, IInv, Typed', NEW t \in Handlers, InitializeFromRequest(t)
    PROVE  Whole' /\ \A u \in Handlers : Own(u)'
<1> USE DEF files
<1> DEFINE next == IF \E i \in Inputs : draft'[t].of[i] = 0 THEN "plan" ELSE "check_creation"
<1>1. PICK i \in Inputs :
          draft' = [draft EXCEPT ![t] =
                      [n |-> draft[t].n, of |-> [draft[t].of EXCEPT ![i] = version[i]]]]
  BY DEF InitializeFromRequest
<1>2. Prepares(t, "plan", next) /\ digests' = digests /\ pinned' = pinned
  BY DEF InitializeFromRequest
<1> HIDE DEF next
<1>3. /\ draft'[t].of[i] = version[i]
      /\ \A j \in Inputs \ {i} : draft'[t].of[j] = draft[t].of[j]
  <2>1. draft'[t] = [n |-> draft[t].n, of |-> [draft[t].of EXCEPT ![i] = version[i]]]
    BY <1>1 DEF IInv, Typed, InitializationTypeOK
  <2>2. draft[t].of \in [Inputs -> Nat]
    BY TypesOf DEF IInv, Versions
  <2> QED
    BY <2>1, <2>2
<1>4. OthersLocals(t)
  BY <1>1, <1>2 DEF OthersLocals, IInv, Typed, InitializationTypeOK
<1>5. /\ Alone(t) /\ step'[t] = next /\ lock'[BackendOf[t]] = t /\ version' = version
      /\ step[t] = "plan"
  <2>1. step[t] = "plan"
    BY <1>2 DEF Prepares
  <2>2. "plan" \in Holding
    BY StepSets
  <2> QED
    BY <1>2, <1>4, <2>1, <2>2, PreparesAlone
<1>6. \A j \in Inputs :
          /\ digests[t][j] <= version[j]
          /\ draft[t].of[j] # 0 => digests[t][j] <= draft[t].of[j] /\ draft[t].of[j] <= version[j]
  BY <1>5, StepSets DEF IInv, Own
<1>7. version[i] \in Nat /\ version[i] <= version[i]
  BY DEF IInv, Typed, InitializationTypeOK, Versions
<1>8. \A j \in Inputs :
          /\ digests'[t][j] <= version'[j]
          /\ draft'[t].of[j] # 0 =>
                digests'[t][j] <= draft'[t].of[j] /\ draft'[t].of[j] <= version'[j]
  <2> SUFFICES ASSUME NEW j \in Inputs
      PROVE  /\ digests[t][j] <= version[j]
             /\ draft'[t].of[j] # 0 =>
                   digests[t][j] <= draft'[t].of[j] /\ draft'[t].of[j] <= version[j]
    BY <1>2, <1>5
  <2>1. CASE j = i
    BY <1>3, <1>6, <1>7, <2>1
  <2>2. CASE j # i
    BY <1>3, <1>6, <2>2
  <2> QED
    BY <2>1, <2>2
<1>9. step'[t] \in FromCheck => \A j \in Inputs : draft'[t].of[j] # 0
  BY <1>5, StepSets DEF next
<1>10. step'[t] \in {"plan", "check_creation"}
  BY <1>5 DEF next
<1>11. Own(t)'
  BY <1>5, <1>8, <1>9, <1>10, StepSets DEF Own
<1>12. Whole'
  BY DEF InitializeFromRequest, Prepares, inputs, IInv, Whole
<1> QED
  BY <1>5, <1>11, <1>12, AloneKeeps

\* The comparison of one input's digest.  What it compares is as it was at
\* the beginning, so all that lies between is the same.
LEMMA MatchesAlone ==
    ASSUME IInv, NEW t \in Handlers, NEW i \in Inputs, NEW now \in FromCheck, NEW next,
           InputDigestMatches(t, i, now, next)
    PROVE  /\ Alone(t) /\ step[t] = now /\ step'[t] = next /\ target' = target
           /\ lock'[BackendOf[t]] = t
           /\ UNCHANGED <<version, moments, plan, request, inForce, digests, draft, pinned>>
           /\ Whole' /\ version[i] = digests[t][i] /\ draft[t].of[i] = digests[t][i]
           /\ target[t] \in Workspaces
<1> USE DEF files, preparing, inputs
<1>1. /\ Prepares(t, now, next) /\ version[i] = digests[t][i]
      /\ UNCHANGED <<plan, request, report, inForce, digests, draft, pinned>>
  BY DEF InputDigestMatches
<1>2. OthersLocals(t)
  BY <1>1 DEF OthersLocals
<1>3. now \in Holding
  BY StepSets
<1>4. /\ Alone(t) /\ step'[t] = next /\ lock'[BackendOf[t]] = t
      /\ UNCHANGED <<version, moments, executions>> /\ target[t] \in Workspaces
  BY <1>1, <1>2, <1>3, PreparesAlone
<1>5. step[t] = now /\ target' = target
  BY <1>1 DEF Prepares
<1>6. /\ draft[t].of[i] # 0 /\ digests[t][i] <= draft[t].of[i] /\ draft[t].of[i] <= version[i]
  BY <1>5, StepSets DEF IInv, Own
<1>7. digests[t][i] \in Nat /\ draft[t].of[i] \in Nat
  BY TypesOf DEF IInv
<1>8. draft[t].of[i] = digests[t][i]
  BY <1>1, <1>6, <1>7
<1>9. Whole'
  BY <1>1, <1>4 DEF IInv, Whole
<1> QED
  BY <1>1, <1>4, <1>5, <1>8, <1>9

LEMMA CheckKeeps ==
    ASSUME OneBackend, IInv, Typed', NEW t \in Handlers,
           \/ InputDigestMatches(t, "creation", "check_creation", "check_catalog")
           \/ InputDigestMatches(t, "catalog", "check_catalog", "unlink")
    PROVE  Whole' /\ \A u \in Handlers : Own(u)'
<1>0. "creation" \in Inputs /\ "catalog" \in Inputs /\ Inputs = {"creation", "catalog"}
  BY DEF Inputs
<1>1. CASE InputDigestMatches(t, "creation", "check_creation", "check_catalog")
  <2>1. /\ Alone(t) /\ step[t] = "check_creation" /\ step'[t] = "check_catalog"
        /\ lock'[BackendOf[t]] = t
        /\ UNCHANGED <<version, moments, digests, draft>>
        /\ Whole' /\ version["creation"] = digests[t]["creation"]
        /\ draft[t].of["creation"] = digests[t]["creation"]
    <3>1. "check_creation" \in FromCheck
      BY StepSets
    <3> QED
      BY <1>0, <1>1, <3>1, MatchesAlone
  <2>2. \A i \in Inputs : /\ digests[t][i] <= version[i] /\ draft[t].of[i] # 0
                          /\ digests[t][i] <= draft[t].of[i] /\ draft[t].of[i] <= version[i]
    BY <2>1, StepSets DEF IInv, Own
  <2>3. version \in moments /\ version["catalog"] <= version["catalog"]
    <3>1. version["catalog"] \in Nat
      BY <1>0 DEF IInv, Typed, InitializationTypeOK, Versions
    <3>2. version["catalog"] <= version["catalog"]
      BY <3>1
    <3> QED
      BY <3>2 DEF IInv, Whole
  <2>4. Own(t)'
    BY <1>0, <2>1, <2>2, <2>3, StepSets DEF Own
  <2> QED
    BY <2>1, <2>4, AloneKeeps
<1>2. CASE InputDigestMatches(t, "catalog", "check_catalog", "unlink")
  <2>1. /\ Alone(t) /\ step[t] = "check_catalog" /\ step'[t] = "unlink"
        /\ lock'[BackendOf[t]] = t
        /\ UNCHANGED <<version, moments, digests, draft>>
        /\ Whole' /\ version["catalog"] = digests[t]["catalog"]
        /\ draft[t].of["catalog"] = digests[t]["catalog"]
    <3>1. "check_catalog" \in FromCheck
      BY StepSets
    <3> QED
      BY <1>0, <1>2, <3>1, MatchesAlone
  <2>2. \A i \in Inputs : /\ digests[t][i] <= version[i] /\ draft[t].of[i] # 0
                          /\ digests[t][i] <= draft[t].of[i] /\ draft[t].of[i] <= version[i]
    BY <2>1, StepSets DEF IInv, Own
  <2>3. Own(t)
    BY DEF IInv
  <2>4. PICK m \in moments : /\ m["creation"] = digests[t]["creation"]
                             /\ draft[t].of["catalog"] <= m["catalog"]
                             /\ m["catalog"] <= version["catalog"]
    BY <2>1, <2>3 DEF Own
  <2>5. draft[t].of["creation"] = digests[t]["creation"]
    BY <2>1, <2>3 DEF Own
  <2>6. m \in [Inputs -> Nat] /\ draft[t].of \in [Inputs -> Nat] /\ digests[t] \in [Inputs -> Nat]
    BY TypesOf DEF IInv, Typed, InitializationTypeOK, Versions
  <2>7. m["catalog"] \in Nat /\ draft[t].of["catalog"] \in Nat /\ version["catalog"] \in Nat
    BY <1>0, <2>6 DEF IInv, Typed, InitializationTypeOK, Versions
  <2>8. m["catalog"] = draft[t].of["catalog"]
    BY <2>1, <2>4, <2>7, Sandwiched
  <2>11. \A i \in Inputs : draft[t].of[i] = m[i] /\ draft[t].of[i] = digests[t][i]
    BY <1>0, <2>1, <2>4, <2>5, <2>8
  <2>9. draft[t].of = m /\ draft[t].of = digests[t]
    BY <2>6, <2>11
  <2>10. Own(t)'
    BY <2>1, <2>2, <2>9, StepSets DEF Own
  <2> QED
    BY <2>1, <2>10, AloneKeeps
<1> QED
  BY <1>1, <1>2

LEMMA RecheckKeeps ==
    ASSUME OneBackend, IInv, Typed', NEW t \in Handlers,
           \/ InputDigestMatches(t, "creation", "recheck_creation", "recheck_catalog")
           \/ InputDigestMatches(t, "catalog", "recheck_catalog", "publish")
    PROVE  Whole' /\ \A u \in Handlers : Own(u)'
<1>0. "creation" \in Inputs /\ "catalog" \in Inputs
  BY DEF Inputs
<1>1. PICK i \in Inputs, now \in FromRecheck, next \in {"recheck_catalog", "publish"} :
          /\ InputDigestMatches(t, i, now, next)
          /\ \/ i = "creation" /\ now = "recheck_creation" /\ next = "recheck_catalog"
             \/ i = "catalog" /\ now = "recheck_catalog" /\ next = "publish"
  BY <1>0 DEF FromRecheck
<1>2. now \in FromCheck
  BY StepSets
<1>3. /\ Alone(t) /\ step[t] = now /\ step'[t] = next /\ target' = target
      /\ lock'[BackendOf[t]] = t
      /\ UNCHANGED <<version, moments, plan, request, inForce, digests, draft, pinned>>
      /\ Whole' /\ version[i] = digests[t][i] /\ target[t] \in Workspaces
  <2>1. InputDigestMatches(t, i, now, next)
    BY <1>1
  <2> QED
    BY <1>2, <2>1, MatchesAlone
<1>4. Own(t)
  BY DEF IInv
<1>5. now \in FromRequest /\ now \in FromPlace /\ now \in FromUnlink /\ now \in FromPlan
  BY StepSets
<1>6. digests[t][i] <= inForce[target[t]][i] /\ inForce[target[t]][i] <= version[i]
  BY <1>3, <1>4, <1>5 DEF Own, Between
<1>7. inForce[target[t]][i] \in Nat /\ digests[t][i] \in Nat /\ version[i] \in Nat
  BY <1>3, TypesOf DEF IInv
<1>8. inForce[target[t]][i] = digests[t][i]
  BY <1>3, <1>6, <1>7, Sandwiched
<1>9. next = "publish" => inForce[target[t]]["creation"] = digests[t]["creation"]
  BY <1>1, <1>3, <1>4 DEF Own
<1>10. Own(t)'
  BY <1>1, <1>2, <1>3, <1>4, <1>5, <1>8, <1>9, StepSets DEF Own
<1> QED
  BY <1>3, <1>10, AloneKeeps

LEMMA PlaceKeeps ==
    ASSUME OneBackend, IInv, Typed', NEW t \in Handlers,
           \/ UnlinkRequest(t) \/ PlacePlan(t)
           \/ RequestInitializationExecution(t) \/ PreparedRequestFits(t)
    PROVE  Whole' /\ \A u \in Handlers : Own(u)'
<1> USE DEF files, preparing, inputs
<1>0. Own(t)
  BY DEF IInv
<1>1. CASE UnlinkRequest(t)
  <2>1. OthersLocals(t) /\ Prepares(t, "unlink", "place")
    BY <1>1 DEF UnlinkRequest, OthersLocals
  <2>2. /\ Alone(t) /\ step'[t] = "place" /\ lock'[BackendOf[t]] = t /\ target'[t] = target[t]
        /\ UNCHANGED <<version, moments, executions>> /\ target[t] \in Workspaces
    BY <2>1, PreparesAlone, StepSets
  <2>3. /\ request' = [request EXCEPT ![target[t]] = NoFile]
        /\ UNCHANGED <<plan, report, inForce, digests, draft, pinned>>
    BY <1>1 DEF UnlinkRequest
  <2>4. step[t] = "unlink"
    BY <2>1 DEF Prepares
  <2>5. Whole'
    BY <2>2, <2>3 DEF IInv, Whole, Typed, InitializationTypeOK
  <2>6. request'[target'[t]] = NoFile
    BY <2>2, <2>3 DEF IInv, Typed, InitializationTypeOK
  <2>7. Own(t)'
    BY <1>0, <2>2, <2>3, <2>4, <2>6, StepSets DEF Own
  <2> QED
    BY <2>2, <2>5, <2>7, AloneKeeps
<1>2. CASE PlacePlan(t)
  <2>1. OthersLocals(t) /\ Prepares(t, "place", "request")
    BY <1>2 DEF PlacePlan, OthersLocals
  <2>2. /\ Alone(t) /\ step'[t] = "request" /\ lock'[BackendOf[t]] = t /\ target'[t] = target[t]
        /\ UNCHANGED <<version, moments, executions>> /\ target[t] \in Workspaces
    BY <2>1, PreparesAlone, StepSets
  <2>3. /\ plan' = [plan EXCEPT ![target[t]] = draft[t]]
        /\ inForce' = [inForce EXCEPT ![target[t]] = version]
        /\ UNCHANGED <<request, report, digests, draft, pinned>>
    BY <1>2 DEF PlacePlan
  <2>4. step[t] = "place"
    BY <2>1 DEF Prepares
  <2>5. plan'[target[t]] = draft[t] /\ inForce'[target[t]] = version
    BY <2>2, <2>3 DEF IInv, Typed, InitializationTypeOK
  <2>6. /\ draft[t].of = digests[t] /\ draft[t].of \in moments /\ request[target[t]] = NoFile
        /\ \A i \in Inputs : digests[t][i] <= version[i]
    BY <1>0, <2>4, StepSets DEF Own
  <2>7. \A w \in Workspaces \ {target[t]} : plan'[w] = plan[w] /\ inForce'[w] = inForce[w]
    BY <2>3 DEF IInv, Typed, InitializationTypeOK
  <2>8. Whole'
    BY <2>2, <2>3, <2>5, <2>6, <2>7 DEF IInv, Whole
  <2>9. Between(digests[t], version, version)
    BY <2>6 DEF Between, IInv, Typed, InitializationTypeOK, Versions
  <2>10. Own(t)'
    BY <1>0, <2>2, <2>3, <2>4, <2>5, <2>6, <2>9, StepSets DEF Own
  <2> QED
    BY <2>2, <2>8, <2>10, AloneKeeps
<1>3. CASE RequestInitializationExecution(t)
  <2>1. /\ OthersLocals(t) /\ Prepares(t, "request", "pin")
        /\ pinned' = [pinned EXCEPT ![t] = plan[target[t]]]
        /\ UNCHANGED <<plan, request, report, inForce, digests, draft>>
    BY <1>3 DEF RequestInitializationExecution, OthersLocals, IInv, Typed, InitializationTypeOK
  <2>2. /\ Alone(t) /\ step'[t] = "pin" /\ lock'[BackendOf[t]] = t /\ target'[t] = target[t]
        /\ UNCHANGED <<version, moments, executions>>
    BY <2>1, PreparesAlone, StepSets
  <2>3. step[t] = "request"
    BY <2>1 DEF Prepares
  <2>4. Whole'
    BY <2>1, <2>2 DEF IInv, Whole
  <2>5. Own(t)'
    BY <1>0, <2>1, <2>2, <2>3, StepSets DEF Own
  <2> QED
    BY <2>2, <2>4, <2>5, AloneKeeps
<1>4. CASE PreparedRequestFits(t)
  <2>1. /\ OthersLocals(t) /\ Prepares(t, "pin", "recheck_creation")
        /\ pinned[t] = plan[target[t]]
        /\ UNCHANGED <<plan, request, report, inForce, digests, draft, pinned>>
    BY <1>4 DEF PreparedRequestFits, OthersLocals
  <2>2. /\ Alone(t) /\ step'[t] = "recheck_creation" /\ lock'[BackendOf[t]] = t
        /\ target'[t] = target[t] /\ UNCHANGED <<version, moments, executions>>
    BY <2>1, PreparesAlone, StepSets
  <2>3. step[t] = "pin"
    BY <2>1 DEF Prepares
  <2>4. Whole'
    BY <2>1, <2>2 DEF IInv, Whole
  <2>5. Own(t)'
    BY <1>0, <2>1, <2>2, <2>3, StepSets DEF Own
  <2> QED
    BY <2>2, <2>4, <2>5, AloneKeeps
<1> QED
  BY <1>1, <1>2, <1>3, <1>4

LEMMA EndKeeps ==
    ASSUME OneBackend, IInv, Typed', NEW t \in Handlers, PublishRequest(t) \/ PreparationFails(t)
    PROVE  Whole' /\ \A u \in Handlers : Own(u)'
<1> USE DEF files, inputs
<1>0. Own(t)
  BY DEF IInv
<1>1. step[t] \in Holding
  BY DEF PublishRequest, PreparationFails, IInv, Typed, InitializationTypeOK, Steps, Holding,
         FromPlan, FromCheck, FromUnlink, FromPlace, FromRequest, FromRecheck
<1>2. lock[BackendOf[t]] = t
  BY <1>0, <1>1 DEF Own
<1>3. Alone(t) /\ step'[t] = "idle"
  BY <1>2, EndTypes DEF PublishRequest, PreparationFails, Alone, OnlyMoves, IInv
<1>4. Whole'
  <2>1. CASE PublishRequest(t)
    <3>1. /\ request' = [request EXCEPT ![target[t]] = pinned[t]]
          /\ UNCHANGED <<plan, report, inForce, version, moments, executions>>
          /\ step[t] = "publish"
      BY <2>1 DEF PublishRequest
    <3>2. target[t] \in Workspaces
      BY <3>1 DEF IInv, Typed
    <3>3. pinned[t] = draft[t] /\ plan[target[t]] = draft[t] /\ draft[t].of = digests[t]
      BY <1>0, <3>1, StepSets DEF Own
    <3>4. /\ inForce[target[t]]["creation"] = digests[t]["creation"]
          /\ inForce[target[t]]["catalog"] = digests[t]["catalog"]
      BY <1>0, <3>1 DEF Own
    <3>5. inForce[target[t]] \in [Inputs -> Nat] /\ digests[t] \in [Inputs -> Nat]
      BY <3>2, TypesOf DEF IInv, Typed, InitializationTypeOK, Versions
    <3>6. inForce[target[t]] = digests[t]
      BY <3>4, <3>5 DEF Inputs
    <3>7. request'[target[t]] = plan[target[t]] /\ plan[target[t]].of = inForce[target[t]]
      BY <3>1, <3>2, <3>3, <3>6 DEF IInv, Typed, InitializationTypeOK
    <3>8. \A w \in Workspaces \ {target[t]} : request'[w] = request[w]
      BY <3>1 DEF IInv, Typed, InitializationTypeOK
    <3> QED
      BY <3>1, <3>7, <3>8 DEF IInv, Whole
  <2>2. CASE PreparationFails(t)
    BY <2>2 DEF PreparationFails, IInv, Whole
  <2> QED
    BY <2>1, <2>2
<1> QED
  BY <1>3, <1>4, IdleKnows, AloneKeeps

-----------------------------------------------------------------------------
(* The theorems.                                                           *)

(* Every variable of the initialization keeps its type, with any number of   *)
(* backends: the preparation's lock, what each handler has read and the two  *)
(* files of a plan (product_workspace_initialization.py).                    *)
THEOREM InitializationTypeCorrect == InitializationSpec => []InitializationTypeOK
<1>1. InitializationInit => Typed
  BY InitIInv DEF IInv
<1>2. Typed /\ [InitializationNext]_initializing => Typed'
  BY StepTypes
<1>3. Typed => InitializationTypeOK
  BY DEF Typed
<1> QED
  BY <1>1, <1>2, <1>3, PTL DEF InitializationSpec

LEMMA InitializationInvariant == ASSUME OneBackend PROVE InitializationSpec => []IInv
<1>1. InitializationInit => IInv
  BY InitIInv
<1>2. IInv /\ [InitializationNext]_initializing => IInv'
  <2> SUFFICES ASSUME IInv, [InitializationNext]_initializing PROVE IInv'
    OBVIOUS
  <2>1. Typed'
    BY StepTypes DEF IInv
  <2>2. Whole' /\ \A u \in Handlers : Own(u)'
    <3>1. CASE UNCHANGED initializing
      <4>1. Whole'
        BY <3>1 DEF initializing, inputs, files, IInv, Whole
      <4>2. \A u \in Handlers : Rests(u)
        BY <3>1 DEF initializing, preparing, Rests
      <4>3. UNCHANGED <<plan, request, inForce, version, moments>>
        BY <3>1 DEF initializing, inputs, files
      <4> QED
        BY <2>1, <4>1, <4>2, <4>3, SameVersions, OthersKeep
    <3>2. CASE EditCatalog
      BY <2>1, <3>2, EditKeeps
    <3>3. CASE \E t \in Handlers :
                  \/ SaveWrites(t) \/ StartExecution(t)
                  \/ \E w \in Workspaces : SaveChecks(t, w) \/ FindRequest(t, w)
      BY <2>1, <3>3, SavesKeep
    <3>4. CASE \E t \in Handlers : Preparation(t)
      BY <2>1, <3>4, BeginKeeps, PlanKeeps, CheckKeeps, RecheckKeeps, PlaceKeeps, EndKeeps
         DEF Preparation
    <3>5. CASE \E e \in executions : Execution(e)
      BY <2>1, <3>5, ExecutionKeeps
    <3>6. CASE \E b \in Backends : Crash(b)
      BY <2>1, <3>6, CrashKeeps
    <3> QED
      BY <3>1, <3>2, <3>3, <3>4, <3>5, <3>6 DEF InitializationNext
  <2> QED
    BY <2>1, <2>2 DEF IInv
<1> QED
  BY <1>1, <1>2, PTL DEF InitializationSpec

(* With one backend a request always fits the plan beside it, after any    *)
(* failure or crash between the steps of a preparation.                    *)
THEOREM PairCorrect == ASSUME OneBackend PROVE InitializationSpec => []PairFits
<1>1. IInv => PairFits
  BY DEF IInv, Whole, PairFits
<1> QED
  BY <1>1, InitializationInvariant, PTL

(* With one backend no plan mixes inputs of two moments, whoever changes   *)
(* them while Platform reads them.                                         *)
THEOREM OneMomentCorrect == ASSUME OneBackend PROVE InitializationSpec => []PlansAreOfOneMoment
<1>1. IInv => PlansAreOfOneMoment
  BY DEF IInv, Whole, PlansAreOfOneMoment
<1> QED
  BY <1>1, InitializationInvariant, PTL
=============================================================================
