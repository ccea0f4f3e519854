---------------------------- MODULE AnswerForms ----------------------------
(***************************************************************************)
(* The three forms in which an operator answers questions, each with what  *)
(* its button requires, the value it sends, what the server makes of the   *)
(* value and how the saved answer fills the form again:                    *)
(*   repair  a question of the repair review,                              *)
(*   intake  a clarification question with its answer template,            *)
(*   term    a project-local term of the ontology review.                  *)
(* A value is the set of its keys that are not blank; a list of entries    *)
(* that the server drops or refuses has a key of its own, JSONRefused.     *)
(* A text is one of                                                        *)
(*   blank, commas (not blank, but no item when it is split), plain,       *)
(*   relations (every line is a relation), mixed (not every line is),      *)
(* or JSON, which the intake form reads as a list of entries:              *)
(*   labelled    one of them is a string or an object with a label,        *)
(*   unlabelled  only objects, and none has a label,                       *)
(*   claiming    an object claims an authority the operator has not,       *)
(*   hollow      nothing in it is an entry, or no entry has a value.       *)
(***************************************************************************)
EXTENDS Naturals

CONSTANT Questions   \* [form, kind, actions, required] records

\* The actions that are answered with a reason.
ReasonActions == {"reject", "defer", "defer_candidate"}

\* What the artifacts offer: terms are bound, made aliases or proposed for an
\* ontology gap; a template names keys its action can send, and a template of
\* relations asks for no other list in the same text.
ASSUME QuestionsAssumption ==
  \A r \in Questions :
    /\ r.form \in {"repair", "intake", "term"}
    /\ r.form = "repair" /\ r.kind # "ontology_gap" =>
         r.actions \cap {"bind_existing_term", "alias", "propose_project_local_term"} = {}
    /\ r.form = "term" =>
         r.actions \subseteq {"keep_project_local", "bind_existing", "alias", "reject",
                             "request_workspace_promotion", "defer"}
    /\ r.form = "intake" => \A a \in r.actions :
         /\ a \in {"answer_question", "provide_candidate_context"} \cup ReasonActions
         /\ r.required[a] \subseteq
              (IF a \in ReasonActions THEN {"reason", "follow_up"}
               ELSE {"refs", "entries", "relations", "terms", "term", "answer", "context"})
         /\ r.kind = "topology" \/ "relations" \in r.required[a] =>
              r.required[a] \cap {"refs", "entries"} = {}

JSONRefused == {"unlabelled", "claiming"}
Texts == {"blank", "commas", "plain", "relations", "mixed", "labelled", "hollow"}
           \cup JSONRefused

VARIABLES
  question,        \* the question of the row
  action,   \* the selected action
  text,     \* the text area
  fields,   \* the structured fields that are not blank
  stored,   \* the saved answer: action, value and the text it was made from,
            \* or NoAnswer
  refused   \* the last value the form let through and the server refused, or {}
form == <<question, action, text, fields, stored, refused>>

NoAnswer == [action |-> "none", value |-> {}, words |-> "blank"]
Keep(c, S) == IF c THEN S ELSE {}

\* Lists made from a text.
splitIntakeAnswerList(t)    == t \notin {"blank", "commas"}
parseIntakeAnswerEntries(t) ==
  CASE t \in {"blank", "commas", "hollow"} -> {}
    [] t \in JSONRefused                   -> {t}
    [] OTHER                               -> {"entries"}
eventStormingDepthLines(t)  == t # "blank"
workflowRelationHintLines(t) == t \in {"relations", "mixed"}
workflowRelationHintDraftCanSave(t) ==
  eventStormingDepthLines(t) /\ t = "relations"

(***************************************************************************)
(* Repair questions.                                                       *)
(***************************************************************************)

STRUCTURED_ONTOLOGY_GAP_ACTIONS ==
  {"bind_existing_term", "alias", "propose_project_local_term", "reject", "defer"}
STRUCTURED_PRODUCT_SPEC_ACTIONS ==
  {"answer_question", "provide_candidate_context", "reject", "defer"}

isEventStormingDepthRequest(r)    == r.kind \in {"hint", "topology"}
isWorkflowRelationDepthRequest(r) == r.kind = "topology"
isProductSpecRepairRequest(r) ==
  /\ r.kind # "ontology_gap" /\ ~isEventStormingDepthRequest(r)
  /\ r.actions \cap STRUCTURED_PRODUCT_SPEC_ACTIONS # {}

\* The shape of the form for the selected action.
Shape(r, a) ==
  IF r.kind = "ontology_gap" /\ a \in STRUCTURED_ONTOLOGY_GAP_ACTIONS THEN "ontology"
  ELSE IF isEventStormingDepthRequest(r) /\ a = "answer_question" THEN "hints"
  ELSE IF isProductSpecRepairRequest(r) /\ a \in STRUCTURED_PRODUCT_SPEC_ACTIONS THEN "product"
  ELSE "text"

\* Fault: an alias can be saved without the term it is for.
ontologyGapDraftCanSaveFault(a, f) ==
  CASE a = "bind_existing_term"         -> {"term", "ontology_ref"} \subseteq f
    [] a = "alias"                      -> "alias_of" \in f
    [] a = "propose_project_local_term" -> "term" \in f
    [] a \in {"reject", "defer"}        -> "reason" \in f
ontologyGapDraftCanSave(a, f) ==
  CASE a = "bind_existing_term"         -> {"term", "ontology_ref"} \subseteq f
    [] a = "alias"                      -> {"term", "alias_of"} \subseteq f
    [] a = "propose_project_local_term" -> "term" \in f
    [] a \in {"reject", "defer"}        -> "reason" \in f
answerValueForOntologyGapAction(a, f) ==
  CASE a = "bind_existing_term"         -> f \cap {"term", "ontology_ref"}
    [] a = "alias"                      -> f \cap {"term", "alias_of"}
    [] a = "propose_project_local_term" -> Keep("term" \in f, {"terms"})
    [] a = "reject"                     -> f \cap {"term", "reason"}
    [] a = "defer"                      -> f \cap {"reason"}

Context == {"mechanism", "owner", "scope", "risk_decision", "mitigation"}
productSpecGapDraftCanSave(a, f) ==
  CASE a = "answer_question"     -> "answer" \in f
    [] a \in {"reject", "defer"} -> "reason" \in f
    [] OTHER                     -> f \cap Context # {}
\* The resolution intent is a select and never blank; the summary of the
\* context is sent as its text.
answerValueForProductSpecAction(a, f) ==
  CASE a = "answer_question" -> Keep("answer" \in f, {"text"}) \cup (f \cap {"affected_ref"})
    [] a = "reject"          -> f \cap {"reason"}
    [] a = "defer"           -> f \cap {"reason", "follow_up"}
    [] OTHER -> {"text", "resolution_intent"} \cup (f \cap (Context \cup {"affected_ref"}))

eventStormingDepthDraftCanSave(r, t) ==
  IF isWorkflowRelationDepthRequest(r) THEN workflowRelationHintDraftCanSave(t)
  ELSE eventStormingDepthLines(t)
answerValueForEventStormingDepthRequest(r, t) ==
  IF isWorkflowRelationDepthRequest(r)
  THEN Keep(workflowRelationHintLines(t), {"relations"})
  ELSE Keep(eventStormingDepthLines(t), {"entries"})

\* The text area alone; it sends no term with a reference.
answerValueForDraftAction(a, t) ==
  CASE a = "bind_existing_term" -> {"ontology_ref"}
    [] a = "alias"              -> {"alias_of"}
    [] a = "propose_project_local_term" -> Keep(splitIntakeAnswerList(t), {"terms"})
    [] a \in {"reject", "defer"} -> {"reason"}
    [] OTHER                    -> {"text"}

RepairCanSave(r, a, t, f) ==
  CASE Shape(r, a) = "ontology" -> ontologyGapDraftCanSave(a, f)
    [] Shape(r, a) = "hints"    -> eventStormingDepthDraftCanSave(r, t)
    [] Shape(r, a) = "product"  -> productSpecGapDraftCanSave(a, f)
    [] Shape(r, a) = "text"     -> t # "blank"
RepairValue(r, a, t, f) ==
  CASE Shape(r, a) = "ontology" -> answerValueForOntologyGapAction(a, f)
    [] Shape(r, a) = "hints"    -> answerValueForEventStormingDepthRequest(r, t)
    [] Shape(r, a) = "product"  -> answerValueForProductSpecAction(a, f)
    [] Shape(r, a) = "text"     -> answerValueForDraftAction(a, t)

\* The fields of the structured forms that an action shows.
OntologyGapDraftInputs(a) ==
  Keep(a # "defer", {"term"}) \cup Keep(a = "bind_existing_term", {"ontology_ref"})
    \cup Keep(a = "alias", {"alias_of"}) \cup Keep(a \in {"reject", "defer"}, {"reason"})
ProductSpecGapDraftInputs(a) ==
  CASE a = "reject" -> {"reason"} [] a = "defer" -> {"reason", "follow_up"}
    [] a = "answer_question" -> {"answer", "affected_ref"} [] OTHER -> Context
TypedInto(r, a) ==
  CASE Shape(r, a) = "ontology" -> OntologyGapDraftInputs(a)
    [] Shape(r, a) = "product"  -> ProductSpecGapDraftInputs(a)
    [] OTHER                    -> {}

\* How a draft fills the form; a draft is NoAnswer before the first save.
ontologyDraftFields(d) ==
  Keep(d.value \cap {"term", "terms"} # {}, {"term"})
    \cup (d.value \cap {"ontology_ref", "alias_of", "reason"})
\* The summary is taken for the mechanism when nothing else of the context is
\* known; the affected reference of the question is the default.
productSpecDraftFields(d) ==
  Keep("text" \in d.value, {"answer"})
    \cup Keep(/\ d.action = "provide_candidate_context"
              /\ "text" \in d.value /\ d.value \cap Context = {}, {"mechanism"})
    \cup (d.value \cap (Context \cup {"reason", "follow_up"})) \cup {"affected_ref"}
workflowRelationHintText(d) == "relations"
\* The first key the draft has, in this order.
repairDraftText(d) ==
  IF d.value \cap {"ontology_ref", "alias_of", "reason", "terms"} # {} THEN d.words
  ELSE IF "relations" \in d.value THEN workflowRelationHintText(d)
  ELSE IF d.value \cap {"entries", "text"} # {} THEN d.words ELSE "blank"

(***************************************************************************)
(* Intake questions.                                                       *)
(***************************************************************************)

\* "value" stands for every key of the template; here templates name them.
intakeClarificationRequiredFields(r, a) == r.required[a]

\* Reject and defer without required keys give a reason; otherwise the words of
\* the question tell a list of references, of entries or of relations.
intakeClarificationValueForRequest(r, a, t) ==
  IF a \in ReasonActions THEN Keep(t # "blank", {"reason"})
  ELSE CASE r.kind = "topology" -> Keep(workflowRelationHintLines(t), {"relations"})
         [] r.kind = "entries"  -> parseIntakeAnswerEntries(t)
         [] r.kind = "refs"     -> Keep(splitIntakeAnswerList(t), {"refs"})
         [] OTHER               -> Keep(t # "blank", {"text"})

\* Every required key gets the one text, split as the key asks.
intakeClarificationValueForTemplate(r, a, t) ==
  LET need == intakeClarificationRequiredFields(r, a)
      lists == Keep(splitIntakeAnswerList(t), {"refs", "terms"})
                 \cup Keep(workflowRelationHintLines(t), {"relations"})
      words == Keep(t # "blank", {"reason", "follow_up", "context", "term", "answer"})
  IN IF need = {} THEN intakeClarificationValueForRequest(r, a, t)
     ELSE (need \cap (lists \cup words))
            \cup Keep("entries" \in need, parseIntakeAnswerEntries(t))

templateFieldValueIsPresent(v, key) ==
  key \in v \/ (key = "entries" /\ v \cap JSONRefused # {}) \/ (key \in {"context", "answer"} /\ "text" \in v)
intakeClarificationTemplateValueIsComplete(need, v) ==
  IF need = {} THEN v # {} ELSE \A key \in need : templateFieldValueIsPresent(v, key)
intakeClarificationUsesWorkflowRelations(r, need) ==
  r.kind = "topology" \/ "relations" \in need

IntakeCanSave(r, a, t) ==
  LET need == intakeClarificationRequiredFields(r, a)
  IN /\ intakeClarificationTemplateValueIsComplete(
          need, intakeClarificationValueForTemplate(r, a, t))
     /\ intakeClarificationUsesWorkflowRelations(r, need)
          => workflowRelationHintDraftCanSave(t)

\* Lists come first: references with commas between them, and entries as the
\* JSON they can be read from.
intakeAnswerText(d) ==
  IF "refs" \in d.value
  THEN IF d.words \in {"labelled", "hollow"} \cup JSONRefused THEN d.words ELSE "plain"
  ELSE IF "entries" \in d.value THEN "labelled"
  ELSE IF "relations" \in d.value THEN workflowRelationHintText(d)
  ELSE d.words

(***************************************************************************)
(* Project-local terms.                                                    *)
(***************************************************************************)

\* The term itself is always sent.
projectLocalDecisionValue(a, t) ==
  {"term"} \cup
  Keep(t # "blank",
       CASE a = "bind_existing" -> {"ontology_ref"}
         [] a = "alias"         -> {"alias_of"}
         [] a \in {"keep_project_local", "request_workspace_promotion",
                   "reject", "defer"} -> {"reason"}
         [] OTHER               -> {"text"})
projectLocalDecisionValueIsComplete(a, v) ==
  CASE a = "keep_project_local" -> "term" \in v
    [] a = "bind_existing"      -> "ontology_ref" \in v
    [] a = "alias"              -> "alias_of" \in v
    [] OTHER                    -> "reason" \in v
\* A decision fills the text only for the action it was made with.
projectLocalDecisionText(d, a) ==
  IF d.action = a /\ d.value \cap {"ontology_ref", "alias_of", "reason", "text"} # {}
  THEN d.words ELSE "blank"

(***************************************************************************)
(* The server: the part of a value it keeps, {} when it refuses it.        *)
(***************************************************************************)

Requires(c, v) == IF c THEN v ELSE {}
normalizeRepair(a, v) ==
  CASE a = "bind_existing_term" ->
         Requires({"term", "ontology_ref"} \subseteq v, {"term", "ontology_ref"})
    [] a = "alias" -> Requires({"term", "alias_of"} \subseteq v, {"term", "alias_of"})
    [] a = "propose_project_local_term" ->
         Requires(v \cap {"terms", "term", "text"} # {}, {"terms"})
    [] a = "reject" -> Requires("reason" \in v, v \cap {"reason", "term"})
    [] a = "defer"  -> Requires("reason" \in v, v \cap {"reason", "follow_up"})
    [] a = "answer_question" ->
         Requires(v \cap {"text", "entries", "relations"} # {},
                  v \cap {"text", "entries", "relations", "affected_ref"})
    [] a = "provide_candidate_context" ->
         Requires(v \cap ({"text"} \cup Context) # {},
                  {"text"} \cup (v \cap (Context \cup {"resolution_intent", "affected_ref"})))
    [] OTHER -> Requires("text" \in v, {"text"})

\* The keys a template requires are in what is left of the value.
templateFieldsPresent(r, a, kept) ==
  LET alias == [context |-> "text", answer |-> "text", follow_up |-> "reason"]
  IN \A key \in r.required[a] :
       key \in kept \/ (key \in DOMAIN alias /\ alias[key] \in kept)
\* A value with a claim is refused, entries without a label are dropped.
normalizeIntake(r, a, v) ==
  LET said == Keep(v \cap {"text", "answer", "context"} # {}, {"text"})
      kept == IF a \in ReasonActions
              THEN Keep(v \cap {"reason", "follow_up", "text"} # {}, {"reason"})
              ELSE (v \cap {"refs", "entries", "relations", "terms", "term"}) \cup said
  IN Requires("claiming" \notin v /\ templateFieldsPresent(r, a, kept), kept)

normalizeTerm(a, v) ==
  CASE a = "keep_project_local" -> v \cap {"term", "reason"}
    [] a = "bind_existing"      -> Requires("ontology_ref" \in v, v)
    [] a = "alias"              -> Requires("alias_of" \in v, v)
    [] a \in {"reject", "request_workspace_promotion", "defer"} -> Requires("reason" \in v, v)
    [] OTHER                    -> {}

(***************************************************************************)
(* One row.                                                                *)
(***************************************************************************)

CanSave(r, a, t, f) ==
  CASE r.form = "repair" -> RepairCanSave(r, a, t, f)
    [] r.form = "intake" -> IntakeCanSave(r, a, t)
    [] r.form = "term"   -> projectLocalDecisionValueIsComplete(a, projectLocalDecisionValue(a, t))
Sent(r, a, t, f) ==
  CASE r.form = "repair" -> RepairValue(r, a, t, f)
    [] r.form = "intake" -> intakeClarificationValueForTemplate(r, a, t)
    [] r.form = "term"   -> projectLocalDecisionValue(a, t)
Kept(r, a, v) ==
  CASE r.form = "repair" -> normalizeRepair(a, v)
    [] r.form = "intake" -> normalizeIntake(r, a, v)
    [] r.form = "term"   -> normalizeTerm(a, v)

\* The form as a saved answer fills it.
TextOf(r, a, d) ==
  CASE r.form = "repair" -> repairDraftText(d)
    [] r.form = "intake" -> intakeAnswerText(d)
    [] r.form = "term"   -> projectLocalDecisionText(d, a)
FieldsOf(r, d) ==
  IF r.form # "repair" THEN {}
  ELSE IF r.kind = "ontology_gap" THEN ontologyDraftFields(d) ELSE productSpecDraftFields(d)

FormInit ==
  /\ question \in Questions /\ action \in question.actions
  /\ stored = NoAnswer /\ refused = {}
  /\ text = TextOf(question, action, NoAnswer) /\ fields = FieldsOf(question, NoAnswer)

\* Only the row of a term takes its text from the decision again.
SelectAction ==
  /\ \E a \in question.actions \ {action} :
       /\ action' = a
       /\ text' = IF question.form = "term" THEN TextOf(question, a, stored) ELSE text
  /\ UNCHANGED <<question, fields, stored, refused>>
TypeText ==
  /\ question.form = "repair" => Shape(question, action) \in {"hints", "text"}
  /\ \E t \in Texts \ {text} : text' = t
  /\ UNCHANGED <<question, action, fields, stored, refused>>
\* Only the fields that are shown; the others keep what was typed before.
TypeField ==
  /\ question.form = "repair"
  /\ \E x \in TypedInto(question, action) : fields' = (fields \ {x}) \cup ({x} \ fields)
  /\ UNCHANGED <<question, action, text, stored, refused>>

SaveAnswer ==
  /\ CanSave(question, action, text, fields)
  /\ LET sent == Sent(question, action, text, fields)
         kept == Kept(question, action, sent)
     IN IF kept = {} THEN refused' = sent /\ UNCHANGED stored
        ELSE stored' = [action |-> action, value |-> kept, words |-> text] /\ UNCHANGED refused
  /\ UNCHANGED <<question, action, text, fields>>

\* The saved answers are read again, after a save or a reload of the page: the
\* row takes the saved action and its answer and forgets what was typed.
Refill ==
  /\ stored # NoAnswer
  /\ action' = stored.action
  /\ text' = TextOf(question, stored.action, stored) /\ fields' = FieldsOf(question, stored)
  /\ UNCHANGED <<question, stored, refused>>

FormNext == SelectAction \/ TypeText \/ TypeField \/ SaveAnswer \/ Refill

FormSpec == FormInit /\ [][FormNext]_form

---------------------------------------------------------------------------

\* What a form lets the operator save is what the server takes: the one value
\* an enabled button sends and the server refuses is an intake answer with a
\* JSON list of entries that have no label or claim an authority.  What the
\* server kept fills the form again so that saving it once more loses no key.
SavedIsTaken ==
  /\ refused # {} => question.form = "intake" /\ refused \cap JSONRefused # {}
  /\ stored # NoAnswer =>
       LET t == TextOf(question, stored.action, stored)
           f == FieldsOf(question, stored)
       IN /\ CanSave(question, stored.action, t, f)
          /\ stored.value \subseteq Kept(question, stored.action, Sent(question, stored.action, t, f))
=============================================================================
