-------------------------- MODULE PanelNavigation --------------------------
(***************************************************************************)
(* Moving about in the workspace page: fragment links, the browser's       *)
(* history, the tabs of the authoring workbench and the disclosures that   *)
(* hide sections, while the document behind the page is loaded, reloaded,  *)
(* replaced by another workspace's or fails to load.  The sections and     *)
(* layouts are those of PanelSections.                                     *)
(*                                                                         *)
(* Three pieces of code listen to the same clicks and hash changes: the    *)
(* panel opens the disclosure of the fresh layout, the workbench selects   *)
(* the pane and opens the disclosures inside it, and both do so again when *)
(* they are mounted with a hash in the address.                            *)
(***************************************************************************)
EXTENDS PanelSections, FiniteSets

CONSTANTS
  Docs,       \* a function from names of documents to documents
  Hashes      \* fragments the address can hold when the page is opened

Names == DOMAIN Docs

\* The sections both layouts have.
SectionIds ==
  {"product-workspace-overview", "managed-operations", "workspace-initialization-path",
   "workspace-creation", "idea-intake", "start-raw-idea", "intake-clarification", "guided-flow",
   "guided-repair-path", "guided-approval-path", "candidate-overview",
   "project-local-ontology-review", "candidate-graph", "pre-sib", "repair-session",
   "idea-maturity", "workspace-state-hygiene", "repair-review", "approval-readiness",
   "materialization", "controlled-promotion"}

\* The links a document brings are to sections of the page, and its files are
\* not named like one.
ASSUME DocsAssumption ==
  /\ Names # {}
  /\ \A n \in Names :
       LET d == Docs[n]
       IN /\ d.overview.actions \cup d.overview.phases \cup d.ops \cup d.flow
               \cup d.repair.target \cup d.repair.checkpoints
               \cup d.approval.target \cup d.approval.checkpoints \subseteq SectionIds
          /\ {f.id : f \in d.files} \cap (SectionIds \cup {"authoring-update"}) = {}
Views == {"questions", "update", "specification", "diagnostics"}

\* The layout of every document and the places an element of it stands in.
Layouts == [n \in Names |-> Layout(Docs[n])]
Elements(n) == UNION {Layouts[n][p] : p \in DOMAIN Layouts[n]}
Ids == UNION {{e.name : e \in {x \in Elements(n) : x.kind \in {"at", "to"}}} : n \in Names}
Where == [n \in Names |->
           [i \in Ids \cup Hashes |-> {p \in DOMAIN Layouts[n] : At(i) \in Layouts[n][p]}]]
LinksIn == [n \in Names |-> [p \in DOMAIN Layouts[n] |->
             {i \in Ids : To(i) \in Layouts[n][p]}]]

Kind == [n \in Names |-> IF Docs[n].demo THEN "demo"
                         ELSE IF usesFreshWorkspaceFocus(Docs[n].overview)
                              THEN "fresh" ELSE "authoring"]
First == [n \in Names |-> initialView(Docs[n])]

VARIABLES
  load,        \* state.kind of the workspace hook (loading, ok, error), or closed
  doc,         \* the document of the last answer (kept while it is reloaded)
  hash,        \* the fragment of the address, or "none"
  diagnosticsOpen,  \* the fresh layout's disclosure: state of the panel
  ideaOpen,    \* the original idea's disclosure: an element of the workbench
  selection,   \* the pane chosen in the workbench, or "none"
  wanted       \* the section last asked for, while it is on the page and
               \* the operator has not turned elsewhere, or "none"
nav == <<load, doc, hash, diagnosticsOpen, ideaOpen, selection, wanted>>

NavTypeOK ==
  /\ load \in {"loading", "ok", "error", "closed"} /\ doc \in Names
  /\ hash \in Ids \cup Hashes \cup {"none"} /\ wanted \in {"none", hash}
  /\ diagnosticsOpen \in BOOLEAN /\ ideaOpen \in BOOLEAN
  /\ selection \in Views \cup {"none"}

NavInit ==
  /\ load = "loading" /\ doc = CHOOSE n \in Names : TRUE
  /\ hash \in Hashes \cup {"none"} /\ wanted = hash
  /\ diagnosticsOpen = FALSE /\ ideaOpen = FALSE /\ selection = "none"

activeView == IF selection = "none" THEN First[doc] ELSE selection

Visible(place) ==
  CASE place = "top"           -> TRUE
    [] place = "disclosure"    -> diagnosticsOpen
    [] place = "original_idea" -> activeView = "questions" /\ ideaOpen
    [] OTHER                   -> activeView = place

\* The pane of the workbench a place belongs to.
PaneOf(place) == IF place = "original_idea" THEN "questions" ELSE place

\* Fault: the pane is selected, its disclosure stays closed.
RevealFault(n, id, old, was) ==
  LET inside == IF Kind[n] = "authoring" /\ id # "none" THEN Where[n][id] \ {"top"} ELSE {}
  IN IF inside = {} THEN selection' = old /\ ideaOpen' = was
     ELSE \E place \in inside : selection' = PaneOf(place) /\ ideaOpen' = was
\* The workbench's reveal of a target that is inside it: the pane is selected
\* and the disclosures around the target are opened.  old and was are the
\* selection and the disclosure before it.
Reveal(n, id, old, was) ==
  LET inside == IF Kind[n] = "authoring" /\ id # "none" THEN Where[n][id] \ {"top"} ELSE {}
  IN IF inside = {} THEN selection' = old /\ ideaOpen' = was
     ELSE \E place \in inside :
            /\ selection' = PaneOf(place)
            /\ ideaOpen' = (was \/ place = "original_idea")

\* The panel's: the disclosure is opened when its body holds the target.
OpenDiagnosticsForHash(n, id) ==
  diagnosticsOpen' = (diagnosticsOpen \/ (/\ Kind[n] = "fresh" /\ id # "none"
                                          /\ "disclosure" \in Where[n][id]))

\* An answer arrives, or the panel is opened with one.  The panel looks at the
\* hash when it is mounted and when the page stops being loading or broken; the
\* workbench when it is mounted, which is also when the workspace changes.
\* Nobody looks when a reload without an error brings the fresh layout or moves
\* a section of it, so what was wanted may then lie behind the disclosure; nor
\* when it brings the target of an older hash.
Load(n) ==
  LET mounts == \/ load # "ok" \/ Kind[doc] # "authoring"
                \/ Docs[n].ws # Docs[doc].ws
  IN /\ load' = "ok" /\ doc' = n /\ UNCHANGED hash
     /\ IF Kind[n] = "authoring" /\ mounts THEN Reveal(n, hash, "none", FALSE)
        ELSE UNCHANGED <<selection, ideaOpen>>
     /\ IF load # "ok" THEN OpenDiagnosticsForHash(n, hash)
        ELSE UNCHANGED diagnosticsOpen
     /\ LET followed == \/ load # "ok" \/ Kind[n] # "fresh"
                        \/ Kind[doc] = "fresh" /\ Where[n][wanted] = Where[doc][wanted]
        IN wanted' = IF wanted # "none" /\ Where[n][wanted] # {} /\ followed
                     THEN wanted ELSE "none"

\* The sections are unmounted; the state of the panel itself stays.
LoadFails == load' = "error" /\ UNCHANGED <<doc, hash, diagnosticsOpen, ideaOpen, selection, wanted>>

\* Another panel of the rail takes its place, or it is closed: nobody listens,
\* and the panel that is mounted next has its disclosure closed.
LeavePanel ==
  /\ load # "closed" /\ Kind[doc] # "demo"
  /\ load' = "closed" /\ diagnosticsOpen' = FALSE
  /\ UNCHANGED <<doc, hash, ideaOpen, selection, wanted>>

\* Both listeners of the page, for a click on a link as for a hash change.
Go(id) ==
  /\ hash' = id
  /\ wanted' = IF load = "ok" /\ Where[doc][id] = {} THEN "none" ELSE id
  /\ IF load = "ok" THEN Reveal(doc, id, selection, ideaOpen)
     ELSE UNCHANGED <<selection, ideaOpen>>
  /\ IF load = "ok" THEN OpenDiagnosticsForHash(doc, id)
     ELSE UNCHANGED diagnosticsOpen
  /\ UNCHANGED <<load, doc>>

\* A click on a link that can be seen; it may name the hash the address has
\* already, and then there is no hash change.
ClickLink ==
  /\ load = "ok"
  /\ \E place \in DOMAIN Layouts[doc] :
       Visible(place) /\ \E id \in LinksIn[doc][place] : Go(id)

\* Back, forward or a new fragment in the address.
HashChange == \E id \in (Hashes \cup Ids) \ {hash} : Go(id)

SelectTab ==
  /\ load = "ok" /\ Kind[doc] = "authoring"
  /\ \E v \in Views : selection' = v
  /\ wanted' = "none" /\ UNCHANGED <<load, doc, hash, diagnosticsOpen, ideaOpen>>

ToggleDiagnostics ==
  /\ load = "ok" /\ Kind[doc] = "fresh"
  /\ diagnosticsOpen' = ~diagnosticsOpen
  /\ wanted' = "none" /\ UNCHANGED <<load, doc, hash, ideaOpen, selection>>

ToggleIdea ==
  /\ load = "ok" /\ Kind[doc] = "authoring" /\ activeView = "questions"
  /\ ideaOpen' = ~ideaOpen
  /\ wanted' = "none" /\ UNCHANGED <<load, doc, hash, diagnosticsOpen, selection>>

NavNext ==
  \/ \E n \in Names : Load(n)
  \/ LoadFails \/ LeavePanel \/ ClickLink \/ HashChange
  \/ SelectTab \/ ToggleDiagnostics \/ ToggleIdea

NavSpec == NavInit /\ [][NavNext]_nav

---------------------------------------------------------------------------

\* A link lands: every link of a loaded page has exactly one target in it, and
\* the section the operator asked for last is on the screen, however the page
\* was loaded, reloaded or switched in between.
LinkLands ==
  load = "ok" =>
    /\ \A p \in DOMAIN Layouts[doc] : \A i \in LinksIn[doc][p] :
         Cardinality(Where[doc][i]) = 1
    /\ wanted # "none" => \A place \in Where[doc][wanted] : Visible(place)

\* A page opened read-only offers no button that writes, in any layout, stage
\* or pane.
ReadOnlyWritesNothing ==
  load = "ok" /\ Docs[doc].readOnly =>
    \A e \in Elements(doc) : e.kind # "do"
=============================================================================
