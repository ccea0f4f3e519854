----------------------------- MODULE StateHooks -----------------------------
(***************************************************************************)
(* A React hook of the browser that keeps one document of the API on the   *)
(* screen.  The hook loads the document when its component is mounted and  *)
(* whenever its options change, some hooks also save to it, and the        *)
(* answers come back in any order.  One behaviour is the life of one hook  *)
(* of Hooks; the record of a hook says how its code is written.            *)
(*                                                                         *)
(*   signal    its cleanup aborts the load that is under way               *)
(*   flag      its cleanup also sets "cancelled", and every answer of a    *)
(*             cancelled load is ignored                                   *)
(*   blanks    it shows "loading" at every load, else only when idle       *)
(*   reloads   its options change while it is mounted                      *)
(*   toggles   it can be disabled, or have no key to load, and is then idle*)
(*   saves     "no", "open" (any time) or "guarded" (one at a time)        *)
(*   apart     an error of a save is kept apart from the state             *)
(*   steps     the requests of a load: one, or a catalog and then content  *)
(*   keyed     its state carries the key it was loaded for, and a state of *)
(*             another key is shown as "loading"                           *)
(*   fails     what each failure of a request is called                    *)
(*   parser    what it accepts, as a parser of StateDocuments              *)
(*                                                                         *)
(* A render with new options and the effect that reacts to it are two      *)
(* steps: an answer can come in between.                                   *)
(***************************************************************************)
EXTENDS StateDocuments, Integers, Sequences

CONSTANTS Hooks,       \* the record of each hook, by its name
          MaxRenders, MaxSaves, MaxWrites,
          MaxCalls      \* requests of one life of a hook

Failures == {"refused", "unreadable", "lost"}
HookType == [signal: BOOLEAN, flag: BOOLEAN, blanks: BOOLEAN, reloads: BOOLEAN,
             toggles: BOOLEAN, saves: {"no", "open", "guarded"}, apart: BOOLEAN,
             steps: {1, 2}, keyed: BOOLEAN, fails: [Failures \cup {"rejected"} -> STRING],
             starts: {"idle", "loading"}]

\* A hook that loads in two steps keeps the key; no failure looks like data.
ASSUME HooksAssumption ==
    \A h \in DOMAIN Hooks :
        /\ Hooks[h].steps = 2 => Hooks[h].keyed
        /\ Hooks[h].starts # "ok"
        /\ \A f \in Failures \cup {"rejected"} : Hooks[h].fails[f] # "ok"

VARIABLES
    hook,       \* the name of the hook that lives in this behaviour
    render,     \* the number of the newest render: stands for its options
    enabled,    \* what the newest render says
    due,        \* its effect has not run yet
    state,      \* what the hook keeps
    pending,    \* pendingRequestId or pending: a save is marked as under way
    saveError,
    calls,      \* every request, oldest first
    store       \* the revision of the document at the server

vars == <<hook, render, enabled, due, state, pending, saveError, calls, store>>

H == Hooks[hook]
Samples == [h \in DOMAIN Hooks |-> Documents(Hooks[h].parser)]

\* What a load knows from the catalog: nothing yet, that its artifact is listed
\* without a digest, or the revision that the digest is of.
NoCatalog == -1
NoDigest == -2

None == [kind |-> "idle", rev |-> 0, from |-> 0, key |-> 0, catalog |-> NoCatalog]
Kind(k) == [None EXCEPT !.kind = k]
Call(op, alone) == [op |-> op, at |-> "sent", answer |-> "ok", rev |-> 0,
                    catalog |-> NoCatalog, key |-> render, alone |-> alone]

Ids(op) == {c \in DOMAIN calls : calls[c].op = op}
Live(op) == {c \in Ids(op) : calls[c].at # "done"}

TypeOK ==
    /\ hook \in DOMAIN Hooks
    /\ render \in 1..MaxRenders
    /\ {enabled, due, pending, saveError} \subseteq BOOLEAN
    /\ state \in [kind: {"idle", "loading", "ok", "choose", "sample"} \cup {H.fails[f] : f \in DOMAIN H.fails},
                  rev: 0..(MaxWrites + MaxSaves), from: 0..Len(calls), key: 0..MaxRenders,
                  catalog: NoDigest..(MaxWrites + MaxSaves)]
    /\ calls \in Seq([op: {"load", "save"}, at: {"sent", "answered", "done"},
                      answer: {"ok", "failed"}, rev: 0..(MaxWrites + MaxSaves),
                      catalog: NoDigest..(MaxWrites + MaxSaves), key: 1..MaxRenders, alone: BOOLEAN])
    /\ store \in 0..(MaxWrites + MaxSaves)

Init ==
    /\ hook \in DOMAIN Hooks
    /\ render = 1
    /\ enabled \in (IF H.toggles THEN BOOLEAN ELSE {TRUE})
    /\ due = TRUE
    /\ state = Kind(IF enabled THEN H.starts ELSE "idle")
    /\ pending = FALSE
    /\ saveError = FALSE
    /\ calls = << >>
    /\ store = 0

(* The component is rendered with other options.                           *)
Render ==
    /\ H.reloads
    /\ render < MaxRenders
    /\ render' = render + 1
    /\ enabled' \in (IF H.toggles THEN BOOLEAN ELSE {TRUE})
    /\ due' = TRUE
    /\ UNCHANGED <<hook, state, pending, saveError, calls, store>>

(* Of a request that has ended only whether a save succeeded is kept.      *)
Ended(call) == [call EXCEPT !.at = "done", !.rev = 0, !.catalog = NoCatalog, !.key = 1,
                            !.answer = IF call.op = "save" THEN call.answer ELSE "ok"]

(* The cleanup of the effect before: the load that is under way ends with  *)
(* an AbortError, whether its answer is still awaited or its body is.      *)
CleanedFault == calls
Cleaned == [c \in DOMAIN calls |->
    IF H.signal /\ c \in Live("load") THEN Ended(calls[c])
                                         ELSE calls[c]]

(* A hook without the flag catches the AbortError of the body of a refused *)
(* answer and takes the answer for one without a body.  A failed answer may*)
(* have been such a one.                                                   *)
LateErrors == IF H.flag THEN {}
              ELSE {c \in Live("load") : H.signal /\ calls[c].at = "answered"
                                                     /\ calls[c].answer = "failed"}

Alone == Live("save") = {} /\ (H.signal \/ Live("load") = {})

(* The effect of the newest render.  What the state becomes at once may be *)
(* overwritten by a late error of the load that the cleanup ended.         *)
Effect ==
    /\ due
    /\ enabled => Len(calls) < MaxCalls
    /\ due' = FALSE
    /\ calls' = IF enabled THEN Append(Cleaned, Call("load", Alone)) ELSE Cleaned
    /\ LET shown == CASE ~enabled -> None
                      [] enabled /\ (H.blanks \/ state.kind = "idle") ->
                             [Kind("loading") EXCEPT !.key = render]
                      [] OTHER -> state
       IN  state' \in {shown} \cup
                      {[Kind(H.fails["refused"]) EXCEPT !.from = c] : c \in LateErrors}
    /\ UNCHANGED <<hook, render, enabled, pending, saveError, store>>

(* The user saves: the request goes out whatever else is under way, unless *)
(* the hook guards it.                                                     *)
Save ==
    /\ H.saves # "no"
    /\ H.saves = "guarded" => ~pending
    /\ Cardinality(Ids("save")) < MaxSaves
    /\ Len(calls) < MaxCalls
    /\ calls' = Append(calls, Call("save", Live("save") \cup Live("load") = {}))
    /\ pending' = TRUE
    /\ saveError' = FALSE
    /\ UNCHANGED <<hook, render, enabled, due, state, store>>

-----------------------------------------------------------------------------
(* The server and the network.                                             *)

Answer(c, answer, rev) ==
    calls' = [calls EXCEPT ![c].at = "answered", ![c].answer = answer, ![c].rev = rev]

ServeLoad(c) ==
    /\ c \in Live("load") /\ calls[c].at = "sent"
    /\ Answer(c, "ok", store)
    /\ UNCHANGED <<hook, render, enabled, due, state, pending, saveError, store>>

(* The answer may be lost, or be an error page, after the save was done.   *)
ServeSave(c) ==
    /\ c \in Live("save") /\ calls[c].at = "sent"
    /\ store' = store + 1
    /\ \E answer \in {"ok", "failed"} : Answer(c, answer, store + 1)
    /\ UNCHANGED <<hook, render, enabled, due, state, pending, saveError>>

Fail(c) ==
    /\ c \in DOMAIN calls /\ calls[c].at = "sent"
    /\ Answer(c, "failed", 0)
    /\ UNCHANGED <<hook, render, enabled, due, state, pending, saveError, store>>

(* Somebody else changes the document: another client, or a publication.   *)
Write ==
    /\ store < MaxWrites
    /\ store' = store + 1
    /\ UNCHANGED <<hook, render, enabled, due, state, pending, saveError, calls>>

-----------------------------------------------------------------------------
(* The browser reads an answer.                                            *)

Done(c) == calls' = [calls EXCEPT ![c] = Ended(calls[c])]
Shows(c, kind) == [None EXCEPT !.kind = kind, !.from = c, !.key = calls[c].key]
ShowsData(c) == [Shows(c, "ok") EXCEPT !.catalog = calls[c].catalog, !.rev = calls[c].rev]

(* verifyDigest: content of another revision than the digest in its        *)
(* catalog is an error; a row without a digest is not compared.            *)
SamePublicationFault(c) == TRUE
SamePublication(c) ==
    H.steps = 2 /\ calls[c].catalog # NoDigest => calls[c].rev = calls[c].catalog

CatalogIsNext(c) == H.steps = 2 /\ calls[c].catalog = NoCatalog

Accepted(c, d) ==
    /\ calls[c].at = "answered" /\ calls[c].answer = "ok" /\ ~CatalogIsNext(c)
    /\ Accepts(H.parser, d) /\ SamePublication(c)
    /\ state' = ShowsData(c)
    /\ saveError' = saveError

Rejected(c, d) ==
    /\ calls[c].at = "answered" /\ calls[c].answer = "ok"
    /\ ~Accepts(H.parser, d) \/ (~CatalogIsNext(c) /\ ~SamePublication(c))
    /\ state' = Shows(c, H.fails["rejected"])
    /\ saveError' = saveError

FailedFault(c) ==
    /\ calls[c].at = "answered" /\ calls[c].answer = "failed"
    /\ state' = state /\ saveError' = (calls[c].op = "save")

(* It was refused, or not JSON, or never came.                             *)
Failed(c) ==
    /\ calls[c].at = "answered" /\ calls[c].answer = "failed"
    /\ IF calls[c].op = "save" /\ H.apart
       THEN state' = state /\ saveError' = TRUE
       ELSE (\E f \in Failures : state' = Shows(c, H.fails[f])) /\ saveError' = saveError

(* The catalog lists no artifact, or several: there is nothing to open yet.*)
Undecided(c) ==
    /\ calls[c].at = "answered" /\ calls[c].answer = "ok" /\ CatalogIsNext(c)
    /\ state' = Shows(c, "choose")
    /\ saveError' = saveError

Read(c) ==
    /\ Failed(c) \/ Undecided(c) \/ \E d \in Samples[hook] : Accepted(c, d) \/ Rejected(c, d)
    /\ Done(c)
    /\ pending' = IF calls[c].op = "save" THEN FALSE ELSE pending
    /\ UNCHANGED <<hook, render, enabled, due, store>>

(* The first answer of a load of two steps: the catalog names an artifact, *)
(* with or without its digest, and the request for its content goes out.   *)
ReadCatalog(c) ==
    /\ calls[c].at = "answered" /\ calls[c].answer = "ok" /\ CatalogIsNext(c)
    /\ \E digest \in {calls[c].rev, NoDigest} :
         calls' = [calls EXCEPT ![c].at = "sent", ![c].catalog = digest]
    /\ UNCHANGED <<hook, render, enabled, due, state, pending, saveError, store>>

Next ==
    \/ Render
    \/ Effect
    \/ Save
    \/ Write
    \/ \E c \in DOMAIN calls : \/ ServeLoad(c)
                              \/ ServeSave(c)
                              \/ Fail(c)
                              \/ ReadCatalog(c)
                              \/ Read(c)

Spec == Init /\ [][Next]_vars

(* A request is answered or fails in the end, and the browser runs effects *)
(* and continuations that are due.                                         *)
Answered(c) == c \in DOMAIN calls /\ (ServeLoad(c) \/ ServeSave(c) \/ Fail(c))
Continued(c) ==
    c \in DOMAIN calls /\ (ReadCatalog(c) \/ Read(c))
Fairness ==
    /\ WF_vars(Effect)
    /\ \A c \in 1..MaxCalls : WF_vars(Answered(c)) /\ WF_vars(Continued(c))
FairSpec == Spec /\ Fairness

-----------------------------------------------------------------------------
(* What the component shows: a state of another key is not shown.          *)
Shown == CASE H.keyed /\ ~enabled -> None
           [] H.keyed /\ enabled /\ state.key # render -> Kind("loading")
           [] OTHER -> state

(* When everything has ended and the newest request was made with nothing  *)
(* else under way but loads that its hook aborts, then its answer is what  *)
(* is shown, and not an older one that came late.  A save that fails shows *)
(* nothing in a hook that keeps its errors apart.                          *)
SettledShowsNewest ==
    LET n == Len(calls)
    IN  (/\ n > 0 /\ ~due /\ enabled
         /\ \A c \in 1..n : calls[c].at = "done"
         /\ calls[n].alone
         /\ calls[n].op = "load" \/ calls[n].answer = "ok" \/ ~H.apart)
            => Shown.from = n

(* Content on the screen of which the panel says that it matches the       *)
(* digest of the catalog is of the publication of that catalog, although   *)
(* another may come between the two requests; and content is always of     *)
(* what the component was last rendered for.                               *)
DigestMatched == Shown.catalog # NoDigest
OnePublication ==
    H.steps = 2 /\ Shown.kind = "ok" =>
        /\ DigestMatched => Shown.catalog = Shown.rev
        /\ Shown.key = render

(* No panel shows "loading" for ever.                                      *)
LoadingEnds == (Shown.kind = "loading") ~> (Shown.kind # "loading")
=============================================================================
