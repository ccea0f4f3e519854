--------------------------- MODULE StateHooksProofs ---------------------------
(***************************************************************************)
(* Proofs about StateHooks for any hooks, parsers and numbers of renders,  *)
(* saves, writes and requests.                                             *)
(***************************************************************************)
EXTENDS StateHooks, SequenceTheorems, TLAPS

Calls == [op : {"load", "save"}, at : {"sent", "answered", "done"}, answer : {"ok", "failed"},
          rev : Int, catalog : Int, key : Nat, alone : BOOLEAN]
Newest == calls[Len(calls)]

\* The requests, the renders and the store have their types.
CallsTyped ==
    /\ hook \in DOMAIN Hooks /\ calls \in Seq(Calls)
    /\ render \in Nat /\ store \in Nat

\* What is kept of two answers with a digest is of one publication.
KeptInv ==
    H.steps = 2 /\ state.kind = "ok" /\ state.catalog # NoDigest =>
        state.catalog = state.rev

\* A request made with nothing else under way stays the only one under way, as
\* long as it is the newest.
AloneInv ==
    Len(calls) > 0 /\ Newest.alone =>
        \A c \in DOMAIN calls : c # Len(calls) => calls[c].at = "done"

\* Unless an effect is due, the newest request under way was made for what the
\* hook shows.
KeyInv ==
    Len(calls) > 0 /\ Newest.at # "done" /\ ~due /\ enabled => Newest.key = render

\* Its answer, when it was made with nothing else under way, is what is kept.
SettledInv ==
    (/\ Len(calls) > 0 /\ Newest.alone /\ Newest.at = "done" /\ ~due /\ enabled
     /\ Newest.op = "load" \/ Newest.answer = "ok" \/ ~H.apart)
        => state.from = Len(calls) /\ state.key = render

HooksInv == CallsTyped /\ KeptInv /\ AloneInv /\ KeyInv /\ SettledInv

-----------------------------------------------------------------------------
(* The operators of StateHooks.                                            *)

LEMMA KindParts ==
    ASSUME NEW k PROVE Kind(k).kind = k
  BY DEF Kind, None

LEMMA ShowsParts ==
    ASSUME NEW c, NEW k
    PROVE  /\ Shows(c, k).kind = k
           /\ Shows(c, k).from = c /\ Shows(c, k).key = calls[c].key
  BY DEF Shows, None

LEMMA DataParts ==
    ASSUME NEW c
    PROVE  /\ ShowsData(c).from = c /\ ShowsData(c).key = calls[c].key
           /\ ShowsData(c).catalog = calls[c].catalog /\ ShowsData(c).rev = calls[c].rev
  BY DEF Shows, ShowsData, None

\* The record of a request.
Request(op, at, answer, rev, catalog, key, alone) ==
    [op |-> op, at |-> at, answer |-> answer, rev |-> rev, catalog |-> catalog, key |-> key,
     alone |-> alone]

\* An answer changes one request that is under way.
LEMMA AnswerParts ==
    ASSUME calls \in Seq(Calls), NEW c \in DOMAIN calls, NEW answer \in {"ok", "failed"},
           NEW rev \in Int, Answer(c, answer, rev)
    PROVE  /\ calls' \in Seq(Calls) /\ Len(calls') = Len(calls)
           /\ \A d \in DOMAIN calls : d # c => calls'[d] = calls[d]
           /\ calls'[c].at = "answered" /\ calls'[c].key = calls[c].key
           /\ calls'[c].alone = calls[c].alone
<1> DEFINE x == calls[c]
           y == Request(x.op, "answered", answer, rev, x.catalog, x.key, x.alone)
<1>1. x \in Calls
  OBVIOUS
<1>2. x = Request(x.op, x.at, x.answer, x.rev, x.catalog, x.key, x.alone)
  BY <1>1 DEF Calls, Request
<1>3. y \in Calls
  BY <1>1 DEF Calls, Request
<1>4. calls' = [calls EXCEPT ![c] = y]
  <2>1. calls' = [calls EXCEPT ![c] = [[[x EXCEPT !.at = "answered"] EXCEPT !.answer = answer]
                                          EXCEPT !.rev = rev]]
    BY DEF Answer
  <2>2. [[[x EXCEPT !.at = "answered"] EXCEPT !.answer = answer] EXCEPT !.rev = rev] = y
    <3> HIDE DEF x
    <3> DEFINE x1 == [x EXCEPT !.at = "answered"]
               x2 == [x1 EXCEPT !.answer = answer]
    <3>1. x1 = Request(x.op, "answered", x.answer, x.rev, x.catalog, x.key, x.alone)
      BY <1>2 DEF Request
    <3> HIDE DEF x1
    <3>2. x2 = Request(x.op, "answered", answer, x.rev, x.catalog, x.key, x.alone)
      BY <3>1 DEF Request
    <3> HIDE DEF x2
    <3>3. [x2 EXCEPT !.rev = rev] = y
      BY <3>2 DEF Request
    <3> QED BY <3>3 DEF x1, x2
  <2> QED BY <2>1, <2>2
<1> QED BY <1>3, <1>4 DEF Request

LEMMA EndedParts ==
    ASSUME NEW x \in Calls
    PROVE  /\ Ended(x) \in Calls
           /\ Ended(x).at = "done" /\ Ended(x).op = x.op /\ Ended(x).alone = x.alone
           /\ x.op = "save" => Ended(x).answer = x.answer
<1> DEFINE w == IF x.op = "save" THEN x.answer ELSE "ok"
           x1 == [x EXCEPT !.at = "done"]
           x2 == [x1 EXCEPT !.rev = 0]
           x3 == [x2 EXCEPT !.catalog = NoCatalog]
           x4 == [x3 EXCEPT !.key = 1]
           x5 == [x4 EXCEPT !.answer = w]
<1>1. x = Request(x.op, x.at, x.answer, x.rev, x.catalog, x.key, x.alone)
  BY DEF Calls, Request
<1>2. Ended(x) = x5
  BY DEF Ended
<1> HIDE DEF x1, x2, x3, x4, x5, w
<1>3. x1 = Request(x.op, "done", x.answer, x.rev, x.catalog, x.key, x.alone)
  BY <1>1 DEF x1, Request
<1>4. x2 = Request(x.op, "done", x.answer, 0, x.catalog, x.key, x.alone)
  BY <1>3 DEF x2, Request
<1>5. x3 = Request(x.op, "done", x.answer, 0, -1, x.key, x.alone)
  BY <1>4 DEF x3, Request, NoCatalog
<1>6. x4 = Request(x.op, "done", x.answer, 0, -1, 1, x.alone)
  BY <1>5 DEF x4, Request
<1>7. x5 = Request(x.op, "done", w, 0, -1, 1, x.alone)
  BY <1>6 DEF x5, Request
<1> QED BY <1>2, <1>7 DEF Request, Calls, w

\* A request that was read has ended.
LEMMA DoneParts ==
    ASSUME calls \in Seq(Calls), NEW c \in DOMAIN calls, Done(c)
    PROVE  /\ calls' \in Seq(Calls) /\ Len(calls') = Len(calls)
           /\ \A d \in DOMAIN calls : d # c => calls'[d] = calls[d]
           /\ calls'[c].at = "done" /\ calls'[c].alone = calls[c].alone
           /\ calls'[c].op = calls[c].op
           /\ calls[c].op = "save" => calls'[c].answer = calls[c].answer
<1>1. calls[c] \in Calls
  OBVIOUS
<1> QED BY <1>1, EndedParts DEF Done

-----------------------------------------------------------------------------
(* Every step keeps the invariant.                                         *)

\* A step that changes neither a request nor what is kept, for no effect is due
\* in the end that was not due before.
LEMMA OtherKeeps ==
    ASSUME HooksInv, store' \in Nat,
           UNCHANGED <<hook, calls, state>>,
           UNCHANGED <<render, enabled, due>> \/ (due' = TRUE /\ render' \in Nat)
    PROVE  HooksInv'
  BY DEF HooksInv, CallsTyped, KeptInv, AloneInv, KeyInv, SettledInv, Newest, H

\* A request that is under way is answered, or goes on.
LEMMA AnsweredKeeps ==
    ASSUME HooksInv, NEW c \in DOMAIN calls, calls[c].at # "done",
           UNCHANGED <<hook, render, enabled, due, state>>, store' \in Nat,
           calls' \in Seq(Calls), Len(calls') = Len(calls),
           \A d \in DOMAIN calls : d # c => calls'[d] = calls[d],
           calls'[c].at # "done", calls'[c].key = calls[c].key, calls'[c].alone = calls[c].alone
    PROVE  HooksInv'
<1> USE DEF HooksInv, CallsTyped
<1>1. /\ Len(calls) \in DOMAIN calls
      /\ Newest' = IF c = Len(calls) THEN calls'[c] ELSE Newest
      /\ Newest'.key = Newest.key /\ Newest'.alone = Newest.alone
      /\ Newest'.at = "done" => Newest' = Newest
  BY DEF Newest
<1>2. AloneInv'
  BY <1>1 DEF AloneInv
<1>3. KeyInv'
  <2>1. Newest'.at # "done" => Newest.at # "done"
    BY <1>1 DEF Newest
  <2> QED BY <1>1, <2>1 DEF KeyInv
<1>4. KeptInv' /\ SettledInv'
  BY <1>1 DEF KeptInv, SettledInv, H
<1> QED BY <1>2, <1>3, <1>4

\* Another request goes out.
LEMMA SentKeeps ==
    ASSUME HooksInv, NEW old, old \in Seq(Calls), Len(old) = Len(calls),
           NEW new \in Calls, new.at = "sent", new.key = render,
           calls' = Append(old, new),
           new.alone => \A c \in DOMAIN old : old[c].at = "done",
           UNCHANGED <<hook, render, enabled, store>>,
           KeptInv'
    PROVE  HooksInv'
<1> USE DEF HooksInv, CallsTyped
<1>1. /\ calls' \in Seq(Calls) /\ Len(calls') = Len(old) + 1 /\ Newest' = new
      /\ \A c \in DOMAIN calls' : c # Len(calls') => c \in DOMAIN old /\ calls'[c] = old[c]
  BY DEF Newest
<1>2. AloneInv' /\ KeyInv' /\ SettledInv'
  BY <1>1 DEF AloneInv, KeyInv, SettledInv
<1> QED BY <1>1, <1>2

\* What the cleanup leaves of the requests.
LEMMA CleanedParts ==
    ASSUME CallsTyped
    PROVE  /\ Cleaned \in Seq(Calls) /\ Len(Cleaned) = Len(calls)
           /\ \A c \in DOMAIN calls :
                 \/ Cleaned[c] = calls[c] /\ (H.signal => c \notin Live("load"))
                 \/ Cleaned[c].at = "done" /\ Cleaned[c].alone = calls[c].alone
<1> USE DEF CallsTyped
<1>1. DOMAIN calls = 1 .. Len(calls) /\ Len(calls) \in Nat
  OBVIOUS
<1>2. \A c \in DOMAIN calls : calls[c] \in Calls
  OBVIOUS
<1>3. \A c \in DOMAIN calls : Cleaned[c] \in Calls
  BY <1>2, EndedParts DEF Cleaned
<1>4. Cleaned \in Seq(Calls) /\ Len(Cleaned) = Len(calls)
  <2>1. Cleaned = [c \in 1 .. Len(calls) |-> Cleaned[c]]
    BY <1>1 DEF Cleaned
  <2> QED BY <1>1, <1>3, <2>1
<1>5. \A c \in DOMAIN calls :
          \/ Cleaned[c] = calls[c] /\ (H.signal => c \notin Live("load"))
          \/ Cleaned[c].at = "done" /\ Cleaned[c].alone = calls[c].alone
  BY <1>2, EndedParts DEF Cleaned
<1> QED BY <1>4, <1>5

\* The effect of a render runs.
LEMMA EffectKeeps == ASSUME HooksInv, Effect PROVE HooksInv'
<1> USE DEF HooksInv
<1>1. CallsTyped
  OBVIOUS
<1>2. KeptInv'
  <2> DEFINE failure == H.fails["refused"]
  <2>2. \/ state' = state \/ state' = None \/ state' = [Kind("loading") EXCEPT !.key = render]
        \/ \E c \in LateErrors : state' = [Kind(failure) EXCEPT !.from = c]
    BY DEF Effect
  <2>3. failure # "ok"
    BY <1>1, HooksAssumption DEF H, Failures, CallsTyped
  <2>4. H' = H
    BY DEF Effect, H
  <2>5. state' = state \/ state'.kind # "ok"
    <3> HIDE DEF failure
    <3>1. CASE state' = None
      BY <3>1 DEF None
    <3>2. CASE state' = [Kind("loading") EXCEPT !.key = render]
      BY <3>2 DEF Kind, None
    <3>3. ASSUME NEW c \in LateErrors, state' = [Kind(failure) EXCEPT !.from = c]
          PROVE  state'.kind # "ok"
      BY <2>3, <3>3 DEF Kind, None
    <3> QED BY <2>2, <3>1, <3>2, <3>3
  <2> QED BY <2>4, <2>5 DEF KeptInv
<1>3. CASE enabled
  <2> DEFINE new == Call("load", Alone)
  <2>1. /\ new \in Calls /\ new.at = "sent" /\ new.key = render /\ new.alone = Alone
    BY <1>1 DEF Call, Calls, NoCatalog, CallsTyped, Alone
  <2>2. calls' = Append(Cleaned, new)
        /\ UNCHANGED <<hook, render, enabled, store>>
    BY <1>3 DEF Effect
  <2>3. ASSUME Alone, NEW c \in DOMAIN calls PROVE Cleaned[c].at = "done"
    <3>0. calls[c] \in Calls
      BY <1>1 DEF CallsTyped
    <3>1. calls[c].op \in {"load", "save"}
      BY <3>0 DEF Calls
    <3>2. c \notin Live("save") /\ (H.signal \/ c \notin Live("load"))
      BY <2>3 DEF Alone
    <3> QED BY <1>1, <3>1, <3>2, CleanedParts DEF Live, Ids
  <2>4. DOMAIN Cleaned = DOMAIN calls
    BY DEF Cleaned
  <2> HIDE DEF new
  <2> QED BY <1>1, <1>2, <2>1, <2>2, <2>3, <2>4, CleanedParts, SentKeeps
<1>4. CASE ~enabled
  <2>1. calls' = Cleaned /\ UNCHANGED <<hook, render, enabled, store>>
    BY <1>4 DEF Effect
  <2>2. CallsTyped' /\ KeyInv' /\ SettledInv'
    BY <1>1, <1>4, <2>1, CleanedParts DEF CallsTyped, KeyInv, SettledInv
  <2>3. AloneInv'
    <3> SUFFICES ASSUME Len(calls') > 0, Newest'.alone, NEW c \in DOMAIN calls', c # Len(calls')
                 PROVE  calls'[c].at = "done"
      BY DEF AloneInv
    <3>1. Len(calls') = Len(calls) /\ DOMAIN calls' = DOMAIN calls
      BY <1>1, <2>1, CleanedParts DEF Cleaned
    <3>2. Len(calls) \in DOMAIN calls
      BY <1>1, <3>1 DEF CallsTyped
    <3>3. Newest'.alone = Newest.alone
      BY <1>1, <2>1, <3>1, <3>2, CleanedParts DEF Newest
    <3>4. calls[c].at = "done"
      BY <3>1, <3>3 DEF AloneInv
    <3> QED BY <1>1, <2>1, <3>1, <3>4, CleanedParts
  <2> QED BY <1>2, <2>2, <2>3
<1> QED BY <1>3, <1>4

\* The user saves.
LEMMA SaveKeeps == ASSUME HooksInv, Save PROVE HooksInv'
<1> USE DEF HooksInv
<1> DEFINE alone == Live("save") \cup Live("load") = {}
           new == Call("save", alone)
<1>1. new \in Calls /\ new.at = "sent" /\ new.key = render /\ new.alone = alone
  BY DEF Call, Calls, NoCatalog, CallsTyped
<1>2. calls' = Append(calls, new)
      /\ UNCHANGED <<hook, render, enabled, store, state>>
  BY DEF Save
<1>3. KeptInv'
  BY <1>2 DEF KeptInv, H
<1>4. ASSUME alone, NEW c \in DOMAIN calls PROVE calls[c].at = "done"
  <2>1. calls[c] \in Calls
    BY DEF CallsTyped
  <2>2. calls[c].op \in {"load", "save"}
    BY <2>1 DEF Calls
  <2> QED BY <1>4, <2>2 DEF Live, Ids
<1> HIDE DEF new, alone
<1> QED BY <1>1, <1>2, <1>3, <1>4, SentKeeps DEF CallsTyped

\* An answer is read.
LEMMA ReadKeeps == ASSUME HooksInv, NEW c \in DOMAIN calls, Read(c) PROVE HooksInv'
<1> USE DEF HooksInv
<1>1. CallsTyped /\ calls[c] \in Calls /\ calls[c].at = "answered"
  BY DEF CallsTyped, Read, Failed, Undecided, Accepted, Rejected
<1>2. /\ calls' \in Seq(Calls) /\ Len(calls') = Len(calls)
      /\ \A d \in DOMAIN calls : d # c => calls'[d] = calls[d]
      /\ calls'[c].at = "done" /\ calls'[c].alone = calls[c].alone
      /\ calls'[c].op = calls[c].op
      /\ calls[c].op = "save" => calls'[c].answer = calls[c].answer
  BY <1>1, DoneParts DEF Read, CallsTyped
<1>3. UNCHANGED <<hook, render, enabled, due, store>>
  BY DEF Read
<1>4. \/ /\ state' = state /\ calls[c].answer = "failed" /\ calls[c].op = "save" /\ H.apart
      \/ \E f \in Failures \cup {"rejected"} : state' = Shows(c, H.fails[f])
      \/ state' = Shows(c, "choose")
      \/ state' = ShowsData(c) /\ SamePublication(c)
  <2>1. CASE Failed(c)
    BY <2>1 DEF Failed
  <2>2. ASSUME NEW d, Accepted(c, d)
        PROVE  state' = ShowsData(c) /\ SamePublication(c)
    BY <2>2 DEF Accepted
  <2>3. ASSUME NEW d, Rejected(c, d) PROVE state' = Shows(c, H.fails["rejected"])
    BY <2>3 DEF Rejected
  <2>4. CASE Undecided(c)
    BY <2>4 DEF Undecided
  <2> QED BY <2>1, <2>2, <2>3, <2>4 DEF Read
<1>5. KeptInv'
  <2>1. H' = H
    BY <1>3 DEF H
  <2>2. CASE state' = state
    BY <2>1, <2>2 DEF KeptInv
  <2>3. ASSUME NEW f \in Failures \cup {"rejected"}, state' = Shows(c, H.fails[f]) PROVE KeptInv'
    <3>1. H.fails[f] # "ok"
      BY <1>1, HooksAssumption DEF H, CallsTyped
    <3>2. state'.kind # "ok"
      BY <2>3, <3>1, ShowsParts
    <3> QED BY <3>2 DEF KeptInv
  <2>4. ASSUME state' = ShowsData(c), SamePublication(c) PROVE KeptInv'
    BY <2>1, <2>4, DataParts DEF SamePublication, KeptInv, NoDigest
  <2>5. ASSUME state' = Shows(c, "choose") PROVE KeptInv'
    BY <2>5, ShowsParts DEF KeptInv
  <2> QED BY <1>4, <2>2, <2>3, <2>4, <2>5
<1>6. Len(calls) \in DOMAIN calls /\ Newest' = calls'[Len(calls)] /\ Newest'.alone = Newest.alone
  BY <1>1, <1>2 DEF CallsTyped, Newest
<1>7. AloneInv'
  BY <1>1, <1>2, <1>6 DEF AloneInv, CallsTyped
<1>8. KeyInv'
  BY <1>2, <1>3, <1>6 DEF KeyInv, Newest
<1>9. SettledInv'
  <2> SUFFICES ASSUME Len(calls') > 0, Newest'.alone, ~due', enabled',
                      Newest'.op = "load" \/ Newest'.answer = "ok" \/ ~H'.apart
               PROVE  state'.from = Len(calls') /\ state'.key = render'
    BY DEF SettledInv
  <2>1. c = Len(calls)
    BY <1>1, <1>2, <1>6 DEF AloneInv
  <2>2. calls[c].key = render
    BY <1>1, <1>2, <1>3, <2>1 DEF KeyInv, Newest
  <2>3. ~(calls[c].answer = "failed" /\ calls[c].op = "save" /\ H.apart)
    <3>1. H' = H
      BY <1>3 DEF H
    <3>2. Newest'.op = calls[c].op /\ (calls[c].op = "save" => Newest'.answer = calls[c].answer)
      BY <1>2, <1>6, <2>1
    <3> QED BY <3>1, <3>2
  <2>4. state'.from = c /\ state'.key = calls[c].key
    <3>1. CASE \E f \in Failures \cup {"rejected"} : state' = Shows(c, H.fails[f])
      BY <3>1, ShowsParts
    <3>2. CASE state' = ShowsData(c)
      BY <3>2, DataParts
    <3>3. CASE state' = Shows(c, "choose")
      BY <3>3, ShowsParts
    <3> QED BY <1>4, <2>3, <3>1, <3>2, <3>3
  <2> QED BY <1>2, <1>3, <2>1, <2>2, <2>4
<1> QED BY <1>1, <1>2, <1>3, <1>5, <1>7, <1>8, <1>9 DEF CallsTyped

\* Every step keeps the invariant.
LEMMA HooksStep == HooksInv /\ [Next]_vars => HooksInv'
<1> SUFFICES ASSUME HooksInv, [Next]_vars PROVE HooksInv'
  OBVIOUS
<1>1. CallsTyped
  BY DEF HooksInv
<1>2. CASE UNCHANGED vars
  BY <1>1, <1>2, OtherKeeps DEF vars, CallsTyped
<1>3. CASE Render
  <2>1. store' \in Nat /\ UNCHANGED <<hook, calls, state>> /\ due' = TRUE /\ render' \in Nat
    BY <1>1, <1>3 DEF Render, CallsTyped
  <2> QED BY <2>1, OtherKeeps
<1>4. CASE Write
  BY <1>1, <1>4, OtherKeeps DEF Write, CallsTyped
<1>5. CASE Effect
  BY <1>5, EffectKeeps
<1>6. CASE Save
  BY <1>6, SaveKeeps
<1>7. ASSUME NEW c \in DOMAIN calls, ServeLoad(c) \/ ServeSave(c) \/ Fail(c) PROVE HooksInv'
  <2>1. PICK answer \in {"ok", "failed"}, rev \in Nat : Answer(c, answer, rev)
    BY <1>1, <1>7 DEF ServeLoad, ServeSave, Fail, CallsTyped
  <2>2. calls[c].at = "sent" /\ UNCHANGED <<hook, render, enabled, due, state>> /\ store' \in Nat
    BY <1>1, <1>7 DEF ServeLoad, ServeSave, Fail, CallsTyped
  <2> QED BY <1>1, <2>1, <2>2, AnswerParts, AnsweredKeeps DEF CallsTyped
<1>8. ASSUME NEW c \in DOMAIN calls, ReadCatalog(c) PROVE HooksInv'
  <2>0. PICK digest \in {calls[c].rev, NoDigest} :
            calls' = [calls EXCEPT ![c].at = "sent", ![c].catalog = digest]
    BY <1>8 DEF ReadCatalog
  <2> DEFINE x == calls[c]
             x1 == [x EXCEPT !.at = "sent"]
             y == Request(x.op, "sent", x.answer, x.rev, digest, x.key, x.alone)
  <2>1. x \in Calls /\ x.at # "done"
    BY <1>1, <1>8 DEF CallsTyped, ReadCatalog
  <2>2. x = Request(x.op, x.at, x.answer, x.rev, x.catalog, x.key, x.alone)
    BY <2>1 DEF Calls, Request
  <2>3. calls' = [calls EXCEPT ![c] = [x1 EXCEPT !.catalog = digest]]
    BY <2>0
  <2>10. digest \in Int
    BY <2>0, <2>1 DEF Calls, NoDigest
  <2> HIDE DEF x
  <2>4. x1 = Request(x.op, "sent", x.answer, x.rev, x.catalog, x.key, x.alone)
    BY <2>2 DEF Request
  <2> HIDE DEF x1
  <2>5. [x1 EXCEPT !.catalog = digest] = y
    BY <2>4 DEF Request
  <2>6. y \in Calls
    BY <2>1, <2>10 DEF Calls, Request
  <2>7. y.at = "sent" /\ y.key = x.key /\ y.alone = x.alone
    BY DEF Request
  <2> HIDE DEF y
  <2>8. /\ calls' \in Seq(Calls) /\ Len(calls') = Len(calls) /\ calls'[c] = y
        /\ \A d \in DOMAIN calls : d # c => calls'[d] = calls[d]
    BY <1>1, <2>3, <2>5, <2>6 DEF CallsTyped
  <2>9. UNCHANGED <<hook, render, enabled, due, state>> /\ store' \in Nat
    BY <1>1, <1>8 DEF ReadCatalog, CallsTyped
  <2> QED BY <2>1, <2>7, <2>8, <2>9, AnsweredKeeps DEF x
<1>9. ASSUME NEW c \in DOMAIN calls, Read(c) PROVE HooksInv'
  BY <1>9, ReadKeeps
<1> QED BY <1>2, <1>3, <1>4, <1>5, <1>6, <1>7, <1>8, <1>9 DEF Next

LEMMA HooksInit == Init => HooksInv
<1> SUFFICES ASSUME Init PROVE HooksInv
  OBVIOUS
<1>1. CallsTyped /\ Len(calls) = 0
  BY DEF Init, CallsTyped
<1>2. state.kind # "ok"
  <2>1. H.starts # "ok"
    BY <1>1, HooksAssumption DEF CallsTyped, H
  <2> QED BY <2>1, KindParts DEF Init
<1> QED BY <1>1, <1>2 DEF HooksInv, KeptInv, AloneInv, KeyInv, SettledInv

-----------------------------------------------------------------------------
\* When everything has ended, the answer of a newest request that was made with
\* nothing else under way is what is shown, in any hook and for any number of
\* renders, saves, failures and orders of the answers.
THEOREM SettledCorrect == Spec => []SettledShowsNewest
<1>1. HooksInv => SettledShowsNewest
  BY DEF HooksInv, CallsTyped, SettledInv, SettledShowsNewest, Shown, Newest
<1> QED BY HooksInit, HooksStep, <1>1, PTL DEF Spec

\* Content on the screen that is said to match the digest of its catalog is of
\* the publication of that catalog, and all content is of the newest render.
THEOREM OnePublicationCorrect == Spec => []OnePublication
<1>1. HooksInv => OnePublication
  <2> SUFFICES ASSUME HooksInv, H.steps = 2, Shown.kind = "ok"
               PROVE  /\ DigestMatched => Shown.catalog = Shown.rev
                      /\ Shown.key = render
    BY DEF OnePublication
  <2>1. H.keyed
    BY HooksAssumption DEF H, HooksInv, CallsTyped
  <2>2. Shown = state /\ state.key = render
    BY <2>1, KindParts DEF Shown, None
  <2> QED BY <2>2 DEF HooksInv, KeptInv, DigestMatched
<1> QED BY HooksInit, HooksStep, <1>1, PTL DEF Spec
=============================================================================
