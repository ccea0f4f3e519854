------------------------- MODULE StateBackendProofs -------------------------
(***************************************************************************)
(* Proofs about StateBackend for any processes, threads, workspaces and    *)
(* entries.                                                                *)
(***************************************************************************)
EXTENDS StateBackend, TLAPS

USE StateBackendAssumption

\* The file backend as every owner module with a lock uses it.
Serial == ~External /\ Locked /\ \A s, u \in Servers : s = u

\* The external backend once the records exist.
Guarded == External /\ Established = Workspaces

\* Calls answered with success, or about to be, added their item.
DoneInv ==
    /\ acked \subseteq entries
    /\ \A t \in Threads : op[t].pc = "done" => op[t].item \in entries

\* The thread of a call holds the lock, and what it read is what is stored.
FileInv ==
    /\ requests = {}
    /\ \A t \in Threads :
         /\ op[t].pc # "idle" => lock[Server[t]] = t
         /\ op[t].pc \in {"idle", "read", "keep", "replace", "done"}
         /\ op[t].pc \in {"keep", "replace"} => op[t].base = Stored(Workspace(t))
         /\ op[t].pc = "replace" => op[t].kept = entries \ Stored(Workspace(t))

\* A PUT whose revision is current carries what is stored.
Fresh(o) ==
    LET w == o.item[1]
    IN  /\ o.known <= revision[w]
        /\ o.known = revision[w] => o.base = Stored(w)
ExternalInv ==
    /\ \A w \in Workspaces : revision[w] # 0
    /\ \A t \in Threads :
         /\ op[t].pc \in {"idle", "read", "put", "sent", "done"}
         /\ op[t].pc = "put" => Fresh(op[t]) /\ op[t].known # 0
    /\ \A m \in requests : Fresh(m.op)

IInv ==
    /\ TypeOK
    /\ DoneInv
    /\ Serial => FileInv
    /\ Guarded => ExternalInv

\* The inductive invariant holds of whatever is stored at first.
LEMMA InitIInv == Init => IInv
<1> SUFFICES ASSUME Init PROVE IInv
  OBVIOUS
<1>1. TypeOK
  BY DEF Init, TypeOK, Items
<1>2. \A t \in Threads : op[t].pc = "idle"
  BY DEF Init, Idle
<1> QED BY <1>1, <1>2 DEF Init, IInv, DoneInv, FileInv, ExternalInv, Guarded, Serial

\* An item is a workspace with an entry, and what is stored of a workspace
\* are its items.
LEMMA ItemFacts == \A x \in Items : x[1] \in Workspaces
  BY DEF Items

\* Every step keeps the types.
LEMMA TypeStep == TypeOK /\ [Next]_vars => TypeOK'
<1> SUFFICES ASSUME TypeOK, [Next]_vars PROVE TypeOK'
  OBVIOUS
<1> USE DEF TypeOK
<1>a. \A t \in Threads : op[t].pc # "idle" => op[t] \in Ops
  BY DEF Idle
<1>b. \A w : Stored(w) \subseteq Items
  BY DEF Stored
<1>1. CASE UNCHANGED vars
  BY <1>1 DEF vars
<1>2. ASSUME NEW t \in Threads, NEW x \in Items, Begin(t, x) PROVE TypeOK'
  <2>1. Called(x) \in Ops
    BY DEF Called, Ops
  <2>2. lock' \in [Servers -> Threads \cup {NoThread}]
    BY <1>2 DEF Begin
  <2> QED BY <1>2, <2>1, <2>2 DEF Begin
<1>3. ASSUME NEW t \in Threads, Read(t) \/ Keep(t) PROVE TypeOK'
  <2>1. op[t] \in Ops /\ Workspace(t) \in Workspaces
    BY <1>3, <1>a, ItemFacts DEF Read, Keep, Ops, Workspace
  <2>2. op'[t] \in Ops
    BY <1>3, <1>b, <2>1 DEF Read, Keep, Ops
  <2>3. \A u \in Threads : u # t => op'[u] = op[u]
    BY <1>3 DEF Read, Keep
  <2> QED BY <1>3, <2>2, <2>3 DEF Read, Keep
<1>4. ASSUME NEW t \in Threads, Put(t) PROVE TypeOK'
  <2>1. op[t] \in Ops /\ revision[Workspace(t)] \in Nat
    BY <1>4, <1>a, ItemFacts DEF Put, Ops, Workspace
  <2>2. op'[t] \in Ops
    BY <1>4, <2>1 DEF Put, Ops
  <2>3. \A u \in Threads : u # t => op'[u] = op[u]
    BY <1>4 DEF Put
  <2> QED BY <1>4, <2>2, <2>3 DEF Put
<1>5. ASSUME NEW t \in Threads, Replace(t) PROVE TypeOK'
  <2>1. op[t] \in Ops
    BY <1>5, <1>a DEF Replace
  <2>2. op'[t] \in Ops /\ entries' \subseteq Items
    BY <1>5, <2>1 DEF Replace, Ops
  <2>3. \A u \in Threads : u # t => op'[u] = op[u]
    BY <1>5 DEF Replace
  <2> QED BY <1>5, <2>2, <2>3 DEF Replace
<1>6. ASSUME NEW t \in Threads, Answer(t) \/ Fail(t) PROVE TypeOK'
  <2>1. op[t] \in Ops
    BY <1>6, <1>a DEF Answer, Fail
  <2>2. acked' \subseteq Items
    BY <1>6, <2>1 DEF Answer, Fail, Ops
  <2> QED BY <1>6, <2>2 DEF Answer, Fail, Ends
<1>7. ASSUME NEW s \in Servers, Crash(s) PROVE TypeOK'
  BY <1>7 DEF Crash
<1>8. ASSUME NEW m \in requests, Apply(m) PROVE TypeOK'
  <2>1. m.thread \in Threads /\ m.op \in Ops
    OBVIOUS
  <2>2. entries' \subseteq Items
    BY <1>8, <2>1 DEF Apply, Replaced, Ops
  <2>3. revision' \in [Workspaces -> Nat]
    <3>1. m.op.item[1] \in Workspaces
      BY <2>1, ItemFacts DEF Ops
    <3> QED BY <1>8, <3>1 DEF Apply
  <2>4. op' \in [Threads -> Ops \cup {Idle}]
    <3>1. CASE Waiting(m)
      <4>1. op[m.thread] \in Ops
        BY <3>1, <2>1 DEF Waiting
      <4>2. [op[m.thread] EXCEPT !.pc = "done"] \in Ops
        BY <4>1 DEF Ops
      <4> QED BY <1>8, <3>1, <4>2 DEF Apply
    <3>2. CASE ~Waiting(m)
      BY <1>8, <3>2 DEF Apply
    <3> QED BY <3>1, <3>2
  <2> QED BY <1>8, <2>2, <2>3, <2>4 DEF Apply
<1>9. ASSUME NEW m \in requests, Refuse(m) \/ Lose(m) PROVE TypeOK'
  BY <1>9 DEF Refuse, Lose, Ends
<1> QED BY <1>1, <1>2, <1>3, <1>4, <1>5, <1>6, <1>7, <1>8, <1>9 DEF Next

\* Under a lock of one process every step keeps the invariant, and each change
\* of what is stored adds one item.
LEMMA FileStep ==
    ASSUME IInv, [Next]_vars, TypeOK', Serial
    PROVE  FileInv' /\ DoneInv' /\ (entries' = entries \/ \E x \in Items : entries' = entries \cup {x})
<1> USE DEF IInv
<1>0. /\ FileInv /\ ~External /\ Locked
      /\ \A t, u \in Threads : Server[t] = Server[u]
  BY DEF Serial
<1>1. \A t, u \in Threads : op[t].pc # "idle" /\ op[u].pc # "idle" => t = u
  BY <1>0 DEF FileInv
<1>2. \A w : entries = Stored(w) \cup (entries \ Stored(w))
  BY DEF Stored
<1>3. CASE UNCHANGED vars
  BY <1>0, <1>3 DEF vars, FileInv, DoneInv, Workspace, Stored
<1>4. ASSUME NEW t \in Threads, NEW x \in Items, Begin(t, x)
      PROVE  FileInv' /\ DoneInv' /\ entries' = entries
  <2>1. op'[t].pc = "read" /\ \A u \in Threads \ {t} : op'[u] = op[u] /\ op[u].pc = "idle"
    BY <1>0, <1>4 DEF Begin, Called, TypeOK, FileInv
  <2>2. lock' = [lock EXCEPT ![Server[t]] = t] /\ Server[t] \in Servers
    BY <1>0, <1>4 DEF Begin, StateBackendAssumption
  <2>3. lock'[Server[t]] = t
    BY <2>2 DEF TypeOK
  <2> QED BY <1>0, <1>4, <2>1, <2>3 DEF Begin, FileInv, DoneInv
<1>5. ASSUME NEW t \in Threads, Read(t) \/ Keep(t)
      PROVE  FileInv' /\ DoneInv' /\ entries' = entries
  <2>1. op[t] \in Ops
    BY <1>5 DEF Read, Keep, TypeOK, Idle
  <2>2. \A u \in Threads \ {t} : op'[u] = op[u] /\ op[u].pc = "idle"
    BY <1>1, <1>5 DEF Read, Keep, TypeOK
  <2>3. /\ op'[t].item = op[t].item
        /\ op'[t].pc \in {"keep", "replace"}
        /\ op'[t].base = Stored(Workspace(t))
        /\ op'[t].pc = "replace" => op'[t].kept = entries \ Stored(Workspace(t))
    <3>1. CASE Read(t)
      BY <1>0, <2>1, <3>1 DEF Read, TypeOK, Ops
    <3>2. CASE Keep(t)
      <4>1. op[t].base = Stored(Workspace(t))
        BY <1>0, <3>2 DEF Keep, FileInv
      <4> QED BY <2>1, <3>2, <4>1 DEF Keep, TypeOK, Ops
    <3> QED BY <1>5, <3>1, <3>2
  <2>4. /\ UNCHANGED <<entries, lock, requests, acked>>
        /\ \A w : Stored(w)' = Stored(w)
        /\ Workspace(t)' = Workspace(t)
    BY <1>5, <2>3 DEF Read, Keep, Stored, Workspace
  <2>5. op[t].pc # "idle"
    BY <1>5 DEF Read, Keep
  <2>6. FileInv'
    <3> SUFFICES ASSUME NEW u \in Threads
                 PROVE  /\ op'[u].pc # "idle" => lock'[Server[u]] = u
                        /\ op'[u].pc \in {"idle", "read", "keep", "replace", "done"}
                        /\ op'[u].pc \in {"keep", "replace"} => op'[u].base = Stored(Workspace(u))'
                        /\ op'[u].pc = "replace" => op'[u].kept = entries' \ Stored(Workspace(u))'
      BY <1>0, <2>4 DEF FileInv
    <3>1. CASE u = t
      <4>1. lock[Server[t]] = t
        BY <1>0, <2>5 DEF FileInv
      <4>2. Stored(Workspace(t))' = Stored(Workspace(t))
        BY <2>4 DEF Stored, Workspace
      <4> QED BY <2>3, <2>4, <3>1, <4>1, <4>2
    <3>2. CASE u # t
      BY <2>2, <3>2
    <3> QED BY <3>1, <3>2
  <2>7. DoneInv'
    BY <2>2, <2>3, <2>4 DEF DoneInv
  <2> QED BY <2>4, <2>6, <2>7
<1>6. ASSUME NEW t \in Threads, Replace(t)
      PROVE  FileInv' /\ DoneInv' /\ \E x \in Items : entries' = entries \cup {x}
  <2>1. op[t] \in Ops /\ op[t].item \in Items
    BY <1>6 DEF Replace, TypeOK, Idle, Ops
  <2>2. entries' = entries \cup {op[t].item}
    BY <1>0, <1>2, <1>6 DEF Replace, FileInv
  <2>3. /\ op'[t].pc = "done" /\ op'[t].item = op[t].item
        /\ \A u \in Threads \ {t} : op'[u] = op[u] /\ op[u].pc = "idle"
    BY <1>1, <1>6, <2>1 DEF Replace, TypeOK, Ops
  <2>4. FileInv' /\ DoneInv'
    BY <1>0, <1>6, <2>2, <2>3 DEF Replace, FileInv, DoneInv
  <2> QED BY <2>1, <2>2, <2>4
<1>7. ASSUME NEW t \in Threads, Answer(t) \/ Fail(t)
      PROVE  FileInv' /\ DoneInv' /\ entries' = entries
  <2>1. op'[t].pc = "idle" /\ \A u \in Threads \ {t} : op'[u] = op[u] /\ op[u].pc = "idle"
    BY <1>1, <1>7 DEF Answer, Fail, Ends, TypeOK, Idle
  <2> QED BY <1>0, <1>7, <2>1 DEF Answer, Fail, FileInv, DoneInv
<1>8. ASSUME NEW s \in Servers, Crash(s)
      PROVE  FileInv' /\ DoneInv' /\ entries' = entries
  <2>1. \A t \in Threads : op'[t].pc = "idle"
    BY <1>0, <1>8 DEF Crash, Idle, Serial, StateBackendAssumption
  <2> QED BY <1>0, <1>8, <2>1 DEF Crash, FileInv, DoneInv
<1>9. ASSUME NEW t \in Threads, Put(t) PROVE FALSE
  BY <1>0, <1>9 DEF Put, FileInv
<1>10. requests = {}
  BY <1>0 DEF FileInv
<1> QED BY <1>3, <1>4, <1>5, <1>6, <1>7, <1>8, <1>9, <1>10 DEF Next

\* With the revisions of existing records every step keeps the invariant, and
\* each change of what is stored adds one item.
LEMMA ExternalStep ==
    ASSUME IInv, [Next]_vars, TypeOK', Guarded
    PROVE  /\ ExternalInv' /\ DoneInv'
           /\ entries' = entries \/ \E x \in Items : entries' = entries \cup {x}
<1> USE DEF IInv
<1>0. ExternalInv /\ External
  BY DEF Guarded
<1>1. ASSUME UNCHANGED <<entries, revision>>
      PROVE  (\A w : Stored(w)' = Stored(w)) /\ \A o : Fresh(o)' <=> Fresh(o)
  BY <1>1 DEF Fresh, Stored
<1>2. CASE UNCHANGED vars
  BY <1>0, <1>1, <1>2 DEF vars, ExternalInv, DoneInv
<1>3. ASSUME NEW t \in Threads, NEW x \in Items, Begin(t, x)
      PROVE  ExternalInv' /\ DoneInv' /\ entries' = entries
  <2>1. op'[t].pc = "read" /\ \A u \in Threads \ {t} : op'[u] = op[u]
    BY <1>3 DEF Begin, Called, TypeOK
  <2>2. UNCHANGED <<entries, revision, requests, acked>>
    BY <1>3 DEF Begin
  <2>3. \A o : Fresh(o)' <=> Fresh(o)
    BY <1>1, <2>2
  <2>4. ExternalInv'
    BY <1>0, <2>1, <2>2, <2>3 DEF ExternalInv
  <2>5. DoneInv'
    <3>1. DoneInv
      OBVIOUS
    <3> HIDE DEF IInv
    <3>2. ASSUME NEW u \in Threads, op'[u].pc = "done" PROVE op'[u].item \in entries
      <4>1. op'[u] = op[u]
        BY <2>1, <3>2
      <4> QED BY <3>1, <3>2, <4>1 DEF DoneInv
    <3> QED BY <2>2, <3>1, <3>2 DEF DoneInv
  <2> QED BY <2>2, <2>4, <2>5
<1>4. ASSUME NEW t \in Threads, Read(t)
      PROVE  ExternalInv' /\ DoneInv' /\ entries' = entries
  <2> DEFINE w == Workspace(t)
  <2>1. op[t] \in Ops /\ w \in Workspaces
    <3>1. op[t].pc = "read" /\ Idle.pc = "idle"
      BY <1>4 DEF Read, Idle
    <3>2. op[t] \in Ops
      BY <3>1 DEF TypeOK
    <3>3. op[t].item \in Items
      BY <3>2 DEF Ops
    <3> QED BY <3>2, <3>3, ItemFacts DEF Workspace
  <2>2. revision[w] \in Nat /\ revision[w] # 0
    BY <1>0, <2>1 DEF TypeOK, ExternalInv
  <2>3. /\ op'[t].pc = "put" /\ op'[t].item = op[t].item
        /\ op'[t].base = Stored(w) /\ op'[t].known = revision[w]
        /\ \A u \in Threads \ {t} : op'[u] = op[u]
    BY <1>0, <1>4, <2>1, <2>2 DEF Read, TypeOK, Ops
  <2>4. Fresh(op'[t])
    BY <2>2, <2>3 DEF Fresh, Workspace
  <2>5. UNCHANGED <<entries, revision, requests, acked>>
    BY <1>4 DEF Read
  <2>6. Fresh(op[t])'
    BY <1>1, <2>4, <2>5
  <2> QED BY <1>0, <1>1, <2>2, <2>3, <2>5, <2>6 DEF ExternalInv, DoneInv
<1>5. ASSUME NEW t \in Threads, Put(t)
      PROVE  ExternalInv' /\ DoneInv' /\ entries' = entries
  <2>1. op[t] \in Ops /\ Fresh(op[t]) /\ op[t].known # 0
    BY <1>0, <1>5 DEF Put, TypeOK, Idle, ExternalInv
  <2>2. /\ op'[t].pc = "sent" /\ op'[t].item = op[t].item
        /\ op'[t].base = op[t].base /\ op'[t].known = op[t].known
        /\ \A u \in Threads \ {t} : op'[u] = op[u]
    BY <1>5, <2>1 DEF Put, TypeOK, Ops
  <2>3. Fresh(op'[t])
    BY <2>1, <2>2 DEF Fresh
  <2>4. /\ UNCHANGED <<entries, revision, acked>>
        /\ \A m \in requests' : m \in requests \/ m.op = op'[t]
    BY <1>5 DEF Put
  <2> QED BY <1>0, <1>1, <2>2, <2>3, <2>4 DEF ExternalInv, DoneInv
<1>6. ASSUME NEW t \in Threads, Keep(t) \/ Replace(t) PROVE FALSE
  BY <1>0, <1>6 DEF Keep, Replace, ExternalInv
<1>7. ASSUME NEW t \in Threads, Answer(t) \/ Fail(t)
      PROVE  ExternalInv' /\ DoneInv' /\ entries' = entries
  <2>1. op'[t].pc = "idle" /\ \A u \in Threads \ {t} : op'[u] = op[u]
    BY <1>7 DEF Answer, Fail, Ends, TypeOK, Idle
  <2> QED BY <1>0, <1>1, <1>7, <2>1 DEF Answer, Fail, ExternalInv, DoneInv
<1>8. ASSUME NEW s \in Servers, Crash(s)
      PROVE  ExternalInv' /\ DoneInv' /\ entries' = entries
  <2>1. \A t \in Threads : op'[t].pc = "idle" \/ op'[t] = op[t]
    BY <1>8 DEF Crash, Idle
  <2> QED BY <1>0, <1>1, <1>8, <2>1 DEF Crash, ExternalInv, DoneInv
<1>9. ASSUME NEW m \in requests, Refuse(m) \/ Lose(m)
      PROVE  ExternalInv' /\ DoneInv' /\ entries' = entries
  <2>1. \A t \in Threads : op'[t].pc = "idle" \/ op'[t] = op[t]
    BY <1>9 DEF Refuse, Lose, Ends, TypeOK, Idle
  <2> QED BY <1>0, <1>1, <1>9, <2>1 DEF Refuse, Lose, ExternalInv, DoneInv
<1>10. ASSUME NEW m \in requests, Apply(m)
       PROVE  ExternalInv' /\ DoneInv' /\ \E x \in Items : entries' = entries \cup {x}
  <2> DEFINE x == m.op.item
             w == x[1]
  <2>1. x \in Items /\ w \in Workspaces /\ m.thread \in Threads
    BY ItemFacts DEF TypeOK, Ops
  <2>2. m.op.base = Stored(w)
    BY <1>0, <1>10 DEF Apply, Current, ExternalInv, Fresh
  <2>3. entries' = entries \cup {x}
    BY <1>10, <2>2 DEF Apply, Replaced, Stored
  <2>4. /\ revision[w] \in Nat /\ revision'[w] = revision[w] + 1
        /\ \A v \in Workspaces \ {w} : revision'[v] = revision[v] /\ Stored(v)' = Stored(v)
    <3>1. revision' = [revision EXCEPT ![w] = @ + 1]
      BY <1>10 DEF Apply
    <3>2. \A v \in Workspaces \ {w} : Stored(v)' = Stored(v)
      BY <2>3 DEF Stored
    <3> QED BY <2>1, <3>1, <3>2 DEF TypeOK
  <2>5. \A o \in Ops : Fresh(o) => Fresh(o)'
    <3> SUFFICES ASSUME NEW o \in Ops, Fresh(o) PROVE Fresh(o)'
      OBVIOUS
    <3>1. o.item[1] \in Workspaces /\ o.known \in Nat
      BY ItemFacts DEF Ops
    <3>2. CASE o.item[1] = w
      <4>1. o.known <= revision[w]
        BY <3>2 DEF Fresh
      <4> QED BY <2>4, <3>1, <3>2, <4>1 DEF Fresh
    <3>3. CASE o.item[1] # w
      BY <2>4, <3>1, <3>3 DEF Fresh
    <3> QED BY <3>2, <3>3
  <2>6. \A t \in Threads : op'[t] = op[t] \/ (op'[t].pc = "done" /\ op'[t].item = x)
    <3>1. CASE Waiting(m)
      <4>1. op[m.thread] = m.op /\ m.op \in Ops
        BY <3>1 DEF Waiting, TypeOK
      <4>2. op' = [op EXCEPT ![m.thread].pc = "done"]
        BY <1>10, <3>1 DEF Apply
      <4>3. op'[m.thread].pc = "done" /\ op'[m.thread].item = x
        BY <2>1, <4>1, <4>2 DEF TypeOK, Ops
      <4> QED BY <4>2, <4>3 DEF TypeOK
    <3>2. CASE ~Waiting(m)
      BY <1>10, <3>2 DEF Apply
    <3> QED BY <3>1, <3>2
  <2>7. UNCHANGED acked /\ requests' \subseteq requests
    BY <1>10 DEF Apply
  <2>8. DoneInv'
    BY <2>3, <2>6, <2>7 DEF DoneInv
  <2>9. ExternalInv'
    <3>1. \A v \in Workspaces : revision'[v] # 0
      BY <1>0, <2>4 DEF ExternalInv
    <3>2. \A n \in requests' : Fresh(n.op)'
      BY <1>0, <2>5, <2>7 DEF ExternalInv, TypeOK
    <3>3. ASSUME NEW t \in Threads
          PROVE  /\ op'[t].pc \in {"idle", "read", "put", "sent", "done"}
                 /\ op'[t].pc = "put" => Fresh(op[t])' /\ op'[t].known # 0
      <4>1. CASE op'[t].pc = "done"
        BY <4>1
      <4>2. CASE op'[t] = op[t]
        <5>1. op[t].pc = "put" => op[t] \in Ops /\ Fresh(op[t])
          BY <1>0 DEF ExternalInv, TypeOK, Idle
        <5>2. op[t].pc = "put" => op'[t] \in Ops /\ Fresh(op'[t])
          BY <4>2, <5>1
        <5> QED BY <1>0, <2>5, <4>2, <5>1, <5>2 DEF ExternalInv
      <4> QED BY <2>6, <4>1, <4>2
    <3> QED BY <3>1, <3>2, <3>3 DEF ExternalInv
  <2> QED BY <2>1, <2>3, <2>8, <2>9
<1> QED BY <1>2, <1>3, <1>4, <1>5, <1>6, <1>7, <1>8, <1>9, <1>10 DEF Next

\* The type invariant.
THEOREM TypeCorrect == Spec => []TypeOK
<1>1. Init => TypeOK
  BY InitIInv DEF IInv
<1> QED BY <1>1, TypeStep, PTL DEF Spec

\* The inductive invariant under either condition.
LEMMA StepIInv ==
    ASSUME Serial \/ Guarded, IInv, [Next]_vars
    PROVE  IInv' /\ (entries' = entries \/ \E x \in Items : entries' = entries \cup {x})
<1>1. TypeOK'
  BY TypeStep DEF IInv
<1>2. CASE Serial
  BY <1>1, <1>2, FileStep DEF IInv, Serial, Guarded
<1>3. CASE Guarded
  BY <1>1, <1>3, ExternalStep DEF IInv, Serial, Guarded
<1> QED BY <1>2, <1>3

\* What a caller was told is saved stays saved: with a lock of one process, or
\* with the revisions of records that exist.
THEOREM AckedCorrect == ASSUME Serial \/ Guarded PROVE Spec => []AckedStay
<1>1. IInv => AckedStay
  BY DEF IInv, DoneInv, AckedStay
<1> QED BY <1>1, InitIInv, StepIInv, PTL DEF Spec

\* Both backends implement the atomic update under the same conditions.
THEOREM AtomicCorrect == ASSUME Serial \/ Guarded PROVE Spec => ImplementsAtomic
<1>1. Init => Atomic!Init
  BY DEF Init, Atomic!Init, Items
<1>2. IInv /\ [Next]_vars => [Atomic!Next]_<<entries, acked>>
  <2> SUFFICES ASSUME IInv, [Next]_vars PROVE [Atomic!Next]_<<entries, acked>>
    OBVIOUS
  <2>1. CASE \E t \in Threads : Answer(t)
    <3>1. PICK t \in Threads : Answer(t)
      BY <2>1
    <3>2. op[t].item \in Items /\ op[t].item \in entries
      BY <3>1 DEF Answer, IInv, DoneInv, TypeOK, Idle, Ops
    <3> QED BY <3>1, <3>2 DEF Answer, Atomic!Next, Atomic!Answer
  <2>2. CASE UNCHANGED acked
    BY <2>2, StepIInv DEF Atomic!Next, Atomic!Add
  <2> QED BY <2>1, <2>2 DEF Next, vars, Begin, Read, Put, Keep, Replace, Fail,
          Crash, Apply, Refuse, Lose
<1> QED BY <1>1, <1>2, InitIInv, StepIInv, PTL DEF Spec, ImplementsAtomic, Atomic!Spec
=============================================================================
