---------------------------- MODULE StateBackend ----------------------------
(***************************************************************************)
(* SpecSpace-owned state (viewer/specspace_state_backend.py) as its owner  *)
(* modules change it: read the collection of a workspace, add or replace   *)
(* one entry, write the collection back.                                   *)
(*                                                                         *)
(* The file backend keeps the collections of all workspaces in one file:   *)
(* a write reads the file again for the entries of the other workspaces    *)
(* and replaces it.  The external backend keeps one record for each        *)
(* workspace in a state service; a write is a PUT that names the revision  *)
(* the record must have.  A PUT may be lost, arrive after its caller gave  *)
(* up or crashed, and its answer may be lost.                              *)
(*                                                                         *)
(* Almost every owner module holds a _STATE_LOCK of its process for the    *)
(* whole call; ontology_acknowledgements.py holds none.  A collection is   *)
(* the set of its entries.  The private copies the external backend writes *)
(* beside the records and the contract checks of the service's answers are *)
(* left out: a failed check is a call that fails.                          *)
(***************************************************************************)
EXTENDS Integers

CONSTANTS
    Servers,      \* server processes
    Threads,      \* their handler threads
    Server,       \* the process of each thread
    NoThread,     \* the holder of a free lock
    Workspaces,
    Entries,      \* entries of a collection
    External,     \* the external backend is configured
    Locked,       \* the owner module holds a lock from its read to its write
    Established,  \* workspaces whose record exists from the start
    MaxCalls      \* bound on calls

ASSUME StateBackendAssumption ==
    /\ Server \in [Threads -> Servers]
    /\ NoThread \notin Threads
    /\ External \in BOOLEAN
    /\ Locked \in BOOLEAN
    /\ Established \subseteq Workspaces
    /\ MaxCalls \in Nat

Items == Workspaces \X Entries

VARIABLES
    entries,   \* the stored items
    revision,  \* the revision of each workspace's external record, 0 for none
    op,        \* what each thread does
    lock,      \* the thread that holds the lock of each process
    requests,  \* PUT requests on their way
    calls,     \* calls made so far
    acked      \* history: the items of calls answered with success

vars == <<entries, revision, op, lock, requests, calls, acked>>

Stored(w) == {x \in entries : x[1] = w}

\* A thread has one call: its item, the entries it read (base), the entries of
\* other workspaces it keeps, and the revision in its thread-local map.  Each
\* HTTP request has a thread of its own, so the map is empty at first.
Idle == [pc |-> "idle", item |-> <<>>, base |-> {}, kept |-> {}, known |-> 0, call |-> 0]
Called(x) == [pc |-> "read", item |-> x, base |-> {}, kept |-> {}, known |-> 0,
              call |-> calls + 1]
Workspace(t) == op[t].item[1]

Init ==
    /\ entries \in SUBSET (Established \X Entries)
    /\ revision = [w \in Workspaces |-> IF External /\ w \in Established THEN 1 ELSE 0]
    /\ op = [t \in Threads |-> Idle]
    /\ lock = [s \in Servers |-> NoThread]
    /\ requests = {}
    /\ calls = 0
    /\ acked = {}

-----------------------------------------------------------------------------
\* The call of t is over: its lock is free again.
Ends(t) ==
    /\ op' = [op EXCEPT ![t] = Idle]
    /\ lock' = [s \in Servers |-> IF lock[s] = t THEN NoThread ELSE lock[s]]

\* Fault: the lock is not waited for.
BeginFault(t, x) ==
    /\ op[t].pc = "idle"
    /\ calls < MaxCalls
    /\ calls' = calls + 1
    /\ op' = [op EXCEPT ![t] = Called(x)]
    /\ UNCHANGED <<entries, revision, lock, requests, acked>>
Begin(t, x) ==
    /\ op[t].pc = "idle"
    /\ calls < MaxCalls
    /\ calls' = calls + 1
    /\ IF Locked THEN /\ lock[Server[t]] = NoThread
                      /\ lock' = [lock EXCEPT ![Server[t]] = t]
                 ELSE UNCHANGED lock
    /\ op' = [op EXCEPT ![t] = Called(x)]
    /\ UNCHANGED <<entries, revision, requests, acked>>

\* read: the external backend remembers the revision of a record it found.
Read(t) ==
    /\ op[t].pc = "read"
    /\ op' = [op EXCEPT
                ![t].pc = IF External THEN "put" ELSE "keep",
                ![t].base = Stored(Workspace(t)),
                ![t].known = revision[Workspace(t)]]
    /\ UNCHANGED <<entries, revision, lock, requests, calls, acked>>

\* _mutate_record: the PUT leaves.  The revision of a record that was not found
\* by the read is looked up only now.
Put(t) ==
    /\ op[t].pc = "put"
    /\ op' = [op EXCEPT ![t].pc = "sent",
                        ![t].known = IF @ = 0 THEN revision[Workspace(t)] ELSE @]
    /\ requests' = requests \cup {[thread |-> t, op |-> op'[t]]}
    /\ UNCHANGED <<entries, revision, lock, calls, acked>>

\* FileStateBackend.write: the file is read again for the other workspaces.
Keep(t) ==
    /\ op[t].pc = "keep"
    /\ op' = [op EXCEPT ![t].pc = "replace", ![t].kept = entries \ Stored(Workspace(t))]
    /\ UNCHANGED <<entries, revision, lock, requests, calls, acked>>

\* Fault: the entries of other workspaces are not kept.
ReplaceFault(t) ==
    /\ op[t].pc = "replace"
    /\ entries' = op[t].base \cup {op[t].item}
    /\ op' = [op EXCEPT ![t].pc = "done"]
    /\ UNCHANGED <<revision, lock, requests, calls, acked>>
\* _atomic_write.
Replace(t) ==
    /\ op[t].pc = "replace"
    /\ entries' = op[t].kept \cup op[t].base \cup {op[t].item}
    /\ op' = [op EXCEPT ![t].pc = "done"]
    /\ UNCHANGED <<revision, lock, requests, calls, acked>>

\* The answer of the owner module.
Answer(t) ==
    /\ op[t].pc = "done"
    /\ acked' = acked \cup {op[t].item}
    /\ Ends(t)
    /\ UNCHANGED <<entries, revision, requests, calls>>

\* Time out, an unreachable service, a failed check or a file error.
Fail(t) ==
    /\ op[t].pc # "idle"
    /\ Ends(t)
    /\ UNCHANGED <<entries, revision, requests, calls, acked>>

\* All threads of a process end; it is restarted.
Crash(s) ==
    /\ op' = [t \in Threads |-> IF Server[t] = s THEN Idle ELSE op[t]]
    /\ lock' = [lock EXCEPT ![s] = NoThread]
    /\ UNCHANGED <<entries, revision, requests, calls, acked>>

-----------------------------------------------------------------------------
(***************************************************************************)
(* The state service.  An answer that finds its caller gone is lost.       *)
(***************************************************************************)
Waiting(m) == op[m.thread] = m.op
Replaced(m) == (entries \ Stored(m.op.item[1])) \cup m.op.base \cup {m.op.item}

\* Fault: the revision is not compared.
CurrentFault(m) == m.op.known <= revision[m.op.item[1]]
Current(m) == m.op.known = revision[m.op.item[1]]

Apply(m) ==
    /\ Current(m)
    /\ requests' = requests \ {m}
    /\ entries' = Replaced(m)
    /\ revision' = [revision EXCEPT ![m.op.item[1]] = @ + 1]
    /\ op' = IF Waiting(m) THEN [op EXCEPT ![m.thread].pc = "done"] ELSE op
    /\ UNCHANGED <<lock, calls, acked>>

Refuse(m) ==
    /\ ~Current(m)
    /\ requests' = requests \ {m}
    /\ IF Waiting(m) THEN Ends(m.thread) ELSE UNCHANGED <<op, lock>>
    /\ UNCHANGED <<entries, revision, calls, acked>>

Lose(m) ==
    /\ requests' = requests \ {m}
    /\ UNCHANGED <<entries, revision, op, lock, calls, acked>>

Next ==
    \/ \E t \in Threads :
         \/ \E x \in Items : Begin(t, x)
         \/ Read(t) \/ Put(t) \/ Keep(t) \/ Replace(t)
         \/ Answer(t) \/ Fail(t)
    \/ \E s \in Servers : Crash(s)
    \/ \E m \in requests : Apply(m) \/ Refuse(m) \/ Lose(m)

Spec == Init /\ [][Next]_vars

-----------------------------------------------------------------------------
(***************************************************************************)
(* Properties.                                                             *)
(***************************************************************************)

\* What a thread does.  A thread that is idle has no item.
Ops == [pc : {"read", "put", "sent", "keep", "replace", "done"},
        item : Items, base : SUBSET Items, kept : SUBSET Items, known : Nat, call : Nat]

\* Every variable has its type.
TypeOK ==
    /\ entries \subseteq Items
    /\ revision \in [Workspaces -> Nat]
    /\ op \in [Threads -> Ops \cup {Idle}]
    /\ lock \in [Servers -> Threads \cup {NoThread}]
    /\ \A m \in requests : m.thread \in Threads /\ m.op \in Ops
    /\ calls \in 0..MaxCalls
    /\ acked \subseteq Items

\* What a caller was told is saved stays saved, whatever other callers, other
\* workspaces and other processes do.
AckedStay == acked \subseteq entries

\* A call changes its own entry and no other.
OthersStay == [][entries \subseteq entries']_entries

\* Both backends implement the atomic update of AtomicUpdates.
Atomic == INSTANCE AtomicUpdates
ImplementsAtomic == Atomic!Spec
=============================================================================
