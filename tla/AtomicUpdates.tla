--------------------------- MODULE AtomicUpdates ---------------------------
(***************************************************************************)
(* What a store of SpecSpace-owned state promises its callers: a call adds *)
(* its entry in one step to whatever is stored then, and a call that was   *)
(* answered with success added its entry.                                  *)
(***************************************************************************)
CONSTANT Items     \* a workspace with an entry of its collection

VARIABLES entries, \* what is stored
          acked    \* the items whose calls were answered with success

Init == entries \in SUBSET Items /\ acked = {}

Add(x) ==
    /\ entries' = entries \cup {x}
    /\ UNCHANGED acked

Answer(x) ==
    /\ x \in entries
    /\ acked' = acked \cup {x}
    /\ UNCHANGED entries

Next == \E x \in Items : Add(x) \/ Answer(x)

Spec == Init /\ [][Next]_<<entries, acked>>
=============================================================================
