--------------------------- MODULE SnapshotCursor ---------------------------
(***************************************************************************)
(* What an iterator of a database promises: it walks over the keys of a    *)
(* snapshot in their order, forward and backward, whatever is written in   *)
(* the meantime; or else its status says that something could not be read. *)
(***************************************************************************)
CONSTANT Before(_, _)   \* the order of the keys

VARIABLES
    view,       \* the values of the keys of the snapshot
    call,       \* the call that has not returned, and its target
    at,         \* where the iterator is: a key and its value, or nowhere
    ok          \* the status of the iterator

vars == <<view, call, at, ok>>

Idle == <<>>
Nowhere == <<>>

Init == call = Idle /\ at = Nowhere /\ ok \in BOOLEAN

\* Next and Prev need an iterator that is somewhere.
Invoke ==
    /\ call = Idle
    /\ call' # Idle
    /\ call'[1] \in {"Next", "Prev"} => at # Nowhere
    /\ UNCHANGED <<view, at, ok>>

\* The smallest and the largest of some keys, with its value
FirstOf(keys) ==
    IF keys = {} THEN Nowhere
    ELSE LET k == CHOOSE k \in keys : \A l \in keys : ~Before(l, k) IN <<k, view[k]>>
LastOf(keys) ==
    IF keys = {} THEN Nowhere
    ELSE LET k == CHOOSE k \in keys : \A l \in keys : ~Before(k, l) IN <<k, view[k]>>

Target ==
    LET keys == DOMAIN view
    IN  CASE call[1] = "SeekToFirst" -> FirstOf(keys)
          [] call[1] = "SeekToLast"  -> LastOf(keys)
          [] call[1] = "Seek" -> FirstOf({k \in keys : ~Before(k, call[2])})
          [] call[1] = "Next" -> FirstOf({k \in keys : Before(at[1], k)})
          [] call[1] = "Prev" -> LastOf({k \in keys : Before(k, at[1])})

Return ==
    /\ call # Idle
    /\ call' = Idle
    /\ ok' => ok /\ at' = Target
    /\ UNCHANGED view

\* A block that could not be read is noticed during a call.
Error == call # Idle /\ ~ok' /\ UNCHANGED <<view, call, at>>

Next == Invoke \/ Return \/ Error

Spec == Init /\ [][Next]_vars
=============================================================================
