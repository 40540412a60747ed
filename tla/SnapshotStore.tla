--------------------------- MODULE SnapshotStore ---------------------------
(***************************************************************************)
(* What the database promises its clients (include/leveldb/db.h): a map    *)
(* from keys to values with snapshots.  A write changes the latest state   *)
(* of one key, a snapshot is the state at the time of GetSnapshot and      *)
(* stays so until ReleaseSnapshot.  Writes are counted, so that no other   *)
(* step can pass for one, and a value is named by the number of its Put,   *)
(* so that no two are the same.                                            *)
(*                                                                         *)
(* One thing db.h does not say: a value has two forms, as it was written   *)
(* and as BuildTable stores it, and Flush changes the one into the other.  *)
(* Compactions are not part of the promise otherwise: which write answers  *)
(* must not depend on them.                                                *)
(***************************************************************************)
EXTENDS Naturals

CONSTANTS NULL, Keys, SnapshotIds

VARIABLES
    writes,     \* calls of Put and Delete
    flushed,    \* the first ones of them, whose values BuildTable has stored
    latest,     \* what Get returns for each key; NULL: NotFound
    view        \* what Get returns with each snapshot; NULL: no such snapshot

Init ==
    /\ writes = 0 /\ flushed = 0
    /\ latest = [k \in Keys |-> NULL]
    /\ view = [i \in SnapshotIds |-> NULL]

Put(k) ==
    /\ writes' = writes + 1
    /\ latest' = [latest EXCEPT ![k] = [put |-> writes', stored |-> FALSE]]
    /\ UNCHANGED <<flushed, view>>

Delete(k) ==
    /\ writes' = writes + 1
    /\ latest' = [latest EXCEPT ![k] = NULL]
    /\ UNCHANGED <<flushed, view>>

GetSnapshot(i) ==
    /\ view[i] = NULL
    /\ view' = [view EXCEPT ![i] = latest]
    /\ UNCHANGED <<writes, flushed, latest>>

ReleaseSnapshot(i) ==
    /\ view[i] # NULL
    /\ view' = [view EXCEPT ![i] = NULL]
    /\ UNCHANGED <<writes, flushed, latest>>

\* The values of the first n writes are from now on what BuildTable made of them.
Stored(value, n) ==
    IF value # NULL /\ value.put <= n THEN [value EXCEPT !.stored = TRUE] ELSE value

StoredMap(map, n) == [k \in Keys |-> Stored(map[k], n)]

Flush(n) ==
    /\ flushed' = n
    /\ latest' = StoredMap(latest, n)
    /\ view' = [i \in SnapshotIds |-> IF view[i] = NULL THEN NULL ELSE StoredMap(view[i], n)]
    /\ UNCHANGED writes

Next ==
    \/ \E k \in Keys : Put(k) \/ Delete(k)
    \/ \E i \in SnapshotIds : GetSnapshot(i) \/ ReleaseSnapshot(i)
    \/ \E n \in flushed + 1 .. writes : Flush(n)

Spec == Init /\ [][Next]_<<writes, flushed, latest, view>>
=============================================================================
