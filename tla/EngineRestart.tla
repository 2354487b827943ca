---------------------------- MODULE EngineRestart ----------------------------
(***************************************************************************)
(* MatchingEngine with restarts from a snapshot taken after the last       *)
(* command: serialize_snapshot and restore_from_snapshot of order_book.rs. *)
(* Which commands a restart brings back is the subject of EngineRecovery;  *)
(* here the snapshot is up to date and the question is what the round trip *)
(* makes of the book.                                                      *)
(***************************************************************************)
EXTENDS EngineRefinement, FiniteSetsExt

\* serialize_snapshot: the live orders in the order of their slab keys.
OccupiedKeys == InOrder({k \in Keys : orders[k] # Nil})  \* mutant: with tombstones
SnapshotKeys == InOrder(LiveKeys)

\* The cleared slab hands out 0, 1, ... to the orders of the snapshot.  The new keys of the
\* orders that share an id: the last one stays in the index.
Indexing(old, id) == {k \in 0 .. (Len(old) - 1) : orders[old[k + 1]].order_id = id}

\* The level that re-inserting the orders in the order of the snapshot leaves at (s, p).
Waiters(old, s, p) ==
    {k \in 0 .. (Len(old) - 1) : orders[old[k + 1]].side = s /\ orders[old[k + 1]].price = p}
RebuiltLevel(old, s, p) ==
    LET queue == InOrder(Waiters(old, s, p))
    IN  [queue |-> queue,
         total_qty |-> SumFunction([i \in 1 .. Len(queue) |-> orders[old[queue[i] + 1]].qty_rem])]

\* restore_from_snapshot of the engine's own latest snapshot; the accounts come back as
\* they were saved.
RestartFromSnapshot ==
    LET old == SnapshotKeys
        n   == Len(old)
    IN  /\ stage = "idle"
        /\ orders' = [k \in Keys |-> IF k < n THEN orders[old[k + 1]] ELSE Nil]
        /\ free' = [i \in 1 .. (MaxSlots - n) |-> n + i - 1]
        /\ index' = [id \in Ids |-> IF Indexing(old, id) = {} THEN Nil ELSE Max(Indexing(old, id))]
        /\ book' = [s \in Sides |-> [p \in Prices |-> RebuiltLevel(old, s, p)]]
        /\ UNCHANGED engineVars

RestartNext == Next \/ RestartFromSnapshot

RestartSpec == Init /\ [][RestartNext]_vars

\* A snapshot frees the tombstones' slots: after a restart the slab holds live orders only,
\* all of them, and still once each.
RestartReclaims ==
    [][stage = "idle" /\ stage' = "idle" =>
          /\ Cardinality(LiveKeys') = Cardinality(LiveKeys)
          /\ Len(free') = MaxSlots - Cardinality(LiveKeys)]_vars
=============================================================================
