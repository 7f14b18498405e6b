----------------------------- MODULE DeviceSync -----------------------------
(***************************************************************************)
(* The device side of synchronisation (lib/modules/sync and                *)
(* lib/core/services/change_log_service.dart): the transactional outbox    *)
(* change_log, the sync engine's cycle of one push and one pull, and the   *)
(* applier that writes pulled changes into the business tables.            *)
(*                                                                         *)
(* A device is one Dart isolate on synchronous SQLite: a handler runs      *)
(* without interruption between two awaits. The engine awaits its reply    *)
(* and every event of the pull stream, and local edits come in between;    *)
(* the process may end between any two statements outside a transaction.   *)
(***************************************************************************)
EXTENDS CloudResolver, FiniteSets

CONSTANTS Uuid,         \* the random change ids device d draws: Uuid[d][n]
          Clock,        \* the readings of a device's clock: Clock[d]; clocks are skewed
          Edits,        \* the kinds of edit a device makes: Edits[d]
          BatchLimit,   \* LIMIT of pendingChanges (500 in the code)
          MaxChanges    \* bound: the changes a device makes, MaxChanges[d]

SaleStatus == {"Draft", "Hold", "Cancelled"}

ASSUME DeviceAssumption ==
  /\ MaxChanges \in [Device -> Nat]
  /\ \A d \in Device : Uuid[d] \in [1 .. MaxChanges[d] -> Nat]
  /\ \A d, e \in Device : \A m \in 1 .. MaxChanges[d], n \in 1 .. MaxChanges[e] :
       Uuid[d][m] = Uuid[e][n] => d = e /\ m = n
  /\ Clock \in [Device -> SUBSET Nat]
  /\ Edits \in [Device -> SUBSET {"draft", "update", "cancel", "add", "deduct"}]
  /\ BatchLimit \in Nat \ {0}
  /\ Field = {"val", "extra"}
  /\ SaleStatus \cup {"items", "camelCase"} \subseteq Value

VARIABLES log,          \* change_log of each device
          rows,         \* its business tables
          cursor,       \* sync_state.last_remote_sequence
          pushCursor,   \* sync_state.last_synced_sequence
          engine        \* the sync engine, in memory

deviceVars == <<log, rows, cursor, pushCursor, engine>>

-----------------------------------------------------------------------------
\* A row of change_log; pos is its AUTOINCREMENT id.
LogRow == [pos : Nat, chg : Change, status : {"pending", "synced", "conflict"}]

\* A business row: its columns (val) and when it was written here (ts): updated_at, or
\* created_at until the first update. ids are AUTOINCREMENT, drawn by each device on
\* its own.
BusinessRow == [type : {"sale", "stock_movement"}, eid : Nat, val : Value, ts : Nat]

\* A pulled event: the global sequence and the change.
Event == [seq : Nat, chg : Change]

Engine == [phase : {"idle", "pushing", "pull", "pulling"},
           batch : SUBSET Change, stream : SUBSET Event, max : Nat]

Idle == [phase |-> "idle", batch |-> {}, stream |-> {}, max |-> 0]

RowsOf(d, type, eid) == {r \in rows[d] : r.type = type /\ r.eid = eid}

NextEid(d, type) == 1 + Cardinality({r \in rows[d] : r.type = type})

Recorded(d) == {r.chg.id : r \in log[d]}

Own(d) == {r \in log[d] : r.chg.dev = d}

Pending(d) == {r.chg : r \in {s \in Own(d) : s.status = "pending"}}

\* Mutant of PendingBatch: ORDER BY sequence DESC.
PendingBatchDescending(d) ==
  {c \in Pending(d) : Cardinality({e \in Pending(d) : e.n > c.n}) < BatchLimit}

\* pendingChanges: the first BatchLimit pending changes in sequence order.
PendingBatch(d) ==
  {c \in Pending(d) : Cardinality({e \in Pending(d) : e.n < c.n}) < BatchLimit}

DeviceInit ==
  /\ log = [d \in Device |-> {}]
  /\ rows = [d \in Device |-> {}]
  /\ cursor = [d \in Device |-> 0]
  /\ pushCursor = [d \in Device |-> 0]
  /\ engine = [d \in Device |-> Idle]

-----------------------------------------------------------------------------
(* Local edits. A handler writes the business row and the outbox rows; the *)
(* engine may be at any of its awaits. Every edit reads the clock twice:   *)
(* for updated_at and then for the change's timestamp.                     *)

\* The payload: the columns, and the keys that come with it and are no columns.
Pay(val, extra) == [f \in Field |-> IF f = "val" THEN val ELSE extra]

\* nextSequence: MAX(sequence) + 1 over the device's own rows.
NextSequence(d) ==
  IF Own(d) = {} THEN 1
  ELSE 1 + (CHOOSE r \in Own(d) : \A s \in Own(d) : s.chg.n <= r.chg.n).chg.n

\* recordChange: the change that is k-th after the next (0: the next) of an edit gets
\* its sequence number and a fresh id, and is pending.
NewChange(d, k, type, eid, op, pay, ts) ==
  LET n == NextSequence(d) + k IN
  [id |-> Uuid[d][n], dev |-> d, n |-> n, type |-> type, eid |-> eid,
   op |-> op, pay |-> pay, ts |-> ts]

Room(d, k) == NextSequence(d) + k <= MaxChanges[d]

Record(d, changes) ==
  log' = [log EXCEPT ![d] = @ \cup
    {[pos |-> 1 + Cardinality(@) + c.n - NextSequence(d), chg |-> c,
      status |-> "pending"] : c \in changes}]

\* createSale (Draft): the payload carries "items" and "payments" with the header.
DraftSale(d, at, ts) ==
  LET eid == NextEid(d, "sale") IN
  /\ Room(d, 0)
  /\ Record(d, {NewChange(d, 0, "sale", eid, "INSERT", Pay("Draft", "items"), ts)})
  /\ rows' = [rows EXCEPT ![d] =
       @ \cup {[type |-> "sale", eid |-> eid, val |-> "Draft", ts |-> at]}]
  /\ UNCHANGED <<cursor, pushCursor, engine>>

EditSale(d, row, val, extra, at, ts) ==
  /\ Room(d, 0)
  /\ Record(d, {NewChange(d, 0, "sale", row.eid, "UPDATE", Pay(val, extra), ts)})
  /\ rows' = [rows EXCEPT ![d] = (@ \ {row}) \cup {[row EXCEPT !.val = val, !.ts = at]}]
  /\ UNCHANGED <<cursor, pushCursor, engine>>

\* updateSale: only Draft and Hold, which it may swap; sends camelCase keys.
UpdateSale(d, row, at, ts) ==
  /\ row.val \in {"Draft", "Hold"}
  /\ \E val \in {"Draft", "Hold"} : EditSale(d, row, val, "camelCase", at, ts)

\* deleteSale of an unpaid sale; sends column names.
CancelSale(d, row, at, ts) == EditSale(d, row, "Cancelled", Null, at, ts)

\* An immutable movement row of some quantity and its change; `snapshots` is what the
\* transaction records besides.
MoveStock(d, qty, snapshots, at, ts) ==
  LET eid == NextEid(d, "stock_movement") IN
  /\ Record(d,
       {NewChange(d, 0, "stock_movement", eid, "INSERT", Pay(qty, Null), ts)} \cup snapshots)
  /\ rows' = [rows EXCEPT ![d] =
       @ \cup {[type |-> "stock_movement", eid |-> eid, val |-> qty, ts |-> at]}]
  /\ UNCHANGED <<cursor, pushCursor, engine>>

AddStock(d, qty, at, ts) == Room(d, 0) /\ MoveStock(d, qty, {}, at, ts)

\* deductStock, from one lot that suffices: a snapshot of the stock row of the product
\* (product 1) goes with the movement.
DeductStock(d, qty, at, ts) ==
  /\ Room(d, 1)
  /\ MoveStock(d, qty, {NewChange(d, 1, "stock", 1, "UPDATE", Pay(qty, Null), ts)}, at, ts)

Quantity == Value \ (SaleStatus \cup {"items", "camelCase"})

Sales(d) == {r \in rows[d] : r.type = "sale"}

LocalEdit(d) ==
  \E at, ts \in Clock[d] :
    /\ at <= ts
    /\ \/ "draft" \in Edits[d] /\ DraftSale(d, at, ts)
       \/ "update" \in Edits[d] /\ \E row \in Sales(d) : UpdateSale(d, row, at, ts)
       \/ "cancel" \in Edits[d] /\ \E row \in Sales(d) : CancelSale(d, row, at, ts)
       \/ "add" \in Edits[d] /\ \E qty \in Quantity : AddStock(d, qty, at, ts)
       \/ "deduct" \in Edits[d] /\ \E qty \in Quantity : DeductStock(d, qty, at, ts)

-----------------------------------------------------------------------------
(* The push half of a cycle (SyncEngine.pushChanges).                      *)

\* A cycle starts: the pending batch goes out, or with nothing pending the engine
\* turns to the pull at once. _cycleRunning keeps cycles from overlapping.
StartCycle(d) ==
  /\ engine[d].phase = "idle"
  /\ engine' = [engine EXCEPT ![d] =
       IF Pending(d) = {} THEN [Idle EXCEPT !.phase = "pull"]
       ELSE [Idle EXCEPT !.phase = "pushing", !.batch = PendingBatch(d)]]
  /\ UNCHANGED <<log, rows, cursor, pushCursor>>

Marked(d, ids, status) ==
  {IF r.chg.id \in ids THEN [r EXCEPT !.status = status] ELSE r : r \in log[d]}

MaxN(batch) == (CHOOSE c \in batch : \A e \in batch : e.n <= c.n).n

\* Mutant of FinishPush: every pending change is marked, not the batch that was sent.
FinishPushOfAll(d, accepted, marks, next) ==
  LET status(r) == IF r.chg.id \in marks THEN "conflict"
                   ELSE IF r.status = "pending" THEN "synced" ELSE r.status
  IN
  /\ engine[d].phase = "pushing"
  /\ log' = [log EXCEPT ![d] = {[r EXCEPT !.status = status(r)] : r \in @}]
  /\ pushCursor' = [pushCursor EXCEPT ![d] = accepted]
  /\ engine' = [engine EXCEPT ![d] = next]
  /\ UNCHANGED <<rows, cursor>>

\* All of markChangesSynced and savePushCursor, and the conflict marks `marks`.
FinishPush(d, accepted, marks, next) ==
  LET batch == engine[d].batch
      ids == {c.id : c \in batch}
      status(r) == IF r.chg.id \in marks THEN "conflict"
                   ELSE IF r.chg.id \in ids THEN "synced" ELSE r.status
  IN
  /\ engine[d].phase = "pushing"
  /\ log' = [log EXCEPT ![d] = {[r EXCEPT !.status = status(r)] : r \in @}]
  /\ pushCursor' = [pushCursor EXCEPT ![d] =
       IF accepted > MaxN(batch) THEN accepted ELSE MaxN(batch)]
  /\ engine' = [engine EXCEPT ![d] = next]
  /\ UNCHANGED <<rows, cursor>>

\* The reply is in: markChangesSynced, savePushCursor, markChangesConflict.
PushReplied(d, accepted, conflicts) ==
  FinishPush(d, accepted, conflicts, [Idle EXCEPT !.phase = "pull"])

\* The process ends in the middle. Each mark is a statement of its own: only the
\* changes up to some sequence were marked synced, or all of them were and some of
\* the conflicts.
PushReplyCut(d, accepted, conflicts) ==
  \/ /\ engine[d].phase = "pushing"
     /\ \E n \in 0 .. MaxN(engine[d].batch) :
          log' = [log EXCEPT ![d] =
            Marked(d, {c.id : c \in {e \in engine[d].batch : e.n <= n}}, "synced")]
     /\ engine' = [engine EXCEPT ![d] = Idle]
     /\ UNCHANGED <<rows, cursor, pushCursor>>
  \/ \E marks \in SUBSET conflicts : FinishPush(d, accepted, marks, Idle)

\* An RPC fails or the process ends: what the engine holds in memory is gone.
CycleAborts(d) ==
  /\ engine[d].phase # "idle"
  /\ engine' = [engine EXCEPT ![d] = Idle]
  /\ UNCHANGED <<log, rows, cursor, pushCursor>>

-----------------------------------------------------------------------------
(* The pull half of a cycle (SyncEngine.pullChanges, ChangeApplier.apply). *)

\* The stream opens on a snapshot of the rows after the cursor.
StartPull(d, stream) ==
  /\ engine[d].phase = "pull"
  /\ engine' = [engine EXCEPT ![d] =
       [Idle EXCEPT !.phase = "pulling", !.stream = stream, !.max = cursor[d]]]
  /\ UNCHANGED <<log, rows, cursor, pushCursor>>

\* The events arrive in the order of their global sequences.
IsHead(ev, stream) == ev \in stream /\ \A e \in stream : ev.seq <= e.seq

\* _latestLocalChangeId: the change of the entity recorded last.
LatestLocal(d, c) ==
  LET same == {r \in log[d] : SameEntity(r.chg, c)} IN
  (CHOOSE r \in same : \A s \in same : s.pos <= r.pos).chg.id

\* ConflictResolver.resolve on the local row of an entity under lww.
RemoteWins(d, c, row) ==
  \/ c.ts > row.ts
  \/ c.ts = row.ts /\ c.id > LatestLocal(d, c)

\* An INSERT, and an UPDATE of a row that is not there, write a whole row without
\* created_at, which _sanitise strips and every table demands. Keys that are no
\* columns fail in any statement.
WriteFails(c, exists) == c.op = "INSERT" \/ ~exists \/ c.pay["extra"] # Null

\* What becomes of a change that is not in change_log yet.
Verdict(d, c) ==
  LET local == RowsOf(d, c.type, c.eid)
      row == CHOOSE r \in local : TRUE
  IN
  CASE Strategy(c.type) = "eventsourced" -> "keep"
    [] Strategy(c.type) = "appendonly" ->
         IF local = {} THEN "fail"
         ELSE IF row.val = c.pay["val"] THEN "keep" ELSE "conflict"
    [] Strategy(c.type) = "lww" ->
         IF local # {} /\ ~RemoteWins(d, c, row) THEN "keep"
         ELSE IF WriteFails(c, local # {}) THEN "fail" ELSE "write"

\* insertChangeIfAbsent, in the transaction that writes the row.
RecordRemote(d, c, status) ==
  log' = [log EXCEPT ![d] =
    @ \cup {[pos |-> 1 + Cardinality(@), chg |-> c, status |-> status]}]

\* Mutant of WriteRow: updated_at is set as well, from a payload that has none.
WriteRowAndTime(d, c) ==
  LET local == RowsOf(d, c.type, c.eid) IN
  rows' = [rows EXCEPT ![d] =
    (@ \ local) \cup {[r EXCEPT !.val = c.pay["val"], !.ts = Null] : r \in local}]

\* The UPDATE sets the columns of the payload; updated_at is not among them.
WriteRow(d, c) ==
  LET local == RowsOf(d, c.type, c.eid) IN
  rows' = [rows EXCEPT ![d] =
    (@ \ local) \cup {[r EXCEPT !.val = c.pay["val"]] : r \in local}]

Consume(d, ev) ==
  engine' = [engine EXCEPT ![d].stream = @ \ {ev}, ![d].max = IF ev.seq > @ THEN ev.seq ELSE @]

ApplyNext(d) ==
  /\ engine[d].phase = "pulling"
  /\ \E ev \in engine[d].stream :
       /\ IsHead(ev, engine[d].stream)
       /\ \/ /\ ev.chg.id \in Recorded(d)
             /\ Consume(d, ev)
             /\ UNCHANGED <<log, rows>>
          \/ /\ ev.chg.id \notin Recorded(d)
             /\ Verdict(d, ev.chg) # "fail"
             /\ Consume(d, ev)
             /\ RecordRemote(d, ev.chg, IF Verdict(d, ev.chg) = "conflict" THEN "conflict" ELSE "synced")
             /\ IF Verdict(d, ev.chg) = "write" THEN WriteRow(d, ev.chg) ELSE UNCHANGED rows
  /\ UNCHANGED <<cursor, pushCursor>>

\* The next event cannot be written.
HeadFails(d) ==
  /\ engine[d].phase = "pulling"
  /\ \E ev \in engine[d].stream :
       /\ IsHead(ev, engine[d].stream)
       /\ ev.chg.id \notin Recorded(d)
       /\ Verdict(d, ev.chg) = "fail"

\* Mutant of ApplyFails: the cursor is saved past the event that failed.
ApplyFailsAndPasses(d) ==
  /\ HeadFails(d)
  /\ cursor' = [cursor EXCEPT ![d] =
       (CHOOSE ev \in engine[d].stream : IsHead(ev, engine[d].stream)).seq]
  /\ engine' = [engine EXCEPT ![d] = Idle]
  /\ UNCHANGED <<log, rows, pushCursor>>

\* Mutant of ApplyFails: _cycleRunning is not reset when a cycle throws.
ApplyFailsAndStops(d) == HeadFails(d) /\ UNCHANGED deviceVars

\* The write raises: its transaction is rolled back, the exception ends the cycle,
\* and the cursor is not saved.
ApplyFails(d) ==
  /\ HeadFails(d)
  /\ engine' = [engine EXCEPT ![d] = Idle]
  /\ UNCHANGED <<log, rows, cursor, pushCursor>>

\* The stream is exhausted: the cursor is saved, the cycle is over.
EndPull(d) ==
  /\ engine[d].phase = "pulling"
  /\ engine[d].stream = {}
  /\ cursor' = [cursor EXCEPT ![d] = IF engine[d].max > @ THEN engine[d].max ELSE @]
  /\ engine' = [engine EXCEPT ![d] = Idle]
  /\ UNCHANGED <<log, rows, pushCursor>>
=============================================================================
