----------------------------- MODULE CloudSync -----------------------------
(***************************************************************************)
(* The Cloud Sync Service (cloud/sync): the ledger cloud_change_log in     *)
(* PostgreSQL and the PushBatch handlers that append to it concurrently.   *)
(*                                                                         *)
(* A handler (SyncService.PushBatch) runs in three stages: it resolves     *)
(* each event of its request against the newest merged change, OUTSIDE any *)
(* transaction; it inserts the winners one by one in one transaction; it   *)
(* commits and replies. Handlers of different devices, and of one device   *)
(* that gave up waiting and pushed again, interleave between any two       *)
(* statements. BIGSERIAL hands out a sequence number when a row is         *)
(* inserted, and the row becomes visible when its transaction commits:     *)
(* numbers are handed out and become visible in different orders.          *)
(***************************************************************************)
EXTENDS CloudResolver, FiniteSets

CONSTANTS Handler,     \* slots for concurrent PushBatch calls
          DeviceOf,    \* the device whose requests a slot serves
          Batches,     \* the batches devices push
          MaxSerial,   \* bound: no new request once the serial is this high
          MaxFaults    \* bound: failures of the service or the network

ASSUME CloudAssumption ==
  /\ DeviceOf \in [Handler -> Device]
  /\ Batches \subseteq SUBSET Change
  /\ MaxSerial \in Nat
  /\ MaxFaults \in Nat

VARIABLES ledger,      \* committed rows of cloud_change_log
          serial,      \* last value handed out by the BIGSERIAL sequence
          commits,     \* transactions that have added rows so far
          push,        \* per slot, the state of its PushBatch call
          faults       \* failures so far

cloudVars == <<ledger, serial, commits, push, faults>>

-----------------------------------------------------------------------------
\* A row: its global_sequence and the (possibly merged) change it stores. Ghosts:
\* the number of the transaction that added it, and how many transactions had
\* added rows when the call that resolved it began.
Row == [seq : Nat, commit : Nat, seen : Nat, chg : Change]

\* A row inserted by a transaction that has not committed.
Insert == [seq : Nat, chg : Change]

\* A PushBatch call: its request, the events still to resolve, the winners still
\* to insert, the rows inserted so far, the change ids to report as conflicts, the
\* highest sequence so far. Ghosts: seen, the number of commits that its lookups
\* are sure to have read; commit, the number of its transaction once it added rows.
Call == [pc : {"idle", "serving", "replied"},
         req : SUBSET Change, todo : SUBSET Change, accept : SUBSET Change,
         rows : SUBSET Insert, conflicts : SUBSET Nat, max : Nat,
         seen : Nat, commit : Nat]

NoCall == [pc |-> "idle", req |-> {}, todo |-> {}, accept |-> {}, rows |-> {},
           conflicts |-> {}, max |-> 0, seen |-> 0, commit |-> 0]

\* Mutant of IsNext: a batch has no order.
IsAnyOf(c, batch) == c \in batch

\* Batches are pushed, resolved and appended in the device's sequence order.
IsNext(c, batch) == c \in batch /\ \A e \in batch : c.n <= e.n

\* LatestFor: the committed change of the entity with the highest sequence.
LatestFor(c) ==
  LET rows == {r \in ledger : SameEntity(r.chg, c)} IN
  IF rows = {} THEN Nil
  ELSE (CHOOSE r \in rows : \A s \in rows : s.seq <= r.seq).chg

\* Mutant of Blocked: an insert does not wait for a rival insert of its change_id.
NeverBlocked(h, c) == FALSE

\* The unique index makes an insert wait for another transaction that has
\* inserted the same change_id and not finished.
Blocked(h, c) == \E g \in Handler \ {h} : \E r \in push[g].rows : r.chg.id = c.id

\* Mutant of Known: only the rows of the own transaction are looked at.
KnownInOwnRows(h, id) == {r.seq : r \in {s \in push[h].rows : s.chg.id = id}}

\* The sequences under which the transaction of h finds a change_id stored.
Known(h, id) == {r.seq : r \in {s \in ledger \cup push[h].rows : s.chg.id = id}}

\* StreamAfter: the rows a pull of device d after a cursor sends, as of now.
StreamAfter(d, after) == {r \in ledger : r.seq > after /\ r.chg.dev # d}

\* Mutant of TopSeq: MAX without COALESCE, which is NULL when there is no row.
TopSeqOrNull(rows) ==
  IF rows = {} THEN Null ELSE (CHOOSE r \in rows : \A s \in rows : s.seq <= r.seq).seq

\* The highest sequence of the business.
TopSeq(rows) ==
  IF rows = {} THEN 0 ELSE (CHOOSE r \in rows : \A s \in rows : s.seq <= r.seq).seq

-----------------------------------------------------------------------------
CloudInit ==
  /\ ledger = {}
  /\ serial = 0
  /\ commits = 0
  /\ push = [h \in Handler |-> NoCall]
  /\ faults = 0

\* A failure happens now.
Fault == faults < MaxFaults /\ faults' = faults + 1

\* A request arrives: an authenticated device pushes a batch. The service
\* overwrites the device_id of every event with the authenticated one.
PushBatch(h, batch) ==
  /\ push[h].pc = "idle"
  /\ serial < MaxSerial
  /\ \A c \in batch : c.dev = DeviceOf[h]
  /\ push' = [push EXCEPT ![h] =
       [NoCall EXCEPT !.pc = "serving", !.req = batch, !.todo = batch,
                      !.seen = commits]]
  /\ UNCHANGED <<ledger, serial, commits>>

\* Event c is resolved against `current`; `seen` is what the call then knows.
Resolve(h, c, current, seen) ==
  /\ push[h].pc = "serving"
  /\ IsNext(c, push[h].todo)
  /\ push' = [push EXCEPT
       ![h].todo = @ \ {c},
       ![h].accept = IF Applies(c, current) THEN @ \cup {Merged(c, current)} ELSE @,
       ![h].conflicts = IF Conflicts(c, current) THEN @ \cup {c.id} ELSE @,
       ![h].seen = seen]
  /\ UNCHANGED <<ledger, serial, commits>>

ResolveNext(h) ==
  /\ \E c \in push[h].todo : Resolve(h, c, LatestFor(c), push[h].seen)
  /\ UNCHANGED faults

\* LatestFor failed; PushBatch discards the error and goes on with nil.
ResolveBlind(h) ==
  /\ \E c \in push[h].todo : Resolve(h, c, Nil, 0)
  /\ Fault

\* Every event is resolved: the call is in the transaction of AppendChanges.
Appending(h) == push[h].pc = "serving" /\ push[h].todo = {}

\* INSERT ... ON CONFLICT (change_id) DO NOTHING RETURNING global_sequence.
InsertNew(h, c) ==
  /\ Known(h, c.id) = {}
  /\ push' = [push EXCEPT
       ![h].accept = @ \ {c},
       ![h].rows = @ \cup {[seq |-> serial + 1, chg |-> c]},
       ![h].max = serial + 1]

\* The duplicate is skipped, looked up, and reported among the conflicts.
SkipDuplicate(h, c) ==
  \E seq \in Known(h, c.id) :
    push' = [push EXCEPT
       ![h].accept = @ \ {c},
       ![h].conflicts = @ \cup {c.id},
       ![h].max = IF seq > @ THEN seq ELSE @]

\* One turn of the loop in AppendChanges. The serial advances either way: the
\* default of global_sequence is evaluated before the conflict is found.
InsertNext(h) ==
  /\ Appending(h)
  /\ \E c \in push[h].accept :
       /\ IsNext(c, push[h].accept)
       /\ ~Blocked(h, c)
       /\ InsertNew(h, c) \/ SkipDuplicate(h, c)
  /\ serial' = serial + 1
  /\ UNCHANGED <<ledger, commits, faults>>

Committed(h) ==
  {[seq |-> r.seq, commit |-> commits + 1, seen |-> push[h].seen, chg |-> r.chg] :
     r \in push[h].rows}

\* All winners are in: commit, then reply.
Commit(h) ==
  /\ Appending(h)
  /\ push[h].accept = {}
  /\ ledger' = ledger \cup Committed(h)
  /\ commits' = IF push[h].rows = {} THEN commits ELSE commits + 1
  /\ push' = [push EXCEPT
       ![h].pc = "replied", ![h].rows = {},
       ![h].commit = IF push[h].rows = {} THEN 0 ELSE commits + 1,
       ![h].max = IF @ = 0 THEN TopSeq(ledger) ELSE @]
  /\ UNCHANGED <<serial, faults>>

\* A statement of AppendChanges fails: the transaction is rolled back and the
\* call ends with an Internal error.
Rollback(h) ==
  /\ Appending(h)
  /\ push' = [push EXCEPT ![h] = NoCall]
  /\ Fault
  /\ UNCHANGED <<ledger, serial, commits>>

\* The reply has been read, or nobody is there any more to read it.
EndCall(h) ==
  /\ push[h].pc = "replied"
  /\ push' = [push EXCEPT ![h] = NoCall]
  /\ UNCHANGED <<ledger, serial, commits>>

\* A step of a call after its arrival and before its end.
CallStep(h) ==
  \/ ResolveNext(h)
  \/ ResolveBlind(h)
  \/ InsertNext(h)
  \/ Commit(h)

CloudNext ==
  \E h \in Handler :
    \/ \E batch \in Batches : PushBatch(h, batch) /\ UNCHANGED faults
    \/ CallStep(h)
    \/ Rollback(h)
    \/ EndCall(h) /\ UNCHANGED faults

CloudSpec == CloudInit /\ [][CloudNext]_cloudVars

-----------------------------------------------------------------------------
(* What the ledger guarantees.                                             *)

TypeOK ==
  /\ ledger \subseteq Row
  /\ serial \in Nat
  /\ commits \in Nat
  /\ push \in [Handler -> Call]
  /\ faults \in Nat

\* Push is idempotent (Proto Book 4.1): whatever is retried, overlaps or fails,
\* a change_id is stored at most once, and no global sequence is used twice.
LedgerIdsOnce ==
  \A r, s \in ledger : r.chg.id = s.chg.id \/ r.seq = s.seq => r = s

\* The check against the newest merged change is not atomic with the insert, so an
\* append-only entity can end up with two merged rows. There are only three ways to
\* that: both are events of one batch, which is resolved as a whole before any of it
\* is appended; the calls overlap, each began before the other committed; or the
\* lookup of one failed (seen is then 0, which every commit exceeds). A call that
\* starts after a row of the entity was committed, and whose lookups work, never
\* adds another.
ForksOverlap ==
  \A r, s \in ledger :
    /\ r # s
    /\ SameEntity(r.chg, s.chg)
    /\ Strategy(r.chg.type) = "appendonly"
    => \/ r.commit = s.commit
       \/ r.seen < s.commit /\ s.seen < r.commit

\* Stored in the ledger, or refused by the policy because of what is stored there.
Stored(id) == \E r \in ledger : r.chg.id = id

Covered(c) ==
  LET rivals == {r \in ledger : SameEntity(r.chg, c)} IN
  \/ Stored(c.id)
  \/ Strategy(c.type) = "lww" /\ \E r \in rivals : ~Beats(c, r.chg)
  \/ Strategy(c.type) = "appendonly" /\ rivals # {}
  \/ Strategy(c.type) = "eventsourced" /\ (rivals # {} \/ c.op # "INSERT")

NotDropped(h, c) ==
  Strategy(c.type) = "appendonly" /\ c.id \notin push[h].conflicts =>
    \/ Stored(c.id)
    \/ \E r \in ledger : SameEntity(r.chg, c) /\ r.chg.pay = c.pay

\* A reply with success means what the device takes it for: every event of the
\* request is in the ledger, or lost to a committed change of its entity; and an
\* append-only event that differs from every committed one is reported back.
RepliesAreTrue ==
  \A h \in Handler : push[h].pc = "replied" =>
    \A c \in push[h].req :
      /\ Covered(c)
      /\ NotDropped(h, c)

\* The ledger as other components may rely on it: a log to which whole batches of
\* one device are added atomically, each change once, each at a position of its own.
LedgerLog == {[pos |-> r.seq, chg |-> r.chg] : r \in ledger}

MergedLog == INSTANCE MergeLog WITH log <- LedgerLog

\* The service implements the abstract log.
ImplementsMergeLog == MergedLog!Spec
=============================================================================
