----------------------------- MODULE SyncSystem -----------------------------
(***************************************************************************)
(* Devices and the Cloud Sync Service together. A device pushes its        *)
(* pending changes in a PushBatch call and waits for the reply; the call   *)
(* may outlive its wait (the connection breaks, the process restarts), so  *)
(* that an orphan and a retry of the same changes run side by side.        *)
(***************************************************************************)
EXTENDS CloudSync, DeviceSync

CONSTANT NoSlot   \* the device waits for no call

ASSUME SlotAssumption == NoSlot \notin Handler

VARIABLE slot     \* the call each device waits for

vars == <<cloudVars, deviceVars, slot>>

-----------------------------------------------------------------------------
Init == CloudInit /\ DeviceInit /\ slot = [d \in Device |-> NoSlot]

Edit(d) == LocalEdit(d) /\ UNCHANGED <<cloudVars, slot>>

StartPush(d) ==
  /\ Pending(d) # {}
  /\ StartCycle(d)
  /\ \E h \in Handler :
       /\ DeviceOf[h] = d
       /\ PushBatch(h, PendingBatch(d))
       /\ slot' = [slot EXCEPT ![d] = h]
  /\ UNCHANGED faults

SkipPush(d) ==
  /\ Pending(d) = {}
  /\ StartCycle(d)
  /\ UNCHANGED <<cloudVars, slot>>

Serve(h) == CallStep(h) /\ UNCHANGED <<deviceVars, slot>>

\* The call the device waits for has a reply.
Replied(d) == slot[d] # NoSlot /\ push[slot[d]].pc = "replied"

Reply(d) ==
  /\ Replied(d)
  /\ PushReplied(d, push[slot[d]].max, push[slot[d]].conflicts)
  /\ EndCall(slot[d])
  /\ slot' = [slot EXCEPT ![d] = NoSlot]
  /\ UNCHANGED faults

ReplyCut(d) ==
  /\ Replied(d)
  /\ PushReplyCut(d, push[slot[d]].max, push[slot[d]].conflicts)
  /\ EndCall(slot[d])
  /\ slot' = [slot EXCEPT ![d] = NoSlot]
  /\ Fault

\* The connection breaks or the device restarts. Its call, if any, goes on.
Break(d) ==
  /\ CycleAborts(d)
  /\ slot' = [slot EXCEPT ![d] = NoSlot]
  /\ Fault
  /\ UNCHANGED <<ledger, serial, commits, push>>

\* The transaction fails: the device, if it still waits, gets an Internal error.
Fail(h) ==
  /\ Rollback(h)
  /\ IF slot[DeviceOf[h]] = h
     THEN CycleAborts(DeviceOf[h]) /\ slot' = [slot EXCEPT ![DeviceOf[h]] = NoSlot]
     ELSE UNCHANGED <<deviceVars, slot>>

\* A reply nobody waits for.
DropReply(h) ==
  /\ slot[DeviceOf[h]] # h
  /\ EndCall(h)
  /\ UNCHANGED <<deviceVars, slot, faults>>

Pull(d) ==
  /\ StartPull(d, {[seq |-> r.seq, chg |-> r.chg] : r \in StreamAfter(d, cursor[d])})
  /\ UNCHANGED <<cloudVars, slot>>

PullStep(d) ==
  /\ ApplyNext(d) \/ ApplyFails(d) \/ EndPull(d)
  /\ UNCHANGED <<cloudVars, slot>>

DeviceNext(d) ==
  \/ Edit(d) \/ StartPush(d) \/ SkipPush(d) \/ Reply(d)
  \/ ReplyCut(d) \/ Break(d) \/ Pull(d) \/ PullStep(d)

HandlerNext(h) == Serve(h) \/ Fail(h) \/ DropReply(h)

Next ==
  \/ \E d \in Device : DeviceNext(d)
  \/ \E h \in Handler : HandlerNext(h)

Spec == Init /\ [][Next]_vars

\* The timer starts a cycle whenever none is running (a backoff only delays it);
\* the service serves its calls; a reply and a stream that are not cut arrive. Edits
\* and failures need not happen, and failures end (MaxFaults).
Fairness ==
  /\ \A d \in Device :
       /\ WF_vars(StartPush(d) \/ SkipPush(d))
       /\ WF_vars(Reply(d))
       /\ WF_vars(Pull(d))
       /\ WF_vars(PullStep(d))
  /\ \A h \in Handler : WF_vars(Serve(h)) /\ WF_vars(DropReply(h))

FairSpec == Spec /\ Fairness

-----------------------------------------------------------------------------
(* Properties.                                                             *)

SystemTypeOK ==
  /\ TypeOK
  /\ log \in [Device -> SUBSET LogRow] /\ rows \in [Device -> SUBSET BusinessRow]
  /\ cursor \in [Device -> Nat] /\ pushCursor \in [Device -> Nat]
  /\ engine \in [Device -> Engine]
  /\ slot \in [Device -> Handler \cup {NoSlot}]

\* No change is lost between the outbox and the ledger: once a device has taken an
\* own change for pushed, the ledger has it, or holds what the policy prefers to
\* it. Whatever was edited during the call, cut, retried or left an orphan.
AckedIsCovered ==
  \A d \in Device : \A r \in Own(d) : r.status # "pending" => Covered(r.chg)

\* The ledger is causal: when it holds a change, every earlier change of the same
\* device is in it or lost to a committed one. Batches, limits, retries and orphans
\* never let a later change overtake an earlier one.
CausalOrder ==
  \A r \in ledger : \A own \in Own(r.chg.dev) :
    own.chg.n < r.chg.n => Covered(own.chg)

\* What a pull skips for good. The cursor passes an unseen row of another device
\* only if the row was committed later than one with a higher sequence: the
\* BIGSERIAL race, and no other interruption, abort or redelivery.
CursorMissesOnlyLateCommits ==
  \A d \in Device : \A r \in ledger :
    /\ r.chg.dev # d
    /\ r.seq <= cursor[d]
    /\ r.chg.id \notin Recorded(d)
    => \E s \in ledger : s.seq > r.seq /\ s.commit < r.commit

\* Every local edit is eventually acknowledged, although pulls fail for good,
\* calls are abandoned and edits go on during a cycle.
IsPending(d, n) == \E c \in Pending(d) : c.n = n

EditsGetAcknowledged ==
  \A d \in Device : \A n \in 1 .. MaxChanges[d] : IsPending(d, n) ~> ~IsPending(d, n)

\* The documents' claims that the code does not keep.

\* "Each device's `last_remote_sequence` corresponds to the point in this log up to
\* which it has consumed events" (Architecture Book, 704).
CursorNeverSkips ==
  \A d \in Device : \A r \in ledger :
    r.chg.dev # d /\ r.seq <= cursor[d] => r.chg.id \in Recorded(d)

\* "Duplicate deliveries from the retry loop: acknowledge silently"
\* (cloud/sync/internal/service/sync_service.go): a device's own change that the
\* ledger holds is not marked as a conflict.
DuplicatesAreSilent ==
  \A d \in Device : \A r \in Own(d) : Stored(r.chg.id) => r.status # "conflict"

\* "All authorised replicas ... will converge to a consistent state" (Architecture
\* Book, 604): what is in the ledger reaches the other devices.
Arrived(d, id) == (\E r \in ledger : r.chg.id = id /\ r.chg.dev # d) => id \in Recorded(d)

ChangesArrive ==
  \A d, e \in Device : \A n \in 1 .. MaxChanges[e] : []<>Arrived(d, Uuid[e][n])
=============================================================================
