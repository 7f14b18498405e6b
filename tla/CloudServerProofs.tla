------------------------- MODULE CloudServerProofs -------------------------
(***************************************************************************)
(* Proofs about CloudServer, for any number of replicas, devices, calls    *)
(* and failures: what CloudSyncProofs shows of the push handlers holds     *)
(* through shutdowns, crashes and restarts of the processes they run in,   *)
(* and the properties of pulls, pings, shutdown and revocation.            *)
(***************************************************************************)
EXTENDS CloudServer, CloudSyncProofs

-----------------------------------------------------------------------------
(* The invariant of the push handlers.                                     *)

\* It does not depend on anything but the push handlers and the ledger.
LEMMA FrameInv ==
  ASSUME IInv, UNCHANGED <<ledger, serial, commits, push>>, faults' \in Nat
  PROVE  IInv'
BY DEF IInv, TypeOK, Numbers, UniqueRows, LedgerIdsOnce, Authors, Winners, ForksOverlap,
       NoOldRival, Answers, InWork, Covered, Stored, NotDropped

\* Any calls may be cut at once: they leave nothing behind.
LEMMA CutInv ==
  ASSUME IInv, push' \in [Handler -> Call],
         \A h \in Handler : push'[h] = NoCall \/ push'[h] = push[h],
         UNCHANGED <<ledger, serial, commits>>, faults' \in Nat
  PROVE  IInv'
<1>1. /\ ledger' = ledger /\ serial' = serial /\ commits' = commits
      /\ commits \in Nat
  BY DEF IInv, TypeOK
<1>2. /\ NoCall.pc = "idle" /\ NoCall.req = {} /\ NoCall.todo = {}
      /\ NoCall.accept = {} /\ NoCall.rows = {} /\ NoCall.seen = 0
  BY DEF NoCall
<1>3. TypeOK'
  BY <1>1 DEF IInv, TypeOK
<1>4. Numbers'
  BY <1>1, <1>2 DEF IInv, TypeOK, Numbers
<1>5. UniqueRows'
  BY <1>1, <1>2 DEF IInv, UniqueRows, LedgerIdsOnce
<1>6. Authors'
  BY <1>1, <1>2 DEF IInv, Authors
<1>7. Winners'
  <2>1. \A h \in Handler : push'[h] = push[h] =>
           /\ \A c \in push'[h].accept : NoOldRival(h, c)'
           /\ \A r \in push'[h].rows : NoOldRival(h, r.chg)'
    BY <1>1 DEF IInv, Winners, NoOldRival
  <2> QED
    BY <1>1, <1>2, <2>1 DEF IInv, Winners, ForksOverlap
<1>8. Answers'
  <2>1. \A h \in Handler : push'[h] = push[h] =>
           \A c \in push'[h].req :
             InWork(h, c)' \/ (Covered(c)' /\ NotDropped(h, c)')
    BY <1>1 DEF IInv, Answers, InWork, Covered, Stored, NotDropped
  <2> QED
    BY <1>2, <2>1 DEF IInv, Answers
<1> QED
  BY <1>3, <1>4, <1>5, <1>6, <1>7, <1>8 DEF IInv

\* What cutting the calls of a replica does to them.
LEMMA CutEffect ==
  ASSUME push \in [Handler -> Call], NEW r \in Replica, CutCalls(r)
  PROVE  /\ push' \in [Handler -> Call]
         /\ \A h \in Handler : push'[h] = IF ReplicaOf[h] = r THEN NoCall ELSE push[h]
<1>1. NoCall \in Call
  BY DEF NoCall, Call
<1> QED
  BY <1>1 DEF CutCalls

LEMMA ServerStepInv ==
  ASSUME IInv, [ServerNext]_serverVars
  PROVE  IInv'
<1> USE DEF outerVars, serverVars, cloudVars
<1>1. faults \in Nat /\ push \in [Handler -> Call]
  BY DEF IInv, TypeOK
<1>2. ASSUME NEW h \in Handler, NEW batch \in Batches, BeginPush(h, batch) PROVE IInv'
  BY <1>1, <1>2, PushBatchInv, CloudAssumption DEF BeginPush
<1>3. ASSUME NEW h \in Handler, PushStep(h) \/ CommitPush(h) PROVE IInv'
  <2>1. CallStep(h)
    BY <1>3 DEF PushStep, CommitPush, CallStep
  <2> QED
    BY <2>1, CallStepInv
<1>4. ASSUME NEW h \in Handler, FailPush(h) \/ CommitUnsure(h) \/ EndPush(h) PROVE IInv'
  <2>1. /\ push' = [push EXCEPT ![h] = NoCall]
        /\ UNCHANGED <<ledger, serial, commits>> /\ faults' \in Nat
    BY <1>1, <1>4 DEF FailPush, Rollback, CommitUnsure, EndPush, EndCall, Fault
  <2> QED
    BY <2>1, ClearInv
<1>5. ASSUME NEW h \in Handler, Publish(h) \/ PublishFails(h) PROVE IInv'
  BY <1>1, <1>5, FrameInv DEF Publish, PublishFails, Fault
<1>6. ASSUME NEW p \in Puller, PullNext(p) PROVE IInv'
  <2>1. CASE FailPull(p)
    BY <1>1, <2>1, FrameInv DEF FailPull, Fault
  <2>2. CASE ~ FailPull(p)
    <3>1. UNCHANGED cloudVars
      BY <1>6, <2>2 DEF PullNext, BeginPull, QueryRows, SendRow, EndPull, ClosePull
    <3> QED
      BY <1>1, <3>1, FrameInv
  <2> QED
    BY <2>1, <2>2
<1>7. ASSUME NEW r \in Replica, Start(r) \/ Terminate(r) \/ Exit(r) PROVE IInv'
  BY <1>1, <1>7, FrameInv DEF Start, Terminate, Exit
<1>8. ASSUME NEW r \in Replica, Crash(r) PROVE IInv'
  <2>1. /\ CutCalls(r) /\ UNCHANGED <<ledger, serial, commits>> /\ faults' \in Nat
    BY <1>1, <1>8 DEF Crash, CutCalls, Fault
  <2> QED
    BY <1>1, <2>1, CutEffect, CutInv
<1>9. ASSUME NEW d \in Device, Administer(d) PROVE IInv'
  BY <1>1, <1>9, FrameInv DEF Administer
<1>10. CASE UNCHANGED serverVars
  BY <1>1, <1>10, FrameInv
<1> QED
  BY <1>2, <1>3, <1>4, <1>5, <1>6, <1>7, <1>8, <1>9, <1>10
     DEF ServerNext, PushNext, ProcessNext

-----------------------------------------------------------------------------
(* Types, and calls that belong to a process.                              *)

LEMMA ServerTypeInit == ServerInit => ServerTypeOK
<1> SUFFICES ASSUME ServerInit PROVE ServerTypeOK
  OBVIOUS
<1>1. Down \in Process /\ NoPull \in PullCall
  BY DEF Down, Process, NoPull, PullCall
<1>2. \A p \in Puller : pull[p].pc = "idle"
  BY DEF ServerInit, NoPull
<1>3. \A h \in Handler : push[h].pc = "idle"
  BY DEF ServerInit, CloudInit, NoCall
<1> QED
  BY <1>1, <1>2, <1>3 DEF ServerInit, ServerTypeOK

\* A step of a push handler after its beginning starts no call.
LEMMA PushEffect ==
  ASSUME TypeOK, NEW h \in Handler,
         \/ PushStep(h) \/ CommitPush(h) \/ FailPush(h) \/ CommitUnsure(h) \/ EndPush(h)
  PROVE  /\ \A g \in Handler \ {h} : push'[g] = push[g]
         /\ push[h].pc # "idle"
<1>1. push \in [Handler -> Call] /\ push[h] \in Call
  BY DEF TypeOK
<1>2. CASE PushStep(h)
  <2>1. CASE ResolveNext(h) \/ ResolveBlind(h)
    BY <1>1, <2>1 DEF ResolveNext, ResolveBlind, Resolve
  <2>2. CASE InsertNext(h)
    BY <1>1, <2>2 DEF InsertNext, Appending, InsertNew, SkipDuplicate
  <2> QED
    BY <1>2, <2>1, <2>2 DEF PushStep
<1>3. CASE CommitPush(h)
  BY <1>1, <1>3 DEF CommitPush, Commit, Appending
<1>4. CASE FailPush(h)
  BY <1>1, <1>4 DEF FailPush, Rollback, Appending
<1>5. CASE CommitUnsure(h) \/ EndPush(h)
  BY <1>1, <1>5 DEF CommitUnsure, EndPush, EndCall
<1> QED
  BY <1>2, <1>3, <1>4, <1>5

\* A change of one pull keeps the types when the new call has one, and the processes
\* when it goes on or begins in a process that is there.
LEMMA PullTypeOK ==
  ASSUME ServerTypeOK, NEW p \in Puller, NEW call \in PullCall,
         pull' = [pull EXCEPT ![p] = call],
         call.pc # "idle" => process[ReplicaOf[p]] # Down,
         UNCHANGED <<push, process, devices, due, hints, lost, events>>
  PROVE  ServerTypeOK'
BY DEF ServerTypeOK

LEMMA ServerTypeStep ==
  ASSUME IInv, IInv', ServerTypeOK, [ServerNext]_serverVars
  PROVE  ServerTypeOK'
<1>1. /\ TypeOK /\ TypeOK' /\ push \in [Handler -> Call] /\ push' \in [Handler -> Call]
      /\ pull \in [Puller -> PullCall] /\ process \in [Replica -> Process]
      /\ \A h \in Handler : HintOf(h) \in HintType
      /\ \A s \in Handler \cup Puller : ReplicaOf[s] \in Replica
  BY ServerAssumption DEF IInv, TypeOK, ServerTypeOK, Call, HintOf, HintType
<1>2. ASSUME NEW h \in Handler, NEW batch \in Batches, BeginPush(h, batch)
      PROVE  ServerTypeOK'
  <2>1. process[ReplicaOf[h]] # Down
    BY <1>2 DEF BeginPush, Serving, Down
  <2>2. \A g \in Handler \ {h} : push'[g] = push[g]
    BY <1>1, <1>2 DEF BeginPush, PushBatch
  <2> QED
    BY <1>2, <2>1, <2>2 DEF BeginPush, outerVars, ServerTypeOK
<1>3. ASSUME NEW h \in Handler,
             \/ PushStep(h) \/ CommitPush(h) \/ FailPush(h) \/ CommitUnsure(h) \/ EndPush(h)
      PROVE  ServerTypeOK'
  <2>1. \A g \in Handler : push'[g].pc # "idle" => push[g].pc # "idle"
    BY <1>1, <1>3, PushEffect
  <2>2. /\ UNCHANGED <<process, devices, hints, pull, events>>
        /\ due' \subseteq due \cup {h} /\ lost' \subseteq lost \cup {HintOf(h)}
    BY <1>3 DEF PushStep, CommitPush, FailPush, CommitUnsure, EndPush, outerVars
  <2> QED
    BY <1>1, <2>1, <2>2 DEF ServerTypeOK
<1>4. ASSUME NEW h \in Handler, Publish(h) \/ PublishFails(h) PROVE ServerTypeOK'
  <2>1. /\ UNCHANGED <<push, process, devices, pull, events>>
        /\ due' \subseteq due
        /\ hints' \subseteq hints \cup {HintOf(h)} /\ lost' \subseteq lost \cup {HintOf(h)}
    BY <1>4 DEF Publish, PublishFails, cloudVars
  <2> QED
    BY <1>1, <2>1 DEF ServerTypeOK
<1>5. ASSUME NEW p \in Puller, PullNext(p) PROVE ServerTypeOK'
  <2>1. UNCHANGED <<push, process, devices, due, hints, lost, events>>
    BY <1>5 DEF PullNext, BeginPull, QueryRows, SendRow, EndPull, FailPull, ClosePull, cloudVars
  <2>2. /\ pull[p] \in PullCall /\ NoPull \in PullCall /\ NoPull.pc = "idle"
        /\ pull[p].pc # "idle" => process[ReplicaOf[p]] # Down
        /\ ledger \subseteq Row /\ commits \in Nat
    BY <1>1 DEF NoPull, PullCall, ServerTypeOK, TypeOK
  <2>3. ASSUME NEW after \in {0} \cup {r.seq : r \in ledger}, BeginPull(p, after)
        PROVE  ServerTypeOK'
    <3> DEFINE call == [NoPull EXCEPT !.pc = "begun", !.after = after, !.seen = commits]
    <3>1. after \in Nat
      BY <2>2 DEF Row
    <3>2. call \in PullCall
      BY <2>2, <3>1 DEF PullCall, NoPull
    <3>3. process[ReplicaOf[p]] # Down
      BY <2>3 DEF BeginPull, Serving, Down
    <3>4. pull' = [pull EXCEPT ![p] = call]
      BY <2>3 DEF BeginPull
    <3> HIDE DEF call
    <3> QED
      BY <2>1, <3>2, <3>3, <3>4, PullTypeOK
  <2>4. CASE QueryRows(p)
    <3> DEFINE call == [pull[p] EXCEPT !.pc = "streaming",
                                       !.todo = StreamAfter(PullerOf[p], pull[p].after)]
    <3>1. call \in PullCall /\ pull' = [pull EXCEPT ![p] = call]
      BY <1>1, <2>2, <2>4 DEF PullCall, StreamAfter, QueryRows
    <3>2. process[ReplicaOf[p]] # Down
      BY <2>2, <2>4 DEF QueryRows
    <3> HIDE DEF call
    <3> QED
      BY <2>1, <3>1, <3>2, PullTypeOK
  <2>5. CASE SendRow(p)
    <3>1. PICK r \in pull[p].todo :
            pull' = [pull EXCEPT ![p].todo = @ \ {r}, ![p].sent = @ \cup {r}]
      BY <2>5 DEF SendRow
    <3> DEFINE call == [pull[p] EXCEPT !.todo = @ \ {r}, !.sent = @ \cup {r}]
    <3>2. call \in PullCall /\ pull' = [pull EXCEPT ![p] = call]
      BY <1>1, <2>2, <3>1 DEF PullCall
    <3>3. process[ReplicaOf[p]] # Down
      BY <2>2, <2>5 DEF SendRow
    <3> HIDE DEF call
    <3> QED
      BY <2>1, <3>2, <3>3, PullTypeOK
  <2>6. CASE EndPull(p)
    <3> DEFINE call == [pull[p] EXCEPT !.pc = "ended"]
    <3>1. call \in PullCall /\ pull' = [pull EXCEPT ![p] = call]
      BY <1>1, <2>2, <2>6 DEF PullCall, EndPull
    <3>2. process[ReplicaOf[p]] # Down
      BY <2>2, <2>6 DEF EndPull
    <3> HIDE DEF call
    <3> QED
      BY <2>1, <3>1, <3>2, PullTypeOK
  <2>7. CASE FailPull(p)
    <3> DEFINE call == [pull[p] EXCEPT !.pc = "failed", !.todo = {}]
    <3>1. call \in PullCall /\ pull' = [pull EXCEPT ![p] = call]
      BY <1>1, <2>2, <2>7 DEF PullCall, FailPull
    <3>2. process[ReplicaOf[p]] # Down
      BY <2>2, <2>7 DEF FailPull
    <3> HIDE DEF call
    <3> QED
      BY <2>1, <3>1, <3>2, PullTypeOK
  <2>8. CASE ClosePull(p)
    BY <2>1, <2>2, <2>8, PullTypeOK DEF ClosePull
  <2> QED
    BY <1>5, <2>3, <2>4, <2>5, <2>6, <2>7, <2>8 DEF PullNext
<1>6. ASSUME NEW r \in Replica, Start(r) \/ Terminate(r) PROVE ServerTypeOK'
  <2>1. /\ \E row \in Process : process' = [process EXCEPT ![r] = row]
        /\ process'[r] # Down
    <3>1. CASE Start(r)
      <4>1. PICK env \in Environment :
              process' = [process EXCEPT ![r] =
                [phase |-> "serving", notifier |-> env.redis = "up"]]
        BY <3>1 DEF Start
      <4>2. [phase |-> "serving", notifier |-> env.redis = "up"] \in Process \ {Down}
        BY DEF Process, Down
      <4> QED
        BY <1>1, <4>1, <4>2
    <3>2. CASE Terminate(r)
      BY <1>1, <3>2 DEF Terminate, Process, Down
    <3> QED
      BY <1>6, <3>1, <3>2
  <2>2. process' \in [Replica -> Process] /\ process'[r] # Down
    BY <1>1, <2>1
  <2>3. \A q \in Replica \ {r} : process'[q] = process[q]
    BY <1>1, <2>1
  <2>4. UNCHANGED <<push, devices, due, hints, lost, pull>> /\ events' \in Nat
    BY <1>6 DEF Start, Terminate, Event, cloudVars, ServerTypeOK
  <2> QED
    BY <1>1, <2>2, <2>3, <2>4 DEF ServerTypeOK
<1>7. ASSUME NEW r \in Replica, Exit(r) \/ Crash(r) PROVE ServerTypeOK'
  <2>1. /\ process' = [process EXCEPT ![r] = Down] /\ Down \in Process
        /\ UNCHANGED <<devices, hints, events>>
    BY <1>7 DEF Exit, Crash, Down, Process
  <2>2. /\ \A h \in Handler : /\ ReplicaOf[h] = r => push'[h].pc = "idle"
                              /\ ReplicaOf[h] # r => push'[h] = push[h]
        /\ \A p \in Puller : /\ ReplicaOf[p] = r => pull'[p].pc = "idle"
                             /\ ReplicaOf[p] # r => pull'[p] = pull[p]
        /\ pull' \in [Puller -> PullCall]
        /\ due' \subseteq Handler /\ lost' \subseteq HintType
    <3>1. CASE Exit(r)
      BY <1>1, <3>1 DEF Exit, Idle, cloudVars, ServerTypeOK
    <3>2. CASE Crash(r)
      <4>1. NoPull \in PullCall /\ NoPull.pc = "idle" /\ NoCall.pc = "idle"
        BY DEF NoPull, PullCall, NoCall
      <4> QED
        BY <1>1, <3>2, <4>1 DEF Crash, CutCalls, ServerTypeOK
    <3> QED
      BY <1>7, <3>1, <3>2
  <2> QED
    BY <1>1, <2>1, <2>2 DEF ServerTypeOK
<1>8. ASSUME NEW d \in Device, Administer(d) PROVE ServerTypeOK'
  <2>1. UNCHANGED <<push, process, due, hints, lost, pull>> /\ events' \in Nat
    BY <1>8 DEF Administer, Event, cloudVars, ServerTypeOK
  <2>2. devices' \in [Device -> Registration]
    <3>1. PICK authorized \in BOOLEAN :
            devices' = [devices EXCEPT ![d].authorized = authorized]
      BY <1>8 DEF Administer
    <3> QED
      BY <3>1 DEF ServerTypeOK, Registration
  <2> QED
    BY <2>1, <2>2 DEF ServerTypeOK
<1>9. CASE UNCHANGED serverVars
  BY <1>9 DEF serverVars, cloudVars, outerVars, ServerTypeOK
<1> QED
  BY <1>2, <1>3, <1>4, <1>5, <1>6, <1>7, <1>8, <1>9 DEF ServerNext, PushNext, ProcessNext

-----------------------------------------------------------------------------
(* Pings.                                                                  *)

\* What makes the properties of pings inductive: max is the sequence of a row, and
\* bounds the rows of its call.
TopOf(h) ==
  /\ \A r \in push[h].rows : 0 < r.seq /\ r.seq <= push[h].max
  /\ push[h].pc = "serving" /\ push[h].max > 0 =>
       \E r \in ledger \cup push[h].rows : r.seq = push[h].max

Tops == \A h \in Handler : TopOf(h)

DueIsCommitted ==
  \A h \in due : push[h].pc = "replied" /\ \E r \in ledger : r.seq = push[h].max

PingInv == Tops /\ DueIsCommitted /\ HintsAreCommitted /\ RowsAreAnnounced

LEMMA PingInit == ServerInit => PingInv
BY DEF ServerInit, CloudInit, NoCall, PingInv, Tops, TopOf, DueIsCommitted, HintsAreCommitted,
       RowsAreAnnounced

LEMMA PingFrame ==
  ASSUME PingInv, UNCHANGED <<ledger, push, due, hints, lost>>
  PROVE  PingInv'
BY DEF PingInv, Tops, TopOf, DueIsCommitted, HintsAreCommitted, RowsAreAnnounced, HintOf

\* Steps that move a call that owes no ping, and commit nothing.
LEMMA PingCallFrame ==
  ASSUME PingInv, NEW h \in Handler, h \notin due,
         UNCHANGED <<ledger, due, hints, lost>>,
         \A g \in Handler \ {h} : push'[g] = push[g],
         TopOf(h)', due \subseteq Handler
  PROVE  PingInv'
<1>1. Tops'
  BY DEF PingInv, Tops, TopOf
<1>2. \A g \in due : push'[g] = push[g]
  OBVIOUS
<1>3. DueIsCommitted' /\ HintsAreCommitted'
  BY <1>2 DEF PingInv, DueIsCommitted, HintsAreCommitted
<1>4. RowsAreAnnounced'
  BY <1>2 DEF PingInv, RowsAreAnnounced, HintOf
<1> QED
  BY <1>1, <1>3, <1>4 DEF PingInv

LEMMA PingPushStep ==
  ASSUME IInv, ServerTypeOK, PingInv, NEW h \in Handler, PushStep(h)
  PROVE  PingInv'
<1>1. /\ push \in [Handler -> Call] /\ push[h] \in Call /\ serial \in Nat
      /\ due \subseteq Handler /\ ledger \subseteq Row
      /\ \A r \in push[h].rows : r.seq \in Nat /\ r.seq <= serial
  BY DEF IInv, TypeOK, ServerTypeOK, Numbers, Call, Insert
<1>2. UNCHANGED <<ledger, due, hints, lost>>
  BY DEF PushStep, ResolveNext, ResolveBlind, Resolve, InsertNext, outerVars
<1>3. push[h].pc = "serving" /\ h \notin due
  BY DEF PushStep, ResolveNext, ResolveBlind, Resolve, InsertNext, Appending, PingInv,
         DueIsCommitted
<1>4. /\ \A r \in push[h].rows : 0 < r.seq /\ r.seq <= push[h].max
      /\ push[h].max > 0 => \E r \in ledger \cup push[h].rows : r.seq = push[h].max
  BY <1>3 DEF PingInv, Tops, TopOf
<1>5. CASE ResolveNext(h) \/ ResolveBlind(h)
  <2>1. /\ \A g \in Handler \ {h} : push'[g] = push[g]
        /\ push'[h].rows = push[h].rows /\ push'[h].max = push[h].max
    <3>1. CASE ResolveNext(h)
      BY <1>1, <3>1 DEF ResolveNext, Resolve, Call
    <3>2. CASE ResolveBlind(h)
      BY <1>1, <3>2 DEF ResolveBlind, Resolve, Call
    <3> QED
      BY <1>5, <3>1, <3>2
  <2>2. TopOf(h)'
    BY <1>2, <1>4, <2>1 DEF TopOf
  <2> QED
    BY <1>1, <1>2, <1>3, <2>1, <2>2, PingCallFrame
<1>6. CASE InsertNext(h)
  <2>1. PICK c \in push[h].accept : InsertNew(h, c) \/ SkipDuplicate(h, c)
    BY <1>6 DEF InsertNext
  <2>2. CASE InsertNew(h, c)
    <3>1. /\ \A g \in Handler \ {h} : push'[g] = push[g]
          /\ push'[h].rows = push[h].rows \cup {[seq |-> serial + 1, chg |-> c]}
          /\ push'[h].max = serial + 1
      BY <1>1, <2>2 DEF InsertNew
    <3>2. \A r \in push'[h].rows : 0 < r.seq /\ r.seq <= push'[h].max
      BY <1>1, <1>4, <3>1
    <3>3. \E r \in ledger \cup push'[h].rows : r.seq = push'[h].max
      <4>1. [seq |-> serial + 1, chg |-> c].seq = serial + 1
        OBVIOUS
      <4> QED
        BY <3>1, <4>1
    <3>4. TopOf(h)'
      BY <1>2, <3>2, <3>3 DEF TopOf
    <3> QED
      BY <1>1, <1>2, <1>3, <3>1, <3>4, PingCallFrame
  <2>3. CASE SkipDuplicate(h, c)
    <3>1. PICK seq \in Known(h, c.id) :
            push' = [push EXCEPT ![h].accept = @ \ {c}, ![h].conflicts = @ \cup {c.id},
                                 ![h].max = IF seq > @ THEN seq ELSE @]
      BY <2>3 DEF SkipDuplicate
    <3>2. PICK r \in ledger \cup push[h].rows : seq = r.seq
      BY DEF Known
    <3>3. seq \in Nat
      BY <1>1, <3>2 DEF Row
    <3>4. /\ \A g \in Handler \ {h} : push'[g] = push[g]
          /\ push'[h].rows = push[h].rows
          /\ push'[h].max = IF seq > push[h].max THEN seq ELSE push[h].max
      BY <1>1, <3>1
    <3>5. push[h].max \in Nat
      BY <1>1 DEF Call
    <3>6. \A s \in push'[h].rows : 0 < s.seq /\ s.seq <= push'[h].max
      BY <1>1, <1>4, <3>3, <3>4, <3>5
    <3>7. push'[h].max > 0 => \E s \in ledger \cup push'[h].rows : s.seq = push'[h].max
      BY <1>4, <3>2, <3>4
    <3>8. TopOf(h)'
      BY <1>2, <3>6, <3>7 DEF TopOf
    <3> QED
      BY <1>1, <1>2, <1>3, <3>4, <3>8, PingCallFrame
  <2> QED
    BY <2>1, <2>2, <2>3
<1> QED
  BY <1>5, <1>6 DEF PushStep

\* A commit owes a ping exactly when it has added rows or met duplicates.
LEMMA PingCommit ==
  ASSUME IInv, ServerTypeOK, PingInv, NEW h \in Handler, CommitPush(h)
  PROVE  PingInv'
<1>1. /\ push \in [Handler -> Call] /\ push[h] \in Call
      /\ due \subseteq Handler /\ push[h].max \in Nat
      /\ push[h].pc = "serving"
  BY DEF IInv, TypeOK, ServerTypeOK, Call, CommitPush, Commit, Appending
<1>2. /\ ledger' = ledger \cup Committed(h)
      /\ due' = IF push[h].max > 0 THEN due \cup {h} ELSE due
      /\ UNCHANGED <<hints, lost>>
  BY DEF CommitPush, Commit
<1>3. /\ \A g \in Handler \ {h} : push'[g] = push[g]
      /\ push'[h].pc = "replied" /\ push'[h].rows = {}
      /\ push[h].max > 0 => push'[h].max = push[h].max
      /\ push[h].rows # {} => push'[h].commit = commits + 1
  BY <1>1, CommitEffect DEF CommitPush
<1>4. h \notin due
  BY <1>1 DEF PingInv, DueIsCommitted
<1>5. /\ \A r \in push[h].rows : \E s \in Committed(h) : s.seq = r.seq
      /\ \A s \in Committed(h) : /\ \E r \in push[h].rows : s.seq = r.seq
                                /\ s.commit = commits + 1
  <2>1. ASSUME NEW r \in push[h].rows PROVE \E s \in Committed(h) : s.seq = r.seq
    <3> DEFINE s == [seq |-> r.seq, commit |-> commits + 1, seen |-> push[h].seen,
                     chg |-> r.chg]
    <3>1. s \in Committed(h)
      BY DEF Committed
    <3>2. s.seq = r.seq
      OBVIOUS
    <3> QED
      BY <3>1, <3>2
  <2>2. \A s \in Committed(h) : /\ \E r \in push[h].rows : s.seq = r.seq
                                /\ s.commit = commits + 1
    BY DEF Committed
  <2> QED
    BY <2>1, <2>2
<1>6. /\ \A r \in push[h].rows : r.seq \in Nat /\ 0 < r.seq /\ r.seq <= push[h].max
      /\ push[h].max > 0 => \E r \in ledger \cup push[h].rows : r.seq = push[h].max
  BY <1>1 DEF PingInv, Tops, TopOf, Call, Insert
<1>7. Tops'
  BY <1>2, <1>3 DEF PingInv, Tops, TopOf
<1>8. DueIsCommitted'
  <2>1. push[h].max > 0 => \E r \in ledger' : r.seq = push[h].max
    BY <1>2, <1>5, <1>6
  <2> QED
    BY <1>1, <1>2, <1>3, <1>4, <2>1 DEF PingInv, DueIsCommitted
<1>9. HintsAreCommitted'
  BY <1>2 DEF PingInv, HintsAreCommitted
<1>10. RowsAreAnnounced'
  <2>1. \A s \in Committed(h) : h \in due' /\ Tells(HintOf(h)', s)
    <3> SUFFICES ASSUME NEW s \in Committed(h) PROVE h \in due' /\ Tells(HintOf(h)', s)
      OBVIOUS
    <3>1. PICK r \in push[h].rows : s.seq = r.seq
      BY <1>5
    <3>2. 0 < r.seq /\ r.seq <= push[h].max /\ r.seq \in Nat
      BY <1>6
    <3>3. push'[h].max = push[h].max /\ push'[h].commit = s.commit /\ h \in due'
      BY <1>1, <1>2, <1>3, <1>5, <3>2
    <3> QED
      BY <3>1, <3>2, <3>3 DEF Tells, HintOf
  <2>2. \A g \in due : g \in due' /\ HintOf(g)' = HintOf(g)
    BY <1>1, <1>2, <1>3, <1>4 DEF HintOf
  <2> QED
    BY <1>2, <2>1, <2>2 DEF PingInv, RowsAreAnnounced
<1> QED
  BY <1>7, <1>8, <1>9, <1>10 DEF PingInv

\* A ping that is no longer due was published or is counted among the lost ones.
LEMMA PingOver ==
  ASSUME PingInv, NEW cut, due \subseteq Handler,
         due' = due \ cut, ledger' = ledger,
         \A h \in due \ cut : push'[h] = push[h],
         hints \subseteq hints', lost \subseteq lost',
         \A h \in due \cap cut : HintOf(h) \in hints' \cup lost',
         \A n \in hints' \ hints : \E h \in due : n = HintOf(h),
         \A h \in Handler : push'[h] = push[h] \/ push'[h] = NoCall
  PROVE  PingInv'
<1>1. Tops'
  BY DEF PingInv, Tops, TopOf, NoCall
<1>2. DueIsCommitted'
  BY DEF PingInv, DueIsCommitted
<1>3. HintsAreCommitted'
  BY DEF PingInv, HintsAreCommitted, DueIsCommitted, HintOf
<1>4. RowsAreAnnounced'
  <2>1. \A h \in due \ cut : HintOf(h)' = HintOf(h)
    BY DEF HintOf
  <2> QED
    BY <2>1 DEF PingInv, RowsAreAnnounced
<1> QED
  BY <1>1, <1>2, <1>3, <1>4 DEF PingInv

LEMMA PingStep ==
  ASSUME IInv, ServerTypeOK, PingInv, [ServerNext]_serverVars
  PROVE  PingInv'
<1>1. /\ push \in [Handler -> Call] /\ due \subseteq Handler
      /\ \A h \in due : push[h].pc = "replied"
  BY DEF IInv, TypeOK, ServerTypeOK, PingInv, DueIsCommitted
<1>2. ASSUME NEW h \in Handler, NEW batch \in Batches, BeginPush(h, batch) PROVE PingInv'
  <2>1. /\ \A g \in Handler \ {h} : push'[g] = push[g]
        /\ push'[h].rows = {} /\ push'[h].max = 0
        /\ UNCHANGED <<ledger, due, hints, lost>> /\ h \notin due
    BY <1>1, <1>2 DEF BeginPush, PushBatch, NoCall, outerVars
  <2>2. TopOf(h)'
    BY <2>1 DEF TopOf
  <2> QED
    BY <1>1, <2>1, <2>2, PingCallFrame
<1>3. ASSUME NEW h \in Handler, PushStep(h) PROVE PingInv'
  BY <1>3, PingPushStep
<1>4. ASSUME NEW h \in Handler, CommitPush(h) PROVE PingInv'
  BY <1>4, PingCommit
<1>5. ASSUME NEW h \in Handler, FailPush(h) \/ EndPush(h) PROVE PingInv'
  <2>1. /\ \A g \in Handler \ {h} : push'[g] = push[g]
        /\ push'[h].rows = {} /\ push'[h].max = 0
        /\ UNCHANGED <<ledger, due, hints, lost>> /\ h \notin due
    BY <1>1, <1>5 DEF FailPush, Rollback, Appending, EndPush, EndCall, NoCall, outerVars
  <2>2. TopOf(h)'
    BY <2>1 DEF TopOf
  <2> QED
    BY <1>1, <2>1, <2>2, PingCallFrame
<1>6. ASSUME NEW h \in Handler, Publish(h) \/ PublishFails(h) \/ CommitUnsure(h)
      PROVE  PingInv'
  <2>1. /\ h \in due /\ due' = due \ {h} /\ ledger' = ledger
        /\ hints \subseteq hints' /\ lost \subseteq lost'
        /\ HintOf(h) \in hints' \cup lost'
        /\ \A n \in hints' \ hints : n = HintOf(h)
    BY <1>6 DEF Publish, MayPublish, PublishFails, CommitUnsure, EndCall, cloudVars
  <2>2. /\ \A g \in Handler \ {h} : push'[g] = push[g]
        /\ push'[h] = push[h] \/ push'[h] = NoCall
    BY <1>1, <1>6 DEF Publish, PublishFails, CommitUnsure, EndCall, cloudVars
  <2> DEFINE cut == {h}
  <2>3. /\ due' = due \ cut
        /\ \A g \in due \ cut : push'[g] = push[g]
        /\ \A g \in due \cap cut : HintOf(g) \in hints' \cup lost'
    BY <1>1, <2>1, <2>2
  <2>4. \A n \in hints' \ hints : \E g \in due : n = HintOf(g)
    BY <2>1
  <2>5. \A g \in Handler : push'[g] = push[g] \/ push'[g] = NoCall
    BY <2>2
  <2> HIDE DEF cut
  <2> QED
    BY <1>1, <2>1, <2>3, <2>4, <2>5, PingOver
<1>7. ASSUME NEW p \in Puller, PullNext(p) PROVE PingInv'
  <2>1. UNCHANGED <<ledger, push, due, hints, lost>>
    BY <1>7 DEF PullNext, BeginPull, QueryRows, SendRow, EndPull, FailPull, ClosePull, cloudVars
  <2> QED
    BY <2>1, PingFrame
<1>8. ASSUME NEW r \in Replica, Start(r) \/ Terminate(r) \/ Exit(r) PROVE PingInv'
  BY <1>8, PingFrame DEF Start, Terminate, Exit, cloudVars
<1>9. ASSUME NEW r \in Replica, Crash(r) PROVE PingInv'
  <2> DEFINE cut == {h \in due : ReplicaOf[h] = r}
  <2>1. /\ due' = due \ cut /\ ledger' = ledger /\ hints' = hints
        /\ lost' = lost \cup {HintOf(h) : h \in cut}
    BY <1>9 DEF Crash, CutCalls
  <2>2. \A h \in Handler : push'[h] = IF ReplicaOf[h] = r THEN NoCall ELSE push[h]
    BY <1>1, <1>9, CutEffect DEF Crash
  <2> QED
    BY <1>1, <2>1, <2>2, PingOver
<1>10. ASSUME NEW d \in Device, Administer(d) PROVE PingInv'
  BY <1>10, PingFrame DEF Administer, cloudVars
<1>11. CASE UNCHANGED serverVars
  BY <1>11, PingFrame DEF serverVars, cloudVars, outerVars
<1> QED
  BY <1>2, <1>3, <1>4, <1>5, <1>6, <1>7, <1>8, <1>9, <1>10, <1>11
     DEF ServerNext, PushNext, ProcessNext

-----------------------------------------------------------------------------
(* Pulls.                                                                  *)

\* The rows a pull owes its device.
Owed(p) == {r \in StreamAfter(PullerOf[p], pull[p].after) : r.commit <= pull[p].seen}

\* What makes PullsLeaveNoGap inductive: what is owed has been sent or is still to be
\* sent, and what has been sent comes before what is to be sent.
PullOf(p) ==
  /\ pull[p].seen <= commits
  /\ pull[p].todo \subseteq ledger
  /\ pull[p].pc = "begun" => pull[p].sent = {}
  /\ \A s \in pull[p].sent, t \in pull[p].todo : s.seq < t.seq
  /\ pull[p].pc = "streaming" => Owed(p) \subseteq pull[p].sent \cup pull[p].todo
  /\ \A r \in Owed(p) :
       pull[p].pc = "ended" \/ (\E s \in pull[p].sent : r.seq < s.seq) =>
         r \in pull[p].sent

PullInv == \A p \in Puller : PullOf(p)

LEMMA PullInvMeans == PullInv => PullsLeaveNoGap
BY DEF PullInv, PullOf, Owed, PullsLeaveNoGap

\* A slot without a call owes nothing.
LEMMA NoPullOf ==
  ASSUME commits \in Nat, NEW p \in Puller, pull[p] = NoPull
  PROVE  PullOf(p)
BY DEF PullOf, NoPull

LEMMA PullInit == ServerInit => PullInv
<1> SUFFICES ASSUME ServerInit, NEW p \in Puller PROVE PullOf(p)
  BY DEF PullInv
<1>1. commits \in Nat /\ pull[p] = NoPull
  BY DEF ServerInit, CloudInit
<1> QED
  BY <1>1, NoPullOf

\* A call is not disturbed by what others commit: those rows came after it began.
LEMMA PullFrame ==
  ASSUME IInv, ServerTypeOK, NEW p \in Puller, PullOf(p), pull'[p] = pull[p],
         commits' \in Nat, commits <= commits', ledger \subseteq ledger',
         \A r \in ledger' \ ledger : commits < r.commit /\ r.commit \in Nat
  PROVE  PullOf(p)'
<1>1. commits \in Nat /\ pull[p].seen \in Nat /\ pull[p].seen <= commits
  BY DEF IInv, TypeOK, ServerTypeOK, PullCall, PullOf
<1>2. Owed(p)' = Owed(p)
  <2>1. \A r \in ledger' \ ledger : ~ (r.commit <= pull[p].seen)
    BY <1>1
  <2> QED
    BY <2>1 DEF Owed, StreamAfter
<1> QED
  BY <1>1, <1>2 DEF PullOf

LEMMA PullNextInv ==
  ASSUME IInv, ServerTypeOK, NEW p \in Puller, PullOf(p), PullNext(p)
  PROVE  PullOf(p)'
<1>1. /\ pull \in [Puller -> PullCall] /\ pull[p] \in PullCall /\ commits \in Nat
      /\ ledger \subseteq Row /\ pull[p].todo \subseteq ledger
  BY DEF IInv, TypeOK, ServerTypeOK, PullOf
<1>2. ledger' = ledger /\ commits' = commits
  BY DEF PullNext, BeginPull, QueryRows, SendRow, EndPull, FailPull, ClosePull, cloudVars
<1>3. ASSUME NEW after, BeginPull(p, after) PROVE PullOf(p)'
  <2>1. /\ pull'[p].pc = "begun" /\ pull'[p].sent = {} /\ pull'[p].todo = {}
        /\ pull'[p].seen = commits
    BY <1>1, <1>3 DEF BeginPull, NoPull
  <2> QED
    BY <1>1, <1>2, <2>1 DEF PullOf
<1>4. CASE QueryRows(p)
  <2>1. /\ pull'[p].pc = "streaming" /\ pull'[p].sent = {}
        /\ pull'[p].todo = StreamAfter(PullerOf[p], pull[p].after)
        /\ pull'[p].seen = pull[p].seen /\ pull'[p].after = pull[p].after
    BY <1>1, <1>4 DEF QueryRows, PullCall, PullOf
  <2>2. Owed(p)' \subseteq pull'[p].todo /\ pull'[p].todo \subseteq ledger
    BY <1>2, <2>1 DEF Owed, StreamAfter
  <2> QED
    BY <1>2, <2>1, <2>2 DEF PullOf
<1>5. CASE SendRow(p)
  <2>1. PICK r \in pull[p].todo :
          /\ IsNextRow(r, pull[p].todo)
          /\ pull' = [pull EXCEPT ![p].todo = @ \ {r}, ![p].sent = @ \cup {r}]
    BY <1>5 DEF SendRow
  <2>2. /\ pull[p].pc = "streaming" /\ pull'[p].pc = "streaming"
        /\ pull'[p].todo = pull[p].todo \ {r} /\ pull'[p].sent = pull[p].sent \cup {r}
        /\ pull'[p].seen = pull[p].seen /\ pull'[p].after = pull[p].after
    BY <1>1, <1>5, <2>1 DEF SendRow, PullCall
  <2>3. Owed(p)' = Owed(p)
    BY <1>2, <2>2 DEF Owed, StreamAfter
  <2>4. \A t \in pull[p].todo : t.seq \in Nat /\ (t # r => r.seq < t.seq)
    BY <1>1, <2>1 DEF IsNextRow, Row, IInv, UniqueRows, LedgerIdsOnce
  <2>5. \A s \in pull[p].sent : s.seq \in Nat
    BY <1>1 DEF PullCall, Row
  <2>6. \A s \in pull'[p].sent, t \in pull'[p].todo : s.seq < t.seq
    BY <2>2, <2>4 DEF PullOf
  <2>7. Owed(p)' \subseteq pull'[p].sent \cup pull'[p].todo
    BY <2>2, <2>3 DEF PullOf
  <2>8. \A q \in Owed(p)' : (\E s \in pull'[p].sent : q.seq < s.seq) => q \in pull'[p].sent
    <3> SUFFICES ASSUME NEW q \in pull'[p].todo, NEW s \in pull'[p].sent, q.seq < s.seq
                 PROVE  FALSE
      BY <2>7
    <3>1. s.seq < q.seq /\ s.seq \in Nat /\ q.seq \in Nat
      BY <2>2, <2>4, <2>5, <2>6
    <3> QED
      BY <3>1
  <2> QED
    BY <1>2, <2>2, <2>6, <2>7, <2>8 DEF PullOf
<1>6. CASE EndPull(p) \/ FailPull(p)
  <2>1. /\ pull'[p].pc \in {"ended", "failed"}
        /\ pull'[p].pc = "ended" => pull[p].pc = "streaming" /\ pull[p].todo = {}
        /\ pull'[p].todo = {} /\ pull'[p].sent = pull[p].sent
        /\ pull'[p].seen = pull[p].seen /\ pull'[p].after = pull[p].after
    BY <1>1, <1>6 DEF EndPull, FailPull, PullCall
  <2>2. Owed(p)' = Owed(p)
    BY <1>2, <2>1 DEF Owed, StreamAfter
  <2> QED
    BY <1>2, <2>1, <2>2 DEF PullOf
<1>7. CASE ClosePull(p)
  <2>1. pull'[p] = NoPull
    BY <1>1, <1>7 DEF ClosePull
  <2> QED
    BY <1>1, <1>2, <2>1 DEF PullOf, NoPull
<1> QED
  BY <1>3, <1>4, <1>5, <1>6, <1>7 DEF PullNext

LEMMA PullStepInv ==
  ASSUME IInv, IInv', ServerTypeOK, PullInv, [ServerNext]_serverVars
  PROVE  PullInv'
<1> SUFFICES ASSUME NEW p \in Puller PROVE PullOf(p)'
  BY DEF PullInv
<1>1. PullOf(p) /\ commits \in Nat /\ pull \in [Puller -> PullCall]
  BY DEF PullInv, IInv, TypeOK, ServerTypeOK
<1>2. ASSUME pull'[p] = pull[p], ledger' = ledger, commits' = commits PROVE PullOf(p)'
  BY <1>1, <1>2, PullFrame
<1>3. ASSUME NEW h \in Handler, PushNext(h) PROVE PullOf(p)'
  <2>1. CASE CommitPush(h)
    <3>1. /\ pull' = pull /\ ledger' = ledger \cup Committed(h)
          /\ commits' = IF push[h].rows = {} THEN commits ELSE commits + 1
      BY <2>1 DEF CommitPush, Commit
    <3>3. commits' \in Nat /\ commits <= commits'
      BY <1>1, <3>1
    <3>2. \A r \in ledger' \ ledger : commits < r.commit /\ r.commit \in Nat
      BY <1>1, <3>1 DEF Committed
    <3> QED
      BY <1>1, <3>1, <3>2, <3>3, PullFrame
  <2>2. CASE ~ CommitPush(h)
    <3>1. ledger' = ledger /\ commits' = commits /\ pull' = pull
      BY <1>3, <2>2 DEF PushNext, BeginPush, PushBatch, PushStep, ResolveNext, ResolveBlind,
           Resolve, InsertNext, FailPush, Rollback, Publish, PublishFails, CommitUnsure,
           EndPush, EndCall, outerVars, cloudVars
    <3> QED
      BY <1>2, <3>1
  <2> QED
    BY <2>1, <2>2
<1>4. ASSUME NEW q \in Puller, PullNext(q) PROVE PullOf(p)'
  <2>1. CASE q = p
    BY <1>1, <1>4, <2>1, PullNextInv
  <2>2. CASE q # p
    <3>1. pull'[p] = pull[p] /\ ledger' = ledger /\ commits' = commits
      BY <1>1, <1>4, <2>2 DEF PullNext, BeginPull, QueryRows, SendRow, EndPull, FailPull,
                               ClosePull, cloudVars
    <3> QED
      BY <1>2, <3>1
  <2> QED
    BY <2>1, <2>2
<1>5. ASSUME NEW r \in Replica, ProcessNext(r) PROVE PullOf(p)'
  <2>1. ledger' = ledger /\ commits' = commits
    BY <1>5 DEF ProcessNext, Start, Terminate, Exit, Crash, CutCalls, cloudVars
  <2>2. pull'[p] = pull[p] \/ pull'[p] = NoPull
    BY <1>5 DEF ProcessNext, Start, Terminate, Exit, Crash, CutCalls
  <2>3. ASSUME pull'[p] = NoPull PROVE PullOf(p)'
    BY <1>1, <2>1, <2>3 DEF PullOf, NoPull
  <2> QED
    BY <1>2, <2>1, <2>2, <2>3
<1>6. ASSUME NEW d \in Device, Administer(d) PROVE PullOf(p)'
  BY <1>2, <1>6 DEF Administer, cloudVars
<1>7. CASE UNCHANGED serverVars
  BY <1>2, <1>7 DEF serverVars, cloudVars, outerVars
<1> QED
  BY <1>3, <1>4, <1>5, <1>6, <1>7 DEF ServerNext

-----------------------------------------------------------------------------
(* Waits.                                                                  *)

\* The change, or what it was merged into, is in a batch of its device.
Pushed(c) == \E batch \in Batches : \E e \in batch : e.id = c.id /\ e.n = c.n

\* What makes NoWaitCycle hold: a call inserts in the order of its device's numbers.
OrderOf(h) ==
  /\ \A c \in push[h].todo \cup push[h].accept : Pushed(c)
  /\ \A r \in push[h].rows : Pushed(r.chg)
  /\ \A t, u \in push[h].todo : t.n = u.n => t = u
  /\ \A a, b \in push[h].accept : a.n = b.n => a = b
  /\ \A a \in push[h].accept, t \in push[h].todo : a.n # t.n
  /\ \A r \in push[h].rows : push[h].todo = {} /\ \A a \in push[h].accept : r.chg.n < a.n

OrderInv == \A h \in Handler : OrderOf(h)

\* A slot without a call has nothing to order.
LEMMA NoCallOrder ==
  ASSUME NEW h \in Handler, push[h] = NoCall
  PROVE  OrderOf(h)
BY DEF OrderOf, NoCall

LEMMA OrderInit == ServerInit => OrderInv
BY DEF ServerInit, CloudInit, NoCall, OrderInv, OrderOf

\* A number of a batch is a natural number, and is told by the change id.
LEMMA PushedNumber ==
  ASSUME NEW c, NEW e, Pushed(c), Pushed(e)
  PROVE  c.n \in Nat /\ c.n <= MaxNumber /\ (c.id = e.id => c.n = e.n)
BY BatchAssumption, CloudAssumption DEF Pushed, Change

\* Merging keeps the number.
LEMMA MergedNumber ==
  ASSUME NEW c \in Change, NEW current
  PROVE  Merged(c, current).n = c.n /\ Merged(c, current).id = c.id
BY DEF Merged, Change

LEMMA OrderResolve ==
  ASSUME IInv, NEW h \in Handler, OrderOf(h), NEW c \in push[h].todo, NEW current, NEW seen,
         Resolve(h, c, current, seen)
  PROVE  OrderOf(h)'
<1> DEFINE m == Merged(c, current)
<1>1. /\ push \in [Handler -> Call] /\ push[h] \in Call /\ c \in Change
  BY DEF IInv, TypeOK, Call
<1>2. /\ push'[h].todo = push[h].todo \ {c} /\ push'[h].rows = push[h].rows
      /\ push'[h].accept = IF Applies(c, current) THEN push[h].accept \cup {m}
                           ELSE push[h].accept
  BY <1>1 DEF Resolve, Call
<1>3. push'[h].accept \subseteq push[h].accept \cup {m}
  BY <1>2
<1>4. m.n = c.n /\ m.id = c.id /\ Pushed(m) /\ push[h].rows = {}
  BY <1>1, MergedNumber DEF OrderOf, Pushed
<1> HIDE DEF m
<1>5. \A a, b \in push'[h].accept : a.n = b.n => a = b
  BY <1>3, <1>4 DEF OrderOf
<1>6. \A a \in push'[h].accept, t \in push'[h].todo : a.n # t.n
  BY <1>2, <1>3, <1>4 DEF OrderOf
<1>7. /\ \A x \in push'[h].todo \cup push'[h].accept : Pushed(x)
      /\ \A t, u \in push'[h].todo : t.n = u.n => t = u
  BY <1>2, <1>3, <1>4 DEF OrderOf
<1> QED
  BY <1>2, <1>4, <1>5, <1>6, <1>7 DEF OrderOf, Pushed

LEMMA OrderInsert ==
  ASSUME IInv, NEW h \in Handler, OrderOf(h), InsertNext(h)
  PROVE  OrderOf(h)'
<1>1. push \in [Handler -> Call] /\ push[h] \in Call /\ push[h].todo = {}
  BY DEF IInv, TypeOK, InsertNext, Appending
<1>2. PICK c \in push[h].accept :
        IsNext(c, push[h].accept) /\ (InsertNew(h, c) \/ SkipDuplicate(h, c))
  BY DEF InsertNext
<1>3. /\ push'[h].todo = {} /\ push'[h].accept = push[h].accept \ {c}
      /\ \A r \in push'[h].rows : r \in push[h].rows \/ r.chg = c
  BY <1>1, <1>2 DEF InsertNew, SkipDuplicate, Call
<1>4. \A a \in push'[h].accept : c.n < a.n
  BY <1>1, <1>2, <1>3, PushedNumber DEF OrderOf, IsNext
<1> QED
  BY <1>2, <1>3, <1>4 DEF OrderOf, Pushed

LEMMA OrderStep ==
  ASSUME IInv, IInv', OrderInv, [ServerNext]_serverVars
  PROVE  OrderInv'
<1>1. push \in [Handler -> Call] /\ push' \in [Handler -> Call]
  BY DEF IInv, TypeOK
<1>2. ASSUME NEW h \in Handler, push'[h] = push[h] PROVE OrderOf(h)'
  BY <1>2 DEF OrderInv, OrderOf, Pushed
<1>3. ASSUME NEW h \in Handler, push'[h] = NoCall PROVE OrderOf(h)'
  BY <1>3 DEF OrderOf, NoCall
<1>4. ASSUME NEW h \in Handler, OrderOf(h)', \A g \in Handler \ {h} : push'[g] = push[g]
      PROVE  OrderInv'
  BY <1>2, <1>4 DEF OrderInv
<1>5. ASSUME NEW h \in Handler, NEW batch \in Batches, BeginPush(h, batch) PROVE OrderInv'
  <2>1. /\ \A g \in Handler \ {h} : push'[g] = push[g]
        /\ push'[h].todo = batch /\ push'[h].accept = {} /\ push'[h].rows = {}
    BY <1>1, <1>5 DEF BeginPush, PushBatch, NoCall
  <2>2. OrderOf(h)'
    BY <2>1, BatchAssumption DEF OrderOf, Pushed
  <2> QED
    BY <1>4, <2>1, <2>2
<1>6. ASSUME NEW h \in Handler, PushStep(h) PROVE OrderInv'
  <2>1. \A g \in Handler \ {h} : push'[g] = push[g]
    BY <1>6, PushEffect DEF IInv
  <2>2. OrderOf(h)
    BY DEF OrderInv
  <2>3. CASE ResolveNext(h)
    <3>1. PICK c \in push[h].todo : Resolve(h, c, LatestFor(c), push[h].seen)
      BY <2>3 DEF ResolveNext
    <3> QED
      BY <1>4, <2>1, <2>2, <3>1, OrderResolve
  <2>4. CASE ResolveBlind(h)
    <3>1. PICK c \in push[h].todo : Resolve(h, c, Nil, 0)
      BY <2>4 DEF ResolveBlind
    <3> QED
      BY <1>4, <2>1, <2>2, <3>1, OrderResolve
  <2>5. CASE InsertNext(h)
    BY <1>4, <2>1, <2>2, <2>5, OrderInsert
  <2> QED
    BY <1>6, <2>3, <2>4, <2>5 DEF PushStep
<1>7. ASSUME NEW h \in Handler, CommitPush(h) PROVE OrderInv'
  <2>1. /\ \A g \in Handler \ {h} : push'[g] = push[g]
        /\ push'[h].todo = {} /\ push'[h].accept = {} /\ push'[h].rows = {}
    BY <1>1, <1>7, CommitEffect DEF CommitPush
  <2>2. OrderOf(h)'
    BY <2>1 DEF OrderOf
  <2> QED
    BY <1>4, <2>1, <2>2
<1>8. ASSUME NEW h \in Handler, FailPush(h) \/ CommitUnsure(h) \/ EndPush(h) PROVE OrderInv'
  <2>1. push' = [push EXCEPT ![h] = NoCall]
    BY <1>8 DEF FailPush, Rollback, CommitUnsure, EndPush, EndCall
  <2> QED
    BY <1>1, <1>3, <1>4, <2>1
<1>9. ASSUME push' = push PROVE OrderInv'
  BY <1>2, <1>9 DEF OrderInv
<1>10. ASSUME NEW h \in Handler, Publish(h) \/ PublishFails(h) PROVE OrderInv'
  BY <1>9, <1>10 DEF Publish, PublishFails, cloudVars
<1>11. ASSUME NEW p \in Puller, PullNext(p) PROVE OrderInv'
  BY <1>9, <1>11 DEF PullNext, BeginPull, QueryRows, SendRow, EndPull, FailPull, ClosePull,
                     cloudVars
<1>12. ASSUME NEW r \in Replica, Start(r) \/ Terminate(r) \/ Exit(r) PROVE OrderInv'
  BY <1>9, <1>12 DEF Start, Terminate, Exit, cloudVars
<1>13. ASSUME NEW r \in Replica, Crash(r) PROVE OrderInv'
  <2>1. \A h \in Handler : push'[h] = push[h] \/ push'[h] = NoCall
    BY <1>1, <1>13, CutEffect DEF Crash
  <2> QED
    BY <1>2, <1>3, <2>1 DEF OrderInv
<1>14. ASSUME NEW d \in Device, Administer(d) PROVE OrderInv'
  BY <1>9, <1>14 DEF Administer, cloudVars
<1>15. CASE UNCHANGED serverVars
  BY <1>9, <1>15 DEF serverVars, cloudVars
<1> QED
  BY <1>5, <1>6, <1>7, <1>8, <1>10, <1>11, <1>12, <1>13, <1>14, <1>15
     DEF ServerNext, PushNext, ProcessNext

\* A call that is waited for and waits itself is about to insert a larger number than
\* the call that waits for it.
LEMMA WaitsAscend ==
  ASSUME OrderInv, NEW g \in Handler, NEW h \in Handler,
         NEW c \in push[g].accept, NEW r \in push[h].rows, r.chg.id = c.id,
         NEW e \in push[h].accept
  PROVE  c.n < e.n
<1>1. Pushed(c) /\ Pushed(r.chg) /\ r.chg.n < e.n
  BY DEF OrderInv, OrderOf
<1>2. r.chg.n = c.n
  BY <1>1, PushedNumber
<1> QED
  BY <1>1, <1>2

\* Among calls that all wait for each other, the one about to insert the largest
\* number would have to wait for a larger one.
LEMMA OrderMeans == OrderInv => NoWaitCycle
<1> SUFFICES ASSUME OrderInv, NEW S \in (SUBSET Handler) \ {{}},
                    \A g \in S : \E h \in S : WaitsFor(g, h)
             PROVE  FALSE
  BY DEF NoWaitCycle
<1> DEFINE D == {x \in Nat : \E g \in S : \E c \in push[g].accept :
                               IsNext(c, push[g].accept) /\ x = MaxNumber - c.n}
<1>1. \A g \in S : \A c \in push[g].accept : c.n \in Nat /\ MaxNumber - c.n \in Nat
  <2> SUFFICES ASSUME NEW g \in S, NEW c \in push[g].accept
               PROVE  c.n \in Nat /\ MaxNumber - c.n \in Nat
    OBVIOUS
  <2>1. Pushed(c)
    BY DEF OrderInv, OrderOf
  <2>2. c.n \in Nat /\ c.n <= MaxNumber /\ MaxNumber \in Nat
    BY <2>1, PushedNumber, BatchAssumption
  <2> QED
    BY <2>2
<1>2. D # {}
  <2>1. PICK g \in S, h \in S : WaitsFor(g, h)
    OBVIOUS
  <2>2. PICK c \in push[g].accept : IsNext(c, push[g].accept)
    BY <2>1 DEF WaitsFor
  <2>3. MaxNumber - c.n \in D
    BY <1>1, <2>2
  <2> QED
    BY <2>3
<1>3. PICK x \in D : \A y \in D : x <= y
  <2>1. D \subseteq Nat
    OBVIOUS
  <2> HIDE DEF D
  <2> QED
    BY <1>2, <2>1, LeastNatural
<1>4. PICK g \in S : \E c \in push[g].accept :
        IsNext(c, push[g].accept) /\ x = MaxNumber - c.n
  BY <1>3
<1> PICK c \in push[g].accept : IsNext(c, push[g].accept) /\ x = MaxNumber - c.n
  BY <1>4
<1>5. PICK h \in S : WaitsFor(g, h)
  OBVIOUS
<1>6. PICK d \in push[g].accept, r \in push[h].rows :
        IsNext(d, push[g].accept) /\ r.chg.id = d.id
  BY <1>5 DEF WaitsFor
<1>7. PICK e \in push[h].accept : IsNext(e, push[h].accept)
  <2>1. PICK k \in S : WaitsFor(h, k)
    OBVIOUS
  <2> QED
    BY <2>1 DEF WaitsFor
<1>8. d.n < e.n /\ c.n <= d.n
  BY <1>6, WaitsAscend DEF IsNext
<1>9. MaxNumber - e.n \in D
  BY <1>1, <1>7
<1>10. MaxNumber - c.n <= MaxNumber - e.n
  BY <1>3, <1>9
<1> HIDE DEF D
<1>11. c.n \in Nat /\ d.n \in Nat /\ e.n \in Nat /\ MaxNumber \in Nat
  BY <1>1, BatchAssumption
<1> QED
  BY <1>8, <1>10, <1>11

-----------------------------------------------------------------------------
(* The theorems.                                                           *)

ServerInv ==
  /\ IInv
  /\ ServerTypeOK
  /\ PingInv
  /\ PullInv
  /\ OrderInv

\* ServerInv is an invariant of the deployment: processes may be stopped, killed and
\* restarted at any time.
THEOREM ServerInvariant == ServerSpec => []ServerInv
<1>1. ServerInit => ServerInv
  BY InitInv, ServerTypeInit, PingInit, PullInit, OrderInit DEF ServerInit, ServerInv
<1>2. ServerInv /\ [ServerNext]_serverVars => ServerInv'
  BY ServerStepInv, ServerTypeStep, PingStep, PullStepInv, OrderStep DEF ServerInv
<1> QED
  BY <1>1, <1>2, PTL DEF ServerSpec

\* The types, and that a call belongs to a process that is there.
THEOREM ServerTypeCorrect == ServerSpec => [](TypeOK /\ ServerTypeOK)
BY ServerInvariant, PTL DEF ServerInv, IInv

\* What holds of the push handlers holds in the deployment: push is idempotent, forks
\* need overlapping calls, replies are true.
THEOREM ServerLedger == ServerSpec => [](LedgerIdsOnce /\ ForksOverlap /\ RepliesAreTrue)
<1>1. IInv => LedgerIdsOnce /\ ForksOverlap /\ RepliesAreTrue
  BY DEF IInv, UniqueRows, Winners, Answers, RepliesAreTrue, InWork
<1> QED
  BY <1>1, ServerInvariant, PTL DEF ServerInv

\* Transactions never wait for each other in a circle.
THEOREM NoDeadlock == ServerSpec => []NoWaitCycle
BY OrderMeans, ServerInvariant, PTL DEF ServerInv

\* A stream owes its device nothing up to the last row it sent, whenever it breaks off.
THEOREM PullsComplete == ServerSpec => []PullsLeaveNoGap
BY PullInvMeans, ServerInvariant, PTL DEF ServerInv

\* A ping is about a committed row.
THEOREM HintsTrue == ServerSpec => []HintsAreCommitted
BY ServerInvariant, PTL DEF ServerInv, PingInv

\* Every row is announced or its ping was lost.
THEOREM RowsTold == ServerSpec => []RowsAreAnnounced
BY ServerInvariant, PTL DEF ServerInv, PingInv

\* The deployment implements the abstract log: the log survives what happens to the
\* processes.
THEOREM ServerRefinement == ServerSpec => ImplementsMergeLog
<1>1. ServerInit => MergedLog!Init
  BY DEF ServerInit, CloudInit, MergedLog!Init, LedgerLog
<1>2. ASSUME ServerInv, ServerInv', [ServerNext]_serverVars
      PROVE  [MergedLog!Next]_LedgerLog
  <2>1. CASE ledger' = ledger
    BY <2>1 DEF LedgerLog
  <2>2. ASSUME NEW h \in Handler, CommitPush(h) PROVE [MergedLog!Next]_LedgerLog
    <3>1. CloudNext
      BY <2>2 DEF CommitPush, CloudNext, CallStep
    <3> QED
      BY <1>2, <3>1, LogStep DEF ServerInv
  <2>3. ServerNext => ledger' = ledger \/ \E h \in Handler : CommitPush(h)
    BY DEF ServerNext, PushNext, BeginPush, PushBatch, PushStep, ResolveNext, ResolveBlind,
           Resolve, InsertNext, FailPush, Rollback, Publish, PublishFails, CommitUnsure,
           EndPush, EndCall, PullNext, BeginPull, QueryRows, SendRow, EndPull, FailPull,
           ClosePull, ProcessNext, Start, Terminate, Exit, Crash, CutCalls, Administer,
           cloudVars
  <2>4. CASE UNCHANGED serverVars
    BY <2>1, <2>4 DEF serverVars, cloudVars
  <2> QED
    BY <1>2, <2>1, <2>2, <2>3, <2>4
<1> QED
  BY <1>1, <1>2, ServerInvariant, PTL DEF ServerSpec, ImplementsMergeLog, MergedLog!Spec

\* Shutting down on request drops no call and no ping.
THEOREM GracefulShutdown == ServerSpec => ShutdownDropsNothing
<1> DEFINE Kept ==
      /\ \A h \in Handler : push[h].pc = "serving" /\ push'[h].pc = "idle" => faults' > faults
      /\ \A p \in Puller : pull[p].pc = "streaming" /\ pull'[p].pc = "idle" => faults' > faults
      /\ \A h \in due \ due' :
           \/ faults' > faults
           \/ process[ReplicaOf[h]].notifier => HintOf(h) \in hints'
<1>1. ASSUME ServerInv, [ServerNext]_serverVars PROVE [Kept]_serverVars
  <2>1. /\ push \in [Handler -> Call] /\ pull \in [Puller -> PullCall] /\ faults \in Nat
    BY <1>1 DEF ServerInv, IInv, TypeOK, ServerTypeOK
  <2>2. ASSUME faults' = faults + 1 PROVE Kept
    BY <2>1, <2>2
  <2>3. ASSUME UNCHANGED <<push, due, pull>> PROVE Kept
    BY <2>3
  <2>4. ASSUME NEW h \in Handler, PushNext(h) PROVE Kept
    <3>1. CASE FailPush(h) \/ PublishFails(h) \/ CommitUnsure(h)
      BY <2>2, <3>1 DEF FailPush, Rollback, PublishFails, CommitUnsure, Fault
    <3>2. CASE Publish(h)
      BY <2>1, <3>2 DEF Publish, cloudVars
    <3>3. CASE \E batch \in Batches : BeginPush(h, batch)
      <4>1. push'[h].pc = "serving" /\ \A g \in Handler \ {h} : push'[g] = push[g]
        BY <2>1, <3>3 DEF BeginPush, PushBatch, NoCall
      <4> QED
        BY <3>3, <4>1 DEF BeginPush, outerVars
    <3>4. CASE PushStep(h)
      <4>1. push'[h].pc = "serving" /\ \A g \in Handler \ {h} : push'[g] = push[g]
        <5>1. CASE ResolveNext(h)
          BY <2>1, <5>1 DEF ResolveNext, Resolve, Call
        <5>2. CASE ResolveBlind(h)
          BY <2>1, <5>2 DEF ResolveBlind, Resolve, Call
        <5>3. CASE InsertNext(h)
          BY <2>1, <5>3 DEF InsertNext, Appending, InsertNew, SkipDuplicate, Call
        <5> QED
          BY <3>4, <5>1, <5>2, <5>3 DEF PushStep
      <4> QED
        BY <3>4, <4>1 DEF PushStep, outerVars
    <3>5. CASE CommitPush(h)
      <4>1. push'[h].pc = "replied" /\ \A g \in Handler \ {h} : push'[g] = push[g]
        BY <2>1, <3>5, CommitEffect DEF CommitPush
      <4>2. due \subseteq due' /\ pull' = pull
        BY <3>5 DEF CommitPush
      <4> QED
        BY <4>1, <4>2
    <3>6. CASE EndPush(h)
      BY <2>1, <3>6 DEF EndPush, EndCall, outerVars
    <3> QED
      BY <2>4, <3>1, <3>2, <3>3, <3>4, <3>5, <3>6 DEF PushNext
  <2>5. ASSUME NEW p \in Puller, PullNext(p) PROVE Kept
    <3>1. push' = push /\ due' = due
      BY <2>5 DEF PullNext, BeginPull, QueryRows, SendRow, EndPull, FailPull, ClosePull,
                  cloudVars
    <3>2. \A q \in Puller : pull[q].pc = "streaming" => pull'[q].pc # "idle"
      <4>1. \A q \in Puller \ {p} : pull'[q] = pull[q]
        BY <2>1, <2>5 DEF PullNext, BeginPull, QueryRows, SendRow, EndPull, FailPull, ClosePull
      <4>2. pull[p].pc = "streaming" => pull'[p].pc # "idle"
        BY <2>1, <2>5 DEF PullNext, BeginPull, QueryRows, SendRow, EndPull, FailPull,
                          ClosePull, PullCall
      <4> QED
        BY <4>1, <4>2
    <3> QED
      BY <3>1, <3>2
  <2>6. ASSUME NEW r \in Replica, ProcessNext(r) PROVE Kept
    <3>1. CASE Crash(r)
      BY <2>2, <3>1 DEF Crash, Fault
    <3>2. CASE ~ Crash(r)
      BY <2>3, <2>6, <3>2 DEF ProcessNext, Start, Terminate, Exit, cloudVars
    <3> QED
      BY <3>1, <3>2
  <2>7. ASSUME NEW d \in Device, Administer(d) PROVE Kept
    BY <2>3, <2>7 DEF Administer, cloudVars
  <2> HIDE DEF Kept
  <2> QED
    BY <1>1, <2>4, <2>5, <2>6, <2>7 DEF ServerNext
<1> QED
  BY <1>1, ServerInvariant, PTL DEF ServerSpec, ShutdownDropsNothing

\* A revoked device gets no further than the calls it has under way.
THEOREM RevocationHolds == ServerSpec => RevokedDevicesFade
<1> DEFINE Fades == \A d \in Device : ~ devices[d].authorized =>
      /\ Pushing(d)' \subseteq Pushing(d)
      /\ RowsOf(d)' = RowsOf(d) \/ Pushing(d) # {}
<1>1. ASSUME ServerInv, [ServerNext]_serverVars PROVE [Fades]_serverVars
  <2>1. /\ IInv /\ TypeOK /\ push \in [Handler -> Call] /\ push' \in [Handler -> Call]
    BY <1>1, ServerStepInv DEF ServerInv, IInv, TypeOK
  <2>2. ASSUME ledger' = ledger, \A h \in Handler : push'[h].pc # "idle" => push[h].pc # "idle"
        PROVE  Fades
    BY <2>2 DEF Pushing, RowsOf
  <2>3. ASSUME NEW h \in Handler, NEW batch \in Batches, BeginPush(h, batch) PROVE Fades
    <3>1. devices[DeviceOf[h]].authorized
      BY <2>3 DEF BeginPush, Authenticated, ParseBearer
    <3>2. ledger' = ledger /\ \A g \in Handler \ {h} : push'[g] = push[g]
      BY <2>1, <2>3 DEF BeginPush, PushBatch
    <3> QED
      BY <3>1, <3>2 DEF Pushing, RowsOf
  <2>4. ASSUME NEW h \in Handler, CommitPush(h) PROVE Fades
    <3>1. \A g \in Handler : push'[g].pc # "idle" => push[g].pc # "idle"
      BY <2>1, <2>4, PushEffect
    <3>2. ledger' = ledger \cup Committed(h) /\ push[h].pc # "idle"
      BY <2>1, <2>4, PushEffect DEF CommitPush, Commit
    <3>3. \A r \in Committed(h) : r.chg.dev = DeviceOf[h]
      BY <2>1 DEF Committed, IInv, Authors
    <3>4. ASSUME NEW d \in Device, Pushing(d) = {} PROVE RowsOf(d)' = RowsOf(d)
      <4>1. DeviceOf[h] # d
        BY <3>2, <3>4 DEF Pushing
      <4> QED
        BY <3>2, <3>3, <4>1 DEF RowsOf
    <3> QED
      BY <3>1, <3>4 DEF Pushing
  <2>5. ASSUME NEW h \in Handler,
               PushStep(h) \/ FailPush(h) \/ CommitUnsure(h) \/ EndPush(h)
        PROVE  Fades
    <3>1. \A g \in Handler : push'[g].pc # "idle" => push[g].pc # "idle"
      BY <2>1, <2>5, PushEffect
    <3>2. ledger' = ledger
      BY <2>5 DEF PushStep, ResolveNext, ResolveBlind, Resolve, InsertNext, FailPush,
                  Rollback, CommitUnsure, EndPush, EndCall
    <3> QED
      BY <2>2, <3>1, <3>2
  <2>6. ASSUME UNCHANGED <<ledger, push>> PROVE Fades
    BY <2>2, <2>6
  <2>7. ASSUME NEW h \in Handler, Publish(h) \/ PublishFails(h) PROVE Fades
    BY <2>6, <2>7 DEF Publish, PublishFails, cloudVars
  <2>8. ASSUME NEW p \in Puller, PullNext(p) PROVE Fades
    BY <2>6, <2>8 DEF PullNext, BeginPull, QueryRows, SendRow, EndPull, FailPull, ClosePull,
                      cloudVars
  <2>9. ASSUME NEW r \in Replica, ProcessNext(r) PROVE Fades
    <3>1. CASE Crash(r)
      <4>1. \A h \in Handler : push'[h] = push[h] \/ push'[h] = NoCall
        BY <2>1, <3>1, CutEffect DEF Crash
      <4>2. ledger' = ledger /\ NoCall.pc = "idle"
        BY <3>1 DEF Crash, CutCalls, NoCall
      <4> QED
        BY <2>2, <4>1, <4>2
    <3>2. CASE ~ Crash(r)
      BY <2>6, <2>9, <3>2 DEF ProcessNext, Start, Terminate, Exit, cloudVars
    <3> QED
      BY <3>1, <3>2
  <2>10. ASSUME NEW d \in Device, Administer(d) PROVE Fades
    BY <2>6, <2>10 DEF Administer, cloudVars
  <2> HIDE DEF Fades
  <2> QED
    BY <1>1, <2>3, <2>4, <2>5, <2>7, <2>8, <2>9, <2>10 DEF ServerNext, PushNext
<1> QED
  BY <1>1, ServerInvariant, PTL DEF ServerSpec, RevokedDevicesFade
=============================================================================
