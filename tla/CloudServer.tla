---------------------------- MODULE CloudServer ----------------------------
(***************************************************************************)
(* The Cloud Sync Service as it is deployed: replicas of the server        *)
(* process (cloud/sync/cmd/server/main.go) over one PostgreSQL. Around the *)
(* push handlers of CloudSync there are                                    *)
(*   - the process: it starts, serves, drains its calls after SIGTERM      *)
(*     (GracefulStop) and exits, or dies with all its calls;               *)
(*   - the authentication of every call against the table `devices`, which *)
(*     is read once, when the call begins;                                 *)
(*   - the ping through Redis after a push has committed;                  *)
(*   - the PullChanges handler, which streams the rows of one query.       *)
(***************************************************************************)
EXTENDS CloudSync

CONSTANTS Replica,     \* processes of the deployment
          Puller,      \* slots for concurrent PullChanges calls
          PullerOf,    \* the device whose pulls a slot serves
          ReplicaOf,   \* the replica a slot of either kind belongs to
          Environment, \* what a process may find when it starts
          Secret,      \* values of devices.jwt_secret
          Token,       \* the credentials devices present
          MaxNumber,   \* the largest device_sequence, a BIGINT
          MaxEvents,   \* bound: SIGTERMs and changes of the table devices
          MaxLoad      \* bound: calls under way at once

\* A JWT: the device it names, the secret it was signed with, whether business_id
\* is the device's and whether exp has not passed.
TokenType == [dev : Device, secret : Secret, ours : BOOLEAN, live : BOOLEAN]

\* DATABASE_URL is set and answers; REDIS_ADDR is empty, answers, or does not; there
\* is a TLS key pair or INSECURE_DEV.
EnvironmentType ==
  [database : BOOLEAN, redis : {"none", "up", "down"}, tls : BOOLEAN]

ASSUME ServerAssumption ==
  /\ PullerOf \in [Puller -> Device]
  /\ ReplicaOf \in [Handler \cup Puller -> Replica]
  /\ Environment \subseteq EnvironmentType
  /\ Token \subseteq TokenType
  /\ MaxEvents \in Nat
  /\ MaxLoad \in Nat

\* A change has its change_id and its number in the change_log of its device for good,
\* and the numbers of a batch are distinct.
ASSUME BatchAssumption ==
  /\ MaxNumber \in Nat
  /\ \A batch \in Batches : \A c \in batch :
       /\ c.n <= MaxNumber
       /\ \A e \in batch : c.n = e.n => c = e
       /\ \A other \in Batches : \A e \in other : c.id = e.id => c.n = e.n

VARIABLES process,     \* per replica, its phase and whether it has a notifier
          devices,     \* the table devices: secret and is_authorized
          due,         \* push slots that have committed and not yet published
          hints,       \* hints published so far
          lost,        \* ghost: hints that were due and never published
          pull,        \* per slot, the state of its PullChanges call
          events       \* SIGTERMs and changes of devices so far

outerVars == <<process, devices, due, hints, lost, pull, events>>

serverVars == <<cloudVars, outerVars>>

-----------------------------------------------------------------------------
\* A hint: the sequence it carries. Ghost: the transaction it is about, 0 when that
\* added no row.
HintType == [seq : Nat, commit : Nat]

\* What the call of slot h has to tell.
HintOf(h) == [seq |-> push[h].max, commit |-> push[h].commit]

Process == [phase : {"down", "serving", "draining"}, notifier : BOOLEAN]

Down == [phase |-> "down", notifier |-> FALSE]

\* A device without a row, or without a secret, is one that is not authorized.
Registration == [secret : Secret, authorized : BOOLEAN]

\* A PullChanges call: its cursor, the rows of its query still to send, the rows
\* sent. Ghost: seen, the number of commits when it began.
PullCall == [pc : {"idle", "begun", "streaming", "ended", "failed"}, after : Nat,
             todo : SUBSET Row, sent : SUBSET Row, seen : Nat]

NoPull == [pc |-> "idle", after |-> 0, todo |-> {}, sent |-> {}, seen |-> 0]

ServerInit ==
  /\ CloudInit
  /\ process = [r \in Replica |-> Down]
  /\ devices \in [Device -> {row \in Registration : row.authorized}]
  /\ due = {}
  /\ hints = {}
  /\ lost = {}
  /\ pull = [p \in Puller |-> NoPull]
  /\ events = 0

\* The number of calls under way.
Load ==
  Cardinality({h \in Handler : push[h].pc # "idle"})
    + Cardinality({p \in Puller : pull[p].pc # "idle"})

Event == events < MaxEvents /\ events' = events + 1

Serving(r) == process[r].phase = "serving"

-----------------------------------------------------------------------------
(* Authentication.                                                         *)

\* The device is registered and authorized, the token is signed with its secret,
\* names its business and has not expired. Every other answer, an error of the
\* lookup included, is "invalid device credentials".
ParseBearer(token) ==
  /\ devices[token.dev].authorized
  /\ token.secret = devices[token.dev].secret
  /\ token.ours
  /\ token.live

\* Mutant of Authenticated: is_authorized is not looked at.
AuthenticatedBySecret(d) ==
  \E token \in Token : token.dev = d /\ token.secret = devices[d].secret

\* A call with a token of device d passes.
Authenticated(d) == \E token \in Token : token.dev = d /\ ParseBearer(token)

\* The account portal revokes a device, or authorizes it again.
Administer(d) ==
  /\ Event
  /\ devices' = [devices EXCEPT ![d].authorized = ~ @]
  /\ UNCHANGED <<cloudVars, process, due, hints, lost, pull>>

-----------------------------------------------------------------------------
(* PushBatch, from its authentication to its reply.                        *)

BeginPush(h, batch) ==
  /\ Serving(ReplicaOf[h])
  /\ Authenticated(DeviceOf[h])
  /\ Load < MaxLoad
  /\ PushBatch(h, batch)
  /\ UNCHANGED <<faults, outerVars>>

\* The handler's work up to the commit.
PushStep(h) ==
  /\ ResolveNext(h) \/ ResolveBlind(h) \/ InsertNext(h)
  /\ UNCHANGED outerVars

\* Mutant of CommitPush: nothing is published when a higher sequence was told already.
CommitPushIfHighest(h) ==
  /\ Commit(h)
  /\ due' = IF push[h].max > 0 /\ \A n \in hints : n.seq < push[h].max
            THEN due \cup {h} ELSE due
  /\ UNCHANGED <<process, devices, hints, lost, pull, events>>

\* The transaction commits; the others are to be told when there were winners,
\* duplicates included (they are what has set max).
CommitPush(h) ==
  /\ Commit(h)
  /\ due' = IF push[h].max > 0 THEN due \cup {h} ELSE due
  /\ UNCHANGED <<process, devices, hints, lost, pull, events>>

FailPush(h) == Rollback(h) /\ UNCHANGED outerVars

\* Mutant of MayPublish: the ping leaves before the commit.
MayPublishEarly(h) == h \in due \/ (Appending(h) /\ push[h].accept = {} /\ push[h].max > 0)

MayPublish(h) == h \in due

\* NotifyChangeAvailable: without a notifier nothing is published.
Publish(h) ==
  /\ MayPublish(h)
  /\ due' = due \ {h}
  /\ IF process[ReplicaOf[h]].notifier
     THEN hints' = hints \cup {HintOf(h)} /\ UNCHANGED lost
     ELSE lost' = lost \cup {HintOf(h)} /\ UNCHANGED hints
  /\ UNCHANGED <<cloudVars, process, devices, pull, events>>

\* The error of Publish is discarded.
PublishFails(h) ==
  /\ h \in due
  /\ due' = due \ {h}
  /\ lost' = lost \cup {HintOf(h)}
  /\ Fault
  /\ UNCHANGED <<ledger, serial, commits, push, process, devices, hints, pull, events>>

\* The connection to PostgreSQL breaks in the COMMIT: it took place, the handler
\* takes it for failed, replies with an error and publishes nothing.
CommitUnsure(h) ==
  /\ h \in due
  /\ EndCall(h)
  /\ due' = due \ {h}
  /\ lost' = lost \cup {HintOf(h)}
  /\ Fault
  /\ UNCHANGED <<process, devices, hints, pull, events>>

EndPush(h) ==
  /\ h \notin due
  /\ EndCall(h)
  /\ UNCHANGED <<faults, outerVars>>

-----------------------------------------------------------------------------
(* PullChanges.                                                            *)

\* A pull begins: a cursor is 0 or the sequence of a row.
BeginPull(p, after) ==
  /\ Serving(ReplicaOf[p])
  /\ Authenticated(PullerOf[p])
  /\ Load < MaxLoad
  /\ pull[p].pc = "idle"
  /\ pull' = [pull EXCEPT ![p] =
       [NoPull EXCEPT !.pc = "begun", !.after = after, !.seen = commits]]
  /\ UNCHANGED <<cloudVars, process, devices, due, hints, lost, events>>

\* The query of StreamAfter reads one snapshot.
QueryRows(p) ==
  /\ pull[p].pc = "begun"
  /\ pull' = [pull EXCEPT ![p].pc = "streaming",
                          ![p].todo = StreamAfter(PullerOf[p], pull[p].after)]
  /\ UNCHANGED <<cloudVars, process, devices, due, hints, lost, events>>

\* Mutant of IsNextRow: ORDER BY global_sequence DESC.
IsLastRow(r, todo) == r \in todo /\ \A s \in todo : s.seq <= r.seq

\* ORDER BY global_sequence ASC.
IsNextRow(r, todo) == r \in todo /\ \A s \in todo : r.seq <= s.seq

SendRow(p) ==
  /\ pull[p].pc = "streaming"
  /\ \E r \in pull[p].todo :
       /\ IsNextRow(r, pull[p].todo)
       /\ pull' = [pull EXCEPT ![p].todo = @ \ {r}, ![p].sent = @ \cup {r}]
  /\ UNCHANGED <<cloudVars, process, devices, due, hints, lost, events>>

\* Every row has been sent: the stream ends with status OK.
EndPull(p) ==
  /\ pull[p].pc = "streaming"
  /\ pull[p].todo = {}
  /\ pull' = [pull EXCEPT ![p].pc = "ended"]
  /\ UNCHANGED <<cloudVars, process, devices, due, hints, lost, events>>

\* The query, a Scan or a Send fails, or rows.Err() reports an error: "pull failed".
FailPull(p) ==
  /\ pull[p].pc \in {"begun", "streaming"}
  /\ pull' = [pull EXCEPT ![p].pc = "failed", ![p].todo = {}]
  /\ Fault
  /\ UNCHANGED <<ledger, serial, commits, push, process, devices, due, hints, lost, events>>

\* The device has seen the end of the stream.
ClosePull(p) ==
  /\ pull[p].pc \in {"ended", "failed"}
  /\ pull' = [pull EXCEPT ![p] = NoPull]
  /\ UNCHANGED <<cloudVars, process, devices, due, hints, lost, events>>

-----------------------------------------------------------------------------
(* The process.                                                            *)

\* main up to Serve; it exits with status 1 when a part is missing.
Start(r) ==
  /\ process[r].phase = "down"
  /\ \E env \in Environment :
       /\ env.database
       /\ env.redis # "down"
       /\ env.tls
       /\ process' = [process EXCEPT ![r] =
            [phase |-> "serving", notifier |-> env.redis = "up"]]
  /\ UNCHANGED <<cloudVars, devices, due, hints, lost, pull, events>>

\* SIGINT or SIGTERM: GracefulStop refuses new calls; a second signal is swallowed.
Terminate(r) ==
  /\ Serving(r)
  /\ Event
  /\ process' = [process EXCEPT ![r].phase = "draining"]
  /\ UNCHANGED <<cloudVars, devices, due, hints, lost, pull>>

\* Mutant of Idle: open streams are not waited for.
IdleButForPulls(r) == \A h \in Handler : ReplicaOf[h] = r => push[h].pc = "idle"

\* No call of the replica is under way.
Idle(r) ==
  /\ \A h \in Handler : ReplicaOf[h] = r => push[h].pc = "idle"
  /\ \A p \in Puller : ReplicaOf[p] = r => pull[p].pc = "idle"

\* The calls of the replica are gone; an open transaction is rolled back.
CutCalls(r) ==
  LET cut == {h \in due : ReplicaOf[h] = r} IN
  /\ push' = [h \in Handler |-> IF ReplicaOf[h] = r THEN NoCall ELSE push[h]]
  /\ pull' = [p \in Puller |-> IF ReplicaOf[p] = r THEN NoPull ELSE pull[p]]
  /\ due' = due \ cut
  /\ lost' = lost \cup {HintOf(h) : h \in cut}
  /\ UNCHANGED <<ledger, serial, commits>>

\* Mutant of Exit: Stop in place of GracefulStop.
ExitAtOnce(r) ==
  /\ process[r].phase = "draining"
  /\ process' = [process EXCEPT ![r] = Down]
  /\ CutCalls(r)
  /\ UNCHANGED <<faults, devices, hints, events>>

\* Serve returns when GracefulStop does, main closes the pool.
Exit(r) ==
  /\ process[r].phase = "draining"
  /\ Idle(r)
  /\ process' = [process EXCEPT ![r] = Down]
  /\ UNCHANGED <<cloudVars, devices, due, hints, lost, pull, events>>

\* The process is killed.
Crash(r) ==
  /\ process[r].phase # "down"
  /\ process' = [process EXCEPT ![r] = Down]
  /\ CutCalls(r)
  /\ Fault
  /\ UNCHANGED <<devices, hints, events>>

PushNext(h) ==
  \/ \E batch \in Batches : BeginPush(h, batch)
  \/ PushStep(h)
  \/ CommitPush(h)
  \/ FailPush(h)
  \/ Publish(h)
  \/ PublishFails(h)
  \/ CommitUnsure(h)
  \/ EndPush(h)

PullNext(p) ==
  \/ \E after \in {0} \cup {r.seq : r \in ledger} : BeginPull(p, after)
  \/ QueryRows(p)
  \/ SendRow(p)
  \/ EndPull(p)
  \/ FailPull(p)
  \/ ClosePull(p)

ProcessNext(r) == Start(r) \/ Terminate(r) \/ Exit(r) \/ Crash(r)

ServerNext ==
  \/ \E h \in Handler : PushNext(h)
  \/ \E p \in Puller : PullNext(p)
  \/ \E r \in Replica : ProcessNext(r)
  \/ \E d \in Device : Administer(d)

ServerSpec == ServerInit /\ [][ServerNext]_serverVars

-----------------------------------------------------------------------------
(* What the deployment guarantees.                                         *)

\* The types, and: a call belongs to a process that is there.
ServerTypeOK ==
  /\ process \in [Replica -> Process]
  /\ devices \in [Device -> Registration]
  /\ due \subseteq Handler
  /\ hints \subseteq HintType /\ lost \subseteq HintType
  /\ pull \in [Puller -> PullCall]
  /\ events \in Nat
  /\ \A h \in Handler : push[h].pc # "idle" => process[ReplicaOf[h]] # Down
  /\ \A p \in Puller : pull[p].pc # "idle" => process[ReplicaOf[p]] # Down

\* The unique index makes transactions wait for each other, and PostgreSQL breaks a
\* circle of waits by failing one of them. Since every handler inserts in the order
\* of its device's sequence numbers, there is never a circle, whatever batches of a
\* device overlap.
WaitsFor(g, h) ==
  /\ Appending(g)
  /\ \E c \in push[g].accept :
       /\ IsNext(c, push[g].accept)
       /\ \E r \in push[h].rows : r.chg.id = c.id

NoWaitCycle ==
  \A S \in (SUBSET Handler) \ {{}} : \E g \in S : \A h \in S \ {g} : ~ WaitsFor(g, h)

\* A stream that ends with OK has sent everything that was committed when the call
\* began: the device then saves the last sequence it was sent and never asks for what
\* precedes it. And a device applies the events as they arrive, those of a stream that
\* will break off too: nothing is sent before an older row.
PullsLeaveNoGap ==
  \A p \in Puller : \A r \in StreamAfter(PullerOf[p], pull[p].after) :
    /\ r.commit <= pull[p].seen
    /\ pull[p].pc = "ended" \/ \E s \in pull[p].sent : r.seq < s.seq
    => r \in pull[p].sent

\* Who pulls on a hint finds the row the hint is about: nothing is published before
\* it is committed.
HintsAreCommitted == \A n \in hints : \E r \in ledger : r.seq = n.seq

\* Hint n is about row r: of its transaction, and not below it.
Tells(n, r) == n.commit = r.commit /\ r.seq <= n.seq

\* Every row is told by the call that committed it, under a sequence that is not lower,
\* or about to be, unless that call's own ping was lost. A hint of an earlier or of
\* another call does not count: a row may commit after a higher sequence was told.
RowsAreAnnounced ==
  \A r \in ledger :
    \/ \E n \in hints \cup lost : Tells(n, r)
    \/ \E h \in due : Tells(HintOf(h), r)

\* A shutdown on request loses nothing: a push that is under way ends unanswered, a
\* stream breaks off, and a ping that is due is dropped, only through a failure.
ShutdownDropsNothing ==
  [][/\ \A h \in Handler : push[h].pc = "serving" /\ push'[h].pc = "idle" => faults' > faults
     /\ \A p \in Puller : pull[p].pc = "streaming" /\ pull'[p].pc = "idle" => faults' > faults
     /\ \A h \in due \ due' :
          \/ faults' > faults
          \/ process[ReplicaOf[h]].notifier => HintOf(h) \in hints'
    ]_serverVars

\* A revocation does not reach the calls that have passed the check: they may still
\* add rows. But no other begins, and when the last is over the device's rows stand.
Pushing(d) == {h \in Handler : DeviceOf[h] = d /\ push[h].pc # "idle"}

RowsOf(d) == {r \in ledger : r.chg.dev = d}

RevokedDevicesFade ==
  [][\A d \in Device : ~ devices[d].authorized =>
       /\ Pushing(d)' \subseteq Pushing(d)
       /\ RowsOf(d)' = RowsOf(d) \/ Pushing(d) # {}
    ]_serverVars
=============================================================================
