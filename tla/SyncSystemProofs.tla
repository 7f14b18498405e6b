-------------------------- MODULE SyncSystemProofs --------------------------
(***************************************************************************)
(* Proofs about SyncSystem, for any number of devices, call slots, edits,  *)
(* clocks and failures: the type invariant, that nothing is lost between   *)
(* the outbox and the ledger, that the ledger is causal per device, and    *)
(* what a pull cursor can pass. They rest on the invariant of the service  *)
(* alone (CloudSyncProofs).                                                *)
(***************************************************************************)
EXTENDS SyncSystem, CloudSyncProofs, FiniteSetTheorems

-----------------------------------------------------------------------------
(* The inductive invariant.                                                *)

\* The changes device d has made.
Made(d) == {r.chg : r \in Own(d)}

\* What a change made on device d looks like. Its type is never one of those that are
\* merged field by field: the service stores it as it is.
MadeBy(d, c) ==
  /\ c \in Change /\ c.dev = d
  /\ c.n \in 1 .. MaxChanges[d] /\ c.id = Uuid[d][c.n]
  /\ c.type \in {"sale", "stock_movement", "stock"}
  /\ c.pay \in [Field -> Value \cup {Null}] /\ c.pay["val"] \in Value

\* Tables are finite, and the sequence numbers of a device are unique.
Logs ==
  \A d \in Device :
    /\ IsFiniteSet(log[d]) /\ IsFiniteSet(rows[d])
    /\ \A c \in Made(d) : MadeBy(d, c)
    /\ \A c, e \in Made(d) : c.n = e.n => c = e

\* The call a device waits for carries the batch the engine has in its hand.
Waiting ==
  \A d \in Device : slot[d] # NoSlot =>
    /\ DeviceOf[slot[d]] = d
    /\ engine[d].phase = "pushing" /\ engine[d].batch # {}
    /\ push[slot[d]].pc # "idle"
    /\ push[slot[d]].req = engine[d].batch

\* A call holds changes its device has made, and its request leaves out no earlier one
\* that the ledger does not cover.
CallInv(h) ==
  /\ push[h].req \subseteq Made(DeviceOf[h])
  /\ push[h].todo \subseteq push[h].req /\ push[h].accept \subseteq push[h].req
  /\ \A r \in push[h].rows : r.chg \in push[h].req /\ 0 < r.seq
  /\ push[h].conflicts \subseteq {c.id : c \in push[h].req}
  /\ \A c \in push[h].req, e \in Made(DeviceOf[h]) :
       e.n < c.n => e \in push[h].req \/ Covered(e)

Calls == \A h \in Handler : CallInv(h)

LedgerIsMade == \A r \in ledger : r.chg \in Made(r.chg.dev) /\ 0 < r.seq

\* A row that a cursor may have passed.
Late(r) == \E s \in ledger : s.seq > r.seq /\ s.commit < r.commit

\* n is a place in the ledger, and device d has every row up to it but late ones.
Reached(d, n) ==
  /\ n = 0 \/ \E s \in ledger : s.seq = n
  /\ \A r \in ledger :
       r.chg.dev # d /\ r.seq <= n /\ r.chg.id \notin Recorded(d) => Late(r)

\* The event of a row.
EventOf(r) == [seq |-> r.seq, chg |-> r.chg]

\* What is still in a stream are rows of the ledger, and what is missing before one of
\* them is late.
PullInv(d) ==
  /\ Reached(d, cursor[d])
  /\ Reached(d, engine[d].max)
  /\ \A ev \in engine[d].stream :
       /\ \E s \in ledger : ev = EventOf(s)
       /\ ev.chg.dev # d
       /\ \A r \in ledger :
            r.chg.dev # d /\ r.seq < ev.seq /\ r.chg.id \notin Recorded(d)
            => EventOf(r) \in engine[d].stream \/ Late(r)

Pulls == \A d \in Device : PullInv(d)

SystemInv ==
  /\ IInv
  /\ SystemTypeOK
  /\ Logs
  /\ Waiting
  /\ Calls
  /\ LedgerIsMade
  /\ AckedIsCovered
  /\ CausalOrder
  /\ Pulls

-----------------------------------------------------------------------------
(* Facts about data.                                                       *)

\* What is assumed about devices, in parts.
LEMMA Bounds == (\A d \in Device : MaxChanges[d] \in Nat) /\ BatchLimit \in Nat \ {0}
BY DeviceAssumption

LEMMA Uuids ==
  /\ \A d \in Device : Uuid[d] \in [1 .. MaxChanges[d] -> Nat]
  /\ \A d, e \in Device : \A m \in 1 .. MaxChanges[d], n \in 1 .. MaxChanges[e] :
       Uuid[d][m] = Uuid[e][n] => d = e /\ m = n
BY DeviceAssumption

LEMMA OwnRow ==
  ASSUME SystemTypeOK, NEW d \in Device, NEW r \in Own(d)
  PROVE  r \in log[d] /\ r \in LogRow /\ r.chg \in Change /\ r.chg.dev = d
BY DEF Own, SystemTypeOK, LogRow

\* Changes with one id are one change: the ids of all devices are different.
LEMMA OneId ==
  ASSUME Logs, NEW d \in Device, NEW e \in Device, NEW a \in Made(d), NEW b \in Made(e),
         a.id = b.id
  PROVE  a = b
<1>1. MadeBy(d, a) /\ MadeBy(e, b)
  BY DEF Logs
<1>2. a.n \in 1 .. MaxChanges[d] /\ b.n \in 1 .. MaxChanges[e] /\ Uuid[d][a.n] = Uuid[e][b.n]
  BY <1>1 DEF MadeBy
<1>3. d = e /\ a.n = b.n
  BY <1>2, Uuids
<1> QED
  BY <1>3 DEF Logs

\* A nonempty set of changes of one device has a last one.
LEMMA LastChange ==
  ASSUME Logs, NEW d \in Device, NEW S, S \subseteq Made(d), S # {}
  PROVE  \E c \in S : \A e \in S : e.n <= c.n
<1> DEFINE top == MaxChanges[d]
           D == {top - c.n : c \in S}
<1>1. top \in Nat /\ \A c \in S : c.n \in 1 .. top
  BY Bounds DEF Logs, MadeBy
<1>2. D \subseteq Nat /\ D # {}
  BY <1>1
<1>3. PICK m \in D : \A x \in D : m <= x
  BY <1>2, LeastNatural
<1>4. PICK c \in S : m = top - c.n
  OBVIOUS
<1>5. ASSUME NEW e \in S PROVE e.n <= c.n
  <2>1. top - c.n <= top - e.n
    BY <1>3, <1>4
  <2> QED
    BY <1>1, <2>1
<1> QED
  BY <1>5

\* And a first one.
LEMMA FirstChange ==
  ASSUME Logs, NEW d \in Device, NEW S, S \subseteq Made(d), S # {}
  PROVE  \E c \in S : \A e \in S : c.n <= e.n
<1> DEFINE D == {c.n : c \in S}
<1>1. \A c \in S : c.n \in Nat
  BY DEF Logs, MadeBy
<1>2. D \subseteq Nat /\ D # {}
  BY <1>1
<1>3. PICK m \in D : \A x \in D : m <= x
  BY <1>2, LeastNatural
<1>4. PICK c \in S : m = c.n
  OBVIOUS
<1> QED
  BY <1>3, <1>4

\* nextSequence is larger than the number of every change of the device.
LEMMA NextSequenceFresh ==
  ASSUME SystemTypeOK, Logs, NEW d \in Device
  PROVE  /\ NextSequence(d) \in Nat \ {0}
         /\ \A c \in Made(d) : c.n < NextSequence(d)
<1>1. CASE Own(d) = {}
  BY <1>1 DEF NextSequence, Made
<1>2. CASE Own(d) # {}
  <2> DEFINE IsLast(r) == r \in Own(d) /\ \A s \in Own(d) : s.chg.n <= r.chg.n
             last == CHOOSE r \in Own(d) : \A s \in Own(d) : s.chg.n <= r.chg.n
  <2>0. Made(d) # {}
    BY <1>2 DEF Made
  <2>1. PICK c \in Made(d) : \A e \in Made(d) : e.n <= c.n
    BY <2>0, LastChange
  <2>2. \E r \in Own(d) : \A s \in Own(d) : s.chg.n <= r.chg.n
    BY <2>1 DEF Made
  <2>3. last \in Own(d) /\ \A s \in Own(d) : s.chg.n <= last.chg.n
    BY <2>2
  <2>4. NextSequence(d) = 1 + last.chg.n
    BY <1>2 DEF NextSequence
  <2>5. \A r \in Own(d) : r.chg.n \in Nat
    BY OwnRow DEF Change
  <2> HIDE DEF last
  <2> QED
    BY <2>3, <2>4, <2>5 DEF Made
<1> QED
  BY <1>1, <1>2

\* The changes of finitely many rows are finitely many.
LEMMA FiniteChanges ==
  ASSUME NEW S, IsFiniteSet(S)
  PROVE  IsFiniteSet({r.chg : r \in S})
<1> DEFINE T == {r.chg : r \in S}
           f == [r \in S |-> r.chg]
<1>1. f \in Surjection(S, T)
  BY DEF Surjection
<1> QED
  BY <1>1, FS_Surjection

\* A pending batch is a nonempty set of the device's changes, and holds with a change
\* every earlier one that is pending.
LEMMA BatchIsPrefix ==
  ASSUME SystemTypeOK, Logs, NEW d \in Device, Pending(d) # {}
  PROVE  /\ PendingBatch(d) \subseteq Pending(d) /\ PendingBatch(d) # {}
         /\ Pending(d) \subseteq Made(d)
         /\ \A c \in PendingBatch(d), e \in Pending(d) : e.n < c.n => e \in PendingBatch(d)
<1> DEFINE Before(c) == {e \in Pending(d) : e.n < c.n}
<1>1. Pending(d) \subseteq Made(d)
  BY DEF Pending, Made
<1>2. IsFiniteSet(Pending(d))
  <2> DEFINE S == {s \in Own(d) : s.status = "pending"}
  <2>1. S \in SUBSET log[d] /\ IsFiniteSet(log[d])
    BY DEF Logs, Own
  <2>2. IsFiniteSet(S)
    BY <2>1, FS_Subset
  <2>3. IsFiniteSet({r.chg : r \in S})
    BY <2>2, FiniteChanges
  <2> QED
    BY <2>3 DEF Pending
<1>3. \A c \in Pending(d) : c.n \in Nat
  BY <1>1 DEF Logs, MadeBy
<1>4. PICK c \in Pending(d) : \A e \in Pending(d) : c.n <= e.n
  BY <1>1, FirstChange
<1>5. Before(c) = {}
  BY <1>3, <1>4
<1>6. c \in PendingBatch(d)
  <2>1. Cardinality(Before(c)) = 0 /\ 0 < BatchLimit
    BY <1>5, FS_EmptySet, Bounds
  <2> QED
    BY <2>1 DEF PendingBatch
<1>7. ASSUME NEW a \in PendingBatch(d), NEW e \in Pending(d), e.n < a.n
      PROVE  e \in PendingBatch(d)
  <2>1. a \in Pending(d) /\ Cardinality(Before(a)) < BatchLimit
    BY DEF PendingBatch
  <2>2. Before(a) \in SUBSET Pending(d) /\ Before(e) \in SUBSET Before(a)
    BY <1>3, <1>7, <2>1
  <2>3. IsFiniteSet(Before(a))
    BY <1>2, <2>2, FS_Subset
  <2>4. Cardinality(Before(e)) <= Cardinality(Before(a)) /\ IsFiniteSet(Before(e))
    BY <2>2, <2>3, FS_Subset
  <2>5. Cardinality(Before(e)) \in Nat /\ Cardinality(Before(a)) \in Nat
    BY <2>3, <2>4, FS_CardinalityType
  <2>6. Cardinality(Before(e)) < BatchLimit
    BY <2>1, <2>4, <2>5, Bounds
  <2> QED
    BY <2>6 DEF PendingBatch
<1>8. PendingBatch(d) \subseteq Pending(d)
  BY DEF PendingBatch
<1> QED
  BY <1>1, <1>6, <1>7, <1>8
-----------------------------------------------------------------------------
(* The initial state.                                                      *)

LEMMA SystemInit == Init => SystemInv
<1> SUFFICES ASSUME Init PROVE SystemInv
  OBVIOUS
<1>1. /\ log = [d \in Device |-> {}] /\ rows = [d \in Device |-> {}]
      /\ cursor = [d \in Device |-> 0] /\ pushCursor = [d \in Device |-> 0]
      /\ engine = [d \in Device |-> Idle] /\ slot = [d \in Device |-> NoSlot]
      /\ ledger = {} /\ push = [h \in Handler |-> NoCall]
  BY DEF Init, DeviceInit, CloudInit
<1>2. \A d \in Device : Own(d) = {} /\ Made(d) = {}
  BY <1>1 DEF Own, Made
<1>3. IInv
  BY InitInv DEF Init
<1>4. SystemTypeOK
  BY <1>1, <1>3 DEF IInv, SystemTypeOK, Idle, Engine
<1>5. Logs
  BY <1>1, <1>2, FS_EmptySet DEF Logs
<1>6. Waiting
  BY <1>1 DEF Waiting
<1>7. Calls
  BY <1>1 DEF Calls, CallInv, NoCall
<1>8. LedgerIsMade /\ CausalOrder
  BY <1>1 DEF LedgerIsMade, CausalOrder
<1>9. AckedIsCovered
  BY <1>2 DEF AckedIsCovered
<1>10. Pulls
  BY <1>1 DEF Pulls, PullInv, Reached, Idle
<1> QED
  BY <1>3, <1>4, <1>5, <1>6, <1>7, <1>8, <1>9, <1>10 DEF SystemInv

-----------------------------------------------------------------------------
(* What a step may do to a log, and what stays true when only that happens. *)

\* A log keeps what it has, and no change a device makes comes before one it has made.
LogGrows(d) ==
  /\ Made(d) \subseteq Made(d)'
  /\ Recorded(d) \subseteq Recorded(d)'
  /\ \A c \in Made(d), e \in Made(d)' \ Made(d) : ~(e.n < c.n)

LogsGrow == \A d \in Device : LogGrows(d)

\* A log with the same rows but for their status.
LEMMA SameRowsGrow ==
  ASSUME NEW d \in Device, Made(d)' = Made(d), Recorded(d)' = Recorded(d)
  PROVE  LogGrows(d)
BY DEF LogGrows

LEMMA SameLogGrows ==
  ASSUME NEW d \in Device, log'[d] = log[d]
  PROVE  /\ Own(d)' = Own(d) /\ Made(d)' = Made(d)
         /\ Recorded(d)' = Recorded(d) /\ LogGrows(d)
BY DEF LogGrows, Own, Made, Recorded

LEMMA UnchangedLogs ==
  ASSUME log' = log
  PROVE  /\ LogsGrow
         /\ \A d : Own(d)' = Own(d) /\ Made(d)' = Made(d) /\ Recorded(d)' = Recorded(d)
BY DEF LogsGrow, LogGrows, Own, Made, Recorded

\* What the ledger covers stays covered.
LEMMA CoveredStays ==
  ASSUME ledger \subseteq ledger', NEW c, Covered(c)
  PROVE  Covered(c)'
BY DEF Covered, Stored

\* A call is undisturbed by logs and a ledger that grow.
LEMMA CallStays ==
  ASSUME SystemTypeOK, LogsGrow, ledger \subseteq ledger', NEW h \in Handler, CallInv(h),
         push'[h] = push[h]
  PROVE  CallInv(h)'
<1> DEFINE d == DeviceOf[h]
<1>1. d \in Device
  BY CloudAssumption
<1>2. Made(d) \subseteq Made(d)' /\ \A c \in Made(d), e \in Made(d)' \ Made(d) : ~(e.n < c.n)
  BY <1>1 DEF LogsGrow, LogGrows
<1>3. ASSUME NEW c \in push'[h].req, NEW e \in Made(d)', e.n < c.n
      PROVE  e \in push'[h].req \/ Covered(e)'
  <2>1. c \in Made(d) /\ c \in push[h].req
    BY <1>3 DEF CallInv
  <2>2. e \in Made(d)
    BY <1>2, <1>3, <2>1
  <2>3. e \in push[h].req \/ Covered(e)
    BY <1>3, <2>1, <2>2 DEF CallInv
  <2> QED
    BY <2>3, CoveredStays
<1> QED
  BY <1>2, <1>3 DEF CallInv

\* The ledger stays causal as long as it gets no rows.
LEMMA CausalStays ==
  ASSUME SystemTypeOK, LogsGrow, ledger' = ledger, LedgerIsMade, CausalOrder
  PROVE  LedgerIsMade' /\ CausalOrder'
<1>1. \A r \in ledger : r.chg.dev \in Device
  BY DEF SystemTypeOK, TypeOK, Row, Change
<1>2. LedgerIsMade'
  BY <1>1 DEF LedgerIsMade, LogsGrow, LogGrows
<1>3. ASSUME NEW r \in ledger', NEW own \in Own(r.chg.dev)', own.chg.n < r.chg.n
      PROVE  Covered(own.chg)'
  <2> DEFINE d == r.chg.dev
  <2>1. d \in Device /\ r \in ledger /\ r.chg \in Made(d)
    BY <1>1, <1>3 DEF LedgerIsMade
  <2>2. own.chg \in Made(d)'
    BY DEF Made
  <2>3. own.chg \in Made(d)
    BY <1>3, <2>1, <2>2 DEF LogsGrow, LogGrows
  <2>4. PICK o \in Own(d) : o.chg = own.chg
    BY <2>3 DEF Made
  <2>5. Covered(own.chg)
    BY <1>3, <2>1, <2>4 DEF CausalOrder
  <2> QED
    BY <2>5, CoveredStays
<1>4. CausalOrder'
  BY <1>3 DEF CausalOrder
<1> QED
  BY <1>2, <1>4

\* What was pushed stays covered, if only pending rows are added.
LEMMA AckedStays ==
  ASSUME ledger \subseteq ledger', AckedIsCovered,
         \A d \in Device : \A r \in Own(d)' : r \in Own(d) \/ r.status = "pending"
  PROVE  AckedIsCovered'
<1> SUFFICES ASSUME NEW d \in Device, NEW r \in Own(d)', r.status # "pending"
             PROVE  Covered(r.chg)'
  BY DEF AckedIsCovered
<1>1. r \in Own(d) /\ Covered(r.chg)
  BY DEF AckedIsCovered
<1> QED
  BY <1>1, CoveredStays

\* A pull is undisturbed by a log that grows, and so is its end.
LEMMA PullStays ==
  ASSUME NEW d \in Device, PullInv(d), ledger' = ledger, cursor'[d] = cursor[d],
         Recorded(d) \subseteq Recorded(d)',
         \/ engine'[d].stream = engine[d].stream /\ engine'[d].max = engine[d].max
         \/ engine'[d] = Idle
         \/ engine'[d].stream = {} /\ engine'[d].max = 0,
         SystemTypeOK, LedgerIsMade
  PROVE  PullInv(d)'
<1>1. \A n : Reached(d, n) => Reached(d, n)'
  BY DEF Reached, Late
<1>2. Reached(d, 0)'
  <2>1. \A r \in ledger : r.seq \in Nat /\ ~(r.seq <= 0)
    BY DEF SystemTypeOK, TypeOK, Row, LedgerIsMade
  <2> QED
    BY <2>1 DEF Reached
<1> QED
  BY <1>1, <1>2 DEF PullInv, Idle, Late, EventOf

-----------------------------------------------------------------------------
(* Edits.                                                                  *)

\* A change that is recorded looks like a change of its device.
LEMMA NewChangeIsMade ==
  ASSUME SystemTypeOK, Logs, NEW d \in Device, NEW k \in Nat, Room(d, k),
         NEW type \in {"sale", "stock_movement", "stock"}, NEW eid \in Nat,
         NEW op \in Operation, NEW val \in Value, NEW extra \in Value \cup {Null},
         NEW ts \in Nat
  PROVE  /\ MadeBy(d, NewChange(d, k, type, eid, op, Pay(val, extra), ts))
         /\ NewChange(d, k, type, eid, op, Pay(val, extra), ts).n = NextSequence(d) + k
<1> DEFINE n == NextSequence(d) + k
           pay == Pay(val, extra)
           c == NewChange(d, k, type, eid, op, pay, ts)
<1>1. n \in Nat \ {0} /\ n \in 1 .. MaxChanges[d]
  BY NextSequenceFresh, Bounds DEF Room
<1>2. Uuid[d][n] \in Nat
  <2>1. Uuid[d] \in [1 .. MaxChanges[d] -> Nat]
    BY Uuids
  <2> HIDE DEF n
  <2> QED
    BY <1>1, <2>1
<1>3. Field = {"val", "extra"}
  BY DeviceAssumption
<1>4. pay \in [Field -> Value \cup {Null}] /\ pay["val"] = val
  BY <1>3 DEF Pay
<1> HIDE DEF n, pay
<1>5. c = [id |-> Uuid[d][n], dev |-> d, n |-> n, type |-> type, eid |-> eid,
           op |-> op, pay |-> pay, ts |-> ts]
  BY DEF NewChange, n
<1>6. type \in EntityType
  BY DEF EntityType
<1>7. c \in Change
  BY <1>1, <1>2, <1>4, <1>5, <1>6 DEF Change, Payload
<1>8. MadeBy(d, c) /\ c.n = n
  BY <1>1, <1>4, <1>5, <1>7 DEF MadeBy
<1> QED
  BY <1>8 DEF n, pay

\* What recording changes does to a log.
LEMMA RecordEffect ==
  ASSUME SystemTypeOK, Logs, NEW d \in Device, NEW changes, IsFiniteSet(changes),
         \A c \in changes : MadeBy(d, c) /\ NextSequence(d) <= c.n,
         \A c, e \in changes : c.n = e.n => c = e,
         Record(d, changes)
  PROVE  /\ log' \in [Device -> SUBSET LogRow] /\ IsFiniteSet(log'[d])
         /\ \A e \in Device \ {d} : log'[e] = log[e]
         /\ \A r \in Own(d)' : r \in Own(d) \/ r.status = "pending"
         /\ Made(d)' = Made(d) \cup changes
         /\ Recorded(d) \subseteq Recorded(d)'
<1> DEFINE row(c) == [pos |-> 1 + Cardinality(log[d]) + c.n - NextSequence(d), chg |-> c,
                      status |-> "pending"]
           new == {row(c) : c \in changes}
<1>1. /\ log' = [log EXCEPT ![d] = log[d] \cup new]
      /\ log \in [Device -> SUBSET LogRow]
  BY DEF Record, SystemTypeOK
<1>2. /\ log'[d] = log[d] \cup new
      /\ \A e \in Device \ {d} : log'[e] = log[e]
  BY <1>1
<1>3. IsFiniteSet(log[d]) /\ Cardinality(log[d]) \in Nat
  BY FS_CardinalityType DEF Logs
<1>4. NextSequence(d) \in Nat \ {0}
  BY NextSequenceFresh
<1>5. ASSUME NEW c \in changes
      PROVE  /\ row(c) \in LogRow /\ row(c).chg = c /\ row(c).status = "pending"
             /\ c.dev = d
  <2>1. c \in Change /\ c.dev = d /\ c.n \in Nat /\ NextSequence(d) <= c.n
    BY DEF MadeBy
  <2>2. 1 + Cardinality(log[d]) + c.n - NextSequence(d) \in Nat
    BY <1>3, <1>4, <2>1
  <2> QED
    BY <2>1, <2>2 DEF LogRow
<1>6. IsFiniteSet(new)
  <2> DEFINE f == [c \in changes |-> row(c)]
  <2>1. f \in Surjection(changes, new)
    BY DEF Surjection
  <2> QED
    BY <2>1, FS_Surjection
<1>8. \A r \in new : r \in LogRow /\ r.status = "pending" /\ r.chg \in changes /\ r.chg.dev = d
  BY <1>5
<1>9. \A c \in changes : \E r \in new : r.chg = c
  BY <1>5
<1> HIDE DEF new
<1>7. IsFiniteSet(log'[d])
  <2>1. IsFiniteSet(log[d] \cup new)
    BY <1>3, <1>6, FS_Union
  <2> QED
    BY <1>2, <2>1
<1>10. Own(d)' = Own(d) \cup new
  BY <1>2, <1>8 DEF Own
<1>11. Made(d)' = Made(d) \cup changes
  BY <1>8, <1>9, <1>10 DEF Made
<1>12. Recorded(d) \subseteq Recorded(d)'
  BY <1>2 DEF Recorded
<1>13. log' \in [Device -> SUBSET LogRow]
  BY <1>1, <1>8
<1> QED
  BY <1>2, <1>7, <1>8, <1>10, <1>11, <1>12, <1>13

\* An edit adds pending changes to the log of its device and keeps its tables typed.
EditEffect(d) ==
  /\ log' \in [Device -> SUBSET LogRow] /\ IsFiniteSet(log'[d])
  /\ rows' \in [Device -> SUBSET BusinessRow] /\ IsFiniteSet(rows'[d])
  /\ \A e \in Device \ {d} : log'[e] = log[e] /\ rows'[e] = rows[e]
  /\ \A r \in Own(d)' : r \in Own(d) \/ r.status = "pending"
  /\ Made(d) \subseteq Made(d)'
  /\ \A c \in Made(d)' \ Made(d) : MadeBy(d, c) /\ NextSequence(d) <= c.n
  /\ \A c, e \in Made(d)' \ Made(d) : c.n = e.n => c = e
  /\ Recorded(d) \subseteq Recorded(d)'
  /\ UNCHANGED <<cursor, pushCursor, engine>>

\* Recording one change, or two.
LEMMA RecordOne ==
  ASSUME SystemTypeOK, Logs, NEW d \in Device, NEW c, MadeBy(d, c), NextSequence(d) <= c.n,
         Record(d, {c}), NEW table, table \subseteq BusinessRow, IsFiniteSet(table),
         rows' = [rows EXCEPT ![d] = table], UNCHANGED <<cursor, pushCursor, engine>>
  PROVE  EditEffect(d)
<1>1. IsFiniteSet({c})
  BY FS_Singleton
<1>2. /\ log' \in [Device -> SUBSET LogRow] /\ IsFiniteSet(log'[d])
      /\ \A e \in Device \ {d} : log'[e] = log[e]
      /\ \A r \in Own(d)' : r \in Own(d) \/ r.status = "pending"
      /\ Made(d)' = Made(d) \cup {c}
      /\ Recorded(d) \subseteq Recorded(d)'
  BY <1>1, RecordEffect
<1>3. /\ rows' \in [Device -> SUBSET BusinessRow] /\ rows'[d] = table
      /\ \A e \in Device \ {d} : rows'[e] = rows[e]
  BY DEF SystemTypeOK
<1> QED
  BY <1>2, <1>3 DEF EditEffect

LEMMA RecordTwo ==
  ASSUME SystemTypeOK, Logs, NEW d \in Device, NEW a, MadeBy(d, a), NextSequence(d) <= a.n,
         NEW b, MadeBy(d, b), NextSequence(d) <= b.n, a.n # b.n,
         Record(d, {a} \cup {b}), NEW table, table \subseteq BusinessRow, IsFiniteSet(table),
         rows' = [rows EXCEPT ![d] = table], UNCHANGED <<cursor, pushCursor, engine>>
  PROVE  EditEffect(d)
<1>1. IsFiniteSet({a} \cup {b})
  BY FS_Singleton, FS_Union
<1>2. /\ log' \in [Device -> SUBSET LogRow] /\ IsFiniteSet(log'[d])
      /\ \A e \in Device \ {d} : log'[e] = log[e]
      /\ \A r \in Own(d)' : r \in Own(d) \/ r.status = "pending"
      /\ Made(d)' = Made(d) \cup ({a} \cup {b})
      /\ Recorded(d) \subseteq Recorded(d)'
  BY <1>1, RecordEffect
<1>3. /\ rows' \in [Device -> SUBSET BusinessRow] /\ rows'[d] = table
      /\ \A e \in Device \ {d} : rows'[e] = rows[e]
  BY DEF SystemTypeOK
<1> QED
  BY <1>2, <1>3 DEF EditEffect

\* Table d with another row, or with one replaced by another.
LEMMA Tables ==
  ASSUME SystemTypeOK, Logs, NEW d \in Device
  PROVE  /\ \A type : NextEid(d, type) \in Nat
         /\ \A new \in BusinessRow :
              /\ rows[d] \cup {new} \subseteq BusinessRow /\ IsFiniteSet(rows[d] \cup {new})
         /\ \A old, new : new \in BusinessRow =>
              /\ (rows[d] \ {old}) \cup {new} \subseteq BusinessRow
              /\ IsFiniteSet((rows[d] \ {old}) \cup {new})
<1>1. rows[d] \subseteq BusinessRow /\ IsFiniteSet(rows[d])
  BY DEF SystemTypeOK, Logs
<1>2. ASSUME NEW type PROVE NextEid(d, type) \in Nat
  <2> DEFINE S == {r \in rows[d] : r.type = type}
  <2>1. IsFiniteSet(S)
    BY <1>1, FS_Subset
  <2>2. Cardinality(S) \in Nat
    BY <2>1, FS_CardinalityType
  <2> QED
    BY <2>2 DEF NextEid
<1>3. ASSUME NEW new PROVE IsFiniteSet(rows[d] \cup {new})
  BY <1>1, FS_AddElement
<1>4. ASSUME NEW old, NEW new PROVE IsFiniteSet((rows[d] \ {old}) \cup {new})
  <2>1. IsFiniteSet(rows[d] \ {old})
    BY <1>1, FS_Subset
  <2> QED
    BY <2>1, FS_AddElement
<1> QED
  BY <1>1, <1>2, <1>3, <1>4

LEMMA Values ==
  /\ "Draft" \in Value /\ "Hold" \in Value /\ "Cancelled" \in Value
  /\ "items" \in Value /\ "camelCase" \in Value /\ Quantity \subseteq Value
BY DeviceAssumption DEF SaleStatus, Quantity

LEMMA Literals ==
  /\ 0 \in Nat /\ 1 \in Nat /\ "INSERT" \in Operation /\ "UPDATE" \in Operation
  /\ "sale" \in {"sale", "stock_movement", "stock"}
  /\ "stock_movement" \in {"sale", "stock_movement", "stock"}
  /\ "stock" \in {"sale", "stock_movement", "stock"}
BY DEF Operation

LEMMA DraftSaleEffect ==
  ASSUME SystemTypeOK, Logs, NEW d \in Device, NEW at \in Nat, NEW ts \in Nat,
         DraftSale(d, at, ts)
  PROVE  EditEffect(d)
<1> DEFINE eid == NextEid(d, "sale")
           c == NewChange(d, 0, "sale", eid, "INSERT", Pay("Draft", "items"), ts)
           new == [type |-> "sale", eid |-> eid, val |-> "Draft", ts |-> at]
<1>1. /\ Room(d, 0) /\ Record(d, {c})
      /\ rows' = [rows EXCEPT ![d] = rows[d] \cup {new}]
      /\ UNCHANGED <<cursor, pushCursor, engine>>
  BY DEF DraftSale
<1>2. eid \in Nat
  BY Tables
<1> HIDE DEF eid
<1>3. MadeBy(d, c) /\ c.n = NextSequence(d) + 0
  <2>1. "Draft" \in Value /\ "items" \in Value \cup {Null}
    BY Values
  <2> QED
    BY <1>1, <1>2, <2>1, Literals, NewChangeIsMade
<1>4. new \in BusinessRow
  BY <1>2, Values DEF BusinessRow
<1> HIDE DEF c, new
<1>5. NextSequence(d) <= c.n
  BY <1>3, NextSequenceFresh
<1> QED
  BY <1>1, <1>3, <1>4, <1>5, Tables, RecordOne

LEMMA EditSaleEffect ==
  ASSUME SystemTypeOK, Logs, NEW d \in Device, NEW row \in Sales(d), NEW val \in Value,
         NEW extra \in Value \cup {Null}, NEW at \in Nat, NEW ts \in Nat,
         EditSale(d, row, val, extra, at, ts)
  PROVE  EditEffect(d)
<1> DEFINE c == NewChange(d, 0, "sale", row.eid, "UPDATE", Pay(val, extra), ts)
           new == [row EXCEPT !.val = val, !.ts = at]
<1>1. /\ Room(d, 0) /\ Record(d, {c})
      /\ rows' = [rows EXCEPT ![d] = (rows[d] \ {row}) \cup {new}]
      /\ UNCHANGED <<cursor, pushCursor, engine>>
  BY DEF EditSale
<1>2. row \in BusinessRow
  BY DEF Sales, SystemTypeOK
<1>3. MadeBy(d, c) /\ c.n = NextSequence(d) + 0
  <2>1. row.eid \in Nat
    BY <1>2 DEF BusinessRow
  <2> QED
    BY <1>1, <2>1, Literals, NewChangeIsMade
<1>4. new \in BusinessRow
  BY <1>2 DEF BusinessRow
<1> HIDE DEF c, new
<1>5. NextSequence(d) <= c.n
  BY <1>3, NextSequenceFresh
<1>6. (rows[d] \ {row}) \cup {new} \subseteq BusinessRow
      /\ IsFiniteSet((rows[d] \ {row}) \cup {new})
  BY <1>4, Tables
<1> QED
  BY <1>1, <1>3, <1>5, <1>6, RecordOne

\* A movement, with or without the snapshot of the stock row.
LEMMA MoveStockEffect ==
  ASSUME SystemTypeOK, Logs, NEW d \in Device, NEW qty \in Quantity, NEW at \in Nat,
         NEW ts \in Nat, AddStock(d, qty, at, ts) \/ DeductStock(d, qty, at, ts)
  PROVE  EditEffect(d)
<1> DEFINE eid == NextEid(d, "stock_movement")
           c == NewChange(d, 0, "stock_movement", eid, "INSERT", Pay(qty, Null), ts)
           e == NewChange(d, 1, "stock", 1, "UPDATE", Pay(qty, Null), ts)
           new == [type |-> "stock_movement", eid |-> eid, val |-> qty, ts |-> at]
           table == rows[d] \cup {new}
<1>1. eid \in Nat
  BY Tables
<1>2. \/ Room(d, 0) /\ Record(d, {c} \cup {})
      \/ Room(d, 1) /\ Record(d, {c} \cup {e})
  BY DEF AddStock, DeductStock, MoveStock
<1>3. /\ rows' = [rows EXCEPT ![d] = table]
      /\ UNCHANGED <<cursor, pushCursor, engine>>
  BY DEF AddStock, DeductStock, MoveStock
<1>4. Room(d, 0)
  BY <1>2, NextSequenceFresh, Bounds DEF Room
<1> HIDE DEF eid
<1>5. MadeBy(d, c) /\ c.n = NextSequence(d) + 0
  <2>1. qty \in Value /\ Null \in Value \cup {Null}
    BY Values
  <2> QED
    BY <1>1, <1>4, <2>1, Literals, NewChangeIsMade
<1>6. Room(d, 1) => MadeBy(d, e) /\ e.n = NextSequence(d) + 1
  <2>1. qty \in Value /\ Null \in Value \cup {Null}
    BY Values
  <2> QED
    BY <2>1, Literals, NewChangeIsMade
<1>7. new \in BusinessRow
  BY <1>1, Values DEF BusinessRow
<1>8. table \subseteq BusinessRow /\ IsFiniteSet(table)
  BY <1>7, Tables
<1> HIDE DEF c, e, new, table
<1>9. CASE Record(d, {c} \cup {})
  <2>1. {c} \cup {} = {c} /\ NextSequence(d) <= c.n
    BY <1>5, NextSequenceFresh
  <2> QED
    BY <1>3, <1>5, <1>8, <1>9, <2>1, RecordOne
<1>10. CASE Room(d, 1) /\ Record(d, {c} \cup {e})
  <2>1. NextSequence(d) <= c.n /\ NextSequence(d) <= e.n /\ c.n # e.n
    BY <1>5, <1>6, <1>10, NextSequenceFresh
  <2> QED
    BY <1>3, <1>5, <1>6, <1>8, <1>10, <2>1, RecordTwo
<1> QED
  BY <1>2, <1>9, <1>10

LEMMA LocalEditEffect ==
  ASSUME SystemTypeOK, Logs, NEW d \in Device, LocalEdit(d)
  PROVE  EditEffect(d)
<1>1. Clock[d] \subseteq Nat
  BY DeviceAssumption
<1>2. PICK at \in Nat, ts \in Nat :
        \/ DraftSale(d, at, ts)
        \/ \E row \in Sales(d) : UpdateSale(d, row, at, ts) \/ CancelSale(d, row, at, ts)
        \/ \E qty \in Quantity : AddStock(d, qty, at, ts) \/ DeductStock(d, qty, at, ts)
  BY <1>1 DEF LocalEdit
<1>3. CASE DraftSale(d, at, ts)
  BY <1>3, DraftSaleEffect
<1>4. ASSUME NEW row \in Sales(d), UpdateSale(d, row, at, ts)
      PROVE  EditEffect(d)
  BY <1>4, Values, EditSaleEffect DEF UpdateSale
<1>5. ASSUME NEW row \in Sales(d), CancelSale(d, row, at, ts)
      PROVE  EditEffect(d)
  BY <1>5, Values, EditSaleEffect DEF CancelSale
<1>6. ASSUME NEW qty \in Quantity, AddStock(d, qty, at, ts) \/ DeductStock(d, qty, at, ts)
      PROVE  EditEffect(d)
  BY <1>6, MoveStockEffect
<1> QED
  BY <1>2, <1>3, <1>4, <1>5, <1>6

LEMMA EditInv ==
  ASSUME SystemInv, NEW d \in Device, Edit(d)
  PROVE  SystemInv'
<1>1. /\ EditEffect(d)
      /\ UNCHANGED <<ledger, serial, commits, push, faults, slot>>
  BY LocalEditEffect DEF SystemInv, Edit, cloudVars
<1>2. \A e \in Device \ {d} : log'[e] = log[e] /\ rows'[e] = rows[e]
  BY <1>1 DEF EditEffect
<1>3. \A e \in Device \ {d} :
        /\ Own(e)' = Own(e) /\ Made(e)' = Made(e) /\ Recorded(e)' = Recorded(e) /\ LogGrows(e)
  BY <1>2, SameLogGrows
<1>4. IInv'
  BY <1>1 DEF SystemInv, IInv, TypeOK, Numbers, UniqueRows, LedgerIdsOnce, Authors, Winners,
              ForksOverlap, NoOldRival, Answers, InWork, Covered, Stored, NotDropped
<1>5. SystemTypeOK'
  BY <1>1, <1>4 DEF EditEffect, SystemInv, SystemTypeOK, IInv
<1>6. Logs'
  <2>1. ASSUME NEW c \in Made(d)', NEW e \in Made(d)', c.n = e.n
        PROVE  c = e
    <3>1. \A x \in Made(d) : x.n \in Nat /\ x.n < NextSequence(d)
      BY NextSequenceFresh DEF SystemInv, Logs, MadeBy
    <3>2. \A x \in Made(d)' \ Made(d) : x.n \in Nat /\ NextSequence(d) <= x.n
      BY <1>1 DEF EditEffect, MadeBy
    <3>3. NextSequence(d) \in Nat
      BY NextSequenceFresh DEF SystemInv
    <3>4. (c \in Made(d) /\ e \in Made(d)) \/ (c \notin Made(d) /\ e \notin Made(d))
      BY <2>1, <3>1, <3>2, <3>3
    <3> QED
      BY <1>1, <2>1, <3>4 DEF EditEffect, SystemInv, Logs
  <2>2. \A c \in Made(d)' : MadeBy(d, c)
    BY <1>1 DEF EditEffect, SystemInv, Logs
  <2> QED
    BY <1>1, <1>2, <1>3, <2>1, <2>2 DEF EditEffect, SystemInv, Logs
<1>7. LogsGrow
  <2>1. LogGrows(d)
    <3>1. \A c \in Made(d) : c.n \in Nat /\ c.n < NextSequence(d)
      BY NextSequenceFresh DEF SystemInv, Logs, MadeBy
    <3>2. \A e \in Made(d)' \ Made(d) : e.n \in Nat /\ NextSequence(d) <= e.n
      BY <1>1 DEF EditEffect, MadeBy
    <3>3. NextSequence(d) \in Nat
      BY NextSequenceFresh DEF SystemInv
    <3>4. \A c \in Made(d), e \in Made(d)' \ Made(d) : ~(e.n < c.n)
      BY <3>1, <3>2, <3>3
    <3> QED
      BY <1>1, <3>4 DEF LogGrows, EditEffect
  <2> QED
    BY <1>3, <2>1 DEF LogsGrow
<1>8. Waiting'
  BY <1>1 DEF EditEffect, SystemInv, Waiting
<1>9. Calls'
  BY <1>1, <1>7, CallStays DEF SystemInv, Calls
<1>10. LedgerIsMade' /\ CausalOrder'
  BY <1>1, <1>7, CausalStays DEF SystemInv
<1>11. AckedIsCovered'
  BY <1>1, <1>3, AckedStays DEF SystemInv, EditEffect
<1>12. Pulls'
  BY <1>1, <1>7, PullStays DEF EditEffect, SystemInv, Pulls, LogsGrow, LogGrows
<1> QED
  BY <1>4, <1>5, <1>6, <1>8, <1>9, <1>10, <1>11, <1>12 DEF SystemInv

-----------------------------------------------------------------------------
(* The engine and its calls, as far as no table changes.                   *)

\* The service is not touched, but a failure may be counted.
LEMMA ServiceStays ==
  ASSUME IInv, UNCHANGED <<ledger, serial, commits, push>>, faults' \in Nat
  PROVE  IInv'
BY DEF IInv, TypeOK, Numbers, UniqueRows, LedgerIdsOnce, Authors, Winners, ForksOverlap,
       NoOldRival, Answers, InWork, Covered, Stored, NotDropped

LEMMA FaultIsNat == ASSUME SystemInv, Fault PROVE faults' \in Nat
BY DEF SystemInv, IInv, TypeOK, Fault

\* What is left to show of a step that changes engines, calls and slots.
LEMMA EngineStep ==
  ASSUME SystemInv, UNCHANGED <<log, rows, cursor, pushCursor, ledger>>,
         engine' \in [Device -> Engine], slot' \in [Device -> Handler \cup {NoSlot}],
         IInv', Waiting', Calls', Pulls'
  PROVE  SystemInv'
<1>1. LogsGrow /\ \A d : Own(d)' = Own(d) /\ Made(d)' = Made(d)
  BY UnchangedLogs
<1>2. SystemTypeOK'
  BY DEF SystemInv, SystemTypeOK, IInv
<1>3. Logs'
  BY <1>1 DEF SystemInv, Logs
<1>4. LedgerIsMade' /\ CausalOrder'
  BY <1>1, CausalStays DEF SystemInv
<1>5. AckedIsCovered'
  BY <1>1, AckedStays DEF SystemInv
<1> QED
  BY <1>2, <1>3, <1>4, <1>5 DEF SystemInv

\* Idle engines and engines at work are engines.
LEMMA IdleEngine ==
  /\ Idle \in Engine
  /\ Idle.phase = "idle" /\ Idle.batch = {} /\ Idle.stream = {} /\ Idle.max = 0
BY DEF Idle, Engine

\* One engine turns to a state without a stream: no pull is disturbed.
LEMMA PullsStay ==
  ASSUME SystemInv, UNCHANGED <<log, cursor, ledger>>,
         \A d \in Device : \/ engine'[d] = engine[d]
                           \/ engine'[d].stream = {} /\ engine'[d].max = 0
  PROVE  Pulls'
<1>1. \A d : Recorded(d)' = Recorded(d)
  BY UnchangedLogs
<1>2. ASSUME NEW d \in Device PROVE PullInv(d)'
  BY <1>1, PullStays DEF SystemInv, Pulls
<1> QED
  BY <1>2 DEF Pulls

\* A push takes everything pending before its last change along.
LEMMA StartPushInv ==
  ASSUME SystemInv, NEW d \in Device, StartPush(d)
  PROVE  SystemInv'
<1> DEFINE batch == PendingBatch(d)
           e == [Idle EXCEPT !.phase = "pushing", !.batch = batch]
<1>1. PICK h \in Handler :
        DeviceOf[h] = d /\ PushBatch(h, batch) /\ slot' = [slot EXCEPT ![d] = h]
  BY DEF StartPush
<1>2. /\ Pending(d) # {} /\ engine[d].phase = "idle"
      /\ engine' = [engine EXCEPT ![d] = e]
      /\ UNCHANGED <<log, rows, cursor, pushCursor, faults>>
  BY DEF StartPush, StartCycle
<1>3. /\ push[h].pc = "idle"
      /\ push' = [push EXCEPT ![h] = [NoCall EXCEPT !.pc = "serving", !.req = batch,
                                                   !.todo = batch, !.seen = commits]]
      /\ UNCHANGED <<ledger, serial, commits>>
  BY <1>1 DEF PushBatch
<1>4. /\ batch \subseteq Pending(d) /\ batch # {} /\ Pending(d) \subseteq Made(d)
      /\ \A c \in batch, x \in Pending(d) : x.n < c.n => x \in batch
  BY <1>2, BatchIsPrefix DEF SystemInv
<1>5. batch \in SUBSET Change
  BY <1>4 DEF SystemInv, Logs, MadeBy
<1> HIDE DEF batch
<1>6. push \in [Handler -> Call] /\ faults \in Nat
  BY DEF SystemInv, IInv, TypeOK
<1>7. /\ push'[h].pc = "serving" /\ push'[h].req = batch /\ push'[h].todo = batch
      /\ push'[h].accept = {} /\ push'[h].rows = {} /\ push'[h].conflicts = {}
      /\ \A g \in Handler \ {h} : push'[g] = push[g]
  BY <1>3, <1>6 DEF NoCall
<1>8. /\ e \in Engine /\ e.phase = "pushing" /\ e.batch = batch /\ e.stream = {} /\ e.max = 0
  BY <1>5 DEF Idle, Engine
<1> HIDE DEF e
<1>9. /\ engine' \in [Device -> Engine] /\ engine'[d] = e
      /\ \A x \in Device \ {d} : engine'[x] = engine[x]
  BY <1>2, <1>8 DEF SystemInv, SystemTypeOK
<1>10. IInv'
  BY <1>1, <1>2, <1>5, <1>6, PushBatchInv DEF SystemInv
<1>11. /\ slot' \in [Device -> Handler \cup {NoSlot}] /\ slot'[d] = h
       /\ \A x \in Device \ {d} : slot'[x] = slot[x]
  BY <1>1 DEF SystemInv, SystemTypeOK
<1>12. Waiting'
  <2>1. ASSUME NEW x \in Device \ {d}, slot[x] # NoSlot
        PROVE  slot[x] # h /\ slot[x] \in Handler
    BY <1>3, <2>1 DEF SystemInv, SystemTypeOK, Waiting
  <2>2. \A x \in Device \ {d} : slot[x] # NoSlot => push'[slot[x]] = push[slot[x]]
    BY <1>7, <2>1
  <2> QED
    BY <1>1, <1>4, <1>7, <1>8, <1>9, <1>11, <2>2 DEF SystemInv, Waiting
<1>13. ASSUME NEW c \in batch, NEW x \in Made(d), x.n < c.n
       PROVE  x \in batch \/ Covered(x)
  <2>1. PICK r \in Own(d) : r.chg = x
    BY DEF Made
  <2>2. CASE r.status = "pending"
    BY <1>4, <1>13, <2>1, <2>2 DEF Pending
  <2>3. CASE r.status # "pending"
    BY <2>1, <2>3 DEF SystemInv, AckedIsCovered
  <2> QED
    BY <2>2, <2>3
<1>14. LogsGrow /\ Made(d)' = Made(d)
  BY <1>2, UnchangedLogs
<1>15. Calls'
  <2>1. CallInv(h)'
    <3>1. \A x : Covered(x)' <=> Covered(x)
      BY <1>3 DEF Covered, Stored
    <3> QED
      BY <1>1, <1>4, <1>7, <1>13, <1>14, <3>1 DEF CallInv
  <2>2. \A g \in Handler \ {h} : CallInv(g)'
    BY <1>3, <1>7, <1>14, CallStays DEF SystemInv, Calls
  <2> QED
    BY <2>1, <2>2 DEF Calls
<1>16. Pulls'
  BY <1>2, <1>3, <1>8, <1>9, PullsStay
<1> QED
  BY <1>2, <1>3, <1>9, <1>10, <1>11, <1>12, <1>15, <1>16, EngineStep

\* Nothing is pending: the engine turns to the pull.
LEMMA SkipPushInv ==
  ASSUME SystemInv, NEW d \in Device, SkipPush(d)
  PROVE  SystemInv'
<1> DEFINE e == [Idle EXCEPT !.phase = "pull"]
<1>1. /\ engine[d].phase = "idle" /\ engine' = [engine EXCEPT ![d] = e]
      /\ UNCHANGED <<log, rows, cursor, pushCursor, ledger, serial, commits, push, faults, slot>>
  BY DEF SkipPush, StartCycle, cloudVars
<1>2. e \in Engine /\ e.stream = {} /\ e.max = 0
  BY DEF Idle, Engine
<1> HIDE DEF e
<1>3. /\ engine' \in [Device -> Engine] /\ engine'[d] = e
      /\ \A x \in Device \ {d} : engine'[x] = engine[x]
  BY <1>1, <1>2 DEF SystemInv, SystemTypeOK
<1>4. IInv'
  BY <1>1, ServiceStays DEF SystemInv, IInv, TypeOK
<1>5. slot[d] = NoSlot
  BY <1>1 DEF SystemInv, Waiting
<1>6. Waiting'
  BY <1>1, <1>3, <1>5 DEF SystemInv, Waiting
<1>7. Calls'
  BY <1>1, UnchangedLogs, CallStays DEF SystemInv, Calls
<1>8. Pulls'
  BY <1>1, <1>2, <1>3, PullsStay
<1>9. slot' \in [Device -> Handler \cup {NoSlot}]
  BY <1>1 DEF SystemInv, SystemTypeOK
<1> QED
  BY <1>1, <1>3, <1>4, <1>6, <1>7, <1>8, <1>9, EngineStep

\* A call ends.
LEMMA CallEnds ==
  ASSUME SystemInv, LogsGrow, NEW h \in Handler, push' = [push EXCEPT ![h] = NoCall],
         UNCHANGED <<ledger, serial, commits>>, faults' \in Nat
  PROVE  IInv' /\ Calls'
<1>1. IInv'
  BY ClearInv DEF SystemInv
<1>2. push'[h] = NoCall /\ \A g \in Handler \ {h} : push'[g] = push[g]
  BY DEF SystemInv, IInv, TypeOK
<1>3. CallInv(h)'
  BY <1>2 DEF CallInv, NoCall
<1>4. \A g \in Handler \ {h} : CallInv(g)'
  BY <1>2, CallStays DEF SystemInv, Calls
<1> QED
  BY <1>1, <1>3, <1>4 DEF Calls

\* An engine gives up its cycle.
LEMMA BreakInv ==
  ASSUME SystemInv, NEW d \in Device, Break(d)
  PROVE  SystemInv'
<1>1. /\ engine' = [engine EXCEPT ![d] = Idle] /\ slot' = [slot EXCEPT ![d] = NoSlot]
      /\ UNCHANGED <<log, rows, cursor, pushCursor, ledger, serial, commits, push>>
      /\ faults' \in Nat
  BY FaultIsNat DEF Break, CycleAborts
<1>2. /\ engine' \in [Device -> Engine] /\ engine'[d] = Idle
      /\ slot' \in [Device -> Handler \cup {NoSlot}] /\ slot'[d] = NoSlot
      /\ \A x \in Device \ {d} : engine'[x] = engine[x] /\ slot'[x] = slot[x]
  BY <1>1, IdleEngine DEF SystemInv, SystemTypeOK
<1>3. IInv'
  BY <1>1, ServiceStays DEF SystemInv
<1>4. Waiting'
  BY <1>1, <1>2 DEF SystemInv, Waiting
<1>5. Calls'
  BY <1>1, UnchangedLogs, CallStays DEF SystemInv, Calls
<1>6. Pulls'
  BY <1>1, <1>2, IdleEngine, PullsStay
<1> QED
  BY <1>1, <1>2, <1>3, <1>4, <1>5, <1>6, EngineStep

\* A transaction fails; the device, if it waits, hears of it.
LEMMA FailInv ==
  ASSUME SystemInv, NEW h \in Handler, Fail(h)
  PROVE  SystemInv'
<1> DEFINE d == DeviceOf[h]
<1>1. /\ push' = [push EXCEPT ![h] = NoCall] /\ UNCHANGED <<ledger, serial, commits>>
      /\ faults' \in Nat
  BY FaultIsNat DEF Fail, Rollback
<1>2. UNCHANGED <<log, rows, cursor, pushCursor>> /\ d \in Device
  BY CloudAssumption DEF Fail, CycleAborts, deviceVars
<1>3. \A x \in Device \ {d} : slot[x] # h
  BY <1>2, SlotAssumption DEF SystemInv, Waiting
<1>4. /\ engine' \in [Device -> Engine] /\ slot' \in [Device -> Handler \cup {NoSlot}]
      /\ slot'[d] # h
      /\ \A x \in Device : \/ engine'[x] = engine[x] /\ slot'[x] = slot[x]
                           \/ engine'[x] = Idle /\ slot'[x] = NoSlot
  BY <1>2, IdleEngine, SlotAssumption DEF Fail, CycleAborts, deviceVars, SystemInv, SystemTypeOK
<1>5. IInv' /\ Calls'
  BY <1>1, <1>2, UnchangedLogs, CallEnds
<1>6. Waiting'
  <2>1. \A g \in Handler \ {h} : push'[g] = push[g]
    BY <1>1 DEF SystemInv, IInv, TypeOK
  <2>2. ASSUME NEW x \in Device, slot'[x] # NoSlot
        PROVE  slot'[x] = slot[x] /\ engine'[x] = engine[x] /\ push'[slot[x]] = push[slot[x]]
    <3>1. slot'[x] = slot[x] /\ engine'[x] = engine[x]
      BY <1>4, <2>2
    <3>2. slot[x] \in Handler /\ slot[x] # h
      BY <1>3, <1>4, <2>2, <3>1
    <3> QED
      BY <2>1, <3>1, <3>2
  <2> QED
    BY <2>2 DEF SystemInv, Waiting
<1>7. Pulls'
  BY <1>1, <1>2, <1>4, IdleEngine, PullsStay
<1> QED
  BY <1>1, <1>2, <1>4, <1>5, <1>6, <1>7, EngineStep

\* A reply nobody waits for.
LEMMA DropReplyInv ==
  ASSUME SystemInv, NEW h \in Handler, DropReply(h)
  PROVE  SystemInv'
<1>1. /\ push' = [push EXCEPT ![h] = NoCall]
      /\ UNCHANGED <<ledger, serial, commits, log, rows, cursor, pushCursor, engine, slot>>
      /\ slot[DeviceOf[h]] # h
  BY DEF DropReply, EndCall, deviceVars
<1>2. faults' \in Nat
  BY DEF DropReply, SystemInv, IInv, TypeOK
<1>3. IInv' /\ Calls'
  BY <1>1, <1>2, UnchangedLogs, CallEnds
<1>4. Waiting'
  <2>1. \A g \in Handler \ {h} : push'[g] = push[g]
    BY <1>1 DEF SystemInv, IInv, TypeOK
  <2>2. \A x \in Device : slot[x] # NoSlot => slot[x] \in Handler \ {h}
    BY <1>1 DEF SystemInv, SystemTypeOK, Waiting
  <2> QED
    BY <1>1, <2>1, <2>2 DEF SystemInv, Waiting
<1>5. Pulls'
  BY <1>1, PullsStay
<1> QED
  BY <1>1, <1>3, <1>4, <1>5, EngineStep DEF SystemInv, SystemTypeOK

-----------------------------------------------------------------------------
(* The service.                                                            *)

\* A call at work, as far as it does not commit.
CallWorks(h) ==
  /\ UNCHANGED <<ledger, log, rows, cursor, pushCursor, engine, slot>>
  /\ \A g \in Handler \ {h} : push'[g] = push[g]
  /\ push'[h].pc = push[h].pc /\ push'[h].req = push[h].req
  /\ push'[h].todo \subseteq push[h].req /\ push'[h].accept \subseteq push[h].req
  /\ \A r \in push'[h].rows : r.chg \in push[h].req /\ 0 < r.seq
  /\ push'[h].conflicts \subseteq {c.id : c \in push[h].req}

LEMMA CallWorksInv ==
  ASSUME SystemInv, NEW h \in Handler, CallWorks(h), IInv'
  PROVE  SystemInv'
<1>1. \A x : Covered(x)' <=> Covered(x)
  BY DEF CallWorks, Covered, Stored
<1>2. LogsGrow /\ \A d : Made(d)' = Made(d)
  BY UnchangedLogs DEF CallWorks
<1>3. CallInv(h)'
  BY <1>1, <1>2 DEF CallWorks, SystemInv, Calls, CallInv
<1>4. \A g \in Handler \ {h} : CallInv(g)'
  BY <1>2, CallStays DEF CallWorks, SystemInv, Calls
<1>5. Waiting'
  <2>1. \A g \in Handler : push'[g].pc = push[g].pc /\ push'[g].req = push[g].req
    BY DEF CallWorks
  <2> QED
    BY <2>1 DEF CallWorks, SystemInv, SystemTypeOK, Waiting
<1>6. Pulls'
  BY PullsStay DEF CallWorks
<1> QED
  BY <1>3, <1>4, <1>5, <1>6, EngineStep DEF CallWorks, SystemInv, SystemTypeOK, Calls

\* An event is resolved: what is accepted is the event, since no event is merged field by
\* field.
LEMMA ResolveWorks ==
  ASSUME SystemInv, NEW h \in Handler, NEW c \in push[h].todo, NEW current, NEW seen,
         Resolve(h, c, current, seen), UNCHANGED <<deviceVars, slot>>
  PROVE  CallWorks(h)
<1>1. /\ push' = [push EXCEPT
           ![h].todo = @ \ {c},
           ![h].accept = IF Applies(c, current) THEN @ \cup {Merged(c, current)} ELSE @,
           ![h].conflicts = IF Conflicts(c, current) THEN @ \cup {c.id} ELSE @,
           ![h].seen = seen]
      /\ ledger' = ledger /\ push \in [Handler -> Call]
  BY DEF Resolve, SystemInv, IInv, TypeOK
<1>2. CallInv(h) /\ c \in push[h].req /\ c \in Made(DeviceOf[h]) /\ DeviceOf[h] \in Device
  BY CloudAssumption DEF SystemInv, Calls, CallInv
<1>3. c.type \in {"sale", "stock_movement", "stock"}
  BY <1>2 DEF SystemInv, Logs, MadeBy
<1>4. Merged(c, current) = c
  BY <1>3 DEF Merged, Strategy
<1>5. /\ \A g \in Handler \ {h} : push'[g] = push[g]
      /\ push'[h].pc = push[h].pc /\ push'[h].req = push[h].req
      /\ push'[h].rows = push[h].rows
      /\ push'[h].todo \subseteq push[h].todo
      /\ push'[h].accept \subseteq push[h].accept \cup {c}
      /\ push'[h].conflicts \subseteq push[h].conflicts \cup {c.id}
  BY <1>1, <1>4 DEF Call
<1> QED
  BY <1>1, <1>2, <1>5 DEF CallInv, CallWorks, deviceVars

\* A winner is inserted, or found to be there already.
LEMMA InsertWorks ==
  ASSUME SystemInv, NEW h \in Handler, InsertNext(h), UNCHANGED <<deviceVars, slot>>
  PROVE  CallWorks(h)
<1>1. PICK c \in push[h].accept : InsertNew(h, c) \/ SkipDuplicate(h, c)
  BY DEF InsertNext
<1>2. CallInv(h) /\ c \in push[h].req /\ push \in [Handler -> Call] /\ serial \in Nat
      /\ ledger' = ledger
  BY DEF InsertNext, SystemInv, Calls, CallInv, IInv, TypeOK
<1>3. CASE InsertNew(h, c)
  <2> DEFINE row == [seq |-> serial + 1, chg |-> c]
  <2>1. push' = [push EXCEPT ![h].accept = @ \ {c}, ![h].rows = @ \cup {row},
                             ![h].max = serial + 1]
    BY <1>3 DEF InsertNew
  <2>2. row.chg = c /\ 0 < row.seq
    BY <1>2
  <2> HIDE DEF row
  <2>3. /\ \A g \in Handler \ {h} : push'[g] = push[g]
        /\ push'[h].pc = push[h].pc /\ push'[h].req = push[h].req
        /\ push'[h].todo = push[h].todo /\ push'[h].conflicts = push[h].conflicts
        /\ push'[h].accept \subseteq push[h].accept
        /\ push'[h].rows = push[h].rows \cup {row}
    BY <1>2, <2>1 DEF Call
  <2> QED
    BY <1>2, <2>2, <2>3 DEF CallInv, CallWorks, deviceVars
<1>4. CASE SkipDuplicate(h, c)
  <2>1. PICK seq \in Known(h, c.id) :
          push' = [push EXCEPT ![h].accept = @ \ {c}, ![h].conflicts = @ \cup {c.id},
                               ![h].max = IF seq > @ THEN seq ELSE @]
    BY <1>4 DEF SkipDuplicate
  <2>2. /\ \A g \in Handler \ {h} : push'[g] = push[g]
        /\ push'[h].pc = push[h].pc /\ push'[h].req = push[h].req
        /\ push'[h].todo = push[h].todo /\ push'[h].rows = push[h].rows
        /\ push'[h].accept \subseteq push[h].accept
        /\ push'[h].conflicts = push[h].conflicts \cup {c.id}
    BY <1>2, <2>1 DEF Call
  <2> QED
    BY <1>2, <2>2 DEF CallInv, CallWorks, deviceVars
<1> QED
  BY <1>1, <1>3, <1>4

\* A row that becomes visible behind a place in the ledger is late.
LEMMA CommitIsLate ==
  ASSUME SystemInv, NEW h \in Handler, Commit(h), NEW r \in Committed(h), NEW s \in ledger,
         r.seq <= s.seq
  PROVE  Late(r)' /\ r.seq < s.seq
<1>1. PICK i \in push[h].rows :
        r = [seq |-> i.seq, commit |-> commits + 1, seen |-> push[h].seen, chg |-> i.chg]
  BY DEF Committed
<1>2. i.seq \in Nat /\ s.seq \in Nat /\ commits \in Nat /\ s.commit \in Nat
  BY DEF SystemInv, IInv, TypeOK, Call, Insert, Row
<1>3. i.seq # s.seq
  BY DEF SystemInv, IInv, UniqueRows, Distinct
<1>4. s.commit < r.commit
  BY <1>1, <1>2 DEF SystemInv, IInv, Numbers
<1>5. s.seq > r.seq
  BY <1>1, <1>2, <1>3
<1>6. s \in ledger'
  BY DEF Commit
<1> QED
  BY <1>4, <1>5, <1>6 DEF Late

LEMMA LateStays == ASSUME ledger \subseteq ledger', NEW r, Late(r) PROVE Late(r)'
BY DEF Late

\* A place that a device has reached stays one when a transaction commits.
LEMMA ReachedStays ==
  ASSUME SystemInv, NEW h \in Handler, Commit(h), UNCHANGED log, NEW d \in Device, NEW n,
         Reached(d, n)
  PROVE  Reached(d, n)'
<1>1. ledger' = ledger \cup Committed(h)
  BY DEF Commit
<1>2. Recorded(d)' = Recorded(d)
  BY UnchangedLogs
<1>3. n = 0 \/ \E s \in ledger' : s.seq = n
  BY <1>1 DEF Reached
<1>4. ASSUME NEW r \in ledger', r.chg.dev # d, r.seq <= n, r.chg.id \notin Recorded(d)
      PROVE  Late(r)'
  <2>1. CASE r \in ledger
    BY <1>1, <1>4, <2>1, LateStays DEF Reached
  <2>2. CASE r \in Committed(h)
    <3>1. n # 0
      <4>1. PICK i \in push[h].rows : r.seq = i.seq
        BY <2>2 DEF Committed
      <4>2. i.seq \in Nat /\ 0 < i.seq
        BY DEF SystemInv, IInv, TypeOK, Call, Insert, Calls, CallInv
      <4> QED
        BY <1>4, <4>1, <4>2
    <3>2. PICK s \in ledger : s.seq = n
      BY <3>1 DEF Reached
    <3> QED
      BY <1>4, <2>2, <3>2, CommitIsLate
  <2> QED
    BY <1>1, <2>1, <2>2
<1> QED
  BY <1>2, <1>3, <1>4 DEF Reached

\* A commit: everything the request did not take along is covered, and what is added
\* behind a cursor is late.
LEMMA CommitStepInv ==
  ASSUME SystemInv, NEW h \in Handler, Commit(h), UNCHANGED <<deviceVars, slot>>, IInv'
  PROVE  SystemInv'
<1> DEFINE d == DeviceOf[h]
<1>1. /\ ledger' = ledger \cup Committed(h)
      /\ UNCHANGED <<log, rows, cursor, pushCursor, engine, slot>>
      /\ d \in Device
  BY CloudAssumption DEF Commit, deviceVars
<1>2. /\ push'[h].pc = "replied" /\ push'[h].req = push[h].req
      /\ push'[h].rows = {} /\ push'[h].todo = push[h].todo
      /\ push'[h].accept = push[h].accept /\ push'[h].conflicts = push[h].conflicts
      /\ \A g \in Handler \ {h} : push'[g] = push[g]
  BY DEF Commit, SystemInv, IInv, TypeOK, Call
<1>3. LogsGrow /\ \A x : Own(x)' = Own(x) /\ Made(x)' = Made(x) /\ Recorded(x)' = Recorded(x)
  BY <1>1, UnchangedLogs
<1>4. SystemTypeOK'
  BY <1>1 DEF SystemInv, SystemTypeOK, IInv
<1>5. Logs'
  BY <1>1, <1>3 DEF SystemInv, Logs
<1>6. Waiting'
  <2>1. \A g \in Handler : push[g].pc # "idle" => push'[g].pc # "idle"
    BY <1>2
  <2>2. \A g \in Handler : push'[g].req = push[g].req
    BY <1>2
  <2> QED
    BY <1>1, <2>1, <2>2 DEF SystemInv, SystemTypeOK, Waiting
<1>7. Calls'
  <2>1. CallInv(h)'
    BY <1>1, <1>2, <1>3, CoveredStays DEF SystemInv, Calls, CallInv
  <2>2. \A g \in Handler \ {h} : CallInv(g)'
    BY <1>1, <1>2, <1>3, CallStays DEF SystemInv, Calls
  <2> QED
    BY <2>1, <2>2 DEF Calls
<1>8. ASSUME NEW r \in Committed(h)
      PROVE  /\ r.chg \in push[h].req /\ 0 < r.seq
             /\ r.chg \in Made(d) /\ r.chg.dev = d
  <2>1. PICK i \in push[h].rows : r.seq = i.seq /\ r.chg = i.chg
    BY DEF Committed
  <2>2. r.chg \in push[h].req /\ 0 < r.seq /\ r.chg \in Made(d)
    BY <2>1 DEF SystemInv, Calls, CallInv
  <2> QED
    BY <1>1, <2>2 DEF SystemInv, Logs, MadeBy
<1>9. LedgerIsMade'
  BY <1>1, <1>3, <1>8 DEF SystemInv, LedgerIsMade
<1>10. AckedIsCovered'
  BY <1>1, <1>3, AckedStays DEF SystemInv
<1>11. \A c \in push[h].req : Covered(c)'
  BY <1>2 DEF IInv, Answers, InWork
<1>12. CausalOrder'
  <2> SUFFICES ASSUME NEW r \in ledger', NEW own \in Own(r.chg.dev)', own.chg.n < r.chg.n
               PROVE  Covered(own.chg)'
    BY DEF CausalOrder
  <2>1. own \in Own(r.chg.dev)
    BY <1>3
  <2>2. CASE r \in ledger
    BY <1>1, <2>1, <2>2, CoveredStays DEF SystemInv, CausalOrder
  <2>3. CASE r \in Committed(h)
    <3>1. own.chg \in Made(d)
      BY <1>8, <2>1, <2>3 DEF Made
    <3>2. own.chg \in push[h].req \/ Covered(own.chg)
      BY <1>8, <2>3, <3>1 DEF SystemInv, Calls, CallInv
    <3> QED
      BY <1>1, <1>11, <3>2, CoveredStays
  <2> QED
    BY <1>1, <2>2, <2>3
<1>13. ASSUME NEW x \in Device PROVE PullInv(x)'
  <2>1. PullInv(x)
    BY DEF SystemInv, Pulls
  <2>2. \A n : Reached(x, n) => Reached(x, n)'
    BY <1>1, ReachedStays
  <2>3. ASSUME NEW ev \in engine'[x].stream
        PROVE  /\ \E s \in ledger' : ev = EventOf(s)
               /\ ev.chg.dev # x
               /\ \A r \in ledger' :
                    r.chg.dev # x /\ r.seq < ev.seq /\ r.chg.id \notin Recorded(x)'
                    => EventOf(r) \in engine'[x].stream \/ Late(r)'
    <3>1. PICK s \in ledger : ev = EventOf(s)
      BY <1>1, <2>1, <2>3 DEF PullInv
    <3>2. ev.seq = s.seq
      BY <3>1 DEF EventOf
    <3>3. ASSUME NEW r \in ledger', r.chg.dev # x, r.seq < ev.seq, r.chg.id \notin Recorded(x)
          PROVE  EventOf(r) \in engine[x].stream \/ Late(r)'
      <4>1. CASE r \in ledger
        BY <1>1, <2>1, <2>3, <3>3, <4>1, LateStays DEF PullInv
      <4>2. CASE r \in Committed(h)
        <5>1. r.seq <= s.seq
          <6>1. r.seq \in Nat /\ s.seq \in Nat
            <7>1. r \in ledger' /\ ledger' \subseteq Row
              BY DEF IInv, TypeOK
            <7> QED
              BY <7>1 DEF Row, SystemInv, IInv, TypeOK
          <6> QED
            BY <3>2, <3>3, <6>1
        <5> QED
          BY <4>2, <5>1, CommitIsLate
      <4> QED
        BY <1>1, <4>1, <4>2
    <3> QED
      BY <1>1, <1>3, <2>1, <2>3, <3>1, <3>3 DEF PullInv
  <2> QED
    BY <1>1, <2>1, <2>2, <2>3 DEF PullInv
<1>14. Pulls'
  BY <1>13 DEF Pulls
<1> QED
  BY <1>4, <1>5, <1>6, <1>7, <1>9, <1>10, <1>12, <1>14 DEF SystemInv

LEMMA ServeInv ==
  ASSUME SystemInv, NEW h \in Handler, Serve(h)
  PROVE  SystemInv'
<1>1. CallStep(h) /\ UNCHANGED <<deviceVars, slot>>
  BY DEF Serve
<1>2. IInv'
  BY <1>1, CallStepInv DEF SystemInv
<1>3. CASE ResolveNext(h) \/ ResolveBlind(h)
  <2>1. PICK c \in push[h].todo : \E current, seen : Resolve(h, c, current, seen)
    BY <1>3 DEF ResolveNext, ResolveBlind
  <2>2. PICK current, seen : Resolve(h, c, current, seen)
    BY <2>1
  <2> QED
    BY <1>1, <1>2, <2>2, ResolveWorks, CallWorksInv
<1>4. CASE InsertNext(h)
  BY <1>1, <1>2, <1>4, InsertWorks, CallWorksInv
<1>5. CASE Commit(h)
  BY <1>1, <1>2, <1>5, CommitStepInv
<1> QED
  BY <1>1, <1>3, <1>4, <1>5 DEF CallStep

-----------------------------------------------------------------------------
(* The reply.                                                              *)

\* Only the status of rows changes, and only of rows whose id is among ids.
StatusOnly(d, ids) ==
  /\ log' \in [Device -> SUBSET LogRow] /\ IsFiniteSet(log'[d])
  /\ \A e \in Device \ {d} : log'[e] = log[e]
  /\ Made(d)' = Made(d) /\ Recorded(d)' = Recorded(d)
  /\ \A s \in Own(d)' : \E r \in Own(d) :
       s.chg = r.chg /\ (s.status = r.status \/ s.chg.id \in ids)

\* The status of every row of a log is set to st of it.
LEMMA MarkingEffect ==
  ASSUME SystemInv, NEW d \in Device, NEW ids,
         NEW st \in [log[d] -> {"pending", "synced", "conflict"}],
         \A r \in log[d] : st[r] = r.status \/ r.chg.id \in ids,
         log' = [log EXCEPT ![d] = {[r EXCEPT !.status = st[r]] : r \in log[d]}]
  PROVE  StatusOnly(d, ids)
<1> DEFINE mark == [r \in log[d] |-> [r EXCEPT !.status = st[r]]]
           new == {[r EXCEPT !.status = st[r]] : r \in log[d]}
<1>1. log \in [Device -> SUBSET LogRow] /\ IsFiniteSet(log[d])
  BY DEF SystemInv, SystemTypeOK, Logs
<1>2. \A r \in log[d] :
        /\ mark[r] \in LogRow /\ mark[r].chg = r.chg /\ mark[r].status = st[r]
  BY <1>1 DEF LogRow
<1>3. new = {mark[r] : r \in log[d]}
  OBVIOUS
<1>4. mark \in Surjection(log[d], new)
  BY <1>3 DEF Surjection
<1>5. IsFiniteSet(new)
  BY <1>1, <1>4, FS_Surjection
<1> HIDE DEF mark, new
<1>6. log'[d] = new /\ \A e \in Device \ {d} : log'[e] = log[e]
  BY <1>1 DEF new
<1>7. log' \in [Device -> SUBSET LogRow]
  BY <1>1, <1>2, <1>3 DEF new
<1>8. Recorded(d)' = Recorded(d)
  BY <1>2, <1>3, <1>6 DEF Recorded
<1>9. \A s \in Own(d)' : \E r \in Own(d) :
        s.chg = r.chg /\ (s.status = r.status \/ s.chg.id \in ids)
  BY <1>2, <1>3, <1>6 DEF Own
<1>10. Made(d)' = Made(d)
  <2>1. \A r \in Own(d) : \E s \in Own(d)' : s.chg = r.chg
    BY <1>2, <1>3, <1>6 DEF Own
  <2> QED
    BY <1>9, <2>1 DEF Made
<1> QED
  BY <1>5, <1>6, <1>7, <1>8, <1>9, <1>10 DEF StatusOnly

\* A reply is read: what it accounts for is marked, wholly or in part.
LEMMA PushOver ==
  ASSUME SystemInv, NEW d \in Device, Replied(d), EndCall(slot[d]),
         StatusOnly(d, {c.id : c \in engine[d].batch}),
         UNCHANGED <<rows, cursor>>, pushCursor' \in [Device -> Nat],
         NEW next \in Engine, next.stream = {}, next.max = 0,
         engine' = [engine EXCEPT ![d] = next],
         slot' = [slot EXCEPT ![d] = NoSlot], faults' \in Nat
  PROVE  SystemInv'
<1> DEFINE h == slot[d]
           ids == {c.id : c \in engine[d].batch}
<1>1. /\ h \in Handler /\ DeviceOf[h] = d /\ push[h].pc = "replied"
      /\ push[h].req = engine[d].batch
  BY DEF Replied, SystemInv, SystemTypeOK, Waiting
<1>2. push' = [push EXCEPT ![h] = NoCall] /\ UNCHANGED <<ledger, serial, commits>>
  BY DEF EndCall
<1>3. \A e \in Device \ {d} :
        Own(e)' = Own(e) /\ Made(e)' = Made(e) /\ Recorded(e)' = Recorded(e) /\ LogGrows(e)
  BY SameLogGrows DEF StatusOnly
<1>4. LogsGrow
  BY <1>3, SameRowsGrow DEF LogsGrow, StatusOnly
<1>5. IInv' /\ Calls'
  BY <1>1, <1>2, <1>4, CallEnds
<1>6. /\ engine' \in [Device -> Engine] /\ engine'[d] = next
      /\ slot' \in [Device -> Handler \cup {NoSlot}] /\ slot'[d] = NoSlot
      /\ \A e \in Device \ {d} : engine'[e] = engine[e] /\ slot'[e] = slot[e]
  BY DEF SystemInv, SystemTypeOK
<1>7. SystemTypeOK'
  BY <1>5, <1>6 DEF SystemInv, SystemTypeOK, IInv, StatusOnly
<1>8. Logs'
  <2>1. \A e \in Device : IsFiniteSet(log'[e]) /\ Made(e)' = Made(e)
    BY <1>3 DEF StatusOnly, SystemInv, Logs
  <2> QED
    BY <2>1 DEF SystemInv, Logs
<1>9. Waiting'
  <2>1. \A g \in Handler \ {h} : push'[g] = push[g]
    BY <1>2 DEF SystemInv, IInv, TypeOK
  <2>2. \A e \in Device \ {d} : slot[e] # NoSlot => slot[e] \in Handler \ {h}
    BY <1>1 DEF SystemInv, SystemTypeOK, Waiting
  <2> QED
    BY <1>6, <2>1, <2>2 DEF SystemInv, Waiting
<1>10. LedgerIsMade' /\ CausalOrder'
  BY <1>2, <1>4, CausalStays DEF SystemInv
<1>11. \A c \in push[h].req : Covered(c)
  BY <1>1 DEF SystemInv, IInv, Answers, InWork
<1>12. AckedIsCovered'
  <2> SUFFICES ASSUME NEW e \in Device, NEW s \in Own(e)', s.status # "pending"
               PROVE  Covered(s.chg)'
    BY DEF AckedIsCovered
  <2>1. \A c : Covered(c) => Covered(c)'
    BY <1>2, CoveredStays
  <2>2. CASE e # d
    BY <1>3, <2>1, <2>2 DEF SystemInv, AckedIsCovered
  <2>3. CASE e = d
    <3>1. PICK r \in Own(d) : s.chg = r.chg /\ (s.status = r.status \/ s.chg.id \in ids)
      BY <2>3 DEF StatusOnly
    <3>2. CASE s.status = r.status
      BY <2>1, <3>1, <3>2 DEF SystemInv, AckedIsCovered
    <3>3. CASE s.chg.id \in ids
      <4>1. PICK c \in push[h].req : s.chg.id = c.id
        BY <1>1, <3>3
      <4>2. c \in Made(d) /\ s.chg \in Made(d)
        BY <1>1, <3>1, <4>1 DEF SystemInv, Calls, CallInv, Made
      <4>3. s.chg = c
        BY <4>1, <4>2, OneId DEF SystemInv
      <4> QED
        BY <1>11, <2>1, <4>3
    <3> QED
      BY <3>1, <3>2, <3>3
  <2> QED
    BY <2>2, <2>3
<1>13. Pulls'
  <2>1. ASSUME NEW e \in Device PROVE PullInv(e)'
    <3>1. Recorded(e) \subseteq Recorded(e)'
      BY <1>4 DEF LogsGrow, LogGrows
    <3> QED
      BY <1>2, <1>6, <3>1, PullStays DEF SystemInv, Pulls
  <2> QED
    BY <2>1 DEF Pulls
<1> QED
  BY <1>5, <1>7, <1>8, <1>9, <1>10, <1>12, <1>13 DEF SystemInv

\* The number markChangesSynced and savePushCursor work with.
LEMMA MaxNIsNat ==
  ASSUME SystemInv, NEW d \in Device, slot[d] # NoSlot
  PROVE  MaxN(engine[d].batch) \in Nat
<1> DEFINE batch == engine[d].batch
<1>1. batch # {} /\ batch \subseteq Made(d)
  BY DEF SystemInv, SystemTypeOK, Waiting, Calls, CallInv
<1>2. \E c \in batch : \A e \in batch : e.n <= c.n
  BY <1>1, LastChange DEF SystemInv
<1>3. \A c \in batch : c.n \in Nat
  BY <1>1 DEF SystemInv, Logs, MadeBy
<1> HIDE DEF batch
<1>4. MaxN(batch) \in Nat
  BY <1>2, <1>3 DEF MaxN
<1> QED
  BY <1>4 DEF batch

\* All marks, or all of the first and some of the second kind.
LEMMA FinishPushInv ==
  ASSUME SystemInv, NEW d \in Device, Replied(d), EndCall(slot[d]),
         NEW marks \in SUBSET push[slot[d]].conflicts,
         NEW next \in Engine, next.stream = {}, next.max = 0,
         FinishPush(d, push[slot[d]].max, marks, next),
         slot' = [slot EXCEPT ![d] = NoSlot], faults' \in Nat
  PROVE  SystemInv'
<1> DEFINE batch == engine[d].batch
           ids == {c.id : c \in batch}
           st == [r \in log[d] |-> IF r.chg.id \in marks THEN "conflict"
                                   ELSE IF r.chg.id \in ids THEN "synced" ELSE r.status]
<1>1. /\ slot[d] \in Handler /\ push[slot[d]].req = batch
      /\ push[slot[d]].conflicts \subseteq ids /\ push[slot[d]].max \in Nat
  BY DEF Replied, SystemInv, SystemTypeOK, Waiting, Calls, CallInv, IInv, TypeOK, Call
<1>2. log \in [Device -> SUBSET LogRow]
  BY DEF SystemInv, SystemTypeOK
<1>3. st \in [log[d] -> {"pending", "synced", "conflict"}]
  BY <1>2 DEF LogRow
<1>4. \A r \in log[d] : st[r] = r.status \/ r.chg.id \in ids
  BY <1>1
<1>5. log' = [log EXCEPT ![d] = {[r EXCEPT !.status = st[r]] : r \in log[d]}]
  BY DEF FinishPush
<1> HIDE DEF st
<1>6. StatusOnly(d, ids)
  BY <1>3, <1>4, <1>5, MarkingEffect
<1>7. MaxN(batch) \in Nat
  BY MaxNIsNat DEF Replied
<1>8. pushCursor' \in [Device -> Nat]
  BY <1>1, <1>7 DEF FinishPush, SystemInv, SystemTypeOK
<1>9. engine' = [engine EXCEPT ![d] = next] /\ UNCHANGED <<rows, cursor>>
  BY DEF FinishPush
<1> QED
  BY <1>6, <1>8, <1>9, PushOver

LEMMA ReplyInv ==
  ASSUME SystemInv, NEW d \in Device, Reply(d) \/ ReplyCut(d)
  PROVE  SystemInv'
<1>1. Replied(d) /\ EndCall(slot[d]) /\ slot' = [slot EXCEPT ![d] = NoSlot]
  BY DEF Reply, ReplyCut
<1>2. faults' \in Nat
  BY FaultIsNat DEF Reply, ReplyCut, SystemInv, IInv, TypeOK
<1>3. CASE Reply(d)
  <2> DEFINE next == [Idle EXCEPT !.phase = "pull"]
  <2>1. next \in Engine /\ next.stream = {} /\ next.max = 0
    BY DEF Idle, Engine
  <2>2. FinishPush(d, push[slot[d]].max, push[slot[d]].conflicts, next)
    BY <1>3 DEF Reply, PushReplied
  <2> HIDE DEF next
  <2> QED
    BY <1>1, <1>2, <2>1, <2>2, FinishPushInv
<1>4. ASSUME NEW marks \in SUBSET push[slot[d]].conflicts,
             FinishPush(d, push[slot[d]].max, marks, Idle)
      PROVE  SystemInv'
  BY <1>1, <1>2, <1>4, IdleEngine, FinishPushInv
<1>5. ASSUME NEW n,
             log' = [log EXCEPT ![d] =
               Marked(d, {c.id : c \in {e \in engine[d].batch : e.n <= n}}, "synced")],
             engine' = [engine EXCEPT ![d] = Idle], UNCHANGED <<rows, cursor, pushCursor>>
      PROVE  SystemInv'
  <2> DEFINE ids == {c.id : c \in {e \in engine[d].batch : e.n <= n}}
             all == {c.id : c \in engine[d].batch}
             st == [r \in log[d] |-> IF r.chg.id \in ids THEN "synced" ELSE r.status]
  <2>1. log \in [Device -> SUBSET LogRow]
    BY DEF SystemInv, SystemTypeOK
  <2>2. st \in [log[d] -> {"pending", "synced", "conflict"}]
    BY <2>1 DEF LogRow
  <2>3. \A r \in log[d] : st[r] = r.status \/ r.chg.id \in all
    OBVIOUS
  <2>4. \A r \in log[d] :
          (IF r.chg.id \in ids THEN [r EXCEPT !.status = "synced"] ELSE r)
            = [r EXCEPT !.status = st[r]]
    BY <2>1 DEF LogRow
  <2>5. Marked(d, ids, "synced") = {[r EXCEPT !.status = st[r]] : r \in log[d]}
    BY <2>4 DEF Marked
  <2> HIDE DEF st, ids
  <2>6. log' = [log EXCEPT ![d] = {[r EXCEPT !.status = st[r]] : r \in log[d]}]
    BY <1>5, <2>5 DEF ids
  <2>7. StatusOnly(d, all)
    BY <2>2, <2>3, <2>6, MarkingEffect
  <2>8. pushCursor' \in [Device -> Nat]
    BY <1>5 DEF SystemInv, SystemTypeOK
  <2> QED
    BY <1>1, <1>2, <1>5, <2>7, <2>8, IdleEngine, PushOver
<1> QED
  BY <1>3, <1>4, <1>5 DEF ReplyCut, PushReplyCut

-----------------------------------------------------------------------------
(* The pull.                                                               *)

\* A device that waits for a call is not pulling.
LEMMA NoCallInPull ==
  ASSUME SystemInv, NEW d \in Device, engine[d].phase # "pushing"
  PROVE  slot[d] = NoSlot
BY DEF SystemInv, Waiting

\* A pull begins with every row after the cursor.
LEMMA PullBegins ==
  ASSUME SystemInv, NEW d \in Device, Pull(d)
  PROVE  SystemInv'
<1> DEFINE S == StreamAfter(d, cursor[d])
           stream == {[seq |-> r.seq, chg |-> r.chg] : r \in S}
           e == [Idle EXCEPT !.phase = "pulling", !.stream = stream, !.max = cursor[d]]
<1>1. /\ engine[d].phase = "pull" /\ engine' = [engine EXCEPT ![d] = e]
      /\ UNCHANGED <<log, rows, cursor, pushCursor, ledger, serial, commits, push, faults, slot>>
  BY DEF Pull, StartPull, cloudVars
<1>2. /\ ledger \subseteq Row /\ cursor[d] \in Nat
      /\ \A r \in S : r \in ledger /\ r.seq > cursor[d] /\ r.chg.dev # d
  BY DEF SystemInv, SystemTypeOK, IInv, TypeOK, StreamAfter
<1>3. \A r \in ledger : r.seq > cursor[d] /\ r.chg.dev # d => r \in S
  BY DEF StreamAfter
<1> HIDE DEF S
<1>4. stream \subseteq Event /\ \A ev \in stream : \E r \in S : ev = EventOf(r)
  BY <1>2 DEF Event, Row, EventOf
<1>5. \A r \in S : EventOf(r) \in stream
  BY DEF EventOf
<1> HIDE DEF stream
<1>6. e \in Engine /\ e.stream = stream /\ e.max = cursor[d]
  BY <1>2, <1>4 DEF Idle, Engine
<1> HIDE DEF e
<1>7. /\ engine' \in [Device -> Engine] /\ engine'[d] = e
      /\ \A x \in Device \ {d} : engine'[x] = engine[x]
  BY <1>1, <1>6 DEF SystemInv, SystemTypeOK
<1>8. IInv'
  BY <1>1, ServiceStays DEF SystemInv, IInv, TypeOK
<1>9. Waiting'
  BY <1>1, <1>7, NoCallInPull DEF SystemInv, Waiting
<1>10. \A x : Recorded(x)' = Recorded(x)
  BY <1>1, UnchangedLogs
<1>11. Calls'
  BY <1>1, UnchangedLogs, CallStays DEF SystemInv, Calls
<1>12. PullInv(d)'
  <2>1. PullInv(d)
    BY DEF SystemInv, Pulls
  <2>2. \A n : Reached(d, n) => Reached(d, n)'
    BY <1>1, <1>10 DEF Reached, Late
  <2>3. ASSUME NEW ev \in stream
        PROVE  /\ \E s \in ledger : ev = EventOf(s)
               /\ ev.chg.dev # d
               /\ \A r \in ledger : r.chg.dev # d /\ r.chg.id \notin Recorded(d)
                    => EventOf(r) \in stream \/ Late(r)
    <3>1. PICK s \in S : ev = EventOf(s)
      BY <1>4
    <3>2. ASSUME NEW r \in ledger, r.chg.dev # d, r.chg.id \notin Recorded(d)
          PROVE  EventOf(r) \in stream \/ Late(r)
      <4>1. CASE r.seq > cursor[d]
        BY <1>3, <1>5, <3>2, <4>1
      <4>2. CASE r.seq <= cursor[d]
        BY <2>1, <3>2, <4>2 DEF PullInv, Reached
      <4>3. r.seq \in Nat
        BY <1>2 DEF Row
      <4> QED
        BY <1>2, <4>1, <4>2, <4>3
    <3> QED
      BY <1>2, <3>1, <3>2 DEF EventOf
  <2>4. \A r : Late(r)' <=> Late(r)
    BY <1>1 DEF Late
  <2> QED
    BY <1>1, <1>6, <1>7, <1>10, <2>1, <2>2, <2>3, <2>4 DEF PullInv
<1>13. \A x \in Device \ {d} : PullInv(x)'
  BY <1>1, <1>7, <1>10, PullStays DEF SystemInv, Pulls
<1>14. Pulls'
  BY <1>12, <1>13 DEF Pulls
<1> QED
  BY <1>1, <1>7, <1>8, <1>9, <1>11, <1>14, EngineStep DEF SystemInv, SystemTypeOK

\* The tables of device d take in the change of an event.
TakesIn(d, ev) ==
  /\ log' \in [Device -> SUBSET LogRow] /\ IsFiniteSet(log'[d])
  /\ rows' \in [Device -> SUBSET BusinessRow] /\ IsFiniteSet(rows'[d])
  /\ \A e \in Device \ {d} : log'[e] = log[e] /\ rows'[e] = rows[e]
  /\ Own(d)' = Own(d)
  /\ Recorded(d) \subseteq Recorded(d)' /\ ev.chg.id \in Recorded(d)'

\* The head of the stream is consumed: the engine has reached its row.
LEMMA ConsumeInv ==
  ASSUME SystemInv, NEW d \in Device, engine[d].phase = "pulling",
         NEW ev \in engine[d].stream, IsHead(ev, engine[d].stream),
         Consume(d, ev), TakesIn(d, ev),
         UNCHANGED <<cloudVars, slot, cursor, pushCursor>>
  PROVE  SystemInv'
<1> DEFINE max == IF ev.seq > engine[d].max THEN ev.seq ELSE engine[d].max
<1>1. UNCHANGED <<ledger, serial, commits, push, faults>>
  BY DEF cloudVars
<1>2. PullInv(d) /\ engine[d] \in Engine /\ engine \in [Device -> Engine]
  BY DEF SystemInv, SystemTypeOK, Pulls
<1>3. ev \in Event /\ ev.seq \in Nat /\ engine[d].max \in Nat
  BY <1>2 DEF Engine, Event
<1>4. /\ engine' \in [Device -> Engine]
      /\ engine'[d].stream = engine[d].stream \ {ev} /\ engine'[d].max = max
      /\ \A e \in Device \ {d} : engine'[e] = engine[e]
  BY <1>2, <1>3 DEF Consume, Engine
<1>5. IInv'
  BY <1>1, ServiceStays DEF SystemInv, IInv, TypeOK
<1>6. \A e \in Device \ {d} :
        Own(e)' = Own(e) /\ Made(e)' = Made(e) /\ Recorded(e)' = Recorded(e) /\ LogGrows(e)
  BY SameLogGrows DEF TakesIn
<1>7. Made(d)' = Made(d)
  BY DEF TakesIn, Made
<1>8. LogsGrow
  BY <1>6, <1>7 DEF LogsGrow, LogGrows, TakesIn
<1>9. SystemTypeOK'
  BY <1>4, <1>5 DEF SystemInv, SystemTypeOK, IInv, TakesIn
<1>10. Logs'
  <2>1. \A e \in Device : IsFiniteSet(log'[e]) /\ IsFiniteSet(rows'[e]) /\ Made(e)' = Made(e)
    BY <1>6, <1>7 DEF TakesIn, SystemInv, Logs
  <2> QED
    BY <2>1 DEF SystemInv, Logs
<1>11. Waiting'
  BY <1>1, <1>4, NoCallInPull DEF SystemInv, Waiting
<1>12. Calls'
  BY <1>1, <1>8, CallStays DEF SystemInv, Calls
<1>13. LedgerIsMade' /\ CausalOrder'
  BY <1>1, <1>8, CausalStays DEF SystemInv
<1>14. AckedIsCovered'
  BY <1>1, <1>6, AckedStays DEF SystemInv, TakesIn
<1>15. PullInv(d)'
  <2>1. PICK s \in ledger : ev = EventOf(s)
    BY <1>2 DEF PullInv
  <2>2. ev.seq = s.seq /\ ev.chg = s.chg
    BY <2>1 DEF EventOf
  <2>3. \A n : Reached(d, n) => Reached(d, n)'
    BY <1>1 DEF Reached, Late, TakesIn
  <2>4. \A r : Late(r)' <=> Late(r)
    BY <1>1 DEF Late
  <2>5. ASSUME NEW r \in ledger, r.chg.dev # d, r.seq <= ev.seq, r.chg.id \notin Recorded(d)'
        PROVE  Late(r)
    <3>1. r.seq \in Nat
      BY DEF SystemInv, IInv, TypeOK, Row
    <3>2. r # s
      BY <2>2, <2>5 DEF TakesIn
    <3>3. r.seq # s.seq
      BY <3>2 DEF SystemInv, IInv, UniqueRows, LedgerIdsOnce
    <3>4. r.seq < ev.seq
      BY <1>3, <2>2, <2>5, <3>1, <3>3
    <3>5. EventOf(r) \notin engine[d].stream
      <4>1. EventOf(r).seq = r.seq /\ ~(ev.seq <= r.seq)
        BY <1>3, <3>1, <3>4 DEF EventOf
      <4> QED
        BY <4>1 DEF IsHead
    <3>6. r.chg.id \notin Recorded(d)
      BY <2>5 DEF TakesIn
    <3> QED
      BY <1>2, <2>5, <3>4, <3>5, <3>6 DEF PullInv
  <2>6. \A n : n = ev.seq => Reached(d, n)'
    BY <1>1, <2>2, <2>4, <2>5 DEF Reached
  <2>7. \A n : n = max => Reached(d, n)'
    BY <1>2, <2>3, <2>6 DEF PullInv
  <2>8. ASSUME NEW x \in engine[d].stream, x # ev,
               NEW r \in ledger, r.chg.dev # d, r.seq < x.seq, r.chg.id \notin Recorded(d)'
        PROVE  EventOf(r) \in engine[d].stream \ {ev} \/ Late(r)
    <3>1. r.chg.id \notin Recorded(d) /\ EventOf(r).chg = r.chg
      BY <2>8 DEF TakesIn, EventOf
    <3>2. EventOf(r) \in engine[d].stream \/ Late(r)
      BY <1>2, <2>8, <3>1 DEF PullInv
    <3>3. EventOf(r) # ev
      BY <2>8, <3>1 DEF TakesIn
    <3> QED
      BY <3>2, <3>3
  <2> HIDE DEF max
  <2> QED
    BY <1>1, <1>2, <1>4, <2>3, <2>4, <2>7, <2>8 DEF PullInv
<1>16. \A e \in Device \ {d} : PullInv(e)'
  BY <1>1, <1>4, <1>6, PullStays DEF SystemInv, Pulls
<1>17. Pulls'
  BY <1>15, <1>16 DEF Pulls
<1> QED
  BY <1>5, <1>9, <1>10, <1>11, <1>12, <1>13, <1>14, <1>17 DEF SystemInv

\* The row a change is written to changes its value and no other.
LEMMA WriteRowEffect ==
  ASSUME rows \in [Device -> SUBSET BusinessRow], NEW d \in Device, IsFiniteSet(rows[d]),
         NEW c, c.pay["val"] \in Value, WriteRow(d, c) \/ UNCHANGED rows
  PROVE  /\ rows' \in [Device -> SUBSET BusinessRow] /\ IsFiniteSet(rows'[d])
         /\ \A e \in Device \ {d} : rows'[e] = rows[e]
<1> DEFINE local == RowsOf(d, c.type, c.eid)
           new == {[r EXCEPT !.val = c.pay["val"]] : r \in local}
<1>1. CASE UNCHANGED rows
  BY <1>1
<1>2. CASE WriteRow(d, c)
  <2>1. rows' = [rows EXCEPT ![d] = (rows[d] \ local) \cup new]
    BY <1>2 DEF WriteRow
  <2>2. local \subseteq rows[d]
    BY DEF RowsOf
  <2>3. IsFiniteSet(local) /\ IsFiniteSet(rows[d] \ local)
    BY <2>2, FS_Subset
  <2> HIDE DEF local
  <2>4. IsFiniteSet(new)
    <3> DEFINE f == [r \in local |-> [r EXCEPT !.val = c.pay["val"]]]
    <3>1. f \in Surjection(local, new)
      BY DEF Surjection
    <3> QED
      BY <2>3, <3>1, FS_Surjection
  <2>5. new \subseteq BusinessRow
    BY <2>2 DEF BusinessRow
  <2> HIDE DEF new
  <2>6. IsFiniteSet((rows[d] \ local) \cup new)
    BY <2>3, <2>4, FS_Union
  <2>7. (rows[d] \ local) \cup new \subseteq BusinessRow
    BY <2>5
  <2> QED
    BY <2>1, <2>6, <2>7
<1> QED
  BY <1>1, <1>2

\* The head of the stream: already recorded, or recorded now, with the row it wins.
LEMMA ApplyNextInv ==
  ASSUME SystemInv, NEW d \in Device, ApplyNext(d), UNCHANGED <<cloudVars, slot>>
  PROVE  SystemInv'
<1>1. PICK ev \in engine[d].stream :
        /\ IsHead(ev, engine[d].stream)
        /\ Consume(d, ev)
        /\ \/ /\ ev.chg.id \in Recorded(d)
              /\ UNCHANGED <<log, rows>>
           \/ \E status \in {"conflict", "synced"} :
                /\ RecordRemote(d, ev.chg, status)
                /\ WriteRow(d, ev.chg) \/ UNCHANGED rows
  BY DEF ApplyNext
<1>2. engine[d].phase = "pulling" /\ UNCHANGED <<cursor, pushCursor>>
  BY DEF ApplyNext
<1>3. /\ log \in [Device -> SUBSET LogRow] /\ IsFiniteSet(log[d])
      /\ rows \in [Device -> SUBSET BusinessRow] /\ IsFiniteSet(rows[d])
  BY DEF SystemInv, SystemTypeOK, Logs
<1>4. CASE ev.chg.id \in Recorded(d) /\ UNCHANGED <<log, rows>>
  <2>1. Own(d)' = Own(d) /\ Recorded(d)' = Recorded(d)
    BY <1>4, UnchangedLogs
  <2>2. TakesIn(d, ev)
    BY <1>3, <1>4, <2>1 DEF TakesIn
  <2> QED
    BY <1>1, <1>2, <2>2, ConsumeInv
<1>5. ASSUME NEW status \in {"conflict", "synced"}, RecordRemote(d, ev.chg, status),
             WriteRow(d, ev.chg) \/ UNCHANGED rows
      PROVE  SystemInv'
  <2> DEFINE r == [pos |-> 1 + Cardinality(log[d]), chg |-> ev.chg, status |-> status]
  <2>1. PICK s \in ledger : ev = EventOf(s) /\ ev.chg.dev # d
    BY DEF SystemInv, Pulls, PullInv
  <2>2. ev.chg \in Change /\ ev.chg.pay["val"] \in Value
    <3>1. s.chg = ev.chg /\ s.chg \in Change
      BY <2>1 DEF EventOf, SystemInv, IInv, TypeOK, Row
    <3>2. s.chg.dev \in Device /\ s.chg \in Made(s.chg.dev)
      BY <3>1 DEF Change, SystemInv, LedgerIsMade
    <3>3. MadeBy(s.chg.dev, s.chg)
      BY <3>2 DEF SystemInv, Logs
    <3> QED
      BY <3>1, <3>3 DEF MadeBy
  <2>3. r \in LogRow /\ r.chg = ev.chg
    <3>1. Cardinality(log[d]) \in Nat
      BY <1>3, FS_CardinalityType
    <3>2. 1 + Cardinality(log[d]) \in Nat
      BY <3>1
    <3> QED
      BY <2>2, <3>2 DEF LogRow
  <2>4. log' = [log EXCEPT ![d] = log[d] \cup {r}]
    BY <1>5 DEF RecordRemote
  <2> HIDE DEF r
  <2>5. /\ log' \in [Device -> SUBSET LogRow] /\ log'[d] = log[d] \cup {r}
        /\ \A e \in Device \ {d} : log'[e] = log[e]
    BY <1>3, <2>3, <2>4
  <2>6. IsFiniteSet(log[d] \cup {r})
    BY <1>3, FS_AddElement
  <2>7. Own(d)' = Own(d)
    BY <2>1, <2>3, <2>5 DEF Own
  <2>8. Recorded(d) \subseteq Recorded(d)' /\ ev.chg.id \in Recorded(d)'
    BY <2>3, <2>5 DEF Recorded
  <2>9. /\ rows' \in [Device -> SUBSET BusinessRow] /\ IsFiniteSet(rows'[d])
        /\ \A e \in Device \ {d} : rows'[e] = rows[e]
    BY <1>3, <1>5, <2>2, WriteRowEffect
  <2> QED
    BY <1>1, <1>2, <2>5, <2>6, <2>7, <2>8, <2>9, ConsumeInv DEF TakesIn
<1> QED
  BY <1>1, <1>4, <1>5

\* The next event cannot be written: the cycle ends and nothing else happens.
LEMMA ApplyFailsInv ==
  ASSUME SystemInv, NEW d \in Device, ApplyFails(d), UNCHANGED <<cloudVars, slot>>
  PROVE  SystemInv'
<1>1. /\ engine' = [engine EXCEPT ![d] = Idle]
      /\ UNCHANGED <<log, rows, cursor, pushCursor, ledger, serial, commits, push, faults, slot>>
      /\ slot[d] = NoSlot
  BY NoCallInPull DEF ApplyFails, HeadFails, cloudVars
<1>2. /\ engine' \in [Device -> Engine] /\ engine'[d] = Idle
      /\ \A e \in Device \ {d} : engine'[e] = engine[e]
  BY <1>1, IdleEngine DEF SystemInv, SystemTypeOK
<1>3. IInv'
  BY <1>1, ServiceStays DEF SystemInv, IInv, TypeOK
<1>4. Waiting'
  BY <1>1, <1>2 DEF SystemInv, Waiting
<1>5. Calls'
  BY <1>1, UnchangedLogs, CallStays DEF SystemInv, Calls
<1>6. Pulls'
  BY <1>1, <1>2, IdleEngine, PullsStay
<1> QED
  BY <1>1, <1>2, <1>3, <1>4, <1>5, <1>6, EngineStep DEF SystemInv, SystemTypeOK

\* The cursor is saved where the engine has got to.
LEMMA EndPullInv ==
  ASSUME SystemInv, NEW d \in Device, EndPull(d), UNCHANGED <<cloudVars, slot>>
  PROVE  SystemInv'
<1> DEFINE to == IF engine[d].max > cursor[d] THEN engine[d].max ELSE cursor[d]
<1>1. /\ engine' = [engine EXCEPT ![d] = Idle] /\ cursor' = [cursor EXCEPT ![d] = to]
      /\ UNCHANGED <<log, rows, pushCursor, ledger, serial, commits, push, faults, slot>>
      /\ slot[d] = NoSlot
  BY NoCallInPull DEF EndPull, cloudVars
<1>2. PullInv(d) /\ engine[d] \in Engine /\ cursor \in [Device -> Nat]
  BY DEF SystemInv, SystemTypeOK, Pulls
<1>3. to \in Nat /\ (to = engine[d].max \/ to = cursor[d])
  BY <1>2 DEF Engine
<1> HIDE DEF to
<1>4. /\ engine' \in [Device -> Engine] /\ engine'[d] = Idle
      /\ cursor' \in [Device -> Nat] /\ cursor'[d] = to
      /\ \A e \in Device \ {d} : engine'[e] = engine[e] /\ cursor'[e] = cursor[e]
  BY <1>1, <1>3, IdleEngine DEF SystemInv, SystemTypeOK
<1>5. /\ LogsGrow
      /\ \A e : Own(e)' = Own(e) /\ Made(e)' = Made(e) /\ Recorded(e)' = Recorded(e)
  BY <1>1, UnchangedLogs
<1>6. IInv'
  BY <1>1, ServiceStays DEF SystemInv, IInv, TypeOK
<1>7. SystemTypeOK'
  BY <1>1, <1>4, <1>6 DEF SystemInv, SystemTypeOK, IInv
<1>8. Logs'
  BY <1>1, <1>5 DEF SystemInv, Logs
<1>9. Waiting'
  BY <1>1, <1>4 DEF SystemInv, Waiting
<1>10. Calls'
  BY <1>1, <1>5, CallStays DEF SystemInv, Calls
<1>11. LedgerIsMade' /\ CausalOrder'
  BY <1>1, <1>5, CausalStays DEF SystemInv
<1>12. AckedIsCovered'
  BY <1>1, <1>5, AckedStays DEF SystemInv
<1>13. PullInv(d)'
  <2>1. \A n : Reached(d, n) => Reached(d, n)'
    BY <1>1, <1>5 DEF Reached, Late
  <2>2. \A n : n = 0 => Reached(d, n)'
    <3>1. \A r \in ledger : r.seq \in Nat /\ ~(r.seq <= 0)
      BY DEF SystemInv, IInv, TypeOK, Row, LedgerIsMade
    <3> QED
      BY <1>1, <3>1 DEF Reached
  <2>3. \A n : n = to => Reached(d, n)'
    BY <1>2, <1>3, <2>1 DEF PullInv
  <2> QED
    BY <1>4, <2>2, <2>3, IdleEngine DEF PullInv
<1>14. \A e \in Device \ {d} : PullInv(e)'
  BY <1>1, <1>4, <1>5, PullStays DEF SystemInv, Pulls
<1>15. Pulls'
  BY <1>13, <1>14 DEF Pulls
<1> QED
  BY <1>6, <1>7, <1>8, <1>9, <1>10, <1>11, <1>12, <1>15 DEF SystemInv

-----------------------------------------------------------------------------
(* The theorems.                                                           *)

LEMMA PullMoves ==
  ASSUME SystemInv, NEW d \in Device, PullStep(d)
  PROVE  SystemInv'
BY ApplyNextInv, ApplyFailsInv, EndPullInv DEF PullStep

LEMMA DeviceStepInv ==
  ASSUME SystemInv, NEW d \in Device, DeviceNext(d)
  PROVE  SystemInv'
BY EditInv, StartPushInv, SkipPushInv, ReplyInv, BreakInv, PullBegins, PullMoves
   DEF DeviceNext

LEMMA HandlerStepInv ==
  ASSUME SystemInv, NEW h \in Handler, HandlerNext(h)
  PROVE  SystemInv'
BY ServeInv, FailInv, DropReplyInv DEF HandlerNext

LEMMA StutterInv ==
  ASSUME SystemInv, UNCHANGED vars
  PROVE  SystemInv'
<1>1. /\ UNCHANGED <<log, rows, cursor, pushCursor, engine>>
      /\ UNCHANGED <<ledger, serial, commits, push, faults, slot>>
  BY DEF vars, cloudVars, deviceVars
<1>2. IInv'
  BY <1>1, ServiceStays DEF SystemInv, IInv, TypeOK
<1>3. Waiting'
  BY <1>1 DEF SystemInv, Waiting
<1>4. Calls'
  BY <1>1, UnchangedLogs, CallStays DEF SystemInv, Calls
<1>5. Pulls'
  BY <1>1, PullsStay
<1> QED
  BY <1>1, <1>2, <1>3, <1>4, <1>5, EngineStep DEF SystemInv, SystemTypeOK

\* SystemInv is an invariant of the devices and the service together.
THEOREM SystemInvariant == Spec => []SystemInv
<1>1. SystemInv /\ [Next]_vars => SystemInv'
  BY DeviceStepInv, HandlerStepInv, StutterInv DEF Next
<1> QED
  BY <1>1, SystemInit, PTL DEF Spec

\* The variables keep their types, those of the service and those of the devices.
THEOREM SystemTypeCorrect == Spec => []SystemTypeOK
<1>1. SystemInv => SystemTypeOK
  BY DEF SystemInv
<1> QED
  BY <1>1, SystemInvariant, PTL

\* No change is lost between the outbox and the ledger, in any interleaving of edits,
\* calls, orphans, retries and failures.
THEOREM NothingLost == Spec => []AckedIsCovered
<1>1. SystemInv => AckedIsCovered
  BY DEF SystemInv
<1> QED
  BY <1>1, SystemInvariant, PTL

\* A later change of a device is never in the ledger without its earlier ones, or what
\* was preferred to them.
THEOREM LedgerCausal == Spec => []CausalOrder
<1>1. SystemInv => CausalOrder
  BY DEF SystemInv
<1> QED
  BY <1>1, SystemInvariant, PTL

\* A cursor passes no row it has not seen but one that was committed after a row with
\* a higher sequence.
THEOREM CursorsMissOnlyLate == Spec => []CursorMissesOnlyLateCommits
<1>1. SystemInv => CursorMissesOnlyLateCommits
  BY DEF SystemInv, Pulls, PullInv, Reached, Late, CursorMissesOnlyLateCommits
<1> QED
  BY <1>1, SystemInvariant, PTL

\* What the service promises on its own still holds for the requests that real outboxes
\* send: the ledger has each change once, its forks come from overlapping transactions,
\* and a reply leaves no change of its request uncovered.
THEOREM ServiceKeepsPromises == Spec => [](LedgerIdsOnce /\ ForksOverlap /\ RepliesAreTrue)
<1>1. IInv => LedgerIdsOnce /\ ForksOverlap /\ RepliesAreTrue
  BY DEF IInv, UniqueRows, Winners, Answers, RepliesAreTrue, InWork
<1>2. SystemInv => LedgerIdsOnce /\ ForksOverlap /\ RepliesAreTrue
  BY <1>1 DEF SystemInv
<1> QED
  BY <1>2, SystemInvariant, PTL

\* Devices and service together implement the abstract log: whole batches of one
\* device are added atomically, each change once, and nothing is ever taken back.
THEOREM SystemRefinement == Spec => ImplementsMergeLog
<1>1. Init => MergedLog!Init
  BY DEF Init, CloudInit, MergedLog!Init, LedgerLog
<1>2. ASSUME SystemInv, SystemInv', [Next]_vars
      PROVE  [MergedLog!Next]_LedgerLog
  <2>1. CASE ledger' = ledger
    BY <2>1 DEF LedgerLog
  <2>2. ASSUME NEW h \in Handler, Commit(h) PROVE [MergedLog!Next]_LedgerLog
    <3>1. CloudNext
      BY <2>2 DEF CloudNext, CallStep
    <3> QED
      BY <1>2, <3>1, LogStep DEF SystemInv
  <2>3. \A h \in Handler : HandlerNext(h) => ledger' = ledger \/ Commit(h)
    BY DEF HandlerNext, Serve, Fail, DropReply, CallStep, ResolveNext, ResolveBlind,
           Resolve, InsertNext, Rollback, EndCall
  <2>4. \A d \in Device : DeviceNext(d) => ledger' = ledger
    BY DEF DeviceNext, Edit, StartPush, PushBatch, SkipPush, Reply, ReplyCut, EndCall,
           Break, Pull, PullStep, cloudVars
  <2>5. CASE UNCHANGED vars
    BY <2>1, <2>5 DEF vars, cloudVars
  <2> QED
    BY <1>2, <2>1, <2>2, <2>3, <2>4, <2>5 DEF Next
<1> QED
  BY <1>1, <1>2, SystemInvariant, PTL DEF Spec, ImplementsMergeLog, MergedLog!Spec
=============================================================================
