--------------------------- MODULE CloudSyncProofs ---------------------------
(***************************************************************************)
(* Proofs about CloudSync, for any number of devices, handlers, changes    *)
(* and failures: its type invariant, the safety properties of the ledger,  *)
(* and that it implements the abstract log.                                *)
(***************************************************************************)
EXTENDS CloudSync, TLAPS, WellFoundedInduction

-----------------------------------------------------------------------------
(* The inductive invariant.                                                *)

\* Sequence and transaction numbers come from counters that only grow.
Numbers ==
  /\ \A r \in ledger : /\ r.seq <= serial /\ 0 < r.commit /\ r.commit <= commits
                      /\ r.seen < r.commit
  /\ \A h \in Handler :
       /\ \A r \in push[h].rows : r.seq <= serial
       /\ push[h].seen <= commits

Distinct(r, s) == r.chg.id # s.chg.id /\ r.seq # s.seq

\* What makes LedgerIdsOnce inductive: rows of open transactions take part in it.
UniqueRows ==
  /\ LedgerIdsOnce
  /\ \A h \in Handler :
       /\ \A r, s \in push[h].rows : r = s \/ Distinct(r, s)
       /\ \A r \in push[h].rows, s \in ledger : Distinct(r, s)
  /\ \A g, h \in Handler : g # h =>
       \A r \in push[g].rows, s \in push[h].rows : Distinct(r, s)

\* What a call holds was made by its device.
Authors ==
  \A h \in Handler :
    /\ \A c \in push[h].todo \cup push[h].accept : c.dev = DeviceOf[h]
    /\ \A r \in push[h].rows : r.chg.dev = DeviceOf[h]

\* What makes ForksOverlap inductive: an append-only winner has no rival that was
\* committed before its call began.
NoOldRival(h, c) ==
  Strategy(c.type) = "appendonly" =>
    \A r \in ledger : SameEntity(r.chg, c) => push[h].seen < r.commit

Winners ==
  /\ ForksOverlap
  /\ \A h \in Handler :
       /\ \A c \in push[h].accept : NoOldRival(h, c)
       /\ \A r \in push[h].rows : NoOldRival(h, r.chg)

\* What makes RepliesAreTrue inductive: where each event of a request is.
InWork(h, c) ==
  \/ c \in push[h].todo
  \/ \E a \in push[h].accept : a.id = c.id
  \/ \E r \in push[h].rows : r.chg.id = c.id

Answers ==
  \A h \in Handler :
    /\ push[h].pc = "replied" =>
         push[h].todo = {} /\ push[h].accept = {} /\ push[h].rows = {}
    /\ \A c \in push[h].req : InWork(h, c) \/ (Covered(c) /\ NotDropped(h, c))

IInv ==
  /\ TypeOK
  /\ Numbers
  /\ UniqueRows
  /\ Authors
  /\ Winners
  /\ Answers

-----------------------------------------------------------------------------
(* Facts about data.                                                       *)

\* A nonempty set of naturals has a least element.
LEMMA LeastNatural ==
  ASSUME NEW S, S \subseteq Nat, S # {}
  PROVE  \E m \in S : \A x \in S : m <= x
<1>1. PICK x \in S : \A y \in S : ~ (<<y, x>> \in OpToRel(<, Nat))
  BY WFMin, NatLessThanWellFounded
<1>2. \A y \in S : ~ (y < x)
  BY <1>1 DEF OpToRel
<1> QED
  BY <1>2

\* A nonempty set of rows whose sequences are bounded has a highest row.
LEMMA HighestRow ==
  ASSUME NEW S, NEW top \in Nat, S # {}, \A r \in S : r.seq \in Nat /\ r.seq <= top
  PROVE  \E r \in S : \A s \in S : s.seq <= r.seq
<1> DEFINE D == {top - r.seq : r \in S}
<1>1. D \subseteq Nat /\ D # {}
  OBVIOUS
<1>2. PICK m \in D : \A x \in D : m <= x
  BY <1>1, LeastNatural
<1>3. PICK r \in S : m = top - r.seq
  OBVIOUS
<1>4. \A s \in S : top - r.seq <= top - s.seq
  BY <1>2, <1>3
<1> QED
  BY <1>4

\* LatestFor finds nothing exactly when the entity has no row, and else finds the
\* change of one of its rows.
LEMMA LatestForRow ==
  ASSUME TypeOK, Numbers, NEW c
  PROVE  \/ /\ LatestFor(c) = Nil
            /\ \A r \in ledger : ~ SameEntity(r.chg, c)
         \/ /\ LatestFor(c) # Nil
            /\ \E r \in ledger : SameEntity(r.chg, c) /\ LatestFor(c) = r.chg
<1> DEFINE S == {r \in ledger : SameEntity(r.chg, c)}
<1>1. CASE S = {}
  BY <1>1 DEF LatestFor
<1>2. CASE S # {}
  <2>1. \A r \in S : r.seq \in Nat /\ r.seq <= serial /\ r.chg \in Change
    BY DEF TypeOK, Row, Numbers
  <2>2. \E r \in S : \A s \in S : s.seq <= r.seq
    BY <1>2, <2>1, HighestRow DEF TypeOK
  <2>3. PICK r \in S : LatestFor(c) = r.chg
    BY <1>2, <2>2 DEF LatestFor
  <2> QED
    BY <2>1, <2>3, NilAssumption
<1> QED
  BY <1>1, <1>2

\* The answer of AppendChanges to a batch without winners is a sequence number.
LEMMA TopSeqNat ==
  ASSUME TypeOK, Numbers
  PROVE  TopSeq(ledger) \in Nat
<1>1. CASE ledger = {}
  BY <1>1 DEF TopSeq
<1>2. CASE ledger # {}
  <2>1. \A r \in ledger : r.seq \in Nat /\ r.seq <= serial
    BY DEF TypeOK, Row, Numbers
  <2>2. \E r \in ledger : \A s \in ledger : s.seq <= r.seq
    BY <1>2, <2>1, HighestRow DEF TypeOK
  <2> QED
    BY <1>2, <2>1, <2>2 DEF TopSeq
<1> QED
  BY <1>1, <1>2

\* A payload with fields maps some of the fields to values or Null.
LEMMA PayloadFields ==
  ASSUME NEW pay \in Payload, pay # NoPayload
  PROVE  /\ DOMAIN pay \subseteq Field
         /\ pay = [f \in DOMAIN pay |-> pay[f]]
         /\ \A f \in DOMAIN pay : pay[f] \in Value \cup {Null}
<1>1. PICK S \in SUBSET Field : pay \in [S -> Value \cup {Null}]
  BY DEF Payload
<1> QED
  BY <1>1

\* Merging keeps to the fields and values there are.
LEMMA MergeTyped ==
  ASSUME NEW inc \in Payload, inc # NoPayload, NEW cur,
         cur \in Payload \ {NoPayload} \/ cur = [f \in {} |-> Null]
  PROVE  Merge(cur, inc) \in Payload
<1> DEFINE sent == {f \in DOMAIN inc : inc[f] # Null}
           S == DOMAIN cur \cup sent
<1>1. sent \subseteq Field /\ \A f \in sent : inc[f] \in Value \cup {Null}
  BY PayloadFields
<1>2. DOMAIN cur \subseteq Field /\ \A f \in DOMAIN cur : cur[f] \in Value \cup {Null}
  <2>1. CASE cur \in Payload \ {NoPayload}
    BY <2>1, PayloadFields
  <2>2. CASE cur = [f \in {} |-> Null]
    BY <2>2
  <2> QED
    BY <2>1, <2>2
<1>3. Merge(cur, inc) = [f \in S |-> IF f \in sent THEN inc[f] ELSE cur[f]]
  BY DEF Merge
<1>4. S \in SUBSET Field
  BY <1>1, <1>2
<1>5. \A f \in S : (IF f \in sent THEN inc[f] ELSE cur[f]) \in Value \cup {Null}
  BY <1>1, <1>2
<1> HIDE DEF S, sent
<1>6. Merge(cur, inc) \in [S -> Value \cup {Null}]
  BY <1>3, <1>5
<1> QED
  BY <1>4, <1>6 DEF Payload

\* A merged event differs from the incoming one in its payload only, and only
\* under the field-merge strategy.
LEMMA MergedChange ==
  ASSUME NEW c \in Change, NEW current \in Change \cup {Nil}
  PROVE  /\ Merged(c, current) \in Change
         /\ Merged(c, current).id = c.id
         /\ Merged(c, current).dev = c.dev
         /\ SameEntity(Merged(c, current), c)
         /\ Strategy(c.type) # "fieldmerge" => Merged(c, current) = c
<1>1. CASE Merged(c, current) = c
  BY <1>1 DEF SameEntity
<1>2. CASE Merged(c, current) # c
  <2>1. /\ Strategy(c.type) = "fieldmerge"
        /\ current \in Change
        /\ c.pay \in Payload /\ c.pay # NoPayload
        /\ current.pay \in Payload
        /\ Merged(c, current) = [c EXCEPT !.pay = Merge(Fields(current.pay), c.pay)]
    BY <1>2 DEF Merged, Change
  <2>2. Fields(current.pay) \in Payload \ {NoPayload} \/ Fields(current.pay) = [f \in {} |-> Null]
    BY <2>1 DEF Fields
  <2>3. Merge(Fields(current.pay), c.pay) \in Payload
    BY <2>1, <2>2, MergeTyped
  <2> QED
    BY <2>1, <2>3 DEF Change, SameEntity
<1> QED
  BY <1>1, <1>2
-----------------------------------------------------------------------------
(* The invariant holds initially.                                          *)

LEMMA InitInv == CloudInit => IInv
<1> SUFFICES ASSUME CloudInit PROVE IInv
  OBVIOUS
<1>1. TypeOK
  BY DEF CloudInit, TypeOK, NoCall, Call
<1>2. Numbers /\ UniqueRows /\ Authors /\ Winners /\ Answers
  BY DEF CloudInit, NoCall, Numbers, UniqueRows, LedgerIdsOnce, Authors, Winners,
         ForksOverlap, Answers
<1> QED
  BY <1>1, <1>2 DEF IInv

-----------------------------------------------------------------------------
(* Each action preserves it. `faults` is left to the specification that    *)
(* uses the action.                                                        *)

\* A new call holds a request and nothing else.
LEMMA PushBatchInv ==
  ASSUME IInv, NEW h \in Handler, NEW batch \in SUBSET Change, PushBatch(h, batch),
         faults' \in Nat
  PROVE  IInv'
<1> DEFINE call == [NoCall EXCEPT !.pc = "serving", !.req = batch, !.todo = batch,
                                  !.seen = commits]
<1>1. /\ push' = [push EXCEPT ![h] = call]
      /\ ledger' = ledger /\ serial' = serial /\ commits' = commits
      /\ push \in [Handler -> Call] /\ commits \in Nat
  BY DEF PushBatch, IInv, TypeOK
<1>2. /\ push'[h] = call
      /\ \A g \in Handler \ {h} : push'[g] = push[g]
  BY <1>1
<1>3. /\ call.pc = "serving" /\ call.req = batch /\ call.todo = batch
      /\ call.accept = {} /\ call.rows = {} /\ call.seen = commits
  BY DEF NoCall
<1>4. TypeOK'
  <2>1. call \in Call
    BY <1>1 DEF NoCall, Call
  <2> QED
    BY <1>1, <2>1 DEF IInv, TypeOK
<1>5. Numbers'
  BY <1>1, <1>2, <1>3 DEF IInv, TypeOK, Numbers
<1>6. UniqueRows'
  BY <1>1, <1>2, <1>3 DEF IInv, UniqueRows, LedgerIdsOnce
<1>7. Authors'
  BY <1>1, <1>2, <1>3 DEF IInv, Authors, PushBatch
<1>8. Winners'
  BY <1>1, <1>2, <1>3 DEF IInv, Winners, ForksOverlap, NoOldRival
<1>9. Answers'
  BY <1>1, <1>2, <1>3 DEF IInv, Answers, InWork, Covered, Stored, NotDropped
<1> QED
  BY <1>4, <1>5, <1>6, <1>7, <1>8, <1>9 DEF IInv

\* A call that ends, or whose transaction is rolled back, leaves nothing behind.
LEMMA ClearInv ==
  ASSUME IInv, NEW h \in Handler, push' = [push EXCEPT ![h] = NoCall],
         UNCHANGED <<ledger, serial, commits>>, faults' \in Nat
  PROVE  IInv'
<1>1. /\ ledger' = ledger /\ serial' = serial /\ commits' = commits
      /\ push \in [Handler -> Call] /\ commits \in Nat
  BY DEF IInv, TypeOK
<1>2. /\ push'[h] = NoCall
      /\ \A g \in Handler \ {h} : push'[g] = push[g]
  BY <1>1
<1>3. /\ NoCall.pc = "idle" /\ NoCall.req = {} /\ NoCall.todo = {}
      /\ NoCall.accept = {} /\ NoCall.rows = {} /\ NoCall.seen = 0
  BY DEF NoCall
<1>4. TypeOK'
  <2>1. NoCall \in Call
    BY DEF NoCall, Call
  <2> QED
    BY <1>1, <2>1 DEF IInv, TypeOK
<1>5. Numbers'
  BY <1>1, <1>2, <1>3 DEF IInv, TypeOK, Numbers
<1>6. UniqueRows'
  BY <1>1, <1>2, <1>3 DEF IInv, UniqueRows, LedgerIdsOnce
<1>7. Authors'
  BY <1>1, <1>2, <1>3 DEF IInv, Authors
<1>8. Winners'
  BY <1>1, <1>2, <1>3 DEF IInv, Winners, ForksOverlap, NoOldRival
<1>9. Answers'
  BY <1>1, <1>2, <1>3 DEF IInv, Answers, InWork, Covered, Stored, NotDropped
<1> QED
  BY <1>4, <1>5, <1>6, <1>7, <1>8, <1>9 DEF IInv

\* Resolving an event: either nothing but a reason to refuse it is kept, or the
\* winner. `current` is what LatestFor returns, or Nil with seen = 0 when it failed.
LEMMA ResolveInv ==
  ASSUME IInv, NEW h \in Handler, NEW c \in push[h].todo, NEW current, NEW seen \in Nat,
         Resolve(h, c, current, seen), faults' \in Nat,
         \/ current = LatestFor(c) /\ seen = push[h].seen
         \/ current = Nil /\ seen = 0
  PROVE  IInv'
<1> DEFINE won == Applies(c, current)
           m == Merged(c, current)
           accept == IF won THEN push[h].accept \cup {m} ELSE push[h].accept
           conflicts == IF Conflicts(c, current) THEN push[h].conflicts \cup {c.id}
                        ELSE push[h].conflicts
<1>1. /\ push' = [push EXCEPT ![h].todo = @ \ {c}, ![h].accept = accept,
                              ![h].conflicts = conflicts, ![h].seen = seen]
      /\ ledger' = ledger /\ serial' = serial /\ commits' = commits
      /\ push \in [Handler -> Call] /\ commits \in Nat /\ push[h] \in Call
      /\ push[h].pc = "serving"
  BY DEF Resolve, IInv, TypeOK
<1>2. /\ \A g \in Handler \ {h} : push'[g] = push[g]
      /\ push'[h].pc = "serving" /\ push'[h].req = push[h].req
      /\ push'[h].todo = push[h].todo \ {c} /\ push'[h].accept = accept
      /\ push'[h].rows = push[h].rows /\ push'[h].conflicts = conflicts
      /\ push'[h].seen = seen
  BY <1>1 DEF Call
<1>3. /\ c \in Change /\ current \in Change \cup {Nil}
      /\ current # Nil => \E r \in ledger : SameEntity(r.chg, c) /\ current = r.chg
  <2>1. c \in Change
    BY <1>1 DEF Call
  <2>2. current = Nil \/ \E r \in ledger : SameEntity(r.chg, c) /\ current = r.chg
    BY LatestForRow DEF IInv
  <2> QED
    BY <2>1, <2>2 DEF IInv, TypeOK, Row
<1>4. /\ m \in Change /\ m.id = c.id /\ m.dev = c.dev /\ SameEntity(m, c)
      /\ Strategy(c.type) # "fieldmerge" => m = c
  BY <1>3, MergedChange
<1>5. seen <= push[h].seen
  BY <1>1 DEF Call
<1>6. TypeOK'
  <2>1. push'[h] \in Call
    <3>1. conflicts \in SUBSET Nat
      BY <1>1, <1>3 DEF Call, Change
    <3>2. accept \in SUBSET Change
      BY <1>1, <1>4 DEF Call
    <3>3. push'[h] = [push[h] EXCEPT !.todo = @ \ {c}, !.accept = accept,
                                     !.conflicts = conflicts, !.seen = seen]
      BY <1>1
    <3> HIDE DEF accept, conflicts
    <3> QED
      BY <1>1, <3>1, <3>2, <3>3 DEF Call
  <2> QED
    BY <1>1, <2>1 DEF IInv, TypeOK
<1>7. Numbers'
  BY <1>1, <1>2, <1>5 DEF IInv, TypeOK, Call, Numbers
<1>8. UniqueRows'
  BY <1>1, <1>2 DEF IInv, UniqueRows, LedgerIdsOnce
<1>9. Authors'
  <2>1. \A a \in push'[h].todo \cup push'[h].accept : a.dev = DeviceOf[h]
    BY <1>2, <1>4 DEF IInv, Authors
  <2> QED
    BY <1>1, <1>2, <2>1 DEF IInv, Authors
<1>10. Winners'
  <2>1. \A a \in push[h].accept : NoOldRival(h, a)'
    BY <1>1, <1>2, <1>5 DEF IInv, Winners, NoOldRival, TypeOK, Row, Call
  <2>2. \A r \in push[h].rows : NoOldRival(h, r.chg)'
    BY <1>1, <1>2, <1>5 DEF IInv, Winners, NoOldRival, TypeOK, Row, Call
  <2>3. won => NoOldRival(h, m)'
    <3> SUFFICES ASSUME won, Strategy(m.type) = "appendonly",
                        NEW r \in ledger, SameEntity(r.chg, m)
                 PROVE  seen < r.commit
      BY <1>1, <1>2 DEF NoOldRival
    <3>1. Strategy(c.type) = "appendonly" /\ SameEntity(r.chg, c)
      BY <1>4 DEF SameEntity
    <3>2. current = Nil
      BY <3>1 DEF Applies
    <3>3. seen = 0
      BY <3>1, <3>2, LatestForRow DEF IInv
    <3> QED
      BY <3>3 DEF IInv, Numbers
  <2>4. ForksOverlap'
    BY <1>1 DEF IInv, Winners, ForksOverlap
  <2>5. \A a \in push'[h].accept : NoOldRival(h, a)'
    BY <1>2, <2>1, <2>3
  <2>6. \A g \in Handler \ {h} : /\ \A a \in push'[g].accept : NoOldRival(g, a)'
                                 /\ \A r \in push'[g].rows : NoOldRival(g, r.chg)'
    BY <1>1, <1>2 DEF IInv, Winners, NoOldRival
  <2> QED
    BY <1>2, <2>2, <2>4, <2>5, <2>6 DEF Winners
<1>11. Answers'
  <2>1. ASSUME ~won PROVE Covered(c)' /\ NotDropped(h, c)'
    <3>1. Covered(c)
      BY <1>3, <2>1 DEF Applies, Covered, SameEntity, Strategy
    <3>2. NotDropped(h, c)'
      <4> SUFFICES ASSUME Strategy(c.type) = "appendonly", c.id \notin conflicts
                   PROVE  \E r \in ledger : SameEntity(r.chg, c) /\ r.chg.pay = c.pay
        BY <1>1, <1>2 DEF NotDropped
      <4>1. current # Nil
        BY <2>1 DEF Applies
      <4>2. c.pay = current.pay
        BY <4>1 DEF Conflicts
      <4> QED
        BY <1>3, <4>1, <4>2
    <3> QED
      BY <1>1, <3>1, <3>2 DEF Covered, Stored
  <2>2. \A a \in push[h].req : Covered(a) /\ NotDropped(h, a) => Covered(a)' /\ NotDropped(h, a)'
    BY <1>1, <1>2 DEF Covered, Stored, NotDropped
  <2>3. \A a \in push[h].req : InWork(h, a) => InWork(h, a)' \/ (Covered(a)' /\ NotDropped(h, a)')
    <3> SUFFICES ASSUME NEW a \in push[h].req, InWork(h, a)
                 PROVE  InWork(h, a)' \/ (Covered(a)' /\ NotDropped(h, a)')
      OBVIOUS
    <3>1. CASE a = c /\ won
      BY <1>2, <1>4, <3>1 DEF InWork
    <3>2. CASE a = c /\ ~won
      BY <2>1, <3>2
    <3>3. CASE a # c
      BY <1>2, <3>3 DEF InWork
    <3> QED
      BY <3>1, <3>2, <3>3
  <2>4. \A g \in Handler \ {h}, a \in Change :
           /\ InWork(g, a) => InWork(g, a)'
           /\ Covered(a) /\ NotDropped(g, a) => Covered(a)' /\ NotDropped(g, a)'
    BY <1>1, <1>2 DEF InWork, Covered, Stored, NotDropped
  <2>5. \A g \in Handler : push[g].req \subseteq Change
    BY <1>1 DEF Call
  <2> QED
    BY <1>1, <1>2, <2>2, <2>3, <2>4, <2>5 DEF IInv, Answers
<1> QED
  BY <1>6, <1>7, <1>8, <1>9, <1>10, <1>11 DEF IInv

\* The rows of a transaction stay apart from all others when a row is inserted under
\* the next sequence number, because the unique index rules out the same id.
LEMMA InsertNewInv ==
  ASSUME IInv, NEW h \in Handler, NEW c \in push[h].accept, Appending(h),
         ~Blocked(h, c), InsertNew(h, c), serial' = serial + 1,
         UNCHANGED <<ledger, commits>>, faults' \in Nat
  PROVE  IInv'
<1> DEFINE row == [seq |-> serial + 1, chg |-> c]
<1>1. /\ push' = [push EXCEPT ![h].accept = @ \ {c}, ![h].rows = @ \cup {row},
                              ![h].max = serial + 1]
      /\ ledger' = ledger /\ commits' = commits
      /\ push \in [Handler -> Call] /\ push[h] \in Call /\ commits \in Nat /\ serial \in Nat
      /\ push[h].pc = "serving"
      /\ Known(h, c.id) = {}
  BY DEF InsertNew, Appending, IInv, TypeOK
<1>2. /\ \A g \in Handler \ {h} : push'[g] = push[g]
      /\ push'[h].pc = "serving" /\ push'[h].req = push[h].req
      /\ push'[h].todo = push[h].todo /\ push'[h].accept = push[h].accept \ {c}
      /\ push'[h].rows = push[h].rows \cup {row} /\ push'[h].seen = push[h].seen
      /\ push'[h].conflicts = push[h].conflicts
  BY <1>1 DEF Call
<1>3. c \in Change /\ row \in Insert
  BY <1>1 DEF Call, Insert
<1>4. TypeOK'
  <2> DEFINE accept == push[h].accept \ {c}
             rows == push[h].rows \cup {row}
             max == serial + 1
  <2>1. push'[h] = [push[h] EXCEPT !.accept = accept, !.rows = rows, !.max = max]
    BY <1>1
  <2>2. accept \in SUBSET Change /\ rows \in SUBSET Insert /\ max \in Nat
    BY <1>1, <1>3 DEF Call
  <2> HIDE DEF accept, rows, max
  <2>3. push'[h] \in Call
    BY <1>1, <2>1, <2>2 DEF Call
  <2> QED
    BY <1>1, <2>3 DEF IInv, TypeOK
<1>5. Numbers'
  <2>1. /\ \A r \in ledger : r.seq <= serial + 1
        /\ \A g \in Handler : \A r \in push[g].rows : r.seq <= serial + 1
    BY <1>1 DEF IInv, Numbers, TypeOK, Row, Insert, Call
  <2> QED
    BY <1>1, <1>2, <2>1 DEF IInv, Numbers
<1>6. UniqueRows'
  <2>1. \A r \in push[h].rows \cup ledger : Distinct(row, r) /\ Distinct(r, row)
    <3> SUFFICES ASSUME NEW r \in push[h].rows \cup ledger PROVE r.chg.id # c.id /\ r.seq # serial + 1
      BY DEF Distinct
    <3>1. r.chg.id # c.id
      BY <1>1 DEF Known
    <3>2. r.seq <= serial /\ r.seq \in Nat
      BY <1>1 DEF IInv, Numbers, TypeOK, Row, Insert, Call
    <3> QED
      BY <1>1, <3>1, <3>2
  <2>2. \A g \in Handler \ {h} : \A r \in push[g].rows : Distinct(row, r) /\ Distinct(r, row)
    <3> SUFFICES ASSUME NEW g \in Handler \ {h}, NEW r \in push[g].rows
                 PROVE  r.chg.id # c.id /\ r.seq # serial + 1
      BY DEF Distinct
    <3>1. r.chg.id # c.id
      BY DEF Blocked
    <3>2. r.seq <= serial /\ r.seq \in Nat
      BY <1>1 DEF IInv, Numbers, TypeOK, Insert, Call
    <3> QED
      BY <1>1, <3>1, <3>2
  <2>3. /\ LedgerIdsOnce'
        /\ \A r, s \in push'[h].rows : r = s \/ Distinct(r, s)
        /\ \A r \in push'[h].rows, s \in ledger : Distinct(r, s)
    BY <1>1, <1>2, <2>1 DEF IInv, UniqueRows, LedgerIdsOnce
  <2>4. \A g \in Handler \ {h} : /\ \A r, s \in push'[g].rows : r = s \/ Distinct(r, s)
                                 /\ \A r \in push'[g].rows, s \in ledger : Distinct(r, s)
    BY <1>1, <1>2 DEF IInv, UniqueRows
  <2>5. \A f, g \in Handler : f # g =>
           \A r \in push'[f].rows, s \in push'[g].rows : Distinct(r, s)
    <3> SUFFICES ASSUME NEW f \in Handler, NEW g \in Handler, f # g,
                        NEW r \in push'[f].rows, NEW s \in push'[g].rows
                 PROVE  Distinct(r, s)
      OBVIOUS
    <3>1. r = row \/ r \in push[f].rows
      BY <1>2
    <3>2. s = row \/ s \in push[g].rows
      BY <1>2
    <3>3. r \in push[f].rows \/ f = h
      BY <1>2
    <3>4. s \in push[g].rows \/ g = h
      BY <1>2
    <3> HIDE DEF row
    <3> QED
      BY <2>2, <3>1, <3>2, <3>3, <3>4 DEF IInv, UniqueRows
  <2> QED
    BY <1>1, <2>3, <2>4, <2>5 DEF UniqueRows, Distinct
<1>7. Authors'
  BY <1>1, <1>2 DEF IInv, Authors
<1>8. Winners'
  BY <1>1, <1>2 DEF IInv, Winners, ForksOverlap, NoOldRival
<1>9. Answers'
  <2>1. \A a \in push[h].req : InWork(h, a) => InWork(h, a)'
    <3> SUFFICES ASSUME NEW a \in push[h].req, InWork(h, a) PROVE InWork(h, a)'
      OBVIOUS
    <3>1. CASE a.id = c.id
      <4>1. row \in push'[h].rows /\ row.chg.id = a.id
        BY <1>2, <3>1
      <4> HIDE DEF row
      <4> QED
        BY <4>1 DEF InWork
    <3>2. CASE a.id # c.id
      BY <1>2, <3>2 DEF InWork
    <3> QED
      BY <3>1, <3>2
  <2>2. \A g \in Handler, a \in Change :
           /\ g # h => (InWork(g, a) => InWork(g, a)')
           /\ Covered(a) /\ NotDropped(g, a) => Covered(a)' /\ NotDropped(g, a)'
    BY <1>1, <1>2 DEF InWork, Covered, Stored, NotDropped
  <2>3. \A g \in Handler : push[g].req \subseteq Change
    BY <1>1 DEF Call
  <2> QED
    BY <1>1, <1>2, <2>1, <2>2, <2>3 DEF IInv, Answers
<1> QED
  BY <1>4, <1>5, <1>6, <1>7, <1>8, <1>9 DEF IInv

\* A duplicate is stored already, or inserted by the same transaction.
LEMMA SkipDuplicateInv ==
  ASSUME IInv, NEW h \in Handler, NEW c \in push[h].accept, Appending(h),
         SkipDuplicate(h, c), serial' = serial + 1,
         UNCHANGED <<ledger, commits>>, faults' \in Nat
  PROVE  IInv'
<1>1. PICK seq \in Known(h, c.id) :
        push' = [push EXCEPT ![h].accept = @ \ {c}, ![h].conflicts = @ \cup {c.id},
                             ![h].max = IF seq > @ THEN seq ELSE @]
  BY DEF SkipDuplicate
<1>2. /\ ledger' = ledger /\ commits' = commits
      /\ push \in [Handler -> Call] /\ push[h] \in Call /\ commits \in Nat /\ serial \in Nat
      /\ push[h].pc = "serving"
  BY DEF Appending, IInv, TypeOK
<1>3. /\ \A g \in Handler \ {h} : push'[g] = push[g]
      /\ push'[h].pc = "serving" /\ push'[h].req = push[h].req
      /\ push'[h].todo = push[h].todo /\ push'[h].accept = push[h].accept \ {c}
      /\ push'[h].rows = push[h].rows /\ push'[h].seen = push[h].seen
      /\ push'[h].conflicts = push[h].conflicts \cup {c.id}
  BY <1>1, <1>2 DEF Call
<1>4. c \in Change /\ c.id \in Nat
  BY <1>2 DEF Call, Change
<1>5. seq \in Nat /\ \E r \in ledger \cup push[h].rows : r.chg.id = c.id
  BY <1>1, <1>2 DEF Known, IInv, TypeOK, Row, Insert, Call
<1>6. TypeOK'
  <2> DEFINE accept == push[h].accept \ {c}
             conflicts == push[h].conflicts \cup {c.id}
             max == IF seq > push[h].max THEN seq ELSE push[h].max
  <2>1. push'[h] = [push[h] EXCEPT !.accept = accept, !.conflicts = conflicts, !.max = max]
    BY <1>1, <1>2
  <2>2. accept \in SUBSET Change /\ conflicts \in SUBSET Nat /\ max \in Nat
    BY <1>2, <1>4, <1>5 DEF Call
  <2> HIDE DEF accept, conflicts, max
  <2>3. push'[h] \in Call
    BY <1>2, <2>1, <2>2 DEF Call
  <2> QED
    BY <1>1, <1>2, <2>3 DEF IInv, TypeOK
<1>7. Numbers'
  <2>1. /\ \A r \in ledger : r.seq <= serial + 1
        /\ \A g \in Handler : \A r \in push[g].rows : r.seq <= serial + 1
    BY <1>2 DEF IInv, Numbers, TypeOK, Row, Insert, Call
  <2> QED
    BY <1>2, <1>3, <2>1 DEF IInv, Numbers
<1>8. UniqueRows'
  BY <1>2, <1>3 DEF IInv, UniqueRows, LedgerIdsOnce
<1>9. Authors'
  BY <1>2, <1>3 DEF IInv, Authors
<1>10. Winners'
  BY <1>2, <1>3 DEF IInv, Winners, ForksOverlap, NoOldRival
<1>11. Answers'
  <2>1. \A a \in push[h].req : InWork(h, a) => InWork(h, a)' \/ (Covered(a)' /\ NotDropped(h, a)')
    <3> SUFFICES ASSUME NEW a \in push[h].req, InWork(h, a)
                 PROVE  InWork(h, a)' \/ (Covered(a)' /\ NotDropped(h, a)')
      OBVIOUS
    <3>1. CASE a.id = c.id
      BY <1>2, <1>3, <1>5, <3>1 DEF InWork, Covered, Stored, NotDropped
    <3>2. CASE a.id # c.id
      BY <1>3, <3>2 DEF InWork
    <3> QED
      BY <3>1, <3>2
  <2>2. \A g \in Handler, a \in Change :
           /\ g # h => (InWork(g, a) => InWork(g, a)')
           /\ Covered(a) /\ NotDropped(g, a) => Covered(a)' /\ NotDropped(g, a)'
    BY <1>2, <1>3 DEF InWork, Covered, Stored, NotDropped
  <2>3. \A g \in Handler : push[g].req \subseteq Change
    BY <1>2 DEF Call
  <2> QED
    BY <1>2, <1>3, <2>1, <2>2, <2>3 DEF IInv, Answers
<1> QED
  BY <1>6, <1>7, <1>8, <1>9, <1>10, <1>11 DEF IInv

\* What a commit does to its call.
LEMMA CommitEffect ==
  ASSUME push \in [Handler -> Call], NEW h \in Handler, Commit(h)
  PROVE  /\ \A g \in Handler \ {h} : push'[g] = push[g]
         /\ push[h].pc = "serving" /\ push[h].todo = {} /\ push[h].accept = {}
         /\ push'[h].pc = "replied" /\ push'[h].req = push[h].req
         /\ push'[h].todo = {} /\ push'[h].accept = {} /\ push'[h].rows = {}
         /\ push'[h].seen = push[h].seen /\ push'[h].conflicts = push[h].conflicts
         /\ push[h].max > 0 => push'[h].max = push[h].max
         /\ push[h].rows # {} => push'[h].commit = commits + 1
<1> DEFINE max == IF push[h].max = 0 THEN TopSeq(ledger) ELSE push[h].max
           number == IF push[h].rows = {} THEN 0 ELSE commits + 1
<1>1. push' = [push EXCEPT ![h].pc = "replied", ![h].rows = {},
                           ![h].commit = number, ![h].max = max]
  BY DEF Commit
<1>2. /\ push[h].max > 0 => max = push[h].max
      /\ push[h].rows # {} => number = commits + 1
  OBVIOUS
<1>3. push[h].pc = "serving" /\ push[h].todo = {} /\ push[h].accept = {}
  BY DEF Commit, Appending
<1> HIDE DEF max, number
<1> QED
  BY <1>1, <1>2, <1>3 DEF Call

\* The rows of the committing transaction enter the ledger under a new commit number,
\* later than anything an open call has seen.
LEMMA CommitInv ==
  ASSUME IInv, NEW h \in Handler, Commit(h), faults' \in Nat
  PROVE  IInv'
<1> DEFINE new == Committed(h)
           max == IF push[h].max = 0 THEN TopSeq(ledger) ELSE push[h].max
           number == IF push[h].rows = {} THEN 0 ELSE commits + 1
<1>1. /\ push' = [push EXCEPT ![h].pc = "replied", ![h].rows = {},
                              ![h].commit = number, ![h].max = max]
      /\ ledger' = ledger \cup new /\ serial' = serial
      /\ commits' = IF push[h].rows = {} THEN commits ELSE commits + 1
      /\ push \in [Handler -> Call] /\ push[h] \in Call /\ commits \in Nat /\ serial \in Nat
      /\ push[h].todo = {} /\ push[h].accept = {}
  BY DEF Commit, Appending, IInv, TypeOK
<1>12. max \in Nat /\ number \in Nat
  <2>1. push[h].max \in Nat
    BY <1>1 DEF Call
  <2>2. TopSeq(ledger) \in Nat
    BY TopSeqNat DEF IInv
  <2>3. commits \in Nat
    BY DEF IInv, TypeOK
  <2> QED
    BY <2>1, <2>2, <2>3
<1> HIDE DEF max, number
<1>2. /\ \A g \in Handler \ {h} : push'[g] = push[g]
      /\ push'[h].pc = "replied" /\ push'[h].req = push[h].req
      /\ push'[h].todo = {} /\ push'[h].accept = {} /\ push'[h].rows = {}
      /\ push'[h].seen = push[h].seen /\ push'[h].conflicts = push[h].conflicts
  BY <1>1 DEF Call
<1>3. \A x \in new : \E r \in push[h].rows :
        x = [seq |-> r.seq, commit |-> commits + 1, seen |-> push[h].seen, chg |-> r.chg]
  BY DEF Committed
<1>4. \A r \in push[h].rows : \E x \in new : x.seq = r.seq /\ x.chg = r.chg
  <2> SUFFICES ASSUME NEW r \in push[h].rows
               PROVE  \E x \in new : x.seq = r.seq /\ x.chg = r.chg
    OBVIOUS
  <2> DEFINE x == [seq |-> r.seq, commit |-> commits + 1, seen |-> push[h].seen, chg |-> r.chg]
  <2>1. x \in new /\ x.seq = r.seq /\ x.chg = r.chg
    BY DEF Committed
  <2> HIDE DEF x, new
  <2> QED
    BY <2>1
<1>5. \A x \in new : /\ x \in Row /\ x.commit = commits + 1 /\ commits' = commits + 1
                     /\ x.seen = push[h].seen
                     /\ \E r \in push[h].rows : x.seq = r.seq /\ x.chg = r.chg
  BY <1>1, <1>3 DEF Row, Insert, Call
<1> HIDE DEF new
<1>6. TypeOK'
  <2>1. push'[h] = [push[h] EXCEPT !.pc = "replied", !.rows = {}, !.commit = number,
                                   !.max = max]
    BY <1>1
  <2>2. push'[h] \in Call
    BY <1>1, <1>12, <2>1 DEF Call
  <2> QED
    BY <1>1, <1>5, <2>2 DEF IInv, TypeOK
<1>7. Numbers'
  <2>1. commits' \in Nat /\ commits <= commits'
    BY <1>1
  <2>2. \A r \in new : /\ r.seq <= serial /\ 0 < r.commit /\ r.commit <= commits'
                       /\ r.seen < r.commit
    BY <1>1, <1>5 DEF IInv, Numbers, Call
  <2>3. \A r \in ledger : /\ r.seq <= serial /\ 0 < r.commit /\ r.commit <= commits'
                          /\ r.seen < r.commit
    BY <1>1, <2>1 DEF IInv, Numbers, TypeOK, Row
  <2>4. \A g \in Handler : /\ \A r \in push'[g].rows : r.seq <= serial
                           /\ push'[g].seen <= commits'
    BY <1>1, <1>2, <2>1 DEF IInv, Numbers, Call
  <2> QED
    BY <1>1, <2>2, <2>3, <2>4 DEF Numbers
<1>8. UniqueRows'
  <2>1. \A x \in new, y \in ledger : Distinct(x, y) /\ Distinct(y, x)
    BY <1>5 DEF IInv, UniqueRows, Distinct
  <2>2. \A x, y \in new : x = y \/ Distinct(x, y)
    <3> SUFFICES ASSUME NEW x \in new, NEW y \in new, ~ Distinct(x, y) PROVE x = y
      OBVIOUS
    <3>1. PICK r \in push[h].rows :
            x = [seq |-> r.seq, commit |-> commits + 1, seen |-> push[h].seen, chg |-> r.chg]
      BY <1>3
    <3>2. PICK s \in push[h].rows :
            y = [seq |-> s.seq, commit |-> commits + 1, seen |-> push[h].seen, chg |-> s.chg]
      BY <1>3
    <3>3. r = s
      BY <3>1, <3>2 DEF IInv, UniqueRows, Distinct
    <3> QED
      BY <3>1, <3>2, <3>3
  <2>3. LedgerIdsOnce'
    BY <1>1, <2>1, <2>2 DEF IInv, UniqueRows, LedgerIdsOnce, Distinct
  <2>4. \A g \in Handler \ {h} : \A r \in push[g].rows, x \in new : Distinct(r, x)
    BY <1>5 DEF IInv, UniqueRows, Distinct
  <2>5. \A g \in Handler : /\ \A r, s \in push'[g].rows : r = s \/ Distinct(r, s)
                           /\ \A r \in push'[g].rows, s \in ledger' : Distinct(r, s)
    BY <1>1, <1>2, <2>4 DEF IInv, UniqueRows
  <2>6. \A f, g \in Handler : f # g =>
           \A r \in push'[f].rows, s \in push'[g].rows : Distinct(r, s)
    BY <1>2 DEF IInv, UniqueRows
  <2> QED
    BY <2>3, <2>5, <2>6 DEF UniqueRows, Distinct
<1>9. Authors'
  BY <1>1, <1>2 DEF IInv, Authors
<1>10. Winners'
  <2>1. \A x \in new : \A g \in Handler : push[g].seen < x.commit
    BY <1>1, <1>5 DEF IInv, Numbers, Call
  <2>2. \A g \in Handler : \A c \in Change : NoOldRival(g, c) => NoOldRival(g, c)'
    <3> SUFFICES ASSUME NEW g \in Handler, NEW c \in Change, NoOldRival(g, c)
                 PROVE  NoOldRival(g, c)'
      OBVIOUS
    <3>1. push'[g].seen = push[g].seen
      BY <1>2
    <3> QED
      BY <1>1, <2>1, <3>1 DEF NoOldRival
  <2>3. \A g \in Handler : /\ \A c \in push'[g].accept : NoOldRival(g, c)'
                           /\ \A r \in push'[g].rows : NoOldRival(g, r.chg)'
    <3> SUFFICES ASSUME NEW g \in Handler \ {h}
                 PROVE  /\ \A c \in push'[g].accept : NoOldRival(g, c)'
                        /\ \A r \in push'[g].rows : NoOldRival(g, r.chg)'
      BY <1>2
    <3>1. /\ \A c \in push[g].accept : c \in Change /\ NoOldRival(g, c)
          /\ \A r \in push[g].rows : r.chg \in Change /\ NoOldRival(g, r.chg)
      BY <1>1 DEF IInv, Winners, Call, Insert
    <3> QED
      BY <1>2, <2>2, <3>1
  <2>4. ForksOverlap'
    <3> SUFFICES ASSUME NEW r \in ledger \cup new, NEW s \in ledger \cup new,
                        r # s, SameEntity(r.chg, s.chg), Strategy(r.chg.type) = "appendonly"
                 PROVE  r.commit = s.commit \/ (r.seen < s.commit /\ s.seen < r.commit)
      BY <1>1 DEF ForksOverlap
    <3>1. ASSUME NEW old \in ledger, NEW x \in new, SameEntity(old.chg, x.chg),
                 Strategy(x.chg.type) = "appendonly"
          PROVE  old.seen < x.commit /\ x.seen < old.commit
      <4>1. PICK t \in push[h].rows : x.chg = t.chg
        BY <1>5
      <4>2. NoOldRival(h, t.chg)
        BY DEF IInv, Winners
      <4>3. x.seen < old.commit
        BY <1>5, <3>1, <4>1, <4>2 DEF NoOldRival, SameEntity
      <4>4. /\ old.seen \in Nat /\ old.commit \in Nat
            /\ old.seen < old.commit /\ old.commit <= commits
        BY DEF IInv, Numbers, TypeOK, Row
      <4>5. x.commit = commits + 1
        BY <1>5
      <4> QED
        BY <1>1, <4>3, <4>4, <4>5
    <3>2. CASE r \in ledger /\ s \in ledger
      BY <3>2 DEF IInv, Winners, ForksOverlap
    <3>3. CASE r \in ledger /\ s \in new
      BY <3>1, <3>3 DEF SameEntity
    <3>4. CASE r \in new /\ s \in ledger
      BY <3>1, <3>4 DEF SameEntity
    <3>5. CASE r \in new /\ s \in new
      BY <1>5, <3>5
    <3> QED
      BY <3>2, <3>3, <3>4, <3>5
  <2> QED
    BY <2>3, <2>4 DEF Winners
<1>11. Answers'
  <2>1. \A g \in Handler, a \in Change :
           Covered(a) /\ NotDropped(g, a) => Covered(a)' /\ NotDropped(g, a)'
    BY <1>1, <1>2 DEF Covered, Stored, NotDropped
  <2>2. \A a \in Change : InWork(h, a) => Covered(a)' /\ NotDropped(h, a)'
    <3> SUFFICES ASSUME NEW a \in Change, InWork(h, a)
                 PROVE  Covered(a)' /\ NotDropped(h, a)'
      OBVIOUS
    <3>1. \E r \in push[h].rows : r.chg.id = a.id
      BY <1>1 DEF InWork
    <3>2. Stored(a.id)'
      BY <1>1, <1>4, <3>1 DEF Stored
    <3> QED
      BY <3>2 DEF Covered, NotDropped, Stored
  <2>3. \A g \in Handler \ {h}, a \in Change : InWork(g, a) => InWork(g, a)'
    BY <1>2 DEF InWork
  <2>4. \A g \in Handler : push[g].req \subseteq Change
    BY <1>1 DEF Call
  <2> QED
    BY <1>2, <2>1, <2>2, <2>3, <2>4 DEF IInv, Answers
<1> QED
  BY <1>6, <1>7, <1>8, <1>9, <1>10, <1>11 DEF IInv

\* Steps of a call, as any specification that composes the service takes them.
LEMMA CallStepInv ==
  ASSUME IInv, NEW h \in Handler, CallStep(h)
  PROVE  IInv'
<1>1. faults \in Nat
  BY DEF IInv, TypeOK
<1>2. CASE ResolveNext(h)
  <2>1. PICK c \in push[h].todo : Resolve(h, c, LatestFor(c), push[h].seen)
    BY <1>2 DEF ResolveNext
  <2>2. push[h].seen \in Nat
    BY DEF IInv, TypeOK, Call
  <2> QED
    BY <1>1, <1>2, <2>1, <2>2, ResolveInv DEF ResolveNext
<1>3. CASE ResolveBlind(h)
  <2>1. PICK c \in push[h].todo : Resolve(h, c, Nil, 0)
    BY <1>3 DEF ResolveBlind
  <2>2. faults' \in Nat
    BY <1>1, <1>3 DEF ResolveBlind, Fault
  <2> QED
    BY <2>1, <2>2, ResolveInv
<1>4. CASE InsertNext(h)
  <2>1. PICK c \in push[h].accept : ~Blocked(h, c) /\ (InsertNew(h, c) \/ SkipDuplicate(h, c))
    BY <1>4 DEF InsertNext
  <2>2. /\ Appending(h) /\ serial' = serial + 1
        /\ UNCHANGED <<ledger, commits>> /\ faults' \in Nat
    BY <1>1, <1>4 DEF InsertNext
  <2> QED
    BY <2>1, <2>2, InsertNewInv, SkipDuplicateInv
<1>5. CASE Commit(h)
  BY <1>1, <1>5, CommitInv DEF Commit
<1> QED
  BY <1>2, <1>3, <1>4, <1>5 DEF CallStep

-----------------------------------------------------------------------------
(* The theorems.                                                           *)

\* IInv is an invariant of the service.
THEOREM Invariant == CloudSpec => []IInv
<1>1. IInv /\ [CloudNext]_cloudVars => IInv'
  <2> SUFFICES ASSUME IInv, [CloudNext]_cloudVars PROVE IInv'
    OBVIOUS
  <2>1. faults \in Nat
    BY DEF IInv, TypeOK
  <2>2. ASSUME NEW h \in Handler, NEW batch \in Batches,
               PushBatch(h, batch), UNCHANGED faults
        PROVE  IInv'
    BY <2>1, <2>2, PushBatchInv, CloudAssumption
  <2>3. ASSUME NEW h \in Handler, CallStep(h) PROVE IInv'
    BY <2>3, CallStepInv
  <2>4. ASSUME NEW h \in Handler, Rollback(h) PROVE IInv'
    <3>1. faults' \in Nat
      BY <2>1, <2>4 DEF Rollback, Fault
    <3> QED
      BY <2>4, <3>1, ClearInv DEF Rollback
  <2>5. ASSUME NEW h \in Handler, EndCall(h), UNCHANGED faults PROVE IInv'
    BY <2>1, <2>5, ClearInv DEF EndCall
  <2>6. CASE UNCHANGED cloudVars
    BY <2>6 DEF cloudVars, IInv, TypeOK, Numbers, UniqueRows, LedgerIdsOnce, Authors,
                Winners, ForksOverlap, NoOldRival, Answers, InWork, Covered, Stored,
                NotDropped
  <2> QED
    BY <2>2, <2>3, <2>4, <2>5, <2>6 DEF CloudNext
<1> QED
  BY <1>1, InitInv, PTL DEF CloudSpec

\* Every variable keeps its type, whatever batches are pushed and whatever fails.
THEOREM TypeCorrect == CloudSpec => []TypeOK
BY Invariant, PTL DEF IInv

\* Push is idempotent: a change id is merged at most once, and no global sequence is
\* used twice, for any number of overlapping calls, retries and rollbacks.
THEOREM IdempotentPush == CloudSpec => []LedgerIdsOnce
BY Invariant, PTL DEF IInv, UniqueRows

\* The check outside the transaction lets two rows of an append-only entity in only
\* from one batch, from two calls each of which began before the other committed, or
\* from a call whose lookup failed.
THEOREM ForksNeedOverlap == CloudSpec => []ForksOverlap
BY Invariant, PTL DEF IInv, Winners

\* A successful reply accounts for every event of its request.
THEOREM TrueReplies == CloudSpec => []RepliesAreTrue
<1>1. IInv => RepliesAreTrue
  BY DEF IInv, Answers, RepliesAreTrue, InWork
<1> QED
  BY <1>1, Invariant, PTL

\* A commit adds its rows to the abstract log in one step; no other step of the
\* service shows there.
LEMMA LogStep ==
  ASSUME IInv, IInv', [CloudNext]_cloudVars
  PROVE  [MergedLog!Next]_LedgerLog
<1>1. CASE ledger' = ledger
  BY <1>1 DEF LedgerLog
<1>2. ASSUME NEW h \in Handler, Commit(h)
      PROVE  MergedLog!Next
  <2>1. ledger' = ledger \cup Committed(h)
    BY <1>2 DEF Commit
  <2>2. LedgerLog \subseteq LedgerLog'
    BY <2>1 DEF LedgerLog
  <2>3. \A e \in LedgerLog' \ LedgerLog : e \in MergedLog!Entry /\ e.chg.dev = DeviceOf[h]
    <3> SUFFICES ASSUME NEW e \in LedgerLog', e \notin LedgerLog
                 PROVE  e \in MergedLog!Entry /\ e.chg.dev = DeviceOf[h]
      OBVIOUS
    <3>1. PICK r \in ledger' : e = [pos |-> r.seq, chg |-> r.chg]
      BY DEF LedgerLog
    <3>2. r \in Committed(h)
      BY <2>1, <3>1 DEF LedgerLog
    <3>3. PICK t \in push[h].rows : r.chg = t.chg
      BY <3>2 DEF Committed
    <3>4. r.seq \in Nat /\ r.chg \in Change
      BY <3>1 DEF IInv, TypeOK, Row
    <3> QED
      BY <3>1, <3>3, <3>4 DEF MergedLog!Entry, IInv, Authors
  <2>4. MergedLog!OneEach(LedgerLog')
    <3>1. \A r, s \in ledger' : r.chg.id = s.chg.id \/ r.seq = s.seq => r = s
      BY DEF IInv, UniqueRows, LedgerIdsOnce
    <3> QED
      BY <3>1 DEF MergedLog!OneEach, LedgerLog
  <2>5. LedgerLog \cup (LedgerLog' \ LedgerLog) = LedgerLog'
    BY <2>2
  <2> QED
    BY <2>3, <2>4, <2>5 DEF MergedLog!Next, MergedLog!Append
<1>3. CloudNext => ledger' = ledger \/ \E h \in Handler : Commit(h)
  BY DEF CloudNext, CallStep, PushBatch, ResolveNext, ResolveBlind, Resolve, InsertNext,
         Rollback, EndCall
<1>4. CASE UNCHANGED cloudVars
  BY <1>1, <1>4 DEF cloudVars
<1> QED
  BY <1>1, <1>2, <1>3, <1>4

\* The service with its handlers, transactions, retries and failures implements a log
\* to which whole batches are added atomically, each change once.
THEOREM Refinement == CloudSpec => ImplementsMergeLog
<1>1. CloudInit => MergedLog!Init
  BY DEF CloudInit, MergedLog!Init, LedgerLog
<1> QED
  BY <1>1, LogStep, Invariant, PTL DEF CloudSpec, ImplementsMergeLog, MergedLog!Spec
=============================================================================
