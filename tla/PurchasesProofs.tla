-------------------------- MODULE PurchasesProofs --------------------------
(***************************************************************************)
(* Proofs about Purchases and Journal, for any purchases, orders, drafts,  *)
(* charts of accounts and cuts: the type invariant, the lines of the       *)
(* entries and their outbox rows, the outbox rows of the purchases, and    *)
(* the sums: what the journal books of a purchase and the goods in stock.  *)
(***************************************************************************)
EXTENDS Purchases, SumLemmas, TLAPS

-----------------------------------------------------------------------------
(* The inductive invariant.                                                *)

\* A request works on a purchase that exists; its journal is still to be posted at "post".
Requests ==
  /\ At("post") \/ At("tell") => job.id \in Purchase /\ purchase[job.id] # NoPurchase
  /\ At("post") => journal[job.id] = NoEntry
  /\ \A p \in Purchase : purchase[p] = NoPurchase => journal[p] = NoEntry

\* An entry that is being written has a prefix of the lines in hand, which balance; only
\* the entry of a purchase is 'posted' by then.
Writing ==
  At("line") \/ At("record") =>
    /\ job.id \in Entry /\ journal[job.id] # NoEntry /\ announced[job.id] = NoEntry
    /\ Valid(job.lines)
    /\ job.id \notin Purchase => journal[job.id].status # "posted"
    /\ At("line") => /\ Len(journal[job.id].lines) < Len(job.lines)
                     /\ \A i \in 1 .. Len(journal[job.id].lines) :
                          journal[job.id].lines[i] = job.lines[i]
    /\ At("record") => journal[job.id].lines = job.lines

\* Entries and their outbox rows.
Entries ==
  \A e \in Entry :
    /\ announced[e] # NoEntry => journal[e] # NoEntry /\ announced[e].lines = journal[e].lines
    /\ journal[e] # NoEntry /\ Written(e) /\ e \notin cut => announced[e] # NoEntry

\* Purchases and their outbox rows.
Outbox ==
  \A p \in Existing :
    /\ told[p] \in Told
    /\ told[p].paid = purchase[p].paid
    /\ p \notin untold /\ ~(At("tell") /\ job.id = p) => told[p].status = purchase[p].status

\* The entry of a purchase is the one _postAccounting makes of it, and a received
\* purchase is what it was made of.
EntryTellsPurchase ==
  \A p \in Purchase : journal[p] # NoEntry =>
    /\ purchase[p].status \in {"Received", "Cancelled"}
    /\ ~Written(p) => job.lines = Lines(purchase[p], chart)
    /\ Written(p) /\ p \notin cut => journal[p].lines = Lines(purchase[p], chart)

PurchasesIInv ==
  /\ PurchasesTypeOK
  /\ Requests
  /\ Writing
  /\ Entries
  /\ PostedEntriesBalance
  /\ Outbox
  /\ EntryTellsPurchase

-----------------------------------------------------------------------------
(* Facts about data.                                                       *)

\* An order has a quantity; what it costs may be of either sign.
LEMMA OrderTotal ==
  ASSUME NEW order \in Order
  PROVE  /\ order.qty \in Nat \ {0} /\ order.amount \in Int /\ order.tax \in Int
         /\ Total(order) \in Int
<1>1. order.qty \in Nat \ {0} /\ order.amount \in Int /\ order.tax \in Int
  BY PurchasesAssumption
<1> QED
  BY <1>1 DEF Total

\* What is due where not too much was paid.
LEMMA DueNatural ==
  ASSUME NEW order \in Order, NEW paid \in Prepaid, paid <= Total(order)
  PROVE  /\ paid \in Int /\ Total(order) - paid \in Nat
         /\ paid + (Total(order) - paid) = Total(order)
<1>1. paid \in Int
  BY PurchasesAssumption
<1>2. Total(order) \in Int
  BY OrderTotal
<1> QED
  BY <1>1, <1>2

\* The journal of a purchase is a sequence of lines.
LEMMA LinesType ==
  ASSUME NEW row \in PurchaseRow, NEW accounts \in SUBSET Account
  PROVE  Lines(row, accounts) \in Seq(Line)
<1>1. /\ row.paid \in Int /\ row.due \in Int
      /\ row.order.amount \in Int /\ row.order.tax \in Int
  BY OrderTotal DEF PurchaseRow
<1>2. \A acc \in Account, amount \in Int :
        Debit(acc, amount) \in Seq(Line) /\ Credit(acc, amount) \in Seq(Line)
  BY DEF Debit, Credit, Line
<1>3. /\ PaidTarget(accounts) \in Account /\ DueTarget(accounts) \in Account
      /\ "Inventory" \in Account /\ "Tax Paid" \in Account
  BY PurchasesAssumption DEF PaidTarget, DueTarget
<1>4. <<>> \in Seq(Line)
  OBVIOUS
<1>5. Debit("Inventory", row.order.amount) \in Seq(Line)
  BY <1>1, <1>2, <1>3
<1>6. (IF row.order.tax > 0 /\ "Tax Paid" \in accounts
        THEN Debit("Tax Paid", row.order.tax) ELSE <<>>) \in Seq(Line)
  <2>1. Debit("Tax Paid", row.order.tax) \in Seq(Line)
    BY <1>1, <1>2, <1>3
  <2> QED
    BY <2>1, <1>4, Zenon
<1>7. (IF row.paid > 0 THEN Credit(PaidTarget(accounts), row.paid) ELSE <<>>) \in Seq(Line)
  <2>1. Credit(PaidTarget(accounts), row.paid) \in Seq(Line)
    BY <1>1, <1>2, <1>3
  <2> QED
    BY <2>1, <1>4, Zenon
<1>8. (IF row.due > 0 THEN Credit(DueTarget(accounts), row.due) ELSE <<>>) \in Seq(Line)
  <2>1. Credit(DueTarget(accounts), row.due) \in Seq(Line)
    BY <1>1, <1>2, <1>3
  <2> QED
    BY <2>1, <1>4, Zenon
<1>9. \A a, b \in Seq(Line) : a \o b \in Seq(Line)
  OBVIOUS
<1> QED
  BY <1>5, <1>6, <1>7, <1>8, <1>9, Zenon DEF Lines

\* The lines do not depend on the status of the purchase.
LEMMA LinesKeep ==
  ASSUME NEW row \in PurchaseRow, NEW status \in Status, NEW accounts \in SUBSET Account
  PROVE  /\ [row EXCEPT !.status = status] \in PurchaseRow
         /\ [row EXCEPT !.status = status].status = status
         /\ [row EXCEPT !.status = status].paid = row.paid
         /\ Lines([row EXCEPT !.status = status], accounts) = Lines(row, accounts)
<1> DEFINE new == [row EXCEPT !.status = status]
<1>1. /\ new \in PurchaseRow /\ new.status = status
      /\ new.order = row.order /\ new.paid = row.paid /\ new.due = row.due
  BY DEF PurchaseRow
<1> HIDE DEF new
<1>2. Lines(new, accounts) = Lines(row, accounts)
  BY <1>1, Zenon DEF Lines
<1> QED
  BY <1>1, <1>2 DEF new

\* The next line is one of those in hand, and appending it keeps the prefix.
LEMMA NextPrefix ==
  ASSUME NEW lines \in Seq(Line), NEW done \in Seq(Line), Len(done) < Len(lines),
         \A i \in 1 .. Len(done) : done[i] = lines[i],
         NEW next, next = lines[Len(done) + 1]
  PROVE  /\ Append(done, next) \in Seq(Line)
         /\ Len(Append(done, next)) = Len(done) + 1
         /\ \A i \in 1 .. Len(Append(done, next)) : Append(done, next)[i] = lines[i]
         /\ Len(Append(done, next)) = Len(lines) => Append(done, next) = lines
         /\ Len(Append(done, next)) # Len(lines) => Len(Append(done, next)) < Len(lines)
<1>1. Len(done) \in Nat /\ Len(lines) \in Nat /\ Len(done) + 1 \in 1 .. Len(lines)
  OBVIOUS
<1>2. next \in Line
  BY <1>1
<1> DEFINE more == Append(done, next)
<1>3. /\ more \in Seq(Line) /\ Len(more) = Len(done) + 1
      /\ \A i \in 1 .. Len(done) : more[i] = done[i]
      /\ more[Len(done) + 1] = next
  BY <1>2
<1> HIDE DEF more
<1>4. \A i \in 1 .. Len(more) : more[i] = lines[i]
  BY <1>1, <1>3
<1>5. Len(more) = Len(lines) => more = lines
  BY <1>3, <1>4
<1>6. Len(more) # Len(lines) => Len(more) < Len(lines)
  BY <1>1, <1>3
<1> QED
  BY <1>3, <1>4, <1>5, <1>6 DEF more

\* No row is the value that stands for no row.
LEMMA RowsExist ==
  /\ \A row \in Row : row # NoEntry
  /\ \A row \in PurchaseRow \cup Told : row # NoPurchase
BY JournalAssumption, PurchasesAssumption

\* The rows behind what exists, and the idle server.
LEMMA Typed ==
  ASSUME PurchasesIInv
  PROVE  /\ \A e \in Entry : journal[e] # NoEntry =>
              /\ journal[e] \in Row /\ journal[e].lines \in Seq(Line)
              /\ journal[e].status \in {"draft", "posted"}
         /\ \A p \in Purchase : purchase[p] # NoPurchase =>
              purchase[p] \in PurchaseRow /\ purchase[p].status \in Status
         /\ Purchase \subseteq Entry /\ Existing \subseteq Purchase
         /\ NoJob \in Job /\ NoJob.step = "none" /\ NoJob.id \notin Entry
<1>1. Purchase \subseteq Entry
  BY PurchasesAssumption
<1> QED
  BY <1>1, JournalAssumption
     DEF PurchasesIInv, PurchasesTypeOK, Row, PurchaseRow, Existing, Job, NoJob

-----------------------------------------------------------------------------
(* The invariant holds initially, and each action preserves it.            *)

LEMMA PurchasesInit == Init => PurchasesIInv
<1> SUFFICES ASSUME Init PROVE PurchasesIInv
  OBVIOUS
<1>1. /\ NoJob \in Job /\ job.step = "none"
      /\ chart \subseteq Account /\ cut = {} /\ untold = {} /\ stock \in Nat /\ job \in Job
      /\ journal = [e \in Entry |-> NoEntry] /\ announced = [e \in Entry |-> NoEntry]
      /\ purchase = [p \in Purchase |-> NoPurchase] /\ told = [p \in Purchase |-> NoPurchase]
  <2>1. <<>> \in Seq(Line)
    OBVIOUS
  <2>2. NoJob \in Job /\ NoJob.step = "none"
    BY <2>1 DEF NoJob, Job
  <2> QED
    BY <2>2, PurchasesAssumption DEF Init, JournalInit
<1>2. PurchasesTypeOK
  BY <1>1 DEF PurchasesTypeOK
<1>3. Purchase \subseteq Entry
  BY PurchasesAssumption
<1> QED
  BY <1>1, <1>2, <1>3 DEF PurchasesIInv, Requests, Writing, Entries, PostedEntriesBalance,
     Outbox, EntryTellsPurchase, Existing, At

\* What a step outside the service leaves alone.
LEMMA PurchasesFrame ==
  ASSUME PurchasesIInv, UNCHANGED purchaseVars, ~At("tell"), job'.step # "tell"
  PROVE  Outbox'
BY DEF PurchasesIInv, Outbox, Existing, purchaseVars, At

\* A new entry: its header, with lines that balance in hand.
LEMMA InsertEntryInv ==
  ASSUME PurchasesIInv, NEW e \in Entry, NEW status \in {"draft", "posted"},
         NEW lines \in Seq(Line), InsertEntry(e, status, lines), UNCHANGED purchaseVars,
         journal[e] = NoEntry, ~At("tell"), ~At("line"), ~At("record"),
         At("post") => job.id = e,
         e \in Purchase => /\ purchase[e] # NoPurchase
                           /\ purchase[e].status = "Received"
                           /\ lines = Lines(purchase[e], chart),
         e \notin Purchase => status # "posted"
  PROVE  PurchasesIInv'
<1> DEFINE row == [status |-> status, lines |-> <<>>]
<1>1. /\ Valid(lines)
      /\ journal' = [journal EXCEPT ![e] = row]
      /\ job' = [step |-> "line", id |-> e, lines |-> lines]
      /\ UNCHANGED <<chart, announced, cut, purchase, stock, told, untold>>
  BY DEF InsertEntry, purchaseVars
<1>2. /\ row \in Row /\ row.status = status /\ row.lines = <<>> /\ row # NoEntry
  <2>1. <<>> \in Seq(Line)
    OBVIOUS
  <2>2. row \in Row
    BY <2>1 DEF Row
  <2> QED
    BY <2>2, JournalAssumption
<1> HIDE DEF row
<1>3. /\ job' \in Job /\ job'.step = "line" /\ job'.id = e /\ job'.lines = lines
  BY <1>1 DEF Job
<1>4. /\ journal' \in [Entry -> Row \cup {NoEntry}] /\ journal'[e] = row
      /\ \A f \in Entry \ {e} : journal'[f] = journal[f]
  BY <1>1, <1>2 DEF PurchasesIInv, PurchasesTypeOK
<1>5. /\ \A f \in Entry \ {e} : Written(f)' /\ Written(f)
      /\ ~Written(e)' /\ Purchase \subseteq Entry
  BY <1>3, Typed DEF Written, At
<1>6. PurchasesTypeOK'
  BY <1>1, <1>3, <1>4 DEF PurchasesIInv, PurchasesTypeOK
<1>7. Requests'
  BY <1>1, <1>3, <1>4, <1>5 DEF PurchasesIInv, Requests, At
<1>8. Writing'
  <2>1. lines # <<>> /\ Len(lines) \in Nat /\ Len(lines) > 0
    BY <1>1 DEF Valid
  <2>2. announced[e] = NoEntry
    BY DEF PurchasesIInv, Entries
  <2> QED
    BY <1>1, <1>2, <1>3, <1>4, <2>1, <2>2 DEF Writing, At
<1>9. Entries'
  BY <1>1, <1>2, <1>4, <1>5 DEF PurchasesIInv, Entries
<1>10. PostedEntriesBalance'
  BY <1>1, <1>4, <1>5 DEF PurchasesIInv, PostedEntriesBalance
<1>11. EntryTellsPurchase'
  BY <1>1, <1>2, <1>3, <1>4, <1>5 DEF PurchasesIInv, EntryTellsPurchase
<1> QED
  BY <1>3, <1>6, <1>7, <1>8, <1>9, <1>10, <1>11, PurchasesFrame DEF PurchasesIInv

LEMMA CreateJournalInv ==
  ASSUME PurchasesIInv, NEW e \in Manual, NEW lines \in Drafted,
         CreateJournal(e, lines), UNCHANGED purchaseVars
  PROVE  PurchasesIInv'
<1>1. e \in Entry /\ e \notin Purchase /\ lines \in Seq(Line)
  BY PurchasesAssumption
<1> QED
  BY <1>1, InsertEntryInv DEF CreateJournal, At

LEMMA PostPurchaseInv == PurchasesIInv /\ PostPurchase => PurchasesIInv'
<1> SUFFICES ASSUME PurchasesIInv, PostPurchase PROVE PurchasesIInv'
  OBVIOUS
<1>1. /\ job.id \in Purchase /\ purchase[job.id] # NoPurchase /\ journal[job.id] = NoEntry
      /\ purchase[job.id].status = "Received" /\ purchase[job.id] \in PurchaseRow
      /\ job.id \in Entry /\ job.step = "post" /\ chart \in SUBSET Account
  BY Typed DEF PurchasesIInv, PurchasesTypeOK, Requests, PostPurchase, Posts, At
<1>2. Lines(purchase[job.id], chart) \in Seq(Line)
  BY <1>1, LinesType
<1> QED
  BY <1>1, <1>2, InsertEntryInv DEF PostPurchase, At

LEMMA InsertLineInv ==
  ASSUME PurchasesIInv, InsertLine, UNCHANGED purchaseVars
  PROVE  PurchasesIInv'
<1> DEFINE e == job.id
           done == journal[e].lines
           more == Append(done, NextLine)
<1>1. /\ job.step = "line" /\ e \in Entry /\ journal[e] # NoEntry /\ announced[e] = NoEntry
      /\ Valid(job.lines) /\ (e \notin Purchase => journal[e].status # "posted")
      /\ Len(done) < Len(job.lines) /\ \A i \in 1 .. Len(done) : done[i] = job.lines[i]
      /\ job \in Job /\ job.lines \in Seq(Line)
      /\ journal[e] \in Row /\ done \in Seq(Line)
      /\ journal \in [Entry -> Row \cup {NoEntry}]
  BY Typed DEF InsertLine, At, PurchasesIInv, PurchasesTypeOK, Writing, Job
<1>2. /\ journal' = [journal EXCEPT ![e].lines = more]
      /\ job' = IF Len(journal'[e].lines) = Len(job.lines)
                THEN [job EXCEPT !.step = "record"] ELSE job
      /\ UNCHANGED <<chart, announced, cut, purchase, stock, told, untold>>
  BY DEF InsertLine, purchaseVars
<1>3. /\ more \in Seq(Line) /\ Len(more) = Len(done) + 1
      /\ \A i \in 1 .. Len(more) : more[i] = job.lines[i]
      /\ Len(more) = Len(job.lines) => more = job.lines
      /\ Len(more) # Len(job.lines) => Len(more) < Len(job.lines)
  <2>1. NextLine = job.lines[Len(done) + 1]
    BY DEF NextLine
  <2> QED
    BY <1>1, <2>1, NextPrefix
<1> HIDE DEF more
<1>4. /\ journal' \in [Entry -> Row \cup {NoEntry}]
      /\ journal'[e] \in Row /\ journal'[e].lines = more /\ journal'[e].status = journal[e].status
      /\ \A f \in Entry \ {e} : journal'[f] = journal[f]
  BY <1>1, <1>2, <1>3 DEF Row
<1>5. /\ journal'[e] # NoEntry
  BY <1>4, JournalAssumption
<1>6. /\ job' \in Job /\ job'.id = e /\ job'.lines = job.lines
      /\ \/ job'.step = "record" /\ more = job.lines
         \/ job'.step = "line" /\ Len(more) < Len(job.lines)
  BY <1>1, <1>2, <1>3, <1>4 DEF Job
<1>7. /\ \A f \in Entry : /\ Written(f) <=> f # e
                          /\ Written(f)' <=> f # e
      /\ Purchase \subseteq Entry
  BY <1>1, <1>6, Typed DEF Written, At
<1> HIDE DEF e, done
<1>8. PurchasesTypeOK'
  BY <1>2, <1>4, <1>6 DEF PurchasesIInv, PurchasesTypeOK
<1>9. Requests'
  BY <1>1, <1>2, <1>4, <1>6, <1>7 DEF PurchasesIInv, Requests, At
<1>10. Writing'
  BY <1>1, <1>2, <1>3, <1>4, <1>5, <1>6 DEF Writing, At
<1>11. Entries'
  BY <1>1, <1>2, <1>4, <1>5, <1>7 DEF PurchasesIInv, Entries
<1>12. PostedEntriesBalance'
  BY <1>2, <1>4, <1>7 DEF PurchasesIInv, PostedEntriesBalance
<1>13. EntryTellsPurchase'
  BY <1>1, <1>2, <1>4, <1>6, <1>7 DEF PurchasesIInv, EntryTellsPurchase
<1> QED
  BY <1>1, <1>6, <1>8, <1>9, <1>10, <1>11, <1>12, <1>13, PurchasesFrame DEF PurchasesIInv, At

\* The request on an entry ends before its last statement: by a cut or a refused line.
LEMMA EndWriting ==
  ASSUME PurchasesIInv, job' = NoJob, cut' = cut \cup {job.id}, job.id \in Entry,
         ~At("tell"), UNCHANGED <<chart, journal, announced>>, UNCHANGED purchaseVars
  PROVE  PurchasesIInv'
<1>1. /\ job' \in Job /\ job'.step = "none" /\ Purchase \subseteq Entry
      /\ UNCHANGED <<purchase, stock, told, untold>>
  BY Typed DEF purchaseVars
<1>2. /\ \A e \in Entry : Written(e)'
      /\ \A e \in Entry : e \notin cut' => Written(e) /\ e \notin cut
  BY <1>1 DEF Written, At
<1>3. PurchasesTypeOK'
  BY <1>1 DEF PurchasesIInv, PurchasesTypeOK
<1>4. Requests' /\ Writing'
  BY <1>1 DEF PurchasesIInv, Requests, Writing, At
<1>5. Entries'
  BY <1>2 DEF PurchasesIInv, Entries
<1>6. PostedEntriesBalance'
  <2> SUFFICES ASSUME NEW e \in Entry, journal[e] # NoEntry, journal[e].status = "posted",
                      e \in Purchase => e \notin cut'
               PROVE  Valid(journal[e].lines)
    BY DEF PostedEntriesBalance
  <2>1. CASE Written(e)
    BY <2>1, <1>2 DEF PurchasesIInv, PostedEntriesBalance
  <2>2. CASE ~Written(e)
    BY <2>2, <1>2 DEF PurchasesIInv, Writing, Written
  <2> QED
    BY <2>1, <2>2
<1>7. EntryTellsPurchase'
  BY <1>1, <1>2 DEF PurchasesIInv, EntryTellsPurchase
<1> QED
  BY <1>1, <1>3, <1>4, <1>5, <1>6, <1>7, PurchasesFrame DEF PurchasesIInv

LEMMA RefuseLineInv ==
  ASSUME PurchasesIInv, RefuseLine, UNCHANGED purchaseVars
  PROVE  PurchasesIInv'
<1>1. job.id \in Entry /\ ~At("tell")
  BY DEF RefuseLine, PurchasesIInv, Writing, At
<1> QED
  BY <1>1, EndWriting DEF RefuseLine

LEMMA RecordJournalChangeInv ==
  ASSUME PurchasesIInv, RecordJournalChange, UNCHANGED purchaseVars
  PROVE  PurchasesIInv'
<1> DEFINE e == job.id
           row == [status |-> journal[e].status, lines |-> job.lines]
<1>1. /\ job.step = "record" /\ e \in Entry /\ journal[e] # NoEntry /\ announced[e] = NoEntry
      /\ Valid(job.lines) /\ journal[e].lines = job.lines
      /\ journal[e] \in Row /\ journal[e].lines \in Seq(Line)
      /\ journal[e].status \in {"draft", "posted"}
  BY Typed DEF RecordJournalChange, At, PurchasesIInv, Writing
<1>2. /\ announced' = [announced EXCEPT ![e] = row]
      /\ job' \in Job /\ job'.step = "none"
      /\ UNCHANGED <<chart, journal, cut, purchase, stock, told, untold>>
  BY Typed DEF RecordJournalChange, purchaseVars
<1>3. row \in Row /\ row.lines = job.lines /\ row # NoEntry
  BY <1>1, JournalAssumption DEF Row
<1> HIDE DEF row
<1>4. /\ announced' \in [Entry -> Row \cup {NoEntry}] /\ announced'[e] = row
      /\ \A f \in Entry \ {e} : announced'[f] = announced[f]
  BY <1>1, <1>2, <1>3 DEF PurchasesIInv, PurchasesTypeOK
<1>5. /\ \A f \in Entry \ {e} : Written(f)
      /\ \A f \in Entry : Written(f)'
      /\ ~Written(e) /\ Purchase \subseteq Entry
  BY <1>1, <1>2, Typed DEF Written, At
<1> HIDE DEF e
<1>6. PurchasesTypeOK'
  BY <1>2, <1>4 DEF PurchasesIInv, PurchasesTypeOK
<1>7. Requests' /\ Writing'
  BY <1>2 DEF PurchasesIInv, Requests, Writing, At
<1>8. Entries'
  BY <1>1, <1>2, <1>3, <1>4, <1>5 DEF PurchasesIInv, Entries
<1>9. PostedEntriesBalance'
  BY <1>1, <1>2, <1>5 DEF PurchasesIInv, PostedEntriesBalance
<1>10. EntryTellsPurchase'
  BY <1>1, <1>2, <1>5 DEF PurchasesIInv, EntryTellsPurchase
<1> QED
  BY <1>1, <1>2, <1>6, <1>7, <1>8, <1>9, <1>10, PurchasesFrame DEF PurchasesIInv, At

LEMMA PostJournalInv ==
  ASSUME PurchasesIInv, NEW e \in Entry, PostJournal(e), UNCHANGED purchaseVars
  PROVE  PurchasesIInv'
<1>1. /\ job.step = "none" /\ journal[e] # NoEntry /\ Valid(journal[e].lines)
      /\ journal' = [journal EXCEPT ![e].status = "posted"]
      /\ UNCHANGED <<chart, announced, job, cut, purchase, stock, told, untold>>
      /\ journal[e] \in Row /\ journal \in [Entry -> Row \cup {NoEntry}]
      /\ Purchase \subseteq Entry
  BY Typed DEF PostJournal, At, purchaseVars, PurchasesIInv, PurchasesTypeOK
<1>2. /\ journal'[e] \in Row /\ journal'[e].lines = journal[e].lines
      /\ journal' \in [Entry -> Row \cup {NoEntry}]
      /\ \A f \in Entry \ {e} : journal'[f] = journal[f]
  BY <1>1 DEF Row
<1>3. journal'[e] # NoEntry
  BY <1>2, JournalAssumption
<1>4. \A f \in Entry : Written(f)' = Written(f)
  BY <1>1 DEF Written, At
<1>5. PurchasesTypeOK'
  BY <1>1, <1>2 DEF PurchasesIInv, PurchasesTypeOK
<1>6. Requests' /\ Writing'
  BY <1>1, <1>2 DEF PurchasesIInv, Requests, Writing, At
<1>7. Entries'
  BY <1>1, <1>2, <1>3, <1>4 DEF PurchasesIInv, Entries
<1>8. PostedEntriesBalance'
  BY <1>1, <1>2, <1>4 DEF PurchasesIInv, PostedEntriesBalance
<1>9. EntryTellsPurchase'
  BY <1>1, <1>2, <1>4 DEF PurchasesIInv, EntryTellsPurchase
<1> QED
  BY <1>1, <1>5, <1>6, <1>7, <1>8, <1>9, PurchasesFrame DEF PurchasesIInv, At, purchaseVars

LEMMA PostNothingInv == PurchasesIInv /\ PostNothing => PurchasesIInv'
<1> SUFFICES ASSUME PurchasesIInv, PostNothing PROVE PurchasesIInv'
  OBVIOUS
<1>1. /\ job.step = "post" /\ job' \in Job /\ job'.step = "none"
      /\ UNCHANGED <<chart, journal, announced, cut, purchase, stock, told, untold>>
  BY Typed DEF PostNothing, At, purchaseVars
<1>2. \A e \in Entry : Written(e) /\ Written(e)'
  BY <1>1 DEF Written, At
<1>3. PurchasesTypeOK'
  BY <1>1 DEF PurchasesIInv, PurchasesTypeOK
<1>4. Requests' /\ Writing'
  BY <1>1 DEF PurchasesIInv, Requests, Writing, At
<1>5. Entries' /\ PostedEntriesBalance'
  BY <1>1, <1>2 DEF PurchasesIInv, Entries, PostedEntriesBalance
<1>6. EntryTellsPurchase'
  <2>1. Purchase \subseteq Entry
    BY Typed
  <2> QED
    BY <1>1, <1>2, <2>1 DEF PurchasesIInv, EntryTellsPurchase
<1> QED
  BY <1>1, <1>3, <1>4, <1>5, <1>6, PurchasesFrame DEF PurchasesIInv, At, purchaseVars

LEMMA CreatePurchaseInv ==
  ASSUME PurchasesIInv, NEW p \in Purchase, NEW status \in Status, NEW order \in Order,
         NEW paid \in Prepaid, CreatePurchase(p, status, order, paid)
  PROVE  PurchasesIInv'
<1> DEFINE row == [status |-> status, order |-> order, paid |-> paid,
                   due |-> Total(order) - paid]
           new == [status |-> status, paid |-> paid]
<1>1. /\ job.step = "none" /\ purchase[p] = NoPurchase /\ paid <= Total(order)
      /\ purchase' = [purchase EXCEPT ![p] = row]
      /\ stock' = IF status = "Received" THEN stock + order.qty ELSE stock
      /\ told' = [told EXCEPT ![p] = new]
      /\ job' = [step |-> "post", id |-> p, lines |-> <<>>]
      /\ UNCHANGED <<chart, journal, announced, cut, untold>>
  BY DEF CreatePurchase, At
<1>2. paid \in Int /\ Total(order) - paid \in Nat
  BY <1>1, DueNatural
<1>3. row \in PurchaseRow /\ new \in Told
  BY <1>2 DEF PurchaseRow, Told
<1>4. /\ row.status = status /\ row.paid = paid /\ new.status = status /\ new.paid = paid
      /\ row # NoPurchase
  BY <1>3, PurchasesAssumption
<1> HIDE DEF row, new
<1>5. /\ purchase' \in [Purchase -> PurchaseRow \cup {NoPurchase}] /\ purchase'[p] = row
      /\ told' \in [Purchase -> Told \cup {NoPurchase}] /\ told'[p] = new
      /\ \A q \in Purchase \ {p} : purchase'[q] = purchase[q] /\ told'[q] = told[q]
  BY <1>1, <1>3 DEF PurchasesIInv, PurchasesTypeOK
<1>6. job' \in Job /\ job'.step = "post" /\ job'.id = p
  <2>1. p \in Entry /\ <<>> \in Seq(Line)
    BY Typed
  <2> QED
    BY <1>1, <2>1 DEF Job
<1>7. stock' \in Nat
  BY <1>1, OrderTotal DEF PurchasesIInv, PurchasesTypeOK
<1>8. /\ \A e \in Entry : Written(e) /\ Written(e)'
      /\ Purchase \subseteq Entry /\ journal[p] = NoEntry
  BY <1>1, <1>6, Typed DEF Written, At, PurchasesIInv, Requests
<1>9. PurchasesTypeOK'
  BY <1>1, <1>5, <1>6, <1>7 DEF PurchasesIInv, PurchasesTypeOK
<1>10. Requests'
  BY <1>1, <1>4, <1>5, <1>6, <1>8 DEF PurchasesIInv, Requests, At
<1>11. Writing'
  BY <1>6 DEF Writing, At
<1>12. Entries' /\ PostedEntriesBalance'
  BY <1>1, <1>8 DEF PurchasesIInv, Entries, PostedEntriesBalance
<1>13. Outbox'
  <2>1. Existing' = Existing \cup {p}
    BY <1>4, <1>5 DEF Existing
  <2> QED
    BY <1>1, <1>3, <1>4, <1>5, <2>1, Typed DEF PurchasesIInv, Outbox, At
<1>14. EntryTellsPurchase'
  BY <1>1, <1>5, <1>8 DEF PurchasesIInv, EntryTellsPurchase
<1> QED
  BY <1>9, <1>10, <1>11, <1>12, <1>13, <1>14 DEF PurchasesIInv

\* An update of the status that makes no purchase received and leaves no received one
\* anything but cancelled.
LEMMA SetStatusInv ==
  ASSUME PurchasesIInv, NEW p \in Purchase, NEW status \in Status, SetStatus(p, status),
         purchase[p] # NoPurchase, job.step = "none",
         journal[p] # NoEntry => status = "Cancelled"
  PROVE  PurchasesIInv'
<1> DEFINE row == [purchase[p] EXCEPT !.status = status]
<1>1. /\ purchase' = [purchase EXCEPT ![p] = row]
      /\ job' = [step |-> "tell", id |-> p, lines |-> <<>>]
      /\ UNCHANGED <<chart, journal, announced, cut, stock, told, untold>>
      /\ purchase[p] \in PurchaseRow /\ chart \in SUBSET Account
  BY Typed DEF SetStatus, PurchasesIInv, PurchasesTypeOK
<1>2. /\ row \in PurchaseRow /\ row.status = status /\ row.paid = purchase[p].paid
      /\ Lines(row, chart) = Lines(purchase[p], chart) /\ row # NoPurchase
  BY <1>1, LinesKeep, RowsExist
<1> HIDE DEF row
<1>3. /\ purchase' \in [Purchase -> PurchaseRow \cup {NoPurchase}] /\ purchase'[p] = row
      /\ \A q \in Purchase \ {p} : purchase'[q] = purchase[q]
  BY <1>1, <1>2 DEF PurchasesIInv, PurchasesTypeOK
<1>4. job' \in Job /\ job'.step = "tell" /\ job'.id = p
  <2>1. p \in Entry /\ <<>> \in Seq(Line)
    BY Typed
  <2> QED
    BY <1>1, <2>1 DEF Job
<1>5. (\A e \in Entry : Written(e) /\ Written(e)') /\ Purchase \subseteq Entry
  BY <1>1, <1>4, Typed DEF Written, At
<1>6. PurchasesTypeOK'
  BY <1>1, <1>3, <1>4 DEF PurchasesIInv, PurchasesTypeOK
<1>7. Requests' /\ Writing'
  BY <1>1, <1>2, <1>3, <1>4 DEF PurchasesIInv, Requests, Writing, At
<1>8. Entries' /\ PostedEntriesBalance'
  BY <1>1, <1>5 DEF PurchasesIInv, Entries, PostedEntriesBalance
<1>9. Outbox'
  <2>1. Existing' = Existing /\ p \in Existing
    BY <1>2, <1>3 DEF Existing
  <2> QED
    BY <1>1, <1>2, <1>3, <1>4, <2>1, Typed DEF PurchasesIInv, Outbox, At
<1>10. EntryTellsPurchase'
  BY <1>1, <1>2, <1>3, <1>5 DEF PurchasesIInv, EntryTellsPurchase
<1> QED
  BY <1>6, <1>7, <1>8, <1>9, <1>10 DEF PurchasesIInv

LEMMA UpdatePurchaseInv ==
  ASSUME PurchasesIInv, NEW p \in Purchase, NEW status \in Status, UpdatePurchase(p, status)
  PROVE  PurchasesIInv'
<1>1. purchase[p].status \in Editable => journal[p] = NoEntry
  BY DEF PurchasesIInv, EntryTellsPurchase, Editable
<1> QED
  BY <1>1, SetStatusInv DEF UpdatePurchase, At

LEMMA CancelPurchaseInv ==
  ASSUME PurchasesIInv, NEW p \in Purchase, CancelPurchase(p)
  PROVE  PurchasesIInv'
BY SetStatusInv DEF CancelPurchase, At, Status

\* The outbox catches up with the status, also with one whose row was cut away.
LEMMA TellStatusInv == PurchasesIInv /\ TellStatus => PurchasesIInv'
<1> SUFFICES ASSUME PurchasesIInv, TellStatus PROVE PurchasesIInv'
  OBVIOUS
<1> DEFINE p == job.id
           new == [told[p] EXCEPT !.status = purchase[p].status]
<1>1. /\ job.step = "tell" /\ p \in Purchase /\ purchase[p] # NoPurchase /\ p \in Existing
      /\ told' = [told EXCEPT ![p] = new]
      /\ untold' = untold \ {p} /\ job' \in Job /\ job'.step = "none"
      /\ UNCHANGED <<chart, journal, announced, cut, purchase, stock>>
      /\ told[p] \in Told /\ told[p].paid = purchase[p].paid /\ purchase[p].status \in Status
  BY Typed DEF TellStatus, At, PurchasesIInv, Requests, Outbox, Existing
<1>2. new \in Told /\ new.status = purchase[p].status /\ new.paid = purchase[p].paid
  BY <1>1 DEF Told
<1> HIDE DEF new
<1>3. /\ told' \in [Purchase -> Told \cup {NoPurchase}] /\ told'[p] = new
      /\ \A q \in Purchase \ {p} : told'[q] = told[q]
  BY <1>1, <1>2 DEF PurchasesIInv, PurchasesTypeOK
<1>4. (\A e \in Entry : Written(e) /\ Written(e)') /\ Purchase \subseteq Entry
  BY <1>1, Typed DEF Written, At
<1>5. PurchasesTypeOK'
  BY <1>1, <1>3 DEF PurchasesIInv, PurchasesTypeOK
<1>6. Requests' /\ Writing'
  BY <1>1 DEF PurchasesIInv, Requests, Writing, At
<1>7. Entries' /\ PostedEntriesBalance'
  BY <1>1, <1>4 DEF PurchasesIInv, Entries, PostedEntriesBalance
<1>8. Outbox'
  <2>1. Existing' = Existing /\ Existing \subseteq Purchase
    BY <1>1 DEF Existing
  <2> QED
    BY <1>1, <1>2, <1>3, <2>1 DEF PurchasesIInv, Outbox, At
<1>9. EntryTellsPurchase'
  BY <1>1, <1>4 DEF PurchasesIInv, EntryTellsPurchase
<1> QED
  BY <1>5, <1>6, <1>7, <1>8, <1>9 DEF PurchasesIInv

\* A cut at "tell" leaves an outbox row missing, any other one ends a posting.
LEMMA CutInv == PurchasesIInv /\ Cut => PurchasesIInv'
<1> SUFFICES ASSUME PurchasesIInv, Cut PROVE PurchasesIInv'
  OBVIOUS
<1>1. /\ job.step \in {"post", "line", "record", "tell"} /\ job' \in Job /\ job' = NoJob
      /\ job'.step = "none"
      /\ UNCHANGED <<chart, journal, announced, purchase, stock, told>>
  BY Typed DEF Cut, PurchasesIInv, PurchasesTypeOK, Job
<1>2. job.id \in Entry
  BY <1>1, Typed DEF PurchasesIInv, Requests, Writing, At
<1>3. CASE job.step # "tell"
  BY <1>1, <1>2, <1>3, EndWriting DEF Cut, At, purchaseVars
<1>4. CASE job.step = "tell"
  <2>1. untold' = untold \cup {job.id} /\ cut' = cut /\ job.id \in Purchase
    BY <1>4 DEF Cut, At, PurchasesIInv, Requests
  <2>2. (\A e \in Entry : Written(e) /\ Written(e)') /\ Purchase \subseteq Entry
    BY <1>1, <1>4, Typed DEF Written, At
  <2>3. PurchasesTypeOK'
    BY <1>1, <2>1 DEF PurchasesIInv, PurchasesTypeOK
  <2>4. Requests' /\ Writing'
    BY <1>1 DEF PurchasesIInv, Requests, Writing, At
  <2>5. Entries' /\ PostedEntriesBalance'
    BY <1>1, <2>1, <2>2 DEF PurchasesIInv, Entries, PostedEntriesBalance
  <2>6. Outbox'
    BY <1>1, <1>4, <2>1 DEF PurchasesIInv, Outbox, Existing, At
  <2>7. EntryTellsPurchase'
    BY <1>1, <2>1, <2>2 DEF PurchasesIInv, EntryTellsPurchase
  <2> QED
    BY <2>3, <2>4, <2>5, <2>6, <2>7 DEF PurchasesIInv
<1> QED
  BY <1>3, <1>4

-----------------------------------------------------------------------------
(* Theorems.                                                               *)

\* The inductive invariant holds in every reachable state, for any purchases, orders,
\* drafts, charts of accounts and bounds.
THEOREM PurchasesInvariant == Spec => []PurchasesIInv
<1>1. PurchasesIInv /\ [Next]_vars => PurchasesIInv'
  <2> SUFFICES ASSUME PurchasesIInv, [Next]_vars PROVE PurchasesIInv'
    OBVIOUS
  <2>1. ASSUME NEW p \in Purchase, NEW status \in Status, NEW order \in Order,
               NEW paid \in Prepaid, CreatePurchase(p, status, order, paid)
        PROVE  PurchasesIInv'
    BY <2>1, CreatePurchaseInv
  <2>2. CASE PostNothing \/ PostPurchase \/ TellStatus \/ Cut
    BY <2>2, PostNothingInv, PostPurchaseInv, TellStatusInv, CutInv
  <2>3. ASSUME NEW p \in Purchase, NEW status \in Status, UpdatePurchase(p, status)
        PROVE  PurchasesIInv'
    BY <2>3, UpdatePurchaseInv
  <2>4. ASSUME NEW p \in Purchase, CancelPurchase(p) PROVE PurchasesIInv'
    BY <2>4, CancelPurchaseInv
  <2>5. CASE Bookkeeping
    <3>1. ASSUME NEW e \in Manual, NEW lines \in Drafted, CreateJournal(e, lines)
          PROVE  PurchasesIInv'
      BY <2>5, <3>1, CreateJournalInv DEF Bookkeeping
    <3>2. CASE InsertLine \/ RefuseLine \/ RecordJournalChange
      BY <2>5, <3>2, InsertLineInv, RefuseLineInv, RecordJournalChangeInv DEF Bookkeeping
    <3>3. ASSUME NEW e \in Entry, PostJournal(e) PROVE PurchasesIInv'
      BY <2>5, <3>3, PostJournalInv DEF Bookkeeping
    <3> QED
      BY <2>5, <3>1, <3>2, <3>3 DEF Bookkeeping
  <2>6. CASE UNCHANGED vars
    BY <2>6 DEF vars, journalVars, purchaseVars, PurchasesIInv, PurchasesTypeOK, Requests,
                Writing, Entries, PostedEntriesBalance, Outbox, EntryTellsPurchase, Existing,
                Written, At
  <2> QED
    BY <2>1, <2>2, <2>3, <2>4, <2>5, <2>6 DEF Next
<1> QED
  BY PurchasesInit, <1>1, PTL DEF Spec

\* Type correctness: no due amount is negative, no row of a journal or of the outbox has
\* another shape.
THEOREM PurchasesTypeCorrect == Spec => []PurchasesTypeOK
<1>1. PurchasesIInv => PurchasesTypeOK
  BY DEF PurchasesIInv
<1> QED
  BY <1>1, PurchasesInvariant, PTL

\* An outbox row of a journal entry has exactly the lines of the table and is missing only
\* where the request was cut or a line refused.
THEOREM EntriesTold == Spec => []EntriesAreWhole
<1>1. PurchasesIInv => EntriesAreWhole
  BY DEF PurchasesIInv, Entries, EntriesAreWhole
<1> QED
  BY <1>1, PurchasesInvariant, PTL

\* The books balance: postJournal checks the lines it reads back, and an entry that is
\* posted from the start is incomplete only where its request was cut.
THEOREM BooksBalance == Spec => []PostedEntriesBalance
<1>1. PurchasesIInv => PostedEntriesBalance
  BY DEF PurchasesIInv
<1> QED
  BY <1>1, PurchasesInvariant, PTL

\* The entry of a purchase has exactly the lines that _postAccounting makes of the row, as
\* long as its request was not cut, whatever happens to the purchase afterwards.
THEOREM EntryIsOfPurchase == Spec => []EntryTellsPurchase
<1>1. PurchasesIInv => EntryTellsPurchase
  BY DEF PurchasesIInv
<1> QED
  BY <1>1, PurchasesInvariant, PTL

\* Peers hear of a purchase as it is, unless its last request was cut.
THEOREM PurchasesTold == Spec => []OutboxTellsPurchases
<1>1. ASSUME PurchasesIInv, NEW p \in Existing, p \notin untold, ~(At("tell") /\ job.id = p)
      PROVE  told[p] = [status |-> purchase[p].status, paid |-> purchase[p].paid]
  <2>1. told[p] \in Told /\ told[p].paid = purchase[p].paid /\ told[p].status = purchase[p].status
    BY <1>1 DEF PurchasesIInv, Outbox
  <2> QED
    BY <2>1 DEF Told
<1>2. PurchasesIInv => OutboxTellsPurchases
  BY <1>1 DEF OutboxTellsPurchases
<1> QED
  BY <1>2, PurchasesInvariant, PTL

-----------------------------------------------------------------------------
(* The sums over the lines of an entry.                                    *)

Sides == {"debit", "credit"}

\* What the lines book on one side of some accounts, line by line and together.
Column(lines, accs, side) ==
  [i \in DOMAIN lines |-> IF lines[i].acc \in accs THEN lines[i][side] ELSE 0]

Side(lines, accs, side) == SumFunctionOnSet(Column(lines, accs, side), 1 .. Len(lines))

\* The amounts of a line.
LEMMA LineAmounts ==
  ASSUME NEW line \in Line
  PROVE  /\ line.acc \in Account
         /\ line["debit"] = line.debit /\ line["credit"] = line.credit
         /\ \A side \in Sides : line[side] \in Int
BY DEF Line, Sides

\* A column has integers, also from the lines that follow other lines.
LEMMA ColumnAt ==
  ASSUME NEW lines \in Seq(Line), NEW accs, NEW side \in Sides
  PROVE  /\ Len(lines) \in Nat /\ IsFiniteSet(1 .. Len(lines))
         /\ \A i \in 1 .. Len(lines) :
              /\ lines[i] \in Line
              /\ Column(lines, accs, side)[i] \in Int
              /\ Column(lines, accs, side)[i]
                   = IF lines[i].acc \in accs THEN lines[i][side] ELSE 0
<1>1. /\ Len(lines) \in Nat /\ DOMAIN lines = 1 .. Len(lines)
      /\ \A i \in 1 .. Len(lines) : lines[i] \in Line
  OBVIOUS
<1>2. IsFiniteSet(1 .. Len(lines))
  BY <1>1, FS_Interval
<1>3. \A i \in 1 .. Len(lines) : Column(lines, accs, side)[i]
        = IF lines[i].acc \in accs THEN lines[i][side] ELSE 0
  BY <1>1 DEF Column
<1>4. \A i \in 1 .. Len(lines) : lines[i][side] \in Int
  BY <1>1, LineAmounts
<1> QED
  BY <1>1, <1>2, <1>3, <1>4

\* A side is an integer.
LEMMA SideInt ==
  ASSUME NEW lines \in Seq(Line), NEW accs, NEW side \in Sides
  PROVE  Side(lines, accs, side) \in Int
<1> DEFINE f == Column(lines, accs, side)
<1>1. IsFiniteSet(1 .. Len(lines)) /\ \A i \in 1 .. Len(lines) : f[i] \in Int
  BY ColumnAt
<1> HIDE DEF f
<1>2. SumFunctionOnSet(f, 1 .. Len(lines)) \in Int
  BY <1>1, SumInt
<1> QED
  BY <1>2 DEF Side, f

\* What is booked by some lines and then by others.
LEMMA SideJoin ==
  ASSUME NEW a \in Seq(Line), NEW b \in Seq(Line), NEW accs, NEW side \in Sides
  PROVE  /\ a \o b \in Seq(Line)
         /\ Side(a \o b, accs, side) = Side(a, accs, side) + Side(b, accs, side)
<1> DEFINE c == a \o b
           f == Column(a, accs, side)
           g == Column(b, accs, side)
           h == Column(c, accs, side)
           m == Len(a)
           n == Len(b)
           k == Len(c)
<1>1. /\ c \in Seq(Line) /\ k = m + n /\ m \in Nat /\ n \in Nat
      /\ \A i \in 1 .. m : c[i] = a[i] /\ i \in 1 .. k
      /\ \A i \in 1 .. n : c[m + i] = b[i] /\ m + i \in 1 .. k
  OBVIOUS
<1> HIDE DEF c
<1>2. /\ \A i \in 1 .. m : f[i] \in Int /\ f[i] = IF a[i].acc \in accs THEN a[i][side] ELSE 0
      /\ \A i \in 1 .. n : g[i] \in Int /\ g[i] = IF b[i].acc \in accs THEN b[i][side] ELSE 0
      /\ \A i \in 1 .. k : h[i] = IF c[i].acc \in accs THEN c[i][side] ELSE 0
  BY <1>1, ColumnAt
<1> HIDE DEF f, g, h, m, n, k
<1>3. Joins(h, f, m, g, n)
  <2>1. \A i \in 1 .. m : h[i] = f[i]
    BY <1>1, <1>2
  <2>2. \A i \in 1 .. n : h[m + i] = g[i]
    BY <1>1, <1>2
  <2> QED
    BY <1>2, <2>1, <2>2 DEF Joins
<1>4. SumFunctionOnSet(h, 1 .. k) = SumFunctionOnSet(f, 1 .. m) + SumFunctionOnSet(g, 1 .. n)
  BY <1>1, <1>3, SumJoined
<1>5. Side(c, accs, side) = Side(a, accs, side) + Side(b, accs, side)
  BY <1>4, Zenon DEF Side, f, g, h, m, n, k
<1> QED
  BY <1>1, <1>5 DEF c

\* A sum of four.
Four(sum, v, w, x, y) == sum = v + w + x + y

\* What is booked by four parts.
LEMMA SideOfFour ==
  ASSUME NEW a \in Seq(Line), NEW b \in Seq(Line), NEW c \in Seq(Line), NEW d \in Seq(Line),
         NEW accs, NEW side \in Sides,
         NEW v \in Int, NEW w \in Int, NEW x \in Int, NEW y \in Int,
         NEW sum, Four(sum, v, w, x, y),
         Side(a, accs, side) = v, Side(b, accs, side) = w,
         Side(c, accs, side) = x, Side(d, accs, side) = y
  PROVE  Side(((a \o b) \o c) \o d, accs, side) = sum
<1>1. a \o b \in Seq(Line) /\ Side(a \o b, accs, side) = Side(a, accs, side) + Side(b, accs, side)
  BY SideJoin
<1> DEFINE e == a \o b
<1>2. e \in Seq(Line) /\ Side(e, accs, side) = v + w
  BY <1>1
<1> HIDE DEF e
<1>3. e \o c \in Seq(Line) /\ Side(e \o c, accs, side) = Side(e, accs, side) + Side(c, accs, side)
  BY <1>2, SideJoin
<1> DEFINE f == e \o c
<1>4. f \in Seq(Line) /\ Side(f, accs, side) = v + w + x
  BY <1>2, <1>3
<1> HIDE DEF f
<1>5. Side(f \o d, accs, side) = Side(f, accs, side) + Side(d, accs, side)
  BY <1>4, SideJoin
<1>6. Side(f \o d, accs, side) = sum
  BY <1>4, <1>5 DEF Four
<1> QED
  BY <1>6 DEF e, f

\* What one line books.
LEMMA SideOne ==
  ASSUME NEW line \in Line, NEW accs, NEW side \in Sides
  PROVE  Side(<<line>>, accs, side) = IF line.acc \in accs THEN line[side] ELSE 0
<1> DEFINE one == <<line>>
           f == Column(one, accs, side)
<1>1. one \in Seq(Line) /\ Len(one) = 1 /\ one[1] = line /\ 1 .. 1 = {1} /\ 1 \in 1 .. 1
  OBVIOUS
<1> HIDE DEF one
<1>2. f[1] \in Int /\ f[1] = IF line.acc \in accs THEN line[side] ELSE 0
  BY <1>1, ColumnAt
<1> HIDE DEF f
<1>3. SumFunctionOnSet(f, {1}) = f[1]
  BY <1>2, SumAlone
<1>4. Side(one, accs, side) = SumFunctionOnSet(f, {1})
  BY <1>1, Zenon DEF Side, f
<1> QED
  BY <1>2, <1>3, <1>4, Zenon DEF one

\* No line books nothing.
LEMMA SideNone == \A accs, side : Side(<<>>, accs, side) = 0
<1>1. 1 .. Len(<<>>) = {}
  OBVIOUS
<1> QED
  BY <1>1, SumEmpty, Zenon DEF Side

\* Debits, Credits and Booked are sides.
LEMMA SidesAre ==
  ASSUME NEW lines \in Seq(Line)
  PROVE  /\ Debits(lines) = Side(lines, Account, "debit")
         /\ Credits(lines) = Side(lines, Account, "credit")
         /\ \A acc : \A side \in Sides : Booked(lines, acc, side) = Side(lines, {acc}, side)
<1> DEFINE d == [i \in DOMAIN lines |-> lines[i].debit]
           c == [i \in DOMAIN lines |-> lines[i].credit]
<1>1. DOMAIN d = 1 .. Len(lines) /\ DOMAIN c = 1 .. Len(lines) /\ DOMAIN lines = 1 .. Len(lines)
  OBVIOUS
<1>2. /\ Debits(lines) = SumFunctionOnSet(d, 1 .. Len(lines))
      /\ Credits(lines) = SumFunctionOnSet(c, 1 .. Len(lines))
  BY <1>1, Zenon DEF Debits, Credits, SumFunction
<1>3. "debit" \in Sides /\ "credit" \in Sides
  BY DEF Sides
<1>4. d = Column(lines, Account, "debit") /\ c = Column(lines, Account, "credit")
  <2>1. \A i \in DOMAIN lines : /\ lines[i].acc \in Account /\ lines[i].debit = lines[i]["debit"]
                                /\ lines[i].credit = lines[i]["credit"]
    BY LineAmounts
  <2> QED
    BY <2>1 DEF Column
<1>5. ASSUME NEW acc, NEW side \in Sides PROVE Booked(lines, acc, side) = Side(lines, {acc}, side)
  <2> DEFINE S == {j \in DOMAIN lines : lines[j].acc = acc}
             T == (1 .. Len(lines)) \ S
             f == Column(lines, {acc}, side)
             g == [i \in S |-> lines[i][side]]
  <2>1. /\ IsFiniteSet(1 .. Len(lines)) /\ S \subseteq 1 .. Len(lines) /\ S \cup T = 1 .. Len(lines)
        /\ S \cap T = {} /\ T \subseteq 1 .. Len(lines) /\ DOMAIN g = S
    <3>1. IsFiniteSet(1 .. Len(lines))
      BY ColumnAt
    <3>2. S \subseteq 1 .. Len(lines)
      BY <1>1
    <3> QED
      BY <3>1, <3>2
  <2>2. /\ \A i \in 1 .. Len(lines) : f[i] \in Int
        /\ \A i \in S : f[i] = g[i]
        /\ \A i \in T : f[i] = 0
    BY <1>1, ColumnAt
  <2>3. IsFiniteSet(S) /\ IsFiniteSet(T)
    BY <2>1, FS_Subset
  <2>4. Booked(lines, acc, side) = SumFunctionOnSet(g, S)
    BY <2>1, Zenon DEF Booked, SumFunction
  <2> HIDE DEF S, T, f, g
  <2>5. SumFunctionOnSet(g, S) = SumFunctionOnSet(f, S)
    BY <2>2, <2>3, SumSame
  <2>6. SumFunctionOnSet(f, T) = 0
    BY <2>2, <2>3, SumZero
  <2>7. SumFunctionOnSet(f, S) \in Int
    BY <2>1, <2>2, <2>3, SumInt
  <2>8. SumFunctionOnSet(f, S \cup T) = SumFunctionOnSet(f, S) + SumFunctionOnSet(f, T)
    <3>1. \A i \in S \cup T : f[i] \in Int
      BY <2>1, <2>2
    <3> QED
      BY <2>1, <2>3, <3>1, SumDisjoint
  <2>9. SumFunctionOnSet(f, S \cup T) = SumFunctionOnSet(f, S)
    BY <2>6, <2>7, <2>8
  <2>10. SumFunctionOnSet(f, S \cup T) = Side(lines, {acc}, side)
    BY <2>1, Zenon DEF Side, f
  <2> QED
    BY <2>4, <2>5, <2>9, <2>10, Zenon
<1> HIDE DEF d, c
<1>6. /\ Debits(lines) = Side(lines, Account, "debit")
      /\ Credits(lines) = Side(lines, Account, "credit")
  BY <1>2, <1>4, Zenon DEF Side
<1> QED
  BY <1>5, <1>6

-----------------------------------------------------------------------------
(* The lines of a purchase.                                                *)

\* What an amount on account acc means for the side of some accounts.
Share(acc, accs, amount) == IF acc \in accs THEN amount ELSE 0

\* One line on account acc.
LEMMA SideOfLine ==
  ASSUME NEW acc \in Account, NEW accs, NEW amount \in Int
  PROVE  /\ Side(Debit(acc, amount), accs, "debit") = Share(acc, accs, amount)
         /\ Side(Debit(acc, amount), accs, "credit") = 0
         /\ Side(Credit(acc, amount), accs, "debit") = 0
         /\ Side(Credit(acc, amount), accs, "credit") = Share(acc, accs, amount)
         /\ Debit(acc, amount) \in Seq(Line) /\ Credit(acc, amount) \in Seq(Line)
<1> DEFINE d == [acc |-> acc, debit |-> amount, credit |-> 0]
           c == [acc |-> acc, debit |-> 0, credit |-> amount]
<1>1. /\ d \in Line /\ d["debit"] = amount /\ d["credit"] = 0 /\ d.acc = acc
      /\ c \in Line /\ c["debit"] = 0 /\ c["credit"] = amount /\ c.acc = acc
  BY DEF Line
<1>2. Debit(acc, amount) = <<d>> /\ Credit(acc, amount) = <<c>>
  BY DEF Debit, Credit
<1> HIDE DEF d, c
<1>3. "debit" \in Sides /\ "credit" \in Sides
  BY DEF Sides
<1>4. /\ Side(<<d>>, accs, "debit") = IF d.acc \in accs THEN d["debit"] ELSE 0
      /\ Side(<<d>>, accs, "credit") = IF d.acc \in accs THEN d["credit"] ELSE 0
      /\ Side(<<c>>, accs, "debit") = IF c.acc \in accs THEN c["debit"] ELSE 0
      /\ Side(<<c>>, accs, "credit") = IF c.acc \in accs THEN c["credit"] ELSE 0
  BY <1>1, <1>3, SideOne
<1>5. <<d>> \in Seq(Line) /\ <<c>> \in Seq(Line)
  BY <1>1
<1> QED
  BY <1>1, <1>2, <1>4, <1>5, Zenon DEF Share

\* A line that is there only over an amount books that amount or nothing at all.
LEMMA SideOfSome ==
  ASSUME NEW acc \in Account, NEW accs, NEW amount \in Nat
  PROVE  /\ (IF amount > 0 THEN Debit(acc, amount) ELSE <<>>) \in Seq(Line)
         /\ Side(IF amount > 0 THEN Debit(acc, amount) ELSE <<>>, accs, "debit")
              = Share(acc, accs, amount)
         /\ Side(IF amount > 0 THEN Debit(acc, amount) ELSE <<>>, accs, "credit") = 0
         /\ (IF amount > 0 THEN Credit(acc, amount) ELSE <<>>) \in Seq(Line)
         /\ Side(IF amount > 0 THEN Credit(acc, amount) ELSE <<>>, accs, "debit") = 0
         /\ Side(IF amount > 0 THEN Credit(acc, amount) ELSE <<>>, accs, "credit")
              = Share(acc, accs, amount)
<1>1. CASE amount > 0
  <2>1. amount \in Int
    OBVIOUS
  <2> QED
    BY <1>1, <2>1, SideOfLine, Zenon
<1>2. CASE ~(amount > 0)
  <2>1. amount = 0
    BY <1>2
  <2>2. Share(acc, accs, amount) = 0 /\ <<>> \in Seq(Line)
    BY <2>1 DEF Share
  <2> QED
    BY <1>2, <2>2, SideNone, Zenon
<1> QED
  BY <1>1, <1>2

\* What the clamp at nothing takes from an amount.
LEMMA Clamped ==
  ASSUME NEW x \in Int
  PROVE  Max({0, x}) = IF x > 0 THEN x ELSE 0
<1> DEFINE S == {0, x}
<1>1. \E m \in S : \A y \in S : m >= y
  OBVIOUS
<1>2. Max(S) \in S /\ \A y \in S : Max(S) >= y
  BY <1>1 DEF Max
<1> QED
  BY <1>2

\* What the line of the payments credits.
PaidBooked(paid) == IF paid > 0 THEN paid ELSE 0

\* The tax that there is an account for.
TaxBooked(order, accounts) ==
  IF order.tax > 0 /\ "Tax Paid" \in accounts THEN order.tax ELSE 0

\* There is an account for the tax, if there is a tax.
TaxAccount(order, accounts) == order.tax > 0 => "Tax Paid" \in accounts

\* The sides of the lines of a purchase, for any set of accounts.
LEMMA SidesOfPurchase ==
  ASSUME NEW row \in PurchaseRow, NEW accounts \in SUBSET Account, NEW accs
  PROVE  /\ Side(Lines(row, accounts), accs, "debit")
              = Share("Inventory", accs, row.order.amount)
                  + Share("Tax Paid", accs, TaxBooked(row.order, accounts))
         /\ Side(Lines(row, accounts), accs, "credit")
              = Share(PaidTarget(accounts), accs, PaidBooked(row.paid))
                  + Share(DueTarget(accounts), accs, row.due)
<1> DEFINE tax == row.order.tax
           net == row.order.amount
           booked == TaxBooked(row.order, accounts)
           paid == PaidBooked(row.paid)
           A == Debit("Inventory", net)
           B == IF tax > 0 /\ "Tax Paid" \in accounts THEN Debit("Tax Paid", tax) ELSE <<>>
           C == IF row.paid > 0 THEN Credit(PaidTarget(accounts), row.paid) ELSE <<>>
           D == IF row.due > 0 THEN Credit(DueTarget(accounts), row.due) ELSE <<>>
<1>1. Lines(row, accounts) = ((A \o B) \o C) \o D
  BY Zenon DEF Lines
<1>2. /\ row.paid \in Int /\ row.due \in Nat /\ row.due \in Int
      /\ tax \in Int /\ net \in Int
  BY OrderTotal DEF PurchaseRow
<1>3. /\ PaidTarget(accounts) \in Account /\ DueTarget(accounts) \in Account
      /\ "Inventory" \in Account /\ "Tax Paid" \in Account
  BY PurchasesAssumption DEF PaidTarget, DueTarget
<1>4. /\ booked \in Nat /\ booked \in Int
      /\ B = IF booked > 0 THEN Debit("Tax Paid", booked) ELSE <<>>
  <2>1. CASE tax > 0 /\ "Tax Paid" \in accounts
    <3>1. booked = tax /\ B = Debit("Tax Paid", tax)
      BY <2>1, Zenon DEF TaxBooked
    <3> HIDE DEF booked, tax, B
    <3>2. tax \in Nat /\ tax \in Int /\ tax > 0
      <4>1. tax \in Int /\ tax > 0
        BY <1>2, <2>1, Zenon
      <4> QED
        BY <4>1
    <3>3. booked \in Nat /\ booked \in Int /\ booked > 0
      BY <3>1, <3>2
    <3>4. B = Debit("Tax Paid", booked)
      BY <3>1
    <3> QED
      BY <3>3, <3>4
  <2>2. CASE ~(tax > 0 /\ "Tax Paid" \in accounts)
    <3>1. booked = 0 /\ B = <<>>
      BY <2>2, Zenon DEF TaxBooked
    <3> HIDE DEF booked, B
    <3> QED
      BY <3>1
  <2> QED
    BY <2>1, <2>2
<1>5. /\ paid \in Nat /\ paid \in Int
      /\ C = IF paid > 0 THEN Credit(PaidTarget(accounts), paid) ELSE <<>>
  <2>1. CASE row.paid > 0
    <3>1. paid = row.paid /\ C = Credit(PaidTarget(accounts), row.paid)
      BY <2>1, Zenon DEF PaidBooked
    <3> HIDE DEF paid, C
    <3> QED
      BY <1>2, <2>1, <3>1
  <2>2. CASE ~(row.paid > 0)
    <3>1. paid = 0 /\ C = <<>>
      BY <2>2, Zenon DEF PaidBooked
    <3> HIDE DEF paid, C
    <3> QED
      BY <3>1
  <2> QED
    BY <2>1, <2>2
<1> HIDE DEF tax, net, booked, paid
<1>6. /\ A \in Seq(Line) /\ Side(A, accs, "debit") = Share("Inventory", accs, net)
      /\ Side(A, accs, "credit") = 0
  BY <1>2, <1>3, SideOfLine
<1> HIDE DEF B, C
<1>7. /\ B \in Seq(Line) /\ Side(B, accs, "debit") = Share("Tax Paid", accs, booked)
      /\ Side(B, accs, "credit") = 0
  BY <1>3, <1>4, SideOfSome, Zenon
<1>8. /\ C \in Seq(Line) /\ Side(C, accs, "debit") = 0
      /\ Side(C, accs, "credit") = Share(PaidTarget(accounts), accs, paid)
  BY <1>3, <1>5, SideOfSome, Zenon
<1>9. /\ D \in Seq(Line) /\ Side(D, accs, "debit") = 0
      /\ Side(D, accs, "credit") = Share(DueTarget(accounts), accs, row.due)
  BY <1>2, <1>3, SideOfSome, Zenon
<1> HIDE DEF A, D
<1>10. \A acc : \A amount \in Int : Share(acc, accs, amount) \in Int
  BY DEF Share
<1>11. "debit" \in Sides /\ "credit" \in Sides
  BY DEF Sides
<1>12. \A x, y \in Int : x + y + 0 + 0 = x + y /\ 0 + 0 + x + y = x + y
  OBVIOUS
<1> DEFINE all == ((A \o B) \o C) \o D
           u == Share("Inventory", accs, net)
           v == Share("Tax Paid", accs, booked)
           x == Share(PaidTarget(accounts), accs, paid)
           y == Share(DueTarget(accounts), accs, row.due)
<1>13. u \in Int /\ v \in Int /\ x \in Int /\ y \in Int
  <2>1. net \in Int /\ booked \in Int /\ paid \in Int /\ row.due \in Int
    BY <1>2, <1>4, <1>5, Zenon
  <2> QED
    BY <1>10, <2>1
<1>14. /\ Side(A, accs, "debit") = u /\ Side(B, accs, "debit") = v
       /\ Side(C, accs, "debit") = 0 /\ Side(D, accs, "debit") = 0
       /\ Side(A, accs, "credit") = 0 /\ Side(B, accs, "credit") = 0
       /\ Side(C, accs, "credit") = x /\ Side(D, accs, "credit") = y
       /\ A \in Seq(Line) /\ B \in Seq(Line) /\ C \in Seq(Line) /\ D \in Seq(Line)
  BY <1>6, <1>7, <1>8, <1>9
<1> HIDE DEF u, v, x, y
<1>15. PICK debit, credit : /\ debit = u + v /\ debit = u + v + 0 + 0
                           /\ credit = x + y /\ credit = 0 + 0 + x + y
  <2>1. u + v = u + v + 0 + 0 /\ x + y = 0 + 0 + x + y
    BY <1>12, <1>13, Zenon
  <2> QED
    BY <2>1, Zenon
<1>16. Side(all, accs, "debit") = debit /\ Side(all, accs, "credit") = credit
  <2>1. 0 \in Int
    OBVIOUS
  <2>2. Four(debit, u, v, 0, 0) /\ Four(credit, 0, 0, x, y)
    BY <1>15, Zenon DEF Four
  <2>3. Side(all, accs, "debit") = debit
    BY <1>11, <1>13, <1>14, <2>1, <2>2, SideOfFour
  <2>4. Side(all, accs, "credit") = credit
    BY <1>11, <1>13, <1>14, <2>1, <2>2, SideOfFour
  <2> QED
    BY <2>3, <2>4
<1> QED
  BY <1>1, <1>15, <1>16, Zenon DEF u, v, x, y, net, tax, booked, paid

\* Every line has an amount.
Positive(lines) == \A i \in DOMAIN lines : lines[i].debit > 0 \/ lines[i].credit > 0

\* The lines of both are positive if those of each are.
LEMMA PositiveJoin ==
  ASSUME NEW a \in Seq(Line), NEW b \in Seq(Line), Positive(a), Positive(b)
  PROVE  /\ a \o b \in Seq(Line) /\ Positive(a \o b)
         /\ Len(a \o b) = Len(a) + Len(b)
<1> DEFINE j == a \o b
<1>1. /\ j \in Seq(Line) /\ Len(j) = Len(a) + Len(b)
      /\ DOMAIN j = 1 .. (Len(a) + Len(b)) /\ Len(a) \in Nat /\ Len(b) \in Nat
      /\ DOMAIN a = 1 .. Len(a) /\ DOMAIN b = 1 .. Len(b)
      /\ \A i \in 1 .. Len(a) : j[i] = a[i]
      /\ \A i \in 1 .. Len(b) : j[Len(a) + i] = b[i]
  OBVIOUS
<1> HIDE DEF j
<1>2. \A i \in DOMAIN j : i \in 1 .. Len(a) \/ \E n \in 1 .. Len(b) : i = Len(a) + n
  <2> SUFFICES ASSUME NEW i \in DOMAIN j, i \notin 1 .. Len(a)
               PROVE  \E n \in 1 .. Len(b) : i = Len(a) + n
    OBVIOUS
  <2>1. i - Len(a) \in 1 .. Len(b) /\ i = Len(a) + (i - Len(a))
    BY <1>1
  <2> QED
    BY <2>1
<1>3. ASSUME NEW i \in DOMAIN j PROVE j[i].debit > 0 \/ j[i].credit > 0
  <2>1. CASE i \in 1 .. Len(a)
    BY <1>1, <2>1 DEF Positive
  <2>2. CASE \E n \in 1 .. Len(b) : i = Len(a) + n
    <3>1. PICK n \in 1 .. Len(b) : i = Len(a) + n
      BY <2>2
    <3> QED
      BY <1>1, <3>1 DEF Positive
  <2> QED
    BY <1>2, <2>1, <2>2
<1> QED
  BY <1>1, <1>3 DEF Positive, j

\* One line over an amount, and a line that is there only over an amount.
LEMMA PositiveLine ==
  ASSUME NEW acc \in Account, NEW amount \in Int
  PROVE  /\ amount > 0 => Positive(Debit(acc, amount)) /\ Positive(Credit(acc, amount))
         /\ Positive(<<>>)
         /\ Debit(acc, amount) \in Seq(Line) /\ Len(Debit(acc, amount)) = 1
         /\ Credit(acc, amount) \in Seq(Line) /\ Len(Credit(acc, amount)) = 1
BY DEF Positive, Debit, Credit, Line

\* What a purchase costs was paid or is due.
Priced(row) == row.paid + row.due = Total(row.order)

\* A purchase over an amount has two lines or more, each with an amount.
LEMMA LinesPositive ==
  ASSUME NEW row \in PurchaseRow, NEW accounts \in SUBSET Account,
         row.order.amount > 0, row.paid > 0 \/ row.due > 0
  PROVE  /\ Positive(Lines(row, accounts)) /\ Len(Lines(row, accounts)) >= 2
         /\ Lines(row, accounts) # <<>>
<1> DEFINE tax == row.order.tax
           net == row.order.amount
           A == Debit("Inventory", net)
           B == IF tax > 0 /\ "Tax Paid" \in accounts THEN Debit("Tax Paid", tax) ELSE <<>>
           C == IF row.paid > 0 THEN Credit(PaidTarget(accounts), row.paid) ELSE <<>>
           D == IF row.due > 0 THEN Credit(DueTarget(accounts), row.due) ELSE <<>>
<1>1. Lines(row, accounts) = ((A \o B) \o C) \o D
  BY Zenon DEF Lines
<1>2. /\ row.paid \in Int /\ row.due \in Nat /\ row.due \in Int
      /\ tax \in Int /\ net \in Int /\ net > 0
      /\ row.paid > 0 \/ row.due > 0
  BY OrderTotal DEF PurchaseRow
<1>3. /\ PaidTarget(accounts) \in Account /\ DueTarget(accounts) \in Account
      /\ "Inventory" \in Account /\ "Tax Paid" \in Account
  BY PurchasesAssumption DEF PaidTarget, DueTarget
<1> HIDE DEF tax, net
<1>4. <<>> \in Seq(Line) /\ Len(<<>>) = 0 /\ Len(<<>>) \in Nat /\ 1 \in Nat
  OBVIOUS
<1>5. A \in Seq(Line) /\ Positive(A) /\ Len(A) = 1
  BY <1>2, <1>3, PositiveLine
<1>6. B \in Seq(Line) /\ Positive(B) /\ Len(B) \in Nat
  <2>1. CASE tax > 0 /\ "Tax Paid" \in accounts
    BY <1>2, <1>3, <1>4, <2>1, PositiveLine, Zenon
  <2>2. CASE ~(tax > 0 /\ "Tax Paid" \in accounts)
    BY <1>2, <1>3, <1>4, <2>2, PositiveLine, Zenon
  <2> QED
    BY <2>1, <2>2, Zenon
<1>7. C \in Seq(Line) /\ Positive(C) /\ Len(C) \in Nat /\ (row.paid > 0 => Len(C) = 1)
  <2>1. CASE row.paid > 0
    BY <1>2, <1>3, <1>4, <2>1, PositiveLine, Zenon
  <2>2. CASE ~(row.paid > 0)
    BY <1>2, <1>3, <1>4, <2>2, PositiveLine, Zenon
  <2> QED
    BY <2>1, <2>2, Zenon
<1>8. D \in Seq(Line) /\ Positive(D) /\ Len(D) \in Nat /\ (row.due > 0 => Len(D) = 1)
  <2>1. CASE row.due > 0
    BY <1>2, <1>3, <1>4, <2>1, PositiveLine, Zenon
  <2>2. CASE ~(row.due > 0)
    BY <1>2, <1>3, <1>4, <2>2, PositiveLine, Zenon
  <2> QED
    BY <2>1, <2>2, Zenon
<1> HIDE DEF A, B, C, D
<1>9. A \o B \in Seq(Line) /\ Positive(A \o B) /\ Len(A \o B) = Len(A) + Len(B)
  BY <1>5, <1>6, PositiveJoin
<1>10. /\ (A \o B) \o C \in Seq(Line) /\ Positive((A \o B) \o C)
       /\ Len((A \o B) \o C) = Len(A \o B) + Len(C)
  BY <1>7, <1>9, PositiveJoin
<1>11. /\ ((A \o B) \o C) \o D \in Seq(Line) /\ Positive(((A \o B) \o C) \o D)
       /\ Len(((A \o B) \o C) \o D) = Len((A \o B) \o C) + Len(D)
  BY <1>8, <1>10, PositiveJoin
<1>12. Len(((A \o B) \o C) \o D) >= 2
  BY <1>2, <1>5, <1>6, <1>7, <1>8, <1>9, <1>10, <1>11
<1> HIDE DEF Positive
<1>13. Positive(Lines(row, accounts)) /\ Len(Lines(row, accounts)) >= 2
  BY <1>1, <1>11, <1>12, Zenon
<1>14. Lines(row, accounts) # <<>>
  BY <1>13
<1> QED
  BY <1>13, <1>14

\* Lines that balance book all of the tax that is to be paid. They balance where neither
\* the tax nor what was paid is negative and there is an account for the tax; and where
\* something was bought, it is paid or due then.
LEMMA LinesBalance ==
  ASSUME NEW row \in PurchaseRow, NEW accounts \in SUBSET Account, Priced(row)
  PROVE  /\ Debits(Lines(row, accounts)) = Credits(Lines(row, accounts))
              => TaxBooked(row.order, accounts) = Max({0, row.order.tax})
         /\ row.order.tax >= 0 /\ row.paid >= 0 /\ TaxAccount(row.order, accounts)
              => Debits(Lines(row, accounts)) = Credits(Lines(row, accounts))
         /\ row.order.amount > 0 /\ row.order.tax >= 0 /\ row.paid >= 0
              => row.paid > 0 \/ row.due > 0
<1> DEFINE lines == Lines(row, accounts)
           tax == row.order.tax
           amount == row.order.amount
           paid == row.paid
           due == row.due
           spent == PaidBooked(paid)
           booked == TaxBooked(row.order, accounts)
           owed == Max({0, tax})
<1>1. lines \in Seq(Line)
  BY LinesType
<1>2. /\ PaidTarget(accounts) \in Account /\ DueTarget(accounts) \in Account
      /\ "Inventory" \in Account /\ "Tax Paid" \in Account
  BY PurchasesAssumption DEF PaidTarget, DueTarget
<1>3. \A acc \in Account : \A x : Share(acc, Account, x) = x
  BY DEF Share
<1>4. /\ Debits(lines) = Side(lines, Account, "debit")
      /\ Credits(lines) = Side(lines, Account, "credit")
  BY <1>1, SidesAre
<1>5. /\ Side(lines, Account, "debit") = Share("Inventory", Account, amount)
                                           + Share("Tax Paid", Account, booked)
      /\ Side(lines, Account, "credit") = Share(PaidTarget(accounts), Account, spent)
                                            + Share(DueTarget(accounts), Account, due)
  BY SidesOfPurchase
<1>6. Debits(lines) = amount + booked /\ Credits(lines) = spent + due
  BY <1>2, <1>3, <1>4, <1>5, Zenon
<1>7. /\ amount \in Int /\ tax \in Int /\ paid \in Int /\ due \in Nat
      /\ paid + due = amount + tax
  BY OrderTotal DEF Priced, PurchaseRow, Total
<1>8. spent = IF paid > 0 THEN paid ELSE 0
  BY Zenon DEF PaidBooked
<1>9. /\ (booked = tax /\ tax > 0) \/ booked = 0
      /\ TaxAccount(row.order, accounts) /\ tax > 0 => booked = tax
  BY Zenon DEF TaxBooked, TaxAccount
<1>10. owed = IF tax > 0 THEN tax ELSE 0
  BY <1>7, Clamped
<1> HIDE DEF lines, tax, amount, paid, due, spent, booked, owed
<1>11. Debits(lines) = Credits(lines) => booked = owed
  <2> SUFFICES ASSUME Debits(lines) = Credits(lines) PROVE booked = owed
    OBVIOUS
  <2>1. amount + booked = spent + due
    BY <1>6, Zenon
  <2>2. booked = tax \/ booked = 0
    BY <1>9, Zenon
  <2>3. CASE tax > 0
    <3>1. owed = tax
      BY <1>10, <2>3, Zenon
    <3>2. booked # 0
      <4> SUFFICES ASSUME booked = 0 PROVE FALSE
        OBVIOUS
      <4>1. CASE paid > 0
        <5>1. spent = paid
          BY <1>8, <4>1, Zenon
        <5>2. amount + 0 = paid + due
          BY <2>1, <5>1, Zenon
        <5> QED
          BY <1>7, <2>3, <5>2
      <4>2. CASE ~(paid > 0)
        <5>1. spent = 0
          BY <1>8, <4>2, Zenon
        <5>2. amount + 0 = 0 + due
          BY <2>1, <5>1, Zenon
        <5> QED
          BY <1>7, <2>3, <4>2, <5>2
      <4> QED
        BY <4>1, <4>2
    <3> QED
      BY <2>2, <3>1, <3>2, Zenon
  <2>4. CASE ~(tax > 0)
    BY <1>9, <1>10, <2>4, Zenon
  <2> QED
    BY <2>3, <2>4
<1>12. tax >= 0 /\ paid >= 0 /\ TaxAccount(row.order, accounts)
         => Debits(lines) = Credits(lines)
  BY <1>6, <1>7, <1>8, <1>9
<1>13. amount > 0 /\ tax >= 0 /\ paid >= 0 => paid > 0 \/ due > 0
  BY <1>7
<1> QED
  BY <1>11, <1>12, <1>13 DEF lines, tax, amount, paid, due, booked, owed

-----------------------------------------------------------------------------
(* The books and the goods.                                                *)

\* The accounts are there that make the lines of a purchase balance, and the amounts are
\* not negative.
Payable(row) ==
  /\ Postable /\ TaxAccount(row.order, chart)
  /\ row.order.amount > 0 /\ row.order.tax >= 0 /\ row.paid >= 0

\* The request that created purchase p is still to post its journal.
Pending(p) == At("post") /\ job.id = p

\* Purchase p in the books: its entry was made of lines that balance, and it is there
\* if it can be.
BookOf(p) ==
  /\ Priced(purchase[p])
  /\ journal[p] # NoEntry => Valid(Lines(purchase[p], chart))
  /\ p \notin cut /\ ~Pending(p) /\ purchase[p].status = "Received" /\ Payable(purchase[p])
       => journal[p] # NoEntry

\* What makes JournalTellsPurchases inductive.
Books == \A p \in Existing : BookOf(p)

\* What makes GoodsFollowPurchases inductive.
Goods == IsFiniteSet(Existing) /\ GoodsFollowPurchases

\* The row of p has another status and nothing else changed in the table.
Rearranged(p, status) ==
  /\ stock' = stock /\ Existing' = Existing /\ p \in Existing
  /\ purchase'[p].status = status
  /\ \A q \in Existing :
       /\ purchase'[q].order = purchase[q].order
       /\ purchase'[q].paid = purchase[q].paid
       /\ q # p => purchase'[q].status = purchase[q].status

\* A row with the same order and money has the same lines.
LEMMA SameLines ==
  ASSUME NEW row, NEW new, new.order = row.order, new.paid = row.paid, new.due = row.due
  PROVE  /\ \A accounts : Lines(new, accounts) = Lines(row, accounts)
         /\ Priced(new) <=> Priced(row)
         /\ Payable(new) <=> Payable(row)
BY Zenon DEF Lines, Priced, Payable

\* A posting is refused only for want of accounts or of an amount, or for negative ones.
LEMMA PayableIsValid ==
  ASSUME NEW row \in PurchaseRow, chart \in SUBSET Account, Priced(row), Payable(row)
  PROVE  Valid(Lines(row, chart)) /\ Len(Lines(row, chart)) >= 2
<1>1. /\ TaxAccount(row.order, chart)
      /\ row.order.amount > 0 /\ row.order.tax >= 0 /\ row.paid >= 0
  BY DEF Payable
<1>2. /\ Debits(Lines(row, chart)) = Credits(Lines(row, chart))
      /\ row.paid > 0 \/ row.due > 0
  BY <1>1, LinesBalance
<1>3. /\ Positive(Lines(row, chart)) /\ Len(Lines(row, chart)) >= 2
      /\ Lines(row, chart) # <<>>
  BY <1>1, <1>2, LinesPositive
<1> QED
  BY <1>2, <1>3, Zenon DEF Valid, Positive

\* A purchase stays in the books as it was where its posting is not at stake.
LEMMA SameBook ==
  ASSUME Books, NEW p \in Existing,
         purchase'[p].order = purchase[p].order, purchase'[p].paid = purchase[p].paid,
         purchase'[p].due = purchase[p].due,
         purchase'[p].status = purchase[p].status \/ purchase'[p].status # "Received",
         journal'[p] = NoEntry <=> journal[p] = NoEntry,
         chart' = chart, p \in cut => p \in cut',
         ~Pending(p) \/ Pending(p)' \/ p \in cut'
  PROVE  BookOf(p)'
<1>1. /\ Lines(purchase'[p], chart) = Lines(purchase[p], chart)
      /\ Priced(purchase'[p]) <=> Priced(purchase[p])
      /\ Payable(purchase'[p]) <=> Payable(purchase[p])
  BY SameLines
<1>2. Payable(purchase[p])' <=> Payable(purchase[p])
  <2>1. Payable(purchase[p])' <=> Payable(purchase'[p])
    BY Zenon DEF Payable, Postable
  <2> QED
    BY <1>1, <2>1, Zenon
<1>3. BookOf(p)
  BY DEF Books
<1> QED
  BY <1>1, <1>2, <1>3 DEF BookOf

\* Steps that touch no row of a purchase and create or remove no entry.
LEMMA BooksFrame ==
  ASSUME Books, UNCHANGED <<purchase, chart>>, cut \subseteq cut',
         \A p \in Purchase : journal'[p] = NoEntry <=> journal[p] = NoEntry,
         \A p \in Purchase : ~Pending(p) \/ Pending(p)' \/ p \in cut'
  PROVE  Books'
<1>1. Existing' = Existing /\ Existing \subseteq Purchase
  BY DEF Existing
<1>2. \A p \in Existing : BookOf(p)'
  BY <1>1, SameBook
<1> QED
  BY <1>1, <1>2 DEF Books

\* A new purchase has its posting ahead.
LEMMA CreatePurchaseBooks ==
  ASSUME PurchasesIInv, Books, NEW p \in Purchase, NEW status \in Status, NEW order \in Order,
         NEW paid \in Prepaid, CreatePurchase(p, status, order, paid)
  PROVE  Books'
<1> DEFINE row == [status |-> status, order |-> order, paid |-> paid,
                   due |-> Total(order) - paid]
<1>1. /\ job.step = "none" /\ purchase[p] = NoPurchase /\ paid <= Total(order)
      /\ purchase' = [purchase EXCEPT ![p] = row]
      /\ job'.step = "post" /\ job'.id = p
      /\ UNCHANGED <<chart, journal, cut>>
      /\ purchase \in [Purchase -> PurchaseRow \cup {NoPurchase}]
  BY DEF CreatePurchase, At, PurchasesIInv, PurchasesTypeOK
<1>2. row.order = order /\ row.paid = paid /\ row.due = Total(order) - paid
  OBVIOUS
<1>3. paid + (Total(order) - paid) = Total(order)
  BY <1>1, DueNatural
<1> HIDE DEF row
<1>4. Priced(row)
  BY <1>2, <1>3, Zenon DEF Priced
<1>5. purchase'[p] = row /\ \A q \in Purchase \ {p} : purchase'[q] = purchase[q]
  BY <1>1
<1>6. journal[p] = NoEntry
  BY <1>1 DEF PurchasesIInv, Requests
<1>7. BookOf(p)'
  <2>1. Pending(p)'
    BY <1>1 DEF Pending, At
  <2>2. Priced(purchase[p])'
    BY <1>4, <1>5, Zenon DEF Priced
  <2> QED
    BY <1>1, <1>6, <2>1, <2>2 DEF BookOf
<1>8. ASSUME NEW q \in Existing', q # p PROVE BookOf(q)'
  <2>1. q \in Existing /\ purchase'[q] = purchase[q]
    BY <1>5, <1>8 DEF Existing
  <2>2. ~Pending(q)
    BY <1>1 DEF Pending, At
  <2> QED
    BY <1>1, <2>1, <2>2, SameBook
<1> QED
  BY <1>7, <1>8 DEF Books

\* Nothing was posted: then it could not be.
LEMMA PostNothingBooks == PurchasesIInv /\ Books /\ PostNothing => Books'
<1> SUFFICES ASSUME PurchasesIInv, Books, PostNothing PROVE Books'
  OBVIOUS
<1>1. PICK p \in Purchase : p = job.id /\ p \in Existing
  BY DEF PostNothing, PurchasesIInv, Requests, Existing
<1>2. /\ At("post") /\ ~At("post")' /\ UNCHANGED <<chart, journal, cut, purchase>>
      /\ Posts(purchase[p]) => ~Valid(Lines(purchase[p], chart))
      /\ chart \in SUBSET Account /\ purchase[p] \in PurchaseRow
  <2>1. chart \in SUBSET Account /\ purchase[p] \in PurchaseRow
    BY <1>1, Typed DEF PurchasesIInv, PurchasesTypeOK, Existing
  <2> QED
    BY <1>1, <2>1 DEF PostNothing, At, NoJob, purchaseVars
<1>3. Existing' = Existing
  BY <1>2 DEF Existing
<1>4. BookOf(p)
  BY <1>1 DEF Books
<1>5. purchase[p].status = "Received" => ~Payable(purchase[p])
  <2> SUFFICES ASSUME purchase[p].status = "Received", Payable(purchase[p]) PROVE FALSE
    OBVIOUS
  <2>1. Valid(Lines(purchase[p], chart)) /\ Len(Lines(purchase[p], chart)) >= 2
    BY <1>2, <1>4, PayableIsValid DEF BookOf
  <2> QED
    BY <1>2, <2>1 DEF Posts, Payable
<1>6. Payable(purchase[p])' <=> Payable(purchase[p])
  BY <1>2, Zenon DEF Payable, Postable
<1>7. BookOf(p)'
  BY <1>2, <1>4, <1>5, <1>6 DEF BookOf
<1>8. ASSUME NEW q \in Existing, q # p PROVE BookOf(q)'
  <2>1. ~Pending(q)
    BY <1>1, <1>8 DEF Pending
  <2> QED
    BY <1>2, <2>1, SameBook
<1> QED
  BY <1>3, <1>7, <1>8 DEF Books

\* What is posted was checked to balance.
LEMMA PostPurchaseBooks == PurchasesIInv /\ Books /\ PostPurchase => Books'
<1> SUFFICES ASSUME PurchasesIInv, Books, PostPurchase PROVE Books'
  OBVIOUS
<1>1. PICK p \in Purchase : p = job.id /\ p \in Existing
  BY DEF PostPurchase, PurchasesIInv, Requests, Existing
<1> DEFINE new == [status |-> "posted", lines |-> <<>>]
<1>2. /\ At("post") /\ ~At("post")' /\ UNCHANGED <<chart, cut, purchase>>
      /\ Valid(Lines(purchase[p], chart))
      /\ journal' = [journal EXCEPT ![p] = new]
      /\ p \in Entry /\ journal \in [Entry -> Row \cup {NoEntry}]
  BY <1>1, Typed DEF PostPurchase, InsertEntry, At, purchaseVars, PurchasesIInv, PurchasesTypeOK
<1>3. new \in Row
  BY DEF Row
<1>4. journal'[p] # NoEntry /\ \A q \in Purchase \ {p} : journal'[q] = journal[q]
  BY <1>2, <1>3, Typed, JournalAssumption
<1>5. Existing' = Existing /\ Existing \subseteq Purchase
  BY <1>2 DEF Existing
<1>6. BookOf(p)'
  BY <1>1, <1>2, <1>4 DEF Books, BookOf
<1>7. ASSUME NEW q \in Existing, q # p PROVE BookOf(q)'
  <2>1. ~Pending(q) /\ journal'[q] = journal[q]
    BY <1>1, <1>4, <1>5, <1>7 DEF Pending
  <2> QED
    BY <1>2, <2>1, SameBook
<1> QED
  BY <1>5, <1>6, <1>7 DEF Books

\* A change of the status.
LEMMA SetStatusBooks ==
  ASSUME PurchasesIInv, Books, NEW p \in Purchase, NEW status \in Status, SetStatus(p, status),
         status # "Received", job.step = "none", purchase[p] # NoPurchase
  PROVE  Books' /\ Rearranged(p, status)
<1> DEFINE row == [purchase[p] EXCEPT !.status = status]
<1>1. /\ purchase' = [purchase EXCEPT ![p] = row]
      /\ UNCHANGED <<chart, journal, cut, stock>>
      /\ purchase \in [Purchase -> PurchaseRow \cup {NoPurchase}]
      /\ purchase[p] \in PurchaseRow
  BY Typed DEF SetStatus, PurchasesIInv, PurchasesTypeOK
<1>2. /\ row \in PurchaseRow /\ row.status = status /\ row.order = purchase[p].order
      /\ row.paid = purchase[p].paid /\ row.due = purchase[p].due
  BY <1>1 DEF PurchaseRow
<1>3. row # NoPurchase
  BY <1>2, RowsExist
<1> HIDE DEF row
<1>4. purchase'[p] = row /\ \A q \in Purchase \ {p} : purchase'[q] = purchase[q]
  BY <1>1
<1>5. Existing' = Existing /\ p \in Existing /\ Existing \subseteq Purchase
  BY <1>3, <1>4 DEF Existing
<1>6. \A q \in Existing : ~Pending(q)
  BY DEF Pending, At
<1>7. \A q \in Existing : BookOf(q)'
  BY <1>1, <1>2, <1>4, <1>5, <1>6, SameBook
<1>8. Rearranged(p, status)
  BY <1>1, <1>2, <1>4, <1>5 DEF Rearranged
<1> QED
  BY <1>5, <1>7, <1>8 DEF Books

\* Bookkeeping creates no entry of a purchase and removes none.
LEMMA BookkeepingBooks ==
  ASSUME PurchasesIInv, PurchasesIInv', Books, Bookkeeping
  PROVE  Books'
<1>1. UNCHANGED <<purchase, chart>> /\ \A p \in Purchase : ~Pending(p)
  BY DEF Bookkeeping, purchaseVars, CreateJournal, InsertEntry, InsertLine, RefuseLine,
         RecordJournalChange, PostJournal, Pending, At
<1>2. Purchase \subseteq Entry /\ Purchase \cap Manual = {}
  BY PurchasesAssumption
<1>3. /\ journal \in [Entry -> Row \cup {NoEntry}] /\ \A row \in Row : row # NoEntry
  BY RowsExist DEF PurchasesIInv, PurchasesTypeOK
<1>4. ASSUME NEW e \in Manual, NEW lines \in Drafted, CreateJournal(e, lines)
      PROVE  cut' = cut /\ \A p \in Purchase : journal'[p] = journal[p]
  BY <1>2, <1>3, <1>4 DEF CreateJournal, InsertEntry
<1>5. ASSUME InsertLine
      PROVE  cut' = cut /\ \A p \in Purchase : journal'[p] = NoEntry <=> journal[p] = NoEntry
  <2>1. /\ At("line") /\ cut' = cut /\ job \in Job
        /\ journal' = [journal EXCEPT ![job.id].lines = Append(@, NextLine)]
        /\ job' = job \/ job' = [job EXCEPT !.step = "record"]
    BY <1>5 DEF InsertLine, PurchasesIInv, PurchasesTypeOK
  <2>2. (At("line")' \/ At("record")') /\ job'.id = job.id
    BY <2>1 DEF At, Job
  <2>3. journal[job.id] # NoEntry /\ journal'[job.id] # NoEntry
    BY <2>1, <2>2 DEF PurchasesIInv, Writing
  <2>4. \A p \in Purchase : p # job.id => journal'[p] = journal[p]
    BY <1>2, <1>3, <2>1
  <2> QED
    BY <2>1, <2>3, <2>4
<1>6. ASSUME RefuseLine \/ RecordJournalChange
      PROVE  cut \subseteq cut' /\ \A p \in Purchase : journal'[p] = journal[p]
  BY <1>6 DEF RefuseLine, RecordJournalChange
<1>7. ASSUME NEW e \in Entry, PostJournal(e)
      PROVE  cut' = cut /\ \A p \in Purchase : journal'[p] = NoEntry <=> journal[p] = NoEntry
  <2> DEFINE new == [journal[e] EXCEPT !.status = "posted"]
  <2>1. /\ cut' = cut /\ journal' = [journal EXCEPT ![e] = new]
        /\ journal[e] # NoEntry /\ journal[e] \in Row
    BY <1>3, <1>7 DEF PostJournal
  <2>2. new \in Row
    BY <2>1 DEF Row
  <2>3. new # NoEntry
    BY <1>3, <2>2
  <2> HIDE DEF new
  <2>4. \A p \in Purchase : journal'[p] = IF p = e THEN new ELSE journal[p]
    BY <1>2, <1>3, <2>1
  <2> QED
    BY <2>1, <2>3, <2>4
<1>8. /\ cut \subseteq cut'
      /\ \A p \in Purchase : journal'[p] = NoEntry <=> journal[p] = NoEntry
  BY <1>4, <1>5, <1>6, <1>7 DEF Bookkeeping
<1> QED
  BY <1>1, <1>8, BooksFrame

\* The other requests: an outbox row, and a cut.
LEMMA TellOrCutBooks ==
  ASSUME PurchasesIInv, Books, TellStatus \/ Cut
  PROVE  Books'
<1>1. UNCHANGED <<purchase, chart, journal>> /\ cut \subseteq cut'
  BY DEF TellStatus, Cut
<1>2. \A p \in Purchase : ~Pending(p) \/ Pending(p)' \/ p \in cut'
  BY DEF TellStatus, Cut, Pending, At
<1> QED
  BY <1>1, <1>2, BooksFrame

\* The quantity of some purchases, as the table rows has it.
QtyIn(rows, purchases) == SumFunctionOnSet([p \in purchases |-> rows[p].order.qty], purchases)

\* QtyOf, in this state and in the next.
LEMMA QtyOfIsQtyIn ==
  /\ \A purchases : QtyOf(purchases) = QtyIn(purchase, purchases)
  /\ GoodsFollowPurchases' <=>
       /\ Opening + QtyIn(purchase', Received') <= stock'
       /\ stock' <= Opening + QtyIn(purchase', Received' \cup Withdrawn')
<1>1. \A purchases : QtyOf(purchases) = QtyIn(purchase, purchases)
  BY Zenon DEF QtyOf, QtyIn, SumFunction
<1>2. /\ QtyOf(Received)' = QtyIn(purchase', Received')
      /\ QtyOf(Received \cup Withdrawn)' = QtyIn(purchase', Received' \cup Withdrawn')
  BY Zenon DEF QtyOf, QtyIn, SumFunction
<1> QED
  BY <1>1, <1>2, Zenon DEF GoodsFollowPurchases

\* A quantity depends on the orders only, and is a natural number.
LEMMA QtySame ==
  ASSUME NEW f, NEW g, NEW purchases, \A p \in purchases : f[p].order = g[p].order
  PROVE  QtyIn(f, purchases) = QtyIn(g, purchases)
<1> DEFINE u == [p \in purchases |-> f[p].order.qty]
           v == [p \in purchases |-> g[p].order.qty]
<1>1. u = v
  OBVIOUS
<1> QED
  BY <1>1, Zenon DEF QtyIn

\* More purchases have the quantity of those there were and that of the others.
LEMMA QtySplit ==
  ASSUME NEW f, NEW some, NEW others, IsFiniteSet(some), IsFiniteSet(others),
         some \cap others = {}, \A p \in some \cup others : f[p].order \in Order
  PROVE  /\ QtyIn(f, some \cup others) = QtyIn(f, some) + QtyIn(f, others)
         /\ QtyIn(f, some) \in Nat /\ QtyIn(f, others) \in Nat
<1> DEFINE all == some \cup others
           u == [p \in all |-> f[p].order.qty]
           v == [p \in some |-> f[p].order.qty]
           w == [p \in others |-> f[p].order.qty]
<1>1. \A order \in Order : order.qty \in Nat
  BY PurchasesAssumption
<1>2. /\ \A p \in some : v[p] \in Nat /\ u[p] = v[p]
      /\ \A p \in others : w[p] \in Nat /\ u[p] = w[p]
      /\ \A p \in some \cup others : u[p] \in Int
  BY <1>1
<1>3. /\ QtyIn(f, all) = SumFunctionOnSet(u, all)
      /\ QtyIn(f, some) = SumFunctionOnSet(v, some)
      /\ QtyIn(f, others) = SumFunctionOnSet(w, others)
  BY Zenon DEF QtyIn
<1> HIDE DEF u, v, w
<1>4. SumFunctionOnSet(u, some \cup others) = SumFunctionOnSet(u, some) + SumFunctionOnSet(u, others)
  BY <1>2, SumDisjoint
<1>5. /\ SumFunctionOnSet(u, some) = SumFunctionOnSet(v, some)
      /\ SumFunctionOnSet(u, others) = SumFunctionOnSet(w, others)
  BY <1>2, SumSame
<1>6. SumFunctionOnSet(v, some) \in Nat /\ SumFunctionOnSet(w, others) \in Nat
  BY <1>2, SumNat
<1> QED
  BY <1>3, <1>4, <1>5, <1>6

\* One purchase.
LEMMA QtyOne ==
  ASSUME NEW f, NEW p, f[p].order \in Order
  PROVE  QtyIn(f, {p}) = f[p].order.qty /\ IsFiniteSet({p})
<1> DEFINE u == [q \in {p} |-> f[q].order.qty]
<1>1. u[p] \in Int /\ u[p] = f[p].order.qty
  <2>1. \A order \in Order : order.qty \in Int
    BY OrderTotal
  <2>2. f[p].order.qty \in Int
    BY <2>1
  <2> QED
    BY <2>2
<1> HIDE DEF u
<1>2. SumFunctionOnSet(u, {p}) = u[p]
  BY <1>1, SumAlone
<1>3. QtyIn(f, {p}) = SumFunctionOnSet(u, {p})
  BY Zenon DEF QtyIn, u
<1> QED
  BY <1>1, <1>2, <1>3, FS_Singleton

\* Requests that move no goods: received purchases may go, possible ones may come.
LEMMA GoodsFrame ==
  ASSUME PurchasesIInv, Goods, stock' = stock, IsFiniteSet(Existing'),
         \A p \in Existing : purchase'[p].order = purchase[p].order,
         \A p \in Existing' : purchase'[p].order \in Order,
         Received' \subseteq Received,
         Received \cup Withdrawn \subseteq Received' \cup Withdrawn'
  PROVE  Goods'
<1> DEFINE R == Received
           U == Received \cup Withdrawn
           R1 == Received'
           U1 == Received' \cup Withdrawn'
<1>1. /\ R \subseteq Existing /\ U \subseteq Existing
      /\ R1 \subseteq Existing' /\ U1 \subseteq Existing' /\ U \subseteq U1 /\ R1 \subseteq R
  BY DEF Received, Withdrawn
<1>2. IsFiniteSet(Existing) /\ GoodsFollowPurchases
  BY DEF Goods
<1>3. /\ IsFiniteSet(R1) /\ IsFiniteSet(R \ R1) /\ IsFiniteSet(U) /\ IsFiniteSet(U1 \ U)
  <2>1. R \ R1 \subseteq Existing /\ U1 \ U \subseteq Existing'
    BY <1>1
  <2> QED
    BY <1>1, <1>2, <2>1, FS_Subset
<1>4. \A p \in Existing : purchase[p].order \in Order
  BY Typed DEF PurchaseRow, Existing
<1>5. /\ \A p \in R1 \cup (R \ R1) : purchase[p].order \in Order
      /\ \A p \in U \cup (U1 \ U) : purchase'[p].order \in Order
      /\ \A p \in R1 : purchase'[p].order = purchase[p].order
      /\ \A p \in U : purchase'[p].order = purchase[p].order
      /\ R1 \cup (R \ R1) = R /\ U \cup (U1 \ U) = U1
      /\ R1 \cap (R \ R1) = {} /\ U \cap (U1 \ U) = {}
  BY <1>1, <1>4
<1>6. /\ Opening + QtyIn(purchase, R) <= stock
      /\ stock <= Opening + QtyIn(purchase, U)
  BY <1>2, QtyOfIsQtyIn, Zenon DEF GoodsFollowPurchases
<1> DEFINE S == R \ R1
           V == U1 \ U
<1> HIDE DEF R, U, R1, U1, S, V
<1>7. /\ QtyIn(purchase, R1 \cup S) = QtyIn(purchase, R1) + QtyIn(purchase, S)
      /\ QtyIn(purchase, R1) \in Nat /\ QtyIn(purchase, S) \in Nat
  BY <1>3, <1>5, QtySplit DEF S
<1>8. /\ QtyIn(purchase', U \cup V) = QtyIn(purchase', U) + QtyIn(purchase', V)
      /\ QtyIn(purchase', U) \in Nat /\ QtyIn(purchase', V) \in Nat
  BY <1>3, <1>5, QtySplit DEF V
<1>9. QtyIn(purchase', R1) = QtyIn(purchase, R1) /\ QtyIn(purchase', U) = QtyIn(purchase, U)
  BY <1>5, QtySame
<1>10. R1 \cup S = R /\ U \cup V = U1
  BY <1>5 DEF S, V
<1>11. stock \in Nat /\ Opening \in Nat
  BY PurchasesAssumption DEF PurchasesIInv, PurchasesTypeOK
<1>12. /\ QtyIn(purchase, R) = QtyIn(purchase', R1) + QtyIn(purchase, S)
       /\ QtyIn(purchase', U1) = QtyIn(purchase, U) + QtyIn(purchase', V)
       /\ QtyIn(purchase', R1) \in Nat /\ QtyIn(purchase, U) \in Nat
  BY <1>7, <1>8, <1>9, <1>10, Zenon
<1>13. Opening + QtyIn(purchase', R1) <= stock' /\ stock' <= Opening + QtyIn(purchase', U1)
  BY <1>6, <1>7, <1>8, <1>11, <1>12
<1>14. GoodsFollowPurchases'
  BY <1>13, QtyOfIsQtyIn, Zenon DEF R1, U1
<1> QED
  BY <1>14 DEF Goods

\* A change of the status brings no goods.
LEMMA RearrangedGoods ==
  ASSUME PurchasesIInv, PurchasesIInv', Goods, NEW p \in Purchase, NEW status \in Status,
         Rearranged(p, status), status # "Received",
         purchase[p].status = "Received" => status = "Cancelled" /\ purchase[p].paid <= 0,
         purchase[p].status = "Cancelled" => status = "Cancelled"
  PROVE  Goods'
<1>1. /\ stock' = stock /\ Existing' = Existing /\ p \in Existing /\ IsFiniteSet(Existing)
      /\ purchase'[p].status = status
      /\ \A q \in Existing : /\ purchase'[q].order = purchase[q].order
                             /\ purchase'[q].paid = purchase[q].paid
                             /\ q # p => purchase'[q].status = purchase[q].status
  BY DEF Rearranged, Goods
<1>2. \A q \in Existing' : purchase'[q].order \in Order
  BY <1>1, Typed DEF PurchaseRow, Existing
<1>3. Received' \subseteq Received
  BY <1>1 DEF Received
<1>4. Received \cup Withdrawn \subseteq Received' \cup Withdrawn'
  BY <1>1 DEF Received, Withdrawn
<1> QED
  BY <1>1, <1>2, <1>3, <1>4, GoodsFrame

\* A new purchase brings its goods when it is received.
LEMMA CreatePurchaseGoods ==
  ASSUME PurchasesIInv, Goods, NEW p \in Purchase, NEW status \in Status, NEW order \in Order,
         NEW paid \in Prepaid, CreatePurchase(p, status, order, paid)
  PROVE  Goods'
<1> DEFINE row == [status |-> status, order |-> order, paid |-> paid,
                   due |-> Total(order) - paid]
<1>1. /\ purchase[p] = NoPurchase /\ paid <= Total(order)
      /\ purchase' = [purchase EXCEPT ![p] = row]
      /\ stock' = IF status = "Received" THEN stock + order.qty ELSE stock
      /\ purchase \in [Purchase -> PurchaseRow \cup {NoPurchase}]
  BY DEF CreatePurchase, PurchasesIInv, PurchasesTypeOK
<1>2. row \in PurchaseRow /\ row.order = order /\ row.status = status
  <2>1. paid \in Int /\ Total(order) - paid \in Nat
    BY <1>1, DueNatural
  <2> QED
    BY <2>1 DEF PurchaseRow
<1>3. row # NoPurchase
  BY <1>2, RowsExist
<1> HIDE DEF row
<1>4. purchase'[p] = row /\ \A q \in Existing : purchase'[q] = purchase[q]
  BY <1>1 DEF Existing
<1>5. Existing' = Existing \cup {p} /\ p \notin Existing /\ IsFiniteSet(Existing)
  BY <1>1, <1>3, <1>4 DEF Existing, Goods
<1>6. IsFiniteSet(Existing')
  BY <1>5, FS_AddElement
<1>7. \A q \in Existing' : purchase'[q].order \in Order
  BY <1>2, <1>4, <1>5, Typed DEF PurchaseRow, Existing
<1>8. CASE status # "Received"
  <2>1. Received' = Received /\ Withdrawn \subseteq Withdrawn'
    BY <1>2, <1>4, <1>5, <1>8 DEF Received, Withdrawn
  <2>2. stock' = stock
    BY <1>1, <1>8
  <2> QED
    BY <1>4, <1>6, <1>7, <2>1, <2>2, GoodsFrame
<1>9. CASE status = "Received"
  <2> DEFINE R == Received
             U == Received \cup Withdrawn
  <2>1. Received' = R \cup {p} /\ Received' \cup Withdrawn' = U \cup {p}
    BY <1>2, <1>4, <1>5, <1>9 DEF Received, Withdrawn
  <2>2. /\ IsFiniteSet(R) /\ IsFiniteSet(U) /\ R \subseteq Existing /\ U \subseteq Existing
    <3>1. R \subseteq Existing /\ U \subseteq Existing
      BY DEF Received, Withdrawn
    <3> QED
      BY <1>5, <3>1, FS_Subset
  <2>3. /\ \A q \in R \cup {p} : purchase'[q].order \in Order
        /\ \A q \in U \cup {p} : purchase'[q].order \in Order
        /\ \A q \in R : purchase'[q].order = purchase[q].order
        /\ \A q \in U : purchase'[q].order = purchase[q].order
        /\ R \cap {p} = {} /\ U \cap {p} = {} /\ purchase'[p].order = order
    BY <1>2, <1>4, <1>5, <1>7, <2>2
  <2>4. /\ Opening + QtyIn(purchase, R) <= stock
        /\ stock <= Opening + QtyIn(purchase, U)
    BY QtyOfIsQtyIn, Zenon DEF Goods, GoodsFollowPurchases
  <2> HIDE DEF R, U
  <2>5. QtyIn(purchase', {p}) = order.qty /\ IsFiniteSet({p})
    BY <2>3, QtyOne
  <2>6. /\ QtyIn(purchase', R \cup {p}) = QtyIn(purchase', R) + QtyIn(purchase', {p})
        /\ QtyIn(purchase', R) \in Nat /\ QtyIn(purchase', {p}) \in Nat
    BY <2>2, <2>3, <2>5, QtySplit
  <2>7. /\ QtyIn(purchase', U \cup {p}) = QtyIn(purchase', U) + QtyIn(purchase', {p})
        /\ QtyIn(purchase', U) \in Nat
    BY <2>2, <2>3, <2>5, QtySplit
  <2>8. QtyIn(purchase', R) = QtyIn(purchase, R) /\ QtyIn(purchase', U) = QtyIn(purchase, U)
    BY <2>3, QtySame
  <2>9. stock \in Nat /\ Opening \in Nat /\ stock' = stock + order.qty
    BY <1>1, <1>9, PurchasesAssumption DEF PurchasesIInv, PurchasesTypeOK
  <2>10. /\ Opening + QtyIn(purchase', R \cup {p}) <= stock'
         /\ stock' <= Opening + QtyIn(purchase', U \cup {p})
    BY <2>4, <2>5, <2>6, <2>7, <2>8, <2>9
  <2>11. GoodsFollowPurchases'
    BY <2>1, <2>10, QtyOfIsQtyIn, Zenon
  <2> QED
    BY <1>6, <2>11 DEF Goods
<1> QED
  BY <1>8, <1>9

\* Steps that leave the purchases and the stock alone.
LEMMA SameGoods ==
  ASSUME Goods, UNCHANGED <<purchase, stock>>
  PROVE  Goods'
<1>1. Existing' = Existing /\ Received' = Received /\ Withdrawn' = Withdrawn
  BY DEF Existing, Received, Withdrawn
<1>2. GoodsFollowPurchases'
  BY <1>1, QtyOfIsQtyIn, Zenon DEF Goods, GoodsFollowPurchases
<1> QED
  BY <1>1, <1>2 DEF Goods

\* At the start nothing was bought.
LEMMA BooksAndGoodsInit == Init => Books /\ Goods
<1> SUFFICES ASSUME Init PROVE Books /\ Goods
  OBVIOUS
<1>1. Existing = {} /\ Received = {} /\ Withdrawn = {} /\ stock = Opening
  BY DEF Init, Existing, Received, Withdrawn
<1>2. IsFiniteSet(Existing)
  BY <1>1, FS_EmptySet
<1>3. QtyIn(purchase, {}) = 0
  BY SumEmpty DEF QtyIn
<1>4. Received \cup Withdrawn = {}
  BY <1>1
<1>5. QtyOf(Received) = 0 /\ QtyOf(Received \cup Withdrawn) = 0
  BY <1>1, <1>3, <1>4, QtyOfIsQtyIn, Zenon
<1>6. Opening \in Nat
  BY PurchasesAssumption
<1>7. GoodsFollowPurchases
  BY <1>1, <1>5, <1>6 DEF GoodsFollowPurchases
<1> QED
  BY <1>1, <1>2, <1>7 DEF Books, Goods

\* No request disturbs the books and the goods.
LEMMA BooksAndGoodsNext ==
  PurchasesIInv /\ PurchasesIInv' /\ Books /\ Goods /\ [Next]_vars => Books' /\ Goods'
<1> SUFFICES ASSUME PurchasesIInv, PurchasesIInv', Books, Goods, [Next]_vars
             PROVE  Books' /\ Goods'
  OBVIOUS
<1>1. ASSUME NEW p \in Purchase, NEW status \in Status, NEW order \in Order,
             NEW paid \in Prepaid, CreatePurchase(p, status, order, paid)
      PROVE  Books' /\ Goods'
  BY <1>1, CreatePurchaseBooks, CreatePurchaseGoods
<1>2. CASE PostNothing \/ PostPurchase
  <2>1. UNCHANGED <<purchase, stock>>
    BY <1>2 DEF PostNothing, PostPurchase, purchaseVars
  <2> QED
    BY <1>2, <2>1, PostNothingBooks, PostPurchaseBooks, SameGoods
<1>3. ASSUME NEW p \in Purchase, NEW status \in Status, UpdatePurchase(p, status)
      PROVE  Books' /\ Goods'
  <2>1. /\ SetStatus(p, status) /\ status \in Editable /\ job.step = "none"
        /\ purchase[p] # NoPurchase /\ purchase[p].status \in Editable
    BY <1>3 DEF UpdatePurchase, At
  <2>2. /\ status # "Received" /\ purchase[p].status # "Received"
        /\ purchase[p].status # "Cancelled"
    BY <2>1 DEF Editable
  <2> QED
    BY <2>1, <2>2, SetStatusBooks, RearrangedGoods
<1>4. ASSUME NEW p \in Purchase, CancelPurchase(p) PROVE Books' /\ Goods'
  <2>1. /\ SetStatus(p, "Cancelled") /\ job.step = "none" /\ "Cancelled" \in Status
        /\ purchase[p] # NoPurchase /\ purchase[p] \in PurchaseRow
        /\ ~(purchase[p].status = "Received" /\ purchase[p].paid > 0)
    BY <1>4, Typed DEF CancelPurchase, At, Status
  <2>2. purchase[p].status = "Received" => purchase[p].paid <= 0
    BY <2>1 DEF PurchaseRow
  <2> QED
    BY <2>1, <2>2, SetStatusBooks, RearrangedGoods
<1>5. CASE TellStatus \/ Cut
  <2>1. UNCHANGED <<purchase, stock>>
    BY <1>5 DEF TellStatus, Cut
  <2> QED
    BY <1>5, <2>1, TellOrCutBooks, SameGoods
<1>6. CASE Bookkeeping
  <2>1. UNCHANGED <<purchase, stock>>
    BY <1>6 DEF Bookkeeping, purchaseVars
  <2> QED
    BY <1>6, <2>1, BookkeepingBooks, SameGoods
<1>7. CASE UNCHANGED vars
  <2>1. /\ UNCHANGED <<purchase, stock, chart, cut, journal>>
        /\ \A p \in Purchase : Pending(p)' <=> Pending(p)
    BY <1>7 DEF vars, journalVars, purchaseVars, Pending, At
  <2> QED
    BY <2>1, BooksFrame, SameGoods
<1> QED
  BY <1>1, <1>2, <1>3, <1>4, <1>5, <1>6, <1>7 DEF Next

\* Spec keeps both.
LEMMA BooksAndGoods == Spec => [](PurchasesIInv /\ Books /\ Goods)
BY BooksAndGoodsInit, BooksAndGoodsNext, PurchasesInvariant, PTL DEF Spec

\* The goods of every received purchase are in the stock, and what is in excess of them
\* came with a cancelled purchase whose payments add up to nothing or less (createPurchase,
\* deletePurchase).
THEOREM PurchasesGoods == Spec => []GoodsFollowPurchases
<1>1. Goods => GoodsFollowPurchases
  BY DEF Goods
<1> QED
  BY <1>1, BooksAndGoods, PTL

\* An entry that balances books everything where it belongs.
LEMMA BookedAsBought ==
  ASSUME NEW row \in PurchaseRow, NEW accounts \in SUBSET Account, Priced(row),
         Valid(Lines(row, accounts))
  PROVE  /\ Booked(Lines(row, accounts), "Inventory", "debit")
              = row.order.amount
         /\ Booked(Lines(row, accounts), "Tax Paid", "debit") = Max({0, row.order.tax})
         /\ {"Cash", "Accounts Payable"} \subseteq accounts =>
              /\ Booked(Lines(row, accounts), "Cash", "credit") = Max({0, row.paid})
              /\ Booked(Lines(row, accounts), "Accounts Payable", "credit") = row.due
<1> DEFINE lines == Lines(row, accounts)
           tax == Max({0, row.order.tax})
           net == row.order.amount
           paid == Max({0, row.paid})
           booked == TaxBooked(row.order, accounts)
           spent == PaidBooked(row.paid)
<1>1. lines \in Seq(Line)
  BY LinesType
<1>2. /\ net \in Int /\ tax \in Int /\ paid \in Int /\ row.due \in Int /\ spent = paid
  <2>1. row.order.amount \in Int /\ row.order.tax \in Int /\ row.paid \in Int /\ row.due \in Int
    BY OrderTotal DEF PurchaseRow
  <2>2. /\ tax = IF row.order.tax > 0 THEN row.order.tax ELSE 0
        /\ paid = IF row.paid > 0 THEN row.paid ELSE 0
    BY <2>1, Clamped
  <2>3. spent = IF row.paid > 0 THEN row.paid ELSE 0
    BY Zenon DEF PaidBooked
  <2> HIDE DEF tax, paid, spent
  <2> QED
    BY <2>1, <2>2, <2>3
<1>3. booked = tax
  BY LinesBalance DEF Valid
<1>4. "debit" \in Sides /\ "credit" \in Sides
  BY DEF Sides
<1>5. /\ Booked(lines, "Inventory", "debit") = Side(lines, {"Inventory"}, "debit")
      /\ Booked(lines, "Tax Paid", "debit") = Side(lines, {"Tax Paid"}, "debit")
      /\ Booked(lines, "Cash", "credit") = Side(lines, {"Cash"}, "credit")
      /\ Booked(lines, "Accounts Payable", "credit") = Side(lines, {"Accounts Payable"}, "credit")
  BY <1>1, <1>4, SidesAre
<1>6. \A accs : /\ Side(lines, accs, "debit")
                     = Share("Inventory", accs, net) + Share("Tax Paid", accs, booked)
                /\ Side(lines, accs, "credit")
                     = Share(PaidTarget(accounts), accs, paid)
                         + Share(DueTarget(accounts), accs, row.due)
  BY <1>2, SidesOfPurchase, Zenon
<1>7. \A x \in Int : x + 0 = x /\ 0 + x = x
  OBVIOUS
<1> HIDE DEF lines, net, tax, booked, paid, spent
<1>8. Side(lines, {"Inventory"}, "debit") = net
  <2>1. Share("Inventory", {"Inventory"}, net) = net /\ Share("Tax Paid", {"Inventory"}, booked) = 0
    BY DEF Share
  <2> QED
    BY <1>2, <1>6, <1>7, <2>1, Zenon
<1>9. Side(lines, {"Tax Paid"}, "debit") = tax
  <2>1. Share("Inventory", {"Tax Paid"}, net) = 0 /\ Share("Tax Paid", {"Tax Paid"}, booked) = tax
    BY <1>3 DEF Share
  <2> QED
    BY <1>2, <1>6, <1>7, <2>1, Zenon
<1>10. ASSUME {"Cash", "Accounts Payable"} \subseteq accounts
       PROVE  /\ Side(lines, {"Cash"}, "credit") = paid
              /\ Side(lines, {"Accounts Payable"}, "credit") = row.due
  <2>1. PaidTarget(accounts) = "Cash" /\ DueTarget(accounts) = "Accounts Payable"
    BY <1>10, Zenon DEF PaidTarget, DueTarget
  <2>2. /\ Share("Cash", {"Cash"}, paid) = paid
        /\ Share("Accounts Payable", {"Cash"}, row.due) = 0
        /\ Share("Cash", {"Accounts Payable"}, paid) = 0
        /\ Share("Accounts Payable", {"Accounts Payable"}, row.due) = row.due
    BY DEF Share
  <2>3. Side(lines, {"Cash"}, "credit") = paid + 0
    BY <1>6, <2>1, <2>2, Zenon
  <2>4. Side(lines, {"Accounts Payable"}, "credit") = 0 + row.due
    BY <1>6, <2>1, <2>2, Zenon
  <2> QED
    BY <1>2, <1>7, <2>3, <2>4, Zenon
<1> QED
  BY <1>5, <1>8, <1>9, <1>10, Zenon DEF lines, net, tax, paid

\* The books of Books say what JournalTellsPurchases says.
LEMMA BooksTell == PurchasesIInv /\ Books => JournalTellsPurchases
<1> SUFFICES ASSUME PurchasesIInv, Books PROVE JournalTellsPurchases
  OBVIOUS
<1>1. ASSUME NEW p \in Existing
      PROVE  /\ journal[p] # NoEntry => purchase[p].status \in {"Received", "Cancelled"}
             /\ Settled(p) /\ journal[p] # NoEntry =>
                  /\ journal[p].lines = Lines(purchase[p], chart)
                  /\ Valid(Lines(purchase[p], chart))
             /\ Settled(p) /\ purchase[p].status = "Received" /\ Payable(purchase[p])
                  => journal[p] # NoEntry
             /\ purchase[p] \in PurchaseRow /\ Priced(purchase[p])
  <2>1. p \in Purchase /\ BookOf(p) /\ purchase[p] \in PurchaseRow
    BY Typed DEF Books, Existing
  <2>2. Settled(p) => p \notin cut /\ Written(p) /\ ~Pending(p)
    BY DEF Settled, Written, Pending, At
  <2> QED
    BY <2>1, <2>2 DEF BookOf, PurchasesIInv, EntryTellsPurchase
<1>2. chart \in SUBSET Account
  BY DEF PurchasesIInv, PurchasesTypeOK
<1>3. ASSUME NEW p \in Existing, Settled(p), journal[p] # NoEntry
      PROVE  /\ Booked(journal[p].lines, "Inventory", "debit")
                  = purchase[p].order.amount
             /\ Booked(journal[p].lines, "Tax Paid", "debit") = Max({0, purchase[p].order.tax})
             /\ {"Cash", "Accounts Payable"} \subseteq chart =>
                  /\ Booked(journal[p].lines, "Cash", "credit") = Max({0, purchase[p].paid})
                  /\ Booked(journal[p].lines, "Accounts Payable", "credit") = purchase[p].due
  <2>1. /\ journal[p].lines = Lines(purchase[p], chart) /\ Valid(Lines(purchase[p], chart))
        /\ purchase[p] \in PurchaseRow /\ Priced(purchase[p])
    BY <1>1, <1>3
  <2> QED
    BY <1>2, <2>1, BookedAsBought, Zenon
<1> QED
  BY <1>1, <1>3, Zenon DEF JournalTellsPurchases, Payable, TaxAccount

\* The journal has the received purchases and no others but cancelled ones, each with the
\* goods, the tax, the money and the debt where they belong (_postAccounting), if nothing
\* was cut; it lacks one only for want of an account or an amount, or where the tax or what
\* was paid is negative.
THEOREM PurchasesJournal == Spec => []JournalTellsPurchases
BY BooksAndGoods, BooksTell, PTL
=============================================================================
