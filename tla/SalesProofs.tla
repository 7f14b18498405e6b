---------------------------- MODULE SalesProofs ----------------------------
(***************************************************************************)
(* Proofs about Sales, for any sales, orders, charts of accounts, payments *)
(* and cuts: its type invariant, and what the header and the outbox say of *)
(* a sale whose requests were not cut.                                     *)
(***************************************************************************)
EXTENDS Sales, TLAPS

-----------------------------------------------------------------------------
(* The inductive invariant.                                                *)

\* The request on sale s is at one of these steps.
Busy(s, steps) == job.step \in steps /\ job.sale = s

\* A request works on a sale that exists; lines are left while lines are inserted.
Requests ==
  /\ job.step # "none" => job.sale \in Sale /\ sale[job.sale] # NoSale
  /\ At("line") => entry[job.sale] # NoEntry /\ job.lines # <<>>
  /\ \A s \in Existing : told[s] \in Told

\* What makes HeaderTellsPayments inductive: only between the payment row and the
\* refresh does the header lag behind.
Headers ==
  \A s \in Existing :
    /\ sale[s].paid <= received[s]
    /\ s \notin cut /\ ~Busy(s, {"refresh"}) =>
         /\ sale[s].paid = received[s]
         /\ sale[s].due = DueOf(Total(sale[s].order), received[s])

\* What makes PaidSalesStay inductive: a completed sale is only cancelled or returned.
SoldStay ==
  \A s \in sold :
    /\ s \in Existing
    /\ sale[s].status \in {"Completed", "Cancelled", "Returned"}

\* What makes OutboxTellsSales inductive: what is still to be told at each step.
Outbox ==
  \A s \in Existing : s \notin cut =>
    /\ ~Busy(s, {"tellStatus"}) => told[s].status = sale[s].status
    /\ ~Busy(s, {"refresh", "tellPayment", "tellTotals"}) => told[s].paid = sale[s].paid
    /\ ~Busy(s, {"refresh", "tellPayment"}) => told[s].money = received[s]
    /\ Busy(s, {"refresh", "tellPayment"}) => told[s].money + job.amount = received[s]

SalesIInv ==
  /\ SalesTypeOK
  /\ Requests
  /\ Headers
  /\ SoldStay
  /\ PaidSalesStay
  /\ Outbox

-----------------------------------------------------------------------------
(* Facts about data.                                                       *)

\* An order has a quantity; what it costs may be of either sign.
LEMMA OrderTotal ==
  ASSUME NEW order \in Order
  PROVE  /\ order.qty \in Nat \ {0} /\ order.amount \in Int /\ order.tax \in Int
         /\ Total(order) \in Int
<1>1. order.qty \in Nat \ {0} /\ order.amount \in Int /\ order.tax \in Int
  BY SalesAssumption
<1> QED
  BY <1>1 DEF Total

\* The clamped difference is a natural number.
LEMMA DueNatural ==
  ASSUME NEW total \in Int, NEW paid \in Int
  PROVE  DueOf(total, paid) \in Nat
<1> DEFINE S == {0, total - paid}
<1>1. \E x \in S : \A y \in S : x >= y
  OBVIOUS
<1>2. Max(S) \in S /\ \A y \in S : Max(S) >= y
  BY <1>1 DEF Max
<1>3. Max(S) \in Int /\ Max(S) >= 0
  BY <1>2
<1> QED
  BY <1>3 DEF DueOf

\* The journal of a sale is a sequence of lines.
LEMMA LinesType ==
  ASSUME NEW row \in SaleRow
  PROVE  Lines(row) \in Seq(Line)
<1>1. /\ row.paid \in Int /\ row.due \in Int
      /\ row.order.amount \in Int /\ row.order.tax \in Int
  BY OrderTotal DEF SaleRow
<1>2. \A acc \in Account, amount \in Int :
        Debit(acc, amount) \in Seq(Line) /\ Credit(acc, amount) \in Seq(Line)
  BY DEF Debit, Credit, Line
<1>3. DebitTarget \in Account /\ DueTarget \in Account
  BY DEF DebitTarget, DueTarget, Account
<1>4. <<>> \in Seq(Line)
  OBVIOUS
<1>5. (IF row.paid > 0 THEN Debit(DebitTarget, row.paid) ELSE <<>>) \in Seq(Line)
  <2>1. Debit(DebitTarget, row.paid) \in Seq(Line)
    BY <1>1, <1>2, <1>3
  <2> QED
    BY <2>1, <1>4, Zenon
<1>6. DueLine(row.due) \in Seq(Line)
  <2>1. Debit(DueTarget, row.due) \in Seq(Line)
    BY <1>1, <1>2, <1>3
  <2> QED
    BY <2>1, <1>4, Zenon DEF DueLine
<1>7. Credit("Revenue", row.order.amount) \in Seq(Line)
  BY <1>1, <1>2 DEF Account
<1>8. (IF row.order.tax > 0 /\ "Tax Payable" \in chart
        THEN Credit("Tax Payable", row.order.tax) ELSE <<>>) \in Seq(Line)
  <2>1. Credit("Tax Payable", row.order.tax) \in Seq(Line)
    BY <1>1, <1>2 DEF Account
  <2> QED
    BY <2>1, <1>4, Zenon
<1>9. \A a, b \in Seq(Line) : a \o b \in Seq(Line)
  OBVIOUS
<1> QED
  BY <1>5, <1>6, <1>7, <1>8, <1>9, Zenon DEF Lines

\* A refreshed header is a header.
LEMMA RefreshedRow ==
  ASSUME NEW row \in SaleRow, NEW paid \in Int
  PROVE  /\ Refreshed(row, paid) \in SaleRow
         /\ Refreshed(row, paid).status = row.status
         /\ Refreshed(row, paid).order = row.order
         /\ Refreshed(row, paid).paid = paid
         /\ Refreshed(row, paid).due = DueOf(Total(row.order), paid)
<1>1. DueOf(Total(row.order), paid) \in Nat
  BY OrderTotal, DueNatural DEF SaleRow
<1> QED
  BY <1>1 DEF Refreshed, SaleRow

\* Lines that are left give a line and, but for the last, leave lines.
LEMMA NextLine ==
  ASSUME NEW lines \in Seq(Line), lines # <<>>
  PROVE  /\ Head(lines) \in Line
         /\ Tail(lines) \in Seq(Line)
         /\ Len(lines) # 1 => Tail(lines) # <<>>
<1>1. Len(lines) \in Nat /\ Len(lines) # 0
  OBVIOUS
<1>2. Head(lines) \in Line /\ Tail(lines) \in Seq(Line) /\ Len(Tail(lines)) = Len(lines) - 1
  BY <1>1
<1>3. \A t \in Seq(Line), n \in Nat : Len(t) = n - 1 /\ n # 1 => t # <<>>
  OBVIOUS
<1> QED
  BY <1>1, <1>2, <1>3, Zenon

\* A header is a row, whatever it says.
LEMMA RowExists ==
  ASSUME NEW row \in SaleRow
  PROVE  row # NoSale
BY SalesAssumption DEF SaleRow

\* The rows behind an existing sale.
LEMMA Rows ==
  ASSUME SalesIInv, NEW s \in Sale, sale[s] # NoSale
  PROVE  /\ s \in Existing
         /\ sale[s] \in SaleRow /\ sale[s].status \in Status /\ sale[s].order \in Order
         /\ sale[s].paid \in Int /\ sale[s].due \in Nat
         /\ told[s] \in Told /\ told[s].status \in Status
         /\ told[s].paid \in Int /\ told[s].money \in Int
         /\ received[s] \in Int
<1>1. s \in Existing /\ sale[s] \in SaleRow /\ told[s] \in Told /\ received[s] \in Int
  BY DEF SalesIInv, SalesTypeOK, Requests, Existing
<1> QED
  BY <1>1 DEF SaleRow, Told

-----------------------------------------------------------------------------
(* The invariant holds initially, and each action preserves it.            *)

LEMMA SalesInitInv == Init => SalesIInv
<1> SUFFICES ASSUME Init PROVE SalesIInv
  OBVIOUS
<1>1. SalesTypeOK
  BY SalesAssumption DEF Init, SalesTypeOK, Job, NoJob
<1>2. Existing = {} /\ job.step = "none" /\ sold = {}
  BY DEF Init, Existing, NoJob
<1> QED
  BY <1>1, <1>2 DEF SalesIInv, Requests, Headers, SoldStay, PaidSalesStay, Outbox, At

\* What the steps that only post the journal leave alone.
LEMMA JournalFrame ==
  ASSUME SalesIInv,
         UNCHANGED <<sale, received, restocked, stock, told, chart, sold, negative, cut>>,
         job.step \in {"post", "line", "tellEntry"},
         job'.step \in {"none", "line", "tellEntry"}
  PROVE  Headers' /\ SoldStay' /\ PaidSalesStay' /\ Outbox'
<1> DEFINE Steps == {"refresh", "tellPayment", "tellTotals", "tellStatus"}
<1>1. \A s, steps : steps \subseteq Steps => ~Busy(s, steps) /\ ~Busy(s, steps)'
  BY DEF Busy
<1>2. Existing' = Existing
  BY DEF Existing
<1>3. Headers'
  BY <1>1, <1>2 DEF SalesIInv, Headers
<1>4. SoldStay' /\ PaidSalesStay'
  BY <1>2 DEF SalesIInv, SoldStay, PaidSalesStay
<1>5. Outbox'
  BY <1>1, <1>2 DEF SalesIInv, Outbox
<1> QED
  BY <1>3, <1>4, <1>5

LEMMA PostNothingInv == SalesIInv /\ PostNothing => SalesIInv'
<1> SUFFICES ASSUME SalesIInv, PostNothing PROVE SalesIInv'
  OBVIOUS
<1>1. /\ job.step = "post" /\ job' = NoJob /\ NoJob.step = "none" /\ NoJob \in Job
      /\ UNCHANGED <<sale, received, restocked, stock, entry, entryTold, told, chart, sold, negative, cut>>
  BY DEF PostNothing, At, NoJob, Job
<1>2. SalesTypeOK'
  BY <1>1 DEF SalesIInv, SalesTypeOK
<1>3. Requests'
  BY <1>1 DEF SalesIInv, Requests, At, Existing
<1> QED
  BY <1>1, <1>2, <1>3, JournalFrame DEF SalesIInv

LEMMA PostEntryInv == SalesIInv /\ PostEntry => SalesIInv'
<1> SUFFICES ASSUME SalesIInv, PostEntry PROVE SalesIInv'
  OBVIOUS
<1> DEFINE lines == Lines(sale[job.sale])
<1>1. /\ job.step = "post" /\ Posts(sale[job.sale])
      /\ entry' = [entry EXCEPT ![job.sale] = <<>>]
      /\ job' = [job EXCEPT !.step = "line", !.lines = lines]
      /\ UNCHANGED <<sale, received, restocked, stock, entryTold, told, chart, sold, negative, cut>>
  BY DEF PostEntry, At
<1>2. /\ job \in Job /\ job.sale \in Sale /\ sale[job.sale] \in SaleRow
  BY <1>1 DEF SalesIInv, SalesTypeOK, Requests
<1>3. lines \in Seq(Line) /\ lines # <<>>
  <2>1. lines \in Seq(Line) /\ Len(lines) >= 2
    BY <1>1, <1>2, LinesType DEF Posts
  <2> HIDE DEF lines
  <2> QED
    BY <2>1
<1> HIDE DEF lines
<1>4. job' \in Job /\ job'.step = "line" /\ job'.sale = job.sale /\ job'.lines = lines
  BY <1>1, <1>2, <1>3 DEF Job
<1>5. entry' \in [Sale -> Seq(Line) \cup {NoEntry}] /\ entry'[job.sale] = <<>>
  BY <1>1, <1>2 DEF SalesIInv, SalesTypeOK
<1>6. <<>> # NoEntry
  <2>1. <<>> \in Seq(Line)
    OBVIOUS
  <2> QED
    BY <2>1, SalesAssumption
<1>7. SalesTypeOK'
  BY <1>1, <1>4, <1>5 DEF SalesIInv, SalesTypeOK
<1>8. Requests'
  BY <1>1, <1>2, <1>3, <1>4, <1>5, <1>6 DEF SalesIInv, Requests, At, Existing
<1> QED
  BY <1>1, <1>4, <1>7, <1>8, JournalFrame DEF SalesIInv

LEMMA PostLineInv == SalesIInv /\ PostLine => SalesIInv'
<1> SUFFICES ASSUME SalesIInv, PostLine PROVE SalesIInv'
  OBVIOUS
<1>1. /\ job.step = "line"
      /\ entry' = [entry EXCEPT ![job.sale] = Append(@, Head(job.lines))]
      /\ job' = [job EXCEPT !.lines = Tail(@),
                            !.step = IF Len(job.lines) = 1 THEN "tellEntry" ELSE @]
      /\ UNCHANGED <<sale, received, restocked, stock, entryTold, told, chart, sold, negative, cut>>
  BY DEF PostLine, At
<1>2. /\ job \in Job /\ job.sale \in Sale /\ sale[job.sale] # NoSale
      /\ job.lines \in Seq(Line) /\ job.lines # <<>>
      /\ entry[job.sale] \in Seq(Line)
      /\ entry \in [Sale -> Seq(Line) \cup {NoEntry}]
  BY <1>1 DEF SalesIInv, SalesTypeOK, Requests, At, Job
<1>3. /\ Head(job.lines) \in Line /\ Tail(job.lines) \in Seq(Line)
      /\ Len(job.lines) # 1 => Tail(job.lines) # <<>>
  BY <1>2, NextLine
<1>4. /\ job' \in Job /\ job'.sale = job.sale /\ job'.lines = Tail(job.lines)
      /\ job'.step = IF Len(job.lines) = 1 THEN "tellEntry" ELSE "line"
  BY <1>1, <1>2, <1>3 DEF Job
<1>5. Append(entry[job.sale], Head(job.lines)) \in Seq(Line)
  BY <1>2, <1>3
<1>6. /\ entry' \in [Sale -> Seq(Line) \cup {NoEntry}]
      /\ entry'[job.sale] = Append(entry[job.sale], Head(job.lines))
  BY <1>1, <1>2, <1>5
<1>7. entry'[job.sale] # NoEntry
  BY <1>5, <1>6, SalesAssumption
<1>8. SalesTypeOK'
  BY <1>1, <1>4, <1>6 DEF SalesIInv, SalesTypeOK
<1>9. Requests'
  BY <1>1, <1>2, <1>3, <1>4, <1>7 DEF SalesIInv, Requests, At, Existing
<1> QED
  BY <1>1, <1>4, <1>8, <1>9, JournalFrame DEF SalesIInv

LEMMA TellEntryInv == SalesIInv /\ TellEntry => SalesIInv'
<1> SUFFICES ASSUME SalesIInv, TellEntry PROVE SalesIInv'
  OBVIOUS
<1>1. /\ job.step = "tellEntry" /\ job' = NoJob /\ NoJob.step = "none" /\ NoJob \in Job
      /\ entryTold' = entryTold \cup {job.sale}
      /\ UNCHANGED <<sale, received, restocked, stock, entry, told, chart, sold, negative, cut>>
  BY DEF TellEntry, At, NoJob, Job
<1>2. SalesTypeOK'
  BY <1>1 DEF SalesIInv, SalesTypeOK, Requests
<1>3. Requests'
  BY <1>1 DEF SalesIInv, Requests, At, Existing
<1> QED
  BY <1>1, <1>2, <1>3, JournalFrame DEF SalesIInv

\* A payment is stored: the header and the outbox lag behind.
LEMMA InsertPaymentInv ==
  ASSUME SalesIInv, NEW s \in Sale, NEW amount \in 1 .. MaxPaid, InsertPayment(s, amount)
  PROVE  SalesIInv'
<1>1. /\ job.step = "none" /\ sale[s] # NoSale /\ sale[s].status = "Completed"
      /\ received' = [received EXCEPT ![s] = @ + amount]
      /\ job' = [job EXCEPT !.step = "refresh", !.sale = s, !.amount = amount]
      /\ UNCHANGED <<sale, restocked, stock, entry, entryTold, told, chart, sold, negative, cut>>
      /\ amount \in Nat
  BY SalesAssumption DEF InsertPayment, At, AfterPayment
<1>2. /\ job \in Job /\ received \in [Sale -> Int]
  BY DEF SalesIInv, SalesTypeOK
<1>3. /\ job' \in Job /\ job'.step = "refresh" /\ job'.sale = s /\ job'.amount = amount
  BY <1>1, <1>2 DEF Job
<1>4. /\ received' \in [Sale -> Int] /\ received'[s] = received[s] + amount
      /\ \A t \in Sale \ {s} : received'[t] = received[t]
  BY <1>1, <1>2
<1>5. Existing' = Existing /\ Existing \subseteq Sale
  BY <1>1 DEF Existing
<1>6. \A t, steps : ~Busy(t, steps) \/ "none" \in steps
  BY <1>1 DEF Busy
<1>7. \A t, steps : Busy(t, steps)' <=> t = s /\ "refresh" \in steps
  BY <1>3 DEF Busy
<1>8. SalesTypeOK'
  BY <1>1, <1>3, <1>4 DEF SalesIInv, SalesTypeOK
<1>9. Requests'
  BY <1>1, <1>3, <1>5 DEF SalesIInv, Requests, At
<1>10. Headers'
  <2>1. sale[s].paid <= received'[s]
    BY <1>1, <1>2, <1>4, Rows DEF SalesIInv, Headers
  <2> QED
    BY <1>1, <1>4, <1>5, <1>6, <1>7, <2>1 DEF SalesIInv, Headers
<1>11. SoldStay'
  BY <1>1, <1>5 DEF SalesIInv, SoldStay
<1>12. PaidSalesStay'
  BY <1>1, <1>4, <1>5 DEF SalesIInv, PaidSalesStay, SoldStay
<1>13. Outbox'
  BY <1>1, <1>3, <1>4, <1>5, <1>6, <1>7 DEF SalesIInv, Outbox
<1> QED
  BY <1>8, <1>9, <1>10, <1>11, <1>12, <1>13 DEF SalesIInv

\* The header catches up with the payments.
LEMMA RefreshTotalsInv == SalesIInv /\ RefreshTotals => SalesIInv'
<1> SUFFICES ASSUME SalesIInv, RefreshTotals PROVE SalesIInv'
  OBVIOUS
<1> DEFINE s == job.sale
           row == Refreshed(sale[s], received[s])
<1>1. /\ job.step = "refresh"
      /\ sale' = [sale EXCEPT ![s] = row]
      /\ job' = [job EXCEPT !.step = "tellPayment", !.sale = s]
      /\ UNCHANGED <<received, restocked, stock, entry, entryTold, told, chart, sold, negative, cut>>
  BY DEF RefreshTotals, At, Go
<1>2. /\ job \in Job /\ s \in Sale /\ sale[s] # NoSale
      /\ sale \in [Sale -> SaleRow \cup {NoSale}]
  BY <1>1 DEF SalesIInv, SalesTypeOK, Requests
<1>3. /\ row \in SaleRow /\ row # NoSale
      /\ row.status = sale[s].status /\ row.order = sale[s].order
      /\ row.paid = received[s] /\ row.due = DueOf(Total(sale[s].order), received[s])
      /\ row.paid \in Int
  BY <1>2, Rows, RefreshedRow, RowExists
<1> HIDE DEF row
<1>4. job' \in Job /\ job'.step = "tellPayment" /\ job'.sale = s /\ job'.amount = job.amount
  BY <1>1, <1>2 DEF Job
<1>5. /\ sale' \in [Sale -> SaleRow \cup {NoSale}] /\ sale'[s] = row
      /\ \A t \in Sale \ {s} : sale'[t] = sale[t]
  BY <1>1, <1>2, <1>3
<1>6. Existing' = Existing /\ Existing \subseteq Sale
  BY <1>2, <1>3, <1>5 DEF Existing
<1>7. /\ \A t, steps : Busy(t, steps) <=> t = s /\ "refresh" \in steps
      /\ \A t, steps : Busy(t, steps)' <=> t = s /\ "tellPayment" \in steps
  BY <1>1, <1>4 DEF Busy
<1> HIDE DEF s
<1>8. SalesTypeOK'
  BY <1>1, <1>4, <1>5 DEF SalesIInv, SalesTypeOK
<1>9. Requests'
  BY <1>1, <1>2, <1>3, <1>4, <1>5, <1>6 DEF SalesIInv, Requests, At
<1>10. Headers'
  BY <1>1, <1>3, <1>5, <1>6, <1>7 DEF SalesIInv, Headers
<1>11. SoldStay'
  BY <1>1, <1>3, <1>5, <1>6 DEF SalesIInv, SoldStay
<1>12. PaidSalesStay'
  BY <1>1, <1>3, <1>5, <1>6 DEF SalesIInv, PaidSalesStay, SoldStay
<1>13. Outbox'
  BY <1>1, <1>3, <1>4, <1>5, <1>6, <1>7 DEF SalesIInv, Outbox
<1> QED
  BY <1>8, <1>9, <1>10, <1>11, <1>12, <1>13 DEF SalesIInv

\* What an outbox row leaves alone; `new` is what the outbox says with it.
LEMMA TellFrame ==
  ASSUME SalesIInv, job.step # "none", job' \in Job, job'.step \in {"none", "tellTotals"},
         job'.step # "none" => job'.sale = job.sale,
         job.step # "refresh",
         NEW new \in Told, told' = [told EXCEPT ![job.sale] = new],
         UNCHANGED <<sale, received, restocked, stock, entry, entryTold, chart, sold, negative, cut>>
  PROVE  /\ SalesTypeOK' /\ Requests' /\ Headers' /\ SoldStay' /\ PaidSalesStay'
         /\ Existing' = Existing /\ Existing \subseteq Sale
         /\ job.sale \in Existing /\ told'[job.sale] = new
         /\ \A t \in Sale : t # job.sale => told'[t] = told[t]
<1>1. /\ job.sale \in Sale /\ sale[job.sale] # NoSale
      /\ told \in [Sale -> Told \cup {NoSale}]
  BY DEF SalesIInv, SalesTypeOK, Requests
<1>2. /\ told' \in [Sale -> Told \cup {NoSale}] /\ told'[job.sale] = new
      /\ \A t \in Sale : t # job.sale => told'[t] = told[t]
  BY <1>1
<1>3. Existing' = Existing /\ Existing \subseteq Sale /\ job.sale \in Existing
  BY <1>1 DEF Existing
<1>4. \A t : ~Busy(t, {"refresh"}) /\ ~Busy(t, {"refresh"})'
  BY DEF Busy
<1>5. SalesTypeOK'
  BY <1>2 DEF SalesIInv, SalesTypeOK
<1>6. Requests'
  BY <1>1, <1>2, <1>3 DEF SalesIInv, Requests, At
<1>7. Headers'
  BY <1>3, <1>4 DEF SalesIInv, Headers
<1>8. SoldStay' /\ PaidSalesStay'
  BY <1>3 DEF SalesIInv, SoldStay, PaidSalesStay
<1> QED
  BY <1>2, <1>3, <1>5, <1>6, <1>7, <1>8

LEMMA TellPaymentInv == SalesIInv /\ TellPayment => SalesIInv'
<1> SUFFICES ASSUME SalesIInv, TellPayment PROVE SalesIInv'
  OBVIOUS
<1> DEFINE s == job.sale
           new == [told[s] EXCEPT !.money = @ + job.amount]
<1>1. /\ job.step = "tellPayment" /\ told' = [told EXCEPT ![s].money = @ + job.amount]
      /\ job' = [job EXCEPT !.step = "tellTotals", !.sale = s]
      /\ UNCHANGED <<sale, received, restocked, stock, entry, entryTold, chart, sold, negative, cut>>
  BY DEF TellPayment, At, Go
<1>2. job \in Job /\ job.amount \in Nat /\ s \in Sale /\ sale[s] # NoSale
  BY <1>1 DEF SalesIInv, SalesTypeOK, Requests, Job
<1>3. told[s] \in Told /\ told[s].money \in Int
  BY <1>2, Rows
<1>4. /\ new \in Told /\ new.money = told[s].money + job.amount
      /\ new.status = told[s].status /\ new.paid = told[s].paid
  BY <1>2, <1>3 DEF Told
<1>5. told' = [told EXCEPT ![s] = new]
  BY <1>1
<1>6. job' \in Job /\ job'.step = "tellTotals" /\ job'.sale = s
  BY <1>1, <1>2 DEF Job
<1> HIDE DEF new
<1>7. /\ SalesTypeOK' /\ Requests' /\ Headers' /\ SoldStay' /\ PaidSalesStay'
      /\ Existing' = Existing /\ Existing \subseteq Sale
      /\ s \in Existing /\ told'[s] = new
      /\ \A t \in Sale : t # s => told'[t] = told[t]
  BY <1>1, <1>4, <1>5, <1>6, TellFrame
<1>8. /\ \A t, steps : Busy(t, steps) <=> t = s /\ "tellPayment" \in steps
      /\ \A t, steps : Busy(t, steps)' <=> t = s /\ "tellTotals" \in steps
  BY <1>1, <1>6 DEF Busy
<1> HIDE DEF s
<1>9. Outbox'
  BY <1>1, <1>4, <1>7, <1>8 DEF SalesIInv, Outbox
<1> QED
  BY <1>7, <1>9 DEF SalesIInv

LEMMA TellTotalsInv == SalesIInv /\ TellTotals => SalesIInv'
<1> SUFFICES ASSUME SalesIInv, TellTotals PROVE SalesIInv'
  OBVIOUS
<1> DEFINE s == job.sale
           new == [told[s] EXCEPT !.paid = sale[s].paid]
<1>1. /\ job.step = "tellTotals" /\ told' = [told EXCEPT ![s].paid = sale[s].paid]
      /\ job' = NoJob /\ NoJob \in Job /\ NoJob.step = "none"
      /\ UNCHANGED <<sale, received, restocked, stock, entry, entryTold, chart, sold, negative, cut>>
  BY DEF TellTotals, At, NoJob, Job
<1>2. s \in Sale /\ sale[s] # NoSale
  BY <1>1 DEF SalesIInv, Requests
<1>3. told[s] \in Told /\ sale[s].paid \in Int
  BY <1>2, Rows
<1>4. /\ new \in Told /\ new.paid = sale[s].paid
      /\ new.status = told[s].status /\ new.money = told[s].money
  BY <1>3 DEF Told
<1>5. told' = [told EXCEPT ![s] = new]
  BY <1>1
<1> HIDE DEF new
<1>6. /\ SalesTypeOK' /\ Requests' /\ Headers' /\ SoldStay' /\ PaidSalesStay'
      /\ Existing' = Existing /\ Existing \subseteq Sale
      /\ s \in Existing /\ told'[s] = new
      /\ \A t \in Sale : t # s => told'[t] = told[t]
  BY <1>1, <1>4, <1>5, TellFrame
<1>7. /\ \A t, steps : Busy(t, steps) <=> t = s /\ "tellTotals" \in steps
      /\ \A t, steps : Busy(t, steps)' => "none" \in steps
  BY <1>1 DEF Busy
<1> HIDE DEF s
<1>8. Outbox'
  BY <1>1, <1>4, <1>6, <1>7 DEF SalesIInv, Outbox
<1> QED
  BY <1>6, <1>8 DEF SalesIInv

LEMMA TellStatusInv == SalesIInv /\ TellStatus => SalesIInv'
<1> SUFFICES ASSUME SalesIInv, TellStatus PROVE SalesIInv'
  OBVIOUS
<1> DEFINE s == job.sale
           paid == IF sale[s].status \in Editable THEN sale[s].paid ELSE told[s].paid
           new == [told[s] EXCEPT !.status = sale[s].status, !.paid = paid]
<1>1. /\ job.step = "tellStatus"
      /\ told' = [told EXCEPT ![s].status = sale[s].status,
                              ![s].paid = IF sale[s].status \in Editable
                                          THEN sale[s].paid ELSE @]
      /\ job' = NoJob /\ NoJob \in Job /\ NoJob.step = "none"
      /\ UNCHANGED <<sale, received, restocked, stock, entry, entryTold, chart, sold, negative, cut>>
  BY DEF TellStatus, At, NoJob, Job
<1>2. s \in Sale /\ sale[s] # NoSale
  BY <1>1 DEF SalesIInv, Requests
<1>3. /\ told[s] \in Told /\ told[s].paid \in Int /\ paid \in Int
      /\ sale[s].status \in Status
  BY <1>2, Rows
<1>4. /\ new \in Told /\ new.paid = paid
      /\ new.status = sale[s].status /\ new.money = told[s].money
  BY <1>3 DEF Told
<1>5. told' = [told EXCEPT ![s] = new]
  BY <1>1, <1>2, <1>3 DEF SalesIInv, SalesTypeOK, Told
<1> HIDE DEF new
<1>6. /\ SalesTypeOK' /\ Requests' /\ Headers' /\ SoldStay' /\ PaidSalesStay'
      /\ Existing' = Existing /\ Existing \subseteq Sale
      /\ s \in Existing /\ told'[s] = new
      /\ \A t \in Sale : t # s => told'[t] = told[t]
  BY <1>1, <1>4, <1>5, TellFrame
<1>7. /\ \A t, steps : Busy(t, steps) <=> t = s /\ "tellStatus" \in steps
      /\ \A t, steps : Busy(t, steps)' => "none" \in steps
  BY <1>1 DEF Busy
<1>8. s \notin cut => paid = sale[s].paid
  BY <1>6, <1>7 DEF SalesIInv, Outbox
<1> HIDE DEF s, paid
<1>9. Outbox'
  BY <1>1, <1>4, <1>6, <1>7, <1>8 DEF SalesIInv, Outbox
<1> QED
  BY <1>6, <1>9 DEF SalesIInv

\* A new status that is still to be told. `status` is what the header gets.
LEMMA NewStatus ==
  ASSUME SalesIInv, NEW s \in Sale, NEW status \in Status, job.step = "none",
         sale[s] # NoSale, sale' = [sale EXCEPT ![s].status = status], Go("tellStatus", s),
         UNCHANGED <<received, restocked, stock, entry, entryTold, told, chart, sold, negative, cut>>,
         s \in sold => status \in {"Completed", "Cancelled", "Returned"},
         s \in sold /\ status = "Cancelled" /\ received[s] > 0 => s \in cut
  PROVE  SalesIInv'
<1> DEFINE row == [sale[s] EXCEPT !.status = status]
<1>1. sale[s] \in SaleRow /\ s \in Existing
  BY Rows
<1>2. /\ row \in SaleRow /\ row.status = status /\ row.order = sale[s].order
      /\ row.paid = sale[s].paid /\ row.due = sale[s].due
  BY <1>1 DEF SaleRow
<1>3. row # NoSale
  BY <1>2, RowExists
<1>4. sale' = [sale EXCEPT ![s] = row]
  OBVIOUS
<1> HIDE DEF row
<1>5. /\ sale' \in [Sale -> SaleRow \cup {NoSale}] /\ sale'[s] = row
      /\ \A t \in Sale \ {s} : sale'[t] = sale[t]
  BY <1>2, <1>4 DEF SalesIInv, SalesTypeOK
<1>6. job' \in Job /\ job'.step = "tellStatus" /\ job'.sale = s
  BY DEF Go, Job, SalesIInv, SalesTypeOK
<1>7. Existing' = Existing /\ Existing \subseteq Sale
  BY <1>3, <1>5 DEF Existing
<1>8. /\ \A t, steps : Busy(t, steps) => "none" \in steps
      /\ \A t, steps : Busy(t, steps)' <=> t = s /\ "tellStatus" \in steps
  BY <1>6 DEF Busy
<1>9. SalesTypeOK'
  BY <1>5, <1>6 DEF SalesIInv, SalesTypeOK
<1>10. Requests'
  BY <1>3, <1>5, <1>6, <1>7 DEF SalesIInv, Requests, At
<1>11. Headers'
  BY <1>2, <1>5, <1>7, <1>8 DEF SalesIInv, Headers
<1>12. SoldStay'
  BY <1>2, <1>5, <1>7 DEF SalesIInv, SoldStay
<1>13. PaidSalesStay'
  BY <1>2, <1>5, <1>7 DEF SalesIInv, PaidSalesStay, SoldStay
<1>14. Outbox'
  BY <1>2, <1>5, <1>7, <1>8 DEF SalesIInv, Outbox
<1> QED
  BY <1>9, <1>10, <1>11, <1>12, <1>13, <1>14 DEF SalesIInv

LEMMA UpdateSaleInv ==
  ASSUME SalesIInv, NEW s \in Sale, NEW status \in Editable, UpdateSale(s, status)
  PROVE  SalesIInv'
<1>1. /\ job.step = "none" /\ sale[s] # NoSale /\ sale[s].status \in Editable
      /\ sale' = [sale EXCEPT ![s].status = status] /\ Go("tellStatus", s)
      /\ UNCHANGED <<received, restocked, stock, entry, entryTold, told, chart, sold, negative, cut>>
  BY DEF UpdateSale, At
<1>2. s \notin sold
  BY <1>1 DEF SalesIInv, SoldStay, Editable
<1>3. status \in Status
  BY DEF Status
<1> QED
  BY <1>1, <1>2, <1>3, NewStatus

\* The header's paid_amount decides, and it is up to date unless a request was cut.
LEMMA CancelSaleInv ==
  ASSUME SalesIInv, NEW s \in Sale, CancelSale(s)
  PROVE  SalesIInv'
<1>1. /\ job.step = "none" /\ sale[s] # NoSale /\ Cancellable(sale[s])
      /\ sale' = [sale EXCEPT ![s].status = "Cancelled"] /\ Go("tellStatus", s)
      /\ UNCHANGED <<received, restocked, stock, entry, entryTold, told, chart, sold, negative, cut>>
  BY DEF CancelSale, At
<1>2. "Cancelled" \in Status /\ "Cancelled" \notin Editable
  BY DEF Status, Editable
<1>3. ASSUME s \in sold, received[s] > 0, s \notin cut PROVE FALSE
  <2>1. /\ s \in Existing /\ sale[s].paid \in Int
        /\ sale[s].status \in {"Completed", "Cancelled", "Returned"}
    BY <1>1, <1>3, Rows DEF SalesIInv, SoldStay
  <2>2. sale[s].paid = received[s]
    BY <1>1, <1>3, <2>1 DEF SalesIInv, Headers, Busy
  <2>3. sale[s].status = "Cancelled"
    BY <1>1, <1>3, <2>1, <2>2 DEF Cancellable, Status
  <2> QED
    BY <1>3, <2>3 DEF SalesIInv, PaidSalesStay
<1> QED
  BY <1>1, <1>2, <1>3, NewStatus

\* A new sale: header, payments and outbox row come in one transaction and agree.
LEMMA CreateSaleInv ==
  ASSUME SalesIInv, NEW s \in Sale, NEW status \in Status,
         NEW order \in Order, NEW paid \in Prepaid, CreateSale(s, status, order, paid)
  PROVE  SalesIInv'
<1> DEFINE row == [status |-> status, order |-> order, paid |-> paid,
                   due |-> DueOf(Total(order), paid)]
           new == [status |-> status, paid |-> paid, money |-> paid]
<1>1. /\ job.step = "none" /\ sale[s] = NoSale
      /\ Deducts(status) => stock >= order.qty
      /\ sale' = [sale EXCEPT ![s] = row]
      /\ received' = [received EXCEPT ![s] = paid]
      /\ stock' = IF Deducts(status) THEN stock - order.qty ELSE stock
      /\ told' = [told EXCEPT ![s] = new]
      /\ sold' = IF status = "Completed" THEN sold \cup {s} ELSE sold
      /\ negative' = IF paid < 0 THEN negative \cup {s} ELSE negative
      /\ job' = [job EXCEPT !.step = "post", !.sale = s]
      /\ UNCHANGED <<restocked, entry, entryTold, chart, cut>>
  BY DEF CreateSale, At, Go
<1>2. /\ sale \in [Sale -> SaleRow \cup {NoSale}] /\ received \in [Sale -> Int]
      /\ told \in [Sale -> Told \cup {NoSale}] /\ stock \in Nat /\ job \in Job
      /\ sold \subseteq Sale /\ negative \subseteq Sale
  BY DEF SalesIInv, SalesTypeOK
<1>3. paid \in Int
  BY SalesAssumption
<1>4. row \in SaleRow /\ new \in Told
  <2>1. DueOf(Total(order), paid) \in Nat
    BY <1>3, OrderTotal, DueNatural
  <2> QED
    BY <1>3, <2>1 DEF SaleRow, Told
<1>5. /\ row.status = status /\ row.paid = paid
      /\ row.due = DueOf(Total(row.order), paid)
      /\ new.status = status /\ new.paid = paid /\ new.money = paid
  OBVIOUS
<1>6. row # NoSale
  BY <1>4, RowExists
<1> HIDE DEF row, new
<1>7. /\ sale' \in [Sale -> SaleRow \cup {NoSale}] /\ sale'[s] = row
      /\ received' \in [Sale -> Int] /\ received'[s] = paid
      /\ told' \in [Sale -> Told \cup {NoSale}] /\ told'[s] = new
      /\ \A t \in Sale \ {s} : /\ sale'[t] = sale[t] /\ told'[t] = told[t]
                               /\ received'[t] = received[t]
  BY <1>1, <1>2, <1>3, <1>4
<1>8. stock' \in Nat
  BY <1>1, <1>2, OrderTotal
<1>9. job' \in Job /\ job'.step = "post" /\ job'.sale = s
  BY <1>1, <1>2 DEF Job
<1>10. Existing' = Existing \cup {s} /\ Existing \subseteq Sale /\ s \notin Existing
  BY <1>1, <1>6, <1>7 DEF Existing
<1>11. /\ \A t, steps : Busy(t, steps) => "none" \in steps
       /\ \A t, steps : Busy(t, steps)' => "post" \in steps
  BY <1>1, <1>9 DEF Busy
<1>12. SalesTypeOK'
  BY <1>1, <1>2, <1>7, <1>8, <1>9 DEF SalesIInv, SalesTypeOK
<1>13. Requests'
  BY <1>1, <1>4, <1>6, <1>7, <1>9, <1>10 DEF SalesIInv, Requests, At
<1>14. Headers'
  BY <1>1, <1>3, <1>5, <1>7, <1>10, <1>11 DEF SalesIInv, Headers
<1>15. SoldStay'
  BY <1>1, <1>5, <1>7, <1>10 DEF SalesIInv, SoldStay, Editable
<1>16. PaidSalesStay'
  BY <1>1, <1>5, <1>7, <1>10 DEF SalesIInv, PaidSalesStay, SoldStay
<1>17. Outbox'
  BY <1>1, <1>5, <1>7, <1>10, <1>11 DEF SalesIInv, Outbox
<1> QED
  BY <1>12, <1>13, <1>14, <1>15, <1>16, <1>17 DEF SalesIInv

\* A return: status, totals and outbox row come in one transaction.
LEMMA ProcessReturnInv ==
  ASSUME SalesIInv, NEW s \in Sale, NEW restock \in BOOLEAN, ProcessReturn(s, restock)
  PROVE  SalesIInv'
<1> DEFINE fresh == Refreshed(sale[s], received[s])
           row == [fresh EXCEPT !.status = "Returned"]
           new == [told[s] EXCEPT !.status = "Returned"]
<1>1. /\ job.step = "none" /\ sale[s] # NoSale
      /\ sale' = [sale EXCEPT ![s] = row]
      /\ told' = [told EXCEPT ![s] = new]
      /\ stock' = IF restock THEN stock + sale[s].order.qty ELSE stock
      /\ restocked' = IF restock THEN restocked \cup {s} ELSE restocked
      /\ UNCHANGED <<received, entry, entryTold, chart, job, sold, negative, cut>>
  BY DEF ProcessReturn, At, ToldReturn
<1>2. /\ s \in Existing /\ sale[s] \in SaleRow /\ sale[s].order \in Order
      /\ told[s] \in Told /\ received[s] \in Int
  BY <1>1, Rows
<1>3. /\ fresh \in SaleRow /\ fresh.order = sale[s].order /\ fresh.paid = received[s]
      /\ fresh.due = DueOf(Total(sale[s].order), received[s])
  BY <1>2, RefreshedRow
<1> HIDE DEF fresh
<1>4. /\ row \in SaleRow /\ row.status = "Returned" /\ row.order = sale[s].order
      /\ row.paid = received[s] /\ row.due = DueOf(Total(sale[s].order), received[s])
  BY <1>3 DEF SaleRow, Status
<1>5. row # NoSale
  BY <1>4, RowExists
<1>6. /\ new \in Told /\ new.status = "Returned"
      /\ new.paid = told[s].paid /\ new.money = told[s].money
  BY <1>2 DEF Told, Status
<1> HIDE DEF row, new
<1>7. /\ sale' \in [Sale -> SaleRow \cup {NoSale}] /\ sale'[s] = row
      /\ told' \in [Sale -> Told \cup {NoSale}] /\ told'[s] = new
      /\ \A t \in Sale \ {s} : sale'[t] = sale[t] /\ told'[t] = told[t]
  BY <1>1, <1>4, <1>6 DEF SalesIInv, SalesTypeOK
<1>8. stock' \in Nat
  BY <1>1, <1>2, OrderTotal DEF SalesIInv, SalesTypeOK
<1>9. Existing' = Existing /\ Existing \subseteq Sale
  BY <1>2, <1>5, <1>7 DEF Existing
<1>10. /\ \A t, steps : Busy(t, steps) => "none" \in steps
       /\ \A t, steps : Busy(t, steps)' => "none" \in steps
  BY <1>1 DEF Busy
<1>11. SalesTypeOK'
  BY <1>1, <1>7, <1>8 DEF SalesIInv, SalesTypeOK
<1>12. Requests'
  BY <1>1, <1>6, <1>7, <1>9 DEF SalesIInv, Requests, At
<1>13. Headers'
  BY <1>1, <1>2, <1>4, <1>7, <1>9, <1>10 DEF SalesIInv, Headers
<1>14. SoldStay'
  BY <1>1, <1>4, <1>7, <1>9 DEF SalesIInv, SoldStay, Editable
<1>15. PaidSalesStay'
  BY <1>1, <1>4, <1>7, <1>9 DEF SalesIInv, PaidSalesStay, SoldStay
<1>16. Outbox'
  <2>1. s \notin cut => sale[s].paid = received[s]
    BY <1>2, <1>10 DEF SalesIInv, Headers
  <2> QED
    BY <1>1, <1>2, <1>4, <1>6, <1>7, <1>9, <1>10, <2>1 DEF SalesIInv, Outbox
<1> QED
  BY <1>11, <1>12, <1>13, <1>14, <1>15, <1>16 DEF SalesIInv

\* A cut leaves the rows as they are, and nothing is promised for its sale any more.
LEMMA CutInv == SalesIInv /\ Cut => SalesIInv'
<1> SUFFICES ASSUME SalesIInv, Cut PROVE SalesIInv'
  OBVIOUS
<1>1. /\ job.step # "none" /\ cut' = cut \cup {job.sale} /\ job' = NoJob
      /\ NoJob \in Job /\ NoJob.step = "none"
      /\ UNCHANGED <<sale, received, restocked, stock, entry, entryTold, told, chart, sold, negative>>
  BY DEF Cut, NoJob, Job
<1>2. job.sale \in Sale
  BY <1>1 DEF SalesIInv, Requests
<1>3. Existing' = Existing
  BY <1>1 DEF Existing
<1>4. /\ \A t, steps : t \notin cut' => ~Busy(t, steps)
      /\ \A t, steps : Busy(t, steps)' => "none" \in steps
  BY <1>1 DEF Busy
<1>5. SalesTypeOK'
  BY <1>1, <1>2 DEF SalesIInv, SalesTypeOK
<1>6. Requests'
  BY <1>1, <1>3 DEF SalesIInv, Requests, At
<1>7. Headers'
  BY <1>1, <1>3, <1>4 DEF SalesIInv, Headers
<1>8. SoldStay' /\ PaidSalesStay'
  BY <1>1, <1>3 DEF SalesIInv, SoldStay, PaidSalesStay
<1>9. Outbox'
  BY <1>1, <1>3, <1>4 DEF SalesIInv, Outbox
<1> QED
  BY <1>5, <1>6, <1>7, <1>8, <1>9 DEF SalesIInv

-----------------------------------------------------------------------------
(* Theorems.                                                               *)

\* The inductive invariant holds in every reachable state, for any sales, orders,
\* charts of accounts and bounds.
THEOREM SalesInvariant == Spec => []SalesIInv
<1>1. SalesIInv /\ [Next]_salesVars => SalesIInv'
  <2> SUFFICES ASSUME SalesIInv, [Next]_salesVars PROVE SalesIInv'
    OBVIOUS
  <2>1. ASSUME NEW s \in Sale, NEW status \in Status,
               NEW order \in Order, NEW paid \in Prepaid,
               CreateSale(s, status, order, paid)
        PROVE  SalesIInv'
    BY <2>1, CreateSaleInv
  <2>2. CASE PostNothing \/ PostEntry \/ PostLine \/ TellEntry
    BY <2>2, PostNothingInv, PostEntryInv, PostLineInv, TellEntryInv
  <2>3. ASSUME NEW s \in Sale, NEW amount \in 1 .. MaxPaid, InsertPayment(s, amount)
        PROVE  SalesIInv'
    BY <2>3, InsertPaymentInv
  <2>4. CASE RefreshTotals \/ TellPayment \/ TellTotals \/ TellStatus
    BY <2>4, RefreshTotalsInv, TellPaymentInv, TellTotalsInv, TellStatusInv
  <2>5. ASSUME NEW s \in Sale, NEW status \in Editable, UpdateSale(s, status)
        PROVE  SalesIInv'
    BY <2>5, UpdateSaleInv
  <2>6. ASSUME NEW s \in Sale, CancelSale(s) PROVE SalesIInv'
    BY <2>6, CancelSaleInv
  <2>7. ASSUME NEW s \in Sale, NEW restock \in BOOLEAN, ProcessReturn(s, restock)
        PROVE  SalesIInv'
    BY <2>7, ProcessReturnInv
  <2>8. CASE Cut
    BY <2>8, CutInv
  <2>9. CASE UNCHANGED salesVars
    BY <2>9 DEF salesVars, SalesIInv, SalesTypeOK, Requests, Headers, SoldStay,
                PaidSalesStay, Outbox, Existing, Busy, At
  <2> QED
    BY <2>1, <2>2, <2>3, <2>4, <2>5, <2>6, <2>7, <2>8, <2>9 DEF Next
<1> QED
  BY SalesInitInv, <1>1, PTL DEF Spec

\* Type correctness: no stock, amount or total ever leaves its range.
THEOREM SalesTypeCorrect == Spec => []SalesTypeOK
<1>1. SalesIInv => SalesTypeOK
  BY DEF SalesIInv
<1> QED
  BY <1>1, SalesInvariant, PTL

\* The header of a sale shows exactly the money received for it, however payments,
\* edits and returns follow each other, unless a request on the sale was cut; and
\* never more than was received.
THEOREM HeadersTrue == Spec => []HeaderTellsPayments
<1>1. SalesIInv => HeaderTellsPayments
  BY DEF SalesIInv, Headers, HeaderTellsPayments, Whole, Busy
<1> QED
  BY <1>1, SalesInvariant, PTL

\* Deciding on the header's cached paid_amount, deleteSale cancels no completed sale
\* that money was received for, unless a payment on it was cut.
THEOREM PaidStays == Spec => []PaidSalesStay
<1>1. SalesIInv => PaidSalesStay
  BY DEF SalesIInv
<1> QED
  BY <1>1, SalesInvariant, PTL

\* What the outbox rows of a sale say together is what its rows say, unless a request
\* on it is under way or was cut.
THEOREM OutboxTrue == Spec => []OutboxTellsSales
<1>1. ASSUME SalesIInv, NEW s \in Existing, Whole(s)
      PROVE  told[s] = [status |-> sale[s].status, paid |-> sale[s].paid, money |-> received[s]]
  <2>1. told[s] \in Told
    BY <1>1 DEF SalesIInv, Requests
  <2>2. \A steps : ~Busy(s, steps)
    BY <1>1 DEF Whole, Busy
  <2>3. /\ told[s].status = sale[s].status /\ told[s].paid = sale[s].paid
        /\ told[s].money = received[s]
    BY <1>1, <2>2 DEF SalesIInv, Outbox, Whole
  <2> QED
    BY <2>1, <2>3 DEF Told
<1>2. SalesIInv => OutboxTellsSales
  BY <1>1 DEF OutboxTellsSales
<1> QED
  BY <1>2, SalesInvariant, PTL
=============================================================================
