------------------------------- MODULE Sales -------------------------------
(***************************************************************************)
(* Selling (lib/modules/sales) with what it touches: the stock, the        *)
(* journal (lib/modules/accounting) and the outbox change_log. The server  *)
(* is a single isolate: it runs one request to its end before the next.    *)
(* But a request is several SQLite transactions, most of them single       *)
(* statements in autocommit, and it can be cut between any two of them:    *)
(* the process ends, or a statement throws (disk full, database locked).   *)
(* Nothing resumes a request that was cut.                                 *)
(*                                                                         *)
(* A sale has one item of the one product. Amounts and quantities are      *)
(* integers; createSale checks the sign of a quantity and of a unit price  *)
(* only, so a discount above 100 %, a negative tax or a negative payment   *)
(* gets through. Audit rows and in-memory events are left out.             *)
(***************************************************************************)
EXTENDS Integers, Sequences, FiniteSetsExt

CONSTANTS Sale,      \* ids of sales
          Order,     \* what can be ordered: a quantity, the amount it costs after the
                     \* discounts, and the tax on the sale
          Prepaid,   \* what the payments of a new sale may add up to
          NoSale,    \* no such row in sales
          NoEntry,   \* no journal entry was created for the sale
          Opening,   \* stock at the start
          MaxPaid,   \* bound: the money received for a sale
          MaxCuts    \* bound: sales with a request that was cut

Account == {"Revenue", "Cash", "Accounts Receivable", "Tax Payable"}

Editable == {"Draft", "Hold"}

\* The column is free text; "Other" is any word that the service does not know.
Status == Editable \cup {"Completed", "Cancelled", "Returned", "Other"}

Line == [acc : Account, debit : Int, credit : Int]

ASSUME SalesAssumption ==
  /\ Order \subseteq [qty : Nat \ {0}, amount : Int, tax : Int]
  /\ Prepaid \subseteq Int
  /\ NoSale \notin [status : Status, order : Order, paid : Int, due : Nat]
  /\ NoEntry \notin Seq(Line)
  /\ Opening \in Nat
  /\ MaxPaid \in Nat
  /\ MaxCuts \in Nat

VARIABLES sale,       \* the table sales
          received,   \* the sum of sale_payments per sale
          restocked,  \* sales with a row in sales_returns that restocked
          stock,      \* the product's stock
          entry,      \* per sale, the journal_lines of its journal entry
          entryTold,  \* sales whose journal entry is in the outbox
          told,       \* what the outbox says of each sale
          chart,      \* the accounts the business has set up
          job,        \* the request being served
          sold,       \* ghost: sales that were completed when created
          negative,   \* ghost: sales whose first payments add up to less than nothing
          cut         \* ghost: sales with a request that was cut

salesVars ==
  <<sale, received, restocked, stock, entry, entryTold, told, chart, job, sold, negative,
    cut>>

SaleRow == [status : Status, order : Order, paid : Int, due : Nat]

\* What peers learn from the outbox rows of a sale together: its status, its
\* paid_amount, and the payments. (INSERT carries all, UPDATEs carry some.)
Told == [status : Status, paid : Int, money : Int]

\* The next step of a request on a sale, and the amount or the lines it has in hand.
Job == [step : {"none", "post", "line", "tellEntry", "refresh", "tellPayment",
                "tellTotals", "tellStatus"},
        sale : Sale \cup {NoSale}, amount : Nat, lines : Seq(Line)]

NoJob == [step |-> "none", sale |-> NoSale, amount |-> 0, lines |-> <<>>]

At(step) == job.step = step

Go(step, s) == job' = [job EXCEPT !.step = step, !.sale = s]

\* grandTotal.
Total(order) == order.amount + order.tax

\* Mutant of DueOf: due_amount is not clamped.
DueUnclamped(total, paid) == total - paid

DueOf(total, paid) == Max({0, total - paid})

-----------------------------------------------------------------------------
Init ==
  /\ sale = [s \in Sale |-> NoSale]
  /\ received = [s \in Sale |-> 0]
  /\ restocked = {}
  /\ stock = Opening
  /\ entry = [s \in Sale |-> NoEntry]
  /\ entryTold = {}
  /\ told = [s \in Sale |-> NoSale]
  /\ chart \in SUBSET Account
  /\ job = NoJob
  /\ sold = {}
  /\ negative = {}
  /\ cut = {}

\* Mutant of Deducts: a sale on hold takes its goods already.
DeductsOnHold(status) == status \in {"Completed", "Hold"}

\* Only completed sales take goods.
Deducts(status) == status = "Completed"

\* createSale: one transaction with the header, the payments, the deduction of the
\* stock (which must suffice) and the outbox row. Only an overpayment is refused.
CreateSale(s, status, order, paid) ==
  /\ At("none")
  /\ sale[s] = NoSale
  /\ paid <= Total(order)
  /\ Deducts(status) => stock >= order.qty
  /\ sale' = [sale EXCEPT ![s] =
       [status |-> status, order |-> order, paid |-> paid,
        due |-> DueOf(Total(order), paid)]]
  /\ received' = [received EXCEPT ![s] = paid]
  /\ stock' = IF Deducts(status) THEN stock - order.qty ELSE stock
  /\ told' = [told EXCEPT ![s] = [status |-> status, paid |-> paid, money |-> paid]]
  /\ sold' = IF status = "Completed" THEN sold \cup {s} ELSE sold
  /\ negative' = IF paid < 0 THEN negative \cup {s} ELSE negative
  /\ Go("post", s)
  /\ UNCHANGED <<restocked, entry, entryTold, chart, cut>>

\* The lines of the sale's journal (_postAccounting), in order.
DebitTarget == IF "Cash" \in chart THEN "Cash" ELSE "Accounts Receivable"

Debit(acc, amount) == <<[acc |-> acc, debit |-> amount, credit |-> 0]>>

Credit(acc, amount) == <<[acc |-> acc, debit |-> 0, credit |-> amount]>>

DueTarget == IF "Accounts Receivable" \in chart THEN "Accounts Receivable" ELSE DebitTarget

\* Mutant of DueLine: nothing is booked where there is no account for receivables.
DueLineIfReceivable(due) ==
  IF due > 0 /\ "Accounts Receivable" \in chart THEN Debit("Accounts Receivable", due)
  ELSE <<>>

DueLine(due) == IF due > 0 THEN Debit(DueTarget, due) ELSE <<>>

Lines(row) ==
  (IF row.paid > 0 THEN Debit(DebitTarget, row.paid) ELSE <<>>)
    \o DueLine(row.due)
    \o Credit("Revenue", row.order.amount)
    \o (IF row.order.tax > 0 /\ "Tax Payable" \in chart
        THEN Credit("Tax Payable", row.order.tax) ELSE <<>>)

Debits(lines) == SumFunction([i \in DOMAIN lines |-> lines[i].debit])

Credits(lines) == SumFunction([i \in DOMAIN lines |-> lines[i].credit])

\* _validateBalanced.
Valid(lines) ==
  /\ Debits(lines) = Credits(lines)
  /\ \A i \in DOMAIN lines : lines[i].debit > 0 \/ lines[i].credit > 0

\* A journal is posted for a completed sale when the accounts are there.
Posts(row) ==
  /\ row.status = "Completed"
  /\ "Revenue" \in chart
  /\ {"Cash", "Accounts Receivable"} \cap chart # {}
  /\ Len(Lines(row)) >= 2

\* Nothing to post, or an exception: JournalService refuses the lines. The sale stays
\* in either case.
PostNothing ==
  /\ At("post")
  /\ Posts(sale[job.sale]) => ~Valid(Lines(sale[job.sale]))
  /\ job' = NoJob
  /\ UNCHANGED <<sale, received, restocked, stock, entry, entryTold, told, chart, sold, negative, cut>>

\* createAndPost: the header of the entry, 'posted' from the start.
PostEntry ==
  /\ At("post")
  /\ Posts(sale[job.sale])
  /\ Valid(Lines(sale[job.sale]))
  /\ entry' = [entry EXCEPT ![job.sale] = <<>>]
  /\ job' = [job EXCEPT !.step = "line", !.lines = Lines(sale[job.sale])]
  /\ UNCHANGED <<sale, received, restocked, stock, entryTold, told, chart, sold, negative, cut>>

\* One line, in a transaction of its own.
PostLine ==
  /\ At("line")
  /\ entry' = [entry EXCEPT ![job.sale] = Append(@, Head(job.lines))]
  /\ job' = [job EXCEPT !.lines = Tail(@),
                        !.step = IF Len(job.lines) = 1 THEN "tellEntry" ELSE @]
  /\ UNCHANGED <<sale, received, restocked, stock, entryTold, told, chart, sold, negative, cut>>

TellEntry ==
  /\ At("tellEntry")
  /\ entryTold' = entryTold \cup {job.sale}
  /\ job' = NoJob
  /\ UNCHANGED <<sale, received, restocked, stock, entry, told, chart, sold, negative, cut>>

-----------------------------------------------------------------------------
\* Mutant of AfterPayment: the totals of the header are not refreshed.
AfterPaymentOutbox == "tellPayment"

\* The step that follows the payment row.
AfterPayment == "refresh"

\* receivePayment: the payment row. Nothing compares the amount with what is due.
InsertPayment(s, amount) ==
  /\ At("none")
  /\ sale[s] # NoSale
  /\ sale[s].status = "Completed"
  /\ amount > 0 /\ received[s] + amount <= MaxPaid
  /\ received' = [received EXCEPT ![s] = @ + amount]
  /\ job' = [job EXCEPT !.step = AfterPayment, !.sale = s, !.amount = amount]
  /\ UNCHANGED <<sale, restocked, stock, entry, entryTold, told, chart, sold, negative, cut>>

\* refreshPaymentTotals.
Refreshed(row, paid) == [row EXCEPT !.paid = paid, !.due = DueOf(Total(row.order), paid)]

RefreshTotals ==
  /\ At("refresh")
  /\ sale' = [sale EXCEPT ![job.sale] = Refreshed(@, received[job.sale])]
  /\ Go("tellPayment", job.sale)
  /\ UNCHANGED <<received, restocked, stock, entry, entryTold, told, chart, sold, negative, cut>>

\* The outbox row of the payment, then the one of the sale's new totals.
TellPayment ==
  /\ At("tellPayment")
  /\ told' = [told EXCEPT ![job.sale].money = @ + job.amount]
  /\ Go("tellTotals", job.sale)
  /\ UNCHANGED <<sale, received, restocked, stock, entry, entryTold, chart, sold, negative, cut>>

TellTotals ==
  /\ At("tellTotals")
  /\ told' = [told EXCEPT ![job.sale].paid = sale[job.sale].paid]
  /\ job' = NoJob
  /\ UNCHANGED <<sale, received, restocked, stock, entry, entryTold, chart, sold, negative, cut>>

\* updateSale. Its outbox row carries the whole header; the totals in it are the ones
\* already told or, after a cut, catch up.
UpdateSale(s, status) ==
  /\ At("none")
  /\ sale[s] # NoSale
  /\ sale[s].status \in Editable
  /\ status \in Editable
  /\ sale' = [sale EXCEPT ![s].status = status]
  /\ Go("tellStatus", s)
  /\ UNCHANGED <<received, restocked, stock, entry, entryTold, told, chart, sold, negative, cut>>

\* Mutant of Cancellable: only a sale paid in full is kept.
CancellableUnlessSettled(row) ==
  /\ row.status # "Returned"
  /\ ~(row.status = "Completed" /\ row.due = 0)

\* deleteSale: a paid or returned sale is not cancelled, as the header tells.
Cancellable(row) ==
  /\ row.status # "Returned"
  /\ ~(row.status = "Completed" /\ row.paid > 0)

CancelSale(s) ==
  /\ At("none")
  /\ sale[s] # NoSale
  /\ Cancellable(sale[s])
  /\ sale' = [sale EXCEPT ![s].status = "Cancelled"]
  /\ Go("tellStatus", s)
  /\ UNCHANGED <<received, restocked, stock, entry, entryTold, told, chart, sold, negative, cut>>

\* The outbox row of updateSale or deleteSale.
TellStatus ==
  /\ At("tellStatus")
  /\ told' = [told EXCEPT ![job.sale].status = sale[job.sale].status,
                          ![job.sale].paid = IF sale[job.sale].status \in Editable
                                             THEN sale[job.sale].paid ELSE @]
  /\ job' = NoJob
  /\ UNCHANGED <<sale, received, restocked, stock, entry, entryTold, chart, sold, negative, cut>>

\* Mutant of ToldReturn: the outbox hears of the return, not of the sale's status.
ToldReturnOnly(t) == t

\* The outbox row of the sale after a return: the status alone.
ToldReturn(t) == [t EXCEPT !.status = "Returned"]

\* processReturn: one transaction with the return, the status, the totals, the outbox
\* rows and, on request, the goods. A sale that was never completed can be returned.
ProcessReturn(s, restock) ==
  /\ At("none")
  /\ sale[s] # NoSale
  /\ sale[s].status \notin {"Cancelled", "Returned"}
  /\ sale' = [sale EXCEPT ![s] = [Refreshed(@, received[s]) EXCEPT !.status = "Returned"]]
  /\ told' = [told EXCEPT ![s] = ToldReturn(@)]
  /\ stock' = IF restock THEN stock + sale[s].order.qty ELSE stock
  /\ restocked' = IF restock THEN restocked \cup {s} ELSE restocked
  /\ UNCHANGED <<received, entry, entryTold, chart, job, sold, negative, cut>>

\* The request is cut between two of its steps.
Cut ==
  /\ job.step # "none"
  /\ Cardinality(cut \cup {job.sale}) <= MaxCuts
  /\ cut' = cut \cup {job.sale}
  /\ job' = NoJob
  /\ UNCHANGED <<sale, received, restocked, stock, entry, entryTold, told, chart, sold, negative>>

Next ==
  \/ \E s \in Sale, status \in Status, order \in Order, paid \in Prepaid :
       CreateSale(s, status, order, paid)
  \/ PostNothing \/ PostEntry \/ PostLine \/ TellEntry
  \/ \E s \in Sale, amount \in 1 .. MaxPaid : InsertPayment(s, amount)
  \/ RefreshTotals \/ TellPayment \/ TellTotals
  \/ \E s \in Sale, status \in Editable : UpdateSale(s, status)
  \/ \E s \in Sale : CancelSale(s)
  \/ TellStatus
  \/ \E s \in Sale, restock \in BOOLEAN : ProcessReturn(s, restock)
  \/ Cut

Spec == Init /\ [][Next]_salesVars

-----------------------------------------------------------------------------
(* Properties.                                                             *)

SalesTypeOK ==
  /\ sale \in [Sale -> SaleRow \cup {NoSale}]
  /\ received \in [Sale -> Int]
  /\ stock \in Nat
  /\ entry \in [Sale -> Seq(Line) \cup {NoEntry}]
  /\ told \in [Sale -> Told \cup {NoSale}]
  /\ job \in Job
  /\ restocked \subseteq Sale /\ entryTold \subseteq Sale
  /\ sold \subseteq Sale /\ negative \subseteq Sale /\ cut \subseteq Sale
  /\ chart \subseteq Account

\* No request on the sale is under way or was cut.
Whole(s) == s \notin cut /\ job.sale # s

Existing == {s \in Sale : sale[s] # NoSale}

\* The header never shows money that has no payment row; and unless a request was cut
\* it shows all of it, and due follows.
HeaderTellsPayments ==
  \A s \in Existing :
    /\ sale[s].paid <= received[s]
    /\ Whole(s) => /\ sale[s].paid = received[s]
                   /\ sale[s].due = DueOf(Total(sale[s].order), received[s])

\* A completed sale that money was received for is never cancelled: the check on the
\* header's paid_amount is enough, unless a receivePayment was cut before it
\* refreshed the header.
PaidSalesStay ==
  \A s \in sold : sale[s].status = "Cancelled" /\ received[s] > 0 => s \in cut

\* What is booked for an order: its amount, and its tax when that is one to pay.
Charged(order) == order.amount + Max({0, order.tax})

\* Only completed sales are in the journal. Where no request was cut, an entry balances
\* over what the sale charged, whatever was paid and whatever accounts are missing, and
\* peers will hear of it; and a completed sale that costs something has its entry when
\* the accounts are there, one for the tax included, and neither its tax nor the sum of
\* its first payments is negative: with those the lines do not balance.
JournalTellsSales ==
  \A s \in Existing :
    /\ entry[s] # NoEntry => s \in sold
    /\ Whole(s) /\ entry[s] # NoEntry =>
         /\ Debits(entry[s]) = Charged(sale[s].order)
         /\ Credits(entry[s]) = Charged(sale[s].order)
         /\ s \in entryTold
    /\ /\ Whole(s) /\ s \in sold /\ s \notin negative
       /\ sale[s].order.amount > 0 /\ sale[s].order.tax >= 0
       /\ "Revenue" \in chart /\ {"Cash", "Accounts Receivable"} \cap chart # {}
       /\ sale[s].order.tax > 0 => "Tax Payable" \in chart
       => entry[s] # NoEntry

\* Peers hear of everything: the outbox rows of a sale together say what its rows say,
\* unless a request on it was cut.
OutboxTellsSales ==
  \A s \in Existing : Whole(s) =>
    told[s] = [status |-> sale[s].status, paid |-> sale[s].paid, money |-> received[s]]

\* Goods leave once with a completed sale and come back at most once; cuts neither lose
\* nor duplicate any. Goods appear only by restocking a sale that never took any.
QtyOf(sales) == SumFunction([s \in sales |-> sale[s].order.qty])

GoodsAccounted == stock = Opening - QtyOf(sold \ restocked) + QtyOf(restocked \ sold)

\* A claim that the code does not keep: "the payment INSERT and the `change_log` entry
\* commit together" (receivePayment, sales_service.dart): whenever no request is
\* under way, the payments of a sale are in the outbox.
PaymentsAreTold ==
  job.step = "none" => \A s \in Existing : told[s].money = received[s]
=============================================================================
