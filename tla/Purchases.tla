----------------------------- MODULE Purchases -----------------------------
(***************************************************************************)
(* Buying (lib/modules/purchases) with what it touches: the stock, the     *)
(* journal and the outbox. createPurchase is one transaction, but for its  *)
(* journal, which is posted after the commit. Nothing ever receives a      *)
(* purchase that was created as a draft or an order, and cancelling one    *)
(* takes back neither its goods nor its journal entry.                     *)
(*                                                                         *)
(* A purchase has one item of the one product, as a sale has, and as there *)
(* a discount above 100 %, a negative tax or a negative payment gets       *)
(* through. The journal entry of a purchase has the id of the purchase.    *)
(***************************************************************************)
EXTENDS Journal

CONSTANTS Purchase,    \* ids of purchases
          Manual,      \* ids of manual journal entries
          Order,       \* what can be bought: a quantity, the amount it costs after the
                       \* discounts, and the tax on the whole
          Prepaid,     \* what the payments of a purchase may add up to
          Drafted,     \* the lines a bookkeeper enters
          NoPurchase,  \* no such row in purchases
          Opening      \* stock at the start

Editable == {"Draft", "Ordered"}

\* The column is free text; "Other" is any word that the service does not know.
Status == Editable \cup {"Received", "Cancelled", "Other"}

PurchaseRow == [status : Status, order : Order, paid : Int, due : Nat]

\* What peers learn of a purchase: its status and what was paid for it.
Told == [status : Status, paid : Int]

ASSUME PurchasesAssumption ==
  /\ Order \subseteq [qty : Nat \ {0}, amount : Int, tax : Int]
  /\ Prepaid \subseteq Int
  /\ Entry = Purchase \cup Manual
  /\ Purchase \cap Manual = {}
  /\ Account = {"Inventory", "Tax Paid", "Cash", "Accounts Payable"}
  /\ Drafted \subseteq Seq(Line)
  /\ NoPurchase \notin PurchaseRow \cup Told
  /\ Opening \in Nat

VARIABLES purchase,  \* the table purchases
          stock,     \* the product's stock
          told,      \* what the outbox says of each purchase
          untold     \* ghost: purchases whose last request was cut before its outbox row

purchaseVars == <<purchase, stock, told, untold>>

vars == <<journalVars, purchaseVars>>

\* grandTotal.
Total(order) == order.amount + order.tax

-----------------------------------------------------------------------------
Init ==
  /\ JournalInit
  /\ purchase = [p \in Purchase |-> NoPurchase]
  /\ stock = Opening
  /\ told = [p \in Purchase |-> NoPurchase]
  /\ untold = {}

\* Mutant of CreatePurchase: more can be paid than the purchase costs.
CreateOverpaid(p, status, order, paid) ==
  /\ At("none")
  /\ purchase[p] = NoPurchase
  /\ purchase' = [purchase EXCEPT ![p] =
       [status |-> status, order |-> order, paid |-> paid, due |-> Total(order) - paid]]
  /\ stock' = IF status = "Received" THEN stock + order.qty ELSE stock
  /\ told' = [told EXCEPT ![p] = [status |-> status, paid |-> paid]]
  /\ job' = [step |-> "post", id |-> p, lines |-> <<>>]
  /\ UNCHANGED <<chart, journal, announced, cut, untold>>

\* createPurchase: one transaction with the header, the payments, the goods of a received
\* purchase and the outbox row. Only an overpayment is refused.
CreatePurchase(p, status, order, paid) ==
  /\ At("none")
  /\ purchase[p] = NoPurchase
  /\ paid <= Total(order)
  /\ purchase' = [purchase EXCEPT ![p] =
       [status |-> status, order |-> order, paid |-> paid, due |-> Total(order) - paid]]
  /\ stock' = IF status = "Received" THEN stock + order.qty ELSE stock
  /\ told' = [told EXCEPT ![p] = [status |-> status, paid |-> paid]]
  /\ job' = [step |-> "post", id |-> p, lines |-> <<>>]
  /\ UNCHANGED <<chart, journal, announced, cut, untold>>

\* The lines of the purchase's journal (_postAccounting), in order.
Debit(acc, amount) == <<[acc |-> acc, debit |-> amount, credit |-> 0]>>

Credit(acc, amount) == <<[acc |-> acc, debit |-> 0, credit |-> amount]>>

PaidTarget(accounts) == IF "Cash" \in accounts THEN "Cash" ELSE "Accounts Payable"

\* Mutant of DueTarget: what is due is booked like what was paid.
PaidTargetForDue(accounts) == PaidTarget(accounts)

DueTarget(accounts) ==
  IF "Accounts Payable" \in accounts THEN "Accounts Payable" ELSE PaidTarget(accounts)

\* The lines for a business that has set up these accounts.
Lines(row, accounts) ==
  Debit("Inventory", row.order.amount)
    \o (IF row.order.tax > 0 /\ "Tax Paid" \in accounts
        THEN Debit("Tax Paid", row.order.tax) ELSE <<>>)
    \o (IF row.paid > 0 THEN Credit(PaidTarget(accounts), row.paid) ELSE <<>>)
    \o (IF row.due > 0 THEN Credit(DueTarget(accounts), row.due) ELSE <<>>)

\* The accounts that a purchase is posted to are there.
Postable == "Inventory" \in chart /\ {"Cash", "Accounts Payable"} \cap chart # {}

Posts(row) == row.status = "Received" /\ Postable /\ Len(Lines(row, chart)) >= 2

\* Nothing to post, or the journal refuses the lines: the request ends with an error and
\* the purchase stays.
PostNothing ==
  /\ At("post")
  /\ Posts(purchase[job.id]) => ~Valid(Lines(purchase[job.id], chart))
  /\ job' = NoJob
  /\ UNCHANGED <<chart, journal, announced, cut, purchaseVars>>

\* createAndPost.
PostPurchase ==
  /\ At("post")
  /\ Posts(purchase[job.id])
  /\ InsertEntry(job.id, "posted", Lines(purchase[job.id], chart))
  /\ UNCHANGED purchaseVars

\* An UPDATE of the purchase's status in autocommit; its outbox row follows.
SetStatus(p, status) ==
  /\ purchase' = [purchase EXCEPT ![p].status = status]
  /\ job' = [step |-> "tell", id |-> p, lines |-> <<>>]
  /\ UNCHANGED <<chart, journal, announced, cut, stock, told, untold>>

\* Mutant of UpdatePurchase: an order can be marked as received.
UpdateToAny(p, status) ==
  /\ At("none")
  /\ purchase[p] # NoPurchase
  /\ purchase[p].status \in Editable
  /\ SetStatus(p, IF status = "Draft" THEN "Received" ELSE status)

\* updatePurchase.
UpdatePurchase(p, status) ==
  /\ At("none")
  /\ purchase[p] # NoPurchase
  /\ purchase[p].status \in Editable
  /\ status \in Editable
  /\ SetStatus(p, status)

\* Mutant of CancelPurchase: the outbox row is forgotten.
CancelQuietly(p) ==
  /\ At("none")
  /\ purchase[p] # NoPurchase
  /\ ~(purchase[p].status = "Received" /\ purchase[p].paid > 0)
  /\ purchase' = [purchase EXCEPT ![p].status = "Cancelled"]
  /\ UNCHANGED <<journalVars, stock, told, untold>>

\* deletePurchase. What else was paid for, an order for one, is cancelled all the same.
CancelPurchase(p) ==
  /\ At("none")
  /\ purchase[p] # NoPurchase
  /\ ~(purchase[p].status = "Received" /\ purchase[p].paid > 0)
  /\ SetStatus(p, "Cancelled")

\* The outbox row of updatePurchase or deletePurchase.
TellStatus ==
  /\ At("tell")
  /\ told' = [told EXCEPT ![job.id].status = purchase[job.id].status]
  /\ untold' = untold \ {job.id}
  /\ job' = NoJob
  /\ UNCHANGED <<chart, journal, announced, cut, purchase, stock>>

\* The request is cut between two of its statements: the process ends or one throws.
Cut ==
  /\ job.step # "none"
  /\ Cardinality(cut \cup untold \cup {job.id}) <= MaxCuts
  /\ IF At("tell")
     THEN untold' = untold \cup {job.id} /\ cut' = cut
     ELSE cut' = cut \cup {job.id} /\ untold' = untold
  /\ job' = NoJob
  /\ UNCHANGED <<chart, journal, announced, purchase, stock, told>>

Bookkeeping ==
  /\ \/ \E e \in Manual, lines \in Drafted : CreateJournal(e, lines)
     \/ InsertLine \/ RefuseLine \/ RecordJournalChange
     \/ \E e \in Entry : PostJournal(e)
  /\ UNCHANGED purchaseVars

Next ==
  \/ \E p \in Purchase, status \in Status, order \in Order, paid \in Prepaid :
       CreatePurchase(p, status, order, paid)
  \/ PostNothing \/ PostPurchase
  \/ \E p \in Purchase, status \in Status : UpdatePurchase(p, status)
  \/ \E p \in Purchase : CancelPurchase(p)
  \/ TellStatus \/ Cut
  \/ Bookkeeping

Spec == Init /\ [][Next]_vars

-----------------------------------------------------------------------------
(* Properties.                                                             *)

PurchasesTypeOK ==
  /\ chart \subseteq Account
  /\ journal \in [Entry -> Row \cup {NoEntry}]
  /\ announced \in [Entry -> Row \cup {NoEntry}]
  /\ job \in Job
  /\ cut \subseteq Entry
  /\ purchase \in [Purchase -> PurchaseRow \cup {NoPurchase}]
  /\ stock \in Nat
  /\ told \in [Purchase -> Told \cup {NoPurchase}]
  /\ untold \subseteq Purchase

Existing == {p \in Purchase : purchase[p] # NoPurchase}

\* The books balance: whatever was cut or refused in the middle, an entry is posted only
\* with lines that balance. The one exception is the entry of a purchase whose request
\* was cut: it is 'posted' from its header on.
PostedEntriesBalance ==
  \A e \in Entry :
    /\ journal[e] # NoEntry
    /\ journal[e].status = "posted"
    /\ Written(e)
    /\ e \in Purchase => e \notin cut
    => Valid(journal[e].lines)

\* What the lines book on one side of an account.
Booked(lines, acc, side) ==
  SumFunction([i \in {j \in DOMAIN lines : lines[j].acc = acc} |-> lines[i][side]])

\* The request that created the purchase is over and was not cut.
Settled(p) == p \notin cut /\ (job.id = p => At("tell"))

\* The journal tells what was received: only received purchases have an entry, and it
\* books the goods, the tax, the money paid and the debt to the supplier where they
\* belong. It is missing only for want of accounts or of an amount, or because the tax or
\* the payments are negative: then the lines do not balance. Cancelling a purchase keeps
\* the entry.
JournalTellsPurchases ==
  \A p \in Existing :
    /\ journal[p] # NoEntry => purchase[p].status \in {"Received", "Cancelled"}
    /\ Settled(p) /\ journal[p] # NoEntry =>
         /\ Booked(journal[p].lines, "Inventory", "debit") = purchase[p].order.amount
         /\ Booked(journal[p].lines, "Tax Paid", "debit") = Max({0, purchase[p].order.tax})
         /\ {"Cash", "Accounts Payable"} \subseteq chart =>
              /\ Booked(journal[p].lines, "Cash", "credit") = Max({0, purchase[p].paid})
              /\ Booked(journal[p].lines, "Accounts Payable", "credit") = purchase[p].due
    /\ /\ Settled(p) /\ purchase[p].status = "Received"
       /\ Postable /\ purchase[p].order.amount > 0
       /\ purchase[p].order.tax >= 0 /\ purchase[p].paid >= 0
       /\ purchase[p].order.tax > 0 => "Tax Paid" \in chart
       => journal[p] # NoEntry

QtyOf(purchases) == SumFunction([p \in purchases |-> purchase[p].order.qty])

Received == {p \in Existing : purchase[p].status = "Received"}

\* Purchases that may have brought goods before they were cancelled.
Withdrawn == {p \in Existing : purchase[p].status = "Cancelled" /\ purchase[p].paid <= 0}

\* The goods of every received purchase are in the stock, over every sequence of requests
\* and cuts; goods in excess of that can only come from a cancelled purchase whose
\* payments add up to nothing or less.
GoodsFollowPurchases ==
  /\ Opening + QtyOf(Received) <= stock
  /\ stock <= Opening + QtyOf(Received \cup Withdrawn)

\* Peers hear of every purchase as it is, unless its last request was cut: a later request
\* on the same purchase heals the gap.
OutboxTellsPurchases ==
  \A p \in Existing : p \notin untold /\ ~(At("tell") /\ job.id = p) =>
    told[p] = [status |-> purchase[p].status, paid |-> purchase[p].paid]
=============================================================================
