----------------------------- MODULE Inventory -----------------------------
(***************************************************************************)
(* Stock keeping (lib/modules/inventory, InventoryService): three views of *)
(* the same goods. stock is the aggregate row per product and warehouse;   *)
(* batches are the lots it is made of, consumed first in, first out;       *)
(* stock_movements is the append-only book of what came and went.          *)
(*                                                                         *)
(* Every operation is one SQLite transaction of a single isolate that      *)
(* waits for nothing outside it: an atomic step, or no step when it throws *)
(* (insufficient stock, a violated UNIQUE constraint). What no step checks *)
(* is that the three views agree.                                          *)
(*                                                                         *)
(* Quantities are integers. Only the sum of the movements at a place is    *)
(* kept. Each movement row comes with its outbox row and an audit row in   *)
(* the same transaction, which add nothing here.                           *)
(***************************************************************************)
EXTENDS Integers, FiniteSetsExt

CONSTANTS Product, Warehouse,
          Number,       \* batch numbers, typed in or generated (AUTO-<ms>)
          MaxStock,     \* bound: the quantity at a place
          MaxBatches,   \* bound: the lots
          MaxMoved      \* bound: how far the sum of the movements strays from 0

ASSUME InventoryAssumption ==
  /\ IsFiniteSet(Warehouse)
  /\ MaxStock \in Nat
  /\ MaxBatches \in Nat
  /\ MaxMoved \in Nat

VARIABLES stock,      \* stock.quantity per place; no row counts as 0
          batches,    \* the table batches
          moved,      \* sum of stock_movements.quantity per place
          corrected,  \* ghost: products that were once adjusted upwards
          misplaced   \* ghost: products with goods booked on another place's batch

inventoryVars == <<stock, batches, moved, corrected, misplaced>>

Place == Product \X Warehouse

\* A batch; id is AUTOINCREMENT and gives the FIFO order (received_at, id). Its number
\* is a base number and how often "-T" was appended to it.
Batch == [id : Nat, prod : Product, wh : Warehouse, no : Number \X Nat, qty : Nat]

-----------------------------------------------------------------------------
Init ==
  /\ stock = [pl \in Place |-> 0]
  /\ batches = {}
  /\ moved = [pl \in Place |-> 0]
  /\ corrected = {}
  /\ misplaced = {}

\* findFifoBatches. No code clears is_active.
Fifo(p, w) == {b \in batches : b.prod = p /\ b.wh = w /\ b.qty > 0}

TotalQty(lots) == SumFunction([b \in lots |-> b.qty])

\* Mutant of Ahead: the newest lot is consumed first.
AheadNewest(b) == TotalQty({c \in Fifo(b.prod, b.wh) : c.id > b.id})

\* What lies ahead of lot b in the queue.
Ahead(b) == TotalQty({c \in Fifo(b.prod, b.wh) : c.id < b.id})

\* How much of lot b goes when the loop consumes quantity q of its place.
Taken(b, q) == Max({0, Min({b.qty, q - Ahead(b)})})

TotalTaken(p, w, q) == SumFunction([b \in Fifo(p, w) |-> Taken(b, q)])

\* The batches after the loop.
Consumed(p, w, q) ==
  (batches \ Fifo(p, w)) \cup {[b EXCEPT !.qty = @ - Taken(b, q)] : b \in Fifo(p, w)}

\* UNIQUE (business_id, product_id, warehouse_id, batch_number).
NumberFree(p, w, no) == \A b \in batches : ~(b.prod = p /\ b.wh = w /\ b.no = no)

\* AUTOINCREMENT; batches are never deleted.
LastId == Cardinality(batches)

Within(q) == q <= MaxStock

MovedWithin == \A pl \in Place : moved'[pl] \in -MaxMoved .. MaxMoved

-----------------------------------------------------------------------------
\* addStock without a batchId: a new lot.
AddStock(p, w, q, number) ==
  /\ q > 0 /\ Within(stock[<<p, w>>] + q) /\ LastId < MaxBatches
  /\ NumberFree(p, w, <<number, 0>>)
  /\ batches' = batches \cup
       {[id |-> LastId + 1, prod |-> p, wh |-> w, no |-> <<number, 0>>, qty |-> q]}
  /\ stock' = [stock EXCEPT ![<<p, w>>] = @ + q]
  /\ moved' = [moved EXCEPT ![<<p, w>>] = @ + q]
  /\ UNCHANGED <<corrected, misplaced>>

\* addStock with a batchId: the lot is found by its id alone, wherever it lies.
AddToBatch(p, w, q, b) ==
  /\ q > 0 /\ Within(stock[<<p, w>>] + q) /\ Within(b.qty + q)
  /\ batches' = (batches \ {b}) \cup {[b EXCEPT !.qty = @ + q]}
  /\ stock' = [stock EXCEPT ![<<p, w>>] = @ + q]
  /\ moved' = [moved EXCEPT ![<<p, w>>] = @ + q]
  /\ misplaced' = misplaced \cup (IF b.prod = p /\ b.wh = w THEN {} ELSE {p, b.prod})
  /\ UNCHANGED corrected

\* Mutant of DeductStock: without the check of what is available.
DeductUnchecked(p, w, q) ==
  /\ q > 0
  /\ batches' = Consumed(p, w, q)
  /\ stock' = [stock EXCEPT ![<<p, w>>] = @ - q]
  /\ moved' = [moved EXCEPT ![<<p, w>>] = @ - TotalTaken(p, w, q)]
  /\ UNCHANGED <<corrected, misplaced>>

\* deductStock: the stock row loses q, the batches and the movements only what the
\* loop found.
DeductStock(p, w, q) ==
  /\ q > 0
  /\ stock[<<p, w>>] >= q
  /\ batches' = Consumed(p, w, q)
  /\ stock' = [stock EXCEPT ![<<p, w>>] = @ - q]
  /\ moved' = [moved EXCEPT ![<<p, w>>] = @ - TotalTaken(p, w, q)]
  /\ UNCHANGED <<corrected, misplaced>>

Touched(p, w, q) == {b \in Fifo(p, w) : Taken(b, q) > 0}

\* The number a lot gets at the other warehouse: "<number>-T".
Renumbered(no) == <<no[1], no[2] + 1>>

\* The lots a transfer creates, in FIFO order.
Arriving(p, from, to, q) ==
  {[id |-> LastId + Cardinality({c \in Touched(p, from, q) : c.id <= b.id}),
    prod |-> p, wh |-> to, no |-> Renumbered(b.no), qty |-> Taken(b, q)] :
     b \in Touched(p, from, q)}

\* Mutant of TransferMovements: no transfer_in is recorded.
TransferOutOnly(p, from, to, t) == [moved EXCEPT ![<<p, from>>] = @ - t]

\* A transfer_out at the source and a transfer_in at the destination per lot.
TransferMovements(p, from, to, t) ==
  [moved EXCEPT ![<<p, from>>] = @ - t, ![<<p, to>>] = @ + t]

\* The UNIQUE constraint lets each lot arrive.
CanArrive(p, from, to, q) ==
  \A b \in Touched(p, from, q) : NumberFree(p, to, Renumbered(b.no))

TransferStock(p, from, to, q) ==
  /\ q > 0 /\ Within(stock[<<p, to>>] + q)
  /\ LastId + Cardinality(Touched(p, from, q)) <= MaxBatches
  /\ from # to
  /\ stock[<<p, from>>] >= q
  /\ CanArrive(p, from, to, q)
  /\ batches' = Consumed(p, from, q) \cup Arriving(p, from, to, q)
  /\ stock' = [stock EXCEPT ![<<p, from>>] = @ - q, ![<<p, to>>] = @ + q]
  /\ moved' = TransferMovements(p, from, to, TotalTaken(p, from, q))
  /\ UNCHANGED <<corrected, misplaced>>

\* Mutant of AdjustedBatches: a downward correction leaves the lots alone.
BatchesUntouched(p, w, delta) == batches

\* A downward correction consumes lots; an upward one creates none.
AdjustedBatches(p, w, delta) == IF delta < 0 THEN Consumed(p, w, -delta) ELSE batches

\* Mutant of AdjustMovement: only downward corrections are recorded.
DownwardMovement(p, w, delta) ==
  [moved EXCEPT ![<<p, w>>] = IF delta < 0 THEN @ + delta ELSE @]

\* One movement 'adjust' over the whole difference.
AdjustMovement(p, w, delta) == [moved EXCEPT ![<<p, w>>] = @ + delta]

\* adjustStock. With no difference the transaction does nothing (and the caller gets a
\* LateInitializationError). The journal posted after the commit is not modelled.
AdjustStock(p, w, new) ==
  LET delta == new - stock[<<p, w>>] IN
  /\ Within(new)
  /\ delta # 0
  /\ batches' = AdjustedBatches(p, w, delta)
  /\ stock' = [stock EXCEPT ![<<p, w>>] = new]
  /\ moved' = AdjustMovement(p, w, delta)
  /\ corrected' = corrected \cup (IF delta > 0 THEN {p} ELSE {})
  /\ UNCHANGED misplaced

Next ==
  \E p \in Product, w \in Warehouse, q \in 0 .. MaxStock :
    /\ \/ \E number \in Number : AddStock(p, w, q, number)
       \/ \E b \in batches : AddToBatch(p, w, q, b)
       \/ DeductStock(p, w, q)
       \/ \E to \in Warehouse : TransferStock(p, w, to, q)
       \/ AdjustStock(p, w, q)
    /\ MovedWithin

Spec == Init /\ [][Next]_inventoryVars

-----------------------------------------------------------------------------
(* How far the three views can be trusted.                                 *)

\* Whatever is sold, transferred, or corrected, no lot and no stock row is ever
\* negative.
InventoryTypeOK ==
  /\ stock \in [Place -> Nat]
  /\ batches \subseteq Batch
  /\ moved \in [Place -> Int]
  /\ corrected \subseteq Product /\ misplaced \subseteq Product

Lots(p, w) == {b \in batches : b.prod = p /\ b.wh = w}

\* The lots of a place never promise more than its stock row, so that the FIFO loop
\* cannot overdraw it; unless goods were booked on a lot of another place.
BatchesWithinStock ==
  \A p \in Product \ misplaced, w \in Warehouse : TotalQty(Lots(p, w)) <= stock[<<p, w>>]

\* The three views agree at every place until a product is first adjusted upwards (or
\* misplaced): that correction, which creates no lot, is the only source of drift.
MovementsExplainStock ==
  \A p \in Product \ (corrected \cup misplaced), w \in Warehouse :
    stock[<<p, w>>] = moved[<<p, w>>] /\ stock[<<p, w>>] = TotalQty(Lots(p, w))

\* Over all warehouses the movements of a product never account for less than its
\* stock: goods may leave without a movement, none appear without one. (Not so at a
\* single warehouse, where a transfer may bring goods that its movement does not count.)
MovementsNeverUnderstate ==
  \A p \in Product :
    SumFunction([w \in Warehouse |-> stock[<<p, w>>]])
      <= SumFunction([w \in Warehouse |-> moved[<<p, w>>]])

\* First in, first out: a step that takes from a lot leaves nothing in an older lot
\* of the same place.
OldestFirst ==
  [][\A b, c \in batches, n, o \in batches' :
       /\ b.prod = c.prod /\ b.wh = c.wh /\ b.id < c.id
       /\ n.id = b.id /\ o.id = c.id
       /\ o.qty < c.qty
       => n.qty = 0]_inventoryVars

\* A claim that the code does not keep: "Move [quantity] of [productId] from one
\* warehouse to another" (transferStock, inventory_service.dart): with enough stock
\* a transfer goes through.
TransfersSucceed ==
  \A p \in Product, from, to \in Warehouse :
    from # to => \A q \in 1 .. stock[<<p, from>>] : CanArrive(p, from, to, q)
=============================================================================
