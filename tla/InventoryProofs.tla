-------------------------- MODULE InventoryProofs --------------------------
(***************************************************************************)
(* Proofs about Inventory: the invariants of the three views of the stock, *)
(* and that lots are consumed first in, first out.                         *)
(*                                                                         *)
(* The invariants are inductive once the numbering of the lots is added:   *)
(* no two have the same id, and the next id is free.                       *)
(***************************************************************************)
EXTENDS Inventory, SumLemmas

\* AUTOINCREMENT: the ids of the lots are 1 to their number.
LotsNumbered ==
  /\ IsFiniteSet(batches)
  /\ \A b \in batches : b.id \in 1 .. LastId
  /\ \A b, c \in batches : b.id = c.id => b = c

InventoryIInv ==
  /\ InventoryTypeOK
  /\ LotsNumbered
  /\ BatchesWithinStock
  /\ MovementsExplainStock
  /\ MovementsNeverUnderstate

\* The part of the invariant that the facts about lots rest on.
LotsOK ==
  /\ batches \subseteq Batch
  /\ LotsNumbered

\* The lots of a place among some lots.
LotsAt(lots, p, w) == {b \in lots : b.prod = p /\ b.wh = w}

-----------------------------------------------------------------------------
(* Quantities of lots.                                                     *)

Qty == [b \in Batch |-> b.qty]

LEMMA TotalQtyIsSum ==
  ASSUME NEW lots \in SUBSET Batch, IsFiniteSet(lots)
  PROVE  TotalQty(lots) = SumFunctionOnSet(Qty, lots) /\ TotalQty(lots) \in Nat
<1> DEFINE f == [b \in lots |-> b.qty]
<1>1. \A b \in lots : f[b] = Qty[b] /\ f[b] \in Nat
  BY DEF Qty, Batch
<1>2. TotalQty(lots) = SumFunctionOnSet(f, lots)
  BY DEF TotalQty, SumFunction
<1>3. SumFunctionOnSet(f, lots) = SumFunctionOnSet(Qty, lots)
  <2> HIDE DEF f
  <2> QED
    BY <1>1, SumSame
<1>4. SumFunctionOnSet(f, lots) \in Nat
  <2> HIDE DEF f
  <2> QED
    BY <1>1, SumNat
<1> QED
  BY <1>2, <1>3, <1>4

LEMMA QtyNat == \A b \in Batch : Qty[b] \in Nat /\ Qty[b] \in Int /\ Qty[b] = b.qty
BY DEF Qty, Batch

LEMMA TotalQtyEmpty == TotalQty({}) = 0
BY TotalQtyIsSum, SumEmpty, FS_EmptySet

LEMMA TotalQtyAdd ==
  ASSUME NEW lots \in SUBSET Batch, IsFiniteSet(lots), NEW b \in Batch, b \notin lots
  PROVE  TotalQty(lots \cup {b}) = TotalQty(lots) + b.qty
<1>1. IsFiniteSet(lots \cup {b}) /\ lots \cup {b} \in SUBSET Batch
  BY FS_AddElement
<1>2. SumFunctionOnSet(Qty, lots \cup {b}) = SumFunctionOnSet(Qty, lots) + Qty[b]
  BY SumAdd, QtyNat
<1> QED
  BY <1>1, <1>2, TotalQtyIsSum, QtyNat

LEMMA TotalQtyDisjoint ==
  ASSUME NEW A \in SUBSET Batch, IsFiniteSet(A), NEW B \in SUBSET Batch, IsFiniteSet(B),
         A \cap B = {}
  PROVE  TotalQty(A \cup B) = TotalQty(A) + TotalQty(B)
<1>1. IsFiniteSet(A \cup B) /\ A \cup B \in SUBSET Batch
  BY FS_Union
<1>2. SumFunctionOnSet(Qty, A \cup B) = SumFunctionOnSet(Qty, A) + SumFunctionOnSet(Qty, B)
  BY SumDisjoint, QtyNat
<1> QED
  BY <1>1, <1>2, TotalQtyIsSum

LEMMA TotalQtyZero ==
  ASSUME NEW lots \in SUBSET Batch, IsFiniteSet(lots), \A b \in lots : b.qty = 0
  PROVE  TotalQty(lots) = 0
<1>1. SumFunctionOnSet(Qty, lots) = 0
  BY SumZero, QtyNat
<1> QED
  BY <1>1, TotalQtyIsSum

\* A lot holds no more than the lots it is among.
LEMMA TotalQtyPart ==
  ASSUME NEW lots \in SUBSET Batch, IsFiniteSet(lots), NEW A \in SUBSET lots
  PROVE  IsFiniteSet(A) /\ TotalQty(A) \in Nat /\ TotalQty(A) <= TotalQty(lots)
<1>1. IsFiniteSet(A) /\ IsFiniteSet(lots \ A)
  BY FS_Subset
<1>2. A \cup (lots \ A) = lots
  OBVIOUS
<1>3. TotalQty(A \cup (lots \ A)) = TotalQty(A) + TotalQty(lots \ A)
  BY <1>1, TotalQtyDisjoint
<1>4. TotalQty(A \cup (lots \ A)) = TotalQty(lots)
  BY <1>2, Zenon
<1>5. TotalQty(A) \in Nat /\ TotalQty(lots \ A) \in Nat
  BY <1>1, TotalQtyIsSum
<1> QED
  BY <1>1, <1>3, <1>4, <1>5

\* The empty lots of a place do not count.
LEMMA QueueHoldsAll ==
  ASSUME LotsOK, NEW p, NEW w
  PROVE  /\ Fifo(p, w) \subseteq Lots(p, w)
         /\ IsFiniteSet(Lots(p, w)) /\ IsFiniteSet(Fifo(p, w))
         /\ TotalQty(Fifo(p, w)) = TotalQty(Lots(p, w))
         /\ TotalQty(Fifo(p, w)) \in Nat
<1> DEFINE F == Fifo(p, w)
           E == Lots(p, w) \ F
<1>1. F \subseteq Lots(p, w) /\ Lots(p, w) \subseteq batches /\ F \in SUBSET Batch /\ E \in SUBSET Batch
  BY DEF Fifo, Lots, LotsOK
<1>2. IsFiniteSet(Lots(p, w)) /\ IsFiniteSet(F) /\ IsFiniteSet(E)
  BY <1>1, FS_Subset DEF LotsOK, LotsNumbered
<1>3. \A b \in E : b.qty = 0
  BY DEF Fifo, Lots, LotsOK, Batch
<1>4. TotalQty(E) = 0
  BY <1>1, <1>2, <1>3, TotalQtyZero
<1>5. TotalQty(F \cup E) = TotalQty(F) + TotalQty(E)
  BY <1>1, <1>2, TotalQtyDisjoint
<1>6. TotalQty(F \cup E) = TotalQty(Lots(p, w))
  <2>1. F \cup E = Lots(p, w)
    BY <1>1
  <2> QED
    BY <2>1, Zenon
<1>7. TotalQty(F) \in Nat
  BY <1>1, <1>2, TotalQtyIsSum
<1> QED
  BY <1>1, <1>2, <1>4, <1>5, <1>6, <1>7

-----------------------------------------------------------------------------
(* The FIFO loop.                                                          *)

LEMMA SmallerOf ==
  ASSUME NEW a \in Int, NEW b \in Int
  PROVE  Min({a, b}) = IF a <= b THEN a ELSE b
BY DEF Min

LEMMA GreaterOf ==
  ASSUME NEW a \in Int, NEW b \in Int
  PROVE  Max({a, b}) = IF a >= b THEN a ELSE b
BY DEF Max

\* What the loop takes of a lot, by what lies ahead of it.
LEMMA TakenOf ==
  ASSUME LotsOK, NEW b \in batches, NEW q \in Nat
  PROVE  /\ Ahead(b) \in Nat
         /\ Taken(b, q) = IF q <= Ahead(b) THEN 0
                          ELSE IF q - Ahead(b) <= b.qty THEN q - Ahead(b) ELSE b.qty
         /\ Taken(b, q) \in Nat /\ Taken(b, q) <= b.qty
<1>1. Ahead(b) \in Nat
  <2> DEFINE A == {c \in Fifo(b.prod, b.wh) : c.id < b.id}
  <2>1. A \in SUBSET batches
    BY DEF Fifo
  <2>2. A \in SUBSET Batch /\ IsFiniteSet(A)
    BY <2>1, FS_Subset DEF LotsOK, LotsNumbered
  <2> QED
    BY <2>2, TotalQtyIsSum DEF Ahead
<1>2. b.qty \in Nat
  BY DEF LotsOK, Batch
<1> DEFINE m == Min({b.qty, q - Ahead(b)})
<1>3. m = IF b.qty <= q - Ahead(b) THEN b.qty ELSE q - Ahead(b)
  BY <1>1, <1>2, SmallerOf
<1>4. Max({0, m}) = IF 0 >= m THEN 0 ELSE m
  BY <1>1, <1>2, <1>3, GreaterOf
<1> QED
  BY <1>1, <1>2, <1>3, <1>4 DEF Taken

\* The loop takes the quantity asked for, or all there is.
LEMMA LoopTakes ==
  ASSUME LotsOK, NEW p, NEW w, NEW q \in Nat
  PROVE  TotalTaken(p, w, q) =
           IF q <= TotalQty(Lots(p, w)) THEN q ELSE TotalQty(Lots(p, w))
<1> DEFINE F == Fifo(p, w)
           t == [b \in F |-> Taken(b, q)]
           Upto(n) == {b \in F : b.id <= n}
           Least(a) == IF q <= a THEN q ELSE a
           G == {n \in Nat : SumFunctionOnSet(t, Upto(n)) = Least(TotalQty(Upto(n)))}
<1>1. F \subseteq batches /\ F \in SUBSET Batch /\ IsFiniteSet(F)
  BY QueueHoldsAll DEF Fifo, LotsOK
<1>2. \A b \in F : t[b] \in Nat /\ t[b] \in Int /\ t[b] = Taken(b, q) /\ b.id \in Nat
  BY <1>1, TakenOf DEF Batch
<1>3. \A n : Upto(n) \in SUBSET F /\ Upto(n) \in SUBSET Batch /\ IsFiniteSet(Upto(n))
  BY <1>1, FS_Subset
<1>4. \A n : TotalQty(Upto(n)) \in Nat
  BY <1>3, TotalQtyIsSum
<1>5. 0 \in G
  <2>1. Upto(0) = {}
    BY <1>1 DEF LotsOK, LotsNumbered
  <2>2. SumFunctionOnSet(t, Upto(0)) = 0 /\ TotalQty(Upto(0)) = 0
    BY <2>1, SumEmpty, TotalQtyEmpty, Zenon
  <2> QED
    BY <2>2
<1>6. ASSUME NEW n \in Nat, n \in G PROVE n + 1 \in G
  <2> DEFINE A == Upto(n)
             B == Upto(n + 1)
  <2>1. SumFunctionOnSet(t, A) = Least(TotalQty(A))
    BY <1>6
  <2>2. CASE \A b \in F : b.id # n + 1
    <3>1. B = A
      BY <1>2, <2>2
    <3>2. SumFunctionOnSet(t, B) = Least(TotalQty(B))
      BY <2>1, <3>1, Zenon
    <3> QED
      BY <3>2
  <2>3. ASSUME NEW b \in F, b.id = n + 1 PROVE n + 1 \in G
    <3>1. \A c \in F : c.id = n + 1 => c = b
      BY <1>1, <2>3 DEF LotsOK, LotsNumbered
    <3>2. B = A \cup {b} /\ b \notin A
      BY <1>2, <2>3, <3>1
    <3>3. b.prod = p /\ b.wh = w /\ b \in batches /\ b \in Batch /\ b.qty \in Nat
      BY <1>1 DEF Fifo, Batch
    <3>4. Ahead(b) = TotalQty(A)
      <4>1. {c \in Fifo(b.prod, b.wh) : c.id < b.id} = A
        BY <1>2, <2>3, <3>3
      <4> QED
        BY <4>1, Zenon DEF Ahead
    <3>5. TotalQty(B) = TotalQty(A) + b.qty
      <4>1. TotalQty(A \cup {b}) = TotalQty(A) + b.qty
        BY <1>3, <3>2, <3>3, TotalQtyAdd
      <4> QED
        BY <3>2, <4>1, Zenon
    <3>6. SumFunctionOnSet(t, B) = SumFunctionOnSet(t, A) + t[b]
      <4>1. SumFunctionOnSet(t, A \cup {b}) = SumFunctionOnSet(t, A) + t[b]
        <5> HIDE DEF t
        <5> QED
          BY <1>2, <1>3, <3>2, SumAdd
      <4> QED
        BY <3>2, <4>1, Zenon
    <3>7. t[b] = IF q <= TotalQty(A) THEN 0
                 ELSE IF q - TotalQty(A) <= b.qty THEN q - TotalQty(A) ELSE b.qty
      BY <1>2, <3>3, <3>4, TakenOf
    <3>8. TotalQty(A) \in Nat
      BY <1>4
    <3>9. SumFunctionOnSet(t, B) = Least(TotalQty(B))
      <4> HIDE DEF t, A, B
      <4> QED
        BY <2>1, <3>3, <3>5, <3>6, <3>7, <3>8
    <3> QED
      BY <3>9
  <2> QED
    BY <2>2, <2>3
<1>7. LastId \in Nat
  BY FS_CardinalityType DEF LotsOK, LotsNumbered, LastId
<1>8. LastId \in G
  <2>1. Nat \subseteq G
    <3> HIDE DEF G
    <3> QED
      BY <1>5, <1>6, NaturalsByStep
  <2> QED
    BY <1>7, <2>1
<1>9. Upto(LastId) = F
  BY <1>1, <1>7 DEF LotsOK, LotsNumbered
<1>10. SumFunctionOnSet(t, F) = Least(TotalQty(F))
  BY <1>8, <1>9, Zenon
<1>11. TotalTaken(p, w, q) = SumFunctionOnSet(t, F)
  BY DEF TotalTaken, SumFunction
<1> QED
  BY <1>10, <1>11, QueueHoldsAll

\* A lot after the loop.
After(b, p, w, q) ==
  IF b \in Fifo(p, w) THEN [b EXCEPT !.qty = @ - Taken(b, q)] ELSE b

\* The row of the lot stays where it is.
LEMMA AfterStays ==
  ASSUME LotsOK, NEW p, NEW w, NEW q \in Nat
  PROVE  \A b \in batches :
           /\ After(b, p, w, q) \in Batch
           /\ After(b, p, w, q).id = b.id
           /\ After(b, p, w, q).prod = b.prod
           /\ After(b, p, w, q).wh = b.wh
<1> SUFFICES ASSUME NEW b \in batches
             PROVE  /\ After(b, p, w, q) \in Batch
                    /\ After(b, p, w, q).id = b.id
                    /\ After(b, p, w, q).prod = b.prod
                    /\ After(b, p, w, q).wh = b.wh
  OBVIOUS
<1>1. b \in Batch /\ b.qty \in Nat
  BY DEF LotsOK, Batch
<1>2. b.qty - Taken(b, q) \in Nat
  BY <1>1, TakenOf
<1>3. CASE b \in Fifo(p, w)
  <2>1. After(b, p, w, q) = [b EXCEPT !.qty = b.qty - Taken(b, q)]
    BY <1>3 DEF After
  <2> QED
    BY <1>1, <1>2, <1>3, <2>1 DEF Batch
<1>4. CASE b \notin Fifo(p, w)
  BY <1>1, <1>4 DEF After
<1> QED
  BY <1>3, <1>4

\* It loses what the loop takes.
LEMMA AfterQty ==
  ASSUME LotsOK, NEW p, NEW w, NEW q \in Nat
  PROVE  \A b \in batches :
           After(b, p, w, q).qty =
             IF b \in Fifo(p, w) THEN b.qty - Taken(b, q) ELSE b.qty
<1> SUFFICES ASSUME NEW b \in batches
             PROVE  After(b, p, w, q).qty =
                      IF b \in Fifo(p, w) THEN b.qty - Taken(b, q) ELSE b.qty
  OBVIOUS
<1>1. b \in Batch /\ b.qty \in Nat
  BY DEF LotsOK, Batch
<1>2. b.qty - Taken(b, q) \in Nat
  BY <1>1, TakenOf
<1>3. CASE b \in Fifo(p, w)
  <2>1. After(b, p, w, q) = [b EXCEPT !.qty = b.qty - Taken(b, q)]
    BY <1>3 DEF After
  <2> QED
    BY <1>1, <1>2, <1>3, <2>1 DEF Batch
<1>4. CASE b \notin Fifo(p, w)
  BY <1>1, <1>4 DEF After
<1> QED
  BY <1>3, <1>4

\* The loop changes quantities and nothing else.
LEMMA ConsumedLots ==
  ASSUME LotsOK, NEW p, NEW w, NEW q \in Nat
  PROVE  LET C == Consumed(p, w, q) IN
         /\ C = {After(b, p, w, q) : b \in batches}
         /\ C \in SUBSET Batch /\ IsFiniteSet(C)
         /\ Cardinality(C) = LastId
         /\ \A n \in C : n.id \in 1 .. LastId
         /\ \A n, o \in C : n.id = o.id => n = o
<1> DEFINE C == Consumed(p, w, q)
           r == [b \in batches |-> After(b, p, w, q)]
<1>1. C = {After(b, p, w, q) : b \in batches}
  <2>1. Fifo(p, w) \subseteq batches
    BY DEF Fifo
  <2>2. {[b EXCEPT !.qty = @ - Taken(b, q)] : b \in Fifo(p, w)}
          = {After(b, p, w, q) : b \in Fifo(p, w)}
    BY DEF After
  <2>3. batches \ Fifo(p, w) = {After(b, p, w, q) : b \in batches \ Fifo(p, w)}
    BY DEF After
  <2> QED
    BY <2>1, <2>2, <2>3 DEF Consumed
<1>2. \A b \in batches : r[b] \in Batch /\ r[b].id = b.id
  BY AfterStays
<1>3. \A b, c \in batches : b.id = c.id => b = c
  BY DEF LotsOK, LotsNumbered
<1>4. C = {r[b] : b \in batches}
  BY <1>1
<1>5. r \in Surjection(batches, C) /\ r \in Injection(batches, C)
  <2>1. r \in [batches -> C]
    BY <1>4
  <2>2. \A b, c \in batches : r[b] = r[c] => b = c
    BY <1>2, <1>3
  <2>3. \A t \in C : \E s \in batches : r[s] = t
    BY <1>4
  <2> QED
    BY <2>1, <2>2, <2>3 DEF Surjection, Injection, IsInjective
<1>6. IsFiniteSet(C) /\ Cardinality(C) = LastId
  BY <1>5, FS_Surjection DEF LotsOK, LotsNumbered, LastId
<1>7. \A n \in C : n \in Batch /\ n.id \in 1 .. LastId
  BY <1>2, <1>4 DEF LotsOK, LotsNumbered
<1>8. \A n, o \in C : n.id = o.id => n = o
  BY <1>2, <1>3, <1>4
<1> QED
  BY <1>1, <1>6, <1>7, <1>8

\* The loop leaves the lots of other places alone.
LEMMA ConsumedElsewhere ==
  ASSUME LotsOK, NEW p, NEW w, NEW q \in Nat, NEW p2, NEW w2, p2 # p \/ w2 # w
  PROVE  LotsAt(Consumed(p, w, q), p2, w2) = Lots(p2, w2)
<1>1. \A b \in batches : /\ After(b, p, w, q).prod = b.prod
                         /\ After(b, p, w, q).wh = b.wh
  BY AfterStays
<1>2. \A b \in batches : b.prod = p2 /\ b.wh = w2 => After(b, p, w, q) = b
  BY DEF After, Fifo
<1>3. Consumed(p, w, q) = {After(b, p, w, q) : b \in batches}
  BY ConsumedLots
<1> QED
  BY <1>1, <1>2, <1>3 DEF LotsAt, Lots

\* And takes from its own place what the movements say.
LEMMA ConsumedHere ==
  ASSUME LotsOK, NEW p, NEW w, NEW q \in Nat
  PROVE  TotalQty(LotsAt(Consumed(p, w, q), p, w))
           = TotalQty(Lots(p, w)) - TotalTaken(p, w, q)
<1> DEFINE L == Lots(p, w)
           F == Fifo(p, w)
           r == [b \in L |-> After(b, p, w, q)]
           t == [b \in L |-> IF b \in F THEN Taken(b, q) ELSE 0]
           f == [b \in L |-> After(b, p, w, q).qty]
           C == LotsAt(Consumed(p, w, q), p, w)
<1>1. L \in SUBSET batches /\ L \in SUBSET Batch /\ IsFiniteSet(L) /\ F \in SUBSET L /\ IsFiniteSet(F)
  BY QueueHoldsAll DEF LotsOK, Lots
<1>2. \A b \in batches : /\ After(b, p, w, q) \in Batch
                         /\ After(b, p, w, q).id = b.id
                         /\ After(b, p, w, q).prod = b.prod
                         /\ After(b, p, w, q).wh = b.wh
  BY AfterStays
<1>3. \A b \in L : /\ t[b] \in Nat /\ t[b] <= b.qty
                   /\ After(b, p, w, q).qty = b.qty - t[b]
  <2>1. \A b \in batches : After(b, p, w, q).qty = IF b \in F THEN b.qty - Taken(b, q) ELSE b.qty
    BY AfterQty
  <2>3. \A b \in batches : Taken(b, q) \in Nat /\ Taken(b, q) <= b.qty
    BY TakenOf
  <2>2. \A b \in L : b.qty \in Nat
    BY <1>1 DEF Batch
  <2> QED
    BY <1>1, <2>1, <2>2, <2>3
<1>4. C = {r[b] : b \in L}
  <2>1. Consumed(p, w, q) = {After(b, p, w, q) : b \in batches}
    BY ConsumedLots
  <2>2. C = {After(b, p, w, q) : b \in L}
    BY <1>2, <2>1 DEF LotsAt, Lots
  <2> QED
    BY <2>2
<1>5. C \in SUBSET Batch
  BY <1>1, <1>2, <1>4
<1>6. IsFiniteSet(C) /\ SumFunctionOnSet(Qty, C) = SumFunctionOnSet(f, L)
  <2>1. \A b, c \in L : r[b] = r[c] => b = c
    BY <1>1, <1>2 DEF LotsOK, LotsNumbered
  <2>2. \A b \in L : f[b] \in Int /\ Qty[r[b]] = f[b]
    BY <1>1, <1>2, QtyNat
  <2>3. /\ IsFiniteSet({r[b] : b \in L})
        /\ SumFunctionOnSet(Qty, {r[b] : b \in L}) = SumFunctionOnSet(f, L)
    <3> HIDE DEF r, f, L
    <3> QED
      BY <1>1, <2>1, <2>2, SumRenamed
  <2> QED
    BY <1>4, <2>3, Zenon
<1>7. SumFunctionOnSet(Qty, L) = SumFunctionOnSet(f, L) + SumFunctionOnSet(t, L)
  <2>1. \A b \in L : f[b] \in Int /\ t[b] \in Int /\ Qty[b] = f[b] + t[b]
    BY <1>1, <1>2, <1>3, QtyNat
  <2> HIDE DEF f, t, L
  <2> QED
    BY <1>1, <2>1, SumPlus
<1>8. SumFunctionOnSet(t, L) = TotalTaken(p, w, q)
  <2> DEFINE u == [b \in F |-> Taken(b, q)]
             E == L \ F
  <2>1. IsFiniteSet(E) /\ F \cap E = {} /\ F \cup E = L
    BY <1>1, FS_Subset
  <2>2. \A b \in E : t[b] = 0
    OBVIOUS
  <2>3. \A b \in F : t[b] = u[b]
    BY <1>1
  <2>4. \A b \in L : t[b] \in Int
    BY <1>3
  <2>5. SumFunctionOnSet(u, F) = TotalTaken(p, w, q)
    BY DEF TotalTaken, SumFunction
  <2>6. SumFunctionOnSet(t, F \cup E) = SumFunctionOnSet(t, F) + SumFunctionOnSet(t, E)
    <3> HIDE DEF t, E, F, L
    <3> QED
      BY <1>1, <2>1, <2>4, SumDisjoint
  <2>7. SumFunctionOnSet(t, E) = 0
    <3> HIDE DEF t, E
    <3> QED
      BY <2>1, <2>2, SumZero
  <2>8. SumFunctionOnSet(t, F) = SumFunctionOnSet(u, F)
    <3> HIDE DEF t, u, F
    <3> QED
      BY <1>1, <2>3, SumSame
  <2>9. SumFunctionOnSet(t, F \cup E) = SumFunctionOnSet(t, L)
    BY <2>1, Zenon
  <2>10. SumFunctionOnSet(t, F) \in Int
    <3> HIDE DEF t, F, L
    <3> QED
      BY <1>1, <2>4, SumInt
  <2> HIDE DEF t, u, E, F, L
  <2> QED
    BY <2>5, <2>6, <2>7, <2>8, <2>9, <2>10
<1>9. SumFunctionOnSet(f, L) \in Int /\ SumFunctionOnSet(t, L) \in Int
  <2>1. \A b \in L : f[b] \in Int /\ t[b] \in Int
    BY <1>1, <1>3 DEF Batch
  <2> HIDE DEF f, t, L
  <2> QED
    BY <1>1, <2>1, SumInt
<1>10. TotalQty(L) = SumFunctionOnSet(Qty, L) /\ TotalQty(C) = SumFunctionOnSet(Qty, C)
  <2> HIDE DEF C, L
  <2> QED
    BY <1>1, <1>5, <1>6, TotalQtyIsSum
<1> HIDE DEF f, t, L, C
<1>11. TotalQty(C) = TotalQty(L) - TotalTaken(p, w, q)
  BY <1>6, <1>7, <1>8, <1>9, <1>10
<1> QED
  BY <1>11 DEF C, L

\* The lots that a transfer creates: fresh ids, the goods that left.
LEMMA ArrivingLots ==
  ASSUME LotsOK, NEW p \in Product, NEW from, NEW to \in Warehouse, NEW q \in Nat
  PROVE  LET A == Arriving(p, from, to, q) IN
         /\ A \in SUBSET Batch /\ IsFiniteSet(A)
         /\ Cardinality(A) = Cardinality(Touched(p, from, q))
         /\ \A n \in A : /\ n.id \in LastId + 1 .. LastId + Cardinality(A)
                         /\ n.prod = p /\ n.wh = to
         /\ \A n, o \in A : n.id = o.id => n = o
         /\ TotalQty(A) = TotalTaken(p, from, q)
<1> DEFINE A == Arriving(p, from, to, q)
           F == Fifo(p, from)
           T == Touched(p, from, q)
           Upto(b) == {c \in T : c.id <= b.id}
           New(b) == [id |-> LastId + Cardinality(Upto(b)), prod |-> p, wh |-> to,
                      no |-> Renumbered(b.no), qty |-> Taken(b, q)]
           r == [b \in T |-> New(b)]
<1>1. T \in SUBSET F /\ F \in SUBSET batches /\ F \in SUBSET Batch /\ IsFiniteSet(T) /\ IsFiniteSet(F)
  <2>1. T \in SUBSET F /\ F \in SUBSET batches
    BY DEF Touched, Fifo
  <2> QED
    BY <2>1, FS_Subset DEF LotsOK, LotsNumbered
<1>2. LastId \in Nat /\ Cardinality(T) \in Nat
  BY <1>1, FS_CardinalityType DEF LotsOK, LotsNumbered, LastId
<1>3. \A b \in T : b.id \in Nat /\ Taken(b, q) \in Nat
  <2>1. \A b \in T : b.id \in Nat
    BY <1>1 DEF Batch
  <2>2. \A b \in T : Taken(b, q) \in Nat
    BY <1>1, TakenOf
  <2> QED
    BY <2>1, <2>2
<1>4. \A b \in T : /\ Upto(b) \in SUBSET T
                   /\ IsFiniteSet(Upto(b))
                   /\ Cardinality(Upto(b)) \in 1 .. Cardinality(T)
  <2> SUFFICES ASSUME NEW b \in T
               PROVE  /\ Upto(b) \in SUBSET T
                      /\ IsFiniteSet(Upto(b))
                      /\ Cardinality(Upto(b)) \in 1 .. Cardinality(T)
    OBVIOUS
  <2>1. Upto(b) \in SUBSET T /\ b \in Upto(b)
    BY <1>3
  <2>2. IsFiniteSet(Upto(b)) /\ Cardinality(Upto(b)) <= Cardinality(T)
    BY <1>1, <2>1, FS_Subset
  <2>3. Cardinality(Upto(b)) \in Nat /\ Cardinality(Upto(b)) # 0
    BY <2>1, <2>2, FS_CardinalityType, FS_EmptySet
  <2> QED
    BY <1>2, <2>1, <2>2, <2>3
<1>5. \A b, c \in T : Cardinality(Upto(b)) = Cardinality(Upto(c)) => b = c
  <2>1. ASSUME NEW b \in T, NEW c \in T, b.id < c.id
        PROVE  Cardinality(Upto(b)) # Cardinality(Upto(c))
    <3>1. Upto(b) \in SUBSET Upto(c) /\ c \in Upto(c) /\ c \notin Upto(b)
      BY <1>3, <2>1
    <3> QED
      BY <1>4, <3>1, FS_Subset
  <2>2. \A b, c \in T : b.id = c.id => b = c
    BY <1>1 DEF LotsOK, LotsNumbered
  <2> HIDE DEF T
  <2> QED
    BY <1>3, <2>1, <2>2
<1>6. A = {r[b] : b \in T}
  BY DEF Arriving
<1>7. \A b \in T : /\ r[b].id = LastId + Cardinality(Upto(b))
                   /\ r[b].prod = p /\ r[b].wh = to /\ r[b].qty = Taken(b, q)
                   /\ r[b] \in Batch
  <2> SUFFICES ASSUME NEW b \in T
               PROVE  /\ r[b].id = LastId + Cardinality(Upto(b))
                      /\ r[b].prod = p /\ r[b].wh = to /\ r[b].qty = Taken(b, q)
                      /\ r[b] \in Batch
    OBVIOUS
  <2>1. r[b] = New(b)
    OBVIOUS
  <2>2. LastId + Cardinality(Upto(b)) \in Nat
    <3>1. Cardinality(Upto(b)) \in 1 .. Cardinality(T)
      BY <1>4
    <3> HIDE DEF Upto, T
    <3> QED
      BY <1>2, <3>1
  <2>3. Renumbered(b.no) \in Number \X Nat
    <3>1. b.no \in Number \X Nat
      BY <1>1 DEF Batch
    <3> QED
      BY <3>1 DEF Renumbered
  <2>4. Taken(b, q) \in Nat
    BY <1>3
  <2> HIDE DEF Upto, r, T
  <2> QED
    BY <2>1, <2>2, <2>3, <2>4 DEF Batch
<1>8. \A b, c \in T : r[b].id = r[c].id => b = c
  <2>1. \A b \in T : Cardinality(Upto(b)) \in Nat /\ r[b].id = LastId + Cardinality(Upto(b))
    <3> HIDE DEF Upto, T, r
    <3> QED
      BY <1>4, <1>7, <1>2
  <2> HIDE DEF T, r, Upto
  <2> QED
    BY <1>2, <1>5, <2>1
<1>9. r \in Surjection(T, A) /\ r \in Injection(T, A)
  <2> HIDE DEF A, r, T
  <2>0. DOMAIN r = T
    BY DEF r
  <2>1. r \in [T -> A]
    BY <1>6, <2>0 DEF r
  <2>2. \A b, c \in T : r[b] = r[c] => b = c
    BY <1>8
  <2>3. \A n \in A : \E b \in T : r[b] = n
    BY <1>6
  <2> QED
    BY <2>0, <2>1, <2>2, <2>3 DEF Surjection, Injection, IsInjective
<1>10. IsFiniteSet(A) /\ Cardinality(A) = Cardinality(T)
  BY <1>1, <1>9, FS_Surjection
<1>11. A \in SUBSET Batch
  BY <1>6, <1>7
<1>12. \A n \in A : n.id \in LastId + 1 .. LastId + Cardinality(T)
  <2>1. \A b \in T : LastId + Cardinality(Upto(b)) \in LastId + 1 .. LastId + Cardinality(T)
    BY <1>2, <1>4
  <2> HIDE DEF T, r, Upto
  <2> QED
    BY <1>6, <1>7, <2>1
<1>13. \A n \in A : n.prod = p /\ n.wh = to
  BY <1>6, <1>7
<1>14. \A n, o \in A : n.id = o.id => n = o
  <2> HIDE DEF T, r
  <2> QED
    BY <1>6, <1>8
<1>15. TotalQty(A) = TotalTaken(p, from, q)
  <2> DEFINE u == [b \in F |-> Taken(b, q)]
             E == F \ T
  <2>1. \A b \in F : u[b] = Taken(b, q) /\ u[b] \in Nat /\ u[b] \in Int
    <3>1. \A b \in F : Taken(b, q) \in Nat
      BY <1>1, TakenOf
    <3> QED
      BY <3>1
  <2>2. \A b \in E : u[b] = 0
    BY <2>1 DEF Touched
  <2>3. IsFiniteSet(E) /\ T \cap E = {} /\ T \cup E = F
    BY <1>1, FS_Subset
  <2>4. TotalTaken(p, from, q) = SumFunctionOnSet(u, F)
    BY DEF TotalTaken, SumFunction
  <2>5. \A b \in T : u[b] \in Int /\ Qty[r[b]] = u[b]
    <3> HIDE DEF T, F, r, u
    <3>1. \A b \in T : Qty[r[b]] = r[b].qty
      BY <1>7, QtyNat
    <3>2. \A b \in T : r[b].qty = Taken(b, q)
      BY <1>7
    <3> QED
      BY <1>1, <2>1, <3>1, <3>2
  <2>6. \A b, c \in T : r[b] = r[c] => b = c
    BY <1>8
  <2> HIDE DEF A, r, T, E, F, u
  <2>7. SumFunctionOnSet(u, T \cup E) = SumFunctionOnSet(u, T) + SumFunctionOnSet(u, E)
    <3>1. \A b \in T \cup E : u[b] \in Int
      BY <2>1, <2>3
    <3> QED
      BY <1>1, <2>3, <3>1, SumDisjoint
  <2>8. SumFunctionOnSet(u, T \cup E) = SumFunctionOnSet(u, F)
    BY <2>3, Zenon
  <2>9. SumFunctionOnSet(u, E) = 0
    BY <2>2, <2>3, SumZero
  <2>10. SumFunctionOnSet(u, T) \in Int
    BY <1>1, <2>5, SumInt
  <2>11. SumFunctionOnSet(Qty, {r[b] : b \in T}) = SumFunctionOnSet(u, T)
    BY <1>1, <2>5, <2>6, SumRenamed
  <2>12. SumFunctionOnSet(Qty, A) = SumFunctionOnSet(u, T)
    BY <1>6, <2>11, Zenon
  <2>13. TotalQty(A) = SumFunctionOnSet(Qty, A)
    BY <1>10, <1>11, TotalQtyIsSum
  <2> QED
    BY <2>4, <2>7, <2>8, <2>9, <2>10, <2>12, <2>13
<1> HIDE DEF A, T
<1>16. /\ A \in SUBSET Batch /\ IsFiniteSet(A)
       /\ Cardinality(A) = Cardinality(T)
       /\ \A n \in A : /\ n.id \in LastId + 1 .. LastId + Cardinality(A)
                       /\ n.prod = p /\ n.wh = to
       /\ \A n, o \in A : n.id = o.id => n = o
       /\ TotalQty(A) = TotalTaken(p, from, q)
  BY <1>10, <1>11, <1>12, <1>13, <1>14, <1>15
<1> QED
  BY <1>16 DEF A, T

-----------------------------------------------------------------------------
(* The lots after a step.                                                  *)

\* The next lots are as sound as the lots of the invariant.
NextLotsOK == batches' \subseteq Batch /\ LotsNumbered'

\* What a place holds in some lots.
Held(lots, p, w) == TotalQty(LotsAt(lots, p, w))

LEMMA HeldNow ==
  ASSUME LotsOK, NEW p, NEW w
  PROVE  Held(batches, p, w) = TotalQty(Lots(p, w)) /\ Held(batches, p, w) \in Nat
<1>1. LotsAt(batches, p, w) = Lots(p, w)
  BY DEF LotsAt, Lots
<1>2. Held(batches, p, w) = TotalQty(Lots(p, w))
  BY <1>1, Zenon DEF Held
<1> QED
  BY <1>2, QueueHoldsAll

LEMMA LotsAtPart ==
  ASSUME NEW lots \in SUBSET Batch, IsFiniteSet(lots), NEW p, NEW w
  PROVE  LotsAt(lots, p, w) \in SUBSET Batch /\ IsFiniteSet(LotsAt(lots, p, w))
BY FS_Subset DEF LotsAt

\* One more lot.
LEMMA HeldAdd ==
  ASSUME NEW lots \in SUBSET Batch, IsFiniteSet(lots), NEW n \in Batch, n \notin lots,
         NEW p, NEW w
  PROVE  Held(lots \cup {n}, p, w) =
           Held(lots, p, w) + (IF n.prod = p /\ n.wh = w THEN n.qty ELSE 0)
<1> DEFINE L == LotsAt(lots, p, w)
<1>1. L \in SUBSET Batch /\ IsFiniteSet(L) /\ n \notin L
  BY LotsAtPart DEF LotsAt
<1>2. TotalQty(L) \in Nat
  BY <1>1, TotalQtyIsSum
<1>3. CASE n.prod = p /\ n.wh = w
  <2>1. LotsAt(lots \cup {n}, p, w) = L \cup {n}
    BY <1>3 DEF LotsAt
  <2>2. TotalQty(L \cup {n}) = TotalQty(L) + n.qty
    BY <1>1, TotalQtyAdd
  <2>3. TotalQty(LotsAt(lots \cup {n}, p, w)) = TotalQty(L) + n.qty
    BY <2>1, <2>2, Zenon
  <2> QED
    BY <1>3, <2>3 DEF Held
<1>4. CASE ~ (n.prod = p /\ n.wh = w)
  <2>1. LotsAt(lots \cup {n}, p, w) = L
    BY <1>4 DEF LotsAt
  <2>2. TotalQty(LotsAt(lots \cup {n}, p, w)) = TotalQty(L)
    BY <2>1, Zenon
  <2> QED
    BY <1>2, <1>4, <2>2 DEF Held
<1> QED
  BY <1>3, <1>4

LEMMA HeldUnion ==
  ASSUME NEW A \in SUBSET Batch, IsFiniteSet(A), NEW B \in SUBSET Batch, IsFiniteSet(B),
         A \cap B = {}, NEW p, NEW w
  PROVE  Held(A \cup B, p, w) = Held(A, p, w) + Held(B, p, w)
<1>1. LotsAt(A \cup B, p, w) = LotsAt(A, p, w) \cup LotsAt(B, p, w)
  BY DEF LotsAt
<1>2. LotsAt(A, p, w) \cap LotsAt(B, p, w) = {}
  BY DEF LotsAt
<1>3. TotalQty(LotsAt(A, p, w) \cup LotsAt(B, p, w))
        = TotalQty(LotsAt(A, p, w)) + TotalQty(LotsAt(B, p, w))
  BY <1>2, LotsAtPart, TotalQtyDisjoint
<1> QED
  BY <1>1, <1>3, Zenon DEF Held

\* What the loop leaves, place by place.
LEMMA HeldConsumed ==
  ASSUME LotsOK, NEW p, NEW w, NEW q \in Nat, NEW p2, NEW w2
  PROVE  Held(Consumed(p, w, q), p2, w2) =
           Held(batches, p2, w2) - (IF p2 = p /\ w2 = w THEN TotalTaken(p, w, q) ELSE 0)
<1>1. Held(batches, p2, w2) \in Nat /\ Held(batches, p2, w2) = TotalQty(Lots(p2, w2))
  BY HeldNow
<1>2. CASE p2 = p /\ w2 = w
  BY <1>1, <1>2, ConsumedHere DEF Held
<1>3. CASE p2 # p \/ w2 # w
  <2>1. LotsAt(Consumed(p, w, q), p2, w2) = Lots(p2, w2)
    BY <1>3, ConsumedElsewhere
  <2>2. Held(Consumed(p, w, q), p2, w2) = Held(batches, p2, w2)
    BY <1>1, <2>1, Zenon DEF Held
  <2> QED
    BY <1>1, <1>3, <2>2
<1> QED
  BY <1>2, <1>3

LEMMA LastIdNat == LotsOK => LastId \in Nat
BY FS_CardinalityType DEF LotsOK, LotsNumbered, LastId

LEMMA AddStockLots ==
  ASSUME LotsOK, NEW p \in Product, NEW w \in Warehouse, NEW q \in Nat,
         NEW number \in Number, AddStock(p, w, q, number)
  PROVE  /\ NextLotsOK
         /\ \A p2, w2 : Held(batches', p2, w2) =
              Held(batches, p2, w2) + (IF p2 = p /\ w2 = w THEN q ELSE 0)
<1> DEFINE n == [id |-> LastId + 1, prod |-> p, wh |-> w, no |-> <<number, 0>>, qty |-> q]
<1>1. n \in Batch /\ n.id = LastId + 1 /\ n.prod = p /\ n.wh = w /\ n.qty = q
  BY LastIdNat DEF Batch
<1>2. batches' = batches \cup {n}
  BY DEF AddStock
<1>3. n \notin batches
  BY <1>1, LastIdNat DEF LotsOK, LotsNumbered
<1>4. batches \in SUBSET Batch /\ IsFiniteSet(batches)
  BY DEF LotsOK, LotsNumbered
<1> HIDE DEF n
<1>5. NextLotsOK
  <2>1. IsFiniteSet(batches') /\ Cardinality(batches') = LastId + 1
    BY <1>2, <1>3, <1>4, FS_AddElement DEF LastId
  <2>2. \A b \in batches' : b.id \in 1 .. LastId + 1
    BY <1>1, <1>2, LastIdNat DEF LotsOK, LotsNumbered
  <2>3. \A b, c \in batches' : b.id = c.id => b = c
    BY <1>1, <1>2, LastIdNat DEF LotsOK, LotsNumbered
  <2>4. batches' \subseteq Batch
    BY <1>1, <1>2, <1>4
  <2> QED
    BY <2>1, <2>2, <2>3, <2>4 DEF NextLotsOK, LotsNumbered, LastId
<1>6. ASSUME NEW p2, NEW w2
      PROVE  Held(batches', p2, w2) = Held(batches, p2, w2) + (IF p2 = p /\ w2 = w THEN q ELSE 0)
  <2>1. Held(batches \cup {n}, p2, w2) =
          Held(batches, p2, w2) + (IF n.prod = p2 /\ n.wh = w2 THEN n.qty ELSE 0)
    BY <1>1, <1>3, <1>4, HeldAdd
  <2> QED
    BY <1>1, <1>2, <2>1
<1> QED
  BY <1>5, <1>6

LEMMA AddToBatchLots ==
  ASSUME LotsOK, NEW p, NEW w, NEW q \in Nat, NEW b \in batches, AddToBatch(p, w, q, b)
  PROVE  /\ NextLotsOK
         /\ \A p2, w2 : Held(batches', p2, w2) =
              Held(batches, p2, w2) + (IF p2 = b.prod /\ w2 = b.wh THEN q ELSE 0)
<1> DEFINE n == [b EXCEPT !.qty = @ + q]
           R == batches \ {b}
<1>0. b \in Batch /\ b.qty \in Nat
  BY DEF LotsOK, Batch
<1>1. n \in Batch /\ n.id = b.id /\ n.prod = b.prod /\ n.wh = b.wh /\ n.qty = b.qty + q
  <2>1. n = [b EXCEPT !.qty = b.qty + q] /\ b.qty + q \in Nat
    BY <1>0
  <2> HIDE DEF n
  <2> QED
    BY <1>0, <2>1 DEF Batch
<1>2. batches' = R \cup {n}
  BY DEF AddToBatch
<1>3. n \notin R /\ b \notin R /\ batches = R \cup {b}
  BY <1>1 DEF LotsOK, LotsNumbered
<1>4. R \in SUBSET Batch /\ IsFiniteSet(R) /\ IsFiniteSet(batches)
  BY FS_RemoveElement DEF LotsOK, LotsNumbered
<1>5. Cardinality(R) = LastId - 1
  BY <1>4, FS_RemoveElement DEF LastId
<1> HIDE DEF n, R
<1>6. NextLotsOK
  <2>1. IsFiniteSet(batches') /\ Cardinality(batches') = LastId
    <3>1. IsFiniteSet(R \cup {n}) /\ Cardinality(R \cup {n}) = Cardinality(R) + 1
      BY <1>3, <1>4, FS_AddElement
    <3>2. IsFiniteSet(batches') /\ Cardinality(batches') = Cardinality(R) + 1
      BY <1>2, <3>1, Zenon
    <3>3. LastId \in Nat
      BY LastIdNat
    <3> QED
      BY <1>5, <3>2, <3>3
  <2>2. \A c \in batches' : c.id \in 1 .. LastId
    BY <1>1, <1>2 DEF LotsOK, LotsNumbered, R
  <2>3. \A c, d \in batches' : c.id = d.id => c = d
    BY <1>1, <1>2 DEF LotsOK, LotsNumbered, R
  <2>4. batches' \subseteq Batch
    BY <1>1, <1>2, <1>4
  <2> QED
    BY <2>1, <2>2, <2>3, <2>4 DEF NextLotsOK, LotsNumbered, LastId
<1>7. ASSUME NEW p2, NEW w2
      PROVE  Held(batches', p2, w2) =
               Held(batches, p2, w2) + (IF p2 = b.prod /\ w2 = b.wh THEN q ELSE 0)
  <2>1. Held(R \cup {n}, p2, w2) =
          Held(R, p2, w2) + (IF n.prod = p2 /\ n.wh = w2 THEN n.qty ELSE 0)
    BY <1>1, <1>3, <1>4, HeldAdd
  <2>2. Held(R \cup {b}, p2, w2) =
          Held(R, p2, w2) + (IF b.prod = p2 /\ b.wh = w2 THEN b.qty ELSE 0)
    BY <1>0, <1>3, <1>4, HeldAdd
  <2>3. Held(R, p2, w2) \in Nat
    BY <1>4, LotsAtPart, TotalQtyIsSum DEF Held
  <2>4. Held(batches', p2, w2) = Held(R \cup {n}, p2, w2)
    BY <1>2, Zenon
  <2>5. Held(batches, p2, w2) = Held(R \cup {b}, p2, w2)
    BY <1>3, Zenon
  <2>6. CASE p2 = b.prod /\ w2 = b.wh
    <3>1. Held(R \cup {n}, p2, w2) = Held(R, p2, w2) + (b.qty + q)
      BY <1>1, <2>1, <2>6
    <3>2. Held(R \cup {b}, p2, w2) = Held(R, p2, w2) + b.qty
      BY <2>2, <2>6
    <3> QED
      BY <1>0, <2>3, <2>4, <2>5, <2>6, <3>1, <3>2
  <2>7. CASE ~ (p2 = b.prod /\ w2 = b.wh)
    <3>1. Held(R \cup {n}, p2, w2) = Held(R, p2, w2) + 0
      BY <1>1, <2>1, <2>7
    <3>2. Held(R \cup {b}, p2, w2) = Held(R, p2, w2) + 0
      BY <2>2, <2>7
    <3> QED
      BY <2>3, <2>4, <2>5, <2>7, <3>1, <3>2
  <2> QED
    BY <2>6, <2>7
<1> QED
  BY <1>6, <1>7

LEMMA ConsumedStep ==
  ASSUME LotsOK, NEW p, NEW w, NEW q \in Nat, batches' = Consumed(p, w, q)
  PROVE  NextLotsOK
BY ConsumedLots DEF NextLotsOK, LotsNumbered, LastId

\* What a place gains when t units go from one warehouse to another.
Gain(p, from, to, t, p2, w2) ==
  IF p2 = p /\ w2 = from THEN - t ELSE IF p2 = p /\ w2 = to THEN t ELSE 0

LEMMA TransferLots ==
  ASSUME LotsOK, NEW p \in Product, NEW from, NEW to \in Warehouse, NEW q \in Nat,
         TransferStock(p, from, to, q)
  PROVE  /\ NextLotsOK
         /\ \A p2, w2 : Held(batches', p2, w2) =
              Held(batches, p2, w2) + Gain(p, from, to, TotalTaken(p, from, q), p2, w2)
<1> DEFINE C == Consumed(p, from, q)
           A == Arriving(p, from, to, q)
           t == TotalTaken(p, from, q)
<1>1. batches' = C \cup A /\ from # to
  BY DEF TransferStock
<1>2. /\ C \in SUBSET Batch /\ IsFiniteSet(C) /\ Cardinality(C) = LastId
      /\ \A n \in C : n.id \in 1 .. LastId
      /\ \A n, o \in C : n.id = o.id => n = o
  BY ConsumedLots
<1>3. /\ A \in SUBSET Batch /\ IsFiniteSet(A) /\ Cardinality(A) \in Nat
      /\ \A n \in A : n.id \in LastId + 1 .. LastId + Cardinality(A) /\ n.prod = p /\ n.wh = to
      /\ \A n, o \in A : n.id = o.id => n = o
      /\ TotalQty(A) = t
  <2>1. /\ A \in SUBSET Batch /\ IsFiniteSet(A)
        /\ \A n \in A : n.id \in LastId + 1 .. LastId + Cardinality(A) /\ n.prod = p /\ n.wh = to
        /\ \A n, o \in A : n.id = o.id => n = o
        /\ TotalQty(A) = t
    BY ArrivingLots
  <2> QED
    BY <2>1, FS_CardinalityType
<1>4. LastId \in Nat /\ t \in Nat
  <2>1. TotalQty(Lots(p, from)) \in Nat
    BY QueueHoldsAll
  <2> QED
    BY <2>1, LastIdNat, LoopTakes
<1> HIDE DEF C, A, t
<1>5. C \cap A = {}
  BY <1>2, <1>3, <1>4
<1>6. NextLotsOK
  <2>1. IsFiniteSet(C \cup A) /\ Cardinality(C \cup A) = LastId + Cardinality(A)
    <3>1. /\ IsFiniteSet(C \cup A)
          /\ Cardinality(C \cup A) = Cardinality(C) + Cardinality(A) - Cardinality(C \cap A)
      BY <1>2, <1>3, FS_Union
    <3>2. Cardinality(C \cap A) = 0
      BY <1>5, FS_EmptySet, Zenon
    <3> QED
      BY <1>2, <1>3, <1>4, <3>1, <3>2
  <2>2. IsFiniteSet(batches') /\ Cardinality(batches') = LastId + Cardinality(A)
    BY <1>1, <2>1, Zenon
  <2>3. \A n \in batches' : n.id \in 1 .. LastId + Cardinality(A)
    BY <1>1, <1>2, <1>3, <1>4
  <2>4. \A n, o \in batches' : n.id = o.id => n = o
    BY <1>1, <1>2, <1>3, <1>4
  <2>5. batches' \subseteq Batch
    BY <1>1, <1>2, <1>3
  <2> QED
    BY <2>2, <2>3, <2>4, <2>5 DEF NextLotsOK, LotsNumbered, LastId
<1>7. ASSUME NEW p2, NEW w2
      PROVE  Held(batches', p2, w2) =
               Held(batches, p2, w2) + Gain(p, from, to, t, p2, w2)
  <2>1. Held(C \cup A, p2, w2) = Held(C, p2, w2) + Held(A, p2, w2)
    BY <1>2, <1>3, <1>5, HeldUnion
  <2>2. Held(batches', p2, w2) = Held(C \cup A, p2, w2)
    BY <1>1, Zenon
  <2>3. Held(C, p2, w2) = Held(batches, p2, w2) - (IF p2 = p /\ w2 = from THEN t ELSE 0)
    BY HeldConsumed DEF C, t
  <2>4. Held(A, p2, w2) = IF p2 = p /\ w2 = to THEN t ELSE 0
    <3>1. CASE p2 = p /\ w2 = to
      <4>1. LotsAt(A, p2, w2) = A
        BY <1>3, <3>1 DEF LotsAt
      <4>2. Held(A, p2, w2) = TotalQty(A)
        BY <4>1, Zenon DEF Held
      <4> QED
        BY <1>3, <3>1, <4>2
    <3>2. CASE ~ (p2 = p /\ w2 = to)
      <4>1. LotsAt(A, p2, w2) = {}
        BY <1>3, <3>2 DEF LotsAt
      <4>2. Held(A, p2, w2) = 0
        BY <4>1, TotalQtyEmpty, Zenon DEF Held
      <4> QED
        BY <3>2, <4>2
    <3> QED
      BY <3>1, <3>2
  <2>5. Held(batches, p2, w2) \in Nat
    BY HeldNow
  <2> QED
    BY <1>1, <1>4, <2>1, <2>2, <2>3, <2>4, <2>5 DEF Gain
<1> QED
  BY <1>6, <1>7 DEF t

-----------------------------------------------------------------------------
(* Totals of a product over its warehouses.                                *)

Overall(f, p) == SumFunction([w \in Warehouse |-> f[<<p, w>>]])

LEMMA OverallInt ==
  ASSUME NEW f \in [Place -> Int], NEW p \in Product
  PROVE  Overall(f, p) \in Int
<1> DEFINE g == [w \in Warehouse |-> f[<<p, w>>]]
<1>1. \A w \in Warehouse : g[w] \in Int
  BY DEF Place
<1>2. Overall(f, p) = SumFunctionOnSet(g, Warehouse)
  BY DEF Overall, SumFunction
<1>3. SumFunctionOnSet(g, Warehouse) \in Int
  <2> HIDE DEF g
  <2> QED
    BY <1>1, InventoryAssumption, SumInt
<1> QED
  BY <1>2, <1>3

\* A view after a change by d at one place.
Shifted(f, p, w, d) == [f EXCEPT ![<<p, w>>] = f[<<p, w>>] + d]

LEMMA OverallChanged ==
  ASSUME NEW f \in [Place -> Int], NEW p \in Product, NEW w \in Warehouse, NEW d \in Int,
         NEW p2 \in Product
  PROVE  /\ Shifted(f, p, w, d) \in [Place -> Int]
         /\ Overall(Shifted(f, p, w, d), p2) = Overall(f, p2) + (IF p2 = p THEN d ELSE 0)
<1> DEFINE g == Shifted(f, p, w, d)
           F == [v \in Warehouse |-> f[<<p2, v>>]]
           G == [v \in Warehouse |-> g[<<p2, v>>]]
<1>1. f[<<p, w>>] \in Int /\ g \in [Place -> Int]
  BY DEF Place, Shifted
<1>2. \A v \in Warehouse : F[v] \in Int /\ G[v] \in Int
  BY <1>1 DEF Place
<1>3. Overall(f, p2) = SumFunctionOnSet(F, Warehouse) /\ Overall(g, p2) = SumFunctionOnSet(G, Warehouse)
  BY DEF Overall, SumFunction
<1>4. SumFunctionOnSet(F, Warehouse) \in Int
  <2> HIDE DEF F
  <2> QED
    BY <1>2, InventoryAssumption, SumInt
<1>5. CASE p2 = p
  <2>1. \A v \in Warehouse \ {w} : F[v] = G[v]
    BY <1>5 DEF Place, Shifted
  <2>2. G[w] - F[w] = d
    BY <1>1, <1>5 DEF Place, Shifted
  <2> HIDE DEF F, G
  <2>3. SumFunctionOnSet(G, Warehouse) = SumFunctionOnSet(F, Warehouse) + (G[w] - F[w])
    BY <1>2, <2>1, InventoryAssumption, SumChanged
  <2> QED
    BY <1>1, <1>3, <1>4, <1>5, <2>2, <2>3
<1>6. CASE p2 # p
  <2>1. \A v \in Warehouse : F[v] = G[v]
    BY <1>6 DEF Place, Shifted
  <2> HIDE DEF F, G
  <2>2. SumFunctionOnSet(G, Warehouse) = SumFunctionOnSet(F, Warehouse)
    BY <2>1, InventoryAssumption, SumSame
  <2> QED
    BY <1>1, <1>3, <1>4, <1>6, <2>2
<1> QED
  BY <1>5, <1>6

-----------------------------------------------------------------------------
(* Every step preserves the invariant.                                     *)

\* The movements of a place change by at least as much as its stock row.
LEMMA NeverUnderstateStep ==
  ASSUME InventoryIInv, NEW p \in Product, NEW w \in Warehouse, NEW d \in Int, NEW m \in Int,
         d <= m,
         stock' = Shifted(stock, p, w, d),
         moved' = Shifted(moved, p, w, m)
  PROVE  MovementsNeverUnderstate'
<1>1. stock \in [Place -> Int] /\ moved \in [Place -> Int]
  BY DEF InventoryIInv, InventoryTypeOK
<1>2. SUFFICES ASSUME NEW r \in Product
               PROVE  Overall(stock', r) <= Overall(moved', r)
  BY DEF MovementsNeverUnderstate, Overall
<1>3. Overall(stock, r) <= Overall(moved, r)
  BY DEF InventoryIInv, MovementsNeverUnderstate, Overall
<1>4. Overall(stock', r) = Overall(stock, r) + (IF r = p THEN d ELSE 0)
  BY <1>1, OverallChanged
<1>5. Overall(moved', r) = Overall(moved, r) + (IF r = p THEN m ELSE 0)
  BY <1>1, OverallChanged
<1>6. Overall(stock, r) \in Int /\ Overall(moved, r) \in Int
  BY <1>1, OverallInt
<1> QED
  BY <1>3, <1>4, <1>5, <1>6

\* What the invariant says of the lots, place by place.
LEMMA HeldInv ==
  ASSUME InventoryIInv
  PROVE  /\ LotsOK
         /\ \A p \in Product, w \in Warehouse :
              /\ Held(batches, p, w) \in Nat
              /\ stock[<<p, w>>] \in Nat /\ moved[<<p, w>>] \in Int
              /\ p \notin misplaced => Held(batches, p, w) <= stock[<<p, w>>]
              /\ p \notin corrected \cup misplaced =>
                   stock[<<p, w>>] = moved[<<p, w>>] /\ stock[<<p, w>>] = Held(batches, p, w)
<1>1. LotsOK
  BY DEF InventoryIInv, InventoryTypeOK, LotsOK
<1>2. ASSUME NEW p \in Product, NEW w \in Warehouse
      PROVE  Held(batches, p, w) \in Nat /\ Held(batches, p, w) = TotalQty(Lots(p, w))
  BY <1>1, HeldNow
<1>3. \A p \in Product, w \in Warehouse : stock[<<p, w>>] \in Nat /\ moved[<<p, w>>] \in Int
  BY DEF InventoryIInv, InventoryTypeOK, Place
<1>4. \A p \in Product, w \in Warehouse :
        p \notin misplaced => Held(batches, p, w) <= stock[<<p, w>>]
  BY <1>2 DEF InventoryIInv, BatchesWithinStock
<1>5. \A p \in Product, w \in Warehouse : p \notin corrected \cup misplaced =>
        stock[<<p, w>>] = moved[<<p, w>>] /\ stock[<<p, w>>] = Held(batches, p, w)
  BY <1>2 DEF InventoryIInv, MovementsExplainStock
<1> QED
  BY <1>1, <1>2, <1>3, <1>4, <1>5

\* The same, after the step.
LEMMA HeldInvNext ==
  /\ (\A p \in Product \ misplaced', w \in Warehouse :
         Held(batches', p, w) <= stock'[<<p, w>>]) => BatchesWithinStock'
  /\ (\A p \in Product \ (corrected' \cup misplaced'), w \in Warehouse :
         /\ stock'[<<p, w>>] = moved'[<<p, w>>]
         /\ stock'[<<p, w>>] = Held(batches', p, w)) => MovementsExplainStock'
BY DEF BatchesWithinStock, MovementsExplainStock, Held, LotsAt, Lots

LEMMA AddStockStep ==
  ASSUME InventoryIInv, NEW p \in Product, NEW w \in Warehouse, NEW q \in Nat,
         NEW number \in Number, AddStock(p, w, q, number)
  PROVE  InventoryIInv'
<1>1. LotsOK
  BY HeldInv
<1>2. stock \in [Place -> Nat] /\ moved \in [Place -> Int]
  BY DEF InventoryIInv, InventoryTypeOK
<1>3. /\ stock' = Shifted(stock, p, w, q)
      /\ moved' = Shifted(moved, p, w, q)
      /\ corrected' = corrected /\ misplaced' = misplaced
  BY DEF AddStock, Shifted
<1>4. /\ NextLotsOK
      /\ \A p2, w2 : Held(batches', p2, w2) =
           Held(batches, p2, w2) + (IF p2 = p /\ w2 = w THEN q ELSE 0)
  BY <1>1, AddStockLots
<1>5. \A p2 \in Product, w2 \in Warehouse :
        /\ stock'[<<p2, w2>>] = stock[<<p2, w2>>] + (IF p2 = p /\ w2 = w THEN q ELSE 0)
        /\ moved'[<<p2, w2>>] = moved[<<p2, w2>>] + (IF p2 = p /\ w2 = w THEN q ELSE 0)
  BY <1>2, <1>3 DEF Place, Shifted
<1>6. InventoryTypeOK'
  BY <1>2, <1>3, <1>4 DEF Shifted, NextLotsOK, InventoryIInv, InventoryTypeOK, Place
<1>7. BatchesWithinStock'
  BY <1>3, <1>4, <1>5, HeldInv, HeldInvNext
<1>8. MovementsExplainStock'
  BY <1>3, <1>4, <1>5, HeldInv, HeldInvNext
<1>9. MovementsNeverUnderstate'
  <2>1. q \in Int /\ q <= q
    OBVIOUS
  <2> QED
    BY <1>3, <2>1, NeverUnderstateStep
<1> QED
  BY <1>4, <1>6, <1>7, <1>8, <1>9 DEF InventoryIInv, NextLotsOK

LEMMA AddToBatchStep ==
  ASSUME InventoryIInv, NEW p \in Product, NEW w \in Warehouse, NEW q \in Nat,
         NEW b \in batches, AddToBatch(p, w, q, b)
  PROVE  InventoryIInv'
<1>1. LotsOK
  BY HeldInv
<1>2. stock \in [Place -> Nat] /\ moved \in [Place -> Int] /\ b.prod \in Product
  BY DEF InventoryIInv, InventoryTypeOK, Batch
<1>3. /\ stock' = Shifted(stock, p, w, q)
      /\ moved' = Shifted(moved, p, w, q)
      /\ corrected' = corrected
      /\ misplaced' = misplaced \cup (IF b.prod = p /\ b.wh = w THEN {} ELSE {p, b.prod})
  BY DEF AddToBatch, Shifted
<1>4. /\ NextLotsOK
      /\ \A p2, w2 : Held(batches', p2, w2) =
           Held(batches, p2, w2) + (IF p2 = b.prod /\ w2 = b.wh THEN q ELSE 0)
  BY <1>1, AddToBatchLots
<1>5. \A p2 \in Product, w2 \in Warehouse :
        /\ stock'[<<p2, w2>>] = stock[<<p2, w2>>] + (IF p2 = p /\ w2 = w THEN q ELSE 0)
        /\ moved'[<<p2, w2>>] = moved[<<p2, w2>>] + (IF p2 = p /\ w2 = w THEN q ELSE 0)
  BY <1>2, <1>3 DEF Place, Shifted
<1>6. InventoryTypeOK'
  <2>1. stock' \in [Place -> Nat] /\ moved' \in [Place -> Int]
    BY <1>2, <1>3 DEF Shifted, Place
  <2> QED
    BY <1>2, <1>3, <1>4, <2>1 DEF NextLotsOK, InventoryIInv, InventoryTypeOK
\* A product that is not misplaced after the step got its goods on its own lot.
<1>7. \A p2 \in Product \ misplaced', w2 \in Warehouse :
        /\ p2 \notin misplaced
        /\ (p2 = b.prod /\ w2 = b.wh) <=> (p2 = p /\ w2 = w)
  BY <1>3
<1>8. BatchesWithinStock'
  BY <1>4, <1>5, <1>7, HeldInv, HeldInvNext
<1>9. MovementsExplainStock'
  BY <1>3, <1>4, <1>5, <1>7, HeldInv, HeldInvNext
<1>10. MovementsNeverUnderstate'
  <2>1. q \in Int /\ q <= q
    OBVIOUS
  <2> QED
    BY <1>3, <2>1, NeverUnderstateStep
<1> QED
  BY <1>4, <1>6, <1>8, <1>9, <1>10 DEF InventoryIInv, NextLotsOK

\* The loop never takes more than it is asked for; where the lots are within the
\* stock row, what is left is within what is left of the row.
LEMMA LoopWithin ==
  ASSUME InventoryIInv, NEW p \in Product, NEW w \in Warehouse, NEW q \in Nat
  PROVE  /\ TotalTaken(p, w, q) \in Nat /\ TotalTaken(p, w, q) <= q
         /\ q <= Held(batches, p, w) => TotalTaken(p, w, q) = q
         /\ q > Held(batches, p, w) => TotalTaken(p, w, q) = Held(batches, p, w)
<1>1. Held(batches, p, w) = TotalQty(Lots(p, w)) /\ Held(batches, p, w) \in Nat
  BY HeldInv, HeldNow
<1>2. TotalTaken(p, w, q) = IF q <= TotalQty(Lots(p, w)) THEN q ELSE TotalQty(Lots(p, w))
  BY HeldInv, LoopTakes
<1> QED
  BY <1>1, <1>2

LEMMA DeductStockStep ==
  ASSUME InventoryIInv, NEW p \in Product, NEW w \in Warehouse, NEW q \in Nat,
         DeductStock(p, w, q)
  PROVE  InventoryIInv'
<1> DEFINE t == TotalTaken(p, w, q)
<1>1. LotsOK
  BY HeldInv
<1>2. stock \in [Place -> Nat] /\ moved \in [Place -> Int] /\ stock[<<p, w>>] >= q
  BY DEF InventoryIInv, InventoryTypeOK, DeductStock
<1>3. /\ t \in Nat /\ t <= q
      /\ q <= Held(batches, p, w) => t = q
      /\ q > Held(batches, p, w) => t = Held(batches, p, w)
  BY LoopWithin
<1>4. /\ stock' = Shifted(stock, p, w, -q)
      /\ moved' = Shifted(moved, p, w, -t)
      /\ corrected' = corrected /\ misplaced' = misplaced
      /\ batches' = Consumed(p, w, q)
  <2>1. stock[<<p, w>>] - q = stock[<<p, w>>] + -q /\ moved[<<p, w>>] - t = moved[<<p, w>>] + -t
    BY <1>2, <1>3 DEF Place
  <2>2. /\ stock' = [stock EXCEPT ![<<p, w>>] = stock[<<p, w>>] - q]
        /\ moved' = [moved EXCEPT ![<<p, w>>] = moved[<<p, w>>] - t]
        /\ corrected' = corrected /\ misplaced' = misplaced
        /\ batches' = Consumed(p, w, q)
    BY DEF DeductStock
  <2> QED
    BY <2>1, <2>2 DEF Shifted
<1> HIDE DEF t
<1>5. NextLotsOK
  BY <1>1, <1>4, ConsumedStep
<1>6. \A p2 \in Product, w2 \in Warehouse :
        Held(batches', p2, w2) = Held(batches, p2, w2) - (IF p2 = p /\ w2 = w THEN t ELSE 0)
  BY <1>1, <1>4, HeldConsumed DEF t
<1>7. \A p2 \in Product, w2 \in Warehouse :
        /\ stock'[<<p2, w2>>] = stock[<<p2, w2>>] + (IF p2 = p /\ w2 = w THEN -q ELSE 0)
        /\ moved'[<<p2, w2>>] = moved[<<p2, w2>>] + (IF p2 = p /\ w2 = w THEN -t ELSE 0)
  BY <1>2, <1>3, <1>4 DEF Place, Shifted
<1>8. InventoryTypeOK'
  <2>1. stock' \in [Place -> Nat] /\ moved' \in [Place -> Int]
    BY <1>2, <1>3, <1>4 DEF Shifted, Place
  <2> QED
    BY <1>4, <1>5, <2>1 DEF NextLotsOK, InventoryIInv, InventoryTypeOK
<1>9. BatchesWithinStock'
  <2>1. ASSUME NEW p2 \in Product \ misplaced', NEW w2 \in Warehouse
        PROVE  Held(batches', p2, w2) <= stock'[<<p2, w2>>]
    <3>1. /\ Held(batches, p2, w2) \in Nat /\ stock[<<p2, w2>>] \in Nat
          /\ Held(batches, p2, w2) <= stock[<<p2, w2>>]
      BY <1>4, HeldInv
    <3>2. CASE p2 = p /\ w2 = w
      <4>1. Held(batches', p2, w2) = Held(batches, p2, w2) - t
        BY <1>6, <3>2
      <4>2. stock'[<<p2, w2>>] = stock[<<p2, w2>>] + -q
        BY <1>7, <3>2
      <4> QED
        BY <1>2, <1>3, <3>1, <3>2, <4>1, <4>2
    <3>3. CASE ~ (p2 = p /\ w2 = w)
      BY <1>6, <1>7, <3>1, <3>3
    <3> QED
      BY <3>2, <3>3
  <2> QED
    BY <2>1, HeldInvNext
<1>10. MovementsExplainStock'
  <2>1. ASSUME NEW p2 \in Product \ (corrected' \cup misplaced'), NEW w2 \in Warehouse
        PROVE  /\ stock'[<<p2, w2>>] = moved'[<<p2, w2>>]
               /\ stock'[<<p2, w2>>] = Held(batches', p2, w2)
    <3>1. /\ Held(batches, p2, w2) \in Nat /\ stock[<<p2, w2>>] \in Nat
          /\ stock[<<p2, w2>>] = Held(batches, p2, w2)
          /\ moved[<<p2, w2>>] = Held(batches, p2, w2)
      BY <1>4, HeldInv
    <3>2. CASE p2 = p /\ w2 = w
      <4>1. Held(batches', p2, w2) = Held(batches, p2, w2) - t
        BY <1>6, <3>2
      <4>2. /\ stock'[<<p2, w2>>] = stock[<<p2, w2>>] + -q
            /\ moved'[<<p2, w2>>] = moved[<<p2, w2>>] + -t
        BY <1>7, <3>2
      <4> QED
        BY <1>2, <1>3, <3>1, <3>2, <4>1, <4>2
    <3>3. CASE ~ (p2 = p /\ w2 = w)
      BY <1>6, <1>7, <3>1, <3>3
    <3> QED
      BY <3>2, <3>3
  <2> QED
    BY <2>1, HeldInvNext
<1>11. MovementsNeverUnderstate'
  <2>1. -q \in Int /\ -t \in Int /\ -q <= -t
    BY <1>3
  <2> QED
    BY <1>4, <2>1, NeverUnderstateStep
<1> QED
  BY <1>5, <1>8, <1>9, <1>10, <1>11 DEF InventoryIInv, NextLotsOK

LEMMA TransferStockStep ==
  ASSUME InventoryIInv, NEW p \in Product, NEW from \in Warehouse, NEW to \in Warehouse,
         NEW q \in Nat, TransferStock(p, from, to, q)
  PROVE  InventoryIInv'
<1> DEFINE t == TotalTaken(p, from, q)
           s1 == Shifted(stock, p, from, -q)
           m1 == Shifted(moved, p, from, -t)
<1>1. LotsOK
  BY HeldInv
<1>2. /\ stock \in [Place -> Nat] /\ stock \in [Place -> Int] /\ moved \in [Place -> Int]
      /\ stock[<<p, from>>] >= q /\ from # to
  BY DEF InventoryIInv, InventoryTypeOK, TransferStock
<1>3. /\ t \in Nat /\ t <= q
      /\ q <= Held(batches, p, from) => t = q
      /\ q > Held(batches, p, from) => t = Held(batches, p, from)
  BY LoopWithin
<1>4. /\ stock' = Shifted(s1, p, to, q)
      /\ moved' = Shifted(m1, p, to, t)
      /\ corrected' = corrected /\ misplaced' = misplaced
  <2>1. /\ stock' = [stock EXCEPT ![<<p, from>>] = stock[<<p, from>>] - q,
                                 ![<<p, to>>] = stock[<<p, to>>] + q]
        /\ moved' = [moved EXCEPT ![<<p, from>>] = moved[<<p, from>>] - t,
                                 ![<<p, to>>] = moved[<<p, to>>] + t]
        /\ corrected' = corrected /\ misplaced' = misplaced
    BY <1>2 DEF TransferStock, TransferMovements
  <2>2. stock[<<p, from>>] - q = stock[<<p, from>>] + -q /\ moved[<<p, from>>] - t = moved[<<p, from>>] + -t
    BY <1>2, <1>3 DEF Place
  <2>3. s1[<<p, to>>] = stock[<<p, to>>] /\ m1[<<p, to>>] = moved[<<p, to>>]
    BY <1>2 DEF Shifted, Place
  <2> HIDE DEF t
  <2>4. stock' = Shifted(s1, p, to, q)
    BY <2>1, <2>2, <2>3 DEF Shifted
  <2>5. moved' = Shifted(m1, p, to, t)
    BY <2>1, <2>2, <2>3 DEF Shifted
  <2> QED
    BY <2>1, <2>4, <2>5
<1>5. /\ NextLotsOK
      /\ \A p2 \in Product, w2 \in Warehouse : Held(batches', p2, w2) =
           Held(batches, p2, w2) + Gain(p, from, to, t, p2, w2)
  BY <1>1, TransferLots
<1> HIDE DEF t
<1>6. \A p2 \in Product, w2 \in Warehouse :
        /\ stock'[<<p2, w2>>] = stock[<<p2, w2>>]
             + (IF p2 = p /\ w2 = from THEN - q ELSE IF p2 = p /\ w2 = to THEN q ELSE 0)
        /\ moved'[<<p2, w2>>] = moved[<<p2, w2>>]
             + (IF p2 = p /\ w2 = from THEN - t ELSE IF p2 = p /\ w2 = to THEN t ELSE 0)
  BY <1>2, <1>3, <1>4 DEF Place, Shifted
<1>7. InventoryTypeOK'
  <2>1. stock' \in [Place -> Nat] /\ moved' \in [Place -> Int]
    BY <1>2, <1>3, <1>4 DEF Shifted, Place
  <2> QED
    BY <1>4, <1>5, <2>1 DEF NextLotsOK, InventoryIInv, InventoryTypeOK
<1>8. BatchesWithinStock'
  <2>1. ASSUME NEW p2 \in Product \ misplaced', NEW w2 \in Warehouse
        PROVE  Held(batches', p2, w2) <= stock'[<<p2, w2>>]
    <3>1. /\ Held(batches, p2, w2) \in Nat /\ stock[<<p2, w2>>] \in Nat
          /\ Held(batches, p2, w2) <= stock[<<p2, w2>>]
      BY <1>4, HeldInv
    <3>2. CASE p2 = p /\ w2 = from
      <4>1. Held(batches', p2, w2) = Held(batches, p2, w2) + -t
        BY <1>5, <3>2 DEF Gain
      <4>2. stock'[<<p2, w2>>] = stock[<<p2, w2>>] + -q
        BY <1>6, <3>2
      <4> QED
        BY <1>2, <1>3, <3>1, <3>2, <4>1, <4>2
    <3>3. CASE p2 = p /\ w2 = to
      <4>1. Held(batches', p2, w2) = Held(batches, p2, w2) + t
        BY <1>2, <1>5, <3>3 DEF Gain
      <4>2. stock'[<<p2, w2>>] = stock[<<p2, w2>>] + q
        BY <1>2, <1>6, <3>3
      <4> QED
        BY <1>3, <3>1, <4>1, <4>2
    <3>4. CASE ~ (p2 = p /\ w2 = from) /\ ~ (p2 = p /\ w2 = to)
      BY <1>5, <1>6, <3>1, <3>4 DEF Gain
    <3> QED
      BY <3>2, <3>3, <3>4
  <2> QED
    BY <2>1, HeldInvNext
<1>9. MovementsExplainStock'
  <2>1. ASSUME NEW p2 \in Product \ (corrected' \cup misplaced'), NEW w2 \in Warehouse
        PROVE  /\ stock'[<<p2, w2>>] = moved'[<<p2, w2>>]
               /\ stock'[<<p2, w2>>] = Held(batches', p2, w2)
    <3>1. \A v \in Warehouse :
            /\ Held(batches, p2, v) \in Nat /\ stock[<<p2, v>>] \in Nat
            /\ stock[<<p2, v>>] = Held(batches, p2, v)
            /\ moved[<<p2, v>>] = Held(batches, p2, v)
      BY <1>4, HeldInv
    <3>2. p2 = p => t = q
      BY <1>2, <1>3, <3>1
    <3>3. CASE p2 = p /\ w2 = from
      <4>1. Held(batches', p2, w2) = Held(batches, p2, w2) + -t
        BY <1>5, <3>3 DEF Gain
      <4>2. /\ stock'[<<p2, w2>>] = stock[<<p2, w2>>] + -q
            /\ moved'[<<p2, w2>>] = moved[<<p2, w2>>] + -t
        BY <1>6, <3>3
      <4> QED
        BY <1>3, <3>1, <3>2, <3>3, <4>1, <4>2
    <3>4. CASE p2 = p /\ w2 = to
      <4>1. Held(batches', p2, w2) = Held(batches, p2, w2) + t
        BY <1>2, <1>5, <3>4 DEF Gain
      <4>2. /\ stock'[<<p2, w2>>] = stock[<<p2, w2>>] + q
            /\ moved'[<<p2, w2>>] = moved[<<p2, w2>>] + t
        BY <1>2, <1>6, <3>4
      <4> QED
        BY <1>3, <3>1, <3>2, <3>4, <4>1, <4>2
    <3>5. CASE ~ (p2 = p /\ w2 = from) /\ ~ (p2 = p /\ w2 = to)
      BY <1>5, <1>6, <3>1, <3>5 DEF Gain
    <3> QED
      BY <3>3, <3>4, <3>5
  <2> QED
    BY <2>1, HeldInvNext
<1>10. MovementsNeverUnderstate'
  <2>1. SUFFICES ASSUME NEW r \in Product
                 PROVE  Overall(stock', r) <= Overall(moved', r)
    BY DEF MovementsNeverUnderstate, Overall
  <2>2. Overall(stock, r) <= Overall(moved, r)
    BY DEF InventoryIInv, MovementsNeverUnderstate, Overall
  <2>3. -q \in Int /\ -t \in Int /\ q \in Int /\ t \in Int
    BY <1>3
  <2> HIDE DEF s1, m1
  <2>4. s1 \in [Place -> Int] /\ Overall(s1, r) = Overall(stock, r) + (IF r = p THEN -q ELSE 0)
    BY <1>2, <2>3, OverallChanged DEF s1
  <2>5. m1 \in [Place -> Int] /\ Overall(m1, r) = Overall(moved, r) + (IF r = p THEN -t ELSE 0)
    BY <1>2, <2>3, OverallChanged DEF m1
  <2>6. Overall(stock', r) = Overall(s1, r) + (IF r = p THEN q ELSE 0)
    BY <1>4, <2>3, <2>4, OverallChanged
  <2>7. Overall(moved', r) = Overall(m1, r) + (IF r = p THEN t ELSE 0)
    BY <1>4, <2>3, <2>5, OverallChanged
  <2>8. Overall(stock, r) \in Int /\ Overall(moved, r) \in Int
    BY <1>2, OverallInt
  <2> QED
    BY <2>2, <2>3, <2>4, <2>5, <2>6, <2>7, <2>8
<1> QED
  BY <1>5, <1>7, <1>8, <1>9, <1>10 DEF InventoryIInv, NextLotsOK

LEMMA AdjustStockStep ==
  ASSUME InventoryIInv, NEW p \in Product, NEW w \in Warehouse, NEW new \in Nat,
         AdjustStock(p, w, new)
  PROVE  InventoryIInv'
<1> DEFINE delta == new - stock[<<p, w>>]
           q == IF delta < 0 THEN -delta ELSE 0
           t == IF delta < 0 THEN TotalTaken(p, w, q) ELSE 0
<1>1. LotsOK
  BY HeldInv
<1>2. /\ stock \in [Place -> Nat] /\ stock[<<p, w>>] \in Nat
      /\ moved \in [Place -> Int]
  BY DEF InventoryIInv, InventoryTypeOK, Place
<1>3. /\ delta \in Int /\ delta # 0 /\ q \in Nat /\ q <= stock[<<p, w>>]
      /\ delta < 0 => delta = -q
  BY <1>2 DEF AdjustStock
<1>4. /\ stock' = Shifted(stock, p, w, delta)
      /\ moved' = Shifted(moved, p, w, delta)
      /\ corrected' = corrected \cup (IF delta > 0 THEN {p} ELSE {})
      /\ misplaced' = misplaced
      /\ batches' = IF delta < 0 THEN Consumed(p, w, q) ELSE batches
  <2>1. stock[<<p, w>>] + delta = new
    BY <1>2
  <2>2. /\ stock' = [stock EXCEPT ![<<p, w>>] = new]
        /\ moved' = [moved EXCEPT ![<<p, w>>] = moved[<<p, w>>] + delta]
        /\ corrected' = corrected \cup (IF delta > 0 THEN {p} ELSE {})
        /\ misplaced' = misplaced
        /\ batches' = IF delta < 0 THEN Consumed(p, w, -delta) ELSE batches
    BY DEF AdjustStock, AdjustMovement, AdjustedBatches
  <2> HIDE DEF delta
  <2> QED
    BY <2>1, <2>2 DEF Shifted
<1> HIDE DEF delta, q
<1>5. /\ t \in Nat /\ t <= q
      /\ delta < 0 /\ q <= Held(batches, p, w) => t = q
      /\ delta < 0 /\ q > Held(batches, p, w) => t = Held(batches, p, w)
      /\ delta >= 0 => t = 0
  <2>1. CASE delta < 0
    BY <1>3, <2>1, LoopWithin
  <2>2. CASE ~ (delta < 0)
    BY <1>3, <2>2
  <2> QED
    BY <2>1, <2>2
<1>6. NextLotsOK
  <2>1. CASE delta < 0
    BY <1>1, <1>3, <1>4, <2>1, ConsumedStep
  <2>2. CASE ~ (delta < 0)
    BY <1>1, <1>4, <2>2 DEF NextLotsOK, LotsOK, LotsNumbered, LastId
  <2> QED
    BY <2>1, <2>2
<1>7. \A p2 \in Product, w2 \in Warehouse :
        Held(batches', p2, w2) = Held(batches, p2, w2) - (IF p2 = p /\ w2 = w THEN t ELSE 0)
  <2>1. CASE delta < 0
    BY <1>1, <1>3, <1>4, <2>1, HeldConsumed
  <2>2. CASE ~ (delta < 0)
    <3>1. batches' = batches /\ t = 0
      BY <1>4, <2>2
    <3>2. \A p2 \in Product, w2 \in Warehouse : Held(batches, p2, w2) \in Nat
      BY HeldInv
    <3> HIDE DEF t
    <3> QED
      BY <3>1, <3>2
  <2> QED
    BY <2>1, <2>2
<1> HIDE DEF t
<1>8. \A p2 \in Product, w2 \in Warehouse :
        /\ stock'[<<p2, w2>>] = stock[<<p2, w2>>] + (IF p2 = p /\ w2 = w THEN delta ELSE 0)
        /\ moved'[<<p2, w2>>] = moved[<<p2, w2>>] + (IF p2 = p /\ w2 = w THEN delta ELSE 0)
  BY <1>2, <1>3, <1>4 DEF Place, Shifted
<1>9. InventoryTypeOK'
  <2>1. stock' \in [Place -> Nat]
    <3>1. stock[<<p, w>>] + delta \in Nat
      BY <1>2, <1>3 DEF q
    <3> QED
      BY <1>2, <1>4, <3>1 DEF Shifted, Place
  <2>2. moved' \in [Place -> Int]
    BY <1>2, <1>3, <1>4 DEF Shifted, Place
  <2> QED
    BY <1>4, <1>6, <2>1, <2>2 DEF NextLotsOK, InventoryIInv, InventoryTypeOK
<1>10. BatchesWithinStock'
  <2>1. ASSUME NEW p2 \in Product \ misplaced', NEW w2 \in Warehouse
        PROVE  Held(batches', p2, w2) <= stock'[<<p2, w2>>]
    <3>1. /\ Held(batches, p2, w2) \in Nat /\ stock[<<p2, w2>>] \in Nat
          /\ Held(batches, p2, w2) <= stock[<<p2, w2>>]
      BY <1>4, HeldInv
    <3>2. CASE p2 = p /\ w2 = w
      <4>1. Held(batches', p2, w2) = Held(batches, p2, w2) - t
        BY <1>7, <3>2
      <4>2. stock'[<<p2, w2>>] = stock[<<p2, w2>>] + delta
        BY <1>8, <3>2
      <4> QED
        BY <1>3, <1>5, <3>1, <3>2, <4>1, <4>2
    <3>3. CASE ~ (p2 = p /\ w2 = w)
      BY <1>7, <1>8, <3>1, <3>3
    <3> QED
      BY <3>2, <3>3
  <2> QED
    BY <2>1, HeldInvNext
<1>11. MovementsExplainStock'
  <2>1. ASSUME NEW p2 \in Product \ (corrected' \cup misplaced'), NEW w2 \in Warehouse
        PROVE  /\ stock'[<<p2, w2>>] = moved'[<<p2, w2>>]
               /\ stock'[<<p2, w2>>] = Held(batches', p2, w2)
    <3>1. /\ Held(batches, p2, w2) \in Nat /\ stock[<<p2, w2>>] \in Nat
          /\ stock[<<p2, w2>>] = Held(batches, p2, w2)
          /\ moved[<<p2, w2>>] = Held(batches, p2, w2)
      BY <1>4, HeldInv
    <3>2. CASE p2 = p /\ w2 = w
      <4>1. Held(batches', p2, w2) = Held(batches, p2, w2) - t
        BY <1>7, <3>2
      <4>2. /\ stock'[<<p2, w2>>] = stock[<<p2, w2>>] + delta
            /\ moved'[<<p2, w2>>] = moved[<<p2, w2>>] + delta
        BY <1>8, <3>2
      <4>3. delta < 0
        BY <1>3, <1>4, <3>2
      <4> QED
        BY <1>3, <1>5, <3>1, <3>2, <4>1, <4>2, <4>3
    <3>3. CASE ~ (p2 = p /\ w2 = w)
      BY <1>7, <1>8, <3>1, <3>3
    <3> QED
      BY <3>2, <3>3
  <2> QED
    BY <2>1, HeldInvNext
<1>12. MovementsNeverUnderstate'
  <2>1. delta \in Int /\ delta <= delta
    BY <1>3
  <2> QED
    BY <1>4, <2>1, NeverUnderstateStep
<1> QED
  BY <1>6, <1>9, <1>10, <1>11, <1>12 DEF InventoryIInv, NextLotsOK

LEMMA InventoryInit == Init => InventoryIInv
<1> SUFFICES ASSUME Init PROVE InventoryIInv
  OBVIOUS
<1>1. /\ stock \in [Place -> Nat] /\ stock \in [Place -> Int]
      /\ moved = stock /\ batches = {} /\ corrected = {} /\ misplaced = {}
  BY DEF Init
<1>2. \A p, w : TotalQty(Lots(p, w)) = 0
  <2>1. \A p, w : Lots(p, w) = {}
    BY <1>1 DEF Lots
  <2> QED
    BY <2>1, TotalQtyEmpty, Zenon
<1>3. \A p \in Product, w \in Warehouse : stock[<<p, w>>] = 0 /\ moved[<<p, w>>] = 0
  BY DEF Init, Place
<1>4. InventoryTypeOK
  BY <1>1 DEF InventoryTypeOK
<1>5. LotsNumbered
  BY <1>1, FS_EmptySet DEF LotsNumbered
<1>6. BatchesWithinStock /\ MovementsExplainStock
  BY <1>2, <1>3 DEF BatchesWithinStock, MovementsExplainStock
<1>7. MovementsNeverUnderstate
  <2> SUFFICES ASSUME NEW p \in Product PROVE Overall(stock, p) <= Overall(moved, p)
    BY DEF MovementsNeverUnderstate, Overall
  <2>1. Overall(stock, p) \in Int
    BY <1>1, OverallInt
  <2> QED
    BY <1>1, <2>1
<1> QED
  BY <1>4, <1>5, <1>6, <1>7 DEF InventoryIInv

LEMMA InventoryNext == InventoryIInv /\ [Next]_inventoryVars => InventoryIInv'
<1> SUFFICES ASSUME InventoryIInv, [Next]_inventoryVars PROVE InventoryIInv'
  OBVIOUS
<1>1. ASSUME Next PROVE InventoryIInv'
  <2>1. PICK p \in Product, w \in Warehouse, q \in 0 .. MaxStock :
          \/ \E number \in Number : AddStock(p, w, q, number)
          \/ \E b \in batches : AddToBatch(p, w, q, b)
          \/ DeductStock(p, w, q)
          \/ \E to \in Warehouse : TransferStock(p, w, to, q)
          \/ AdjustStock(p, w, q)
    BY <1>1 DEF Next
  <2>2. q \in Nat
    BY InventoryAssumption
  <2>3. ASSUME NEW number \in Number, AddStock(p, w, q, number) PROVE InventoryIInv'
    BY <2>2, <2>3, AddStockStep
  <2>4. ASSUME NEW b \in batches, AddToBatch(p, w, q, b) PROVE InventoryIInv'
    BY <2>2, <2>4, AddToBatchStep
  <2>5. CASE DeductStock(p, w, q)
    BY <2>2, <2>5, DeductStockStep
  <2>6. ASSUME NEW to \in Warehouse, TransferStock(p, w, to, q) PROVE InventoryIInv'
    BY <2>2, <2>6, TransferStockStep
  <2>7. CASE AdjustStock(p, w, q)
    BY <2>2, <2>7, AdjustStockStep
  <2> QED
    BY <2>1, <2>3, <2>4, <2>5, <2>6, <2>7
<1>2. CASE UNCHANGED inventoryVars
  BY <1>2 DEF inventoryVars, InventoryIInv, InventoryTypeOK, LotsNumbered, LastId,
       BatchesWithinStock, MovementsExplainStock, MovementsNeverUnderstate, Lots
<1> QED
  BY <1>1, <1>2

\* The lots are numbered without a gap or a double, and the three views of the stock
\* (row, lots, movements) keep their agreements through every operation.
THEOREM InventoryInvariance == Spec => []InventoryIInv
<1>1. Init => InventoryIInv
  BY InventoryInit
<1>2. InventoryIInv /\ [Next]_inventoryVars => InventoryIInv'
  BY InventoryNext
<1> QED
  BY <1>1, <1>2, PTL DEF Spec

\* No sale, transfer or correction makes a stock row or a lot negative.
THEOREM InventoryTypes == Spec => []InventoryTypeOK
<1>1. InventoryIInv => InventoryTypeOK
  BY DEF InventoryIInv
<1> QED
  BY <1>1, InventoryInvariance, PTL

\* The lots of a place never promise more than its stock row.
THEOREM LotsWithinStock == Spec => []BatchesWithinStock
<1>1. InventoryIInv => BatchesWithinStock
  BY DEF InventoryIInv
<1> QED
  BY <1>1, InventoryInvariance, PTL

\* Until a product is adjusted upwards or misplaced, row, lots and movements agree at
\* every place.
THEOREM ViewsAgree == Spec => []MovementsExplainStock
<1>1. InventoryIInv => MovementsExplainStock
  BY DEF InventoryIInv
<1> QED
  BY <1>1, InventoryInvariance, PTL

\* Over all warehouses the movements account for all there is of a product.
THEOREM NoGoodsFromNowhere == Spec => []MovementsNeverUnderstate
<1>1. InventoryIInv => MovementsNeverUnderstate
  BY DEF InventoryIInv
<1> QED
  BY <1>1, InventoryInvariance, PTL

-----------------------------------------------------------------------------
(* First in, first out.                                                    *)

\* A step that takes from a lot leaves nothing in an older lot of its place.
OldestFirstStep ==
  \A b, c \in batches, n, o \in batches' :
    /\ b.prod = c.prod /\ b.wh = c.wh /\ b.id < c.id
    /\ n.id = b.id /\ o.id = c.id
    /\ o.qty < c.qty
    => n.qty = 0

LEMMA LoopOldestFirst ==
  ASSUME LotsOK, NEW p, NEW w, NEW q \in Nat, NEW b \in batches, NEW c \in batches,
         NEW n \in Consumed(p, w, q), NEW o \in Consumed(p, w, q),
         b.prod = c.prod, b.wh = c.wh, b.id < c.id, n.id = b.id, o.id = c.id,
         o.qty < c.qty
  PROVE  n.qty = 0
<1> DEFINE F == Fifo(p, w)
<1>1. n = After(b, p, w, q) /\ o = After(c, p, w, q)
  <2>1. PICK x \in batches : n = After(x, p, w, q)
    BY ConsumedLots
  <2>2. PICK y \in batches : o = After(y, p, w, q)
    BY ConsumedLots
  <2>3. x.id = b.id /\ y.id = c.id
    BY <2>1, <2>2, AfterStays
  <2>4. x = b /\ y = c
    BY <2>3 DEF LotsOK, LotsNumbered
  <2> QED
    BY <2>1, <2>2, <2>4
<1>2. b.qty \in Nat /\ c.qty \in Nat /\ b.id \in Nat /\ c.id \in Nat
  BY DEF LotsOK, Batch
<1>3. o.qty = IF c \in F THEN c.qty - Taken(c, q) ELSE c.qty
  BY <1>1, AfterQty
<1>4. n.qty = IF b \in F THEN b.qty - Taken(b, q) ELSE b.qty
  BY <1>1, AfterQty
<1>5. c \in F /\ Taken(c, q) # 0
  <2>1. c \in F
    BY <1>2, <1>3
  <2> QED
    BY <1>2, <1>3, <2>1
<1>6. q > Ahead(c) /\ Ahead(c) \in Nat
  BY <1>5, TakenOf
<1>7. b.prod = p /\ b.wh = w
  BY <1>5 DEF Fifo
<1>8. CASE b \notin F
  <2>1. b.qty = 0
    BY <1>2, <1>7, <1>8 DEF Fifo
  <2> QED
    BY <1>4, <1>8, <2>1
<1>9. CASE b \in F
  <2> DEFINE A == {x \in F : x.id < b.id}
             C == {x \in F : x.id < c.id}
  <2>1. F \in SUBSET batches /\ F \in SUBSET Batch /\ IsFiniteSet(F)
    <3>1. F \in SUBSET batches /\ F \in SUBSET Batch
      BY DEF Fifo, LotsOK
    <3> QED
      BY <3>1, QueueHoldsAll
  <2>2. /\ A \in SUBSET Batch /\ IsFiniteSet(A) /\ b \notin A /\ b \in Batch
        /\ C \in SUBSET Batch /\ IsFiniteSet(C)
    <3>1. A \in SUBSET F /\ C \in SUBSET F /\ b \notin A
      BY <1>2
    <3>2. IsFiniteSet(A) /\ IsFiniteSet(C)
      <4> HIDE DEF A, C, F
      <4> QED
        BY <2>1, <3>1, FS_Subset
    <3> QED
      BY <1>9, <2>1, <3>1, <3>2
  <2>3. A \cup {b} \in SUBSET C
    <3>1. \A x \in F : x.id \in Nat
      BY <2>1 DEF Batch
    <3> QED
      BY <1>2, <1>9, <3>1
  <2>4. Ahead(b) = TotalQty(A) /\ Ahead(c) = TotalQty(C)
    <3>1. Fifo(b.prod, b.wh) = F /\ Fifo(c.prod, c.wh) = F
      BY <1>7
    <3> QED
      BY <3>1 DEF Ahead
  <2> HIDE DEF A, C
  <2>5. TotalQty(A \cup {b}) = TotalQty(A) + b.qty
    BY <2>2, TotalQtyAdd
  <2>6. TotalQty(A \cup {b}) <= TotalQty(C)
    BY <2>2, <2>3, TotalQtyPart
  <2>7. Ahead(b) + b.qty <= Ahead(c)
    BY <2>4, <2>5, <2>6
  <2>8. /\ Ahead(b) \in Nat
        /\ Taken(b, q) = IF q <= Ahead(b) THEN 0
                         ELSE IF q - Ahead(b) <= b.qty THEN q - Ahead(b) ELSE b.qty
    BY TakenOf
  <2>9. Taken(b, q) = b.qty
    BY <1>2, <1>6, <2>7, <2>8
  <2> QED
    BY <1>2, <1>4, <1>9, <2>9
<1> QED
  BY <1>8, <1>9

\* A step after which no lot holds less than before takes from none.
LEMMA NothingTaken ==
  ASSUME LotsOK,
         \A c \in batches, o \in batches' : o.id = c.id => o.qty >= c.qty /\ o.qty \in Nat
  PROVE  OldestFirstStep
BY DEF OldestFirstStep, LotsOK, Batch

LEMMA OldestFirstNext == InventoryIInv /\ [Next]_inventoryVars => OldestFirstStep
<1> SUFFICES ASSUME InventoryIInv, [Next]_inventoryVars PROVE OldestFirstStep
  OBVIOUS
<1>1. LotsOK /\ LastId \in Nat
  BY HeldInv, LastIdNat
<1>2. \A b \in batches : b.qty \in Nat /\ b.id \in 1 .. LastId
  BY <1>1 DEF LotsOK, LotsNumbered, Batch
<1>3. \A b, c \in batches : b.id = c.id => b = c
  BY <1>1 DEF LotsOK, LotsNumbered
<1>4. CASE batches' = batches
  BY <1>1, <1>2, <1>3, <1>4, NothingTaken
<1>5. ASSUME NEW p, NEW w, NEW q \in Nat, batches' = Consumed(p, w, q) PROVE OldestFirstStep
  BY <1>1, <1>5, LoopOldestFirst DEF OldestFirstStep
<1>6. ASSUME Next PROVE OldestFirstStep
  <2>1. PICK p \in Product, w \in Warehouse, q \in 0 .. MaxStock :
          \/ \E number \in Number : AddStock(p, w, q, number)
          \/ \E b \in batches : AddToBatch(p, w, q, b)
          \/ DeductStock(p, w, q)
          \/ \E to \in Warehouse : TransferStock(p, w, to, q)
          \/ AdjustStock(p, w, q)
    BY <1>6 DEF Next
  <2>2. q \in Nat
    BY InventoryAssumption
  <2>3. ASSUME NEW number \in Number, AddStock(p, w, q, number) PROVE OldestFirstStep
    <3> DEFINE n == [id |-> LastId + 1, prod |-> p, wh |-> w, no |-> <<number, 0>>, qty |-> q]
    <3>1. batches' = batches \cup {n} /\ n.id = LastId + 1
      BY <2>3 DEF AddStock
    <3> HIDE DEF n
    <3>2. \A c \in batches, o \in batches' : o.id = c.id => o.qty >= c.qty /\ o.qty \in Nat
      BY <1>1, <1>2, <1>3, <3>1
    <3> QED
      BY <1>1, <3>2, NothingTaken
  <2>4. ASSUME NEW b \in batches, AddToBatch(p, w, q, b) PROVE OldestFirstStep
    <3> DEFINE n == [b EXCEPT !.qty = @ + q]
    <3>1. batches' = (batches \ {b}) \cup {n}
      BY <2>4 DEF AddToBatch
    <3>2. n.id = b.id /\ n.qty = b.qty + q
      <4>1. b \in Batch
        BY <1>1 DEF LotsOK
      <4> QED
        BY <4>1 DEF Batch
    <3> HIDE DEF n
    <3>3. \A c \in batches, o \in batches' : o.id = c.id => o.qty >= c.qty /\ o.qty \in Nat
      BY <1>2, <1>3, <2>2, <3>1, <3>2
    <3> QED
      BY <1>1, <3>3, NothingTaken
  <2>5. CASE DeductStock(p, w, q)
    BY <1>5, <2>2, <2>5 DEF DeductStock
  <2>6. ASSUME NEW to \in Warehouse, TransferStock(p, w, to, q) PROVE OldestFirstStep
    <3> DEFINE C == Consumed(p, w, q)
               A == Arriving(p, w, to, q)
    <3>1. batches' = C \cup A
      BY <2>6 DEF TransferStock
    <3>2. \A n \in A : n.id \in LastId + 1 .. LastId + Cardinality(A)
      BY <1>1, <2>2, ArrivingLots
    <3>3. \A b \in batches, n \in batches' : n.id = b.id => n \in C
      BY <1>1, <1>2, <3>1, <3>2
    <3> HIDE DEF C, A
    <3>4. ASSUME NEW b \in batches, NEW c \in batches, NEW n \in batches', NEW o \in batches',
                 b.prod = c.prod, b.wh = c.wh, b.id < c.id, n.id = b.id, o.id = c.id,
                 o.qty < c.qty
          PROVE  n.qty = 0
      <4>1. n \in Consumed(p, w, q) /\ o \in Consumed(p, w, q)
        BY <3>3, <3>4 DEF C
      <4> QED
        BY <1>1, <2>2, <3>4, <4>1, LoopOldestFirst
    <3> QED
      BY <3>4 DEF OldestFirstStep
  <2>7. CASE AdjustStock(p, w, q)
    <3> DEFINE delta == q - stock[<<p, w>>]
    <3>1. stock[<<p, w>>] \in Nat
      BY HeldInv
    <3>2. batches' = IF delta < 0 THEN Consumed(p, w, -delta) ELSE batches
      BY <2>7 DEF AdjustStock, AdjustedBatches
    <3>3. CASE delta < 0
      <4>1. -delta \in Nat
        BY <2>2, <3>1, <3>3
      <4> HIDE DEF delta
      <4> QED
        BY <1>5, <3>2, <3>3, <4>1
    <3>4. CASE ~ (delta < 0)
      BY <1>4, <3>2, <3>4
    <3> QED
      BY <3>3, <3>4
  <2> QED
    BY <2>1, <2>3, <2>4, <2>5, <2>6, <2>7
<1>7. CASE UNCHANGED inventoryVars
  BY <1>4, <1>7 DEF inventoryVars
<1> QED
  BY <1>6, <1>7

\* Lots are consumed first in, first out, by every operation that consumes.
THEOREM FirstInFirstOut == Spec => OldestFirst
<1>1. InventoryIInv /\ [Next]_inventoryVars => [OldestFirstStep]_inventoryVars
  BY OldestFirstNext
<1>2. Spec => [][OldestFirstStep]_inventoryVars
  BY <1>1, InventoryInvariance, PTL DEF Spec
<1> QED
  BY <1>2 DEF OldestFirst, OldestFirstStep
=============================================================================
