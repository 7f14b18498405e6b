---------------------------- MODULE MCCloudSync ----------------------------
(***************************************************************************)
(* The deployment with two replicas and two devices. Device d1 has a push  *)
(* slot on each replica: a push and its retry may run in two processes.    *)
(* Device d2 pushes and pulls. Both change one sale (tied timestamps), one *)
(* customer (merged field by field) and one stock movement (append-only),  *)
(* of which d1 sends two events in one batch, and d2 one that differs from *)
(* the first by a null field only. d1 also sends a stock snapshot, which   *)
(* is never merged.                                                        *)
(***************************************************************************)
EXTENDS CloudServer, TLC

CONSTANTS d1, d2, r1, r2, s1, s2, s3, p1

MCField == {"name", "phone"}

MCDeviceOf == s1 :> d1 @@ s2 :> d1 @@ s3 :> d2

MCPullerOf == p1 :> d2

MCReplicaOf == s1 :> r1 @@ s2 :> r2 @@ s3 :> r2 @@ p1 :> r1

MCEnvironment ==
  {[database |-> up, redis |-> "up", tls |-> TRUE] : up \in BOOLEAN}

MCToken ==
  {[dev |-> d, secret |-> "k", ours |-> TRUE, live |-> live] :
     d \in {d1, d2}, live \in BOOLEAN}

ChangeOf(id, dev, n, type, op, pay, ts) ==
  [id |-> id, dev |-> dev, n |-> n, type |-> type, eid |-> 1, op |-> op,
   pay |-> pay, ts |-> ts]

Sale1 == ChangeOf(1, d1, 1, "sale", "INSERT", NoPayload, 1)
Customer1 == ChangeOf(3, d1, 2, "customer", "UPDATE", "name" :> "a", 1)
Move1 == ChangeOf(6, d1, 3, "stock_movement", "INSERT", "name" :> "a", 1)
Move3 == ChangeOf(8, d1, 4, "stock_movement", "INSERT", "name" :> "b", 1)
Stock1 == ChangeOf(7, d1, 5, "stock", "UPDATE", "name" :> "b", 2)
Sale2 == ChangeOf(4, d2, 1, "sale", "UPDATE", "name" :> "b", 1)
Customer2 == ChangeOf(2, d2, 2, "customer", "UPDATE", "name" :> Null @@ "phone" :> "b", 2)
Move2 == ChangeOf(5, d2, 3, "stock_movement", "INSERT", "name" :> "a" @@ "phone" :> Null, 1)

MCBatches ==
  {{Sale1, Customer1}, {Move1, Move3}, {Stock1}, {Sale2, Customer2}, {Move2}}
=============================================================================
