--------------------------- MODULE CloudResolver ---------------------------
(***************************************************************************)
(* The conflict policy of the Cloud Sync Service                           *)
(* (cloud/sync/internal/conflict/resolver.go): what the service does with  *)
(* an incoming change, given the newest change it has already merged for   *)
(* the same entity (Nil when there is none).                               *)
(***************************************************************************)
EXTENDS Integers

CONSTANTS Device,      \* authorised devices of one business
          Field,       \* payload fields
          Value,       \* their values
          Null,        \* the value of a field that is null
          NoPayload,   \* the payload of an event that carries none
          Nil          \* a nil *ChangeEvent

\* One name per entity type; the plural synonyms of the source are left out.
EntityType ==
  {"sale", "purchase", "sale_payment", "sales_return", "customer", "supplier",
   "journal_entry", "stock_movement", "stock", "batch"}

Operation == {"INSERT", "UPDATE", "DELETE"}

\* A JSON object: the fields it has, with their values.
Payload == {NoPayload} \cup UNION {[S -> Value \cup {Null}] : S \in SUBSET Field}

\* A ChangeEvent. change_id is a random UUID compared as a string: a number.
\* n is the sequence number the device gave it, ts the device's clock.
Change == [id : Nat, dev : Device, n : Nat, type : EntityType, eid : Nat,
           op : Operation, pay : Payload, ts : Nat]

ASSUME NilAssumption == Nil \notin Change

SameEntity(a, b) == a.type = b.type /\ a.eid = b.eid

Strategy(type) ==
  CASE type \in {"customer", "supplier"}             -> "fieldmerge"
    [] type \in {"journal_entry", "stock_movement"}  -> "appendonly"
    [] type \in {"stock", "batch"}                   -> "eventsourced"
    [] OTHER                                         -> "lww"

\* Last write wins: the newer timestamp, then the larger change id.
Beats(a, b) ==
  \/ a.ts > b.ts
  \/ a.ts = b.ts /\ a.id > b.id

\* Mutant of Applies: an append-only event is appended whatever is there.
AppliesAnyAppend(incoming, current) ==
  CASE Strategy(incoming.type) \in {"fieldmerge", "appendonly"} -> TRUE
    [] Strategy(incoming.type) = "eventsourced" -> current = Nil /\ incoming.op = "INSERT"
    [] Strategy(incoming.type) = "lww"          -> current = Nil \/ Beats(incoming, current)

\* Decision.Apply: the event goes into the ledger.
Applies(incoming, current) ==
  CASE Strategy(incoming.type) = "fieldmerge"   -> TRUE
    [] Strategy(incoming.type) = "appendonly"   -> current = Nil
    [] Strategy(incoming.type) = "eventsourced" -> current = Nil /\ incoming.op = "INSERT"
    [] Strategy(incoming.type) = "lww"          -> current = Nil \/ Beats(incoming, current)

\* Mutant of Conflicts: the comparison of the payloads is inverted.
ConflictsIfEqual(incoming, current) ==
  /\ Strategy(incoming.type) = "appendonly"
  /\ current # Nil
  /\ incoming.pay = current.pay

\* Decision.Conflict: reported back to the pushing device. Objects differ when one
\* has a field, be it null, that the other has not (payloadEquivalent). An event that
\* neither applies nor conflicts is acknowledged without any effect.
Conflicts(incoming, current) ==
  /\ Strategy(incoming.type) = "appendonly"
  /\ current # Nil
  /\ incoming.pay # current.pay

\* fieldMerge: the non-null fields of the incoming payload over the current one.
Merge(cur, inc) ==
  LET sent == {f \in DOMAIN inc : inc[f] # Null} IN
  [f \in DOMAIN cur \cup sent |-> IF f \in sent THEN inc[f] ELSE cur[f]]

\* A current event without a payload counts as an object without fields.
Fields(pay) == IF pay = NoPayload THEN [f \in {} |-> Null] ELSE pay

\* The event as it is appended: with the merged payload when there is one.
Merged(incoming, current) ==
  IF /\ Strategy(incoming.type) = "fieldmerge"
     /\ current # Nil
     /\ incoming.pay # NoPayload
  THEN [incoming EXCEPT !.pay = Merge(Fields(current.pay), @)]
  ELSE incoming
=============================================================================
