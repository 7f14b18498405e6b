------------------------------ MODULE MergeLog ------------------------------
(***************************************************************************)
(* What the Cloud Sync Service promises its devices, with no handlers,     *)
(* transactions or failures in it: a log of changes that only grows, by    *)
(* whole batches of one device, in which every change id occurs once and   *)
(* every entry has a position of its own. Positions are NOT promised in    *)
(* the order of growth: a reader that has seen position 5 may find         *)
(* position 4 filled later.                                                *)
(***************************************************************************)
EXTENDS Naturals

CONSTANTS Change   \* records with at least the fields id and dev

VARIABLE log

Entry == [pos : Nat, chg : Change]

OneEach(entries) ==
  \A a, b \in entries : a.pos = b.pos \/ a.chg.id = b.chg.id => a = b

Init == log = {}

Append(batch) ==
  /\ batch \subseteq Entry
  /\ \A a, b \in batch : a.chg.dev = b.chg.dev
  /\ OneEach(log \cup batch)
  /\ log' = log \cup batch

Next == Append(log' \ log)

Spec == Init /\ [][Next]_log
=============================================================================
