---------------------------- MODULE MCSyncSystem ----------------------------
(***************************************************************************)
(* Two devices of one business. d1 has two call slots, so that an orphan   *)
(* and its retry can overlap. The ids d1 draws are the smallest and the    *)
(* largest, so that a tie of timestamps goes either way.                   *)
(***************************************************************************)
EXTENDS SyncSystem

CONSTANTS d1, d2, qty, Edits1   \* Edits1: how many changes d1 makes

MCValue == SaleStatus \cup {"items", "camelCase", qty}

MCField == {"val", "extra"}

\* d1 has two slots, d2 one: d2 pushes again only after its last call ended.
MCSlots == {<<d1, 1>>, <<d1, 2>>, <<d2, 1>>}

MCDeviceOf == [h \in MCSlots |-> h[1]]

MCMaxChanges == [d \in {d1, d2} |-> IF d = d1 THEN Edits1 ELSE 1]

MCUuid == [d \in {d1, d2} |->
  [n \in 1 .. MCMaxChanges[d] |-> IF d = d1 THEN IF n = 1 THEN 1 ELSE n + 10 ELSE n + 1]]

\* Clocks that tie, and one that runs ahead.
MCClock == [d \in {d1, d2} |-> IF d = d1 THEN {1} ELSE {1, 2}]

MCEdits == [d \in {d1, d2} |-> IF d = d1 THEN {"draft", "update", "cancel", "add", "deduct"} ELSE {"draft"}]
=============================================================================
