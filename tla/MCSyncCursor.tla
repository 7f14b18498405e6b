---------------------------- MODULE MCSyncCursor ----------------------------
(***************************************************************************)
(* Three devices of one business: two that push at the same time and one   *)
(* that pulls meanwhile. A gap in the numbers a reader sees needs two      *)
(* writers besides it. Each makes one sale; the reader's clock is ahead,   *)
(* so that it keeps its own sale when the others' arrive, and its cursor   *)
(* can pass them.                                                          *)
(***************************************************************************)
EXTENDS SyncSystem

CONSTANTS d1, d2, d3

MCValue == SaleStatus \cup {"items", "camelCase"}

MCField == {"val", "extra"}

\* One slot per device.
MCSlots == {d1, d2, d3}

MCDeviceOf == [h \in MCSlots |-> h]

MCMaxChanges == [d \in {d1, d2, d3} |-> 1]

MCUuid == [d \in {d1, d2, d3} |->
  [n \in {1} |-> CASE d = d1 -> 2 [] d = d2 -> 1 [] d = d3 -> 3]]

MCClock == [d \in {d1, d2, d3} |-> IF d = d3 THEN {2} ELSE {1}]

MCEdits == [d \in {d1, d2, d3} |-> {"draft"}]
=============================================================================
