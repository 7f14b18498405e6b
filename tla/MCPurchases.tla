---------------------------- MODULE MCPurchases ----------------------------
(***************************************************************************)
(* Two purchases, with tax, with a negative tax, free of charge or plain,  *)
(* with payments that may be negative; and one manual entry of four lines: *)
(* its first two balance, so that a draft cut there can be posted. All     *)
(* charts of accounts. One document with a request that is cut.            *)
(***************************************************************************)
EXTENDS Purchases, TLC

CONSTANTS p1, p2

MCOrder ==
  {[qty |-> 2, amount |-> 1, tax |-> 0], [qty |-> 1, amount |-> 1, tax |-> 1],
   [qty |-> 1, amount |-> 1, tax |-> -1], [qty |-> 1, amount |-> 0, tax |-> 0]}

MCPrepaid == {-1, 0, 1, 2}

MCAccount == {"Inventory", "Tax Paid", "Cash", "Accounts Payable"}

MCDrafted ==
  {Debit("Cash", 1) \o Credit("Inventory", 1) \o Debit("Tax Paid", 2) \o Credit("Cash", 2),
   Debit("Cash", 1) \o <<[acc |-> "Inventory", debit |-> 1, credit |-> 2]>>}

\* Purchases are interchangeable.
MCSymmetry == Permutations({p1, p2})
=============================================================================
