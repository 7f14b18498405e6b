------------------------------ MODULE MCSales ------------------------------
(***************************************************************************)
(* Two sales of a product with two units in stock: an order with tax, one  *)
(* with a negative tax that takes the whole amount, and one for two units  *)
(* free of charge. Payments of a new sale may be negative. All charts of   *)
(* accounts. One of the sales has a request that is cut.                   *)
(***************************************************************************)
EXTENDS Sales, TLC

CONSTANTS s1, s2

MCOrder ==
  {[qty |-> 2, amount |-> 0, tax |-> 0], [qty |-> 1, amount |-> 1, tax |-> 1],
   [qty |-> 1, amount |-> 1, tax |-> -1]}

MCPrepaid == {-1, 0, 1, 2}

\* Sales are interchangeable.
MCSymmetry == Permutations({s1, s2})
=============================================================================
