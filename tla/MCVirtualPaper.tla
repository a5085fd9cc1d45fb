--------------------------- MODULE MCVirtualPaper ---------------------------
(* Instances of VirtualPaper for TLC. *)
EXTENDS VirtualPaper

CONSTANT x

Order(symbol, side, type, level, qty) ==
  [symbol |-> symbol, side |-> side, type |-> type, level |-> level, qty |-> qty]

Ordered ==
  {Order(x, "buy", "market", 0, 1), Order(x, "sell", "market", 0, 1),
   Order(x, "buy", "limit", 1, 2), Order(x, "sell", "sl", 1, 1),
   Order(x, "sell", "limit", 2, 1)}

=============================================================================
