--------------------------- MODULE MCTradingStore ---------------------------
(* Instances of TradingStore for TLC. *)
EXTENDS TradingStore, TLC

\* Order ids and keys are interchangeable: nothing orders or names them.
IdSymmetry == Permutations(OrderIds) \cup Permutations(Keys)

=============================================================================
