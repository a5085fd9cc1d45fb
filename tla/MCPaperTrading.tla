--------------------------- MODULE MCPaperTrading ---------------------------
(***************************************************************************)
(* Instances of PaperTrading for TLC.                                      *)
(***************************************************************************)
EXTENDS PaperTrading, TLC

\* Constant values.  12000 and 24000 keep slippage (5 bps) and the averages of
\* up to two fills whole.
Market == [type |-> "MARKET", limit |-> 0, stop |-> 0]
LimitLow == [type |-> "LIMIT", limit |-> 12000, stop |-> 0]
StopHigh == [type |-> "STOP", limit |-> 0, stop |-> 24000]
StopLimit == [type |-> "STOP_LIMIT", limit |-> 24000, stop |-> 24000]
MarketAndLimit == {Market, LimitLow}
EveryType == {Market, LimitLow, StopHigh, StopLimit}
BuySell == {"BUY", "SELL"}
TwoPrices == {12000, 24000}
ThreePrices == {12000, 24000, 36000}

IdSymmetry == Permutations(OrderIds)
IdKeySymmetry == Permutations(OrderIds) \cup Permutations(Keys)

=============================================================================
