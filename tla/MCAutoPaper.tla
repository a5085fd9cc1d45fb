---------------------------- MODULE MCAutoPaper ----------------------------
(* Instances of AutoPaper for TLC. *)
EXTENDS AutoPaper

CONSTANTS eurusd, gbpusd

Pairs == [d \in Decisions |-> IF d = 2 THEN gbpusd ELSE eurusd]

=============================================================================
