------------------------ MODULE MCPortfolioExecution ------------------------
(* Instances of PortfolioExecution for TLC. *)
EXTENDS PortfolioExecution, TLC

CONSTANTS EntryKeys, ManagementKeys

\* Entry keys and management keys have different prefixes.
OwnKeys == [c \in Callers |-> IF c \in Entries THEN EntryKeys ELSE ManagementKeys]
KeySymmetry == Permutations(EntryKeys) \cup Permutations(ManagementKeys)

=============================================================================
