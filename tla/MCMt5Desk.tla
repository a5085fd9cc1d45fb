----------------------------- MODULE MCMt5Desk -----------------------------
(* Instances of Mt5Desk for TLC. *)
EXTENDS Mt5Desk, TLC

CONSTANTS EntryKeys, ManagementKeys

\* Entry keys and management keys have different prefixes; an entry's key is
\* made from its second, its pair and its context.
OwnKeys == [c \in Callers |-> IF c \in Entries THEN EntryKeys ELSE ManagementKeys]
Symmetries == Permutations(EntryKeys) \cup Permutations(Entries)

=============================================================================
