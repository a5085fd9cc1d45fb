------------------------ MODULE MCAdaptiveManagement ------------------------
(***************************************************************************)
(* Instances of AdaptiveManagement: two positions in one cycle without     *)
(* the clock, and one position over the minutes that key its actions.      *)
(***************************************************************************)
EXTENDS AdaptiveManagement

=============================================================================
