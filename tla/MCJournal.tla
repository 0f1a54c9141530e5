----------------------------- MODULE MCJournal -----------------------------
(* The instance TLC checks: every constant is a model value or a bound that *)
(* the configuration gives.                                                 *)
EXTENDS Journal

=============================================================================
