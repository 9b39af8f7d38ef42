----------------------------- MODULE MCRecovery -----------------------------
(***************************************************************************)
(* Recovery for TLC: two clicks of the recovery button.                    *)
(***************************************************************************)
EXTENDS Recovery, FiniteSets
=============================================================================
