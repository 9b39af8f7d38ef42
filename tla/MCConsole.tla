------------------------------ MODULE MCConsole ------------------------------
(***************************************************************************)
(* ConsoleProvisioning for TLC: two NVMe identities.                       *)
(***************************************************************************)
EXTENDS ConsoleProvisioning, FiniteSets, TLC

\* Each run uses at most two tokens.
ASSUME EnoughTokens == Cardinality(Tokens) >= Attempts + 1

\* No NVMe is compared with a fixed one.
Symmetry == Permutations(Disks)
=============================================================================
