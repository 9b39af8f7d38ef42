------------------------------ MODULE MCTarget ------------------------------
(***************************************************************************)
(* Target for TLC: two NVMe identities and two session tokens, so at most  *)
(* two runs of helm-provision.                                             *)
(***************************************************************************)
EXTENDS Target, TLC

\* Neither identities nor tokens are ever compared with a fixed value.
Symmetry == Permutations(Disks) \cup Permutations(Tokens)
=============================================================================
