--------------------------- MODULE MCProvisioning ---------------------------
(***************************************************************************)
(* Provisioning for TLC: two NVMe identities, two recovery attempts.       *)
(***************************************************************************)
EXTENDS Provisioning, TLC

\* No NVMe is compared with a fixed one.  (Tokens are picked by CHOOSE.)
Symmetry == Permutations(Disks)
=============================================================================
