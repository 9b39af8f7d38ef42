------------------------------- MODULE MCRcm -------------------------------
(***************************************************************************)
(* Rcm for TLC: two boards that enumerate with the same product ID, one of *)
(* them with a USB serial, and bundles for that product ID and for another.*)
(***************************************************************************)
EXTENDS Rcm, TLC

CONSTANTS b1, b2, p1, p2, pid1, pid2, s1

MCBoardPid   == [b \in Boards |-> pid1]
MCProfilePid == [p \in Profiles |-> IF p = p1 THEN pid1 ELSE pid2]
MCSerial     == [b \in Boards |-> IF b = b1 THEN s1 ELSE NoSerial]

Symmetry == Permutations(Calls)
=============================================================================
