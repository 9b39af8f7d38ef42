----------------------------- MODULE MCRamBoot -----------------------------
(***************************************************************************)
(* RamBoot for TLC: a board without a USB serial whose product ID two      *)
(* profiles share, one of a third profile that has a product ID to itself. *)
(***************************************************************************)
EXTENDS RamBoot

CONSTANTS b1, b2, p1, p2, p3, pid1, pid3

MCBoardPid   == [b \in Boards |-> IF b = b1 THEN pid1 ELSE pid3]
MCProfilePid == [p \in Profiles |-> IF p = p3 THEN pid3 ELSE pid1]
MCSerial     == [b \in Boards |-> NoSerial]
=============================================================================
