------------------------------- MODULE MacUsb -------------------------------
(***************************************************************************)
(* The two programs of helm-macos that look for a board on the Mac's USB:  *)
(* the native RCM loader, and the console that waits for the modem of the  *)
(* board the loader booted.  The console's own view of the boot is one     *)
(* action of Modems, so a behaviour is one of one program.                 *)
(***************************************************************************)
EXTENDS Modems, RcmLoader

VARIABLE program

macUsbVars == <<program, vars, loaderVars>>

\* A program that is not used.
NoConsole == Init /\ guided = FALSE /\ port = [l \in Locations |-> "empty"]
NoLoader  == LoaderInit /\ bus = [b \in Boards |-> "pulled"]

MacUsbInit ==
    \/ program = "console" /\ Init /\ NoLoader
    \/ program = "loader" /\ NoConsole /\ LoaderInit

MacUsbNext ==
    /\ UNCHANGED program
    /\ \/ program = "console" /\ Next /\ UNCHANGED loaderVars
       \/ program = "loader" /\ LoaderNext /\ UNCHANGED vars

MacUsbSpec == MacUsbInit /\ [][MacUsbNext]_macUsbVars
=============================================================================
