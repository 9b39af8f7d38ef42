------------------------------ MODULE Promise -------------------------------
(***************************************************************************)
(* What the provisioning page, and the macOS console, promise their user,  *)
(* with everything about terminals, scripts and faults left out: as long   *)
(* as nothing was confirmed nothing is written; "complete" is shown only   *)
(* over provisioned storage that nothing will touch again; and an outcome  *)
(* once shown is final.                                                    *)
(***************************************************************************)
CONSTANT Again  \* the user may try again after the outcome was "unknown"

VARIABLES
    shown,      \* "safe" (no persistent writes were started), "writing",
                \* "complete" or "unknown"
    storage     \* "untouched", "changed" or "provisioned"

vars == <<shown, storage>>

Init == shown = "safe" /\ storage = "untouched"

\* The customer types the phrase and presses the button.
Confirm ==
    /\ shown = "safe"
    /\ shown' = "writing"
    /\ UNCHANGED storage

\* The target works on its storage, whether or not the page still follows.
Work ==
    /\ shown \in {"writing", "unknown"}
    /\ storage = "provisioned" => Again /\ shown = "unknown"
    /\ storage' \in {"changed", "provisioned"}
    /\ UNCHANGED shown

Complete ==
    /\ shown = "writing" \/ (Again /\ shown = "unknown")
    /\ storage = "provisioned"
    /\ shown' = "complete"
    /\ UNCHANGED storage

GiveUp ==
    /\ shown = "writing"
    /\ shown' = "unknown"
    /\ UNCHANGED storage

Next == Confirm \/ Work \/ Complete \/ GiveUp

Spec == Init /\ [][Next]_vars
=============================================================================
