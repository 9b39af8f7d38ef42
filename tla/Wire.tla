-------------------------------- MODULE Wire --------------------------------
(***************************************************************************)
(* What travels over the recovery console: the command lines a host types  *)
(* and the HELM_PROVISION_* marker lines the target prints.  Profile and   *)
(* device are the same in every line of a session and are left out; an     *)
(* inventory fingerprint is modelled by the NVMe identity it is a digest   *)
(* of, a session token by a model value.                                   *)
(***************************************************************************)
EXTENDS Naturals, Sequences

CONSTANTS
    Disks,          \* NVMe identities: profile, path, size, model, serial, WWID
    NoInventory,    \* an install command without --confirm-inventory
    Tokens          \* session tokens; each run uses a fresh one

ASSUME InventoryAssumption == NoInventory \notin Disks

\* Runs of helm-provision.  `accepted` says whether the confirmed profile and
\* device are the target's own.
Commands ==
    {c \in [kind: {"preflight", "install"}, session: Tokens,
            accepted: BOOLEAN, inventory: Disks \cup {NoInventory}] :
        c.kind = "preflight" => c.inventory = NoInventory}

Command(kind, session, inventory) ==
    [kind |-> kind, session |-> session, accepted |-> TRUE, inventory |-> inventory]

\* What the scripts and the shell print that a host looks at.
Markers == [kind: {"ready", "preflight-success", "progress", "success", "failure"},
            session: Tokens, step: 0..4, inventory: Disks \cup {NoInventory}]

Marker(kind, session) ==
    [kind |-> kind, session |-> session, step |-> 0, inventory |-> NoInventory]
\* Variant that numbers the steps one too high.
ProgressOffByOne(step, session) ==
    [Marker("progress", session) EXCEPT !.step = step + 1]
Progress(step, session) == [Marker("progress", session) EXCEPT !.step = step]

\* Terminal markers end a session: nothing is printed for it afterwards.
Terminal(m) == m.kind \in {"preflight-success", "success", "failure"}
=============================================================================
