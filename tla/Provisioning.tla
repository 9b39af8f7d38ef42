---------------------------- MODULE Provisioning ----------------------------
(***************************************************************************)
(* The provisioning page and the recovery target, joined by the recovery   *)
(* console: what the page writes the target's shell reads, and every line  *)
(* the target prints the page may receive, lose at a serial error, or find *)
(* stale in a buffer when the port is opened again.                        *)
(***************************************************************************)
EXTENDS Target, Recovery

CONSTANT Losses     \* bound on lines lost at serial errors

ASSUME LossesAssumption == Losses \in Nat

VARIABLES
    read,       \* how much of `out` has left the console
    lost        \* lines lost so far

target  == <<pc, run, succeeded, pending, flags, mounts, slot, store, ram, qspi,
             tty, out>>
console == <<read, lost>>
allVars == <<target, hostVars, console>>

ProvisioningInit == Init /\ HostInit /\ read = 0 /\ lost = 0

-----------------------------------------------------------------------------
\* The shell of recovery-init runs one line at a time: it prints what a probe
\* asks for, or runs helm-provision, which may not accept the profile.
ShellReads ==
    /\ pc = "idle" /\ tty = "open"
    /\ wire # <<>>
    /\ LET line == Head(wire) IN
          IF line.kind = "ready"
          THEN /\ out' = Append(out, Marker("ready", line.session))
               /\ UNCHANGED <<pc, run, succeeded, pending, flags, mounts, slot,
                              store, ram, qspi, tty>>
          ELSE \E a \in BOOLEAN : Start([line EXCEPT !.accepted = a])
    /\ wire' = Tail(wire)
    /\ UNCHANGED <<page, transport, cable, console>>

\* The next line the target printed reaches the page's dispatcher.
LineArrives ==
    /\ read < Len(out)
    /\ HostReceives(out[read + 1])
    /\ read' = read + 1
    /\ UNCHANGED <<target, lost>>

\* The stream failed and was replaced: a line is lost, the waiters are kept.
LineLost ==
    /\ listening /\ ~Settled
    /\ read < Len(out)
    /\ lost < Losses
    /\ read' = read + 1
    /\ lost' = lost + 1
    /\ UNCHANGED <<target, hostVars>>

\* Opening the port may find lines of an earlier exchange still buffered.
Connect ==
    /\ OpenPort
    /\ read' \in read..Len(out)
    /\ UNCHANGED <<target, lost>>

Unplug == Hangup /\ HostUnplug /\ UNCHANGED console

PageSteps ==
    /\ \/ Resume \/ ClickRecovery \/ OpenFails \/ ClickInstall
       \/ SendProbe /\ Len(outbox \o wire) + Len(out) - read < Probes
       \/ Timeout \/ Writer \/ PumpEnds \/ SerialDisconnect \/ Replug
    /\ UNCHANGED <<target, console>>

TargetSteps ==
    /\ Scripts \/ RestartConsole \/ SwapDisk
    /\ UNCHANGED <<hostVars, console>>

ProvisioningNext ==
    \/ PageSteps \/ TargetSteps
    \/ ShellReads \/ LineArrives \/ LineLost \/ Connect \/ Unplug

ProvisioningSpec == ProvisioningInit /\ [][ProvisioningNext]_allVars

-----------------------------------------------------------------------------
\* What the page shows.
Shown == CASE outcome # "none" -> outcome
           [] outcome = "none" /\ crossed -> "writing"
           [] OTHER -> "safe"

P == INSTANCE Promise WITH Again <- FALSE, shown <- Shown, storage <- Storage

\* The whole system keeps the page's promise: "No persistent writes were
\* started" until the confirmation, "provisioned" only when it is true and
\* final, with lines lost and stale, timeouts, retries and a pulled cable.
PromiseKept == P!Spec

\* The only NVMe ever written is the one whose fingerprint the customer was
\* shown and confirmed, though another may be in its place by then.
OnlyShownInventoryWritten ==
    \A d \in Disks : layout[d] # "foreign" => crossed /\ preflight = d

\* The inventory offered for confirmation is what the target reported in the
\* last exchange of the page, not a leftover of an earlier attempt.
ShownInventoryIsFresh ==
    (preflight # NoInventory /\ ~crossed) =>
        \E i \in 1..Len(out) :
            out[i] = [Marker("preflight-success", token) EXCEPT !.inventory = preflight]
=============================================================================
