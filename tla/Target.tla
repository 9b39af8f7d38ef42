------------------------------- MODULE Target -------------------------------
(***************************************************************************)
(* The target side of Helm provisioning: the RAM recovery system running   *)
(* helm-provision, which runs helm-install and then helm-qspi-install.     *)
(*                                                                         *)
(* The three scripts run under `set -e`, one command after another, so the *)
(* model is one program counter moving through the commands that change    *)
(* storage, mounts or output.  Around it the environment may hang up the   *)
(* USB console, deliver SIGTERM, cut the power or exchange the NVMe.  Each *)
(* kind of fault happens only when named in Faults, so that a             *)
(* configuration can ask what a property owes to each.                     *)
(***************************************************************************)
EXTENDS Wire

CONSTANT Faults     \* which faults of the environment may happen

ASSUME FaultsAssumption == Faults \subseteq {"step", "term", "hangup", "power", "swap"}

VARIABLES
    pc,         \* the command about to run, "idle" (shell reading), "off"
    cmd,        \* the command line of the current or last run
    used,       \* session tokens already given to a run
    seen,       \* inventory observed by this run's preflight
    succeeded,  \* helm-provision's flag of that name
    pending,    \* SIGTERM caught by helm-provision while a child runs
    flags,      \* the scripts' root_mounted and esp_mounted flags
    mounts,     \* what is really mounted: "root" and "esp" by helm-install,
                \* "prov" by helm-provision
    slot,       \* the NVMe that /dev/nvme0n1 currently names
    layout, os, launcher, backup,   \* contents of each NVMe
    dirty,      \* written to the mounted NVMe, not yet on stable storage
    ramOs, ramLauncher, \* contents of helm-install's mount points in RAM
    qspi,       \* contents of the QSPI NOR
    before,     \* contents of the QSPI when the current or last run began
    tty,        \* "open" or "hung": writing to a hung terminal fails (EIO)
    out         \* markers written to the terminal, in order

store == <<layout, os, launcher, backup, dirty>>
ram   == <<ramOs, ramLauncher>>
run   == <<cmd, used, seen, before>>
vars  == <<pc, run, succeeded, pending, flags, mounts, slot, store, ram, qspi,
           tty, out>>

-----------------------------------------------------------------------------
\* The scripts, as sets of steps.
ProvisionSteps == {"guards", "inspect", "report", "confirm", "announce",
                   "mount", "checkBackup", "unmount", "success"}
\* helm-install, before and after its trap is set and while it is set.
TrappedSteps == {"partition", "format", "mountRoot", "extract", "configure",
                 "mountEsp", "copyLauncher", "resetSync", "umountEsp",
                 "umountRoot"}
InstallSteps == TrappedSteps \cup {"checkTarget", "installed"}
QspiSteps    == {"checkQspi", "saveBackup", "recordBackup", "warn", "erase",
                 "program", "announceVerify", "readback", "flashed"}
Running      == ProvisionSteps \cup InstallSteps \cup QspiSteps
                  \cup {"installFailed", "finish"}

\* Steps that begin by writing to the terminal, or whose tool fails when it
\* cannot: with the terminal hung up `set -e` ends the script there.
Printing == {"inspect", "announce", "checkTarget", "partition", "extract",
             "configure", "installed", "checkBackup", "checkQspi", "warn",
             "announceVerify", "flashed"}

\* Steps whose command can fail for reasons of its own (I/O error, ENOSPC,
\* bad EEPROM, corrupt payload, busy file system).
Fallible == {"guards", "inspect", "checkTarget", "partition", "format",
             "mountRoot", "extract", "configure", "mountEsp", "copyLauncher",
             "umountEsp", "umountRoot", "mount", "checkQspi", "saveBackup",
             "erase", "program", "unmount"}

Qspi     == {"factory", "torn", "bundle"}
Backups  == Qspi \cup {"none", "partial"}
Trees    == {"none", "files", "bootable"}   \* "none": no complete tree
Layouts  == {"foreign", "blank", "formatted"}

TypeOK ==
    /\ pc \in Running \cup {"idle", "off"}
    /\ cmd \in Commands \cup {[kind |-> "none"]}
    /\ pc \in Running => cmd \in Commands
    /\ used \subseteq Tokens
    /\ seen \in Disks \cup {NoInventory}
    /\ succeeded \in BOOLEAN
    /\ pending \in BOOLEAN
    /\ flags \subseteq {"root", "esp", "prov"}
    /\ mounts \subseteq {"root", "esp", "prov"}
    /\ slot \in Disks
    /\ layout \in [Disks -> Layouts]
    /\ os \in [Disks -> Trees]
    /\ launcher \in [Disks -> BOOLEAN]
    /\ backup \in [Disks -> Backups]
    /\ dirty \subseteq {"os", "launcher", "backup"}
    /\ ramOs \in Trees
    /\ ramLauncher \in BOOLEAN
    /\ qspi \in Qspi
    /\ before \in Qspi
    /\ tty \in {"open", "hung"}
    /\ out \in Seq(Markers)

\* Recovery booted on a board with factory QSPI and a customer's NVMe.
Init ==
    /\ pc = "idle"
    /\ cmd = [kind |-> "none"]
    /\ used = {}
    /\ seen = NoInventory
    /\ succeeded = FALSE
    /\ pending = FALSE
    /\ flags = {}
    /\ mounts = {}
    /\ slot \in Disks
    /\ layout = [d \in Disks |-> "foreign"]
    /\ os = [d \in Disks |-> "none"]
    /\ launcher = [d \in Disks |-> FALSE]
    /\ backup = [d \in Disks |-> "none"]
    /\ dirty = {}
    /\ ramOs = "none"
    /\ ramLauncher = FALSE
    /\ qspi = "factory"
    /\ before = "factory"
    /\ tty = "open"
    /\ out = <<>>

-----------------------------------------------------------------------------
\* The next command to run is p, and it can run: helm-provision has no trap
\* to honour first, and the terminal takes what the command prints.
At(p) ==
    /\ pc = p
    /\ ~(pending /\ p \in ProvisionSteps)
    /\ p \in Printing => tty = "open"

\* A marker printed on a hung-up terminal is lost.
Emit(m) == out' = IF tty = "open" THEN Append(out, m) ELSE out

\* The cleanup functions: sync, then unmount what the flags say is mounted.
\* `umount || :` may leave a busy file system mounted; the flag is cleared
\* all the same.
Cleanup(owned) ==
    LET claimed == flags \cap owned IN
    /\ \E stuck \in SUBSET (claimed \cap mounts) :
          /\ stuck # {} => "step" \in Faults
          /\ mounts' = mounts \ (claimed \ stuck)
    /\ flags' = flags \ owned
    /\ dirty' = IF claimed = {} THEN dirty ELSE {}

-----------------------------------------------------------------------------
(* helm-provision up to the first write *)

\* The shell starts a run.  Lines 280-347 reject bad options and an invalid
\* session before any marker is armed and change nothing.  `accepted` says
\* whether the confirmations of lines 356-380 will match.
Start(c) ==
    /\ pc = "idle"
    /\ tty = "open"
    /\ c.session \notin used
    /\ pc' = "guards"
    /\ cmd' = c
    /\ used' = used \cup {c.session}
    /\ seen' = NoInventory
    /\ before' = qspi
    /\ succeeded' = FALSE
    /\ pending' = FALSE
    /\ flags' = {}
    /\ UNCHANGED <<mounts, slot, store, ram, qspi, tty, out>>

Guards ==
    /\ At("guards")
    /\ pc' = IF cmd.accepted THEN "inspect" ELSE "finish"
    /\ UNCHANGED <<run, succeeded, pending, flags, mounts, slot, store, ram,
                   qspi, tty, out>>

\* run_preflight: both inspectors, then the inventory fingerprint.
RunPreflight ==
    /\ At("inspect")
    /\ seen' = slot
    /\ pc' = IF cmd.kind = "preflight" THEN "report" ELSE "confirm"
    /\ UNCHANGED <<cmd, used, before, succeeded, pending, flags, mounts, slot,
                   store, ram, qspi, tty, out>>

ReportPreflight ==
    /\ At("report")
    /\ succeeded' = TRUE
    /\ Emit([Marker("preflight-success", cmd.session) EXCEPT !.inventory = seen])
    /\ pc' = "finish"
    /\ UNCHANGED <<run, pending, flags, mounts, slot, store, ram, qspi, tty>>

\* Variant that forgets to compare the inventory.
ConfirmAnything ==
    /\ At("confirm")
    /\ pc' = "announce"
    /\ UNCHANGED <<run, succeeded, pending, flags, mounts, slot, store, ram,
                   qspi, tty, out>>

ConfirmInventory ==
    /\ At("confirm")
    /\ pc' = IF cmd.inventory \in {NoInventory, seen} THEN "announce" ELSE "finish"
    /\ UNCHANGED <<run, succeeded, pending, flags, mounts, slot, store, ram,
                   qspi, tty, out>>

\* emit_nvme_progress, then helm-install is started.
AnnounceInstall ==
    /\ At("announce")
    /\ Emit(Progress(1, cmd.session))
    /\ pc' = "checkTarget"
    /\ UNCHANGED <<run, succeeded, pending, flags, mounts, slot, store, ram,
                   qspi, tty>>

-----------------------------------------------------------------------------
(* helm-install: the NVMe *)

\* What helm-install finds under its root mount point: the new file system,
\* or, when that is not mounted, a directory of the recovery RAM disk.
RootTree == IF "root" \in mounts THEN os[slot] ELSE ramOs

WriteRootTree(tree) ==
    IF "root" \in mounts
    THEN /\ os' = [os EXCEPT ![slot] = tree]
         /\ dirty' = dirty \cup {"os"}
         /\ UNCHANGED ramOs
    ELSE /\ ramOs' = tree
         /\ UNCHANGED <<os, dirty>>

WriteLauncher ==
    IF "esp" \in mounts
    THEN /\ launcher' = [launcher EXCEPT ![slot] = TRUE]
         /\ dirty' = dirty \cup {"launcher"}
         /\ UNCHANGED ramLauncher
    ELSE /\ ramLauncher' = TRUE
         /\ UNCHANGED <<launcher, dirty>>

\* Lines 519-537; assert_unmounted refuses a mounted target.
CheckTarget ==
    /\ At("checkTarget")
    /\ pc' = IF mounts = {} THEN "partition" ELSE "installFailed"
    /\ UNCHANGED <<run, succeeded, pending, flags, mounts, slot, store, ram,
                   qspi, tty, out>>

Wipe ==
    /\ layout' = [layout EXCEPT ![slot] = "blank"]
    /\ os' = [os EXCEPT ![slot] = "none"]
    /\ launcher' = [launcher EXCEPT ![slot] = FALSE]
    /\ backup' = [backup EXCEPT ![slot] = "none"]
    /\ UNCHANGED dirty

\* sfdisk, partprobe and the wait for both partition nodes.  It may fail
\* after the old table is gone.
Partition ==
    /\ \/ At("partition") /\ pc' = "format"
       \/ /\ pc = "partition"
          /\ "step" \in Faults \/ tty = "hung"
          /\ pc' = "installFailed"
    /\ Wipe
    /\ UNCHANGED <<run, succeeded, pending, flags, mounts, slot, ram, qspi, tty, out>>

Format ==
    /\ At("format")
    /\ layout' = [layout EXCEPT ![slot] = "formatted"]
    /\ pc' = "mountRoot"
    /\ UNCHANGED <<run, succeeded, pending, flags, mounts, slot, os, launcher,
                   backup, dirty, ram, qspi, tty, out>>

MountRoot ==
    /\ At("mountRoot")
    /\ mounts' = mounts \cup {"root"}
    /\ flags' = flags \cup {"root"}
    /\ pc' = "extract"
    /\ UNCHANGED <<run, succeeded, pending, slot, store, ram, qspi, tty, out>>

\* read_archive_with_tar and the checks of the files it must have produced.
Extract ==
    /\ At("extract")
    /\ WriteRootTree("files")
    /\ pc' = "configure"
    /\ UNCHANGED <<run, succeeded, pending, flags, mounts, slot, layout,
                   launcher, backup, ramLauncher, qspi, tty, out>>

\* configure_installed_boot: the module's extlinux entry becomes the default.
Configure ==
    /\ At("configure")
    /\ IF RootTree # "none"
       THEN WriteRootTree("bootable") /\ pc' = "mountEsp"
       ELSE pc' = "installFailed" /\ UNCHANGED <<os, dirty, ramOs>>
    /\ UNCHANGED <<run, succeeded, pending, flags, mounts, slot, layout,
                   launcher, backup, ramLauncher, qspi, tty, out>>

MountEsp ==
    /\ At("mountEsp")
    /\ mounts' = mounts \cup {"esp"}
    /\ flags' = flags \cup {"esp"}
    /\ pc' = "copyLauncher"
    /\ UNCHANGED <<run, succeeded, pending, slot, store, ram, qspi, tty, out>>

\* cp and cmp of the EFI launcher, taken from the installed tree.
CopyLauncher ==
    /\ At("copyLauncher")
    /\ IF RootTree # "none"
       THEN WriteLauncher /\ pc' = "resetSync"
       ELSE pc' = "installFailed" /\ UNCHANGED <<launcher, dirty, ramLauncher>>
    /\ UNCHANGED <<run, succeeded, pending, flags, mounts, slot, layout, os,
                   backup, ramOs, qspi, tty, out>>

\* helm-boot-success reset, then sync.  A failed reset only warns, but on a
\* hung-up terminal the warning itself fails and `set -e` ends the script.
ResetSync ==
    /\ pc = "resetSync"
    /\ \/ pc' = "umountEsp" /\ dirty' = {}
       \/ /\ "step" \in Faults /\ tty = "hung"
          /\ pc' = "installFailed"
          /\ UNCHANGED dirty
    /\ UNCHANGED <<run, succeeded, pending, flags, mounts, slot, layout, os,
                   launcher, backup, ram, qspi, tty, out>>

\* Variant of the last unmounts whose failure is ignored (`umount || :`).
UnmountLeniently(name, next) ==
    /\ mounts' = mounts \ {name}
    /\ flags' = flags \ {name}
    /\ dirty' = dirty \ (IF name = "esp" THEN {"launcher"} ELSE {"os"})
    /\ pc' = next
    /\ UNCHANGED <<run, succeeded, pending, slot, layout, os, launcher, backup,
                   ram, qspi, tty, out>>

\* umount under `set -e`: it fails when nothing is mounted there.
Unmount(name, next) ==
    /\ IF name \in mounts
       THEN /\ mounts' = mounts \ {name}
            /\ flags' = flags \ {name}
            /\ dirty' = dirty \ (IF name = "esp" THEN {"launcher"} ELSE {"os"})
            /\ pc' = next
       ELSE /\ pc' = "installFailed"
            /\ UNCHANGED <<mounts, flags, dirty>>
    /\ UNCHANGED <<run, succeeded, pending, slot, layout, os, launcher, backup,
                   ram, qspi, tty, out>>

UmountEsp  == At("umountEsp") /\ Unmount("esp", "umountRoot")
UmountRoot == At("umountRoot") /\ Unmount("root", "installed")

\* The trap is cleared and the completion message printed.
InstallDone ==
    /\ At("installed")
    /\ pc' = "mount"
    /\ UNCHANGED <<run, succeeded, pending, flags, mounts, slot, store, ram,
                   qspi, tty, out>>

\* helm-install's EXIT trap; helm-provision then stops under `set -e`.
InstallFails ==
    /\ pc = "installFailed"
    /\ Cleanup({"root", "esp"})
    /\ pc' = "finish"
    /\ UNCHANGED <<run, succeeded, pending, slot, layout, os, launcher, backup,
                   ram, qspi, tty, out>>

-----------------------------------------------------------------------------
(* helm-provision mounts the new root; helm-qspi-install rewrites the QSPI *)

MountNewRoot ==
    /\ At("mount")
    /\ layout[slot] = "formatted"
    /\ mounts' = mounts \cup {"prov"}
    /\ flags' = flags \cup {"prov"}
    /\ pc' = "checkBackup"
    /\ UNCHANGED <<run, succeeded, pending, slot, store, ram, qspi, tty, out>>

CheckBackup ==
    /\ At("checkBackup")
    /\ pc' = IF backup[slot] = "none" THEN "checkQspi" ELSE "finish"
    /\ UNCHANGED <<run, succeeded, pending, flags, mounts, slot, store, ram,
                   qspi, tty, out>>

\* helm-qspi-install's guards, ending with progress step 2.
CheckQspi ==
    /\ At("checkQspi")
    /\ IF backup[slot] = "none"
       THEN Emit(Progress(2, cmd.session)) /\ pc' = "saveBackup"
       ELSE pc' = "finish" /\ UNCHANGED out
    /\ UNCHANGED <<run, succeeded, pending, flags, mounts, slot, store, ram,
                   qspi, tty>>

\* dd copies the QSPI; when the copy is incomplete the script ends.
SaveBackup ==
    /\ At("saveBackup")
    /\ \/ /\ backup' = [backup EXCEPT ![slot] = qspi]
          /\ pc' = "recordBackup"
       \/ /\ "step" \in Faults
          /\ backup' = [backup EXCEPT ![slot] = "partial"]
          /\ pc' = "finish"
    /\ dirty' = dirty \cup {"backup"}
    /\ UNCHANGED <<run, succeeded, pending, flags, mounts, slot, layout, os,
                   launcher, ram, qspi, tty, out>>

\* Variant without conv=fsync and without sync.
RecordBackupUnsynced ==
    /\ At("recordBackup")
    /\ pc' = "warn"
    /\ UNCHANGED <<run, succeeded, pending, flags, mounts, slot, layout, os,
                   launcher, backup, dirty, ram, qspi, tty, out>>

\* dd's conv=fsync, the size check, the checksum file and sync.
RecordBackup ==
    /\ At("recordBackup")
    /\ dirty' = {}
    /\ pc' = "warn"
    /\ UNCHANGED <<run, succeeded, pending, flags, mounts, slot, layout, os,
                   launcher, backup, ram, qspi, tty, out>>

WarnErase ==
    /\ At("warn")
    /\ Emit(Progress(3, cmd.session))
    /\ pc' = "erase"
    /\ UNCHANGED <<run, succeeded, pending, flags, mounts, slot, store, ram,
                   qspi, tty>>

\* flashcp erases, then writes and verifies.  It prints nothing.
Erase ==
    /\ At("erase")
    /\ qspi' = "torn"
    /\ pc' = "program"
    /\ UNCHANGED <<run, succeeded, pending, flags, mounts, slot, store, ram, tty, out>>

\* With faults, flashcp may report success over bad contents.
Program ==
    /\ At("program")
    /\ \/ qspi' = "bundle"
       \/ "step" \in Faults /\ qspi' = "torn"
    /\ pc' = "announceVerify"
    /\ UNCHANGED <<run, succeeded, pending, flags, mounts, slot, store, ram, tty, out>>

AnnounceVerify ==
    /\ At("announceVerify")
    /\ Emit(Progress(4, cmd.session))
    /\ pc' = "readback"
    /\ UNCHANGED <<run, succeeded, pending, flags, mounts, slot, store, ram,
                   qspi, tty>>

\* Variant that trusts flashcp's exit status.
ReadbackUnchecked ==
    /\ At("readback")
    /\ dirty' = {}
    /\ pc' = "flashed"
    /\ UNCHANGED <<run, succeeded, pending, flags, mounts, slot, layout, os,
                   launcher, backup, ram, qspi, tty, out>>

\* Full-device readback against the image's digest, then sync.
Readback ==
    /\ At("readback")
    /\ IF qspi = "bundle"
       THEN pc' = "flashed" /\ dirty' = {}
       ELSE pc' = "finish" /\ UNCHANGED dirty
    /\ UNCHANGED <<run, succeeded, pending, flags, mounts, slot, layout, os,
                   launcher, backup, ram, qspi, tty, out>>

QspiDone ==
    /\ At("flashed")
    /\ pc' = "unmount"
    /\ UNCHANGED <<run, succeeded, pending, flags, mounts, slot, store, ram,
                   qspi, tty, out>>

UnmountNewRoot ==
    /\ At("unmount")
    /\ mounts' = mounts \ {"prov"}
    /\ flags' = flags \ {"prov"}
    /\ dirty' = {}
    /\ succeeded' = TRUE
    /\ pc' = "success"
    /\ UNCHANGED <<run, pending, slot, layout, os, launcher, backup, ram, qspi, tty, out>>

ReportSuccess ==
    /\ At("success")
    /\ Emit(Marker("success", cmd.session))
    /\ pc' = "finish"
    /\ UNCHANGED <<run, succeeded, pending, flags, mounts, slot, store, ram,
                   qspi, tty>>

\* Variant whose EXIT trap always reports a failure.
FinishAlwaysFails ==
    /\ pc = "finish"
    /\ Cleanup({"prov"})
    /\ Emit(Marker("failure", cmd.session))
    /\ pc' = "idle"
    /\ UNCHANGED <<run, succeeded, pending, slot, layout, os, launcher, backup,
                   ram, qspi, tty>>

\* Variant whose EXIT trap never reports.
FinishSilently ==
    /\ pc = "finish"
    /\ Cleanup({"prov"})
    /\ pc' = "idle"
    /\ UNCHANGED <<run, succeeded, pending, slot, layout, os, launcher, backup,
                   ram, qspi, tty, out>>

\* The EXIT trap of helm-provision.
Finish ==
    /\ pc = "finish"
    /\ Cleanup({"prov"})
    /\ IF succeeded THEN UNCHANGED out ELSE Emit(Marker("failure", cmd.session))
    /\ pc' = "idle"
    /\ UNCHANGED <<run, succeeded, pending, slot, layout, os, launcher, backup,
                   ram, qspi, tty>>

-----------------------------------------------------------------------------
(* Failures and signals *)

\* A command fails without effect, or cannot print: `set -e` ends the script.
StepFails ==
    /\ \/ pc \in Fallible /\ "step" \in Faults
       \/ pc \in Printing /\ tty = "hung"
    /\ ~(pending /\ pc \in ProvisionSteps)
    /\ pc' = IF pc \in InstallSteps THEN "installFailed" ELSE "finish"
    /\ UNCHANGED <<run, succeeded, pending, flags, mounts, slot, store, ram,
                   qspi, tty, out>>

\* helm-provision catches SIGTERM; a shell runs the trap, exit 130, only when
\* the child it waits for has ended.
TermProvision ==
    /\ "term" \in Faults
    /\ pc \in Running \ {"finish"}
    /\ pending' = TRUE
    /\ UNCHANGED <<pc, run, succeeded, flags, mounts, slot, store, ram, qspi, tty, out>>

\* Variant that does not wait for the child to end.
HonourTermAtOnce ==
    /\ pending
    /\ pc \in Running \ {"finish"}
    /\ pc' = "finish"
    /\ UNCHANGED <<run, succeeded, pending, flags, mounts, slot, store, ram,
                   qspi, tty, out>>

HonourTerm ==
    /\ pending
    /\ pc \in ProvisionSteps
    /\ pc' = "finish"
    /\ UNCHANGED <<run, succeeded, pending, flags, mounts, slot, store, ram,
                   qspi, tty, out>>

\* finish() resets its traps first, so SIGTERM now ends it half-way.
TermFinish ==
    /\ "term" \in Faults
    /\ pc = "finish"
    /\ pc' = "idle"
    /\ flags' = {}
    /\ UNCHANGED <<run, succeeded, pending, mounts, slot, store, ram, qspi, tty, out>>

\* helm-install catches SIGTERM with cleanup(), which does not exit: the
\* script goes on with whatever command is next, its mounts gone.
TermInstaller ==
    /\ "term" \in Faults
    /\ pc \in TrappedSteps
    /\ Cleanup({"root", "esp"})
    /\ UNCHANGED <<pc, run, succeeded, pending, slot, layout, os, launcher,
                   backup, ram, qspi, tty, out>>

\* Before the trap is set and after it is cleared SIGTERM ends helm-install.
TermInstallerUntrapped ==
    /\ "term" \in Faults
    /\ pc \in {"checkTarget", "installed"}
    /\ pc' = "finish"
    /\ UNCHANGED <<run, succeeded, pending, flags, mounts, slot, store, ram,
                   qspi, tty, out>>

\* The recovery cable is pulled: the gadget driver hangs up the terminal.
\* The console shell has no controlling terminal and helm-provision ignores
\* SIGHUP, so nothing is killed, but every later write fails.
Hangup ==
    /\ "hangup" \in Faults
    /\ tty = "open"
    /\ pc # "off"
    /\ tty' = "hung"
    /\ UNCHANGED <<pc, run, succeeded, pending, flags, mounts, slot, store, ram,
                   qspi, out>>

\* The console loop of recovery-init starts a new shell once the old one has
\* read end-of-file, which it does only after its child has ended.
RestartConsole ==
    /\ pc = "idle"
    /\ tty = "hung"
    /\ tty' = "open"
    /\ UNCHANGED <<pc, run, succeeded, pending, flags, mounts, slot, store, ram,
                   qspi, out>>

\* Power is cut: RAM is lost, and any part of what was not yet stable.
PowerLoss ==
    /\ "power" \in Faults
    /\ pc # "off"
    /\ pc' = "off"
    /\ \E lost \in SUBSET dirty :
          /\ os' = IF "os" \in lost THEN [os EXCEPT ![slot] = "none"] ELSE os
          /\ launcher' = IF "launcher" \in lost
                         THEN [launcher EXCEPT ![slot] = FALSE] ELSE launcher
          /\ backup' = IF "backup" \in lost
                       THEN [backup EXCEPT ![slot] = "partial"] ELSE backup
    /\ dirty' = {}
    /\ mounts' = {}
    /\ flags' = {}
    /\ ramOs' = "none"
    /\ ramLauncher' = FALSE
    /\ pending' = FALSE
    /\ UNCHANGED <<run, succeeded, slot, layout, qspi, tty, out>>

\* The board is RAM-booted into recovery again.
Reboot ==
    /\ pc = "off"
    /\ pc' = "idle"
    /\ tty' = "open"
    /\ UNCHANGED <<run, succeeded, pending, flags, mounts, slot, store, ram,
                   qspi, out>>

\* Between runs another NVMe may come to be /dev/nvme0n1.
SwapDisk ==
    /\ "swap" \in Faults
    /\ pc = "idle"
    /\ mounts = {}
    /\ slot' \in Disks
    /\ UNCHANGED <<pc, run, succeeded, pending, flags, mounts, store, ram, qspi,
                   tty, out>>

-----------------------------------------------------------------------------
Provision ==
    \/ Guards \/ RunPreflight \/ ReportPreflight \/ ConfirmInventory
    \/ AnnounceInstall \/ MountNewRoot \/ CheckBackup \/ UnmountNewRoot
    \/ ReportSuccess \/ Finish \/ HonourTerm

Install ==
    \/ CheckTarget \/ Partition \/ Format \/ MountRoot \/ Extract \/ Configure
    \/ MountEsp \/ CopyLauncher \/ ResetSync \/ UmountEsp \/ UmountRoot
    \/ InstallDone \/ InstallFails

QspiInstall ==
    \/ CheckQspi \/ SaveBackup \/ RecordBackup \/ WarnErase \/ Erase \/ Program
    \/ AnnounceVerify \/ Readback \/ QspiDone

\* The scripts' own steps: once started they run, whatever the host does.
Scripts == Provision \/ Install \/ QspiInstall \/ StepFails

Environment ==
    \/ TermProvision \/ TermFinish \/ TermInstaller \/ TermInstallerUntrapped
    \/ Hangup \/ RestartConsole \/ PowerLoss \/ Reboot \/ SwapDisk

Next == (\E c \in Commands : Start(c)) \/ Scripts \/ Environment

Spec == Init /\ [][Next]_vars
FairSpec == Spec /\ WF_vars(Scripts)

-----------------------------------------------------------------------------
\* Whenever the QSPI no longer holds what it held when the run began, a
\* complete, stable copy of that is on an NVMe: helm-qspi-install's backup
\* before its erase, across failures, signals and power loss.
BackupCoversLoss ==
    qspi # before => /\ \E d \in Disks : backup[d] = before
                     /\ "backup" \notin dirty

\* The success marker tells the truth and stays true: bootable system and
\* launcher on the NVMe, backup beside them, verified QSPI, nothing unstable
\* and nothing mounted; power may be cut right after it.
Provisioned ==
    /\ qspi = "bundle"
    /\ dirty = {}
    /\ mounts = {}
    /\ \E d \in Disks : /\ layout[d] = "formatted"
                        /\ os[d] = "bootable"
                        /\ launcher[d]
                        /\ backup[d] = before

\* What has become of the storage, as one word.
Storage == CASE qspi = "factory" /\ \A d \in Disks : layout[d] = "foreign" -> "untouched"
             [] Provisioned -> "provisioned"
             [] OTHER -> "changed"

SuccessMeansProvisioned ==
    (/\ pc \in {"idle", "off", "finish"}
     /\ \E i \in 1..Len(out) : out[i].kind = "success" /\ out[i].session = cmd.session)
        => Provisioned

\* helm-install returns zero only with the system and launcher stable on the
\* selected NVMe and its mounts gone, although its signal handler unmounts
\* both file systems and lets the script write on into RAM.
InstallerSuccessMeansInstalled ==
    pc = "mount" => /\ layout[slot] = "formatted"
                    /\ os[slot] = "bootable"
                    /\ launcher[slot]
                    /\ dirty = {}
                    /\ mounts = {}

\* For each session at most one terminal marker, and nothing after it;
\* progress strictly increases, and success comes only after step 4.
MarkersInOrder ==
    \A j \in 1..Len(out) :
        /\ \A i \in 1..(j - 1) : out[i].session = out[j].session =>
              /\ ~Terminal(out[i])
              /\ out[j].kind = "progress" => out[i].step < out[j].step
        /\ out[j].kind = "success" =>
              \E i \in 1..(j - 1) : out[i] = Progress(4, out[j].session)

\* The scripts change storage only in an accepted install run, and an NVMe
\* only if the run's confirmed inventory, when it has one, names that NVMe.
\* (A power cut may still lose what an earlier run left unstable.)
WritesOnlyConfirmed ==
    [][/\ qspi' # qspi => cmd.kind = "install" /\ cmd.accepted
       /\ \A d \in Disks :
            (/\ pc' # "off"
             /\ <<layout'[d], os'[d], launcher'[d], backup'[d]>>
                  # <<layout[d], os[d], launcher[d], backup[d]>>)
              => /\ cmd.kind = "install"
                 /\ cmd.accepted
                 /\ cmd.inventory \in {NoInventory, d}]_vars

\* Pulling the cable or terminating helm-provision or helm-install never
\* leaves the QSPI half written (helm-provision:351).  For Faults without
\* "step" and "power".
FlashNeverTorn == pc = "idle" => qspi # "torn"

\* Every run ends with a terminal marker of its session.  For Faults within
\* {"step", "swap"}.
OutcomeReported ==
    \A t \in Tokens :
        (pc \in Running /\ cmd.session = t)
            ~> \E i \in 1..Len(out) : Terminal(out[i]) /\ out[i].session = t

\* What helm-provision:351-352 says of a pulled cable: "The operation
\* continues on-target".  For Faults = {"hangup"}: a run that has rewritten
\* the QSPI goes on to verify it and succeed.
OperationContinues == pc = "idle" /\ qspi # before => succeeded

\* What helm-provision:421-422 and helm-qspi-install:345-347 refuse: a backup
\* written over an existing one.  On a board that came with the factory QSPI
\* no copy of a rewritten QSPI is the only copy there is.
ExistingBackupKept ==
    (\E d \in Disks : backup[d] \in {"torn", "bundle"})
        => \E d \in Disks : backup[d] = "factory"
=============================================================================
