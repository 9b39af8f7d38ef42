---------------------------- MODULE TargetProofs ----------------------------
(***************************************************************************)
(* What holds of Target for every set of NVMe identities and tokens and    *)
(* every combination of faults: type correctness; that the QSPI is never   *)
(* rewritten without a stable backup of what it held; that helm-install    *)
(* returns zero, and helm-provision reports success, only when it is true; *)
(* that the markers of a session are in order and end with at most one     *)
(* terminal one; and that the scripts write only what was confirmed.       *)
(***************************************************************************)
EXTENDS Target, TLAPS

\* Printing keeps the output a sequence of markers, whatever the terminal does.
LEMMA EmitType ==
    ASSUME out \in Seq(Markers), NEW m \in Markers, Emit(m)
    PROVE  out' \in Seq(Markers)
BY DEF Emit

\* A run knows its session token, so every marker it prints is typed.
LEMMA RunMarkers ==
    ASSUME TypeOK, pc \in Running
    PROVE  /\ Marker("success", cmd.session) \in Markers
           /\ Marker("failure", cmd.session) \in Markers
           /\ \A n \in 0..4 : Progress(n, cmd.session) \in Markers
           /\ [Marker("preflight-success", cmd.session) EXCEPT !.inventory = seen]
                \in Markers
<1>1. cmd.session \in Tokens /\ seen \in Disks \cup {NoInventory}
  BY DEF TypeOK, Commands
<1>2. /\ Marker("success", cmd.session) \in Markers
      /\ Marker("failure", cmd.session) \in Markers
  BY <1>1 DEF Marker, Markers
<1>3. \A n \in 0..4 : Progress(n, cmd.session) \in Markers
  BY <1>1 DEF Progress, Marker, Markers
<1>4. [Marker("preflight-success", cmd.session) EXCEPT !.inventory = seen]
        \in Markers
  BY <1>1 DEF Marker, Markers
<1> QED
  BY <1>2, <1>3, <1>4

\* Updating what the selected NVMe holds keeps the types of the contents.
LEMMA ContentType ==
    ASSUME TypeOK
    PROVE  /\ \A l \in Layouts : [layout EXCEPT ![slot] = l] \in [Disks -> Layouts]
           /\ \A t \in Trees : [os EXCEPT ![slot] = t] \in [Disks -> Trees]
           /\ \A b \in BOOLEAN :
                  [launcher EXCEPT ![slot] = b] \in [Disks -> BOOLEAN]
           /\ \A b \in Backups : [backup EXCEPT ![slot] = b] \in [Disks -> Backups]
BY DEF TypeOK

\* Writing below a mount point of helm-install keeps all types.
LEMMA WriteType ==
    ASSUME TypeOK
    PROVE  /\ \A t \in Trees : WriteRootTree(t) =>
                  /\ os' \in [Disks -> Trees]
                  /\ ramOs' \in Trees
                  /\ dirty' \subseteq {"os", "launcher", "backup"}
           /\ WriteLauncher =>
                  /\ launcher' \in [Disks -> BOOLEAN]
                  /\ ramLauncher' \in BOOLEAN
                  /\ dirty' \subseteq {"os", "launcher", "backup"}
<1>1. ASSUME NEW t \in Trees, WriteRootTree(t)
      PROVE  /\ os' \in [Disks -> Trees]
             /\ ramOs' \in Trees
             /\ dirty' \subseteq {"os", "launcher", "backup"}
  BY <1>1, ContentType DEF WriteRootTree, TypeOK
<1>2. ASSUME WriteLauncher
      PROVE  /\ launcher' \in [Disks -> BOOLEAN]
             /\ ramLauncher' \in BOOLEAN
             /\ dirty' \subseteq {"os", "launcher", "backup"}
  BY <1>2, ContentType DEF WriteLauncher, TypeOK
<1> QED
  BY <1>1, <1>2

\* The cleanup functions keep the types of what they change.
LEMMA CleanupType ==
    ASSUME TypeOK, NEW owned, Cleanup(owned)
    PROVE  /\ mounts' \subseteq {"root", "esp", "prov"}
           /\ flags' \subseteq {"root", "esp", "prov"}
           /\ dirty' \subseteq {"os", "launcher", "backup"}
BY DEF TypeOK, Cleanup

LEMMA TypeInit == Init => TypeOK
<1> SUFFICES ASSUME Init PROVE TypeOK
  OBVIOUS
<1>1. pc \in Running \cup {"idle", "off"} /\ ~(pc \in Running)
  BY DEF Init, Running, ProvisionSteps, InstallSteps, TrappedSteps, QspiSteps
<1>2. launcher \in [Disks -> BOOLEAN]
  BY DEF Init
<1>3. /\ layout \in [Disks -> Layouts]
      /\ os \in [Disks -> Trees]
      /\ backup \in [Disks -> Backups]
  BY DEF Init, Layouts, Trees, Backups
<1>4. /\ used \subseteq Tokens
      /\ flags \subseteq {"root", "esp", "prov"}
      /\ mounts \subseteq {"root", "esp", "prov"}
      /\ dirty \subseteq {"os", "launcher", "backup"}
      /\ out \in Seq(Markers)
  BY DEF Init
<1>5. /\ cmd \in Commands \cup {[kind |-> "none"]}
      /\ seen \in Disks \cup {NoInventory}
      /\ slot \in Disks
      /\ ramOs \in Trees
      /\ qspi \in Qspi
      /\ before \in Qspi
      /\ tty \in {"open", "hung"}
  BY DEF Init, Trees, Qspi
<1>6. succeeded \in BOOLEAN /\ pending \in BOOLEAN /\ ramLauncher \in BOOLEAN
  BY DEF Init
<1> QED
  BY <1>1, <1>2, <1>3, <1>4, <1>5, <1>6 DEF TypeOK

LEMMA TypeNext == TypeOK /\ [Next]_vars => TypeOK'
<1> SUFFICES ASSUME TypeOK, [Next]_vars PROVE TypeOK'
  OBVIOUS
<1> USE DEF TypeOK, Running, ProvisionSteps, InstallSteps, TrappedSteps, QspiSteps, run,
    store, ram, At
<1>1. ASSUME NEW c \in Commands, Start(c) PROVE TypeOK'
  BY <1>1 DEF Start, Commands
<1>2. CASE Guards
  BY <1>2 DEF Guards
<1>3. CASE RunPreflight
  BY <1>3 DEF RunPreflight
<1>4. CASE ReportPreflight
  BY <1>4, RunMarkers, EmitType DEF ReportPreflight
<1>5. CASE ConfirmInventory
  BY <1>5 DEF ConfirmInventory
<1>6. CASE AnnounceInstall
  BY <1>6, RunMarkers, EmitType DEF AnnounceInstall
<1>7. CASE MountNewRoot
  BY <1>7 DEF MountNewRoot
<1>8. CASE CheckBackup
  BY <1>8 DEF CheckBackup
<1>9. CASE UnmountNewRoot
  BY <1>9 DEF UnmountNewRoot
<1>10. CASE ReportSuccess
  BY <1>10, RunMarkers, EmitType DEF ReportSuccess
<1>11. CASE Finish
  BY <1>11, RunMarkers, EmitType, CleanupType DEF Finish
<1>12. CASE HonourTerm
  BY <1>12 DEF HonourTerm
<1>13. CASE CheckTarget
  BY <1>13 DEF CheckTarget
<1>14. CASE Partition
  BY <1>14, ContentType DEF Partition, Wipe, Layouts, Trees, Backups
<1>15. CASE Format
  BY <1>15, ContentType DEF Format, Layouts
<1>16. CASE MountRoot
  BY <1>16 DEF MountRoot
<1>17. CASE Extract
  <2>1. os' \in [Disks -> Trees] /\ ramOs' \in Trees
        /\ dirty' \subseteq {"os", "launcher", "backup"}
    BY <1>17, WriteType DEF Extract, Trees
  <2>2. /\ pc = "extract" /\ pc' = "configure"
        /\ UNCHANGED <<run, succeeded, pending, flags, mounts, slot, layout,
                       launcher, backup, ramLauncher, qspi, tty, out>>
    BY <1>17 DEF Extract
  <2> QED
    BY <2>1, <2>2
<1>18. CASE Configure
  <2>1. /\ WriteRootTree("bootable") \/ UNCHANGED <<os, dirty, ramOs>>
        /\ pc = "configure" /\ pc' \in {"mountEsp", "installFailed"}
        /\ UNCHANGED <<run, succeeded, pending, flags, mounts, slot, layout,
                       launcher, backup, ramLauncher, qspi, tty, out>>
    BY <1>18 DEF Configure
  <2>2. os' \in [Disks -> Trees] /\ ramOs' \in Trees
        /\ dirty' \subseteq {"os", "launcher", "backup"}
    BY <2>1, WriteType DEF Trees
  <2> QED
    BY <2>1, <2>2
<1>19. CASE MountEsp
  BY <1>19 DEF MountEsp
<1>20. CASE CopyLauncher
  <2>1. /\ WriteLauncher \/ UNCHANGED <<launcher, dirty, ramLauncher>>
        /\ pc = "copyLauncher" /\ pc' \in {"resetSync", "installFailed"}
        /\ UNCHANGED <<run, succeeded, pending, flags, mounts, slot, layout, os,
                       backup, ramOs, qspi, tty, out>>
    BY <1>20 DEF CopyLauncher
  <2>2. launcher' \in [Disks -> BOOLEAN] /\ ramLauncher' \in BOOLEAN
        /\ dirty' \subseteq {"os", "launcher", "backup"}
    BY <2>1, WriteType
  <2> QED
    BY <2>1, <2>2
<1>21. CASE ResetSync
  BY <1>21 DEF ResetSync
<1>22. CASE UmountEsp
  BY <1>22 DEF UmountEsp, Unmount
<1>23. CASE UmountRoot
  BY <1>23 DEF UmountRoot, Unmount
<1>24. CASE InstallDone
  BY <1>24 DEF InstallDone
<1>25. CASE InstallFails
  BY <1>25, CleanupType DEF InstallFails
<1>26. CASE CheckQspi
  BY <1>26, RunMarkers, EmitType DEF CheckQspi
<1>27. CASE SaveBackup
  BY <1>27, ContentType DEF SaveBackup, Backups
<1>28. CASE RecordBackup
  BY <1>28 DEF RecordBackup
<1>29. CASE WarnErase
  BY <1>29, RunMarkers, EmitType DEF WarnErase
<1>30. CASE Erase
  BY <1>30 DEF Erase, Qspi
<1>31. CASE Program
  BY <1>31 DEF Program, Qspi
<1>32. CASE AnnounceVerify
  BY <1>32, RunMarkers, EmitType DEF AnnounceVerify
<1>33. CASE Readback
  BY <1>33 DEF Readback
<1>34. CASE QspiDone
  BY <1>34 DEF QspiDone
<1>35. CASE StepFails
  BY <1>35 DEF StepFails, Fallible, Printing
<1>36. CASE TermProvision
  BY <1>36 DEF TermProvision
<1>37. CASE TermFinish
  BY <1>37 DEF TermFinish
<1>38. CASE TermInstaller
  BY <1>38, CleanupType DEF TermInstaller
<1>39. CASE TermInstallerUntrapped
  BY <1>39 DEF TermInstallerUntrapped
<1>40. CASE Hangup
  BY <1>40 DEF Hangup
<1>41. CASE RestartConsole
  BY <1>41 DEF RestartConsole
<1>42. CASE PowerLoss
  <2>1. /\ os' \in [Disks -> Trees]
        /\ launcher' \in [Disks -> BOOLEAN]
        /\ backup' \in [Disks -> Backups]
    <3>1. "none" \in Trees /\ FALSE \in BOOLEAN /\ "partial" \in Backups
      BY DEF Trees, Backups
    <3>2. /\ os' = os \/ os' = [os EXCEPT ![slot] = "none"]
          /\ launcher' = launcher \/ launcher' = [launcher EXCEPT ![slot] = FALSE]
          /\ backup' = backup \/ backup' = [backup EXCEPT ![slot] = "partial"]
      BY <1>42 DEF PowerLoss
    <3>3. os' \in [Disks -> Trees]
      BY <3>1, <3>2, ContentType
    <3>4. launcher' \in [Disks -> BOOLEAN]
      BY <3>1, <3>2, ContentType
    <3>5. backup' \in [Disks -> Backups]
      BY <3>1, <3>2, ContentType
    <3> QED
      BY <3>3, <3>4, <3>5
  <2> QED
    BY <1>42, <2>1 DEF PowerLoss, Trees
<1>43. CASE Reboot
  BY <1>43 DEF Reboot
<1>44. CASE SwapDisk
  BY <1>44 DEF SwapDisk
<1>45. CASE UNCHANGED vars
  BY <1>45 DEF vars
<1> QED
  BY <1>1, <1>2, <1>3, <1>4, <1>5, <1>6, <1>7, <1>8, <1>9, <1>10, <1>11,
     <1>12, <1>13, <1>14, <1>15, <1>16, <1>17, <1>18, <1>19, <1>20, <1>21,
     <1>22, <1>23, <1>24, <1>25, <1>26, <1>27, <1>28, <1>29, <1>30, <1>31,
     <1>32, <1>33, <1>34, <1>35, <1>36, <1>37, <1>38, <1>39, <1>40, <1>41,
     <1>42, <1>43, <1>44, <1>45 DEF Next, Scripts, Environment, Provision,
     Install, QspiInstall

\* The scripts, signals and faults keep every variable within its type.
THEOREM TypeCorrect == Spec => []TypeOK
BY TypeInit, TypeNext, PTL DEF Spec

-----------------------------------------------------------------------------
(* The QSPI backup *)

\* Until flashcp erases it, a run leaves the QSPI as it found it.
Untouched == (ProvisionSteps \ {"unmount", "success"})
               \cup InstallSteps \cup {"installFailed"}
               \cup {"checkQspi", "saveBackup", "recordBackup", "warn", "erase"}

\* BackupCoversLoss speaks of changed contents only.  To be inductive it needs
\* what the run has established on its way to the erase.
BackupInv ==
    /\ BackupCoversLoss
    /\ pc \in Untouched => qspi = before
    /\ pc = "recordBackup" => backup[slot] = before
    /\ pc \in {"warn", "erase", "program"} =>
          backup[slot] = before /\ "backup" \notin dirty

LEMMA BackupInit == Init => BackupInv
BY DEF Init, BackupInv, BackupCoversLoss, Untouched, ProvisionSteps,
       InstallSteps, TrappedSteps

\* The cleanup functions only make more of what is written stable.
LEMMA CleanupDirty ==
    ASSUME NEW owned, Cleanup(owned)
    PROVE  dirty' = dirty \/ dirty' = {}
BY DEF Cleanup

LEMMA BackupNext == TypeOK /\ BackupInv /\ [Next]_vars => BackupInv'
<1> SUFFICES ASSUME TypeOK, BackupInv, [Next]_vars PROVE BackupInv'
  OBVIOUS
<1> USE DEF BackupInv, BackupCoversLoss, Untouched, ProvisionSteps, InstallSteps,
      TrappedSteps, run, store, At
<1>1. ASSUME NEW c \in Commands, Start(c) PROVE BackupInv'
  BY <1>1 DEF Start
<1>2. CASE Guards
  BY <1>2 DEF Guards
<1>3. CASE RunPreflight
  BY <1>3 DEF RunPreflight
<1>4. CASE ReportPreflight
  BY <1>4 DEF ReportPreflight
<1>5. CASE ConfirmInventory
  BY <1>5 DEF ConfirmInventory
<1>6. CASE AnnounceInstall
  BY <1>6 DEF AnnounceInstall
<1>7. CASE MountNewRoot
  BY <1>7 DEF MountNewRoot
<1>8. CASE CheckBackup
  BY <1>8 DEF CheckBackup
<1>9. CASE UnmountNewRoot
  BY <1>9 DEF UnmountNewRoot
<1>10. CASE ReportSuccess
  BY <1>10 DEF ReportSuccess
<1>11. CASE Finish
  BY <1>11, CleanupDirty DEF Finish
<1>12. CASE HonourTerm
  BY <1>12 DEF HonourTerm
<1>13. CASE CheckTarget
  BY <1>13 DEF CheckTarget
<1>14. CASE Partition
  BY <1>14 DEF Partition, Wipe
<1>15. CASE Format
  BY <1>15 DEF Format
<1>16. CASE MountRoot
  BY <1>16 DEF MountRoot
<1>17. CASE Extract
  BY <1>17 DEF Extract, WriteRootTree
<1>18. CASE Configure
  BY <1>18 DEF Configure, WriteRootTree
<1>19. CASE MountEsp
  BY <1>19 DEF MountEsp
<1>20. CASE CopyLauncher
  BY <1>20 DEF CopyLauncher, WriteLauncher
<1>21. CASE ResetSync
  BY <1>21 DEF ResetSync
<1>22. CASE UmountEsp
  BY <1>22 DEF UmountEsp, Unmount
<1>23. CASE UmountRoot
  BY <1>23 DEF UmountRoot, Unmount
<1>24. CASE InstallDone
  BY <1>24 DEF InstallDone
<1>25. CASE InstallFails
  BY <1>25, CleanupDirty DEF InstallFails
<1>26. CASE CheckQspi
  BY <1>26 DEF CheckQspi
<1>27. CASE SaveBackup
  BY <1>27 DEF SaveBackup, TypeOK
<1>28. CASE RecordBackup
  BY <1>28 DEF RecordBackup
<1>29. CASE WarnErase
  BY <1>29 DEF WarnErase
<1>30. CASE Erase
  BY <1>30 DEF Erase, TypeOK
<1>31. CASE Program
  BY <1>31 DEF Program, TypeOK
<1>32. CASE AnnounceVerify
  BY <1>32 DEF AnnounceVerify
<1>33. CASE Readback
  BY <1>33 DEF Readback
<1>34. CASE QspiDone
  BY <1>34 DEF QspiDone
<1>35. CASE StepFails
  BY <1>35 DEF StepFails, Fallible, Printing
<1>36. CASE TermProvision
  BY <1>36 DEF TermProvision, Running, QspiSteps
<1>37. CASE TermFinish
  BY <1>37 DEF TermFinish
<1>38. CASE TermInstaller
  BY <1>38, CleanupDirty DEF TermInstaller
<1>39. CASE TermInstallerUntrapped
  BY <1>39 DEF TermInstallerUntrapped
<1>40. CASE Hangup
  BY <1>40 DEF Hangup
<1>41. CASE RestartConsole
  BY <1>41 DEF RestartConsole
<1>42. CASE PowerLoss
  BY <1>42 DEF PowerLoss
<1>43. CASE Reboot
  BY <1>43 DEF Reboot
<1>44. CASE SwapDisk
  BY <1>44 DEF SwapDisk
<1>45. CASE UNCHANGED vars
  BY <1>45 DEF vars
<1> QED
  BY <1>1, <1>2, <1>3, <1>4, <1>5, <1>6, <1>7, <1>8, <1>9, <1>10, <1>11,
     <1>12, <1>13, <1>14, <1>15, <1>16, <1>17, <1>18, <1>19, <1>20, <1>21,
     <1>22, <1>23, <1>24, <1>25, <1>26, <1>27, <1>28, <1>29, <1>30, <1>31,
     <1>32, <1>33, <1>34, <1>35, <1>36, <1>37, <1>38, <1>39, <1>40, <1>41,
     <1>42, <1>43, <1>44, <1>45 DEF Next, Scripts, Environment, Provision,
     Install, QspiInstall

\* Whenever the QSPI no longer holds what it held when the run began, a stable
\* copy of that is on an NVMe, for every set of disks and every fault.
THEOREM BackupSafety == Spec => []BackupCoversLoss
<1>1. BackupInv => BackupCoversLoss
  BY DEF BackupInv
<1> QED
  BY <1>1, TypeCorrect, BackupInit, BackupNext, PTL DEF Spec

-----------------------------------------------------------------------------
(* helm-install's exit status *)

\* What the selected NVMe must hold when helm-install returns zero.
Installed == /\ layout[slot] = "formatted"
             /\ os[slot] = "bootable"
             /\ launcher[slot]
             /\ dirty = {}
             /\ mounts = {}

\* SIGTERM may take helm-install's mounts away at any step and the script
\* writes on into RAM.  What saves it is that a later umount then fails: a
\* mount that is still there at the end was there all along.
InstallInv ==
    /\ pc \in {"installed", "mount"} => Installed
    /\ pc \in TrappedSteps => "prov" \notin mounts
    /\ pc \in TrappedSteps \ {"partition", "format"} => layout[slot] = "formatted"
    /\ pc \in {"mountEsp", "copyLauncher", "resetSync", "umountEsp", "umountRoot"}
         /\ "root" \in mounts => os[slot] = "bootable"
    /\ pc \in {"resetSync", "umountEsp"} /\ "esp" \in mounts => launcher[slot]
    /\ pc = "umountRoot" => launcher[slot] /\ "esp" \notin mounts
    /\ pc \in {"umountEsp", "umountRoot"} => dirty = {}

LEMMA InstallInit == Init => InstallInv
BY DEF Init, InstallInv, TrappedSteps

\* The cleanup functions only take mounts away.
LEMMA CleanupMounts ==
    ASSUME NEW owned, Cleanup(owned)
    PROVE  mounts' \subseteq mounts
BY DEF Cleanup

LEMMA InstallNext == TypeOK /\ InstallInv /\ [Next]_vars => InstallInv'
<1> SUFFICES ASSUME TypeOK, InstallInv, [Next]_vars PROVE InstallInv'
  OBVIOUS
<1> USE DEF InstallInv, Installed, TrappedSteps, run, store, ram, At
<1>1. ASSUME NEW c \in Commands, Start(c) PROVE InstallInv'
  BY <1>1 DEF Start
<1>2. CASE Guards
  BY <1>2 DEF Guards
<1>3. CASE RunPreflight
  BY <1>3 DEF RunPreflight
<1>4. CASE ReportPreflight
  BY <1>4 DEF ReportPreflight
<1>5. CASE ConfirmInventory
  BY <1>5 DEF ConfirmInventory
<1>6. CASE AnnounceInstall
  BY <1>6 DEF AnnounceInstall
<1>7. CASE MountNewRoot
  BY <1>7 DEF MountNewRoot
<1>8. CASE CheckBackup
  BY <1>8 DEF CheckBackup
<1>9. CASE UnmountNewRoot
  BY <1>9 DEF UnmountNewRoot
<1>10. CASE ReportSuccess
  BY <1>10 DEF ReportSuccess
<1>11. CASE Finish
  BY <1>11 DEF Finish
<1>12. CASE HonourTerm
  BY <1>12 DEF HonourTerm, ProvisionSteps
<1>13. CASE CheckTarget
  BY <1>13 DEF CheckTarget
<1>14. CASE Partition
  BY <1>14 DEF Partition, Wipe
<1>15. CASE Format
  BY <1>15 DEF Format, TypeOK
<1>16. CASE MountRoot
  BY <1>16 DEF MountRoot
<1>17. CASE Extract
  BY <1>17 DEF Extract, WriteRootTree
<1>18. CASE Configure
  BY <1>18 DEF Configure, WriteRootTree, TypeOK
<1>19. CASE MountEsp
  BY <1>19 DEF MountEsp
<1>20. CASE CopyLauncher
  BY <1>20 DEF CopyLauncher, WriteLauncher, TypeOK
<1>21. CASE ResetSync
  BY <1>21 DEF ResetSync
<1>22. CASE UmountEsp
  BY <1>22 DEF UmountEsp, Unmount
<1>23. CASE UmountRoot
  BY <1>23 DEF UmountRoot, Unmount, TypeOK
<1>24. CASE InstallDone
  BY <1>24 DEF InstallDone
<1>25. CASE InstallFails
  BY <1>25 DEF InstallFails
<1>26. CASE CheckQspi
  BY <1>26 DEF CheckQspi
<1>27. CASE SaveBackup
  BY <1>27 DEF SaveBackup
<1>28. CASE RecordBackup
  BY <1>28 DEF RecordBackup
<1>29. CASE WarnErase
  BY <1>29 DEF WarnErase
<1>30. CASE Erase
  BY <1>30 DEF Erase
<1>31. CASE Program
  BY <1>31 DEF Program
<1>32. CASE AnnounceVerify
  BY <1>32 DEF AnnounceVerify
<1>33. CASE Readback
  BY <1>33 DEF Readback
<1>34. CASE QspiDone
  BY <1>34 DEF QspiDone
<1>35. CASE StepFails
  BY <1>35 DEF StepFails, Fallible, Printing
<1>36. CASE TermProvision
  BY <1>36 DEF TermProvision, Running
<1>37. CASE TermFinish
  BY <1>37 DEF TermFinish
<1>38. CASE TermInstaller
  BY <1>38, CleanupDirty, CleanupMounts DEF TermInstaller
<1>39. CASE TermInstallerUntrapped
  BY <1>39 DEF TermInstallerUntrapped
<1>40. CASE Hangup
  BY <1>40 DEF Hangup
<1>41. CASE RestartConsole
  BY <1>41 DEF RestartConsole
<1>42. CASE PowerLoss
  BY <1>42 DEF PowerLoss
<1>43. CASE Reboot
  BY <1>43 DEF Reboot
<1>44. CASE SwapDisk
  BY <1>44 DEF SwapDisk
<1>45. CASE UNCHANGED vars
  BY <1>45 DEF vars
<1> QED
  BY <1>1, <1>2, <1>3, <1>4, <1>5, <1>6, <1>7, <1>8, <1>9, <1>10, <1>11,
     <1>12, <1>13, <1>14, <1>15, <1>16, <1>17, <1>18, <1>19, <1>20, <1>21,
     <1>22, <1>23, <1>24, <1>25, <1>26, <1>27, <1>28, <1>29, <1>30, <1>31,
     <1>32, <1>33, <1>34, <1>35, <1>36, <1>37, <1>38, <1>39, <1>40, <1>41,
     <1>42, <1>43, <1>44, <1>45 DEF Next, Scripts, Environment, Provision,
     Install, QspiInstall

\* helm-install returns zero only with a bootable system and its launcher
\* stable on the selected NVMe and nothing left mounted, whatever signals it
\* caught on the way.
THEOREM InstallSafety == Spec => []InstallerSuccessMeansInstalled
<1>1. InstallInv => InstallerSuccessMeansInstalled
  BY DEF InstallInv, Installed, InstallerSuccessMeansInstalled
<1> QED
  BY <1>1, TypeCorrect, InstallInit, InstallNext, PTL DEF Spec

-----------------------------------------------------------------------------
(* The success marker *)

\* The marker a host takes as proof of success is among those printed.
Claimed == \E i \in 1..Len(out) :
              out[i].kind = "success" /\ out[i].session = cmd.session

\* The stages between helm-install's return and the success marker.
PastInstall == {"checkBackup", "checkQspi", "saveBackup", "recordBackup",
                 "warn", "erase", "program", "announceVerify", "readback",
                 "flashed", "unmount", "success"}
PastBackup  == {"warn", "erase", "program", "announceVerify", "readback",
                 "flashed", "unmount", "success"}

\* What each stage adds to Provisioned.
StageInv ==
    /\ pc \in PastInstall => /\ layout[slot] = "formatted"
                              /\ os[slot] = "bootable"
                              /\ launcher[slot]
                              /\ dirty \subseteq {"backup"}
                              /\ mounts \subseteq {"prov"}
    /\ pc = "recordBackup" => backup[slot] = before
    /\ pc \in PastBackup => backup[slot] = before /\ dirty = {}
    /\ pc \in {"flashed", "unmount", "success"} => qspi = "bundle"
    /\ pc \in PastInstall \ {"success"} => "prov" \in mounts
    /\ pc = "success" => mounts = {}

\* An old marker cannot be taken for this run's: sessions are fresh.  (A shell
\* above answers probes, whose sessions no run has used yet.)
SuccessInv ==
    /\ \A i \in 1..Len(out) : out[i].kind # "ready" => out[i].session \in used
    /\ cmd \in Commands => cmd.session \in used
    /\ Claimed => pc \notin Running \ {"finish"}
    /\ Claimed /\ pc \in {"idle", "off", "finish"} => Provisioned
    /\ StageInv

LEMMA StageInit == Init => StageInv
BY DEF Init, StageInv, PastInstall, PastBackup

LEMMA SuccessInit == Init => SuccessInv
BY StageInit DEF Init, Commands, SuccessInv, Claimed, Running, ProvisionSteps, InstallSteps,
       TrappedSteps, QspiSteps

LEMMA StageNext == TypeOK /\ BackupInv /\ InstallInv /\ StageInv /\ [Next]_vars => StageInv'
<1> SUFFICES ASSUME TypeOK, BackupInv, InstallInv, StageInv, [Next]_vars
             PROVE  StageInv'
  OBVIOUS
<1> USE DEF StageInv, PastInstall, PastBackup, run, store, ram, At
<1>1. CASE \E c \in Commands : Start(c)
  BY <1>1 DEF Start
<1>2. CASE Guards \/ RunPreflight \/ ReportPreflight \/ ConfirmInventory
  BY <1>2 DEF Guards, RunPreflight, ReportPreflight, ConfirmInventory
<1>3. CASE AnnounceInstall \/ CheckBackup \/ UnmountNewRoot
  BY <1>3 DEF AnnounceInstall, CheckBackup, UnmountNewRoot
<1>4. CASE MountNewRoot
  BY <1>4 DEF MountNewRoot, InstallInv, Installed
<1>5. CASE ReportSuccess \/ Finish \/ HonourTerm
  BY <1>5 DEF ReportSuccess, Finish, HonourTerm
<1>6. CASE CheckTarget \/ Partition \/ Format \/ MountRoot \/ Extract \/ Configure
  BY <1>6 DEF CheckTarget, Partition, Format, MountRoot, Extract, Configure
<1>7. CASE MountEsp \/ CopyLauncher \/ ResetSync \/ UmountEsp \/ UmountRoot
  BY <1>7 DEF MountEsp, CopyLauncher, ResetSync, UmountEsp, UmountRoot, Unmount
<1>8. CASE InstallDone \/ InstallFails
  BY <1>8 DEF InstallDone, InstallFails
<1>9. CASE CheckQspi \/ WarnErase \/ Erase \/ Program
  BY <1>9 DEF CheckQspi, WarnErase, Erase, Program
<1>10. CASE SaveBackup
  BY <1>10 DEF SaveBackup, TypeOK, BackupInv, Untouched
<1>11. CASE RecordBackup
  BY <1>11 DEF RecordBackup, BackupInv
<1>12. CASE AnnounceVerify \/ Readback \/ QspiDone
  BY <1>12 DEF AnnounceVerify, Readback, QspiDone
<1>13. CASE StepFails
  BY <1>13 DEF StepFails, Fallible, Printing, InstallSteps, TrappedSteps
<1>14. CASE TermProvision \/ TermFinish \/ TermInstallerUntrapped
  BY <1>14 DEF TermProvision, TermFinish, TermInstallerUntrapped
<1>15. CASE TermInstaller
  BY <1>15 DEF TermInstaller, TrappedSteps
<1>16. CASE Hangup \/ RestartConsole \/ PowerLoss \/ Reboot \/ SwapDisk
  BY <1>16 DEF Hangup, RestartConsole, PowerLoss, Reboot, SwapDisk
<1>17. CASE UNCHANGED vars
  BY <1>17 DEF vars
<1> QED
  BY <1>1, <1>2, <1>3, <1>4, <1>5, <1>6, <1>7, <1>8, <1>9, <1>10, <1>11, <1>12,
     <1>13, <1>14, <1>15, <1>16, <1>17
     DEF Next, Scripts, Environment, Provision, Install, QspiInstall

\* Printing adds at most the marker printed.
LEMMA EmitAdds ==
    ASSUME out \in Seq(Markers), NEW m \in Markers, Emit(m),
           NEW i \in 1..Len(out')
    PROVE  out'[i] = m \/ (i \in 1..Len(out) /\ out'[i] = out[i])
<1>1. CASE tty = "open"
  <2>1. out' = Append(out, m)
    BY <1>1 DEF Emit
  <2>2. Len(out) \in Nat /\ Len(out') = Len(out) + 1
    BY <2>1
  <2>3. CASE i = Len(out) + 1
    BY <2>1, <2>3
  <2>4. CASE i \in 1..Len(out)
    BY <2>1, <2>4
  <2> QED
    BY <2>2, <2>3, <2>4
<1>2. CASE tty # "open"
  BY <1>2 DEF Emit
<1> QED
  BY <1>1, <1>2

\* A marker of this run, other than success, keeps what SuccessInv says of out.
LEMMA EmitKeeps ==
    ASSUME TypeOK, SuccessInv, pc \in Running, UNCHANGED <<cmd, used>>,
           NEW m \in Markers, m.session = cmd.session, Emit(m)
    PROVE  /\ \A i \in 1..Len(out') : out'[i].kind # "ready" => out'[i].session \in used'
           /\ m.kind # "success" /\ Claimed' => Claimed
<1>0. out \in Seq(Markers)
  BY DEF TypeOK
<1>1. ASSUME NEW i \in 1..Len(out')
      PROVE  out'[i] = m \/ (i \in 1..Len(out) /\ out'[i] = out[i])
  BY <1>0, EmitAdds
<1>2. \A i \in 1..Len(out') : out'[i].kind # "ready" => out'[i].session \in used'
  BY <1>1 DEF SuccessInv, TypeOK
<1>3. ASSUME m.kind # "success", Claimed' PROVE Claimed
  <2>1. PICK i \in 1..Len(out') :
           out'[i].kind = "success" /\ out'[i].session = cmd.session
    BY <1>3 DEF Claimed
  <2>2. i \in 1..Len(out) /\ out'[i] = out[i]
    BY <1>1, <1>3, <2>1
  <2> QED
    BY <2>1, <2>2 DEF Claimed
<1> QED
  BY <1>2, <1>3

\* The session and kind of each marker a run prints.
LEMMA MarkerParts ==
    /\ \A k, s : Marker(k, s).kind = k /\ Marker(k, s).session = s
    /\ \A n, s : Progress(n, s).kind = "progress" /\ Progress(n, s).session = s
    /\ \A k, s, d :
          /\ [Marker(k, s) EXCEPT !.inventory = d].kind = k
          /\ [Marker(k, s) EXCEPT !.inventory = d].session = s
BY DEF Progress, Marker

LEMMA SuccessNext ==
    TypeOK /\ BackupInv /\ InstallInv /\ SuccessInv /\ [Next]_vars => SuccessInv'
<1> SUFFICES ASSUME TypeOK, BackupInv, InstallInv, SuccessInv, [Next]_vars
             PROVE  SuccessInv'
  OBVIOUS
<1>0. StageInv /\ StageInv'
  BY StageNext DEF SuccessInv
<1> USE DEF SuccessInv, Claimed, Provisioned, Running, ProvisionSteps, InstallSteps,
            TrappedSteps, QspiSteps, run, store, ram, At
<1>1. ASSUME NEW c \in Commands, Start(c) PROVE SuccessInv'
  BY <1>0, <1>1 DEF Start, Commands
\* The steps that print.
<1>2. CASE ReportPreflight
  <2> DEFINE m == [Marker("preflight-success", cmd.session) EXCEPT !.inventory = seen]
  <2>1. m \in Markers /\ m.kind # "success" /\ m.session = cmd.session
    BY <1>2, RunMarkers DEF ReportPreflight, Marker
  <2>2. /\ \A i \in 1..Len(out') : out'[i].kind # "ready" => out'[i].session \in used'
        /\ Claimed' => Claimed
    BY <1>2, <2>1, EmitKeeps DEF ReportPreflight
  <2> QED
    BY <1>0, <1>2, <2>2 DEF ReportPreflight
<1>3. CASE ReportSuccess
  <2>1. Provisioned'
    BY <1>0, <1>3 DEF ReportSuccess, TypeOK, StageInv, PastInstall, PastBackup
  <2>2. \A i \in 1..Len(out') : out'[i].kind # "ready" => out'[i].session \in used'
    BY <1>3, RunMarkers, MarkerParts, EmitKeeps DEF ReportSuccess
  <2> QED
    BY <1>0, <1>3, <2>1, <2>2 DEF ReportSuccess
<1>4. CASE Finish
  BY <1>0, <1>4, RunMarkers, MarkerParts, EmitKeeps, CleanupDirty, CleanupMounts
     DEF Finish
<1>5. CASE AnnounceInstall \/ CheckQspi \/ WarnErase \/ AnnounceVerify
  BY <1>0, <1>5, RunMarkers, MarkerParts, EmitKeeps
     DEF AnnounceInstall, CheckQspi, WarnErase, AnnounceVerify
\* The steps that print nothing.
<1>6. CASE Guards \/ RunPreflight \/ ConfirmInventory \/ MountNewRoot \/ CheckBackup
  BY <1>0, <1>6 DEF Guards, RunPreflight, ConfirmInventory, MountNewRoot, CheckBackup
<1>7. CASE UnmountNewRoot \/ HonourTerm
  BY <1>0, <1>7 DEF UnmountNewRoot, HonourTerm
<1>8. CASE CheckTarget \/ Partition \/ Format \/ MountRoot \/ Extract \/ Configure
  BY <1>0, <1>8 DEF CheckTarget, Partition, Format, MountRoot, Extract, Configure
<1>9. CASE MountEsp \/ CopyLauncher \/ ResetSync \/ UmountEsp \/ UmountRoot
  BY <1>0, <1>9 DEF MountEsp, CopyLauncher, ResetSync, UmountEsp, UmountRoot, Unmount
<1>10. CASE InstallDone \/ InstallFails
  BY <1>0, <1>10, CleanupDirty, CleanupMounts DEF InstallDone, InstallFails
<1>11. CASE SaveBackup \/ RecordBackup \/ Erase \/ Program \/ Readback \/ QspiDone
  BY <1>0, <1>11 DEF SaveBackup, RecordBackup, Erase, Program, Readback, QspiDone
<1>12. CASE StepFails
  BY <1>0, <1>12 DEF StepFails, Fallible, Printing
<1>13. CASE TermProvision \/ TermFinish \/ TermInstallerUntrapped
  BY <1>0, <1>13 DEF TermProvision, TermFinish, TermInstallerUntrapped
<1>14. CASE TermInstaller
  BY <1>0, <1>14, CleanupDirty, CleanupMounts DEF TermInstaller
<1>15. CASE PowerLoss
  <2>1. Claimed' => Claimed
    BY <1>15 DEF PowerLoss
  <2>2. ASSUME Claimed PROVE Provisioned'
    <3>1. pc \in {"idle", "off", "finish"} /\ dirty = {}
      BY <1>15, <2>2 DEF PowerLoss, TypeOK
    <3> QED
      BY <1>15, <2>2, <3>1 DEF PowerLoss
  <2> QED
    BY <1>0, <1>15, <2>1, <2>2 DEF PowerLoss
<1>16. CASE Hangup \/ RestartConsole \/ Reboot \/ SwapDisk \/ UNCHANGED vars
  BY <1>0, <1>16 DEF Hangup, RestartConsole, Reboot, SwapDisk, vars
<1> QED
  BY <1>1, <1>2, <1>3, <1>4, <1>5, <1>6, <1>7, <1>8, <1>9, <1>10, <1>11, <1>12,
     <1>13, <1>14, <1>15, <1>16
     DEF Next, Scripts, Environment, Provision, Install, QspiInstall

\* The success marker of a session is printed only over a bootable, verified
\* and stable installation with the replaced QSPI kept beside it, and stays
\* true until the next run starts, through power loss too.
THEOREM SuccessSafety == Spec => []SuccessMeansProvisioned
<1>1. SuccessInv => SuccessMeansProvisioned
  BY DEF SuccessInv, SuccessMeansProvisioned, Claimed
<1> QED
  BY <1>1, TypeCorrect, BackupInit, BackupNext, InstallInit, InstallNext,
     SuccessInit, SuccessNext, PTL DEF Spec

\* Storage once provisioned stays so until another run starts: the steps that
\* would change it come before its last mount is gone.
LEMMA ProvisionedStays ==
    TypeOK /\ BackupInv /\ StageInv /\ before # "bundle" /\ Provisioned
      /\ (Scripts \/ Environment \/ UNCHANGED vars) => Provisioned'
<1> SUFFICES ASSUME TypeOK, BackupInv, StageInv, before # "bundle", Provisioned,
                    Scripts \/ Environment \/ UNCHANGED vars
             PROVE  Provisioned'
  OBVIOUS
<1>1. pc \in {"success", "finish", "idle", "off"}
  BY DEF TypeOK, BackupInv, StageInv, Provisioned, Untouched, PastInstall, Running,
         ProvisionSteps, InstallSteps, TrappedSteps, QspiSteps
<1>2. CASE UNCHANGED <<qspi, before, dirty, mounts, layout, os, launcher, backup>>
  BY <1>2 DEF Provisioned
<1>3. CASE Finish
  BY <1>3, CleanupDirty, CleanupMounts DEF Finish, Provisioned, run
<1>4. CASE PowerLoss
  BY <1>4 DEF PowerLoss, Provisioned, run
<1>5. CASE TermInstaller \/ UnmountNewRoot
  BY <1>1, <1>5 DEF TermInstaller, TrappedSteps, UnmountNewRoot, At
<1>6. CASE Scripts /\ ~Finish
  <2> USE DEF run, store, At
  <2>1. CASE Provision
    BY <1>1, <1>2, <1>5, <1>6, <2>1
       DEF Provision, Guards, RunPreflight, ReportPreflight, ConfirmInventory,
           AnnounceInstall, MountNewRoot, CheckBackup, ReportSuccess, HonourTerm
  <2>2. CASE Install
    BY <1>1, <2>2
       DEF Install, CheckTarget, Partition, Format, MountRoot, Extract, Configure,
           MountEsp, CopyLauncher, ResetSync, UmountEsp, UmountRoot, InstallDone,
           InstallFails
  <2>3. CASE QspiInstall
    BY <1>1, <2>3
       DEF QspiInstall, CheckQspi, SaveBackup, RecordBackup, WarnErase, Erase, Program,
           AnnounceVerify, Readback, QspiDone
  <2>4. CASE StepFails
    BY <1>2, <2>4 DEF StepFails
  <2> QED
    BY <1>6, <2>1, <2>2, <2>3, <2>4 DEF Scripts
<1>7. CASE TermProvision \/ TermFinish \/ TermInstallerUntrapped
  BY <1>2, <1>7 DEF TermProvision, TermFinish, TermInstallerUntrapped, run, store
<1>8. CASE Hangup \/ RestartConsole \/ Reboot \/ SwapDisk
  BY <1>2, <1>8 DEF Hangup, RestartConsole, Reboot, SwapDisk, run, store
<1>9. CASE UNCHANGED vars
  BY <1>2, <1>9 DEF vars, run, store
<1> QED
  BY <1>3, <1>4, <1>5, <1>6, <1>7, <1>8, <1>9 DEF Environment

\* The scripts never bring the factory contents back.
LEMMA NeverRestored ==
    TypeOK /\ [Next]_vars =>
      /\ qspi' = "factory" => qspi = "factory"
      /\ \A d \in Disks : layout'[d] = "foreign" => layout[d] = "foreign"
<1> SUFFICES ASSUME TypeOK, [Next]_vars
             PROVE  /\ qspi' = "factory" => qspi = "factory"
                    /\ \A d \in Disks : layout'[d] = "foreign" => layout[d] = "foreign"
  OBVIOUS
<1>1. qspi' \in {qspi, "torn", "bundle"}
  BY DEF Next, vars, Scripts, Environment, Provision, Install, QspiInstall, Start, Guards,
         RunPreflight, ReportPreflight, ConfirmInventory, AnnounceInstall, MountNewRoot,
         CheckBackup, UnmountNewRoot, ReportSuccess, Finish, HonourTerm, CheckTarget,
         Partition, Format, MountRoot, Extract, Configure, MountEsp, CopyLauncher,
         ResetSync, UmountEsp, UmountRoot, Unmount, InstallDone, InstallFails, CheckQspi,
         SaveBackup, RecordBackup, WarnErase, Erase, Program, AnnounceVerify, Readback,
         QspiDone, StepFails, TermProvision, TermFinish, TermInstaller,
         TermInstallerUntrapped, Hangup, RestartConsole, PowerLoss, Reboot, SwapDisk
<1>2. \/ layout' = layout
      \/ layout' = [layout EXCEPT ![slot] = "blank"]
      \/ layout' = [layout EXCEPT ![slot] = "formatted"]
  BY DEF Next, vars, Scripts, Environment, Provision, Install, QspiInstall, Start, Guards,
         RunPreflight, ReportPreflight, ConfirmInventory, AnnounceInstall, MountNewRoot,
         CheckBackup, UnmountNewRoot, ReportSuccess, Finish, HonourTerm, CheckTarget,
         Partition, Wipe, Format, MountRoot, Extract, Configure, MountEsp, CopyLauncher,
         ResetSync, UmountEsp, UmountRoot, Unmount, InstallDone, InstallFails, CheckQspi,
         SaveBackup, RecordBackup, WarnErase, Erase, Program, AnnounceVerify, Readback,
         QspiDone, StepFails, TermProvision, TermFinish, TermInstaller,
         TermInstallerUntrapped, Hangup, RestartConsole, PowerLoss, Reboot, SwapDisk, store
<1>3. layout \in [Disks -> Layouts] /\ slot \in Disks
  BY DEF TypeOK
<1> QED
  BY <1>1, <1>2, <1>3

-----------------------------------------------------------------------------
(* What a step prints, for those who read it *)

LEMMA EmitTells ==
    ASSUME out \in Seq(Markers), NEW m \in Markers, Emit(m)
    PROVE  /\ \A i \in 1..Len(out) : i \in 1..Len(out') /\ out'[i] = out[i]
           /\ \A i \in 1..Len(out') : i \in 1..Len(out) \/ out'[i] = m
<1>1. \A i \in 1..Len(out') : i \in 1..Len(out) \/ out'[i] = m
  BY EmitAdds
<1>2. \A i \in 1..Len(out) : i \in 1..Len(out') /\ out'[i] = out[i]
  BY DEF Emit
<1> QED
  BY <1>1, <1>2

LEMMA Prints ==
    TypeOK /\ [Next]_vars =>
      \/ out' = out
      \/ ReportSuccess \/ ReportPreflight
      \/ \E m \in Markers : m.kind \in {"progress", "failure"} /\ Emit(m)
<1> SUFFICES ASSUME TypeOK, [Next]_vars, out' # out, ~ReportSuccess, ~ReportPreflight
             PROVE  \E m \in Markers : m.kind \in {"progress", "failure"} /\ Emit(m)
  OBVIOUS
<1>1. pc \in Running
  BY DEF Next, vars, Scripts, Environment, Provision, Install, QspiInstall, Start, Guards,
         RunPreflight, ConfirmInventory, AnnounceInstall, MountNewRoot, CheckBackup,
         UnmountNewRoot, Finish, HonourTerm, CheckTarget, Partition, Format, MountRoot,
         Extract, Configure, MountEsp, CopyLauncher, ResetSync, UmountEsp, UmountRoot,
         Unmount, InstallDone, InstallFails, CheckQspi, SaveBackup, RecordBackup, WarnErase,
         Erase, Program, AnnounceVerify, Readback, QspiDone, StepFails, TermProvision,
         TermFinish, TermInstaller, TermInstallerUntrapped, Hangup, RestartConsole,
         PowerLoss, Reboot, SwapDisk, At, Running, ProvisionSteps, QspiSteps
<1>2. \/ \E n \in 1..4 : Emit(Progress(n, cmd.session))
      \/ Emit(Marker("failure", cmd.session))
  BY DEF Next, vars, Scripts, Environment, Provision, Install, QspiInstall, Start, Guards,
         RunPreflight, ConfirmInventory, AnnounceInstall, MountNewRoot, CheckBackup,
         UnmountNewRoot, Finish, HonourTerm, CheckTarget, Partition, Format, MountRoot,
         Extract, Configure, MountEsp, CopyLauncher, ResetSync, UmountEsp, UmountRoot,
         Unmount, InstallDone, InstallFails, CheckQspi, SaveBackup, RecordBackup, WarnErase,
         Erase, Program, AnnounceVerify, Readback, QspiDone, StepFails, TermProvision,
         TermFinish, TermInstaller, TermInstallerUntrapped, Hangup, RestartConsole,
         PowerLoss, Reboot, SwapDisk
<1> QED
  BY <1>1, <1>2, RunMarkers, MarkerParts

\* What the target has printed stays in the console's past.
LEMMA OutGrows ==
    TypeOK /\ [Next]_vars =>
      \A i \in 1..Len(out) : i \in 1..Len(out') /\ out'[i] = out[i]
<1> SUFFICES ASSUME TypeOK, [Next]_vars
             PROVE  \A i \in 1..Len(out) : i \in 1..Len(out') /\ out'[i] = out[i]
  OBVIOUS
<1>0. out \in Seq(Markers)
  BY DEF TypeOK
<1>1. CASE out' = out
  BY <1>1
<1>2. CASE \E m \in Markers : Emit(m)
  BY <1>0, <1>2, EmitTells
<1>3. CASE ReportSuccess \/ ReportPreflight
  BY <1>2, <1>3, RunMarkers
     DEF ReportSuccess, ReportPreflight, At, Running, ProvisionSteps
<1> QED
  BY <1>1, <1>2, <1>3, Prints

\* A preflight's marker has a session and an inventory and nothing else.
ReportInv ==
    \A i \in 1..Len(out) : out[i].kind = "preflight-success" =>
        out[i] = [Marker("preflight-success", out[i].session)
                     EXCEPT !.inventory = out[i].inventory]

LEMMA ReportNext == TypeOK /\ ReportInv /\ [Next]_vars => ReportInv'
<1> SUFFICES ASSUME TypeOK, ReportInv, [Next]_vars PROVE ReportInv'
  OBVIOUS
<1>0. out \in Seq(Markers)
  BY DEF TypeOK
<1>1. \A i \in 1..Len(out) : i \in 1..Len(out') /\ out'[i] = out[i]
  BY OutGrows
<1>2. ASSUME NEW i \in 1..Len(out), out'[i].kind = "preflight-success"
      PROVE  out'[i] = [Marker("preflight-success", out'[i].session)
                           EXCEPT !.inventory = out'[i].inventory]
  BY <1>1, <1>2 DEF ReportInv
<1>3. CASE out' = out
  BY <1>2, <1>3 DEF ReportInv
<1>4. CASE ReportSuccess
  <2>1. Emit(Marker("success", cmd.session)) /\ Marker("success", cmd.session) \in Markers
    BY <1>4, RunMarkers DEF ReportSuccess, At, Running, ProvisionSteps
  <2>2. \A i \in 1..Len(out') : i \in 1..Len(out) \/ out'[i].kind = "success"
    BY <1>0, <2>1, EmitTells, MarkerParts
  <2> QED
    BY <1>2, <2>2 DEF ReportInv
<1>5. CASE ReportPreflight
  <2> DEFINE m == [Marker("preflight-success", cmd.session) EXCEPT !.inventory = seen]
  <2>1. Emit(m) /\ m \in Markers
    BY <1>5, RunMarkers DEF ReportPreflight, At, Running, ProvisionSteps
  <2>2. /\ m.kind = "preflight-success"
        /\ m = [Marker("preflight-success", m.session) EXCEPT !.inventory = m.inventory]
    BY DEF Marker
  <2> HIDE DEF m
  <2>3. \A i \in 1..Len(out') : i \in 1..Len(out) \/ out'[i] = m
    BY <1>0, <2>1, EmitTells
  <2> QED
    BY <1>2, <2>2, <2>3 DEF ReportInv
<1>6. ASSUME NEW m \in Markers, m.kind \in {"progress", "failure"}, Emit(m) PROVE ReportInv'
  <2>1. \A i \in 1..Len(out') : i \in 1..Len(out) \/ out'[i] = m
    BY <1>0, <1>6, EmitTells
  <2> QED
    BY <1>2, <1>6, <2>1 DEF ReportInv
<1> QED
  BY <1>3, <1>4, <1>5, <1>6, Prints

\* Where no run follows one that succeeded, a success marker stays true.
TruthInv == \A i \in 1..Len(out) : out[i].kind = "success" => Provisioned

LEMMA TruthNext ==
    TypeOK /\ StageInv /\ TruthInv /\ (Provisioned => Provisioned') /\ [Next]_vars
      => TruthInv'
<1> SUFFICES ASSUME TypeOK, StageInv, TruthInv, Provisioned => Provisioned', [Next]_vars
             PROVE  TruthInv'
  OBVIOUS
<1>0. out \in Seq(Markers)
  BY DEF TypeOK
<1>1. \A i \in 1..Len(out) : i \in 1..Len(out') /\ out'[i] = out[i]
  BY OutGrows
<1>2. ASSUME NEW i \in 1..Len(out), out'[i].kind = "success" PROVE Provisioned'
  BY <1>1, <1>2 DEF TruthInv
<1>3. CASE out' = out
  BY <1>2, <1>3 DEF TruthInv
<1>4. CASE ReportSuccess
  <2>1. Provisioned'
    BY <1>4 DEF ReportSuccess, At, run, store, TypeOK, StageInv, PastInstall, PastBackup,
       Provisioned
  <2> QED
    BY <2>1 DEF TruthInv
<1>5. CASE ReportPreflight
  <2> DEFINE m == [Marker("preflight-success", cmd.session) EXCEPT !.inventory = seen]
  <2>1. Emit(m) /\ m \in Markers
    BY <1>5, RunMarkers DEF ReportPreflight, At, Running, ProvisionSteps
  <2>2. m.kind # "success"
    BY DEF Marker
  <2> HIDE DEF m
  <2>3. \A i \in 1..Len(out') : i \in 1..Len(out) \/ out'[i] = m
    BY <1>0, <2>1, EmitTells
  <2> QED
    BY <1>2, <2>2, <2>3 DEF TruthInv
<1>6. ASSUME NEW m \in Markers, m.kind \in {"progress", "failure"}, Emit(m) PROVE TruthInv'
  <2>1. \A i \in 1..Len(out') : i \in 1..Len(out) \/ out'[i] = m
    BY <1>0, <1>6, EmitTells
  <2> QED
    BY <1>2, <1>6, <2>1 DEF TruthInv
<1> QED
  BY <1>3, <1>4, <1>5, <1>6, Prints

-----------------------------------------------------------------------------
(* Markers *)

\* The steps of a run, by the last progress it may have announced.
Silent     == {"guards", "inspect", "report", "confirm", "announce"}
Installing == InstallSteps \cup {"installFailed", "mount", "checkBackup", "checkQspi"}
Saving     == {"saveBackup", "recordBackup", "warn"}
Flashing   == {"erase", "program", "announceVerify"}
Verifying  == {"readback", "flashed", "unmount", "success"}

\* What the run under way may have printed by now.
Printed(m) ==
    /\ pc \notin Silent
    /\ pc \in Installing => m.kind = "progress" /\ m.step <= 1
    /\ pc \in Saving => m.kind = "progress" /\ m.step <= 2
    /\ pc \in Flashing => m.kind = "progress" /\ m.step <= 3
    /\ pc \in Verifying => m.kind = "progress" /\ m.step <= 4
    /\ pc = "finish" /\ ~succeeded => ~Terminal(m)

OrderInv ==
    /\ MarkersInOrder
    /\ \A i \in 1..Len(out) :
         /\ out[i].session \in used
         /\ out[i].session = cmd.session => Printed(out[i])
    /\ pc \in Running => cmd.session \in used
    /\ pc \in Verifying => \E i \in 1..Len(out) : out[i] = Progress(4, cmd.session)
    /\ pc = "success" => succeeded

LEMMA OrderInit == Init => OrderInv
BY DEF Init, OrderInv, MarkersInOrder, Running, ProvisionSteps, InstallSteps,
       TrappedSteps, QspiSteps, Verifying

\* Every step of a run is of one of the five kinds, or its end.
Staged(p) ==
    /\ p \in Running =>
         \/ p \in Silent \/ p \in Installing \/ p \in Saving
         \/ p \in Flashing \/ p \in Verifying \/ p = "finish"
    /\ p \in Silent \cup Installing \cup Saving \cup Flashing \cup Verifying =>
         p \in Running /\ p # "finish"
    /\ p \in Silent => p \notin Installing \cup Saving \cup Flashing \cup Verifying
    /\ p \in Installing => p \notin Saving \cup Flashing \cup Verifying
    /\ p \in Saving => p \notin Flashing \cup Verifying
    /\ p \in Flashing => p \notin Verifying
    /\ p = "finish" => p \in Running
    /\ p \in {"idle", "off"} => p \notin Running

LEMMA Stages == ASSUME NEW p PROVE Staged(p)
BY DEF Staged, Running, ProvisionSteps, InstallSteps, TrappedSteps, QspiSteps, Silent,
       Installing, Saving, Flashing, Verifying

\* A step that prints nothing, and does not go back.
Onward ==
    /\ UNCHANGED <<cmd, used, out>>
    /\ pc' \in Running => pc \in Running
    /\ pc' \in Silent => pc \in Silent
    /\ pc' \in Installing => pc \in Silent \cup Installing
    /\ pc' \in Saving => pc \in Installing \cup Saving
    /\ pc' \in Flashing => pc \in Saving \cup Flashing
    /\ pc' \in Verifying => pc \in Verifying
    /\ pc' = "finish" /\ pc = "finish" => (succeeded => succeeded')
    /\ pc' = "finish" => pc \in Running
    /\ pc' = "success" => succeeded'

LEMMA QuietOrder == TypeOK /\ OrderInv /\ Onward => OrderInv'
<1> SUFFICES ASSUME TypeOK, OrderInv, Onward PROVE OrderInv'
  OBVIOUS
<1>0. Staged(pc) /\ Staged(pc')
  BY Stages
<1>1. MarkersInOrder'
  BY DEF OrderInv, Onward, MarkersInOrder
<1>2. ASSUME NEW i \in 1..Len(out), out[i].session = cmd.session
      PROVE  Printed(out[i])'
  <2>1. Printed(out[i]) /\ out' = out
    BY <1>2 DEF OrderInv, Onward
  <2>2. out[i] \in Markers
    BY DEF TypeOK
  <2>3. out[i].step \in Nat
    BY <2>2 DEF Markers
  <2>4. /\ pc' \notin Silent
        /\ pc' \in Installing => out[i].kind = "progress" /\ out[i].step <= 1
        /\ pc' \in Saving => out[i].kind = "progress" /\ out[i].step <= 2
        /\ pc' \in Flashing => out[i].kind = "progress" /\ out[i].step <= 3
        /\ pc' \in Verifying => out[i].kind = "progress" /\ out[i].step <= 4
    BY <1>0, <2>1, <2>3 DEF Onward, Printed, Staged
  <2>5. pc' = "finish" /\ ~succeeded' => ~Terminal(out[i])
    BY <1>0, <2>1 DEF Onward, Printed, Terminal, Staged
  <2> QED
    BY <2>1, <2>4, <2>5 DEF Printed, Terminal
<1> QED
  BY <1>1, <1>2 DEF OrderInv, Onward

\* Printing a marker the run may print next keeps the order.
LEMMA EmitOrder ==
    ASSUME OrderInv, out \in Seq(Markers), NEW m \in Markers, Emit(m),
           m.session = cmd.session, pc \in Running,
           \A i \in 1..Len(out) : out[i].session = cmd.session =>
               ~Terminal(out[i]) /\ (m.kind = "progress" => out[i].step < m.step),
           m.kind = "success" => pc \in Verifying
    PROVE  /\ MarkersInOrder'
           /\ \A i \in 1..Len(out') :
                /\ out'[i].session \in used
                /\ out'[i] = m \/ (i \in 1..Len(out) /\ out'[i] = out[i])
           /\ \A i \in 1..Len(out) : i \in 1..Len(out') /\ out'[i] = out[i]
<1>1. CASE tty # "open"
  BY <1>1 DEF Emit, OrderInv, MarkersInOrder
<1>2. CASE tty = "open"
  <2>1. /\ Len(out) \in Nat /\ Len(out') = Len(out) + 1
        /\ out'[Len(out) + 1] = m
        /\ \A i \in 1..Len(out) : out'[i] = out[i]
    BY <1>2 DEF Emit
  <2>2. m.session \in used
    BY DEF OrderInv
  <2>3. MarkersInOrder'
    <3> SUFFICES ASSUME NEW j \in 1..Len(out')
                 PROVE  /\ \A i \in 1..(j - 1) : out'[i].session = out'[j].session =>
                             /\ ~Terminal(out'[i])
                             /\ out'[j].kind = "progress" => out'[i].step < out'[j].step
                        /\ out'[j].kind = "success" =>
                             \E i \in 1..(j - 1) :
                                 out'[i] = Progress(4, out'[j].session)
      BY DEF MarkersInOrder
    <3>1. CASE j \in 1..Len(out)
      BY <2>1, <3>1 DEF OrderInv, MarkersInOrder
    <3>2. CASE j = Len(out) + 1
      <4>1. \A i \in 1..(j - 1) : i \in 1..Len(out) /\ out'[i] = out[i]
        BY <2>1, <3>2
      <4>2. m.kind = "success" => \E i \in 1..Len(out) : out[i] = Progress(4, m.session)
        BY DEF OrderInv
      <4> QED
        BY <2>1, <3>2, <4>1, <4>2
    <3> QED
      BY <2>1, <3>1, <3>2
  <2> QED
    BY <2>1, <2>2, <2>3 DEF OrderInv
<1> QED
  BY <1>1, <1>2

LEMMA OrderNext == TypeOK /\ OrderInv /\ [Next]_vars => OrderInv'
<1> SUFFICES ASSUME TypeOK, OrderInv, [Next]_vars PROVE OrderInv'
  OBVIOUS
<1>0. out \in Seq(Markers) /\ succeeded \in BOOLEAN /\ Staged(pc) /\ Staged(pc')
  BY Stages DEF TypeOK
<1> USE DEF run, At
\* The steps that print.
<1>1. ASSUME NEW n \in 1..4, Emit(Progress(n, cmd.session)),
             \/ n = 1 /\ pc \in Silent /\ pc' \in Installing
             \/ n = 2 /\ pc \in Installing /\ pc' \in Saving
             \/ n = 3 /\ pc \in Saving /\ pc' \in Flashing
             \/ n = 4 /\ pc \in Flashing /\ pc' = "readback" /\ tty = "open",
             UNCHANGED <<cmd, used>>
      PROVE  OrderInv'
  <2> DEFINE m == Progress(n, cmd.session)
  <2>1. pc \in Running
    BY <1>0, <1>1 DEF Staged
  <2>2. m \in Markers /\ m.session = cmd.session /\ m.kind = "progress" /\ m.step = n
    BY <2>1, RunMarkers DEF Progress, Marker
  <2>3. ASSUME NEW i \in 1..Len(out), out[i].session = cmd.session
        PROVE  ~Terminal(out[i]) /\ out[i].step < n
    <3>1. out[i] \in Markers /\ Printed(out[i])
      BY <1>0, <2>3 DEF OrderInv
    <3>2. out[i].step \in Nat
      BY <3>1 DEF Markers
    <3> QED
      BY <1>0, <1>1, <3>1, <3>2 DEF Printed, Terminal, Staged
  <2> HIDE DEF m
  <2>4. /\ MarkersInOrder'
        /\ \A i \in 1..Len(out') :
             /\ out'[i].session \in used
             /\ out'[i] = m \/ (i \in 1..Len(out) /\ out'[i] = out[i])
        /\ \A i \in 1..Len(out) : i \in 1..Len(out') /\ out'[i] = out[i]
    BY <1>0, <1>1, <2>1, <2>2, <2>3, EmitOrder DEF m
  <2>5. ASSUME NEW i \in 1..Len(out'), out'[i].session = cmd.session
        PROVE  Printed(out[i])'
    <3>1. out'[i] = m \/ (i \in 1..Len(out) /\ out'[i] = out[i])
      BY <2>4
    <3>2. out'[i].kind = "progress" /\ out'[i].step <= n /\ out'[i].step \in Nat
      <4>1. CASE out'[i] = m
        BY <2>2, <4>1
      <4>2. CASE i \in 1..Len(out) /\ out'[i] = out[i]
        <5>1. out[i] \in Markers /\ Printed(out[i]) /\ out[i].step < n
          BY <1>0, <2>3, <2>5, <4>2 DEF OrderInv
        <5>2. out[i].step \in Nat
          BY <5>1 DEF Markers
        <5>3. out[i].kind = "progress"
          BY <1>0, <1>1, <5>1 DEF Printed, Staged
        <5> QED
          BY <4>2, <5>1, <5>2, <5>3
      <4> QED
        BY <3>1, <4>1, <4>2
    <3>3. /\ pc' \notin Silent /\ pc' # "finish"
          /\ pc' \in Installing => n <= 1
          /\ pc' \in Saving => n <= 2
          /\ pc' \in Flashing => n <= 3
          /\ pc' \in Verifying => n <= 4
      BY <1>0, <1>1 DEF Staged, Verifying
    <3> QED
      BY <3>2, <3>3 DEF Printed
  <2>6. pc' \in Verifying => \E i \in 1..Len(out') : out'[i] = Progress(4, cmd.session)
    <3>1. pc' \in Verifying => tty = "open" /\ n = 4
      BY <1>0, <1>1 DEF Staged, Flashing
    <3>2. tty = "open" => out' = Append(out, m)
      BY <1>1 DEF Emit, m
    <3>3. tty = "open" => Len(out) + 1 \in 1..Len(out') /\ out'[Len(out) + 1] = m
      BY <1>0, <2>2, <3>2
    <3> QED
      BY <3>1, <3>3 DEF m
  <2> QED
    BY <1>0, <1>1, <2>1, <2>4, <2>5, <2>6 DEF OrderInv, Staged, Verifying
\* A terminal marker ends the run.
<1>2. ASSUME NEW m \in Markers, m.session = cmd.session, m.kind # "progress", Emit(m),
             \A j \in 1..Len(out) : out[j].session = cmd.session => ~Terminal(out[j]),
             m.kind = "success" => pc \in Verifying,
             pc \in Running, UNCHANGED <<cmd, used>>,
             pc' = "idle" \/ (pc' = "finish" /\ succeeded')
      PROVE  OrderInv'
  <2>1. /\ MarkersInOrder'
        /\ \A i \in 1..Len(out') : out'[i].session \in used
    BY <1>0, <1>2, EmitOrder
  <2>2. /\ pc' \notin Silent \cup Installing \cup Saving \cup Flashing \cup Verifying
        /\ pc' # "success" /\ cmd.session \in used
    BY <1>0, <1>2 DEF Staged, OrderInv
  <2>3. \A i \in 1..Len(out') : Printed(out[i])'
    BY <1>2, <2>2 DEF Printed
  <2> QED
    BY <1>2, <2>1, <2>2, <2>3 DEF OrderInv
<1>3. ASSUME NEW c \in Commands, Start(c) PROVE OrderInv'
  <2>1. /\ UNCHANGED out /\ cmd' = c /\ used' = used \cup {c.session}
        /\ pc' = "guards" /\ c.session \notin used
    BY <1>3 DEF Start
  <2>2. MarkersInOrder'
    BY <2>1 DEF OrderInv, MarkersInOrder
  <2>3. \A i \in 1..Len(out) : out[i].session \in used /\ out[i].session # c.session
    BY <2>1 DEF OrderInv
  <2>4. pc' \notin Verifying /\ pc' # "success"
    BY <2>1 DEF Verifying
  <2> QED
    BY <2>1, <2>2, <2>3, <2>4 DEF OrderInv
<1>4. CASE AnnounceInstall
  <2>1. pc \in Silent /\ pc' \in Installing
    BY <1>4 DEF AnnounceInstall, Silent, Installing, InstallSteps
  <2> QED
    BY <1>1, <1>4, <2>1 DEF AnnounceInstall
<1>5. CASE CheckQspi
  <2>1. CASE Emit(Progress(2, cmd.session)) /\ pc' = "saveBackup"
    BY <1>1, <1>5, <2>1 DEF CheckQspi, Installing, Saving
  <2>2. CASE pc' = "finish" /\ UNCHANGED out
    <3>1. Onward
      BY <1>0, <1>5, <2>2 DEF CheckQspi, Onward, Staged, Installing
    <3> QED
      BY <3>1, QuietOrder
  <2> QED
    BY <1>5, <2>1, <2>2 DEF CheckQspi
<1>6. CASE WarnErase
  BY <1>1, <1>6 DEF WarnErase, Saving, Flashing
<1>7. CASE AnnounceVerify
  BY <1>1, <1>7 DEF AnnounceVerify, Flashing, Printing
<1>8. CASE ReportPreflight
  <2> DEFINE m == [Marker("preflight-success", cmd.session) EXCEPT !.inventory = seen]
  <2>1. pc \in Silent /\ pc \in Running
    BY <1>0, <1>8 DEF ReportPreflight, Silent, Staged
  <2>2. m \in Markers
    BY <2>1, RunMarkers
  <2>3. m.session = cmd.session /\ m.kind = "preflight-success"
    BY DEF Marker
  <2>4. \A j \in 1..Len(out) : out[j].session # cmd.session
    BY <2>1 DEF OrderInv, Printed
  <2> HIDE DEF m
  <2> QED
    BY <1>2, <1>8, <2>1, <2>2, <2>3, <2>4 DEF ReportPreflight, m
<1>9. CASE ReportSuccess
  <2> DEFINE m == Marker("success", cmd.session)
  <2>1. pc \in Verifying /\ pc \in Running /\ succeeded
    BY <1>0, <1>9 DEF ReportSuccess, Verifying, Staged, OrderInv
  <2>2. m \in Markers
    BY <2>1, RunMarkers
  <2>3. m.session = cmd.session /\ m.kind = "success"
    BY DEF Marker
  <2>4. \A j \in 1..Len(out) : out[j].session = cmd.session => ~Terminal(out[j])
    BY <2>1 DEF OrderInv, Printed, Terminal
  <2> HIDE DEF m
  <2> QED
    BY <1>2, <1>9, <2>1, <2>2, <2>3, <2>4 DEF ReportSuccess, m
<1>10. CASE Finish
  <2> DEFINE m == Marker("failure", cmd.session)
  <2>1. /\ pc = "finish" /\ pc \in Running /\ pc' = "idle"
        /\ UNCHANGED <<cmd, used, succeeded>>
    BY <1>0, <1>10 DEF Finish, Staged
  <2>2. CASE succeeded
    <3>1. Onward
      BY <1>0, <1>10, <2>1, <2>2 DEF Finish, Onward, Staged
    <3> QED
      BY <3>1, QuietOrder
  <2>3. CASE ~succeeded
    <3>1. m \in Markers
      BY <2>1, RunMarkers
    <3>2. m.session = cmd.session /\ m.kind = "failure"
      BY DEF Marker
    <3>3. \A j \in 1..Len(out) : out[j].session = cmd.session => ~Terminal(out[j])
      BY <2>1, <2>3 DEF OrderInv, Printed
    <3>4. Emit(m)
      BY <1>10, <2>3 DEF Finish
    <3> HIDE DEF m
    <3> QED
      BY <1>2, <2>1, <3>1, <3>2, <3>3, <3>4
  <2> QED
    BY <2>2, <2>3
\* The steps that print nothing.
<1> USE DEF Silent, Installing, Saving, Flashing, Verifying, Running, ProvisionSteps,
            InstallSteps, TrappedSteps, QspiSteps
<1>11. CASE Guards \/ RunPreflight \/ ConfirmInventory \/ MountNewRoot \/ CheckBackup
  <2>1. Onward
    BY <1>11 DEF Onward, Guards, RunPreflight, ConfirmInventory, MountNewRoot,
                 CheckBackup
  <2> QED
    BY <2>1, QuietOrder
<1>12. CASE UnmountNewRoot \/ HonourTerm
  <2>1. Onward
    BY <1>12 DEF Onward, UnmountNewRoot, HonourTerm
  <2> QED
    BY <2>1, QuietOrder
<1>13. CASE \/ CheckTarget \/ Partition \/ Format \/ MountRoot \/ Extract \/ Configure
            \/ MountEsp
  <2>1. Onward
    BY <1>13 DEF Onward, CheckTarget, Partition, Format, MountRoot, Extract, Configure,
                 MountEsp
  <2> QED
    BY <2>1, QuietOrder
<1>14. CASE \/ CopyLauncher \/ ResetSync \/ UmountEsp \/ UmountRoot \/ InstallDone
            \/ InstallFails
  <2>1. Onward
    BY <1>14 DEF Onward, CopyLauncher, ResetSync, UmountEsp, UmountRoot, Unmount,
                 InstallDone, InstallFails
  <2> QED
    BY <2>1, QuietOrder
<1>15. CASE SaveBackup \/ RecordBackup \/ Erase \/ Program \/ Readback \/ QspiDone
  <2>1. Onward
    BY <1>15 DEF Onward, SaveBackup, RecordBackup, Erase, Program, Readback, QspiDone
  <2> QED
    BY <2>1, QuietOrder
<1>16. CASE StepFails
  <2>1. Onward
    BY <1>16 DEF Onward, StepFails, Fallible, Printing
  <2> QED
    BY <2>1, QuietOrder
<1>17. CASE TermProvision \/ TermFinish \/ TermInstaller \/ TermInstallerUntrapped
  <2>1. Onward
    BY <1>17 DEF Onward, TermProvision, TermFinish, TermInstaller,
                 TermInstallerUntrapped, OrderInv
  <2> QED
    BY <2>1, QuietOrder
<1>18. CASE \/ Hangup \/ RestartConsole \/ PowerLoss \/ Reboot \/ SwapDisk
            \/ UNCHANGED vars
  <2>1. Onward
    BY <1>18 DEF Onward, Hangup, RestartConsole, PowerLoss, Reboot, SwapDisk, vars,
                 OrderInv
  <2> QED
    BY <2>1, QuietOrder
<1> QED
  BY <1>3, <1>4, <1>5, <1>6, <1>7, <1>8, <1>9, <1>10, <1>11, <1>12, <1>13, <1>14, <1>15,
     <1>16, <1>17, <1>18
     DEF Next, Scripts, Environment, Provision, Install, QspiInstall

\* For each session at most one terminal marker is printed and nothing after
\* it, progress increases, and success follows step 4: under every combination
\* of faults, for any number of runs (the emit functions and EXIT traps of
\* helm-provision, helm-qspi-install's progress).
THEOREM OrderSafety == Spec => []MarkersInOrder
<1>1. TypeOK /\ OrderInv => MarkersInOrder
  BY DEF OrderInv
<1> QED
  BY <1>1, TypeInit, TypeNext, OrderInit, OrderNext, PTL DEF Spec

-----------------------------------------------------------------------------
(* Confirmed writes *)

\* Every step of an install run after its inventory was confirmed.
Confirmed == InstallSteps \cup QspiSteps
               \cup {"announce", "mount", "checkBackup", "unmount", "success",
                     "installFailed"}

\* A disk is exchanged only between runs, so what was confirmed stays there.
ConfirmInv ==
    /\ pc \in {"inspect", "report", "confirm"} => cmd.accepted
    /\ pc = "report" => cmd.kind = "preflight"
    /\ pc = "confirm" => cmd.kind = "install" /\ seen = slot
    /\ pc \in Confirmed => /\ cmd.kind = "install"
                           /\ cmd.accepted
                           /\ cmd.inventory \in {NoInventory, slot}

LEMMA ConfirmInit == Init => ConfirmInv
BY DEF Init, ConfirmInv, Confirmed, InstallSteps, TrappedSteps, QspiSteps

\* What a step may do to the storage.
Permitted ==
    /\ qspi' # qspi => cmd.kind = "install" /\ cmd.accepted
    /\ \A d \in Disks :
         (/\ pc' # "off"
          /\ <<layout'[d], os'[d], launcher'[d], backup'[d]>>
               # <<layout[d], os[d], launcher[d], backup[d]>>)
           => /\ cmd.kind = "install"
              /\ cmd.accepted
              /\ cmd.inventory \in {NoInventory, d}

\* A step after the confirmation that leaves the run and every NVMe but the
\* selected one alone.
LEMMA ConfirmedStep ==
    ASSUME TypeOK, ConfirmInv, pc \in Confirmed,
           pc' \in Confirmed \cup {"finish"}, UNCHANGED <<cmd, seen, slot>>,
           \A d \in Disks \ {slot} :
               <<layout'[d], os'[d], launcher'[d], backup'[d]>>
                 = <<layout[d], os[d], launcher[d], backup[d]>>
    PROVE  ConfirmInv' /\ Permitted
<1>1. ConfirmInv'
  BY DEF ConfirmInv, Confirmed, InstallSteps, TrappedSteps, QspiSteps
<1>2. Permitted
  BY DEF ConfirmInv, Permitted
<1> QED
  BY <1>1, <1>2

\* A step that writes no storage.
LEMMA QuietStep ==
    ASSUME ConfirmInv', UNCHANGED <<qspi, layout, os, launcher, backup>>
    PROVE  ConfirmInv' /\ Permitted
BY DEF Permitted

LEMMA ConfirmNext == TypeOK /\ ConfirmInv /\ [Next]_vars => ConfirmInv' /\ Permitted
<1> SUFFICES ASSUME TypeOK, ConfirmInv, [Next]_vars
             PROVE  ConfirmInv' /\ Permitted
  OBVIOUS
<1> USE DEF run, store, ram, At, Confirmed, InstallSteps, TrappedSteps, QspiSteps
<1>1. ASSUME NEW c \in Commands, Start(c) PROVE ConfirmInv' /\ Permitted
  BY <1>1, QuietStep DEF Start, ConfirmInv
<1>2. CASE Guards \/ ReportPreflight
  BY <1>2, QuietStep DEF Guards, ReportPreflight, ConfirmInv
<1>3. CASE RunPreflight
  <2>1. cmd.kind \in {"preflight", "install"}
    BY <1>3 DEF RunPreflight, TypeOK, Commands, Running
  <2> QED
    BY <1>3, <2>1, QuietStep DEF RunPreflight, ConfirmInv
<1>4. CASE ConfirmInventory
  <2>1. ConfirmInv'
    BY <1>4 DEF ConfirmInventory, ConfirmInv
  <2> QED
    BY <1>4, <2>1, QuietStep DEF ConfirmInventory
<1>5. CASE AnnounceInstall \/ MountNewRoot \/ CheckBackup \/ UnmountNewRoot
  BY <1>5, ConfirmedStep
     DEF AnnounceInstall, MountNewRoot, CheckBackup, UnmountNewRoot
<1>6. CASE ReportSuccess
  BY <1>6, ConfirmedStep DEF ReportSuccess
<1>7. CASE Finish \/ TermFinish
  BY <1>7, QuietStep DEF Finish, TermFinish, ConfirmInv
<1>8. CASE HonourTerm \/ TermProvision
  BY <1>8, QuietStep DEF HonourTerm, TermProvision, ConfirmInv
<1>9. CASE CheckTarget \/ Format \/ MountRoot \/ MountEsp
  BY <1>9, ConfirmedStep DEF CheckTarget, Format, MountRoot, MountEsp, TypeOK
<1>10. CASE Partition
  BY <1>10, ConfirmedStep DEF Partition, Wipe, TypeOK
<1>11. CASE Extract \/ Configure
  BY <1>11, ConfirmedStep DEF Extract, Configure, WriteRootTree, TypeOK
<1>12. CASE CopyLauncher
  BY <1>12, ConfirmedStep DEF CopyLauncher, WriteLauncher, TypeOK
<1>13. CASE ResetSync \/ UmountEsp \/ UmountRoot \/ InstallDone \/ InstallFails
  BY <1>13, ConfirmedStep
     DEF ResetSync, UmountEsp, UmountRoot, Unmount, InstallDone, InstallFails
<1>14. CASE CheckQspi \/ RecordBackup \/ WarnErase \/ AnnounceVerify
  BY <1>14, ConfirmedStep DEF CheckQspi, RecordBackup, WarnErase, AnnounceVerify
<1>15. CASE SaveBackup
  BY <1>15, ConfirmedStep DEF SaveBackup, TypeOK
<1>16. CASE Erase \/ Program \/ Readback \/ QspiDone
  BY <1>16, ConfirmedStep DEF Erase, Program, Readback, QspiDone
<1>17. CASE StepFails
  BY <1>17, QuietStep DEF StepFails, ConfirmInv
<1>18. CASE TermInstaller \/ TermInstallerUntrapped
  BY <1>18, QuietStep DEF TermInstaller, TermInstallerUntrapped, ConfirmInv
<1>19. CASE Hangup \/ RestartConsole \/ Reboot
  BY <1>19, QuietStep DEF Hangup, RestartConsole, Reboot, ConfirmInv
<1>20. CASE PowerLoss
  BY <1>20 DEF PowerLoss, ConfirmInv, Permitted
<1>21. CASE SwapDisk
  BY <1>21, QuietStep DEF SwapDisk, ConfirmInv
<1>22. CASE UNCHANGED vars
  BY <1>22, QuietStep DEF vars, ConfirmInv
<1> QED
  BY <1>1, <1>2, <1>3, <1>4, <1>5, <1>6, <1>7, <1>8, <1>9, <1>10, <1>11, <1>12, <1>13,
     <1>14, <1>15, <1>16, <1>17, <1>18, <1>19, <1>20, <1>21, <1>22
     DEF Next, Scripts, Environment, Provision, Install, QspiInstall

\* No step writes the QSPI outside an accepted install run, or an NVMe other
\* than the one whose inventory the run confirmed (the confirmations and the
\* inventory check of helm-provision, before helm-install is started).
THEOREM ConfirmSafety == Spec => WritesOnlyConfirmed
<1>1. TypeOK /\ ConfirmInv /\ [Next]_vars => [Permitted]_vars
  BY ConfirmNext
<1>2. Spec => [][Permitted]_vars
  BY <1>1, TypeInit, TypeNext, ConfirmInit, ConfirmNext, PTL DEF Spec
<1> QED
  BY <1>2 DEF WritesOnlyConfirmed, Permitted

-----------------------------------------------------------------------------
(* The target under a host, which starts its runs and reads what it prints *)

TargetInv == /\ TypeOK /\ BackupInv /\ InstallInv /\ StageInv /\ ConfirmInv
             /\ ReportInv

LEMMA TargetInit == Init => TargetInv /\ TruthInv
BY TypeInit, BackupInit, InstallInit, StageInit, ConfirmInit
   DEF TargetInv, ReportInv, TruthInv, Init

LEMMA TargetNext == TargetInv /\ [Next]_vars => TargetInv'
BY TypeNext, BackupNext, InstallNext, StageNext, ConfirmNext, ReportNext DEF TargetInv

\* The shell of recovery-init answers a probe.
Echo ==
    /\ \E t \in Tokens : out' = Append(out, Marker("ready", t))
    /\ UNCHANGED <<pc, run, succeeded, pending, flags, mounts, slot, store, ram,
                   qspi, tty>>

LEMMA EchoMoves ==
    TargetInv /\ Echo =>
      /\ TargetInv'
      /\ TruthInv => TruthInv'
      /\ SuccessInv => SuccessInv'
      /\ Provisioned <=> Provisioned'
      /\ \A i \in 1..Len(out) : i \in 1..Len(out') /\ out'[i] = out[i]
<1> SUFFICES ASSUME TargetInv, Echo
             PROVE  /\ TargetInv'
                    /\ TruthInv => TruthInv'
                    /\ SuccessInv => SuccessInv'
                    /\ Provisioned <=> Provisioned'
                    /\ \A i \in 1..Len(out) : i \in 1..Len(out') /\ out'[i] = out[i]
  OBVIOUS
<1> USE DEF Echo, run, store, ram
<1>1. PICK t \in Tokens : out' = Append(out, Marker("ready", t))
  OBVIOUS
<1>2. out \in Seq(Markers) /\ Marker("ready", t) \in Markers
  BY DEF TargetInv, TypeOK, Marker, Markers
<1>3. Marker("ready", t).kind = "ready"
  BY DEF Marker
<1>4. /\ \A i \in 1..Len(out) : i \in 1..Len(out') /\ out'[i] = out[i]
      /\ \A i \in 1..Len(out') : i \in 1..Len(out) \/ out'[i] = Marker("ready", t)
  BY <1>1, <1>2
<1>5. Provisioned <=> Provisioned'
  BY DEF Provisioned
<1>6. TypeOK'
  <2>1. out' \in Seq(Markers)
    BY <1>1, <1>2
  <2> QED
    BY <2>1 DEF TargetInv, TypeOK
<1>7. BackupInv'
  BY DEF TargetInv, BackupInv, BackupCoversLoss
<1>8. InstallInv' /\ StageInv'
  BY DEF TargetInv, InstallInv, Installed, StageInv
<1>9. ConfirmInv'
  BY DEF TargetInv, ConfirmInv
<1>10. ReportInv' /\ (TruthInv => TruthInv')
  BY <1>3, <1>4, <1>5 DEF TargetInv, ReportInv, TruthInv
<1>11. Claimed' <=> Claimed
  BY <1>3, <1>4 DEF Claimed
<1>12. SuccessInv => SuccessInv'
  BY <1>3, <1>4, <1>5, <1>8, <1>11 DEF SuccessInv
<1> QED
  BY <1>4, <1>5, <1>6, <1>7, <1>8, <1>9, <1>10, <1>12 DEF TargetInv

\* Only the shell starts a run.
LEMMA CommandKept ==
    Scripts \/ Environment => UNCHANGED <<cmd, used, before>>
BY DEF Scripts, Provision, Install, QspiInstall, Guards, RunPreflight, ReportPreflight,
       ConfirmInventory, AnnounceInstall, MountNewRoot, CheckBackup, UnmountNewRoot,
       ReportSuccess, Finish, HonourTerm, CheckTarget, Partition, Format, MountRoot,
       Extract, Configure, MountEsp, CopyLauncher, ResetSync, UmountEsp, UmountRoot,
       Unmount, InstallDone, InstallFails, CheckQspi, SaveBackup, RecordBackup, WarnErase,
       Erase, Program, AnnounceVerify, Readback, QspiDone, StepFails, Environment,
       TermProvision, TermFinish, TermInstaller, TermInstallerUntrapped, Hangup,
       RestartConsole, PowerLoss, Reboot, SwapDisk, run

\* Storage in terms of what decides it.
LEMMA StorageMeans ==
    /\ Storage \in {"untouched", "changed", "provisioned"}
    /\ Storage = "untouched" <=> qspi = "factory" /\ \A d \in Disks : layout[d] = "foreign"
    /\ Storage = "provisioned" <=> Provisioned
BY DEF Storage, Provisioned

LEMMA StorageAfter ==
    /\ Storage' \in {"untouched", "changed", "provisioned"}
    /\ Storage' = "untouched" <=> qspi' = "factory"
         /\ \A d \in Disks : layout'[d] = "foreign"
    /\ Storage' = "provisioned" <=> Provisioned'
BY DEF Storage, Provisioned

-----------------------------------------------------------------------------
(* The QSPI, when no command fails and the power stays on *)

\* flashcp, once started, runs to its end: nobody sends it a signal, and it
\* prints nothing before.
FlashInv == qspi = "torn" => pc = "program"

LEMMA FlashStep ==
    ASSUME "step" \notin Faults, "power" \notin Faults, FlashInv, [Next]_vars
    PROVE  FlashInv'
<1> USE DEF run, store, ram, FlashInv
<1>1. CASE \E c \in Commands : Start(c)
  BY <1>1 DEF Start
<1>2. CASE Guards \/ RunPreflight \/ ReportPreflight \/ ConfirmInventory
  BY <1>2 DEF Guards, RunPreflight, ReportPreflight, ConfirmInventory, At
<1>3. CASE AnnounceInstall \/ MountNewRoot \/ CheckBackup \/ UnmountNewRoot
  BY <1>3 DEF AnnounceInstall, MountNewRoot, CheckBackup, UnmountNewRoot, At
<1>4. CASE ReportSuccess \/ Finish \/ HonourTerm
  BY <1>4 DEF ReportSuccess, Finish, HonourTerm, ProvisionSteps, At
<1>5. CASE CheckTarget \/ Partition \/ Format \/ MountRoot \/ Extract
  BY <1>5 DEF CheckTarget, Partition, Format, MountRoot, Extract, At
<1>6. CASE Configure \/ MountEsp \/ CopyLauncher \/ ResetSync \/ UmountEsp
  BY <1>6 DEF Configure, MountEsp, CopyLauncher, ResetSync, UmountEsp, Unmount, At
<1>7. CASE UmountRoot \/ InstallDone \/ InstallFails
  BY <1>7 DEF UmountRoot, Unmount, InstallDone, InstallFails, At
<1>8. CASE CheckQspi \/ SaveBackup \/ RecordBackup \/ WarnErase
  BY <1>8 DEF CheckQspi, SaveBackup, RecordBackup, WarnErase, At
<1>9. CASE Erase \/ Program
  BY <1>9 DEF Erase, Program, At
<1>10. CASE AnnounceVerify \/ Readback \/ QspiDone
  BY <1>10 DEF AnnounceVerify, Readback, QspiDone, At
<1>11. CASE StepFails
  BY <1>11 DEF StepFails, Printing
<1>12. CASE TermProvision \/ TermFinish \/ TermInstaller \/ TermInstallerUntrapped
  BY <1>12 DEF TermProvision, TermFinish, TermInstaller, TermInstallerUntrapped
<1>13. CASE Hangup \/ RestartConsole \/ PowerLoss \/ Reboot \/ SwapDisk
  BY <1>13 DEF Hangup, RestartConsole, PowerLoss, Reboot, SwapDisk
<1>14. CASE UNCHANGED vars
  BY <1>14 DEF vars
<1> QED
  BY <1>1, <1>2, <1>3, <1>4, <1>5, <1>6, <1>7, <1>8, <1>9, <1>10, <1>11, <1>12, <1>13,
     <1>14 DEF Next, Scripts, Environment, Provision, Install, QspiInstall

\* If no command fails and the power stays on, no signal, hangup, exchanged
\* disk or retry leaves the QSPI half written when the scripts have ended
\* (the traps of helm-provision and the run of flashcp).
THEOREM FlashSafety ==
    ASSUME "step" \notin Faults, "power" \notin Faults
    PROVE  Spec => []FlashNeverTorn
<1>1. Init => FlashInv
  BY DEF Init, FlashInv
<1>2. FlashInv /\ [Next]_vars => FlashInv'
  BY FlashStep
<1>3. FlashInv => FlashNeverTorn
  BY DEF FlashInv, FlashNeverTorn
<1> QED
  BY <1>1, <1>2, <1>3, PTL DEF Spec
=============================================================================
