# Helm Jetson Alpine: TLA+ models and proofs

This directory holds the formal models of the parts of this repository that
change a board's persistent storage, of the host programs that ask for it, and
of the tools that build what those programs load.
Paths below are relative to the repository root.

## 1. The system

A Helm carrier with a Jetson P3767 module is provisioned in two phases. A host
RAM-boots a recovery system over USB (BootROM, MB1, recovery: nothing
persistent is written), then talks to that recovery system over a USB serial
console and has it rewrite the NVMe and the QSPI boot flash. The second phase
cannot be undone, which is why most of the models are about it.

| Component | Source | State it keeps | Operations | Talks to |
| --- | --- | --- | --- | --- |
| helm-provision | `os/alpine/rootfs-overlay/usr/sbin/helm-provision` | `succeeded`, `root_mounted`, session, inventory fingerprint | `preflight`, `install`, EXIT trap, signals | runs the two installers, prints `HELM_PROVISION_*` markers |
| helm-install | `.../helm-install` | `root_mounted`, `esp_mounted`; NVMe contents | `inspect`, `install`, `cleanup` trap | NVMe, `helm-boot-success reset` |
| helm-qspi-install | `.../helm-qspi-install` | QSPI contents, backup file | `inspect`, `install` | QSPI (flashcp), NVMe (backup) |
| recovery-init | `os/alpine/initramfs/recovery-init` | which consoles run a shell | console loops | USB gadget, UART |
| recovery protocol | `tools/helm-web/recovery-protocol.mjs` | used tokens, preflight, install attempted | `waitUntilReady`, `preflight`, `install` | transport |
| WebSerialTransport | `tools/helm-web/web-serial-transport.mjs` | port, reader, writer, waiters, framer | open, pump, dispatch, wait, write, close | Web Serial |
| browser app | `tools/helm-web/site/app.mjs`, `install-safety.mjs` | `state`: what is busy, prepared, booted, preflighted, crossed, final | prepare, RAM boot, recovery, install, disconnect handlers | all browser modules |
| WebUSB RCM transport | `tools/helm-web/webusb-rcm.js` | a handoff's phase and chosen device; open device sessions | `requestDevice`, `bootrom`, `requestBootloaderDevice`, `bootloader` | WebUSB, the board's BootROM and MB1 |
| bundle validation | `tools/helm-web/bundle.js`, `sha256.js` | none | parse, validate, hash | app |
| site publisher, server | `tools/helm-web/prepare-site.py`, `server.mjs` | published directory | validate, stage and replace; serve ranges | bundle directories, file system |
| macOS console | `tools/helm-macos/helm-provision-console.py` | modem candidates, line buffers, tokens, deadlines | find modem, ready, preflight, confirm, install | ioreg, recovery console |
| macOS driver | `tools/helm-macos/helm-macos` | none | `provision`, `boot`, `bundle` | loader, console, bundle directories |
| native RCM loader | `tools/helm-macos/vendor/t234-bootkit/macos-rcm` | USB session, deadline of an open | `boot`, `probe`, `verify` | USB, the board's BootROM and MB1 |
| QSPI image builder | `tools/helm-macos/vendor/t234-bootkit/tools/qspi-flash.py` | image and checksum files | `--build-image` | catalog and payload files |
| firmware input pipeline | `tools/helm-macos/generate-r39-seed.py`, `build-r39-family-inputs.py`, `build-rcm-blob.py`, `mkbootimg.py` | seed and output directories | sign and verify a seed; parse, derive and rebuild payloads; publish the inputs | NVIDIA's archive and capsule, Docker |
| OS builds, checks | the other Python, shell and C sources | files | conversions | file system |

**Interactions.** The host writes command lines to the console and reads marker
lines. The shell of recovery-init runs each line; helm-provision calls
helm-install and helm-qspi-install as children under `set -e`. Browser handlers
run between awaits; the transport's pump, timers and disconnect events are
callbacks that settle the promises those handlers await. The macOS console is
a second host for the same console: one thread that writes and reads bytes with
deadlines, after the guided command has found, booted and found again the board.
The build tools meet only in directories: the seed generator writes what the
family builder reads, the bundle command what the publisher reads, and any of
them may run at the same time.

**What is hard.** On the target: any of about thirty commands may fail, any
signal may arrive between two of them, the terminal may hang up so that every
later `printf` fails, the power may be cut, the disk may be exchanged, and a
retry starts on whatever the last run left. On the host: lines are lost, stale
or late, timers race answers, a disconnect event races the handler that already
holds the success marker, and after the confirmation the page can never again
say that nothing was written. On the macOS side also: writes that take half a
line, reads that end in the middle of one, a serial device that changes its name
or gets its identity late. In the build tools: crashes between two renames,
files that change after they were validated, names that meet, and offsets and
digests that depend on each other.

**What makes each part correct.**

- Target: the QSPI is not lost without a stable copy of it; a success marker is
  true and stays true; the installer's zero exit status is true although its
  signal handler does not exit; markers come in order and always end in a
  terminal one; only the confirmed NVMe is written; a host alone cannot cause a
  half-written QSPI.
- Page: the outcome shown is final and always shown; a failed attempt gives the
  page back; an inventory offered for confirmation is fresh.
- Both: nothing is written before the confirmation, only what was shown is
  written, "provisioned" is shown only when it is true.
- RAM boot: stage two is sent only to MB1, never to a board still in BootROM or,
  where serials tell, to another board; no board takes another module's
  artifacts; a handoff starts one second stage; the page's bundle, device,
  transport and handoff stay of one attempt; "complete" is shown only when
  every artifact was taken; the page always returns from a boot.
- macOS console: the same promise as the page; no marker is overlooked and no
  line half sent; only a fingerprint this run was shown is confirmed; the modem
  it writes to is the recovery device of the board that was booted.
- Native loader: the second stage goes only to the board that greeted, and success
  means that this board took every artifact.
- Publisher: there always is a whole site; what it serves is what its catalog
  describes; a foreign directory is left alone.
- Firmware inputs: payloads and records leave no gap and do not overlap where the
  format has none, and memory slots are in order inside their component; a rebuilt
  component passes its own validation; published inputs have every file of their
  index, for this module or for all, and are what their checksums say.
- Hashing: however a file is sliced, the compression function gets the file with its
  padding, nothing else.
- QSPI image: a checksum file beside an image is of that image, with every payload
  whole in its region, and the rest erased if no payload file changed meanwhile.

## 2. The modules

| Module | Models | Extends |
| --- | --- | --- |
| `Wire` | command and marker lines | |
| `Target` | helm-provision, helm-install, helm-qspi-install, the console loop, faults | `Wire` |
| `TargetProofs` | theorems about `Target` and their proofs | `Target`, `TLAPS` |
| `Recovery` | the page's recovery and install handlers, RecoverySession, WebSerialTransport | `Wire` |
| `Promise` | abstract specification: what the page, and the macOS console, promise | |
| `Provisioning` | `Target` and `Recovery` joined by the console; implements `Promise` | `Target`, `Recovery` |
| `ProvisioningProofs` | theorems about the page, alone and with the target | `Provisioning`, `TargetProofs` |
| `Rcm` | the WebUSB transport, the boards and the browser's USB layer | |
| `RamBoot` | the page's profile, prepare and boot handlers on top of the transport | `Rcm` |
| `Console` | the macOS console from the chosen modem on | `Wire` |
| `ConsoleProvisioning` | `Target` and `Console` joined by the serial line; implements `Promise` | `Target`, `Console` |
| `ConsoleProofs` | theorems about the console with the target | `ConsoleProvisioning`, `TargetProofs` |
| `RamBootProofs` | theorems about the transport (`Rcm`) and about the page on top of it | `RamBoot`, `TLAPS` |
| `Modems` | the guided command up to the console: ioreg listings, APX location, `wait_for_modem`, and the USB bus | |
| `RcmLoader` | the native loader's boot command, and the boards | |
| `MacUsb` | one of the two Mac programs that look for a board on USB | `Modems`, `RcmLoader` |
| `MacUsbProofs` | theorems about `Modems` and `RcmLoader` and their proofs | `MacUsb`, `TLAPS` |
| `Firmware` | parsers and builders of firmware images, as operators | |
| `Images` | one call of one of them on any small image | `Firmware` |
| `FamilyInputs` | the seed generator and the family builder | `Firmware` |
| `Site` | the site publisher and the bundle builder | |
| `SiteProofs` | theorems about `Site` and their proofs | `Site`, `TLAPS` |
| `Sha256` | the page's incremental SHA-256 over a sliced file | |
| `Sha256Proofs` | theorems about `Sha256` and their proofs | `Sha256`, `TLAPS` |
| `Qspi` | the builder of the QSPI image | |
| `FirmwareProofs` | theorems about the firmware tools and the builder of the QSPI image | `FamilyInputs`, `Images`, `Qspi`, `TLAPS` |
| `Artifacts` | the tools that read or build files, as alternatives of one run | `FamilyInputs`, `Images`, `Qspi`, `Site`, `Sha256` |
| `MCTarget`, `MCRecovery`, `MCProvisioning`, `MCRcm`, `MCRamBoot`, `MCConsole`, `MCMacUsb`, `MCArtifacts` | instances for TLC: symmetry, token supply, product IDs and serials | one each |

### Target

The three scripts run strictly one after another, so they share one program
counter `pc`, which names the next command that changes storage, mounts or
output. Runs of commands that only read or compare are one step with a
disjunction of outcomes (`Guards`, `RunPreflight`, `CheckTarget`, `CheckQspi`).
`Printing` lists the steps whose command fails when the terminal is hung up,
`Fallible` those that may fail for their own reasons; both fail through
`StepFails`, where `set -e` leads into the EXIT trap of the script the step
belongs to (`InstallFails`, `Finish`).

`flags` are the scripts' own `root_mounted` and `esp_mounted`; `mounts` is what
is really mounted. They differ after `umount || :` on a busy file system. The
installer writes through `RootTree`/`WriteRootTree`/`WriteLauncher`: with the
mount gone these reach the RAM disk (`ramOs`, `ramLauncher`) and not the NVMe,
which is what happens when SIGTERM runs its `cleanup` and the script continues.
`dirty` is what has been written to a mounted NVMe and not synced; `PowerLoss`
may lose any part of it.

| Fault in `Faults` | Actions |
| --- | --- |
| `step` | `StepFails`, failing branches of `Partition`, `SaveBackup`, `Program`, `ResetSync`, busy unmounts |
| `term` | `TermProvision`, `HonourTerm`, `TermFinish`, `TermInstaller`, `TermInstallerUntrapped` |
| `hangup` | `Hangup`, `RestartConsole` |
| `power` | `PowerLoss`, `Reboot` |
| `swap` | `SwapDisk`, between runs |

`HonourTerm` is separate from `TermProvision` because a shell runs a trap only
when the child it waits for has ended.

### Recovery

A handler is a state (`busy`, `awaiting`) and one action per await that settles
(`ReadySettles`, `PreflightSettles`, `InstallSettles`, `CloseSettles`). Events
are guarded by `~Settled`: a settled promise resumes its handler before the
next event is taken. The disconnect event is a separate action from the
unplugging (`HostUnplug`, then `SerialDisconnect`), and the stream's end
(`PumpEnds`) another, since the browser delivers them in either order. The write
promise settles when the browser has buffered the chunk (`Acknowledge`), before
or after the device has it (`Transmit`).

### Provisioning and Promise

`Provisioning` gives the page's bytes to the shell (`ShellReads`) and the
target's markers to the page (`LineArrives`), which may also be lost when the
stream is replaced (`LineLost`) or be found stale at the next open (`Connect`).
`Unplug` is both ends' view of the cable. `Shown` and `Storage` map this state
to `Promise`, an abstract specification of four actions; `Storage` is in `Target`,
for both hosts. `Again` is whether a host may try again after it said "unknown":
the page may not, the console, a program that can be started again, may.

### Rcm

A board enumerates in BootROM, takes artifacts `1..BootromCount`, enumerates
again as MB1, sends a banner, takes the others and boots the recovery image.
`stage` and `got` are the board's side. What JavaScript sees of a board is a
USBDevice object, `[board, object]`; at each new enumeration (`Reattach`) the
browser may reuse the object or make a new one and may keep or revoke the grant,
and the code must be right in all cases.

A call of `bootrom()` or `bootloader()` is a record; its `at` is the await it
stands in, and one action is taken when that promise settles: `Select`
(`assertAuthorizedSelection`), `Open`, `Claim`, `ReadUid` or `ReadBanner`,
`Pause` (the close between the banner and the artifacts), `Send`
(`transferArtifact`), `Finish`. `Fails` is a rejection or a timeout at any of
them, with the closing of the catch and finally blocks. The code up to the first
await, with all its guards and the consumption of the handoff, is one action
(`StartBootrom`, `StartBootloader`). Calls overlap freely: the transport has no
lock. `handoff[c]` is the private state behind the handoff that call `c`
returned; the object itself is only a name.

- An `open()` that outlives its timeout stays in `opening` and finishes late
  (`LateOpen`), since `closeDeviceBestEffort` finds the device not open yet.
- A board that gets an artifact it does not expect is dead until it is reset.
  Neither that nor a call's failure is reported by the board.
- `releaseInterface` and `close` have no timeout in the code; they are taken to
  settle. That an operation on a device that has left the bus rejects with
  NotFoundError is WebUSB's behaviour, outside this repository.
- `fed` is a history variable: which call gave which artifact to which board,
  and whether the board was in BootROM or MB1 then. `cycled` marks calls whose
  board the operator reset while they ran. The browser may reuse the object
  across a reset, so a call that has read the banner and closed the device can
  then open a board back in BootROM; no check can see it, and
  `StageTwoOnlyToMb1` excepts it.

### RamBoot

The page makes at most one transport call per click of its boot button, named
by the number of the click, so `Rcm`'s calls are `1..Clicks`. The page's handlers
are modelled as in `Recovery`: `busy` and `awaiting`, and one action per await
that settles. `ClickFirst`, `ClickDetected`, `ClickSecond` and `ClickStale` are
what a click does up to the first await, `FirstChooserPicks`,
`SecondChooserPicks`, `CallBootloader`, `BootromReturns`, `BootloaderReturns` the
continuations, `Gives` the catch and `Returns` the finally. `handlePrepare` is
`ClickPrepare`, `DetectPicks`, `Downloaded`, `DownloadFails`;
`handleProfileChange` is `ChangeProfile`. A download is one await that gives a new
bundle or fails. A reload of the page is not modelled. T234 boards have no USB
serial, so in this instance the wrong-serial branch of `CallBootloader` is not
reached; `MCRcm` has a board with a serial.

### Console and ConsoleProvisioning

`phase` is where `run_console` stands, `unsent` what `write_all` has still to
write. A line is two pieces, the second with its newline: enough for a write to
take half of it and for a read to end within it. `Read` is one `os.read` with the
loop over the buffer that follows (`Scan`). `stream_until` rebinds `line_buffer`
at the first newline while its caller keeps the object it passed, so between two
readiness probes the caller's `ready_buffer` (`kept`) and the buffer in use
(`buffer`) differ, as in the code. `Fail` is every error and an interrupt, `End`
the return; `doubt` remembers that a run ended with "target state is unknown".

In `ConsoleProvisioning` the pieces the console types are assembled by the
target's shell (`ShellReads`): remains of an abandoned command spoil the line
that follows them, and an odd number of quotation marks, which only half a
readiness probe has, joins lines. The console reads all the target prints since
the modem was opened, and perhaps what was printed before (`OpenConsole`: the
open may flush it or not).

### Modems

`SerialListing` and `UsbListing` are what ioreg prints for the devices of the
moment, line by line; `SerialIdentities` and `UsbDevices` are the two
stack parsers. `CheckLocation` and `ExcludeExisting` are the two statements of
`provision` before the boot. The bus (`Plug`, `Booted`, `Unplug`, `Publish`) moves between any two
statements that read it: between the glob of `/dev` (`List`) and ioreg
(`Look`), and between the polls. Time is counted in polls. A modem appears in
`/dev` before IOKit publishes its identity, as the refresh in `wait_for_modem`
expects. One assumption is about macOS: a name that went away is not given to
another device before `/dev` has been listed again (`vacated`); with it given
away at once, the list of names would not change and the console could go by the
old identity. That the port of the APX device is the port of the recovery
device is checked only through the location, as in the code; the loader itself
finds the board by product ID.

### RcmLoader and MacUsb

`at` is where `boot` stands: one of its three opens (`find1` to `find3`) or a use of
the handle (`uid`, `send1`, `banner`, `send2`). Nothing tells the loader which board
it opens: each open takes the only APX device of its product ID that is on the bus at
that moment, fails if there are two, and, after the first open, tries again while
there is none, until `open_t234_rcm`'s deadline has passed (`late`). The boards of
the model are those of that product ID. A board off the bus is enumerating again
(`off`) or its cable is pulled (`pulled`); pulling a cable does not reset a board
powered by its carrier, so the operator can also bring back a board that still runs
MB1. `live` is whether the open handle is of a device still on the bus. `greeter` is
a history variable: the board whose banner this run read, cleared when the operator
pulls or resets it, which the properties except. Loaders run one after another on
whatever the last one left.

`MacUsb` joins this with `Modems` as two alternatives: the console's run sees the
boot as one action of its own, so the two share no state.

### Firmware and Images

Sizes and offsets are scaled down (a block is 2, a chunk 3, a page 2, 4 or 8), with
the order and divisibility the code checks; a digest is a record of what it was
taken of, so two digests are equal when that is. `Images` gives each parser or
builder every small image of its kind, most of them malformed, and `ParseImage`
is the call. Left out are the digests of single memory slots and chunks,
LZ4 itself, and magic numbers and versions other than the components'.

### FamilyInputs

`Generator` is `generate-r39-seed.py`, `Build` is `build-r39-family-inputs.py`, both
one action per call that leaves something on disk. Copies of the seed are seen
half done; the builder's directory is private until `PublishInputs` renames it.
Six rows stand for the 61 of the index: one with a payload of its own for the
module, one common to all, one from the seed, an empty one, and two that meet
under one name in chains A and B. `agree` is whether the seed's common files are
those of the capsule. What differs between NVIDIA's cold-boot and recovery tables
is the field `updated`; the delta and the rebuilding around it are one step, and
the memory and DCE components, built likewise, are left out.

`CleanProfileDirectory` is `prepare_family_inputs` of helm-macos, which empties the
directory of a profile, published inputs and the temporary directories of dead runs
included, before it runs the builder. Runs of helm-macos for one profile are taken to
follow one another and emptying to be one step; builders at work at the same time are
runs of the script itself. A second helm-macos that empties the directory under a
running builder is left out: the builder would go on with what is left, and
`SHA256SUMS` lists only what is there.

### Site

The publisher is one action per call that reads or changes the file system; the
second rename, its failure and the handler are `MoveIn`, `MoveInFails` and
`PutBack`. Files are inodes, since a hard link shares one with the bundle. The
builder of helm-macos deletes and rewrites the bundle meanwhile. `Die` is a crash
or a KeyboardInterrupt, which `except Exception` does not catch. Two assumptions:
the handler's own rename does not fail, and the user puts a directory at the
output path only while no publisher runs. The publisher's process IDs differ, but
an earlier process of the same number may have left a `.previous` directory.

### Sha256

A behaviour hashes one file: `NextSlice` is the loop over the slices, `Absorb` a pass
of the loop in `update`, `Finish` the padding and the length field of `digest`. The
compression function is left out; `compressed` is what it is given, and the property
compares that with the file and its FIPS 180-4 padding, written down independently. A
cell of the block is a byte: of the file, zero, the mark 0x80, or a byte of one of the
two words of the length field, the most significant first (`setUint32`). With `Block` =
64, `WordBytes` = 4 and `Word` = 2^32 the geometry is the code's: the field is bytes 56
to 63, its high word in front.

### Qspi

A payload is a sequence of units and stands for its own digest; `file` is what a
payload's file really holds, which `Exchange` may change, also after `load_catalog`
has checked it. `WritePartition` is one payload with all its copies, and the builder
can fail (`Fail`) or be killed (`KillBuilder`) between any two calls. Whoever starts
it again removes what was left (`CleanDirectory`), as the builder refuses an existing
target. The catalogs cover regions that meet, overlap, are empty, or end at the end
of the image, with payloads shorter than their region and as long as it.

### Artifacts

`Artifacts` picks one of the five tools, since they share no state; one run then
checks all of them.

## 3. The runs

All states are checked; no run is a simulation.

| Run | Checks | Bounds | Distinct states |
| --- | --- | --- | --- |
| `target_faults` | `TypeOK`, `BackupCoversLoss`, `SuccessMeansProvisioned`, `InstallerSuccessMeansInstalled`, `MarkersInOrder`, `WritesOnlyConfirmed` | 2 disks, 2 sessions, all faults | 168,526 |
| `target_outcome` | `OutcomeReported` (liveness) | 2 disks, 2 sessions; `step`, `swap` | 25,474 |
| `target_hangup_stops` | `OperationContinues`, violated | `hangup` | |
| `target_retry` | `ExistingBackupKept`, violated | `step` | |
| `recovery_page` | `OutcomeIsFinal`, `OutcomeShown`, `RecoveryReturns` (the last two liveness) | 2 attempts, 5 tokens, 2 probes, any console | 11,604 |
| `provisioning` | `OnlyShownInventoryWritten`, `ShownInventoryIsFresh`, `PromiseKept` (refinement) | 2 attempts, 5 tokens, 2 probes, 1 lost line, 2 disks; `hangup`, `swap` | 2,820,755 |
| `rcm_transport` | `RcmTypeOK`, `StageTwoOnlyToMb1`, `HandoffOnce`, `StageTwoSameBoard`, `ArtifactsFitBoard` | 3 calls, 2 boards of one product ID, one with a serial, 2 profiles, 2 objects per board, 1 reset, 2+1 artifacts | 1,276,153 |
| `ram_boot` | `OneAttempt`, `CompleteMeansLoaded`, `BootReturns` (liveness) | 3 clicks, 2 bundles, 2 boards, 3 profiles (2 share a product ID), 2 objects per board, 2+2 artifacts | 430,594 |
| `ram_boot_retry` | `HandoffRetriable`, violated | 1 board, 1 reset | |
| `console` | `PromiseKept` (refinement), `NoMarkerMissed`, `NothingHalfTyped`, `ConfirmationIsFresh`, `FlashNeverTorn` | 2 runs of the console, 4 tokens, 1 repeated probe, 2 disks; `term`, `hangup`, `swap` | 1,051,816 |
| `mac_usb` | `ListingUnderstood`, `ChosenIsRecovery`, `AmbiguityRefused`, `StageTwoToGreeter`, `SentMeansLoaded` | 2 ports, 2 names, 2 devices plugged in, 6 polls, refresh and stability of 2; 2 boards, 2 runs of the loader, 2 cables pulled or boards reset, 2+2 artifacts | 503,192 |
| `artifacts` | `PartsInPlace`, `RebuildAccepted`, `InputsWhole`, `ChecksumMeansImage`, `CatalogTrue`, `SiteRestored`, `SiteNeverLost`, `ForeignKept`, `HashesPaddedFile` | images up to 7 units; 2 generators, 2 builders, 2 modules; QSPI images of 6 units, catalogs of 2 partitions, 1 exchange; 2 publishers, 2 builds of the bundle; files of 0 to 130 bytes, slices of 5, 56, 63, 64, 65 and 200 | 1,554,744 |

**Bounds and why they are enough.** Two disks: one shown and one exchanged for it.
Two sessions in `Target`: a run and its retry, on whatever the first left; a third
starts from the same kinds of state. Two attempts in `Recovery` and `Provisioning`,
and two runs of the console: one abandoned and one that may be confused by it.
`Tokens` in the host runs are as many as the attempts can use, which
`TokensAssumption` of `Recovery` and an `ASSUME` of `MCConsole` state. `Probes` and
`Repeats` bound the readiness probes, which both hosts repeat every two seconds; an
answer left over from one is what the next exchange may find in the buffer, so the
page has two in both its runs. `Losses` bounds lost lines. The two host runs leave
out commands that fail (`step`), which `target_faults` covers and which look to a
host like a refused profile or an exchanged disk: a failure marker.

In `mac_usb`, two ports are the right one and a wrong one, and two devices plugged in
by hand are enough for a replacement of the board and a second recovery device; the
deadline leaves time for a candidate that is lost and found again. In `artifacts`,
images of seven units hold two payloads with room for a gap, an overlap and padding;
two runs of a tool are one that dies or is overtaken and one that finds what it left;
two builds of the bundle are one that is published and one that replaces it. A QSPI
image of three erase blocks has a first, a middle and a last region, and two
partitions are what can overlap, meet, or share an offset. Blocks and length field of
SHA-256 are the code's; a word counts to 256 only, so that files of up to 130 bytes
carry into the high one. They end at every place in a block, before and after the room
for the length field; slices end next to the ends of blocks and are shorter and longer
than one. The directory of a profile may be emptied between any two runs of its builder.

For the loader, two boards are the one that is being booted and one that can be taken
for it; two pulls or resets remove one and bring the other; the second run meets the
boards as the first left them.

In `rcm_transport`, three calls are a `bootrom()` and two `bootloader()` calls
racing for its handoff, or two first stages and one second; two boards of one
product ID are what only a serial can tell apart; a second object per board makes
"stale" and "reused" both possible. In `ram_boot`, three clicks are a boot with
one failure and retry at either stage, two bundles let a stale handoff meet a new
bundle, and of the three profiles two share a product ID, so that detection both
selects a profile and leaves the choice to the customer. `ram_boot` has no reset
(one makes it 3.7 million states; the safety properties hold there too); the
transport's run has one.

**Deadlock.** Tokens, attempts and builds run out, so every run ends somewhere,
and a provisioned board waits to be switched off: `CHECK_DEADLOCK FALSE`.

**Symmetry.** Disks and, in `Target`, tokens are only compared for equality.
`Recovery` picks tokens with `CHOOSE`, so there only disks are permuted.
`rcm_transport` permutes calls, which are only names there; `ram_boot` numbers
them, and does not. `mac_usb` permutes modem names. No liveness run uses symmetry.

**Fairness.** `FairSpec` assumes weak fairness of `Scripts`: once started the
scripts run unattended and every command ends. Nothing is assumed of the
environment. `HostFairSpec` assumes weak fairness of a settled promise's handler
(`Resume`), of a timer (`Timeout`) and of the browser's writer, which buffers a
chunk or fails it (`Writer`); nothing of the customer, the cable or the console.
`RecoveryReturns` starts after the port chooser, which may stay open for ever.
`BootFairSpec` assumes weak fairness of the page's continuations (`Handler`) and
of the transport's awaits (`Transport`), each of which has a timeout; nothing of
the operator, the choosers or the boards. `BootReturns` likewise starts after a
chooser.

## 4. What the runs show

- Every property the code's own comments and structure rely on holds under all
  modelled faults. In particular a SIGTERM to helm-install, whose handler
  unmounts both file systems and does not exit, can make it write on into RAM,
  but never return zero: one of the two final `umount`s fails.
- `target_hangup_stops`: helm-provision says of a cable interruption "The
  operation continues on-target". `flashcp` does complete, but the next command
  that prints to the hung terminal fails and `set -e` ends the run before its
  readback.
- `target_retry`: "refusing to overwrite existing QSPI backup" cannot refuse,
  because the disk holding the backup has been reformatted before the check. In the
  trace a first run saves the factory QSPI, erases it, and fails before it is written;
  a retry repartitions the disk, and with it goes the only copy of the factory QSPI;
  both checks for an existing backup then pass, and the erased QSPI is saved as the
  backup.
- `ram_boot_retry`: the page takes any NotFoundError for a closed chooser and
  says "Click again to retry the second grant." A board that disappears during
  the second stage gives the same error, after `bootloader()` has consumed the
  handoff; the retry it offers can only be refused.

- The macOS console keeps the same promise as the page, although a run that is
  abandoned can leave half a command or an open quotation in the target's shell,
  and two runs may follow each other while the target still works.
- `AmbiguityRefused` holds for devices whose identity has been published for one
  refresh interval: a second recovery device whose identity comes later than that
  is not seen before the first is chosen, which no program could.
- The native loader's second open does not wait for the board to have left the bus:
  it may open the BootROM device again. `StageTwoToGreeter` shows why this is harmless:
  a board in BootROM sends no banner, and the run fails without sending anything.
- A payload file that grows after `load_catalog` has checked it is written past its
  region, and only the regions are read back; the checksum is taken of the image as it
  is then. `ChecksumMeansImage` therefore promises, when files change, every payload in
  its place but not that the rest is erased or the image no longer than it should be.
- The publisher's handler puts the old site back; a crash between its renames
  leaves the site set aside under `.previous-<pid>`, whole but not served. Because
  the bundle command deletes before it writes, a site published by hard links keeps
  its files when the bundle is rebuilt; `CatalogTrue` fails as soon as a builder
  writes in place. It does not hold for a publisher that runs across a run of the
  builder: `prepare_site` validates first and copies later, and the digests in its
  catalog are those of the validation. The page compares them again and refuses
  such files.

## 5. What is proved

`TargetProofs` proves, for every set of disks, tokens and faults:

| Theorem | Property | Inductive invariant |
| --- | --- | --- |
| `TypeCorrect` | `TypeOK` | itself |
| `BackupSafety` | `BackupCoversLoss` | `BackupInv` |
| `InstallSafety` | `InstallerSuccessMeansInstalled` | `InstallInv` |
| `SuccessSafety` | `SuccessMeansProvisioned` | `SuccessInv` |
| `OrderSafety` | `MarkersInOrder` | `OrderInv` |
| `ConfirmSafety` | `WritesOnlyConfirmed` | `ConfirmInv` |
| `FlashSafety` | `FlashNeverTorn` | `FlashInv` |

`RamBootProofs` proves of the transport, for any boards, product IDs, serials,
profiles, calls, transports, artifact counts and numbers of objects and resets:

| Theorem | Property | Inductive invariant |
| --- | --- | --- |
| `RcmTypeCorrect` | `RcmTypeOK` | `TypeInv` (with `SentInv`), `LeftInv` |
| `HandoffSafety` | `HandoffOnce` | `OnceInv` |
| `ArtifactSafety` | `ArtifactsFitBoard` | `PlaceInv` |
| `SameBoardSafety` | `StageTwoSameBoard` | `PlaceInv` |
| `Mb1Safety` | `StageTwoOnlyToMb1` | `Mb1Inv` |

`SiteProofs` proves, for any number of publishers and of runs of the bundle builder
(`artifacts` checks two of each):

| Theorem | Property | Inductive invariant |
| --- | --- | --- |
| `SiteTypeCorrect` | | `SiteTypeOK` |
| `SiteNeverLostAlways` | `SiteNeverLost` | `SiteSafe` |
| `SiteRestoredAlways` | `SiteRestored` | `SiteSafe` |
| `ForeignKeptAlways` | `ForeignKept` | `SiteSafe` |
| `CatalogTrueAlways` | `CatalogTrue` | `SiteSafe`, `CatalogInv` |

`ProvisioningProofs` and `ConsoleProofs` prove of the two hosts, for any disks, tokens,
faults, attempts, probes and lost lines, and any number of runs of the console:

| Module | Theorem | Property | Inductive invariant |
| --- | --- | --- | --- |
| `ProvisioningProofs` | `PageCorrect` | `PageInv`, of the page with any console | itself |
| | `OutcomeFinality` | `OutcomeIsFinal`, of the page with any console | |
| | `ShownWrittenSafety` | `OnlyShownInventoryWritten` | `IInv` |
| | `ShownFreshSafety` | `ShownInventoryIsFresh` | `IInv` |
| | `PromiseSafety` | `PromiseKept` (refinement) | `IInv` |
| `ConsoleProofs` | `TypedWhole` | `NothingHalfTyped` | `IInv` |
| | `MarkerSafety` | `NoMarkerMissed` | `IInv` |
| | `ConfirmationSafety` | `ConfirmationIsFresh` | `IInv` |
| | `PromiseSafety` | `PromiseKept` (refinement) | `IInv` |

And of the other components, for any boards, ports, names, timings, profiles, runs, clicks,
file and slice sizes, images, seeds, catalogs and storage geometries:

| Module | Theorem | Property | Inductive invariant |
| --- | --- | --- | --- |
| `RamBootProofs` | `PageTypeCorrect` | | `BusInv`, `Own` |
| | `AttemptSafety` | `OneAttempt` | `Own` |
| | `CompleteSafety` | `CompleteMeansLoaded` | `LoadInv` (with `BusInv`, `Own`) |
| `MacUsbProofs` | `UnderstoodAlways` | `ListingUnderstood` | none needed: true of every state |
| | `ChosenAlways` | `ChosenIsRecovery` | `ModemsInv` |
| | `RefusedAlways` | `AmbiguityRefused` | `ModemsInv` |
| | `BothPrograms` | | that `MacUsbSpec` implies `Spec` and `LoaderSpec` |
| | `LoaderTypeCorrect` | | `TypeInv` (with `SentInv`, `HandleInv`) |
| | `GreeterSafety` | `StageTwoToGreeter` | `GreeterInv` |
| | `LoadedSafety` | `SentMeansLoaded` | `GreeterInv` |
| `Sha256Proofs` | `ShaTypeCorrect` | | `ShaTypeOK` |
| | `HashesPaddedFileAlways` | `HashesPaddedFile` | `ShaInv` |
| `FirmwareProofs` | `PartsInPlaceAlways` | `PartsInPlace` | `ImagesInv` |
| | `RewriteIsResigned` | `RebuildAccepted` | `ImagesInv` |
| | `PublishedInputsWhole` | `InputsWhole` | `FamilyInv` |
| | `ImageIsCatalog` | `ChecksumMeansImage` | `QspiTypes`, `QspiInv` |

The assumptions are the named ones of the modules: `NoInventory` is no disk, `Faults`
names modelled faults, the counts of `RcmAssumption` are numbers with at least one
artifact in each stage, and `None` is none of the values it stands beside.
`SerialAssumption`, that two boards do not have the same serial, is used only by
`SameBoardSafety`. `TokensAssumption` gives the page two tokens for every attempt and
one more; the code draws 128 random bits each time. Two theorems say in their
statement what else they assume: `FlashSafety`, that no command fails and the power
stays on (neither `step` nor `power` in `Faults`), and `CompleteSafety`, that the
first set has more than one artifact (the code's has four). `Sha256Assumption` bounds
a file by `8 * n < Word * Word`, which the code's test `Number.isSafeInteger` implies
for 32-bit words, and says that a block is longer than its length field and a word
counts to a multiple of eight. `SeedAssumption` says that the seed's module is one of
finitely many,
`LargestAssumption` that the bounds of the images are numbers, `TimesAssumption` that the
console's times are, `LocationsAssumption` that a Mac has finitely many ports,
`NoPathAssumption` that no path stands for no path, and `QspiAssumption` that the storage
and an erase block are not empty, and a payload is a sequence of units other than the
erased one. The others say of a bound that it is a number (`AttemptsAssumption`,
`RepeatsAssumption`, `LossesAssumption`, `BuildsAssumption`, `ProbesAssumption`, with at
least one probe), `RamBootAssumption` that a click makes at most one call and transport,
`LoaderAssumption` of the loader what `RcmAssumption` says of the transport.

*BackupSafety.* The property alone is not inductive: nothing in it says that the
QSPI is unchanged until the backup is recorded. `BackupInv` adds that: before
`erase` the QSPI equals `before`; after `saveBackup` the mounted disk holds a
copy, and after `recordBackup` it is not dirty. A new run resets `before`, which
is why the property is about the current or last run.

*InstallSafety.* `InstallInv` says, for each step of helm-install, what must
already be on the disk if the mounts are still there. The interesting step is
`TermInstaller`: it may remove the mounts anywhere, and the invariant then only
promises that `Unmount` will fail.

*SuccessSafety.* `SuccessInv` carries the installer's result through the QSPI
phase (`PastInstall`, `PastBackup`) up to the marker (`Claimed`). It uses the
other two invariants.

*OrderSafety.* Markers are only ever appended, so the order follows from what a run can
have printed when it appends one. `OrderInv` says that for each stage of a run
(`Printed`); every step goes on by at most one stage (`Stages`). That success comes
after step 4 needs more than the stage: the step that announces the verification may
fail on a hung terminal, and then the run must not reach the success marker, so the
invariant also says that from then on that line is out.

*ConfirmSafety.* `ConfirmInv` carries what `require_install_confirmation` established
from there to the last write: the disk in the slot is the one confirmed. It holds
because in the model a disk is exchanged only between runs (see section 6); `Permitted`
is what any step may do to storage, shown once per action.

*FlashSafety.* Short, and worth stating for what it does not need: the QSPI is torn only
while `flashcp` runs (`FlashInv`), because no signal reaches it (the traps of
helm-provision forward none to it) and it prints nothing that a hung terminal could
fail. A failing command or a power loss does leave it torn; `BackupSafety` covers those.

*The hosts.* Both hosts are proved about together with the target, for every step of
either, and both proofs rest on the same facts about the target: `TargetInv`, the
conjunction of its invariants, kept by every step of `Target` (`TargetNext`); that its
steps change storage only where `Permitted` allows; that once the storage is provisioned
no step takes that back (`ProvisionedStays`); that an install never makes the QSPI
"factory" again (`NeverRestored`); and what a marker that was printed says of the storage
(`ReportInv`, `TruthInv`). The faults are those the composed models let happen: failing
commands, hang-ups and exchanged disks under the page, and SIGTERM too under the console.
Power cuts are in `Target` only, where `SuccessSafety` says what a success marker is worth
after one.

*PageCorrect.* `PageInv` is about the page with any console. `QueueInv` says that the
install command is the last line that will ever be sent and names the disk that was
shown. It follows from `CourseInv`: after the confirmation the page makes no other
exchange. A page that made one could run out of tokens in the model; `TokenInv`
counts them.

*ShownWrittenSafety, ShownFreshSafety, PromiseSafety of the page.* The invariant adds to
`PageInv` and the target's what ties the two together. `JobInv`: until the target has
read the install command, its storage is as it was, and when it has read it, no line is
left that could start another run. `HeardInv`: a marker the page holds was printed by the
target for the page's token, so an inventory it shows is that of its own preflight, and
"complete" means provisioned storage. Every page step then maps to one of `Promise` or
a stutter, every target step to `Work` or a stutter.

*TypedWhole, MarkerSafety, ConfirmationSafety.* The console adds pieces of lines.
`UnsentInv` says that what remains of a command is its whole rest; a write takes a
part and leaves the other, so a line lies in the terminal to its newline before the
console waits. `BufferInv` is what makes reading sound although `line_buffer` is
rebound: while a marker is awaited, the buffer is empty or holds exactly the piece
before `pos`, and a piece that was dropped with the probe's buffer is not half of the
awaited line. What a read appends then continues it (`Consecutive`), and `Scan` finds
the first awaited line that ends in it. `TokenInv` says that a run's token is in no
script before its command is written, so no marker of that token can have been
printed where the console has already read.

*PromiseSafety of the console.* Unlike the page it may be started again, over what an
earlier run left half typed. `JobInv` holds as long as no run ended in doubt: an install
command in the terminal or in the shell is then that of the run under way, and
without one nothing was written. `VerdictInv`: after a success the terminal holds
nothing that could start another run, so the success stays true.

*RcmTypeCorrect.* That `sent` stays within the artifacts needs `SentInv`: a call
under way has artifacts left. That a handoff holds a device exactly while it is
granted needs `LeftInv`: only a finished `bootrom()` call has a handoff, so the
step that makes one overwrites nothing.

*HandoffSafety.* `OnceInv` adds that a handoff some call has taken is consumed;
consumed is for ever (`AllKeep`), and `StartBootloader` needs a granted one.

*ArtifactSafety, SameBoardSafety.* `PlaceInv` says of each call what its
synchronous guards established, and of each artifact in `fed` that it went to the
call's device. A begun call never changes what identifies it (`AllKeep`), and a
call begins only through those guards (`Begins`).

*Mb1Safety.* `Mb1Inv` says that a `bootloader()` call that has its banner is on a
board past BootROM or was cycled, and sends nothing before. The interesting step
is a reset: it is the only step back to BootROM (`StageStep`) and marks every
call on its board (`ResetKeeps`).

*SiteNeverLost, SiteRestored, ForeignKept.* `SiteSafe` is the types and four parts.
`StageWhole`: a stage is whole before it is moved. `MovedAside`: what is about to be
moved away is not the user's, and what was moved away can be put back.
`Restorable`: when nothing is at the output though a publisher moved something
away, one still at `MoveIn` moved what was there last, or one has died. `Replaced`: when a
publisher is about to remove an old site, there is a whole one at the output or
under a name that no publisher is about to remove; that is what makes two
publishers removing their old sites harmless.

*CatalogTrue.* Nothing about the output alone is inductive, because a published file
may share its inode with the bundle. `CatalogInv` carries the agreement with the
catalog from validation (`Validated`) through copying (`CopiedTrue`) to the stage and
the output, and says that a builder under way has removed the SHA256SUMS it will
write. `BuilderAdds` is the crux: builders only add inodes.

*AttemptSafety.* A continuation of the page acts on what its click left before the
await. `Own` says for each await what that was (`HandlerInv`) and that the transport's
call under way is the click's own, with the click's bundle and transport (`ClickInv`).
The transport's own steps keep what a call was given (`TransportKeeps`, from the
transport's `Same`), so a handoff that comes back belongs to the bundle still prepared.

*CompleteSafety.* The page knows only that `bootloader()` resolved; the boards must have
taken every artifact. `LoadInv` follows a call: the page has one under way at a time
(`SerialInv`); what a call has sent was taken, unless the call failed or can send no
more (`Loaded`, `Stuck`); a call between two artifacts of the first set has its board in
BootROM, having taken as many as were sent, or was overtaken by a reset (`Between`).
The hard case is a first artifact sent to a board already in MB1: the transfer
succeeds and the board dies of it. The call then never sends its second artifact, so
never finishes, which is where more than one artifact is needed. The second set is
`StageTwoOnlyToMb1`, part of the invariant.

*UnderstoodAlways.* The stacks of a listing are a recursive function; `StacksAre` shows
that it is what its lines make it, by the least counterexample. A node closes those not
left of it (`NodePushed`), so the lines of one modem end on the stack hub, device,
interface, client whatever was open before (`ModemRead`), and those of one USB device
close the device before it and nothing else (`DeviceRead`). What is collected at each line
then follows (`UsbCollected`): device k at the line behind its own, the hub at the end.

*ChosenAlways, RefusedAlways.* The console goes by identities it read some polls ago.
`ReadInv` says what makes that sound: of every modem it has listed, either the name has
gone since the last listing (`vacated`), or the listing just made shows its absence, or
it is still on the port where it was read; then a candidate is a match, and a match is a
candidate or unresolved, and unresolved only if it was published too late for the last
reading and the next one is due within a refresh interval of that. Pulling a modem out
moves it to the first case, and a name is not reused before a listing, so a change of the
bus always reaches the console as a change of the list. `ListedInv` says that for the
listing just made, `ProgramInv` that no two candidates are ever kept, which is why
there is no second when one is chosen. That the port is the APX device's comes from
`IsHelmRecovery` and `expected`, never from the loader.

*GreeterSafety, LoadedSafety.* `GreeterInv`: from the banner to the end of the run, the
greeter waits in MB1 with exactly the bootrom artifacts taken, and during the second
transfer the open handle is its. It survives the third open, which looks for a
device anew, because the loader counts: an open with a second device on the bus
fails, and the greeter leaves the bus only by the operator's hand, which clears
`greeter`.

*HashesPaddedFileAlways.* `ShaInv` says that blocks compressed and buffer together are
the bytes taken so far, that whole blocks were compressed, and, once finished, that they
are the padded file. Two facts about numbers carry the rest: that the
padded length is the least number of blocks that holds file, mark and length, and that
the two words, each computed by itself, are the length in bits (`LengthField`), the high
word's truncation included.

*PartsInPlaceAlways.* What is accepted or built is a cursor that starts behind the header
and never goes back: behind the payloads of a BUP, the padded slots of a memory
component, the records of a recovery blob. `CursorTiles` shows of any such cursor that
the parts between its places tile what it went over, `NeverBack` that it stays in order
over any distance; both by the least counterexample (`Least`), which is induction by a
fact that the prover can use. `CursorsAre` shows in the same way that the recursive
cursor of `build_blob` is what its loop makes it. Memory slots have gaps between them
where the code allows it, so of them only the order is proved, that they lie in the
component, and that the last one ends with it (`SlotsInOrder`); of a boot image, that
the pages of its three parts tile it (`PagesTile`). `ImagesInv` says that the image is one
of those given and the result what its tool makes of it. The theorem is for a table of
any number of entries and for parts of any size; the units of the formats (a block, a
chunk, an alignment) keep the values the model scales them to.

*RewriteIsResigned.* Of the two digests the outer covers the inner, so sealing them in
the other order leaves a stale one. `RebuiltIsSigned` says that what `Refresh` makes of a
genuine component with another payload is what signing makes of that payload;
`OnlySigned` that any other component the model has is refused.

*PublishedInputsWhole.* `FamilyInv` follows a run of the builder by its row: the index
has a record for every row done, each with the one file of its name that the temporary
directory has (`Kept`, `OneEach`), the seed qualified when the run began and has not
changed (it is always the P3767-0001's, and of the rows only `eks` comes from it; the
others are the capsule's), and before the rename the RCM table is there. The interesting step is
`put_file`: it keeps a file it finds only if it is the same (`FilePut`), so that a row
of the B chain cannot change what a row of the A chain recorded (`KeptStays`).

*ImageIsCatalog.* `QspiTypes` and `QspiInv`: from the catalog's checks on, the partitions
are apart and inside the storage (`Admitted`); while payloads are written, every unit of
the image is erased or is under one already written (`Laid`); after the read-back the
image is right everywhere (`Whole`), and a finished checksum is of the image that is
there. Writing bounds where payloads can be, the read-back says what they are; neither is
enough alone. The hard part is that files may be exchanged after their digests were
compared: the image may then have grown, or units that should be erased may not be, but
`ReadBackStep` shows that a read-back which succeeds leaves no payload torn.

Each invariant was first checked by TLC. The proofs have one step per action.

Only model-checked, since liveness is out of the prover's reach: `OutcomeReported`,
`OutcomeShown`, `RecoveryReturns` and `BootReturns`. Every safety property that a run
checks is the property of a theorem.

## 6. What is not modelled

- Data: fingerprints stand for the disk they are a digest of, sessions and
  profiles are values, a file tree is absent, present or bootable; an artifact
  is a number, a bundle a profile and which download it came from, and a chunked
  transfer of an artifact one step that reaches the board or not.
- A second console (the UART) running helm-provision at the same time, and an
  exchange of the NVMe within a run.
- SIGTERM sent to helm-qspi-install itself: nothing in the repository sends it.
- Of the firmware pipeline: the vendored `build-bch.py` and `apply-bct-delta.py`,
  Docker and NVIDIA's tools (each a step that succeeds or fails), LZ4, the memory
  and DCE components of the RCM stage, the formats of flash index, profile and
  checksum files.
- Of the publisher: the front end's files, symbolic links, and the containment of
  source and output directories, which only refuse.
- The compression function of SHA-256, and the parsers of PROFILE and SHA256SUMS,
  which only accept or refuse.
- The loader's `probe` and `verify`, which only read, and artifacts rebuilt while the
  loader sends them; two loaders at once, which claiming the interface keeps
  apart. The importer of NVIDIA's flash index, a pure conversion, and `--execute` of
  the QSPI tool, which helm-macos never calls; two builders of one image at once.
- The static server: each request reads and sends one file, and `parseRange` is a
  pure function of its header with unit tests for its cases.
- The OS image build and the appliance scripts: batch scripts and one-shot sysfs
  accesses with no interaction. `check-public-source.py` and CI: one pass over the
  tree with regular expressions, nothing to interleave.
- Of the macOS console's ending, the wording: `Fail` is every error and interrupt, and
  does not tell an `OSError` of a write from the others.
- The console's `--self-test` and those of the other tools.

## 7. Plan

Done: `Wire`, `Target`, `TargetProofs`, `Recovery`, `Promise`, `Provisioning`,
`ProvisioningProofs`, `Rcm`, `RamBoot`, `RamBootProofs`, `Console`,
`ConsoleProvisioning`, `ConsoleProofs`, `Modems`, `RcmLoader`, `MacUsb`, `MacUsbProofs`,
`Firmware`, `Images`, `FamilyInputs`, `Qspi`, `FirmwareProofs`, `Sha256`, `Sha256Proofs`,
`Site`, `SiteProofs`, `Artifacts`.

Next, in this order:

1. A second console on the target, and SIGTERM to helm-qspi-install.
2. The line framer and HTTP ranges, each against a reference definition.
3. `Prepare`: download and validation in the app.
