-------------------------------- MODULE Rcm --------------------------------
(***************************************************************************)
(* The WebUSB transport that RAM-boots a T234 board (webusb-rcm.js), with  *)
(* the boards and the browser's USB layer around it.                       *)
(*                                                                         *)
(* A board enumerates as an APX device in BootROM, takes four artifacts,   *)
(* enumerates again as MB1, sends a banner, takes two more artifacts and   *)
(* boots the recovery image.  The browser knows a board by a USBDevice     *)
(* object, [board, object], which a new enumeration may replace or reuse.  *)
(* Calls of bootrom() and bootloader() are taken to run at the same time,  *)
(* each advancing by one action per promise that settles.                  *)
(***************************************************************************)
EXTENDS Naturals, FiniteSets

CONSTANTS
    Boards,       \* boards on the USB bus
    Profiles,     \* module profiles of the catalog
    BoardPid,     \* the APX product ID each board enumerates with
    ProfilePid,   \* the APX product ID of each profile
    Serial,       \* the USB serial of each board, or NoSerial
    NoSerial,
    Calls,        \* calls of bootrom() and bootloader()
    Transports,   \* T234WebUsbRcm instances
    Makes,        \* bound on the bundles validated
    Objects,      \* bound on the USBDevice objects of one board
    Resets,       \* bound on the operator's resets of a board
    BootromCount, \* artifacts 1..BootromCount go to BootROM,
    ArtifactCount,\* the others up to ArtifactCount to MB1
    None

Devices == [board: Boards, object: 1..Objects]
Bundles == [profile: Profiles, made: 1..Makes]

ASSUME RcmAssumption ==
    /\ Objects \in Nat \ {0}
    /\ Makes \in Nat \ {0}
    /\ Resets \in Nat
    /\ BootromCount \in Nat \ {0}
    /\ ArtifactCount \in Nat /\ ArtifactCount > BootromCount
    /\ DOMAIN BoardPid = Boards
    /\ DOMAIN ProfilePid = Profiles
    /\ DOMAIN Serial = Boards
    /\ None \notin Devices
    /\ None \notin Bundles
    /\ None \notin Calls
    /\ None \notin Transports

\* A USB serial tells boards apart.
ASSUME SerialAssumption ==
    \A b, e \in Boards : Serial[b] = Serial[e] /\ Serial[b] # NoSerial => b = e

VARIABLES
    stage,      \* what runs on each board
    got,        \* the last artifact each board took
    object,     \* the object number of each board's USBDevice
    granted,    \* devices getDevices() returns
    opened,     \* devices whose handle is open
    opening,    \* devices whose open() outlived its timeout
    resets,     \* resets by the operator so far
    call,       \* the state of every call
    handoff,    \* the handoffs, under the bootrom() call that made them
    fed         \* history: every artifact a board took

usb     == <<stage, got, object, granted, opened, opening, resets, fed>>
rcmVars == <<usb, call, handoff>>

-----------------------------------------------------------------------------
Stages == {"bootrom", "mb1", "recovery", "dead"}
Places == {"idle", "authorizing", "opening", "claiming", "reading", "pausing",
           "sending", "closing", "done"}
Phases == {"none", "awaitingGrant", "chooserPending", "granted", "consumed"}

Idle == [op |-> "none", at |-> "idle", rcm |-> None, device |-> None,
         bundle |-> None, from |-> None, read |-> FALSE, sent |-> 0,
         cycled |-> FALSE, result |-> "none"]

CallStates ==
    [op: {"bootrom", "bootloader"}, at: Places \ {"idle"}, rcm: Transports,
     device: Devices, bundle: Bundles, from: Calls \cup {None},
     read: BOOLEAN, sent: 0..ArtifactCount, cycled: BOOLEAN,
     result: {"none", "ok", "error", "notFound"}]

Feeds == [call: Calls, board: Boards, artifact: 1..ArtifactCount,
          to: Stages \cup {"cycled"}]

RcmTypeOK ==
    /\ stage \in [Boards -> Stages]
    /\ got \in [Boards -> 0..ArtifactCount]
    /\ object \in [Boards -> 1..Objects]
    /\ granted \subseteq Devices
    /\ opened \subseteq Devices
    /\ opening \subseteq Devices
    /\ resets \in 0..Resets
    /\ call \in [Calls -> CallStates \cup {Idle}]
    /\ handoff \in [Calls -> [phase: Phases, device: Devices \cup {None}]]
    /\ \A h \in Calls : handoff[h].device # None <=> handoff[h].phase = "granted"
    /\ fed \subseteq Feeds

\* A board may be in force recovery or left in MB1 by an earlier attempt.
RcmInit ==
    /\ stage \in [Boards -> {"bootrom", "mb1"}]
    /\ got = [b \in Boards |-> IF stage[b] = "mb1" THEN BootromCount ELSE 0]
    /\ object = [b \in Boards |-> 1]
    /\ granted = {}
    /\ opened = {}
    /\ opening = {}
    /\ resets = 0
    /\ call = [c \in Calls |-> Idle]
    /\ handoff = [c \in Calls |-> [phase |-> "none", device |-> None]]
    /\ fed = {}

-----------------------------------------------------------------------------
(* Devices and their identity *)

Present(d) == object[d.board] = d.object /\ stage[d.board] # "recovery"

\* deviceIdentity
Identity(d) == [productId |-> BoardPid[d.board], serialNumber |-> Serial[d.board]]

\* Variant that takes every serial for the right one.
AnySerial(d, identity) == TRUE

SameSerial(d, identity) ==
    identity.serialNumber = NoSerial \/ Serial[d.board] = identity.serialNumber

IdentityMatches(d, identity) ==
    BoardPid[d.board] = identity.productId /\ SameSerial(d, identity)

\* Variant of assertApxDevice that takes any supported product ID.
AnyApx(d, bundle) == TRUE

\* assertApxDevice with the product ID of the bundle.
Expected(d, bundle) == BoardPid[d.board] = ProfilePid[bundle.profile]

\* assertAuthorizedSelection
SoleAuthorized(d, identity) ==
    {x \in granted : IdentityMatches(x, identity)} = {d}

\* A chooser returned d: the browser grants it.
Grant(d) ==
    /\ Present(d)
    /\ granted' = granted \cup {d}
    /\ UNCHANGED <<stage, got, object, opened, opening, resets, fed>>

-----------------------------------------------------------------------------
(* requestBootloaderDevice *)

StartChooser(r, h) ==
    /\ handoff[h].phase = "awaitingGrant"
    /\ call[h].rcm = r
    /\ handoff' = [handoff EXCEPT ![h] = [phase |-> "chooserPending", device |-> None]]
    /\ UNCHANGED <<usb, call>>

ChooserPicks(h, d) ==
    /\ handoff[h].phase = "chooserPending"
    /\ Expected(d, call[h].bundle)
    /\ Grant(d)
    /\ handoff' = [handoff EXCEPT ![h] = [phase |-> "granted", device |-> d]]
    /\ UNCHANGED call

ChooserCloses(h) ==
    /\ handoff[h].phase = "chooserPending"
    /\ handoff' = [handoff EXCEPT ![h] = [phase |-> "awaitingGrant", device |-> None]]
    /\ UNCHANGED <<usb, call>>

-----------------------------------------------------------------------------
(* bootrom and bootloader, up to their first await *)

Started(op, r, d, b, h, sent) ==
    [op |-> op, at |-> "authorizing", rcm |-> r, device |-> d, bundle |-> b,
     from |-> h, read |-> FALSE, sent |-> sent, cycled |-> FALSE, result |-> "none"]

\* bootrom() passes assertApxDevice and reaches its first await.
BootromCall(c, r, d, b) ==
    /\ call[c].op = "none"
    /\ Expected(d, b)
    /\ call' = [call EXCEPT ![c] = Started("bootrom", r, d, b, None, 0)]

StartBootrom(c, r, d, b) == BootromCall(c, r, d, b) /\ UNCHANGED <<usb, handoff>>

\* bootloader() accepts its handoff.
Acceptable(r, d, b, h) ==
    /\ handoff[h].phase = "granted"
    /\ handoff[h].device = d
    /\ call[h].rcm = r
    /\ call[h].bundle = b
    /\ Expected(d, b)
    /\ SameSerial(d, Identity(call[h].device))

\* Variant that keeps the device of the second grant.
StartBootloaderKeepsDevice(c, r, d, b, h) ==
    /\ call[c].op = "none"
    /\ Acceptable(r, d, b, h)
    /\ call' = [call EXCEPT ![c] = Started("bootloader", r, d, b, h, BootromCount)]
    /\ handoff' = [handoff EXCEPT ![h].phase = "consumed"]
    /\ UNCHANGED usb

\* Variant that leaves the handoff to be consumed after the first await.
StartBootloaderLate(c, r, d, b, h) ==
    /\ call[c].op = "none"
    /\ Acceptable(r, d, b, h)
    /\ call' = [call EXCEPT ![c] = Started("bootloader", r, d, b, h, BootromCount)]
    /\ UNCHANGED <<usb, handoff>>

StartBootloader(c, r, d, b, h) ==
    /\ call[c].op = "none"
    /\ Acceptable(r, d, b, h)
    /\ call' = [call EXCEPT ![c] = Started("bootloader", r, d, b, h, BootromCount)]
    /\ handoff' = [handoff EXCEPT ![h] = [phase |-> "consumed", device |-> None]]
    /\ UNCHANGED usb

-----------------------------------------------------------------------------
(* The steps of a call, each when a promise it awaits settles *)

Goes(c, at) == call' = [call EXCEPT ![c].at = at]

\* The identity that the second stage compares with is the first stage's.
FirstDevice(c) ==
    IF call[c].op = "bootloader" THEN call[call[c].from].device ELSE call[c].device

Select(c) ==
    /\ call[c].at = "authorizing"
    /\ SoleAuthorized(call[c].device, Identity(FirstDevice(c)))
    /\ Goes(c, "opening")
    /\ UNCHANGED <<usb, handoff>>

\* device.open() resolves; it rejects while an earlier open() is under way.
Open(c) ==
    LET d == call[c].device IN
    /\ call[c].at = "opening"
    /\ d \in granted \ opening
    /\ opened' = opened \cup {d}
    /\ Goes(c, "claiming")
    /\ UNCHANGED <<stage, got, object, granted, opening, resets, fed, handoff>>

\* The configuration, the interface and its alternate are selected.
Claim(c) ==
    /\ call[c].at = "claiming"
    /\ call[c].device \in opened
    /\ Goes(c, IF call[c].read THEN "sending" ELSE "reading")
    /\ UNCHANGED <<usb, handoff>>

ReadUid(c) ==
    /\ call[c].op = "bootrom"
    /\ call[c].at = "reading"
    /\ call[c].device \in opened
    /\ call' = [call EXCEPT ![c].at = "sending", ![c].read = TRUE]
    /\ UNCHANGED <<usb, handoff>>

\* Variant that goes on without the banner.
SkipBanner(c) ==
    /\ call[c].op = "bootloader"
    /\ call[c].at = "reading"
    /\ call' = [call EXCEPT ![c].at = "pausing", ![c].read = TRUE]
    /\ UNCHANGED <<usb, handoff>>

\* Only MB1 sends a banner; on any other board the read runs into its timeout.
ReadBanner(c) ==
    /\ call[c].op = "bootloader"
    /\ call[c].at = "reading"
    /\ call[c].device \in opened
    /\ stage[call[c].device.board] = "mb1"
    /\ call' = [call EXCEPT ![c].at = "pausing", ![c].read = TRUE]
    /\ UNCHANGED <<usb, handoff>>

\* closeSession between the banner and the second half of bootloader().
Pause(c) ==
    /\ call[c].at = "pausing"
    /\ opened' = opened \ {call[c].device}
    /\ Goes(c, "opening")
    /\ UNCHANGED <<stage, got, object, granted, opening, resets, fed, handoff>>

\* Variant that stops one artifact short of the second set.
LastArtifactShort(c) ==
    IF call[c].op = "bootrom" THEN BootromCount ELSE ArtifactCount - 1

\* The artifact that completes the call's set.
LastArtifact(c) == IF call[c].op = "bootrom" THEN BootromCount ELSE ArtifactCount

\* Board b has call c's artifact k on its bulk endpoint; a board that expects
\* another artifact is dead until it is reset.
Feed(c, b, k) ==
    LET wanted == k = got[b] + 1 /\ (stage[b] = "mb1" <=> k > BootromCount) IN
    /\ stage[b] \in {"bootrom", "mb1"}
    /\ got[b] < (IF stage[b] = "mb1" THEN ArtifactCount ELSE BootromCount)
    /\ got' = IF wanted THEN [got EXCEPT ![b] = k] ELSE got
    /\ stage' = IF wanted THEN stage ELSE [stage EXCEPT ![b] = "dead"]
    /\ fed' = fed \cup {[call |-> c, board |-> b, artifact |-> k,
                         to |-> IF call[c].cycled THEN "cycled" ELSE stage[b]]}

\* transferArtifact
Send(c) ==
    LET k == call[c].sent + 1 IN
    /\ call[c].at = "sending"
    /\ call[c].device \in opened
    /\ Feed(c, call[c].device.board, k)
    /\ call' = [call EXCEPT ![c].sent = k,
                            ![c].at = IF k = LastArtifact(c) THEN "closing" ELSE @]
    /\ UNCHANGED <<object, granted, opened, opening, resets, handoff>>

\* A call settles; only what identifies it is kept.
Ends(c, result) ==
    call' = [call EXCEPT ![c].at = "done", ![c].result = result,
                         ![c].read = FALSE, ![c].sent = 0, ![c].cycled = FALSE]

\* closeSession at the end; bootrom() then leaves a handoff to be granted.
Finish(c) ==
    /\ call[c].at = "closing"
    /\ opened' = opened \ {call[c].device}
    /\ Ends(c, "ok")
    /\ handoff' = IF call[c].op = "bootrom"
                  THEN [handoff EXCEPT ![c].phase = "awaitingGrant"]
                  ELSE handoff
    /\ UNCHANGED <<stage, got, object, granted, opening, resets, fed>>

\* Variant that waits for the banner without a timeout.
FailsUntimed(c, result) ==
    LET d == call[c].device IN
    /\ call[c].at \in {"authorizing", "opening", "claiming", "sending"}
    /\ result = "error"
    /\ opened' = opened \ {d}
    /\ Ends(c, result)
    /\ UNCHANGED <<stage, got, object, granted, opening, resets, fed, handoff>>

\* The awaited promise rejects or its timeout fires, and the catch closes the
\* device as far as it is open.  An open() that is still under way then is
\* left behind; an artifact may have reached the board.  The browser reports
\* an operation on a device that is gone as NotFoundError.
Fails(c, result) ==
    LET d == call[c].device IN
    /\ call[c].at \in {"authorizing", "opening", "claiming", "reading", "sending"}
    /\ result = "error" \/ (result = "notFound" /\ ~Present(d)
                              /\ call[c].at # "authorizing")
    /\ \/ UNCHANGED <<stage, got, fed>>
       \/ /\ call[c].at = "sending"
          /\ d \in opened
          /\ Feed(c, d.board, call[c].sent + 1)
    /\ \/ opening' = opening
       \/ /\ call[c].at = "opening"
          /\ d \in granted \ opened
          /\ opening' = opening \cup {d}
    /\ opened' = opened \ (IF call[c].at = "authorizing" THEN {} ELSE {d})
    /\ Ends(c, result)
    /\ UNCHANGED <<object, granted, resets, handoff>>

CallSteps(c) ==
    \/ Select(c) \/ Open(c) \/ Claim(c) \/ ReadUid(c) \/ ReadBanner(c)
    \/ Pause(c) \/ Send(c) \/ Finish(c)
    \/ \E result \in {"error", "notFound"} : Fails(c, result)

-----------------------------------------------------------------------------
(* The boards and the browser *)

\* Board b leaves the bus and comes back as `new`; the wrapper object may be
\* reused, and a grant may be kept or revoked.
Reattach(b, new) ==
    /\ stage' = [stage EXCEPT ![b] = new]
    /\ opened' = {d \in opened : d.board # b}
    /\ opening' = {d \in opening : d.board # b}
    /\ \E n \in {object[b], object[b] + 1} \cap (1..Objects) :
          /\ object' = [object EXCEPT ![b] = n]
          /\ \E kept \in SUBSET {[board |-> b, object |-> n]} :
                /\ kept # {} => \E d \in granted : d.board = b
                /\ granted' = {d \in granted : d.board # b} \cup kept

EntersMb1(b) ==
    /\ stage[b] = "bootrom"
    /\ got[b] = BootromCount
    /\ Reattach(b, "mb1")
    /\ UNCHANGED <<got, resets, fed, call, handoff>>

\* The recovery image enumerates with another product ID.
BootsRecovery(b) ==
    /\ stage[b] = "mb1"
    /\ got[b] = ArtifactCount
    /\ stage' = [stage EXCEPT ![b] = "recovery"]
    /\ granted' = {d \in granted : d.board # b}
    /\ opened' = {d \in opened : d.board # b}
    /\ opening' = {d \in opening : d.board # b}
    /\ UNCHANGED <<got, object, resets, fed, call, handoff>>

\* The operator re-enters force recovery.
Reset(b) ==
    /\ resets < Resets
    /\ resets' = resets + 1
    /\ Reattach(b, "bootrom")
    /\ got' = [got EXCEPT ![b] = 0]
    /\ call' = [c \in Calls |->
                  IF call[c].at \notin {"idle", "done"} /\ call[c].device.board = b
                  THEN [call[c] EXCEPT !.cycled = TRUE] ELSE call[c]]
    /\ UNCHANGED <<fed, handoff>>

\* An open() whose caller has given up settles.
LateOpen(d) ==
    /\ d \in opening
    /\ opening' = opening \ {d}
    /\ opened' \in {opened, opened \cup {d}}
    /\ UNCHANGED <<stage, got, object, granted, resets, fed, call, handoff>>

Bus ==
    \/ \E b \in Boards : EntersMb1(b) \/ BootsRecovery(b) \/ Reset(b)
    \/ \E d \in Devices : LateOpen(d)

-----------------------------------------------------------------------------
(* A client that uses the transport in any order *)

RequestDevice(d) == d \notin granted /\ Grant(d) /\ UNCHANGED <<call, handoff>>

RcmNext ==
    \/ \E d \in Devices : RequestDevice(d)
    \/ \E c \in Calls, r \in Transports, b \in Bundles, d \in granted :
          StartBootrom(c, r, d, b)
    \/ \E c, h \in Calls, r \in Transports, b \in Bundles, d \in Devices :
          StartBootloader(c, r, d, b, h)
    \/ \E r \in Transports, h \in Calls : StartChooser(r, h)
    \/ \E h \in Calls, d \in Devices : ChooserPicks(h, d)
    \/ \E h \in Calls : ChooserCloses(h)
    \/ \E c \in Calls : CallSteps(c)
    \/ Bus

RcmSpec == RcmInit /\ [][RcmNext]_rcmVars
-----------------------------------------------------------------------------
(* What the transport promises *)

\* The artifacts of the second stage reach only a board that runs MB1: one
\* still in BootROM, chosen again in the second chooser or hiding behind a
\* reused object, sends no banner and gets none of them (readBootloaderBanner
\* before the second transferArtifactSet).  Excepted is a board that the
\* operator resets while the call runs.
StageTwoOnlyToMb1 ==
    \A f \in fed : f.artifact > BootromCount => f.to \in {"mb1", "cycled"}

\* However calls overlap, one handoff starts one second stage: bootloader()
\* consumes it before it first awaits anything.
HandoffOnce ==
    \A c, e \in Calls :
        call[c].op = "bootloader" /\ call[e].op = "bootloader"
          /\ call[c].from = call[e].from => c = e

\* A board with a USB serial that took the first stage is the board that takes
\* the second: the serial of the handoff is compared before and after the
\* second grant.
StageTwoSameBoard ==
    \A f \in fed :
        LET first == FirstDevice(f.call).board IN
        f.artifact > BootromCount /\ Serial[first] # NoSerial => f.board = first

\* No board takes an artifact signed for another product ID, whatever device
\* and bundle the caller combines (assertApxDevice in both stages).
ArtifactsFitBoard ==
    \A f \in fed : BoardPid[f.board] = ProfilePid[call[f.call].bundle.profile]
=============================================================================
