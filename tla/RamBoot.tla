------------------------------ MODULE RamBoot ------------------------------
(***************************************************************************)
(* The page's RAM boot (app.mjs): detecting a module, downloading its      *)
(* bundle, and the two clicks of the boot button that drive the transport  *)
(* of Rcm.  As in Recovery, a handler is a state, `awaiting`, with one     *)
(* action per await that settles; boards and browser move in between.      *)
(* Every click of the boot button makes at most one call of the transport, *)
(* which goes by the number of the click.                                  *)
(***************************************************************************)
EXTENDS Rcm

CONSTANT Clicks     \* bound on clicks of the boot button

ASSUME RamBootAssumption ==
    Clicks \in Nat /\ Calls = 1..Clicks /\ Transports = 1..Clicks

VARIABLES
    busy,           \* state.busy
    awaiting,       \* what the running handler awaits
    selected,       \* state.selectedProfile
    bootromDevice,  \* state.bootromDevice
    preparedBundle, \* state.preparedBundle
    rcm,            \* state.rcm
    rcmHandoff,     \* state.rcmHandoff
    bootComplete,   \* state.bootComplete
    clicks,         \* clicks of the boot button so far
    made            \* bundles validated so far

boot     == <<rcm, rcmHandoff, bootComplete, clicks>>
bundle   == <<selected, bootromDevice, preparedBundle, made>>
bootVars == <<rcmVars, busy, awaiting, bundle, boot>>

PageTypeOK ==
    /\ RcmTypeOK
    /\ <<busy, awaiting>> \in {<<"none", "nothing">>,
          <<"prepare", "chooser">>, <<"prepare", "download">>,
          <<"boot", "chooser">>, <<"boot", "grant">>, <<"boot", "transport">>}
    /\ selected \in Profiles \cup {None}
    /\ bootromDevice \in Devices \cup {None}
    /\ preparedBundle \in Bundles \cup {None}
    /\ rcm \in Transports \cup {None}
    /\ rcmHandoff \in Calls \cup {None}
    /\ bootComplete \in BOOLEAN
    /\ clicks \in 0..Clicks
    /\ made \in 0..Makes

BootInit ==
    /\ RcmInit
    /\ busy = "none"
    /\ awaiting = "nothing"
    /\ selected = None
    /\ bootromDevice = None
    /\ preparedBundle = None
    /\ rcm = None
    /\ rcmHandoff = None
    /\ bootComplete = FALSE
    /\ clicks = 0
    /\ made = 0

\* The finally of a handler.
Returns == busy' = "none" /\ awaiting' = "nothing"

-----------------------------------------------------------------------------
(* handleProfileChange *)

\* Variant that keeps the handoff of the bundle it drops.
ChangeProfileKeepsHandoff(p) ==
    /\ busy = "none" /\ ~bootComplete /\ p # selected
    /\ selected' = p
    /\ preparedBundle' = None
    /\ bootromDevice' = IF bootromDevice = None \/ p = None THEN None
                        ELSE IF Expected(bootromDevice, [profile |-> p])
                             THEN bootromDevice ELSE None
    /\ UNCHANGED <<rcmVars, busy, awaiting, made, boot>>

ChangeProfile(p) ==
    /\ busy = "none"
    /\ ~bootComplete
    /\ p # selected
    /\ selected' = p
    /\ preparedBundle' = None
    /\ rcm' = None
    /\ rcmHandoff' = None
    /\ bootromDevice' = IF bootromDevice = None \/ p = None THEN None
                        ELSE IF Expected(bootromDevice, [profile |-> p])
                             THEN bootromDevice ELSE None
    /\ UNCHANGED <<rcmVars, busy, awaiting, made, bootComplete, clicks>>

-----------------------------------------------------------------------------
(* handlePrepare *)

Detecting == bootromDevice = None /\ selected = None

ClickPrepare ==
    /\ busy = "none"
    /\ ~bootComplete
    /\ preparedBundle = None
    /\ selected # None \/ bootromDevice = None
    /\ made < Makes
    /\ busy' = "prepare"
    /\ awaiting' = IF Detecting THEN "chooser" ELSE "download"
    /\ UNCHANGED <<rcmVars, bundle, boot>>

\* The chooser of any supported APX device: a product ID of one profile
\* selects that profile, a shared one leaves the choice to the operator.
DetectPicks(d) ==
    LET fitting == {p \in Profiles : Expected(d, [profile |-> p])} IN
    /\ busy = "prepare" /\ awaiting = "chooser"
    /\ Grant(d)
    /\ bootromDevice' = d
    /\ \/ /\ Cardinality(fitting) = 1
          /\ selected' \in fitting
          /\ awaiting' = "download"
          /\ busy' = busy
       \/ /\ Cardinality(fitting) > 1
          /\ selected' = None
          /\ Returns
    /\ UNCHANGED <<call, handoff, preparedBundle, made, boot>>

DetectCloses ==
    /\ busy = "prepare" /\ awaiting = "chooser"
    /\ Returns
    /\ UNCHANGED <<rcmVars, bundle, boot>>

\* downloadAndValidate returns a new bundle, or throws.
Downloaded ==
    /\ awaiting = "download"
    /\ made' = made + 1
    /\ preparedBundle' = [profile |-> selected, made |-> made']
    /\ Returns
    /\ UNCHANGED <<rcmVars, selected, bootromDevice, boot>>

DownloadFails ==
    /\ awaiting = "download"
    /\ preparedBundle' = None
    /\ Returns
    /\ UNCHANGED <<rcmVars, selected, bootromDevice, made, boot>>

-----------------------------------------------------------------------------
(* handleBoot *)

Continuing == rcmHandoff # None

\* The catch of handleBoot: a NotFoundError is taken for a closed chooser.
Gives(error) ==
    /\ Returns
    /\ IF error = "notFound"
       THEN UNCHANGED <<rcm, rcmHandoff>>
       ELSE rcm' = None /\ rcmHandoff' = None
    /\ UNCHANGED <<bootComplete, clicks>>

\* The guards of handleBoot, and the transport it uses.
ClickBoot ==
    /\ busy = "none"
    /\ ~bootComplete
    /\ preparedBundle # None
    /\ clicks < Clicks
    /\ clicks' = clicks + 1
    /\ rcm' = IF rcm = None THEN clicks' ELSE rcm

\* The first click without a detected device opens the first chooser.
ClickFirst ==
    /\ ~Continuing
    /\ bootromDevice = None
    /\ ClickBoot
    /\ busy' = "boot" /\ awaiting' = "chooser"
    /\ UNCHANGED <<rcmVars, bundle, rcmHandoff, bootComplete>>

\* The first click with a detected device calls bootrom() at once.
ClickDetected ==
    /\ ~Continuing
    /\ bootromDevice # None
    /\ ClickBoot
    /\ bootromDevice' = None
    /\ BootromCall(clicks', rcm', bootromDevice, preparedBundle)
    /\ busy' = "boot" /\ awaiting' = "transport"
    /\ UNCHANGED <<usb, handoff, selected, preparedBundle, made, rcmHandoff,
                   bootComplete>>

\* The second click opens the second chooser.
ClickSecond ==
    /\ Continuing
    /\ ClickBoot
    /\ StartChooser(rcm, rcmHandoff)
    /\ busy' = "boot" /\ awaiting' = "chooser"
    /\ UNCHANGED <<bundle, rcmHandoff, bootComplete>>

\* requestBootloaderDevice throws: the transport no longer knows the handoff.
ClickStale ==
    /\ Continuing
    /\ busy = "none"
    /\ ~bootComplete
    /\ preparedBundle # None
    /\ clicks < Clicks
    /\ handoff[rcmHandoff].phase # "awaitingGrant"
    /\ clicks' = clicks + 1
    /\ rcm' = None
    /\ rcmHandoff' = None
    /\ UNCHANGED <<rcmVars, busy, awaiting, bundle, bootComplete>>

FirstChooserPicks(d) ==
    /\ busy = "boot" /\ awaiting = "chooser" /\ ~Continuing
    /\ Grant(d)
    /\ BootromCall(clicks, rcm, d, preparedBundle)
    /\ awaiting' = "transport"
    /\ UNCHANGED <<handoff, busy, bundle, boot>>

FirstChooserCloses ==
    /\ busy = "boot" /\ awaiting = "chooser" /\ ~Continuing
    /\ Gives("notFound")
    /\ UNCHANGED <<rcmVars, bundle>>

SecondChooserPicks(d) ==
    /\ busy = "boot" /\ awaiting = "chooser" /\ Continuing
    /\ ChooserPicks(rcmHandoff, d)
    /\ awaiting' = "grant"
    /\ UNCHANGED <<busy, bundle, boot>>

SecondChooserCloses ==
    /\ busy = "boot" /\ awaiting = "chooser" /\ Continuing
    /\ ChooserCloses(rcmHandoff)
    /\ Gives("notFound")
    /\ UNCHANGED bundle

\* bootloader() accepts the device that was chosen, or throws: the page's
\* checks leave a wrong USB serial as the only cause, which T234 boards, that
\* have none, cannot give.
CallBootloader ==
    LET d == handoff[rcmHandoff].device IN
    /\ awaiting = "grant"
    /\ IF Acceptable(rcm, d, preparedBundle, rcmHandoff)
       THEN /\ StartBootloader(clicks, rcm, d, preparedBundle, rcmHandoff)
            /\ awaiting' = "transport"
            /\ UNCHANGED <<busy, boot>>
       ELSE Gives("error") /\ UNCHANGED rcmVars
    /\ UNCHANGED bundle

\* The promise of the transport's call settles.
BootromReturns ==
    /\ awaiting = "transport"
    /\ call[clicks].op = "bootrom" /\ call[clicks].result = "ok"
    /\ rcmHandoff' = clicks
    /\ Returns
    /\ UNCHANGED <<rcmVars, bundle, rcm, bootComplete, clicks>>

BootloaderReturns ==
    /\ awaiting = "transport"
    /\ call[clicks].op = "bootloader" /\ call[clicks].result = "ok"
    /\ rcmHandoff' = None
    /\ rcm' = None
    /\ bootComplete' = TRUE
    /\ preparedBundle' = None
    /\ Returns
    /\ UNCHANGED <<rcmVars, selected, bootromDevice, made, clicks>>

CallThrows ==
    /\ awaiting = "transport"
    /\ call[clicks].result \in {"error", "notFound"}
    /\ Gives(call[clicks].result)
    /\ UNCHANGED <<rcmVars, bundle>>

-----------------------------------------------------------------------------
Operator ==
    \/ \E p \in Profiles \cup {None} : ChangeProfile(p)
    \/ ClickPrepare \/ ClickFirst \/ ClickDetected \/ ClickSecond \/ ClickStale
    \/ DetectCloses \/ FirstChooserCloses \/ SecondChooserCloses
    \/ \E d \in Devices :
          DetectPicks(d) \/ FirstChooserPicks(d) \/ SecondChooserPicks(d)

Handler ==
    \/ Downloaded \/ DownloadFails
    \/ CallBootloader \/ BootromReturns
    \/ BootloaderReturns \/ CallThrows

Transport == \E c \in Calls : CallSteps(c)

pageVars == <<busy, awaiting, bundle, boot>>

BootNext ==
    \/ Operator
    \/ Handler
    \/ (Transport \/ Bus) /\ UNCHANGED pageVars

BootSpec == BootInit /\ [][BootNext]_bootVars

\* The page resumes its handlers, and every promise of the transport settles,
\* at the latest through its timeout.  Nothing is assumed of the operator and
\* of the boards.
BootFairSpec ==
    /\ BootSpec
    /\ WF_bootVars(Handler)
    /\ WF_bootVars(Transport /\ UNCHANGED pageVars)

-----------------------------------------------------------------------------
(* What the page promises *)

\* The handoff that the next click continues belongs to the prepared bundle and
\* to the transport the page holds, and no device of a detection is left for it.
HandoffMatchesBundle ==
    rcmHandoff # None =>
        /\ preparedBundle # None
        /\ call[rcmHandoff].bundle = preparedBundle
        /\ call[rcmHandoff].rcm = rcm
        /\ bootromDevice = None

\* A detected device is kept only for a profile with its product ID, and a
\* bundle only for the profile it was downloaded for.
SelectionAgrees ==
    /\ preparedBundle # None => preparedBundle.profile = selected
    /\ bootromDevice # None /\ selected # None =>
          Expected(bootromDevice, [profile |-> selected])

\* Profile, device, bundle, transport and handoff are of one attempt, whatever
\* profile changes, failures and retries came before (state in
\* clearPreparedBundle, handlePrepare and handleBoot).
OneAttempt == HandoffMatchesBundle /\ SelectionAgrees

\* The page calls the RAM boot complete only when the boards took every
\* artifact of the bundle: the first set in BootROM by the call that made the
\* handoff, the second in MB1 by the call that used it up.
CompleteMeansLoaded ==
    bootComplete =>
        \E c \in Calls :
            /\ call[c].op = "bootloader"
            /\ \A k \in 1..ArtifactCount :
                \E f \in fed :
                    /\ f.artifact = k
                    /\ f.call = IF k <= BootromCount THEN call[c].from ELSE c
                    /\ f.to \in {"cycled",
                                 IF k <= BootromCount THEN "bootrom" ELSE "mb1"}

\* Once the operator has chosen a device, the boot handler returns and the page
\* takes clicks again, also when the chosen board never answers.
BootReturns == busy = "boot" /\ awaiting # "chooser" ~> busy = "none"

\* "Click again to retry the second grant.": a handoff that the page keeps for
\* another click is one that the transport still accepts.
HandoffRetriable ==
    busy = "none" /\ rcmHandoff # None => handoff[rcmHandoff].phase = "awaitingGrant"
=============================================================================
