------------------------------ MODULE RcmLoader ------------------------------
(***************************************************************************)
(* The native loader's boot command (jetson_rcm.c with the product-ID      *)
(* patch of helm-macos), one after another, with the boards around it.     *)
(*                                                                         *)
(* Nothing tells the loader which board it opens: each of its three opens  *)
(* takes the only APX device of its product ID on the bus at that moment.  *)
(* Boards are those of that product ID; others are never counted.  Boards  *)
(* behave as in Rcm; a cable can be pulled without resetting its board.    *)
(***************************************************************************)
EXTENDS Naturals, FiniteSets

CONSTANTS
    Boards,
    NoBoard,
    BootromCount,  \* artifacts 1..BootromCount are bootrom_artifacts,
    ArtifactCount, \* the others up to ArtifactCount bootloader_artifacts
    Runs,          \* bound on the loader's runs
    Touches        \* bound on cables pulled and boards reset

ASSUME LoaderAssumption ==
    /\ NoBoard \notin Boards
    /\ BootromCount \in Nat \ {0}
    /\ ArtifactCount \in Nat /\ ArtifactCount > BootromCount
    /\ Runs \in Nat
    /\ Touches \in Nat

VARIABLES
    stage,    \* what runs on each board
    got,      \* the last artifact each board took
    bus,      \* whether each board is on the bus, off it, or its cable pulled
    touches,
    at,       \* where boot() stands
    session,  \* the board whose handle is open
    live,     \* the handle is that of a device still on the bus
    sent,     \* artifacts sent in this run
    late,     \* the deadline of open_t234_rcm has passed
    greeter,  \* history: the board whose banner this run read, until the
              \* operator pulls its cable or resets it
    runs

boardVars  == <<stage, got, bus, touches>>
loaderVars == <<boardVars, at, session, live, sent, late, greeter, runs>>

Finding == {"find1", "find2", "find3"}
Using   == {"uid", "send1", "banner", "send2"}
Ended   == {"idle", "done", "failed"}

LoaderTypeOK ==
    /\ stage \in [Boards -> {"bootrom", "mb1", "recovery", "dead"}]
    /\ got \in [Boards -> 0..ArtifactCount]
    /\ bus \in [Boards -> {"on", "off", "pulled"}]
    /\ touches \in 0..Touches
    /\ at \in Finding \cup Using \cup Ended
    /\ session \in Boards \cup {NoBoard}
    /\ session # NoBoard <=> at \in Using
    /\ live \in BOOLEAN
    /\ sent \in 0..ArtifactCount
    /\ late \in BOOLEAN
    /\ greeter \in Boards \cup {NoBoard}
    /\ runs \in 0..Runs

\* Boards in force recovery, plugged in or not.
LoaderInit ==
    /\ stage = [b \in Boards |-> "bootrom"]
    /\ got = [b \in Boards |-> 0]
    /\ bus \in [Boards -> {"on", "pulled"}]
    /\ touches = 0
    /\ at = "idle"
    /\ session = NoBoard
    /\ live = FALSE
    /\ sent = 0
    /\ late = FALSE
    /\ greeter = NoBoard
    /\ runs = 0

-----------------------------------------------------------------------------
(* The boards, and the operator *)

\* Board b leaves the bus, or an enumeration replaces it: its handle is dead.
Loses(b) == live' = (live /\ session # b)

\* BootROM starts MB1, which takes the board off the bus for a while.
StartMb1(b) ==
    /\ stage[b] = "bootrom"
    /\ got[b] = BootromCount
    /\ stage' = [stage EXCEPT ![b] = "mb1"]
    /\ bus' = [bus EXCEPT ![b] = IF @ = "on" THEN "off" ELSE @]
    /\ Loses(b)
    /\ UNCHANGED <<got, touches, at, session, sent, late, greeter, runs>>

Enumerate(b) ==
    /\ bus[b] = "off"
    /\ stage[b] = "mb1"
    /\ bus' = [bus EXCEPT ![b] = "on"]
    /\ UNCHANGED <<stage, got, touches, at, session, live, sent, late, greeter, runs>>

\* MB1 starts the recovery image, which is no APX device.
StartRecovery(b) ==
    /\ stage[b] = "mb1"
    /\ got[b] = ArtifactCount
    /\ stage' = [stage EXCEPT ![b] = "recovery"]
    /\ bus' = [bus EXCEPT ![b] = IF @ = "on" THEN "off" ELSE @]
    /\ Loses(b)
    /\ UNCHANGED <<got, touches, at, session, sent, late, greeter, runs>>

\* The operator's hand on board b.
Touch(b) ==
    /\ touches < Touches
    /\ touches' = touches + 1
    /\ Loses(b)
    /\ greeter' = IF greeter = b THEN NoBoard ELSE greeter
    /\ UNCHANGED <<at, session, sent, late, runs>>

PullCable(b) ==
    /\ bus[b] # "pulled"
    /\ bus' = [bus EXCEPT ![b] = "pulled"]
    /\ Touch(b)
    /\ UNCHANGED <<stage, got>>

PlugIn(b) ==
    /\ bus[b] = "pulled"
    /\ bus' = [bus EXCEPT ![b] = IF stage[b] = "recovery" THEN "off" ELSE "on"]
    /\ UNCHANGED <<stage, got, touches, at, session, live, sent, late, greeter, runs>>

\* Force recovery.
Reset(b) ==
    /\ stage' = [stage EXCEPT ![b] = "bootrom"]
    /\ got' = [got EXCEPT ![b] = 0]
    /\ bus' = [bus EXCEPT ![b] = IF @ = "pulled" THEN @ ELSE "on"]
    /\ Touch(b)

\* Board b has artifact k on its bulk endpoint; one that expects another
\* artifact is dead until it is reset.
Take(b, k) ==
    LET wanted == k = got[b] + 1 /\ (stage[b] = "mb1" <=> k > BootromCount) IN
    /\ stage[b] \in {"bootrom", "mb1"}
    /\ got[b] < (IF stage[b] = "mb1" THEN ArtifactCount ELSE BootromCount)
    /\ got' = IF wanted THEN [got EXCEPT ![b] = k] ELSE got
    /\ stage' = IF wanted THEN stage ELSE [stage EXCEPT ![b] = "dead"]
    /\ UNCHANGED <<bus, touches>>

-----------------------------------------------------------------------------
(* The loader *)

\* boot() begins; its first open does not wait.
StartBoot ==
    /\ at \in Ended
    /\ runs < Runs
    /\ runs' = runs + 1
    /\ at' = "find1"
    /\ sent' = 0
    /\ late' = TRUE
    /\ greeter' = NoBoard
    /\ UNCHANGED <<boardVars, session, live>>

OnBus == {b \in Boards : bus[b] = "on"}

\* Variant that takes any device when there are several.
AnyMatch(b) == b \in OnBus

\* The match of open_t234_rcm.
OnlyMatch(b) == OnBus = {b}

\* What each open of boot() is for.
Purpose == [place \in Finding |-> CASE place = "find1" -> "uid"
                                    [] place = "find2" -> "banner"
                                    [] place = "find3" -> "send2"]

\* open_t234_rcm opens its match and claims its interface.
Open(b) ==
    /\ at \in Finding
    /\ OnlyMatch(b)
    /\ session' = b
    /\ live' = TRUE
    /\ at' = Purpose[at]
    /\ UNCHANGED <<boardVars, sent, late, greeter, runs>>

\* Several devices: LIBUSB_ERROR_BUSY at once.
Ambiguous ==
    /\ at \in Finding
    /\ Cardinality(OnBus) > 1
    /\ at' = "failed"
    /\ UNCHANGED <<boardVars, session, live, sent, late, greeter, runs>>

\* Nothing there, or its open fails: after the deadline the loop ends, and
\* before it turns again, which changes nothing.
GiveUp ==
    /\ at \in Finding
    /\ late
    /\ Cardinality(OnBus) <= 1
    /\ at' = "failed"
    /\ UNCHANGED <<boardVars, session, live, sent, late, greeter, runs>>

DeadlinePasses ==
    /\ at \in Finding
    /\ ~late
    /\ late' = TRUE
    /\ UNCHANGED <<boardVars, at, session, live, sent, greeter, runs>>

\* close_session, on the way to the next open or to the end.
Close(next) ==
    /\ at' = next
    /\ session' = NoBoard
    /\ live' = FALSE
    /\ late' = FALSE

\* read_bootrom_uid: nothing says that the board is in BootROM.
ReadUid ==
    /\ at = "uid"
    /\ live
    /\ at' = "send1"
    /\ UNCHANGED <<boardVars, session, live, sent, late, greeter, runs>>

\* MB1 sends its banner before it takes artifacts.
ReadBanner ==
    /\ at = "banner"
    /\ live
    /\ stage[session] = "mb1"
    /\ got[session] = BootromCount
    /\ greeter' = session
    /\ Close("find3")
    /\ UNCHANGED <<boardVars, sent, runs>>

\* Variant that leaves the last artifact of a set to the board's patience.
LastOfShort(place) == IF place = "send1" THEN BootromCount ELSE ArtifactCount - 1

\* The artifact that completes the set sent at this place.
LastOf(place) == IF place = "send1" THEN BootromCount ELSE ArtifactCount

\* One turn of send_artifact_set, closing after the last.
Send ==
    /\ at \in {"send1", "send2"}
    /\ live
    /\ Take(session, sent + 1)
    /\ sent' = sent + 1
    /\ IF sent + 1 = LastOf(at)
       THEN Close(IF at = "send1" THEN "find2" ELSE "done")
       ELSE UNCHANGED <<at, session, live, late>>
    /\ UNCHANGED <<greeter, runs>>

\* A transfer fails or runs into its timeout; an artifact may have got there.
TransferFails ==
    /\ at \in Using
    /\ Close("failed")
    /\ \/ UNCHANGED boardVars
       \/ at \in {"send1", "send2"} /\ live /\ Take(session, sent + 1)
    /\ UNCHANGED <<sent, greeter, runs>>

\* The loader is interrupted.
Interrupt ==
    /\ at \notin Ended
    /\ Close("failed")
    /\ UNCHANGED <<boardVars, sent, greeter, runs>>

LoaderStep ==
    \/ \E b \in Boards : Open(b)
    \/ Ambiguous \/ GiveUp \/ ReadUid \/ ReadBanner \/ Send \/ TransferFails

Surroundings ==
    \/ \E b \in Boards :
        \/ StartMb1(b) \/ Enumerate(b) \/ StartRecovery(b)
        \/ PullCable(b) \/ PlugIn(b) \/ Reset(b)
    \/ StartBoot
    \/ Interrupt

LoaderNext == LoaderStep \/ DeadlinePasses \/ Surroundings

LoaderSpec == LoaderInit /\ [][LoaderNext]_loaderVars

-----------------------------------------------------------------------------
\* The third open finds the board that the second found in MB1, although both
\* only take what is alone on the bus, and boards of other runs may appear:
\* no board still in BootROM gets an artifact of the second stage, unless the
\* operator takes the greeting board away in between (boot, open_t234_rcm).
StageTwoToGreeter ==
    at = "send2" /\ live /\ greeter # NoBoard =>
        session = greeter /\ stage[greeter] # "bootrom"

\* "RCM boot payload sent" is printed, and zero returned, only when a board
\* took every artifact in order and lives, whatever an earlier run left on
\* this or another board (boot, send_artifact_set).
SentMeansLoaded ==
    at = "done" /\ greeter # NoBoard =>
        got[greeter] = ArtifactCount /\ stage[greeter] \in {"mb1", "recovery"}
=============================================================================
