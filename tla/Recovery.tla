------------------------------ MODULE Recovery ------------------------------
(***************************************************************************)
(* The browser side of Helm provisioning, from the moment the board has    *)
(* been RAM-booted: the page's recovery and install handlers (app.mjs),    *)
(* RecoverySession and WebSerialTransport.                                 *)
(*                                                                         *)
(* JavaScript runs one callback at a time, and a promise that settles      *)
(* resumes its handler before the next event is taken.  A handler is       *)
(* therefore a state, `awaiting`, and one action per await that settles;   *)
(* events (lines, timers, writes, disconnects) are taken only while no     *)
(* handler can resume.  The console itself is `wire`, and the lines that   *)
(* come back are given by whoever uses this module (HostReceives).         *)
(***************************************************************************)
EXTENDS Wire, FiniteSets

CONSTANTS
    Attempts,   \* bound on clicks of the recovery button
    Probes      \* bound on unanswered readiness probes

ASSUME AttemptsAssumption == Attempts \in Nat
ASSUME ProbesAssumption == Probes \in Nat \ {0}

\* Tokens do not run out: an attempt uses two, the install one.
ASSUME TokensAssumption == IsFiniteSet(Tokens) => Cardinality(Tokens) > 2 * Attempts

VARIABLES
    attempts,       \* clicks of the recovery button so far
    busy,           \* state.busy: "none", "recovery" or "install"
    awaiting,       \* what the running handler awaits
    preflight,      \* inventory shown to the customer, or NoInventory
    disconnected,   \* state.recoveryDisconnected
    crossed,        \* state.installBoundaryCrossed
    outcome,        \* installComplete / persistentStateUnknown
    progress,       \* lastProgressStep
    issued,         \* tokens made by #nextToken
    token,          \* token of the exchange under way
    cable,          \* whether the recovery cable is plugged in
    port,           \* "none", "up", "down", "downSeen" (disconnect event taken)
    listening,      \* the transport's pump is reading
    waiter,         \* the registered waiter: "none", "waiting", "rejected"
                    \* or the marker it was resolved with
    writing,        \* the last write: "done", "pending" or "failed"
    outbox,         \* chunks queued in the port's writer
    wire            \* bytes delivered to the target's terminal

page      == <<attempts, busy, awaiting, preflight, disconnected, crossed,
               outcome, progress, issued, token>>
transport == <<port, listening, waiter, writing, outbox>>
hostVars  == <<page, transport, cable, wire>>

-----------------------------------------------------------------------------
Probe(t) == Command("ready", t, NoInventory)
Lines    == {Command(k, t, NoInventory) : k \in {"ready", "preflight"}, t \in Tokens}
              \cup {Command("install", t, d) : t \in Tokens, d \in Disks}

\* #nextToken: tokens are random and never repeat.
Fresh == CHOOSE t \in Tokens : t \notin issued

HostInit ==
    /\ attempts = 0
    /\ busy = "none"
    /\ awaiting = "nothing"
    /\ preflight = NoInventory
    /\ disconnected = FALSE
    /\ crossed = FALSE
    /\ outcome = "none"
    /\ progress = 0
    /\ issued = {}
    /\ token = Fresh
    /\ cable = TRUE
    /\ port = "none"
    /\ listening = FALSE
    /\ waiter = [kind |-> "none"]
    /\ writing = "done"
    /\ outbox = <<>>
    /\ wire = <<>>

-----------------------------------------------------------------------------
(* Resuming a handler *)

\* The waiter's promise has settled.
Answered == waiter.kind \notin {"none", "waiting"}

\* The running handler can resume: waitUntilReady races the answer against a
\* failed write, writeAndWaitForLine awaits the write first, then the answer.
Settled ==
    \/ awaiting = "ready" /\ (Answered \/ writing = "failed")
    \/ /\ awaiting \in {"preflight", "install"}
       /\ writing = "failed" \/ (writing = "done" /\ Answered)

\* The marker the handler resumes with, or that it throws.
Reply == IF writing = "failed" THEN "failed" ELSE waiter.kind

\* writeAscii; with the device gone the writer drops the chunk and will fail.
Write(command) ==
    /\ outbox' = IF port = "up" THEN Append(outbox, command) ELSE outbox
    /\ writing' = "pending"

\* waitForLine and writeAscii: the waiter is registered before the command is
\* handed to the writer; with the pump gone it is rejected at once.
Exchange(command) ==
    /\ issued' = issued \cup {Fresh}
    /\ token' = Fresh
    /\ waiter' = [kind |-> IF listening THEN "waiting" ELSE "rejected"]
    /\ Write(command)

-----------------------------------------------------------------------------
(* handleRecovery *)

ClickRecovery ==
    /\ busy = "none"
    /\ preflight = NoInventory
    /\ outcome # "unknown"
    /\ attempts < Attempts
    /\ Tokens \ issued # {}
    /\ attempts' = attempts + 1
    /\ busy' = "recovery"
    /\ awaiting' = "port"
    /\ disconnected' = FALSE
    /\ UNCHANGED <<preflight, crossed, outcome, progress, issued, token,
                   transport, cable, wire>>

\* requestAndOpen succeeds; waitUntilReady registers its waiter and probes.
OpenPort ==
    /\ awaiting = "port"
    /\ cable
    /\ awaiting' = "ready"
    /\ port' = "up"
    /\ listening' = TRUE
    /\ issued' = issued \cup {Fresh}
    /\ token' = Fresh
    /\ waiter' = [kind |-> "waiting"]
    /\ outbox' = <<Probe(Fresh)>>
    /\ writing' = "pending"
    /\ UNCHANGED <<attempts, busy, preflight, disconnected, crossed, outcome,
                   progress, cable, wire>>

\* The chooser is closed, or the port cannot be opened.
OpenFails ==
    /\ awaiting = "port"
    /\ awaiting' = "nothing"
    /\ busy' = "none"
    /\ UNCHANGED <<attempts, preflight, disconnected, crossed, outcome, progress,
                   issued, token, transport, cable, wire>>

\* The probe timer: a new probe once the last one has been written.
SendProbe ==
    /\ awaiting = "ready" /\ ~Settled
    /\ writing = "done"
    /\ Len(outbox \o wire) < Probes
    /\ Write(Probe(token))
    /\ UNCHANGED <<page, port, listening, waiter, cable, wire>>

\* catch, then closeRecoveryBestEffort.
AbandonRecovery ==
    /\ awaiting' = "close"
    /\ waiter' = [kind |-> "none"]
    /\ UNCHANGED <<attempts, busy, preflight, disconnected, crossed, outcome,
                   progress, issued, token, port, listening, writing, outbox,
                   cable, wire>>

\* waitUntilReady settles; preflight sends its command.
ReadySettles ==
    /\ awaiting = "ready" /\ Settled
    /\ IF Reply = "ready"
       THEN /\ awaiting' = "preflight"
            /\ Exchange(Command("preflight", Fresh, NoInventory))
            /\ UNCHANGED <<attempts, busy, preflight, disconnected, crossed,
                           outcome, progress, port, listening, cable, wire>>
       ELSE AbandonRecovery

\* preflight settles; the page shows the inventory it returned.
PreflightSettles ==
    /\ awaiting = "preflight" /\ Settled
    /\ IF Reply = "preflight-success"
       THEN /\ awaiting' = "nothing"
            /\ busy' = "none"
            /\ preflight' = waiter.inventory
            /\ waiter' = [kind |-> "none"]
            /\ UNCHANGED <<attempts, disconnected, crossed, outcome, progress,
                           issued, token, port, listening, writing, outbox,
                           cable, wire>>
       ELSE AbandonRecovery

\* Variant that leaves the page busy.
CloseSettlesBusy ==
    /\ awaiting = "close"
    /\ outbox = <<>>
    /\ awaiting' = "nothing"
    /\ port' = "none"
    /\ listening' = FALSE
    /\ writing' = "done"
    /\ UNCHANGED <<attempts, busy, preflight, disconnected, crossed, outcome,
                   progress, issued, token, waiter, outbox, cable, wire>>

\* close() has cancelled the reader and flushed or failed the writer.
CloseSettles ==
    /\ awaiting = "close"
    /\ outbox = <<>>
    /\ awaiting' = "nothing"
    /\ busy' = "none"
    /\ port' = "none"
    /\ listening' = FALSE
    /\ writing' = "done"
    /\ UNCHANGED <<attempts, preflight, disconnected, crossed, outcome, progress,
                   issued, token, waiter, outbox, cable, wire>>

-----------------------------------------------------------------------------
(* handleInstall *)

\* Variant in which the last outcome wins.
ClaimLast(result) == outcome' = result

\* claimInstallTerminalState: the first outcome claimed is final.
Claim(result) == outcome' = IF outcome = "none" THEN result ELSE outcome

\* The exact phrase typed and the red button pressed.
ClickInstall ==
    /\ busy = "none"
    /\ preflight # NoInventory
    /\ ~crossed
    /\ ~disconnected
    /\ Tokens \ issued # {}
    /\ busy' = "install"
    /\ crossed' = TRUE
    /\ awaiting' = "install"
    /\ progress' = 0
    /\ Exchange(Command("install", Fresh, preflight))
    /\ UNCHANGED <<attempts, preflight, disconnected, outcome, port, listening,
                   cable, wire>>

\* Variant that swallows errors.
InstallSettlesQuietly ==
    /\ awaiting = "install" /\ Settled
    /\ waiter' = [kind |-> "none"]
    /\ IF Reply = "success"
       THEN Claim("complete") /\ awaiting' = "close" /\ UNCHANGED busy
       ELSE UNCHANGED outcome /\ awaiting' = "nothing" /\ busy' = "none"
    /\ UNCHANGED <<attempts, preflight, disconnected, crossed, progress, issued,
                   token, port, listening, writing, outbox, cable, wire>>

\* install settles: success claims "complete" and closes the port; anything
\* else claims "unknown" and leaves the port alone.
InstallSettles ==
    /\ awaiting = "install" /\ Settled
    /\ waiter' = [kind |-> "none"]
    /\ IF Reply = "success"
       THEN Claim("complete") /\ awaiting' = "close" /\ UNCHANGED busy
       ELSE Claim("unknown") /\ awaiting' = "nothing" /\ busy' = "none"
    /\ UNCHANGED <<attempts, preflight, disconnected, crossed, progress, issued,
                   token, port, listening, writing, outbox, cable, wire>>

-----------------------------------------------------------------------------
(* Events *)

\* Variant that does not compare the session token.
MatchesAnySession(m) ==
    m.kind \in CASE awaiting = "ready"     -> {"ready"}
                 [] awaiting = "preflight" -> {"preflight-success", "failure"}
                 [] awaiting = "install"   -> {"success", "failure"}
                 [] OTHER                  -> {}

\* The waiters' predicates: only this exchange's token counts.
Matches(m) ==
    /\ m.session = token
    /\ m.kind \in CASE awaiting = "ready"     -> {"ready"}
                    [] awaiting = "preflight" -> {"preflight-success", "failure"}
                    [] awaiting = "install"   -> {"success", "failure"}
                    [] OTHER                  -> {}

\* #dispatch of one complete line.
HostReceives(m) ==
    /\ listening /\ ~Settled
    /\ waiter' = IF waiter.kind = "waiting" /\ Matches(m) THEN m ELSE waiter
    /\ progress' =
          IF /\ waiter.kind = "waiting" /\ awaiting = "install"
             /\ m.kind = "progress" /\ m.session = token /\ m.step > progress
          THEN m.step ELSE progress
    /\ UNCHANGED <<attempts, busy, awaiting, preflight, disconnected, crossed,
                   outcome, issued, token, port, listening, writing, outbox,
                   cable, wire>>

\* The waiter's timer.
Timeout ==
    /\ waiter.kind = "waiting" /\ ~Settled
    /\ waiter' = [kind |-> "rejected"]
    /\ UNCHANGED <<page, port, listening, writing, outbox, cable, wire>>

\* The writer's promise settles once the browser has buffered the chunk; the
\* device gets it before or after that.
Transmit ==
    /\ port = "up" /\ ~Settled
    /\ outbox # <<>>
    /\ wire' = Append(wire, Head(outbox))
    /\ outbox' = Tail(outbox)
    /\ UNCHANGED <<page, port, listening, waiter, writing, cable>>

Acknowledge ==
    /\ writing = "pending" /\ ~Settled
    /\ port = "up"
    /\ writing' = "done"
    /\ UNCHANGED <<page, port, listening, waiter, outbox, cable, wire>>

\* Once the device is gone its writer fails.
WriteFails ==
    /\ writing = "pending" /\ ~Settled
    /\ port \in {"down", "downSeen"}
    /\ writing' = "failed"
    /\ UNCHANGED <<page, port, listening, waiter, outbox, cable, wire>>

\* The pump ends: the stream ended, failed without a replacement, or gave an
\* overlong line.
PumpEnds ==
    /\ listening /\ ~Settled
    /\ listening' = FALSE
    /\ waiter' = IF waiter.kind = "waiting" THEN [kind |-> "rejected"] ELSE waiter
    /\ UNCHANGED <<page, port, writing, outbox, cable, wire>>

\* The cable is pulled: what the target had not read is lost.
HostUnplug ==
    /\ cable /\ ~Settled
    /\ cable' = FALSE
    /\ port' = IF port = "up" THEN "down" ELSE port
    /\ outbox' = <<>>
    /\ wire' = <<>>
    /\ UNCHANGED <<page, listening, waiter, writing>>

Replug ==
    /\ ~cable /\ ~Settled
    /\ cable' = TRUE
    /\ UNCHANGED <<page, transport, wire>>

\* handleSerialDisconnect, for the port that state.transport owns.
SerialDisconnect ==
    /\ port = "down" /\ ~Settled
    /\ port' = "downSeen"
    /\ IF awaiting = "close" \/ outcome = "complete"
       THEN UNCHANGED <<disconnected, outcome>>
       ELSE /\ disconnected' = TRUE
            /\ IF crossed THEN Claim("unknown") ELSE UNCHANGED outcome
    /\ UNCHANGED <<attempts, busy, awaiting, preflight, crossed, progress,
                   issued, token, listening, waiter, writing, outbox, cable, wire>>

-----------------------------------------------------------------------------
(* The page against a console that may say anything *)

Resume == ReadySettles \/ PreflightSettles \/ InstallSettles \/ CloseSettles
Writer == Transmit \/ Acknowledge \/ WriteFails
Events == SendProbe \/ Timeout \/ Writer \/ PumpEnds \/ SerialDisconnect \/ Replug
Clicks == ClickRecovery \/ OpenPort \/ OpenFails \/ ClickInstall

\* Any marker line with a token the page has sent; tokens cannot be guessed.
AnyLine ==
    \E m \in Markers :
        /\ m.session \in issued
        /\ m.kind = "progress" <=> m.step # 0
        /\ m.kind = "preflight-success" <=> m.inventory # NoInventory
        /\ HostReceives(m)

TargetReads ==
    /\ wire # <<>> /\ ~Settled
    /\ wire' = Tail(wire)
    /\ UNCHANGED <<page, transport, cable>>

HostNext == Resume \/ Clicks \/ Events \/ HostUnplug \/ AnyLine \/ TargetReads

HostSpec == HostInit /\ [][HostNext]_hostVars

\* A settled promise resumes its handler, timers fire, and the browser's
\* writer either buffers and sends a chunk or fails it.
HostFairSpec == /\ HostSpec
                /\ WF_hostVars(Resume)
                /\ WF_hostVars(Timeout)
                /\ WF_hostVars(Writer)

\* The outcome shown is final: after a timeout or disconnect has made the
\* persistent state unknown no late success marker turns it into completion,
\* and a disconnect after completion does not turn that into unknown.
OutcomeIsFinal == [][outcome # "none" => outcome' = outcome]_hostVars

\* Whatever the console says or fails to say, the customer is shown an outcome
\* after confirming, and a recovery attempt gives the buttons back.
OutcomeShown == busy = "install" ~> outcome # "none"
RecoveryReturns == (busy = "recovery" /\ awaiting # "port") ~> busy = "none"
=============================================================================
