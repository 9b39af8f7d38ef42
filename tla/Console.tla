------------------------------- MODULE Console -------------------------------
(***************************************************************************)
(* The macOS provisioning console, helm-provision-console.py, from the     *)
(* chosen modem on.  One thread runs run_console: it probes until the      *)
(* recovery shell answers, in guided mode runs a preflight and asks for an *)
(* exact confirmation, then sends the install line and waits for its       *)
(* marker.                                                                 *)
(*                                                                         *)
(* A serial line has no messages.  A line is sent in two pieces, the       *)
(* second one holding its newline: a write may take some of them, a read   *)
(* may end between them.  `unsent` is what write_all has still to write;   *)
(* when it is empty the program is in stream_until.                        *)
(***************************************************************************)
EXTENDS Wire, SequencesExt

CONSTANTS
    Attempts,   \* bound on runs of the console
    Repeats     \* bound on repeated readiness probes

ASSUME AttemptsAssumption == Attempts \in Nat
ASSUME RepeatsAssumption == Repeats \in Nat

VARIABLES
    guided,     \* --guided
    attempts,   \* runs of the program so far
    phase,      \* "idle" between runs, else what run_console is doing
    verdict,    \* what the last run said: "none", "safe", "unknown", "complete"
    doubt,      \* some run ended with "target state is unknown"
    issued,     \* session tokens made
    token,      \* the token whose line or marker is awaited
    inventory,  \* confirmed_inventory
    confirmed,  \* every inventory whose phrase was typed
    repeats,    \* readiness probes repeated so far
    unsent,     \* pieces of the command not yet written
    buffer,     \* line_buffer of the stream_until under way
    kept,       \* ready_buffer
    pos,        \* pieces of the target's output read, or flushed, so far
    typed       \* pieces in the target's terminal not yet taken by its shell

hostVars == <<guided, attempts, phase, verdict, doubt, issued, token, inventory,
              confirmed, repeats, unsent, buffer, kept, pos>>
consoleVars == <<hostVars, typed>>

Phases == {"idle", "modem", "probing", "preflight", "confirming", "install"}

-----------------------------------------------------------------------------
\* The two pieces of a line.
Pieces(line) == <<[line |-> line, last |-> FALSE], [line |-> line, last |-> TRUE]>>

\* The i-th piece of a sequence of lines.
PieceAt(lines, i) == Pieces(lines[(i + 1) \div 2])[2 - (i % 2)]

Nothing == [kind |-> "nothing"]

\* Variant that forgets which session it waits for.
AwaitedAnySession(marker) ==
    IF phase = "probing" THEN marker.kind = "ready" ELSE Terminal(marker)

\* What on_line wants: ready() compares the whole line, completed() takes any
\* marker parse_marker knows whose session is the token.
Awaited(marker) ==
    /\ marker.session = token
    /\ IF phase = "probing" THEN marker.kind = "ready" ELSE Terminal(marker)

\* The j-th piece ends a line that lies whole among the pieces.
EndsLine(pieces, j) ==
    /\ j > 1 /\ <<pieces[j - 1], pieces[j]>> = Pieces(pieces[j].line)
    /\ j > 2 => pieces[j - 2].last

\* The loop of stream_until over the lines of its buffer: `line` is the
\* unfinished line it is left with, `found` the first line on_line wants.
\* Once a line is wanted, the rest of the buffer is gone.
Scan(pieces) ==
    LET wanted == {j \in 1..Len(pieces) : EndsLine(pieces, j) /\ Awaited(pieces[j].line)}
        taken  == {n \in 0..Len(pieces) : \A j \in (n + 1)..Len(pieces) : ~pieces[j].last}
    IN IF wanted = {}
       THEN [line |-> SubSeq(pieces, Min(taken) + 1, Len(pieces)), found |-> Nothing]
       ELSE [line |-> <<>>, found |-> pieces[Min(wanted)].line]

ConsoleInit ==
    /\ guided \in BOOLEAN
    /\ attempts = 0
    /\ phase = "idle"
    /\ verdict = "none"
    /\ doubt = FALSE
    /\ issued = {}
    /\ token = CHOOSE t \in Tokens : TRUE
    /\ inventory = NoInventory
    /\ confirmed = {}
    /\ repeats = 0
    /\ unsent = <<>>
    /\ buffer = <<>>
    /\ kept = <<>>
    /\ pos = 0
    /\ typed = <<>>

\* secrets.token_hex: tokens are random and never repeat.
Fresh == CHOOSE t \in Tokens : t \notin issued

Writing == phase \in {"probing", "preflight", "install"} /\ unsent # <<>>
Waiting == phase \in {"probing", "preflight", "install"} /\ unsent = <<>>

\* run_console returns or raises; the finally clause closes the console.  An
\* error of the install phase, an interrupt too, becomes "target state is
\* unknown"; every other one comes before any persistent write was asked for.
End(result) ==
    /\ phase' = "idle"
    /\ verdict' = result
    /\ doubt' = (doubt \/ result = "unknown")
    /\ unsent' = <<>>
    /\ buffer' = <<>>
    /\ kept' = <<>>

\* Variant that reports every failure as one before the first write.
BlameNothing == End("safe")

Fail == End(IF phase = "install" THEN "unknown" ELSE "safe")

-----------------------------------------------------------------------------
\* preflight_token is made before the modem appears.
StartConsole ==
    /\ phase = "idle"
    /\ verdict # "complete"
    /\ attempts < Attempts
    /\ Tokens \ issued # {}
    /\ token' = Fresh
    /\ issued' = issued \cup {Fresh}
    /\ attempts' = attempts + 1
    /\ phase' = "modem"
    /\ verdict' = "none"
    /\ inventory' = NoInventory
    /\ UNCHANGED <<guided, doubt, confirmed, repeats, unsent, buffer, kept, pos,
                   typed>>

\* write_all of the next readiness probe.
SendProbe ==
    unsent' = Pieces(Command("ready", token, NoInventory))

\* wait_for_modem found the modem and it could be opened and configured.
\* What the target printed earlier may have been flushed at the open.
OpenConsole(printed) ==
    /\ phase = "modem"
    /\ phase' = "probing"
    /\ SendProbe
    /\ pos' \in pos..(2 * Len(printed))
    /\ UNCHANGED <<guided, attempts, verdict, doubt, issued, token, inventory,
                   confirmed, repeats, buffer, kept, typed>>

\* next_probe has come: stream_until timed out and is called again after the
\* probe, with ready_buffer as the first call left it.
ProbeAgain ==
    /\ phase = "probing"
    /\ Waiting
    /\ repeats < Repeats
    /\ repeats' = repeats + 1
    /\ SendProbe
    /\ UNCHANGED <<guided, attempts, phase, verdict, doubt, issued, token,
                   inventory, confirmed, buffer, kept, pos, typed>>

\* Variant that takes a short write for a whole one.
WriteOnce ==
    /\ Writing
    /\ \E n \in 1..Len(unsent) : typed' = typed \o SubSeq(unsent, 1, n)
    /\ unsent' = <<>>
    /\ buffer' = IF phase = "probing" THEN kept ELSE <<>>
    /\ UNCHANGED <<guided, attempts, phase, verdict, doubt, issued, token,
                   inventory, confirmed, repeats, kept, pos>>

\* os.write takes some of the payload.  After the last piece stream_until is
\* called, with ready_buffer or with a buffer of its own.
WriteSome ==
    /\ Writing
    /\ \E n \in 1..Len(unsent) :
          /\ typed' = typed \o SubSeq(unsent, 1, n)
          /\ unsent' = SubSeq(unsent, n + 1, Len(unsent))
    /\ buffer' = IF phase = "probing" THEN kept ELSE <<>>
    /\ UNCHANGED <<guided, attempts, phase, verdict, doubt, issued, token,
                   inventory, confirmed, repeats, kept, pos>>

\* The shell is ready: the preflight, or at once the install command, which
\* then carries the same token.
AfterReady ==
    /\ phase' = IF guided THEN "preflight" ELSE "install"
    /\ unsent' = Pieces(Command(IF guided THEN "preflight" ELSE "install",
                                token, NoInventory))
    /\ kept' = <<>>
    /\ UNCHANGED <<verdict, doubt, inventory>>

\* inventory_from_preflight_marker.
AfterPreflight(marker) ==
    IF marker.kind = "preflight-success"
    THEN /\ inventory' = marker.inventory
         /\ phase' = "confirming"
         /\ UNCHANGED <<verdict, doubt, unsent, kept>>
    ELSE Fail /\ UNCHANGED inventory

\* validate_final_marker.
AfterInstall(marker) ==
    /\ IF marker.kind = "success" THEN End("complete") ELSE Fail
    /\ UNCHANGED inventory

\* Variant of Read whose buffer starts anew with every chunk.
ReadUnbuffered(printed) ==
    /\ Waiting
    /\ \E n \in 1..(2 * Len(printed) - pos) :
          LET chunk == [i \in 1..n |-> PieceAt(printed, pos + i)]
              scan  == Scan(chunk)
          IN /\ pos' = pos + n
             /\ IF scan.found = Nothing
                THEN UNCHANGED <<phase, verdict, doubt, inventory, unsent, kept, buffer>>
                ELSE /\ buffer' = <<>>
                     /\ CASE phase = "probing" -> AfterReady
                          [] phase = "preflight" -> AfterPreflight(scan.found)
                          [] phase = "install" -> AfterInstall(scan.found)
    /\ UNCHANGED <<guided, attempts, issued, token, confirmed, repeats, typed>>

\* os.read returns some of what the target has printed.  line_buffer is
\* ready_buffer itself until the first newline of a call makes it another
\* object: up to then the caller's buffer grows with it.
Read(printed) ==
    /\ Waiting
    /\ \E n \in 1..(2 * Len(printed) - pos) :
          LET chunk == [i \in 1..n |-> PieceAt(printed, pos + i)]
              scan  == Scan(buffer \o chunk)
          IN /\ pos' = pos + n
             /\ buffer' = IF scan.found = Nothing THEN scan.line ELSE <<>>
             /\ IF scan.found = Nothing
                THEN /\ kept' = IF phase = "probing" /\ buffer = kept
                                THEN kept \o chunk ELSE kept
                     /\ UNCHANGED <<phase, verdict, doubt, inventory, unsent>>
                ELSE CASE phase = "probing" -> AfterReady
                       [] phase = "preflight" -> AfterPreflight(scan.found)
                       [] phase = "install" -> AfterInstall(scan.found)
    /\ UNCHANGED <<guided, attempts, issued, token, confirmed, repeats, typed>>

\* read_exact_confirmation returned: a second token for the install command.
TypePhrase ==
    /\ phase = "confirming"
    /\ Tokens \ issued # {}
    /\ token' = Fresh
    /\ issued' = issued \cup {Fresh}
    /\ unsent' = Pieces(Command("install", Fresh, inventory))
    /\ confirmed' = confirmed \cup {inventory}
    /\ phase' = "install"
    /\ UNCHANGED <<guided, attempts, verdict, doubt, inventory, repeats, buffer,
                   kept, pos, typed>>

\* Any wait may pass its deadline, any read or write fail, the phrase be
\* wrong or the input end, and Ctrl-C come at any time.
GiveUp ==
    /\ phase # "idle"
    /\ Fail
    /\ UNCHANGED <<guided, attempts, issued, token, inventory, confirmed, repeats,
                   pos, typed>>
=============================================================================
