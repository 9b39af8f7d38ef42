------------------------- MODULE ConsoleProvisioning -------------------------
(***************************************************************************)
(* The macOS console and the recovery target, joined by the serial line:   *)
(* the pieces the console types are put together by the target's shell,    *)
(* and what the target prints is read by the console in chunks.            *)
(***************************************************************************)
EXTENDS Target, Console

VARIABLE quoted     \* the shell is inside a quotation left open

target  == <<pc, run, succeeded, pending, flags, mounts, slot, store, ram, qspi,
             tty, out>>
allVars == <<target, consoleVars, quoted>>

CPInit == Init /\ ConsoleInit /\ quoted = FALSE

-----------------------------------------------------------------------------
\* The next line in the terminal, up to its newline.
FirstLine ==
    SubSeq(typed, 1, Min({n \in 1..Len(typed) : typed[n].last}))

\* Only a probe has quotation marks, one in each piece.
Quotes(line) == Len(SelectSeq(line, LAMBDA p : p.line.kind = "ready"))

\* The shell of recovery-init takes one line.  A line with the remains of an
\* abandoned command in front of it is no command it knows, and one with an
\* odd number of quotation marks is continued on the next.
ShellReads ==
    /\ pc = "idle" /\ tty = "open"
    /\ \E i \in 1..Len(typed) : typed[i].last
    /\ LET line    == FirstLine
           command == Last(line).line
           clean   == ~quoted /\ line = Pieces(command)
       IN /\ typed' = SubSeq(typed, Len(line) + 1, Len(typed))
          /\ quoted' = (quoted # (Quotes(line) % 2 = 1))
          /\ CASE clean /\ command.kind # "ready" ->
                    \E a \in BOOLEAN : Start([command EXCEPT !.accepted = a])
               [] clean /\ command.kind = "ready" ->
                    /\ out' = Append(out, Marker("ready", command.session))
                    /\ UNCHANGED <<pc, run, succeeded, pending, flags, mounts,
                                   slot, store, ram, qspi, tty>>
               [] OTHER -> UNCHANGED target
    /\ UNCHANGED hostVars

\* The cable is pulled: the gadget's terminal drops what it holds, and the
\* console's next read or write fails.
Unplug ==
    /\ Hangup
    /\ typed' = <<>>
    /\ IF phase \in {"probing", "preflight", "install"}
       THEN /\ Fail
            /\ UNCHANGED <<guided, attempts, issued, token, inventory, confirmed,
                           repeats, pos>>
       ELSE UNCHANGED hostVars
    /\ UNCHANGED quoted

\* A new shell on a terminal that is open again.
NewShell == RestartConsole /\ quoted' = FALSE /\ UNCHANGED consoleVars

HostSteps ==
    /\ \/ StartConsole \/ ProbeAgain \/ WriteSome \/ TypePhrase \/ GiveUp
       \/ tty = "open" /\ OpenConsole(out)
       \/ Read(out)
    /\ UNCHANGED <<target, quoted>>

TargetSteps ==
    /\ Scripts \/ TermProvision \/ TermFinish \/ TermInstaller
         \/ TermInstallerUntrapped \/ SwapDisk
    /\ UNCHANGED <<consoleVars, quoted>>

CPNext == HostSteps \/ TargetSteps \/ ShellReads \/ Unplug \/ NewShell

CPSpec == CPInit /\ [][CPNext]_allVars

-----------------------------------------------------------------------------
\* What the console has told its user.  A later run does not take back that
\* the state of the target is unknown, unless it ends in success.
Shown == CASE verdict = "complete" -> "complete"
           [] verdict # "complete" /\ doubt -> "unknown"
           [] ~doubt /\ phase = "install" -> "writing"
           [] OTHER -> "safe"

P == INSTANCE Promise WITH Again <- TRUE, shown <- Shown, storage <- Storage

\* The console keeps the promise of the page: whatever fails before the
\* install line ("no persistent writes"), nothing was written; "target state
\* is unknown" from its first byte on; "provisioning verified successful" only
\* when that is true and final, even after runs that were abandoned with
\* their commands half typed or still running.
PromiseKept == P!Spec

\* The marker the console waits for is never read and overlooked, however the
\* reads cut the lines: else it would report a finished target as unknown.
NoMarkerMissed ==
    (Waiting /\ phase # "probing") =>
        \A i \in 1..Len(out) :
            (Terminal(out[i]) /\ out[i].session = token) => pos < 2 * i

\* While the console waits, the line it sent is in the terminal to its end: a
\* half written one would be waited for in vain and spoil the next command.
NothingHalfTyped == Waiting => typed = <<>> \/ Last(typed).last

\* The fingerprint offered for confirmation is that of this run's preflight,
\* not a line an abandoned run left in the terminal.
ConfirmationIsFresh ==
    phase = "confirming" =>
        \E i \in 1..Len(out) :
            out[i] = [Marker("preflight-success", token) EXCEPT !.inventory = inventory]
=============================================================================
