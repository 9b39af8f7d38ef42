-------------------------------- MODULE Modems --------------------------------
(***************************************************************************)
(* How the macOS console finds the recovery device of the board it booted. *)
(* `helm-macos provision` notes where the APX device is plugged in and     *)
(* which modems exist, RAM-boots the board, and wait_for_modem of          *)
(* helm-provision-console.py then polls /dev for a new modem whose USB     *)
(* identity, taken from a listing of ioreg, is that of Helm recovery.      *)
(*                                                                         *)
(* The bus moves on between any two steps: boards and other devices come   *)
(* and go, and the identity of a modem is published after its /dev entry.  *)
(* One thing is assumed of it: the name of a modem that went away is not   *)
(* given to another device before the program has listed /dev once more.   *)
(***************************************************************************)
EXTENDS Integers, Sequences, FiniteSets, SequencesExt

CONSTANTS
    Paths,      \* names /dev/cu.usbmodem*
    Locations,  \* physical ports
    None,       \* no path, no location
    Deadline,   \* --connect-timeout, in polls
    Refresh,    \* 0.5 s between two readings of unresolved identities
    Stable,     \* 0.5 s a candidate must have been alone
    Plugs       \* bound on devices plugged in by hand

ASSUME TimesAssumption == {Deadline, Refresh, Stable, Plugs} \subseteq Nat
ASSUME LocationsAssumption == IsFiniteSet(Locations)
ASSUME NoPathAssumption == None \notin Paths

VARIABLES
    \* The bus.
    port,       \* location -> the kind of device there
    name,       \* location -> its modem path, or None
    since,      \* location -> when its identity was published, or Never
    vacated,    \* paths that went away since /dev was last listed
    plugs,
    \* The program.
    clock,
    phase,
    guided,
    expected,   \* --expected-location, or None
    excluded,   \* --exclude
    paths, lastPaths, candidates, lastCandidates, unresolved,
    refreshAt, stableSince,
    chosen      \* what wait_for_modem returned

busVars == <<port, name, since, vacated, plugs>>
found == <<paths, lastPaths, candidates, lastCandidates, unresolved, refreshAt,
           stableSince, chosen>>
vars == <<busVars, clock, phase, guided, expected, excluded, found>>

Never == Deadline + 2
Modem == {"recovery", "other"}
Identity(l) == [kind |-> port[l], location |-> l]

-----------------------------------------------------------------------------
\* ioreg prints a tree: a node at its column, then the properties of the node.
Node(column, class) == [node |-> TRUE, column |-> column, class |-> class]
Property(key, value) == [node |-> FALSE, key |-> key, value |-> value]

Hub == [kind |-> "hub", location |-> None]
HubLines == <<Node(0, "IOUSBHostDevice"), Property("identity", Hub)>>

\* A device, and an interface of it that has an identity of its own.
DeviceLines(l) ==
    <<Node(2, "IOUSBHostDevice"), Property("identity", Identity(l)),
      Node(4, "IOUSBHostInterface"),
      Property("identity", [kind |-> "interface", location |-> None])>>

\* A modem below its parents.
ModemLines(l) ==
    HubLines \o DeviceLines(l) \o
      <<Node(6, "IOSerialBSDClient"), Property("IOCalloutDevice", name[l])>>

Published == {l \in Locations : since[l] # Never}

Attached == {l \in Locations : port[l] # "empty"}

\* ioreg -c IOSerialBSDClient: every published modem, in eight lines.
SerialListing ==
    LET modems == SetToSeq(Published)
    IN  [i \in 1..(8 * Len(modems)) |->
           ModemLines(modems[(i + 7) \div 8])[((i + 7) % 8) + 1]]

\* ioreg -c IOUSBHostDevice: the hub and every device on it, in four lines each.
UsbListing ==
    LET devices == SetToSeq(Attached)
    IN  HubLines \o [i \in 1..(4 * Len(devices)) |->
                       DeviceLines(devices[(i + 3) \div 4])[((i + 3) % 4) + 1]]

\* The nodes that are still open when a node at `column` begins.
Above(stack, column) ==
    SubSeq(stack, 1, Max({0} \cup {k \in DOMAIN stack : stack[k].column < column}))

Opened(line) == [column |-> line.column, class |-> line.class, identity |-> None]

SetIdentity(stack, value) ==
    [stack EXCEPT ![Len(stack)].identity = value]

\* What a line does to the stack, in both parsers.
Pushed(stack, line) ==
    IF line.node THEN Append(Above(stack, line.column), Opened(line))
    ELSE IF line.key = "identity" THEN SetIdentity(stack, line.value)
    ELSE stack

\* The stack after every line.
Stacks(lines) ==
    LET stack[i \in 0..Len(lines)] ==
            IF i = 0 THEN <<>> ELSE Pushed(stack[i - 1], lines[i])
    IN  stack

\* Where the USB devices above the node on top of the stack are.
UsbParents(stack) ==
    {k \in 1..(Len(stack) - 1) : stack[k].class = "IOUSBHostDevice"}

\* Variant that takes the outermost USB device for the parent.
OutermostUsb(stack) == stack[Min(UsbParents(stack))]

\* The nearest IOUSBHostDevice above the node on top of the stack.
NearestUsb(stack) == stack[Max(UsbParents(stack))]

\* parse_ioreg_serial_identities: pairs of a callout path and an identity.
SerialIdentities(lines) ==
    LET stack == Stacks(lines)
    IN  {[callout |-> lines[i].value, identity |-> NearestUsb(stack[i]).identity] :
           i \in {j \in DOMAIN lines : /\ ~lines[j].node
                                       /\ lines[j].key = "IOCalloutDevice"
                                       /\ UsbParents(stack[j]) # {}}}

\* Where the entries are that are popped at line i; behind the last line, all.
Popped(lines, stack, i) ==
    IF i > Len(lines) THEN DOMAIN stack
    ELSE IF lines[i].node
    THEN {k \in DOMAIN stack : k > Len(Above(stack, lines[i].column))}
    ELSE {}

\* collect of the entries at `places`.
Collected(stack, places) == {k \in places : stack[k].class = "IOUSBHostDevice"}

\* parse_ioreg_usb_devices: a device is collected when it is popped, and those
\* still open at the end of the listing are collected last.  A list of devices
\* is the set of them, told apart by where they were popped.
UsbDevices(lines) ==
    LET stack == Stacks(lines)
    IN  UNION {{[line |-> i, place |-> k, identity |-> stack[i - 1][k].identity] :
                  k \in Collected(stack[i - 1], Popped(lines, stack[i - 1], i))}
               : i \in 1..(Len(lines) + 1)}

\* find_apx_location: the location of the only APX device, or None.
ApxLocation ==
    LET matches == {d \in UsbDevices(UsbListing) : d.identity.kind = "apx"}
    IN  IF Cardinality(matches) = 1
        THEN (CHOOSE d \in matches : TRUE).identity.location ELSE None

-----------------------------------------------------------------------------
Init ==
    /\ port \in [Locations -> {"empty", "apx"}]
    /\ name = [l \in Locations |-> None]
    /\ since = [l \in Locations |-> Never]
    /\ vacated = {}
    /\ plugs = 0
    /\ clock = 0
    /\ phase = "locating"
    /\ guided \in BOOLEAN
    /\ expected = None
    /\ excluded = {}
    /\ paths = {} /\ lastPaths = {None}
    /\ candidates = {} /\ lastCandidates = {}
    /\ unresolved = {}
    /\ refreshAt = 0
    /\ stableSince = Never
    /\ chosen = None

-----------------------------------------------------------------------------
\* A modem takes a name that is neither in use nor just vacated.
ComeUp(l, kind) ==
    /\ port' = [port EXCEPT ![l] = kind]
    /\ IF kind \in Modem
       THEN \E p \in Paths \ (vacated \cup {name[m] : m \in Locations}) :
              name' = [name EXCEPT ![l] = p]
       ELSE UNCHANGED name
    /\ UNCHANGED since

\* The user plugs in another board, in APX mode or already in recovery, or
\* some other serial device.
Plug(l) ==
    /\ port[l] = "empty"
    /\ plugs < Plugs
    /\ plugs' = plugs + 1
    /\ \E kind \in Modem \cup {"apx"} : ComeUp(l, kind)
    /\ UNCHANGED <<vacated, clock, phase, guided, expected, excluded, found>>

\* A booted board comes up as the recovery device.
Booted(l) ==
    /\ port[l] = "booting"
    /\ ComeUp(l, "recovery")
    /\ UNCHANGED <<vacated, plugs, clock, phase, guided, expected, excluded, found>>

\* A device is pulled out, or drops off the bus.
Unplug(l) ==
    /\ port[l] # "empty"
    /\ port' = [port EXCEPT ![l] = "empty"]
    /\ name' = [name EXCEPT ![l] = None]
    /\ since' = [since EXCEPT ![l] = Never]
    /\ vacated' = vacated \cup ({name[l]} \ {None})
    /\ UNCHANGED <<plugs, clock, phase, guided, expected, excluded, found>>

\* IOKit knows the modem.
Publish(l) ==
    /\ name[l] # None
    /\ since[l] = Never
    /\ since' = [since EXCEPT ![l] = clock]
    /\ UNCHANGED <<port, name, vacated, plugs, clock, phase, guided, expected,
                   excluded, found>>

Bus == \E l \in Locations : Plug(l) \/ Booted(l) \/ Unplug(l) \/ Publish(l)

-----------------------------------------------------------------------------
\* The guided command finds the APX device and passes its location on.
Locate ==
    /\ phase = "locating"
    /\ IF guided
       THEN /\ expected' = ApxLocation
            /\ phase' = IF ApxLocation = None THEN "failed" ELSE "checking"
       ELSE /\ phase' = "checking"
            /\ UNCHANGED expected
    /\ UNCHANGED <<busVars, clock, guided, excluded, found>>

\* provision, guided: the APX device is still where it was found.
CheckLocation ==
    /\ phase = "checking"
    /\ phase' = IF guided /\ ApxLocation # expected THEN "failed" ELSE "excluding"
    /\ UNCHANGED <<busVars, clock, guided, expected, excluded, found>>

\* provision: the modems that exist now are excluded.
ExcludeExisting ==
    /\ phase = "excluding"
    /\ phase' = "booting"
    /\ excluded' = {name[l] : l \in Locations} \ {None}
    /\ UNCHANGED <<busVars, clock, guided, expected, found>>

\* The loader finds a board by its product ID, wherever it is plugged in.
RamBoot ==
    /\ phase = "booting"
    /\ IF \E l \in Locations : port[l] = "apx"
       THEN /\ phase' = "polling"
            /\ \E l \in Locations : /\ port[l] = "apx"
                                    /\ port' = [port EXCEPT ![l] = "booting"]
       ELSE /\ phase' = "failed"
            /\ UNCHANGED port
    /\ UNCHANGED <<name, since, vacated, plugs, clock, guided, expected,
                   excluded, found>>

\* The head of the loop of wait_for_modem: /dev is listed by modem_paths.
List ==
    /\ phase = "polling"
    /\ clock < Deadline
    /\ phase' = "listed"
    /\ paths' = {name[l] : l \in Locations} \ ({None} \cup excluded)
    /\ vacated' = {}
    /\ UNCHANGED <<port, name, since, plugs, clock, guided, expected, excluded,
                   lastPaths, candidates, lastCandidates, unresolved, refreshAt,
                   stableSince, chosen>>

\* Variant that reads an unresolved identity once.
ReadOnChange == paths # lastPaths

\* Variant that reads the identities when a modem was added.
ReadOnArrival == ~(paths \subseteq lastPaths)

\* Identities are read when the paths changed, and again while one of them is
\* unresolved.
MustRead == paths # lastPaths \/ (unresolved # {} /\ clock >= refreshAt)

IsHelmRecovery(identity) ==
    /\ identity.kind = "recovery"
    /\ expected # None => identity.location = expected

\* classify_modems of the identities ioreg lists now.  Running it takes time.
Classify ==
    LET identities == IF paths = {} THEN {} ELSE SerialIdentities(SerialListing)
    IN  /\ candidates' = {p \in paths : \E i \in identities :
                             i.callout = p /\ IsHelmRecovery(i.identity)}
        /\ unresolved' = {p \in paths : \A i \in identities : i.callout # p}
        /\ lastPaths' = paths
        /\ refreshAt' = clock + Refresh
        /\ clock' \in clock..(clock + 1)

\* A candidate that is new, or no longer alone, starts again; one that has
\* been alone for long enough is returned.  The sleep ends the round.
Judge ==
    /\ lastCandidates' = candidates'
    /\ IF candidates' # lastCandidates
       THEN /\ stableSince' = IF Cardinality(candidates') = 1 THEN clock' ELSE Never
            /\ phase' = IF Cardinality(candidates') > 1 THEN "failed" ELSE "sleeping"
            /\ UNCHANGED chosen
       ELSE /\ UNCHANGED stableSince
            /\ IF candidates' # {} /\ clock' - stableSince >= Stable
               THEN /\ phase' = "chosen"
                    /\ chosen' = CHOOSE p \in candidates' : TRUE
               ELSE /\ phase' = "sleeping"
                    /\ UNCHANGED chosen

\* The rest of the loop.
Look ==
    /\ phase = "listed"
    /\ IF MustRead
       THEN Classify
       ELSE UNCHANGED <<candidates, unresolved, lastPaths, refreshAt, clock>>
    /\ Judge
    /\ UNCHANGED <<busVars, guided, expected, excluded, paths>>

Sleep ==
    /\ phase = "sleeping"
    /\ phase' = "polling"
    /\ clock' = clock + 1
    /\ UNCHANGED <<busVars, guided, expected, excluded, found>>

\* ioreg could not be run, or the deadline has passed.
IoregFails ==
    /\ phase = "listed"
    /\ MustRead /\ paths # {}
    /\ phase' = "failed"
    /\ UNCHANGED <<busVars, clock, guided, expected, excluded, found>>

TimeOut ==
    /\ phase = "polling"
    /\ clock >= Deadline
    /\ phase' = "failed"
    /\ UNCHANGED <<busVars, clock, guided, expected, excluded, found>>

\* The program has ended; the bus no longer matters.
Over == phase \in {"failed", "chosen"} /\ UNCHANGED vars

Next ==
    \/ phase \notin {"failed", "chosen"} /\ Bus
    \/ Locate \/ CheckLocation \/ ExcludeExisting \/ RamBoot
    \/ List \/ Look \/ Sleep \/ IoregFails \/ TimeOut
    \/ Over

Spec == Init /\ [][Next]_vars

-----------------------------------------------------------------------------
\* Where the chosen modem is, if it still is there.
ChosenAt == {l \in Locations : name[l] = chosen}

\* Reading the listings line by line gives back the tree: every published
\* modem with the identity of its own device, not of the hub or interface it
\* is printed below or above, and the APX device with its location
\* (parse_ioreg_serial_identities, parse_ioreg_usb_devices).
ListingUnderstood ==
    /\ SerialIdentities(SerialListing) =
         {[callout |-> name[l], identity |-> Identity(l)] : l \in Published}
    /\ LET apx == {l \in Locations : port[l] = "apx"}
       IN  IF Cardinality(apx) = 1 THEN apx = {ApxLocation} ELSE ApxLocation = None

\* A modem the console goes on to is a Helm recovery device, appeared after
\* the boot began and, in guided mode, hangs on the port the APX device was
\* found at: whatever was pulled out, plugged in or renumbered between two
\* polls, and although identities are read only when the list of modems has
\* changed (wait_for_modem).
ChosenIsRecovery ==
    phase = "chosen" =>
      /\ chosen \notin excluded
      /\ guided => expected # None
      /\ \A l \in ChosenAt : /\ port[l] = "recovery"
                             /\ guided => l = expected

\* Two recovery devices are refused, not chosen between: no other device that
\* matches and has been known to IOKit for one refresh interval is present
\* when one is chosen, even if its identity was published long after its /dev
\* entry (the refresh of unresolved identities in wait_for_modem).
AmbiguityRefused ==
    phase = "chosen" =>
      \A l \in Locations :
        \/ name[l] \in {chosen, None} \cup excluded
        \/ ~IsHelmRecovery(Identity(l))
        \/ since[l] > clock - Refresh
        \/ name[l] \notin paths
=============================================================================
