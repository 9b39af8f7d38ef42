------------------------- MODULE ProvisioningProofs -------------------------
(***************************************************************************)
(* The page and the target together, for any NVMe identities, tokens,      *)
(* attempts, lost lines and faults: an outcome shown is final, only the    *)
(* NVMe that was shown is written, and the whole implements Promise.       *)
(***************************************************************************)
EXTENDS Provisioning, TargetProofs, FiniteSetTheorems

-----------------------------------------------------------------------------
(* The page *)

Unanswered == [kind: {"none", "waiting", "rejected"}]

HostTypes ==
    /\ attempts \in 0..Attempts
    /\ busy \in {"none", "recovery", "install"}
    /\ awaiting \in {"nothing", "port", "ready", "preflight", "install", "close"}
    /\ preflight \in Disks \cup {NoInventory}
    /\ disconnected \in BOOLEAN
    /\ crossed \in BOOLEAN
    /\ outcome \in {"none", "complete", "unknown"}
    /\ progress \in 0..4
    /\ issued \subseteq Tokens
    /\ token \in Tokens
    /\ cable \in BOOLEAN
    /\ port \in {"none", "up", "down", "downSeen"}
    /\ listening \in BOOLEAN
    /\ waiter \in Unanswered \cup Markers
    /\ writing \in {"done", "pending", "failed"}
    /\ outbox \in Seq(Lines)
    /\ wire \in Seq(Lines)

\* Tokens the exchanges of the attempt under way will still make.
Owed == CASE awaiting = "port" -> 2 [] awaiting = "ready" -> 1 [] OTHER -> 0

\* Before the confirmation an attempt has made at most two tokens.
TokenInv ==
    /\ IsFiniteSet(issued)
    /\ ~crossed => Cardinality(issued) + Owed <= 2 * attempts

\* Once confirmed, the page makes no further attempt; an outcome is one of a
\* confirmed install.
CourseInv ==
    /\ crossed => /\ awaiting \in {"nothing", "install", "close"}
                  /\ preflight # NoInventory
    /\ awaiting \in {"port", "ready", "preflight"} => preflight = NoInventory
    /\ awaiting = "install" => crossed
    /\ outcome # "none" => crossed

\* The install command is the last line the page ever sends, and names the
\* NVMe that was shown.
LastLine(lines) ==
    \A i \in 1..Len(lines) : lines[i].kind = "install" =>
        /\ crossed
        /\ lines[i].inventory = preflight
        /\ i = Len(lines)

QueueInv ==
    /\ LastLine(outbox)
    /\ LastLine(wire)
    /\ (\E i \in 1..Len(wire) : wire[i].kind = "install") => outbox = <<>>

PageInv == HostTypes /\ TokenInv /\ CourseInv /\ QueueInv

\* What the page takes part in, or sees, in one step: whatever the console
\* prints, and whether or not its terminal takes a line.
HostStep ==
    \/ Resume \/ Clicks \/ Events \/ HostUnplug
    \/ \E m \in Markers : HostReceives(m)
    \/ wire # <<>> /\ wire' = Tail(wire) /\ UNCHANGED <<page, transport, cable>>
    \/ UNCHANGED hostVars

\* An attempt that owes a token finds one.
LEMMA FreshToken ==
    ASSUME issued \subseteq Tokens, Tokens \ issued # {}
    PROVE  Fresh \in Tokens
BY DEF Fresh

LEMMA TokensLeft ==
    ASSUME HostTypes, TokenInv, ~crossed
    PROVE  Tokens \ issued # {}
<1> SUFFICES ASSUME Tokens = issued PROVE FALSE
  BY DEF HostTypes
<1>1. Cardinality(issued) \in Nat
  BY FS_CardinalityType DEF TokenInv
<1>2. attempts \in Nat /\ Attempts \in Nat /\ attempts <= Attempts
  BY AttemptsAssumption DEF HostTypes
<1>3. Owed \in Nat
  BY DEF Owed
<1> QED
  BY <1>1, <1>2, <1>3, TokensAssumption DEF TokenInv

LEMMA TokenAdded ==
    ASSUME IsFiniteSet(issued), issued' = issued \cup {Fresh}
    PROVE  /\ IsFiniteSet(issued')
           /\ Cardinality(issued) \in Nat
           /\ Cardinality(issued') \in Nat
           /\ Cardinality(issued') <= Cardinality(issued) + 1
BY FS_AddElement, FS_CardinalityType

\* The lines the page sends.
LEMMA LineTypes ==
    /\ \A t \in Tokens : Command("ready", t, NoInventory) \in Lines
    /\ \A t \in Tokens : Command("preflight", t, NoInventory) \in Lines
    /\ \A t \in Tokens, d \in Disks : Command("install", t, d) \in Lines
BY DEF Lines

LEMMA HostTypesInit == HostInit => HostTypes
<1> SUFFICES ASSUME HostInit PROVE HostTypes
  OBVIOUS
<1>1. Tokens # {}
  BY FS_EmptySet, AttemptsAssumption, TokensAssumption
<1>2. token \in Tokens
  BY <1>1 DEF HostInit, Fresh
<1>3. attempts \in 0..Attempts
  BY AttemptsAssumption DEF HostInit
<1>4. waiter \in Unanswered
  BY DEF HostInit, Unanswered
<1>5. /\ disconnected \in BOOLEAN /\ crossed \in BOOLEAN
      /\ cable \in BOOLEAN /\ listening \in BOOLEAN
  BY DEF HostInit
<1> QED
  BY <1>2, <1>3, <1>4, <1>5 DEF HostInit, HostTypes

LEMMA ExchangeTypes ==
    ASSUME HostTypes, Fresh \in Tokens, NEW c \in Lines, Exchange(c)
    PROVE  /\ issued' \subseteq Tokens /\ token' \in Tokens
           /\ waiter' \in Unanswered /\ writing' = "pending"
           /\ outbox' \in Seq(Lines)
<1>1. issued' \subseteq Tokens /\ token' \in Tokens /\ writing' = "pending"
  BY DEF Exchange, Write, HostTypes
<1>2. waiter' \in Unanswered
  BY DEF Exchange, Unanswered
<1>3. outbox' \in Seq(Lines)
  <2>1. outbox \in Seq(Lines) /\ outbox' \in {outbox, Append(outbox, c)}
    BY DEF Exchange, Write, HostTypes
  <2> QED
    BY <2>1
<1> QED
  BY <1>1, <1>2, <1>3

LEMMA AbandonTypes ==
    ASSUME HostTypes, AbandonRecovery
    PROVE  HostTypes'
<1>1. waiter' \in Unanswered /\ awaiting' = "close"
  BY DEF AbandonRecovery, Unanswered
<1> QED
  BY <1>1 DEF HostTypes, AbandonRecovery

LEMMA HostTypesStep == HostTypes /\ TokenInv /\ CourseInv /\ HostStep => HostTypes'
<1> SUFFICES ASSUME HostTypes, TokenInv, CourseInv, HostStep PROVE HostTypes'
  OBVIOUS
<1> USE DEF HostTypes, page, transport
<1>1. CASE ClickRecovery \/ OpenFails
  <2>1. attempts' \in 0..Attempts
    BY <1>1, AttemptsAssumption DEF ClickRecovery, OpenFails
  <2>2. disconnected' \in BOOLEAN
    BY <1>1 DEF ClickRecovery, OpenFails
  <2>3. awaiting' \in {"nothing", "port"} /\ busy' \in {"none", "recovery"}
    BY <1>1 DEF ClickRecovery, OpenFails
  <2>4. UNCHANGED <<preflight, crossed, outcome, progress, issued, token, transport,
                    cable, wire>>
    BY <1>1 DEF ClickRecovery, OpenFails
  <2> QED
    BY <2>1, <2>2, <2>3, <2>4
<1>2. CASE OpenPort
  <2>1. Fresh \in Tokens
    BY <1>2, FreshToken, TokensLeft DEF OpenPort, CourseInv
  <2>2. Probe(Fresh) \in Lines
    BY <2>1, LineTypes DEF Probe
  <2>3. /\ issued' = issued \cup {Fresh} /\ token' = Fresh /\ outbox' = <<Probe(Fresh)>>
        /\ awaiting' = "ready" /\ port' = "up" /\ listening' = TRUE
        /\ writing' = "pending"
        /\ UNCHANGED <<attempts, busy, preflight, disconnected, crossed, outcome,
                       progress, cable, wire>>
    BY <1>2 DEF OpenPort
  <2>4. waiter' \in Unanswered
    BY <1>2 DEF OpenPort, Unanswered
  <2>5. outbox' \in Seq(Lines)
    BY <2>2, <2>3
  <2> QED
    BY <2>1, <2>3, <2>4, <2>5
<1>3. CASE SendProbe
  BY <1>3, LineTypes DEF SendProbe, Write, Probe
<1>4. CASE ReadySettles
  <2>1. Fresh \in Tokens
    BY <1>4, FreshToken, TokensLeft DEF ReadySettles, CourseInv
  <2>2. CASE AbandonRecovery
    BY <2>2, AbandonTypes
  <2>3. CASE ~AbandonRecovery
    <3>1. /\ Exchange(Command("preflight", Fresh, NoInventory)) /\ awaiting' = "preflight"
          /\ UNCHANGED <<attempts, busy, preflight, disconnected, crossed, outcome,
                         progress, port, listening, cable, wire>>
      BY <1>4, <2>3 DEF ReadySettles
    <3>2. Command("preflight", Fresh, NoInventory) \in Lines
      BY <2>1, LineTypes
    <3>3. /\ issued' \subseteq Tokens /\ token' \in Tokens
          /\ waiter' \in Unanswered /\ writing' = "pending"
          /\ outbox' \in Seq(Lines)
      BY <2>1, <3>1, <3>2, ExchangeTypes
    <3> QED
      BY <3>1, <3>3
  <2> QED
    BY <2>2, <2>3
<1>5. CASE PreflightSettles
  <2>1. CASE AbandonRecovery
    BY <2>1, AbandonTypes
  <2>2. CASE ~AbandonRecovery
    <3>1. /\ waiter.kind = "preflight-success" /\ preflight' = waiter.inventory
          /\ awaiting' = "nothing" /\ busy' = "none"
          /\ UNCHANGED <<attempts, disconnected, crossed, outcome, progress, issued,
                         token, port, listening, writing, outbox, cable, wire>>
      BY <1>5, <2>2 DEF PreflightSettles, Reply
    <3>2. waiter' \in Unanswered
      BY <1>5, <2>2 DEF PreflightSettles, Unanswered
    <3>3. preflight' \in Disks \cup {NoInventory}
      BY <3>1 DEF Unanswered, Markers
    <3> QED
      BY <3>1, <3>2, <3>3
  <2> QED
    BY <2>1, <2>2
<1>6. CASE CloseSettles \/ InstallSettles
  <2>0. listening' \in BOOLEAN
    BY <1>6 DEF CloseSettles, InstallSettles
  <2>1. waiter' \in Unanswered \cup Markers
    BY <1>6 DEF CloseSettles, InstallSettles, Unanswered
  <2>2. /\ awaiting' \in {"nothing", "close"}
        /\ busy' \in {busy, "none"}
        /\ outcome' \in {outcome, "complete", "unknown"}
        /\ port' \in {port, "none"}
        /\ writing' \in {writing, "done"}
    BY <1>6 DEF CloseSettles, InstallSettles, Claim
  <2>3. UNCHANGED <<attempts, preflight, disconnected, crossed, progress, issued,
                    token, outbox, cable, wire>>
    BY <1>6 DEF CloseSettles, InstallSettles
  <2> QED
    BY <2>0, <2>1, <2>2, <2>3
<1>7. CASE ClickInstall
  <2>1. Fresh \in Tokens
    BY <1>7, FreshToken DEF ClickInstall
  <2>2. /\ Exchange(Command("install", Fresh, preflight)) /\ preflight # NoInventory
        /\ busy' = "install" /\ crossed' = TRUE /\ awaiting' = "install" /\ progress' = 0
        /\ UNCHANGED <<attempts, preflight, disconnected, outcome, port, listening,
                       cable, wire>>
    BY <1>7 DEF ClickInstall
  <2>3. Command("install", Fresh, preflight) \in Lines
    BY <2>1, <2>2, LineTypes
  <2>4. /\ issued' \subseteq Tokens /\ token' \in Tokens
        /\ waiter' \in Unanswered /\ writing' = "pending"
        /\ outbox' \in Seq(Lines)
    BY <2>1, <2>2, <2>3, ExchangeTypes
  <2> QED
    BY <2>2, <2>4
<1>8. ASSUME NEW m \in Markers, HostReceives(m) PROVE HostTypes'
  BY <1>8 DEF HostReceives, Markers
<1>9. CASE Timeout \/ PumpEnds
  <2>1. UNCHANGED <<page, port, writing, outbox, cable, wire>>
    BY <1>9 DEF Timeout, PumpEnds
  <2>2. listening' \in BOOLEAN
    BY <1>9 DEF Timeout, PumpEnds
  <2>3. waiter' \in Unanswered \cup Markers
    BY <1>9 DEF Timeout, PumpEnds, Unanswered
  <2> QED
    BY <2>1, <2>2, <2>3
<1>10. CASE Transmit \/ Acknowledge \/ WriteFails
  <2>1. UNCHANGED <<page, port, listening, waiter, cable>>
    BY <1>10 DEF Transmit, Acknowledge, WriteFails
  <2>2. writing' \in {writing, "done", "failed"}
    BY <1>10 DEF Transmit, Acknowledge, WriteFails
  <2>3. CASE UNCHANGED <<outbox, wire>>
    BY <2>1, <2>2, <2>3
  <2>4. CASE Transmit
    <3>1. /\ outbox \in Seq(Lines) /\ wire \in Seq(Lines) /\ outbox # <<>>
          /\ wire' = Append(wire, Head(outbox)) /\ outbox' = Tail(outbox)
      BY <2>4 DEF Transmit
    <3>2. outbox' \in Seq(Lines) /\ wire' \in Seq(Lines)
      BY <3>1
    <3> QED
      BY <2>1, <2>2, <3>2
  <2> QED
    BY <1>10, <2>3, <2>4 DEF Acknowledge, WriteFails
<1>11. CASE HostUnplug \/ Replug \/ SerialDisconnect
  <2>0. disconnected \in BOOLEAN /\ cable \in BOOLEAN
    OBVIOUS
  <2>1. cable' \in BOOLEAN /\ disconnected' \in BOOLEAN
    <3>1. CASE HostUnplug
      BY <2>0, <3>1 DEF HostUnplug
    <3>2. CASE Replug
      BY <2>0, <3>2 DEF Replug
    <3>3. CASE SerialDisconnect
      BY <2>0, <3>3, Zenon DEF SerialDisconnect
    <3> QED
      BY <1>11, <3>1, <3>2, <3>3
  <2>2. outcome' \in {outcome, "unknown"} /\ port' \in {port, "down", "downSeen"}
    <3>1. CASE HostUnplug \/ Replug
      BY <3>1 DEF HostUnplug, Replug
    <3>2. CASE SerialDisconnect
      BY <3>2 DEF SerialDisconnect, Claim
    <3> QED
      BY <1>11, <3>1, <3>2
  <2>3. outbox' \in Seq(Lines) /\ wire' \in Seq(Lines)
    <3>1. CASE HostUnplug
      BY <3>1 DEF HostUnplug
    <3>2. CASE UNCHANGED <<outbox, wire>>
      BY <3>2
    <3> QED
      BY <1>11, <3>1, <3>2 DEF Replug, SerialDisconnect
  <2>4. UNCHANGED <<attempts, busy, awaiting, preflight, crossed, progress, issued,
                    token, listening, waiter, writing>>
    BY <1>11 DEF HostUnplug, Replug, SerialDisconnect
  <2> QED
    BY <2>1, <2>2, <2>3, <2>4
<1>12. CASE wire # <<>> /\ wire' = Tail(wire) /\ UNCHANGED <<page, transport, cable>>
  BY <1>12
<1>13. CASE UNCHANGED hostVars
  BY <1>13 DEF hostVars
<1> QED
  BY <1>1, <1>2, <1>3, <1>4, <1>5, <1>6, <1>7, <1>8, <1>9, <1>10, <1>11, <1>12, <1>13
     DEF HostStep, Resume, Clicks, Events, Writer

LEMMA TokenStep == HostTypes /\ TokenInv /\ CourseInv /\ HostStep => TokenInv'
<1> SUFFICES ASSUME HostTypes, TokenInv, CourseInv, HostStep PROVE TokenInv'
  OBVIOUS
<1>1. attempts \in Nat /\ Cardinality(issued) \in Nat
  BY AttemptsAssumption, FS_CardinalityType DEF HostTypes, TokenInv
<1> USE DEF TokenInv, Owed, page, transport
<1>2. CASE ClickRecovery
  BY <1>1, <1>2 DEF ClickRecovery, HostTypes, CourseInv
<1>3. CASE OpenPort
  BY <1>1, <1>3, TokenAdded DEF OpenPort
<1>4. CASE ReadySettles
  BY <1>1, <1>4, TokenAdded DEF ReadySettles, AbandonRecovery, Exchange
<1>5. CASE ClickInstall
  BY <1>5, TokenAdded DEF ClickInstall, Exchange
<1>6. CASE OpenFails \/ PreflightSettles \/ InstallSettles \/ CloseSettles
  BY <1>1, <1>6 DEF OpenFails, PreflightSettles, AbandonRecovery, InstallSettles,
     CloseSettles
<1>7. CASE \/ UNCHANGED <<awaiting, attempts, issued, crossed>>
  BY <1>7
<1>8. CASE Events \/ HostUnplug \/ UNCHANGED hostVars
  BY <1>7, <1>8 DEF Events, Writer, SendProbe, Timeout, Transmit, Acknowledge, WriteFails,
     PumpEnds, SerialDisconnect, Replug, HostUnplug, hostVars
<1>9. ASSUME NEW m \in Markers, HostReceives(m) PROVE TokenInv'
  BY <1>7, <1>9 DEF HostReceives
<1> QED
  BY <1>2, <1>3, <1>4, <1>5, <1>6, <1>7, <1>8, <1>9 DEF HostStep, Resume, Clicks

LEMMA CourseStep == HostTypes /\ CourseInv /\ HostStep => CourseInv'
<1> SUFFICES ASSUME HostTypes, CourseInv, HostStep PROVE CourseInv'
  OBVIOUS
<1> USE DEF CourseInv, page, transport
<1>1. CASE Clicks
  BY <1>1 DEF Clicks, ClickRecovery, OpenPort, OpenFails, ClickInstall, Exchange
<1>2. CASE ReadySettles
  BY <1>2 DEF ReadySettles, AbandonRecovery, Exchange
<1>3. CASE PreflightSettles
  BY <1>3 DEF PreflightSettles, AbandonRecovery
<1>4. CASE InstallSettles \/ CloseSettles
  BY <1>4 DEF InstallSettles, CloseSettles, Claim
<1>5. CASE SerialDisconnect
  BY <1>5 DEF SerialDisconnect, Claim
<1>6. CASE UNCHANGED <<awaiting, preflight, crossed, outcome>>
  BY <1>6
<1>7. CASE SendProbe \/ Timeout \/ Writer \/ PumpEnds \/ Replug
  BY <1>6, <1>7
     DEF SendProbe, Timeout, Writer, Transmit, Acknowledge, WriteFails, PumpEnds, Replug
<1>8. CASE HostUnplug \/ UNCHANGED hostVars
  BY <1>6, <1>8 DEF HostUnplug, hostVars
<1>9. ASSUME NEW m \in Markers, HostReceives(m) PROVE CourseInv'
  BY <1>6, <1>9 DEF HostReceives
<1> QED
  BY <1>1, <1>2, <1>3, <1>4, <1>5, <1>6, <1>7, <1>8, <1>9 DEF HostStep, Resume, Events

\* Before the confirmation no install command has been sent.
LEMMA NoInstallYet ==
    ASSUME QueueInv, ~crossed
    PROVE  /\ \A i \in 1..Len(wire) : wire[i].kind # "install"
           /\ \A i \in 1..Len(outbox) : outbox[i].kind # "install"
BY DEF QueueInv, LastLine

\* Lines with no install command among them.
LEMMA LastAppend ==
    ASSUME NEW lines \in Seq(Lines), NEW line \in Lines,
           \A i \in 1..Len(lines) : lines[i].kind # "install",
           NEW j \in 1..Len(Append(lines, line)), Append(lines, line)[j].kind = "install"
    PROVE  j = Len(Append(lines, line)) /\ Append(lines, line)[j] = line
OBVIOUS

LEMMA QueueStep == HostTypes /\ TokenInv /\ CourseInv /\ QueueInv /\ HostStep => QueueInv'
<1> SUFFICES ASSUME HostTypes, TokenInv, CourseInv, QueueInv, HostStep PROVE QueueInv'
  OBVIOUS
<1>0. outbox \in Seq(Lines) /\ wire \in Seq(Lines)
  BY DEF HostTypes
<1> USE DEF QueueInv, LastLine, page, transport
<1>1. CASE UNCHANGED <<crossed, preflight, outbox, wire>>
  BY <1>1
<1>2. CASE ClickRecovery \/ OpenFails
  BY <1>1, <1>2 DEF ClickRecovery, OpenFails
<1>3. CASE OpenPort
  <2>1. ~crossed /\ UNCHANGED <<crossed, preflight, wire>> /\ outbox' = <<Probe(Fresh)>>
    BY <1>3 DEF OpenPort, CourseInv
  <2>2. \A i \in 1..Len(outbox') : outbox'[i].kind = "ready"
    BY <2>1 DEF Probe, Command
  <2> QED
    BY <2>1, <2>2, NoInstallYet
<1>4. ASSUME NEW line \in Lines, line.kind # "install", ~crossed, Write(line),
             UNCHANGED <<crossed, wire>>
      PROVE  QueueInv'
  <2>1. \A i \in 1..Len(outbox') : outbox'[i].kind # "install"
    BY <1>0, <1>4, NoInstallYet, LastAppend DEF Write
  <2> QED
    BY <1>4, <2>1, NoInstallYet
<1>5. CASE SendProbe
  <2>1. Probe(token) \in Lines /\ Probe(token).kind # "install" /\ ~crossed
    BY <1>5, LineTypes DEF SendProbe, HostTypes, CourseInv, Probe, Command
  <2> QED
    BY <1>4, <1>5, <2>1 DEF SendProbe
<1>6. CASE ReadySettles
  <2>1. CASE AbandonRecovery
    BY <1>1, <2>1 DEF AbandonRecovery
  <2>2. CASE Exchange(Command("preflight", Fresh, NoInventory))
             /\ UNCHANGED <<crossed, wire>>
    <3>0. ~crossed /\ issued \subseteq Tokens
      BY <1>6 DEF ReadySettles, CourseInv, HostTypes
    <3>1. ~crossed /\ Fresh \in Tokens
      BY <3>0, FreshToken, TokensLeft
    <3>2. Command("preflight", Fresh, NoInventory) \in Lines
      BY <3>1, LineTypes
    <3>3. Command("preflight", Fresh, NoInventory).kind # "install"
      BY DEF Command
    <3> QED
      BY <1>4, <2>2, <3>1, <3>2, <3>3 DEF Exchange
  <2> QED
    BY <1>6, <2>1, <2>2 DEF ReadySettles
<1>7. CASE PreflightSettles
  <2>1. ~crossed /\ UNCHANGED <<crossed, outbox, wire>>
    BY <1>7 DEF PreflightSettles, AbandonRecovery, CourseInv
  <2> QED
    BY <2>1, NoInstallYet
<1>8. CASE CloseSettles \/ InstallSettles
  BY <1>1, <1>8 DEF CloseSettles, InstallSettles
<1>9. CASE ClickInstall
  <2> DEFINE line == Command("install", Fresh, preflight)
  <2>1. /\ ~crossed /\ crossed' /\ UNCHANGED <<preflight, wire>>
        /\ outbox' = outbox \/ outbox' = Append(outbox, line)
    BY <1>9 DEF ClickInstall, Exchange, Write
  <2>2. line \in Lines /\ line.inventory = preflight
    BY <1>9, LineTypes, FreshToken DEF ClickInstall, HostTypes, Command
  <2> HIDE DEF line
  <2>3. \A j \in 1..Len(outbox') : outbox'[j].kind = "install" =>
            j = Len(outbox') /\ outbox'[j] = line
    BY <1>0, <2>1, <2>2, NoInstallYet, LastAppend
  <2> QED
    BY <2>1, <2>2, <2>3, NoInstallYet
<1>10. CASE Transmit
  <2>1. /\ outbox # <<>> /\ wire' = Append(wire, Head(outbox)) /\ outbox' = Tail(outbox)
        /\ UNCHANGED <<crossed, preflight>>
    BY <1>10 DEF Transmit
  <2>2. \A i \in 1..Len(wire) : wire[i].kind # "install"
    BY <2>1
  <2>3. \A i \in 1..Len(outbox') : outbox'[i] = outbox[i + 1] /\ i + 1 \in 1..Len(outbox)
    BY <1>0, <2>1
  <2>4. Len(outbox') = Len(outbox) - 1 /\ Len(outbox) \in Nat \ {0}
    BY <1>0, <2>1
  <2>5. ASSUME NEW i \in 1..Len(outbox'), outbox'[i].kind = "install"
        PROVE  crossed /\ outbox'[i].inventory = preflight /\ i = Len(outbox')
    <3>1. outbox[i + 1].kind = "install" /\ outbox'[i] = outbox[i + 1]
      BY <2>3, <2>5
    <3>2. i + 1 = Len(outbox) /\ crossed /\ outbox[i + 1].inventory = preflight
      BY <2>3, <3>1
    <3>3. i \in Nat
      BY <2>5
    <3> QED
      BY <2>4, <3>1, <3>2, <3>3
  <2>6. Head(outbox) = outbox[1] /\ outbox[1] \in Lines /\ 1 \in 1..Len(outbox)
    BY <1>0, <2>1
  <2>7. ASSUME NEW j \in 1..Len(wire'), wire'[j].kind = "install"
        PROVE  j = Len(wire') /\ wire'[j] = outbox[1]
    BY <1>0, <2>1, <2>2, <2>6, <2>7, LastAppend
  <2>8. outbox[1].kind = "install" => outbox' = <<>>
    <3>1. outbox[1].kind = "install" => Len(outbox) = 1
      BY <2>6
    <3> QED
      BY <1>0, <2>1, <3>1
  <2> QED
    BY <2>1, <2>5, <2>6, <2>7, <2>8
<1>11. CASE HostUnplug
  BY <1>11 DEF HostUnplug
<1>12. CASE wire # <<>> /\ wire' = Tail(wire) /\ UNCHANGED <<page, transport, cable>>
  <2>1. \A i \in 1..Len(wire') : wire'[i] = wire[i + 1] /\ i + 1 \in 1..Len(wire)
    BY <1>0, <1>12
  <2>2. Len(wire') = Len(wire) - 1 /\ Len(wire) \in Nat \ {0}
    BY <1>0, <1>12
  <2>3. outbox' = outbox /\ crossed' = crossed /\ preflight' = preflight
    BY <1>12
  <2>4. ASSUME NEW i \in 1..Len(wire'), wire'[i].kind = "install"
        PROVE  crossed /\ wire'[i].inventory = preflight /\ i = Len(wire') /\ outbox = <<>>
    <3>1. wire[i + 1].kind = "install" /\ wire'[i] = wire[i + 1] /\ i + 1 \in 1..Len(wire)
      BY <2>1, <2>4
    <3>2. i + 1 = Len(wire) /\ crossed /\ wire[i + 1].inventory = preflight /\ outbox = <<>>
      BY <3>1
    <3>3. i \in Nat
      BY <2>4
    <3> QED
      BY <2>2, <3>1, <3>2, <3>3
  <2> QED
    BY <2>3, <2>4
<1>13. CASE Timeout \/ Acknowledge \/ WriteFails \/ PumpEnds \/ SerialDisconnect \/ Replug
  BY <1>1, <1>13
     DEF Timeout, Acknowledge, WriteFails, PumpEnds, SerialDisconnect, Replug
<1>14. ASSUME NEW m \in Markers, HostReceives(m) PROVE QueueInv'
  BY <1>1, <1>14 DEF HostReceives
<1>15. CASE UNCHANGED hostVars
  BY <1>1, <1>15 DEF hostVars
<1> QED
  BY <1>2, <1>3, <1>5, <1>6, <1>7, <1>8, <1>9, <1>10, <1>11, <1>12, <1>13, <1>14, <1>15
     DEF HostStep, Resume, Clicks, Events, Writer

LEMMA PageInit == HostInit => PageInv
<1> SUFFICES ASSUME HostInit PROVE PageInv
  OBVIOUS
<1>1. TokenInv
  BY FS_EmptySet DEF HostInit, TokenInv, Owed
<1>2. CourseInv /\ QueueInv
  BY DEF HostInit, CourseInv, QueueInv, LastLine
<1> QED
  BY <1>1, <1>2, HostTypesInit DEF PageInv

LEMMA PageStep == PageInv /\ HostStep => PageInv'
BY HostTypesStep, TokenStep, CourseStep, QueueStep DEF PageInv

-----------------------------------------------------------------------------
(* The target under the page *)

LEMMA TargetMoves ==
    TargetInv /\ TruthInv /\ before # "bundle" /\ (Scripts \/ Environment \/ UNCHANGED vars)
      => TargetInv' /\ TruthInv' /\ (Provisioned => Provisioned') /\ Permitted
BY TargetNext, ConfirmNext, TruthNext, ProvisionedStays DEF TargetInv, Next

LEMMA RunStarts ==
    TargetInv /\ TruthInv /\ ~Provisioned /\ (\E c \in Commands : Start(c))
      => TargetInv' /\ TruthInv'
BY TargetNext, TruthNext DEF TargetInv, Next

\* The console's reader never runs ahead of the target.
ReadInv == read \in 0..Len(out) /\ lost \in 0..Losses

\* Until the install command is read nothing has happened to the storage; it is
\* read when no other line is left, so that no other run will follow it.
JobInv ==
    /\ before = "factory"
    /\ cmd.kind = "install" => /\ crossed
                               /\ cmd.inventory = preflight
                               /\ wire = <<>>
                               /\ outbox = <<>>
    /\ cmd.kind # "install" => /\ pc \in {"idle", "guards", "inspect", "report", "finish"}
                               /\ qspi = "factory"
                               /\ mounts = {}
    /\ \A d \in Disks : layout[d] # "foreign" => cmd.kind = "install" /\ cmd.inventory = d

\* What the page has heard of the target.
HeardInv ==
    /\ waiter \in Markers => /\ waiter.session = token
                             /\ \E i \in 1..Len(out) : out[i] = waiter
    /\ outcome = "complete" => Provisioned
    /\ ShownInventoryIsFresh

IInv == PageInv /\ TargetInv /\ TruthInv /\ ReadInv /\ JobInv /\ HeardInv

\* A confirmed page sends no more, and keeps what was confirmed.
LEMMA Sealed ==
    ASSUME CourseInv, HostStep, crossed, wire = <<>>, outbox = <<>>
    PROVE  crossed' /\ preflight' = preflight /\ wire' = <<>> /\ outbox' = <<>>
<1> USE DEF CourseInv, page, transport
<1>1. CASE Clicks
  BY <1>1 DEF Clicks, ClickRecovery, OpenPort, OpenFails, ClickInstall
<1>2. CASE Resume
  BY <1>2 DEF Resume, ReadySettles, PreflightSettles, InstallSettles, CloseSettles
<1>3. CASE Events
  BY <1>3 DEF Events, SendProbe, Timeout, Writer, Transmit, Acknowledge, WriteFails,
              PumpEnds, SerialDisconnect, Replug
<1>4. CASE HostUnplug \/ UNCHANGED hostVars
  BY <1>4 DEF HostUnplug, hostVars
<1>5. CASE \E m \in Markers : HostReceives(m)
  BY <1>5 DEF HostReceives
<1> QED
  BY <1>1, <1>2, <1>3, <1>4, <1>5 DEF HostStep

LEMMA JobHost == PageInv /\ JobInv /\ HostStep /\ UNCHANGED target => JobInv'
<1> SUFFICES ASSUME PageInv, JobInv, HostStep, UNCHANGED target PROVE JobInv'
  OBVIOUS
<1>1. cmd.kind = "install" => /\ crossed'
                              /\ cmd.inventory = preflight'
                              /\ wire' = <<>>
                              /\ outbox' = <<>>
  BY Sealed DEF JobInv, PageInv
<1> QED
  BY <1>1 DEF JobInv, target, run, store

\* A step of the scripts, or of the terminal and the disk under them.
LEMMA JobTarget ==
    ASSUME PageInv, TargetInv, TruthInv, JobInv,
           Scripts \/ RestartConsole \/ SwapDisk \/ Hangup,
           UNCHANGED <<crossed, preflight>>,
           wire' \in {wire, <<>>}, outbox' \in {outbox, <<>>}
    PROVE  JobInv'
<1> USE DEF run, store, ram, At
<1>1. UNCHANGED <<cmd, before>>
  BY CommandKept DEF Environment
<1>2. ASSUME cmd.kind # "install"
      PROVE  /\ pc' \in {"idle", "guards", "inspect", "report", "finish"}
             /\ qspi' = "factory"
             /\ mounts' = {}
  <2> USE <1>2 DEF JobInv
  <2>1. CASE Finish
    BY <2>1, CleanupMounts DEF Finish
  <2>2. CASE RunPreflight
    <3>1. cmd.kind = "preflight"
      BY <2>2 DEF RunPreflight, TargetInv, TypeOK, Commands, Running, ProvisionSteps
    <3> QED
      BY <2>2, <3>1 DEF RunPreflight
  <2>3. CASE Provision /\ ~Finish /\ ~RunPreflight
    BY <2>3 DEF Provision, Guards, ReportPreflight, ConfirmInventory, AnnounceInstall,
       MountNewRoot, CheckBackup, UnmountNewRoot, ReportSuccess, HonourTerm
  <2>4. CASE Install
    BY <2>4 DEF Install, CheckTarget, Partition, Format, MountRoot, Extract, Configure,
       MountEsp, CopyLauncher, ResetSync, UmountEsp, UmountRoot, InstallDone, InstallFails
  <2>5. CASE QspiInstall
    BY <2>5 DEF QspiInstall, CheckQspi, SaveBackup, RecordBackup, WarnErase, Erase,
       Program, AnnounceVerify, Readback, QspiDone
  <2>6. CASE StepFails
    BY <2>6 DEF StepFails, InstallSteps, TrappedSteps
  <2>7. CASE RestartConsole \/ SwapDisk \/ Hangup
    BY <2>7 DEF RestartConsole, SwapDisk, Hangup
  <2> QED
    BY <2>1, <2>2, <2>3, <2>4, <2>5, <2>6, <2>7 DEF Scripts
<1>3. ASSUME NEW d \in Disks, layout'[d] # "foreign"
      PROVE  cmd.kind = "install" /\ cmd.inventory = d
  <2>1. CASE layout'[d] = layout[d]
    BY <1>3, <2>1 DEF JobInv
  <2>2. CASE layout'[d] # layout[d]
    <3>1. Permitted
      BY TargetMoves DEF JobInv, Environment
    <3>2. Partition \/ Format
      BY <2>2 DEF Scripts, Provision, Install, QspiInstall, Guards, RunPreflight,
         ReportPreflight, ConfirmInventory, AnnounceInstall, MountNewRoot,
         CheckBackup, UnmountNewRoot, ReportSuccess, Finish, HonourTerm, CheckTarget,
         MountRoot, Extract, Configure, MountEsp, CopyLauncher, ResetSync, UmountEsp,
         UmountRoot, Unmount, InstallDone, InstallFails, CheckQspi, SaveBackup,
         RecordBackup, WarnErase, Erase, Program, AnnounceVerify, Readback, QspiDone,
         StepFails, RestartConsole, SwapDisk, Hangup
    <3>3. pc' # "off"
      BY <3>2 DEF Partition, Format
    <3> QED
      BY <1>3, <2>2, <3>1, <3>3 DEF Permitted, JobInv, PageInv, CourseInv
  <2> QED
    BY <2>1, <2>2
<1> QED
  BY <1>1, <1>2, <1>3 DEF JobInv
\* The shell has read a line: a probe, or a command that no other will follow.
LEMMA LineRead ==
    ASSUME PageInv, TargetInv, JobInv, ShellReads
    PROVE  /\ ~Provisioned
           /\ Echo \/ \E c \in Commands : Start(c)
           /\ JobInv'
<1>1. /\ pc = "idle" /\ wire # <<>> /\ wire' = Tail(wire)
      /\ UNCHANGED <<page, transport>>
  BY DEF ShellReads
<1>2. cmd.kind # "install" /\ qspi = "factory" /\ mounts = {}
  BY <1>1 DEF JobInv
<1>3. \A d \in Disks : layout[d] = "foreign"
  BY <1>2 DEF JobInv
<1>4. wire \in Seq(Lines) /\ Head(wire) = wire[1] /\ wire[1] \in Lines /\ 1 \in 1..Len(wire)
  BY <1>1 DEF PageInv, HostTypes
<1>5. CASE Head(wire).kind = "ready"
  <2>1. /\ out' = Append(out, Marker("ready", Head(wire).session))
        /\ UNCHANGED <<pc, run, succeeded, pending, flags, mounts, slot, store, ram,
                       qspi, tty>>
    BY <1>5 DEF ShellReads
  <2>2. Head(wire).session \in Tokens
    BY <1>4 DEF Lines, Command
  <2>3. Echo
    BY <2>1, <2>2 DEF Echo
  <2> QED
    BY <1>1, <1>2, <1>3, <2>1, <2>3 DEF JobInv, Provisioned, run, store
<1>6. CASE Head(wire).kind # "ready"
  <2>1. PICK a \in BOOLEAN : Start([Head(wire) EXCEPT !.accepted = a])
    BY <1>6 DEF ShellReads
  <2> DEFINE c == [Head(wire) EXCEPT !.accepted = a]
  <2>2. c \in Commands /\ c.kind = wire[1].kind /\ c.inventory = wire[1].inventory
    BY <1>4, <1>6 DEF Lines, Command, Commands
  <2> HIDE DEF c
  <2>3. Start(c)
    BY <2>1 DEF c
  <2>4. ASSUME c.kind = "install"
        PROVE  crossed /\ c.inventory = preflight /\ wire' = <<>> /\ outbox = <<>>
    <3>1. crossed /\ c.inventory = preflight /\ Len(wire) = 1 /\ outbox = <<>>
      BY <1>4, <2>2, <2>4 DEF PageInv, QueueInv, LastLine
    <3> QED
      BY <1>1, <1>4, <3>1
  <2>5. /\ cmd' = c /\ before' = qspi /\ pc' = "guards"
        /\ UNCHANGED <<mounts, store, qspi>>
    BY <2>3 DEF Start
  <2>6. UNCHANGED <<crossed, preflight, outbox>>
    BY <1>1 DEF page, transport
  <2>7. JobInv'
    BY <1>2, <1>3, <2>4, <2>5, <2>6 DEF JobInv, store
  <2> QED
    BY <1>2, <2>2, <2>3, <2>7 DEF Provisioned
<1> QED
  BY <1>5, <1>6

-----------------------------------------------------------------------------
(* What the page has heard *)

\* What was heard stays true while the target goes on.
LEMMA HeardTarget ==
    ASSUME HeardInv, Provisioned => Provisioned',
           \A i \in 1..Len(out) : i \in 1..Len(out') /\ out'[i] = out[i],
           UNCHANGED <<waiter, token, outcome, preflight, crossed>>
    PROVE  HeardInv'
<1>1. waiter' \in Markers => /\ waiter'.session = token'
                             /\ \E i \in 1..Len(out') : out'[i] = waiter'
  BY DEF HeardInv
<1>2. ShownInventoryIsFresh'
  <2> SUFFICES ASSUME preflight # NoInventory, ~crossed
               PROVE  \E i \in 1..Len(out') :
                        out'[i] = [Marker("preflight-success", token')
                                     EXCEPT !.inventory = preflight']
    BY DEF ShownInventoryIsFresh
  <2>1. PICK i \in 1..Len(out) :
           out[i] = [Marker("preflight-success", token) EXCEPT !.inventory = preflight]
    BY DEF HeardInv, ShownInventoryIsFresh
  <2> QED
    BY <2>1
<1> QED
  BY <1>1, <1>2 DEF HeardInv

\* No step of the page other than those below hears or forgets anything.
LEMMA HeardQuiet ==
    ASSUME HeardInv, UNCHANGED target, UNCHANGED <<token, outcome, preflight, crossed>>,
           waiter' \in Unanswered \cup {waiter}
    PROVE  HeardInv'
<1>1. UNCHANGED <<out, qspi, dirty, mounts, layout, os, launcher, backup, before>>
  BY DEF target, store, run
<1>2. Provisioned <=> Provisioned'
  BY <1>1 DEF Provisioned
<1>3. ShownInventoryIsFresh'
  BY <1>1 DEF HeardInv, ShownInventoryIsFresh
<1>4. waiter' \in Markers => waiter' = waiter
  BY DEF Unanswered, Markers
<1> QED
  BY <1>1, <1>2, <1>3, <1>4 DEF HeardInv

\* A step of the page alone: what it hears is a line of the target.
PageMoves == /\ \/ Resume \/ Clicks \/ Events \/ UNCHANGED hostVars
                \/ \E i \in 1..Len(out) : HostReceives(out[i])
             /\ UNCHANGED target

LEMMA HeardHost == PageInv /\ TargetInv /\ TruthInv /\ HeardInv /\ PageMoves => HeardInv'
<1> SUFFICES ASSUME PageInv, TargetInv, TruthInv, HeardInv, PageMoves PROVE HeardInv'
  OBVIOUS
<1> USE DEF page, transport
<1>0. UNCHANGED target
  BY DEF PageMoves
<1>1. /\ UNCHANGED <<out, qspi, dirty, mounts, layout, os, launcher, backup, before>>
      /\ Provisioned <=> Provisioned'
  BY <1>0 DEF target, store, run, Provisioned
<1>2. CASE (ReadySettles /\ ~AbandonRecovery) \/ OpenPort
  <2>1. preflight' = NoInventory /\ outcome' = outcome /\ waiter' \in Unanswered
    BY <1>2 DEF ReadySettles, OpenPort, Exchange, PageInv, CourseInv, Unanswered
  <2>2. waiter' \notin Markers
    BY <2>1 DEF Unanswered, Markers
  <2> QED
    BY <1>1, <2>1, <2>2 DEF HeardInv, ShownInventoryIsFresh
<1>3. CASE ClickInstall
  <2>1. crossed' /\ outcome' = outcome /\ waiter' \in Unanswered
    BY <1>3 DEF ClickInstall, Exchange, Unanswered
  <2>2. waiter' \notin Markers
    BY <2>1 DEF Unanswered, Markers
  <2> QED
    BY <1>1, <2>1, <2>2 DEF HeardInv, ShownInventoryIsFresh
<1>4. CASE PreflightSettles /\ ~AbandonRecovery
  <2>1. /\ waiter.kind = "preflight-success" /\ preflight' = waiter.inventory
        /\ waiter' \in Unanswered /\ UNCHANGED <<token, outcome>>
    BY <1>4 DEF PreflightSettles, Reply, Unanswered
  <2>2. waiter \in Markers
    BY <2>1 DEF PageInv, HostTypes, Unanswered
  <2>3. PICK i \in 1..Len(out) : out[i] = waiter
    BY <2>2 DEF HeardInv
  <2>4. out[i] = [Marker("preflight-success", token) EXCEPT !.inventory = preflight']
    BY <2>1, <2>2, <2>3 DEF HeardInv, TargetInv, ReportInv
  <2>5. waiter' \notin Markers
    BY <2>1 DEF Unanswered, Markers
  <2>6. ShownInventoryIsFresh'
    BY <1>1, <2>1, <2>4 DEF ShownInventoryIsFresh
  <2> QED
    BY <1>1, <2>1, <2>5, <2>6 DEF HeardInv
<1>5. CASE InstallSettles
  <2>1. /\ UNCHANGED <<token, preflight, crossed>> /\ waiter' \in Unanswered
        /\ outcome' \in {outcome, "complete", "unknown"}
        /\ outcome' = "complete" => outcome = "complete" \/ waiter.kind = "success"
    BY <1>5 DEF InstallSettles, Claim, Reply, Unanswered
  <2>2. ASSUME waiter.kind = "success" PROVE Provisioned
    <3>1. waiter \in Markers
      BY <2>2 DEF PageInv, HostTypes, Unanswered
    <3> QED
      BY <2>2, <3>1 DEF HeardInv, TruthInv
  <2>3. waiter' \notin Markers
    BY <2>1 DEF Unanswered, Markers
  <2>4. ShownInventoryIsFresh'
    BY <1>1, <2>1 DEF HeardInv, ShownInventoryIsFresh
  <2> QED
    BY <1>1, <2>1, <2>2, <2>3, <2>4 DEF HeardInv
<1>6. CASE SerialDisconnect
  <2>1. /\ UNCHANGED <<token, preflight, crossed, waiter>>
        /\ outcome' \in {outcome, "unknown"}
    BY <1>6 DEF SerialDisconnect, Claim
  <2>2. ShownInventoryIsFresh'
    BY <1>1, <2>1 DEF HeardInv, ShownInventoryIsFresh
  <2> QED
    BY <1>1, <2>1, <2>2 DEF HeardInv
<1>7. CASE \E i \in 1..Len(out) : HostReceives(out[i])
  <2>1. PICK i \in 1..Len(out) : HostReceives(out[i])
    BY <1>7
  <2>2. /\ UNCHANGED <<token, preflight, crossed, outcome>>
        /\ waiter' = waiter \/ (waiter' = out[i] /\ out[i].session = token)
    BY <2>1 DEF HostReceives, Matches
  <2>3. ShownInventoryIsFresh'
    BY <1>1, <2>2 DEF HeardInv, ShownInventoryIsFresh
  <2> QED
    BY <1>1, <2>2, <2>3 DEF HeardInv
<1>8. CASE AbandonRecovery \/ CloseSettles \/ ClickRecovery \/ OpenFails
  BY <1>0, <1>8, HeardQuiet
     DEF AbandonRecovery, CloseSettles, ClickRecovery, OpenFails, Unanswered
<1>9. CASE SendProbe \/ Timeout \/ Writer \/ PumpEnds \/ Replug
  BY <1>0, <1>9, HeardQuiet
     DEF SendProbe, Timeout, Writer, Transmit, Acknowledge, WriteFails, PumpEnds, Replug,
         Unanswered
<1>10. CASE UNCHANGED hostVars
  BY <1>0, <1>10, HeardQuiet DEF hostVars
<1> QED
  BY <1>2, <1>3, <1>4, <1>5, <1>6, <1>7, <1>8, <1>9, <1>10
     DEF PageMoves, Resume, Clicks, Events

-----------------------------------------------------------------------------
(* The whole *)

LEMMA IInvInit == ProvisioningInit => IInv
<1> SUFFICES ASSUME ProvisioningInit PROVE IInv
  OBVIOUS
<1>1. PageInv /\ TargetInv /\ TruthInv
  BY PageInit, TargetInit DEF ProvisioningInit
<1>2. ReadInv
  BY LossesAssumption DEF ProvisioningInit, Init, ReadInv
<1>3. JobInv
  BY DEF ProvisioningInit, Init, HostInit, JobInv
<1>4. HeardInv
  BY DEF ProvisioningInit, Init, HostInit, HeardInv, ShownInventoryIsFresh, Markers
<1> QED
  BY <1>1, <1>2, <1>3, <1>4 DEF IInv

\* Every step is one of the page alone, one of the target alone, a line read or
\* the cable pulled.
LEMMA Steps ==
    ASSUME IInv, [ProvisioningNext]_allVars
    PROVE  \/ PageMoves /\ ReadInv'
           \/ (Scripts \/ RestartConsole \/ SwapDisk) /\ UNCHANGED <<hostVars, console>>
           \/ ShellReads
           \/ Unplug
<1>1. CASE PageSteps
  BY <1>1 DEF PageSteps, PageMoves, Clicks, Events, console, target, IInv, ReadInv
<1>2. CASE Connect
  <2>1. PageMoves
    BY <1>2 DEF Connect, PageMoves, Clicks
  <2>2. ReadInv'
    BY <1>2 DEF Connect, IInv, ReadInv, target
  <2> QED
    BY <2>1, <2>2
<1>3. CASE LineArrives
  <2>1. read + 1 \in 1..Len(out)
    BY <1>3 DEF LineArrives, IInv, ReadInv, TargetInv, TypeOK
  <2>2. PageMoves
    BY <1>3, <2>1 DEF LineArrives, PageMoves
  <2>3. ReadInv'
    BY <1>3, <2>1 DEF LineArrives, IInv, ReadInv, target
  <2> QED
    BY <2>2, <2>3
<1>4. CASE LineLost
  <2>1. PageMoves
    BY <1>4 DEF LineLost, PageMoves
  <2>2. ReadInv'
    BY <1>4, LossesAssumption DEF LineLost, IInv, ReadInv, target, TargetInv, TypeOK
  <2> QED
    BY <2>1, <2>2
<1>5. CASE UNCHANGED allVars
  BY <1>5 DEF allVars, PageMoves, console, IInv, ReadInv, target
<1> QED
  BY <1>1, <1>2, <1>3, <1>4, <1>5 DEF ProvisioningNext, TargetSteps

LEMMA IInvNext == IInv /\ [ProvisioningNext]_allVars => IInv'
<1> SUFFICES ASSUME IInv, [ProvisioningNext]_allVars PROVE IInv'
  OBVIOUS
<1> USE DEF IInv
<1>0. out \in Seq(Markers)
  BY DEF TargetInv, TypeOK
<1>1. CASE PageMoves /\ ReadInv'
  <2>1. HostStep /\ UNCHANGED target
    BY <1>0, <1>1 DEF PageMoves, HostStep
  <2>2. UNCHANGED vars
    BY <2>1 DEF target, vars
  <2> QED
    BY <1>1, <2>1, <2>2, PageStep, TargetMoves, JobHost, HeardHost DEF TargetInv, JobInv
<1>2. CASE (Scripts \/ RestartConsole \/ SwapDisk) /\ UNCHANGED <<hostVars, console>>
  <2>1. UNCHANGED <<crossed, preflight, wire, outbox, waiter, token, outcome, read, lost>>
    BY <1>2 DEF hostVars, page, transport, console
  <2>2. PageInv'
    BY <1>2, PageStep DEF HostStep
  <2>3. TargetInv' /\ TruthInv' /\ (Provisioned => Provisioned')
    BY <1>2, TargetMoves DEF Environment, JobInv
  <2>4. JobInv'
    BY <1>2, <2>1, JobTarget
  <2>5. \A i \in 1..Len(out) : i \in 1..Len(out') /\ out'[i] = out[i]
    BY <1>2, OutGrows DEF TargetInv, Next, Environment
  <2>6. HeardInv'
    BY <2>1, <2>3, <2>5, HeardTarget
  <2>7. ReadInv'
    <3>1. Len(out) <= Len(out')
      BY <1>0, <2>3, <2>5 DEF TargetInv, TypeOK
    <3> QED
      BY <1>0, <2>1, <2>3, <3>1 DEF ReadInv, TargetInv, TypeOK
  <2> QED
    BY <2>2, <2>3, <2>4, <2>6, <2>7
<1>3. CASE ShellReads
  <2>1. UNCHANGED <<crossed, preflight, waiter, token, outcome, read, lost>>
    BY <1>3 DEF ShellReads, page, transport, console
  <2>2. PageInv'
    BY <1>3, PageStep DEF ShellReads, HostStep
  <2>3. JobInv' /\ ~Provisioned
    BY <1>3, LineRead
  <2>4. CASE Echo
    <3>1. TargetInv' /\ TruthInv'
          /\ \A i \in 1..Len(out) : i \in 1..Len(out') /\ out'[i] = out[i]
      BY <2>4, EchoMoves
    <3>2. HeardInv'
      BY <2>1, <2>3, <3>1, HeardTarget
    <3>3. Len(out) <= Len(out')
      BY <1>0, <3>1 DEF TargetInv, TypeOK
    <3>4. ReadInv'
      BY <1>0, <2>1, <3>1, <3>3 DEF ReadInv, TargetInv, TypeOK
    <3> QED
      BY <2>2, <2>3, <3>1, <3>2, <3>4
  <2>5. CASE \E c \in Commands : Start(c)
    <3>1. TargetInv' /\ TruthInv' /\ UNCHANGED out
      BY <2>3, <2>5, RunStarts DEF Start
    <3>2. HeardInv'
      BY <2>1, <2>3, <3>1, HeardTarget
    <3>3. ReadInv'
      BY <2>1, <3>1 DEF ReadInv
    <3> QED
      BY <2>2, <2>3, <3>1, <3>2, <3>3
  <2> QED
    BY <1>3, <2>4, <2>5, LineRead
<1>4. CASE Unplug
  <2>1. /\ UNCHANGED <<crossed, preflight, waiter, token, outcome, read, lost>>
        /\ wire' = <<>> /\ outbox' = <<>>
    BY <1>4 DEF Unplug, HostUnplug, page, console
  <2>2. PageInv'
    BY <1>4, PageStep DEF Unplug, HostStep
  <2>3. TargetInv' /\ TruthInv' /\ (Provisioned => Provisioned') /\ UNCHANGED out
    BY <1>4, TargetMoves DEF Unplug, Environment, JobInv, Hangup
  <2>4. JobInv'
    BY <1>4, <2>1, JobTarget DEF Unplug
  <2>5. HeardInv'
    BY <2>1, <2>3, HeardTarget
  <2>6. ReadInv'
    BY <2>1, <2>3 DEF ReadInv
  <2> QED
    BY <2>2, <2>3, <2>4, <2>5, <2>6
<1> QED
  BY <1>1, <1>2, <1>3, <1>4, Steps

\* Whatever the page and the target do, the invariant holds.
LEMMA Always == ProvisioningSpec => []IInv
BY IInvInit, IInvNext, PTL DEF ProvisioningSpec

\* No NVMe is ever repartitioned but the one whose inventory the customer was
\* shown and confirmed, whatever is put in its place meanwhile (preflight and
\* install of the page, confirm_inventory of helm-provision).
THEOREM ShownWrittenSafety == ProvisioningSpec => []OnlyShownInventoryWritten
<1>1. IInv => OnlyShownInventoryWritten
  BY DEF IInv, JobInv, OnlyShownInventoryWritten
<1> QED
  BY <1>1, Always, PTL

\* The inventory offered for confirmation was printed by the target for the
\* token of the page's last exchange (RecoverySession.preflight), whatever lines
\* were lost or left in a buffer by earlier attempts.
THEOREM ShownFreshSafety == ProvisioningSpec => []ShownInventoryIsFresh
<1>1. IInv => ShownInventoryIsFresh
  BY DEF IInv, HeardInv
<1> QED
  BY <1>1, Always, PTL

-----------------------------------------------------------------------------
(* The page by itself, against a console that may say anything *)

LEMMA HostSteps == [HostNext]_hostVars => HostStep
BY DEF HostNext, HostStep, AnyLine, TargetReads

\* The install command is the last line the page ever sends and names the
\* NVMe that was shown; it is sent only after the confirmation, and no attempt
\* runs out of tokens (handleRecovery, handleInstall, RecoverySession).
THEOREM PageCorrect == HostSpec => []PageInv
BY PageInit, PageStep, HostSteps, PTL DEF HostSpec

\* An outcome shown is final (claimInstallTerminalState).
THEOREM OutcomeFinality == HostSpec => OutcomeIsFinal
<1>1. [HostNext]_hostVars /\ outcome # "none" => outcome' = outcome
  BY DEF HostNext, hostVars, page, transport, Resume, ReadySettles, AbandonRecovery,
         PreflightSettles, InstallSettles, CloseSettles, Clicks, ClickRecovery, OpenPort,
         OpenFails, ClickInstall, Events, SendProbe, Timeout, Writer, Transmit,
         Acknowledge, WriteFails, PumpEnds, SerialDisconnect, Replug, HostUnplug, AnyLine,
         HostReceives, TargetReads, Claim
<1> QED
  BY <1>1, PTL DEF HostSpec, OutcomeIsFinal

-----------------------------------------------------------------------------
(* The page's promise *)

\* As long as no install command has been read nothing has been touched.
LEMMA UntouchedYet == JobInv /\ cmd.kind # "install" => Storage = "untouched"
BY StorageMeans DEF JobInv

LEMMA UntouchedAfter == JobInv' /\ cmd'.kind # "install" => Storage' = "untouched"
BY StorageAfter DEF JobInv

LEMMA PageKeeps ==
    ASSUME IInv, PageMoves
    PROVE  [P!Next]_(P!vars)
<1> USE DEF page, transport
<1>1. UNCHANGED <<qspi, dirty, mounts, layout, os, launcher, backup, before>>
  BY DEF PageMoves, target, store, run
<1>2. Storage' = Storage
  BY <1>1 DEF Storage, Provisioned
<1>3. CASE UNCHANGED <<outcome, crossed>>
  BY <1>2, <1>3 DEF P!vars, Shown
<1>4. CASE ClickInstall
  <2>1. outcome = "none" /\ outcome' = "none" /\ ~crossed /\ crossed'
    BY <1>4 DEF ClickInstall, IInv, PageInv, CourseInv, HostTypes
  <2>2. Shown = "safe" /\ Shown' = "writing"
    BY <2>1 DEF Shown
  <2> QED
    BY <1>2, <2>2 DEF P!Next, P!Confirm
<1>5. ASSUME crossed, crossed', outcome = "none",
             outcome' = "unknown" \/ (outcome' = "complete" /\ Provisioned)
      PROVE  [P!Next]_(P!vars)
  <2>1. Shown = "writing" /\ Shown' = outcome'
    BY <1>5 DEF Shown
  <2> QED
    BY <1>2, <1>5, <2>1, StorageMeans DEF P!Next, P!Complete, P!GiveUp
<1>6. CASE InstallSettles
  <2>1. crossed /\ crossed'
    BY <1>6 DEF InstallSettles, IInv, PageInv, CourseInv
  <2>2. \/ UNCHANGED <<outcome, crossed>>
        \/ /\ outcome = "none"
           /\ outcome' = "unknown" \/ (outcome' = "complete" /\ waiter.kind = "success")
    BY <1>6 DEF InstallSettles, Claim, Reply
  <2>3. ASSUME waiter.kind = "success" PROVE Provisioned
    <3>1. waiter \in Markers
      BY <2>3 DEF IInv, PageInv, HostTypes, Unanswered
    <3> QED
      BY <2>3, <3>1 DEF IInv, HeardInv, TruthInv
  <2> QED
    BY <1>3, <1>5, <2>1, <2>2, <2>3
<1>7. CASE SerialDisconnect
  <2>1. \/ UNCHANGED <<outcome, crossed>>
        \/ crossed /\ crossed' /\ outcome = "none" /\ outcome' = "unknown"
    BY <1>7 DEF SerialDisconnect, Claim
  <2> QED
    BY <1>3, <1>5, <2>1
<1>8. CASE ReadySettles \/ PreflightSettles \/ CloseSettles
  BY <1>3, <1>8
     DEF ReadySettles, PreflightSettles, CloseSettles, AbandonRecovery
<1>9. CASE ClickRecovery \/ OpenPort \/ OpenFails
  BY <1>3, <1>9 DEF ClickRecovery, OpenPort, OpenFails
<1>10. CASE SendProbe \/ Timeout \/ Writer \/ PumpEnds \/ Replug
  BY <1>3, <1>10
     DEF SendProbe, Timeout, Writer, Transmit, Acknowledge, WriteFails, PumpEnds, Replug
<1>11. CASE UNCHANGED hostVars \/ \E i \in 1..Len(out) : HostReceives(out[i])
  BY <1>3, <1>11 DEF hostVars, HostReceives
<1> QED
  BY <1>4, <1>6, <1>7, <1>8, <1>9, <1>10, <1>11 DEF PageMoves, Resume, Clicks, Events

LEMMA TargetKeeps ==
    ASSUME IInv, IInv', UNCHANGED <<outcome, crossed, cmd>>,
           Scripts \/ RestartConsole \/ SwapDisk \/ Hangup
    PROVE  [P!Next]_(P!vars)
<1>1. Shown' = Shown
  BY DEF Shown
<1>2. CASE Storage' = Storage
  BY <1>1, <1>2 DEF P!vars
<1>3. CASE Storage' # Storage
  <2>1. [Next]_vars
    BY DEF Next, Environment
  <2>2. Provisioned => Provisioned'
    BY TargetMoves DEF IInv, JobInv, Environment
  <2>3. Storage # "provisioned"
    BY <1>3, <2>2, StorageMeans, StorageAfter
  <2>4. Storage' \in {"changed", "provisioned"}
    BY <1>3, <2>1, NeverRestored, StorageMeans, StorageAfter DEF IInv, TargetInv
  <2>5. crossed
    BY <1>3, UntouchedYet, UntouchedAfter DEF IInv, JobInv
  <2>6. Shown \in {"writing", "unknown"}
    BY <2>3, <2>5, StorageMeans DEF Shown, IInv, PageInv, HostTypes, HeardInv
  <2> QED
    BY <1>1, <2>3, <2>4, <2>6 DEF P!Next, P!Work
<1> QED
  BY <1>2, <1>3

LEMMA ReadKeeps ==
    ASSUME IInv, ShellReads
    PROVE  [P!Next]_(P!vars)
<1>1. UNCHANGED <<outcome, crossed>>
  BY DEF ShellReads, page
<1>2. Shown' = Shown
  BY <1>1 DEF Shown
<1>3. Storage = "untouched"
  BY UntouchedYet DEF IInv, JobInv, ShellReads
<1>4. UNCHANGED <<qspi, layout>>
  BY LineRead DEF IInv, Echo, Start, store
<1>5. Storage' = "untouched"
  BY <1>3, <1>4, StorageMeans, StorageAfter
<1> QED
  BY <1>2, <1>3, <1>5 DEF P!vars

\* The page keeps its promise, whatever lines are lost or stale, whenever the
\* cable is pulled or a wait times out: nothing is written before the customer
\* confirms, "complete" is shown only over provisioned storage that no step
\* touches again, and an outcome is final.
THEOREM PromiseSafety == ProvisioningSpec => PromiseKept
<1>1. ProvisioningInit => P!Init
  <2> SUFFICES ASSUME ProvisioningInit PROVE P!Init
    OBVIOUS
  <2>1. qspi = "factory" /\ \A d \in Disks : layout[d] = "foreign"
    BY DEF ProvisioningInit, Init
  <2>2. outcome = "none" /\ ~crossed
    BY DEF ProvisioningInit, HostInit
  <2> QED
    BY <2>1, <2>2, StorageMeans DEF P!Init, Shown
<1>2. IInv /\ IInv' /\ [ProvisioningNext]_allVars => [P!Next]_(P!vars)
  <2> SUFFICES ASSUME IInv, IInv', [ProvisioningNext]_allVars PROVE [P!Next]_(P!vars)
    OBVIOUS
  <2>1. CASE (Scripts \/ RestartConsole \/ SwapDisk) /\ UNCHANGED <<hostVars, console>>
    <3>1. UNCHANGED <<outcome, crossed, cmd>>
      BY <2>1, CommandKept DEF hostVars, page, Environment
    <3> QED
      BY <2>1, <3>1, TargetKeeps
  <2>2. CASE Unplug
    <3>1. UNCHANGED <<outcome, crossed, cmd>>
      BY <2>2 DEF Unplug, HostUnplug, Hangup, page, run
    <3> QED
      BY <2>2, <3>1, TargetKeeps DEF Unplug
  <2> QED
    BY <2>1, <2>2, Steps, PageKeeps, ReadKeeps
<1> QED
  BY <1>1, <1>2, Always, PTL DEF ProvisioningSpec, PromiseKept, P!Spec
=============================================================================
