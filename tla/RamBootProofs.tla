--------------------------- MODULE RamBootProofs ---------------------------
(***************************************************************************)
(* What holds of the page's RAM boot, for any boards, calls, bundles,      *)
(* transports, profiles and clicks and any number of artifacts.  Of Rcm:   *)
(* type correctness; that a handoff starts one second stage; and to which  *)
(* boards artifacts go: boards of the bundle's product ID, the board of    *)
(* the first stage if it has a USB serial, and for the second stage only   *)
(* one in MB1.  Of RamBoot: type correctness of page and transport         *)
(* together; that profile, device, bundle, transport and handoff are of    *)
(* one attempt; and that a boot the page calls complete has loaded every   *)
(* artifact.                                                               *)
(***************************************************************************)
EXTENDS RamBoot, TLAPS

-----------------------------------------------------------------------------
(* The transport *)

Active == {"authorizing", "opening", "claiming", "reading", "pausing", "sending"}

\* A call under way has artifacts left to send.
SentInv == \A c \in Calls : call[c].at \in Active => call[c].sent < LastArtifact(c)

TypeInv == RcmTypeOK /\ SentInv

\* Only a bootrom() call that has returned has a handoff.
LeftInv ==
    \A c \in Calls :
        handoff[c].phase # "none" => call[c].op = "bootrom" /\ call[c].at = "done"

\* A call that has begun is a record of CallStates.
LEMMA BegunType ==
    ASSUME RcmTypeOK, NEW c \in Calls, call[c].at # "idle"
    PROVE  call[c] \in CallStates
BY DEF RcmTypeOK, Idle

\* Replacing the record of one call.
LEMMA CallUpdate ==
    ASSUME RcmTypeOK, NEW c \in Calls, NEW r \in CallStates,
           call' = [call EXCEPT ![c] = r]
    PROVE  /\ call' \in [Calls -> CallStates \cup {Idle}]
           /\ call'[c] = r
           /\ \A e \in Calls : e # c => call'[e] = call[e]
BY DEF RcmTypeOK

\* A board that takes an artifact keeps its types.
LEMMA FeedType ==
    ASSUME RcmTypeOK, NEW c \in Calls, NEW b \in Boards, NEW k \in 1..ArtifactCount,
           Feed(c, b, k)
    PROVE  /\ stage' \in [Boards -> Stages]
           /\ got' \in [Boards -> 0..ArtifactCount]
           /\ fed' \subseteq Feeds
<1>1. stage' \in [Boards -> Stages]
  BY DEF RcmTypeOK, Feed, Stages
<1>2. got' \in [Boards -> 0..ArtifactCount]
  BY RcmAssumption DEF RcmTypeOK, Feed
<1>3. [call |-> c, board |-> b, artifact |-> k,
       to |-> IF call[c].cycled THEN "cycled" ELSE stage[b]] \in Feeds
  BY DEF RcmTypeOK, Feeds
<1> QED
  BY <1>1, <1>2, <1>3 DEF Feed, RcmTypeOK

\* The transport starts with every variable in its type and no call under way.
LEMMA TypeInit == RcmInit => TypeInv
<1> SUFFICES ASSUME RcmInit PROVE TypeInv
  OBVIOUS
<1>1. stage \in [Boards -> Stages]
  BY DEF RcmInit, Stages
<1>2. got \in [Boards -> 0..ArtifactCount]
  BY RcmAssumption DEF RcmInit
<1>3. object \in [Boards -> 1..Objects]
  BY RcmAssumption DEF RcmInit
<1>4. resets \in 0..Resets
  BY RcmAssumption DEF RcmInit
<1>5. handoff \in [Calls -> [phase: Phases, device: Devices \cup {None}]]
  BY DEF RcmInit, Phases
<1>6. SentInv
  BY DEF RcmInit, SentInv, Idle, Active
<1>7. call \in [Calls -> CallStates \cup {Idle}]
  BY DEF RcmInit
<1>8. \A h \in Calls : handoff[h].device # None <=> handoff[h].phase = "granted"
  BY DEF RcmInit
<1> QED
  BY <1>1, <1>2, <1>3, <1>4, <1>5, <1>6, <1>7, <1>8 DEF TypeInv, RcmTypeOK, RcmInit

\* The record with which a call begins.
LEMMA StartedType ==
    ASSUME NEW op \in {"bootrom", "bootloader"}, NEW r \in Transports,
           NEW d \in Devices, NEW b \in Bundles, NEW h \in Calls \cup {None},
           NEW k \in 0..ArtifactCount
    PROVE  Started(op, r, d, b, h, k) \in CallStates
BY DEF Started, CallStates, Places

\* A step that replaces the record of one call by one that has artifacts left
\* to send, if it is under way, keeps the types of all calls.
LEMMA CallStepType ==
    ASSUME TypeInv, NEW c \in Calls, NEW r \in CallStates,
           call' = [call EXCEPT ![c] = r],
           r.at \in Active =>
               r.sent < (IF r.op = "bootrom" THEN BootromCount ELSE ArtifactCount)
    PROVE  call' \in [Calls -> CallStates \cup {Idle}] /\ SentInv'
<1>1. /\ call' \in [Calls -> CallStates \cup {Idle}]
      /\ call'[c] = r
      /\ \A e \in Calls : e # c => call'[e] = call[e]
  BY CallUpdate DEF TypeInv
<1>2. SentInv'
  BY <1>1 DEF TypeInv, SentInv, LastArtifact
<1> QED
  BY <1>1, <1>2

\* Going on to another await.
LEMMA GoesType ==
    ASSUME TypeInv, NEW c \in Calls, call[c].at \in Active,
           NEW at \in Places \ {"idle"}, Goes(c, at)
    PROVE  call' \in [Calls -> CallStates \cup {Idle}] /\ SentInv'
<1> DEFINE r == [call[c] EXCEPT !.at = at]
<1>1. call[c] \in CallStates
  BY BegunType DEF TypeInv, Active
<1>2. r \in CallStates /\ r.op = call[c].op /\ r.sent = call[c].sent
  BY <1>1 DEF CallStates
<1>3. call[c].sent < LastArtifact(c)
  BY DEF TypeInv, SentInv
<1>4. call' = [call EXCEPT ![c] = r]
  BY DEF Goes
<1> QED
  BY <1>2, <1>3, <1>4, CallStepType DEF LastArtifact

\* Reading the UID or the banner.
LEMMA ReadType ==
    ASSUME TypeInv, NEW c \in Calls, call[c].at \in Active,
           NEW at \in Places \ {"idle"},
           call' = [call EXCEPT ![c].at = at, ![c].read = TRUE]
    PROVE  call' \in [Calls -> CallStates \cup {Idle}] /\ SentInv'
<1> DEFINE r == [call[c] EXCEPT !.at = at, !.read = TRUE]
<1>1. call[c] \in CallStates
  BY BegunType DEF TypeInv, Active
<1>2. r \in CallStates /\ r.op = call[c].op /\ r.sent = call[c].sent
  BY <1>1 DEF CallStates
<1>3. call[c].sent < LastArtifact(c)
  BY DEF TypeInv, SentInv
<1>4. call' = [call EXCEPT ![c] = r]
  OBVIOUS
<1> QED
  BY <1>2, <1>3, <1>4, CallStepType DEF LastArtifact

\* Settling.
LEMMA EndsType ==
    ASSUME TypeInv, NEW c \in Calls, call[c].at # "idle",
           NEW result \in {"ok", "error", "notFound"}, Ends(c, result)
    PROVE  call' \in [Calls -> CallStates \cup {Idle}] /\ SentInv'
<1> DEFINE r == [call[c] EXCEPT !.at = "done", !.result = result, !.read = FALSE,
                               !.sent = 0, !.cycled = FALSE]
<1>1. call[c] \in CallStates
  BY BegunType DEF TypeInv
<1>2. 0 \in 0..ArtifactCount
  BY RcmAssumption
<1>3. r \in CallStates /\ r.at = "done"
  BY <1>1, <1>2 DEF CallStates, Places
<1>4. call' = [call EXCEPT ![c] = r]
  BY DEF Ends
<1> QED
  BY <1>3, <1>4, CallStepType DEF Active

\* The artifact that a sending call is about to send is one of its set.
LEMMA NextArtifact ==
    ASSUME TypeInv, NEW c \in Calls, call[c].at \in Active
    PROVE  /\ call[c].sent \in Nat
           /\ call[c].sent + 1 \in 1..LastArtifact(c)
           /\ call[c].sent + 1 \in 1..ArtifactCount
<1>1. call[c] \in CallStates
  BY BegunType DEF TypeInv, Active
<1>2. call[c].sent \in 0..ArtifactCount /\ call[c].sent < LastArtifact(c)
  BY <1>1 DEF TypeInv, SentInv, CallStates
<1> QED
  BY <1>2, RcmAssumption DEF LastArtifact

\* A board that leaves the bus and comes back keeps the types of the bus.
LEMMA ReattachType ==
    ASSUME RcmTypeOK, NEW b \in Boards, NEW new \in Stages, Reattach(b, new)
    PROVE  /\ stage' \in [Boards -> Stages]
           /\ object' \in [Boards -> 1..Objects]
           /\ granted' \subseteq Devices
           /\ opened' \subseteq Devices
           /\ opening' \subseteq Devices
<1>1. stage' \in [Boards -> Stages] /\ opened' \subseteq Devices
        /\ opening' \subseteq Devices
  BY DEF RcmTypeOK, Reattach
<1>2. PICK n \in {object[b], object[b] + 1} \cap (1..Objects) :
        /\ object' = [object EXCEPT ![b] = n]
        /\ \E kept \in SUBSET {[board |-> b, object |-> n]} :
              granted' = {d \in granted : d.board # b} \cup kept
  BY DEF Reattach
<1>3. object' \in [Boards -> 1..Objects]
  BY <1>2 DEF RcmTypeOK
<1>4. [board |-> b, object |-> n] \in Devices
  BY <1>2 DEF Devices
<1>5. granted' \subseteq Devices
  BY <1>2, <1>4 DEF RcmTypeOK
<1> QED
  BY <1>1, <1>3, <1>5


\* Every step keeps the types.
LEMMA TypeStep == TypeInv /\ LeftInv /\ [RcmNext]_rcmVars => TypeInv'
<1> SUFFICES ASSUME TypeInv, LeftInv, [RcmNext]_rcmVars PROVE TypeInv'
  OBVIOUS
<1> USE DEF TypeInv
<1>1. ASSUME NEW d \in Devices, RequestDevice(d) PROVE TypeInv'
  BY <1>1 DEF RequestDevice, Grant, RcmTypeOK, SentInv, LastArtifact
<1>2. ASSUME NEW c \in Calls, NEW r \in Transports, NEW b \in Bundles, NEW d \in granted,
             StartBootrom(c, r, d, b)
      PROVE  TypeInv'
  <2>1. d \in Devices /\ 0 \in 0..ArtifactCount
    BY RcmAssumption DEF RcmTypeOK
  <2> DEFINE s == Started("bootrom", r, d, b, None, 0)
  <2>2. s \in CallStates
    BY <2>1, StartedType
  <2>3. s.op = "bootrom" /\ s.sent = 0 /\ 0 < BootromCount
    BY RcmAssumption DEF Started
  <2>4. call' = [call EXCEPT ![c] = s]
    BY <1>2 DEF StartBootrom, BootromCall
  <2>5. call' \in [Calls -> CallStates \cup {Idle}] /\ SentInv'
    BY <2>2, <2>3, <2>4, CallStepType
  <2> QED
    BY <1>2, <2>5 DEF StartBootrom, usb, RcmTypeOK
<1>3. ASSUME NEW c \in Calls, NEW h \in Calls, NEW r \in Transports,
             NEW b \in Bundles, NEW d \in Devices, StartBootloader(c, r, d, b, h)
      PROVE  TypeInv'
  <2> DEFINE s == Started("bootloader", r, d, b, h, BootromCount)
  <2>1. BootromCount \in 0..ArtifactCount
    BY RcmAssumption
  <2>2. s \in CallStates
    BY <2>1, StartedType
  <2>3. s.op = "bootloader" /\ s.sent = BootromCount /\ BootromCount < ArtifactCount
    BY RcmAssumption DEF Started
  <2>4. call' = [call EXCEPT ![c] = s]
    BY <1>3 DEF StartBootloader
  <2>5. call' \in [Calls -> CallStates \cup {Idle}] /\ SentInv'
    BY <2>2, <2>3, <2>4, CallStepType
  <2>6. handoff' \in [Calls -> [phase: Phases, device: Devices \cup {None}]]
    BY <1>3 DEF StartBootloader, RcmTypeOK, Phases
  <2>7. \A e \in Calls : handoff'[e].device # None <=> handoff'[e].phase = "granted"
    BY <1>3 DEF StartBootloader, RcmTypeOK
  <2> QED
    BY <1>3, <2>5, <2>6, <2>7 DEF StartBootloader, usb, RcmTypeOK
<1>4. ASSUME NEW r \in Transports, NEW h \in Calls, StartChooser(r, h) PROVE TypeInv'
  <2>1. handoff' \in [Calls -> [phase: Phases, device: Devices \cup {None}]]
    BY <1>4 DEF StartChooser, RcmTypeOK, Phases
  <2>2. \A e \in Calls : handoff'[e].device # None <=> handoff'[e].phase = "granted"
    BY <1>4 DEF StartChooser, RcmTypeOK
  <2> QED
    BY <1>4, <2>1, <2>2 DEF StartChooser, usb, RcmTypeOK, SentInv, LastArtifact
<1>5. ASSUME NEW h \in Calls, NEW d \in Devices, ChooserPicks(h, d) PROVE TypeInv'
  <2>1. handoff' \in [Calls -> [phase: Phases, device: Devices \cup {None}]]
    BY <1>5 DEF ChooserPicks, RcmTypeOK, Phases
  <2>2. \A e \in Calls : handoff'[e].device # None <=> handoff'[e].phase = "granted"
    BY <1>5, RcmAssumption DEF ChooserPicks, RcmTypeOK
  <2> QED
    BY <1>5, <2>1, <2>2 DEF ChooserPicks, Grant, RcmTypeOK, SentInv, LastArtifact
<1>6. ASSUME NEW h \in Calls, ChooserCloses(h) PROVE TypeInv'
  <2>1. handoff' \in [Calls -> [phase: Phases, device: Devices \cup {None}]]
    BY <1>6 DEF ChooserCloses, RcmTypeOK, Phases
  <2>2. \A e \in Calls : handoff'[e].device # None <=> handoff'[e].phase = "granted"
    BY <1>6 DEF ChooserCloses, RcmTypeOK
  <2> QED
    BY <1>6, <2>1, <2>2 DEF ChooserCloses, usb, RcmTypeOK, SentInv, LastArtifact
<1>7. ASSUME NEW c \in Calls, CallSteps(c) PROVE TypeInv'
  <2>1. CASE Select(c)
    <3>1. call' \in [Calls -> CallStates \cup {Idle}] /\ SentInv'
      BY <2>1, GoesType DEF Select, Active, Places
    <3> QED
      BY <2>1, <3>1 DEF Select, usb, RcmTypeOK
  <2>2. CASE Open(c)
    <3>1. call' \in [Calls -> CallStates \cup {Idle}] /\ SentInv'
      BY <2>2, GoesType DEF Open, Active, Places
    <3> QED
      BY <2>2, <3>1 DEF Open, RcmTypeOK
  <2>3. CASE Claim(c)
    <3>1. call' \in [Calls -> CallStates \cup {Idle}] /\ SentInv'
      <4> DEFINE at == IF call[c].read THEN "sending" ELSE "reading"
      <4>1. at \in Places \ {"idle"} /\ call[c].at \in Active
        BY <2>3 DEF Claim, Active, Places
      <4>2. Goes(c, at)
        BY <2>3 DEF Claim
      <4> HIDE DEF at
      <4> QED
        BY <4>1, <4>2, GoesType
    <3> QED
      BY <2>3, <3>1 DEF Claim, usb, RcmTypeOK
  <2>4. CASE ReadUid(c)
    <3>1. call' \in [Calls -> CallStates \cup {Idle}] /\ SentInv'
      <4>1. "sending" \in Places \ {"idle"} /\ call[c].at \in Active
        BY <2>4 DEF ReadUid, Active, Places
      <4>2. call' = [call EXCEPT ![c].at = "sending", ![c].read = TRUE]
        BY <2>4 DEF ReadUid
      <4> QED
        BY <4>1, <4>2, ReadType
    <3> QED
      BY <2>4, <3>1 DEF ReadUid, usb, RcmTypeOK
  <2>5. CASE ReadBanner(c)
    <3>1. call' \in [Calls -> CallStates \cup {Idle}] /\ SentInv'
      <4>1. "pausing" \in Places \ {"idle"} /\ call[c].at \in Active
        BY <2>5 DEF ReadBanner, Active, Places
      <4>2. call' = [call EXCEPT ![c].at = "pausing", ![c].read = TRUE]
        BY <2>5 DEF ReadBanner
      <4> QED
        BY <4>1, <4>2, ReadType
    <3> QED
      BY <2>5, <3>1 DEF ReadBanner, usb, RcmTypeOK
  <2>6. CASE Pause(c)
    <3>1. call' \in [Calls -> CallStates \cup {Idle}] /\ SentInv'
      BY <2>6, GoesType DEF Pause, Active, Places
    <3> QED
      BY <2>6, <3>1 DEF Pause, RcmTypeOK
  <2>7. CASE Send(c)
    <3> DEFINE k == call[c].sent + 1
               at == IF k = LastArtifact(c) THEN "closing" ELSE call[c].at
               r == [call[c] EXCEPT !.sent = k, !.at = at]
    <3>1. call[c].at \in Active /\ call[c].at = "sending"
      BY <2>7 DEF Send, Active
    <3>2. call[c] \in CallStates
      BY <3>1, BegunType DEF Active
    <3>3. k \in 1..LastArtifact(c) /\ k \in 1..ArtifactCount
      BY <3>1, NextArtifact
    <3>4. at \in Places \ {"idle"} /\ k \in 0..ArtifactCount
      BY <3>1, <3>3, RcmAssumption DEF Places
    <3>5. r \in CallStates /\ r.op = call[c].op /\ r.sent = k /\ r.at = at
      BY <3>2, <3>4 DEF CallStates
    <3>6. at \in Active => k < LastArtifact(c)
      BY <3>3, RcmAssumption DEF Active, LastArtifact
    <3>7. call' = [call EXCEPT ![c] = r]
      BY <2>7 DEF Send
    <3>8. call' \in [Calls -> CallStates \cup {Idle}] /\ SentInv'
      BY <3>5, <3>6, <3>7, CallStepType DEF LastArtifact
    <3>9. call[c].device.board \in Boards
      BY <3>2 DEF CallStates, Devices
    <3>10. /\ stage' \in [Boards -> Stages]
           /\ got' \in [Boards -> 0..ArtifactCount]
           /\ fed' \subseteq Feeds
      BY <2>7, <3>3, <3>9, FeedType DEF Send
    <3> QED
      BY <2>7, <3>8, <3>10 DEF Send, RcmTypeOK
  <2>8. CASE Finish(c)
    <3>1. call' \in [Calls -> CallStates \cup {Idle}] /\ SentInv'
      BY <2>8, EndsType DEF Finish
    <3>2. /\ handoff' \in [Calls -> [phase: Phases, device: Devices \cup {None}]]
          /\ \A e \in Calls : handoff'[e].device # None <=> handoff'[e].phase = "granted"
      <4>1. handoff[c] \in [phase: Phases, device: Devices \cup {None}]
              /\ handoff[c].phase = "none"
        BY <2>8 DEF Finish, LeftInv, RcmTypeOK
      <4>2. handoff[c].device = None
        BY <4>1 DEF RcmTypeOK
      <4>3. [handoff[c] EXCEPT !.phase = "awaitingGrant"]
              = [phase |-> "awaitingGrant", device |-> None]
        BY <4>1, <4>2
      <4>4. handoff' = handoff
              \/ handoff' = [handoff EXCEPT ![c] =
                                [phase |-> "awaitingGrant", device |-> None]]
        BY <2>8, <4>3 DEF Finish
      <4> QED
        BY <4>4 DEF RcmTypeOK, Phases
    <3> QED
      BY <2>8, <3>1, <3>2 DEF Finish, RcmTypeOK
  <2>9. ASSUME NEW result \in {"error", "notFound"}, Fails(c, result) PROVE TypeInv'
    <3>1. call[c].at # "idle"
      BY <2>9 DEF Fails
    <3>2. call' \in [Calls -> CallStates \cup {Idle}] /\ SentInv'
      BY <2>9, <3>1, EndsType DEF Fails
    <3>3. call[c].device \in Devices /\ call[c].device.board \in Boards
      BY <3>1, BegunType DEF CallStates, Devices
    <3>4. /\ stage' \in [Boards -> Stages]
          /\ got' \in [Boards -> 0..ArtifactCount]
          /\ fed' \subseteq Feeds
      <4>1. CASE UNCHANGED <<stage, got, fed>>
        BY <4>1 DEF RcmTypeOK
      <4>2. CASE call[c].at = "sending" /\ Feed(c, call[c].device.board, call[c].sent + 1)
        <5>1. call[c].sent + 1 \in 1..ArtifactCount
          BY <4>2, NextArtifact DEF Active
        <5> QED
          BY <3>3, <4>2, <5>1, FeedType
      <4> QED
        BY <2>9, <4>1, <4>2 DEF Fails
    <3>5. opened' \subseteq Devices /\ opening' \subseteq Devices
      BY <2>9, <3>3 DEF Fails, RcmTypeOK
    <3> QED
      BY <2>9, <3>2, <3>4, <3>5 DEF Fails, RcmTypeOK
  <2> QED
    BY <1>7, <2>1, <2>2, <2>3, <2>4, <2>5, <2>6, <2>7, <2>8, <2>9 DEF CallSteps
<1>8. ASSUME NEW b \in Boards, EntersMb1(b) PROVE TypeInv'
  BY <1>8, ReattachType DEF EntersMb1, RcmTypeOK, Stages, SentInv, LastArtifact
<1>9. ASSUME NEW b \in Boards, BootsRecovery(b) PROVE TypeInv'
  BY <1>9 DEF BootsRecovery, RcmTypeOK, Stages, SentInv, LastArtifact
<1>10. ASSUME NEW b \in Boards, Reset(b) PROVE TypeInv'
  <2>1. \A c \in Calls : call[c].at \notin {"idle", "done"} => call[c] \in CallStates
    BY BegunType
  <2>2. \A c \in Calls :
          /\ call'[c] \in CallStates \cup {Idle}
          /\ call'[c].at = call[c].at /\ call'[c].sent = call[c].sent
          /\ call'[c].op = call[c].op
    <3> TAKE c \in Calls
    <3>1. CASE call[c].at \notin {"idle", "done"} /\ call[c].device.board = b
      <4>1. call[c] \in CallStates /\ call'[c] = [call[c] EXCEPT !.cycled = TRUE]
        BY <1>10, <2>1, <3>1 DEF Reset
      <4> QED
        BY <4>1 DEF CallStates
    <3>2. CASE ~(call[c].at \notin {"idle", "done"} /\ call[c].device.board = b)
      <4>1. call'[c] = call[c] /\ call[c] \in CallStates \cup {Idle}
        BY <1>10, <3>2 DEF Reset, RcmTypeOK
      <4> QED
        BY <4>1
    <3> QED
      BY <3>1, <3>2
  <2>3. call' \in [Calls -> CallStates \cup {Idle}]
    BY <1>10, <2>2 DEF Reset
  <2>4. SentInv'
    BY <2>2 DEF SentInv, LastArtifact
  <2>5. /\ stage' \in [Boards -> Stages]
        /\ object' \in [Boards -> 1..Objects]
        /\ granted' \subseteq Devices /\ opened' \subseteq Devices
        /\ opening' \subseteq Devices
    BY <1>10, ReattachType DEF Reset, Stages
  <2>6. got' \in [Boards -> 0..ArtifactCount] /\ resets' \in 0..Resets
    BY <1>10, RcmAssumption DEF Reset, RcmTypeOK
  <2> QED
    BY <1>10, <2>3, <2>4, <2>5, <2>6 DEF Reset, RcmTypeOK
<1>11. ASSUME NEW d \in Devices, LateOpen(d) PROVE TypeInv'
  BY <1>11 DEF LateOpen, RcmTypeOK, SentInv, LastArtifact
<1>12. CASE UNCHANGED rcmVars
  BY <1>12 DEF rcmVars, usb, RcmTypeOK, SentInv, LastArtifact
<1> QED
  BY <1>1, <1>2, <1>3, <1>4, <1>5, <1>6, <1>7, <1>8, <1>9, <1>10, <1>11, <1>12
     DEF RcmNext, Bus

\* A handoff stays with the finished bootrom() call that made it.
LEMMA LeftStep == TypeInv /\ LeftInv /\ [RcmNext]_rcmVars => LeftInv'
<1> SUFFICES ASSUME TypeInv, LeftInv, [RcmNext]_rcmVars PROVE LeftInv'
  OBVIOUS
<1> USE DEF TypeInv, LeftInv
<1>0. /\ call \in [Calls -> CallStates \cup {Idle}]
      /\ handoff \in [Calls -> [phase: Phases, device: Devices \cup {None}]]
  BY DEF RcmTypeOK
<1>1. CASE UNCHANGED <<call, handoff>>
  BY <1>1
<1>2. ASSUME NEW c \in Calls, call[c].at # "done", UNCHANGED handoff,
             \A e \in Calls : e # c => call'[e] = call[e]
      PROVE  LeftInv'
  BY <1>2
<1>3. ASSUME NEW c \in Calls, NEW r \in Transports, NEW b \in Bundles, NEW d \in granted,
             StartBootrom(c, r, d, b)
      PROVE  LeftInv'
  BY <1>0, <1>2, <1>3 DEF StartBootrom, BootromCall
<1>4. ASSUME NEW c \in Calls, NEW h \in Calls, NEW r \in Transports,
             NEW b \in Bundles, NEW d \in Devices, StartBootloader(c, r, d, b, h)
      PROVE  LeftInv'
  <2>1. c # h
    BY <1>0, <1>4 DEF StartBootloader, Acceptable
  <2> QED
    BY <1>0, <1>4, <2>1 DEF StartBootloader, Acceptable
<1>5. ASSUME NEW h \in Calls,
             \/ \E r \in Transports : StartChooser(r, h)
             \/ \E d \in Devices : ChooserPicks(h, d)
             \/ ChooserCloses(h)
      PROVE  LeftInv'
  BY <1>0, <1>5 DEF StartChooser, ChooserPicks, ChooserCloses
<1>6. ASSUME NEW c \in Calls, CallSteps(c) PROVE LeftInv'
  <2>1. CASE Select(c) \/ Open(c) \/ Claim(c) \/ ReadUid(c) \/ ReadBanner(c)
               \/ Pause(c) \/ Send(c)
    BY <1>0, <1>2, <2>1
       DEF Select, Open, Claim, ReadUid, ReadBanner, Pause, Send, Goes
  <2>2. CASE Finish(c)
    <3>1. call[c] \in CallStates
      BY <2>2, BegunType DEF Finish
    <3>2. call'[c].op = call[c].op /\ call'[c].at = "done"
            /\ \A e \in Calls : e # c => call'[e] = call[e]
      BY <1>0, <2>2, <3>1 DEF Finish, Ends, CallStates
    <3> QED
      BY <1>0, <2>2, <3>2 DEF Finish
  <2>3. ASSUME NEW result \in {"error", "notFound"}, Fails(c, result) PROVE LeftInv'
    BY <1>0, <1>2, <2>3 DEF Fails, Ends
  <2> QED
    BY <1>6, <2>1, <2>2, <2>3 DEF CallSteps
<1>7. ASSUME NEW b \in Boards, Reset(b) PROVE LeftInv'
  BY <1>0, <1>7 DEF Reset
<1> QED
  BY <1>1, <1>3, <1>4, <1>5, <1>6, <1>7
     DEF RcmNext, Bus, rcmVars, RequestDevice, EntersMb1, BootsRecovery, LateOpen

\* At the start there is no handoff.
LEMMA LeftInit == RcmInit => LeftInv
BY DEF RcmInit, LeftInv

\* Every variable keeps its type, for any boards, calls and artifact counts;
\* in particular a handoff holds a device exactly while it is granted.
THEOREM RcmTypeCorrect == RcmSpec => []RcmTypeOK
<1>1. TypeInv => RcmTypeOK
  BY DEF TypeInv
<1> QED
  BY <1>1, TypeInit, LeftInit, TypeStep, LeftStep, PTL DEF RcmSpec

-----------------------------------------------------------------------------
\* What identifies a call stays as it began.
Same(c) == /\ call'[c].op = call[c].op
           /\ call'[c].rcm = call[c].rcm
           /\ call'[c].device = call[c].device
           /\ call'[c].bundle = call[c].bundle
           /\ call'[c].from = call[c].from

\* A step of a call that goes on keeps all that identifies it.
LEMMA StepKeeps ==
    ASSUME TypeInv, NEW c \in Calls, CallSteps(c)
    PROVE  /\ call[c] \in CallStates
           /\ call[c].at # "done"
           /\ Same(c)
           /\ \A e \in Calls : e # c => call'[e] = call[e]
<1>1. call[c].at \notin {"idle", "done"}
  BY DEF CallSteps, Select, Open, Claim, ReadUid, ReadBanner, Pause, Send, Finish, Fails
<1>2. call[c] \in CallStates
  BY <1>1, BegunType DEF TypeInv
<1>3. call \in [Calls -> CallStates \cup {Idle}]
  BY DEF TypeInv, RcmTypeOK
<1>4. CASE Select(c) \/ Open(c) \/ Claim(c) \/ Pause(c)
  BY <1>1, <1>2, <1>3, <1>4 DEF Select, Open, Claim, Pause, Goes, Same, CallStates
<1>5. CASE ReadUid(c) \/ ReadBanner(c)
  BY <1>1, <1>2, <1>3, <1>5 DEF ReadUid, ReadBanner, Same, CallStates
<1>6. CASE Send(c)
  BY <1>1, <1>2, <1>3, <1>6 DEF Send, Same, CallStates
<1>7. CASE Finish(c)
  BY <1>1, <1>2, <1>3, <1>7 DEF Finish, Ends, Same, CallStates
<1>8. CASE \E result \in {"error", "notFound"} : Fails(c, result)
  BY <1>1, <1>2, <1>3, <1>8 DEF Fails, Ends, Same, CallStates
<1> QED
  BY <1>4, <1>5, <1>6, <1>7, <1>8 DEF CallSteps

\* A reset only marks the calls on its board.
LEMMA ResetKeeps ==
    ASSUME TypeInv, NEW b \in Boards, Reset(b), NEW c \in Calls
    PROVE  /\ Same(c)
           /\ call'[c].at = call[c].at
           /\ call'[c].read = call[c].read
           /\ call'[c].sent = call[c].sent
           /\ call[c].cycled => call'[c].cycled
           /\ call[c].at \notin {"idle", "done"} /\ call[c].device.board = b =>
                call'[c].cycled
<1>1. CASE call[c].at \notin {"idle", "done"} /\ call[c].device.board = b
  <2>1. call[c] \in CallStates /\ call'[c] = [call[c] EXCEPT !.cycled = TRUE]
    BY <1>1, BegunType DEF Reset, TypeInv
  <2> QED
    BY <1>1, <2>1 DEF CallStates, Same
<1>2. CASE ~(call[c].at \notin {"idle", "done"} /\ call[c].device.board = b)
  <2>1. call'[c] = call[c] /\ call[c] \in CallStates \cup {Idle}
    BY <1>2 DEF Reset, TypeInv, RcmTypeOK
  <2> QED
    BY <1>2, <2>1 DEF Same
<1> QED
  BY <1>1, <1>2

\* A begun call keeps what identifies it, and a consumed handoff stays consumed.
LEMMA AllKeep ==
    ASSUME TypeInv, LeftInv, [RcmNext]_rcmVars
    PROVE  /\ \A c \in Calls : call[c].op # "none" => Same(c)
           /\ \A h \in Calls :
                handoff[h].phase = "consumed" => handoff'[h].phase = "consumed"
<1>0. /\ call \in [Calls -> CallStates \cup {Idle}]
      /\ handoff \in [Calls -> [phase: Phases, device: Devices \cup {None}]]
  BY DEF TypeInv, RcmTypeOK
<1> DEFINE Keep == /\ \A c \in Calls : call[c].op # "none" => Same(c)
                   /\ \A h \in Calls :
                        handoff[h].phase = "consumed" => handoff'[h].phase = "consumed"
<1>1. CASE UNCHANGED <<call, handoff>>
  BY <1>1 DEF Same
<1>2. ASSUME NEW c \in Calls, call[c].op = "none", UNCHANGED handoff,
             \A e \in Calls : e # c => call'[e] = call[e]
      PROVE  Keep
  BY <1>2 DEF Same
<1>3. ASSUME NEW c \in Calls, NEW r \in Transports, NEW b \in Bundles, NEW d \in granted,
             StartBootrom(c, r, d, b)
      PROVE  Keep
  BY <1>0, <1>2, <1>3 DEF StartBootrom, BootromCall
<1>4. ASSUME NEW c \in Calls, NEW h \in Calls, NEW r \in Transports,
             NEW b \in Bundles, NEW d \in Devices, StartBootloader(c, r, d, b, h)
      PROVE  Keep
  BY <1>0, <1>4 DEF StartBootloader, Same
<1>5. ASSUME NEW h \in Calls,
             \/ \E r \in Transports : StartChooser(r, h)
             \/ \E d \in Devices : ChooserPicks(h, d)
             \/ ChooserCloses(h)
      PROVE  Keep
  BY <1>0, <1>5 DEF StartChooser, ChooserPicks, ChooserCloses, Same
<1>6. ASSUME NEW c \in Calls, CallSteps(c) PROVE Keep
  <2>1. \A e \in Calls : Same(e)
    BY <1>6, StepKeeps DEF Same
  <2>2. handoff[c].phase = "none"
    BY <1>0, <1>6, StepKeeps DEF LeftInv, Phases
  <2>3. handoff' = handoff \/ handoff' = [handoff EXCEPT ![c].phase = "awaitingGrant"]
    BY <1>6 DEF CallSteps, Select, Open, Claim, ReadUid, ReadBanner, Pause, Send,
                Finish, Fails
  <2> QED
    BY <1>0, <2>1, <2>2, <2>3
<1>7. ASSUME NEW b \in Boards, Reset(b) PROVE Keep
  BY <1>7, ResetKeeps DEF Reset
<1> QED
  BY <1>1, <1>3, <1>4, <1>5, <1>6, <1>7
     DEF RcmNext, Bus, rcmVars, RequestDevice, EntersMb1, BootsRecovery, LateOpen

\* A call of bootloader() begins only with StartBootloader.
LEMMA Begins ==
    ASSUME TypeInv, LeftInv, [RcmNext]_rcmVars, NEW c \in Calls, call[c].op = "none"
    PROVE  \/ call'[c] = call[c]
           \/ \E r \in Transports, b \in Bundles, d \in granted :
                StartBootrom(c, r, d, b) /\ call'[c] = Started("bootrom", r, d, b, None, 0)
           \/ \E h \in Calls, r \in Transports, b \in Bundles, d \in Devices :
                /\ StartBootloader(c, r, d, b, h)
                /\ call'[c] = Started("bootloader", r, d, b, h, BootromCount)
<1>0. call \in [Calls -> CallStates \cup {Idle}] /\ call[c] = Idle
  BY DEF TypeInv, RcmTypeOK, CallStates
<1>1. ASSUME NEW e \in Calls, NEW r \in Transports, NEW b \in Bundles, NEW d \in granted,
             StartBootrom(e, r, d, b)
      PROVE  \/ call'[c] = call[c]
             \/ e = c /\ call'[c] = Started("bootrom", r, d, b, None, 0)
  BY <1>0, <1>1 DEF StartBootrom, BootromCall
<1>2. ASSUME NEW e \in Calls, NEW h \in Calls, NEW r \in Transports,
             NEW b \in Bundles, NEW d \in Devices, StartBootloader(e, r, d, b, h)
      PROVE  \/ call'[c] = call[c]
             \/ e = c /\ call'[c] = Started("bootloader", r, d, b, h, BootromCount)
  BY <1>0, <1>2 DEF StartBootloader
<1>3. ASSUME NEW e \in Calls, CallSteps(e) PROVE call'[c] = call[c]
  <2>1. e # c
    BY <1>0, <1>3, StepKeeps DEF CallStates
  <2> QED
    BY <1>3, <2>1, StepKeeps
<1>4. ASSUME NEW b \in Boards, Reset(b) PROVE call'[c] = call[c]
  <2>1. call[c].at = "idle"
    BY <1>0 DEF Idle
  <2> QED
    BY <1>4, <2>1 DEF Reset
<1>5. CASE UNCHANGED call
  BY <1>5
<1> QED
  BY <1>1, <1>2, <1>3, <1>4, <1>5
     DEF RcmNext, Bus, rcmVars, RequestDevice, EntersMb1, BootsRecovery, LateOpen,
         StartChooser, ChooserPicks, ChooserCloses

\* Every handoff that a call of bootloader() has taken is consumed.
OnceInv ==
    /\ HandoffOnce
    /\ \A c \in Calls : call[c].op = "bootloader" =>
          call[c].from \in Calls /\ handoff[call[c].from].phase = "consumed"

\* At the start no call has taken a handoff.
LEMMA OnceInit == RcmInit => OnceInv
BY DEF RcmInit, OnceInv, HandoffOnce, Idle

\* A handoff is consumed in the step in which a call of bootloader() takes it.
LEMMA OnceStep == TypeInv /\ LeftInv /\ OnceInv /\ [RcmNext]_rcmVars => OnceInv'
<1> SUFFICES ASSUME TypeInv, LeftInv, OnceInv, [RcmNext]_rcmVars PROVE OnceInv'
  OBVIOUS
<1>1. \A c \in Calls : call[c].op # "none" => Same(c)
  BY AllKeep
<1>2. \A h \in Calls :
        handoff[h].phase = "consumed" => handoff'[h].phase = "consumed"
  BY AllKeep
<1>3. ASSUME NEW c \in Calls, call'[c].op = "bootloader", call[c].op = "none"
      PROVE  /\ call'[c].from \in Calls
             /\ handoff[call'[c].from].phase = "granted"
             /\ handoff'[call'[c].from].phase = "consumed"
             /\ \A e \in Calls : e # c => call'[e] = call[e]
  <2>1. PICK h \in Calls, r \in Transports, b \in Bundles, d \in Devices :
          /\ StartBootloader(c, r, d, b, h)
          /\ call'[c] = Started("bootloader", r, d, b, h, BootromCount)
    <3>1. \/ call'[c] = call[c]
          \/ \E r \in Transports, b \in Bundles, d \in granted :
               StartBootrom(c, r, d, b) /\ call'[c] = Started("bootrom", r, d, b, None, 0)
          \/ \E h \in Calls, r \in Transports, b \in Bundles, d \in Devices :
               /\ StartBootloader(c, r, d, b, h)
               /\ call'[c] = Started("bootloader", r, d, b, h, BootromCount)
      BY <1>3, Begins
    <3>2. call'[c] # call[c]
      BY <1>3
    <3>3. \A r, b, d : Started("bootrom", r, d, b, None, 0).op = "bootrom"
      BY DEF Started
    <3> QED
      BY <1>3, <3>1, <3>2, <3>3
  <2>2. call'[c].from = h /\ handoff[h].phase = "granted"
    BY <2>1 DEF Started, StartBootloader, Acceptable
  <2>3. handoff'[h].phase = "consumed"
    BY <2>1 DEF StartBootloader, TypeInv, RcmTypeOK
  <2>4. \A e \in Calls : e # c => call'[e] = call[e]
    BY <2>1 DEF StartBootloader, TypeInv, RcmTypeOK
  <2> QED
    BY <2>2, <2>3, <2>4
<1>4. \A c \in Calls : call'[c].op = "bootloader" /\ call[c].op # "none" =>
        /\ call[c].op = "bootloader"
        /\ call'[c].from = call[c].from
        /\ handoff[call[c].from].phase = "consumed"
  BY <1>1 DEF OnceInv, Same
<1>5. HandoffOnce'
  <2> SUFFICES ASSUME NEW c \in Calls, NEW e \in Calls,
                      call'[c].op = "bootloader", call'[e].op = "bootloader",
                      call'[c].from = call'[e].from, c # e
               PROVE  FALSE
    BY DEF HandoffOnce
  <2>1. CASE call[c].op = "none"
    BY <1>3, <1>4, <2>1
  <2>2. CASE call[e].op = "none"
    BY <1>3, <1>4, <2>2
  <2>3. CASE call[c].op # "none" /\ call[e].op # "none"
    BY <1>4, <2>3 DEF OnceInv, HandoffOnce
  <2> QED
    BY <2>1, <2>2, <2>3
<1>6. \A c \in Calls : call'[c].op = "bootloader" =>
        call'[c].from \in Calls /\ handoff'[call'[c].from].phase = "consumed"
  BY <1>2, <1>3, <1>4 DEF OnceInv
<1> QED
  BY <1>5, <1>6 DEF OnceInv

\* However many calls overlap, on however many boards, no handoff starts two
\* second stages.
THEOREM HandoffSafety == RcmSpec => []HandoffOnce
<1>1. OnceInv => HandoffOnce
  BY DEF OnceInv
<1> QED
  BY <1>1, TypeInit, LeftInit, OnceInit, TypeStep, LeftStep, OnceStep, PTL DEF RcmSpec

-----------------------------------------------------------------------------
(* The boards that take the artifacts *)

\* Every call fits its device to its bundle; a bootloader() call's device has
\* the serial of the first stage's; and artifacts go to the call's device.
PlaceInv ==
    /\ \A c \in Calls :
          call[c].op # "none" => Expected(call[c].device, call[c].bundle)
    /\ \A c \in Calls : call[c].op = "bootloader" =>
          /\ call[c].from \in Calls
          /\ call[call[c].from].op # "none"
          /\ SameSerial(call[c].device, Identity(call[call[c].from].device))
    /\ \A f \in fed :
          /\ call[f.call].op # "none"
          /\ f.board = call[f.call].device.board

\* A bootloader() call that has its banner is on a board past BootROM, unless
\* the board was reset meanwhile; it sends nothing before it has the banner.
Mb1Inv ==
    /\ \A c \in Calls :
          call[c].op = "bootloader" /\ call[c].at # "done" =>
             /\ call[c].at = "sending" => call[c].read
             /\ call[c].read =>
                  call[c].cycled \/ stage[call[c].device.board] # "bootrom"
    /\ StageTwoOnlyToMb1

\* A step adds to `fed` only what a call in "sending" sends next.
LEMMA FedStep ==
    ASSUME TypeInv, [RcmNext]_rcmVars, NEW f \in fed', f \notin fed
    PROVE  \E c \in Calls :
              /\ f.call = c
              /\ call[c].at = "sending"
              /\ f.board = call[c].device.board
              /\ f.artifact = call[c].sent + 1
              /\ stage[f.board] \in {"bootrom", "mb1"}
              /\ f.to = IF call[c].cycled THEN "cycled" ELSE stage[f.board]
<1> DEFINE New(c) == /\ f.call = c
                     /\ call[c].at = "sending"
                     /\ f.board = call[c].device.board
                     /\ f.artifact = call[c].sent + 1
                     /\ stage[f.board] \in {"bootrom", "mb1"}
                     /\ f.to = IF call[c].cycled THEN "cycled" ELSE stage[f.board]
<1>1. ASSUME NEW c \in Calls, call[c].at = "sending",
             Feed(c, call[c].device.board, call[c].sent + 1)
      PROVE  New(c)
  BY <1>1 DEF Feed
<1>2. ASSUME NEW c \in Calls, CallSteps(c) PROVE New(c)
  <2>1. Send(c) \/ \E result \in {"error", "notFound"} : Fails(c, result)
    BY <1>2 DEF CallSteps, Select, Open, Claim, ReadUid, ReadBanner, Pause, Finish, usb
  <2>2. call[c].at = "sending" /\ Feed(c, call[c].device.board, call[c].sent + 1)
    BY <2>1 DEF Send, Fails
  <2> QED
    BY <1>1, <2>2
<1>3. CASE UNCHANGED fed
  BY <1>3
<1> HIDE DEF New
<1>4. \E c \in Calls : New(c)
  BY <1>2, <1>3
     DEF RcmNext, Bus, rcmVars, usb, RequestDevice, Grant, StartBootrom, BootromCall,
         StartBootloader, StartChooser, ChooserPicks, ChooserCloses, EntersMb1,
         BootsRecovery, Reset, LateOpen
<1> QED
  BY <1>4 DEF New

\* A call that has begun changes only by its own steps and by resets.
LEMMA CallOnly ==
    ASSUME TypeInv, LeftInv, [RcmNext]_rcmVars, NEW c \in Calls, call[c].op # "none"
    PROVE  call'[c] = call[c] \/ CallSteps(c) \/ \E b \in Boards : Reset(b)
<1>1. call \in [Calls -> CallStates \cup {Idle}]
  BY DEF TypeInv, RcmTypeOK
<1>2. ASSUME NEW e \in Calls, NEW r \in Transports, NEW b \in Bundles, NEW d \in granted,
             StartBootrom(e, r, d, b)
      PROVE  call'[c] = call[c]
  BY <1>1, <1>2 DEF StartBootrom, BootromCall
<1>3. ASSUME NEW e \in Calls, NEW h \in Calls, NEW r \in Transports,
             NEW b \in Bundles, NEW d \in Devices, StartBootloader(e, r, d, b, h)
      PROVE  call'[c] = call[c]
  BY <1>1, <1>3 DEF StartBootloader
<1>4. ASSUME NEW e \in Calls, CallSteps(e) PROVE call'[c] = call[c] \/ e = c
  BY <1>4, StepKeeps
<1>5. CASE UNCHANGED call
  BY <1>5
<1> QED
  BY <1>2, <1>3, <1>4, <1>5
     DEF RcmNext, Bus, rcmVars, RequestDevice, EntersMb1, BootsRecovery, LateOpen,
         StartChooser, ChooserPicks, ChooserCloses

\* At the start no call has begun and no board has taken an artifact.
LEMMA PlaceInit == RcmInit => PlaceInv
BY DEF RcmInit, PlaceInv, Idle

\* A call that begins satisfies PlaceInv's parts on calls, one that goes on
\* keeps what they speak of.
LEMMA PlaceStep == TypeInv /\ LeftInv /\ PlaceInv /\ [RcmNext]_rcmVars => PlaceInv'
<1> SUFFICES ASSUME TypeInv, LeftInv, PlaceInv, [RcmNext]_rcmVars PROVE PlaceInv'
  OBVIOUS
<1>1. \A c \in Calls : call[c].op # "none" => Same(c)
  BY AllKeep
<1>2. ASSUME NEW c \in Calls, call[c].op = "none", call'[c].op # "none"
      PROVE  /\ Expected(call'[c].device, call'[c].bundle)
             /\ call'[c].op = "bootloader" =>
                  /\ call'[c].from \in Calls
                  /\ call[call'[c].from].op # "none"
                  /\ SameSerial(call'[c].device,
                                Identity(call[call'[c].from].device))
  <2>1. \/ call'[c] = call[c]
        \/ \E r \in Transports, b \in Bundles, d \in granted :
             StartBootrom(c, r, d, b) /\ call'[c] = Started("bootrom", r, d, b, None, 0)
        \/ \E h \in Calls, r \in Transports, b \in Bundles, d \in Devices :
             /\ StartBootloader(c, r, d, b, h)
             /\ call'[c] = Started("bootloader", r, d, b, h, BootromCount)
    BY <1>2, Begins
  <2>2. ASSUME NEW r \in Transports, NEW b \in Bundles, NEW d \in granted,
               StartBootrom(c, r, d, b), call'[c] = Started("bootrom", r, d, b, None, 0)
        PROVE  /\ call'[c].op = "bootrom"
               /\ Expected(call'[c].device, call'[c].bundle)
    BY <2>2 DEF StartBootrom, BootromCall, Started
  <2>3. ASSUME NEW h \in Calls, NEW r \in Transports, NEW b \in Bundles,
               NEW d \in Devices, StartBootloader(c, r, d, b, h),
               call'[c] = Started("bootloader", r, d, b, h, BootromCount)
        PROVE  /\ Expected(call'[c].device, call'[c].bundle)
               /\ call'[c].from \in Calls
               /\ call[call'[c].from].op # "none"
               /\ SameSerial(call'[c].device, Identity(call[call'[c].from].device))
    <3>1. call'[c].from = h /\ call'[c].device = d /\ call'[c].bundle = b
      BY <2>3 DEF Started
    <3>2. /\ Expected(d, b) /\ SameSerial(d, Identity(call[h].device))
          /\ handoff[h].phase = "granted"
      BY <2>3 DEF StartBootloader, Acceptable
    <3> QED
      BY <3>1, <3>2 DEF LeftInv
  <2> QED
    BY <1>2, <2>1, <2>2, <2>3
<1>3. \A c \in Calls :
        call'[c].op # "none" => Expected(call'[c].device, call'[c].bundle)
  BY <1>1, <1>2 DEF PlaceInv, Same
<1>4. ASSUME NEW c \in Calls, call'[c].op = "bootloader"
      PROVE  /\ call'[c].from \in Calls
             /\ call'[call'[c].from].op # "none"
             /\ SameSerial(call'[c].device, Identity(call'[call'[c].from].device))
  <2>1. /\ call'[c].from \in Calls
        /\ call[call'[c].from].op # "none"
        /\ SameSerial(call'[c].device, Identity(call[call'[c].from].device))
    BY <1>1, <1>2, <1>4 DEF PlaceInv, Same
  <2>2. Same(call'[c].from)
    BY <1>1, <2>1
  <2> QED
    BY <2>1, <2>2 DEF Same
<1>5. ASSUME NEW f \in fed'
      PROVE  call'[f.call].op # "none" /\ f.board = call'[f.call].device.board
  <2>1. /\ f.call \in Calls /\ call[f.call].op # "none"
        /\ f.board = call[f.call].device.board
    <3>1. CASE f \in fed
      BY <3>1 DEF PlaceInv, TypeInv, RcmTypeOK, Feeds
    <3>2. CASE f \notin fed
      <4>1. PICK c \in Calls : /\ f.call = c /\ call[c].at = "sending"
                               /\ f.board = call[c].device.board
        BY <1>5, <3>2, FedStep
      <4>2. call[c].op # "none"
        BY <4>1, BegunType DEF TypeInv, CallStates
      <4> QED
        BY <4>1, <4>2
    <3> QED
      BY <3>1, <3>2
  <2> QED
    BY <1>1, <2>1 DEF Same
<1> QED
  BY <1>3, <1>4, <1>5 DEF PlaceInv, Expected, SameSerial, Identity

\* No board takes an artifact signed for another product ID.
THEOREM ArtifactSafety == RcmSpec => []ArtifactsFitBoard
<1>1. TypeInv /\ PlaceInv => ArtifactsFitBoard
  BY DEF TypeInv, RcmTypeOK, Feeds, PlaceInv, ArtifactsFitBoard, Expected
<1> QED
  BY <1>1, TypeInit, LeftInit, PlaceInit, TypeStep, LeftStep, PlaceStep, PTL
     DEF RcmSpec

\* A board with a USB serial that took the first stage takes the second: from
\* the comparison of the handoff's serial, and since a serial is of one board.
THEOREM SameBoardSafety == RcmSpec => []StageTwoSameBoard
<1>1. ASSUME TypeInv, PlaceInv, NEW f \in fed,
             Serial[FirstDevice(f.call).board] # NoSerial
      PROVE  f.board = FirstDevice(f.call).board
  <2>1. /\ f.call \in Calls /\ f.board \in Boards
        /\ call[f.call].op # "none" /\ f.board = call[f.call].device.board
    BY <1>1 DEF TypeInv, RcmTypeOK, Feeds, PlaceInv
  <2>2. CASE call[f.call].op # "bootloader"
    BY <2>1, <2>2 DEF FirstDevice
  <2>3. CASE call[f.call].op = "bootloader"
    <3> DEFINE first == call[call[f.call].from].device
    <3>1. /\ call[f.call].from \in Calls /\ call[call[f.call].from].op # "none"
          /\ SameSerial(call[f.call].device, Identity(first))
      BY <1>1, <2>1, <2>3 DEF PlaceInv
    <3>2. FirstDevice(f.call) = first
      BY <2>3 DEF FirstDevice
    <3>3. Serial[f.board] = Serial[first.board]
      BY <1>1, <2>1, <3>1, <3>2 DEF SameSerial, Identity
    <3>4. first.board \in Boards
      BY <1>1, <3>1 DEF TypeInv, RcmTypeOK, CallStates, Devices, Idle
    <3> QED
      BY <1>1, <2>1, <3>2, <3>3, <3>4, SerialAssumption
  <2> QED
    BY <2>2, <2>3
<1>2. TypeInv /\ PlaceInv => StageTwoSameBoard
  BY <1>1 DEF StageTwoSameBoard
<1> QED
  BY <1>2, TypeInit, LeftInit, PlaceInit, TypeStep, LeftStep, PlaceStep, PTL
     DEF RcmSpec

\* At the start no call waits for a banner.
LEMMA Mb1Init == RcmInit => Mb1Inv
BY DEF RcmInit, Mb1Inv, StageTwoOnlyToMb1, Idle

\* What a call does to itself: it has the banner only from a board in MB1.
LEMMA BannerStep ==
    ASSUME TypeInv, Mb1Inv, NEW c \in Calls, CallSteps(c),
           call[c].op = "bootloader", call'[c].at # "done"
    PROVE  /\ call[c].at # "done"
           /\ call'[c].cycled = call[c].cycled
           /\ call'[c].at = "sending" => call'[c].read
           /\ call'[c].read =>
                call[c].read \/ stage[call[c].device.board] # "bootrom"
<1>1. call[c] \in CallStates /\ call[c].at # "done"
  BY StepKeeps
<1>2. call \in [Calls -> CallStates \cup {Idle}]
  BY DEF TypeInv, RcmTypeOK
<1>3. call[c].at = "sending" => call[c].read
  BY <1>1 DEF Mb1Inv
<1>4. CASE Select(c) \/ Open(c) \/ Claim(c) \/ Pause(c)
  BY <1>1, <1>2, <1>4 DEF Select, Open, Claim, Pause, Goes, CallStates
<1>5. CASE ReadBanner(c)
  BY <1>1, <1>2, <1>5 DEF ReadBanner, CallStates
<1>6. CASE Send(c)
  BY <1>1, <1>2, <1>3, <1>6 DEF Send, CallStates
<1>7. CASE ReadUid(c)
  BY <1>7 DEF ReadUid
<1>8. CASE Finish(c) \/ \E result \in {"error", "notFound"} : Fails(c, result)
  <2>1. call'[c].at = "done"
    BY <1>1, <1>2, <1>8 DEF Finish, Fails, Ends, CallStates
  <2> QED
    BY <2>1
<1> QED
  BY <1>4, <1>5, <1>6, <1>7, <1>8 DEF CallSteps

\* Only a reset takes a board back to BootROM.
LEMMA StageStep ==
    ASSUME TypeInv, [RcmNext]_rcmVars, NEW b \in Boards,
           stage[b] # "bootrom", stage'[b] = "bootrom"
    PROVE  Reset(b)
<1>1. stage \in [Boards -> Stages]
  BY DEF TypeInv, RcmTypeOK
<1>2. ASSUME NEW c \in Calls, CallSteps(c) PROVE FALSE
  <2>1. ~UNCHANGED stage
    OBVIOUS
  <2>2. \E k : Feed(c, call[c].device.board, k)
    BY <1>2, <2>1 DEF CallSteps, Select, Open, Claim, ReadUid, ReadBanner, Pause,
       Send, Finish, Fails, usb
  <2> QED
    BY <1>1, <2>2 DEF Feed
<1>3. ASSUME NEW e \in Boards, EntersMb1(e) \/ BootsRecovery(e) PROVE FALSE
  BY <1>1, <1>3 DEF EntersMb1, BootsRecovery, Reattach
<1>4. ASSUME NEW e \in Boards, Reset(e) PROVE e = b
  BY <1>1, <1>4 DEF Reset, Reattach
<1>5. CASE UNCHANGED stage
  BY <1>5
<1> QED
  BY <1>2, <1>3, <1>4, <1>5
     DEF RcmNext, Bus, rcmVars, usb, RequestDevice, Grant, StartBootrom, BootromCall,
         StartBootloader, StartChooser, ChooserPicks, ChooserCloses, LateOpen

\* The banner comes from MB1, and a reset marks the calls on its board.
LEMMA Mb1Step == TypeInv /\ LeftInv /\ Mb1Inv /\ [RcmNext]_rcmVars => Mb1Inv'
<1> SUFFICES ASSUME TypeInv, LeftInv, Mb1Inv, [RcmNext]_rcmVars PROVE Mb1Inv'
  OBVIOUS
<1> DEFINE Ready(c) == /\ call[c].at = "sending" => call[c].read
                       /\ call[c].read =>
                            call[c].cycled \/ stage[call[c].device.board] # "bootrom"
<1>1. ASSUME NEW c \in Calls, call'[c].op = "bootloader", call'[c].at # "done"
      PROVE  Ready(c)'
  <2>1. CASE call[c].op = "none"
    <3>1. \/ call'[c] = call[c]
          \/ call'[c].at = "authorizing" /\ ~call'[c].read
      <4>1. \A op, r, b, d, h, n : /\ Started(op, r, d, b, h, n).at = "authorizing"
                                   /\ ~Started(op, r, d, b, h, n).read
        BY DEF Started
      <4>2. \/ call'[c] = call[c]
            \/ \E op, r, b, d, h, n : call'[c] = Started(op, r, d, b, h, n)
        BY <2>1, Begins
      <4> QED
        BY <4>1, <4>2
    <3> QED
      BY <1>1, <2>1, <3>1
  <2>2. CASE call[c].op # "none"
    <3>1. Same(c) /\ call[c].op = "bootloader" /\ call[c] \in CallStates
      BY <1>1, <2>2, AllKeep DEF Same, TypeInv, RcmTypeOK, Idle
    <3>2. /\ call[c].at # "done"
          /\ call[c].cycled => call'[c].cycled
          /\ call'[c].at = "sending" => call'[c].read
          /\ call'[c].read =>
               call[c].read \/ stage[call[c].device.board] # "bootrom"
      <4>1. CASE call'[c] = call[c]
        BY <1>1, <3>1, <4>1 DEF Mb1Inv
      <4>2. CASE CallSteps(c)
        BY <1>1, <3>1, <4>2, BannerStep
      <4>3. CASE \E b \in Boards : Reset(b)
        BY <1>1, <3>1, <4>3, ResetKeeps DEF Mb1Inv
      <4> QED
        BY <2>2, <4>1, <4>2, <4>3, CallOnly
    <3>3. CASE stage'[call[c].device.board] # "bootrom"
      BY <3>1, <3>2, <3>3 DEF Same
    <3>4. CASE stage'[call[c].device.board] = "bootrom"
      <4> DEFINE b == call[c].device.board
      <4>1. b \in Boards /\ call[c].at # "idle"
        BY <3>1 DEF CallStates, Devices, Places
      <4>2. call'[c].read => call[c].cycled \/ stage[b] # "bootrom"
        BY <3>1, <3>2 DEF Mb1Inv
      <4>3. CASE stage[b] # "bootrom"
        <5>1. Reset(b)
          BY <3>4, <4>1, <4>3, StageStep
        <5>2. call'[c].cycled
          BY <3>2, <4>1, <5>1, ResetKeeps
        <5> QED
          BY <3>2, <5>2
      <4> QED
        BY <3>2, <4>2, <4>3
    <3> QED
      BY <3>3, <3>4
  <2> QED
    BY <2>1, <2>2
<1>2. ASSUME NEW f \in fed', f.artifact > BootromCount
      PROVE  f.to \in {"mb1", "cycled"}
  <2>1. CASE f \in fed
    BY <1>2, <2>1 DEF Mb1Inv, StageTwoOnlyToMb1
  <2>2. CASE f \notin fed
    <3>1. PICK c \in Calls :
            /\ call[c].at = "sending"
            /\ f.board = call[c].device.board
            /\ f.artifact = call[c].sent + 1
            /\ stage[f.board] \in {"bootrom", "mb1"}
            /\ f.to = IF call[c].cycled THEN "cycled" ELSE stage[f.board]
      BY <1>2, <2>2, FedStep
    <3>2. call[c] \in CallStates /\ call[c].sent < LastArtifact(c)
      BY <3>1, BegunType DEF TypeInv, SentInv, Active
    <3>3. call[c].op = "bootloader"
      BY <1>2, <3>1, <3>2, RcmAssumption DEF LastArtifact, CallStates
    <3>4. call[c].cycled \/ stage[f.board] # "bootrom"
      BY <3>1, <3>3 DEF Mb1Inv
    <3> QED
      BY <3>1, <3>4
  <2> QED
    BY <2>1, <2>2
<1> QED
  BY <1>1, <1>2 DEF Mb1Inv, StageTwoOnlyToMb1

\* A board still in BootROM gets no artifact of the second stage: the call has
\* read the banner of MB1, which only a reset takes away again.
THEOREM Mb1Safety == RcmSpec => []StageTwoOnlyToMb1
<1>1. Mb1Inv => StageTwoOnlyToMb1
  BY DEF Mb1Inv
<1> QED
  BY <1>1, TypeInit, LeftInit, Mb1Init, TypeStep, LeftStep, Mb1Step, PTL DEF RcmSpec

-----------------------------------------------------------------------------
(* The page *)

BusInv == TypeInv /\ LeftInv

\* Where each handler stands, and what the call it awaits was given.
HandlerInv ==
    /\ awaiting = "download" => selected \in Profiles
    /\ busy = "prepare" => preparedBundle = None /\ made < Makes
    /\ busy = "prepare" /\ awaiting = "chooser" => selected = None /\ bootromDevice = None
    /\ busy = "boot" => clicks \in Calls /\ preparedBundle # None /\ rcm # None
    /\ busy = "boot" /\ awaiting = "chooser" /\ rcmHandoff = None => bootromDevice = None
    /\ awaiting = "grant" => rcmHandoff # None

\* The calls of the page are numbered by its clicks.
ClickInv ==
    /\ \A c \in Calls : c > clicks => call[c].op = "none"
    /\ busy = "boot" /\ awaiting # "transport" => call[clicks].op = "none"
    /\ awaiting = "transport" =>
        /\ call[clicks].op # "none"
        /\ call[clicks].bundle = preparedBundle
        /\ call[clicks].rcm = rcm
        /\ call[clicks].op = "bootrom" => bootromDevice = None /\ rcmHandoff = None
    /\ rcmHandoff # None => call[rcmHandoff].op # "none"

\* The types of the page's own variables.
OwnTypes ==
    /\ <<busy, awaiting>> \in {<<"none", "nothing">>,
          <<"prepare", "chooser">>, <<"prepare", "download">>,
          <<"boot", "chooser">>, <<"boot", "grant">>, <<"boot", "transport">>}
    /\ selected \in Profiles \cup {None}
    /\ bootromDevice \in Devices \cup {None}
    /\ preparedBundle \in Bundles \cup {None}
    /\ rcm \in Transports \cup {None}
    /\ rcmHandoff \in Calls \cup {None}
    /\ bootComplete \in BOOLEAN
    /\ clicks \in 0..Clicks
    /\ made \in 0..Makes

Own == OwnTypes /\ HandlerInv /\ ClickInv /\ OneAttempt

\* A call of bootrom() on a device that may or may not be granted, with a
\* grant or without.
LEMMA BootromType ==
    ASSUME BusInv, NEW c \in Calls, NEW r \in Transports, NEW d \in Devices,
           NEW b \in Bundles, BootromCall(c, r, d, b), UNCHANGED handoff,
           UNCHANGED usb \/ Grant(d)
    PROVE  /\ BusInv'
           /\ call'[c] = Started("bootrom", r, d, b, None, 0)
           /\ \A e \in Calls : e # c => call'[e] = call[e]
<1> DEFINE s == Started("bootrom", r, d, b, None, 0)
<1>1. s \in CallStates
  <2>1. 0 \in 0..ArtifactCount
    BY RcmAssumption
  <2> QED
    BY <2>1, StartedType
<1>2. s.op = "bootrom" /\ s.sent = 0 /\ 0 < BootromCount
  BY RcmAssumption DEF Started
<1>3. call' = [call EXCEPT ![c] = s]
  BY DEF BootromCall
<1>4. call' \in [Calls -> CallStates \cup {Idle}] /\ SentInv'
  BY <1>1, <1>2, <1>3, CallStepType DEF BusInv
<1>5. TypeInv'
  <2>1. CASE UNCHANGED usb
    BY <1>4, <2>1 DEF usb, BusInv, TypeInv, RcmTypeOK
  <2>2. CASE Grant(d)
    BY <1>4, <2>2 DEF Grant, BusInv, TypeInv, RcmTypeOK
  <2> QED
    BY <2>1, <2>2
<1>6. call'[c] = s /\ \A e \in Calls : e # c => call'[e] = call[e]
  BY <1>3 DEF BusInv, TypeInv, RcmTypeOK
<1>7. LeftInv'
  <2>1. call[c].op = "none"
    BY DEF BootromCall
  <2> QED
    BY <1>6, <2>1 DEF BusInv, LeftInv
<1> QED
  BY <1>5, <1>6, <1>7 DEF BusInv

\* A call of bootloader() that the page makes.
LEMMA BootloaderType ==
    ASSUME BusInv, NEW c \in Calls, NEW h \in Calls, NEW r \in Transports,
           NEW b \in Bundles, NEW d, StartBootloader(c, r, d, b, h)
    PROVE  /\ BusInv'
           /\ call'[c] = Started("bootloader", r, d, b, h, BootromCount)
           /\ \A e \in Calls : e # c => call'[e] = call[e]
<1>1. d \in Devices
  BY DEF StartBootloader, Acceptable, BusInv, TypeInv, RcmTypeOK
<1>2. RcmNext
  BY <1>1 DEF RcmNext
<1> QED
  BY <1>2, TypeStep, LeftStep DEF BusInv, TypeInv, RcmTypeOK, StartBootloader

\* Steps of the transport and of the bus begin no call.
LEMMA TransportKeeps ==
    ASSUME BusInv, Transport \/ Bus
    PROVE  BusInv' /\ \A c \in Calls : Same(c)
<1>1. RcmNext
  BY DEF Transport, RcmNext
<1>2. BusInv'
  BY <1>1, TypeStep, LeftStep DEF BusInv
<1>3. ASSUME NEW e \in Calls, CallSteps(e) PROVE \A c \in Calls : Same(c)
  BY <1>3, StepKeeps DEF BusInv, Same
<1>4. ASSUME NEW b \in Boards, Reset(b) PROVE \A c \in Calls : Same(c)
  BY <1>4, ResetKeeps DEF BusInv
<1>5. ASSUME UNCHANGED call PROVE \A c \in Calls : Same(c)
  BY <1>5 DEF Same
<1>6. \A c \in Calls : Same(c)
  BY <1>3, <1>4, <1>5 DEF Transport, Bus, EntersMb1, BootsRecovery, LateOpen
<1> QED
  BY <1>2, <1>6

\* At the start nothing is selected, prepared or called.
LEMMA OwnInit == BootInit => Own
<1> SUFFICES ASSUME BootInit PROVE Own
  OBVIOUS
<1>1. OwnTypes
  <2>1. 0 \in 0..Clicks /\ 0 \in 0..Makes
    BY RamBootAssumption, RcmAssumption
  <2>2. busy = "none" /\ awaiting = "nothing"
    BY DEF BootInit
  <2> QED
    BY <2>1, <2>2 DEF BootInit, OwnTypes
<1>2. HandlerInv /\ ClickInv /\ OneAttempt
  BY DEF BootInit, RcmInit, Idle, HandlerInv, ClickInv, OneAttempt,
         HandoffMatchesBundle, SelectionAgrees
<1> QED
  BY <1>1, <1>2 DEF Own

\* The page's operator and handlers, one by one.
LEMMA OwnStep ==
    ASSUME BusInv, Own, BootNext
    PROVE  BusInv' /\ Own'
<1> USE DEF Own
<1>0. /\ call \in [Calls -> CallStates \cup {Idle}]
      /\ None \notin Devices /\ None \notin Bundles
      /\ None \notin Calls /\ None \notin Transports
      /\ Clicks \in Nat /\ Calls = 1..Clicks /\ Transports = 1..Clicks
      /\ Makes \in Nat
      /\ clicks \in 0..Clicks /\ made \in 0..Makes
  BY RcmAssumption, RamBootAssumption DEF BusInv, TypeInv, RcmTypeOK, OwnTypes
<1>1. ASSUME UNCHANGED rcmVars PROVE BusInv'
  <2>1. [RcmNext]_rcmVars
    BY <1>1
  <2> QED
    BY <2>1, TypeStep, LeftStep DEF BusInv
<1>2. ASSUME RcmNext PROVE BusInv'
  BY <1>2, TypeStep, LeftStep DEF BusInv
<1>3. ASSUME NEW p \in Profiles \cup {None}, ChangeProfile(p) PROVE BusInv' /\ Own'
  <2>1. UNCHANGED rcmVars
    BY <1>3 DEF ChangeProfile
  <2>2. OwnTypes'
    BY <1>0, <1>3 DEF ChangeProfile, OwnTypes
  <2>3. HandlerInv' /\ ClickInv' /\ OneAttempt'
    BY <1>3, <2>1 DEF ChangeProfile, OwnTypes, HandlerInv, ClickInv, OneAttempt,
       HandoffMatchesBundle, SelectionAgrees, rcmVars
  <2> QED
    BY <1>1, <2>1, <2>2, <2>3
<1>4. CASE ClickPrepare \/ DetectCloses \/ Downloaded \/ DownloadFails
  <2>1. UNCHANGED rcmVars
    BY <1>4 DEF ClickPrepare, DetectCloses, Downloaded, DownloadFails
  <2>2. OwnTypes'
    BY <1>0, <1>4
       DEF ClickPrepare, DetectCloses, Downloaded, DownloadFails, Returns, Detecting,
           bundle, boot, OwnTypes, HandlerInv, Bundles
  <2>3. HandlerInv' /\ ClickInv' /\ OneAttempt'
    BY <1>0, <1>4, <2>1
       DEF ClickPrepare, DetectCloses, Downloaded, DownloadFails, Returns, Detecting,
           bundle, boot, rcmVars, OwnTypes, HandlerInv, ClickInv, OneAttempt,
           HandoffMatchesBundle, SelectionAgrees, Expected
  <2> QED
    BY <1>1, <2>1, <2>2, <2>3
<1>5. CASE ClickFirst
  <2>1. UNCHANGED rcmVars
    BY <1>5 DEF ClickFirst
  <2>2. OwnTypes'
    BY <1>0, <1>5 DEF ClickFirst, ClickBoot, bundle, OwnTypes
  <2>3. HandlerInv' /\ ClickInv' /\ OneAttempt'
    BY <1>0, <1>5, <2>1 DEF ClickFirst, ClickBoot, Continuing,
       bundle, rcmVars, OwnTypes, HandlerInv, ClickInv, OneAttempt,
       HandoffMatchesBundle, SelectionAgrees, Expected
  <2> QED
    BY <1>1, <2>1, <2>2, <2>3
<1>6. CASE ClickDetected
  <2>1. /\ clicks' \in Calls /\ rcm' \in Transports /\ call[clicks'].op = "none"
        /\ bootromDevice \in Devices /\ preparedBundle \in Bundles
    BY <1>0, <1>6 DEF ClickDetected, ClickBoot, OwnTypes, ClickInv
  <2>2. /\ BusInv'
        /\ call'[clicks'] = Started("bootrom", rcm', bootromDevice, preparedBundle, None, 0)
        /\ \A e \in Calls : e # clicks' => call'[e] = call[e]
    BY <1>6, <2>1, BootromType DEF ClickDetected
  <2>3. OwnTypes'
    BY <1>0, <1>6, <2>1 DEF ClickDetected, ClickBoot, OwnTypes
  <2>4. HandlerInv' /\ ClickInv' /\ OneAttempt'
    BY <1>0, <1>6, <2>1, <2>2 DEF ClickDetected, ClickBoot, Continuing, Started, OwnTypes,
       HandlerInv, ClickInv, OneAttempt, HandoffMatchesBundle, SelectionAgrees
  <2> QED
    BY <2>2, <2>3, <2>4
<1>7. CASE ClickSecond
  <2>1. rcmHandoff \in Calls /\ rcm \in Transports /\ rcm' = rcm
    <3>1. call[rcmHandoff] \in CallStates /\ call[rcmHandoff].rcm = rcm
      BY <1>0, <1>7 DEF ClickSecond, Continuing, OwnTypes, ClickInv, OneAttempt,
         HandoffMatchesBundle, Idle
    <3> QED
      BY <1>0, <1>7, <3>1 DEF ClickSecond, ClickBoot, Continuing, OwnTypes, CallStates
  <2>2. BusInv'
    BY <1>2, <1>7, <2>1 DEF ClickSecond, RcmNext
  <2>3. OwnTypes'
    BY <1>0, <1>7, <2>1 DEF ClickSecond, ClickBoot, bundle, OwnTypes
  <2>4. HandlerInv' /\ ClickInv' /\ OneAttempt'
    BY <1>0, <1>7, <2>1 DEF ClickSecond, ClickBoot, Continuing, StartChooser, bundle,
       OwnTypes, HandlerInv, ClickInv, OneAttempt, HandoffMatchesBundle,
       SelectionAgrees, Expected
  <2> QED
    BY <2>2, <2>3, <2>4
<1>8. CASE ClickStale
  <2>1. UNCHANGED rcmVars
    BY <1>8 DEF ClickStale
  <2>2. OwnTypes'
    BY <1>0, <1>8 DEF ClickStale, bundle, OwnTypes
  <2>3. HandlerInv' /\ ClickInv' /\ OneAttempt'
    BY <1>0, <1>8, <2>1 DEF ClickStale, Continuing, bundle, rcmVars, OwnTypes,
       HandlerInv, ClickInv, OneAttempt,
       HandoffMatchesBundle, SelectionAgrees, Expected
  <2> QED
    BY <1>1, <2>1, <2>2, <2>3
<1>9. ASSUME NEW d \in Devices, DetectPicks(d) PROVE BusInv' /\ Own'
  <2>1. BusInv' /\ UNCHANGED call
    <3>1. CASE d \in granted
      <4>1. UNCHANGED rcmVars
        BY <1>9, <3>1 DEF DetectPicks, Grant, rcmVars, usb
      <4> QED
        BY <1>1, <1>9, <4>1 DEF DetectPicks
    <3>2. CASE d \notin granted
      <4>1. RequestDevice(d)
        BY <1>9, <3>2 DEF DetectPicks, RequestDevice
      <4> QED
        BY <1>2, <1>9, <4>1 DEF DetectPicks, RcmNext
    <3> QED
      BY <3>1, <3>2
  <2> DEFINE fitting == {p \in Profiles : Expected(d, [profile |-> p])}
  <2>2. /\ bootromDevice' = d /\ preparedBundle = None
        /\ \/ selected' \in fitting /\ awaiting' = "download" /\ busy' = "prepare"
           \/ selected' = None /\ busy' = "none" /\ awaiting' = "nothing"
        /\ UNCHANGED <<preparedBundle, made, rcm, rcmHandoff, bootComplete, clicks>>
    BY <1>9 DEF DetectPicks, Returns, boot, HandlerInv
  <2>3. OwnTypes'
    BY <2>2 DEF OwnTypes
  <2>4. rcmHandoff = None /\ made < Makes
    BY <1>9, <2>2 DEF OneAttempt, HandoffMatchesBundle, DetectPicks, HandlerInv
  <2>5. HandlerInv' /\ ClickInv' /\ OneAttempt'
    BY <1>0, <2>1, <2>2, <2>4 DEF HandlerInv, ClickInv, OneAttempt, HandoffMatchesBundle,
       SelectionAgrees
  <2> QED
    BY <2>1, <2>3, <2>5
<1>10. ASSUME NEW d \in Devices, FirstChooserPicks(d) PROVE BusInv' /\ Own'
  <2>1. /\ clicks \in Calls /\ rcm \in Transports /\ preparedBundle \in Bundles
        /\ bootromDevice = None /\ rcmHandoff = None
    BY <1>10 DEF FirstChooserPicks, Continuing, HandlerInv, OwnTypes
  <2>2. /\ BusInv'
        /\ call'[clicks] = Started("bootrom", rcm, d, preparedBundle, None, 0)
        /\ \A e \in Calls : e # clicks => call'[e] = call[e]
    BY <1>10, <2>1, BootromType DEF FirstChooserPicks
  <2>3. OwnTypes'
    BY <1>10 DEF FirstChooserPicks, bundle, boot, OwnTypes
  <2>4. HandlerInv' /\ ClickInv' /\ OneAttempt'
    BY <1>0, <1>10, <2>1, <2>2 DEF FirstChooserPicks, bundle, boot, Started, HandlerInv,
       ClickInv, OneAttempt, HandoffMatchesBundle, SelectionAgrees, Expected
  <2> QED
    BY <2>2, <2>3, <2>4
<1>11. ASSUME NEW d \in Devices, SecondChooserPicks(d) PROVE BusInv' /\ Own'
  <2>1. rcmHandoff \in Calls /\ UNCHANGED call
    BY <1>11 DEF SecondChooserPicks, Continuing, ChooserPicks, OwnTypes
  <2>2. BusInv'
    BY <1>2, <1>11, <2>1 DEF SecondChooserPicks, RcmNext
  <2>3. OwnTypes'
    BY <1>11 DEF SecondChooserPicks, bundle, boot, OwnTypes
  <2>4. HandlerInv' /\ ClickInv' /\ OneAttempt'
    BY <1>11, <2>1 DEF SecondChooserPicks, Continuing, bundle, boot, HandlerInv,
       ClickInv, OneAttempt, HandoffMatchesBundle, SelectionAgrees, Expected
  <2> QED
    BY <2>2, <2>3, <2>4
<1>12. CASE FirstChooserCloses \/ SecondChooserCloses
  <2>1. BusInv' /\ UNCHANGED call
    <3>1. CASE FirstChooserCloses
      BY <1>1, <3>1 DEF FirstChooserCloses, rcmVars
    <3>2. CASE SecondChooserCloses
      <4>1. rcmHandoff \in Calls
        BY <3>2 DEF SecondChooserCloses, Continuing, OwnTypes
      <4> QED
        BY <1>2, <3>2, <4>1 DEF SecondChooserCloses, ChooserCloses, RcmNext
    <3> QED
      BY <1>12, <3>1, <3>2
  <2>2. /\ busy' = "none" /\ awaiting' = "nothing"
        /\ UNCHANGED <<selected, bootromDevice, preparedBundle, made, rcm, rcmHandoff,
                       bootComplete, clicks>>
    BY <1>12 DEF FirstChooserCloses, SecondChooserCloses, Gives, Returns, bundle
  <2>3. OwnTypes'
    BY <2>2 DEF OwnTypes
  <2>4. HandlerInv' /\ ClickInv' /\ OneAttempt'
    BY <2>1, <2>2 DEF HandlerInv, ClickInv, OneAttempt, HandoffMatchesBundle,
       SelectionAgrees, Expected
  <2> QED
    BY <2>1, <2>3, <2>4
<1>13. CASE CallBootloader
  <2> DEFINE d == handoff[rcmHandoff].device
  <2>1. /\ rcmHandoff \in Calls /\ clicks \in Calls /\ rcm \in Transports
        /\ preparedBundle \in Bundles /\ busy = "boot" /\ call[rcmHandoff].op # "none"
        /\ call[clicks].op = "none"
    BY <1>13 DEF CallBootloader, HandlerInv, ClickInv, OwnTypes
  <2>2. CASE Acceptable(rcm, d, preparedBundle, rcmHandoff)
    <3>1. /\ StartBootloader(clicks, rcm, d, preparedBundle, rcmHandoff)
          /\ awaiting' = "transport"
          /\ UNCHANGED <<busy, boot, bundle>>
      BY <1>13, <2>2 DEF CallBootloader
    <3> HIDE DEF d
    <3>2. /\ BusInv'
          /\ call'[clicks] = Started("bootloader", rcm, d, preparedBundle, rcmHandoff,
                                     BootromCount)
          /\ \A e \in Calls : e # clicks => call'[e] = call[e]
      BY <2>1, <3>1, BootloaderType
    <3>3. OwnTypes'
      BY <2>1, <3>1 DEF bundle, boot, OwnTypes
    <3>4. HandlerInv' /\ ClickInv' /\ OneAttempt'
      BY <1>0, <2>1, <3>1, <3>2 DEF bundle, boot, Started, HandlerInv, ClickInv,
         OneAttempt, HandoffMatchesBundle, SelectionAgrees, Expected
    <3> QED
      BY <3>2, <3>3, <3>4
  <2>3. CASE ~Acceptable(rcm, d, preparedBundle, rcmHandoff)
    <3>1. /\ UNCHANGED rcmVars
          /\ busy' = "none" /\ awaiting' = "nothing" /\ rcm' = None /\ rcmHandoff' = None
          /\ UNCHANGED <<bundle, bootComplete, clicks>>
      BY <1>13, <2>3 DEF CallBootloader, Gives, Returns
    <3>2. OwnTypes'
      BY <3>1 DEF bundle, OwnTypes
    <3>3. HandlerInv' /\ ClickInv' /\ OneAttempt'
      BY <3>1 DEF bundle, rcmVars, HandlerInv, ClickInv, OneAttempt,
         HandoffMatchesBundle, SelectionAgrees, Expected
    <3> QED
      BY <1>1, <3>1, <3>2, <3>3
  <2> QED
    BY <2>2, <2>3
<1>14. CASE BootromReturns
  <2>1. UNCHANGED rcmVars
    BY <1>14 DEF BootromReturns
  <2>2. OwnTypes'
    BY <1>0, <1>14 DEF BootromReturns, Returns, bundle, OwnTypes, HandlerInv
  <2>3. HandlerInv' /\ ClickInv' /\ OneAttempt'
    BY <1>0, <1>14, <2>1 DEF BootromReturns, Returns, bundle, rcmVars, OwnTypes,
       HandlerInv, ClickInv, OneAttempt,
       HandoffMatchesBundle, SelectionAgrees, Expected
  <2> QED
    BY <1>1, <2>1, <2>2, <2>3
<1>15. CASE BootloaderReturns \/ CallThrows
  <2>1. UNCHANGED rcmVars
    BY <1>15 DEF BootloaderReturns, CallThrows
  <2>2. OwnTypes'
    BY <1>0, <1>15 DEF BootloaderReturns, CallThrows, Returns, Gives,
       bundle, OwnTypes
  <2>3. HandlerInv' /\ ClickInv' /\ OneAttempt'
    BY <1>0, <1>15, <2>1 DEF BootloaderReturns, CallThrows, Returns, Gives, bundle, rcmVars,
       OwnTypes, HandlerInv, ClickInv, OneAttempt,
       HandoffMatchesBundle, SelectionAgrees, Expected
  <2> QED
    BY <1>1, <2>1, <2>2, <2>3
<1>16. CASE (Transport \/ Bus) /\ UNCHANGED pageVars
  <2>1. BusInv' /\ \A c \in Calls : Same(c)
    BY <1>16, TransportKeeps
  <2>2. OwnTypes' /\ HandlerInv'
    BY <1>16 DEF pageVars, bundle, boot, OwnTypes, HandlerInv
  <2>3. ClickInv'
    BY <1>0, <1>16, <2>1 DEF pageVars, bundle, boot, OwnTypes, ClickInv, HandlerInv, Same
  <2>4. OneAttempt'
    BY <1>0, <1>16, <2>1 DEF pageVars, bundle, boot, OwnTypes, OneAttempt,
       HandoffMatchesBundle, SelectionAgrees, Same, Expected
  <2> QED
    BY <2>1, <2>2, <2>3, <2>4
<1> QED
  BY <1>3, <1>4, <1>5, <1>6, <1>7, <1>8, <1>9, <1>10, <1>11, <1>12, <1>13, <1>14,
     <1>15, <1>16 DEF BootNext, Operator, Handler

\* Nothing happens.
LEMMA OwnStutter == BusInv /\ Own /\ UNCHANGED bootVars => BusInv' /\ Own'
<1> SUFFICES ASSUME BusInv, Own, UNCHANGED bootVars PROVE BusInv' /\ Own'
  OBVIOUS
<1>1. [RcmNext]_rcmVars
  BY DEF bootVars
<1>2. BusInv'
  BY <1>1, TypeStep, LeftStep DEF BusInv
<1>3. Own'
  BY DEF bootVars, rcmVars, bundle, boot, Own, OwnTypes, HandlerInv, ClickInv, OneAttempt,
     HandoffMatchesBundle, SelectionAgrees, Expected
<1> QED
  BY <1>2, <1>3

\* The page and the transport under it start in their types and keep them.
LEMMA PageSafety == BootSpec => [](BusInv /\ Own)
<1>1. BootInit => BusInv /\ Own
  BY TypeInit, LeftInit, OwnInit DEF BootInit, BusInv
<1>2. BusInv /\ Own /\ [BootNext]_bootVars => BusInv' /\ Own'
  BY OwnStep, OwnStutter
<1> QED
  BY <1>1, <1>2, PTL DEF BootSpec

\* Every variable of the page and of the transport that it drives keeps its
\* type; in particular no more bundles are made and no more calls begun than
\* there were clicks.
THEOREM PageTypeCorrect == BootSpec => []PageTypeOK
<1>1. BusInv /\ Own => PageTypeOK
  BY DEF BusInv, TypeInv, Own, OwnTypes, PageTypeOK
<1> QED
  BY <1>1, PageSafety, PTL

\* Whatever profiles are chosen, devices picked, downloads made and boots
\* failed or cancelled, and however often: profile, device, bundle, transport
\* and handoff are of one attempt.
THEOREM AttemptSafety == BootSpec => []OneAttempt
<1>1. BusInv /\ Own => OneAttempt
  BY DEF Own
<1> QED
  BY <1>1, PageSafety, PTL

-----------------------------------------------------------------------------
(* What the boards took when the page calls the boot complete *)

\* Call c gave a board artifact k, in the stage it is for.
Fed(c, k) ==
    \E f \in fed :
        /\ f.artifact = k
        /\ f.call = c
        /\ f.to \in {"cycled", IF k <= BootromCount THEN "bootrom" ELSE "mb1"}

\* Call c is about to send what it can never send: its board is dead, or its
\* device has left the bus.
Stuck(c) ==
    /\ call[c].at = "sending"
    /\ \/ stage[call[c].device.board] = "dead"
       \/ call[c].device \notin opened \cup opening

First(c) == IF call[c].op = "bootrom" THEN 0 ELSE BootromCount
Upto(c)  == IF call[c].at = "done" THEN LastArtifact(c) ELSE call[c].sent

\* What call c has sent was taken, unless it failed or will.
Loaded(c) ==
    call[c].op # "none" =>
        \/ Stuck(c)
        \/ call[c].at = "done" /\ call[c].result # "ok"
        \/ \A k \in (First(c) + 1)..Upto(c) : Fed(c, k)

\* A call between two artifacts of the first stage has its board in BootROM.
Between(c) ==
    call[c].op = "bootrom" /\ call[c].at # "done" /\ call[c].sent > 0 =>
        \/ Stuck(c)
        \/ call[c].at = "closing"
        \/ /\ call[c].at = "sending"
           /\ \/ call[c].cycled
              \/ /\ stage[call[c].device.board] = "bootrom"
                 /\ got[call[c].device.board] = call[c].sent

\* How far a call has got, and what a bootloader() call goes back to.
CourseInv ==
    \A c \in Calls :
        /\ call[c].at # "done" => call[c].result = "none"
        /\ call[c].at = "closing" => call[c].sent = LastArtifact(c)
        /\ call[c].op = "bootloader" /\ call[c].at # "done" => call[c].sent >= BootromCount
        /\ handoff[c].phase # "none" => call[c].result = "ok"
        /\ call[c].op = "bootloader" =>
             /\ call[c].from \in Calls
             /\ call[call[c].from].op = "bootrom"
             /\ call[call[c].from].at = "done"
             /\ call[call[c].from].result = "ok"

TakenInv == \A c \in Calls : Loaded(c) /\ Between(c)

\* One call at a time, the one that the page awaits.
SerialInv ==
    \A c \in Calls :
        call[c].at \notin {"idle", "done"} => awaiting = "transport" /\ c = clicks

CompleteInv ==
    bootComplete =>
        \E c \in Calls :
            call[c].op = "bootloader" /\ call[c].at = "done" /\ call[c].result = "ok"

LoadInv == CourseInv /\ TakenInv /\ SerialInv /\ CompleteInv /\ Mb1Inv

\* A step of the page that touches no board and no call.
LEMMA TakenQuiet ==
    ASSUME TakenInv, UNCHANGED <<call, stage, got, opened, opening, fed>>
    PROVE  TakenInv'
BY DEF TakenInv, Loaded, Between, Stuck, First, Upto, LastArtifact, Fed

\* What has been taken stays taken, and who is stuck stays stuck.
LEMMA TakenKept ==
    ASSUME NEW c \in Calls, Loaded(c), Between(c), fed \subseteq fed', call'[c] = call[c],
           Stuck(c) => Stuck(c)',
           LET b == call[c].device.board
           IN  call[c].at = "sending" /\ call[c].op = "bootrom" =>
                  Stuck(c)' \/ UNCHANGED <<stage[b], got[b]>>
    PROVE  Loaded(c)' /\ Between(c)'
<1>1. \A k : Fed(c, k) => Fed(c, k)'
  BY DEF Fed
<1>2. /\ First(c)' = First(c) /\ Upto(c)' = Upto(c)
      /\ call'[c] = call[c]
  BY DEF First, Upto, LastArtifact
<1>3. Loaded(c)'
  BY <1>1, <1>2 DEF Loaded
<1>4. Between(c)'
  BY DEF Between
<1> QED
  BY <1>3, <1>4

\* A step of a call that sends nothing and does not end.
LEMMA QuietCall ==
    ASSUME TypeInv, NEW c \in Calls, Loaded(c), Between(c),
           Select(c) \/ Open(c) \/ Claim(c) \/ ReadUid(c) \/ ReadBanner(c) \/ Pause(c)
    PROVE  /\ Loaded(c)' /\ Between(c)'
           /\ call'[c].at \notin {"idle", "done", "closing"}
           /\ call'[c].result = call[c].result
           /\ call'[c].sent = call[c].sent
           /\ UNCHANGED <<handoff, fed, stage, got>>
<1>1. /\ call \in [Calls -> CallStates \cup {Idle}]
      /\ call[c].at \in {"authorizing", "opening", "claiming", "reading", "pausing"}
  BY DEF TypeInv, RcmTypeOK, Select, Open, Claim, ReadUid, ReadBanner, Pause
<1>2. call[c] \in CallStates
  BY <1>1, BegunType DEF TypeInv
<1>3. /\ call'[c].at \in {"opening", "claiming", "reading", "pausing", "sending"}
      /\ call'[c].result = call[c].result
      /\ call'[c].sent = call[c].sent
      /\ call'[c].op = call[c].op
  BY <1>1, <1>2 DEF Select, Open, Claim, ReadUid, ReadBanner, Pause, Goes, CallStates
<1>4. UNCHANGED <<handoff, fed, stage, got>>
  BY DEF Select, Open, Claim, ReadUid, ReadBanner, Pause, usb
<1>5. \A k \in (First(c) + 1)..Upto(c) : Fed(c, k)
  BY <1>1, <1>2 DEF Loaded, Stuck, CallStates
<1>6. First(c)' = First(c) /\ Upto(c)' = Upto(c)
  BY <1>1, <1>3 DEF First, Upto
<1>7. Loaded(c)'
  BY <1>4, <1>5, <1>6 DEF Loaded, Fed
<1>8. Between(c)'
  BY <1>1, <1>3 DEF Between, Stuck
<1> QED
  BY <1>3, <1>4, <1>7, <1>8

\* The record of a call after it has sent an artifact.
LEMMA SendRecord ==
    ASSUME TypeInv, NEW c \in Calls, Send(c)
    PROVE  /\ call[c] \in CallStates
           /\ call'[c].sent = call[c].sent + 1
           /\ call'[c].at = IF call[c].sent + 1 = LastArtifact(c) THEN "closing"
                               ELSE "sending"
           /\ call'[c].result = call[c].result
           /\ call'[c].cycled = call[c].cycled
           /\ Same(c)
<1>1. call \in [Calls -> CallStates \cup {Idle}] /\ call[c].at = "sending"
  BY DEF TypeInv, RcmTypeOK, Send
<1>2. call[c] \in CallStates
  BY <1>1, BegunType DEF TypeInv
<1> QED
  BY <1>1, <1>2 DEF Send, CallStates, Same

\* transferArtifact: what a board takes is of its stage, or it is the first of
\* a set of several, and the board dead.
LEMMA SendLoaded ==
    ASSUME BootromCount > 1, TypeInv, NEW c \in Calls, Loaded(c), Between(c), Send(c),
           call[c].op = "bootloader" => call[c].sent >= BootromCount,
           StageTwoOnlyToMb1'
    PROVE  Loaded(c)' /\ Between(c)'
<1> DEFINE b == call[c].device.board
           k == call[c].sent + 1
           f == [call |-> c, board |-> b, artifact |-> k,
                 to |-> IF call[c].cycled THEN "cycled" ELSE stage[b]]
<1>1. /\ call[c] \in CallStates
      /\ call'[c].sent = k
      /\ call'[c].at = IF k = LastArtifact(c) THEN "closing" ELSE "sending"
      /\ call'[c].cycled = call[c].cycled
      /\ Same(c)
  BY SendRecord
<1>2. /\ call[c].at = "sending" /\ call[c].device \in opened
      /\ Feed(c, b, k)
      /\ UNCHANGED <<opened, opening>>
  BY DEF Send
<1>3. /\ b \in Boards /\ call[c].op \in {"bootrom", "bootloader"}
      /\ k \in 1..LastArtifact(c) /\ call[c].sent \in Nat
      /\ BootromCount \in Nat /\ ArtifactCount \in Nat
      /\ got \in [Boards -> 0..ArtifactCount] /\ stage \in [Boards -> Stages]
  BY <1>1, <1>2, NextArtifact, RcmAssumption
     DEF CallStates, Devices, TypeInv, RcmTypeOK, Active
<1>4. stage[b] \in {"bootrom", "mb1"} /\ fed' = fed \cup {f}
  BY <1>2 DEF Feed
<1>5. ~Stuck(c)
  BY <1>2, <1>4 DEF Stuck
<1>6. \A i \in (First(c) + 1)..call[c].sent : Fed(c, i)
  BY <1>1, <1>2, <1>5 DEF Loaded, Upto, CallStates
<1>7. /\ call'[c].op = call[c].op /\ call'[c].device.board = b
      /\ First(c)' = First(c) /\ Upto(c)' = k
  BY <1>1 DEF Same, First, Upto
<1>8. ASSUME f.to \in {"cycled", IF k <= BootromCount THEN "bootrom" ELSE "mb1"}
      PROVE  Loaded(c)'
  <2>1. ASSUME NEW i, i = k PROVE Fed(c, i)'
    <3>1. /\ f.artifact = i /\ f.call = c /\ f \in fed'
          /\ f.to \in {"cycled", IF i <= BootromCount THEN "bootrom" ELSE "mb1"}
      BY <1>4, <1>8, <2>1
    <3> HIDE DEF f, k
    <3> QED
      BY <3>1 DEF Fed
  <2>2. \A i \in (First(c) + 1)..call[c].sent : Fed(c, i)'
    BY <1>4, <1>6 DEF Fed
  <2>3. \A i \in (First(c) + 1)..k : Fed(c, i)'
    <3>1. First(c) \in Nat
      BY <1>3 DEF First
    <3>2. \A i \in (First(c) + 1)..k : i \in (First(c) + 1)..call[c].sent \/ i = k
      BY <1>3, <3>1
    <3> QED
      BY <2>1, <2>2, <3>2
  <2>4. (\A i \in (First(c) + 1)..Upto(c) : Fed(c, i))'
    BY <1>7, <2>3
  <2> QED
    BY <2>4 DEF Loaded
<1>9. CASE call[c].op = "bootloader"
  <2>1. k > BootromCount
    BY <1>3, <1>9
  <2>2. f.to \in {"mb1", "cycled"}
    BY <1>4, <2>1 DEF StageTwoOnlyToMb1
  <2>3. Loaded(c)'
    BY <1>3, <1>8, <2>1, <2>2
  <2> QED
    BY <1>7, <1>9, <2>3 DEF Between
<1>10. CASE call[c].op = "bootrom"
  <2>1. LastArtifact(c) = BootromCount /\ k <= BootromCount
    BY <1>3, <1>10 DEF LastArtifact
  <2>2. ASSUME call[c].sent > 0 PROVE call[c].cycled \/ stage[b] = "bootrom"
    BY <1>2, <1>5, <1>10, <2>2 DEF Between
  <2>3. CASE k = BootromCount
    <3>1. call[c].cycled \/ stage[b] = "bootrom"
      BY <1>3, <2>2, <2>3
    <3>2. Loaded(c)'
      BY <1>8, <2>1, <3>1
    <3> QED
      BY <1>1, <2>1, <2>3, <3>2 DEF Between
  <2>4. CASE k # BootromCount
    <3>1. call'[c].at = "sending"
      BY <1>1, <2>1, <2>4
    <3>2. CASE k = got[b] + 1 /\ stage[b] = "bootrom"
      <4>1. got'[b] = k /\ stage'[b] = "bootrom"
        BY <1>2, <1>3, <2>1, <3>2 DEF Feed
      <4>2. Loaded(c)'
        BY <1>8, <2>1, <3>2
      <4> QED
        BY <1>1, <1>7, <3>1, <4>1, <4>2 DEF Between
    <3>3. CASE ~(k = got[b] + 1 /\ stage[b] = "bootrom")
      <4>1. stage'[b] = "dead"
        BY <1>2, <1>3, <1>4, <2>1, <3>3 DEF Feed
      <4>2. Stuck(c)'
        BY <1>7, <3>1, <4>1 DEF Stuck
      <4> QED
        BY <4>2 DEF Loaded, Between
    <3> QED
      BY <3>2, <3>3
  <2> QED
    BY <2>3, <2>4
<1> QED
  BY <1>3, <1>9, <1>10

\* The end of a call.
LEMMA EndLoaded ==
    ASSUME TypeInv, NEW c \in Calls, CourseInv, Loaded(c),
           Finish(c) \/ \E result \in {"error", "notFound"} : Fails(c, result)
    PROVE  /\ Loaded(c)' /\ Between(c)'
           /\ call'[c].at = "done" /\ Same(c)
           /\ \A h \in Calls :
                handoff'[h].phase # "none" =>
                    handoff[h].phase # "none" \/ (h = c /\ call'[c].result = "ok")
           /\ fed \subseteq fed'
<1>1. /\ call \in [Calls -> CallStates \cup {Idle}]
      /\ handoff \in [Calls -> [phase: Phases, device: Devices \cup {None}]]
      /\ call[c].at # "idle"
  BY DEF TypeInv, RcmTypeOK, Finish, Fails
<1>2. call[c] \in CallStates
  BY <1>1, BegunType DEF TypeInv
<1>3. Same(c)
  BY StepKeeps DEF CallSteps
<1>4. CASE Finish(c)
  <2>1. call'[c].at = "done" /\ call'[c].result = "ok"
    BY <1>1, <1>2, <1>4 DEF Finish, Ends, CallStates
  <2>2. call[c].at = "closing" /\ call[c].sent = LastArtifact(c) /\ fed' = fed
    BY <1>4 DEF Finish, CourseInv
  <2>3. \A k \in (First(c) + 1)..LastArtifact(c) : Fed(c, k)
    BY <1>2, <2>2 DEF Loaded, Stuck, Upto, CallStates
  <2>4. First(c)' = First(c) /\ Upto(c)' = LastArtifact(c)
    BY <1>3, <2>1 DEF Same, First, Upto, LastArtifact
  <2>5. Loaded(c)'
    BY <2>2, <2>3, <2>4 DEF Loaded, Fed
  <2>6. Between(c)'
    BY <2>1 DEF Between
  <2>7. \A h \in Calls : h # c => handoff'[h] = handoff[h]
    BY <1>1, <1>4 DEF Finish
  <2> QED
    BY <1>3, <2>1, <2>2, <2>5, <2>6, <2>7
<1>5. ASSUME NEW result \in {"error", "notFound"}, Fails(c, result)
      PROVE  /\ call'[c].at = "done" /\ call'[c].result # "ok"
             /\ UNCHANGED handoff /\ fed \subseteq fed'
  <2>1. fed \subseteq fed' /\ UNCHANGED handoff /\ Ends(c, result)
    BY <1>5 DEF Fails, Feed
  <2> QED
    BY <1>1, <1>2, <2>1 DEF Ends, CallStates
<1>6. ASSUME call'[c].at = "done", call'[c].result # "ok"
      PROVE  Loaded(c)' /\ Between(c)'
  BY <1>6 DEF Loaded, Between
<1> QED
  BY <1>3, <1>4, <1>5, <1>6

\* A step of the only call under way.
LEMMA CallLoaded ==
    ASSUME BootromCount > 1, BusInv, CourseInv, TakenInv, SerialInv,
           StageTwoOnlyToMb1', NEW c \in Calls, CallSteps(c)
    PROVE  CourseInv' /\ TakenInv'
<1>1. /\ call[c] \in CallStates
      /\ call[c].at \notin {"idle", "done"}
      /\ \A e \in Calls : Same(e)
      /\ \A e \in Calls : e # c => call'[e] = call[e]
  <2>1. call[c].at # "idle"
    BY DEF CallSteps, Select, Open, Claim, ReadUid, ReadBanner, Pause, Send, Finish, Fails
  <2> QED
    BY <2>1, StepKeeps DEF BusInv, Same
<1>2. \A e \in Calls : e # c => call[e].at \in {"idle", "done"}
  BY <1>1 DEF SerialInv
<1>3. Loaded(c) /\ Between(c)
  BY DEF TakenInv
<1>4. /\ Loaded(c)' /\ Between(c)' /\ fed \subseteq fed'
      /\ \A h \in Calls :
           handoff'[h].phase # "none" =>
               handoff[h].phase # "none" \/ (h = c /\ call'[c].result = "ok")
      /\ call'[c].at # "done" =>
           /\ call'[c].result = call[c].result
           /\ call'[c].at = "closing" => call'[c].sent = LastArtifact(c)
           /\ call'[c].sent \in {call[c].sent, call[c].sent + 1}
  <2>1. CASE Select(c) \/ Open(c) \/ Claim(c) \/ ReadUid(c) \/ ReadBanner(c) \/ Pause(c)
    BY <1>3, <2>1, QuietCall DEF BusInv
  <2>2. CASE Send(c)
    <3>1. Loaded(c)' /\ Between(c)'
      BY <1>1, <1>3, <2>2, SendLoaded DEF BusInv, CourseInv
    <3>2. UNCHANGED handoff /\ fed \subseteq fed'
      BY <2>2 DEF Send, Feed
    <3> QED
      BY <2>2, <3>1, <3>2, SendRecord DEF BusInv
  <2>3. CASE Finish(c) \/ \E result \in {"error", "notFound"} : Fails(c, result)
    BY <1>3, <2>3, EndLoaded DEF BusInv
  <2> QED
    BY <2>1, <2>2, <2>3 DEF CallSteps
<1>5. ASSUME NEW e \in Calls, e # c PROVE Loaded(e)' /\ Between(e)'
  <2>1. call'[e] = call[e] /\ call[e].at # "sending" /\ ~Stuck(e)
    BY <1>1, <1>2, <1>5 DEF Stuck
  <2> QED
    BY <1>4, <2>1, TakenKept DEF TakenInv
<1>6. CourseInv'
  <2>1. ASSUME NEW e \in Calls
        PROVE  /\ call'[e].at # "done" => call'[e].result = "none"
               /\ call'[e].at = "closing" => (call[e].sent = LastArtifact(e))'
               /\ call'[e].op = "bootloader" /\ call'[e].at # "done" =>
                    call'[e].sent >= BootromCount
    <3>1. CASE e # c
      <4>1. call'[e] = call[e]
        BY <1>1, <3>1
      <4> QED
        BY <4>1 DEF CourseInv, LastArtifact
    <3>2. CASE e = c
      <4>1. call[c].result = "none"
        BY <1>1 DEF CourseInv
      <4>2. LastArtifact(c)' = LastArtifact(c)
        BY <1>1 DEF Same, LastArtifact
      <4>3. call[c].op = "bootloader" => call[c].sent >= BootromCount
        BY <1>1 DEF CourseInv
      <4>4. call[c].sent \in Nat /\ BootromCount \in Nat
        BY <1>1, RcmAssumption DEF CallStates
      <4> QED
        BY <1>1, <1>4, <3>2, <4>1, <4>2, <4>3, <4>4 DEF Same
    <3> QED
      BY <3>1, <3>2
  <2>2. ASSUME NEW e \in Calls, handoff'[e].phase # "none"
        PROVE  call'[e].result = "ok"
    <3>1. handoff[e].phase # "none" => call[e].at = "done" /\ call[e].result = "ok"
      BY DEF BusInv, LeftInv, CourseInv
    <3>2. handoff[e].phase # "none" => call'[e] = call[e]
      BY <1>1, <3>1
    <3> QED
      BY <1>4, <2>2, <3>1, <3>2
  <2>3. ASSUME NEW e \in Calls, call'[e].op = "bootloader"
        PROVE  /\ call'[e].from \in Calls
               /\ call'[call'[e].from].op = "bootrom"
               /\ call'[call'[e].from].at = "done"
               /\ call'[call'[e].from].result = "ok"
    <3>1. call'[e].from = call[e].from /\ call[e].op = "bootloader"
      BY <1>1, <2>3 DEF Same
    <3>2. /\ call[e].from \in Calls
          /\ call[call[e].from].op = "bootrom"
          /\ call[call[e].from].at = "done"
          /\ call[call[e].from].result = "ok"
      BY <3>1 DEF CourseInv
    <3>3. call'[call[e].from] = call[call[e].from]
      BY <1>1, <3>2
    <3> QED
      BY <3>1, <3>2, <3>3
  <2> QED
    BY <2>1, <2>2, <2>3 DEF CourseInv
<1> QED
  BY <1>4, <1>5, <1>6 DEF TakenInv

\* What the bus does: a board between two artifacts stays in BootROM, or its
\* call is marked.
LEMMA BusLoaded ==
    ASSUME BusInv, CourseInv, TakenInv, Bus
    PROVE  CourseInv' /\ TakenInv'
<1>0. /\ call \in [Calls -> CallStates \cup {Idle}]
      /\ stage \in [Boards -> Stages] /\ got \in [Boards -> 0..ArtifactCount]
      /\ BootromCount \in Nat
  BY RcmAssumption DEF BusInv, TypeInv, RcmTypeOK
<1>1. UNCHANGED <<handoff, fed>>
  BY DEF Bus, EntersMb1, BootsRecovery, Reset, LateOpen
<1>2. ASSUME NEW c \in Calls
      PROVE  /\ Same(c) /\ call'[c].at = call[c].at
             /\ call'[c].sent = call[c].sent /\ call'[c].result = call[c].result
             /\ call[c].cycled => call'[c].cycled
  <2>1. CASE UNCHANGED call
    BY <2>1 DEF Same
  <2>2. ASSUME NEW b \in Boards, Reset(b)
        PROVE  call'[c].result = call[c].result
    <3>1. \/ call'[c] = call[c]
          \/ call[c].at # "idle" /\ call'[c] = [call[c] EXCEPT !.cycled = TRUE]
      BY <2>2 DEF Reset
    <3> QED
      BY <3>1, BegunType DEF BusInv, TypeInv, CallStates
  <2> QED
    BY <2>1, <2>2, ResetKeeps DEF Bus, EntersMb1, BootsRecovery, LateOpen, BusInv
<1>3. CourseInv'
  BY <1>1, <1>2 DEF CourseInv, Same, LastArtifact
<1>4. ASSUME NEW c \in Calls, Stuck(c) PROVE Stuck(c)'
  <2> DEFINE d == call[c].device
  <2>1. call'[c].at = "sending" /\ call'[c].device = d /\ d \in Devices
    BY <1>2, <1>4, BegunType DEF Stuck, Same, BusInv, TypeInv, CallStates
  <2>2. d.board \in Boards
    BY <2>1 DEF Devices
  <2>3. opened' \cup opening' \subseteq opened \cup opening
    BY DEF Bus, EntersMb1, BootsRecovery, Reset, LateOpen, Reattach
  <2>4. CASE stage[d.board] = "dead"
    <3>1. CASE UNCHANGED stage
      BY <2>1, <2>4, <3>1 DEF Stuck
    <3>2. ASSUME NEW b \in Boards, EntersMb1(b) \/ BootsRecovery(b)
          PROVE  stage'[d.board] = "dead"
      BY <1>0, <2>2, <2>4, <3>2 DEF EntersMb1, BootsRecovery, Reattach
    <3>3. ASSUME NEW b \in Boards, Reset(b)
          PROVE  stage'[d.board] = "dead" \/ d \notin opened' \cup opening'
      BY <1>0, <2>2, <2>4, <3>3 DEF Reset, Reattach
    <3> QED
      BY <2>1, <3>1, <3>2, <3>3 DEF Bus, LateOpen, Stuck
  <2>5. CASE d \notin opened \cup opening
    BY <2>1, <2>3, <2>5 DEF Stuck
  <2> QED
    BY <1>4, <2>4, <2>5 DEF Stuck
<1>5. ASSUME NEW c \in Calls PROVE Loaded(c)'
  <2>1. First(c)' = First(c) /\ Upto(c)' = Upto(c)
    BY <1>2 DEF Same, First, Upto, LastArtifact
  <2>2. Loaded(c)
    BY DEF TakenInv
  <2> QED
    BY <1>1, <1>2, <1>4, <2>1, <2>2 DEF Loaded, Fed, Same
<1>6. ASSUME NEW c \in Calls PROVE Between(c)'
  <2> DEFINE b == call[c].device.board
  <2>1. CASE ~(call[c].op = "bootrom" /\ call[c].at # "done" /\ call[c].sent > 0)
    BY <1>2, <2>1 DEF Between, Same
  <2>2. CASE call[c].cycled /\ call[c].at = "sending"
    BY <1>2, <2>2 DEF Between
  <2>3. CASE /\ call[c].op = "bootrom" /\ call[c].at = "sending"
             /\ stage[b] = "bootrom" /\ got[b] = call[c].sent
    <3>1. got[b] < BootromCount
      BY <2>3 DEF BusInv, TypeInv, SentInv, Active, LastArtifact
    <3>2. b \in Boards
      BY <2>3, BegunType DEF BusInv, TypeInv, CallStates, Devices
    <3>3. CASE UNCHANGED <<stage, got>>
      BY <1>2, <2>3, <3>3 DEF Between, Same
    <3>4. ASSUME NEW e \in Boards, EntersMb1(e) \/ BootsRecovery(e)
          PROVE  UNCHANGED <<stage[b], got[b]>>
      BY <1>0, <2>3, <3>1, <3>2, <3>4 DEF EntersMb1, BootsRecovery, Reattach
    <3>5. ASSUME NEW e \in Boards, Reset(e)
          PROVE  UNCHANGED <<stage[b], got[b]>> \/ call'[c].cycled
      <4>1. CASE e = b
        BY <2>3, <3>5, <4>1, ResetKeeps DEF BusInv
      <4>2. CASE e # b
        BY <1>0, <3>2, <3>5, <4>2 DEF Reset, Reattach
      <4> QED
        BY <4>1, <4>2
    <3>6. UNCHANGED <<stage[b], got[b]>> \/ call'[c].cycled
      BY <3>3, <3>4, <3>5 DEF Bus, LateOpen
    <3> QED
      BY <1>2, <2>3, <3>6 DEF Between, Same
  <2>4. Between(c)
    BY DEF TakenInv
  <2>5. CASE Stuck(c) \/ call[c].at = "closing"
    BY <1>2, <1>4, <2>5 DEF Between
  <2>6. CASE /\ call[c].op = "bootrom" /\ call[c].at # "done" /\ call[c].sent > 0
             /\ ~Stuck(c) /\ call[c].at # "closing"
    <3>1. /\ call[c].at = "sending"
          /\ call[c].cycled \/ (stage[b] = "bootrom" /\ got[b] = call[c].sent)
      BY <2>4, <2>6 DEF Between
    <3> QED
      BY <2>2, <2>3, <2>6, <3>1
  <2> QED
    BY <2>1, <2>5, <2>6
<1> QED
  BY <1>3, <1>5, <1>6 DEF TakenInv

\* A call that begins has sent nothing of its own.
LEMMA BeginLoaded ==
    ASSUME BusInv, CourseInv, TakenInv, NEW c \in Calls,
           NEW op \in {"bootrom", "bootloader"},
           NEW r, NEW d, NEW b, NEW h,
           call[c].op = "none",
           call'[c] = Started(op, r, d, b, h, IF op = "bootrom" THEN 0 ELSE BootromCount),
           \A e \in Calls : e # c => call'[e] = call[e],
           op = "bootloader" => h \in Calls /\ handoff[h].phase # "none",
           UNCHANGED <<stage, got, opened, opening, fed>>,
           \A e \in Calls : handoff'[e].phase # "none" => handoff[e].phase # "none"
    PROVE  CourseInv' /\ TakenInv'
<1>1. /\ call'[c].op = op /\ call'[c].at = "authorizing" /\ call'[c].from = h
      /\ call'[c].sent = (IF op = "bootrom" THEN 0 ELSE BootromCount)
      /\ call'[c].result = "none"
  BY DEF Started
<1>2. BootromCount \in Nat
  BY RcmAssumption
<1>3. ASSUME NEW e \in Calls, handoff[e].phase # "none"
      PROVE  /\ call'[e] = call[e]
             /\ call[e].op = "bootrom" /\ call[e].at = "done" /\ call[e].result = "ok"
  BY <1>3 DEF BusInv, LeftInv, CourseInv
<1>4. ASSUME NEW e \in Calls PROVE Loaded(e)' /\ Between(e)'
  <2>1. CASE e = c
    <3>1. (First(c) = Upto(c))' /\ First(c)' \in Nat
      BY <1>1, <1>2 DEF First, Upto
    <3>2. (\A k \in (First(c) + 1)..Upto(c) : Fed(c, k))'
      BY <3>1
    <3> QED
      BY <1>1, <1>2, <2>1, <3>2 DEF Loaded, Between
  <2>2. CASE e # c
    <3>1. call'[e] = call[e]
      BY <2>2
    <3> QED
      BY <3>1 DEF TakenInv, Loaded, Between, Stuck, First, Upto, LastArtifact, Fed
  <2> QED
    BY <2>1, <2>2
<1>5. ASSUME NEW e \in Calls, e # c, call[e].op = "bootloader"
      PROVE  call[e].from # c
  BY <1>5 DEF CourseInv
<1>6. CourseInv'
  <2>1. ASSUME NEW e \in Calls, e # c
        PROVE  /\ call'[e].at # "done" => call'[e].result = "none"
               /\ call'[e].at = "closing" => (call[e].sent = LastArtifact(e))'
               /\ call'[e].op = "bootloader" /\ call'[e].at # "done" =>
                    call'[e].sent >= BootromCount
               /\ handoff'[e].phase # "none" => call'[e].result = "ok"
               /\ call'[e].op = "bootloader" =>
                    /\ call'[e].from \in Calls
                    /\ call'[call'[e].from].op = "bootrom"
                    /\ call'[call'[e].from].at = "done"
                    /\ call'[call'[e].from].result = "ok"
    <3>1. call'[e] = call[e]
      BY <2>1
    <3> QED
      BY <1>3, <1>5, <2>1, <3>1 DEF CourseInv, LastArtifact
  <2>2. ~(handoff'[c].phase # "none")
    BY <1>3
  <2> QED
    BY <1>1, <1>2, <1>3, <2>1, <2>2 DEF CourseInv
<1> QED
  BY <1>4, <1>6 DEF TakenInv

\* A step of the page that leaves the boards and all calls alone.
LEMMA PageLoaded ==
    ASSUME CourseInv, TakenInv,
           UNCHANGED <<call, stage, got, opened, opening, fed>>,
           \A h \in Calls : handoff'[h].phase # "none" => handoff[h].phase # "none"
    PROVE  CourseInv' /\ TakenInv'
BY TakenQuiet DEF CourseInv, LastArtifact

LEMMA LoadInit == BootInit => LoadInv
<1> SUFFICES ASSUME BootInit PROVE LoadInv
  OBVIOUS
<1>1. RcmInit /\ ~bootComplete
  BY DEF BootInit
<1>2. CourseInv /\ TakenInv /\ SerialInv
  BY <1>1 DEF RcmInit, Idle, CourseInv, TakenInv, SerialInv, Loaded, Between
<1> QED
  BY <1>1, <1>2, Mb1Init DEF LoadInv, CompleteInv

\* A step of the page that begins no call, taken while no call is under way.
LEMMA CalmStep ==
    ASSUME LoadInv,
           \A c \in Calls : call[c].at \in {"idle", "done"},
           UNCHANGED <<call, stage, got, opened, opening, fed>>,
           \A h \in Calls : handoff'[h].phase # "none" => handoff[h].phase # "none",
           bootComplete' => bootComplete \/ \E c \in Calls :
               call[c].op = "bootloader" /\ call[c].at = "done" /\ call[c].result = "ok"
    PROVE  LoadInv'
<1>1. CourseInv' /\ TakenInv'
  BY PageLoaded DEF LoadInv
<1>2. SerialInv'
  BY DEF SerialInv
<1>3. CompleteInv'
  BY DEF LoadInv, CompleteInv
<1>4. Mb1Inv'
  BY DEF LoadInv, Mb1Inv, StageTwoOnlyToMb1
<1> QED
  BY <1>1, <1>2, <1>3, <1>4 DEF LoadInv

\* A click that begins the call of its number.
LEMMA BeginStep ==
    ASSUME BusInv, LoadInv, clicks' \in Calls, call[clicks'].op = "none",
           \A e \in Calls : call[e].at \in {"idle", "done"},
           NEW op \in {"bootrom", "bootloader"}, NEW r, NEW d, NEW b, NEW h,
           call'[clicks'] = Started(op, r, d, b, h,
                                    IF op = "bootrom" THEN 0 ELSE BootromCount),
           \A e \in Calls : e # clicks' => call'[e] = call[e],
           op = "bootloader" => h \in Calls /\ handoff[h].phase # "none",
           UNCHANGED <<stage, got, opened, opening, fed, bootComplete>>,
           \A e \in Calls : handoff'[e].phase # "none" => handoff[e].phase # "none",
           awaiting' = "transport"
    PROVE  LoadInv'
<1>1. CourseInv' /\ TakenInv'
  BY BeginLoaded DEF LoadInv
<1>2. SerialInv'
  BY DEF SerialInv
<1>3. CompleteInv'
  <2>1. \A c \in Calls : call[c].op = "bootloader" => call'[c] = call[c]
    OBVIOUS
  <2> QED
    BY <2>1 DEF LoadInv, CompleteInv
<1>4. Mb1Inv'
  <2>1. call'[clicks'].at = "authorizing" /\ ~call'[clicks'].read
    BY DEF Started
  <2>2. StageTwoOnlyToMb1'
    BY DEF LoadInv, Mb1Inv, StageTwoOnlyToMb1
  <2>3. ASSUME NEW c \in Calls, call'[c].op = "bootloader", call'[c].at # "done"
        PROVE  /\ call'[c].at = "sending" => call'[c].read
               /\ call'[c].read =>
                    call'[c].cycled \/ stage'[call'[c].device.board] # "bootrom"
    <3>1. CASE c = clicks'
      BY <2>1, <3>1
    <3>2. CASE c # clicks'
      <4>1. call'[c] = call[c]
        BY <3>2
      <4> QED
        BY <2>3, <4>1 DEF LoadInv, Mb1Inv
    <3> QED
      BY <3>1, <3>2
  <2> QED
    BY <2>2, <2>3 DEF Mb1Inv
<1> QED
  BY <1>1, <1>2, <1>3, <1>4 DEF LoadInv

\* A step of the transport or the bus, while the page waits.
LEMMA WaitStep ==
    ASSUME BootromCount > 1, BusInv, LoadInv, Transport \/ Bus,
           UNCHANGED <<awaiting, clicks, bootComplete>>
    PROVE  LoadInv'
<1> USE DEF LoadInv
<1>1. RcmNext
  BY DEF Transport, RcmNext
<1>2. Mb1Inv' /\ StageTwoOnlyToMb1'
  BY <1>1, Mb1Step DEF BusInv, Mb1Inv
<1>3. CourseInv' /\ TakenInv'
  BY <1>2, CallLoaded, BusLoaded DEF Transport
<1>4. ASSUME NEW c \in Calls, call[c].at \in {"idle", "done"}
      PROVE  /\ call'[c].at = call[c].at /\ call'[c].op = call[c].op
             /\ call'[c].result = call[c].result
  <2>1. ASSUME NEW e \in Calls, CallSteps(e) PROVE call'[c] = call[c]
    <3>1. e # c
      BY <1>4, <2>1
         DEF CallSteps, Select, Open, Claim, ReadUid, ReadBanner, Pause, Send, Finish, Fails
    <3> QED
      BY <2>1, <3>1, StepKeeps DEF BusInv
  <2>2. CASE Bus
    <3>1. call'[c] = call[c]
      BY <1>4, <2>2 DEF Bus, EntersMb1, BootsRecovery, Reset, LateOpen
    <3> QED
      BY <3>1
  <2> QED
    BY <2>1, <2>2 DEF Transport
<1>5. SerialInv'
  BY <1>4 DEF SerialInv
<1>6. CompleteInv'
  BY <1>4 DEF CompleteInv
<1> QED
  BY <1>2, <1>3, <1>5, <1>6

\* Every step of the page is one of the three kinds.
LEMMA LoadStep ==
    ASSUME BootromCount > 1, BusInv, Own, LoadInv, [BootNext]_bootVars
    PROVE  LoadInv'
<1> DEFINE Calm == \A c \in Calls : call[c].at \in {"idle", "done"}
           Quiet == /\ UNCHANGED <<call, stage, got, opened, opening, fed>>
                    /\ \A h \in Calls :
                         handoff'[h].phase # "none" => handoff[h].phase # "none"
<1>0. /\ call \in [Calls -> CallStates \cup {Idle}]
      /\ handoff \in [Calls -> [phase: Phases, device: Devices \cup {None}]]
      /\ None \notin Calls /\ Calls = 1..Clicks /\ Clicks \in Nat
      /\ clicks \in 0..Clicks
      /\ rcmHandoff \in Calls \cup {None}
  BY RcmAssumption, RamBootAssumption DEF BusInv, TypeInv, RcmTypeOK, Own, OwnTypes
<1>1. busy # "boot" \/ awaiting # "transport" => Calm
  BY DEF LoadInv, SerialInv, Own, OwnTypes
<1>2. UNCHANGED rcmVars => Quiet
  BY DEF rcmVars, usb
<1>3. ASSUME Calm, Quiet, bootComplete' = bootComplete PROVE LoadInv'
  BY <1>3, CalmStep
<1>4. CASE \/ \E p \in Profiles \cup {None} : ChangeProfile(p)
           \/ ClickPrepare \/ DetectCloses \/ ClickFirst \/ ClickStale
           \/ FirstChooserCloses
  BY <1>1, <1>2, <1>3, <1>4
     DEF ChangeProfile, ClickPrepare, DetectCloses, ClickFirst, ClickStale, ClickBoot,
         FirstChooserCloses, Gives, boot
<1>5. CASE Downloaded \/ DownloadFails
  BY <1>1, <1>2, <1>3, <1>5 DEF Downloaded, DownloadFails, boot
<1>6. CASE \E d \in Devices : DetectPicks(d)
  BY <1>1, <1>3, <1>6 DEF DetectPicks, Grant, boot
<1>7. CASE ClickSecond
  <2>1. Quiet
    BY <1>0, <1>7 DEF ClickSecond, StartChooser, usb, Continuing
  <2> QED
    BY <1>1, <1>3, <1>7, <2>1 DEF ClickSecond, ClickBoot
<1>8. CASE SecondChooserCloses \/ \E d \in Devices : SecondChooserPicks(d)
  <2>1. Quiet
    BY <1>0, <1>8 DEF SecondChooserCloses, SecondChooserPicks, ChooserCloses,
       ChooserPicks, Grant, usb, Continuing
  <2> QED
    BY <1>1, <1>3, <1>8, <2>1 DEF SecondChooserCloses, SecondChooserPicks, Gives, boot
<1>9. CASE ClickDetected
  <2>1. clicks' \in Calls /\ call[clicks'].op = "none" /\ awaiting' = "transport" /\ Calm
        /\ BootromCall(clicks', rcm', bootromDevice, preparedBundle)
        /\ UNCHANGED <<usb, handoff, bootComplete>>
    BY <1>0, <1>1, <1>9 DEF ClickDetected, ClickBoot, BootromCall
  <2>2. /\ call'[clicks'] = Started("bootrom", rcm', bootromDevice, preparedBundle, None, 0)
        /\ \A e \in Calls : e # clicks' => call'[e] = call[e]
    BY <1>0, <2>1 DEF BootromCall
  <2> QED
    BY <2>1, <2>2, BeginStep DEF usb
<1>10. ASSUME NEW d \in Devices, FirstChooserPicks(d) PROVE LoadInv'
  <2>1. clicks' = clicks /\ clicks \in Calls /\ awaiting' = "transport" /\ Calm
        /\ BootromCall(clicks, rcm, d, preparedBundle)
        /\ Grant(d) /\ UNCHANGED <<handoff, bootComplete>>
    BY <1>0, <1>1, <1>10 DEF FirstChooserPicks, boot, Own, HandlerInv
  <2>2. /\ call'[clicks] = Started("bootrom", rcm, d, preparedBundle, None, 0)
        /\ call[clicks].op = "none"
        /\ \A e \in Calls : e # clicks => call'[e] = call[e]
    BY <1>0, <2>1 DEF BootromCall
  <2> QED
    BY <2>1, <2>2, BeginStep DEF Grant
<1>11. CASE CallBootloader
  <2> DEFINE d == handoff[rcmHandoff].device
  <2>1. rcmHandoff \in Calls /\ clicks \in Calls /\ Calm
    BY <1>0, <1>1, <1>11 DEF CallBootloader, Own, HandlerInv, OwnTypes
  <2>2. CASE Acceptable(rcm, d, preparedBundle, rcmHandoff)
    <3>1. /\ StartBootloader(clicks, rcm, d, preparedBundle, rcmHandoff)
          /\ awaiting' = "transport" /\ UNCHANGED <<clicks, bootComplete>>
      BY <1>11, <2>2 DEF CallBootloader, boot
    <3> HIDE DEF d
    <3>2. /\ call'[clicks] = Started("bootloader", rcm, d, preparedBundle, rcmHandoff,
                                     BootromCount)
          /\ call[clicks].op = "none"
          /\ \A e \in Calls : e # clicks => call'[e] = call[e]
          /\ handoff[rcmHandoff].phase # "none"
          /\ \A e \in Calls : handoff'[e].phase # "none" => handoff[e].phase # "none"
          /\ UNCHANGED usb
      BY <1>0, <2>1, <3>1 DEF StartBootloader, Acceptable
    <3> QED
      BY <2>1, <3>1, <3>2, BeginStep DEF usb
  <2>3. CASE ~Acceptable(rcm, d, preparedBundle, rcmHandoff)
    BY <1>2, <1>3, <1>11, <2>1, <2>3 DEF CallBootloader, Gives
  <2> QED
    BY <2>2, <2>3
<1>12. ASSUME awaiting = "transport", call[clicks].result # "none" PROVE Calm
  <2>1. \A c \in Calls : c # clicks => call[c].at \in {"idle", "done"}
    BY DEF LoadInv, SerialInv
  <2>2. clicks \in Calls => call[clicks].at = "done"
    BY <1>12 DEF LoadInv, CourseInv
  <2> QED
    BY <2>1, <2>2
<1>13. CASE BootromReturns \/ CallThrows
  BY <1>2, <1>3, <1>12, <1>13 DEF BootromReturns, CallThrows, Gives
<1>14. CASE BootloaderReturns
  <2>1. Calm /\ Quiet /\ clicks \in Calls
    BY <1>1, <1>2, <1>12, <1>14 DEF BootloaderReturns, Own, OwnTypes, HandlerInv
  <2>2. call[clicks].at = "done"
    BY <1>14, <2>1 DEF BootloaderReturns, LoadInv, CourseInv
  <2> QED
    BY <1>14, <2>1, <2>2, CalmStep DEF BootloaderReturns
<1>15. CASE (Transport \/ Bus) /\ UNCHANGED pageVars
  BY <1>15, WaitStep DEF pageVars, boot
<1>16. CASE UNCHANGED bootVars
  <2>1. Quiet /\ UNCHANGED <<awaiting, clicks, bootComplete>>
    BY <1>2, <1>16 DEF bootVars, boot
  <2>2. CourseInv' /\ TakenInv'
    BY <2>1, PageLoaded DEF LoadInv
  <2> QED
    BY <2>1, <2>2 DEF LoadInv, SerialInv, CompleteInv, Mb1Inv, StageTwoOnlyToMb1
<1> HIDE DEF Calm, Quiet
<1> QED
  BY <1>4, <1>5, <1>6, <1>7, <1>8, <1>9, <1>10, <1>11, <1>13, <1>14, <1>15, <1>16
     DEF BootNext, Operator, Handler

\* With more than one artifact in the first set, the page calls the boot
\* complete only when the boards took every artifact of both sets, the first
\* in BootROM by the call that made the handoff, the second in MB1 by the call
\* that used it up.
THEOREM CompleteSafety ==
    ASSUME BootromCount > 1
    PROVE  BootSpec => []CompleteMeansLoaded
<1>1. BusInv /\ LoadInv => CompleteMeansLoaded
  <2> SUFFICES ASSUME BusInv, LoadInv, bootComplete PROVE CompleteMeansLoaded
    BY DEF CompleteMeansLoaded
  <2>1. PICK c \in Calls :
          call[c].op = "bootloader" /\ call[c].at = "done" /\ call[c].result = "ok"
    BY DEF LoadInv, CompleteInv
  <2> DEFINE e == call[c].from
  <2>2. /\ e \in Calls /\ call[e].op = "bootrom" /\ call[e].at = "done"
        /\ call[e].result = "ok"
    BY <2>1 DEF LoadInv, CourseInv
  <2>3. BootromCount \in Nat /\ ArtifactCount \in Nat
    BY RcmAssumption
  <2>4. \A k \in (BootromCount + 1)..ArtifactCount : Fed(c, k)
    BY <2>1 DEF LoadInv, TakenInv, Loaded, Stuck, First, Upto, LastArtifact
  <2>5. \A k \in 1..BootromCount : Fed(e, k)
    <3>1. Loaded(e) /\ First(e) = 0 /\ Upto(e) = BootromCount
      BY <2>2 DEF LoadInv, TakenInv, First, Upto, LastArtifact
    <3> QED
      BY <2>2, <2>3, <3>1 DEF Loaded, Stuck
  <2>6. ASSUME NEW k \in 1..ArtifactCount
        PROVE  Fed(IF k <= BootromCount THEN e ELSE c, k)
    BY <2>3, <2>4, <2>5
  <2> QED
    BY <2>1, <2>6 DEF Fed, CompleteMeansLoaded
<1> QED
  BY <1>1, TypeInit, LeftInit, OwnInit, LoadInit, OwnStep, OwnStutter, LoadStep, PTL
     DEF BootSpec, BootInit, BusInv
=============================================================================
