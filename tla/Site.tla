--------------------------------- MODULE Site ---------------------------------
(***************************************************************************)
(* The site publisher, helm-web/prepare-site.py: it validates the bundles, *)
(* copies or hard-links them into a stage beside the output, writes the    *)
(* catalog of what it validated, and exchanges stage and output with two   *)
(* renames.  Publishers may run at the same time, fail at any call and die *)
(* between any two; the bundle builder of helm-macos may run meanwhile.    *)
(*                                                                         *)
(* The five bundles are alike, so one is modelled, as a payload and the    *)
(* SHA256SUMS that is written after it.  A file is its inode, and `content`*)
(* says which build an inode holds, because a hard link shares it.         *)
(***************************************************************************)
EXTENDS Integers, Sequences, FiniteSets

CONSTANTS
    Publishers, \* runs of prepare-site.py; also their process ids
    Builds      \* bound on runs of the bundle builder

ASSUME BuildsAssumption == Builds \in Nat

VARIABLES
    bundle,     \* the bundle directory: file -> inode, or Missing
    content,    \* inode -> the build whose data it holds
    building,   \* the builder is between cleaning and SHA256SUMS
    output,     \* what is at the output path
    previous,   \* publisher -> what is at .previous-<pid>
    pc,         \* publisher -> the next thing prepare_site does
    stage,      \* publisher -> the directory it fills, or Absent
    catalog,    \* publisher -> the digests validate_bundle saw
    hardlink,   \* publisher -> --bundle-mode hardlink
    moved,      \* publisher -> it moved an old output away
    torn        \* publisher -> the builder ran between validation and copy

sources == <<bundle, content, building>>
siteVars == <<sources, output, previous, pc, stage, catalog, hardlink, moved, torn>>

Files == {"payload", "SHA256SUMS"}
Missing == 0
NoFiles == [f \in Files |-> Missing]

\* A directory: its bundle files, the catalog, the generated marker, and
\* whether its maker was `torn`.
Absent == [files |-> NoFiles, catalog |-> NoFiles, marked |-> FALSE,
           torn |-> FALSE, kind |-> "absent"]
EmptyStage == [Absent EXCEPT !.kind = "site"]
Foreign == [Absent EXCEPT !.kind = "foreign"]   \* not made by the publisher

\* Left in .previous-<pid> by an earlier process of that number.
Leftover == [files |-> [f \in Files |-> -1], catalog |-> [f \in Files |-> 1],
             marked |-> TRUE, torn |-> FALSE, kind |-> "site"]

SiteInit ==
    /\ bundle = [f \in Files |-> IF f = "payload" THEN 1 ELSE 2]
    /\ content = <<1, 1>>
    /\ building = FALSE
    /\ output = Absent
    /\ previous \in [Publishers -> {Absent, Leftover}]
    /\ pc = [p \in Publishers |-> "idle"]
    /\ stage = [p \in Publishers |-> Absent]
    /\ catalog = [p \in Publishers |-> NoFiles]
    /\ hardlink \in [Publishers -> BOOLEAN]
    /\ moved = [p \in Publishers |-> FALSE]
    /\ torn = [p \in Publishers |-> FALSE]

Idle == \A p \in Publishers : pc[p] \in {"idle", "ended", "dead"}

-----------------------------------------------------------------------------
\* The builder (bundle of helm-macos).

Runs == content[Len(content)]

\* p has validated a bundle it has not copied entirely.
BetweenValidationAndCopy(p) ==
    \/ pc[p] = "staging"
    \/ pc[p] = "copying" /\ \E f \in Files : stage[p].files[f] = Missing

\* clean_directory.  A publisher in the midst of its work will copy files it
\* has not validated.
CleanBundle ==
    /\ Runs < Builds
    /\ bundle' = NoFiles
    /\ building' = TRUE
    /\ torn' = [p \in Publishers |-> torn[p] \/ BetweenValidationAndCopy(p)]
    /\ UNCHANGED <<content, output, previous, pc, stage, catalog, hardlink, moved>>

\* A builder that cleaned nothing would write into the inode of the last build.
WriteInPlace(f, build) ==
    LET inode == IF f = "payload" THEN 1 ELSE 2
    IN  /\ content' = Append([content EXCEPT ![inode] = build], build)
        /\ bundle' = [bundle EXCEPT ![f] = inode]

\* cp or cat > into the directory just cleaned: a new inode.
WriteFile(f, build) ==
    /\ content' = Append(content, build)
    /\ bundle' = [bundle EXCEPT ![f] = Len(content) + 1]

BuildPayload ==
    /\ building
    /\ bundle["payload"] = Missing
    /\ WriteFile("payload", Runs + 1)
    /\ UNCHANGED <<building, output, previous, pc, stage, catalog, hardlink, moved, torn>>

\* shasum > SHA256SUMS, of the files that are there.
BuildSums ==
    /\ building
    /\ bundle["payload"] # Missing
    /\ WriteFile("SHA256SUMS", Runs)
    /\ building' = FALSE
    /\ UNCHANGED <<output, previous, pc, stage, catalog, hardlink, moved, torn>>

Builder == CleanBundle \/ BuildPayload \/ BuildSums

-----------------------------------------------------------------------------
\* Variant that takes any directory for one of its own.
AnyOutput == TRUE

\* require_safe_output: nothing, or a directory with the publisher's marker.
SafeOutput == output.kind # "foreign" /\ (output.kind = "site" => output.marked)

\* `except Exception` of prepare_site: the stage is removed.
Abort(p) ==
    /\ pc' = [pc EXCEPT ![p] = "ended"]
    /\ stage' = [stage EXCEPT ![p] = Absent]

\* An exception before the stage exists.
Refuse(p) ==
    /\ pc' = [pc EXCEPT ![p] = "ended"]
    /\ UNCHANGED stage

\* validate_bundles: every file present, and its digest the declared one.
Validate(p) ==
    /\ pc[p] = "idle"
    /\ IF \/ \E f \in Files : bundle[f] = Missing
          \/ content[bundle["payload"]] # content[bundle["SHA256SUMS"]]
       THEN Refuse(p) /\ UNCHANGED catalog
       ELSE /\ catalog' = [catalog EXCEPT ![p] = [f \in Files |-> content[bundle[f]]]]
            /\ pc' = [pc EXCEPT ![p] = "staging"]
            /\ UNCHANGED stage
    /\ UNCHANGED <<sources, output, previous, hardlink, moved, torn>>

\* require_safe_output, then mkdtemp.
MakeStage(p) ==
    /\ pc[p] = "staging"
    /\ IF SafeOutput
       THEN /\ stage' = [stage EXCEPT ![p] = EmptyStage]
            /\ pc' = [pc EXCEPT ![p] = "copying"]
       ELSE Refuse(p)
    /\ UNCHANGED <<sources, output, previous, catalog, hardlink, moved, torn>>

\* copy_regular, of a file that is still there.  A copy has an inode of its
\* own; it is modelled by the negative of the build it holds.
CopyFile(p, f) ==
    /\ pc[p] = "copying"
    /\ stage[p].files[f] = Missing
    /\ IF bundle[f] = Missing
       THEN Abort(p)
       ELSE /\ stage' = [stage EXCEPT ![p].files[f] =
                           IF hardlink[p] THEN bundle[f] ELSE -content[bundle[f]]]
            /\ UNCHANGED pc
    /\ UNCHANGED <<sources, output, previous, catalog, hardlink, moved, torn>>

\* The catalog of the validated profiles, and the generated marker.
WriteCatalog(p) ==
    /\ pc[p] = "copying"
    /\ \A f \in Files : stage[p].files[f] # Missing
    /\ stage' = [stage EXCEPT ![p].catalog = catalog[p], ![p].marked = TRUE,
                               ![p].torn = torn[p]]
    /\ pc' = [pc EXCEPT ![p] = "publish"]
    /\ UNCHANGED <<sources, output, previous, catalog, hardlink, moved, torn>>

\* publish_stage looks at the output.
LookAtOutput(p) ==
    /\ pc[p] = "publish"
    /\ \/ /\ ~SafeOutput
          /\ Abort(p)
       \/ /\ SafeOutput
          /\ pc' = [pc EXCEPT ![p] = IF output = Absent THEN "move in" ELSE "move away"]
          /\ UNCHANGED stage
    /\ UNCHANGED <<sources, output, previous, catalog, hardlink, moved, torn>>

\* Variant that deletes the old site before the new one is in.
DeleteOld(p) ==
    /\ pc[p] = "move away"
    /\ output' = Absent
    /\ pc' = [pc EXCEPT ![p] = "move in"]
    /\ UNCHANGED <<sources, previous, stage, catalog, hardlink, moved, torn>>

\* os.replace(output, previous).  Another publisher may have moved it already.
MoveAway(p) ==
    /\ pc[p] = "move away"
    /\ IF output = Absent \/ previous[p] # Absent
       THEN Abort(p) /\ UNCHANGED <<output, previous, moved>>
       ELSE /\ previous' = [previous EXCEPT ![p] = output]
            /\ output' = Absent
            /\ moved' = [moved EXCEPT ![p] = TRUE]
            /\ pc' = [pc EXCEPT ![p] = "move in"]
            /\ UNCHANGED stage
    /\ UNCHANGED <<sources, catalog, hardlink, torn>>

\* os.replace(stage, output), which fails over a directory with files in it.
MoveIn(p) ==
    /\ pc[p] = "move in"
    /\ output = Absent
    /\ output' = stage[p]
    /\ stage' = [stage EXCEPT ![p] = Absent]
    /\ pc' = [pc EXCEPT ![p] = IF moved[p] THEN "remove" ELSE "ended"]
    /\ UNCHANGED <<sources, previous, catalog, hardlink, moved, torn>>

\* Variant that leaves the old site where it was moved to.
KeepAway(p) == UNCHANGED <<output, previous>>

\* The handler of a failed second rename puts the old site back, unless the
\* output exists again.
PutBack(p) ==
    IF moved[p] /\ output = Absent
    THEN /\ output' = previous[p]
         /\ previous' = [previous EXCEPT ![p] = Absent]
    ELSE UNCHANGED <<output, previous>>

\* The second rename fails, because of another publisher or for reasons of its
\* own.
MoveInFails(p) ==
    /\ pc[p] = "move in"
    /\ PutBack(p)
    /\ Abort(p)
    /\ UNCHANGED <<sources, catalog, hardlink, moved, torn>>

\* shutil.rmtree(previous), which may fail.
RemovePrevious(p) ==
    /\ pc[p] = "remove"
    /\ previous' = [previous EXCEPT ![p] = Absent]
    /\ pc' = [pc EXCEPT ![p] = "ended"]
    /\ UNCHANGED <<sources, output, stage, catalog, hardlink, moved, torn>>

\* A call fails.
FailCall(p) ==
    /\ pc[p] \in {"staging", "copying", "publish", "move away", "remove"}
    /\ Abort(p)
    /\ UNCHANGED <<sources, output, previous, catalog, hardlink, moved, torn>>

\* The process dies, or KeyboardInterrupt passes `except Exception`.
Die(p) ==
    /\ pc[p] \notin {"idle", "ended", "dead"}
    /\ pc' = [pc EXCEPT ![p] = "dead"]
    /\ UNCHANGED <<sources, output, previous, stage, catalog, hardlink, moved, torn>>

Publisher(p) ==
    \/ Validate(p) \/ MakeStage(p) \/ (\E f \in Files : CopyFile(p, f))
    \/ WriteCatalog(p) \/ LookAtOutput(p) \/ MoveAway(p) \/ MoveIn(p)
    \/ MoveInFails(p) \/ RemovePrevious(p) \/ FailCall(p) \/ Die(p)

\* While no publisher runs the user may put a directory of their own there.
PutForeign ==
    /\ Idle
    /\ output = Absent
    /\ output' = Foreign
    /\ UNCHANGED <<sources, previous, pc, stage, catalog, hardlink, moved, torn>>

SiteNext == Builder \/ PutForeign \/ \E p \in Publishers : Publisher(p)

SiteSpec == SiteInit /\ [][SiteNext]_siteVars

-----------------------------------------------------------------------------
Holds(inode) == IF inode < 0 THEN -inode ELSE content[inode]

Complete(site) ==
    /\ site.kind = "site" /\ site.marked
    /\ \A f \in Files : site.files[f] # Missing /\ site.catalog[f] # Missing

Sites == {output} \cup {previous[p] : p \in Publishers}

\* What is at the output path is whole, with its marker and its catalog, and
\* every bundle file in it is the one the catalog gives the digest of, also
\* when the builder ran again after the site was published from hard links.
\* Excepted are sites whose publisher ran across a run of the builder
\* (prepare_site validates first and copies later).
CatalogTrue ==
    output.kind = "site" =>
      /\ Complete(output)
      /\ ~output.torn => \A f \in Files : Holds(output.files[f]) = output.catalog[f]

\* Once there is a site there always is one, at the output or where a dead
\* publisher had moved it (the two renames of publish_stage).
SiteNeverLost ==
    [][(\E site \in Sites : Complete(site)) =>
       (\E site \in Sites : Complete(site))']_siteVars

\* A publisher that fails leaves a site at the output: the only way to find
\* none there, and one set aside, is that a publisher died or is still at work
\* (the handler of publish_stage).
SiteRestored ==
    (\A p \in Publishers : pc[p] \in {"idle", "ended"}) =>
      \A p \in Publishers : moved[p] => output # Absent

\* A directory the publisher did not make is neither replaced nor moved away
\* (require_safe_output, called twice).
ForeignKept == [][output = Foreign => output' = Foreign]_siteVars
=============================================================================
