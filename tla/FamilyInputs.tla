---------------------------- MODULE FamilyInputs ----------------------------
(***************************************************************************)
(* The firmware input pipeline: generate-r39-seed.py has NVIDIA's tools    *)
(* sign the firmware of one module into a seed directory, and              *)
(* build-r39-family-inputs.py derives from the seed and NVIDIA's capsule   *)
(* the QSPI payloads, their flash index and the RCM components of any      *)
(* module.  Both may run several times at once, fail at any call, and die  *)
(* between any two.                                                        *)
(*                                                                         *)
(* A payload is a boot component around a record that says where it is     *)
(* from; of the 61 rows of the index, those are kept that are treated      *)
(* differently.                                                            *)
(***************************************************************************)
EXTENDS Firmware, SequencesExt

CONSTANTS
    Specs,      \* module specifications; the seed is of SeedSpec
    SeedSpec,
    Generators, \* runs of generate-r39-seed.py
    BuilderRuns \* runs of build-r39-family-inputs.py

ASSUME SeedAssumption == SeedSpec \in Specs /\ IsFiniteSet(Specs)

VARIABLES
    \* The seed generator.
    archive,    \* the BSP archive: "absent", "bsp" or "other"
    gpc,        \* generator -> the next thing it does
    seedOwner,  \* the generator that made the output directory, or None
    generated,  \* seed file -> its state in generated-signed
    signed,     \* seed file -> its state in signed
    \* The family builder.
    profile,    \* --profile of all the runs
    agree,      \* the seed's psc-fw is the one in the capsule
    bpc,        \* builder -> the next thing it does
    row,        \* builder -> rows of the index done
    temporary,  \* builder -> the files in its temporary directory
    index,      \* builder -> the rows of flash.idx written so far
    inputs      \* the output directory, or NoInputs

seedVars == <<archive, gpc, seedOwner, generated, signed>>
buildVars == <<profile, agree, bpc, row, temporary, index, inputs>>
familyVars == <<seedVars, buildVars>>

None == 0       \* no generator; generators are positive numbers
NoInputs == [present |-> FALSE]

-----------------------------------------------------------------------------
\* What a payload is from: a component for one module, or for all.
Raw(name, tnspec) ==
    [name |-> name, tnspec |-> tnspec, updated |-> FALSE, markers |-> 1,
     cvm |-> 256, cvb |-> 256, addresses |-> "A0AE", length |-> 4]

Magic(name) == IF name = "mb2" THEN "MB2B" ELSE "MBCT"

Entry(name, tnspec) ==
    [name |-> name, tnspec |-> tnspec, payload |-> Component(Magic(name), Raw(name, tnspec))]

\* The capsule's entries, in the order of its table.
Entries ==
    SetToSeq({Entry(name, spec) : name \in {"mb2", "bpmp-fw", "MB1_BCT"}, spec \in Specs}
             \cup {Entry("psc-fw", Shared)})

\* The seed's files and what is in them.  In any other state than "good" they
\* are not what their pinned digests say.
SeedFiles == {"eks", "psc-fw", "mb1-recovery"}

SeedPayload(file) ==
    CASE signed[file] # "good" -> Component("MBCT", Raw("garbage", Shared))
      [] file = "eks" -> Component("MBCT", Raw("eks", Shared))
      [] file = "psc-fw" ->
           IF agree THEN Component("MBCT", Raw("psc-fw", Shared))
                    ELSE Component("MBCT", Raw("psc-fw", SeedSpec))
      [] file = "mb1-recovery" ->
           Component("MBCT", [Raw("MB1_BCT", SeedSpec) EXCEPT !.updated = TRUE])

\* Rows of the seed's flash.idx: a partition, its chain, and its payload's file.
Row(chain, name, filename) == [chain |-> chain, name |-> name, filename |-> filename]
Rows == <<Row("A_", "mb2", <<"mb2", Shared>>), Row("A_", "bpmp-fw", <<"bpmp-fw", SeedSpec>>),
          Row("A_", "eks", <<"eks", Shared>>), Row("none", "reserved", <<>>),
          Row("B_", "psc-fw", <<"psc-fw", Shared>>), Row("B_", "mb2", <<"mb2", Shared>>)>>

\* verify_seed: every file is there with its pinned digest.
QualifiedSeed(directory) == \A file \in SeedFiles : directory[file] = "good"

NoSeed == [file \in SeedFiles |-> "absent"]

FamilyInit ==
    /\ archive \in {"absent", "bsp", "other"}
    /\ gpc = [g \in Generators |-> "start"]
    /\ seedOwner = None
    /\ generated = NoSeed
    /\ signed = NoSeed
    /\ profile \in Specs
    /\ agree \in BOOLEAN
    /\ bpc = [b \in BuilderRuns |-> "start"]
    /\ row = [b \in BuilderRuns |-> 0]
    /\ temporary = [b \in BuilderRuns |-> {}]
    /\ index = [b \in BuilderRuns |-> <<>>]
    /\ inputs = NoInputs

-----------------------------------------------------------------------------
\* generate-r39-seed.py.

Go(g, next) == gpc' = [gpc EXCEPT ![g] = next]

\* main refuses an existing output; ensure_archive downloads a missing archive.
StartSeed(g) ==
    /\ gpc[g] = "start"
    /\ Go(g, CASE seedOwner # None -> "ended"
               [] archive = "absent" -> "download"
               [] OTHER -> "verifyArchive")
    /\ UNCHANGED <<archive, seedOwner, generated, signed, buildVars>>

\* The download goes to a name of its own and is verified before it is renamed.
Download(g) ==
    /\ gpc[g] = "download"
    /\ archive' = "bsp"
    /\ Go(g, "verifyArchive")
    /\ UNCHANGED <<seedOwner, generated, signed, buildVars>>

VerifyArchive(g) ==
    /\ gpc[g] = "verifyArchive"
    /\ Go(g, IF archive = "bsp" THEN "mkdir" ELSE "ended")
    /\ UNCHANGED <<archive, seedOwner, generated, signed, buildVars>>

\* mkdir without exist_ok: the second generator fails here.
MakeSeedDirectory(g) ==
    /\ gpc[g] = "mkdir"
    /\ IF seedOwner = None
       THEN seedOwner' = g /\ Go(g, "sign")
       ELSE UNCHANGED seedOwner /\ Go(g, "ended")
    /\ UNCHANGED <<archive, generated, signed, buildVars>>

\* The container signs and copies the result out, perhaps not as pinned.
Sign(g) ==
    /\ gpc[g] = "sign"
    /\ \E state \in {"good", "other"} :
         generated' = [file \in SeedFiles |-> IF file = "eks" THEN state ELSE "good"]
    /\ Go(g, "verifyGenerated")
    /\ UNCHANGED <<archive, seedOwner, signed, buildVars>>

VerifyGenerated(g) ==
    /\ gpc[g] = "verifyGenerated"
    /\ Go(g, IF QualifiedSeed(generated) THEN "copy" ELSE "ended")
    /\ UNCHANGED <<archive, seedOwner, generated, signed, buildVars>>

\* shutil.copy2 of one file, which a reader can see half done.
CopySeedFile(g) ==
    /\ gpc[g] = "copy"
    /\ \E file \in SeedFiles :
         /\ signed[file] \in {"absent", "partial"}
         /\ \A other \in SeedFiles \ {file} : signed[other] # "partial"
         /\ signed' = [signed EXCEPT ![file] =
                         IF @ = "absent" THEN "partial" ELSE generated[file]]
    /\ UNCHANGED <<archive, gpc, seedOwner, generated, buildVars>>

\* generated-signed is removed and the copy verified.
FinishSeed(g) ==
    /\ gpc[g] = "copy"
    /\ QualifiedSeed(signed)
    /\ generated' = NoSeed
    /\ Go(g, "ended")
    /\ UNCHANGED <<archive, seedOwner, signed, buildVars>>

\* A call fails, or the process dies; what it made stays.
FailSeed(g) ==
    /\ gpc[g] \notin {"start", "ended"}
    /\ Go(g, "ended")
    /\ UNCHANGED <<archive, seedOwner, generated, signed, buildVars>>

Generator(g) ==
    \/ StartSeed(g) \/ Download(g) \/ VerifyArchive(g) \/ MakeSeedDirectory(g)
    \/ Sign(g) \/ VerifyGenerated(g) \/ CopySeedFile(g) \/ FinishSeed(g) \/ FailSeed(g)

-----------------------------------------------------------------------------
\* build-r39-family-inputs.py.

Proceed(b, next) == bpc' = [bpc EXCEPT ![b] = next]

\* `except BaseException`: the temporary directory is removed.
AbortBuild(b) ==
    /\ Proceed(b, "ended")
    /\ temporary' = [temporary EXCEPT ![b] = {}]

\* build refuses an existing output and an unqualified seed.
StartBuild(b) ==
    /\ bpc[b] = "start"
    /\ Proceed(b, IF inputs.present \/ ~QualifiedSeed(signed) THEN "ended" ELSE "rows")
    /\ UNCHANGED <<seedVars, profile, agree, row, temporary, index, inputs>>

Named(files, name) == {f \in files : f.name = name}

\* Variant that overwrites a file of that name.
PutOver(files, name, payload) ==
    (files \ Named(files, name)) \cup {[name |-> name, payload |-> payload]}

\* put_file: one name, one payload.  {} is a failure.
PutFile(files, name, payload) ==
    IF \E f \in Named(files, name) : f.payload # payload
    THEN {} ELSE files \cup {[name |-> name, payload |-> payload]}

\* qspi_filename: the index of the seed names the seed's files.
QspiFilename(r) == IF r.name = "bpmp-fw" THEN <<r.name, profile>> ELSE r.filename

\* The payload of a row; the chain, A_ or B_, makes no difference
\* (canonical_partition).
RowPayload(r) ==
    LET selected == SelectEntry(Entries, r.name, profile)
    IN  CASE r.name = "eks" -> SeedPayload("eks")
          [] r.name = "mb2" -> DisableAbsentCvbEeprom(selected.payload)
          [] OTHER -> selected.payload

\* One turn of the loop of build_flash_index.
BuildRow(b) ==
    LET r == Rows[row[b] + 1]
        payload == RowPayload(r)
        files == PutFile(temporary[b], QspiFilename(r), payload)
    IN  /\ bpc[b] = "rows"
        /\ row[b] < Len(Rows)
        /\ CASE r.filename = <<>> ->
                  /\ index' = [index EXCEPT ![b] = Append(@, [name |-> r.name, filename |-> <<>>])]
                  /\ row' = [row EXCEPT ![b] = @ + 1]
                  /\ UNCHANGED <<bpc, temporary>>
             [] r.filename # <<>> /\ files = {} ->
                  AbortBuild(b) /\ UNCHANGED <<index, row>>
             [] OTHER ->
                  /\ temporary' = [temporary EXCEPT ![b] = files]
                  /\ index' = [index EXCEPT ![b] = Append(@,
                       [name |-> r.name, filename |-> QspiFilename(r), digest |-> Digest(payload)])]
                  /\ row' = [row EXCEPT ![b] = @ + 1]
                  /\ UNCHANGED bpc
        /\ UNCHANGED <<seedVars, profile, agree, inputs>>

\* COMMON_RCM_FILES are taken from the seed.
PutCommon(b) ==
    LET eks == PutFile(temporary[b], <<"eks", Shared>>, SeedPayload("eks"))
        files == IF eks = {} THEN {} ELSE PutFile(eks, <<"psc-fw", Shared>>, SeedPayload("psc-fw"))
    IN  /\ bpc[b] = "rows"
        /\ row[b] = Len(Rows)
        /\ IF files = {}
           THEN AbortBuild(b)
           ELSE /\ temporary' = [temporary EXCEPT ![b] = files]
                /\ Proceed(b, "components")
        /\ UNCHANGED <<seedVars, profile, agree, row, index, inputs>>

\* build_rcm_components: what changed from the seed's cold-boot table to its
\* recovery one is applied to the module's own, whose component is then rebuilt.
\* The seed's own module must come out as NVIDIA signed it.
BuildRcmComponents(b) ==
    LET selected == SelectEntry(Entries, "MB1_BCT", profile).payload.payload
        rebuilt == Component("MBCT", [selected EXCEPT !.updated = TRUE])
    IN  /\ bpc[b] = "components"
        /\ IF profile = SeedSpec /\ rebuilt # SeedPayload("mb1-recovery")
           THEN AbortBuild(b)
           ELSE /\ temporary' = [temporary EXCEPT ![b] =
                     PutOver(@, <<"mb1-recovery", Shared>>, rebuilt)]
                /\ Proceed(b, "publish")
        /\ UNCHANGED <<seedVars, profile, agree, row, index, inputs>>

Sums(files) == {[name |-> f.name, digest |-> Digest(f.payload)] : f \in files}

\* write_marker_and_sums, then os.replace, which fails over a directory with
\* files in it.
PublishInputs(b) ==
    /\ bpc[b] = "publish"
    /\ IF inputs.present
       THEN AbortBuild(b) /\ UNCHANGED inputs
       ELSE /\ inputs' = [present |-> TRUE, files |-> temporary[b], index |-> index[b],
                          sums |-> Sums(temporary[b])]
            /\ temporary' = [temporary EXCEPT ![b] = {}]
            /\ Proceed(b, "ended")
    /\ UNCHANGED <<seedVars, profile, agree, row, index>>

\* Any call may fail.
FailBuild(b) ==
    /\ bpc[b] \notin {"start", "ended"}
    /\ AbortBuild(b)
    /\ UNCHANGED <<seedVars, profile, agree, row, index, inputs>>

\* The process dies and leaves its temporary directory.
DieBuilding(b) ==
    /\ bpc[b] \notin {"start", "ended"}
    /\ Proceed(b, "ended")
    /\ UNCHANGED <<seedVars, profile, agree, row, temporary, index, inputs>>

Build(b) ==
    \/ StartBuild(b) \/ BuildRow(b) \/ PutCommon(b) \/ BuildRcmComponents(b)
    \/ PublishInputs(b) \/ FailBuild(b) \/ DieBuilding(b)

-----------------------------------------------------------------------------
\* prepare_family_inputs of helm-macos, before it runs the builder: the directory
\* that holds the inputs, and what dead runs left next to them, is emptied.  Its
\* runs for a profile follow one another, and emptying is one step.
CleanProfileDirectory ==
    /\ \A b \in BuilderRuns : bpc[b] \in {"start", "ended"}
    /\ \E b \in BuilderRuns : bpc[b] = "start"
    /\ inputs' = NoInputs
    /\ temporary' = [b \in BuilderRuns |-> {}]
    /\ UNCHANGED <<seedVars, profile, agree, bpc, row, index>>

FamilyNext ==
    \/ \E g \in Generators : Generator(g)
    \/ \E b \in BuilderRuns : Build(b)
    \/ CleanProfileDirectory

FamilySpec == FamilyInit /\ [][FamilyNext]_familyVars

-----------------------------------------------------------------------------
\* An output directory that exists is complete and agrees with itself: there
\* is a row for every partition; its file is there, under one name for both
\* chains, with the digest the row gives and the payload of that partition, of
\* this module or of all, MB2 with its carrier EEPROM disabled; the recovery
\* table is this module's and updated; and SHA256SUMS tells the truth of every
\* file.  (build: temporary directory and os.replace; put_file.)
InputsWhole ==
    inputs.present =>
      /\ Len(inputs.index) = Len(Rows)
      /\ \A i \in DOMAIN Rows :
           LET r == inputs.index[i]
           IN  Rows[i].filename # <<>> =>
                 \E f \in inputs.files :
                   /\ Named(inputs.files, r.filename) = {f}
                   /\ r.digest = Digest(f.payload)
                   /\ f.payload.payload.name = Rows[i].name
                   /\ f.payload.payload.tnspec \in {profile, Shared}
                   /\ Rows[i].name = "mb2" =>
                        f.payload.payload.cvb = 0 /\ SinglePayload(f.payload, "MB2B")
      /\ \A f \in Named(inputs.files, <<"mb1-recovery", Shared>>) :
           f.payload.payload = [Raw("MB1_BCT", profile) EXCEPT !.updated = TRUE]
      /\ Named(inputs.files, <<"mb1-recovery", Shared>>) # {}
      /\ inputs.sums = Sums(inputs.files)
=============================================================================
