------------------------------ MODULE SiteProofs ------------------------------
(***************************************************************************)
(* What holds of Site for any number of publishers and of builds, with     *)
(* failures and crashes between any two calls: a site is never lost, what  *)
(* is published agrees with its catalog, a publisher that fails leaves a   *)
(* site, and a directory of the user's is left alone.                      *)
(***************************************************************************)
EXTENDS Site, TLAPS

Directories ==
    [files: [Files -> Int], catalog: [Files -> Int], marked: BOOLEAN,
     torn: BOOLEAN, kind: {"absent", "site", "foreign"}]

Steps == {"idle", "staging", "copying", "publish", "move away", "move in",
          "remove", "ended", "dead"}

\* An inode in a directory is a copy, or one of those there are.
Known(directory) == \A f \in Files : directory.files[f] <= Len(content)

SiteTypeOK ==
    /\ content \in Seq(Nat \ {0}) /\ Len(content) > 0
    /\ bundle \in [Files -> 0..Len(content)]
    /\ building \in BOOLEAN
    /\ output \in Directories
    /\ previous \in [Publishers -> Directories]
    /\ pc \in [Publishers -> Steps]
    /\ stage \in [Publishers -> Directories]
    /\ catalog \in [Publishers -> [Files -> Int]]
    /\ hardlink \in [Publishers -> BOOLEAN]
    /\ moved \in [Publishers -> BOOLEAN]
    /\ torn \in [Publishers -> BOOLEAN]

-----------------------------------------------------------------------------
\* The directories the model names are directories.
LEMMA Named == /\ Absent \in Directories
               /\ EmptyStage \in Directories
               /\ Foreign \in Directories
               /\ Leftover \in Directories
               /\ Absent.kind = "absent" /\ EmptyStage.kind = "site"
               /\ Foreign.kind = "foreign" /\ Leftover.kind = "site"
<1>1. Absent \in Directories /\ Absent.kind = "absent"
  BY DEF Absent, Directories, NoFiles, Missing, Files
<1>2. EmptyStage \in Directories /\ EmptyStage.kind = "site"
  BY <1>1 DEF EmptyStage, Directories
<1>3. Foreign \in Directories /\ Foreign.kind = "foreign"
  BY <1>1 DEF Foreign, Directories
<1>4. Leftover \in Directories /\ Leftover.kind = "site"
  BY DEF Leftover, Directories, Files
<1> QED
  BY <1>1, <1>2, <1>3, <1>4

\* A new inode leaves the old ones as they are.
LEMMA Grows ==
    ASSUME content \in Seq(Nat \ {0}), NEW build \in Nat \ {0},
           content' = Append(content, build)
    PROVE  /\ content' \in Seq(Nat \ {0})
           /\ Len(content') = Len(content) + 1
           /\ content'[Len(content) + 1] = build
           /\ \A i \in 1..Len(content) : content'[i] = content[i]
BY SMT

\* The inode of a file that is there holds a build.
LEMMA Inodes ==
    ASSUME SiteTypeOK, NEW f \in Files, bundle[f] # Missing
    PROVE  bundle[f] \in 1..Len(content) /\ content[bundle[f]] \in Nat \ {0}
<1>1. Len(content) \in Nat /\ content \in [1..Len(content) -> Nat \ {0}]
  BY DEF SiteTypeOK
<1>2. bundle[f] \in 0..Len(content)
  BY DEF SiteTypeOK
<1>3. bundle[f] \in 1..Len(content)
  BY <1>1, <1>2 DEF Missing
<1> QED
  BY <1>1, <1>3

\* A directory with a file added is a directory.
LEMMA FileAdded ==
    ASSUME NEW directory \in Directories, NEW f \in Files, NEW inode \in Int
    PROVE  [directory EXCEPT !.files[f] = inode] \in Directories
<1>1. directory.files \in [Files -> Int]
  BY DEF Directories
<1>2. [directory.files EXCEPT ![f] = inode] \in [Files -> Int]
  BY <1>1
<1> QED
  BY <1>2 DEF Directories

\* A directory with its catalog and marker written is a directory.
LEMMA CatalogAdded ==
    ASSUME NEW directory \in Directories, NEW c \in [Files -> Int], NEW t \in BOOLEAN
    PROVE  [directory EXCEPT !.catalog = c, !.marked = TRUE, !.torn = t] \in Directories
BY DEF Directories

LEMMA SiteTypeInit == SiteInit => SiteTypeOK
<1> SUFFICES ASSUME SiteInit PROVE SiteTypeOK
  OBVIOUS
<1>1. content \in Seq(Nat \ {0}) /\ Len(content) = 2
  BY DEF SiteInit
<1>2. bundle \in [Files -> 0..Len(content)]
  BY <1>1 DEF SiteInit, Files
<1>3. catalog \in [Publishers -> [Files -> Int]]
  BY DEF SiteInit, NoFiles, Missing
<1>4. previous \in [Publishers -> Directories]
  BY Named DEF SiteInit
<1>5. output \in Directories /\ stage \in [Publishers -> Directories]
  BY Named DEF SiteInit
<1>6. pc \in [Publishers -> Steps]
  BY DEF SiteInit, Steps
<1>7. /\ building \in BOOLEAN /\ hardlink \in [Publishers -> BOOLEAN]
      /\ moved \in [Publishers -> BOOLEAN] /\ torn \in [Publishers -> BOOLEAN]
  BY DEF SiteInit
<1> QED
  BY <1>1, <1>2, <1>3, <1>4, <1>5, <1>6, <1>7 DEF SiteTypeOK

\* The builder keeps the types.
LEMMA BuilderType == SiteTypeOK /\ Builder => SiteTypeOK'
<1> SUFFICES ASSUME SiteTypeOK, Builder PROVE SiteTypeOK'
  OBVIOUS
<1>1. CASE CleanBundle
  <2>1. bundle' \in [Files -> 0..Len(content')]
    BY <1>1 DEF CleanBundle, NoFiles, Missing, SiteTypeOK
  <2> QED
    BY <1>1, <2>1 DEF CleanBundle, SiteTypeOK
<1>2. ASSUME NEW f \in Files, NEW build \in Nat \ {0}, WriteFile(f, build)
      PROVE  /\ content' \in Seq(Nat \ {0}) /\ Len(content') > 0
             /\ bundle' \in [Files -> 0..Len(content')]
  BY <1>2, Grows DEF WriteFile, SiteTypeOK
<1>3. Runs \in Nat \ {0} /\ Runs + 1 \in Nat \ {0}
  BY DEF Runs, SiteTypeOK
<1>4. CASE BuildPayload
  BY <1>2, <1>3, <1>4 DEF BuildPayload, SiteTypeOK, Files
<1>5. CASE BuildSums
  BY <1>2, <1>3, <1>5 DEF BuildSums, SiteTypeOK, Files
<1> QED
  BY <1>1, <1>4, <1>5 DEF Builder

LEMMA SiteTypeNext == SiteTypeOK /\ [SiteNext]_siteVars => SiteTypeOK'
<1> SUFFICES ASSUME SiteTypeOK, [SiteNext]_siteVars PROVE SiteTypeOK'
  OBVIOUS
<1>0. \A f \in Files : bundle[f] # Missing =>
                           bundle[f] \in Int /\ content[bundle[f]] \in Int
  BY Inodes
<1> USE DEF SiteTypeOK, sources, Steps
<1>1. CASE Builder
  BY <1>1, BuilderType
<1>2. CASE PutForeign
  BY <1>2, Named DEF PutForeign
<1>3. ASSUME NEW p \in Publishers, Publisher(p) PROVE SiteTypeOK'
  <2>1. CASE Validate(p)
    <3> DEFINE seen == [f \in Files |-> content[bundle[f]]]
    <3>1. CASE UNCHANGED catalog
      BY <2>1, <3>1 DEF Validate, Refuse
    <3>2. CASE /\ \A f \in Files : bundle[f] # Missing
               /\ catalog' = [catalog EXCEPT ![p] = seen]
      <4>1. seen \in [Files -> Int]
        BY <1>0, <3>2
      <4> HIDE DEF seen
      <4>2. catalog' \in [Publishers -> [Files -> Int]]
        BY <3>2, <4>1
      <4>3. pc' \in [Publishers -> Steps]
        BY <2>1 DEF Validate, Refuse
      <4> QED
        BY <2>1, <4>2, <4>3 DEF Validate, Refuse
    <3> QED
      BY <2>1, <3>1, <3>2 DEF Validate
  <2>2. CASE MakeStage(p)
    BY <2>2, Named DEF MakeStage, Refuse
  <2>3. ASSUME NEW f \in Files, CopyFile(p, f) PROVE SiteTypeOK'
    <3>1. CASE bundle[f] = Missing
      BY <2>3, <3>1, Named DEF CopyFile, Abort
    <3>2. CASE bundle[f] # Missing
      <4> DEFINE inode == IF hardlink[p] THEN bundle[f] ELSE -content[bundle[f]]
                 added == [stage[p] EXCEPT !.files[f] = inode]
      <4>1. inode \in Int
        <5> HIDE DEF SiteTypeOK
        <5>1. bundle[f] \in Int /\ content[bundle[f]] \in Int
          BY <1>0, <3>2
        <5> QED
          BY <5>1
      <4>2. stage' = [stage EXCEPT ![p] = added]
        BY <2>3, <3>2 DEF CopyFile
      <4> HIDE DEF inode
      <4>3. added \in Directories
        BY <4>1, FileAdded
      <4> HIDE DEF added
      <4>4. stage' \in [Publishers -> Directories]
        BY <4>2, <4>3
      <4> QED
        BY <2>3, <3>2, <4>4 DEF CopyFile
    <3> QED
      BY <3>1, <3>2
  <2>4. CASE WriteCatalog(p)
    <3> DEFINE done == [stage[p] EXCEPT !.catalog = catalog[p], !.marked = TRUE,
                                        !.torn = torn[p]]
    <3>1. done \in Directories
      BY CatalogAdded
    <3>2. stage' = [stage EXCEPT ![p] = done]
      BY <2>4 DEF WriteCatalog
    <3> HIDE DEF done
    <3>3. stage' \in [Publishers -> Directories]
      BY <3>1, <3>2
    <3> QED
      BY <2>4, <3>3 DEF WriteCatalog
  <2>5. CASE LookAtOutput(p)
    BY <2>5, Named DEF LookAtOutput, Abort
  <2>6. CASE MoveAway(p)
    BY <2>6, Named DEF MoveAway, Abort
  <2>7. CASE MoveIn(p)
    BY <2>7, Named DEF MoveIn
  <2>8. CASE MoveInFails(p)
    <3>1. stage' \in [Publishers -> Directories] /\ pc' \in [Publishers -> Steps]
      BY <2>8, Named DEF MoveInFails, Abort
    <3>2. CASE moved[p] /\ output = Absent
      <4>1. output' = previous[p] /\ previous' = [previous EXCEPT ![p] = Absent]
        BY <2>8, <3>2 DEF MoveInFails, PutBack
      <4>2. output' \in Directories /\ previous' \in [Publishers -> Directories]
        BY <4>1, Named
      <4> QED
        BY <2>8, <3>1, <4>2 DEF MoveInFails
    <3>3. CASE ~(moved[p] /\ output = Absent)
      BY <2>8, <3>1, <3>3 DEF MoveInFails, PutBack
    <3> QED
      BY <3>2, <3>3
  <2>9. CASE RemovePrevious(p)
    BY <2>9, Named DEF RemovePrevious
  <2>10. CASE FailCall(p)
    BY <2>10, Named DEF FailCall, Abort
  <2>11. CASE Die(p)
    BY <2>11 DEF Die
  <2> QED
    BY <1>3, <2>1, <2>2, <2>3, <2>4, <2>5, <2>6, <2>7, <2>8, <2>9, <2>10, <2>11
       DEF Publisher
<1>4. CASE UNCHANGED siteVars
  BY <1>4 DEF siteVars
<1> QED
  BY <1>1, <1>2, <1>3, <1>4 DEF SiteNext

\* Every variable of the publishers and the builder keeps its type.
THEOREM SiteTypeCorrect == SiteSpec => []SiteTypeOK
BY SiteTypeInit, SiteTypeNext, PTL DEF SiteSpec
-----------------------------------------------------------------------------
\* What a publisher has read is there, its stage is whole before it is moved,
\* and it is none of the user's.
StageWhole ==
    \A p \in Publishers :
      /\ pc[p] \in {"staging", "copying"} => \A f \in Files : catalog[p][f] # Missing
      /\ pc[p] = "copying" => stage[p].kind = "site"
      /\ pc[p] \in {"publish", "move away", "move in"} => Complete(stage[p])

\* Only what was looked at is moved away, and what was moved away can be put
\* back.
MovedAside ==
    \A p \in Publishers :
      /\ pc[p] = "move away" => output.kind # "foreign"
      /\ pc[p] \in {"idle", "staging", "copying", "publish", "move away"} => ~moved[p]
      /\ pc[p] = "move in" /\ moved[p] => previous[p] # Absent
      /\ previous[p].kind # "foreign"

\* A publisher that found none at the output, or died, explains its absence.
Restorable ==
    output = Absent =>
      \A p \in Publishers : moved[p] =>
        \E q \in Publishers : pc[q] = "dead" \/ (pc[q] = "move in" /\ moved[q])

\* An old site is removed when there is another.
Replaced ==
    \A p \in Publishers : pc[p] = "remove" =>
      \/ Complete(output)
      \/ \E q \in Publishers : pc[q] # "remove" /\ Complete(previous[q])

SiteSafe == SiteTypeOK /\ StageWhole /\ MovedAside /\ Restorable /\ Replaced

LEMMA SafeInit == SiteInit => SiteSafe
<1> SUFFICES ASSUME SiteInit PROVE SiteSafe
  OBVIOUS
<1>1. SiteTypeOK
  BY SiteTypeInit
<1>2. StageWhole
  BY DEF SiteInit, StageWhole
<1>3. \A p \in Publishers :
        previous[p] \in {Absent, Leftover} /\ pc[p] = "idle" /\ ~moved[p]
  BY DEF SiteInit
<1>4. MovedAside
  BY <1>3, Named DEF MovedAside
<1> QED
  BY <1>1, <1>2, <1>3, <1>4 DEF SiteSafe, Restorable, Replaced

\* No directory is whole that is absent or the user's.
LEMMA NotWhole == ~Complete(Absent) /\ ~Complete(Foreign)
BY Named DEF Complete

LEMMA SafeNext == SiteSafe /\ [SiteNext]_siteVars => SiteSafe'
<1> SUFFICES ASSUME SiteSafe, [SiteNext]_siteVars PROVE SiteSafe'
  OBVIOUS
<1>1. SiteTypeOK /\ SiteTypeOK'
  BY SiteTypeNext DEF SiteSafe
<1>2. /\ pc \in [Publishers -> Steps] /\ stage \in [Publishers -> Directories]
      /\ previous \in [Publishers -> Directories] /\ moved \in [Publishers -> BOOLEAN]
      /\ catalog \in [Publishers -> [Files -> Int]]
  BY <1>1 DEF SiteTypeOK
<1> SUFFICES StageWhole' /\ MovedAside' /\ Restorable' /\ Replaced'
  BY <1>1 DEF SiteSafe
<1>3. StageWhole /\ MovedAside /\ Restorable /\ Replaced
  BY DEF SiteSafe
<1>4. CASE UNCHANGED <<output, previous, pc, stage, catalog, moved>>
  BY <1>3, <1>4 DEF StageWhole, MovedAside, Restorable, Replaced, Complete
<1>5. CASE Builder
  BY <1>4, <1>5 DEF Builder, CleanBundle, BuildPayload, BuildSums
<1>6. CASE PutForeign
  <2>1. /\ output = Absent /\ output' = Foreign
        /\ UNCHANGED <<previous, pc, stage, catalog, moved>>
        /\ \A p \in Publishers : pc[p] \in {"idle", "ended", "dead"}
    BY <1>6 DEF PutForeign, Idle
  <2> QED
    BY <1>3, <2>1, Named, NotWhole
       DEF StageWhole, MovedAside, Restorable, Replaced, Complete
<1>7. ASSUME NEW p \in Publishers, Publisher(p)
      PROVE  StageWhole' /\ MovedAside' /\ Restorable' /\ Replaced'
  \* A step that only gives up, or goes on, before anything is moved.
  <2>1. CASE Validate(p)
    <3> DEFINE seen == [f \in Files |-> content[bundle[f]]]
    <3>1. UNCHANGED <<output, previous, stage, moved>> /\ pc[p] = "idle"
      BY <2>1 DEF Validate, Refuse
    <3>2. CASE pc' = [pc EXCEPT ![p] = "ended"] /\ UNCHANGED catalog
      <4>1. StageWhole'
        BY <1>2, <1>3, <3>1, <3>2 DEF StageWhole, Complete
      <4> QED
        BY <1>2, <1>3, <3>1, <3>2, <4>1 DEF MovedAside, Restorable, Replaced, Complete
    <3>3. CASE /\ pc' = [pc EXCEPT ![p] = "staging"]
               /\ \A f \in Files : bundle[f] # Missing
               /\ catalog' = [catalog EXCEPT ![p] = seen]
      <4>1. \A f \in Files : seen[f] # Missing
        BY <1>1, <3>3, Inodes DEF Missing
      <4> HIDE DEF seen
      <4>2. StageWhole'
        BY <1>2, <1>3, <3>1, <3>3, <4>1 DEF StageWhole, Complete
      <4> QED
        BY <1>2, <1>3, <3>1, <3>3, <4>2 DEF MovedAside, Restorable, Replaced, Complete
    <3> QED
      BY <2>1, <3>2, <3>3 DEF Validate, Refuse
  <2>2. CASE MakeStage(p)
    <3>1. UNCHANGED <<output, previous, catalog, moved>> /\ pc[p] = "staging"
      BY <2>2 DEF MakeStage
    <3>2. CASE pc' = [pc EXCEPT ![p] = "ended"] /\ UNCHANGED stage
      <4>1. StageWhole'
        BY <1>2, <1>3, <3>1, <3>2 DEF StageWhole, Complete
      <4> QED
        BY <1>2, <1>3, <3>1, <3>2, <4>1 DEF MovedAside, Restorable, Replaced, Complete
    <3>3. CASE /\ pc' = [pc EXCEPT ![p] = "copying"]
               /\ stage' = [stage EXCEPT ![p] = EmptyStage]
      <4>1. StageWhole'
        BY <1>2, <1>3, <3>1, <3>3, Named DEF StageWhole, Complete
      <4> QED
        BY <1>2, <1>3, <3>1, <3>3, <4>1 DEF MovedAside, Restorable, Replaced, Complete
    <3> QED
      BY <2>2, <3>2, <3>3 DEF MakeStage, Refuse
  <2>3. ASSUME NEW q \in Publishers, pc[q] # "dead", pc[q] # "move in", Abort(q),
               UNCHANGED <<output, previous, catalog, moved>>
        PROVE  StageWhole' /\ MovedAside' /\ Restorable' /\ Replaced'
    <3>1. /\ pc' = [pc EXCEPT ![q] = "ended"]
          /\ stage' = [stage EXCEPT ![q] = Absent]
      BY <2>3 DEF Abort
    <3>2. StageWhole'
      BY <1>2, <1>3, <2>3, <3>1 DEF StageWhole, Complete
    <3>3. Replaced'
      BY <1>2, <1>3, <2>3, <3>1 DEF Replaced, Complete
    <3> QED
      BY <1>2, <1>3, <2>3, <3>1, <3>2, <3>3 DEF MovedAside, Restorable
  <2>4. ASSUME NEW f \in Files, CopyFile(p, f)
        PROVE  StageWhole' /\ MovedAside' /\ Restorable' /\ Replaced'
    <3>1. UNCHANGED <<output, previous, catalog, moved>> /\ pc[p] = "copying"
      BY <2>4 DEF CopyFile
    <3>2. CASE bundle[f] = Missing
      BY <2>3, <2>4, <3>1, <3>2 DEF CopyFile
    <3>3. CASE bundle[f] # Missing
      <4>1. PICK inode : stage' = [stage EXCEPT ![p].files[f] = inode]
        BY <2>4, <3>3 DEF CopyFile
      <4>2. UNCHANGED pc
        BY <2>4, <3>3 DEF CopyFile
      <4>3. /\ stage'[p].kind = stage[p].kind
            /\ \A q \in Publishers \ {p} : stage'[q] = stage[q]
        BY <1>2, <4>1 DEF Directories
      <4>4. StageWhole'
        BY <1>2, <1>3, <3>1, <4>2, <4>3 DEF StageWhole, Complete
      <4> QED
        BY <1>3, <3>1, <4>2, <4>4 DEF MovedAside, Restorable, Replaced, Complete
    <3> QED
      BY <3>2, <3>3
  <2>5. CASE WriteCatalog(p)
    <3> DEFINE done == [stage[p] EXCEPT !.catalog = catalog[p], !.marked = TRUE,
                                        !.torn = torn[p]]
    <3>1. /\ UNCHANGED <<output, previous, catalog, moved>> /\ pc[p] = "copying"
          /\ pc' = [pc EXCEPT ![p] = "publish"]
          /\ stage' = [stage EXCEPT ![p] = done]
          /\ \A f \in Files : stage[p].files[f] # Missing
      BY <2>5 DEF WriteCatalog
    <3>2. /\ done.files = stage[p].files /\ done.catalog = catalog[p]
          /\ done.marked /\ done.kind = stage[p].kind
      BY <1>2 DEF Directories
    <3> HIDE DEF done
    <3>3. Complete(done)
      BY <1>3, <3>1, <3>2 DEF StageWhole, Complete
    <3>4. StageWhole'
      BY <1>2, <1>3, <3>1, <3>3 DEF StageWhole, Complete
    <3> QED
      BY <1>2, <1>3, <3>1, <3>4 DEF MovedAside, Restorable, Replaced, Complete
  <2>6. CASE LookAtOutput(p)
    <3>1. UNCHANGED <<output, previous, catalog, moved>> /\ pc[p] = "publish"
      BY <2>6 DEF LookAtOutput
    <3>2. CASE Abort(p)
      BY <2>3, <3>1, <3>2
    <3>3. CASE ~Abort(p)
      <4>1. /\ output.kind # "foreign" /\ UNCHANGED stage
            /\ \/ pc' = [pc EXCEPT ![p] = "move in"]
               \/ pc' = [pc EXCEPT ![p] = "move away"]
        BY <2>6, <3>3 DEF LookAtOutput, SafeOutput
      <4>2. StageWhole'
        BY <1>2, <1>3, <3>1, <4>1 DEF StageWhole, Complete
      <4>3. MovedAside'
        BY <1>2, <1>3, <3>1, <4>1 DEF MovedAside
      <4> QED
        BY <1>2, <1>3, <3>1, <4>1, <4>2, <4>3 DEF Restorable, Replaced, Complete
    <3> QED
      BY <3>2, <3>3
  <2>7. CASE MoveAway(p)
    <3>1. CASE Abort(p) /\ UNCHANGED <<output, previous, moved>>
      BY <2>3, <2>7, <3>1 DEF MoveAway
    <3>2. CASE /\ output # Absent /\ previous[p] = Absent
               /\ previous' = [previous EXCEPT ![p] = output]
               /\ output' = Absent
               /\ moved' = [moved EXCEPT ![p] = TRUE]
               /\ pc' = [pc EXCEPT ![p] = "move in"]
               /\ UNCHANGED stage
      <4>1. pc[p] = "move away" /\ UNCHANGED catalog
        BY <2>7 DEF MoveAway
      <4>2. StageWhole'
        BY <1>2, <1>3, <3>2, <4>1 DEF StageWhole, Complete
      <4>3. MovedAside'
        BY <1>2, <1>3, <3>2, <4>1, Named DEF MovedAside
      <4>4. Restorable'
        BY <1>2, <3>2 DEF Restorable
      <4>5. ~Complete(previous[p])
        BY <3>2, NotWhole
      <4>6. Replaced'
        BY <1>2, <1>3, <3>2, <4>1, <4>5 DEF Replaced, Complete
      <4> QED
        BY <4>2, <4>3, <4>4, <4>6
    <3> QED
      BY <2>7, <3>1, <3>2 DEF MoveAway
  <2>8. CASE MoveIn(p)
    <3>1. /\ pc[p] = "move in" /\ output' = stage[p]
          /\ stage' = [stage EXCEPT ![p] = Absent]
          /\ pc' = [pc EXCEPT ![p] = IF moved[p] THEN "remove" ELSE "ended"]
          /\ UNCHANGED <<previous, catalog, moved>>
      BY <2>8 DEF MoveIn
    <3>2. Complete(stage[p])
      BY <1>3, <3>1 DEF StageWhole
    <3>3. output'.kind = "site"
      BY <3>1, <3>2 DEF Complete
    <3>4. StageWhole'
      BY <1>2, <1>3, <3>1 DEF StageWhole, Complete
    <3>5. MovedAside'
      BY <1>2, <1>3, <3>1, <3>3 DEF MovedAside
    <3>6. Restorable'
      BY <3>3, Named DEF Restorable
    <3>7. Replaced'
      BY <3>1, <3>2 DEF Replaced, Complete
    <3> QED
      BY <3>4, <3>5, <3>6, <3>7
  <2>9. CASE MoveInFails(p)
    <3>1. /\ pc[p] = "move in" /\ UNCHANGED <<catalog, moved>>
          /\ pc' = [pc EXCEPT ![p] = "ended"]
          /\ stage' = [stage EXCEPT ![p] = Absent]
      BY <2>9 DEF MoveInFails, Abort
    <3>2. StageWhole'
      BY <1>2, <1>3, <3>1 DEF StageWhole, Complete
    <3>3. CASE moved[p] /\ output = Absent
      <4>1. output' = previous[p] /\ previous' = [previous EXCEPT ![p] = Absent]
        BY <2>9, <3>3 DEF MoveInFails, PutBack
      <4>2. previous[p] # Absent /\ previous[p].kind # "foreign"
        BY <1>3, <3>1, <3>3 DEF MovedAside
      <4>3. MovedAside'
        BY <1>2, <1>3, <3>1, <4>1, <4>2, Named DEF MovedAside
      <4>4. Restorable'
        BY <4>1, <4>2 DEF Restorable
      <4>5. ~Complete(output)
        BY <3>3, NotWhole
      <4>6. Replaced'
        BY <1>2, <1>3, <3>1, <4>1, <4>5 DEF Replaced, Complete
      <4> QED
        BY <3>2, <4>3, <4>4, <4>6
    <3>4. CASE ~(moved[p] /\ output = Absent)
      <4>1. UNCHANGED <<output, previous>>
        BY <2>9, <3>4 DEF MoveInFails, PutBack
      <4>2. MovedAside'
        BY <1>2, <1>3, <3>1, <4>1 DEF MovedAside
      <4>3. Restorable'
        BY <1>2, <1>3, <3>1, <3>4, <4>1 DEF Restorable
      <4>4. Replaced'
        BY <1>2, <1>3, <3>1, <4>1 DEF Replaced, Complete
      <4> QED
        BY <3>2, <4>2, <4>3, <4>4
    <3> QED
      BY <3>3, <3>4
  <2>10. CASE RemovePrevious(p)
    <3>1. /\ pc[p] = "remove" /\ UNCHANGED <<output, stage, catalog, moved>>
          /\ previous' = [previous EXCEPT ![p] = Absent]
          /\ pc' = [pc EXCEPT ![p] = "ended"]
      BY <2>10 DEF RemovePrevious
    <3>2. StageWhole'
      BY <1>2, <1>3, <3>1 DEF StageWhole, Complete
    <3>3. MovedAside'
      BY <1>2, <1>3, <3>1, Named DEF MovedAside
    <3>4. Restorable'
      BY <1>2, <1>3, <3>1 DEF Restorable
    <3>5. Replaced'
      BY <1>2, <1>3, <3>1 DEF Replaced, Complete
    <3> QED
      BY <3>2, <3>3, <3>4, <3>5
  <2>11. CASE FailCall(p)
    BY <2>3, <2>11 DEF FailCall
  <2>12. CASE Die(p)
    <3>1. /\ pc' = [pc EXCEPT ![p] = "dead"]
          /\ UNCHANGED <<output, previous, stage, catalog, moved>>
      BY <2>12 DEF Die
    <3>2. StageWhole'
      BY <1>2, <1>3, <3>1 DEF StageWhole, Complete
    <3>3. MovedAside' /\ Restorable'
      BY <1>2, <1>3, <3>1 DEF MovedAside, Restorable
    <3>4. Replaced'
      BY <1>2, <1>3, <3>1 DEF Replaced, Complete
    <3> QED
      BY <3>2, <3>3, <3>4
  <2> QED
    BY <1>7, <2>1, <2>2, <2>4, <2>5, <2>6, <2>7, <2>8, <2>9, <2>10, <2>11, <2>12
       DEF Publisher
<1>8. CASE UNCHANGED siteVars
  BY <1>4, <1>8 DEF siteVars, sources
<1> QED
  BY <1>5, <1>6, <1>7, <1>8 DEF SiteNext

LEMMA SafeAlways == SiteSpec => []SiteSafe
BY SafeInit, SafeNext, PTL DEF SiteSpec

\* A publisher that fails, wherever it does, leaves a site at the output: one
\* is missing only while a publisher is at work or when one died between the
\* renames of publish_stage.
THEOREM SiteRestoredAlways == SiteSpec => []SiteRestored
<1>1. SiteSafe => SiteRestored
  BY DEF SiteSafe, Restorable, SiteRestored
<1> QED
  BY <1>1, SafeAlways, PTL

\* A step that leaves a whole site behind, if there was one.
LEMMA WholeKept ==
    ASSUME SiteSafe, [SiteNext]_siteVars,
           Complete(output) \/ \E p \in Publishers : Complete(previous[p])
    PROVE  Complete(output)' \/ \E p \in Publishers : Complete(previous[p])'
<1> DEFINE Kept == Complete(output)' \/ \E p \in Publishers : Complete(previous[p])'
<1>1. previous \in [Publishers -> Directories] /\ StageWhole /\ MovedAside /\ Replaced
  BY DEF SiteSafe, SiteTypeOK
<1>2. CASE UNCHANGED <<output, previous>>
  BY <1>2 DEF Complete
<1>3. CASE PutForeign
  BY <1>3, NotWhole DEF PutForeign, Complete
<1>4. ASSUME NEW p \in Publishers, MoveAway(p) PROVE Kept
  <2>1. CASE UNCHANGED <<output, previous>>
    BY <1>2, <2>1
  <2>2. CASE previous[p] = Absent /\ previous' = [previous EXCEPT ![p] = output]
    BY <1>1, <2>2, NotWhole DEF Complete
  <2> QED
    BY <1>4, <2>1, <2>2 DEF MoveAway
<1>5. ASSUME NEW p \in Publishers, MoveIn(p) PROVE Kept
  BY <1>1, <1>5 DEF MoveIn, StageWhole, Complete
<1>6. ASSUME NEW p \in Publishers, MoveInFails(p) PROVE Kept
  <2>1. CASE UNCHANGED <<output, previous>>
    BY <1>2, <2>1
  <2>2. CASE /\ output = Absent /\ output' = previous[p]
             /\ previous' = [previous EXCEPT ![p] = Absent]
    BY <1>1, <2>2, NotWhole DEF Complete
  <2> QED
    BY <1>6, <2>1, <2>2 DEF MoveInFails, PutBack
<1>7. ASSUME NEW p \in Publishers, RemovePrevious(p) PROVE Kept
  <2>1. /\ pc[p] = "remove" /\ UNCHANGED output
        /\ previous' = [previous EXCEPT ![p] = Absent]
    BY <1>7 DEF RemovePrevious
  <2> QED
    BY <1>1, <2>1 DEF Replaced, Complete
<1>8. CASE Builder
  BY <1>2, <1>8 DEF Builder, CleanBundle, BuildPayload, BuildSums
<1>9. ASSUME NEW p \in Publishers, Publisher(p) PROVE Kept
  BY <1>2, <1>4, <1>5, <1>6, <1>7, <1>9
     DEF Publisher, Validate, MakeStage, CopyFile, WriteCatalog, LookAtOutput,
         FailCall, Die
<1> QED
  BY <1>2, <1>3, <1>8, <1>9 DEF SiteNext, siteVars

\* No step of any publisher, of the builder or of the user leaves none where
\* there was a whole site: publish_stage removes the old one last.
THEOREM SiteNeverLostAlways == SiteSpec => SiteNeverLost
<1> DEFINE There == \E site \in Sites : Complete(site)
<1>1. SiteSafe /\ [SiteNext]_siteVars => [There => There']_siteVars
  <2> SUFFICES ASSUME SiteSafe, [SiteNext]_siteVars, There PROVE There'
    OBVIOUS
  <2>1. Complete(output) \/ \E p \in Publishers : Complete(previous[p])
    BY DEF Sites
  <2>2. Complete(output)' \/ \E p \in Publishers : Complete(previous[p])'
    BY <2>1, WholeKept
  <2> QED
    BY <2>2 DEF Sites, Complete
<1>2. SiteSpec => [][There => There']_siteVars
  <2> HIDE DEF There
  <2> QED
    BY <1>1, SafeAlways, PTL DEF SiteSpec
<1> QED
  BY <1>2 DEF SiteNeverLost

\* A directory of the user's is never replaced, moved or removed, whatever
\* publishers run (require_safe_output).
THEOREM ForeignKeptAlways == SiteSpec => ForeignKept
<1>1. SiteSafe /\ [SiteNext]_siteVars => [output = Foreign => output' = Foreign]_siteVars
  <2> SUFFICES ASSUME SiteSafe, [SiteNext]_siteVars, output = Foreign
               PROVE  output' = Foreign
    OBVIOUS
  <2>1. output.kind = "foreign" /\ output # Absent
    BY Named
  <2>2. \A p \in Publishers : pc[p] # "move away"
    BY <2>1 DEF SiteSafe, MovedAside
  <2>3. ASSUME NEW p \in Publishers, Publisher(p) PROVE UNCHANGED output
    BY <2>1, <2>2, <2>3
       DEF Publisher, Validate, MakeStage, CopyFile, WriteCatalog, LookAtOutput,
           MoveAway, MoveIn, MoveInFails, PutBack, RemovePrevious, FailCall, Die
  <2>4. CASE Builder
    BY <2>4 DEF Builder, CleanBundle, BuildPayload, BuildSums
  <2> QED
    BY <2>1, <2>3, <2>4 DEF SiteNext, PutForeign, siteVars
<1> QED
  BY <1>1, SafeAlways, PTL DEF SiteSpec, ForeignKept

-----------------------------------------------------------------------------
\* What f is in the bundle now is what p validated.
Validated(p, f) == bundle[f] # Missing /\ content[bundle[f]] = catalog[p][f]

\* The files are what the catalog says, unless the publisher was torn.
Faithful(site) ==
    /\ \A f \in Files : site.files[f] <= Len(content)
    /\ ~site.torn => \A f \in Files : Holds(site.files[f]) = site.catalog[f]

Published(site) == site.kind = "site" => Complete(site) /\ Faithful(site)

\* What a publisher that is not torn has copied is what it validated, and what
\* it has still to copy is there.
CopiedTrue(p) ==
    \A f \in Files :
      /\ stage[p].files[f] <= Len(content)
      /\ ~torn[p] => IF stage[p].files[f] = Missing
                     THEN Validated(p, f)
                     ELSE Holds(stage[p].files[f]) = catalog[p][f]

\* What p is going to publish agrees with what it validated.
Working(p) ==
    /\ pc[p] = "staging" /\ ~torn[p] => \A f \in Files : Validated(p, f)
    /\ pc[p] = "copying" => CopiedTrue(p)
    /\ pc[p] \in {"publish", "move away", "move in"} => Faithful(stage[p])

CatalogInv ==
    /\ building => bundle["SHA256SUMS"] = Missing
    /\ Published(output)
    /\ \A p \in Publishers : Published(previous[p]) /\ Working(p)

LEMMA CatalogInit == SiteInit => CatalogInv
<1> SUFFICES ASSUME SiteInit PROVE CatalogInv
  OBVIOUS
<1>1. content = <<1, 1>> /\ output = Absent /\ ~building
      /\ \A p \in Publishers : pc[p] = "idle" /\ previous[p] \in {Absent, Leftover}
  BY DEF SiteInit
<1>2. Published(Absent)
  BY Named DEF Published
<1>3. Published(Leftover)
  <2>1. /\ \A f \in Files : Leftover.files[f] = -1 /\ Leftover.catalog[f] = 1
        /\ Leftover.kind = "site" /\ Leftover.marked
    BY DEF Leftover
  <2>2. Len(content) = 2
    BY <1>1
  <2>3. Holds(-1) = 1
    <3>1. \A build \in Nat \ {0} : Holds(-build) = build
      BY DEF Holds
    <3>2. 1 \in Nat \ {0}
      OBVIOUS
    <3> QED
      BY <3>1, <3>2, Zenon
  <2>4. Complete(Leftover)
    BY <2>1 DEF Complete, Missing
  <2>5. Faithful(Leftover)
    BY <2>1, <2>2, <2>3 DEF Faithful
  <2> QED
    BY <2>4, <2>5 DEF Published
<1> QED
  BY <1>1, <1>2, <1>3 DEF CatalogInv, Working

\* What stays where it is, with the bundle and its inodes as they were, stays
\* as true as it was.
LEMMA WorkingKept ==
    ASSUME NEW p, Working(p), UNCHANGED <<bundle, content, torn>>,
           pc'[p] = pc[p], stage'[p] = stage[p], catalog'[p] = catalog[p]
    PROVE  Working(p)'
<1>1. pc'[p] = "staging" /\ ~torn'[p] => \A f \in Files : Validated(p, f)'
  BY DEF Working, Validated
<1>2. pc'[p] = "copying" => CopiedTrue(p)'
  BY DEF Working, CopiedTrue, Validated, Holds
<1>3. pc'[p] \in {"publish", "move away", "move in"} => Faithful(stage[p])'
  BY DEF Working, Faithful, Holds
<1> QED
  BY <1>1, <1>2, <1>3 DEF Working

\* The builder adds inodes and changes none, so nothing published changes.
LEMMA BuilderAdds ==
    ASSUME SiteTypeOK, Builder
    PROVE  /\ Len(content) <= Len(content')
           /\ \A i \in Int : i # 0 /\ i <= Len(content) => Holds(i)' = Holds(i)
<1>1. content \in Seq(Nat \ {0}) /\ Len(content) \in Nat
  BY DEF SiteTypeOK
<1>2. CASE UNCHANGED content
  BY <1>1, <1>2 DEF Holds
<1>3. ASSUME NEW build \in Nat \ {0}, content' = Append(content, build)
      PROVE  /\ Len(content) <= Len(content')
             /\ \A i \in Int : i # 0 /\ i <= Len(content) => Holds(i)' = Holds(i)
  <2>1. /\ Len(content') = Len(content) + 1
        /\ \A i \in 1..Len(content) : content'[i] = content[i]
    BY <1>1, <1>3, Grows
  <2> QED
    BY <1>1, <2>1 DEF Holds
<1>4. Runs \in Nat \ {0} /\ Runs + 1 \in Nat \ {0}
  BY DEF Runs, SiteTypeOK
<1> QED
  BY <1>2, <1>3, <1>4
     DEF Builder, CleanBundle, BuildPayload, BuildSums, WriteFile

LEMMA FaithfulKept ==
    ASSUME SiteTypeOK, Builder, NEW site \in Directories, Faithful(site),
           \A f \in Files : site.files[f] # Missing
    PROVE  Faithful(site)'
<1>1. \A f \in Files : site.files[f] \in Int
  BY DEF Directories
<1>2. Len(content) \in Nat /\ Len(content') \in Nat
  BY SiteTypeNext DEF SiteTypeOK, SiteNext
<1>3. \A f \in Files : site.files[f] <= Len(content')
  BY <1>1, <1>2, BuilderAdds DEF Faithful
<1>4. \A f \in Files : Holds(site.files[f])' = Holds(site.files[f])
  BY <1>1, BuilderAdds DEF Faithful, Missing
<1> QED
  BY <1>3, <1>4 DEF Faithful

\* A file that is validated and not yet copied is one the builder does not
\* touch, unless it cleans the directory.
LEMMA ValidatedKept ==
    ASSUME SiteTypeOK, Builder, building => bundle["SHA256SUMS"] = Missing,
           ~CleanBundle, NEW p \in Publishers, NEW f \in Files, Validated(p, f)
    PROVE  Validated(p, f)'
<1>1. bundle[f] \in 1..Len(content) /\ bundle[f] # Missing
  BY Inodes DEF Validated
<1>2. UNCHANGED catalog /\ bundle'[f] = bundle[f]
  <2>1. CASE BuildPayload
    BY <1>1, <2>1 DEF BuildPayload, WriteFile, SiteTypeOK
  <2>2. CASE BuildSums
    BY <1>1, <2>2 DEF BuildSums, WriteFile, SiteTypeOK
  <2> QED
    BY <2>1, <2>2 DEF Builder
<1>3. content'[bundle[f]] = content[bundle[f]]
  <2>1. Len(content) \in Nat
    BY DEF SiteTypeOK
  <2>2. /\ bundle[f] \in Int /\ bundle[f] # 0
        /\ bundle[f] <= Len(content) /\ ~(bundle[f] < 0)
    BY <1>1, <2>1
  <2>3. Holds(bundle[f])' = Holds(bundle[f])
    BY <2>2, <1>2, BuilderAdds DEF Holds
  <2> QED
    BY <1>2, <2>2, <2>3 DEF Holds
<1> QED
  BY <1>2, <1>3 DEF Validated

LEMMA BuilderCatalog == SiteSafe /\ CatalogInv /\ Builder => CatalogInv'
<1> SUFFICES ASSUME SiteSafe, CatalogInv, Builder PROVE CatalogInv'
  OBVIOUS
<1>1. SiteTypeOK /\ StageWhole
  BY DEF SiteSafe
<1>2. UNCHANGED <<output, previous, pc, stage, catalog>>
  BY DEF Builder, CleanBundle, BuildPayload, BuildSums
<1>3. ASSUME NEW site \in Directories, Published(site) PROVE Published(site)'
  BY <1>1, <1>3, FaithfulKept DEF Published, Complete
<1>4. building' => bundle'["SHA256SUMS"] = Missing
  <2>1. CASE CleanBundle
    BY <2>1 DEF CleanBundle, NoFiles, Files
  <2>2. CASE BuildPayload
    <3>1. UNCHANGED building /\ \E i : bundle' = [bundle EXCEPT !["payload"] = i]
      BY <2>2 DEF BuildPayload, WriteFile
    <3>2. bundle \in [Files -> 0..Len(content)] /\ "SHA256SUMS" \in Files
      BY <1>1 DEF SiteTypeOK, Files
    <3>3. bundle'["SHA256SUMS"] = bundle["SHA256SUMS"]
      BY <3>1, <3>2
    <3> QED
      BY <3>1, <3>3 DEF CatalogInv
  <2>3. CASE BuildSums
    BY <2>3 DEF BuildSums
  <2> QED
    BY <2>1, <2>2, <2>3 DEF Builder
<1>5. Published(output)'
  BY <1>1, <1>2, <1>3 DEF CatalogInv, SiteTypeOK, Published, Complete, Faithful, Holds
<1>6. ASSUME NEW p \in Publishers
      PROVE  Published(previous[p])' /\ Working(p)'
  <2>1. stage[p] \in Directories /\ previous[p] \in Directories
        /\ torn \in [Publishers -> BOOLEAN]
    BY <1>1 DEF SiteTypeOK
  <2>2. Published(previous[p])'
    BY <1>2, <1>3, <2>1 DEF CatalogInv, Published, Complete, Faithful, Holds
  <2>3. pc[p] \in {"publish", "move away", "move in"} => Faithful(stage[p])'
    <3> SUFFICES ASSUME pc[p] \in {"publish", "move away", "move in"}
                 PROVE  Faithful(stage[p])'
      OBVIOUS
    <3>1. Faithful(stage[p]) /\ \A f \in Files : stage[p].files[f] # Missing
      BY <1>1 DEF CatalogInv, Working, StageWhole, Complete
    <3> QED
      BY <1>1, <1>2, <2>1, <3>1, FaithfulKept DEF Faithful, Holds
  <2>4. ~torn'[p] => ~torn[p] /\ (CleanBundle => ~BetweenValidationAndCopy(p))
    BY <2>1 DEF Builder, CleanBundle, BuildPayload, BuildSums
  <2>5. ASSUME NEW f \in Files, Validated(p, f), ~CleanBundle PROVE Validated(p, f)'
    BY <1>1, <2>5, ValidatedKept DEF CatalogInv
  <2>6. pc[p] = "staging" /\ ~torn'[p] => \A f \in Files : Validated(p, f)'
    BY <2>4, <2>5 DEF CatalogInv, Working, BetweenValidationAndCopy
  <2>7. pc[p] = "copying" => CopiedTrue(p)'
    <3> SUFFICES ASSUME pc[p] = "copying", NEW f \in Files
                 PROVE  /\ stage[p].files[f] <= Len(content')
                        /\ ~torn'[p] => IF stage[p].files[f] = Missing
                                        THEN Validated(p, f)'
                                        ELSE Holds(stage[p].files[f])' = catalog[p][f]
      BY <1>2 DEF CopiedTrue, Holds
    <3>1. CopiedTrue(p)
      BY DEF CatalogInv, Working
    <3>2. stage[p].files[f] \in Int /\ Len(content) \in Nat /\ Len(content') \in Nat
      <4>1. Len(content) \in Nat /\ SiteTypeOK'
        BY <1>1, BuilderType DEF SiteTypeOK
      <4>2. Len(content') \in Nat
        BY <4>1 DEF SiteTypeOK
      <4> QED
        BY <2>1, <4>1, <4>2 DEF Directories
    <3>3. stage[p].files[f] <= Len(content')
      BY <1>1, <3>1, <3>2, BuilderAdds DEF CopiedTrue
    <3>4. CASE stage[p].files[f] = Missing
      BY <2>4, <2>5, <3>1, <3>3, <3>4 DEF CopiedTrue, BetweenValidationAndCopy
    <3>5. CASE stage[p].files[f] # Missing
      <4>1. Holds(stage[p].files[f])' = Holds(stage[p].files[f])
        BY <1>1, <1>2, <3>1, <3>2, <3>5, BuilderAdds DEF CopiedTrue, Missing, Holds
      <4> QED
        BY <1>2, <2>4, <3>1, <3>3, <3>5, <4>1 DEF CopiedTrue, Holds
    <3> QED
      BY <3>4, <3>5
  <2> QED
    BY <1>2, <2>2, <2>3, <2>6, <2>7 DEF Working
<1> QED
  BY <1>4, <1>5, <1>6 DEF CatalogInv

\* The steps of a publisher leave the bundle and its inodes alone.
LEMMA PublisherCatalog ==
    ASSUME SiteSafe, CatalogInv, NEW p \in Publishers, Publisher(p)
    PROVE  CatalogInv'
<1>1. SiteTypeOK /\ StageWhole /\ MovedAside
  BY DEF SiteSafe
<1>2. /\ pc \in [Publishers -> Steps] /\ stage \in [Publishers -> Directories]
      /\ previous \in [Publishers -> Directories] /\ output \in Directories
      /\ catalog \in [Publishers -> [Files -> Int]] /\ Len(content) \in Nat
  BY <1>1 DEF SiteTypeOK
<1>3. UNCHANGED <<bundle, content, building, torn>>
  BY DEF Publisher, Validate, MakeStage, CopyFile, WriteCatalog, LookAtOutput,
         MoveAway, MoveIn, MoveInFails, RemovePrevious, FailCall, Die, sources
<1>4. Published(Absent)
  BY Named DEF Published
<1>5. ASSUME NEW q \in Publishers, pc'[q] = pc[q], stage'[q] = stage[q],
             catalog'[q] = catalog[q]
      PROVE  Working(q)'
  BY <1>3, <1>5, WorkingKept DEF CatalogInv
<1>6. ASSUME NEW q \in Publishers, pc'[q] \in {"ended", "dead", "remove"}
      PROVE  Working(q)'
  BY <1>6 DEF Working
<1>7. ASSUME \/ output' = output
             \/ output' = Absent
             \/ output' = stage[p] /\ pc[p] = "move in"
             \/ output' = previous[p]
      PROVE  Published(output)'
  <2>1. pc[p] = "move in" => Published(stage[p])
    BY <1>1 DEF CatalogInv, Working, StageWhole, Published
  <2>2. Published(output')
    BY <1>4, <1>7, <2>1 DEF CatalogInv
  <2> QED
    BY <1>3, <2>2 DEF Published, Complete, Faithful, Holds
<1>8. ASSUME NEW q \in Publishers,
             previous'[q] = previous[q] \/ previous'[q] = Absent \/ previous'[q] = output
      PROVE  Published(previous[q])'
  <2>1. Published(previous'[q])
    BY <1>4, <1>8 DEF CatalogInv
  <2> QED
    BY <1>3, <2>1 DEF Published, Complete, Faithful, Holds
<1>9. ASSUME UNCHANGED <<output, previous>> \/ MoveAway(p) \/ MoveIn(p) \/ MoveInFails(p)
                \/ RemovePrevious(p)
      PROVE  Published(output)' /\ \A q \in Publishers : Published(previous[q])'
  <2>1. \/ output' = output
        \/ output' = Absent
        \/ output' = stage[p] /\ pc[p] = "move in"
        \/ output' = previous[p]
    <3>1. MoveInFails(p) => output' = output \/ output' = previous[p]
      BY DEF MoveInFails, PutBack
    <3> QED
      BY <1>9, <3>1 DEF MoveAway, MoveIn, RemovePrevious
  <2>2. \A q \in Publishers :
          previous'[q] = previous[q] \/ previous'[q] = Absent \/ previous'[q] = output
    BY <1>2, <1>9 DEF MoveAway, MoveIn, MoveInFails, PutBack, RemovePrevious
  <2> QED
    BY <1>7, <1>8, <2>1, <2>2
<1>10. Published(output)' /\ \A q \in Publishers : Published(previous[q])'
  BY <1>9 DEF Publisher, Validate, MakeStage, CopyFile, WriteCatalog, LookAtOutput,
              FailCall, Die
<1>11. \A q \in Publishers \ {p} :
          pc'[q] = pc[q] /\ stage'[q] = stage[q] /\ catalog'[q] = catalog[q]
  BY <1>2 DEF Publisher, Validate, MakeStage, CopyFile, WriteCatalog, LookAtOutput,
              MoveAway, MoveIn, MoveInFails, RemovePrevious, FailCall, Die, Abort, Refuse
<1>12. Working(p)'
  <2>1. CASE Validate(p)
    <3> DEFINE seen == [f \in Files |-> content[bundle[f]]]
    <3>1. CASE pc' = [pc EXCEPT ![p] = "ended"]
      BY <1>2, <1>6, <3>1
    <3>2. CASE /\ pc' = [pc EXCEPT ![p] = "staging"]
               /\ \A f \in Files : bundle[f] # Missing
               /\ catalog' = [catalog EXCEPT ![p] = seen]
      <4>1. \A f \in Files : catalog'[p][f] = content[bundle[f]]
        BY <1>2, <3>2
      <4>2. \A f \in Files : Validated(p, f)'
        BY <1>3, <3>2, <4>1 DEF Validated
      <4> QED
        BY <1>2, <3>2, <4>2 DEF Working
    <3> QED
      BY <2>1, <3>1, <3>2 DEF Validate, Refuse
  <2>2. CASE MakeStage(p)
    <3>1. CASE pc' = [pc EXCEPT ![p] = "ended"]
      BY <1>2, <1>6, <3>1
    <3>2. CASE /\ pc' = [pc EXCEPT ![p] = "copying"]
               /\ stage' = [stage EXCEPT ![p] = EmptyStage]
      <4>1. pc[p] = "staging" /\ UNCHANGED catalog
        BY <2>2 DEF MakeStage
      <4>2. \A f \in Files : stage'[p].files[f] = Missing
        BY <1>2, <3>2 DEF EmptyStage, Absent, NoFiles
      <4>3. ~torn[p] => \A f \in Files : Validated(p, f)
        BY <4>1 DEF CatalogInv, Working
      <4>4. CopiedTrue(p)'
        BY <1>2, <1>3, <4>1, <4>2, <4>3 DEF CopiedTrue, Validated, Missing
      <4> QED
        BY <1>2, <3>2, <4>4 DEF Working
    <3> QED
      BY <2>2, <3>1, <3>2 DEF MakeStage, Refuse
  <2>3. ASSUME NEW f \in Files, CopyFile(p, f) PROVE Working(p)'
    <3>1. CASE Abort(p)
      BY <1>2, <1>6, <3>1 DEF Abort
    <3>2. CASE ~Abort(p)
      <4> DEFINE inode == IF hardlink[p] THEN bundle[f] ELSE -content[bundle[f]]
      <4>1. /\ pc[p] = "copying" /\ UNCHANGED <<pc, catalog>>
            /\ stage[p].files[f] = Missing /\ bundle[f] # Missing
            /\ stage' = [stage EXCEPT ![p].files[f] = inode]
        BY <2>3, <3>2 DEF CopyFile
      <4>2. bundle[f] \in 1..Len(content) /\ content[bundle[f]] \in Nat \ {0}
        BY <1>1, <4>1, Inodes
      <4>3. /\ inode \in Int /\ inode # Missing /\ inode <= Len(content)
            /\ Holds(inode) = content[bundle[f]]
        BY <1>2, <4>2 DEF Missing, Holds
      <4> HIDE DEF inode
      <4>4. /\ stage[p].files \in [Files -> Int]
            /\ stage'[p].files = [stage[p].files EXCEPT ![f] = inode]
        BY <1>2, <4>1 DEF Directories
      <4>5. CopiedTrue(p)
        BY <4>1 DEF CatalogInv, Working
      <4>6. ~torn[p] => Holds(inode) = catalog[p][f]
        BY <4>1, <4>3, <4>5 DEF CopiedTrue, Validated
      <4>7. CopiedTrue(p)'
        BY <1>3, <4>1, <4>3, <4>4, <4>5, <4>6 DEF CopiedTrue, Validated, Holds
      <4> QED
        BY <4>1, <4>7 DEF Working
    <3> QED
      BY <3>1, <3>2
  <2>4. CASE WriteCatalog(p)
    <3> DEFINE done == [stage[p] EXCEPT !.catalog = catalog[p], !.marked = TRUE,
                                        !.torn = torn[p]]
    <3>1. /\ pc[p] = "copying" /\ pc' = [pc EXCEPT ![p] = "publish"]
          /\ stage' = [stage EXCEPT ![p] = done]
          /\ \A f \in Files : stage[p].files[f] # Missing
      BY <2>4 DEF WriteCatalog
    <3>2. /\ done.files = stage[p].files /\ done.catalog = catalog[p]
          /\ done.torn = torn[p]
      BY <1>2 DEF Directories
    <3> HIDE DEF done
    <3>3. CopiedTrue(p)
      BY <3>1 DEF CatalogInv, Working
    <3>4. Faithful(done)
      BY <3>1, <3>2, <3>3 DEF CopiedTrue, Faithful
    <3>5. pc'[p] = "publish" /\ stage'[p] = done
      BY <1>2, <3>1
    <3>6. Faithful(stage[p])'
      BY <1>3, <3>4, <3>5 DEF Faithful, Holds
    <3> QED
      BY <3>5, <3>6 DEF Working
  <2>5. CASE LookAtOutput(p)
    <3>1. CASE Abort(p)
      BY <1>2, <1>6, <3>1 DEF Abort
    <3>2. CASE ~Abort(p)
      <4>1. pc[p] = "publish" /\ pc'[p] \in {"move in", "move away"} /\ UNCHANGED stage
        BY <1>2, <2>5, <3>2 DEF LookAtOutput
      <4>2. Faithful(stage[p])
        BY <4>1 DEF CatalogInv, Working
      <4>3. Faithful(stage[p])'
        BY <1>3, <4>1, <4>2 DEF Faithful, Holds
      <4> QED
        BY <4>1, <4>3 DEF Working
    <3> QED
      BY <3>1, <3>2
  <2>6. CASE MoveAway(p)
    <3>1. CASE Abort(p)
      BY <1>2, <1>6, <3>1 DEF Abort
    <3>2. CASE ~Abort(p)
      <4>1. pc[p] = "move away" /\ pc'[p] = "move in" /\ UNCHANGED stage
        BY <1>2, <2>6, <3>2 DEF MoveAway
      <4>2. Faithful(stage[p])
        BY <4>1 DEF CatalogInv, Working
      <4>3. Faithful(stage[p])'
        BY <1>3, <4>1, <4>2 DEF Faithful, Holds
      <4> QED
        BY <4>1, <4>3 DEF Working
    <3> QED
      BY <3>1, <3>2
  <2>7. CASE MoveIn(p) \/ MoveInFails(p) \/ RemovePrevious(p) \/ FailCall(p) \/ Die(p)
    <3>1. pc'[p] \in {"ended", "dead", "remove"}
      BY <1>2, <2>7 DEF MoveIn, MoveInFails, RemovePrevious, FailCall, Die, Abort
    <3> QED
      BY <1>6, <3>1
  <2> QED
    BY <2>1, <2>2, <2>3, <2>4, <2>5, <2>6, <2>7 DEF Publisher
<1>13. \A q \in Publishers : Working(q)'
  BY <1>5, <1>11, <1>12
<1> QED
  BY <1>3, <1>10, <1>13 DEF CatalogInv

\* Whatever is at the output path is whole and, unless its publisher ran across
\* a run of the builder, every file in it is the one whose digest its catalog
\* gives, whether it was copied or hard-linked and however often the bundle is
\* rebuilt (validate_bundles, copy_regular, publish_stage).
THEOREM CatalogTrueAlways == SiteSpec => []CatalogTrue
<1>1. SiteSafe /\ CatalogInv /\ [SiteNext]_siteVars => CatalogInv'
  <2> SUFFICES ASSUME SiteSafe, CatalogInv, [SiteNext]_siteVars PROVE CatalogInv'
    OBVIOUS
  <2>1. ASSUME UNCHANGED <<bundle, content, building, previous, pc, stage, catalog,
                           torn>>,
               Published(output)'
        PROVE  CatalogInv'
    <3>1. \A p \in Publishers : Working(p)'
      BY <2>1, WorkingKept DEF CatalogInv
    <3>2. \A p \in Publishers : Published(previous[p])'
      BY <2>1 DEF CatalogInv, Published, Complete, Faithful, Holds
    <3> QED
      BY <2>1, <3>1, <3>2 DEF CatalogInv
  <2>2. CASE PutForeign
    <3>1. Published(output)'
      BY <2>2, Named DEF PutForeign, Published
    <3> QED
      BY <2>1, <2>2, <3>1 DEF PutForeign, sources
  <2>3. CASE UNCHANGED siteVars
    <3>1. UNCHANGED content /\ UNCHANGED output
      BY <2>3 DEF siteVars, sources
    <3>2. Published(output)'
      BY <3>1 DEF CatalogInv, Published, Complete, Faithful, Holds
    <3> QED
      BY <2>1, <2>3, <3>2 DEF siteVars, sources
  <2> QED
    BY <2>2, <2>3, BuilderCatalog, PublisherCatalog DEF SiteNext
<1>2. CatalogInv => CatalogTrue
  BY DEF CatalogInv, Published, Faithful, CatalogTrue
<1> QED
  BY <1>1, <1>2, CatalogInit, SafeAlways, PTL DEF SiteSpec
=============================================================================
