------------------------------ MODULE Artifacts ------------------------------
(***************************************************************************)
(* The tools between NVIDIA's artefacts and the customer's page.  They     *)
(* meet only in files each of them reads as they are, so a behaviour is    *)
(* one of one tool: a call on an image, any number of concurrent runs of   *)
(* the firmware input pipeline, any number of runs of the QSPI image       *)
(* builder, any number of concurrent runs of the site publisher, or the    *)
(* page's hashing of one file.                                             *)
(***************************************************************************)
EXTENDS FamilyInputs, Images, Qspi, Site, Sha256

VARIABLE tool

artifactVars == <<tool, familyVars, imageVars, qspiVars, siteVars, shaVars>>

\* A tool that is not used.
ImagesUnused == image = [kind |-> "none"] /\ parsed = FALSE /\ result = <<>>
FamilyUnused == archive = "absent" /\ profile = SeedSpec /\ agree = TRUE /\ FamilyInit
QspiUnused   == partitions = <<>> /\ QspiInit
SiteUnused ==
    /\ hardlink = [p \in Publishers |-> FALSE]
    /\ previous = [p \in Publishers |-> Absent]
    /\ SiteInit
ShaUnused == size = 0 /\ chunkSize = Min(ChunkSizes) /\ ShaInit

ArtifactsInit ==
    \/ /\ tool = "images"
       /\ ImagesInit /\ FamilyUnused /\ QspiUnused /\ SiteUnused /\ ShaUnused
    \/ /\ tool = "inputs"
       /\ ImagesUnused /\ FamilyInit /\ QspiUnused /\ SiteUnused /\ ShaUnused
    \/ /\ tool = "qspi"
       /\ ImagesUnused /\ FamilyUnused /\ QspiInit /\ SiteUnused /\ ShaUnused
    \/ /\ tool = "site"
       /\ ImagesUnused /\ FamilyUnused /\ QspiUnused /\ SiteInit /\ ShaUnused
    \/ /\ tool = "hash"
       /\ ImagesUnused /\ FamilyUnused /\ QspiUnused /\ SiteUnused /\ ShaInit

ArtifactsNext ==
    /\ UNCHANGED tool
    /\ \/ /\ tool = "images" /\ ParseImage
          /\ UNCHANGED <<familyVars, qspiVars, siteVars, shaVars>>
       \/ /\ tool = "inputs" /\ FamilyNext
          /\ UNCHANGED <<imageVars, qspiVars, siteVars, shaVars>>
       \/ /\ tool = "qspi" /\ QspiNext
          /\ UNCHANGED <<familyVars, imageVars, siteVars, shaVars>>
       \/ /\ tool = "site" /\ SiteNext
          /\ UNCHANGED <<familyVars, imageVars, qspiVars, shaVars>>
       \/ /\ tool = "hash" /\ ShaNext
          /\ UNCHANGED <<familyVars, imageVars, qspiVars, siteVars>>

ArtifactsSpec == ArtifactsInit /\ [][ArtifactsNext]_artifactVars
=============================================================================
