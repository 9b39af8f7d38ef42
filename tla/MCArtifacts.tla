----------------------------- MODULE MCArtifacts -----------------------------
(***************************************************************************)
(* Artifacts for TLC: two runs of everything, and the seed of one of two   *)
(* modules.  A QSPI image has six units in erase blocks of two, payloads   *)
(* of none to three units that extend one another, and catalogs of one or  *)
(* two partitions, valid or not.  The geometry of SHA-256 is the code's,   *)
(* but a word counts to 256 only, so that files of 0 to 130 bytes carry    *)
(* into the high one; they end everywhere in their last block, and the     *)
(* slices are shorter and longer than a block and end next to its end.     *)
(***************************************************************************)
EXTENDS Artifacts

MCPayloads == {<<>>, <<"a">>, <<"a", "b">>, <<"a", "b", "c">>}

MCPartitions ==
    [name: {"BCT", "kernel"}, offset: {0, 1, 2, 4}, size: {0, 1, 2, 4, 6},
     image: MCPayloads \cup {NoImage}]

MCCatalogs ==
    {<<>>} \cup {<<p>> : p \in MCPartitions} \cup (MCPartitions \X MCPartitions)

MCSizes == 0..130
MCChunkSizes == {5, 56, 63, 64, 65, 200}
=============================================================================
