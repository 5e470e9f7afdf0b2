--------------------------- MODULE MCDeployReplay ---------------------------
(***************************************************************************)
(* DeployReplay on every document of a small shape: one or two refs, with  *)
(* or without a tag and a digest; up to one lookup entry by digest and a   *)
(* fallback; data, empty data or none.                                     *)
(***************************************************************************)
EXTENDS DeployReplay

MCDigests == {"image", "layer", "empty"}
MCRepos == {"hub", "staging"}
MCTags == {"t"}
MCManifests == {"image"}
MCChildrenOf == [d \in MCDigests |-> IF d = "image" THEN {"layer"} ELSE {}]

RefsIn(repos, digests) == {Ref(r, t, d) : r \in repos, t \in {None, "t"}, d \in digests}
Targets == RefsIn({"hub"}, {None, "image", "layer"})
RefSeqs == {<<a>> : a \in Targets} \cup {<<a, b>> : a \in Targets, b \in Targets}
Sources == RefsIn({"hub", "staging"}, {None, "image", "layer"})
Lookups == UNION {[ds -> Sources] : ds \in SUBSET {None, "layer"}}
           \cup [{"image"} -> Sources] \cup [{"image", "layer"} -> RefsIn({"staging"}, {None})]

Documents(data) ==
    [type : {"manifest", "blob"}, refs : RefSeqs, lookup : Lookups, data : data]

AllDocuments == Documents({NoData, "image", "layer", "empty"})
=============================================================================
