------------------------------- MODULE MCPush -------------------------------
(***************************************************************************)
(* Push with an index of two images that share a layer, and three jobs     *)
(* that meet in one repository.                                            *)
(***************************************************************************)
EXTENDS Push

MCDigests == {"index", "amd", "arm", "layer", "config"}
MCManifests == {"index", "amd", "arm"}
MCChildList ==
    [d \in MCDigests |-> CASE d = "index" -> <<"amd", "arm">>
                           [] d = "amd" -> <<"config", "layer">>
                           [] d = "arm" -> <<"layer">>
                           [] OTHER -> <<>>]

ToHub(tag, digest, from, fallback, lookup) ==
    [repo |-> "hub", tag |-> tag, digest |-> digest, from |-> from,
     fallback |-> fallback, lookup |-> lookup]

\* the index, its images in two places; one of the images; and a blob
MCTask ==
    [j \in 1..3 |->
        CASE j = 1 -> ToHub("x", "index", None, None,
                            [d \in {"amd", "arm"} |-> IF d = "amd" THEN "stage" ELSE "stage2"])
          [] j = 2 -> ToHub("y", "amd", "stage", None, [d \in {} |-> None])
          [] OTHER -> ToHub(None, "layer", None, None, [d \in {} |-> None])]
=============================================================================
