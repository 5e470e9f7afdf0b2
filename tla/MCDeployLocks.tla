--------------------------- MODULE MCDeployLocks ---------------------------
(***************************************************************************)
(* DeployLocks on small streams of inputs: the targets and the read sets   *)
(* of the jobs are those DeployInput computes from the documents.          *)
(***************************************************************************)
EXTENDS DeployInput, DeployLocks, SequencesExt

CONSTANTS Stream    \* a sequence of raw inputs, as jq hands them over

MCDigests == {"layer", "image", "index", "empty"}
MCManifests == {"image", "index"}
MCChildrenOf ==
    [d \in MCDigests |-> CASE d = "image" -> {"layer"}
                           [] d = "index" -> {"image"}
                           [] OTHER -> {}]

Push(type, refs, lookup, data) ==
    [type |-> type, refs |-> refs, lookup |-> lookup, data |-> data]
Nowhere == [d \in {} |-> NoRef]
To(tag) == Ref("hub", tag, None)

\* an image already in the repository gets another tag in it
RetagImage == Push("manifest", <<To("c")>>,
                   [d \in {"image"} |-> Ref("hub", None, None)], NoData)

StreamRetag == <<RetagImage>>

Normal == [i \in DOMAIN Stream |-> NormalizeInput(Stream[i])]

\* the iterations of main's two nested loops
JobList ==
    FlattenSeq([i \in DOMAIN Stream |->
        [r \in DOMAIN Normal[i].refs |-> <<i, r>>]])
JobInput(j) == Normal[JobList[j][1]]
JobRef(j) == JobList[j][2]

MCNJobs == Len(JobList)
MCNoKey == NoLock
MCTarget == [j \in 1..MCNJobs |-> TargetKey(JobInput(j).refs[JobRef(j)])]
MCWriters == {j \in 1..MCNJobs : FirstForKey(JobInput(j), JobRef(j))}
MCReads == [j \in 1..MCNJobs |-> ReadKeys(JobInput(j), JobRef(j))]
\* the keys that some job locks
MCKeys ==
    UNION {MCReads[j] : j \in 1..MCNJobs} \cup {MCTarget[j] : j \in MCWriters}
=============================================================================
