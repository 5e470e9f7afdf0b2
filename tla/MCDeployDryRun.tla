-------------------------- MODULE MCDeployDryRun ---------------------------
(***************************************************************************)
(* DeployDryRun, with what DeployBelow adds, on a stream of an index and   *)
(* all that is below it.                                                   *)
(***************************************************************************)
EXTENDS MCDeployLocks, DeployDryRun, DeployBelow

Staged(tag) == Ref("staging", tag, None)

StageLayer == Push("blob", <<Staged(None)>>, Nowhere, "layer")
StageTwice == Push("manifest", <<Staged("i"), Staged("k")>>, Nowhere, "image")
StageOnce == Push("manifest", <<Staged("i")>>, Nowhere, "image")
\* a fallback: the image is looked up in staging, and so is its layer
IndexFromStaging == Push("manifest", <<To("x")>>,
                         [d \in {None} |-> Staged(None)], "index")
\* the copy reads the index, and goes on to the image and to its layer
CopyIndex == Push("manifest", <<Ref("mirror", "x", "index")>>,
                  [d \in {"index", "image"} |->
                      IF d = "index" THEN Ref("hub", None, None) ELSE Staged(None)],
                  NoData)

\* a layer, an image of it under two tags, an index, the image once more, after
\* the index that reads it, and a copy of the index
StreamBelow == <<StageLayer, StageTwice, IndexFromStaging, StageOnce, CopyIndex>>

MCGoesFirst == [j \in 1..MCNJobs |-> GoesToFirst(JobInput(j), JobRef(j))]
MCGoes == [j \in 1..MCNJobs |-> GoesTo(JobInput(j), JobRef(j))]
\* the keys that some job locks or goes to
BelowKeys == MCKeys \cup UNION {MCGoes[j] : j \in 1..MCNJobs}
\* the image's first push may fail, and what reads it waits for that
FailingJobs == {2}
=============================================================================
