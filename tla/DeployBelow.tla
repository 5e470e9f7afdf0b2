---------------------------- MODULE DeployBelow ----------------------------
(***************************************************************************)
(* The locks of cmd/deploy/main.go and what is below the children.  A job  *)
(* read-locks what its data or its copy names itself, by a rule of main.go *)
(* (lines 170-208).  The push itself goes further: EnsureManifest pushes   *)
(* children of children as well, and those of a copied manifest, by a rule *)
(* of registry/push.go, and for them the job holds no lock.                *)
(***************************************************************************)
EXTENDS DeployLocks

CONSTANTS
    GoesFirst,      \* [Jobs -> SUBSET Keys], what a job's input names itself
    Goes            \* [Jobs -> SUBSET Keys], all that its push may go to

ASSUME BelowAssumption ==
    /\ Goes \in [Jobs -> SUBSET Keys]
    /\ GoesFirst \in [Jobs -> SUBSET Keys]

\* Whatever the stream pushes that a later job goes to, that job names itself,
\* or it names a parent that the stream pushes in between, and that goes to it.
Chained ==
    \A i \in Writers, j \in Jobs :
        i < j /\ Target[i] \in Goes[j] =>
            \/ Target[i] \in GoesFirst[j]
            \/ \E k \in Writers : /\ i < k /\ k < j
                                  /\ Target[k] \in GoesFirst[j]
                                  /\ Target[i] \in Goes[k]

\* main.go's list holds what the input names itself
NamedIsRead == \A j \in Jobs : GoesFirst[j] \subseteq Reads[j]

\* While a job pushes, nothing that it may look at or write at any depth is
\* still being pushed by a job listed before it, although it has locks for the
\* first level only (main.go:170-208, push.go:98-128 and 169-193): what is
\* further below was over before its parent's lock was given up.  That takes a
\* stream that lists the parents in between too; one that leaves them out has
\* its grandchildren pushed and looked up by two jobs at once.
BelowFirst ==
    Chained => \A i \in Writers, j \in Jobs :
        i < j /\ pc[j] = "doing" /\ Target[i] \in Goes[j] => Returned(i)
=============================================================================
