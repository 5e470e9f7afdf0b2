---------------------------- MODULE DeployDryRun ----------------------------
(***************************************************************************)
(* The output of cmd/deploy (main.go:69-88 and 151-248).  With --dry-run   *)
(* the jobs of DeployLocks each have a channel of their own for the one    *)
(* document they may write, and a goroutine prints the documents in stream *)
(* order.  The channels go to it through another, buffered, channel.       *)
(* Without --dry-run the jobs push and none of that is there.              *)
(***************************************************************************)
EXTENDS DeployLocks, Sequences

CONSTANT OutCap     \* the capacity of dryRunOuts (100000 in main.go:72)

ASSUME OutAssumption == OutCap \in Nat \ {0}

VARIABLES
    dryRun,         \* whether --dry-run was given
    dryRunOuts,     \* the channels, by their jobs, that wait to be received
    dryRunOut,      \* job -> what its channel holds
    printing,       \* the job whose channel the printer reads, NoJob if none
    printed,        \* what went to stdout
    needs           \* the jobs for which dryRun said that something is missing

outVars == <<dryRun, dryRunOuts, dryRunOut, printing, printed, needs>>
dryVars == <<vars, outVars>>

DryInit ==
    /\ Init
    /\ dryRun \in BOOLEAN
    /\ dryRunOuts = <<>>
    /\ dryRunOut = [j \in Jobs |-> "open"]
    /\ printing = NoJob
    /\ printed = <<>>
    /\ needs = {}

Room == Len(dryRunOuts) < OutCap

\* the channel is queued before the goroutine starts, and may have to wait
DrySpawn ==
    /\ Spawn
    /\ dryRun => Room
    /\ dryRunOuts' = IF dryRun THEN Append(dryRunOuts, next) ELSE dryRunOuts
    /\ UNCHANGED <<dryRun, dryRunOut, printing, printed, needs>>

\* normal.do returns, or normal.dryRun: an error, or whether a push is needed;
\* the document then fits into the channel's one slot
DryFinish(j) ==
    /\ FinishDo(j)
    /\ \/ UNCHANGED <<dryRunOut, needs>>
       \/ /\ dryRun /\ pc'[j] = "pushed"
          /\ dryRunOut' = [dryRunOut EXCEPT ![j] = "full"]
          /\ needs' = needs \cup {j}
    /\ UNCHANGED <<dryRun, dryRunOuts, printing, printed>>

\* slip: only a job that wrote something closes its channel
ClosedIfFull(j) == IF dryRunOut[j] = "full" THEN "full, closed" ELSE "open"
Closed(j) == IF dryRunOut[j] = "full" THEN "full, closed" ELSE "closed"

\* the deferred close, after every RUnlock and before Unlock
CloseOut(j) ==
    /\ Running /\ dryRun
    /\ pc[j] \in {"pushed", "failed"} /\ \A k \in Keys : j \notin readers[k]
    /\ dryRunOut[j] \in {"open", "full"}
    /\ dryRunOut' = [dryRunOut EXCEPT ![j] = Closed(j)]
    /\ UNCHANGED <<vars, dryRun, dryRunOuts, printing, printed, needs>>

DryUnlock(j) ==
    /\ dryRun => dryRunOut[j] \notin {"open", "full"}
    /\ Unlock(j)
    /\ UNCHANGED outVars

ReceiveOut ==
    /\ Running
    /\ printing = NoJob /\ dryRunOuts # <<>>
    /\ printing' = Head(dryRunOuts)
    /\ dryRunOuts' = Tail(dryRunOuts)
    /\ UNCHANGED <<vars, dryRun, dryRunOut, printed, needs>>

\* slip: the printer does not wait for what may still be written
OutReadyUnasked(j) == TRUE
OutReady(j) == dryRunOut[j] # "open"

\* the printer waits for a document, or for the channel to be closed without
PrintOut ==
    /\ Running
    /\ printing # NoJob /\ OutReady(printing)
    /\ printed' = IF dryRunOut[printing] \in {"full", "full, closed"}
                  THEN Append(printed, printing) ELSE printed
    /\ printing' = NoJob
    /\ UNCHANGED <<vars, dryRun, dryRunOuts, dryRunOut, needs>>

\* dryRunOuts is closed and the WaitGroup counts the printer too
DryExit ==
    /\ Exit
    /\ dryRunOuts = <<>> /\ printing = NoJob
    /\ UNCHANGED outVars

DryMainStep ==
    \/ DrySpawn \/ DryExit
    \/ (AnnounceLock \/ GrantLock \/ SkipLock) /\ UNCHANGED outVars

DryJobStep(j) ==
    \/ DryFinish(j) \/ CloseOut(j) \/ DryUnlock(j)
    \/ StartDo(j) /\ UNCHANGED outVars
    \/ Crash(j) /\ UNCHANGED outVars
    \/ \E k \in Keys : (RLock(j, k) \/ RUnlock(j, k)) /\ UNCHANGED outVars

PrinterStep == ReceiveOut \/ PrintOut

DryEnded == ~Running /\ UNCHANGED dryVars

DryRefuse == RefuseInput /\ UNCHANGED outVars

DryNext ==
    \/ DryMainStep \/ DryRefuse \/ PrinterStep
    \/ (\E j \in Jobs : DryJobStep(j)) \/ DryEnded

DrySpec ==
    /\ DryInit /\ [][DryNext]_dryVars
    /\ WF_dryVars(DryMainStep) /\ WF_dryVars(PrinterStep)
    /\ \A j \in Jobs : WF_dryVars(DryJobStep(j))

(***************************************************************************)
(* Properties.                                                             *)
(***************************************************************************)
DryTypeOK ==
    /\ TypeOK
    /\ dryRun \in BOOLEAN
    /\ dryRunOuts \in Seq(Jobs) /\ Len(dryRunOuts) <= OutCap
    /\ dryRunOut \in [Jobs -> {"open", "full", "closed", "full, closed"}]
    /\ printing \in Jobs \cup {NoJob}
    /\ printed \in Seq(Jobs)
    /\ needs \subseteq Jobs

\* With --parallel the documents are still printed in the order of the stream,
\* each at most once ("we want the output to be in-order", main.go:71); no job
\* is printed while one before it is still to come, and a dry run that ends
\* normally has printed every push that is needed.
PrintedInOrder ==
    /\ \A a, b \in DOMAIN printed : a < b => printed[a] < printed[b]
    /\ \A b \in DOMAIN printed : \A j \in needs :
           j < printed[b] => \E a \in 1..b : printed[a] = j
    /\ mainPc = "exited" => \A j \in needs : \E a \in DOMAIN printed : printed[a] = j
=============================================================================
