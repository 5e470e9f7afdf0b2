------------------------------ MODULE Trigger -------------------------------
(***************************************************************************)
(* Jenkinsfile.trigger with jenkins.jq: the hourly job that triggers the   *)
(* builds of one architecture that builds.json still needs, those that     *)
(* failed often last and ever more seldom.  What it knows of earlier       *)
(* attempts is the file past-jobs.json that its last successful run left.  *)
(*                                                                         *)
(* A build is a number, in the order of builds.json.  Time is in hours; a  *)
(* time stamp is kept as its age, up to the longest interval.              *)
(***************************************************************************)
EXTENDS Integers, Sequences, FiniteSets

CONSTANTS
    NBuilds,        \* bound: the builds of the architecture
    GHA,            \* the builds that are run on GitHub Actions
    Backoff,        \* hours by attempts: 0, 0, 1, 2, 4, ..., 32 (jenkins.jq:84)
    MayFail,        \* the builds that Jenkins or GitHub may fail to trigger
    MayAbort,       \* whether a run may be cut short
    None            \* no record, no time stamp

Builds == 1..NBuilds
\* bound: counts beyond the end of the table are all alike
MaxCount == Len(Backoff) + 1
MaxAge == Backoff[Len(Backoff)]

Counts == 0..MaxCount
Ages == 0..MaxAge \cup {None}
Records == [count : Counts, skip : BOOLEAN, lastTime : Ages]

ASSUME TriggerAssumption ==
    /\ NBuilds \in Nat /\ None \notin Int /\ None \notin Records
    /\ GHA \subseteq Builds /\ MayFail \subseteq Builds
    /\ MayAbort \in BOOLEAN
    /\ Backoff \in Seq(Nat) /\ Backoff # <<>>
    /\ \A i \in DOMAIN Backoff : Backoff[i] <= MaxAge

VARIABLES
    needsBuild,     \* the builds of builds.json that needs_build selects
    archived,       \* the past-jobs.json of the last successful run
    stage,          \* where the running job stands
    pastJobs,       \* the past-jobs.json this run got
    newJobs,        \* jobs_record: what will be archived
    queue,          \* filter_skips_queue: what is still to be triggered
    waitQueue,      \* the triggered builds that Jenkins waits for
    completion      \* buildCompletionData: the time stamps of this run

vars == <<needsBuild, archived, stage, pastJobs, newJobs, queue, waitQueue, completion>>
runVars == <<pastJobs, newJobs, queue, waitQueue, completion>>

NoJobs == [b \in Builds |-> None]

Init ==
    /\ needsBuild \in SUBSET Builds
    /\ archived = NoJobs
    /\ stage = "idle"
    /\ pastJobs = NoJobs /\ newJobs = NoJobs
    /\ queue = <<>> /\ waitQueue = {}
    /\ completion = NoJobs

Smaller(m, n) == IF m < n THEN m ELSE n

(***************************************************************************)
(* jenkins.jq                                                              *)
(***************************************************************************)
Untried == [count |-> 0, skip |-> FALSE, lastTime |-> None]

Interval(count) == Backoff[Smaller(count, Len(Backoff) - 1) + 1]

\* a record without a time stamp counts from now
TooEarly(r) ==
    IF r.lastTime = None THEN 0 < Interval(r.count)
                         ELSE r.lastTime < Interval(r.count)

\* slip: a skipped build starts over
SkippedAnew(r) == [Untried EXCEPT !.skip = TRUE]
Skipped(r) == [r EXCEPT !.skip = TRUE]

JobRecord(r) ==
    IF TooEarly(r) THEN Skipped(r)
    ELSE [r EXCEPT !.skip = FALSE, !.count = Smaller(@ + 1, MaxCount)]

JobsRecord(past) ==
    [b \in Builds |->
        IF b \notin needsBuild THEN None
        ELSE JobRecord(IF past[b] = None THEN Untried ELSE past[b])]

\* slip: the queue stays in the order of builds.json
Before(jobs, a, b) == a < b
\* sort_by is stable: equal counts stay in the order of builds.json
SortsBefore(jobs, a, b) ==
    jobs[a].count < jobs[b].count \/ (jobs[a].count = jobs[b].count /\ a < b)

SortedQueue(jobs) ==
    LET todo == {b \in needsBuild : ~jobs[b].skip}
    IN  CHOOSE q \in [1..Cardinality(todo) -> todo] :
            \A i, j \in DOMAIN q : i < j => SortsBefore(jobs, q[i], q[j])

(***************************************************************************)
(* The job.                                                                *)
(***************************************************************************)

\* the queue; nothing to build and nothing skipped ends the run, successfully
\* and without a past-jobs.json
Queue ==
    /\ stage = "idle"
    /\ pastJobs' \in {archived, NoJobs}
    /\ newJobs' = JobsRecord(pastJobs')
    /\ queue' = SortedQueue(newJobs')
    /\ waitQueue' = {} /\ completion' = NoJobs
    /\ IF needsBuild = {} THEN archived' = NoJobs /\ stage' = "idle"
                          ELSE stage' = "trigger" /\ UNCHANGED archived
    /\ UNCHANGED needsBuild

WaitedFor(b) == b \notin GHA

\* a build on GitHub is not waited for; a failure to trigger is caught
TriggerNext ==
    /\ stage = "trigger" /\ queue # <<>>
    /\ LET b == Head(queue)
       IN  \/ /\ b \in GHA
              /\ completion' = [completion EXCEPT ![b] = 0]
              /\ UNCHANGED waitQueue
           \/ /\ WaitedFor(b)
              /\ waitQueue' = waitQueue \cup {b}
              /\ UNCHANGED completion
           \/ /\ b \in MayFail
              /\ UNCHANGED <<waitQueue, completion>>
    /\ queue' = Tail(queue)
    /\ UNCHANGED <<needsBuild, archived, stage, pastJobs, newJobs>>

Triggered ==
    /\ stage = "trigger" /\ queue = <<>>
    /\ stage' = "wait"
    /\ UNCHANGED <<needsBuild, archived, runVars>>

\* slip: only a build that succeeded is recorded
OnlySuccess(b) == completion
Ended(b) == [completion EXCEPT ![b] = 0]

\* waitForBuild returns, whether the build succeeded or not
WaitForBuild(b) ==
    /\ stage = "wait" /\ b \in waitQueue
    /\ completion' = Ended(b)
    /\ waitQueue' = waitQueue \ {b}
    /\ UNCHANGED <<needsBuild, archived, stage, pastJobs, newJobs, queue>>

\* the records of this run, with its own time stamps
Merged(b) ==
    IF newJobs[b] = None \/ completion[b] = None THEN newJobs[b]
    ELSE [newJobs[b] EXCEPT !.lastTime = completion[b]]

Archive ==
    /\ stage = "wait" /\ waitQueue = {}
    /\ archived' = [b \in Builds |-> Merged(b)]
    /\ stage' = "idle"
    /\ UNCHANGED <<needsBuild, runVars>>

\* the run is aborted, or Jenkins goes down: disableResume
Abort ==
    /\ MayAbort /\ stage # "idle"
    /\ stage' = "idle"
    /\ UNCHANGED <<needsBuild, archived, runVars>>

(***************************************************************************)
(* Meanwhile.                                                              *)
(***************************************************************************)

\* builds.json is written anew: an image got there, or is not there yet
Change(b) ==
    /\ needsBuild' = IF b \in needsBuild THEN needsBuild \ {b} ELSE needsBuild \cup {b}
    /\ UNCHANGED <<archived, stage, runVars>>

Older(age) == IF age = None THEN None ELSE Smaller(age + 1, MaxAge)
AllOlder(jobs) ==
    [b \in Builds |-> IF jobs[b] = None THEN None
                      ELSE [jobs[b] EXCEPT !.lastTime = Older(@)]]

\* an hour goes by
Hour ==
    /\ archived' = AllOlder(archived)
    /\ pastJobs' = AllOlder(pastJobs)
    /\ newJobs' = AllOlder(newJobs)
    /\ completion' = [b \in Builds |-> Older(completion[b])]
    /\ UNCHANGED <<needsBuild, stage, queue, waitQueue>>

Run == TriggerNext \/ Triggered \/ Archive \/ \E b \in Builds : WaitForBuild(b)

Next == Queue \/ Run \/ Abort \/ Hour \/ \E b \in Builds : Change(b)

\* cron starts a run every hour, and the builds it waits for come to an end
Fairness == WF_vars(Hour) /\ WF_vars(Queue) /\ WF_vars(Run)

Spec == Init /\ [][Next]_vars /\ Fairness

(***************************************************************************)
(* Properties.                                                             *)
(***************************************************************************)
Tables == [Builds -> Records \cup {None}]

TypeOK ==
    /\ needsBuild \subseteq Builds
    /\ archived \in Tables /\ pastJobs \in Tables /\ newJobs \in Tables
    /\ stage \in {"idle", "trigger", "wait"}
    /\ queue \in Seq(Builds) /\ waitQueue \subseteq Builds \ GHA
    /\ completion \in [Builds -> Ages]

\* What failed before comes after what did not: "failing builds always live
\* at the bottom of the queue" (jenkins.jq:117), judged by the file the run
\* started from.
Attempts(b) == IF pastJobs[b] = None THEN 0 ELSE pastJobs[b].count
FailingLast ==
    stage = "trigger" => \A i, j \in DOMAIN queue :
        Attempts(queue[i]) < Attempts(queue[j]) /\ Attempts(queue[j]) < MaxCount => i < j

\* While a build is needed, and the run got the file, the number of attempts on
\* record never goes down and no time stamp is forgotten: not by a run that
\* skips the build, nor by one that fails to trigger it.
RecordsKept ==
    [][\A b \in Builds :
          archived[b] # None /\ archived'[b] # None /\ pastJobs[b] # None =>
              /\ archived'[b].count >= archived[b].count
              /\ archived[b].lastTime # None => archived'[b].lastTime # None]_vars

\* What is needed for good is in the queue of a run again and again.
InQueue(b) == stage # "idle" /\ \E i \in DOMAIN queue : queue[i] = b
Retried(b) == <>[](b \in needsBuild) => []<>InQueue(b)

\* A build that keeps failing, but can be triggered, is retried for ever,
\* through lost files and aborted runs (jenkins.jq:84-95).
FailingRetried == \A b \in Builds \ MayFail : Retried(b)

\* So is every build: the longest interval is a "max backoff" (jenkins.jq:92).
AllRetried == \A b \in Builds : Retried(b)
=============================================================================
