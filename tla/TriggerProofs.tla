---------------------------- MODULE TriggerProofs ----------------------------
(***************************************************************************)
(* Proofs about Trigger, for any number of builds and any table of         *)
(* intervals.                                                              *)
(*                                                                         *)
(* While a run goes on the hours that pass make the archived records and   *)
(* those the run read older alike, so that what it writes in the end still *)
(* continues what is archived.  The queue is sorted by the counts that the *)
(* run has raised by one, up to the bound.                                 *)
(***************************************************************************)
EXTENDS Trigger, FunctionTheorems, FiniteSetTheorems, SequenceTheorems, TLAPS

\* what a running job has read is what is archived, or nothing, and its own
\* records continue that
SinceRead ==
    stage # "idle" =>
        /\ pastJobs \in {archived, NoJobs}
        /\ \A b \in Builds : newJobs[b] # None /\ pastJobs[b] # None =>
              /\ newJobs[b].count >= pastJobs[b].count
              /\ pastJobs[b].lastTime # None => newJobs[b].lastTime # None

\* what is still in the queue is sorted by its counts
Sorted ==
    stage = "trigger" =>
        /\ \A i \in DOMAIN queue :
              newJobs[queue[i]].count = Smaller(Attempts(queue[i]) + 1, MaxCount)
        /\ \A i, j \in DOMAIN queue :
              i < j => newJobs[queue[i]].count <= newJobs[queue[j]].count

IInv == TypeOK /\ SinceRead /\ Sorted

-----------------------------------------------------------------------------

\* The table of intervals bounds what is counted (jenkins.jq:84-92).
LEMMA Bounds ==
    /\ MaxCount \in Nat /\ MaxAge \in Nat /\ Builds \subseteq Nat /\ IsFiniteSet(Builds)
    /\ None \notin Int /\ None \notin Records
<1>1. Len(Backoff) \in Nat /\ Len(Backoff) >= 1
  BY TriggerAssumption, LenProperties, EmptySeq
<1>2. MaxAge \in Nat
  BY <1>1, TriggerAssumption, ElementOfSeq DEF MaxAge
<1>3. IsFiniteSet(Builds)
  BY TriggerAssumption, FS_Interval DEF Builds
<1> QED  BY <1>1, <1>2, <1>3, TriggerAssumption DEF MaxCount, Builds

\* A finite set of builds can be put in order of their counts: there is a
\* queue (jenkins.jq:118).
LEMMA QueueExists ==
    ASSUME NEW S, S \subseteq Builds, NEW jobs, \A b \in S : jobs[b].count \in Nat
    PROVE  \E q \in [1..Cardinality(S) -> S] :
               \A i, j \in DOMAIN q : i < j => SortsBefore(jobs, q[i], q[j])
<1> DEFINE n == Cardinality(S)
           below(x) == {y \in S : SortsBefore(jobs, y, x)}
           rank == [x \in S |-> Cardinality(below(x)) + 1]
<1>1. IsFiniteSet(S) /\ n \in Nat /\ S \subseteq Nat
  BY Bounds, FS_Subset, FS_CardinalityType
<1>2. ASSUME NEW x \in S, NEW y \in S, x # y
      PROVE  SortsBefore(jobs, x, y) \/ SortsBefore(jobs, y, x)
  <2>1. /\ x \in Nat /\ y \in Nat
        /\ jobs[x].count \in Nat /\ jobs[y].count \in Nat
    BY <1>1
  <2> QED  BY <1>2, <2>1 DEF SortsBefore
<1>3. ASSUME NEW x \in S, NEW y \in S, NEW z \in S,
             SortsBefore(jobs, x, y), SortsBefore(jobs, y, z)
      PROVE  SortsBefore(jobs, x, z)
  <2>1. /\ x \in Nat /\ y \in Nat /\ z \in Nat
        /\ jobs[x].count \in Nat /\ jobs[y].count \in Nat /\ jobs[z].count \in Nat
    BY <1>1
  <2> QED  BY <1>3, <2>1 DEF SortsBefore
<1>4. ASSUME NEW x \in S PROVE ~SortsBefore(jobs, x, x)
  <2>1. x \in Nat /\ jobs[x].count \in Nat
    BY <1>1
  <2> QED  BY <2>1 DEF SortsBefore
<1>5. ASSUME NEW x \in S PROVE /\ IsFiniteSet(below(x)) /\ Cardinality(below(x)) \in Nat
                               /\ Cardinality(below(x)) < n
  <2>1. below(x) \in SUBSET S
    OBVIOUS
  <2>2. x \notin below(x)
    BY <1>4
  <2> HIDE DEF below
  <2>3. IsFiniteSet(below(x)) /\ Cardinality(below(x)) <= n /\ Cardinality(below(x)) # n
    BY <1>1, <2>1, <2>2, FS_Subset
  <2>4. Cardinality(below(x)) \in Nat
    BY <2>3, FS_CardinalityType
  <2> QED  BY <1>1, <2>3, <2>4
<1>6. ASSUME NEW x \in S, NEW y \in S, SortsBefore(jobs, x, y)
      PROVE  Cardinality(below(x)) < Cardinality(below(y))
  <2>1. below(x) \in SUBSET below(y)
    BY <1>3, <1>6
  <2>2. x \in below(y) /\ x \notin below(x)
    BY <1>4, <1>6
  <2> HIDE DEF below
  <2>3. Cardinality(below(x)) <= Cardinality(below(y))
        /\ Cardinality(below(x)) # Cardinality(below(y))
    BY <1>5, <2>1, <2>2, FS_Subset
  <2> QED  BY <1>5, <2>3
<1> HIDE DEF below
<1>7. rank \in [S -> 1..n]
  BY <1>1, <1>5
<1>8. \A x, y \in S : SortsBefore(jobs, x, y) => rank[x] < rank[y]
  BY <1>5, <1>6
<1>9. \A x \in S : rank[x] \in Nat
  BY <1>5
<1> HIDE DEF rank
<1>10. rank \in Injection(S, 1..n)
  <2>1. ASSUME NEW x \in S, NEW y \in S, x # y PROVE rank[x] # rank[y]
    BY <1>2, <1>8, <1>9, <2>1
  <2> QED  BY <1>7, <2>1 DEF Injection, IsInjective
<1>11. rank \in Surjection(S, 1..n)
  <2>1. IsFiniteSet(1..n) /\ Cardinality(1..n) = n
    BY <1>1, FS_Interval
  <2> HIDE DEF n
  <2>2. Cardinality(S) = Cardinality(1..n)
    BY <2>1 DEF n
  <2> QED  BY <1>10, <2>1, <2>2, FS_Injection
<1> DEFINE q == [i \in 1..n |-> CHOOSE x \in S : rank[x] = i]
<1>12. \A i \in 1..n : q[i] \in S /\ rank[q[i]] = i
  BY <1>11 DEF Surjection
<1>13. q \in [1..n -> S] /\ DOMAIN q = 1..n
  BY <1>12
<1> HIDE DEF q
<1>14. ASSUME NEW i \in 1..n, NEW j \in 1..n, i < j PROVE SortsBefore(jobs, q[i], q[j])
  <2>1. q[i] # q[j]
    BY <1>12, <1>14
  <2>2. ~SortsBefore(jobs, q[j], q[i])
    <3> SUFFICES ASSUME SortsBefore(jobs, q[j], q[i]) PROVE FALSE
      OBVIOUS
    <3>1. rank[q[j]] < rank[q[i]]
      BY <1>8, <1>12
    <3> QED  BY <1>1, <1>12, <1>14, <3>1
  <2> QED  BY <1>2, <1>12, <2>1, <2>2
<1> QED  BY <1>13, <1>14

-----------------------------------------------------------------------------

\* What jenkins.jq makes of a record is a record, with one more attempt or with
\* what it had.
LEMMA RecordMade ==
    ASSUME NEW r \in Records
    PROVE  /\ JobRecord(r) \in Records
           /\ JobRecord(r).count >= r.count /\ JobRecord(r).lastTime = r.lastTime
           /\ ~JobRecord(r).skip => JobRecord(r).count = Smaller(r.count + 1, MaxCount)
<1>1. r.count \in 0..MaxCount /\ MaxCount \in Nat
  BY Bounds DEF Records, Counts
<1>2. Smaller(r.count + 1, MaxCount) \in Counts /\ Smaller(r.count + 1, MaxCount) >= r.count
  BY <1>1 DEF Smaller, Counts
<1>3. CASE JobRecord(r) = Skipped(r)
  <2>1. Skipped(r) \in Records
    BY DEF Skipped, Records
  <2>2. Skipped(r).skip /\ Skipped(r).count = r.count /\ Skipped(r).lastTime = r.lastTime
    BY DEF Skipped, Records
  <2> HIDE DEF Skipped
  <2> QED  BY <1>1, <1>3, <2>1, <2>2
<1>4. CASE JobRecord(r) = [r EXCEPT !.skip = FALSE, !.count = Smaller(@ + 1, MaxCount)]
  BY <1>2, <1>4 DEF Records
<1> QED  BY <1>3, <1>4 DEF JobRecord

\* The records of a run (jobs_record in jenkins.jq).
LEMMA RecordsMade ==
    ASSUME NEW past \in Tables
    PROVE  /\ JobsRecord(past) \in Tables
           /\ \A b \in needsBuild \cap Builds :
                 /\ JobsRecord(past)[b] \in Records
                 /\ ~JobsRecord(past)[b].skip =>
                       JobsRecord(past)[b].count =
                          Smaller((IF past[b] = None THEN 0 ELSE past[b].count) + 1, MaxCount)
           /\ \A b \in Builds : JobsRecord(past)[b] # None /\ past[b] # None =>
                 /\ JobsRecord(past)[b].count >= past[b].count
                 /\ JobsRecord(past)[b].lastTime = past[b].lastTime
<1>1. Untried \in Records /\ Untried.count = 0
  BY Bounds DEF Untried, Records, Counts, Ages
<1>2. ASSUME NEW b \in Builds
      PROVE  /\ past[b] # None => past[b] \in Records
             /\ JobsRecord(past)[b] = IF b \notin needsBuild THEN None
                  ELSE JobRecord(IF past[b] = None THEN Untried ELSE past[b])
  BY DEF Tables, JobsRecord
<1> HIDE DEF JobRecord, Untried, Smaller
<1>3. ASSUME NEW b \in needsBuild \cap Builds
      PROVE  /\ JobsRecord(past)[b] \in Records
             /\ ~JobsRecord(past)[b].skip =>
                   JobsRecord(past)[b].count =
                      Smaller((IF past[b] = None THEN 0 ELSE past[b].count) + 1, MaxCount)
  <2>1. CASE past[b] = None
    BY <1>1, <1>2, <2>1, RecordMade
  <2>2. CASE past[b] # None
    BY <1>2, <2>2, RecordMade
  <2> QED  BY <2>1, <2>2
<1>4. \A b \in Builds : JobsRecord(past)[b] # None /\ past[b] # None =>
                 /\ JobsRecord(past)[b].count >= past[b].count
                 /\ JobsRecord(past)[b].lastTime = past[b].lastTime
  BY <1>2, RecordMade
<1>5. JobsRecord(past) \in Tables
  <2>1. \A b \in Builds : JobsRecord(past)[b] \in Records \cup {None}
    BY <1>2, <1>3
  <2>2. DOMAIN JobsRecord(past) = Builds /\ JobsRecord(past) = [b \in Builds |-> JobsRecord(past)[b]]
    BY DEF JobsRecord
  <2> QED  BY <2>1, <2>2 DEF Tables
<1> QED  BY <1>3, <1>4, <1>5

\* The queue holds what is not skipped, in order.
LEMMA QueueMade ==
    ASSUME needsBuild \subseteq Builds, NEW jobs,
           \A b \in needsBuild : jobs[b] \in Records
    PROVE  /\ SortedQueue(jobs) \in Seq(Builds)
           /\ \A i \in DOMAIN SortedQueue(jobs) :
                 SortedQueue(jobs)[i] \in needsBuild /\ ~jobs[SortedQueue(jobs)[i]].skip
           /\ \A i, j \in DOMAIN SortedQueue(jobs) :
                 i < j => jobs[SortedQueue(jobs)[i]].count <= jobs[SortedQueue(jobs)[j]].count
<1> DEFINE todo == {b \in needsBuild : ~jobs[b].skip}
           q == SortedQueue(jobs)
<1>1. \A b \in needsBuild : jobs[b].count \in Nat
  BY Bounds DEF Records, Counts
<1>2. /\ q \in [1..Cardinality(todo) -> todo]
      /\ \A i, j \in DOMAIN q : i < j => SortsBefore(jobs, q[i], q[j])
  <2>1. todo \subseteq Builds /\ \A b \in todo : jobs[b].count \in Nat
    BY <1>1
  <2> HIDE DEF todo
  <2>2. \E f \in [1..Cardinality(todo) -> todo] :
           \A i, j \in DOMAIN f : i < j => SortsBefore(jobs, f[i], f[j])
    BY <2>1, QueueExists
  <2>3. q = CHOOSE f \in [1..Cardinality(todo) -> todo] :
               \A i, j \in DOMAIN f : i < j => SortsBefore(jobs, f[i], f[j])
    BY DEF SortedQueue, todo
  <2> HIDE DEF q
  <2> QED  BY <2>2, <2>3
<1> HIDE DEF q
<1>3. Cardinality(todo) \in Nat
  <2>1. todo \in SUBSET Builds
    OBVIOUS
  <2> HIDE DEF todo
  <2> QED  BY <2>1, Bounds, FS_Subset, FS_CardinalityType
<1>4. q \in Seq(Builds)
  <2>1. todo \subseteq Builds
    OBVIOUS
  <2> HIDE DEF todo
  <2>2. q \in [1..Cardinality(todo) -> Builds]
    BY <1>2, <2>1
  <2> QED  BY <1>3, <2>2, SeqDef
<1>5. \A i \in DOMAIN q : q[i] \in todo
  BY <1>2
<1>6. \A i, j \in DOMAIN q : i < j => jobs[q[i]].count <= jobs[q[j]].count
  <2> SUFFICES ASSUME NEW i \in DOMAIN q, NEW j \in DOMAIN q, i < j
               PROVE  jobs[q[i]].count <= jobs[q[j]].count
    OBVIOUS
  <2>1. jobs[q[i]].count \in Nat /\ jobs[q[j]].count \in Nat
    BY <1>1, <1>5
  <2>2. SortsBefore(jobs, q[i], q[j])
    BY <1>2
  <2> QED  BY <2>1, <2>2 DEF SortsBefore
<1> QED  BY <1>4, <1>5, <1>6 DEF q

\* A time stamp only gets older, and is not forgotten.
LEMMA OlderKept ==
    /\ \A age \in Ages : Older(age) \in Ages /\ (Older(age) = None <=> age = None)
    /\ \A jobs \in Tables :
          /\ AllOlder(jobs) \in Tables
          /\ \A b \in Builds :
                /\ jobs[b] = None <=> AllOlder(jobs)[b] = None
                /\ AllOlder(jobs)[b].count = jobs[b].count
                /\ jobs[b] # None => (AllOlder(jobs)[b].lastTime = None <=> jobs[b].lastTime = None)
    /\ AllOlder(NoJobs) = NoJobs
<1>1. ASSUME NEW age \in Ages PROVE Older(age) \in Ages /\ (Older(age) = None <=> age = None)
  <2>1. CASE age = None
    BY <2>1 DEF Older, Ages
  <2>2. CASE age # None
    BY <2>2, Bounds DEF Older, Ages, Smaller
  <2> QED  BY <2>1, <2>2
<1>2. ASSUME NEW jobs \in Tables
      PROVE  /\ AllOlder(jobs) \in Tables
             /\ \A b \in Builds :
                   /\ jobs[b] = None <=> AllOlder(jobs)[b] = None
                   /\ AllOlder(jobs)[b].count = jobs[b].count
                   /\ jobs[b] # None
                      => (AllOlder(jobs)[b].lastTime = None <=> jobs[b].lastTime = None)
  <2> HIDE DEF Older
  <2>1. ASSUME NEW r \in Records, NEW s, s = [r EXCEPT !.lastTime = Older(@)]
        PROVE  /\ s \in Records /\ s.count = r.count
               /\ s.lastTime = None <=> r.lastTime = None
    BY <1>1, <2>1 DEF Records
  <2>2. ASSUME NEW b \in Builds
        PROVE  AllOlder(jobs)[b] = IF jobs[b] = None THEN None
                                   ELSE [jobs[b] EXCEPT !.lastTime = Older(@)]
    BY DEF AllOlder
  <2>3. ASSUME NEW b \in Builds
        PROVE  /\ AllOlder(jobs)[b] \in Records \cup {None}
               /\ jobs[b] = None <=> AllOlder(jobs)[b] = None
               /\ AllOlder(jobs)[b].count = jobs[b].count
               /\ jobs[b] # None
                      => (AllOlder(jobs)[b].lastTime = None <=> jobs[b].lastTime = None)
    <3>1. CASE jobs[b] = None
      BY <2>2, <3>1
    <3>2. CASE jobs[b] # None
      <4>1. jobs[b] \in Records
        BY <3>2 DEF Tables
      <4> QED  BY <2>1, <2>2, <3>2, <4>1, Bounds
    <3> QED  BY <3>1, <3>2
  <2>4. AllOlder(jobs) \in Tables
    <3>1. AllOlder(jobs) = [b \in Builds |-> AllOlder(jobs)[b]]
      BY DEF AllOlder
    <3> HIDE DEF AllOlder
    <3> QED  BY <2>3, <3>1 DEF Tables
  <2> QED  BY <2>3, <2>4
<1>3. AllOlder(NoJobs) = NoJobs
  BY DEF AllOlder, NoJobs
<1> QED  BY <1>1, <1>2, <1>3

\* What is archived are the run's records with its time stamps.
LEMMA MergedKept ==
    ASSUME TypeOK, NEW b \in Builds
    PROVE  /\ Merged(b) \in Records \cup {None}
           /\ newJobs[b] = None => Merged(b) = None
           /\ newJobs[b] # None =>
                 /\ Merged(b).count = newJobs[b].count
                 /\ newJobs[b].lastTime # None => Merged(b).lastTime # None
<1>1. newJobs[b] \in Records \cup {None} /\ completion[b] \in Ages
  BY DEF TypeOK, Tables
<1>2. CASE newJobs[b] = None \/ completion[b] = None
  BY <1>1, <1>2 DEF Merged
<1>3. CASE ~(newJobs[b] = None \/ completion[b] = None)
  <2>1. Merged(b) = [newJobs[b] EXCEPT !.lastTime = completion[b]] /\ newJobs[b] \in Records
    BY <1>1, <1>3 DEF Merged
  <2>2. /\ Merged(b) \in Records /\ Merged(b).count = newJobs[b].count
        /\ Merged(b).lastTime = completion[b]
    BY <1>1, <2>1 DEF Records
  <2> QED  BY <1>3, <2>2
<1> QED  BY <1>2, <1>3

\* No run and no hour changes the types.
LEMMA TypeStep == TypeOK /\ [Next]_vars => TypeOK'
<1> SUFFICES ASSUME TypeOK, [Next]_vars PROVE TypeOK'
  OBVIOUS
<1> USE DEF TypeOK
<1>0. NoJobs \in Tables /\ NoJobs \in [Builds -> Ages] /\ 0 \in Ages
  BY Bounds DEF NoJobs, Tables, Ages
<1>1. CASE Queue
  <2>1. pastJobs' \in Tables /\ newJobs' = JobsRecord(pastJobs') /\ UNCHANGED needsBuild
    BY <1>0, <1>1 DEF Queue
  <2>2. newJobs' \in Tables /\ \A b \in needsBuild : newJobs'[b] \in Records
    BY <2>1, RecordsMade
  <2>3. queue' \in Seq(Builds)
    BY <1>1, <2>2, QueueMade DEF Queue
  <2>4. archived' \in {archived, NoJobs} /\ stage' \in {"idle", "trigger"}
        /\ waitQueue' = {} /\ completion' = NoJobs
    BY <1>1 DEF Queue
  <2> QED  BY <1>0, <2>1, <2>2, <2>3, <2>4
<1>2. CASE TriggerNext
  <2>1. Head(queue) \in Builds /\ queue' \in Seq(Builds)
    BY <1>2, HeadTailProperties DEF TriggerNext
  <2>2. /\ completion' \in {completion, [completion EXCEPT ![Head(queue)] = 0]}
        /\ waitQueue' \subseteq Builds \ GHA
        /\ UNCHANGED <<needsBuild, archived, stage, pastJobs, newJobs>>
    BY <1>2, <2>1 DEF TriggerNext, WaitedFor
  <2> HIDE DEF TypeOK
  <2>3. completion' \in [Builds -> Ages]
    BY <1>0, <2>2 DEF TypeOK
  <2> QED  BY <2>1, <2>2, <2>3 DEF TypeOK
<1>3. ASSUME NEW b \in Builds, WaitForBuild(b) PROVE TypeOK'
  BY <1>0, <1>3 DEF WaitForBuild, Ended
<1>4. CASE Archive
  <2>1. archived' \in Tables
    BY <1>4, MergedKept DEF Archive, Tables
  <2> QED  BY <1>4, <2>1 DEF Archive, runVars
<1>5. CASE Triggered \/ Abort
  BY <1>5 DEF Triggered, Abort, runVars
<1>6. CASE Hour
  <2>1. completion' \in [Builds -> Ages]
    BY <1>6, OlderKept DEF Hour
  <2>2. archived' \in Tables /\ pastJobs' \in Tables /\ newJobs' \in Tables
    BY <1>6, OlderKept DEF Hour
  <2> QED  BY <1>6, <2>1, <2>2 DEF Hour
<1>7. ASSUME NEW b \in Builds, Change(b) PROVE TypeOK'
  BY <1>7 DEF Change, runVars
<1>8. CASE UNCHANGED vars
  BY <1>8 DEF vars, runVars
<1> QED  BY <1>1, <1>2, <1>3, <1>4, <1>5, <1>6, <1>7, <1>8 DEF Next, Run

-----------------------------------------------------------------------------

\* What a run writes in the end continues what is archived.
LEMMA SinceReadStep == TypeOK /\ SinceRead /\ [Next]_vars => SinceRead'
<1> SUFFICES ASSUME TypeOK, SinceRead, [Next]_vars PROVE SinceRead'
  OBVIOUS
<1>1. CASE Queue
  <2>1. /\ pastJobs' \in {archived, NoJobs} /\ newJobs' = JobsRecord(pastJobs')
        /\ stage' # "idle" => UNCHANGED archived
    BY <1>1 DEF Queue
  <2>2. pastJobs' \in Tables
    BY <2>1 DEF TypeOK, NoJobs, Tables
  <2>3. \A b \in Builds : newJobs'[b] # None /\ pastJobs'[b] # None =>
           /\ newJobs'[b].count >= pastJobs'[b].count
           /\ newJobs'[b].lastTime = pastJobs'[b].lastTime
    BY <2>1, <2>2, RecordsMade
  <2> QED  BY <2>1, <2>3 DEF SinceRead
<1>2. CASE Hour
  <2>1. /\ archived' = AllOlder(archived) /\ pastJobs' = AllOlder(pastJobs)
        /\ newJobs' = AllOlder(newJobs) /\ UNCHANGED stage
    BY <1>2 DEF Hour
  <2>2. archived \in Tables /\ pastJobs \in Tables /\ newJobs \in Tables
    BY DEF TypeOK
  <2> SUFFICES ASSUME stage # "idle" PROVE SinceRead'
    BY <2>1 DEF SinceRead
  <2>3. pastJobs' \in {archived', NoJobs}
    BY <2>1, OlderKept DEF SinceRead
  <2> HIDE DEF AllOlder
  <2>4. ASSUME NEW b \in Builds, newJobs'[b] # None, pastJobs'[b] # None
        PROVE  /\ newJobs'[b].count >= pastJobs'[b].count
               /\ pastJobs'[b].lastTime # None => newJobs'[b].lastTime # None
    <3>1. newJobs[b] # None /\ pastJobs[b] # None
      BY <2>1, <2>2, <2>4, OlderKept
    <3>2. /\ newJobs[b].count >= pastJobs[b].count
          /\ pastJobs[b].lastTime # None => newJobs[b].lastTime # None
      BY <3>1 DEF SinceRead
    <3> QED  BY <2>1, <2>2, <3>1, <3>2, OlderKept
  <2> QED  BY <2>3, <2>4 DEF SinceRead
<1>3. CASE UNCHANGED <<archived, pastJobs, newJobs>> /\ (stage # "idle" \/ stage' = "idle")
  BY <1>3 DEF SinceRead
<1>4. CASE Archive \/ Abort
  BY <1>4 DEF Archive, Abort, SinceRead
<1>5. Run /\ ~Archive => UNCHANGED <<archived, pastJobs, newJobs>> /\ stage # "idle"
  BY DEF Run, TriggerNext, Triggered, WaitForBuild, runVars
<1>6. (\E b \in Builds : Change(b)) \/ UNCHANGED vars
      => UNCHANGED <<archived, pastJobs, newJobs, stage>>
  BY DEF Change, vars, runVars
<1> QED  BY <1>1, <1>2, <1>3, <1>4, <1>5, <1>6 DEF Next

\* The queue stays sorted while builds leave it at its head.
LEMMA SortedStep == TypeOK /\ Sorted /\ [Next]_vars => Sorted'
<1> SUFFICES ASSUME TypeOK, Sorted, [Next]_vars PROVE Sorted'
  OBVIOUS
<1>0. queue \in Seq(Builds) /\ newJobs \in Tables /\ pastJobs \in Tables /\ needsBuild \subseteq Builds
  BY DEF TypeOK
<1>1. CASE Queue
  <2>1. /\ newJobs' = JobsRecord(pastJobs') /\ queue' = SortedQueue(newJobs')
        /\ pastJobs' \in {archived, NoJobs}
    BY <1>1 DEF Queue
  <2>2. pastJobs' \in Tables
    BY <2>1 DEF TypeOK, NoJobs, Tables
  <2>3. \A b \in needsBuild : newJobs'[b] \in Records
    BY <1>0, <2>1, <2>2, RecordsMade
  <2>4. /\ \A i \in DOMAIN queue' : queue'[i] \in needsBuild /\ ~newJobs'[queue'[i]].skip
        /\ \A i, j \in DOMAIN queue' :
              i < j => newJobs'[queue'[i]].count <= newJobs'[queue'[j]].count
    BY <1>0, <2>1, <2>3, QueueMade
  <2>5. \A b \in needsBuild : ~newJobs'[b].skip =>
           newJobs'[b].count
             = Smaller((IF pastJobs'[b] = None THEN 0 ELSE pastJobs'[b].count) + 1, MaxCount)
    BY <1>0, <2>1, <2>2, RecordsMade
  <2> HIDE DEF Smaller
  <2> QED  BY <2>4, <2>5 DEF Sorted, Attempts
<1>2. CASE TriggerNext
  <2>1. queue # <<>> /\ queue' = Tail(queue) /\ UNCHANGED <<newJobs, pastJobs, stage>>
        /\ stage = "trigger"
    BY <1>2 DEF TriggerNext
  <2>2. /\ Len(queue) \in Nat /\ DOMAIN queue = 1..Len(queue)
        /\ Len(queue') = Len(queue) - 1 /\ DOMAIN queue' = 1..Len(queue')
        /\ \A i \in 1..Len(queue') : queue'[i] = queue[i + 1]
    BY <1>0, <2>1, LenProperties, HeadTailProperties
  <2>3. \A i \in DOMAIN queue' : i + 1 \in DOMAIN queue /\ queue'[i] = queue[i + 1] /\ i \in Nat
    BY <2>2
  <2>4. \A i \in DOMAIN queue' :
           newJobs'[queue'[i]].count
             = Smaller((IF pastJobs'[queue'[i]] = None THEN 0 ELSE pastJobs'[queue'[i]].count) + 1,
                       MaxCount)
    <3> HIDE DEF Smaller
    <3> QED  BY <2>1, <2>3 DEF Sorted, Attempts
  <2>5. ASSUME NEW i \in DOMAIN queue', NEW j \in DOMAIN queue', i < j
        PROVE  newJobs'[queue'[i]].count <= newJobs'[queue'[j]].count
    <3>1. i + 1 < j + 1
      BY <2>3, <2>5
    <3> QED  BY <2>1, <2>3, <3>1 DEF Sorted
  <2> HIDE DEF Smaller
  <2> QED  BY <2>4, <2>5 DEF Sorted, Attempts
<1>3. CASE Hour
  <2>1. /\ pastJobs' = AllOlder(pastJobs) /\ newJobs' = AllOlder(newJobs)
        /\ UNCHANGED <<stage, queue>>
    BY <1>3 DEF Hour
  <2> HIDE DEF AllOlder, Smaller
  <2>2. \A b \in Builds : newJobs'[b].count = newJobs[b].count
    BY <1>0, <2>1, OlderKept
  <2>3. \A b \in Builds : (pastJobs'[b] = None <=> pastJobs[b] = None)
                          /\ pastJobs'[b].count = pastJobs[b].count
    BY <1>0, <2>1, OlderKept
  <2>4. \A i \in DOMAIN queue : queue[i] \in Builds
    BY <1>0, LenProperties, ElementOfSeq
  <2> QED  BY <2>1, <2>2, <2>3, <2>4 DEF Sorted, Attempts
<1>4. CASE UNCHANGED <<queue, pastJobs, newJobs, stage>>
  BY <1>4 DEF Sorted, Attempts
<1>5. CASE stage' # "trigger"
  BY <1>5 DEF Sorted
<1>6. Triggered \/ Archive \/ Abort => stage' # "trigger"
  BY DEF Triggered, Archive, Abort
<1>7. (\E b \in Builds : Change(b) \/ WaitForBuild(b)) \/ UNCHANGED vars
      => UNCHANGED <<queue, pastJobs, newJobs, stage>>
  BY DEF Change, WaitForBuild, vars, runVars
<1> QED  BY <1>1, <1>2, <1>3, <1>4, <1>5, <1>6, <1>7 DEF Next, Run

-----------------------------------------------------------------------------

\* The invariant of the hourly job.
LEMMA Inductive == Spec => []IInv
<1>1. Init => IInv
  <2> SUFFICES ASSUME Init PROVE IInv
    OBVIOUS
  <2>1. NoJobs \in Tables /\ NoJobs \in [Builds -> Ages]
    BY DEF NoJobs, Tables, Ages
  <2> QED  BY <2>1 DEF Init, IInv, TypeOK, SinceRead, Sorted
<1>2. IInv /\ [Next]_vars => IInv'
  BY TypeStep, SinceReadStep, SortedStep DEF IInv
<1> QED  BY <1>1, <1>2, PTL DEF Spec

\* The records, the queue and the time stamps keep their types.
THEOREM TypeCorrect == Spec => []TypeOK
  BY Inductive, PTL DEF IInv

\* What failed before comes after what did not, for any number of builds, any
\* intervals and whatever becomes needed while a run goes on (jenkins.jq:117).
THEOREM QueueIsSorted == Spec => []FailingLast
<1>1. IInv => FailingLast
  <2> SUFFICES ASSUME IInv, stage = "trigger", NEW i \in DOMAIN queue, NEW j \in DOMAIN queue,
                      Attempts(queue[i]) < Attempts(queue[j]), Attempts(queue[j]) < MaxCount
               PROVE  i < j
    BY DEF FailingLast
  <2> DEFINE a == Attempts(queue[i])
             b == Attempts(queue[j])
             m == newJobs[queue[i]].count
             n == newJobs[queue[j]].count
  <2>1. m = Smaller(a + 1, MaxCount) /\ n = Smaller(b + 1, MaxCount)
    BY DEF IInv, Sorted
  <2>2. j < i => n <= m
    BY DEF IInv, Sorted
  <2>3. queue[i] \in Builds /\ queue[j] \in Builds /\ i \in Nat /\ j \in Nat
    <3>1. queue \in Seq(Builds)
      BY DEF IInv, TypeOK
    <3> QED  BY <3>1, LenProperties, ElementOfSeq
  <2>4. a \in Nat /\ b \in Nat /\ MaxCount \in Nat
    BY <2>3, Bounds DEF IInv, TypeOK, Tables, Records, Counts, Attempts
  <2>5. a < b /\ b < MaxCount
    OBVIOUS
  <2> HIDE DEF a, b, m, n
  <2>6. m < n
    BY <2>1, <2>4, <2>5 DEF Smaller
  <2>7. i # j
    BY <2>4, <2>5 DEF a, b
  <2>8. m \in Nat /\ n \in Nat
    BY <2>1, <2>4 DEF Smaller
  <2> QED  BY <2>2, <2>3, <2>6, <2>7, <2>8
<1> QED  BY <1>1, Inductive, PTL

\* As long as a build is needed and no run loses the file, its attempts are
\* counted on and its last time is known, however long runs take and whichever
\* are cut short (jenkins.jq:97-104, Jenkinsfile.trigger:107-127).
THEOREM NothingForgotten == Spec => RecordsKept
<1> DEFINE Kept(b) ==
        archived[b] # None /\ archived'[b] # None /\ pastJobs[b] # None =>
            /\ archived'[b].count >= archived[b].count
            /\ archived[b].lastTime # None => archived'[b].lastTime # None
<1>1. ASSUME IInv, [Next]_vars, NEW b \in Builds PROVE Kept(b)
  <2>1. archived \in Tables
    BY <1>1 DEF IInv, TypeOK
  <2>2. archived[b] # None => archived[b].count \in Nat
    BY <2>1, Bounds DEF Tables, Records, Counts
  <2>3. CASE archived' = archived
    BY <2>2, <2>3
  <2>4. CASE archived' = NoJobs
    BY <2>4 DEF NoJobs
  <2>5. CASE Archive
    <3>1. archived'[b] = Merged(b) /\ stage # "idle"
      BY <2>5 DEF Archive
    <3> SUFFICES ASSUME archived[b] # None, Merged(b) # None, pastJobs[b] # None
                 PROVE  /\ Merged(b).count >= archived[b].count
                        /\ archived[b].lastTime # None => Merged(b).lastTime # None
      BY <3>1
    <3>2. pastJobs = archived /\ newJobs[b] # None
      BY <1>1, <3>1, MergedKept DEF IInv, SinceRead, NoJobs
    <3> QED  BY <1>1, <3>1, <3>2, MergedKept DEF IInv, SinceRead
  <2>6. CASE Hour
    <3>1. archived' = AllOlder(archived)
      BY <2>6 DEF Hour
    <3> HIDE DEF AllOlder
    <3> QED  BY <2>1, <2>2, <3>1, OlderKept
  <2>7. Queue => archived' \in {archived, NoJobs}
    BY DEF Queue
  <2>8. (Run /\ ~Archive) \/ Abort \/ (\E c \in Builds : Change(c)) \/ UNCHANGED vars
        => archived' = archived
    BY DEF Run, TriggerNext, Triggered, WaitForBuild, Abort, Change, vars
  <2> QED  BY <1>1, <2>3, <2>4, <2>5, <2>6, <2>7, <2>8 DEF Next, Run
<1>2. IInv /\ [Next]_vars => [\A b \in Builds : Kept(b)]_vars
  BY <1>1
<1> QED  BY <1>2, Inductive, PTL DEF Spec, RecordsKept
=============================================================================
