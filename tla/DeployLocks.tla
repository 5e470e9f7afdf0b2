---------------------------- MODULE DeployLocks ----------------------------
(***************************************************************************)
(* The concurrency of cmd/deploy/main.go.  The main goroutine walks the    *)
(* refs of the inputs in stream order; each (input, ref) pair is a job.    *)
(* Before it spawns a job that is the first of its input for its           *)
(* repo@digest, it write-locks the RWMutex of that key; the job read-locks *)
(* the key of everything it may need, pushes, and releases what it holds   *)
(* through deferred calls, on the way out of a panic too.  The stream may  *)
(* go on with a document that is refused, and the main goroutine panics.   *)
(*                                                                         *)
(* A Go RWMutex is a writer slot, a set of readers, and an announced       *)
(* writer that keeps new readers out while it waits for the readers there  *)
(* are.  Only the main goroutine calls Lock, so one announcement at a time *)
(* is all there can be.                                                    *)
(***************************************************************************)
EXTENDS Integers

CONSTANTS
    NJobs,      \* how many (input, ref) pairs the main loop comes to
    Keys,       \* "repo@digest" strings, the keys of childMutexes
    NoKey,      \* what is not a key
    Target,     \* [Jobs -> Keys \cup {NoKey}], NoKey for a ref without digest
    Writers,    \* the jobs that are the first of their input for their key
    Reads,      \* [Jobs -> SUBSET Keys], the keys the job read-locks
    MayFail     \* the jobs whose push may return an error

Jobs == 1..NJobs
NoJob == 0

ASSUME DeployAssumption ==
    /\ NJobs \in Nat
    /\ NoKey \notin Keys
    /\ Target \in [Jobs -> Keys \cup {NoKey}]
    /\ Writers \subseteq {j \in Jobs : Target[j] # NoKey}
    /\ Reads \in [Jobs -> SUBSET Keys]
    /\ MayFail \subseteq Jobs

VARIABLES
    parallel,   \* whether --parallel was given
    mainPc,     \* where the main goroutine stands
    next,       \* the job of the main loop's current iteration
    pc,         \* where each job stands
    writer,     \* key -> the job on whose behalf the write lock is held
    announced,  \* the key whose Lock waits for its readers to leave
    readers     \* key -> the jobs that hold a read lock

vars == <<parallel, mainPc, next, pc, writer, announced, readers>>

MainPcs == {"lock", "drain", "spawn", "exited", "crashed"}
JobPcs == {"waiting", "reading", "doing", "pushed", "failed", "done", "unwound"}

Init ==
    /\ parallel \in BOOLEAN
    /\ mainPc = "lock"
    /\ next = 1
    /\ pc = [j \in Jobs |-> "waiting"]
    /\ writer = [k \in Keys |-> NoJob]
    /\ announced = NoKey
    /\ readers = [k \in Keys |-> {}]

Running == mainPc \notin {"exited", "crashed"}

(***************************************************************************)
(* The RWMutexes; a slip is what a mistake in the code would make of the   *)
(* definition that follows it.                                             *)
(***************************************************************************)
NoWriter(k) == writer[k] = NoJob

\* slip: Lock does not wait for the readers
NoReaderUnasked(k) == TRUE
NoReader(k) == readers[k] = {}

\* slip: RLock does not wait for the writer
MayReadUnasked(k) == TRUE
MayRead(k) == NoWriter(k) /\ announced # k

\* slip: the deferred mutex.Unlock() is missing
ForgetLock(j) == writer
GiveUpLock(j) == IF j \in Writers THEN [writer EXCEPT ![Target[j]] = NoJob]
                                  ELSE writer

(***************************************************************************)
(* The main goroutine.                                                     *)
(***************************************************************************)

\* slip: the loop does not wait for the job it runs itself
JobReturnedUnasked == TRUE

\* without --parallel the loop runs the job itself, and comes back after it
JobReturned == parallel \/ \A j \in Jobs : j < next => pc[j] = "done"

\* mutex.Lock() called: the writer before has left, new readers stay out
AnnounceLock ==
    /\ mainPc = "lock" /\ next \in Writers /\ JobReturned
    /\ NoWriter(Target[next])
    /\ announced' = Target[next]
    /\ mainPc' = "drain"
    /\ UNCHANGED <<parallel, next, pc, writer, readers>>

\* mutex.Lock() returns: the readers there were have left
GrantLock ==
    /\ mainPc = "drain"
    /\ NoReader(announced)
    /\ writer' = [writer EXCEPT ![announced] = next]
    /\ announced' = NoKey
    /\ mainPc' = "spawn"
    /\ UNCHANGED <<parallel, next, pc, readers>>

\* a ref without a digest, or whose key this input has locked, needs no lock
SkipLock ==
    /\ mainPc = "lock" /\ next \in Jobs \ Writers /\ JobReturned
    /\ mainPc' = "spawn"
    /\ UNCHANGED <<parallel, next, pc, writer, announced, readers>>

Spawn ==
    /\ mainPc = "spawn"
    /\ pc' = [pc EXCEPT ![next] = "reading"]
    /\ next' = next + 1
    /\ mainPc' = "lock"
    /\ UNCHANGED <<parallel, writer, announced, readers>>

\* wg.Wait() returns; the Go runtime does not let main return past a panic
Exit ==
    /\ mainPc = "lock" /\ next > NJobs
    /\ \A j \in Jobs : pc[j] = "done"
    /\ mainPc' = "exited"
    /\ UNCHANGED <<parallel, next, pc, writer, announced, readers>>

\* Decode or NormalizeInput refuses what follows in the stream, and the panic
\* of the main goroutine ends the process, whatever its jobs are doing
RefuseInput ==
    /\ mainPc = "lock" /\ next > NJobs /\ JobReturned
    /\ mainPc' = "crashed"
    /\ UNCHANGED <<parallel, next, pc, writer, announced, readers>>

(***************************************************************************)
(* A job's goroutine.  The order in which it asks for its read locks is    *)
(* left open: part of its list comes from ranging over a Go map.           *)
(***************************************************************************)

RLock(j, k) ==
    /\ Running
    /\ pc[j] = "reading" /\ k \in Reads[j] /\ j \notin readers[k]
    /\ MayRead(k)
    /\ readers' = [readers EXCEPT ![k] = @ \cup {j}]
    /\ UNCHANGED <<parallel, mainPc, next, pc, writer, announced>>

StartDo(j) ==
    /\ Running
    /\ pc[j] = "reading" /\ \A k \in Reads[j] : j \in readers[k]
    /\ pc' = [pc EXCEPT ![j] = "doing"]
    /\ UNCHANGED <<parallel, mainPc, next, writer, announced, readers>>

\* normal.do returns: without an error, or with one, and then the job panics
FinishDo(j) ==
    /\ Running
    /\ pc[j] = "doing"
    /\ \/ pc' = [pc EXCEPT ![j] = "pushed"]
       \/ j \in MayFail /\ pc' = [pc EXCEPT ![j] = "failed"]
    /\ UNCHANGED <<parallel, mainPc, next, writer, announced, readers>>

\* a deferred mutex.RUnlock()
RUnlock(j, k) ==
    /\ Running
    /\ pc[j] \in {"pushed", "failed"} /\ j \in readers[k]
    /\ readers' = [readers EXCEPT ![k] = @ \ {j}]
    /\ UNCHANGED <<parallel, mainPc, next, pc, writer, announced>>

\* the deferred mutex.Unlock() and wg.Done(), after every RUnlock
Unlock(j) ==
    /\ Running
    /\ pc[j] \in {"pushed", "failed"} /\ \A k \in Keys : j \notin readers[k]
    /\ writer' = GiveUpLock(j)
    /\ pc' = [pc EXCEPT ![j] = IF pc[j] = "pushed" THEN "done" ELSE "unwound"]
    /\ UNCHANGED <<parallel, mainPc, next, announced, readers>>

\* the panic has run every deferred call, and ends the process
Crash(j) ==
    /\ Running
    /\ pc[j] = "unwound"
    /\ mainPc' = "crashed"
    /\ UNCHANGED <<parallel, next, pc, writer, announced, readers>>

MainStep == AnnounceLock \/ GrantLock \/ SkipLock \/ Spawn \/ Exit

JobStep(j) ==
    \/ \E k \in Keys : RLock(j, k) \/ RUnlock(j, k)
    \/ StartDo(j) \/ FinishDo(j) \/ Unlock(j) \/ Crash(j)

\* the process has ended
Ended == ~Running /\ UNCHANGED vars

Next == MainStep \/ RefuseInput \/ (\E j \in Jobs : JobStep(j)) \/ Ended

\* the Go scheduler runs every goroutine that can run; nothing makes a stream
\* go on with a document that is refused
Fairness == WF_vars(MainStep) /\ \A j \in Jobs : WF_vars(JobStep(j))

Spec == Init /\ [][Next]_vars /\ Fairness

(***************************************************************************)
(* What the stream has to look like: "interdependent inputs are required   *)
(* to be in-order (children first)" (cmd/deploy/main.go:144).  Nothing the *)
(* main loop has come to pushes under a lock an object that it, or a job   *)
(* before it, reads.                                                       *)
(***************************************************************************)
InOrderSoFar ==
    \A i \in Writers, j \in Jobs :
        i <= next /\ j <= i => Target[i] \notin Reads[j]

(***************************************************************************)
(* Properties.                                                             *)
(***************************************************************************)
TypeOK ==
    /\ parallel \in BOOLEAN
    /\ mainPc \in MainPcs
    /\ next \in 1..NJobs + 1
    /\ pc \in [Jobs -> JobPcs]
    /\ writer \in [Keys -> Jobs \cup {NoJob}]
    /\ announced \in Keys \cup {NoKey}
    /\ readers \in [Keys -> SUBSET Jobs]

\* the push of j is over: it returned, with or without an error, and let go
Returned(j) == pc[j] \in {"done", "unwound"}

\* A parent is never being pushed before the push of a child listed before
\* it has come to its end: "we will stop parents from being pushed before
\* their children" (main.go:65).  The second tag of an input waits for the
\* first in the same way, and so does the next input with the same key.
ChildrenFirst ==
    \A i \in Writers, j \in Jobs :
        /\ i < j /\ pc[j] = "doing"
        /\ Target[i] \in Reads[j] \/ (j \in Writers /\ Target[i] = Target[j])
        => Returned(i)

\* While an object is pushed under its write lock nobody is pushing anything
\* that reads it, and nobody else pushes the same object under that lock
\* (main.go:64: write-locked during push, read-locked during reading).
PushedAlone ==
    \A i \in Writers, j \in Jobs :
        /\ i # j /\ pc[i] = "doing" /\ pc[j] = "doing"
        => Target[i] \notin Reads[j] /\ (j \in Writers => Target[i] # Target[j])

\* A push that begins does so when everything listed before it that it may
\* need is in the registry: the literal reading of main.go:65.
ChildrenPushed ==
    \A i \in Writers, j \in Jobs :
        i < j /\ pc[j] = "doing" /\ Target[i] \in Reads[j] => pc[i] = "done"

\* Without --parallel that holds: when a push fails its panic is the main
\* goroutine's own (main.go:265), and none that comes after it begins.
SerialChildrenPushed == parallel \/ ChildrenPushed

\* the main goroutine is not blocked in Lock, in a job, or in wg.Wait
MainCanMove ==
    \/ mainPc = "spawn"
    \/ mainPc = "drain" /\ readers[announced] = {}
    \/ mainPc = "lock" /\ next \in Writers /\ JobReturned /\ writer[Target[next]] = NoJob
    \/ mainPc = "lock" /\ next \in Jobs \ Writers /\ JobReturned
    \/ mainPc = "lock" /\ next > NJobs /\ \A j \in Jobs : pc[j] = "done"

\* job j runs, and is not blocked in an RLock
JobCanMove(j) ==
    \/ pc[j] \in {"doing", "pushed", "failed", "unwound"}
    \/ pc[j] = "reading" /\ \A k \in Reads[j] : j \in readers[k]
    \/ pc[j] = "reading" /\ \E k \in Reads[j] :
           j \notin readers[k] /\ writer[k] = NoJob /\ announced # k

\* As long as the stream lists children first, some goroutine can always run:
\* the Lock the main loop makes before spawning a job is "sane" (main.go:144).
NoStall == InOrderSoFar /\ Running => MainCanMove \/ \E j \in Jobs : JobCanMove(j)

\* Every run comes to its end: Lock never hangs on a stream that lists
\* children first (main.go:144).
Terminates == <>(mainPc \in {"exited", "crashed"})

\* what DeployOrder sees of a job
PushState(j) ==
    IF pc[j] \in {"waiting", "reading"} THEN "waiting"
    ELSE IF pc[j] = "doing" THEN "pushing"
    ELSE IF pc[j] \in {"pushed", "done"} THEN "pushed" ELSE "failed"

Order == INSTANCE DeployOrder
         WITH state <- [j \in Jobs |-> PushState(j)], ended <- ~Running

\* The locks implement the order main.go:64-65 has them for, step by step: no
\* push begins but when DeployOrder lets it.
ImplementsOrder == Order!Spec
=============================================================================
