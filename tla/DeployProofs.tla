---------------------------- MODULE DeployProofs ----------------------------
(***************************************************************************)
(* Proofs about DeployLocks and DeployDryRun, for every stream of inputs.  *)
(*                                                                         *)
(* ChildrenFirst and PushedAlone are not inductive.  What makes them so is *)
(* the locking protocol: a write lock is held from before its job is       *)
(* spawned until the job has returned, and a read lock is only ever        *)
(* granted when every earlier writer of the key has returned.              *)
(*                                                                         *)
(* The channels and the printer of a dry run only ever delay what          *)
(* DeployLocks does, so its invariants hold there too.  The order of the   *)
(* output rests on where the printer is: the channels that wait for it are *)
(* those of the jobs spawned last, without a gap, and it has printed what  *)
(* is needed of all jobs before.                                           *)
(***************************************************************************)
EXTENDS DeployDryRun, DeployBelow, SequenceTheorems, WellFoundedInduction, TLAPS

(***************************************************************************)
(* The locks.                                                              *)
(***************************************************************************)

\* job i is between the Lock made for it and its deferred Unlock
Locked(i) == \/ i < next /\ ~Returned(i)
             \/ i = next /\ mainPc = "spawn"

\* exactly the jobs the main loop has passed are spawned
Spawned == \A j \in Jobs : pc[j] = "waiting" <=> next <= j

\* while Lock waits for readers there is no writer, and it waits for next's key
AtLock == /\ mainPc \in {"drain", "spawn"} => next \in Jobs
          /\ mainPc = "drain" => /\ next \in Writers
                                 /\ announced = Target[next]
                                 /\ writer[announced] = NoJob

WriterHolds == \A i \in Writers : Locked(i) => writer[Target[i]] = i

Exclusion == \A k \in Keys : writer[k] # NoJob => readers[k] = {}

ReadsHeld == \A j \in Jobs : \A k \in Keys :
                 pc[j] = "doing" /\ k \in Reads[j] => j \in readers[k]

ReadAfter == \A i \in Writers : \A j \in Jobs :
                 i < j /\ j \in readers[Target[i]] => Returned(i)

IInv == /\ TypeOK /\ Spawned /\ AtLock
        /\ WriterHolds /\ Exclusion /\ ReadsHeld /\ ReadAfter

-----------------------------------------------------------------------------

\* The target of a job that takes a write lock is a key.
LEMMA WriterTarget == \A i \in Writers : i \in Jobs /\ Target[i] \in Keys
  BY DeployAssumption

\* What a job reads are keys.
LEMMA ReadsKeys == \A j \in Jobs : Reads[j] \subseteq Keys
  BY DeployAssumption

\* The variables keep their types (main.go's lock table and goroutines).
LEMMA TypeStep == TypeOK /\ AtLock /\ [Next]_vars => TypeOK'
<1> SUFFICES ASSUME TypeOK, AtLock, [Next]_vars PROVE TypeOK'
  OBVIOUS
<1> USE DEF TypeOK, AtLock, MainPcs, JobPcs, Jobs, NoJob
<1>1. CASE AnnounceLock
  BY <1>1, WriterTarget DEF AnnounceLock, NoWriter
<1>2. CASE GrantLock
  BY <1>2, WriterTarget DEF GrantLock, NoReader
<1>3. CASE SkipLock
  BY <1>3 DEF SkipLock
<1>4. CASE Spawn
  <2>1. next \in Jobs /\ next + 1 \in 1..NJobs + 1
    BY <1>4, DeployAssumption DEF Spawn
  <2> QED  BY <1>4, <2>1 DEF Spawn
<1>5. CASE Exit \/ RefuseInput
  BY <1>5 DEF Exit, RefuseInput, MainPcs
<1>6. ASSUME NEW j \in Jobs, NEW k \in Keys, RLock(j, k) PROVE TypeOK'
  BY <1>6 DEF RLock, MayRead, NoWriter
<1>7. ASSUME NEW j \in Jobs, NEW k \in Keys, RUnlock(j, k) PROVE TypeOK'
  BY <1>7 DEF RUnlock
<1>8. ASSUME NEW j \in Jobs, StartDo(j) PROVE TypeOK'
  BY <1>8 DEF StartDo
<1>9. ASSUME NEW j \in Jobs, FinishDo(j) PROVE TypeOK'
  BY <1>9 DEF FinishDo
<1>10. ASSUME NEW j \in Jobs, Unlock(j) PROVE TypeOK'
  BY <1>10, WriterTarget DEF Unlock, GiveUpLock
<1>11. ASSUME NEW j \in Jobs, Crash(j) PROVE TypeOK'
  BY <1>11 DEF Crash
<1>12. CASE UNCHANGED vars
  BY <1>12 DEF vars
<1> QED
  BY <1>1, <1>2, <1>3, <1>4, <1>5, <1>6, <1>7, <1>8, <1>9, <1>10, <1>11, <1>12
  DEF Next, MainStep, JobStep, Ended

\* The locking protocol holds at the start and no step breaks it.
LEMMA Inductive == /\ Init => IInv
                   /\ IInv /\ [Next]_vars => IInv'
<1> USE DEF Jobs, NoJob
<1>1. Init => IInv
  <2> SUFFICES ASSUME Init PROVE IInv
    OBVIOUS
  <2> USE DEF Init
  <2>1. TypeOK
    BY DeployAssumption DEF TypeOK, MainPcs, JobPcs
  <2>2. Spawned /\ AtLock /\ Exclusion /\ ReadsHeld
    BY DEF Spawned, AtLock, Exclusion, ReadsHeld
  <2>3. WriterHolds /\ ReadAfter
    BY WriterTarget DEF WriterHolds, ReadAfter, Locked
  <2> QED  BY <2>1, <2>2, <2>3 DEF IInv
<1>2. IInv /\ [Next]_vars => IInv'
  <2> SUFFICES ASSUME IInv, [Next]_vars PROVE IInv'
    OBVIOUS
  <2>0. TypeOK'
    BY TypeStep DEF IInv
  <2> USE <2>0 DEF IInv, TypeOK
  <2>1. CASE AnnounceLock
    <3>1. (Spawned /\ Exclusion /\ ReadsHeld)'
      BY <2>1 DEF AnnounceLock, NoWriter, Spawned, Exclusion, ReadsHeld
    <3>2. AtLock'
      BY <2>1, WriterTarget DEF AnnounceLock, NoWriter, AtLock
    <3>3. (WriterHolds /\ ReadAfter)'
      BY <2>1 DEF AnnounceLock, NoWriter, WriterHolds, ReadAfter, Locked, Returned
    <3> QED  BY <3>1, <3>2, <3>3
  <2>2. CASE GrantLock
    <3>1. (Spawned /\ ReadsHeld)'
      BY <2>2 DEF GrantLock, NoReader, Spawned, ReadsHeld
    <3>2. AtLock' /\ announced \in Keys /\ announced = Target[next] /\ next \in Writers
      BY <2>2, WriterTarget DEF GrantLock, NoReader, AtLock
    <3>3. Exclusion'
      BY <2>2, <3>2 DEF GrantLock, NoReader, Exclusion
    <3>4. WriterHolds'
      BY <2>2, <3>2, WriterTarget DEF GrantLock, NoReader, AtLock, WriterHolds, Locked, Returned
    <3>5. ReadAfter'
      BY <2>2 DEF GrantLock, NoReader, ReadAfter, Returned
    <3> QED  BY <3>1, <3>2, <3>3, <3>4, <3>5
  <2>3. CASE SkipLock
    <3>1. (Spawned /\ Exclusion /\ ReadsHeld /\ AtLock)'
      BY <2>3 DEF SkipLock, Spawned, Exclusion, ReadsHeld, AtLock
    <3>2. (WriterHolds /\ ReadAfter)'
      BY <2>3 DEF SkipLock, WriterHolds, ReadAfter, Locked, Returned
    <3> QED  BY <3>1, <3>2
  <2>4. CASE Spawn
    <3>1. next \in Jobs
      BY <2>4 DEF Spawn, AtLock
    <3>2. (Spawned /\ Exclusion /\ ReadsHeld /\ AtLock)'
      BY <2>4, <3>1 DEF Spawn, Spawned, Exclusion, ReadsHeld, AtLock
    <3>3. WriterHolds'
      BY <2>4, <3>1, WriterTarget DEF Spawn, WriterHolds, Locked, Returned, Spawned
    <3>4. ReadAfter'
      BY <2>4, <3>1, WriterTarget DEF Spawn, ReadAfter, Returned, Spawned
    <3> QED  BY <3>2, <3>3, <3>4
  <2>5. CASE Exit \/ RefuseInput
    BY <2>5 DEF Exit, RefuseInput, Spawned, AtLock, WriterHolds, Exclusion, ReadsHeld,
                ReadAfter, Locked, Returned
  <2>6. ASSUME NEW j \in Jobs, NEW k \in Keys, RLock(j, k) PROVE IInv'
    <3>1. (Spawned /\ AtLock /\ Exclusion /\ ReadsHeld)'
      BY <2>6 DEF RLock, MayRead, NoWriter, Spawned, AtLock, Exclusion, ReadsHeld
    <3>2. WriterHolds'
      BY <2>6 DEF RLock, MayRead, NoWriter, WriterHolds, Locked, Returned
    <3>3. ReadAfter'
      <4> SUFFICES ASSUME NEW i \in Writers, i < j, Target[i] = k PROVE Returned(i)
        BY <2>6, WriterTarget DEF RLock, MayRead, NoWriter, ReadAfter, Returned
      <4>1. i \in Jobs /\ j < next
        BY <2>6, WriterTarget, DeployAssumption DEF RLock, MayRead, NoWriter, Spawned
      <4>2. writer[Target[i]] # i
        BY <2>6, <4>1 DEF RLock, MayRead, NoWriter
      <4> QED  BY <4>1, <4>2, DeployAssumption DEF WriterHolds, Locked
    <3> QED  BY <3>1, <3>2, <3>3
  <2>7. ASSUME NEW j \in Jobs, NEW k \in Keys, RUnlock(j, k) PROVE IInv'
    <3>1. (Spawned /\ AtLock /\ Exclusion /\ ReadsHeld)'
      BY <2>7 DEF RUnlock, Spawned, AtLock, Exclusion, ReadsHeld
    <3>2. (WriterHolds /\ ReadAfter)'
      BY <2>7, WriterTarget DEF RUnlock, WriterHolds, ReadAfter, Locked, Returned
    <3> QED  BY <3>1, <3>2
  <2>8. ASSUME NEW j \in Jobs, StartDo(j) PROVE IInv'
    <3>1. (Spawned /\ AtLock /\ Exclusion /\ ReadsHeld)'
      BY <2>8, ReadsKeys DEF StartDo, Spawned, AtLock, Exclusion, ReadsHeld
    <3>2. (WriterHolds /\ ReadAfter)'
      BY <2>8, WriterTarget DEF StartDo, WriterHolds, ReadAfter, Locked, Returned
    <3> QED  BY <3>1, <3>2
  <2>9. ASSUME NEW j \in Jobs, FinishDo(j) PROVE IInv'
    <3>1. (Spawned /\ AtLock /\ Exclusion /\ ReadsHeld)'
      BY <2>9 DEF FinishDo, Spawned, AtLock, Exclusion, ReadsHeld
    <3>2. (WriterHolds /\ ReadAfter)'
      BY <2>9, WriterTarget DEF FinishDo, WriterHolds, ReadAfter, Locked, Returned
    <3> QED  BY <3>1, <3>2
  <2>10. ASSUME NEW j \in Jobs, Unlock(j) PROVE IInv'
    <3>0. j < next /\ ~Returned(j)
      BY <2>10, DeployAssumption DEF Unlock, GiveUpLock, Spawned, Returned
    <3>1. (Spawned /\ ReadsHeld)'
      BY <2>10 DEF Unlock, GiveUpLock, Spawned, ReadsHeld
    <3>2. (AtLock /\ Exclusion)'
      BY <2>10, WriterTarget DEF Unlock, GiveUpLock, AtLock, Exclusion
    <3>3. WriterHolds'
      <4> SUFFICES ASSUME NEW i \in Writers, Locked(i)' PROVE writer'[Target[i]] = i
        BY DEF WriterHolds
      <4>1. i # j /\ writer[Target[i]] = i
        BY <2>10, <3>0, WriterTarget DEF Unlock, GiveUpLock, WriterHolds, Locked, Returned
      <4>2. j \in Writers => writer[Target[j]] = j
        BY <3>0 DEF WriterHolds, Locked
      <4> QED  BY <2>10, <4>1, <4>2, WriterTarget DEF Unlock, GiveUpLock
    <3>4. ReadAfter'
      BY <2>10, WriterTarget DEF Unlock, GiveUpLock, ReadAfter, Returned
    <3> QED  BY <3>1, <3>2, <3>3, <3>4
  <2>11. ASSUME NEW j \in Jobs, Crash(j) PROVE IInv'
    BY <2>11 DEF Crash, Spawned, AtLock, WriterHolds, Exclusion, ReadsHeld,
                 ReadAfter, Locked, Returned
  <2>12. CASE UNCHANGED vars
    BY <2>12 DEF vars, Spawned, AtLock, WriterHolds, Exclusion, ReadsHeld,
                 ReadAfter, Locked, Returned
  <2> QED
    BY <2>1, <2>2, <2>3, <2>4, <2>5, <2>6, <2>7, <2>8, <2>9, <2>10, <2>11, <2>12
    DEF Next, MainStep, JobStep, Ended
<1> QED  BY <1>1, <1>2

-----------------------------------------------------------------------------

\* The lock table, the goroutines and the main loop keep their types.
THEOREM TypeCorrect == Spec => []TypeOK
<1>1. IInv => TypeOK
  BY DEF IInv
<1> QED  BY <1>1, Inductive, PTL DEF Spec

\* What the locking protocol means for pushes.
LEMMA InvariantsFollow == IInv => ChildrenFirst /\ PushedAlone
<1> SUFFICES ASSUME IInv PROVE ChildrenFirst /\ PushedAlone
  OBVIOUS
<1>1. ChildrenFirst
  <2> SUFFICES ASSUME NEW i \in Writers, NEW j \in Jobs,
                      i < j, pc[j] = "doing",
                      Target[i] \in Reads[j] \/ (j \in Writers /\ Target[i] = Target[j])
               PROVE  Returned(i)
    BY DEF ChildrenFirst
  <2>1. CASE Target[i] \in Reads[j]
    BY <2>1, WriterTarget DEF IInv, ReadsHeld, ReadAfter
  <2>2. CASE j \in Writers /\ Target[i] = Target[j]
    <3>1. i \in Jobs /\ j < next /\ i < next
      BY WriterTarget, DeployAssumption DEF IInv, TypeOK, Spawned, Jobs
    <3>2. writer[Target[j]] = j
      BY <2>2, <3>1 DEF IInv, WriterHolds, Locked, Returned
    <3> QED  BY <2>2, <3>1, <3>2, DeployAssumption DEF IInv, WriterHolds, Locked, Jobs
  <2> QED  BY <2>1, <2>2
<1>2. PushedAlone
  <2> SUFFICES ASSUME NEW i \in Writers, NEW j \in Jobs,
                      i # j, pc[i] = "doing", pc[j] = "doing"
               PROVE  /\ Target[i] \notin Reads[j]
                      /\ j \in Writers => Target[i] # Target[j]
    BY DEF PushedAlone
  <2>1. i \in Jobs /\ i < next /\ j < next
    BY WriterTarget, DeployAssumption DEF IInv, TypeOK, Spawned, Jobs
  <2>2. writer[Target[i]] = i /\ i # NoJob
    BY <2>1, WriterTarget DEF IInv, WriterHolds, Locked, Returned, Jobs, NoJob
  <2>3. Target[i] \notin Reads[j]
    BY <2>2, WriterTarget DEF IInv, Exclusion, ReadsHeld
  <2>4. j \in Writers => writer[Target[j]] = j
    BY <2>1 DEF IInv, WriterHolds, Locked, Returned
  <2> QED  BY <2>2, <2>3, <2>4
<1> QED  BY <1>1, <1>2

\* No parent is being pushed before an earlier child's push is over: what
\* main.go:64-65 has the RWMutexes for, on every stream.
THEOREM ChildrenComeFirst == Spec => []ChildrenFirst
  BY InvariantsFollow, Inductive, PTL DEF Spec

\* An object is pushed under its write lock with nobody reading or pushing it
\* at the same time, on every stream.
THEOREM PushesAreAlone == Spec => []PushedAlone
  BY InvariantsFollow, Inductive, PTL DEF Spec

-----------------------------------------------------------------------------
(***************************************************************************)
(* Deadlock freedom needs WriterHolds the other way round as well: whoever *)
(* holds a lock, or is waited for, is a job that has not returned.         *)
(***************************************************************************)
WriterIsLocked == \A k \in Keys : writer[k] # NoJob =>
                      /\ writer[k] \in Writers /\ Target[writer[k]] = k
                      /\ Locked(writer[k])

ReaderRuns == \A k \in Keys : \A j \in readers[k] :
                  pc[j] \in {"reading", "doing", "pushed", "failed"}

AnnouncedIsNext == announced # NoKey => mainPc = "drain"

Holders == Running => WriterIsLocked /\ ReaderRuns /\ AnnouncedIsNext

\* Whoever holds or awaits a lock is a job that has not returned.
LEMMA HoldersInductive == /\ Init => Holders
                          /\ IInv /\ Holders /\ [Next]_vars => Holders'
<1> USE DEF Jobs, NoJob
<1>1. Init => Holders
  BY DEF Init, Holders, WriterIsLocked, ReaderRuns, AnnouncedIsNext
<1>2. IInv /\ Holders /\ [Next]_vars => Holders'
  <2> SUFFICES ASSUME IInv, Holders, [Next]_vars, Running, Running' PROVE Holders'
    BY DEF Holders, Next, MainStep, JobStep, Ended, vars, Running, AnnounceLock,
           GrantLock, SkipLock, Spawn, Exit, RefuseInput, RLock, RUnlock, StartDo,
           FinishDo, Unlock, Crash
  <2> USE DEF IInv, TypeOK
  <2>0. WriterIsLocked /\ ReaderRuns /\ AnnouncedIsNext
    BY DEF Holders
  <2>1. CASE AnnounceLock
    BY <2>0, <2>1 DEF AnnounceLock, NoWriter, Holders, WriterIsLocked, ReaderRuns,
                      AnnouncedIsNext, Locked, Returned
  <2>2. CASE GrantLock
    <3>1. next \in Writers /\ announced = Target[next] /\ announced \in Keys
      BY <2>2, WriterTarget DEF GrantLock, NoReader, AtLock
    <3>2. WriterIsLocked'
      BY <2>0, <2>2, <3>1 DEF GrantLock, NoReader, WriterIsLocked, Locked, Returned
    <3>3. (ReaderRuns /\ AnnouncedIsNext)'
      BY <2>0, <2>2 DEF GrantLock, NoReader, ReaderRuns, AnnouncedIsNext
    <3> QED  BY <3>2, <3>3 DEF Holders
  <2>3. CASE SkipLock
    BY <2>0, <2>3 DEF SkipLock, Holders, WriterIsLocked, ReaderRuns,
                      AnnouncedIsNext, Locked, Returned
  <2>4. CASE Spawn
    <3>1. next \in Jobs /\ pc[next] = "waiting"
      BY <2>4 DEF Spawn, AtLock, Spawned
    <3>2. WriterIsLocked'
      BY <2>0, <2>4, <3>1, WriterTarget DEF Spawn, WriterIsLocked, Locked, Returned
    <3>3. (ReaderRuns /\ AnnouncedIsNext)'
      BY <2>0, <2>4, <3>1 DEF Spawn, ReaderRuns, AnnouncedIsNext
    <3> QED  BY <3>2, <3>3 DEF Holders
  <2>5. CASE Exit \/ RefuseInput
    BY <2>5 DEF Exit, RefuseInput, Running
  <2>6. ASSUME NEW j \in Jobs, NEW k \in Keys, RLock(j, k) \/ RUnlock(j, k)
        PROVE  Holders'
    <3>1. (WriterIsLocked /\ AnnouncedIsNext)'
      BY <2>0, <2>6 DEF RLock, MayRead, NoWriter, RUnlock, WriterIsLocked, AnnouncedIsNext, Locked, Returned
    <3>2. CASE RLock(j, k)
      <4>1. ReaderRuns'
        BY <2>0, <3>2 DEF RLock, MayRead, NoWriter, ReaderRuns
      <4> QED  BY <3>1, <4>1 DEF Holders
    <3>3. CASE RUnlock(j, k)
      <4>1. ReaderRuns'
        BY <2>0, <3>3 DEF RUnlock, ReaderRuns
      <4> QED  BY <3>1, <4>1 DEF Holders
    <3> QED  BY <2>6, <3>2, <3>3
  <2>7. ASSUME NEW j \in Jobs, StartDo(j) \/ FinishDo(j) PROVE Holders'
    <3>1. ~Returned(j) /\ ~Returned(j)'
      BY <2>7 DEF StartDo, FinishDo, Returned
    <3>2. WriterIsLocked'
      <4>1. UNCHANGED <<mainPc, next, writer>> /\ \A i \in Jobs \ {j} : pc'[i] = pc[i]
        BY <2>7 DEF StartDo, FinishDo
      <4>2. \A i \in Jobs : Locked(i) => Locked(i)'
        BY <3>1, <4>1 DEF Locked, Returned
      <4> QED  BY <2>0, <4>1, <4>2, WriterTarget DEF WriterIsLocked
    <3>3. (ReaderRuns /\ AnnouncedIsNext)'
      BY <2>0, <2>7 DEF StartDo, FinishDo, ReaderRuns, AnnouncedIsNext
    <3> QED  BY <3>2, <3>3 DEF Holders
  <2>8. ASSUME NEW j \in Jobs, Unlock(j) PROVE Holders'
    <3>1. WriterIsLocked'
      <4> SUFFICES ASSUME NEW k \in Keys, writer'[k] # NoJob
                   PROVE  /\ writer'[k] = writer[k] /\ writer[k] # j
        BY <2>0, <2>8 DEF Unlock, GiveUpLock, WriterIsLocked, Locked, Returned
      <4>1. writer'[k] = writer[k] /\ (j \in Writers => k # Target[j])
        BY <2>8, WriterTarget DEF Unlock, GiveUpLock
      <4> QED  BY <2>0, <4>1 DEF WriterIsLocked
    <3>2. (ReaderRuns /\ AnnouncedIsNext)'
      BY <2>0, <2>8 DEF Unlock, GiveUpLock, ReaderRuns, AnnouncedIsNext
    <3> QED  BY <3>1, <3>2 DEF Holders
  <2>9. ASSUME NEW j \in Jobs, Crash(j) PROVE Holders'
    BY <2>9 DEF Crash, Running
  <2>10. CASE UNCHANGED vars
    BY <2>0, <2>10 DEF vars, Holders, WriterIsLocked, ReaderRuns,
                       AnnouncedIsNext, Locked, Returned
  <2> QED
    BY <2>1, <2>2, <2>3, <2>4, <2>5, <2>6, <2>7, <2>8, <2>9, <2>10
    DEF Next, MainStep, JobStep, Ended
<1> QED  BY <1>1, <1>2

\* A set of natural numbers that is not empty has a least element.
LEMMA Least == ASSUME NEW S, S \subseteq Nat, S # {}
               PROVE  \E m \in S : \A n \in S : m <= n
<1>1. PICK m \in S : \A n \in S : <<n, m>> \notin OpToRel(<, Nat)
  BY WFMin, NatLessThanWellFounded, Zenon
<1>2. \A n \in S : ~(n < m)
  BY <1>1, Zenon DEF OpToRel
<1>3. \A n \in S : m <= n
  BY <1>2
<1> QED  BY <1>3

\* As long as a stream lists children first no set of goroutines waits for each
\* other: the oldest job that has not returned can always go on, since what
\* it waits for could only be held by an older one (main.go:144).
THEOREM NeverStalls == Spec => []NoStall
<1>1. IInv /\ Holders => NoStall
  <2> SUFFICES ASSUME IInv, Holders, InOrderSoFar, Running,
                      ~MainCanMove, \A j \in Jobs : ~JobCanMove(j)
               PROVE  FALSE
    BY DEF NoStall
  <2> USE DEF Jobs, NoJob
  <2>0. WriterIsLocked /\ ReaderRuns /\ AnnouncedIsNext /\ TypeOK
    BY DEF Holders, IInv
  <2>1. \A j \in Jobs : pc[j] \in {"waiting", "reading", "done"}
    BY <2>0 DEF JobCanMove, TypeOK, JobPcs
  <2>2. CASE \E j \in Jobs : pc[j] = "reading"
    <3>1. {j \in Jobs : pc[j] = "reading"} \subseteq Nat
      BY DeployAssumption
    <3>2. PICK j \in Jobs : /\ pc[j] = "reading"
                            /\ \A i \in Jobs : pc[i] = "reading" => j <= i
      <4> DEFINE Asking == {i \in Jobs : pc[i] = "reading"}
      <4>1. Asking \subseteq Nat /\ Asking # {}
        BY <2>2, <3>1
      <4> HIDE DEF Asking
      <4>2. PICK m \in Asking : \A n \in Asking : m <= n
        BY <4>1, Least
      <4> QED  BY <4>2 DEF Asking
    <3>3. PICK k \in Reads[j] : j \notin readers[k]
      BY <3>2 DEF JobCanMove
    <3>4. k \in Keys /\ (writer[k] # NoJob \/ announced = k)
      BY <3>2, <3>3, ReadsKeys DEF JobCanMove
    <3>5. ASSUME writer[k] # NoJob PROVE FALSE
      <4>1. writer[k] \in Writers /\ Target[writer[k]] = k /\ Locked(writer[k])
        BY <2>0, <3>4, <3>5 DEF WriterIsLocked
      <4>2. writer[k] \in Jobs /\ writer[k] < next
        BY <4>1, WriterTarget, DeployAssumption DEF Locked, MainCanMove
      <4>3. pc[writer[k]] = "reading"
        BY <2>0, <2>1, <4>1, <4>2, DeployAssumption
        DEF Locked, Returned, IInv, Spawned, TypeOK, MainCanMove
      <4> QED  BY <2>0, <3>2, <3>3, <4>1, <4>2, <4>3, DeployAssumption DEF InOrderSoFar, TypeOK
    <3>6. ASSUME announced = k PROVE FALSE
      <4>1. mainPc = "drain" /\ next \in Writers /\ Target[next] = k
        BY <2>0, <3>4, <3>6, DeployAssumption DEF AnnouncedIsNext, IInv, AtLock
      <4>2. j <= next
        BY <2>0, <3>2, DeployAssumption DEF IInv, Spawned, TypeOK
      <4> QED  BY <2>0, <3>2, <3>3, <4>1, <4>2, DeployAssumption DEF InOrderSoFar, TypeOK
    <3> QED  BY <3>4, <3>5, <3>6
  <2>3. CASE \A j \in Jobs : pc[j] # "reading"
    <3>1. \A j \in Jobs : j < next => pc[j] = "done"
      BY <2>0, <2>1, <2>3, DeployAssumption DEF IInv, Spawned, TypeOK
    <3>2. mainPc = "lock" \/ mainPc = "drain"
      BY <2>0 DEF Running, TypeOK, MainPcs, MainCanMove
    <3>3. CASE mainPc = "lock"
      <4>1. next \in Jobs \/ (next > NJobs /\ \A j \in Jobs : j < next)
        BY <2>0, DeployAssumption DEF TypeOK
      <4>2. next \in Writers /\ writer[Target[next]] # NoJob
        BY <3>1, <3>3, <4>1, DeployAssumption DEF MainCanMove, JobReturned
      <4>3. Target[next] \in Keys
        BY <4>2, WriterTarget
      <4>4. Locked(writer[Target[next]]) /\ writer[Target[next]] \in Jobs
        BY <2>0, <4>2, <4>3, WriterTarget DEF WriterIsLocked
      <4> QED  BY <3>1, <3>3, <4>4 DEF Locked, Returned
    <3>4. CASE mainPc = "drain"
      <4>1. announced \in Keys
        BY <3>4, WriterTarget DEF IInv, AtLock
      <4>2. PICK r \in readers[announced] : TRUE
        BY <3>4 DEF MainCanMove
      <4>3. pc[r] = "reading" \/ JobCanMove(r)
        BY <2>0, <4>1, <4>2 DEF ReaderRuns, JobCanMove, TypeOK
      <4>4. r \in Jobs
        BY <2>0, <4>1, <4>2 DEF TypeOK
      <4> QED  BY <2>3, <4>3, <4>4
    <3> QED  BY <3>2, <3>3, <3>4
  <2> QED  BY <2>2, <2>3
<1> QED  BY <1>1, Inductive, HoldersInductive, PTL DEF Spec

-----------------------------------------------------------------------------
(***************************************************************************)
(* Without --parallel: one job at a time, and none after one that failed.  *)
(***************************************************************************)
OneByOne == ~parallel =>
    /\ mainPc \in {"drain", "spawn"} => \A i \in Jobs : i < next => pc[i] = "done"
    /\ \A i, j \in Jobs : i < j /\ j < next => pc[i] = "done"

\* The main loop goes on only after the job it ran (main.go:262-266).
LEMMA OneByOneInductive == /\ Init => OneByOne
                           /\ IInv /\ OneByOne /\ [Next]_vars => OneByOne'
<1> USE DEF Jobs, NoJob
<1>1. Init => OneByOne
  BY DeployAssumption DEF Init, OneByOne
<1>2. ASSUME IInv, OneByOne, [Next]_vars PROVE OneByOne'
  <2> SUFFICES ASSUME ~parallel PROVE OneByOne'
    <3>1. parallel' = parallel
      BY <1>2 DEF Next, MainStep, JobStep, AnnounceLock, GrantLock, SkipLock, Spawn,
                  Exit, RefuseInput, RLock, StartDo, FinishDo, RUnlock, Unlock, Crash, Ended, vars
    <3> QED  BY <3>1 DEF OneByOne
  <2>1. pc \in [Jobs -> JobPcs] /\ next \in Nat
    BY <1>2, DeployAssumption DEF IInv, TypeOK
  <2>2. CASE AnnounceLock \/ SkipLock
    BY <1>2, <2>1, <2>2, DeployAssumption DEF AnnounceLock, SkipLock, JobReturned, OneByOne
  <2>3. CASE GrantLock \/ Exit \/ RefuseInput
    BY <1>2, <2>3 DEF GrantLock, Exit, RefuseInput, OneByOne
  <2>4. CASE Spawn
    BY <1>2, <2>1, <2>4, DeployAssumption DEF Spawn, OneByOne
  <2>5. ASSUME NEW j \in Jobs, JobStep(j) PROVE OneByOne'
    <3>1. UNCHANGED next /\ (mainPc' = mainPc \/ mainPc' = "crashed")
      BY <2>5 DEF JobStep, RLock, StartDo, FinishDo, RUnlock, Unlock, Crash
    <3>2. \A i \in Jobs : pc[i] = "done" => pc'[i] = "done"
      BY <2>1, <2>5 DEF JobStep, RLock, StartDo, FinishDo, RUnlock, Unlock, Crash
    <3> QED  BY <1>2, <3>1, <3>2 DEF OneByOne
  <2>6. CASE Ended \/ UNCHANGED vars
    BY <1>2, <2>6 DEF Ended, vars, OneByOne
  <2> QED  BY <1>2, <2>2, <2>3, <2>4, <2>5, <2>6 DEF Next, MainStep
<1> QED  BY <1>1, <1>2

\* Without --parallel whatever a push may need has been pushed successfully,
\* although any push may fail (main.go:65, 265).
THEOREM SerialPushes == Spec => []SerialChildrenPushed
<1>1. IInv /\ OneByOne => SerialChildrenPushed
  <2> SUFFICES ASSUME IInv, OneByOne, ~parallel, NEW i \in Writers, NEW j \in Jobs,
                      i < j, pc[j] = "doing"
               PROVE  pc[i] = "done"
    BY DEF SerialChildrenPushed, ChildrenPushed
  <2>1. i \in Jobs /\ j < next
    BY WriterTarget, DeployAssumption DEF IInv, TypeOK, Spawned, Jobs
  <2> QED  BY <2>1 DEF OneByOne
<1> QED  BY <1>1, Inductive, OneByOneInductive, PTL DEF Spec

-----------------------------------------------------------------------------
(***************************************************************************)
(* DeployLocks implements DeployOrder: only StartDo, FinishDo and the end  *)
(* of the process are visible there.                                       *)
(***************************************************************************)

\* A step that moves no job between the states of DeployOrder is a stutter.
LEMMA Unseen ==
    ASSUME UNCHANGED parallel, Running' = Running,
           \A j \in Jobs : PushState(j)' = PushState(j)
    PROVE  UNCHANGED Order!vars
<1>1. [j \in Jobs |-> PushState(j)]' = [j \in Jobs |-> PushState(j)]
  OBVIOUS
<1> QED  BY <1>1 DEF Order!vars

\* When a job starts to push, DeployOrder lets it (main.go:221-250).
LEMMA StartIsBegin ==
    ASSUME IInv, IInv', OneByOne, ChildrenFirst', PushedAlone',
           NEW j \in Jobs, StartDo(j)
    PROVE  Order!Begin(j)
<1> USE DEF Order!Jobs, Jobs
<1> DEFINE st == [i \in Jobs |-> PushState(i)]
<1>1. pc[j] = "reading" /\ pc' = [pc EXCEPT ![j] = "doing"] /\ pc \in [Jobs -> JobPcs]
  BY DEF StartDo, IInv, TypeOK
<1>2. /\ Running /\ Running' /\ UNCHANGED parallel
  BY DEF StartDo, Running
<1>3. st[j] = "waiting" /\ st' = [st EXCEPT ![j] = "pushing"]
  BY <1>1 DEF PushState
<1>4. ASSUME NEW i \in Jobs, i < j, Order!Follows(j, i)
      PROVE  st[i] \in {"pushed", "failed"}
  <2>1. pc'[j] = "doing" /\ i \in Writers
    BY <1>1, <1>4 DEF Order!Follows
  <2>2. Returned(i)'
    BY <1>4, <2>1 DEF ChildrenFirst, Order!Follows
  <2>3. pc[i] \in {"done", "unwound"}
    BY <1>1, <1>4, <2>2, DeployAssumption DEF Returned
  <2> QED  BY <2>3 DEF PushState
<1>5. ASSUME NEW i \in Jobs, st[i] = "pushing"
      PROVE  ~Order!Follows(j, i) /\ ~Order!Follows(i, j)
  <2>1. pc[i] = "doing"
    BY <1>1, <1>5 DEF PushState
  <2>2. i # j /\ pc'[i] = "doing" /\ pc'[j] = "doing"
    BY <1>1, <2>1
  <2> QED  BY <2>2 DEF PushedAlone, Order!Follows
<1>6. ASSUME ~parallel, NEW i \in Writers, i < j PROVE st[i] = "pushed"
  <2>1. i \in Jobs /\ j < next
    BY <1>1, WriterTarget, DeployAssumption DEF IInv, TypeOK, Spawned
  <2>2. pc[i] = "done"
    BY <1>6, <2>1 DEF OneByOne
  <2> QED  BY <2>1, <2>2 DEF PushState
<1> QED  BY <1>2, <1>3, <1>4, <1>5, <1>6 DEF Order!Begin, Order!Over

\* A push that returns ends in DeployOrder as well (main.go:249-260).
LEMMA FinishIsEnd ==
    ASSUME IInv, NEW j \in Jobs, FinishDo(j)
    PROVE  Order!End(j)
<1> DEFINE st == [i \in Jobs |-> PushState(i)]
<1>1. pc[j] = "doing" /\ pc \in [Jobs -> JobPcs] /\ Running /\ Running' /\ UNCHANGED parallel
  BY DEF FinishDo, IInv, TypeOK, Running
<1>2. st[j] = "pushing"
  BY <1>1 DEF PushState
<1>3. CASE pc' = [pc EXCEPT ![j] = "pushed"]
  <2>1. st' = [st EXCEPT ![j] = "pushed"]
    BY <1>1, <1>3 DEF PushState
  <2> QED  BY <1>1, <1>2, <2>1 DEF Order!End
<1>4. CASE j \in MayFail /\ pc' = [pc EXCEPT ![j] = "failed"]
  <2>1. st' = [st EXCEPT ![j] = "failed"]
    BY <1>1, <1>4 DEF PushState
  <2> QED  BY <1>1, <1>2, <1>4, <2>1 DEF Order!End
<1> QED  BY <1>3, <1>4 DEF FinishDo

\* The deploy's locks implement the order that main.go:64-65 promises, on
\* every stream, with and without --parallel.
THEOREM LocksImplementOrder == Spec => ImplementsOrder
<1> USE DEF Order!Jobs, Jobs
<1>1. Init => Order!Init
  BY DEF Init, Order!Init, PushState, Running
<1>2. IInv' => ChildrenFirst' /\ PushedAlone'
  BY InvariantsFollow, PTL
<1>3. ASSUME IInv, IInv', OneByOne, [Next]_vars PROVE [Order!Next]_(Order!vars)
  <2>1. pc \in [Jobs -> JobPcs]
    BY <1>3 DEF IInv, TypeOK
  <2>2. CASE AnnounceLock \/ GrantLock \/ SkipLock
    <3>1. UNCHANGED <<parallel, pc>> /\ Running' = Running
      BY <2>2 DEF AnnounceLock, GrantLock, SkipLock, Running
    <3> QED  BY <3>1, Unseen DEF PushState
  <2>3. CASE Spawn
    <3>1. next \in Jobs /\ pc[next] = "waiting"
      BY <1>3, <2>3, DeployAssumption DEF Spawn, IInv, AtLock, Spawned
    <3>2. \A j \in Jobs : PushState(j)' = PushState(j)
      BY <2>1, <2>3, <3>1 DEF Spawn, PushState
    <3> QED  BY <2>3, <3>2, Unseen DEF Spawn, Running
  <2>4. CASE Exit
    <3>1. Order!Stop
      BY <2>4 DEF Exit, Order!Stop, PushState, Running
    <3> QED  BY <3>1 DEF Order!Next
  <2>5. ASSUME NEW j \in Jobs, StartDo(j) PROVE Order!Next
    BY <1>2, <1>3, <2>5, StartIsBegin DEF Order!Next
  <2>6. ASSUME NEW j \in Jobs, FinishDo(j) PROVE Order!Next
    BY <1>3, <2>6, FinishIsEnd DEF Order!Next
  <2>7. ASSUME NEW j \in Jobs, Unlock(j) PROVE UNCHANGED Order!vars
    <3>1. \A i \in Jobs : PushState(i)' = PushState(i)
      BY <2>1, <2>7 DEF Unlock, PushState
    <3> QED  BY <2>7, <3>1, Unseen DEF Unlock, Running
  <2>8. ASSUME NEW j \in Jobs, NEW k \in Keys, RLock(j, k) \/ RUnlock(j, k)
        PROVE  UNCHANGED Order!vars
    BY <2>8, Unseen DEF RLock, RUnlock, PushState, Running
  <2>9. ASSUME NEW j \in Jobs, Crash(j) PROVE Order!Next
    <3>1. Order!Stop
      BY <2>9 DEF Crash, Order!Stop, PushState, Running
    <3> QED  BY <3>1 DEF Order!Next
  <2>10. CASE Ended \/ UNCHANGED vars
    BY <2>10, Unseen DEF Ended, vars, PushState, Running
  <2>11. CASE RefuseInput
    <3>1. parallel \/ \A j \in Jobs : pc[j] = "done"
      BY <1>3, <2>11, DeployAssumption DEF RefuseInput, JobReturned, IInv, TypeOK
    <3>2. Order!Stop
      BY <2>11, <3>1 DEF RefuseInput, Order!Stop, PushState, Running
    <3> QED  BY <3>2 DEF Order!Next
  <2> QED
    BY <1>3, <2>2, <2>3, <2>4, <2>5, <2>6, <2>7, <2>8, <2>9, <2>10, <2>11
    DEF Next, MainStep, JobStep
<1> QED
  BY <1>1, <1>3, Inductive, OneByOneInductive, PTL DEF Spec, ImplementsOrder, Order!Spec

(***************************************************************************)
(* What is below the children.                                             *)
(***************************************************************************)

\* a job that has begun to push goes to nothing that is still being pushed,
\* and that stays so when it has returned
BegunAfter == \A i \in Writers, j \in Jobs :
    /\ i < j /\ Target[i] \in Goes[j] /\ pc[j] \notin {"waiting", "reading"}
    => Returned(i)

\* The read locks of a job that starts to push tell it of every parent on the
\* way, and the parent's push of what is below it (main.go:209-226).
LEMMA BegunAfterStep ==
    ASSUME NamedIsRead, Chained, IInv, BegunAfter, [Next]_vars
    PROVE  BegunAfter'
<1> USE DEF Jobs
<1>1. pc \in [Jobs -> JobPcs] /\ \A i \in Writers : i \in Jobs /\ Target[i] \in Keys
  BY WriterTarget DEF IInv, TypeOK
<1>2. \A i \in Jobs : Returned(i) => Returned(i)'
  <2>1. CASE Spawn
    <3>1. next \in Jobs /\ pc[next] = "waiting"
      BY <2>1, DeployAssumption DEF Spawn, IInv, AtLock, Spawned
    <3> QED  BY <1>1, <2>1, <3>1 DEF Spawn, Returned
  <2>2. ASSUME NEW j \in Jobs, JobStep(j) PROVE \A i \in Jobs : Returned(i) => Returned(i)'
    BY <1>1, <2>2 DEF JobStep, RLock, RUnlock, StartDo, FinishDo, Unlock, Crash, Returned
  <2>3. CASE (MainStep /\ ~Spawn) \/ RefuseInput \/ Ended \/ UNCHANGED vars
    BY <2>3 DEF MainStep, RefuseInput, AnnounceLock, GrantLock, SkipLock, Exit, Ended, vars,
                Returned
  <2> QED  BY <2>1, <2>2, <2>3 DEF Next
<1>3. ASSUME NEW j \in Jobs, StartDo(j), NEW i \in Writers, i < j, Target[i] \in Reads[j]
      PROVE  Returned(i)
  BY <1>1, <1>3 DEF StartDo, IInv, ReadAfter
<1>4. ASSUME NEW j \in Jobs, StartDo(j) PROVE BegunAfter'
  <2>1. \A k \in Jobs \ {j} : pc'[k] = pc[k]
    BY <1>4 DEF StartDo
  <2>2. ASSUME NEW i \in Writers, i < j, Target[i] \in Goes[j] PROVE Returned(i)
    <3>1. CASE Target[i] \in GoesFirst[j]
      BY <1>3, <1>4, <2>2, <3>1 DEF NamedIsRead
    <3>2. ASSUME NEW k \in Writers, i < k, k < j,
                 Target[k] \in GoesFirst[j], Target[i] \in Goes[k]
          PROVE  Returned(i)
      <4>1. k \in Jobs /\ Returned(k)
        BY <1>1, <1>3, <1>4, <3>2 DEF NamedIsRead
      <4> QED  BY <3>2, <4>1 DEF BegunAfter, Returned
    <3> QED  BY <2>2, <3>1, <3>2 DEF Chained
  <2> QED  BY <1>1, <1>2, <2>1, <2>2 DEF BegunAfter
<1>5. CASE \A j \in Jobs : pc'[j] \notin {"waiting", "reading"}
                             => pc[j] \notin {"waiting", "reading"}
  BY <1>1, <1>2, <1>5 DEF BegunAfter
<1>6. ASSUME NEW j \in Jobs, JobStep(j), ~StartDo(j)
      PROVE  \A k \in Jobs : pc'[k] \notin {"waiting", "reading"}
                             => pc[k] \notin {"waiting", "reading"}
  BY <1>1, <1>6 DEF JobStep, RLock, RUnlock, FinishDo, Unlock, Crash
<1>7. CASE MainStep \/ RefuseInput \/ Ended \/ UNCHANGED vars
  <2>1. \A j \in Jobs : pc'[j] \notin {"waiting", "reading"} => pc[j] \notin {"waiting", "reading"}
    BY <1>1, <1>7 DEF MainStep, RefuseInput, AnnounceLock, GrantLock, SkipLock, Spawn, Exit,
                      Ended, vars
  <2> QED  BY <1>5, <2>1
<1> QED  BY <1>4, <1>5, <1>6, <1>7 DEF Next

\* On every stream that lists the parents in between too, nothing that a push
\* goes to at any depth is still being pushed by a job listed before it,
\* although main.go:170-208 locks the first level only.
THEOREM AllBelowIsOver == ASSUME NamedIsRead PROVE Spec => []BelowFirst
<1> DEFINE Inv == Chained => BegunAfter
<1>1. Init => Inv
  BY DEF Init, BegunAfter
<1>2. IInv /\ Inv /\ [Next]_vars => Inv'
  BY BegunAfterStep DEF Chained
<1>3. Inv => BelowFirst
  BY DEF BelowFirst, BegunAfter
<1> HIDE DEF Inv
<1> QED  BY <1>1, <1>2, <1>3, Inductive, PTL DEF Spec

(***************************************************************************)
(* The output of a dry run.                                                *)
(***************************************************************************)

\* the first job that the printer is not done with
Cursor == IF printing # NoJob THEN printing ELSE next - Len(dryRunOuts)

Queued ==
    /\ \A i \in 1..Len(dryRunOuts) : dryRunOuts[i] = next - Len(dryRunOuts) + i - 1
    /\ Len(dryRunOuts) < next
    /\ printing # NoJob => printing = next - Len(dryRunOuts) - 1
    /\ ~dryRun => dryRunOuts = <<>> /\ printing = NoJob /\ needs = {}

\* a channel that has a document, or is closed, has seen its job return
Settled ==
    \A j \in Jobs :
        /\ j \in needs <=> dryRunOut[j] \in {"full", "full, closed"}
        /\ dryRunOut[j] # "open" => pc[j] \notin {"waiting", "reading", "doing"}
        /\ dryRun /\ j < Cursor => dryRunOut[j] # "open"

PrintedSoFar ==
    /\ \A a, b \in DOMAIN printed : a < b => printed[a] < printed[b]
    /\ \A a \in DOMAIN printed : printed[a] < Cursor
    /\ \A j \in needs : j < Cursor => \E a \in DOMAIN printed : printed[a] = j

EndsDone == mainPc = "exited" => next > NJobs /\ dryRunOuts = <<>> /\ printing = NoJob

DInv == DryTypeOK /\ Queued /\ Settled /\ PrintedSoFar /\ EndsDone

-----------------------------------------------------------------------------

\* Every step of a dry run is a step of the locks, or none: what the output
\* needs only ever waits (main.go:151-168).
LEMMA DryStep == [DryNext]_dryVars => [Next]_vars
<1>1. ASSUME NEW j \in Jobs, DryJobStep(j) PROVE [Next]_vars
  <2>1. CASE DryFinish(j) \/ DryUnlock(j) \/ StartDo(j) \/ Crash(j)
    BY <2>1 DEF DryFinish, DryUnlock, Next, JobStep
  <2>2. CASE CloseOut(j)
    BY <2>2 DEF CloseOut
  <2>3. CASE \E k \in Keys : RLock(j, k) \/ RUnlock(j, k)
    BY <2>3 DEF Next, JobStep
  <2> QED  BY <1>1, <2>1, <2>2, <2>3 DEF DryJobStep
<1>2. DryMainStep \/ DryRefuse => Next
  BY DEF DryMainStep, DrySpawn, DryExit, DryRefuse, Next, MainStep
<1>3. PrinterStep \/ DryEnded \/ UNCHANGED dryVars => UNCHANGED vars
  BY DEF PrinterStep, ReceiveOut, PrintOut, DryEnded, dryVars
<1> QED  BY <1>1, <1>2, <1>3 DEF DryNext

\* What DeployLocks keeps invariant is invariant here.
LEMMA LocksInvariant == DrySpec => []IInv
<1>1. DryInit => Init
  BY DEF DryInit
<1> QED  BY <1>1, DryStep, Inductive, PTL DEF DrySpec

\* With --dry-run as without it no job goes on to its registry work while an
\* earlier push of what it reads is not over (main.go:64-65).
THEOREM DryChildrenFirst == DrySpec => []ChildrenFirst
  BY LocksInvariant, InvariantsFollow, PTL

-----------------------------------------------------------------------------

\* What a full channel has room for (main.go:72).
LEMMA AppendFits ==
    ASSUME NEW S, NEW s \in Seq(S), NEW e \in S, NEW N \in Nat, Len(s) < N
    PROVE  Append(s, e) \in Seq(S) /\ Len(Append(s, e)) <= N
<1>1. Len(s) \in Nat
  BY LenProperties
<1>2. Append(s, e) \in Seq(S) /\ Len(Append(s, e)) = Len(s) + 1
  BY AppendProperties
<1> QED  BY <1>1, <1>2

\* What is left when the printer has taken one (main.go:79).
LEMMA TailFits ==
    ASSUME NEW S, NEW s \in Seq(S), s # <<>>, NEW N \in Nat, Len(s) <= N
    PROVE  Head(s) \in S /\ Tail(s) \in Seq(S) /\ Len(Tail(s)) <= N
<1>1. Len(s) \in Nat
  BY LenProperties
<1>2. Head(s) \in S /\ Tail(s) \in Seq(S) /\ Len(Tail(s)) = Len(s) - 1
  BY HeadTailProperties
<1> QED  BY <1>1, <1>2

\* The output's variables keep their types.
LEMMA DryTypeStep ==
    ASSUME IInv, IInv', DryTypeOK, [DryNext]_dryVars
    PROVE  DryTypeOK'
<1> USE DEF DryTypeOK, outVars
<1>0. TypeOK' /\ TypeOK
  BY DEF IInv
<1>1. CASE DrySpawn
  <2>1. next \in Jobs
    BY <1>1 DEF DrySpawn, Spawn, IInv, AtLock
  <2>2. ~dryRun => dryRunOuts' = dryRunOuts
    BY <1>1 DEF DrySpawn
  <2>3. dryRun => /\ dryRunOuts' = Append(dryRunOuts, next)
                  /\ Len(dryRunOuts) < OutCap
    BY <1>1 DEF DrySpawn, Room
  <2>4. dryRunOuts' \in Seq(Jobs) /\ Len(dryRunOuts') <= OutCap
    <3>0. OutCap \in Nat /\ dryRunOuts \in Seq(Jobs) /\ Len(dryRunOuts) <= OutCap
      BY OutAssumption DEF DryTypeOK
    <3>1. CASE dryRun
      <4> HIDE DEF DryTypeOK
      <4> QED  BY <2>1, <2>3, <3>0, <3>1, AppendFits
    <3>2. CASE ~dryRun
      BY <2>2, <3>0, <3>2
    <3> QED  BY <3>1, <3>2
  <2>5. UNCHANGED <<dryRun, dryRunOut, printing, printed, needs>>
    BY <1>1 DEF DrySpawn
  <2> QED  BY <1>0, <2>4, <2>5
<1>2. CASE DryExit \/ DryRefuse \/ ((AnnounceLock \/ GrantLock \/ SkipLock) /\ UNCHANGED outVars)
  BY <1>0, <1>2 DEF DryExit, DryRefuse
<1>3. CASE ReceiveOut
  <2>1. dryRunOuts \in Seq(Jobs) /\ dryRunOuts # <<>> /\ Len(dryRunOuts) <= OutCap
    BY <1>3 DEF ReceiveOut
  <2>2. /\ Head(dryRunOuts) \in Jobs /\ Tail(dryRunOuts) \in Seq(Jobs)
        /\ Len(Tail(dryRunOuts)) <= OutCap
    <3> HIDE DEF DryTypeOK
    <3> QED  BY <2>1, TailFits, OutAssumption
  <2>4. /\ printing' = Head(dryRunOuts) /\ dryRunOuts' = Tail(dryRunOuts)
        /\ UNCHANGED <<dryRun, dryRunOut, printed, needs>>
    BY <1>3 DEF ReceiveOut
  <2> QED  BY <1>0, <2>2, <2>4
<1>4. CASE PrintOut
  <2>1. printing \in Jobs /\ printed \in Seq(Jobs)
    BY <1>4 DEF PrintOut
  <2>2. printed' \in Seq(Jobs)
    BY <1>4, <2>1, AppendProperties DEF PrintOut
  <2>3. printing' = NoJob /\ UNCHANGED <<dryRun, dryRunOuts, dryRunOut, needs>>
    BY <1>4 DEF PrintOut
  <2> QED  BY <1>0, <2>2, <2>3
<1>5. ASSUME NEW j \in Jobs, DryFinish(j) PROVE DryTypeOK'
  BY <1>0, <1>5 DEF DryFinish
<1>6. ASSUME NEW j \in Jobs, CloseOut(j) PROVE DryTypeOK'
  BY <1>0, <1>6 DEF CloseOut, Closed
<1>7. ASSUME NEW j \in Jobs, DryJobStep(j), UNCHANGED outVars PROVE DryTypeOK'
  BY <1>0, <1>7
<1>8. CASE DryEnded \/ UNCHANGED dryVars
  BY <1>0, <1>8 DEF DryEnded, dryVars
<1>9. ASSUME NEW j \in Jobs, DryJobStep(j)
      PROVE  DryFinish(j) \/ CloseOut(j) \/ UNCHANGED outVars
  BY <1>9 DEF DryJobStep, DryUnlock
<1> QED
  BY <1>1, <1>2, <1>3, <1>4, <1>5, <1>6, <1>7, <1>8, <1>9
  DEF DryNext, DryMainStep, PrinterStep

\* The variables of the deploy and of its output keep their types; the channel
\* of channels never holds more than its capacity (main.go:72).
THEOREM DryTypeCorrect == DrySpec => []DryTypeOK
<1>1. DryInit => DryTypeOK
  <2> SUFFICES ASSUME DryInit PROVE DryTypeOK
    OBVIOUS
  <2>1. IInv
    BY Inductive DEF DryInit
  <2> QED  BY <2>1, OutAssumption DEF DryInit, DryTypeOK, IInv, NoJob, Jobs
<1>2. IInv /\ IInv' /\ DryTypeOK /\ [DryNext]_dryVars => DryTypeOK'
  BY DryTypeStep
<1> QED  BY <1>1, <1>2, LocksInvariant, PTL DEF DrySpec

-----------------------------------------------------------------------------

\* What the printer is done with stays a beginning of the jobs spawned.
LEMMA QueuedStep ==
    ASSUME IInv, DryTypeOK, Queued, [DryNext]_dryVars
    PROVE  /\ Queued'
           /\ Cursor \in Nat /\ Cursor' \in Nat /\ Cursor <= Cursor'
           /\ ~PrintOut /\ dryRun => Cursor' = Cursor
           /\ PrintOut => Cursor' = printing + 1
<1> USE DEF NoJob, outVars
<1>1. next \in Nat /\ printing \in Nat /\ dryRunOuts \in Seq(Jobs)
  <2>1. TypeOK /\ printing \in Jobs \cup {NoJob} /\ dryRunOuts \in Seq(Jobs)
    BY DEF DryTypeOK
  <2>2. Jobs \subseteq Nat /\ NJobs \in Nat
    BY DeployAssumption DEF Jobs
  <2>3. next \in Nat
    BY <2>1, <2>2 DEF TypeOK
  <2> QED  BY <2>1, <2>2, <2>3
<1>2. Len(dryRunOuts) \in Nat
  BY <1>1, LenProperties
<1>3. CASE DrySpawn /\ dryRun
  <2>1. /\ next' = next + 1 /\ UNCHANGED <<dryRun, printing, needs>>
        /\ dryRunOuts' = Append(dryRunOuts, next) /\ next \in Jobs
    BY <1>3 DEF DrySpawn, Spawn, IInv, AtLock
  <2>2. /\ Len(dryRunOuts') = Len(dryRunOuts) + 1
        /\ \A i \in 1..Len(dryRunOuts) : dryRunOuts'[i] = dryRunOuts[i]
        /\ dryRunOuts'[Len(dryRunOuts) + 1] = next
    BY <1>1, <2>1, AppendProperties
  <2>3. Queued'
    <3>1. next' - Len(dryRunOuts') = next - Len(dryRunOuts) /\ Len(dryRunOuts') < next'
      BY <1>1, <1>2, <2>1, <2>2 DEF Queued
    <3>2. \A i \in 1..Len(dryRunOuts) :
              dryRunOuts'[i] = next' - Len(dryRunOuts') + i - 1
      BY <2>2, <3>1 DEF Queued
    <3>3. dryRunOuts'[Len(dryRunOuts')] = next' - Len(dryRunOuts') + Len(dryRunOuts') - 1
      BY <1>1, <1>2, <2>1, <2>2
    <3>4. \A i \in 1..Len(dryRunOuts') :
              i \in 1..Len(dryRunOuts) \/ i = Len(dryRunOuts')
      BY <1>2, <2>2
    <3>5. \A i \in 1..Len(dryRunOuts') :
              dryRunOuts'[i] = next' - Len(dryRunOuts') + i - 1
      BY <3>2, <3>3, <3>4
    <3>6. printing' # NoJob => printing' = next' - Len(dryRunOuts') - 1
      BY <2>1, <3>1 DEF Queued
    <3> QED  BY <1>3, <2>1, <3>1, <3>5, <3>6 DEF Queued
  <2>4. Cursor \in Nat /\ Cursor' = Cursor
    BY <1>1, <1>2, <2>1, <2>2 DEF Queued, Cursor
  <2>5. ~PrintOut
    BY <1>1, <2>1 DEF PrintOut, vars
  <2> QED  BY <2>3, <2>4, <2>5
<1>4. CASE DrySpawn /\ ~dryRun
  <2>1. next' = next + 1 /\ UNCHANGED outVars
    BY <1>4 DEF DrySpawn, Spawn
  <2> QED  BY <1>1, <1>2, <1>4, <2>1 DEF Queued, Cursor, PrintOut
<1>5. CASE ReceiveOut
  <2>1. /\ printing = NoJob /\ dryRunOuts # <<>>
        /\ printing' = Head(dryRunOuts) /\ dryRunOuts' = Tail(dryRunOuts)
        /\ UNCHANGED <<next, dryRun, needs>>
    BY <1>5 DEF ReceiveOut, vars
  <2>2. /\ Len(dryRunOuts') = Len(dryRunOuts) - 1 /\ Len(dryRunOuts') \in Nat
        /\ \A i \in 1..Len(dryRunOuts') : dryRunOuts'[i] = dryRunOuts[i + 1]
        /\ printing' = dryRunOuts[1]
    BY <1>1, <2>1, HeadTailProperties, LenProperties
  <2>3. dryRun /\ printing' = next - Len(dryRunOuts) /\ printing' # NoJob
    BY <1>1, <1>2, <2>1, <2>2 DEF Queued
  <2>4. Queued'
    <3>1. /\ next' - Len(dryRunOuts') = next - Len(dryRunOuts) + 1
          /\ Len(dryRunOuts') < next'
      BY <1>1, <1>2, <2>1, <2>2 DEF Queued
    <3>2. \A i \in 1..Len(dryRunOuts') : i + 1 \in 1..Len(dryRunOuts)
      BY <1>2, <2>2
    <3>3. \A i \in 1..Len(dryRunOuts') :
              dryRunOuts'[i] = next - Len(dryRunOuts) + (i + 1) - 1
      BY <2>2, <3>2 DEF Queued
    <3>4. \A i \in 1..Len(dryRunOuts') :
              dryRunOuts'[i] = next' - Len(dryRunOuts') + i - 1
      BY <1>1, <1>2, <3>1, <3>3
    <3>5. printing' = next' - Len(dryRunOuts') - 1
      BY <1>1, <1>2, <2>2, <2>3, <3>1
    <3> QED  BY <2>1, <2>3, <3>1, <3>4, <3>5 DEF Queued
  <2>5. Cursor \in Nat /\ Cursor' = Cursor
    BY <1>1, <1>2, <2>1, <2>2, <2>3 DEF Queued, Cursor
  <2>6. ~PrintOut
    BY <2>1 DEF PrintOut
  <2> QED  BY <2>4, <2>5, <2>6
<1>6. CASE PrintOut
  <2>1. /\ printing # NoJob /\ printing' = NoJob
        /\ UNCHANGED <<next, dryRun, dryRunOuts, needs>>
    BY <1>6 DEF PrintOut, vars
  <2>2. Queued'
    BY <1>1, <1>2, <2>1 DEF Queued
  <2>3. Cursor = printing /\ Cursor' = printing + 1 /\ Cursor \in Nat
    BY <1>1, <1>2, <2>1 DEF Queued, Cursor
  <2> QED  BY <1>1, <1>6, <2>2, <2>3
<1>7. CASE /\ ~PrintOut
           /\ UNCHANGED <<next, dryRun, dryRunOuts, printing>>
           /\ ~dryRun => UNCHANGED needs
  BY <1>1, <1>2, <1>7 DEF Queued, Cursor
<1>8. ASSUME NEW j \in Jobs, DryJobStep(j)
      PROVE  /\ UNCHANGED <<next, dryRun, dryRunOuts, printing>>
             /\ ~dryRun => UNCHANGED needs
  BY <1>8 DEF DryJobStep, DryFinish, FinishDo, CloseOut, vars, DryUnlock, Unlock, StartDo,
              Crash, RLock, RUnlock
<1>9. DryExit \/ DryRefuse \/ ((AnnounceLock \/ GrantLock \/ SkipLock) /\ UNCHANGED outVars)
        \/ DryEnded \/ UNCHANGED dryVars
      => UNCHANGED <<next, dryRun, dryRunOuts, printing, needs>>
  BY DEF DryExit, Exit, DryRefuse, RefuseInput, AnnounceLock, GrantLock, SkipLock, DryEnded,
         dryVars, vars
<1> QED
  BY <1>3, <1>4, <1>5, <1>6, <1>7, <1>8, <1>9 DEF DryNext, DryMainStep, PrinterStep

\* What the types say of numbers, apart from what they say of sequences.
LEMMA JobNumbers ==
    ASSUME DryTypeOK
    PROVE  /\ Jobs \subseteq Nat /\ NJobs \in Nat /\ next \in Nat
           /\ printed \in Seq(Jobs) /\ needs \subseteq Jobs
           /\ printing \in Jobs \cup {NoJob} /\ printing \in Nat
           /\ dryRun \in BOOLEAN
           /\ pc \in [Jobs -> JobPcs]
           /\ dryRunOut \in [Jobs -> {"open", "full", "closed", "full, closed"}]
<1>1. Jobs \subseteq Nat /\ NJobs \in Nat
  BY DeployAssumption DEF Jobs
<1>2. TypeOK
  BY DEF DryTypeOK
<1>3. next \in Nat /\ pc \in [Jobs -> JobPcs]
  BY <1>1, <1>2 DEF TypeOK
<1>4. printing \in Jobs \cup {NoJob} /\ printed \in Seq(Jobs) /\ needs \subseteq Jobs
      /\ dryRun \in BOOLEAN
      /\ dryRunOut \in [Jobs -> {"open", "full", "closed", "full, closed"}]
  BY DEF DryTypeOK
<1>5. printing \in Jobs \cup {NoJob}
  BY <1>4
<1>6. printing \in Nat
  BY <1>1, <1>5 DEF NoJob
<1> QED  BY <1>1, <1>3, <1>4, <1>6

\* The printer only goes past a channel that is settled: closed, or with the
\* document in it.
LEMMA SettledStep ==
    ASSUME IInv, DryTypeOK, Queued, Settled, [DryNext]_dryVars
    PROVE  Settled'
<1> USE DEF Settled
<1>1. /\ Cursor \in Nat
      /\ ~PrintOut /\ dryRun => Cursor' = Cursor
      /\ PrintOut => Cursor' = printing + 1
  BY QueuedStep
<1>2. pc \in [Jobs -> JobPcs] /\ dryRunOut \in [Jobs -> {"open", "full", "closed", "full, closed"}]
  BY JobNumbers
<1>3. Jobs \subseteq Nat
  BY JobNumbers
<1>4. CASE DrySpawn
  <2>1. /\ next \in Jobs /\ pc[next] = "waiting"
        /\ pc' = [pc EXCEPT ![next] = "reading"]
        /\ UNCHANGED <<dryRun, dryRunOut, needs>>
    <3>1. next \in Jobs
      BY <1>4 DEF DrySpawn, Spawn, IInv, AtLock
    <3> HIDE DEF Settled
    <3>2. next <= next
      BY <1>3, <3>1
    <3>3. pc[next] = "waiting"
      BY <3>1, <3>2 DEF IInv, Spawned
    <3> QED  BY <1>4, <3>1, <3>3 DEF DrySpawn, Spawn
  <2>2. ~PrintOut
    BY <1>4 DEF DrySpawn, Spawn, PrintOut, vars
  <2> QED  BY <1>1, <1>2, <2>1, <2>2
<1>5. CASE PrintOut
  <2>1. /\ printing \in Jobs /\ dryRunOut[printing] # "open"
        /\ UNCHANGED <<pc, dryRun, dryRunOut, needs>>
    BY <1>5 DEF PrintOut, OutReady, vars, DryTypeOK
  <2>2. Cursor = printing /\ Cursor' = printing + 1
    BY <1>1, <1>5 DEF Cursor, PrintOut
  <2>3. ASSUME NEW i \in Jobs, i < Cursor' PROVE i < Cursor \/ i = printing
    <3> HIDE DEF Settled
    <3>1. i \in Nat /\ printing \in Nat
      BY <1>3, JobNumbers
    <3> QED  BY <2>2, <2>3, <3>1
  <2> QED  BY <2>1, <2>3
<1>6. ASSUME NEW j \in Jobs, DryFinish(j), ~PrintOut PROVE Settled'
  <2>1. /\ pc[j] = "doing" /\ dryRunOut[j] = "open" /\ UNCHANGED dryRun
        /\ pc' \in {[pc EXCEPT ![j] = "pushed"], [pc EXCEPT ![j] = "failed"]}
    BY <1>6 DEF DryFinish, FinishDo
  <2>2. CASE UNCHANGED <<dryRunOut, needs>>
    BY <1>1, <1>2, <1>6, <2>1, <2>2
  <2>3. CASE /\ dryRunOut' = [dryRunOut EXCEPT ![j] = "full"]
             /\ needs' = needs \cup {j}
    BY <1>1, <1>2, <1>6, <2>1, <2>3
  <2> QED  BY <1>6, <2>2, <2>3 DEF DryFinish
<1>7. ASSUME NEW j \in Jobs, CloseOut(j), ~PrintOut PROVE Settled'
  <2>1. /\ pc[j] \in {"pushed", "failed"} /\ UNCHANGED <<pc, needs, dryRun>>
        /\ dryRunOut' = [dryRunOut EXCEPT ![j] = Closed(j)]
        /\ dryRunOut[j] \in {"open", "full"}
    BY <1>7 DEF CloseOut, vars
  <2> QED  BY <1>1, <1>2, <1>7, <2>1 DEF Closed
<1>8. ASSUME NEW j \in Jobs, DryUnlock(j) \/ (StartDo(j) /\ UNCHANGED outVars), ~PrintOut
      PROVE  Settled'
  <2>1. /\ UNCHANGED <<dryRunOut, needs, dryRun>>
        /\ \A i \in Jobs : pc'[i] = pc[i] \/ pc[i] \in {"pushed", "failed"} \/ pc'[i] = "doing"
        /\ \A i \in Jobs : pc'[i] = "doing" => pc[i] \in {"reading", "doing"}
        /\ \A i \in Jobs : pc[i] \in {"pushed", "failed"}
              => pc'[i] \in {"pushed", "failed", "done", "unwound"}
    BY <1>2, <1>8 DEF DryUnlock, Unlock, StartDo, outVars
  <2> QED  BY <1>1, <1>8, <2>1
<1>9. CASE UNCHANGED <<pc, dryRunOut, needs, dryRun>> /\ ~PrintOut
  BY <1>1, <1>9
<1>10. DryExit \/ DryRefuse \/ ((AnnounceLock \/ GrantLock \/ SkipLock) /\ UNCHANGED outVars)
         \/ DryEnded \/ UNCHANGED dryVars \/ ReceiveOut
       => UNCHANGED <<pc, dryRunOut, needs, dryRun>>
  BY DEF DryExit, Exit, DryRefuse, RefuseInput, AnnounceLock, GrantLock, SkipLock, DryEnded,
         dryVars, vars, outVars, ReceiveOut
<1>11. ASSUME NEW j \in Jobs, DryJobStep(j)
       PROVE  \/ DryFinish(j) \/ CloseOut(j)
              \/ DryUnlock(j) \/ (StartDo(j) /\ UNCHANGED outVars)
              \/ UNCHANGED <<pc, dryRunOut, needs, dryRun>>
  <2> HIDE DEF Settled
  <2>1. CASE Crash(j) /\ UNCHANGED outVars
    BY <2>1 DEF Crash, outVars
  <2>2. CASE \E k \in Keys : (RLock(j, k) \/ RUnlock(j, k)) /\ UNCHANGED outVars
    BY <2>2 DEF RLock, RUnlock, outVars
  <2> QED  BY <1>11, <2>1, <2>2 DEF DryJobStep
<1> QED
  BY <1>4, <1>5, <1>6, <1>7, <1>8, <1>9, <1>10, <1>11
  DEF DryNext, DryMainStep, PrinterStep

\* What is needed of the jobs that the printer is done with has been printed.
LEMMA PrintedStep ==
    ASSUME IInv, DryTypeOK, Queued, Settled, PrintedSoFar, [DryNext]_dryVars
    PROVE  PrintedSoFar'
<1> USE DEF PrintedSoFar, outVars
<1>1. /\ Cursor \in Nat /\ Cursor <= Cursor' /\ Cursor' \in Nat
      /\ ~PrintOut /\ dryRun => Cursor' = Cursor
      /\ PrintOut => Cursor' = printing + 1
  BY QueuedStep
<1>2. printed \in Seq(Jobs) /\ needs \subseteq Jobs /\ Jobs \subseteq Nat
  BY JobNumbers
<1>3. Len(printed) \in Nat /\ DOMAIN printed = 1..Len(printed)
      /\ \A a \in DOMAIN printed : printed[a] \in Nat
  BY <1>2, LenProperties
<1>4. CASE PrintOut
  <2>1. /\ printing \in Jobs /\ UNCHANGED needs
        /\ dryRunOut[printing] \in {"full", "full, closed"} => printed' = Append(printed, printing)
        /\ dryRunOut[printing] \notin {"full", "full, closed"} => printed' = printed
    BY <1>4 DEF PrintOut, DryTypeOK
  <2>2. Cursor = printing /\ Cursor' = printing + 1
    BY <1>1, <1>4 DEF Cursor, PrintOut
  <2>3. printing \in needs <=> dryRunOut[printing] \in {"full", "full, closed"}
    BY <2>1 DEF Settled
  <2>4. CASE printing \in needs
    <3>1. /\ Len(printed') = Len(printed) + 1 /\ DOMAIN printed' = 1..Len(printed) + 1
          /\ \A a \in 1..Len(printed) : printed'[a] = printed[a]
          /\ printed'[Len(printed) + 1] = printing
      <4>1. printed' = Append(printed, printing)
        BY <2>1, <2>3, <2>4
      <4>2. printed' \in Seq(Jobs)
        BY <1>2, <2>1, <4>1, AppendProperties
      <4>3. printing \in Jobs
        BY <2>1
      <4>4. /\ Len(printed') = Len(printed) + 1
            /\ \A a \in 1..Len(printed) : printed'[a] = printed[a]
            /\ printed'[Len(printed) + 1] = printing
        BY <1>2, <4>1, <4>3, AppendProperties
      <4>5. DOMAIN printed' = 1..Len(printed')
        BY <4>2, LenProperties
      <4> QED  BY <4>4, <4>5
    <3>2. \A a, b \in DOMAIN printed' : a < b => printed'[a] < printed'[b]
      BY <1>1, <1>3, <2>2, <3>1
    <3>3. \A a \in DOMAIN printed' : printed'[a] < Cursor'
      BY <1>1, <1>3, <2>2, <3>1
    <3>4. ASSUME NEW j \in needs', j < Cursor'
          PROVE  \E a \in DOMAIN printed' : printed'[a] = j
      <4>1. CASE j = printing
        BY <1>3, <3>1, <4>1
      <4>2. CASE j < printing
        <5>1. PICK a \in DOMAIN printed : printed[a] = j
          BY <2>1, <2>2, <3>4, <4>2
        <5> QED  BY <1>3, <3>1, <5>1
      <4>3. j \in Nat /\ printing \in Nat
        BY <1>2, <2>1
      <4> QED  BY <2>2, <3>4, <4>1, <4>2, <4>3
    <3> QED  BY <3>2, <3>3, <3>4
  <2>5. CASE printing \notin needs
    <3>1. printed' = printed /\ needs' = needs
      BY <2>1, <2>3, <2>5
    <3>2. \A a \in DOMAIN printed : printed[a] < Cursor'
      BY <1>1, <1>3
    <3>3. ASSUME NEW j \in needs, j < Cursor' PROVE j < Cursor
      <4>1. j \in Nat /\ printing \in Nat /\ j # printing
        BY <1>2, <2>1, <2>5
      <4> QED  BY <2>2, <3>3, <4>1
    <3> QED  BY <3>1, <3>2, <3>3
  <2> QED  BY <2>4, <2>5
<1>5. CASE UNCHANGED <<printed, needs>> /\ ~PrintOut
  <2>1. ~dryRun => needs = {}
    BY DEF Queued
  <2> QED  BY <1>1, <1>2, <1>3, <1>5, <2>1
<1>6. ASSUME NEW j \in Jobs, DryFinish(j), ~PrintOut, ~UNCHANGED <<printed, needs>>
      PROVE  PrintedSoFar'
  <2>1. UNCHANGED printed /\ dryRun /\ needs' = needs \cup {j} /\ pc[j] = "doing"
    BY <1>6 DEF DryFinish, FinishDo
  <2>2. ~(j < Cursor)
    BY <2>1 DEF Settled
  <2> QED  BY <1>1, <1>6, <2>1, <2>2
<1>7. DryMainStep \/ DryRefuse \/ DryEnded \/ UNCHANGED dryVars \/ ReceiveOut => UNCHANGED <<printed, needs>>
  BY DEF DryMainStep, DrySpawn, DryExit, DryRefuse, DryEnded, dryVars, ReceiveOut
<1>8. ASSUME NEW j \in Jobs, DryJobStep(j)
      PROVE  DryFinish(j) \/ UNCHANGED <<printed, needs>>
  BY <1>8 DEF DryJobStep, DryUnlock, CloseOut
<1> QED
  BY <1>4, <1>5, <1>6, <1>7, <1>8 DEF DryNext, PrinterStep

\* main only returns when the printer has come to the end of the stream
\* (main.go:248).
LEMMA EndsStep ==
    ASSUME IInv, EndsDone, [DryNext]_dryVars
    PROVE  EndsDone'
<1> USE DEF EndsDone, outVars
<1>1. CASE DryExit
  BY <1>1 DEF DryExit, Exit
<1>2. CASE DryEnded \/ UNCHANGED dryVars
  BY <1>2 DEF DryEnded, dryVars, vars
<1>3. DrySpawn \/ DryRefuse \/ (AnnounceLock \/ GrantLock \/ SkipLock) => mainPc' # "exited"
  BY DEF DrySpawn, Spawn, DryRefuse, RefuseInput, AnnounceLock, GrantLock, SkipLock
<1>4. PrinterStep => mainPc' # "exited"
  BY DEF PrinterStep, ReceiveOut, PrintOut, Running, vars
<1>5. ASSUME NEW j \in Jobs, DryJobStep(j) PROVE mainPc' # "exited"
  BY <1>5 DEF DryJobStep, DryFinish, FinishDo, CloseOut, vars, DryUnlock, Unlock, StartDo,
              Crash, RLock, RUnlock, Running
<1> QED
  BY <1>1, <1>2, <1>3, <1>4, <1>5 DEF DryNext, DryMainStep

\* The invariant of the output.
LEMMA OutputInvariant == DrySpec => [](IInv /\ DInv)
<1>1. DryInit => Queued /\ Settled /\ PrintedSoFar /\ EndsDone
  <2> SUFFICES ASSUME DryInit PROVE Queued /\ Settled /\ PrintedSoFar /\ EndsDone
    OBVIOUS
  <2>1. /\ next = 1 /\ mainPc = "lock" /\ dryRunOuts = <<>> /\ printing = NoJob
        /\ needs = {} /\ printed = <<>> /\ dryRunOut = [j \in Jobs |-> "open"]
    BY DEF DryInit, Init
  <2>2. Cursor = 1 /\ Len(dryRunOuts) = 0
    BY <2>1 DEF Cursor, NoJob
  <2>3. Queued
    BY <2>1, <2>2 DEF Queued
  <2>4. Settled
    BY <2>1, <2>2 DEF Settled, Jobs
  <2>5. PrintedSoFar /\ EndsDone
    BY <2>1, <2>2 DEF PrintedSoFar, EndsDone
  <2> QED  BY <2>3, <2>4, <2>5
<1>2. /\ IInv /\ DryTypeOK /\ Queued /\ Settled /\ PrintedSoFar /\ EndsDone
      /\ [DryNext]_dryVars
      => Queued' /\ Settled' /\ PrintedSoFar' /\ EndsDone'
  BY QueuedStep, SettledStep, PrintedStep, EndsStep
<1> QED  BY <1>1, <1>2, LocksInvariant, DryTypeCorrect, PTL DEF DrySpec, DInv

\* The documents are printed in stream order, nothing before what comes first
\* in the stream, and a run that ends has printed them all (main.go:69-88).
THEOREM DryOutputInOrder == DrySpec => []PrintedInOrder
<1>1. IInv /\ DInv => PrintedInOrder
  <2> SUFFICES ASSUME IInv, DInv PROVE PrintedInOrder
    OBVIOUS
  <2>1. PrintedSoFar /\ Queued /\ EndsDone
    BY DEF DInv
  <2>2. printed \in Seq(Jobs) /\ needs \subseteq Jobs /\ Jobs \subseteq Nat
    BY JobNumbers DEF DInv
  <2>3. DOMAIN printed = 1..Len(printed) /\ Len(printed) \in Nat
        /\ \A a \in DOMAIN printed : printed[a] \in Nat
    BY <2>2, LenProperties
  <2>4. next \in Nat /\ NJobs \in Nat
    BY JobNumbers DEF DInv
  <2>5. Cursor \in Nat
    <3>1. Len(dryRunOuts) \in Nat
      BY LenProperties DEF DInv, DryTypeOK
    <3>2. printing \in Nat
      BY JobNumbers DEF DInv
    <3> QED  BY <2>1, <2>4, <3>1, <3>2 DEF Queued, Cursor
  <2>6. ASSUME NEW b \in DOMAIN printed, NEW j \in needs, j < printed[b]
        PROVE  \E a \in 1..b : printed[a] = j
    <3>1. j < Cursor
      BY <2>1, <2>2, <2>3, <2>5, <2>6 DEF PrintedSoFar
    <3>2. PICK a \in DOMAIN printed : printed[a] = j
      BY <2>1, <3>1 DEF PrintedSoFar
    <3>3. ~(b < a)
      BY <2>1, <2>2, <2>3, <2>6, <3>2 DEF PrintedSoFar
    <3> QED  BY <2>3, <3>2, <3>3
  <2>7. ASSUME mainPc = "exited", NEW j \in needs
        PROVE  \E a \in DOMAIN printed : printed[a] = j
    <3>1. Cursor = next /\ next > NJobs
      BY <2>1, <2>4, <2>7 DEF EndsDone, Cursor
    <3>2. j < Cursor
      BY <2>2, <2>4, <3>1 DEF Jobs
    <3> QED  BY <2>1, <3>2 DEF PrintedSoFar
  <2> QED  BY <2>1, <2>6, <2>7 DEF PrintedInOrder, PrintedSoFar
<1> QED  BY <1>1, OutputInvariant, PTL
=============================================================================
