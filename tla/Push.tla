-------------------------------- MODULE Push --------------------------------
(***************************************************************************)
(* registry/push.go: what one job of a deploy does to the registry, while  *)
(* other jobs do the same.  EnsureManifest is recursive: a job has a stack *)
(* of calls, and every request to the registry is a step.                  *)
(*                                                                         *)
(* An object is its digest, a repository stands for host and name.  The    *)
(* registry keeps what it has and refuses a manifest with a child that the *)
(* repository lacks, with a status in the 400s.  The cache in between is   *)
(* left out: RegistryCache shows that it says what the registry says.      *)
(***************************************************************************)
EXTENDS Integers, Sequences, SequencesExt, FiniteSets

CONSTANTS
    Repos, Tags, Digests,
    None,           \* no tag, no repository, no digest
    Manifests,      \* the digests of manifests, the others are blobs
    ChildList,      \* [Digests -> Seq(Digests)]: manifests, config and layers
    Embedded,       \* the digests that descriptors carry the data of
    Jobs,
    Task,           \* [Jobs -> Tasks]: what each job is to ensure
    MayFail         \* the jobs whose requests may fail otherwise

\* from is CopyFrom; lookup has repositories by digest, and fallback is its ""
Tasks == [repo : Repos, tag : Tags \cup {None}, digest : Digests,
          from : Repos \cup {None}, fallback : Repos \cup {None},
          lookup : UNION {[S -> Repos] : S \in SUBSET Digests}]

Children(d) == ToSet(ChildList[d])
\* whatever is in it, all that is below it is too
Closed(S) == \A d \in S : Children(d) \subseteq S
\* the children, theirs, and so on: what every closed set with them has
Below(d) == {e \in Digests : \A S \in SUBSET Digests :
                                Closed(S) /\ Children(d) \subseteq S => e \in S}

ASSUME PushAssumption ==
    /\ None \notin Repos \cup Tags \cup Digests
    /\ Manifests \subseteq Digests /\ Embedded \subseteq Digests
    /\ ChildList \in [Digests -> Seq(Digests)]
    /\ \A d \in Digests \ Manifests : ChildList[d] = <<>>
    /\ \A j \in Jobs : /\ Task[j] \in Tasks
                       /\ Task[j].tag # None => Task[j].digest \in Manifests
    /\ MayFail \subseteq Jobs

VARIABLES
    has,        \* repository -> the objects it has
    tagged,     \* <<repository, tag>> -> digest
    status,     \* job -> how it stands
    calls       \* job -> its stack of EnsureManifest calls, the last innermost

vars == <<has, tagged, status, calls>>

\* a call: where it stands, and which child is next
Call(digest, tag, fallback) ==
    [digest |-> digest, tag |-> tag, fallback |-> fallback, at |-> "head", child |-> 1]

\* any content in which every manifest has its children
Init ==
    /\ has \in [Repos -> SUBSET Digests]
    /\ \A r \in Repos : Closed(has[r])
    /\ tagged = [k \in Repos \X Tags |-> None]
    /\ status = [j \in Jobs |-> "waiting"]
    /\ calls = [j \in Jobs |-> <<>>]

Top(j) == calls[j][Len(calls[j])]
At(j, place) == status[j] = "running" /\ calls[j] # <<>> /\ Top(j).at = place
Move(j, place) == calls' = [calls EXCEPT ![j][Len(calls[j])].at = place]

\* the innermost call returns, and the job with the outermost one
Return(j) ==
    LET depth == Len(calls[j])
    IN  /\ calls' = [calls EXCEPT ![j] = SubSeq(@, 1, depth - 1)]
        /\ status' = IF depth = 1 THEN [status EXCEPT ![j] = "ok"] ELSE status

\* an error goes up through all the calls
Fail(j) ==
    /\ status' = [status EXCEPT ![j] = "failed"]
    /\ calls' = [calls EXCEPT ![j] = <<>>]
    /\ UNCHANGED <<has, tagged>>

Put(r, d, tag) ==
    /\ has' = [has EXCEPT ![r] = @ \cup {d}]
    /\ tagged' = IF tag = None THEN tagged ELSE [tagged EXCEPT ![<<r, tag>>] = d]

(***************************************************************************)
(* The jobs: normal.do.                                                    *)
(***************************************************************************)

\* EnsureBlob, or CopyBlob, which mounts the blob or reads and pushes it
StartBlob(j) ==
    LET t == Task[j] IN
    /\ status[j] = "waiting" /\ t.digest \notin Manifests
    /\ IF t.from # None /\ t.digest \notin has[t.from] THEN Fail(j)
       ELSE /\ Put(t.repo, t.digest, None)
            /\ status' = [status EXCEPT ![j] = "ok"]
            /\ UNCHANGED calls

\* where children are that have no lookup of their own: in the fallback, or
\* where the manifest is copied from, or where it goes to
Fallback(t) ==
    IF t.fallback # None THEN t.fallback ELSE IF t.from # None THEN t.from ELSE t.repo

\* EnsureManifest, or CopyManifest, which reads the manifest first
StartManifest(j) ==
    LET t == Task[j] IN
    /\ status[j] = "waiting" /\ t.digest \in Manifests
    /\ IF t.from # None /\ t.digest \notin has[t.from] THEN Fail(j)
       ELSE /\ status' = [status EXCEPT ![j] = "running"]
            /\ calls' = [calls EXCEPT ![j] = <<Call(t.digest, t.tag, Fallback(t))>>]
            /\ UNCHANGED <<has, tagged>>

(***************************************************************************)
(* EnsureManifest.                                                         *)
(***************************************************************************)

\* slip: the digest is looked up even if there is a tag
ThereByDigest(j) == Top(j).digest \in has[Task[j].repo]
\* "if it matches, then we can assume child objects exist as well"
There(j) ==
    IF Top(j).tag # None THEN tagged[<<Task[j].repo, Top(j).tag>>] = Top(j).digest
                         ELSE Top(j).digest \in has[Task[j].repo]

HeadRequest(j) ==
    /\ At(j, "head")
    /\ IF There(j) THEN Return(j)
       ELSE Move(j, "push") /\ UNCHANGED status
    /\ UNCHANGED <<has, tagged>>

Takes(r, d) == Children(d) \subseteq has[r]

PushManifest(j) ==
    /\ At(j, "push")
    /\ IF Takes(Task[j].repo, Top(j).digest)
       THEN Put(Task[j].repo, Top(j).digest, Top(j).tag) /\ Return(j)
       ELSE Move(j, "children") /\ UNCHANGED <<has, tagged, status>>

HasChild(j) == At(j, "children") /\ Top(j).child \in DOMAIN ChildList[Top(j).digest]
Child(j) == ChildList[Top(j).digest][Top(j).child]

\* childToRefs
Source(j) ==
    IF Child(j) \in DOMAIN Task[j].lookup THEN Task[j].lookup[Child(j)] ELSE Top(j).fallback

\* slip: the child is done over and over
AdvancedNot(j) == Top(j)
\* the call with its next child done
Advanced(j) == [Top(j) EXCEPT !.child = @ + 1]
\* the stack without the innermost call
Callers(j) == SubSeq(calls[j], 1, Len(calls[j]) - 1)

\* slip: grandchildren are looked for where children are
GrandchildFrom(j) == Top(j).fallback
\* "make the child's ref explicitly the fallback ref for any of its children"
ChildFrom(j) == Source(j)

\* slip: the child is called like the parent
ChildTagKept(j) == Top(j).tag
\* "childTargetRef" has no tag
ChildTag(j) == None

ChildManifest(j) ==
    /\ HasChild(j) /\ Child(j) \in Manifests
    /\ IF Child(j) \in Embedded \cup has[Source(j)]
       THEN /\ calls' = [calls EXCEPT ![j] =
                            Callers(j) \o <<Advanced(j), Call(Child(j), ChildTag(j), ChildFrom(j))>>]
            /\ UNCHANGED <<has, tagged, status>>
       ELSE Fail(j)

\* a blob is pushed from its descriptor or copied, if it is known where from
ChildBlob(j) ==
    /\ HasChild(j) /\ Child(j) \notin Manifests
    /\ IF \/ Child(j) \in Embedded
          \/ Source(j) # Task[j].repo /\ Child(j) \in has[Source(j)]
       THEN /\ Put(Task[j].repo, Child(j), None)
            /\ calls' = [calls EXCEPT ![j] = Append(Callers(j), Advanced(j))]
            /\ UNCHANGED status
       ELSE Fail(j)

\* the second and last attempt
PushAgain(j) ==
    /\ At(j, "children") /\ ~HasChild(j)
    /\ IF Takes(Task[j].repo, Top(j).digest)
       THEN Put(Task[j].repo, Top(j).digest, Top(j).tag) /\ Return(j)
       ELSE Fail(j)

\* a request fails for another reason
RequestFails(j) == status[j] \in {"waiting", "running"} /\ j \in MayFail /\ Fail(j)

\* or a manifest is pushed, but the answer is lost
AnswerLost(j) ==
    /\ j \in MayFail
    /\ At(j, "push") \/ (At(j, "children") /\ ~HasChild(j))
    /\ Takes(Task[j].repo, Top(j).digest)
    /\ Put(Task[j].repo, Top(j).digest, Top(j).tag)
    /\ status' = [status EXCEPT ![j] = "failed"]
    /\ calls' = [calls EXCEPT ![j] = <<>>]

Step(j) ==
    \/ StartBlob(j) \/ StartManifest(j) \/ HeadRequest(j) \/ PushManifest(j)
    \/ ChildManifest(j) \/ ChildBlob(j) \/ PushAgain(j)
    \/ RequestFails(j) \/ AnswerLost(j)

Finished == (\A j \in Jobs : status[j] \in {"ok", "failed"}) /\ UNCHANGED vars

Next == (\E j \in Jobs : Step(j)) \/ Finished

\* the Go scheduler runs every goroutine that can run, and requests end
Spec == Init /\ [][Next]_vars /\ \A j \in Jobs : WF_vars(Step(j))

(***************************************************************************)
(* Properties.                                                             *)
(***************************************************************************)
Frames == [digest : Manifests, tag : Tags \cup {None}, fallback : Repos,
           at : {"head", "push", "children"}, child : Nat \ {0}]

TypeOK ==
    /\ has \in [Repos -> SUBSET Digests]
    /\ tagged \in [Repos \X Tags -> Digests \cup {None}]
    /\ status \in [Jobs -> {"waiting", "running", "ok", "failed"}]
    /\ calls \in [Jobs -> Seq(Frames)]

\* A job that returned without an error has left its object "available at the
\* provided name (tag or digest), including copying any children" (push.go:22)
\* and theirs, although a HEAD that matched was the only look at them.
Ensured ==
    \A j \in Jobs : status[j] = "ok" =>
        /\ {Task[j].digest} \cup Below(Task[j].digest) \subseteq has[Task[j].repo]
        /\ Task[j].tag # None /\ (\A i \in Jobs \ {j} : Task[i].tag # Task[j].tag)
               => tagged[<<Task[j].repo, Task[j].tag>>] = Task[j].digest

\* where a task says that an object is, and of which objects it says so
Where(t, c) == IF c \in DOMAIN t.lookup THEN t.lookup[c] ELSE Fallback(t)
Told(t) == Children(t.digest) \cup (DOMAIN t.lookup \cap Below(t.digest))

\* What the lookups of a job name is there, with all that is below it, and so
\* is what is copied; none of them is the repository to push to.
Able(j) ==
    LET t == Task[j]
    IN  /\ t.from # None => t.digest \in has[t.from]
        /\ \A c \in Told(t) :
               Where(t, c) # t.repo /\ {c} \cup Below(c) \subseteq has[Where(t, c)]

\* "if necessary and able (via the provided child lookup map)" (push.go:22):
\* a job fails only when, at that moment, it has not been told where everything
\* is.
FailsForAReason ==
    [][\A j \in Jobs \ MayFail :
          status[j] # "failed" /\ status'[j] = "failed" => ~Able(j)]_vars

\* A tag moves to the object of a job that was given that tag, never to a child
\* of it, and as the last thing the job does: one that fails half way, for want
\* of a child, leaves the tag alone (push.go:67-76, 83-89, 153).
TagMovesLast ==
    [][\A k \in DOMAIN tagged : tagged'[k] # tagged[k] =>
          \E j \in Jobs : /\ <<Task[j].repo, Task[j].tag>> = k
                          /\ Task[j].digest = tagged'[k]
                          /\ status[j] = "running"
                          /\ status'[j] = "ok" \/ (status'[j] = "failed" /\ j \in MayFail)
      ]_vars

\* Every job returns: the recursion follows the children, and there is one
\* retry.
JobsReturn == \A j \in Jobs : <>(status[j] \in {"ok", "failed"})
=============================================================================
