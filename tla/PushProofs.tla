----------------------------- MODULE PushProofs -----------------------------
(***************************************************************************)
(* Proofs about Push, for any graph of objects, any number of jobs and     *)
(* repositories and any failures: a job that returns without an error has  *)
(* ensured its object and all that is below it (AllIsEnsured), a tag moves *)
(* last (TagsMoveLast), and a job that was told where everything is does   *)
(* not fail (NoFailureWithoutReason).                                      *)
(***************************************************************************)
EXTENDS Push, SequenceTheorems, TLAPS

(***************************************************************************)
(* The inductive invariant.                                                *)
(***************************************************************************)

\* the registry: no manifest without its children, no tag without its object
Sound ==
    /\ \A r \in Repos : Closed(has[r])
    /\ \A r \in Repos, g \in Tags : tagged[<<r, g>>] \in has[r] \cup {None}

\* the outermost call is the job's, and has its tag
Outermost(j) ==
    calls[j] # <<>> =>
        /\ calls[j][1].digest = Task[j].digest
        /\ calls[j][1].tag = Task[j].tag
        /\ calls[j][1].fallback = Fallback(Task[j])

\* the fallback of any other is where the task says that what it is for, or
\* something above it, is
Inner(j) ==
    \A i \in 2..Len(calls[j]) :
        /\ calls[j][i].tag = None
        /\ calls[j][i].digest \in Below(Task[j].digest)
        /\ \E c \in Told(Task[j]) :
               /\ calls[j][i].fallback = Where(Task[j], c)
               /\ calls[j][i].digest \in {c} \cup Below(c)

\* each call but the last stands at the child that the next one is for
Nested(j) ==
    \A i \in 1..(Len(calls[j]) - 1) :
        /\ calls[j][i].child - 1 \in DOMAIN ChildList[calls[j][i].digest]
        /\ ChildList[calls[j][i].digest][calls[j][i].child - 1] = calls[j][i + 1].digest

\* the children that a call has behind it are there
Done(j) ==
    \A i \in DOMAIN calls[j] : \A k \in DOMAIN ChildList[calls[j][i].digest] :
        k < (IF i < Len(calls[j]) THEN calls[j][i].child - 1 ELSE calls[j][i].child)
            => ChildList[calls[j][i].digest][k] \in has[Task[j].repo]

\* what a job that is done has ensured
Kept(j) ==
    status[j] = "ok" =>
        /\ Task[j].digest \in has[Task[j].repo]
        /\ Task[j].tag # None /\ (\A i \in Jobs \ {j} : Task[i].tag # Task[j].tag)
               => tagged[<<Task[j].repo, Task[j].tag>>] = Task[j].digest

Stack(j) == Outermost(j) /\ Inner(j) /\ Nested(j) /\ Done(j)
IInv == TypeOK /\ Sound /\ \A j \in Jobs : Stack(j) /\ Kept(j)

(***************************************************************************)
(* The graph of objects.                                                   *)
(***************************************************************************)

\* A list of children is a sequence of objects (push.go:98, 130-135).
LEMMA ListFacts ==
    ASSUME NEW d \in Digests
    PROVE  /\ ChildList[d] \in Seq(Digests) /\ Len(ChildList[d]) \in Nat
           /\ DOMAIN ChildList[d] = 1..Len(ChildList[d])
           /\ \A k \in DOMAIN ChildList[d] : ChildList[d][k] \in Children(d)
           /\ Children(d) \subseteq Digests
           /\ \A c \in Children(d) : \E k \in DOMAIN ChildList[d] : c = ChildList[d][k]
<1>1. ChildList[d] \in Seq(Digests)
    BY PushAssumption
<1> QED BY <1>1 DEF Children, ToSet

\* The children, and what is below them, are below.
LEMMA BelowFacts ==
    ASSUME NEW d \in Digests
    PROVE  /\ Children(d) \subseteq Below(d)
           /\ Below(d) \subseteq Digests
           /\ Closed(Below(d))
           /\ \A S \in SUBSET Digests : Closed(S) /\ Children(d) \subseteq S => Below(d) \subseteq S
<1>1. Children(d) \subseteq Below(d)
    BY ListFacts DEF Below
<1>2. Closed(Below(d))
  <2> SUFFICES ASSUME NEW e \in Below(d), NEW c \in Children(e),
                      NEW S \in SUBSET Digests, Closed(S), Children(d) \subseteq S
               PROVE  c \in S
    <3>1. \A e \in Below(d) : e \in Digests
        BY DEF Below
    <3>2. \A e \in Below(d) : Children(e) \subseteq Digests
        BY <3>1, ListFacts
    <3>3. \A e \in Below(d) : \A c \in Children(e) : c \in Below(d)
        BY <3>2 DEF Below
    <3> QED BY <3>3 DEF Closed
  <2>1. e \in S
      BY DEF Below
  <2> QED BY <2>1 DEF Closed
<1>3. Below(d) \subseteq Digests
    BY DEF Below
<1>4. \A S \in SUBSET Digests : Closed(S) /\ Children(d) \subseteq S => Below(d) \subseteq S
    BY DEF Below
<1> QED BY <1>1, <1>2, <1>3, <1>4

\* What is below something below is below.
LEMMA BelowBelow ==
    ASSUME NEW d \in Digests, NEW e \in Below(d)
    PROVE  e \in Digests /\ Children(e) \subseteq Below(d) /\ Below(e) \subseteq Below(d)
<1>1. e \in Digests /\ Closed(Below(d)) /\ Below(d) \in SUBSET Digests
    BY BelowFacts
<1>2. Children(e) \subseteq Below(d)
    BY <1>1 DEF Closed
<1> QED BY <1>1, <1>2, BelowFacts

\* A blob has nothing below it (manifest-children.go:9-18).
LEMMA BlobFacts == \A d \in Digests \ Manifests : Children(d) = {}
<1> SUFFICES ASSUME NEW d \in Digests \ Manifests PROVE Children(d) = {}
    OBVIOUS
<1>1. ChildList[d] = <<>>
    BY PushAssumption
<1> QED BY <1>1 DEF Children, ToSet

(***************************************************************************)
(* The registry.                                                           *)
(***************************************************************************)

RegistryTyped ==
    /\ has \in [Repos -> SUBSET Digests]
    /\ tagged \in [Repos \X Tags -> Digests \cup {None}]

Grown == \A r \in Repos : has[r] \subseteq has'[r]

\* An object that the registry takes is there with its tag, if it has one, and
\* what was there still is; other tags are where they were (push.go:71, 153).
LEMMA PutFacts ==
    ASSUME RegistryTyped, Sound, NEW r \in Repos, NEW d \in Digests,
           NEW tag \in Tags \cup {None}, Put(r, d, tag), Takes(r, d)
    PROVE  /\ RegistryTyped' /\ Sound' /\ Grown
           /\ d \in has'[r]
           /\ tag # None => tagged'[<<r, tag>>] = d
           /\ \A k \in Repos \X Tags : k # <<r, tag>> => tagged'[k] = tagged[k]
           /\ tag = None => tagged' = tagged
<1> USE PushAssumption
<1>1. has' = [has EXCEPT ![r] = @ \cup {d}]
    BY DEF Put
<1>2. tagged' = IF tag = None THEN tagged ELSE [tagged EXCEPT ![<<r, tag>>] = d]
    BY DEF Put
<1>3. has' \in [Repos -> SUBSET Digests]
    BY <1>1 DEF RegistryTyped
<1>4. Grown /\ d \in has'[r] /\ \A x \in Repos : has'[x] = IF x = r THEN has[r] \cup {d} ELSE has[x]
    BY <1>1 DEF RegistryTyped, Grown
<1>5. tag # None => <<r, tag>> \in Repos \X Tags
    OBVIOUS
<1>6. tagged' \in [Repos \X Tags -> Digests \cup {None}]
    BY <1>2, <1>5 DEF RegistryTyped
<1>7. tag # None => tagged'[<<r, tag>>] = d
    BY <1>2, <1>5 DEF RegistryTyped
<1>8. \A k \in Repos \X Tags : k # <<r, tag>> => tagged'[k] = tagged[k]
    BY <1>2 DEF RegistryTyped
<1>9. \A x \in Repos : Closed(has'[x])
  <2> SUFFICES ASSUME NEW x \in Repos, NEW e \in has'[x] PROVE Children(e) \subseteq has'[x]
      BY DEF Closed
  <2>1. CASE e \in has[x]
      BY <2>1, <1>4 DEF Sound, Closed, Grown
  <2>2. CASE e \notin has[x]
      BY <2>2, <1>4 DEF Takes, Grown
  <2> QED BY <2>1, <2>2
<1>10. \A x \in Repos, g \in Tags : tagged'[<<x, g>>] \in has'[x] \cup {None}
  <2> SUFFICES ASSUME NEW x \in Repos, NEW g \in Tags PROVE tagged'[<<x, g>>] \in has'[x] \cup {None}
      OBVIOUS
  <2>1. tagged[<<x, g>>] \in has[x] \cup {None}
      BY DEF Sound
  <2>2. CASE x = r /\ g = tag
      BY <2>2, <1>7, <1>4
  <2>3. CASE ~(x = r /\ g = tag)
    <3>1. <<x, g>> # <<r, tag>> /\ <<x, g>> \in Repos \X Tags
        BY <2>3
    <3> QED BY <3>1, <2>1, <1>8, <1>4 DEF Grown
  <2> QED BY <2>2, <2>3
<1> QED BY <1>2, <1>3, <1>4, <1>6, <1>7, <1>8, <1>9, <1>10 DEF RegistryTyped, Sound

(***************************************************************************)
(* The stack of a job.                                                     *)
(***************************************************************************)

CallsTyped ==
    /\ status \in [Jobs -> {"waiting", "running", "ok", "failed"}]
    /\ calls \in [Jobs -> Seq(Frames)]

\* A task, and the frame of a call, name repositories and objects (input.go:278).
LEMMA TaskFacts ==
    ASSUME NEW j \in Jobs
    PROVE  /\ Task[j].repo \in Repos /\ Task[j].digest \in Digests
           /\ Task[j].tag \in Tags \cup {None} /\ Fallback(Task[j]) \in Repos
           /\ Task[j].from # None => Task[j].from \in Repos
           /\ \A c \in DOMAIN Task[j].lookup : Task[j].lookup[c] \in Repos
           /\ Task[j].tag # None => Task[j].digest \in Manifests
<1>1. Task[j] \in Tasks /\ (Task[j].tag # None => Task[j].digest \in Manifests)
    BY PushAssumption
<1>2. /\ Task[j].repo \in Repos /\ Task[j].digest \in Digests
      /\ Task[j].tag \in Tags \cup {None}
      /\ Task[j].from \in Repos \cup {None} /\ Task[j].fallback \in Repos \cup {None}
    BY <1>1 DEF Tasks
<1>3. \A c \in DOMAIN Task[j].lookup : Task[j].lookup[c] \in Repos
  <2>1. PICK S \in SUBSET Digests : Task[j].lookup \in [S -> Repos]
      BY <1>1 DEF Tasks
  <2> QED BY <2>1
<1> QED BY <1>1, <1>2, <1>3 DEF Fallback

\* What a job that is at some place has for its innermost call (push.go:23).
LEMMA TopFacts ==
    ASSUME CallsTyped, NEW j \in Jobs, calls[j] # <<>>
    PROVE  /\ Len(calls[j]) \in Nat \ {0} /\ DOMAIN calls[j] = 1..Len(calls[j])
           /\ \A i \in 1..Len(calls[j]) : calls[j][i] \in Frames
           /\ Top(j) \in Frames /\ Top(j) = calls[j][Len(calls[j])]
           /\ Top(j).digest \in Digests /\ Top(j).tag \in Tags \cup {None}
<1>1. calls[j] \in Seq(Frames)
    BY DEF CallsTyped
<1>2. Len(calls[j]) \in Nat \ {0} /\ \A i \in 1..Len(calls[j]) : calls[j][i] \in Frames
    BY <1>1
<1>3. Top(j) \in Frames
    BY <1>2 DEF Top
<1> QED BY <1>1, <1>2, <1>3, PushAssumption DEF Top, Frames

\* The tag that the innermost call has is that of the job, if it has one, and
\* then it is the only call (push.go:84-88).
LEMMA TagOfTop ==
    ASSUME CallsTyped, NEW j \in Jobs, calls[j] # <<>>, Stack(j), Top(j).tag # None
    PROVE  Len(calls[j]) = 1 /\ Top(j).tag = Task[j].tag /\ Top(j).digest = Task[j].digest
<1>1. Len(calls[j]) \in Nat \ {0} /\ Top(j) = calls[j][Len(calls[j])]
    BY TopFacts
<1>2. Len(calls[j]) \notin 2..Len(calls[j])
    BY <1>1 DEF Stack, Inner
<1>3. Len(calls[j]) = 1
  <2>1. \A n \in Nat \ {0} : n \notin 2..n => n = 1
      OBVIOUS
  <2> QED BY <2>1, <1>1, <1>2
<1> QED BY <1>1, <1>3 DEF Stack, Outermost

\* A job's stack stands whatever others add to the registry (push.go:124).
LEMMA OthersKeep ==
    ASSUME NEW x \in Jobs, CallsTyped, Stack(x), calls'[x] = calls[x], Grown
    PROVE  Stack(x)'
<1>1. Task[x].repo \in Repos
    BY TaskFacts
<1>2. Done(x)'
    BY <1>1 DEF Stack, Done, Grown
<1>3. Outermost(x)' /\ Inner(x)' /\ Nested(x)'
    BY DEF Stack, Outermost, Inner, Nested
<1> QED BY <1>2, <1>3 DEF Stack

\* An empty stack is in order.
LEMMA EmptyStack ==
    ASSUME NEW x \in Jobs, calls'[x] = <<>>
    PROVE  Stack(x)'
<1>1. Len(calls'[x]) = 0 /\ DOMAIN calls'[x] = 1..0
    OBVIOUS
<1>2. Outermost(x)'
    BY DEF Outermost
<1>3. Inner(x)' /\ Nested(x)'
    BY <1>1 DEF Inner, Nested
<1>4. Done(x)'
    BY <1>1 DEF Done
<1> QED BY <1>2, <1>3, <1>4 DEF Stack

\* When the innermost call returns, its object is there, and the caller has that
\* child behind it (push.go:98-128).
LEMMA PopStack ==
    ASSUME NEW j \in Jobs, CallsTyped, Stack(j), calls[j] # <<>>, Grown,
           calls'[j] = SubSeq(calls[j], 1, Len(calls[j]) - 1),
           Top(j).digest \in has'[Task[j].repo]
    PROVE  Stack(j)'
<1> DEFINE n == Len(calls[j])
<1>1. /\ n \in Nat \ {0} /\ DOMAIN calls[j] = 1..n /\ calls[j] \in Seq(Frames)
      /\ Top(j) = calls[j][n] /\ \A i \in 1..n : calls[j][i] \in Frames
    BY TopFacts DEF CallsTyped
<1>2. /\ Len(calls'[j]) = n - 1 /\ DOMAIN calls'[j] = 1..(n - 1)
      /\ \A i \in 1..(n - 1) : calls'[j][i] = calls[j][i]
    BY <1>1
<1> HIDE DEF n
<1>3. Outermost(j)'
  <2> SUFFICES ASSUME calls'[j] # <<>> PROVE n - 1 >= 1
      BY <1>1, <1>2 DEF Stack, Outermost, n
  <2> QED BY <1>1, <1>2
<1>4. Inner(j)'
  <2>1. \A i \in 2..(n - 1) : i \in 2..n /\ i \in 1..(n - 1)
      BY <1>1
  <2>2. \A i \in 2..n : /\ calls[j][i].tag = None
                       /\ calls[j][i].digest \in Below(Task[j].digest)
                       /\ \E c \in Told(Task[j]) :
                              /\ calls[j][i].fallback = Where(Task[j], c)
                              /\ calls[j][i].digest \in {c} \cup Below(c)
      BY DEF Stack, Inner, n
  <2>3. SUFFICES ASSUME NEW i \in 2..(n - 1)
                 PROVE  /\ calls'[j][i].tag = None
                        /\ calls'[j][i].digest \in Below(Task[j].digest)
                        /\ \E c \in Told(Task[j]) :
                               /\ calls'[j][i].fallback = Where(Task[j], c)
                               /\ calls'[j][i].digest \in {c} \cup Below(c)
      BY <1>2 DEF Inner
  <2>4. i \in 2..n /\ calls'[j][i] = calls[j][i]
      BY <1>2, <2>1
  <2> QED BY <2>2, <2>4
<1>5. Nested(j)'
  <2>1. \A i \in 1..((n - 1) - 1) : i \in 1..(n - 1) /\ i + 1 \in 1..(n - 1)
      BY <1>1
  <2> QED BY <1>2, <2>1 DEF Stack, Nested, n
<1>6. Done(j)'
  <2> SUFFICES ASSUME NEW i \in 1..(n - 1), NEW k \in DOMAIN ChildList[calls[j][i].digest],
                      k < (IF i < n - 1 THEN calls[j][i].child - 1 ELSE calls[j][i].child)
               PROVE  ChildList[calls[j][i].digest][k] \in has'[Task[j].repo]
      BY <1>1, <1>2 DEF Done
  <2>1. /\ calls[j][i].child \in Nat \ {0} /\ calls[j][i].digest \in Digests /\ i < n /\ i \in 1..n
      BY <1>1, PushAssumption DEF Frames
  <2>2. k \in Nat
      BY <2>1, ListFacts
  <2>3. CASE k < calls[j][i].child - 1
    <3>1. ChildList[calls[j][i].digest][k] \in has[Task[j].repo]
        BY <2>1, <2>3, <1>1 DEF Stack, Done, n
    <3> QED BY <3>1, TaskFacts DEF Grown
  <2>4. CASE ~(k < calls[j][i].child - 1)
    <3>1. i = n - 1
      <4>1. ~(i < n - 1)
          BY <2>4
      <4> QED BY <4>1, <1>1
    <3>2. k = calls[j][i].child - 1
      <4>1. k < calls[j][i].child
          BY <3>1
      <4>2. calls[j][i].child \in Nat
          BY <2>1
      <4> HIDE DEF n
      <4> QED BY <4>1, <4>2, <2>2, <2>4
    <3>3. ChildList[calls[j][i].digest][k] = calls[j][n].digest
        BY <3>1, <3>2, <1>1 DEF Stack, Nested, n
    <3> QED BY <3>3, <1>1
  <2> QED BY <2>3, <2>4
<1> QED BY <1>3, <1>4, <1>5, <1>6 DEF Stack

\* The innermost call moves on, with the children behind it there
\* (push.go:54-76, 98-151).
LEMMA TopMoves ==
    ASSUME NEW j \in Jobs, CallsTyped, Stack(j), calls[j] # <<>>, Grown,
           NEW f \in Frames,
           Len(calls'[j]) = Len(calls[j]), DOMAIN calls'[j] = DOMAIN calls[j],
           \A i \in 1..Len(calls[j]) :
               calls'[j][i] = IF i = Len(calls[j]) THEN f ELSE calls[j][i],
           f.digest = Top(j).digest, f.tag = Top(j).tag, f.fallback = Top(j).fallback,
           \A k \in DOMAIN ChildList[f.digest] :
               k < f.child => ChildList[f.digest][k] \in has'[Task[j].repo]
    PROVE  Stack(j)'
<1> DEFINE n == Len(calls[j])
<1>1. /\ n \in Nat \ {0} /\ DOMAIN calls[j] = 1..n /\ calls[j] \in Seq(Frames)
      /\ Top(j) = calls[j][n] /\ \A i \in 1..n : calls[j][i] \in Frames
    BY TopFacts DEF CallsTyped
<1>2. /\ Len(calls'[j]) = n /\ DOMAIN calls'[j] = 1..n /\ calls'[j][n] = f
      /\ \A i \in 1..(n - 1) : calls'[j][i] = calls[j][i]
    BY <1>1
<1>3. \A i \in 1..n : /\ calls'[j][i].digest = calls[j][i].digest /\ calls'[j][i].tag = calls[j][i].tag
                      /\ calls'[j][i].fallback = calls[j][i].fallback
    BY <1>1
<1> HIDE DEF n
<1>4. Outermost(j)'
    BY <1>1, <1>2, <1>3 DEF Stack, Outermost, n
<1>5. Inner(j)'
  <2>1. \A i \in 2..n : i \in 1..n
      BY <1>1
  <2> QED BY <1>2, <1>3, <2>1 DEF Stack, Inner, n
<1>6. Nested(j)'
  <2>1. \A i \in 1..(n - 1) : i \in 1..n /\ i + 1 \in 1..n
      BY <1>1
  <2> QED BY <1>2, <1>3, <2>1 DEF Stack, Nested, n
<1>7. Done(j)'
  <2> SUFFICES ASSUME NEW i \in 1..n, NEW k \in DOMAIN ChildList[calls'[j][i].digest],
                      k < (IF i < n THEN calls'[j][i].child - 1 ELSE calls'[j][i].child)
               PROVE  ChildList[calls'[j][i].digest][k] \in has'[Task[j].repo]
      BY <1>2 DEF Done
  <2>1. CASE i = n
      BY <2>1, <1>1, <1>2
  <2>2. CASE i # n
    <3>1. i < n /\ i \in 1..(n - 1)
        BY <2>2, <1>1
    <3>2. calls'[j][i] = calls[j][i]
        BY <3>1, <1>2
    <3>3. ChildList[calls[j][i].digest][k] \in has[Task[j].repo]
        BY <3>1, <3>2, <1>1 DEF Stack, Done, n
    <3> QED BY <3>2, <3>3, TaskFacts DEF Grown
  <2> QED BY <2>1, <2>2
<1> QED BY <1>4, <1>5, <1>6, <1>7 DEF Stack

\* Where the task says that a child is, from wherever its parent is called
\* (push.go:83-96, 122-123).
LEMMA SourceTold ==
    ASSUME NEW j \in Jobs, CallsTyped, Stack(j), HasChild(j)
    PROVE  /\ Child(j) \in Children(Top(j).digest) /\ Child(j) \in Below(Task[j].digest)
           /\ \E c \in Told(Task[j]) :
                  Source(j) = Where(Task[j], c) /\ Child(j) \in {c} \cup Below(c)
<1> DEFINE n == Len(calls[j])
           t == Task[j]
<1>1. /\ calls[j] # <<>> /\ n \in Nat \ {0} /\ Top(j) = calls[j][n] /\ Top(j).digest \in Digests
      /\ t.digest \in Digests
    BY TopFacts, TaskFacts DEF HasChild, At
<1>2. Child(j) \in Children(Top(j).digest)
    BY <1>1, ListFacts DEF HasChild, Child
<1>3. CASE n = 1
  <2>1. Top(j).digest = t.digest /\ Top(j).fallback = Fallback(t)
      BY <1>1, <1>3 DEF Stack, Outermost
  <2>2. Child(j) \in Told(t) /\ Child(j) \in Below(t.digest)
      BY <2>1, <1>1, <1>2, BelowFacts DEF Told
  <2>3. Source(j) = Where(t, Child(j))
      BY <2>1 DEF Source, Where
  <2> QED BY <2>2, <2>3, <1>2
<1>4. CASE n # 1
  <2>1. n \in 2..n
    <3>1. \A m \in Nat \ {0} : m # 1 => m \in 2..m
        OBVIOUS
    <3> QED BY <3>1, <1>1, <1>4
  <2>2. Top(j).digest \in Below(t.digest)
      BY <2>1, <1>1 DEF Stack, Inner
  <2>3. PICK c \in Told(t) : /\ Top(j).fallback = Where(t, c)
                             /\ Top(j).digest \in {c} \cup Below(c)
      BY <2>1, <1>1 DEF Stack, Inner
  <2>4. Child(j) \in Below(t.digest)
      BY <2>2, <1>1, <1>2, BelowBelow
  <2>5. CASE Child(j) \in DOMAIN t.lookup
    <3>1. Child(j) \in Told(t) /\ Source(j) = Where(t, Child(j))
        BY <2>4, <2>5 DEF Told, Source, Where
    <3> QED BY <3>1, <2>4, <1>2
  <2>6. CASE Child(j) \notin DOMAIN t.lookup
    <3>1. Source(j) = Where(t, c)
        BY <2>3, <2>6 DEF Source
    <3>2. c \in Digests
        BY <1>1, ListFacts, BelowFacts DEF Told
    <3>3. Child(j) \in Below(c)
        BY <3>2, <2>3, <1>2, BelowFacts, BelowBelow
    <3> QED BY <3>1, <3>3, <2>4, <1>2
  <2> QED BY <2>5, <2>6
<1> QED BY <1>3, <1>4

\* A call with one more child behind it is a call.
LEMMA FrameAdvances ==
    ASSUME NEW x \in Frames, NEW f, f = [x EXCEPT !.child = @ + 1]
    PROVE  /\ f \in Frames /\ f.digest = x.digest /\ f.tag = x.tag
           /\ f.fallback = x.fallback /\ f.child = x.child + 1
<1>1. x.child + 1 \in Nat \ {0}
    BY DEF Frames
<1> QED BY <1>1 DEF Frames

\* A stack with two more calls.
LEMMA TwoMore ==
    ASSUME NEW s \in Seq(Frames), NEW f \in Frames, NEW c \in Frames
    PROVE  /\ s \o <<f, c>> \in Seq(Frames) /\ Len(s \o <<f, c>>) = Len(s) + 2
           /\ DOMAIN (s \o <<f, c>>) = 1..(Len(s) + 2)
           /\ \A i \in 1..Len(s) : (s \o <<f, c>>)[i] = s[i]
           /\ (s \o <<f, c>>)[Len(s) + 1] = f /\ (s \o <<f, c>>)[Len(s) + 2] = c
<1>1. <<f, c>> \in Seq(Frames) /\ Len(<<f, c>>) = 2 /\ <<f, c>>[1] = f /\ <<f, c>>[2] = c
    OBVIOUS
<1> DEFINE t == <<f, c>>
<1>2. t \in Seq(Frames) /\ Len(t) = 2 /\ s \in Seq(Frames) /\ t[1] = f /\ t[2] = c
    BY <1>1
<1> HIDE DEF t
<1>6. Len(s) \in Nat
    OBVIOUS
<1>7. /\ s \o t \in Seq(Frames) /\ Len(s \o t) = Len(s) + 2
      /\ \A i \in 1..(Len(s) + 2) : (s \o t)[i] = IF i <= Len(s) THEN s[i] ELSE t[i - Len(s)]
  <2>1. /\ s \o t \in Seq(Frames) /\ Len(s \o t) = Len(s) + Len(t)
        /\ \A i \in 1..(Len(s) + Len(t)) : (s \o t)[i] = IF i <= Len(s) THEN s[i] ELSE t[i - Len(s)]
      BY ONLY <1>2, ConcatProperties
  <2> QED BY <2>1, <1>2
<1>3. s \o t \in Seq(Frames) /\ Len(s \o t) = Len(s) + 2
    BY <1>7
<1>4. \A i \in 1..Len(s) : (s \o t)[i] = s[i]
    BY <1>6, <1>7
<1>5. (s \o t)[Len(s) + 1] = f /\ (s \o t)[Len(s) + 2] = c
    BY <1>2, <1>6, <1>7
<1> QED BY <1>3, <1>4, <1>5 DEF t

\* The next child is called, with no tag, and where it is for a fallback
\* (push.go:98-128).
LEMMA PushStack ==
    ASSUME NEW j \in Jobs, CallsTyped, Stack(j), HasChild(j), Child(j) \in Manifests,
           NEW f, NEW c,
           f = Advanced(j), c = Call(Child(j), None, Source(j)),
           calls'[j] = Callers(j) \o <<f, c>>, Grown
    PROVE  Stack(j)' /\ calls'[j] \in Seq(Frames)
<1> DEFINE n == Len(calls[j])
<1>1. /\ n \in Nat \ {0} /\ DOMAIN calls[j] = 1..n /\ calls[j] \in Seq(Frames) /\ calls[j] # <<>>
      /\ Top(j) = calls[j][n] /\ \A i \in 1..n : calls[j][i] \in Frames
      /\ Top(j) \in Frames /\ Top(j).at = "children"
    BY TopFacts DEF HasChild, At, CallsTyped
<1>2. PICK e \in Told(Task[j]) : Source(j) = Where(Task[j], e) /\ Child(j) \in {e} \cup Below(e)
    BY SourceTold
<1>3. Child(j) \in Below(Task[j].digest)
    BY SourceTold
<1>4. Source(j) \in Repos
    BY <1>2, TaskFacts DEF Where
<1>5. c \in Frames
    BY <1>4 DEF Call, Frames
<1>6. /\ f \in Frames /\ f.digest = Top(j).digest /\ f.tag = Top(j).tag
      /\ f.fallback = Top(j).fallback /\ f.child = Top(j).child + 1
    BY <1>1, FrameAdvances DEF Advanced
<1>7. Callers(j) \in Seq(Frames) /\ Len(Callers(j)) = n - 1
      /\ \A i \in 1..(n - 1) : Callers(j)[i] = calls[j][i]
    BY <1>1 DEF Callers
<1>9. /\ Len(calls'[j]) = n + 1 /\ DOMAIN calls'[j] = 1..(n + 1)
      /\ calls'[j][n] = f /\ calls'[j][n + 1] = c
      /\ \A i \in 1..(n - 1) : calls'[j][i] = calls[j][i]
      /\ calls'[j] \in Seq(Frames)
  <2> DEFINE s == Callers(j)
  <2>1. s \in Seq(Frames) /\ Len(s) = n - 1 /\ \A i \in 1..(n - 1) : s[i] = calls[j][i]
      BY <1>7
  <2>2. calls'[j] = s \o <<f, c>>
      OBVIOUS
  <2> DEFINE m == n - 1
  <2>3. m + 1 = n /\ m + 2 = n + 1 /\ Len(s) = m
      BY <1>1, <2>1
  <2> HIDE DEF s, n
  <2>4. /\ s \o <<f, c>> \in Seq(Frames) /\ Len(s \o <<f, c>>) = Len(s) + 2
        /\ DOMAIN (s \o <<f, c>>) = 1..(Len(s) + 2)
        /\ \A i \in 1..Len(s) : (s \o <<f, c>>)[i] = s[i]
        /\ (s \o <<f, c>>)[Len(s) + 1] = f /\ (s \o <<f, c>>)[Len(s) + 2] = c
      BY <2>1, <1>5, <1>6, TwoMore
  <2> QED BY <2>1, <2>2, <2>3, <2>4
<1>10. \A i \in 1..n : /\ calls'[j][i].digest = calls[j][i].digest /\ calls'[j][i].tag = calls[j][i].tag
                       /\ calls'[j][i].fallback = calls[j][i].fallback
  <2> HIDE DEF n
  <2>1. \A i \in 1..n : i = n \/ i \in 1..(n - 1)
      BY <1>1
  <2> QED BY <2>1, <1>1, <1>6, <1>9
<1>11. c.digest = Child(j) /\ c.tag = None /\ c.fallback = Source(j) /\ c.child = 1
    BY DEF Call
<1> HIDE DEF n
<1>16. f.child - 1 = Top(j).child
    BY <1>1, <1>6 DEF Frames
<1>12. Outermost(j)'
    BY <1>1, <1>9, <1>10 DEF Stack, Outermost, n
<1>13. Inner(j)'
  <2> SUFFICES ASSUME NEW i \in 2..(n + 1)
               PROVE  /\ calls'[j][i].tag = None
                      /\ calls'[j][i].digest \in Below(Task[j].digest)
                      /\ \E x \in Told(Task[j]) : /\ calls'[j][i].fallback = Where(Task[j], x)
                                                  /\ calls'[j][i].digest \in {x} \cup Below(x)
      BY <1>9 DEF Inner
  <2>1. CASE i = n + 1
      BY <2>1, <1>2, <1>3, <1>9, <1>11
  <2>2. CASE i # n + 1
    <3>1. i \in 2..n /\ i \in 1..n
        BY <2>2, <1>1
    <3> QED BY <3>1, <1>10 DEF Stack, Inner, n
  <2> QED BY <2>1, <2>2
<1>14. Nested(j)'
  <2> SUFFICES ASSUME NEW i \in 1..n
               PROVE  /\ calls'[j][i].child - 1 \in DOMAIN ChildList[calls'[j][i].digest]
                      /\ ChildList[calls'[j][i].digest][calls'[j][i].child - 1] = calls'[j][i + 1].digest
    <3>1. (n + 1) - 1 = n
        BY <1>1
    <3> QED BY <3>1, <1>9 DEF Nested
  <2>1. CASE i = n
    <3>1. calls'[j][i].child - 1 = Top(j).child
        BY <2>1, <1>9, <1>16
    <3>2. Top(j).child \in DOMAIN ChildList[Top(j).digest] /\ ChildList[Top(j).digest][Top(j).child] = Child(j)
        BY DEF HasChild, Child
    <3> QED BY <3>1, <3>2, <2>1, <1>6, <1>9, <1>11
  <2>2. CASE i # n
    <3>1. i \in 1..(n - 1) /\ i + 1 \in 1..n
        BY <2>2, <1>1
    <3>2. calls'[j][i] = calls[j][i] /\ calls'[j][i + 1].digest = calls[j][i + 1].digest
        BY <3>1, <1>9, <1>10
    <3> QED BY <3>1, <3>2 DEF Stack, Nested, n
  <2> QED BY <2>1, <2>2
<1>15. Done(j)'
  <2> SUFFICES ASSUME NEW i \in 1..(n + 1), NEW k \in DOMAIN ChildList[calls'[j][i].digest],
                      k < (IF i < n + 1 THEN calls'[j][i].child - 1 ELSE calls'[j][i].child)
               PROVE  ChildList[calls'[j][i].digest][k] \in has'[Task[j].repo]
      BY <1>9 DEF Done
  <2> HIDE DEF n
  <2>1. CASE i = n + 1
    <3>1. k < 1
        BY <2>1, <1>1, <1>9, <1>11
    <3>2. k >= 1
      <4>1. Child(j) \in Digests
          BY PushAssumption
      <4>2. k \in DOMAIN ChildList[Child(j)]
          BY <2>1, <1>9, <1>11
      <4> QED BY <4>1, <4>2, ListFacts
    <3>3. k \in Int
      <4>1. Child(j) \in Digests /\ k \in DOMAIN ChildList[Child(j)]
          BY <2>1, <1>9, <1>11, PushAssumption
      <4> QED BY <4>1, ListFacts
    <3> QED BY <3>1, <3>2, <3>3
  <2>2. CASE i = n
    <3>1. k < Top(j).child
      <4>1. i < n + 1 /\ calls'[j][i].child - 1 = Top(j).child
          BY <2>2, <1>1, <1>9, <1>16
      <4> QED BY <4>1
    <3>2. calls'[j][i].digest = calls[j][n].digest /\ Top(j) = calls[j][n]
        BY <2>2, <1>1, <1>6, <1>9
    <3>3. ChildList[calls[j][n].digest][k] \in has[Task[j].repo]
      <4>1. n \in DOMAIN calls[j] /\ ~(n < n)
          BY <1>1
      <4> QED BY <4>1, <3>1, <3>2 DEF Stack, Done, n
    <3> QED BY <3>2, <3>3, TaskFacts DEF Grown
  <2>3. CASE i # n /\ i # n + 1
    <3>1. i \in 1..(n - 1) /\ i < n /\ i < n + 1 /\ i \in 1..n
        BY <2>3, <1>1
    <3>2. calls'[j][i] = calls[j][i]
        BY <3>1, <1>9
    <3>3. ChildList[calls[j][i].digest][k] \in has[Task[j].repo]
        BY <3>1, <3>2, <1>1 DEF Stack, Done, n
    <3> QED BY <3>2, <3>3, TaskFacts DEF Grown
  <2> QED BY <2>1, <2>2, <2>3
<1> QED BY <1>9, <1>12, <1>13, <1>14, <1>15 DEF Stack

(***************************************************************************)
(* What a step of a job does, in all.                                      *)
(***************************************************************************)

\* the registry and the job go on in order, and no other tag is touched
Effect(j) ==
    /\ RegistryTyped' /\ Sound' /\ Grown
    /\ \A k \in Repos \X Tags : k # <<Task[j].repo, Task[j].tag>> => tagged'[k] = tagged[k]
    /\ \E q \in Seq(Frames) : calls' = [calls EXCEPT ![j] = q]
    /\ \E v \in {"waiting", "running", "ok", "failed"} : status' = [status EXCEPT ![j] = v]
    /\ status[j] \in {"waiting", "running"}
    /\ Stack(j)'
    /\ status'[j] = "ok" =>
           /\ Task[j].digest \in has'[Task[j].repo]
           /\ Task[j].tag # None => tagged'[<<Task[j].repo, Task[j].tag>>] = Task[j].digest

\* The invariant without the sets: TypeOK is RegistryTyped and CallsTyped.
LEMMA Parts == IInv <=> RegistryTyped /\ CallsTyped /\ Sound /\ \A j \in Jobs : Stack(j) /\ Kept(j)
BY DEF IInv, TypeOK, RegistryTyped, CallsTyped

\* Such a step keeps the invariant: what other jobs have ensured stays, and their
\* tags too if they are the only ones to set them (push.go:23-166).
LEMMA EffectKeeps ==
    ASSUME NEW j \in Jobs, IInv, Effect(j)
    PROVE  RegistryTyped' /\ CallsTyped' /\ Sound' /\ \A x \in Jobs : Stack(x)' /\ Kept(x)'
<1>1. CallsTyped /\ \A x \in Jobs : Stack(x) /\ Kept(x)
    BY Parts
<1>2. PICK q \in Seq(Frames) : calls' = [calls EXCEPT ![j] = q]
    BY DEF Effect
<1>3. PICK v \in {"waiting", "running", "ok", "failed"} : status' = [status EXCEPT ![j] = v]
    BY DEF Effect
<1>4. CallsTyped'
    BY <1>1, <1>2, <1>3 DEF CallsTyped
<1>5. ASSUME NEW x \in Jobs PROVE Stack(x)'
  <2>1. CASE x = j
      BY <2>1 DEF Effect
  <2>2. CASE x # j
    <3>1. calls'[x] = calls[x] /\ Grown
        BY <2>2, <1>1, <1>2 DEF CallsTyped, Effect
    <3> QED BY <3>1, <1>1, OthersKeep
  <2> QED BY <2>1, <2>2
<1>6. ASSUME NEW x \in Jobs PROVE Kept(x)'
  <2>1. CASE x = j
      BY <2>1 DEF Effect, Kept
  <2>2. CASE x # j
    <3> SUFFICES ASSUME status'[x] = "ok"
                 PROVE  /\ Task[x].digest \in has'[Task[x].repo]
                        /\ Task[x].tag # None /\ (\A i \in Jobs \ {x} : Task[i].tag # Task[x].tag)
                               => tagged'[<<Task[x].repo, Task[x].tag>>] = Task[x].digest
        BY DEF Kept
    <3>1. status[x] = "ok"
        BY <2>2, <1>1, <1>3 DEF CallsTyped
    <3>2. Task[x].digest \in has'[Task[x].repo]
        BY <3>1, <1>1, TaskFacts DEF Kept, Effect, Grown
    <3>3. ASSUME Task[x].tag # None, \A i \in Jobs \ {x} : Task[i].tag # Task[x].tag
          PROVE  tagged'[<<Task[x].repo, Task[x].tag>>] = Task[x].digest
      <4>1. tagged[<<Task[x].repo, Task[x].tag>>] = Task[x].digest
          BY <3>1, <3>3, <1>1 DEF Kept
      <4>2. Task[j].tag # Task[x].tag
          BY <2>2, <3>3
      <4>3. <<Task[x].repo, Task[x].tag>> \in Repos \X Tags
          BY <3>3, TaskFacts
      <4> QED BY <4>1, <4>2, <4>3 DEF Effect
    <3> QED BY <3>2, <3>3
  <2> QED BY <2>1, <2>2
<1> QED BY <1>4, <1>5, <1>6 DEF Effect

\* A registry that a step leaves alone is as it was.
LEMMA SameRegistry ==
    ASSUME RegistryTyped, Sound, UNCHANGED <<has, tagged>>
    PROVE  RegistryTyped' /\ Sound' /\ Grown
BY DEF RegistryTyped, Sound, Grown, Closed

\* A job that fails has no calls left (push.go:56, 103-125, 139-158).
LEMMA FailEffect ==
    ASSUME NEW j \in Jobs, IInv, Fail(j), status[j] \in {"waiting", "running"}
    PROVE  Effect(j)
<1>1. RegistryTyped /\ CallsTyped /\ Sound
    BY Parts
<1>2. /\ status' = [status EXCEPT ![j] = "failed"] /\ calls' = [calls EXCEPT ![j] = <<>>]
      /\ UNCHANGED <<has, tagged>>
    BY DEF Fail
<1>3. calls'[j] = <<>> /\ status'[j] = "failed" /\ <<>> \in Seq(Frames)
    BY <1>1, <1>2 DEF CallsTyped
<1>4. Stack(j)'
    BY <1>3, EmptyStack
<1>5. RegistryTyped' /\ Sound' /\ Grown
    BY <1>1, <1>2, SameRegistry
<1> QED BY <1>2, <1>3, <1>4, <1>5 DEF Effect

\* A call returns without an error when its object is there, and its tag says so
\* (push.go:63, 165).
LEMMA ReturnEffect ==
    ASSUME NEW j \in Jobs, IInv, status[j] = "running", calls[j] # <<>>, Return(j),
           RegistryTyped', Sound', Grown,
           Top(j).digest \in has'[Task[j].repo],
           Top(j).tag # None => tagged'[<<Task[j].repo, Top(j).tag>>] = Top(j).digest,
           \A k \in Repos \X Tags : k # <<Task[j].repo, Top(j).tag>> => tagged'[k] = tagged[k]
    PROVE  Effect(j) /\ (Len(calls[j]) = 1 => status'[j] = "ok")
<1> DEFINE n == Len(calls[j])
           q == SubSeq(calls[j], 1, n - 1)
<1>1. CallsTyped /\ Stack(j)
    BY Parts
<1>2. n \in Nat \ {0} /\ calls[j] \in Seq(Frames) /\ Top(j) = calls[j][n]
    BY <1>1, TopFacts DEF CallsTyped
<1>3. q \in Seq(Frames)
    BY <1>2
<1>4. /\ calls' = [calls EXCEPT ![j] = q]
      /\ status' = IF n = 1 THEN [status EXCEPT ![j] = "ok"] ELSE status
    BY DEF Return
<1>5. status' = [status EXCEPT ![j] = IF n = 1 THEN "ok" ELSE "running"]
    BY <1>1, <1>4 DEF CallsTyped
<1>6. calls'[j] = q
    BY <1>1, <1>4 DEF CallsTyped
<1>7. Stack(j)'
    BY <1>1, <1>6, PopStack
<1>8. \A k \in Repos \X Tags : k # <<Task[j].repo, Task[j].tag>> => tagged'[k] = tagged[k]
  <2>1. CASE Top(j).tag = None
    <3>1. \A k \in Repos \X Tags : k # <<Task[j].repo, None>>
        BY PushAssumption
    <3> QED BY <2>1, <3>1
  <2>2. CASE Top(j).tag # None
    <3>1. Top(j).tag = Task[j].tag
        BY <2>2, <1>1, TagOfTop
    <3> QED BY <3>1
  <2> QED BY <2>1, <2>2
<1>9. status'[j] = IF n = 1 THEN "ok" ELSE "running"
    BY <1>1, <1>5 DEF CallsTyped
<1>10. n = 1 => Top(j).digest = Task[j].digest /\ Top(j).tag = Task[j].tag
    BY <1>1, <1>2 DEF Stack, Outermost
<1>11. status'[j] = "ok" =>
           /\ Task[j].digest \in has'[Task[j].repo]
           /\ Task[j].tag # None => tagged'[<<Task[j].repo, Task[j].tag>>] = Task[j].digest
    BY <1>9, <1>10
<1>12. \E v \in {"waiting", "running", "ok", "failed"} : status' = [status EXCEPT ![j] = v]
    BY <1>5
<1> QED BY <1>3, <1>4, <1>7, <1>8, <1>9, <1>11, <1>12 DEF Effect

\* The innermost call moves on, or has another child behind it
\* (push.go:54-76, 135-151).
LEMMA TopEffect ==
    ASSUME NEW j \in Jobs, IInv, status[j] = "running", calls[j] # <<>>, UNCHANGED status,
           RegistryTyped', Sound', Grown, UNCHANGED tagged,
           NEW f \in Frames,
           NEW q \in Seq(Frames), calls' = [calls EXCEPT ![j] = q],
           Len(q) = Len(calls[j]), \A i \in 1..Len(calls[j]) :
                                       q[i] = IF i = Len(calls[j]) THEN f ELSE calls[j][i],
           f.digest = Top(j).digest, f.tag = Top(j).tag, f.fallback = Top(j).fallback,
           \A k \in DOMAIN ChildList[f.digest] :
               k < f.child => ChildList[f.digest][k] \in has'[Task[j].repo]
    PROVE  Effect(j)
<1>1. CallsTyped /\ Stack(j)
    BY Parts
<1>2. calls'[j] = q /\ DOMAIN q = DOMAIN calls[j]
  <2>1. DOMAIN calls[j] = 1..Len(calls[j]) /\ DOMAIN q = 1..Len(q)
      BY <1>1, TopFacts
  <2> QED BY <2>1, <1>1 DEF CallsTyped
<1>3. Stack(j)'
    BY <1>1, <1>2, TopMoves
<1>4. status' = [status EXCEPT ![j] = "running"] /\ status'[j] = "running"
    BY <1>1 DEF CallsTyped
<1> QED BY <1>3, <1>4 DEF Effect

(***************************************************************************)
(* Each step does just that.                                               *)
(***************************************************************************)

\* The children that the innermost call has behind it are there.
LEMMA TopDone ==
    ASSUME NEW j \in Jobs, CallsTyped, Stack(j), calls[j] # <<>>
    PROVE  \A k \in DOMAIN ChildList[Top(j).digest] :
               k < Top(j).child => ChildList[Top(j).digest][k] \in has[Task[j].repo]
<1>1. Len(calls[j]) \in DOMAIN calls[j] /\ ~(Len(calls[j]) < Len(calls[j]))
      /\ Top(j) = calls[j][Len(calls[j])]
    BY TopFacts
<1> QED BY <1>1 DEF Stack, Done

\* The innermost call goes from one place to another (push.go:54-78).
LEMMA MoveEffect ==
    ASSUME NEW j \in Jobs, IInv, NEW place \in {"head", "push", "children"},
           status[j] = "running", calls[j] # <<>>, Move(j, place), UNCHANGED <<has, tagged, status>>
    PROVE  Effect(j)
<1> DEFINE n == Len(calls[j])
           f == [Top(j) EXCEPT !.at = place]
           q == [calls[j] EXCEPT ![n] = f]
<1>1. CallsTyped /\ Stack(j) /\ RegistryTyped /\ Sound
    BY Parts
<1>2. /\ n \in 1..n /\ calls[j] \in Seq(Frames) /\ Top(j) = calls[j][n] /\ Top(j) \in Frames
      /\ DOMAIN calls[j] = 1..n
    BY <1>1, TopFacts DEF CallsTyped
<1>3. /\ f \in Frames /\ f.digest = Top(j).digest /\ f.tag = Top(j).tag
      /\ f.fallback = Top(j).fallback /\ f.child = Top(j).child
    BY <1>2 DEF Frames
<1>4. q \in Seq(Frames) /\ Len(q) = n /\ \A i \in 1..n : q[i] = IF i = n THEN f ELSE calls[j][i]
  <2> HIDE DEF f
  <2> QED BY <1>2, <1>3
<1>5. calls' = [calls EXCEPT ![j] = q]
    BY DEF Move, Top
<1>6. RegistryTyped' /\ Sound' /\ Grown
    BY <1>1, SameRegistry
<1>7. \A k \in DOMAIN ChildList[f.digest] : k < f.child => ChildList[f.digest][k] \in has'[Task[j].repo]
    BY <1>1, <1>3, TopDone
<1> HIDE DEF f, q
<1> QED BY <1>3, <1>4, <1>5, <1>6, <1>7, TopEffect

\* A blob is there once it has been pushed or copied (input.go:288-293).
LEMMA StartBlobEffect ==
    ASSUME NEW j \in Jobs, IInv, StartBlob(j)
    PROVE  Effect(j)
<1>1. CallsTyped /\ Stack(j) /\ RegistryTyped /\ Sound
    BY Parts
<1>2. status[j] = "waiting" /\ Task[j].digest \notin Manifests
    BY DEF StartBlob
<1>3. CASE Fail(j)
    BY <1>2, <1>3, FailEffect
<1>4. CASE Put(Task[j].repo, Task[j].digest, None) /\ UNCHANGED calls
           /\ status' = [status EXCEPT ![j] = "ok"]
  <2>1. Takes(Task[j].repo, Task[j].digest)
      BY <1>2, TaskFacts, BlobFacts DEF Takes
  <2>2. /\ RegistryTyped' /\ Sound' /\ Grown /\ tagged' = tagged
        /\ Task[j].digest \in has'[Task[j].repo]
      BY <1>1, <1>4, <2>1, TaskFacts, PutFacts
  <2>3. calls[j] \in Seq(Frames) /\ calls' = [calls EXCEPT ![j] = calls[j]]
      BY <1>1, <1>4 DEF CallsTyped
  <2>4. Stack(j)'
      BY <1>1, <1>4, <2>2, OthersKeep
  <2>5. Task[j].tag = None
      BY <1>2, TaskFacts
  <2> QED BY <1>2, <1>4, <2>2, <2>3, <2>4, <2>5 DEF Effect
<1> QED BY <1>3, <1>4 DEF StartBlob

\* A manifest is ensured by its first call (input.go:280-286).
LEMMA StartManifestEffect ==
    ASSUME NEW j \in Jobs, IInv, StartManifest(j)
    PROVE  Effect(j)
<1> DEFINE f == Call(Task[j].digest, Task[j].tag, Fallback(Task[j]))
           q == <<f>>
<1>1. CallsTyped /\ RegistryTyped /\ Sound
    BY Parts
<1>2. status[j] = "waiting" /\ Task[j].digest \in Manifests
    BY DEF StartManifest
<1>3. CASE Fail(j)
    BY <1>2, <1>3, FailEffect
<1>4. CASE /\ status' = [status EXCEPT ![j] = "running"] /\ UNCHANGED <<has, tagged>>
           /\ calls' = [calls EXCEPT ![j] = q]
  <2>1. f \in Frames /\ f.digest = Task[j].digest /\ f.tag = Task[j].tag
        /\ f.fallback = Fallback(Task[j]) /\ f.child = 1
      BY <1>2, TaskFacts DEF Call, Frames
  <2> HIDE DEF f
  <2>2. q \in Seq(Frames) /\ Len(q) = 1 /\ DOMAIN q = 1..1 /\ q[1] = f
      BY <2>1
  <2> HIDE DEF q
  <2>3. calls'[j] = q /\ status'[j] = "running"
      BY <1>1, <1>4 DEF CallsTyped
  <2>4. RegistryTyped' /\ Sound' /\ Grown
      BY <1>1, <1>4, SameRegistry
  <2>5. Outermost(j)'
      BY <2>1, <2>2, <2>3 DEF Outermost
  <2>6. Inner(j)' /\ Nested(j)'
    <3>1. 2..1 = {} /\ 1..(1 - 1) = {}
        OBVIOUS
    <3> QED BY <3>1, <2>2, <2>3 DEF Inner, Nested
  <2>7. Done(j)'
    <3> SUFFICES ASSUME NEW i \in 1..1, NEW k \in DOMAIN ChildList[q[i].digest],
                        k < (IF i < 1 THEN q[i].child - 1 ELSE q[i].child)
                 PROVE  ChildList[q[i].digest][k] \in has'[Task[j].repo]
        BY <2>2, <2>3 DEF Done
    <3>1. i = 1 /\ q[i] = f
        BY <2>2
    <3>2. k < 1
        BY <3>1, <2>1
    <3>3. k \in 1..Len(ChildList[f.digest]) /\ Len(ChildList[f.digest]) \in Nat
        BY <3>1, <2>1, TaskFacts, ListFacts
    <3> QED BY <3>2, <3>3
  <2>8. Stack(j)'
      BY <2>5, <2>6, <2>7 DEF Stack
  <2>9. \E v \in {"waiting", "running", "ok", "failed"} : status' = [status EXCEPT ![j] = v]
      BY <1>4
  <2> QED BY <1>2, <1>4, <2>2, <2>3, <2>4, <2>8, <2>9 DEF Effect
<1> QED BY <1>3, <1>4 DEF StartManifest

\* A HEAD that matches is taken for the object and all its children (push.go:47-65).
LEMMA HeadEffect ==
    ASSUME NEW j \in Jobs, IInv, HeadRequest(j)
    PROVE  Effect(j)
<1>1. CallsTyped /\ Stack(j) /\ RegistryTyped /\ Sound
    BY Parts
<1>2. status[j] = "running" /\ calls[j] # <<>> /\ UNCHANGED <<has, tagged>>
    BY DEF HeadRequest, At
<1>3. RegistryTyped' /\ Sound' /\ Grown
    BY <1>1, <1>2, SameRegistry
<1>4. CASE There(j) /\ Return(j)
  <2>1. Top(j).digest \in Digests /\ Top(j).tag \in Tags \cup {None} /\ Task[j].repo \in Repos
      BY <1>1, <1>2, TopFacts, TaskFacts
  <2>2. Top(j).tag # None => tagged[<<Task[j].repo, Top(j).tag>>] = Top(j).digest
      BY <1>4 DEF There
  <2>3. Top(j).digest \in has[Task[j].repo]
      BY <1>1, <1>4, <2>1, <2>2, PushAssumption DEF There, Sound
  <2> QED BY <1>2, <1>3, <1>4, <2>2, <2>3, ReturnEffect
<1>5. CASE Move(j, "push") /\ UNCHANGED status
    BY <1>2, <1>5, MoveEffect
<1> QED BY <1>4, <1>5 DEF HeadRequest

\* A manifest that the registry takes is there, with its tag (push.go:71, 153).
LEMMA PutEffect ==
    ASSUME NEW j \in Jobs, IInv, status[j] = "running", calls[j] # <<>>, Return(j),
           Takes(Task[j].repo, Top(j).digest), Put(Task[j].repo, Top(j).digest, Top(j).tag)
    PROVE  Effect(j) /\ (Top(j).tag # None => status'[j] = "ok")
<1>1. CallsTyped /\ Stack(j) /\ RegistryTyped /\ Sound
    BY Parts
<1>2. Top(j).digest \in Digests /\ Top(j).tag \in Tags \cup {None} /\ Task[j].repo \in Repos
    BY <1>1, TopFacts, TaskFacts
<1>3. /\ RegistryTyped' /\ Sound' /\ Grown
      /\ Top(j).digest \in has'[Task[j].repo]
      /\ Top(j).tag # None => tagged'[<<Task[j].repo, Top(j).tag>>] = Top(j).digest
      /\ \A k \in Repos \X Tags : k # <<Task[j].repo, Top(j).tag>> => tagged'[k] = tagged[k]
    BY <1>1, <1>2, PutFacts
<1>4. Effect(j) /\ (Len(calls[j]) = 1 => status'[j] = "ok")
    BY <1>3, ReturnEffect
<1> QED BY <1>1, <1>4, TagOfTop

\* A manifest is pushed, or its children are needed first (push.go:71-78).
LEMMA PushManifestEffect ==
    ASSUME NEW j \in Jobs, IInv, PushManifest(j)
    PROVE  Effect(j) /\ (tagged' = tagged \/ status'[j] = "ok")
<1>1. CallsTyped /\ status[j] = "running" /\ calls[j] # <<>>
    BY Parts DEF PushManifest, At
<1>2. CASE /\ Takes(Task[j].repo, Top(j).digest) /\ Return(j)
           /\ Put(Task[j].repo, Top(j).digest, Top(j).tag)
    BY <1>1, <1>2, PutEffect DEF Put
<1>3. CASE Move(j, "children") /\ UNCHANGED <<has, tagged, status>>
    BY <1>1, <1>3, MoveEffect
<1> QED BY <1>2, <1>3 DEF PushManifest

\* A child that is a manifest is called, or it is nowhere to be found
\* (push.go:98-128).
LEMMA ChildManifestEffect ==
    ASSUME NEW j \in Jobs, IInv, ChildManifest(j)
    PROVE  Effect(j) /\ tagged' = tagged /\ (status'[j] = "failed" => ~Able(j))
<1> DEFINE f == Advanced(j)
           c == Call(Child(j), ChildTag(j), ChildFrom(j))
           q == Callers(j) \o <<f, c>>
<1>1. CallsTyped /\ Stack(j) /\ RegistryTyped /\ Sound
    BY Parts
<1>2. status[j] = "running" /\ HasChild(j) /\ Child(j) \in Manifests /\ UNCHANGED <<has, tagged>>
    BY DEF ChildManifest, HasChild, At, Fail
<1>3. CASE Child(j) \notin has[Source(j)] /\ Fail(j)
    BY <1>1, <1>2, <1>3, FailEffect, SourceTold DEF Able
<1>4. CASE calls' = [calls EXCEPT ![j] = q] /\ UNCHANGED status
  <2>1. RegistryTyped' /\ Sound' /\ Grown
      BY <1>1, <1>2, SameRegistry
  <2>2. calls'[j] = Callers(j) \o <<f, c>>
      BY <1>1, <1>4 DEF CallsTyped
  <2>3. c = Call(Child(j), None, Source(j))
      BY DEF ChildTag, ChildFrom
  <2>4. Stack(j)' /\ calls'[j] \in Seq(Frames)
    <3> HIDE DEF c, f
    <3>1. f = Advanced(j)
        BY DEF f
    <3> QED BY <3>1, <1>1, <1>2, <2>1, <2>2, <2>3, PushStack
  <2>5. q \in Seq(Frames)
      BY <2>2, <2>4
  <2>6. status' = [status EXCEPT ![j] = "running"] /\ status'[j] = "running"
      BY <1>1, <1>2, <1>4 DEF CallsTyped
  <2> HIDE DEF q
  <2> QED BY <1>2, <1>4, <2>1, <2>4, <2>5, <2>6 DEF Effect
<1> QED BY <1>2, <1>3, <1>4 DEF ChildManifest

\* A child that is a blob is pushed or copied, or it is nowhere to be found
\* (push.go:130-151).
LEMMA ChildBlobEffect ==
    ASSUME NEW j \in Jobs, IInv, ChildBlob(j)
    PROVE  Effect(j) /\ tagged' = tagged /\ (status'[j] = "failed" => ~Able(j))
<1> DEFINE f == Advanced(j)
           q == Append(Callers(j), f)
           n == Len(calls[j])
<1>1. CallsTyped /\ Stack(j) /\ RegistryTyped /\ Sound
    BY Parts
<1>2. /\ status[j] = "running" /\ calls[j] # <<>> /\ HasChild(j) /\ Child(j) \notin Manifests
      /\ Child(j) \in Children(Top(j).digest) /\ Top(j).digest \in Digests /\ Task[j].repo \in Repos
    BY <1>1, SourceTold, TopFacts, TaskFacts DEF ChildBlob, HasChild, At
<1>3. CASE ~(Source(j) # Task[j].repo /\ Child(j) \in has[Source(j)]) /\ Fail(j)
    BY <1>1, <1>2, <1>3, FailEffect, SourceTold DEF Able, Fail
<1>4. CASE Put(Task[j].repo, Child(j), None) /\ calls' = [calls EXCEPT ![j] = q] /\ UNCHANGED status
  <2>1. Child(j) \in Digests /\ Takes(Task[j].repo, Child(j))
      BY <1>2, ListFacts, BlobFacts DEF Takes
  <2>2. RegistryTyped' /\ Sound' /\ Grown /\ tagged' = tagged /\ Child(j) \in has'[Task[j].repo]
      BY <1>1, <1>2, <1>4, <2>1, PutFacts
  <2>3. /\ n \in 1..n /\ n \in Nat \ {0} /\ calls[j] \in Seq(Frames) /\ Top(j) = calls[j][n]
        /\ Top(j) \in Frames
      BY <1>1, <1>2, TopFacts DEF CallsTyped
  <2>4. /\ f \in Frames /\ f.digest = Top(j).digest /\ f.tag = Top(j).tag
        /\ f.fallback = Top(j).fallback /\ f.child = Top(j).child + 1
      BY <2>3, FrameAdvances DEF Advanced
  <2>5. Callers(j) \in Seq(Frames) /\ Len(Callers(j)) = n - 1
        /\ \A i \in 1..(n - 1) : Callers(j)[i] = calls[j][i]
      BY <2>3 DEF Callers
  <2> HIDE DEF f, n
  <2>6. q \in Seq(Frames) /\ Len(q) = n /\ \A i \in 1..n : q[i] = IF i = n THEN f ELSE calls[j][i]
    <3>1. q \in Seq(Frames) /\ Len(q) = n /\ q[n] = f /\ \A i \in 1..(n - 1) : q[i] = Callers(j)[i]
        BY <2>3, <2>4, <2>5
    <3>2. \A i \in 1..n : i = n \/ i \in 1..(n - 1)
        BY <2>3
    <3> HIDE DEF q
    <3> QED BY <3>1, <3>2, <2>5
  <2> HIDE DEF q
  <2>7. \A k \in DOMAIN ChildList[f.digest] : k < f.child => ChildList[f.digest][k] \in has'[Task[j].repo]
    <3> SUFFICES ASSUME NEW k \in DOMAIN ChildList[Top(j).digest], k < Top(j).child + 1
                 PROVE  ChildList[Top(j).digest][k] \in has'[Task[j].repo]
        BY <2>4
    <3>1. k \in Nat /\ Top(j).child \in Nat
        BY <1>2, <2>3, ListFacts DEF Frames
    <3>2. k < Top(j).child \/ k = Top(j).child
        BY <3>1
    <3>3. CASE k < Top(j).child
        BY <3>3, <1>1, <1>2, <2>2, TopDone DEF Grown
    <3>4. CASE k = Top(j).child
        BY <3>4, <2>2 DEF Child
    <3> QED BY <3>2, <3>3, <3>4
  <2>8. Effect(j)
      BY <1>2, <1>4, <2>2, <2>4, <2>6, <2>7, TopEffect DEF n
  <2> QED BY <2>2, <2>8, <1>2, <1>4
<1> QED BY <1>3, <1>4 DEF ChildBlob

\* Once all the children are there the registry takes the manifest: the second
\* attempt does not fail for want of a child (push.go:153-156).
LEMMA PushAgainEffect ==
    ASSUME NEW j \in Jobs, IInv, PushAgain(j)
    PROVE  Effect(j) /\ (tagged' = tagged \/ status'[j] = "ok") /\ ~Fail(j)
<1>1. CallsTyped /\ Stack(j)
    BY Parts
<1>2. /\ status[j] = "running" /\ calls[j] # <<>> /\ Top(j).child \notin DOMAIN ChildList[Top(j).digest]
      /\ Top(j).digest \in Digests /\ Top(j) \in Frames
    BY <1>1, TopFacts DEF PushAgain, HasChild, At
<1>3. \A k \in DOMAIN ChildList[Top(j).digest] : k < Top(j).child
  <2> SUFFICES ASSUME NEW k \in DOMAIN ChildList[Top(j).digest] PROVE k < Top(j).child
      OBVIOUS
  <2>1. Top(j).child \in Nat \ {0}
      BY <1>2 DEF Frames
  <2>2. DOMAIN ChildList[Top(j).digest] = 1..Len(ChildList[Top(j).digest])
        /\ Len(ChildList[Top(j).digest]) \in Nat
      BY <1>2, ListFacts
  <2> QED BY <1>2, <2>1, <2>2
<1>4. Takes(Task[j].repo, Top(j).digest)
  <2> SUFFICES ASSUME NEW c \in Children(Top(j).digest) PROVE c \in has[Task[j].repo]
      BY DEF Takes
  <2>1. PICK k \in DOMAIN ChildList[Top(j).digest] : c = ChildList[Top(j).digest][k]
      BY <1>2, ListFacts
  <2> QED BY <2>1, <1>1, <1>2, <1>3, TopDone
<1>5. Put(Task[j].repo, Top(j).digest, Top(j).tag) /\ Return(j)
    BY <1>4 DEF PushAgain
<1>6. Effect(j) /\ (Top(j).tag # None => status'[j] = "ok")
    BY <1>2, <1>4, <1>5, PutEffect
<1>7. Top(j).tag = None => tagged' = tagged
    BY <1>5 DEF Put
<1>8. ~Fail(j)
  <2>1. status' = [status EXCEPT ![j] = "ok"] \/ status' = status
      BY <1>5 DEF Return
  <2> QED BY <2>1, <1>1, <1>2 DEF Fail, CallsTyped
<1> QED BY <1>6, <1>7, <1>8

\* If the answer is lost the manifest is there all the same (push.go:71, 153-158).
LEMMA AnswerLostEffect ==
    ASSUME NEW j \in Jobs, IInv, AnswerLost(j)
    PROVE  Effect(j)
<1>1. CallsTyped /\ Stack(j) /\ RegistryTyped /\ Sound
    BY Parts
<1>2. /\ status[j] = "running" /\ calls[j] # <<>>
      /\ Takes(Task[j].repo, Top(j).digest) /\ Put(Task[j].repo, Top(j).digest, Top(j).tag)
      /\ status' = [status EXCEPT ![j] = "failed"] /\ calls' = [calls EXCEPT ![j] = <<>>]
    BY DEF AnswerLost, At
<1>3. Top(j).digest \in Digests /\ Top(j).tag \in Tags \cup {None} /\ Task[j].repo \in Repos
    BY <1>1, <1>2, TopFacts, TaskFacts
<1>4. /\ RegistryTyped' /\ Sound' /\ Grown
      /\ \A k \in Repos \X Tags : k # <<Task[j].repo, Top(j).tag>> => tagged'[k] = tagged[k]
      /\ Top(j).tag = None => tagged' = tagged
    BY <1>1, <1>2, <1>3, PutFacts
<1>5. \A k \in Repos \X Tags : k # <<Task[j].repo, Task[j].tag>> => tagged'[k] = tagged[k]
    BY <1>1, <1>2, <1>4, TagOfTop
<1>6. calls'[j] = <<>> /\ status'[j] = "failed" /\ <<>> \in Seq(Frames)
    BY <1>1, <1>2 DEF CallsTyped
<1>7. Stack(j)'
    BY <1>6, EmptyStack
<1> QED BY <1>2, <1>4, <1>5, <1>6, <1>7 DEF Effect

(***************************************************************************)
(* The theorems.                                                           *)
(***************************************************************************)

\* At first no job has started, and the registry has what it has (input.go:278).
LEMMA InitInv == Init => IInv
<1> SUFFICES ASSUME Init PROVE IInv
    OBVIOUS
<1>1. calls \in [Jobs -> Seq(Frames)] /\ \A j \in Jobs : calls[j] = <<>>
    BY DEF Init
<1>2. status \in [Jobs -> {"waiting", "running", "ok", "failed"}]
      /\ \A j \in Jobs : status[j] = "waiting"
    BY DEF Init
<1>3. RegistryTyped /\ CallsTyped
    BY <1>1, <1>2 DEF Init, RegistryTyped, CallsTyped
<1>4. Sound
    BY DEF Init, Sound
<1>5. ASSUME NEW j \in Jobs PROVE Stack(j) /\ Kept(j)
  <2>1. Len(calls[j]) = 0 /\ DOMAIN calls[j] = 1..0 /\ calls[j] = <<>>
      BY <1>1
  <2>2. Inner(j) /\ Nested(j)
      BY <2>1 DEF Inner, Nested
  <2>3. Outermost(j) /\ Done(j)
      BY <2>1 DEF Outermost, Done
  <2> QED BY <2>2, <2>3, <1>2 DEF Stack, Kept
<1> QED BY <1>3, <1>4, <1>5, Parts

\* Every step of a job goes on in order (push.go:23-166, input.go:278-299).
LEMMA StepEffect ==
    ASSUME NEW j \in Jobs, IInv, Step(j)
    PROVE  Effect(j)
<1>1. CASE RequestFails(j)
    BY <1>1, FailEffect DEF RequestFails
<1>2. CASE StartBlob(j)
    BY <1>2, StartBlobEffect
<1>3. CASE StartManifest(j)
    BY <1>3, StartManifestEffect
<1>4. CASE HeadRequest(j)
    BY <1>4, HeadEffect
<1>5. CASE PushManifest(j)
    BY <1>5, PushManifestEffect
<1>6. CASE ChildManifest(j)
    BY <1>6, ChildManifestEffect
<1>7. CASE ChildBlob(j)
    BY <1>7, ChildBlobEffect
<1>8. CASE PushAgain(j)
    BY <1>8, PushAgainEffect
<1>9. CASE AnswerLost(j)
    BY <1>9, AnswerLostEffect
<1> QED BY <1>1, <1>2, <1>3, <1>4, <1>5, <1>6, <1>7, <1>8, <1>9 DEF Step

\* So does every step of the whole.
LEMMA NextInv == IInv /\ [Next]_vars => IInv'
<1> SUFFICES ASSUME IInv, [Next]_vars
             PROVE  RegistryTyped' /\ CallsTyped' /\ Sound' /\ \A x \in Jobs : Stack(x)' /\ Kept(x)'
  <2>1. RegistryTyped' /\ CallsTyped' /\ Sound' /\ (\A x \in Jobs : Stack(x)' /\ Kept(x)') => IInv'
      BY DEF IInv, TypeOK, RegistryTyped, CallsTyped
  <2> QED BY <2>1
<1>1. CASE \E j \in Jobs : Step(j)
  <2>1. PICK j \in Jobs : Step(j)
      BY <1>1
  <2>2. Effect(j)
      BY <2>1, StepEffect
  <2> QED BY <2>2, EffectKeeps
<1>2. CASE UNCHANGED vars
  <2>1. UNCHANGED <<has, tagged, status, calls>>
      BY <1>2 DEF vars
  <2>2. RegistryTyped /\ CallsTyped /\ Sound /\ \A j \in Jobs : Stack(j) /\ Kept(j)
      BY Parts
  <2>3. RegistryTyped' /\ CallsTyped' /\ Sound' /\ Grown
      BY <2>1, <2>2, SameRegistry DEF CallsTyped
  <2>4. \A x \in Jobs : Stack(x)'
      BY <2>1, <2>2, <2>3, OthersKeep
  <2>5. \A x \in Jobs : Kept(x)'
      BY <2>1, <2>2 DEF Kept
  <2> QED BY <2>3, <2>4, <2>5
<1> QED BY <1>1, <1>2 DEF Next, Finished

\* The invariant holds in every state that the jobs reach (push.go:23-166).
LEMMA Invariant == Spec => []IInv
BY InitInv, NextInv, PTL DEF Spec

\* The registry and the stacks have their types (push.go:23-45).
THEOREM TypeCorrect == Spec => []TypeOK
<1>1. IInv => TypeOK
    BY DEF IInv
<1> QED BY <1>1, Invariant, PTL

\* A job that returned without an error has left its object and all that is below
\* it, at whatever depth, and its tag if nobody else sets it: a HEAD that matched
\* is as good as a push, for the registry has no manifest without its children
\* (push.go:22, 47-66).
THEOREM AllIsEnsured == Spec => []Ensured
<1>1. IInv => Ensured
  <2> SUFFICES ASSUME IInv, NEW j \in Jobs, status[j] = "ok"
               PROVE  /\ {Task[j].digest} \cup Below(Task[j].digest) \subseteq has[Task[j].repo]
                      /\ Task[j].tag # None /\ (\A i \in Jobs \ {j} : Task[i].tag # Task[j].tag)
                             => tagged[<<Task[j].repo, Task[j].tag>>] = Task[j].digest
      BY DEF Ensured
  <2>1. RegistryTyped /\ Sound /\ Kept(j)
      BY Parts
  <2>2. Task[j].repo \in Repos /\ Task[j].digest \in Digests
      BY TaskFacts
  <2>3. Task[j].digest \in has[Task[j].repo]
      BY <2>1 DEF Kept
  <2>4. has[Task[j].repo] \in SUBSET Digests /\ Closed(has[Task[j].repo])
      BY <2>1, <2>2 DEF RegistryTyped, Sound
  <2>5. Children(Task[j].digest) \subseteq has[Task[j].repo]
      BY <2>3, <2>4 DEF Closed
  <2>6. Below(Task[j].digest) \subseteq has[Task[j].repo]
      BY <2>2, <2>4, <2>5, BelowFacts
  <2> QED BY <2>1, <2>3, <2>6 DEF Kept
<1> QED BY <1>1, Invariant, PTL

\* Whose task a tag is, and when it moves: with the last answer of the outermost
\* call, which ends the job (push.go:71, 84-88, 153).
LEMMA TagMoves ==
    ASSUME NEW j \in Jobs, IInv, Step(j), NEW k \in Repos \X Tags, tagged'[k] # tagged[k]
    PROVE  /\ <<Task[j].repo, Task[j].tag>> = k /\ Task[j].digest = tagged'[k]
           /\ status[j] = "running"
           /\ status'[j] = "ok" \/ (status'[j] = "failed" /\ j \in MayFail)
<1>1. CallsTyped /\ Stack(j) /\ RegistryTyped /\ Sound
    BY Parts
<1>2. <<Task[j].repo, Task[j].tag>> = k /\ Task[j].tag # None
  <2>1. <<Task[j].repo, Task[j].tag>> = k
      BY StepEffect DEF Effect
  <2> QED BY <2>1, PushAssumption
<1>3. Effect(j)
    BY StepEffect
<1>4. CASE PushManifest(j) \/ PushAgain(j)
  <2>1. status'[j] = "ok" /\ status[j] = "running"
      BY <1>4, PushManifestEffect, PushAgainEffect DEF PushManifest, PushAgain, At
  <2> QED BY <2>1, <1>2, <1>3 DEF Effect
<1>5. CASE AnswerLost(j)
  <2>1. /\ status[j] = "running" /\ calls[j] # <<>> /\ j \in MayFail
        /\ Takes(Task[j].repo, Top(j).digest) /\ Put(Task[j].repo, Top(j).digest, Top(j).tag)
        /\ status' = [status EXCEPT ![j] = "failed"]
      BY <1>5 DEF AnswerLost, At
  <2>2. Top(j).digest \in Digests /\ Top(j).tag \in Tags \cup {None} /\ Task[j].repo \in Repos
      BY <1>1, <2>1, TopFacts, TaskFacts
  <2>3. Top(j).tag # None /\ tagged'[<<Task[j].repo, Top(j).tag>>] = Top(j).digest
      BY <1>1, <2>1, <2>2, PutFacts
  <2>4. Top(j).tag = Task[j].tag /\ Top(j).digest = Task[j].digest
      BY <1>1, <2>1, <2>3, TagOfTop
  <2> QED BY <1>1, <1>2, <2>1, <2>3, <2>4 DEF CallsTyped
<1>6. CASE \/ StartBlob(j) \/ StartManifest(j) \/ HeadRequest(j) \/ ChildManifest(j) \/ ChildBlob(j)
           \/ RequestFails(j)
    BY <1>6, ChildManifestEffect, ChildBlobEffect
       DEF StartBlob, StartManifest, HeadRequest, RequestFails, Fail, Put
<1> QED BY <1>4, <1>5, <1>6 DEF Step

\* A tag moves to the object of a job that was given that tag, never to a child of
\* it, and as the last thing the job does: whatever is refused or lost before leaves
\* it alone (push.go:71-76, 84-88, 153).
THEOREM TagsMoveLast == Spec => TagMovesLast
<1>1. IInv /\ [Next]_vars =>
        [\A k \in DOMAIN tagged : tagged'[k] # tagged[k] =>
            \E j \in Jobs : /\ <<Task[j].repo, Task[j].tag>> = k
                            /\ Task[j].digest = tagged'[k]
                            /\ status[j] = "running"
                            /\ status'[j] = "ok" \/ (status'[j] = "failed" /\ j \in MayFail)]_vars
  <2> SUFFICES ASSUME IInv, Next, NEW k \in DOMAIN tagged, tagged'[k] # tagged[k]
               PROVE  \E j \in Jobs : /\ <<Task[j].repo, Task[j].tag>> = k
                                      /\ Task[j].digest = tagged'[k]
                                      /\ status[j] = "running"
                                      /\ status'[j] = "ok" \/ (status'[j] = "failed" /\ j \in MayFail)
      BY DEF vars
  <2>1. k \in Repos \X Tags
      BY Parts DEF RegistryTyped
  <2>2. PICK j \in Jobs : Step(j)
      BY DEF Next, Finished, vars
  <2> QED BY <2>1, <2>2, TagMoves
<1> QED BY <1>1, Invariant, PTL DEF Spec, TagMovesLast

\* A job fails only when it has not been told where everything is, or what it has
\* been told is not true (push.go:22, input.go:280-293).
LEMMA FailsUnable ==
    ASSUME NEW j \in Jobs \ MayFail, IInv, Step(j), status[j] # "failed", status'[j] = "failed"
    PROVE  ~Able(j)
<1>1. CallsTyped
    BY Parts
<1>2. CASE StartBlob(j)
    BY <1>1, <1>2 DEF StartBlob, Able, CallsTyped
<1>3. CASE StartManifest(j)
    BY <1>1, <1>3 DEF StartManifest, Able, CallsTyped
<1>4. CASE ChildManifest(j)
    BY <1>4, ChildManifestEffect
<1>5. CASE ChildBlob(j)
    BY <1>5, ChildBlobEffect
<1>6. ~HeadRequest(j) /\ ~PushManifest(j)
    BY <1>1 DEF HeadRequest, PushManifest, Return, CallsTyped
<1>7. ~PushAgain(j)
  <2> SUFFICES ASSUME PushAgain(j) PROVE FALSE
      OBVIOUS
  <2>1. ~Fail(j)
      BY PushAgainEffect
  <2>2. Return(j)
      BY <2>1 DEF PushAgain
  <2> QED BY <2>2, <1>1 DEF Return, CallsTyped
<1> QED BY <1>2, <1>3, <1>4, <1>5, <1>6, <1>7 DEF Step, RequestFails, AnswerLost

\* A job whose requests do not fail otherwise, and that was told where its object,
\* or everything below it, is, does not fail: the recursion finds every child where
\* the nearest lookup says, and the second push has all it needs (push.go:22,
\* 98-165).
THEOREM NoFailureWithoutReason == Spec => FailsForAReason
<1>1. IInv /\ [Next]_vars =>
        [\A j \in Jobs \ MayFail :
            status[j] # "failed" /\ status'[j] = "failed" => ~Able(j)]_vars
  <2> SUFFICES ASSUME IInv, Next, NEW j \in Jobs \ MayFail,
                      status[j] # "failed", status'[j] = "failed"
               PROVE  ~Able(j)
      BY DEF vars
  <2>1. PICK x \in Jobs : Step(x)
      BY DEF Next, Finished, vars
  <2>2. x = j
    <3>1. Effect(x) /\ CallsTyped
        BY <2>1, StepEffect, Parts
    <3>2. PICK v \in {"waiting", "running", "ok", "failed"} : status' = [status EXCEPT ![x] = v]
        BY <3>1 DEF Effect
    <3> QED BY <3>1, <3>2 DEF CallsTyped
  <2> QED BY <2>1, <2>2, FailsUnable
<1> QED BY <1>1, Invariant, PTL DEF Spec, FailsForAReason
=============================================================================
