--------------------------- MODULE PipelineProofs ---------------------------
(***************************************************************************)
(* Proofs about Pipeline, for any builds and histories of them, any tags   *)
(* and any number of failures.                                             *)
(*                                                                         *)
(* A successful run leaves out what past-deploy.json has, without a look   *)
(* at the registry.  That is right because a tag still names what the last *)
(* successful run deployed to it unless a failed run has moved it since,   *)
(* which is what doubtful is for.  While a run goes on it may have moved   *)
(* tags as well; those name what the run's own deploy.json has for them,   *)
(* whichever push came last, as deploy.json has one index for a tag.       *)
(*                                                                         *)
(* What is in that index is what builds.json has (BuildsFollow), and that  *)
(* comes from the staging registry's list turn by turn (KeptSoFar).  What  *)
(* is about an image has an odd key, by one more than that of its image,   *)
(* so that a sort leaves nothing between the two but what has either key   *)
(* (BehindSubject).                                                        *)
(***************************************************************************)
EXTENDS Pipeline, FiniteSetTheorems, SequenceTheorems, WellFoundedInduction, TLAPS

\* objects with a tag in common agree, except where signatures are pushed to
Agreeing(objects) ==
    \A o, p \in objects : \A t \in o.refs \cap p.refs :
        t \in SignedTags(objects) \/ Content(o) = Content(p)

Tagged(objects) == \A o \in objects : o.refs \subseteq AllTags

\* builds.json comes from the sources
BuildsKnown ==
    /\ history \in Histories /\ version \in 1..Len(history)
    /\ \A i \in DOMAIN builds : builds[i].tags \subseteq AllTags

RunKnown ==
    /\ phase \in {"ok", "failed", "generated", "deploy"}
    /\ Tagged(deploy) /\ Agreeing(deploy) /\ Tagged(past)
    /\ DOMAIN tags = AllTags
    /\ phase = "ok" => deploy = past
    /\ phase = "generated" => moved = {}

\* a signature that may be pushed to a tag keeps it in doubt
SignedDoubted ==
    /\ SignedTags(past) \subseteq doubtful
    /\ ~Idle => SignedTags(deploy) \subseteq doubtful

\* what the last successful run deployed is where it was, unless this run, or
\* one that failed, has moved it
PastNamed ==
    \A o \in past : \A t \in o.refs :
        t \in doubtful \/ tags[t] = Content(o) \/ (~Idle /\ t \in moved)

\* what this run was to push it has pushed or is still to push, and what it
\* has pushed is there
MovedNamed ==
    phase = "deploy" =>
        /\ \A job \in todo : \E o \in deploy : \E t \in o.refs : job = <<o, t>>
        /\ \A o \in deploy : \A t \in o.refs : <<o, t>> \in todo \/ o \in past \/ t \in moved
        /\ \A t \in moved : \/ t \in SignedTags(deploy)
                            \/ \A o \in deploy : t \in o.refs => tags[t] = Content(o)

IInv == BuildsKnown /\ RunKnown /\ SignedDoubted /\ PastNamed /\ MovedNamed

-----------------------------------------------------------------------------

\* The digests of the index that a tag is to name.
IndexFor(bs, tag) == DigestList(SortAttestations(SortPlatforms(TaggedManifests(bs, tag))))

\* Each tag has one index (deploy.jq:37-88).
LEMMA IndexesAre ==
    ASSUME NEW bs
    PROVE  /\ \A e \in IndexEntries(bs) :
                 \E t \in Tags(bs) : e = Entry(t, IndexFor(bs, t))
           /\ \A t \in Tags(bs) : Entry(t, IndexFor(bs, t)) \in IndexEntries(bs)
<1> DEFINE list(t) == TaggedManifests(bs, t)
           sorted(t) == SortPlatforms(list(t))
           final(t) == SortAttestations(sorted(t))
<1> HIDE DEF list, sorted, final
<1>0. \A t, l : Entry(t, l).tag = t /\ Entry(t, l).list = l
  BY DEF Entry
<1>1. \A e \in Entries(bs) : \E t \in Tags(bs) : e.tag = t /\ e.list = list(t)
  BY <1>0 DEF Entries, list
<1>2. \A t \in Tags(bs) : Entry(t, list(t)) \in Entries(bs)
  BY DEF Entries, list
<1>3. \A e \in ByPlatform(bs) : \E t \in Tags(bs) : e.tag = t /\ e.list = sorted(t)
  BY <1>0, <1>1 DEF ByPlatform, sorted
<1>4. \A t \in Tags(bs) : Entry(t, sorted(t)) \in ByPlatform(bs)
  BY <1>0, <1>2 DEF ByPlatform, sorted
<1>5. \A e \in Sorted(bs) : \E t \in Tags(bs) : e.tag = t /\ e.list = final(t)
  BY <1>0, <1>3 DEF Sorted, final
<1>6. \A t \in Tags(bs) : Entry(t, final(t)) \in Sorted(bs)
  BY <1>0, <1>4 DEF Sorted, final
<1>7. \A t : DigestList(final(t)) = IndexFor(bs, t)
  BY DEF IndexFor, final, sorted, list
<1>8. \A e \in IndexEntries(bs) : \E t \in Tags(bs) : e = Entry(t, IndexFor(bs, t))
  BY <1>5, <1>7 DEF IndexEntries
<1>9. \A t \in Tags(bs) : Entry(t, IndexFor(bs, t)) \in IndexEntries(bs)
  BY <1>0, <1>6, <1>7 DEF IndexEntries
<1> QED  BY <1>8, <1>9

\* Tags that have the same index share an object.
LEMMA ObjectsAre ==
    ASSUME NEW bs
    PROVE  /\ \A o \in TaggedDeployObjects(bs) :
                 /\ o.type = "index" /\ \E t \in Tags(bs) : o.data = IndexFor(bs, t)
                 /\ \A t \in o.refs : t \in Tags(bs) /\ o.data = IndexFor(bs, t)
           /\ \A t \in Tags(bs) : \E o \in TaggedDeployObjects(bs) : t \in o.refs
<1>1. ASSUME NEW o \in TaggedDeployObjects(bs)
      PROVE  /\ o.type = "index" /\ \E t \in Tags(bs) : o.data = IndexFor(bs, t)
             /\ \A t \in o.refs : t \in Tags(bs) /\ o.data = IndexFor(bs, t)
  <2>1. PICK e \in IndexEntries(bs) :
          o = IndexObject({t \in Tags(bs) : Entry(t, e.list) \in IndexEntries(bs)}, e.list)
    BY DEF TaggedDeployObjects
  <2>2. /\ o.type = "index" /\ o.data = e.list
        /\ o.refs = {t \in Tags(bs) : Entry(t, e.list) \in IndexEntries(bs)}
    BY <2>1 DEF IndexObject
  <2>3. \E t \in Tags(bs) : e.list = IndexFor(bs, t)
    BY IndexesAre DEF Entry
  <2>4. ASSUME NEW t \in o.refs PROVE t \in Tags(bs) /\ o.data = IndexFor(bs, t)
    <3>1. Entry(t, e.list) \in IndexEntries(bs)
      BY <2>2
    <3>2. PICK u \in Tags(bs) : Entry(t, e.list) = Entry(u, IndexFor(bs, u))
      BY <3>1, IndexesAre
    <3>3. t = u /\ e.list = IndexFor(bs, u)
      BY <3>2 DEF Entry
    <3> QED  BY <2>2, <3>3
  <2> QED  BY <2>2, <2>3, <2>4
<1>2. ASSUME NEW t \in Tags(bs) PROVE \E o \in TaggedDeployObjects(bs) : t \in o.refs
  <2> DEFINE e == Entry(t, IndexFor(bs, t))
             o == IndexObject({u \in Tags(bs) : Entry(u, e.list) \in IndexEntries(bs)}, e.list)
  <2>1. e \in IndexEntries(bs) /\ e = Entry(t, e.list)
    BY IndexesAre DEF Entry
  <2> HIDE DEF e
  <2>2. o \in TaggedDeployObjects(bs)
    BY <2>1 DEF TaggedDeployObjects
  <2>3. t \in o.refs
    BY <2>1 DEF IndexObject
  <2> QED  BY <2>2, <2>3
<1> QED  BY <1>1, <1>2

\* deploy.jq makes of builds.json one index for each tag, and it makes no tag up
\* (deploy.jq:21-60).
LEMMA DeployJsonAgrees ==
    ASSUME NEW bs, \A i \in DOMAIN bs : bs[i].tags \subseteq AllTags
    PROVE  Agreeing(DeployJson(bs)) /\ Tagged(DeployJson(bs))
<1>1. ASSUME NEW o \in TaggedDeployObjects(bs), NEW t \in o.refs
      PROVE  Content(o) = [type |-> "index", data |-> IndexFor(bs, t)] /\ t \in Tags(bs)
  BY ObjectsAre DEF Content
<1>2. ASSUME NEW o \in DeploySignatures(bs)
      PROVE  o.type = "signature" /\ \E i \in DOMAIN bs : o.refs = bs[i].tags
  <2>1. PICK b \in ToSet(bs) : o \in {SignatureObject(b.tags, s) : s \in ToSet(b.prodSignatures)}
    BY DEF DeploySignatures
  <2>2. PICK s : o = SignatureObject(b.tags, s)
    BY <2>1
  <2> QED  BY <2>2 DEF SignatureObject, ToSet
<1>3. Agreeing(DeployJson(bs))
  <2> SUFFICES ASSUME NEW o \in DeployJson(bs), NEW p \in DeployJson(bs),
                      NEW t \in o.refs \cap p.refs, t \notin SignedTags(DeployJson(bs))
               PROVE  Content(o) = Content(p)
    BY DEF Agreeing
  <2>1. o.type # "signature" /\ p.type # "signature"
    BY DEF SignedTags
  <2>2. o \in TaggedDeployObjects(bs) /\ p \in TaggedDeployObjects(bs)
    BY <1>2, <2>1 DEF DeployJson
  <2> QED  BY <1>1, <2>2
<1>4. Tagged(DeployJson(bs))
  <2>1. Tags(bs) \subseteq AllTags
    BY DEF Tags, ToSet
  <2> QED  BY <1>1, <1>2, <2>1 DEF Tagged, DeployJson
<1> QED  BY <1>3, <1>4

\* The tags of builds.json are those of the sources it comes from.
LEMMA BuildsTags ==
    ASSUME NEW h \in Histories, NEW v \in 1..Len(h), NEW i \in DOMAIN BuildsJson(h[v])
    PROVE  BuildsJson(h[v])[i].tags \subseteq AllTags
<1>1. DOMAIN BuildsJson(h[v]) = DOMAIN h[v]
  BY DEF BuildsJson
<1>2. BuildsJson(h[v])[i].tags = h[v][i].tags
  BY <1>1 DEF BuildsJson, Resolve
<1>3. v \in DOMAIN h /\ i \in DOMAIN h[v]
  BY <1>1, PipelineAssumption
<1>4. h[v] \in ToSet(h) /\ h[v][i] \in ToSet(h[v])
  BY <1>3 DEF ToSet
<1> QED  BY <1>2, <1>4 DEF AllTags

\* The next run of cmd/builds keeps builds.json known (Jenkinsfile.meta).
LEMMA ChangeStep ==
    ASSUME IInv, Change PROVE IInv'
<1>1. BuildsKnown'
  <2>1. /\ history \in Histories /\ history' = history /\ version' = version + 1
        /\ version \in 1..Len(history) /\ version < Len(history) /\ Len(history) \in Nat
    BY PipelineAssumption DEF IInv, BuildsKnown, Change
  <2>2. version' \in 1..Len(history)
    BY <2>1
  <2>3. \A i \in DOMAIN builds' : builds'[i].tags \subseteq AllTags
    <3>1. CASE builds' = builds
      BY <3>1 DEF IInv, BuildsKnown
    <3>2. CASE builds' = BuildsJson(history[version'])
      BY <2>1, <2>2, <3>2, BuildsTags
    <3> QED  BY <3>1, <3>2 DEF Change
  <2> QED  BY <2>1, <2>2, <2>3 DEF BuildsKnown
<1>2. UNCHANGED runVars
  BY DEF Change
<1> QED
  BY <1>1, <1>2
  DEF IInv, RunKnown, SignedDoubted, PastNamed, MovedNamed, runVars, Idle, Tagged, Agreeing,
      SignedTags

\* A run makes its deploy.json (deploy.jq), and has moved nothing yet.
LEMMA GenerateStep ==
    ASSUME IInv, Generate PROVE IInv'
<1>1. /\ Idle /\ deploy' = DeployJson(builds) /\ phase' = "generated" /\ moved' = {}
      /\ doubtful' = doubtful \cup SignedTags(deploy')
      /\ UNCHANGED <<history, version, builds, past, todo, tags, failures>>
  BY DEF Generate
<1>2. Agreeing(deploy') /\ Tagged(deploy')
  <2>1. Agreeing(DeployJson(builds)) /\ Tagged(DeployJson(builds))
    BY DeployJsonAgrees DEF IInv, BuildsKnown
  <2> HIDE DEF DeployJson
  <2> QED  BY <1>1, <2>1
<1>3. BuildsKnown' /\ RunKnown' /\ MovedNamed'
  BY <1>1, <1>2 DEF IInv, BuildsKnown, RunKnown, MovedNamed, Tagged, Agreeing, SignedTags
<1>4. SignedDoubted' /\ PastNamed'
  BY <1>1 DEF IInv, SignedDoubted, PastNamed, SignedTags, Idle
<1> QED  BY <1>3, <1>4 DEF IInv

\* What is left out was deployed last time (Jenkinsfile.deploy:82-87).
LEMMA FilterStep ==
    ASSUME IInv, Filter PROVE IInv'
<1>1. /\ todo' = UNION {{<<o, t>> : t \in o.refs} : o \in Filtered}
      /\ phase = "generated" /\ phase' = "deploy" /\ moved = {}
      /\ UNCHANGED <<history, version, builds, deploy, past, tags, failures, moved, doubtful>>
  BY DEF Filter, IInv, RunKnown
<1>2. \A o \in deploy : \A t \in o.refs : <<o, t>> \in todo' \/ o \in past
  BY <1>1 DEF Filtered
<1>3. \A job \in todo' : \E o \in deploy : \E t \in o.refs : job = <<o, t>>
  BY <1>1 DEF Filtered
<1>4. MovedNamed'
  BY <1>1, <1>2, <1>3 DEF MovedNamed
<1>5. BuildsKnown' /\ RunKnown' /\ SignedDoubted' /\ PastNamed'
  BY <1>1 DEF IInv, BuildsKnown, RunKnown, SignedDoubted, PastNamed, Tagged, Agreeing,
              SignedTags, Idle
<1> QED  BY <1>4, <1>5 DEF IInv

\* A push moves its tag to what deploy.json has for it, whatever was pushed to
\* it before.
LEMMA PushStep ==
    ASSUME IInv, Push PROVE IInv'
<1>1. PICK job \in todo : /\ tags' = [tags EXCEPT ![job[2]] = Content(job[1])]
                          /\ todo' = todo \ {job}
                          /\ moved' = moved \cup {job[2]}
  BY DEF Push
<1>2. /\ phase = "deploy"
      /\ UNCHANGED <<history, version, builds, phase, deploy, past, failures, doubtful>>
  BY DEF Push
<1>0. PICK o \in deploy : \E t \in o.refs : job = <<o, t>>
  BY <1>2 DEF IInv, MovedNamed
<1>3. PICK t \in o.refs : job = <<o, t>>
  BY <1>0
<1>4. t \in AllTags /\ DOMAIN tags = AllTags
  BY DEF IInv, RunKnown, Tagged
<1>5. /\ tags'[t] = Content(o) /\ moved' = moved \cup {t} /\ DOMAIN tags' = AllTags
      /\ \A u \in AllTags \ {t} : tags'[u] = tags[u]
  BY <1>1, <1>3, <1>4
<1>6. BuildsKnown' /\ SignedDoubted'
  BY <1>2 DEF IInv, BuildsKnown, SignedDoubted, SignedTags, Idle
<1>7. RunKnown'
  BY <1>2, <1>5 DEF IInv, RunKnown, Tagged, Agreeing, SignedTags
<1>8. PastNamed'
  BY <1>2, <1>5 DEF IInv, PastNamed, RunKnown, Tagged, Idle
<1>9. MovedNamed'
  <2>1. \A j \in todo' : \E p \in deploy : \E u \in p.refs : j = <<p, u>>
    BY <1>1, <1>2 DEF IInv, MovedNamed
  <2>2. ASSUME NEW p \in deploy, NEW u \in p.refs
        PROVE  <<p, u>> \in todo' \/ p \in past \/ u \in moved'
    BY <1>1, <1>2, <1>3, <1>5 DEF IInv, MovedNamed
  <2>3. ASSUME NEW u \in moved', u \notin SignedTags(deploy), NEW p \in deploy, u \in p.refs
        PROVE  tags'[u] = Content(p)
    <3>1. CASE u = t
      <4>1. Content(o) = Content(p)
        BY <2>3, <3>1 DEF IInv, RunKnown, Agreeing
      <4> QED  BY <1>5, <3>1, <4>1
    <3>2. CASE u # t
      <4>1. u \in moved /\ u \in AllTags
        BY <1>5, <2>3, <3>2 DEF IInv, RunKnown, Tagged
      <4> QED  BY <1>2, <1>5, <2>3, <3>2, <4>1 DEF IInv, MovedNamed
    <3> QED  BY <3>1, <3>2
  <2> QED  BY <1>2, <2>1, <2>2, <2>3 DEF MovedNamed, SignedTags
<1> QED  BY <1>6, <1>7, <1>8, <1>9 DEF IInv

\* A successful run has everything where its deploy.json has it.
LEMMA SucceedStep ==
    ASSUME IInv, Succeed PROVE IInv'
<1>1. /\ phase = "deploy" /\ todo = {} /\ phase' = "ok" /\ past' = deploy
      /\ doubtful' = (doubtful \ moved) \cup SignedTags(deploy)
      /\ UNCHANGED <<history, version, builds, deploy, todo, tags, failures, moved>>
  BY DEF Succeed
<1>2. BuildsKnown' /\ RunKnown' /\ SignedDoubted' /\ MovedNamed'
  BY <1>1
  DEF IInv, BuildsKnown, RunKnown, SignedDoubted, MovedNamed, Tagged, Agreeing, SignedTags, Idle
<1>3. ASSUME NEW o \in deploy, NEW t \in o.refs PROVE t \in doubtful' \/ tags[t] = Content(o)
  <2>1. CASE t \in moved
    BY <1>1, <2>1 DEF IInv, MovedNamed
  <2>2. CASE t \notin moved
    <3>1. o \in past
      BY <1>1, <2>2 DEF IInv, MovedNamed
    <3>2. t \in doubtful \/ tags[t] = Content(o)
      BY <2>2, <3>1 DEF IInv, PastNamed
    <3> QED  BY <1>1, <2>2, <3>2
  <2> QED  BY <2>1, <2>2
<1>4. PastNamed'
  BY <1>1, <1>3 DEF PastNamed, Content
<1> QED  BY <1>2, <1>4 DEF IInv

\* A failed run leaves in doubt what it has moved.
LEMMA FailStep ==
    ASSUME IInv, Fail PROVE IInv'
<1>1. /\ ~Idle /\ phase' = "failed" /\ past' = past /\ doubtful' = doubtful \cup moved
      /\ UNCHANGED <<history, version, builds, deploy, tags, moved>>
  BY DEF Fail, PastOfFailed
<1> QED
  BY <1>1
  DEF IInv, BuildsKnown, RunKnown, SignedDoubted, PastNamed, MovedNamed, Tagged, Agreeing,
      SignedTags, Idle, Content

\* The invariant of all runs.
LEMMA Inductive == Spec => []IInv
<1>1. Init => IInv
  <2> SUFFICES ASSUME Init PROVE IInv
    OBVIOUS
  <2>1. /\ history \in Histories /\ version = 1 /\ Len(history) \in Nat \ {0}
        /\ phase = "ok" /\ deploy = {} /\ past = {} /\ tags = [t \in AllTags |-> Nothing]
    BY PipelineAssumption DEF Init
  <2>2. \A i \in DOMAIN builds : builds[i].tags \subseteq AllTags
    <3>1. CASE builds = <<>>
      BY <3>1
    <3>2. CASE builds = BuildsJson(history[1])
      <4>1. 1 \in 1..Len(history)
        BY <2>1
      <4> QED  BY <2>1, <3>2, <4>1, BuildsTags
    <3> QED  BY <3>1, <3>2 DEF Init
  <2>3. BuildsKnown
    BY <2>1, <2>2 DEF BuildsKnown
  <2> QED
    BY <2>1, <2>3
    DEF IInv, RunKnown, SignedDoubted, PastNamed, MovedNamed, Tagged, Agreeing, SignedTags, Idle
<1>2. IInv /\ [Next]_vars => IInv'
  <2> SUFFICES ASSUME IInv, [Next]_vars PROVE IInv'
    OBVIOUS
  <2>1. CASE UNCHANGED vars
    BY <2>1
    DEF vars, runVars, IInv, BuildsKnown, RunKnown, SignedDoubted, PastNamed, MovedNamed,
        Tagged, Agreeing, SignedTags, Idle, Content
  <2> QED
    BY <2>1, ChangeStep, GenerateStep, FilterStep, PushStep, SucceedStep, FailStep DEF Next, Run
<1> QED  BY <1>1, <1>2, PTL DEF Spec

\* After every successful run each tag names what deploy.json has for it, for
\* any builds, however they change and however often runs fail, except where
\* it is in doubt (Jenkinsfile.deploy:82-87).
THEOREM EveryTagAsListed == Spec => []DeployedAsListed
<1>1. IInv => DeployedAsListed
  BY DEF IInv, RunKnown, PastNamed, DeployedAsListed, Names, Idle
<1> QED  BY <1>1, Inductive, PTL

(***************************************************************************)
(* What lists are, and filters and sorts of them.                          *)
(***************************************************************************)

\* How many positions a list has.
LEMMA UpTo ==
    ASSUME NEW n \in Nat
    PROVE  IsFiniteSet(1..n) /\ Cardinality(1..n) = n
<1>1. /\ IsFiniteSet(1..n)
      /\ Cardinality(1..n) = IF 1 > n THEN 0 ELSE n - 1 + 1
  BY FS_Interval
<1> QED  BY <1>1

\* A set of natural numbers that is not empty has a least element.
LEMMA Least == ASSUME NEW S, S \subseteq Nat, S # {}
               PROVE  \E m \in S : \A n \in S : m <= n
<1>1. PICK m \in S : \A n \in S : <<n, m>> \notin OpToRel(<, Nat)
  BY WFMin, NatLessThanWellFounded, Zenon
<1>2. \A n \in S : ~(n < m)
  BY <1>1, Zenon DEF OpToRel
<1>3. \A n \in S : m <= n
  BY <1>2
<1> QED  BY <1>3

\* A sequence of the positions in the order of their keys.
InOrder(order, positions, key) ==
    LET size == Cardinality(positions) IN
    /\ size \in Nat
    /\ order \in [1..size -> positions]
    /\ \A i \in positions : \E n \in 1..size : order[n] = i
    /\ \A n, k \in 1..size : n < k => Before(key, order[n], order[k])

\* s has the elements of list in that order.
Follows(s, list, order) == s = [n \in DOMAIN order |-> list[order[n]]]

\* Positions can be put in the order of their keys, whatever the keys.
LEMMA OrderExists ==
    ASSUME NEW S, IsFiniteSet(S), S \subseteq Nat, NEW key, \A i \in S : key[i] \in Int
    PROVE  \E order : /\ InOrder(order, S, key)
                      /\ \A n \in 1..Cardinality(S) : order[n] = Nth(S, key, n)
<1> DEFINE size == Cardinality(S)
           rank == [i \in S |-> Cardinality(AllBefore(S, key, i)) + 1]
<1>1. size \in Nat
  BY FS_CardinalityType
<1>2. /\ \A i, j \in S : i # j => Before(key, i, j) \/ Before(key, j, i)
      /\ \A i, j, k \in S : Before(key, i, j) /\ Before(key, j, k) => Before(key, i, k)
      /\ \A i \in S : ~Before(key, i, i)
  BY DEF Before
<1>3. ASSUME NEW i \in S
      PROVE  /\ IsFiniteSet(AllBefore(S, key, i)) /\ Cardinality(AllBefore(S, key, i)) \in Nat
             /\ Cardinality(AllBefore(S, key, i)) < size
  <2>1. AllBefore(S, key, i) \in SUBSET S /\ i \notin AllBefore(S, key, i)
    BY <1>2 DEF AllBefore
  <2>2. /\ IsFiniteSet(AllBefore(S, key, i)) /\ Cardinality(AllBefore(S, key, i)) <= size
        /\ Cardinality(AllBefore(S, key, i)) # size
    BY <2>1, FS_Subset
  <2>3. Cardinality(AllBefore(S, key, i)) \in Nat
    BY <2>2, FS_CardinalityType
  <2> QED  BY <1>1, <2>2, <2>3
<1>4. ASSUME NEW i \in S, NEW j \in S, Before(key, i, j) PROVE rank[i] < rank[j]
  <2>1. AllBefore(S, key, i) \in SUBSET AllBefore(S, key, j)
    BY <1>2, <1>4 DEF AllBefore
  <2>2. i \in AllBefore(S, key, j) /\ i \notin AllBefore(S, key, i)
    BY <1>2, <1>4 DEF AllBefore
  <2>3. Cardinality(AllBefore(S, key, i)) <= Cardinality(AllBefore(S, key, j))
        /\ Cardinality(AllBefore(S, key, i)) # Cardinality(AllBefore(S, key, j))
    BY <1>3, <2>1, <2>2, FS_Subset
  <2> QED  BY <1>3, <2>3
<1>5. rank \in [S -> 1..size]
  BY <1>1, <1>3
<1>6. \A i \in S, n \in 1..size : rank[i] = n <=> Cardinality(AllBefore(S, key, i)) = n - 1
  BY <1>1, <1>3
<1> HIDE DEF rank
<1>7. rank \in Injection(S, 1..size)
  <2>1. ASSUME NEW i \in S, NEW j \in S, i # j PROVE rank[i] # rank[j]
    <3>1. rank[i] \in Int /\ rank[j] \in Int
      BY <1>5
    <3> QED  BY <1>2, <1>4, <2>1, <3>1
  <2> QED  BY <1>5, <2>1 DEF Injection, IsInjective
<1>8. rank \in Surjection(S, 1..size)
  <2>1. IsFiniteSet(1..size) /\ Cardinality(1..size) = size
    BY <1>1, UpTo
  <2> HIDE DEF size
  <2>2. Cardinality(S) = Cardinality(1..size)
    BY <2>1 DEF size
  <2> QED  BY <1>7, <2>1, <2>2, FS_Injection
<1> DEFINE order == [n \in 1..size |-> Nth(S, key, n)]
<1>9. ASSUME NEW n \in 1..size PROVE order[n] \in S /\ rank[order[n]] = n
  <2>1. PICK i \in S : rank[i] = n
    BY <1>8 DEF Surjection
  <2>2. Cardinality(AllBefore(S, key, i)) = n - 1
    BY <1>6, <2>1
  <2>3. order[n] \in S /\ Cardinality(AllBefore(S, key, order[n])) = n - 1
    BY <2>2 DEF Nth
  <2> HIDE DEF order
  <2> QED  BY <1>6, <2>3
<1>10. order \in [1..size -> S]
  BY <1>9
<1>11. \A n \in 1..size : order[n] = Nth(S, key, n)
  OBVIOUS
<1> HIDE DEF order
<1>12. ASSUME NEW i \in S PROVE \E n \in 1..size : order[n] = i
  <2>1. rank[i] \in 1..size
    BY <1>5
  <2>2. order[rank[i]] \in S /\ rank[order[rank[i]]] = rank[i]
    BY <1>9, <2>1
  <2>3. order[rank[i]] = i
    BY <1>7, <2>2 DEF Injection, IsInjective
  <2> QED  BY <2>1, <2>3
<1>13. ASSUME NEW n \in 1..size, NEW k \in 1..size, n < k PROVE Before(key, order[n], order[k])
  <2>1. order[n] # order[k] /\ rank[order[n]] = n /\ rank[order[k]] = k
    BY <1>9, <1>13
  <2>2. ~Before(key, order[k], order[n])
    <3> SUFFICES ASSUME Before(key, order[k], order[n]) PROVE FALSE
      OBVIOUS
    <3>1. rank[order[k]] < rank[order[n]]
      BY <1>4, <1>9
    <3> QED  BY <1>1, <1>13, <2>1, <3>1
  <2> QED  BY <1>2, <1>9, <2>1, <2>2
<1> QED  BY <1>1, <1>10, <1>11, <1>12, <1>13 DEF InOrder

\* What a list is,
LEMMA ListOf ==
    ASSUME NEW s, IsList(s)
    PROVE  /\ Len(s) \in Nat /\ DOMAIN s = 1..Len(s) /\ s = [i \in 1..Len(s) |-> s[i]]
           /\ \A i \in DOMAIN s : s[i] \in ToSet(s)
BY LenProperties DEF IsList, ToSet

\* and what is one.
LEMMA IsListOf ==
    ASSUME NEW n \in Nat, NEW s, DOMAIN s = 1..n, s = [i \in 1..n |-> s[i]]
    PROVE  IsList(s) /\ Len(s) = n
<1>1. \A i \in 1..n : s[i] \in ToSet(s)
  BY DEF ToSet
<1>2. s \in Seq(ToSet(s))
  BY <1>1, SeqDef
<1>3. Len(s) \in Nat /\ DOMAIN s = 1..Len(s)
  BY <1>2, LenProperties
<1>4. Len(s) = n
  BY <1>3
<1> QED  BY <1>2, <1>4 DEF IsList

\* What a filter and a sort are made with.
LEMMA PickedIs ==
    ASSUME NEW list, IsList(list), NEW positions, positions \subseteq DOMAIN list,
           NEW key, \A i \in positions : key[i] \in Int
    PROVE  \E order : /\ InOrder(order, positions, key)
                      /\ Follows(Picked(list, positions, key), list, order)
<1>1. Len(list) \in Nat /\ DOMAIN list = 1..Len(list)
  BY ListOf
<1>2. IsFiniteSet(positions) /\ positions \subseteq Nat
  <2>1. IsFiniteSet(DOMAIN list)
    BY <1>1, UpTo
  <2> QED  BY <1>1, <2>1, FS_Subset
<1>3. PICK order : /\ InOrder(order, positions, key)
                   /\ \A n \in 1..Cardinality(positions) : order[n] = Nth(positions, key, n)
  BY <1>2, OrderExists
<1>4. Picked(list, positions, key) = [n \in 1..Cardinality(positions) |-> list[order[n]]]
  BY <1>3 DEF Picked
<1>5. DOMAIN order = 1..Cardinality(positions)
  BY <1>3 DEF InOrder
<1>6. Follows(Picked(list, positions, key), list, order)
  BY <1>4, <1>5 DEF Follows
<1> QED  BY <1>3, <1>6

\* Digests tell the descriptors of a list apart.
Distinct(list) == \A i, j \in DOMAIN list : list[i].digest = list[j].digest => i = j

\* What select makes of a list.
LEMMA ThoseAre ==
    ASSUME NEW list, IsList(list), NEW positions, positions \subseteq DOMAIN list
    PROVE  /\ IsList(Those(list, positions))
           /\ ToSet(Those(list, positions)) = {list[i] : i \in positions}
           /\ Distinct(list) => Distinct(Those(list, positions))
<1> DEFINE key == [i \in positions |-> i]
           size == Cardinality(positions)
<1>1. Len(list) \in Nat /\ DOMAIN list = 1..Len(list)
  BY ListOf
<1>2. \A i \in positions : key[i] \in Int
  BY <1>1
<1> HIDE DEF key
<1>0. PICK order : /\ InOrder(order, positions, key)
                   /\ Follows(Picked(list, positions, key), list, order)
  BY <1>2, PickedIs
<1>3. /\ size \in Nat /\ order \in [1..size -> positions]
      /\ Picked(list, positions, key) = [n \in 1..size |-> list[order[n]]]
      /\ \A i \in positions : \E n \in 1..size : order[n] = i
      /\ \A n, k \in 1..size : n < k => Before(key, order[n], order[k])
  BY <1>0 DEF InOrder, Follows
<1> HIDE DEF size
<1> DEFINE those == Those(list, positions)
<1>4. those = [n \in 1..size |-> list[order[n]]]
  BY <1>3 DEF Those, key
<1> HIDE DEF those
<1>5. DOMAIN those = 1..size /\ \A n \in 1..size : those[n] = list[order[n]]
  BY <1>4
<1>6. IsList(those)
  BY <1>3, <1>4, <1>5, IsListOf
<1>7. ToSet(those) = {list[i] : i \in positions}
  BY <1>3, <1>5 DEF ToSet
<1>8. ASSUME Distinct(list) PROVE Distinct(those)
  <2> SUFFICES ASSUME NEW n \in 1..size, NEW k \in 1..size, n # k,
                      those[n].digest = those[k].digest
               PROVE  FALSE
    BY <1>5 DEF Distinct
  <2>0. order[n] \in positions /\ order[k] \in positions
    BY <1>3
  <2>1. order[n] = order[k]
    BY <1>5, <1>8, <2>0 DEF Distinct
  <2>2. n < k \/ k < n
    BY <1>3
  <2>3. Before(key, order[n], order[n])
    BY <1>3, <2>1, <2>2
  <2>4. key[order[n]] \in Int /\ order[n] \in Int
    BY <1>1, <1>2, <2>0
  <2> QED  BY <2>3, <2>4 DEF Before
<1> QED  BY <1>6, <1>7, <1>8 DEF those

\* What sort_by makes of a list, and that nothing comes before what has a smaller
\* key.
LEMMA SortedIs ==
    ASSUME NEW list, IsList(list), NEW key, \A i \in DOMAIN list : key[i] \in Int
    PROVE  \E order \in [DOMAIN list -> DOMAIN list] :
               /\ IsList(SortBy(list, key)) /\ Len(SortBy(list, key)) = Len(list)
               /\ DOMAIN SortBy(list, key) = DOMAIN list
               /\ \A n \in DOMAIN list : SortBy(list, key)[n] = list[order[n]]
               /\ \A i \in DOMAIN list : \E n \in DOMAIN list : order[n] = i
               /\ \A n, k \in DOMAIN list : n < k => key[order[n]] <= key[order[k]]
               /\ \A n, k \in DOMAIN list : order[n] = order[k] => n = k
<1> DEFINE size == Cardinality(DOMAIN list)
           sorted == SortBy(list, key)
<1>1. Len(list) \in Nat /\ DOMAIN list = 1..Len(list)
  BY ListOf
<1>2. size = Len(list)
  BY <1>1, UpTo
<1>0. PICK order : /\ InOrder(order, DOMAIN list, key)
                   /\ Follows(Picked(list, DOMAIN list, key), list, order)
  BY PickedIs
<1>3. /\ size \in Nat /\ order \in [1..size -> DOMAIN list]
      /\ Picked(list, DOMAIN list, key) = [n \in 1..size |-> list[order[n]]]
      /\ \A i \in DOMAIN list : \E n \in 1..size : order[n] = i
      /\ \A n, k \in 1..size : n < k => Before(key, order[n], order[k])
  BY <1>0 DEF InOrder, Follows
<1>4. sorted = [n \in DOMAIN list |-> list[order[n]]]
  BY <1>1, <1>2, <1>3 DEF SortBy
<1> HIDE DEF sorted, size
<1>5. /\ order \in [DOMAIN list -> DOMAIN list]
      /\ DOMAIN sorted = DOMAIN list /\ \A n \in DOMAIN list : sorted[n] = list[order[n]]
  BY <1>1, <1>2, <1>3, <1>4
<1>6. IsList(sorted) /\ Len(sorted) = Len(list)
  <2>1. sorted = [n \in 1..Len(list) |-> sorted[n]] /\ DOMAIN sorted = 1..Len(list)
    BY <1>1, <1>4, <1>5
  <2> QED  BY <1>1, <2>1, IsListOf
<1>7. ASSUME NEW n \in DOMAIN list, NEW k \in DOMAIN list, n < k
      PROVE  key[order[n]] <= key[order[k]] /\ order[n] # order[k]
  <2>1. Before(key, order[n], order[k])
    BY <1>1, <1>2, <1>3, <1>7
  <2>2. order[n] \in DOMAIN list /\ order[k] \in DOMAIN list
    BY <1>5
  <2>3. /\ key[order[n]] \in Int /\ key[order[k]] \in Int
        /\ order[n] \in Int /\ order[k] \in Int
    BY <1>1, <2>2
  <2> QED  BY <2>1, <2>3 DEF Before
<1>8. \A n, k \in DOMAIN list : order[n] = order[k] => n = k
  BY <1>1, <1>7
<1>9. \A i \in DOMAIN list : \E n \in DOMAIN list : order[n] = i
  BY <1>1, <1>2, <1>3
<1> QED  BY <1>5, <1>6, <1>7, <1>8, <1>9 DEF sorted

\* f has the first lists joined, for each number of them up to n.
IsFlatten(f, lists, n) ==
    f = [i \in 1..n |-> IF i = 1 THEN lists[i] ELSE f[i - 1] \o lists[i]]

\* FlattenSeq joins lists one after the other.
LEMMA FlattenRuns ==
    ASSUME NEW lists, Len(lists) \in Nat, Len(lists) # 0
    PROVE  \E f : /\ f[1] = lists[1] /\ f[Len(lists)] = FlattenSeq(lists)
                  /\ \A i \in 2..Len(lists) : f[i] = f[i - 1] \o lists[i]
<1> DEFINE Stuck == {n \in Nat : ~\E f : IsFlatten(f, lists, n)}
<1>1. Stuck = {}
  <2> SUFFICES ASSUME Stuck # {} PROVE FALSE
    OBVIOUS
  <2>1. PICK n \in Stuck : \A k \in Stuck : n <= k
    BY Least
  <2>2. CASE n = 0
    <3> DEFINE f == [i \in 1..0 |-> lists[i]]
    <3>1. IsFlatten(f, lists, 0)
      BY DEF IsFlatten
    <3> QED  BY <2>1, <2>2, <3>1
  <2>3. CASE n # 0
    <3>1. n - 1 \in Nat /\ n \in Nat /\ n - 1 \notin Stuck
      BY <2>1, <2>3
    <3>2. PICK f : IsFlatten(f, lists, n - 1)
      BY <3>1
    <3> DEFINE last == IF n = 1 THEN lists[n] ELSE f[n - 1] \o lists[n]
    <3> DEFINE g == [i \in 1..n |-> IF i = n THEN last ELSE f[i]]
    <3>3. f = [i \in 1..n - 1 |-> IF i = 1 THEN lists[i] ELSE f[i - 1] \o lists[i]]
      BY <3>2 DEF IsFlatten
    <3>4. \A i \in 1..n - 1 : f[i] = IF i = 1 THEN lists[i] ELSE f[i - 1] \o lists[i]
      BY <3>3
    <3>5. g = [i \in 1..n |-> IF i = 1 THEN lists[i] ELSE g[i - 1] \o lists[i]]
      <4>1. ASSUME NEW i \in 1..n
            PROVE  g[i] = IF i = 1 THEN lists[i] ELSE g[i - 1] \o lists[i]
        <5>1. CASE i = n
          <6>1. i # 1 => g[i - 1] = f[n - 1]
            BY <3>1, <5>1
          <6>2. g[i] = last
            BY <5>1
          <6> HIDE DEF g
          <6> QED  BY <5>1, <6>1, <6>2
        <5>2. CASE i # n
          <6>1. i \in 1..n - 1 /\ g[i] = f[i]
            BY <3>1, <5>2
          <6>2. i # 1 => g[i - 1] = f[i - 1]
            BY <3>1, <5>2
          <6> HIDE DEF g
          <6> QED  BY <3>4, <6>1, <6>2
        <5> QED  BY <5>1, <5>2
      <4>2. g = [i \in 1..n |-> g[i]]
        OBVIOUS
      <4> HIDE DEF g
      <4> QED  BY <4>1, <4>2
    <3>6. IsFlatten(g, lists, n)
      BY <3>5, Zenon DEF IsFlatten
    <3> QED  BY <2>1, <3>6
  <2> QED  BY <2>2, <2>3
<1> DEFINE f == CHOOSE f : IsFlatten(f, lists, Len(lists))
<1>2. IsFlatten(f, lists, Len(lists))
  BY <1>1
<1>3. FlattenSeq(lists) = f[Len(lists)]
  BY DEF FlattenSeq, IsFlatten
<1> HIDE DEF f
<1>4. f = [i \in 1..Len(lists) |-> IF i = 1 THEN lists[i] ELSE f[i - 1] \o lists[i]]
  BY <1>2 DEF IsFlatten
<1>5. \A i \in 1..Len(lists) : f[i] = IF i = 1 THEN lists[i] ELSE f[i - 1] \o lists[i]
  BY <1>4
<1>6. f[1] = lists[1]
  BY <1>5
<1>7. ASSUME NEW i \in 2..Len(lists) PROVE f[i] = f[i - 1] \o lists[i]
  <2>1. i \in 1..Len(lists) /\ i # 1
    OBVIOUS
  <2> QED  BY <1>5, <2>1, Zenon
<1> QED  BY <1>3, <1>6, <1>7

\* A list and what is appended to it.
LEMMA Joined ==
    ASSUME NEW s, IsList(s), NEW t, IsList(t)
    PROVE  IsList(s \o t) /\ ToSet(s \o t) = ToSet(s) \cup ToSet(t)
<1> DEFINE X == ToSet(s) \cup ToSet(t)
<1>1. s \in Seq(X) /\ t \in Seq(X)
  BY SeqMonotonic DEF IsList
<1>2. /\ s \o t \in Seq(X) /\ Len(s \o t) = Len(s) + Len(t)
      /\ \A i \in 1..Len(s) + Len(t) :
            (s \o t)[i] = IF i <= Len(s) THEN s[i] ELSE t[i - Len(s)]
  BY <1>1, ConcatProperties
<1>3. /\ Len(s) \in Nat /\ DOMAIN s = 1..Len(s) /\ Len(t) \in Nat /\ DOMAIN t = 1..Len(t)
  BY ListOf
<1>4. DOMAIN (s \o t) = 1..Len(s) + Len(t) /\ s \o t = [i \in 1..Len(s) + Len(t) |-> (s \o t)[i]]
  BY <1>2, LenProperties
<1>5. IsList(s \o t)
  BY <1>3, <1>4, IsListOf
<1>6. ToSet(s \o t) \subseteq X
  BY <1>2, <1>3, <1>4 DEF ToSet
<1>7. ToSet(s) \subseteq ToSet(s \o t)
  BY <1>2, <1>3, <1>4 DEF ToSet
<1>8. ASSUME NEW i \in DOMAIN t PROVE t[i] \in ToSet(s \o t)
  <2>1. i + Len(s) \in 1..Len(s) + Len(t) /\ (s \o t)[i + Len(s)] = t[i]
    BY <1>2, <1>3
  <2> QED  BY <1>4, <2>1 DEF ToSet
<1>9. ToSet(t) \subseteq ToSet(s \o t)
  BY <1>8 DEF ToSet
<1> QED  BY <1>5, <1>6, <1>7, <1>9

\* Lists one behind the other.
LEMMA Flattened ==
    ASSUME NEW lists, IsList(lists), \A i \in DOMAIN lists : IsList(lists[i])
    PROVE  /\ IsList(FlattenSeq(lists))
           /\ ToSet(FlattenSeq(lists)) = UNION {ToSet(lists[i]) : i \in DOMAIN lists}
           /\ Len(lists) = 1 => FlattenSeq(lists) = lists[1]
<1>1. Len(lists) \in Nat /\ DOMAIN lists = 1..Len(lists)
  BY ListOf
<1>2. CASE Len(lists) = 0
  <2>1. FlattenSeq(lists) = lists /\ DOMAIN lists = {}
    BY <1>1, <1>2 DEF FlattenSeq
  <2> QED  BY <1>2, <2>1 DEF ToSet
<1>3. CASE Len(lists) # 0
  <2>1. PICK f : /\ f[1] = lists[1] /\ f[Len(lists)] = FlattenSeq(lists)
                 /\ \A i \in 2..Len(lists) : f[i] = f[i - 1] \o lists[i]
    BY <1>1, <1>3, FlattenRuns
  <2> DEFINE Right(n) == IsList(f[n]) /\ ToSet(f[n]) = UNION {ToSet(lists[i]) : i \in 1..n}
             Wrong == {n \in 1..Len(lists) : ~Right(n)}
  <2>2. Wrong = {}
    <3> SUFFICES ASSUME Wrong # {} PROVE FALSE
      OBVIOUS
    <3>1. PICK n \in Wrong : \A k \in Wrong : n <= k
      <4>1. Wrong \subseteq Nat
        BY <1>1
      <4> HIDE DEF Wrong
      <4> QED  BY <4>1, Least
    <3>2. n \in 1..Len(lists) /\ ~Right(n)
      BY <3>1
    <3>3. CASE n = 1
      <4>1. UNION {ToSet(lists[i]) : i \in 1..1} = ToSet(lists[1])
        OBVIOUS
      <4> QED  BY <1>1, <2>1, <3>2, <3>3, <4>1
    <3>4. CASE n # 1
      <4>1. n \in 2..Len(lists) /\ n - 1 \in 1..Len(lists)
        BY <1>1, <3>2, <3>4
      <4>2. Right(n - 1)
        BY <1>1, <3>1, <4>1
      <4>3. f[n] = f[n - 1] \o lists[n] /\ IsList(lists[n])
        BY <1>1, <2>1, <4>1
      <4>4. IsList(f[n]) /\ ToSet(f[n]) = ToSet(f[n - 1]) \cup ToSet(lists[n])
        BY <4>2, <4>3, Joined
      <4>5. 1..n = (1..n - 1) \cup {n}
        BY <4>1
      <4>6. UNION {ToSet(lists[i]) : i \in 1..n} =
               (UNION {ToSet(lists[i]) : i \in 1..n - 1}) \cup ToSet(lists[n])
        BY <4>5
      <4> QED  BY <3>2, <4>2, <4>4, <4>6
    <3> QED  BY <3>3, <3>4
  <2>3. Right(Len(lists))
    BY <1>1, <1>3, <2>2
  <2> QED  BY <1>1, <2>1, <2>3
<1> QED  BY <1>2, <1>3

\* The position of the only descriptor of a digest.
LEMMA IndexIs ==
    ASSUME NEW list, IsList(list), Distinct(list), NEW i \in DOMAIN list
    PROVE  FirstIndex(list, list[i].digest) = i
<1> DEFINE I == {k \in 1..Len(list) : list[k].digest = list[i].digest}
<1>1. DOMAIN list = 1..Len(list) /\ Len(list) \in Nat
  BY ListOf
<1>2. I = {i}
  BY <1>1 DEF Distinct
<1>3. i \in Int
  BY <1>1
<1>4. (CHOOSE x \in {i} : \A y \in {i} : x <= y) = i
  BY <1>3
<1> QED  BY <1>2, <1>4 DEF FirstIndex, SelectInSeq, Min

(***************************************************************************)
(* What SynthesizeIndex makes of an index.                                 *)
(***************************************************************************)

\* f has what seen is after each of the first n turns.
IsSeen(f, raw, n) == f = [k \in 0..n |-> IF k = 0 THEN <<>> ELSE Seen(f[k - 1], raw[k])]

\* The loop of SynthesizeIndex has its turns one after the other
\* (synthesize-index.go:78).
LEMMA LoopRuns ==
    ASSUME NEW raw, Len(raw) \in Nat
    PROVE  \E f : /\ f[0] = <<>> /\ f[Len(raw)] = SynthesizeIndex(raw)
                  /\ \A n \in 1..Len(raw) : f[n] = Seen(f[n - 1], raw[n])
<1> DEFINE Stuck == {n \in Nat : ~\E f : IsSeen(f, raw, n)}
<1>1. Stuck = {}
  <2> SUFFICES ASSUME Stuck # {} PROVE FALSE
    OBVIOUS
  <2>1. PICK n \in Stuck : \A k \in Stuck : n <= k
    BY Least
  <2>2. CASE n = 0
    <3> DEFINE f == [k \in 0..0 |-> <<>>]
    <3>1. IsSeen(f, raw, 0)
      BY DEF IsSeen
    <3> QED  BY <2>1, <2>2, <3>1
  <2>3. CASE n # 0
    <3>1. n - 1 \in Nat /\ n \in Nat /\ n - 1 \notin Stuck
      BY <2>1, <2>3
    <3>2. PICK f : IsSeen(f, raw, n - 1)
      BY <3>1
    <3> DEFINE g == [k \in 0..n |-> IF k = n THEN Seen(f[n - 1], raw[n]) ELSE f[k]]
    <3>3. f = [k \in 0..n - 1 |-> IF k = 0 THEN <<>> ELSE Seen(f[k - 1], raw[k])]
      BY <3>2 DEF IsSeen
    <3>4. \A k \in 0..n - 1 : f[k] = IF k = 0 THEN <<>> ELSE Seen(f[k - 1], raw[k])
      BY <3>3
    <3>5. g = [k \in 0..n |-> IF k = 0 THEN <<>> ELSE Seen(g[k - 1], raw[k])]
      <4>1. ASSUME NEW k \in 0..n
            PROVE  g[k] = IF k = 0 THEN <<>> ELSE Seen(g[k - 1], raw[k])
        <5>1. CASE k = n
          <6>1. g[k - 1] = f[n - 1] /\ k # 0
            BY <2>3, <3>1, <5>1
          <6>2. g[k] = Seen(f[n - 1], raw[n])
            BY <5>1
          <6> QED  BY <5>1, <6>1, <6>2
        <5>2. CASE k # n
          <6>1. k \in 0..n - 1 /\ g[k] = f[k]
            BY <3>1, <5>2
          <6>2. k # 0 => g[k - 1] = f[k - 1]
            BY <3>1, <5>2
          <6> HIDE DEF g
          <6> QED  BY <3>4, <6>1, <6>2
        <5> QED  BY <5>1, <5>2
      <4>2. g = [k \in 0..n |-> g[k]]
        OBVIOUS
      <4> HIDE DEF g
      <4> QED  BY <4>1, <4>2
    <3>6. IsSeen(g, raw, n)
      BY <3>5, Zenon DEF IsSeen
    <3> QED  BY <2>1, <3>6
  <2> QED  BY <2>2, <2>3
<1> DEFINE f == CHOOSE f : IsSeen(f, raw, Len(raw))
<1>2. IsSeen(f, raw, Len(raw))
  BY <1>1
<1>3. SynthesizeIndex(raw) = f[Len(raw)]
  BY DEF SynthesizeIndex, IsSeen
<1> HIDE DEF f
<1>4. f = [k \in 0..Len(raw) |-> IF k = 0 THEN <<>> ELSE Seen(f[k - 1], raw[k])]
  BY <1>2 DEF IsSeen
<1>5. \A k \in 0..Len(raw) : f[k] = IF k = 0 THEN <<>> ELSE Seen(f[k - 1], raw[k])
  BY <1>4
<1> QED  BY <1>3, <1>5

\* The architecture that an image says it is of.
OwnArch(m) == IF PlatformOf(m) = None THEN None ELSE ArchOf[PlatformOf(m)]

\* Where a descriptor of seen comes from: an image as it is, an attestation or
\* a signature that comes after its image, and has its architecture.
From(raw, j, m) ==
    /\ m = Annotated(raw[j], m.arch)
    /\ ~Carried(raw[j]) => m.arch = OwnArch(raw[j])
    /\ Carried(raw[j]) =>
          /\ m.arch # None
          /\ \E i \in 1..j - 1 : /\ raw[i].digest = raw[j].subject /\ ~Carried(raw[i])
                                 /\ m.arch = OwnArch(raw[i])

\* What seen has after n turns: nothing but that, each digest once, every image,
\* and whatever comes after an image it is about that has an architecture.
KeptSoFar(raw, n, kept) ==
    /\ IsList(kept) /\ Distinct(kept)
    /\ \A k \in DOMAIN kept : \E j \in 1..n : From(raw, j, kept[k])
    /\ \A j \in 1..n : ~Carried(raw[j]) => raw[j].digest \in Digests(kept)
    /\ \A j \in 1..n : \A i \in 1..j - 1 :
          Carried(raw[j]) /\ raw[j].subject = raw[i].digest /\ OwnArch(raw[i]) # None =>
              raw[j].digest \in Digests(kept)

\* What an attestation finds in seen is its image as it came
\* (synthesize-index.go:94).
LEMMA SubjectFound ==
    ASSUME NEW raw, Staged(raw), NEW n \in 0..Len(raw), NEW kept, KeptSoFar(raw, n, kept),
           NEW r \in ToSet(raw), r.subject \in Digests(kept)
    PROVE  \E i \in 1..n : /\ raw[i].digest = r.subject /\ ~Carried(raw[i])
                           /\ ArchOfSubject(kept, r) = OwnArch(raw[i])
<1>1. PICK k \in DOMAIN kept : kept[k].digest = r.subject
  BY DEF Digests, ToSet
<1>2. PICK i \in 1..n : From(raw, i, kept[k])
  BY DEF KeptSoFar
<1>3. raw[i].digest = r.subject
  BY <1>1, <1>2 DEF From, Annotated
<1>4. raw[i] \in ToSet(raw)
  <2>1. DOMAIN raw = 1..Len(raw) /\ Len(raw) \in Nat
    BY ListOf DEF Staged
  <2> QED  BY <2>1 DEF ToSet
<1>5. ~Carried(raw[i])
  <2>1. raw[i].kind = "image"
    BY <1>3, <1>4 DEF Staged
  <2> QED  BY <2>1 DEF Carried
<1>6. kept[k].arch = OwnArch(raw[i])
  BY <1>2, <1>5 DEF From
<1>7. FirstIndex(kept, r.subject) = k
  BY <1>1, IndexIs DEF KeptSoFar
<1>8. ArchOfSubject(kept, r) = kept[k].arch
  BY <1>7 DEF ArchOfSubject, FirstIndex
<1> QED  BY <1>3, <1>5, <1>6, <1>8

\* What Append makes of a list.
LEMMA Appended ==
    ASSUME NEW s, IsList(s), NEW x
    PROVE  /\ IsList(Append(s, x)) /\ Len(Append(s, x)) = Len(s) + 1
           /\ Append(s, x)[Len(s) + 1] = x
           /\ \A i \in 1..Len(s) : Append(s, x)[i] = s[i]
           /\ DOMAIN Append(s, x) = 1..Len(s) + 1
<1> DEFINE X == ToSet(s) \cup {x}
<1>1. s \in Seq(X) /\ x \in X
  BY SeqMonotonic DEF IsList
<1>2. /\ Append(s, x) \in Seq(X) /\ Len(Append(s, x)) = Len(s) + 1
      /\ \A i \in 1..Len(s) : Append(s, x)[i] = s[i]
      /\ Append(s, x)[Len(s) + 1] = x
  BY <1>1, AppendProperties
<1>3. /\ DOMAIN Append(s, x) = 1..Len(s) + 1
      /\ Append(s, x) = [i \in 1..Len(s) + 1 |-> Append(s, x)[i]]
  BY <1>2, LenProperties
<1>4. Len(s) + 1 \in Nat
  BY ListOf
<1>5. IsList(Append(s, x))
  BY <1>3, <1>4, IsListOf
<1> QED  BY <1>2, <1>3, <1>5

\* One turn of the loop (synthesize-index.go:78-119).
LEMMA OneTurn ==
    ASSUME NEW raw, Staged(raw), NEW n \in 1..Len(raw), NEW kept, KeptSoFar(raw, n - 1, kept)
    PROVE  KeptSoFar(raw, n, Seen(kept, raw[n]))
<1> DEFINE r == raw[n]
           arch == BashbrewArch(kept, r)
<1>1. /\ Len(raw) \in Nat /\ DOMAIN raw = 1..Len(raw) /\ n - 1 \in 0..Len(raw)
      /\ n \in Nat /\ 1..n = (1..n - 1) \cup {n} /\ r \in ToSet(raw)
  <2>1. Len(raw) \in Nat /\ DOMAIN raw = 1..Len(raw)
    BY ListOf DEF Staged
  <2> QED  BY <2>1 DEF ToSet
<1>2. /\ IsList(kept) /\ Distinct(kept)
      /\ \A k \in DOMAIN kept : \E j \in 1..n - 1 : From(raw, j, kept[k])
      /\ \A j \in 1..n - 1 : ~Carried(raw[j]) => raw[j].digest \in Digests(kept)
      /\ \A j \in 1..n - 1 : \A i \in 1..j - 1 :
            Carried(raw[j]) /\ raw[j].subject = raw[i].digest /\ OwnArch(raw[i]) # None =>
              raw[j].digest \in Digests(kept)
  BY DEF KeptSoFar
<1>3. \A k \in DOMAIN kept : \E j \in 1..n : From(raw, j, kept[k])
  BY <1>1, <1>2
<1>4. CASE r.digest \in Digests(kept)
  <2>1. Seen(kept, r) = kept
    BY <1>4 DEF Seen
  <2>2. \A j \in 1..n : ~Carried(raw[j]) => raw[j].digest \in Digests(kept)
    BY <1>1, <1>2, <1>4
  <2>3. \A j \in 1..n : \A i \in 1..j - 1 :
            Carried(raw[j]) /\ raw[j].subject = raw[i].digest /\ OwnArch(raw[i]) # None =>
              raw[j].digest \in Digests(kept)
    BY <1>1, <1>2, <1>4
  <2> QED  BY <1>2, <1>3, <2>1, <2>2, <2>3 DEF KeptSoFar
<1>5. CASE r.digest \notin Digests(kept) /\ Carried(r) /\ arch = None
  <2>1. Seen(kept, r) = kept
    BY <1>5 DEF Seen
  <2>2. \A j \in 1..n : ~Carried(raw[j]) => raw[j].digest \in Digests(kept)
    BY <1>1, <1>2, <1>5
  <2>3. ASSUME NEW i \in 1..n - 1, r.subject = raw[i].digest, OwnArch(raw[i]) # None
        PROVE  FALSE
    <3>1. raw[i] \in ToSet(raw)
      BY <1>1 DEF ToSet
    <3>2. ~Carried(raw[i])
      <4>1. raw[i].kind = "image"
        BY <1>1, <2>3, <3>1 DEF Staged
      <4> QED  BY <4>1 DEF Carried
    <3>3. r.subject \in Digests(kept)
      BY <1>2, <2>3, <3>2
    <3>4. PICK h \in 1..n - 1 : raw[h].digest = r.subject /\ ArchOfSubject(kept, r) = OwnArch(raw[h])
      BY <1>1, <3>3, SubjectFound
    <3>5. raw[h] = raw[i]
      <4>1. raw[h] \in ToSet(raw)
        BY <1>1 DEF ToSet
      <4> QED  BY <2>3, <3>1, <3>4, <4>1 DEF Staged
    <3> QED  BY <1>5, <2>3, <3>4, <3>5 DEF BashbrewArch
  <2>4. \A j \in 1..n : \A i \in 1..j - 1 :
            Carried(raw[j]) /\ raw[j].subject = raw[i].digest /\ OwnArch(raw[i]) # None =>
              raw[j].digest \in Digests(kept)
    BY <1>1, <1>2, <2>3
  <2> QED  BY <1>2, <1>3, <2>1, <2>2, <2>4 DEF KeptSoFar
<1>6. CASE r.digest \notin Digests(kept) /\ ~(Carried(r) /\ arch = None)
  <2> DEFINE m == Annotated(r, arch)
             more == Append(kept, m)
  <2>1. Seen(kept, r) = more
    BY <1>6 DEF Seen
  <2>2. m.digest = r.digest /\ m.arch = arch /\ m = Annotated(r, m.arch)
    BY DEF Annotated
  <2>3. /\ IsList(more) /\ Len(more) = Len(kept) + 1 /\ more[Len(kept) + 1] = m
        /\ \A i \in 1..Len(kept) : more[i] = kept[i]
        /\ DOMAIN more = 1..Len(kept) + 1
    BY <1>2, Appended
  <2>4. Len(kept) \in Nat /\ DOMAIN kept = 1..Len(kept)
    BY <1>2, ListOf
  <2>5. From(raw, n, m)
    <3>1. CASE ~Carried(r)
      <4>1. arch = OwnArch(r)
        BY <3>1 DEF BashbrewArch, OwnArch
      <4> HIDE DEF arch, m
      <4> QED  BY <2>2, <3>1, <4>1 DEF From
    <3>2. CASE Carried(r)
      <4>1. arch # None /\ arch = ArchOfSubject(kept, r)
        BY <1>6, <3>2 DEF BashbrewArch
      <4>2. r.subject \in Digests(kept)
        BY <4>1 DEF ArchOfSubject
      <4>3. PICK i \in 1..n - 1 : /\ raw[i].digest = r.subject /\ ~Carried(raw[i])
                                  /\ ArchOfSubject(kept, r) = OwnArch(raw[i])
        BY <1>1, <4>2, SubjectFound
      <4> HIDE DEF arch, m
      <4> QED  BY <2>2, <3>2, <4>1, <4>3 DEF From
    <3> QED  BY <3>1, <3>2
  <2> HIDE DEF more, m, arch
  <2>6. Digests(more) = Digests(kept) \cup {r.digest}
    <3>1. ToSet(more) = ToSet(kept) \cup {m}
      BY <2>3, <2>4 DEF ToSet
    <3> QED  BY <2>2, <3>1 DEF Digests
  <2>7. Distinct(more)
    <3>1. \A i \in 1..Len(kept) : kept[i].digest # r.digest
      BY <1>6, <2>4 DEF Digests, ToSet
    <3> QED  BY <1>2, <2>2, <2>3, <2>4, <3>1 DEF Distinct
  <2>8. \A k \in DOMAIN more : \E j \in 1..n : From(raw, j, more[k])
    <3>1. ASSUME NEW k \in DOMAIN more PROVE \E j \in 1..n : From(raw, j, more[k])
      <4>1. CASE k = Len(kept) + 1
        BY <1>1, <2>3, <2>5, <4>1
      <4>2. CASE k # Len(kept) + 1
        <5>1. k \in DOMAIN kept /\ more[k] = kept[k]
          BY <2>3, <2>4, <4>2
        <5> QED  BY <1>3, <5>1
      <4> QED  BY <4>1, <4>2
    <3> QED  BY <3>1
  <2>9. \A j \in 1..n : ~Carried(raw[j]) => raw[j].digest \in Digests(more)
    BY <1>1, <1>2, <2>6
  <2>10. \A j \in 1..n : \A i \in 1..j - 1 :
            Carried(raw[j]) /\ raw[j].subject = raw[i].digest /\ OwnArch(raw[i]) # None =>
              raw[j].digest \in Digests(more)
    BY <1>1, <1>2, <2>6
  <2> QED  BY <2>1, <2>3, <2>7, <2>8, <2>9, <2>10 DEF KeptSoFar
<1> QED  BY <1>4, <1>5, <1>6

\* What SynthesizeIndex makes of an index (synthesize-index.go:29-123).
LEMMA Synthesized ==
    ASSUME NEW raw, Staged(raw)
    PROVE  KeptSoFar(raw, Len(raw), SynthesizeIndex(raw))
<1>1. Len(raw) \in Nat
  BY ListOf DEF Staged
<1>2. PICK f : /\ f[0] = <<>> /\ f[Len(raw)] = SynthesizeIndex(raw)
               /\ \A n \in 1..Len(raw) : f[n] = Seen(f[n - 1], raw[n])
  BY <1>1, LoopRuns
<1> DEFINE Wrong == {n \in 0..Len(raw) : ~KeptSoFar(raw, n, f[n])}
<1>3. Wrong = {}
  <2> SUFFICES ASSUME Wrong # {} PROVE FALSE
    OBVIOUS
  <2>1. PICK n \in Wrong : \A k \in Wrong : n <= k
    <3>1. Wrong \subseteq Nat
      BY <1>1
    <3> HIDE DEF Wrong
    <3> QED  BY <3>1, Least
  <2>2. n \in 0..Len(raw) /\ ~KeptSoFar(raw, n, f[n])
    BY <2>1
  <2>3. CASE n = 0
    <3>1. DOMAIN <<>> = 1..0
      OBVIOUS
    <3>2. IsList(<<>>)
      BY EmptySeq DEF IsList
    <3>3. KeptSoFar(raw, 0, <<>>)
      BY <3>2 DEF KeptSoFar, Distinct
    <3> QED  BY <1>2, <2>2, <2>3, <3>3
  <2>4. CASE n # 0
    <3>1. n \in 1..Len(raw) /\ n - 1 \in 0..Len(raw) /\ n - 1 < n
      BY <1>1, <2>2, <2>4
    <3>2. KeptSoFar(raw, n - 1, f[n - 1])
      BY <1>1, <2>1, <3>1
    <3>3. f[n] = Seen(f[n - 1], raw[n])
      BY <1>2, <3>1
    <3> QED  BY <2>2, <3>1, <3>2, <3>3, OneTurn
  <2> QED  BY <2>3, <2>4
<1> QED  BY <1>1, <1>2, <1>3

(***************************************************************************)
(* What of it is deployed.                                                 *)
(***************************************************************************)

\* What of an index in the staging registry is for our tags.
Ours(raw) ==
    {m \in ToSet(SynthesizeIndex(raw)) : m.arch = Arch /\ m.kind # "signature"}

\* The index of one architecture, and each of its descriptors is one of the
\* staging registry (main.go:215-226).
LEMMA OfArchIs ==
    ASSUME NEW raw, Staged(raw)
    PROVE  LET index == OfArch(SynthesizeIndex(raw)) IN
           /\ IsList(index) /\ Distinct(index)
           /\ ToSet(index) = {m \in ToSet(SynthesizeIndex(raw)) : m.arch = Arch}
           /\ \A m \in ToSet(SynthesizeIndex(raw)) :
                 \E j \in 1..Len(raw) : From(raw, j, m) /\ raw[j] \in ToSet(raw)
<1> DEFINE all == SynthesizeIndex(raw)
           positions == {i \in DOMAIN all : all[i].arch = Arch}
<1>1. KeptSoFar(raw, Len(raw), all)
  BY Synthesized
<1> HIDE DEF all
<1>2. IsList(all) /\ Distinct(all) /\ \A k \in DOMAIN all : \E j \in 1..Len(raw) : From(raw, j, all[k])
  BY <1>1 DEF KeptSoFar
<1>3. /\ IsList(Those(all, positions)) /\ Distinct(Those(all, positions))
      /\ ToSet(Those(all, positions)) = {all[i] : i \in positions}
  BY <1>2, ThoseAre
<1>4. {all[i] : i \in positions} = {m \in ToSet(all) : m.arch = Arch}
  BY DEF ToSet
<1>5. \A j \in 1..Len(raw) : raw[j] \in ToSet(raw)
  BY ListOf DEF Staged
<1>6. \A m \in ToSet(all) : \E j \in 1..Len(raw) : From(raw, j, m) /\ raw[j] \in ToSet(raw)
  BY <1>2, <1>5 DEF ToSet
<1>7. OfArch(all) = Those(all, positions)
  BY DEF OfArch
<1> QED  BY <1>3, <1>4, <1>6, <1>7 DEF all

\* What deploy.jq takes of a build that is resolved (deploy.jq:21-27).
LEMMA DeployedOfAre ==
    ASSUME NEW b, Staged(b.raw), Resolve(b).resolved # <<>>
    PROVE  LET deployed == DeployedOf(Resolve(b).resolved) IN
           /\ IsList(deployed) /\ Distinct(deployed)
           /\ ToSet(deployed) = Ours(b.raw)
<1> DEFINE index == OfArch(SynthesizeIndex(b.raw))
           resolved == Resolve(b).resolved
           positions == {i \in DOMAIN resolved : Deployed(resolved[i])}
           signed == {i \in DOMAIN index : index[i].kind # "signature"}
<1>1. /\ IsList(index) /\ Distinct(index)
      /\ ToSet(index) = {m \in ToSet(SynthesizeIndex(b.raw)) : m.arch = Arch}
  BY OfArchIs
<1>2. resolved = Unsigned(index) \/ resolved = index
  BY DEF Resolve
<1> HIDE DEF index, resolved
<1>3. /\ IsList(Unsigned(index)) /\ Distinct(Unsigned(index))
      /\ ToSet(Unsigned(index)) = {index[i] : i \in signed}
  BY <1>1, ThoseAre DEF Unsigned
<1>4. ToSet(Unsigned(index)) = {m \in ToSet(index) : m.kind # "signature"}
  BY <1>3 DEF ToSet
<1>5. IsList(resolved) /\ Distinct(resolved)
  BY <1>1, <1>2, <1>3
<1>6. {m \in ToSet(resolved) : m.kind # "signature"} = {m \in ToSet(index) : m.kind # "signature"}
  BY <1>2, <1>4
<1>7. /\ IsList(Those(resolved, positions)) /\ Distinct(Those(resolved, positions))
      /\ ToSet(Those(resolved, positions)) = {resolved[i] : i \in positions}
  BY <1>5, ThoseAre
<1>8. {resolved[i] : i \in positions} = {m \in ToSet(resolved) : m.arch = Arch /\ m.kind # "signature"}
  BY DEF ToSet, Deployed
<1>9. {m \in ToSet(resolved) : m.arch = Arch /\ m.kind # "signature"} = Ours(b.raw)
  BY <1>1, <1>6 DEF Ours
<1>10. DeployedOf(resolved) = Those(resolved, positions)
  BY DEF DeployedOf
<1> QED  BY <1>7, <1>8, <1>9, <1>10 DEF resolved

\* An attestation that is deployed has its image deployed with it.
LEMMA OursAre ==
    ASSUME NEW raw, Staged(raw), NEW m \in Ours(raw)
    PROVE  /\ m.platform \in DOMAIN Rank
           /\ \E j \in 1..Len(raw) : m.digest = raw[j].digest /\ m.subject = raw[j].subject
           /\ \/ m.kind = "image" /\ m.subject = None
              \/ /\ m.kind = "attestation" /\ m.subject # None
                 /\ \E s \in Ours(raw) : s.kind = "image" /\ s.digest = m.subject
<1>1. PICK j \in 1..Len(raw) : From(raw, j, m) /\ raw[j] \in ToSet(raw)
  BY OfArchIs DEF Ours
<1> DEFINE r == raw[j]
<1>2. /\ m.digest = r.digest /\ m.kind = r.kind /\ m.subject = r.subject
      /\ m.platform = PlatformOf(r) /\ m.arch = Arch /\ m.kind # "signature"
  BY <1>1 DEF From, Annotated, Ours
<1>3. m.platform \in DOMAIN Rank /\ (r.kind = "image" \/ r.kind = "attestation")
  BY <1>1, <1>2 DEF Staged
<1>4. CASE r.kind = "image"
  BY <1>1, <1>2, <1>3, <1>4 DEF Staged
<1>5. CASE r.kind = "attestation"
  <2>1. PICK i \in 1..j - 1 : /\ raw[i].digest = r.subject /\ ~Carried(raw[i])
                              /\ m.arch = OwnArch(raw[i])
    BY <1>1, <1>5 DEF From, Carried
  <2>2. /\ i \in 1..Len(raw) /\ raw[i] \in ToSet(raw)
        /\ \A k \in 1..Len(raw) : raw[k] \in ToSet(raw)
    BY ListOf DEF Staged
  <2>3. raw[i].digest \in Digests(SynthesizeIndex(raw))
    BY <2>1, <2>2, Synthesized DEF KeptSoFar
  <2>4. PICK s \in ToSet(SynthesizeIndex(raw)) : s.digest = raw[i].digest
    BY <2>3 DEF Digests
  <2>5. PICK k \in 1..Len(raw) : From(raw, k, s)
    BY OfArchIs
  <2>6. raw[k] = raw[i]
    BY <2>2, <2>4, <2>5 DEF From, Annotated, Staged
  <2>7. s.arch = Arch
    BY <1>2, <2>1, <2>5, <2>6 DEF From
  <2>8. s.kind = "image"
    <3>1. s.kind = raw[i].kind
      BY <2>5, <2>6 DEF From, Annotated
    <3> QED  BY <2>1, <2>2, <3>1 DEF Carried, Staged
  <2>9. s \in Ours(raw)
    BY <2>7, <2>8 DEF Ours
  <2>10. m.subject # None
    BY <1>2, <2>1, <2>2 DEF Staged
  <2> QED  BY <1>2, <1>3, <1>5, <2>1, <2>4, <2>8, <2>9, <2>10
<1> QED  BY <1>3, <1>4, <1>5

\* The digests of what is deployed are those that should be.
LEMMA OursAreWanted ==
    ASSUME NEW raw, Staged(raw)
    PROVE  {m.digest : m \in Ours(raw)} = Wanted(raw)
<1> DEFINE all == SynthesizeIndex(raw)
<1>1. /\ Len(raw) \in Nat /\ DOMAIN raw = 1..Len(raw)
      /\ \A i \in 1..Len(raw) : raw[i] \in ToSet(raw)
  BY ListOf DEF Staged
<1>2. KeptSoFar(raw, Len(raw), all)
  BY Synthesized
<1>3. \A m \in ToSet(all) : \E j \in 1..Len(raw) : From(raw, j, m)
  BY OfArchIs
<1> HIDE DEF all
<1>4. \A i \in 1..Len(raw) : IsOurs(raw[i]) <=> ~Carried(raw[i]) /\ OwnArch(raw[i]) = Arch
  BY IndexesAssumption DEF IsOurs, OwnArch
<1>5. ASSUME NEW d, \E i \in 1..Len(raw) : raw[i].digest = d
      PROVE  \E i \in 1..Len(raw) : raw[i].digest = d /\ Counted(raw, i)
  <2> DEFINE S == {i \in 1..Len(raw) : raw[i].digest = d}
  <2>1. S \subseteq Nat /\ S # {}
    BY <1>1, <1>5
  <2>2. PICK i \in S : \A k \in S : i <= k
    <3> HIDE DEF S
    <3> QED  BY <2>1, Least
  <2>3. \A j \in 1..i - 1 : raw[j].digest # d
    BY <1>1, <2>2
  <2> QED  BY <2>2, <2>3 DEF Counted
<1>6. \A i, k \in 1..Len(raw) : raw[i].digest = raw[k].digest => raw[i] = raw[k]
  BY <1>1 DEF Staged
<1>7. ASSUME NEW m \in Ours(raw) PROVE m.digest \in Wanted(raw)
  <2>1. PICK j \in 1..Len(raw) : From(raw, j, m)
    BY <1>3 DEF Ours, all
  <2>2. m.digest = raw[j].digest /\ m.kind = raw[j].kind /\ m.arch = Arch /\ m.kind # "signature"
    BY <2>1 DEF From, Annotated, Ours
  <2>3. CASE ~Carried(raw[j])
    <3>1. PICK i \in 1..Len(raw) : raw[i].digest = m.digest /\ Counted(raw, i)
      BY <1>5, <2>2
    <3>2. IsOurs(raw[i])
      BY <1>4, <1>6, <2>1, <2>2, <2>3, <3>1 DEF From
    <3> QED  BY <1>1, <3>1, <3>2 DEF Wanted
  <2>4. CASE Carried(raw[j])
    <3>1. PICK i \in 1..j - 1 : /\ raw[i].digest = raw[j].subject /\ ~Carried(raw[i])
                                /\ m.arch = OwnArch(raw[i])
      BY <2>1, <2>4 DEF From
    <3>2. i \in 1..Len(raw) /\ j \in Nat
      BY <1>1
    <3>3. PICK k \in 1..Len(raw) : raw[k].digest = raw[i].digest /\ Counted(raw, k)
      BY <1>5, <3>2
    <3>4. k <= i
      BY <1>1, <3>2, <3>3 DEF Counted
    <3>5. IsOurs(raw[k])
      BY <1>4, <1>6, <2>2, <3>1, <3>2, <3>3
    <3>6. k \in 1..j - 1
      BY <3>2, <3>4
    <3>7. Attests(raw, j)
      BY <2>2, <2>4, <3>1, <3>3, <3>5, <3>6 DEF Attests, Carried
    <3> QED  BY <1>1, <2>2, <3>7 DEF Wanted
  <2> QED  BY <2>3, <2>4
<1>8. ASSUME NEW i \in 1..Len(raw), IsOurs(raw[i]) \/ Attests(raw, i)
      PROVE  \E m \in Ours(raw) : m.digest = raw[i].digest
  <2>1. raw[i].digest \in Digests(all)
    <3>1. CASE IsOurs(raw[i])
      BY <1>2, <3>1 DEF KeptSoFar, IsOurs
    <3>2. CASE Attests(raw, i)
      <4>1. PICK j \in 1..i - 1 : IsOurs(raw[j]) /\ raw[j].digest = raw[i].subject
        BY <3>2 DEF Attests
      <4>2. Carried(raw[i]) /\ j \in 1..Len(raw)
        BY <1>1, <3>2 DEF Attests, Carried
      <4>3. OwnArch(raw[j]) # None
        BY <1>4, <4>1, <4>2, IndexesAssumption
      <4> QED  BY <1>2, <4>1, <4>2, <4>3 DEF KeptSoFar
    <3> QED  BY <1>8, <3>1, <3>2
  <2>2. PICK m \in ToSet(all) : m.digest = raw[i].digest
    BY <2>1 DEF Digests
  <2>3. PICK k \in 1..Len(raw) : From(raw, k, m)
    BY <1>3
  <2>4. raw[k] = raw[i] /\ m.kind = raw[i].kind
    BY <1>6, <2>2, <2>3 DEF From, Annotated
  <2>5. m.arch = Arch /\ m.kind # "signature"
    <3>1. CASE IsOurs(raw[i])
      BY <1>4, <2>3, <2>4, <3>1 DEF From, IsOurs, Carried
    <3>2. CASE Attests(raw, i)
      <4>1. PICK j \in 1..i - 1 : IsOurs(raw[j]) /\ raw[j].digest = raw[i].subject
        BY <3>2 DEF Attests
      <4>2. raw[i].kind = "attestation" /\ Carried(raw[i]) /\ j \in 1..Len(raw)
        BY <1>1, <3>2 DEF Attests, Carried
      <4>3. PICK h \in 1..k - 1 : raw[h].digest = raw[k].subject /\ m.arch = OwnArch(raw[h])
        BY <2>3, <2>4, <4>2 DEF From
      <4>4. h \in 1..Len(raw)
        BY <1>1
      <4>5. raw[h] = raw[j]
        BY <1>6, <2>4, <4>1, <4>2, <4>3, <4>4
      <4> QED  BY <1>4, <2>4, <4>1, <4>2, <4>3, <4>5
    <3> QED  BY <1>8, <3>1, <3>2
  <2> QED  BY <2>2, <2>5 DEF Ours, all
<1>9. ASSUME NEW d \in Wanted(raw) PROVE \E m \in Ours(raw) : m.digest = d
  <2>1. PICK i \in 1..Len(raw) : d = raw[i].digest /\ (IsOurs(raw[i]) \/ Attests(raw, i))
    BY <1>1 DEF Wanted
  <2> QED  BY <1>8, <2>1
<1> QED  BY <1>7, <1>9

\* What a sort does to a list of descriptors.
LEMMA SortKeeps ==
    ASSUME NEW list, IsList(list), NEW key, \A i \in DOMAIN list : key[i] \in Int
    PROVE  /\ IsList(SortBy(list, key)) /\ ToSet(SortBy(list, key)) = ToSet(list)
           /\ Distinct(list) => Distinct(SortBy(list, key))
<1>1. PICK order \in [DOMAIN list -> DOMAIN list] :
               /\ IsList(SortBy(list, key)) /\ Len(SortBy(list, key)) = Len(list)
               /\ DOMAIN SortBy(list, key) = DOMAIN list
               /\ \A n \in DOMAIN list : SortBy(list, key)[n] = list[order[n]]
               /\ \A i \in DOMAIN list : \E n \in DOMAIN list : order[n] = i
               /\ \A n, k \in DOMAIN list : n < k => key[order[n]] <= key[order[k]]
               /\ \A n, k \in DOMAIN list : order[n] = order[k] => n = k
  BY SortedIs
<1>2. ToSet(SortBy(list, key)) = ToSet(list)
  BY <1>1 DEF ToSet
<1>3. ASSUME Distinct(list) PROVE Distinct(SortBy(list, key))
  <2>1. \A n \in DOMAIN list : order[n] \in DOMAIN list
    BY <1>1
  <2> SUFFICES ASSUME NEW n \in DOMAIN list, NEW k \in DOMAIN list,
                      list[order[n]].digest = list[order[k]].digest
               PROVE  n = k
    BY <1>1 DEF Distinct
  <2>2. order[n] = order[k]
    BY <1>3, <2>1 DEF Distinct
  <2> QED  BY <1>1, <2>2
<1> QED  BY <1>1, <1>2, <1>3

\* Where a digest that is listed is first.
LEMMA FirstIs ==
    ASSUME NEW list, IsList(list), NEW m \in ToSet(list)
    PROVE  FirstIndex(list, m.digest) \in DOMAIN list /\ list[FirstIndex(list, m.digest)].digest = m.digest
<1> DEFINE I == {k \in 1..Len(list) : list[k].digest = m.digest}
<1>1. DOMAIN list = 1..Len(list) /\ Len(list) \in Nat
  BY ListOf
<1>2. I # {} /\ I \subseteq Nat
  BY <1>1 DEF ToSet
<1>3. \E k \in I : \A n \in I : k <= n
  BY <1>2, Least
<1>4. FirstIndex(list, m.digest) \in I
  <2>1. FirstIndex(list, m.digest) = CHOOSE k \in I : \A n \in I : k <= n
    BY <1>2 DEF FirstIndex, SelectInSeq, Min
  <2> HIDE DEF I
  <2> QED  BY <1>3, <2>1
<1> QED  BY <1>1, <1>4

\* sort_attestations on images and what is about them, however many and in any
\* order: what is about an image comes behind it, with nothing between but what is
\* about it too (oci.jq:84-92).
LEMMA BehindSubject ==
    ASSUME NEW list, IsList(list),
           \A m \in ToSet(list) : m.subject # None => \E s \in ToSet(list) : s.digest = m.subject,
           \A m, s \in ToSet(list) : m.subject # None /\ s.digest = m.subject => s.subject = None
    PROVE  LET final == SortAttestations(list) IN
           /\ IsList(final) /\ ToSet(final) = ToSet(list)
           /\ \A i \in DOMAIN final : final[i].subject # None =>
                 /\ i - 1 \in DOMAIN final
                 /\ final[i].subject \in {final[i - 1].digest, final[i - 1].subject}
<1> DEFINE key == [i \in DOMAIN list |-> AttestationKey(list, list[i])]
           of(i) == IF list[i].subject # None THEN list[i].subject ELSE list[i].digest
           at(i) == FirstIndex(list, of(i))
<1>1. DOMAIN list = 1..Len(list) /\ Len(list) \in Nat /\ \A i \in DOMAIN list : list[i] \in ToSet(list)
  BY ListOf
<1>2. ASSUME NEW i \in DOMAIN list
      PROVE  /\ at(i) \in DOMAIN list /\ list[at(i)].digest = of(i)
             /\ key[i] = IF list[i].subject # None THEN 2 * at(i) + 1 ELSE 2 * at(i)
  <2>1. \E s \in ToSet(list) : s.digest = of(i)
    BY <1>1
  <2>2. at(i) \in DOMAIN list /\ list[at(i)].digest = of(i)
    BY <2>1, FirstIs
  <2>3. key[i] = IF list[i].subject # None THEN 2 * at(i) + 1 ELSE 2 * at(i)
    BY DEF AttestationKey
  <2> QED  BY <2>2, <2>3
<1>3. \A i \in DOMAIN list : key[i] \in Int
  BY <1>1, <1>2
<1>4. SortAttestations(list) = SortBy(list, key)
  BY DEF SortAttestations
<1>5. \A i, j \in DOMAIN list : of(i) = of(j) => at(i) = at(j)
  OBVIOUS
<1> HIDE DEF key, at
<1>6. PICK order \in [DOMAIN list -> DOMAIN list] :
               /\ IsList(SortBy(list, key)) /\ Len(SortBy(list, key)) = Len(list)
               /\ DOMAIN SortBy(list, key) = DOMAIN list
               /\ \A n \in DOMAIN list : SortBy(list, key)[n] = list[order[n]]
               /\ \A i \in DOMAIN list : \E n \in DOMAIN list : order[n] = i
               /\ \A n, k \in DOMAIN list : n < k => key[order[n]] <= key[order[k]]
               /\ \A n, k \in DOMAIN list : order[n] = order[k] => n = k
  BY <1>3, SortedIs
<1> DEFINE final == SortBy(list, key)
<1> HIDE DEF final
<1>7. ToSet(final) = ToSet(list)
  BY <1>3, SortKeeps DEF final
<1>8. ASSUME NEW i \in DOMAIN final, final[i].subject # None
      PROVE  /\ i - 1 \in DOMAIN final
             /\ final[i].subject \in {final[i - 1].digest, final[i - 1].subject}
  <2> DEFINE x == order[i]
             k == at(x)
  <2>1. i \in DOMAIN list /\ x \in DOMAIN list /\ final[i] = list[x] /\ list[x].subject # None
    BY <1>6, <1>8 DEF final
  <2>2. /\ k \in DOMAIN list /\ list[k].digest = list[x].subject /\ list[k].subject = None
        /\ key[x] = 2 * k + 1
    <3>1. k \in DOMAIN list /\ list[k].digest = list[x].subject /\ key[x] = 2 * k + 1
      BY <1>2, <2>1
    <3>2. list[k].subject = None
      BY <1>1, <2>1, <3>1
    <3> QED  BY <3>1, <3>2
  <2>3. key[k] = 2 * k
    <3>1. of(k) = of(x)
      BY <2>1, <2>2
    <3>2. at(k) = k
      BY <1>5, <2>1, <2>2, <3>1
    <3> QED  BY <1>2, <2>2, <3>2
  <2> HIDE DEF x, k
  <2>4. PICK n \in DOMAIN list : order[n] = k
    BY <1>6, <2>2
  <2>5. n < i
    <3>1. n \in Int /\ i \in Int /\ k \in Int
      BY <1>1, <2>1, <2>2
    <3>2. n # i
      BY <2>2, <2>3, <2>4, <3>1 DEF x
    <3>3. ~(i < n)
      <4>1. i < n => key[x] <= key[k]
        BY <1>6, <2>1, <2>4 DEF x
      <4> QED  BY <2>2, <2>3, <3>1, <4>1
    <3> QED  BY <3>1, <3>2, <3>3
  <2>6. i - 1 \in DOMAIN list
    BY <1>1, <2>1, <2>5
  <2> DEFINE y == order[i - 1]
  <2>7. y \in DOMAIN list /\ final[i - 1] = list[y]
    BY <1>6, <2>6 DEF final
  <2>8. key[k] <= key[y] /\ key[y] <= key[x]
    <3>1. i - 1 < i /\ (n < i - 1 \/ n = i - 1) /\ n \in Int /\ i \in Int
      BY <1>1, <2>1, <2>5
    <3>2. key[y] <= key[x]
      BY <1>6, <2>1, <2>6, <3>1 DEF x
    <3>3. key[k] \in Int
      BY <1>3, <2>2
    <3>4. CASE n < i - 1
      <4>1. key[order[n]] <= key[y]
        BY <1>6, <2>4, <2>6, <3>4
      <4> QED  BY <2>4, <3>2, <4>1
    <3>5. CASE n = i - 1
      <4>1. y = k
        BY <2>4, <3>1, <3>5
      <4> QED  BY <3>2, <3>3, <4>1
    <3> QED  BY <3>1, <3>2, <3>4, <3>5
  <2> HIDE DEF y
  <2>9. at(y) = k /\ list[at(y)].digest = of(y)
    <3>1. at(y) \in Int /\ k \in Int
      BY <1>1, <1>2, <2>2, <2>7
    <3>2. key[y] = 2 * at(y) \/ key[y] = 2 * at(y) + 1
      BY <1>2, <2>7
    <3>3. at(y) = k
      BY <2>2, <2>3, <2>8, <3>1, <3>2
    <3> QED  BY <1>2, <2>7, <3>3
  <2>10. of(y) = list[x].subject
    BY <2>2, <2>9
  <2>11. list[x].subject \in {list[y].digest, list[y].subject}
    BY <2>10
  <2>12. i - 1 \in DOMAIN final
    BY <1>6, <2>6 DEF final
  <2> QED  BY <2>1, <2>7, <2>11, <2>12
<1> QED  BY <1>4, <1>6, <1>7, <1>8 DEF final

(***************************************************************************)
(* What builds.json has, at any time.                                      *)
(***************************************************************************)

\* Builds as they come from the sources.
Sourced(sources) ==
    /\ IsList(sources)
    /\ \A b \in ToSet(sources) : Staged(b.raw) /\ IsList(b.keys) /\ b.tags # {}
    /\ Coherent(UNION {ToSet(b.raw) : b \in ToSet(sources)})

\* builds.json is of the sources as they were at some time, and of those of now
\* unless cmd/builds breaks on them.
BuildsFollow ==
    /\ history \in Histories /\ version \in 1..Len(history)
    /\ builds = <<>> \/ \E v \in 1..Len(history) : builds = BuildsJson(history[v])
    /\ ~Breaks(history[version]) => builds = BuildsJson(history[version])

\* Jenkinsfile.meta writes what cmd/builds makes of the sources, or nothing.
LEMMA BuildsFollowed == Spec => []BuildsFollow
<1>1. Init => BuildsFollow
  <2> SUFFICES ASSUME Init PROVE BuildsFollow
    OBVIOUS
  <2>1. history \in Histories /\ version = 1 /\ 1 \in 1..Len(history)
    BY PipelineAssumption DEF Init
  <2>2. builds = IF Breaks(history[1]) THEN <<>> ELSE BuildsJson(history[1])
    BY DEF Init
  <2> HIDE DEF Init
  <2> QED  BY <2>1, <2>2 DEF BuildsFollow
<1>2. BuildsFollow /\ [Next]_vars => BuildsFollow'
  <2> SUFFICES ASSUME BuildsFollow, [Next]_vars PROVE BuildsFollow'
    OBVIOUS
  <2>1. CASE Change
    <3>1. /\ version' = version + 1 /\ history' = history /\ version < Len(history)
          /\ Len(history) \in Nat
          /\ builds' = IF Breaks(history[version']) THEN builds ELSE BuildsJson(history[version'])
      BY <2>1, PipelineAssumption DEF Change, BuildsFollow
    <3>2. version' \in 1..Len(history)
      BY <3>1 DEF BuildsFollow
    <3>3. history' \in Histories /\ version' \in 1..Len(history')
      BY <3>1, <3>2 DEF BuildsFollow
    <3>4. ~Breaks(history'[version']) => builds' = BuildsJson(history'[version'])
      BY <3>1
    <3>5. builds' = <<>> \/ \E v \in 1..Len(history') : builds' = BuildsJson(history'[v])
      BY <3>1, <3>2 DEF BuildsFollow
    <3> QED  BY <3>3, <3>4, <3>5 DEF BuildsFollow
  <2>2. CASE UNCHANGED <<history, version, builds>>
    BY <2>2 DEF BuildsFollow
  <2> QED  BY <2>1, <2>2 DEF Next, Run, Generate, Filter, Push, Succeed, Fail, vars
<1> QED  BY <1>1, <1>2, PTL DEF Spec

\* What the sources have at any time.
LEMMA SourcesAre ==
    ASSUME NEW h \in Histories, NEW v \in 1..Len(h)
    PROVE  Sourced(h[v])
<1>1. v \in DOMAIN h
  BY PipelineAssumption
<1> QED  BY <1>1, SourcesAssumption DEF Sourced

\* The builds that a tag's list is made of.
Tagging(sources, t) ==
    {sources[i] : i \in {i \in DOMAIN sources :
                             t \in sources[i].tags /\ Resolve(sources[i]).resolved # <<>>}}

\* Nothing is deployed of a build that is not resolved.
LEMMA NothingDeployed ==
    /\ IsList(DeployedOf(<<>>)) /\ ToSet(DeployedOf(<<>>)) = {}
<1>1. IsList(<<>>) /\ ToSet(<<>>) = {} /\ DOMAIN <<>> = {}
  BY EmptySeq DEF IsList, ToSet
<1>2. {k \in DOMAIN <<>> : Deployed(<<>>[k])} = {}
  BY <1>1
<1>3. DeployedOf(<<>>) = Those(<<>>, {})
  BY <1>2 DEF DeployedOf
<1>4. IsList(Those(<<>>, {})) /\ ToSet(Those(<<>>, {})) = {<<>>[k] : k \in {}}
  BY <1>1, ThoseAre
<1> QED  BY <1>3, <1>4

\* The list of a tag has what is deployed of the builds that have the tag
\* (deploy.jq:14-33).
LEMMA TaggedAre ==
    ASSUME NEW sources, Sourced(sources), NEW t
    PROVE  LET list == TaggedManifests(BuildsJson(sources), t) IN
           /\ IsList(list)
           /\ \A m \in ToSet(list) : \E b \in ToSet(sources) :
                 m \in Ours(b.raw) /\ Ours(b.raw) \subseteq ToSet(list)
           /\ ToSet(list) = UNION {Ours(b.raw) : b \in Tagging(sources, t)}
           /\ \A b : sources = <<b>> /\ t \in b.tags =>
                 list = DeployedOf(Resolve(b).resolved)
<1> DEFINE bs == BuildsJson(sources)
           lists == [i \in DOMAIN bs |->
                        IF t \in bs[i].tags THEN DeployedOf(bs[i].resolved) ELSE <<>>]
<1>1. /\ Len(sources) \in Nat /\ DOMAIN sources = 1..Len(sources)
      /\ \A i \in DOMAIN sources : sources[i] \in ToSet(sources) /\ Staged(sources[i].raw)
  BY ListOf DEF Sourced
<1>2. DOMAIN bs = DOMAIN sources /\ \A i \in DOMAIN sources : bs[i] = Resolve(sources[i])
  BY DEF BuildsJson
<1>3. \A i \in DOMAIN sources : bs[i].tags = sources[i].tags
  BY <1>2 DEF Resolve
<1>4. IsList(<<>>) /\ ToSet(<<>>) = {} /\ DOMAIN <<>> = {}
  BY EmptySeq DEF IsList, ToSet
<1> HIDE DEF bs
<1>5. DOMAIN lists = 1..Len(sources) /\ lists = [i \in 1..Len(sources) |-> lists[i]]
  BY <1>1, <1>2
<1>6. IsList(lists) /\ Len(lists) = Len(sources)
  BY <1>1, <1>5, IsListOf
<1>7. ASSUME NEW i \in DOMAIN sources
      PROVE  /\ IsList(lists[i])
             /\ ToSet(lists[i]) = IF t \in sources[i].tags /\ bs[i].resolved # <<>>
                                  THEN Ours(sources[i].raw) ELSE {}
  <2>1. lists[i] = IF t \in bs[i].tags THEN DeployedOf(bs[i].resolved) ELSE <<>>
    BY <1>2
  <2>2. CASE t \notin bs[i].tags
    BY <1>3, <1>4, <2>1, <2>2
  <2>3. CASE t \in bs[i].tags /\ bs[i].resolved # <<>>
    BY <1>1, <1>2, <1>3, <2>1, <2>3, DeployedOfAre
  <2>4. CASE t \in bs[i].tags /\ bs[i].resolved = <<>>
    BY <2>1, <2>4, NothingDeployed
  <2> QED  BY <2>2, <2>3, <2>4
<1>8. /\ IsList(FlattenSeq(lists))
      /\ ToSet(FlattenSeq(lists)) = UNION {ToSet(lists[i]) : i \in DOMAIN lists}
      /\ Len(lists) = 1 => FlattenSeq(lists) = lists[1]
  BY <1>1, <1>5, <1>6, <1>7, Flattened
<1>9. TaggedManifests(bs, t) = FlattenSeq(lists)
  BY DEF TaggedManifests
<1>10. ASSUME NEW m \in ToSet(FlattenSeq(lists))
       PROVE  \E b \in ToSet(sources) :
                  m \in Ours(b.raw) /\ Ours(b.raw) \subseteq ToSet(FlattenSeq(lists))
  <2>1. PICK i \in DOMAIN sources : m \in ToSet(lists[i])
    BY <1>1, <1>5, <1>8
  <2>2. ToSet(lists[i]) = Ours(sources[i].raw)
    BY <1>7, <2>1
  <2>3. ToSet(lists[i]) \subseteq ToSet(FlattenSeq(lists))
    BY <1>1, <1>5, <1>8
  <2> HIDE DEF lists
  <2> QED  BY <1>1, <2>1, <2>2, <2>3
<1>11. ASSUME NEW b, sources = <<b>>, t \in b.tags
       PROVE  FlattenSeq(lists) = DeployedOf(Resolve(b).resolved)
  <2>1. Len(sources) = 1 /\ 1 \in DOMAIN sources /\ sources[1] = b
    BY <1>11
  <2>2. bs[1] = Resolve(b) /\ bs[1].tags = b.tags
    BY <1>2, <1>3, <2>1
  <2>3. lists[1] = DeployedOf(Resolve(b).resolved)
    BY <1>2, <1>11, <2>1, <2>2
  <2> HIDE DEF lists
  <2> QED  BY <1>6, <1>8, <2>1, <2>3
<1>12. ToSet(FlattenSeq(lists)) = UNION {Ours(b.raw) : b \in Tagging(sources, t)}
  <2> DEFINE having == {i \in DOMAIN sources : t \in sources[i].tags /\ bs[i].resolved # <<>>}
  <2>1. Tagging(sources, t) = {sources[i] : i \in having}
    BY <1>2 DEF Tagging
  <2>2. DOMAIN lists = DOMAIN sources
    BY <1>1, <1>5
  <2> HIDE DEF lists
  <2>3. UNION {ToSet(lists[i]) : i \in DOMAIN sources} = UNION {Ours(sources[i].raw) : i \in having}
    BY <1>7
  <2> QED  BY <1>8, <2>1, <2>2, <2>3
<1> HIDE DEF lists
<1> QED  BY <1>8, <1>9, <1>10, <1>11, <1>12 DEF bs

\* Making deploy.json never fails (oci.jq:84-92).
LEMMA NeverFails ==
    ASSUME NEW sources, Sourced(sources)
    PROVE  ~DeployFails(BuildsJson(sources))
<1> DEFINE bs == BuildsJson(sources)
<1>1. ASSUME NEW t PROVE Sortable(TaggedManifests(bs, t))
  <2> DEFINE list == TaggedManifests(bs, t)
  <2>1. ASSUME NEW m \in ToSet(list) PROVE m.subject \in Digests(list) \cup {None}
    <3>1. PICK b \in ToSet(sources) : m \in Ours(b.raw) /\ Ours(b.raw) \subseteq ToSet(list)
      BY TaggedAre
    <3>2. Staged(b.raw)
      BY DEF Sourced
    <3> HIDE DEF list
    <3>3. m.subject = None \/ \E s \in Ours(b.raw) : s.digest = m.subject
      BY <3>1, <3>2, OursAre
    <3> QED  BY <3>1, <3>3 DEF Digests
  <2> HIDE DEF list
  <2>2. Sortable(list)
    BY <2>1 DEF Sortable
  <2> QED  BY <2>2 DEF list
<1> HIDE DEF bs
<1>2. ~DeployFails(bs)
  BY <1>1 DEF DeployFails
<1> QED  BY <1>2 DEF bs

\* What of a resolved build is deployed has one image (main.go:228-236).
LEMMA OneImage ==
    ASSUME NEW b, Staged(b.raw), Resolve(b).resolved # <<>>, ~Panics(b)
    PROVE  \E image \in Ours(b.raw) :
               /\ image.kind = "image" /\ \A m \in Ours(b.raw) : m.kind = "image" => m = image
               /\ \E i : Images(OfArch(SynthesizeIndex(b.raw))) = {i}
                         /\ OfArch(SynthesizeIndex(b.raw))[i] = image
<1> DEFINE index == OfArch(SynthesizeIndex(b.raw))
<1>1. /\ IsList(index) /\ Distinct(index)
      /\ ToSet(index) = {m \in ToSet(SynthesizeIndex(b.raw)) : m.arch = Arch}
  BY OfArchIs
<1>2. index # <<>> /\ Cardinality(Images(index)) = 1
  BY DEF Resolve, Panics
<1>3. \A m \in Ours(b.raw) : m \in ToSet(index)
  BY <1>1 DEF Ours
<1>4. \A m \in ToSet(index) : m.kind = "image" => m \in Ours(b.raw)
  BY <1>1 DEF Ours
<1> HIDE DEF index
<1>5. PICK x \in DOMAIN index : Images(index) = {x}
  <2>1. IsFiniteSet(Images(index))
    <3>1. DOMAIN index = 1..Len(index) /\ Len(index) \in Nat
      BY <1>1, ListOf
    <3>2. IsFiniteSet(1..Len(index))
      BY <3>1, UpTo
    <3>3. Images(index) \in SUBSET DOMAIN index /\ IsFiniteSet(DOMAIN index)
      BY <3>1, <3>2 DEF Images
    <3> QED  BY <3>3, FS_Subset
  <2>2. \E x : Images(index) = {x}
    BY <1>2, <2>1, FS_Singleton
  <2> QED  BY <2>2 DEF Images
<1>6. index[x] \in ToSet(index) /\ index[x].kind = "image"
  BY <1>5 DEF Images, ToSet
<1>7. \A m \in ToSet(index) : m.kind = "image" => m = index[x]
  BY <1>5 DEF Images, ToSet
<1>8. index[x] \in Ours(b.raw)
  BY <1>4, <1>6
<1> QED  BY <1>3, <1>5, <1>6, <1>7, <1>8 DEF index

\* The payloads of an index are those of its signatures (registry/cosign.go:37-115).
LEMMA SignaturesAre ==
    ASSUME NEW raw, Staged(raw)
    PROVE  LET index == OfArch(SynthesizeIndex(raw))
               signatures == CosignSignatures(index)
               signs == {m \in ToSet(index) : m.kind = "signature"}
           IN  /\ IsList(signatures)
               /\ \A p \in ToSet(signatures) : \E m \in signs : p \in ToSet(Payloads[m.digest])
               /\ \A m \in signs :
                     /\ IsList(Payloads[m.digest]) /\ ToSet(Payloads[m.digest]) \subseteq ToSet(signatures)
                     /\ \E r \in ToSet(raw) : r.kind = "signature" /\ r.digest = m.digest
<1> DEFINE index == OfArch(SynthesizeIndex(raw))
           signatures == CosignSignatures(index)
           signs == {m \in ToSet(index) : m.kind = "signature"}
           lists == [i \in DOMAIN index |->
                        IF index[i].kind = "signature" THEN Payloads[index[i].digest] ELSE <<>>]
<1>1. /\ IsList(index)
      /\ \A s \in ToSet(index) : \E j \in 1..Len(raw) : From(raw, j, s) /\ raw[j] \in ToSet(raw)
  BY OfArchIs
<1> HIDE DEF index
<1>2. ASSUME NEW s \in signs
      PROVE  IsList(Payloads[s.digest]) /\ \E r \in ToSet(raw) : r.kind = "signature" /\ r.digest = s.digest
  <2>1. PICK r \in ToSet(raw) : r.kind = "signature" /\ r.digest = s.digest
    BY <1>1 DEF From, Annotated
  <2>2. r.digest \in DOMAIN Payloads
    BY <2>1 DEF Staged
  <2> QED  BY <2>1, <2>2, IndexesAssumption
<1>3. IsList(<<>>) /\ ToSet(<<>>) = {}
  BY EmptySeq DEF IsList, ToSet
<1>4. Len(index) \in Nat /\ DOMAIN index = 1..Len(index) /\ \A i \in DOMAIN index : index[i] \in ToSet(index)
  BY <1>1, ListOf
<1>5. DOMAIN lists = 1..Len(index) /\ lists = [i \in 1..Len(index) |-> lists[i]]
  BY <1>4
<1>6. \A i \in DOMAIN index : IsList(lists[i])
  BY <1>2, <1>3, <1>4
<1>7. \A i \in DOMAIN index :
         lists[i] = IF index[i].kind = "signature" THEN Payloads[index[i].digest] ELSE <<>>
  OBVIOUS
<1>8. signatures = FlattenSeq(lists)
  BY DEF CosignSignatures
<1> HIDE DEF lists, signatures
<1>9. IsList(signatures) /\ ToSet(signatures) = UNION {ToSet(lists[i]) : i \in DOMAIN index}
  <2>1. IsList(lists)
    BY <1>4, <1>5, IsListOf
  <2> QED  BY <1>4, <1>5, <1>6, <1>8, <2>1, Flattened
<1>10. ASSUME NEW p \in ToSet(signatures) PROVE \E m \in signs : p \in ToSet(Payloads[m.digest])
  <2>1. PICK k \in DOMAIN index : p \in ToSet(lists[k])
    BY <1>9
  <2> QED  BY <1>3, <1>4, <1>7, <2>1
<1>11. ASSUME NEW m \in signs PROVE ToSet(Payloads[m.digest]) \subseteq ToSet(signatures)
  <2>1. PICK k \in DOMAIN index : index[k] = m
    BY DEF ToSet
  <2> QED  BY <1>7, <1>9, <2>1
<1> QED  BY <1>2, <1>9, <1>10, <1>11 DEF signatures, index

\* A build that is resolved although there are keys is signed, or need not be
\* (main.go:513-673).
LEMMA ResolvedIsTrusted ==
    ASSUME NEW b, Staged(b.raw), IsList(b.keys), Resolve(b).resolved # <<>>, b.keys # <<>>,
           NEW m \in Ours(b.raw), m.kind = "image"
    PROVE  \/ /\ \E s \in {s \in ToSet(b.raw) : s.kind = "signature"} :
                    \E p \in ToSet(Payloads[s.digest]) :
                        p.of = m.digest /\ p.fits /\ p.key \in ToSet(b.keys) \ {""}
              /\ Resolve(b).prodSignatures # <<>>
           \/ /\ "" \in ToSet(b.keys) /\ Resolve(b).prodSignatures = <<>>
              /\ \A s \in ToSet(Resolve(b).resolved) : s.kind = "signature" =>
                    Payloads[s.digest] = <<>>
<1> DEFINE index == OfArch(SynthesizeIndex(b.raw))
           signatures == CosignSignatures(index)
<1>1. m \in ToSet(index)
  BY OfArchIs DEF Ours
<1>2. /\ Resolve(b).resolved = index /\ ValidSignatureState(index, b.keys, signatures)
      /\ Resolve(b).prodSignatures = [i \in DOMAIN signatures |-> signatures[i].of]
  BY DEF Resolve, Signatures
<1>3. /\ IsList(signatures)
      /\ \A p \in ToSet(signatures) : \E s \in ToSet(index) :
            s.kind = "signature" /\ p \in ToSet(Payloads[s.digest])
      /\ \A s \in ToSet(index) : s.kind = "signature" =>
            /\ IsList(Payloads[s.digest]) /\ ToSet(Payloads[s.digest]) \subseteq ToSet(signatures)
            /\ \E r \in ToSet(b.raw) : r.kind = "signature" /\ r.digest = s.digest
  BY SignaturesAre
<1> HIDE DEF index, signatures
<1>4. DOMAIN <<>> = {} /\ ToSet(<<>>) = {}
  BY EmptySeq DEF ToSet
<1>5. CASE signatures = <<>>
  <2>1. "" \in ToSet(b.keys)
    BY <1>2, <1>5 DEF ValidSignatureState
  <2>2. Resolve(b).prodSignatures = <<>>
    <3>1. [i \in DOMAIN <<>> |-> <<>>[i].of] = <<>>
      BY <1>4
    <3> QED  BY <1>2, <1>5, <3>1
  <2>3. ASSUME NEW s \in ToSet(index), s.kind = "signature" PROVE Payloads[s.digest] = <<>>
    <3> DEFINE payloads == Payloads[s.digest]
    <3>1. IsList(payloads) /\ ToSet(payloads) = {}
      BY <1>3, <1>4, <1>5, <2>3
    <3> HIDE DEF payloads
    <3>2. /\ Len(payloads) \in Nat /\ DOMAIN payloads = 1..Len(payloads)
          /\ \A k \in DOMAIN payloads : payloads[k] \in ToSet(payloads)
      BY <3>1, ListOf
    <3>3. Len(payloads) = 0
      <4>1. Len(payloads) # 0 => 1 \in 1..Len(payloads)
        BY <3>2
      <4> QED  BY <3>1, <3>2, <4>1
    <3> QED  BY <3>1, <3>3, EmptySeq DEF IsList, payloads
  <2> QED  BY <1>2, <2>1, <2>2, <2>3
<1>6. CASE signatures # <<>>
  <2>1. PICK key \in ToSet(b.keys) \ {""} : AllByKey(signatures, key)
    BY <1>2, <1>6 DEF ValidSignatureState
  <2>2. PICK i \in Images(index) : index[i] = m
    BY <1>1 DEF Images, ToSet
  <2>3. PICK p \in ToSet(signatures) : p.of = m.digest /\ p.fits
    BY <1>2, <1>6, <2>2 DEF ValidSignatureState, MissingSignatures
  <2>4. p.key = key
    BY <2>1 DEF AllByKey
  <2>5. PICK r \in ToSet(b.raw) : r.kind = "signature" /\ p \in ToSet(Payloads[r.digest])
    BY <1>3
  <2>6. Resolve(b).prodSignatures # <<>>
    <3>1. PICK n \in DOMAIN signatures : signatures[n] = p
      BY DEF ToSet
    <3>2. DOMAIN Resolve(b).prodSignatures = DOMAIN signatures
      BY <1>2
    <3> QED  BY <1>4, <3>1, <3>2
  <2> QED  BY <2>3, <2>4, <2>5, <2>6
<1> QED  BY <1>5, <1>6

\* What is signed anew of a build is its image, once (main.go:548-582, 625-629).
LEMMA SignedIsDeployed ==
    ASSUME NEW b, Staged(b.raw), ~Panics(b), Resolve(b).prodSignatures # <<>>,
           NEW image \in Ours(b.raw), NEW x,
           Images(OfArch(SynthesizeIndex(b.raw))) = {x}, OfArch(SynthesizeIndex(b.raw))[x] = image
    PROVE  ToSet(Resolve(b).prodSignatures) = {image.digest} /\ Len(Resolve(b).prodSignatures) = 1
<1> DEFINE index == OfArch(SynthesizeIndex(b.raw))
           signatures == Signatures(index, b.keys)
           signed == Resolve(b).prodSignatures
<1>1. /\ ValidSignatureState(index, b.keys, signatures) /\ index # <<>>
      /\ signed = [i \in DOMAIN signatures |-> signatures[i].of]
  BY DEF Resolve
<1>2. ~TooMany(index, signatures)
  BY <1>1 DEF Panics
<1> HIDE DEF index, signatures, signed
<1>3. DOMAIN <<>> = {} /\ Len(<<>>) = 0
  BY EmptySeq
<1>4. signatures # <<>>
  <2>1. [i \in DOMAIN <<>> |-> <<>>[i].of] = <<>>
    BY <1>3
  <2> QED  BY <1>1, <2>1 DEF signed
<1>5. Cardinality(Images(index)) = 1
  BY FS_Singleton DEF index
<1>6. ~MissingSignatures(index, signatures)
  BY <1>1 DEF ValidSignatureState
<1>7. Len(signatures) = 1
  BY <1>2, <1>4, <1>5, <1>6 DEF TooMany
<1>8. PICK s \in ToSet(signatures) : s.of = image.digest
  BY <1>4, <1>6 DEF MissingSignatures, index
<1>9. DOMAIN signatures = 1..1
  <2>1. signatures = CosignSignatures(index)
    BY <1>4 DEF signatures, Signatures
  <2>2. IsList(CosignSignatures(index))
    BY SignaturesAre DEF index
  <2> QED  BY <1>7, <2>1, <2>2, ListOf
<1>10. signatures[1] = s
  BY <1>8, <1>9 DEF ToSet
<1>11. signed = [i \in 1..1 |-> image.digest]
  <2>1. \A i \in 1..1 : signatures[i].of = image.digest
    BY <1>8, <1>10
  <2> QED  BY <1>1, <1>9, <2>1
<1>12. DOMAIN signed = 1..1 /\ signed[1] = image.digest
  BY <1>11
<1>13. IsList(signed) /\ Len(signed) = 1
  BY <1>11, <1>12, IsListOf
<1>14. ToSet(signed) = {image.digest}
  BY <1>12 DEF ToSet
<1> QED  BY <1>13, <1>14 DEF signed

\* A build that is not resolved is not signed.
LEMMA UnresolvedUnsigned ==
    ASSUME NEW b, Resolve(b).resolved = <<>>
    PROVE  Resolve(b).prodSignatures = <<>>
<1> DEFINE index == OfArch(SynthesizeIndex(b.raw))
           signatures == Signatures(index, b.keys)
           valid == index # <<>> /\ ValidSignatureState(index, b.keys, signatures)
<1>1. CASE ~valid
  BY <1>1 DEF Resolve
<1>2. CASE valid
  <2>1. b.keys = <<>>
    BY <1>2 DEF Resolve
  <2>2. signatures = <<>>
    BY <2>1 DEF Signatures
  <2>3. Resolve(b).prodSignatures = [i \in DOMAIN signatures |-> signatures[i].of]
    BY <1>2 DEF Resolve
  <2> HIDE DEF signatures
  <2>4. DOMAIN <<>> = {}
    BY EmptySeq
  <2>5. [i \in DOMAIN <<>> |-> <<>>[i].of] = <<>>
    BY <2>4
  <2> QED  BY <2>2, <2>3, <2>5
<1> QED  BY <1>1, <1>2

\* With keys configured, whatever the staging registry has, an image that is
\* deployed is signed by one of the keys and for that image, or may be
\* unsigned; and what is signed anew is what is deployed, each image once
\* (main.go:513-673).
THEOREM OnlyTrusted == Spec => []Trusted
<1>1. BuildsFollow => Trusted
  <2> SUFFICES ASSUME BuildsFollow, Current, NEW i \in DOMAIN builds
               PROVE  LET b == history[version][i]
                          found == {m \in ToSet(b.raw) : m.kind = "signature"}
                          deployed == ToSet(DeployedOf(builds[i].resolved))
                          images == {m.digest : m \in {m \in deployed : m.kind = "image"}}
                          signed == builds[i].prodSignatures
                      IN  /\ signed # <<>> =>
                                ToSet(signed) = images /\ Len(signed) = Cardinality(images)
                          /\ b.keys # <<>> => \A image \in images :
                                \/ /\ \E s \in found : \E p \in ToSet(Payloads[s.digest]) :
                                         p.of = image /\ p.fits /\ p.key \in ToSet(b.keys) \ {""}
                                   /\ signed # <<>>
                                \/ /\ "" \in ToSet(b.keys) /\ signed = <<>>
                                   /\ \A s \in ToSet(builds[i].resolved) : s.kind = "signature" =>
                                         Payloads[s.digest] = <<>>
    BY DEF Trusted
  <2> DEFINE b == history[version][i]
             deployed == ToSet(DeployedOf(Resolve(b).resolved))
             images == {m.digest : m \in {m \in deployed : m.kind = "image"}}
  <2>1. builds = BuildsJson(history[version]) /\ Sourced(history[version])
    BY SourcesAre DEF BuildsFollow, Current
  <2>2. i \in DOMAIN history[version] /\ builds[i] = Resolve(b)
    BY <2>1 DEF BuildsJson
  <2>3. b \in ToSet(history[version]) /\ ~Panics(b)
    BY <2>2 DEF ToSet, Current, Breaks
  <2>4. Staged(b.raw) /\ IsList(b.keys)
    BY <2>1, <2>3 DEF Sourced
  <2> HIDE DEF b
  <2>5. CASE Resolve(b).resolved = <<>>
    <3>1. deployed = {} /\ Resolve(b).prodSignatures = <<>>
      BY <2>5, NothingDeployed, UnresolvedUnsigned
    <3> QED  BY <2>2, <3>1 DEF b
  <2>6. CASE Resolve(b).resolved # <<>>
    <3>1. deployed = Ours(b.raw)
      BY <2>4, <2>6, DeployedOfAre
    <3>2. PICK image \in Ours(b.raw) :
              /\ image.kind = "image" /\ \A m \in Ours(b.raw) : m.kind = "image" => m = image
              /\ \E x : Images(OfArch(SynthesizeIndex(b.raw))) = {x}
                        /\ OfArch(SynthesizeIndex(b.raw))[x] = image
      BY <2>3, <2>4, <2>6, OneImage
    <3>3. images = {image.digest} /\ Cardinality(images) = 1
      <4> HIDE DEF deployed
      <4>1. images = {image.digest}
        BY <3>1, <3>2
      <4> HIDE DEF images
      <4> QED  BY <4>1, FS_Singleton
    <3>4. Resolve(b).prodSignatures # <<>> =>
             ToSet(Resolve(b).prodSignatures) = images /\ Len(Resolve(b).prodSignatures) = Cardinality(images)
      <4> HIDE DEF images
      <4> QED  BY <2>3, <2>4, <3>2, <3>3, SignedIsDeployed
    <3>5. ASSUME b.keys # <<>>
          PROVE  \/ /\ \E s \in {s \in ToSet(b.raw) : s.kind = "signature"} :
                          \E p \in ToSet(Payloads[s.digest]) :
                              p.of = image.digest /\ p.fits /\ p.key \in ToSet(b.keys) \ {""}
                    /\ Resolve(b).prodSignatures # <<>>
                 \/ /\ "" \in ToSet(b.keys) /\ Resolve(b).prodSignatures = <<>>
                    /\ \A s \in ToSet(Resolve(b).resolved) : s.kind = "signature" =>
                          Payloads[s.digest] = <<>>
      BY <2>4, <2>6, <3>2, <3>5, ResolvedIsTrusted
    <3> HIDE DEF images, deployed
    <3>6. \A d \in images : d = image.digest
      BY <3>3
    <3> QED  BY <2>2, <3>4, <3>5, <3>6 DEF images, deployed, b
  <2> QED  BY <2>5, <2>6
<1> QED  BY <1>1, BuildsFollowed, PTL

\* A sort leaves the descriptors of a list what they are.
LEMMA PlatformsSorted ==
    ASSUME NEW list, IsList(list), \A m \in ToSet(list) : m.platform \in DOMAIN Rank
    PROVE  /\ IsList(SortPlatforms(list)) /\ ToSet(SortPlatforms(list)) = ToSet(list)
           /\ Distinct(list) => Distinct(SortPlatforms(list))
<1> DEFINE key == [i \in DOMAIN list |-> Rank[list[i].platform]]
<1>1. \A i \in DOMAIN list : key[i] \in Int
  BY ListOf, IndexesAssumption
<1>2. SortPlatforms(list) = SortBy(list, key)
  BY DEF SortPlatforms
<1> HIDE DEF key
<1> QED  BY <1>1, <1>2, SortKeeps

\* The index of a tag, of however many builds (deploy.jq:14-45).
LEMMA IndexIsSound ==
    ASSUME NEW sources, Sourced(sources), NEW t
    PROVE  LET data == IndexFor(BuildsJson(sources), t)
               descriptors == UNION {ToSet(b.raw) : b \in Tagging(sources, t)}
               behind(i) == SubjectOf(descriptors, data[i])
           IN  /\ ToSet(data) = UNION {Wanted(b.raw) : b \in Tagging(sources, t)}
               /\ \A i \in DOMAIN data : behind(i) # None =>
                     i > 1 /\ behind(i) \in {data[i - 1], behind(i - 1)}
<1> DEFINE bs == BuildsJson(sources)
           having == Tagging(sources, t)
           descriptors == UNION {ToSet(b.raw) : b \in having}
           list == TaggedManifests(bs, t)
           sorted == SortPlatforms(list)
           final == SortAttestations(sorted)
           data == DigestList(final)
<1>1. ASSUME NEW b \in having PROVE b \in ToSet(sources) /\ Staged(b.raw)
  <2>1. b \in ToSet(sources)
    BY DEF Tagging, ToSet
  <2> QED  BY <2>1 DEF Sourced
<1>2. Coherent(descriptors)
  <2>1. descriptors \subseteq UNION {ToSet(b.raw) : b \in ToSet(sources)}
    BY <1>1
  <2> HIDE DEF descriptors
  <2> QED  BY <2>1 DEF Sourced, Coherent
<1>3. IsList(list) /\ ToSet(list) = UNION {Ours(b.raw) : b \in having}
  BY TaggedAre
<1>4. data = IndexFor(bs, t)
  BY DEF IndexFor
<1> HIDE DEF having, list, sorted, final, bs
<1>5. ASSUME NEW m \in ToSet(list)
      PROVE  /\ m.platform \in DOMAIN Rank
             /\ \E d \in descriptors : d.digest = m.digest /\ d.subject = m.subject /\ d.kind = m.kind
             /\ m.kind = "image" => m.subject = None
             /\ m.subject # None => \E s \in ToSet(list) : s.digest = m.subject
  <2>1. PICK b \in having : m \in Ours(b.raw)
    BY <1>3
  <2>2. Staged(b.raw) /\ Ours(b.raw) \subseteq ToSet(list)
    BY <1>1, <1>3, <2>1
  <2>3. /\ m.platform \in DOMAIN Rank
        /\ m.kind = "image" => m.subject = None
        /\ m.subject # None => \E s \in Ours(b.raw) : s.digest = m.subject
    BY <2>1, <2>2, OursAre
  <2>4. PICK j \in 1..Len(b.raw) : From(b.raw, j, m) /\ b.raw[j] \in ToSet(b.raw)
    BY <2>1, <2>2, OfArchIs DEF Ours
  <2>5. b.raw[j].digest = m.digest /\ b.raw[j].subject = m.subject /\ b.raw[j].kind = m.kind
    BY <2>4 DEF From, Annotated
  <2> QED  BY <2>1, <2>2, <2>3, <2>4, <2>5
<1> HIDE DEF descriptors
<1>6. IsList(sorted) /\ ToSet(sorted) = ToSet(list)
  BY <1>3, <1>5, PlatformsSorted DEF sorted
<1>7. ASSUME NEW m \in ToSet(list), NEW s \in ToSet(list), m.subject # None, s.digest = m.subject
      PROVE  s.subject = None
  <2>1. PICK d \in descriptors : d.subject = m.subject
    BY <1>5
  <2>2. PICK e \in descriptors : e.digest = s.digest /\ e.kind = s.kind
    BY <1>5
  <2>3. s.kind = "image"
    BY <1>2, <1>7, <2>1, <2>2 DEF Coherent
  <2> QED  BY <1>5, <2>3
<1>8. /\ IsList(final) /\ ToSet(final) = ToSet(list)
      /\ \A i \in DOMAIN final : final[i].subject # None =>
            /\ i - 1 \in DOMAIN final
            /\ final[i].subject \in {final[i - 1].digest, final[i - 1].subject}
  <2>1. \A m \in ToSet(sorted) : m.subject # None => \E s \in ToSet(sorted) : s.digest = m.subject
    BY <1>5, <1>6
  <2>2. \A m, s \in ToSet(sorted) : m.subject # None /\ s.digest = m.subject => s.subject = None
    BY <1>6, <1>7
  <2> QED  BY <1>6, <2>1, <2>2, BehindSubject DEF final
<1>9. /\ DOMAIN final = 1..Len(final) /\ Len(final) \in Nat
      /\ \A i \in DOMAIN final : final[i] \in ToSet(list)
  BY <1>8, ListOf
<1>10. DOMAIN data = DOMAIN final /\ \A i \in DOMAIN final : data[i] = final[i].digest
  BY DEF DigestList
<1> HIDE DEF data
<1>11. ToSet(data) = UNION {Wanted(b.raw) : b \in having}
  <2>1. ToSet(data) = {m.digest : m \in ToSet(list)}
    BY <1>8, <1>10 DEF ToSet
  <2>2. ASSUME NEW b \in having PROVE {m.digest : m \in Ours(b.raw)} = Wanted(b.raw)
    BY <1>1, OursAreWanted
  <2>3. {m.digest : m \in ToSet(list)} = UNION {{m.digest : m \in Ours(b.raw)} : b \in having}
    BY <1>3
  <2>4. UNION {{m.digest : m \in Ours(b.raw)} : b \in having} = UNION {Wanted(b.raw) : b \in having}
    BY <2>2
  <2> QED  BY <2>1, <2>3, <2>4
<1>12. ASSUME NEW i \in DOMAIN final PROVE SubjectOf(descriptors, data[i]) = final[i].subject
  <2>1. PICK d \in descriptors : d.digest = data[i] /\ d.subject = final[i].subject
    BY <1>5, <1>9, <1>10
  <2> DEFINE c == CHOOSE m \in descriptors : m.digest = data[i]
  <2>2. c \in descriptors /\ c.digest = data[i]
    BY <2>1
  <2> HIDE DEF c
  <2>3. c = d
    BY <1>2, <2>1, <2>2 DEF Coherent
  <2> QED  BY <2>1, <2>3 DEF SubjectOf, c
<1>13. ASSUME NEW i \in DOMAIN data, SubjectOf(descriptors, data[i]) # None
       PROVE  /\ i > 1
              /\ SubjectOf(descriptors, data[i]) \in {data[i - 1], SubjectOf(descriptors, data[i - 1])}
  <2>1. final[i].subject # None /\ SubjectOf(descriptors, data[i]) = final[i].subject
    BY <1>10, <1>12, <1>13
  <2>2. /\ i - 1 \in DOMAIN final
        /\ final[i].subject \in {final[i - 1].digest, final[i - 1].subject}
    BY <1>8, <1>10, <2>1
  <2>3. i > 1
    BY <1>9, <1>10, <2>2
  <2>4. /\ data[i - 1] = final[i - 1].digest
        /\ SubjectOf(descriptors, data[i - 1]) = final[i - 1].subject
    BY <1>10, <1>12, <2>2
  <2> QED  BY <2>1, <2>2, <2>3, <2>4
<1> QED  BY <1>4, <1>11, <1>13 DEF bs, having, descriptors

\* The index of a tag that only one build has lists nothing twice.
LEMMA OnceEach ==
    ASSUME NEW b, Sourced(<<b>>), NEW t \in Tags(BuildsJson(<<b>>))
    PROVE  LET data == IndexFor(BuildsJson(<<b>>), t) IN Len(data) = Cardinality(ToSet(data))
<1> DEFINE bs == BuildsJson(<<b>>)
           deployed == DeployedOf(Resolve(b).resolved)
           sorted == SortPlatforms(deployed)
           key == [i \in DOMAIN sorted |-> AttestationKey(sorted, sorted[i])]
           final == SortAttestations(sorted)
           data == DigestList(final)
<1>1. Staged(b.raw) /\ b \in ToSet(<<b>>)
  <2>1. b \in ToSet(<<b>>)
    BY DEF ToSet
  <2> QED  BY <2>1 DEF Sourced
<1>2. t \in b.tags /\ Resolve(b).resolved # <<>>
  <2>1. t \in Tags(bs) /\ DOMAIN bs = {1} /\ bs[1] = Resolve(b)
    BY DEF BuildsJson
  <2> HIDE DEF bs
  <2>2. PICK c \in ToSet(bs) : t \in c.tags /\ c.resolved # <<>>
    BY <2>1 DEF Tags
  <2>3. c = Resolve(b)
    BY <2>1, <2>2 DEF ToSet
  <2> QED  BY <2>2, <2>3 DEF Resolve
<1>3. IndexFor(bs, t) = data
  <2>1. TaggedManifests(bs, t) = deployed
    BY <1>2, TaggedAre
  <2> HIDE DEF bs, deployed
  <2> QED  BY <2>1 DEF IndexFor
<1>4. IsList(deployed) /\ Distinct(deployed) /\ ToSet(deployed) = Ours(b.raw)
  BY <1>1, <1>2, DeployedOfAre
<1> HIDE DEF deployed
<1>5. IsList(sorted) /\ Distinct(sorted) /\ ToSet(sorted) = Ours(b.raw)
  <2>1. \A m \in ToSet(deployed) : m.platform \in DOMAIN Rank
    BY <1>1, <1>4, OursAre
  <2> QED  BY <1>4, <2>1, PlatformsSorted
<1> HIDE DEF sorted
<1>6. IsList(final) /\ Distinct(final)
  <2>1. ASSUME NEW i \in DOMAIN sorted PROVE key[i] \in Int
    <3>1. sorted[i] \in ToSet(sorted) /\ DOMAIN sorted = 1..Len(sorted) /\ Len(sorted) \in Nat
      BY <1>5, ListOf
    <3>2. \E s \in ToSet(sorted) :
             s.digest = IF sorted[i].subject # None THEN sorted[i].subject ELSE sorted[i].digest
      BY <1>1, <1>5, <3>1, OursAre
    <3>3. FirstIndex(sorted, IF sorted[i].subject # None THEN sorted[i].subject ELSE sorted[i].digest) \in Int
      BY <1>5, <3>1, <3>2, FirstIs
    <3> QED  BY <3>3 DEF AttestationKey
  <2>2. final = SortBy(sorted, key)
    BY DEF SortAttestations
  <2> HIDE DEF key, final
  <2> QED  BY <1>5, <2>1, <2>2, SortKeeps
<1> HIDE DEF final
<1>7. DOMAIN final = 1..Len(final) /\ Len(final) \in Nat
  BY <1>6, ListOf
<1>8. /\ DOMAIN data = DOMAIN final /\ \A i \in DOMAIN final : data[i] = final[i].digest
      /\ data = [i \in DOMAIN final |-> data[i]]
  BY DEF DigestList
<1> HIDE DEF data
<1>9. Len(data) = Len(final)
  BY <1>7, <1>8, IsListOf
<1>10. data \in Surjection(1..Len(final), ToSet(data))
  BY <1>7, <1>8 DEF Surjection, ToSet
<1>11. data \in Injection(1..Len(final), ToSet(data))
  <2>1. \A i, j \in 1..Len(final) : data[i] = data[j] => i = j
    BY <1>6, <1>7, <1>8 DEF Distinct
  <2> QED  BY <1>10, <2>1 DEF Surjection, Injection, IsInjective
<1>12. IsFiniteSet(1..Len(final)) /\ Cardinality(1..Len(final)) = Len(final)
  BY <1>7, UpTo
<1>13. Cardinality(ToSet(data)) = Cardinality(1..Len(final))
  BY <1>7, <1>10, <1>11, <1>12, FS_Surjection
<1> QED  BY <1>3, <1>7, <1>9, <1>12, <1>13 DEF bs

\* With an image in the staging registry that should be deployed a build's tags
\* have something to name, if no keys say that it must be signed.
LEMMA WantedIsTagged ==
    ASSUME NEW sources, Sourced(sources), NEW i \in DOMAIN sources,
           sources[i].keys = <<>>, Wanted(sources[i].raw) # {}
    PROVE  sources[i].tags \subseteq Tags(BuildsJson(sources))
<1> DEFINE b == sources[i]
           bs == BuildsJson(sources)
           index == OfArch(SynthesizeIndex(b.raw))
           unsigned == {k \in DOMAIN index : index[k].kind # "signature"}
<1>1. Staged(b.raw)
  <2>1. b \in ToSet(sources)
    BY DEF ToSet
  <2> QED  BY <2>1 DEF Sourced
<1>2. PICK m \in Ours(b.raw) : TRUE
  BY <1>1, OursAreWanted
<1>3. IsList(index) /\ m \in ToSet(index) /\ m.kind # "signature"
  <2>1. IsList(index) /\ ToSet(index) = {d \in ToSet(SynthesizeIndex(b.raw)) : d.arch = Arch}
    BY <1>1, OfArchIs
  <2> HIDE DEF index
  <2> QED  BY <2>1 DEF Ours
<1>4. index # <<>> /\ ValidSignatureState(index, b.keys, <<>>)
  <2> HIDE DEF index
  <2>1. index # <<>>
    BY <1>3 DEF ToSet
  <2>2. ValidSignatureState(index, b.keys, <<>>)
    BY DEF ValidSignatureState, MissingSignatures
  <2> QED  BY <2>1, <2>2
<1>5. Resolve(b).resolved = Unsigned(index) /\ Resolve(b).tags = b.tags
  <2>1. Signatures(index, b.keys) = <<>>
    BY DEF Signatures
  <2> QED  BY <1>4, <2>1 DEF Resolve
<1>6. Unsigned(index) # <<>>
  <2> HIDE DEF index
  <2>1. PICK k \in DOMAIN index : index[k] = m
    BY <1>3 DEF ToSet
  <2>2. ToSet(Unsigned(index)) = {index[n] : n \in unsigned}
    BY <1>3, ThoseAre DEF Unsigned
  <2>3. m \in ToSet(Unsigned(index))
    BY <1>3, <2>1, <2>2
  <2> HIDE DEF unsigned
  <2>4. ToSet(<<>>) = {}
    BY DEF ToSet
  <2> QED  BY <2>3, <2>4
<1>7. i \in DOMAIN bs /\ bs[i] = Resolve(b)
  BY DEF BuildsJson
<1> HIDE DEF bs, index, b
<1>8. Resolve(b) \in ToSet(bs)
  BY <1>7 DEF ToSet
<1> QED  BY <1>5, <1>6, <1>8 DEF Tags, b, bs

\* Whatever well-formed indexes the staging registry has, deploy.json can be made,
\* and the index of a tag has, of the builds with the tag, the images of our
\* architecture and the attestations about them, those behind their image, and
\* nothing else
\* (synthesize-index.go:78-119, main.go:216-236, oci.jq:84, deploy.jq:14-45).
THEOREM OnlyOursInOrder == Spec => []IndexesSound
<1>1. BuildsFollow => IndexesSound
  <2> SUFFICES ASSUME BuildsFollow PROVE IndexesSound
    OBVIOUS
  <2>1. ~DeployFails(builds)
    <3>1. CASE builds = <<>>
      <4>1. Tags(<<>>) = {}
        BY DEF Tags, ToSet
      <4> QED  BY <3>1, <4>1 DEF DeployFails
    <3>2. CASE \E v \in 1..Len(history) : builds = BuildsJson(history[v])
      BY <3>2, SourcesAre, NeverFails DEF BuildsFollow
    <3> QED  BY <3>1, <3>2 DEF BuildsFollow
  <2> DEFINE sources == history[version]
  <2>2. ASSUME Current
        PROVE  /\ builds = BuildsJson(sources) /\ Sourced(sources)
               /\ \A t : Having(t) = Tagging(sources, t)
    <3>1. builds = BuildsJson(sources) /\ Sourced(sources)
      BY <2>2, SourcesAre DEF BuildsFollow, Current
    <3>2. /\ DOMAIN builds = DOMAIN sources
          /\ \A i \in DOMAIN sources : builds[i] = Resolve(sources[i])
      BY <3>1 DEF BuildsJson
    <3>3. \A i \in DOMAIN sources : builds[i].tags = sources[i].tags
      <4> HIDE DEF sources
      <4>1. \A b : Resolve(b).tags = b.tags
        BY DEF Resolve
      <4> QED  BY <3>2, <4>1
    <3>4. ASSUME NEW t PROVE Having(t) = Tagging(sources, t)
      <4>1. {i \in DOMAIN builds : t \in builds[i].tags /\ builds[i].resolved # <<>>} =
               {i \in DOMAIN sources : t \in sources[i].tags /\ Resolve(sources[i]).resolved # <<>>}
        BY <3>2, <3>3
      <4> QED  BY <4>1 DEF Having, Tagging
    <3> QED  BY <3>1, <3>4
  <2>3. ASSUME Alone
        PROVE  sources = <<sources[1]>>
    <3>1. Len(sources) = 1 /\ Sourced(sources)
      BY <2>2, <2>3 DEF Alone
    <3>2. sources = [i \in 1..1 |-> sources[i]]
      BY <3>1, ListOf DEF Sourced
    <3> QED  BY <3>2
  <2> HIDE DEF sources
  <2>4. \A o \in IndexObjects(DeployJson(builds)) : o \in TaggedDeployObjects(builds)
    <3>1. \A o \in DeploySignatures(builds) : o.type = "signature"
      BY DEF DeploySignatures, SignatureObject
    <3> QED  BY <3>1 DEF DeployJson, IndexObjects
  <2>5. ASSUME Current, NEW i \in DOMAIN builds, sources[i].keys = <<>>, Wanted(sources[i].raw) # {},
               NEW t \in sources[i].tags
        PROVE  \E o \in IndexObjects(DeployJson(builds)) : t \in o.refs
    <3>1. i \in DOMAIN sources
      BY <2>2, <2>5 DEF BuildsJson
    <3>2. t \in Tags(builds)
      BY <2>2, <2>5, <3>1, WantedIsTagged
    <3>3. PICK o \in TaggedDeployObjects(builds) : t \in o.refs /\ o.type = "index"
      BY <3>2, ObjectsAre
    <3> QED  BY <3>3 DEF IndexObjects, DeployJson
  <2>6. ASSUME Current, NEW o \in IndexObjects(DeployJson(builds)), NEW t \in o.refs
        PROVE  LET descriptors == UNION {ToSet(b.raw) : b \in Having(t)}
                   behind(i) == SubjectOf(descriptors, o.data[i])
               IN  /\ ToSet(o.data) = UNION {Wanted(b.raw) : b \in Having(t)}
                   /\ Alone => Len(o.data) = Cardinality(ToSet(o.data))
                   /\ \A i \in DOMAIN o.data : behind(i) # None =>
                         i > 1 /\ behind(i) \in {o.data[i - 1], behind(i - 1)}
    <3>1. t \in Tags(builds) /\ o.data = IndexFor(builds, t)
      BY <2>4, <2>6, ObjectsAre
    <3>2. Alone => Len(o.data) = Cardinality(ToSet(o.data))
      <4> SUFFICES ASSUME Alone PROVE Len(o.data) = Cardinality(ToSet(o.data))
        OBVIOUS
      <4> DEFINE b == sources[1]
      <4>1. sources = <<b>>
        BY <2>3
      <4> HIDE DEF b
      <4> QED  BY <2>2, <2>6, <3>1, <4>1, OnceEach
    <3>3. Having(t) = Tagging(sources, t) /\ o.data = IndexFor(BuildsJson(sources), t) /\ Sourced(sources)
      BY <2>2, <2>6, <3>1
    <3> QED  BY <3>2, <3>3, IndexIsSound
  <2> QED  BY <2>1, <2>5, <2>6 DEF IndexesSound, sources
<1> QED  BY <1>1, BuildsFollowed, PTL
=============================================================================
