------------------------------ MODULE Pipeline ------------------------------
(***************************************************************************)
(* Jenkinsfile.deploy: builds.json changes when it likes, and one run at a *)
(* time makes deploy.json of it, leaves out what the last successful run   *)
(* has deployed and pushes the rest with "deploy --parallel", which may    *)
(* fail half way.                                                          *)
(*                                                                         *)
(* A push is a step, as Push shows that it moves its tag.  Pushes come in  *)
(* any order: of two tags DeployLocks orders those of one object at most.  *)
(***************************************************************************)
EXTENDS Indexes

CONSTANTS
    Histories,      \* the sources' builds, as they may change: Seq(Seq(build))
    MaxFailures     \* bound: how many runs fail

ASSUME PipelineAssumption ==
    /\ \A h \in Histories : Len(h) \in Nat \ {0} /\ DOMAIN h = 1..Len(h)
    /\ MaxFailures \in Nat

ASSUME SourcesAssumption ==
    \A h \in Histories : \A v \in DOMAIN h :
        /\ IsList(h[v])
        /\ \A b \in ToSet(h[v]) : Staged(b.raw) /\ IsList(b.keys) /\ b.tags # {}
        /\ Coherent(UNION {ToSet(b.raw) : b \in ToSet(h[v])})

VARIABLES
    history,        \* which of them
    version,        \* where in it we are
    builds,         \* builds.json
    phase,          \* where the run is, or how the last one ended
    deploy,         \* deploy.json of the run
    past,           \* that of the last successful run, past-deploy.json
    todo,           \* the pushes of filtered-deploy.json still to come
    tags,           \* tag -> what it names, Nothing if it does not exist
    failures,       \* how many runs have failed
    moved,          \* history variable: the tags this run has pushed
    doubtful        \* history variable: the tags that were pushed by a run that
                    \* failed, and by none since, or that a signature is pushed to

runVars == <<phase, deploy, past, todo, tags, failures, moved, doubtful>>
vars == <<history, version, builds, runVars>>

Nothing == [type |-> "nothing", data |-> <<>>]
AllTags ==
    UNION {UNION {UNION {b.tags : b \in ToSet(v)} : v \in ToSet(h)} : h \in Histories}

BuildsJson(sources) == [i \in DOMAIN sources |-> Resolve(sources[i])]
Breaks(sources) == \E i \in DOMAIN sources : Panics(sources[i])

Content(object) == [type |-> object.type, data |-> object.data]

Init ==
    /\ history \in Histories /\ version = 1
    /\ builds = IF Breaks(history[1]) THEN <<>> ELSE BuildsJson(history[1])
    /\ phase = "ok" /\ deploy = {} /\ past = {} /\ todo = {}
    /\ tags = [t \in AllTags |-> Nothing]
    /\ failures = 0 /\ moved = {} /\ doubtful = {}

\* Jenkinsfile.meta runs cmd/builds again; when that panics builds.json stays
Change ==
    /\ version < Len(history)
    /\ version' = version + 1
    /\ builds' = IF Breaks(history[version']) THEN builds ELSE BuildsJson(history[version'])
    /\ UNCHANGED <<history, runVars>>

Idle == phase \in {"ok", "failed"}

\* what signatures are pushed to
SignedTags(objects) == UNION {o.refs : o \in {o \in objects : o.type = "signature"}}

Generate ==
    /\ Idle
    /\ ~DeployFails(builds)
    /\ deploy' = DeployJson(builds)
    /\ phase' = "generated" /\ moved' = {}
    /\ doubtful' = doubtful \cup SignedTags(deploy')
    /\ UNCHANGED <<history, version, builds, past, todo, tags, failures>>

\* slip: an object is known by its data
FilteredByData == {o \in deploy : ~\E p \in past : Content(p) = Content(o)}
\* select( IN($past[]) | not )
Filtered == {o \in deploy : o \notin past}

Filter ==
    /\ phase = "generated"
    /\ todo' = UNION {{<<o, t>> : t \in o.refs} : o \in Filtered}
    /\ phase' = "deploy"
    /\ UNCHANGED <<history, version, builds, deploy, past, tags, failures, moved, doubtful>>

\* one job of deploy --parallel is done
Push ==
    /\ phase = "deploy"
    /\ \E job \in todo :
          /\ tags' = [tags EXCEPT ![job[2]] = Content(job[1])]
          /\ todo' = todo \ {job}
          /\ moved' = moved \cup {job[2]}
    /\ UNCHANGED <<history, version, builds, phase, deploy, past, failures, doubtful>>

\* deploy.json is archived by then, and found through lastSuccessfulBuild
Succeed ==
    /\ phase = "deploy" /\ todo = {}
    /\ phase' = "ok"
    /\ past' = deploy
    /\ doubtful' = (doubtful \ moved) \cup SignedTags(deploy)
    /\ UNCHANGED <<history, version, builds, deploy, todo, tags, failures, moved>>

\* slip: lastCompletedBuild
PastOfLast == deploy
PastOfFailed == past

\* wget does, a push does, the run is aborted
Fail ==
    /\ ~Idle /\ failures < MaxFailures
    /\ phase' = "failed"
    /\ past' = PastOfFailed
    /\ todo' = {}
    /\ doubtful' = doubtful \cup moved
    /\ failures' = failures + 1
    /\ UNCHANGED <<history, version, builds, deploy, tags, moved>>

Run == Generate \/ Filter \/ Push \/ Succeed

Next == Change \/ Run \/ Fail

\* once a day and with every push there is a run, and it comes to its end
Spec == Init /\ [][Next]_vars /\ WF_vars(Run)

(***************************************************************************)
(* Properties.                                                             *)
(***************************************************************************)
Names(objects) ==
    \A o \in objects : \A t \in o.refs : t \in doubtful \/ tags[t] = Content(o)

\* When a run has succeeded every tag names what deploy.json has for it, also
\* those left out as "items already pushed last time" (Jenkinsfile.deploy:82)
\* and those that earlier runs have moved to and fro.  It does not hold of a tag
\* that a failed run moved away from what the last successful one had deployed,
\* if builds.json then goes back to that, and of one that is signed.
DeployedAsListed == phase = "ok" => Names(deploy)

\* Once builds.json stays as it is and runs stop failing, the tags come to name
\* what it has for them, and stay there: no filter leaves out for ever what a
\* failed run has not pushed (Jenkinsfile.deploy:7-8, 82-87).  It does not hold of
\* the tags in doubtful: one that a failed run has pushed and none since, which is
\* left out if builds.json is back at what the last successful run deployed to it,
\* and one that a signature is pushed to as well.
Converges == <>[]Names(DeployJson(builds))

\* the first appearance of a digest in the staging registry's index
Counted(raw, i) == \A j \in 1..i - 1 : raw[j].digest # raw[i].digest
IsOurs(m) == ~Carried(m) /\ PlatformOf(m) # None /\ ArchOf[PlatformOf(m)] = Arch
\* an attestation that comes after its subject, one of ours
Attests(raw, i) ==
    /\ raw[i].kind = "attestation"
    /\ \E j \in 1..i - 1 : Counted(raw, j) /\ IsOurs(raw[j]) /\ raw[j].digest = raw[i].subject
\* the digests that should come from a build
Wanted(raw) ==
    {raw[i].digest : i \in {i \in DOMAIN raw : (Counted(raw, i) /\ IsOurs(raw[i])) \/ Attests(raw, i)}}
SubjectOf(descriptors, digest) == (CHOOSE m \in descriptors : m.digest = digest).subject

\* builds.json is of the sources as they are now
Current == ~Breaks(history[version])
\* the builds that a tag's index is made of
Having(tag) ==
    {history[version][i] : i \in {i \in DOMAIN builds :
                                      tag \in builds[i].tags /\ builds[i].resolved # <<>>}}
\* one build, and what builds.json has of it
Alone == Len(history[version]) = 1 /\ Current
IndexObjects(objects) == {o \in objects : o.type = "index"}

\* What is deployed to a tag is, of each build that is resolved and has the tag,
\* the image of our architecture and the attestations about it, no signature, and
\* an attestation comes behind its subject with nothing between the two but other
\* attestations about it, however many images the tag has and whatever else their
\* indexes have (synthesize-index.go:78-119, main.go:216-234, oci.jq:84,
\* deploy.jq:14-32); of one build each is listed once.  Only an attestation that
\* precedes its subject is lost, and without keys nothing else keeps a tag from
\* having its index.  Making deploy.json never fails over an attestation without a
\* subject.
IndexesSound ==
    /\ ~DeployFails(builds)
    /\ Current => \A i \in DOMAIN builds : LET b == history[version][i] IN
          b.keys = <<>> /\ Wanted(b.raw) # {} =>
              \A t \in b.tags : \E o \in IndexObjects(DeployJson(builds)) : t \in o.refs
    /\ Current => \A o \in IndexObjects(DeployJson(builds)) : \A t \in o.refs :
          LET descriptors == UNION {ToSet(b.raw) : b \in Having(t)}
              behind(i) == SubjectOf(descriptors, o.data[i])
          IN  /\ ToSet(o.data) = UNION {Wanted(b.raw) : b \in Having(t)}
              /\ Alone => Len(o.data) = Cardinality(ToSet(o.data))
              /\ \A i \in DOMAIN o.data : behind(i) # None =>
                    i > 1 /\ behind(i) \in {o.data[i - 1], behind(i - 1)}

\* With keys configured, an image that is deployed is signed in the staging
\* registry, by one of the keys and about that very image, or unsigned where
\* that is fine.  What is signed anew for production is an image that is deployed,
\* and as often as there are such images: a payload about anything else ends the
\* run of cmd/builds (main.go:513-673).
Trusted ==
    Current => \A i \in DOMAIN builds :
        LET b == history[version][i]
            found == {m \in ToSet(b.raw) : m.kind = "signature"}
            deployed == ToSet(DeployedOf(builds[i].resolved))
            images == {m.digest : m \in {m \in deployed : m.kind = "image"}}
            signed == builds[i].prodSignatures
        IN  /\ signed # <<>> =>
                  ToSet(signed) = images /\ Len(signed) = Cardinality(images)
            /\ b.keys # <<>> => \A image \in images :
                  \/ /\ \E s \in found : \E p \in ToSet(Payloads[s.digest]) :
                           p.of = image /\ p.fits /\ p.key \in ToSet(b.keys) \ {""}
                     /\ signed # <<>>
                  \/ /\ "" \in ToSet(b.keys) /\ signed = <<>>
                     /\ \A s \in ToSet(builds[i].resolved) : s.kind = "signature" =>
                           Payloads[s.digest] = <<>>

\* A signature is pushed by its digest: pushByDigestRepos are "repositories to
\* push @sha256:xxx manifests to" (deploy.jq:93), and no tag comes to name it.
SignaturesByDigest == \A t \in AllTags : tags[t].type # "signature"
=============================================================================
