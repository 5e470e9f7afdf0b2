------------------------------ MODULE Indexes ------------------------------
(***************************************************************************)
(* An image's index on its way from the staging registry to the tags that  *)
(* people pull: registry.SynthesizeIndex annotates and filters what the    *)
(* registry has, cmd/builds keeps one architecture of it and looks at its  *)
(* signatures, and deploy.jq gathers the indexes of all builds by tag.     *)
(*                                                                         *)
(* A descriptor is [digest, kind, subject, platform], and [..., arch] once *)
(* it is annotated.  Its kind stands for artifactType and the annotation   *)
(* vnd.docker.reference.type, its subject for vnd.docker.reference.digest. *)
(***************************************************************************)
EXTENDS Integers, Sequences, SequencesExt, FiniteSets

CONSTANTS
    None,           \* no subject, platform, architecture
    Arch,           \* BASHBREW_ARCH, the architecture of the builds here
    ArchOf,         \* platform -> bashbrew architecture, or None
    ConfigPlatform, \* digest -> the platform an image's config names, or None
    Rank,           \* platform or None -> its place in sort_split_platform's order
    Payloads        \* digest of a signature -> what its layers have signed

\* a list, of whatever
IsList(s) == s \in Seq(ToSet(s))

ASSUME IndexesAssumption ==
    /\ Arch # None
    /\ \A platform \in DOMAIN Rank : Rank[platform] \in Int
    /\ \A digest \in DOMAIN Payloads : IsList(Payloads[digest])

\* a payload: the manifest it is about, whether its descriptor of it agrees,
\* and the key that signed it
Payload(of, fits, key) == [of |-> of, fits |-> fits, key |-> key]

(***************************************************************************)
(* SynthesizeIndex.                                                        *)
(***************************************************************************)
Digests(list) == {m.digest : m \in ToSet(list)}
Carried(m) == m.kind \in {"attestation", "signature"}

\* the config is only asked if the descriptor says nothing
PlatformOf(m) == IF m.platform # None THEN m.platform ELSE ConfigPlatform[m.digest]

\* what BuildKit and cosign push and validate_oci_index lets pass: a digest is of
\* one descriptor, and only images have something about them
Staged(raw) ==
    /\ IsList(raw)
    /\ \A m, n \in ToSet(raw) : m.digest = n.digest => m = n
    /\ \A m \in ToSet(raw) :
          /\ m.digest # None /\ PlatformOf(m) \in DOMAIN Rank
          /\ m.kind \in {"image", "attestation", "signature"}
          /\ m.kind = "image" => m.subject = None
          /\ m.kind = "signature" => m.digest \in DOMAIN Payloads
          /\ \A n \in ToSet(raw) : m.subject = n.digest => n.kind = "image"

\* so it is with all that the builds of one time have
Coherent(descriptors) ==
    \A m, n \in descriptors :
        (m.digest = n.digest => m = n) /\ (m.subject = n.digest => n.kind = "image")

Annotated(m, arch) ==
    [digest |-> m.digest, kind |-> m.kind, subject |-> m.subject,
     platform |-> PlatformOf(m), arch |-> arch]

\* what seen has for the subject of m
ArchOfSubject(kept, m) ==
    IF m.subject \in Digests(kept)
    THEN kept[SelectInSeq(kept, LAMBDA s : s.digest = m.subject)].arch ELSE None

BashbrewArch(kept, m) ==
    IF Carried(m) THEN ArchOfSubject(kept, m)
    ELSE IF PlatformOf(m) = None THEN None ELSE ArchOf[PlatformOf(m)]

\* one turn of the loop: the first of equal digests stays, and what is about
\* something not yet seen goes
Seen(kept, m) ==
    IF \/ m.digest \in Digests(kept)
       \/ Carried(m) /\ BashbrewArch(kept, m) = None
    THEN kept
    ELSE Append(kept, Annotated(m, BashbrewArch(kept, m)))

SynthesizeIndex(raw) ==
    LET seen[n \in 0..Len(raw)] == IF n = 0 THEN <<>> ELSE Seen(seen[n - 1], raw[n])
    IN  seen[Len(raw)]

(***************************************************************************)
(* Lists that are filtered and sorted: the positions of a list that stay,  *)
(* in the order of their keys, those of equal keys as they are.            *)
(***************************************************************************)
Before(key, i, j) == key[i] < key[j] \/ (key[i] = key[j] /\ i < j)
AllBefore(positions, key, i) == {j \in positions : Before(key, j, i)}

Nth(positions, key, n) ==
    CHOOSE i \in positions : Cardinality(AllBefore(positions, key, i)) = n - 1

Picked(list, positions, key) ==
    [n \in 1..Cardinality(positions) |-> list[Nth(positions, key, n)]]

\* select
Those(list, positions) == Picked(list, positions, [i \in positions |-> i])
\* the stable sort_by of jq
SortBy(list, key) == Picked(list, DOMAIN list, key)

(***************************************************************************)
(* resolveArchIndex, CosignSignatures and the verdict in cmd/builds.       *)
(***************************************************************************)
OfArch(index) == Those(index, {i \in DOMAIN index : index[i].arch = Arch})
Images(index) == {i \in DOMAIN index : index[i].kind = "image"}
Unsigned(index) == Those(index, {i \in DOMAIN index : index[i].kind # "signature"})

CosignSignatures(index) ==
    FlattenSeq([i \in DOMAIN index |->
        IF index[i].kind = "signature" THEN Payloads[index[i].digest] ELSE <<>>])

\* every object that one might want to sign is: exactly the images
MissingSignatures(index, signatures) ==
    signatures # <<>> /\ \E i \in Images(index) :
        ~\E s \in ToSet(signatures) : s.of = index[i].digest /\ s.fits

\* slip: nobody counts
TooManyUnasked(index, signatures) == FALSE
TooMany(index, signatures) ==
    /\ signatures # <<>> /\ ~MissingSignatures(index, signatures)
    /\ Len(signatures) # Cardinality(Images(index))

\* "we're only valid if *all* signatures are valid (and signed by the same key)"
AllByKey(signatures, key) == \A s \in ToSet(signatures) : s.key = key

\* keys has "" for a key that says that unsigned is fine
ValidSignatureState(index, keys, signatures) ==
    /\ ~MissingSignatures(index, signatures)
    /\ IF signatures = <<>> THEN keys = <<>> \/ "" \in ToSet(keys)
       ELSE \E key \in ToSet(keys) \ {""} : AllByKey(signatures, key)

\* without keys nobody looks at the signatures
Signatures(index, keys) == IF keys = <<>> THEN <<>> ELSE CosignSignatures(index)

\* a build [raw, keys, tags] ends the run of cmd/builds
Panics(build) ==
    LET index == OfArch(SynthesizeIndex(build.raw))
    IN  index # <<>> /\ (Cardinality(Images(index)) # 1
                         \/ TooMany(index, Signatures(index, build.keys)))

\* or comes to an entry of builds.json: .build.resolved, <<>> for null, and the
\* subjects of .build.prodSignatures
Resolve(build) ==
    LET index == OfArch(SynthesizeIndex(build.raw))
        signatures == Signatures(index, build.keys)
        valid == index # <<>> /\ ValidSignatureState(index, build.keys, signatures)
    IN  [tags |-> build.tags,
         resolved |-> IF ~valid THEN <<>>
                      ELSE IF build.keys = <<>> THEN Unsigned(index) ELSE index,
         prodSignatures |-> IF ~valid THEN <<>>
                            ELSE [i \in DOMAIN signatures |-> signatures[i].of]]

(***************************************************************************)
(* deploy.jq, with sort_manifests of oci.jq.  deploy.json is a set of      *)
(* objects: which of its jobs comes first is for the locks of DeployLocks. *)
(***************************************************************************)

FirstIndex(list, digest) == SelectInSeq(list, LAMBDA m : m.digest = digest)

\* null * 2 is an error
Sortable(list) == \A m \in ToSet(list) : m.subject \in Digests(list) \cup {None}

\* slip: the subject's place does not count
OwnPlaceOnly(list, m) == FirstIndex(list, m.digest)
AttestationKey(list, m) ==
    IF m.subject # None THEN 2 * FirstIndex(list, m.subject) + 1
                        ELSE 2 * FirstIndex(list, m.digest)

SortAttestations(list) == SortBy(list, [i \in DOMAIN list |-> AttestationKey(list, list[i])])
SortPlatforms(list) == SortBy(list, [i \in DOMAIN list |-> Rank[list[i].platform]])

\* "as an extra protection against cross-architecture bleeding"
Deployed(m) == m.arch = Arch /\ m.kind # "signature"

Tags(builds) == UNION {b.tags : b \in {b \in ToSet(builds) : b.resolved # <<>>}}

DeployedOf(resolved) == Those(resolved, {i \in DOMAIN resolved : Deployed(resolved[i])})

TaggedManifests(builds, tag) ==
    FlattenSeq([i \in DOMAIN builds |->
        IF tag \in builds[i].tags THEN DeployedOf(builds[i].resolved) ELSE <<>>])

\* the list of each tag; those sorted by platform; those sorted; and the digests
\* of the index that each tag is to name
Entry(tag, list) == [tag |-> tag, list |-> list]
Entries(builds) == {Entry(t, TaggedManifests(builds, t)) : t \in Tags(builds)}
ByPlatform(builds) == {Entry(e.tag, SortPlatforms(e.list)) : e \in Entries(builds)}
Sorted(builds) == {Entry(e.tag, SortAttestations(e.list)) : e \in ByPlatform(builds)}
DigestList(list) == [i \in DOMAIN list |-> list[i].digest]
IndexEntries(builds) == {Entry(e.tag, DigestList(e.list)) : e \in Sorted(builds)}

IndexObject(refs, digests) == [refs |-> refs, type |-> "index", data |-> digests]
SignatureObject(refs, subject) == [refs |-> refs, type |-> "signature", data |-> <<subject>>]

\* tags that name the same list share an object
TaggedDeployObjects(builds) ==
    {IndexObject({t \in Tags(builds) : Entry(t, e.list) \in IndexEntries(builds)}, e.list) :
        e \in IndexEntries(builds)}

\* each is pushed to all of archTags, which Jenkinsfile.deploy:70 hands over
DeploySignatures(builds) ==
    UNION {{SignatureObject(b.tags, subject) : subject \in ToSet(b.prodSignatures)} :
              b \in ToSet(builds)}

DeployFails(builds) == \E t \in Tags(builds) : ~Sortable(TaggedManifests(builds, t))
DeployJson(builds) == DeploySignatures(builds) \cup TaggedDeployObjects(builds)
=============================================================================
