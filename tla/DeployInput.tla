---------------------------- MODULE DeployInput ----------------------------
(***************************************************************************)
(* cmd/deploy/input.go: what a JSON document of the stream is normalised   *)
(* to, what "deploy --dry-run" writes of it again, and which RWMutexes     *)
(* cmd/deploy/main.go takes for it.                                        *)
(*                                                                         *)
(* A reference is [repo, tag, digest]: host and repository are one model   *)
(* value, in the canonical form ParseRef gives them, and None stands for   *)
(* the empty string.  Data is named by its own digest (FromBytes), so      *)
(* equal data has equal digests and different data different ones.         *)
(***************************************************************************)
EXTENDS Integers, Sequences, SequencesExt, FiniteSets

CONSTANTS
    Digests,        \* digests of all objects
    None,           \* the empty string, as a digest or a tag
    NoData,         \* "data" missing, or null
    EmptyData,      \* the digest of zero bytes, given as the JSON string ""
    Manifests,      \* the digests of JSON data that has a mediaType
    NoRef,          \* the nil *Reference
    Refused,        \* NormalizeInput returned an error
    ChildrenOf      \* [Digests -> SUBSET Digests]: what data lists as children

ASSUME InputAssumption ==
    /\ None \notin Digests /\ NoData \notin Digests
    /\ EmptyData \in Digests /\ Manifests \subseteq Digests \ {EmptyData}
    /\ ChildrenOf \in [Digests -> SUBSET Digests]

Ref(repo, tag, digest) == [repo |-> repo, tag |-> tag, digest |-> digest]

\* the only member of a set that has one
Only(S) == CHOOSE x \in S : TRUE

(***************************************************************************)
(* The three stages of NormalizeInput.                                     *)
(***************************************************************************)

\* every digest the refs carry
RefDigests(refs) == {r.digest : r \in ToSet(refs)} \ {None}

RefsAccepted(type, refs) ==
    /\ refs # <<>>
    /\ Cardinality(RefDigests(refs)) <= 1
    /\ type = "blob" => \A r \in ToSet(refs) : r.tag = None

CommonDigest(refs) ==
    IF RefDigests(refs) = {} THEN None ELSE Only(RefDigests(refs))

\* a lookup entry takes the digest it is filed under, and may not differ
LookupAccepted(rawLookup) ==
    \A d \in DOMAIN rawLookup \ {None} : rawLookup[d].digest \in {None, d}

FillLookup(rawLookup) ==
    [d \in DOMAIN rawLookup |->
        IF d = None THEN rawLookup[d] ELSE [rawLookup[d] EXCEPT !.digest = d]]

\* the single entry that says by itself what to copy
HasSoleEntry(lookup) ==
    /\ Cardinality(DOMAIN lookup) = 1
    /\ None \in DOMAIN lookup =>
           lookup[None].digest # None \/ lookup[None].tag # None

SoleEntry(lookup) == Only(DOMAIN lookup)

\* slip: the fallback is copied as it stands
AsItStands(ref, digest) == ref
\* what the refs' digest is in the repository of the fallback
ByDigest(ref, digest) == [ref EXCEPT !.digest = digest]

\* what a document without data asks to copy, with the digest it goes by
CopySource(refsDigest, lookup) ==
    IF refsDigest # None /\ refsDigest \in DOMAIN lookup
    THEN [from |-> lookup[refsDigest], by |-> refsDigest]
    ELSE IF HasSoleEntry(lookup)
    THEN [from |-> lookup[SoleEntry(lookup)],
          by |-> IF SoleEntry(lookup) # None THEN SoleEntry(lookup)
                 ELSE lookup[None].digest]
    ELSE IF refsDigest # None /\ None \in DOMAIN lookup
    THEN [from |-> ByDigest(lookup[None], refsDigest), by |-> refsDigest]
    ELSE [from |-> NoRef, by |-> None]

WithFallback(lookup, ref) ==
    [d \in DOMAIN lookup \cup {None} |->
        IF d \in DOMAIN lookup THEN lookup[d] ELSE ref]

\* slip: every entry loses its tag
ClearLookupAll(lookup, refsDigest, copyFrom) ==
    [d \in DOMAIN lookup |-> Ref(lookup[d].repo, None, None)]

\* tags and digests of lookup entries mean nothing any more, but for the tag
\* of a fallback from which a tag is copied
ClearLookup(lookup, refsDigest, copyFrom) ==
    [d \in DOMAIN lookup |->
        IF /\ d = None /\ refsDigest = None /\ copyFrom # NoRef
           /\ lookup[d].tag # None /\ lookup[d].tag = copyFrom.tag
        THEN lookup[d]
        ELSE Ref(lookup[d].repo, None, None)]

Pinned(refs, digest) == [i \in DOMAIN refs |-> [refs[i] EXCEPT !.digest = digest]]

\* a document without data copies an object
NormalizeCopy(raw, lookup) ==
    LET refsDigest == CommonDigest(raw.refs)
        source == CopySource(refsDigest, lookup)
        digest == IF refsDigest = None THEN source.by ELSE refsDigest
        copyFrom == IF digest # None THEN [source.from EXCEPT !.tag = None]
                                     ELSE source.from
    IN  IF \/ source.from = NoRef
           \/ source.by \notin {None, digest}
           \/ raw.type = "blob" /\ source.from.digest = None
        THEN Refused
        ELSE [type |-> raw.type,
              refs |-> Pinned(raw.refs, digest),
              lookup |-> ClearLookup(WithFallback(lookup, source.from), digest, copyFrom),
              data |-> NoData,
              copyFrom |-> copyFrom]

\* a document with data pushes it
NormalizePush(raw, lookup) ==
    IF CommonDigest(raw.refs) \notin {None, raw.data}
    THEN Refused
    ELSE [type |-> raw.type,
          refs |-> Pinned(raw.refs, raw.data),
          lookup |-> ClearLookup(lookup, raw.data, NoRef),
          data |-> raw.data,
          copyFrom |-> NoRef]

\* data pushed as a manifest must be JSON that says its mediaType
NormalizeInput(raw) ==
    IF \/ ~RefsAccepted(raw.type, raw.refs)
       \/ ~LookupAccepted(raw.lookup)
       \/ raw.type = "manifest" /\ raw.data \notin Manifests \cup {NoData}
    THEN Refused
    ELSE IF raw.data = NoData
    THEN NormalizeCopy(raw, FillLookup(raw.lookup))
    ELSE NormalizePush(raw, FillLookup(raw.lookup))

\* the JSON of a normalised input: "omitempty" drops zero bytes of data, and
\* reading it back drops copyFrom and mediaType
MarshalInput(normal) ==
    [type |-> normal.type, refs |-> normal.refs, lookup |-> normal.lookup,
     data |-> IF normal.data = EmptyData THEN NoData ELSE normal.data]

(***************************************************************************)
(* The locks main.go takes for one ref of a normalised input.              *)
(***************************************************************************)
Key(repo, digest) == <<repo, digest>>
NoLock == <<>>

TargetKey(ref) == IF ref.digest = None THEN NoLock ELSE Key(ref.repo, ref.digest)

\* the first ref of the input for its key write-locks it, the others read it
FirstForKey(normal, i) ==
    /\ normal.refs[i].digest # None
    /\ \A h \in 1..i - 1 : TargetKey(normal.refs[h]) # TargetKey(normal.refs[i])

\* slip: the children are only looked for where they are pushed to
ChildKeysThere(normal, ref) ==
    LET children == IF normal.data = NoData THEN {} ELSE ChildrenOf[normal.data]
    IN  {Key(ref.repo, c) : c \in children}

\* wherever the children of the data are or will be
ChildKeys(normal, ref) ==
    LET children == IF normal.data = NoData THEN {} ELSE ChildrenOf[normal.data]
        Places(c) == {ref.repo} \cup
                     {normal.lookup[d].repo : d \in {c, None} \cap DOMAIN normal.lookup}
    IN  UNION {{Key(repo, c) : repo \in Places(c)} : c \in children}

\* explicit lookups, whether or not anything says they are children
LookupKeys(normal) ==
    {Key(normal.lookup[d].repo, d) : d \in DOMAIN normal.lookup \ {None}}

SourceKeys(normal) ==
    IF normal.copyFrom = NoRef \/ normal.copyFrom.digest = None THEN {}
    ELSE {Key(normal.copyFrom.repo, normal.copyFrom.digest)}

ReadKeys(normal, i) ==
    (IF normal.refs[i].digest = None \/ FirstForKey(normal, i) THEN {}
     ELSE {TargetKey(normal.refs[i])})
    \cup ChildKeys(normal, normal.refs[i]) \cup LookupKeys(normal)
    \cup SourceKeys(normal)

(***************************************************************************)
(* What a push goes to, by the rule of registry/push.go: EnsureManifest    *)
(* looks a child up where the lookup has it or, without an entry, in the   *)
(* fallback, pushes it beside its parent, and goes on to what is below it  *)
(* with the place it came from as the fallback.  An object on the way is   *)
(* <<digest, fallback>>.                                                   *)
(***************************************************************************)
FallbackRepo(normal, ref) ==
    IF None \in DOMAIN normal.lookup THEN normal.lookup[None].repo ELSE ref.repo

ChildRepo(normal, fallback, c) ==
    IF c \in DOMAIN normal.lookup THEN normal.lookup[c].repo ELSE fallback

\* a copied manifest is only read, and then pushed as if it were the data
Pushed(normal) == IF normal.copyFrom = NoRef THEN normal.data ELSE normal.copyFrom.digest

FirstObject(normal, ref) == <<Pushed(normal), FallbackRepo(normal, ref)>>

ChildObjects(normal, object) ==
    {<<c, ChildRepo(normal, object[2], c)>> : c \in ChildrenOf[object[1]]}

\* both places of each child of an object
PlacesBelow(normal, ref, object) ==
    UNION {{Key(ref.repo, child[1]), Key(child[2], child[1])} :
               child \in ChildObjects(normal, object)}

\* a chain of digests that list each other is no longer than there are digests
ObjectsBelow(normal, object) ==
    LET Down[n \in Nat] ==
            IF n = 0 THEN {object}
            ELSE Down[n - 1] \cup UNION {ChildObjects(normal, o) : o \in Down[n - 1]}
    IN  Down[Cardinality(Digests)]

\* a copy by tag names no digest, and blobs have no children
KnownManifest(normal) == normal.type = "manifest" /\ Pushed(normal) # None

\* what the input names itself
GoesToFirst(normal, i) ==
    LET ref == normal.refs[i]
    IN  LookupKeys(normal) \cup
        IF normal.copyFrom = NoRef /\ normal.type = "manifest"
        THEN PlacesBelow(normal, ref, FirstObject(normal, ref))
        ELSE SourceKeys(normal)

\* and all that the push may look at or write on its way, besides its target
GoesTo(normal, i) ==
    LET ref == normal.refs[i]
    IN  GoesToFirst(normal, i) \cup
        IF KnownManifest(normal)
        THEN UNION {PlacesBelow(normal, ref, o) :
                        o \in ObjectsBelow(normal, FirstObject(normal, ref))}
        ELSE {}
=============================================================================
