--------------------------- MODULE RegistryCache ---------------------------
(***************************************************************************)
(* registry/cache.go: the in-memory cache between the goroutines of one    *)
(* program and an upstream registry.                                       *)
(*                                                                         *)
(* Every method takes the mutex of its "repo@digest" or "repo:tag" and     *)
(* keeps it until it returns, the upstream call included; rc.mu only       *)
(* guards each access to the three maps, so that an access is one step     *)
(* here.  An object is its digest; of a cached descriptor the model keeps  *)
(* whether it is there and whether it has Data.  The registry is honest:   *)
(* it answers with the digest that was asked for.                          *)
(***************************************************************************)
EXTENDS Integers

CONSTANTS
    Procs,      \* the goroutines that share the cache
    Repos, Tags, Digests,
    None,       \* the empty string, the missing map entry, the free mutex
    Large,      \* digests of objects beyond manifestSizeLimit
    Workloads,  \* sets of method calls that the goroutines may make
    MaxCalls,   \* bound: calls per goroutine
    MayFail     \* whether calls upstream, and reads of a body, may fail

Kinds == {"get", "getTag", "resolve", "resolveTag", "pushManifest", "pushBlob", "mount"}

DigestKeys == Repos \X Digests
TagKeys == Repos \X Tags
Keys == DigestKeys \cup TagKeys

\* from is MountBlob's fromRepo
AllCalls == [kind : Kinds, repo : Repos, digest : Digests \cup {None},
             tag : Tags \cup {None}, from : Repos \cup {None}]

\* every call there is
Calls == UNION Workloads

ByTag(c) == c.kind \in {"getTag", "resolveTag"}
Gets(c) == c.kind \in {"get", "getTag"}
Looks(c) == c.kind \in {"get", "getTag", "resolve", "resolveTag"}
TagsPush(c) == c.kind = "pushManifest" /\ c.tag # None

ASSUME CacheAssumption ==
    /\ None \notin Procs \cup Repos \cup Tags \cup Digests
    /\ Tags \cap Digests = {}
    /\ Large \subseteq Digests
    /\ Calls \subseteq AllCalls
    /\ \A c \in Calls : /\ ByTag(c) => c.tag # None
                        /\ ~ByTag(c) => c.digest # None
                        /\ c.kind = "mount" => c.from # None
    /\ MaxCalls \in Nat
    /\ MayFail \in BOOLEAN

VARIABLES
    upHas,      \* the objects upstream, by repo
    upTags,     \* the tags upstream
    has,        \* rc.has
    tags,       \* rc.tags
    data,       \* rc.data: no descriptor, one without Data, one with it
    workload,   \* what the goroutines call
    mutex,      \* key -> the goroutine that holds its refMutex
    pc,         \* where each goroutine stands
    call,       \* the call it is in
    got,        \* the digest of the descriptor upstream gave it
    budget,     \* how many calls it may still make
    fetched,    \* how often a key's content was got upstream (up to 2), since
                \* a body of that content could not be read
    unsure      \* tags an unsuccessful push may have moved

vars == <<upHas, upTags, has, tags, data, workload, mutex, pc, call, got, budget, fetched,
          unsure>>
cacheVars == <<has, tags, data>>
upVars == <<upHas, upTags, fetched, unsure>>
procVars == <<workload, call, got, budget>>

Pcs == {"idle", "lock", "lockTag", "check", "upstream", "store", "read", "keep", "unlock"}

\* whatever is upstream when the program starts
Init ==
    /\ workload \in Workloads
    /\ upHas \in SUBSET DigestKeys
    /\ upTags \in [TagKeys -> Digests \cup {None}]
    /\ \A k \in TagKeys : upTags[k] # None => <<k[1], upTags[k]>> \in upHas
    /\ has = {}
    /\ tags = [k \in TagKeys |-> None]
    /\ data = [d \in Digests |-> "none"]
    /\ mutex = [k \in Keys |-> None]
    /\ pc = [p \in Procs |-> "idle"]
    /\ call = [p \in Procs |-> None]
    /\ got = [p \in Procs |-> None]
    /\ budget = [p \in Procs |-> MaxCalls]
    /\ fetched = [k \in Keys |-> 0]
    /\ unsure = {}

FirstKey(c) == IF ByTag(c) THEN <<c.repo, c.tag>> ELSE <<c.repo, c.digest>>

Goto(p, place) == pc' = [pc EXCEPT ![p] = place]

\* slip: the mutex is not waited for
FreeUnasked(k) == TRUE
Free(k) == mutex[k] = None

Begin(p) ==
    /\ pc[p] = "idle" /\ budget[p] > 0
    /\ \E c \in workload : call' = [call EXCEPT ![p] = c]
    /\ budget' = [budget EXCEPT ![p] = @ - 1]
    /\ Goto(p, "lock")
    /\ UNCHANGED <<cacheVars, upVars, workload, mutex, got>>

LockRef(p) ==
    /\ pc[p] = "lock"
    /\ Free(FirstKey(call[p]))
    /\ mutex' = [mutex EXCEPT ![FirstKey(call[p])] = p]
    /\ Goto(p, IF TagsPush(call[p]) THEN "lockTag"
               ELSE IF Looks(call[p]) THEN "check" ELSE "upstream")
    /\ UNCHANGED <<cacheVars, upVars, procVars>>

\* slip: PushManifest does not lock the tag
LockTagNot(p) ==
    /\ pc[p] = "lockTag"
    /\ Goto(p, "upstream")
    /\ UNCHANGED <<cacheVars, upVars, procVars, mutex>>

\* PushManifest with a tag is the one method that holds two mutexes
LockTag(p) ==
    /\ pc[p] = "lockTag"
    /\ Free(<<call[p].repo, call[p].tag>>)
    /\ mutex' = [mutex EXCEPT ![<<call[p].repo, call[p].tag>>] = p]
    /\ Goto(p, "upstream")
    /\ UNCHANGED <<cacheVars, upVars, procVars>>

\* haveValidCache
Cached(c) ==
    IF ByTag(c)
    THEN LET d == tags[<<c.repo, c.tag>>]
         IN  d # None /\ data[d] \in (IF Gets(c) THEN {"full"} ELSE {"bare", "full"})
    ELSE /\ <<c.repo, c.digest>> \in has
         /\ data[c.digest] \in (IF Gets(c) THEN {"full"} ELSE {"bare", "full"})

Check(p) ==
    /\ pc[p] = "check"
    /\ Goto(p, IF Cached(call[p]) THEN "unlock" ELSE "upstream")
    /\ UNCHANGED <<cacheVars, upVars, procVars, mutex>>

\* what upstream can find of it
Found(c) ==
    CASE ByTag(c) -> upTags[<<c.repo, c.tag>>]
      [] c.kind \in {"get", "resolve"} /\ <<c.repo, c.digest>> \notin upHas -> None
      [] c.kind = "mount" /\ <<c.from, c.digest>> \notin upHas -> None
      [] OTHER -> c.digest

\* what upstream holds once a push or a mount took effect
Push(c) ==
    /\ upHas' = IF Looks(c) THEN upHas ELSE upHas \cup {<<c.repo, c.digest>>}
    /\ upTags' = IF TagsPush(c) THEN [upTags EXCEPT ![<<c.repo, c.tag>>] = c.digest]
                                ELSE upTags

\* the upstream registry carries the call out, and its answer arrives
UpstreamOK(p) ==
    LET c == call[p] IN
    /\ pc[p] = "upstream" /\ Found(c) # None
    /\ Push(c)
    /\ got' = [got EXCEPT ![p] = Found(c)]
    /\ fetched' = IF Gets(c) /\ fetched[FirstKey(c)] < 2
                  THEN [fetched EXCEPT ![FirstKey(c)] = @ + 1] ELSE fetched
    /\ unsure' = IF TagsPush(c) THEN unsure \ {<<c.repo, c.tag>>} ELSE unsure
    /\ Goto(p, "store")
    /\ UNCHANGED <<cacheVars, workload, mutex, call, budget>>

\* an error arrives: nothing is found, or the call was not carried out, or it
\* was and the answer is lost
UpstreamError(p) ==
    LET c == call[p] IN
    /\ pc[p] = "upstream"
    /\ \/ /\ Found(c) = None \/ MayFail
          /\ UNCHANGED <<upHas, upTags, unsure>>
       \/ /\ Found(c) # None /\ MayFail
          /\ Push(c)
          /\ unsure' = IF TagsPush(c) THEN unsure \cup {<<c.repo, c.tag>>} ELSE unsure
    /\ Goto(p, "unlock")
    /\ UNCHANGED <<cacheVars, procVars, mutex, fetched>>

\* slip: what one repository has, every repository has
NowHasEverywhere(p) == has \cup {<<r, got[p]>> : r \in Repos}
NowHas(p) == has \cup {<<call[p].repo, got[p]>>}

\* slip: the descriptor is stored as it came
DescriptorBare(p) == "bare"
\* only the methods that "carefully copy" keep the Data of an entry that has it
Descriptor(p) ==
    IF Gets(call[p]) THEN "bare"
    ELSE IF call[p].kind = "pushManifest"
    THEN IF got[p] \in Large THEN "bare" ELSE "full"
    ELSE IF data[got[p]] = "none" THEN "bare" ELSE data[got[p]]

\* the first access to the maps after the upstream call
Store(p) ==
    LET c == call[p] IN
    /\ pc[p] = "store"
    /\ has' = NowHas(p)
    /\ tags' = IF ByTag(c) \/ TagsPush(c)
               THEN [tags EXCEPT ![<<c.repo, c.tag>>] = got[p]] ELSE tags
    /\ data' = [data EXCEPT ![got[p]] = Descriptor(p)]
    /\ Goto(p, IF Gets(c) /\ got[p] \notin Large THEN "read" ELSE "unlock")
    /\ UNCHANGED <<upVars, procVars, mutex>>

\* slip: what was read is not kept
ReadBodyOnly(p) ==
    /\ pc[p] = "read"
    /\ Goto(p, "unlock")
    /\ UNCHANGED <<cacheVars, upVars, procVars, mutex>>

\* io.ReadAll of the body
ReadBody(p) ==
    /\ pc[p] = "read"
    /\ \/ Goto(p, "keep") /\ UNCHANGED fetched
       \/ /\ MayFail /\ Goto(p, "unlock")
          /\ fetched' = [k \in Keys |-> IF k \in DigestKeys /\ k[2] = got[p] THEN 0 ELSE fetched[k]]
    /\ UNCHANGED <<cacheVars, upHas, upTags, unsure, procVars, mutex>>

\* the second access to the maps
Keep(p) ==
    /\ pc[p] = "keep"
    /\ data' = [data EXCEPT ![got[p]] = "full"]
    /\ Goto(p, "unlock")
    /\ UNCHANGED <<has, tags, upVars, procVars, mutex>>

\* slip: only the first mutex is released
UnlockFirst(p) ==
    /\ pc[p] = "unlock"
    /\ mutex' = [mutex EXCEPT ![FirstKey(call[p])] = None]
    /\ Goto(p, "idle")
    /\ UNCHANGED <<cacheVars, upVars, procVars>>

\* the deferred Unlock of what the call has locked
Unlock(p) ==
    /\ pc[p] = "unlock"
    /\ mutex' = [k \in Keys |-> IF mutex[k] = p THEN None ELSE mutex[k]]
    /\ Goto(p, "idle")
    /\ UNCHANGED <<cacheVars, upVars, procVars>>

Step(p) ==
    \/ LockRef(p) \/ LockTag(p) \/ Check(p) \/ UpstreamOK(p) \/ UpstreamError(p)
    \/ Store(p) \/ ReadBody(p) \/ Keep(p) \/ Unlock(p)

Finished == (\A p \in Procs : pc[p] = "idle" /\ budget[p] = 0) /\ UNCHANGED vars

Next == (\E p \in Procs : Begin(p) \/ Step(p)) \/ Finished

\* the Go scheduler runs every goroutine that can run, and upstream answers
Fairness == \A p \in Procs : WF_vars(Step(p))

Spec == Init /\ [][Next]_vars /\ Fairness

(***************************************************************************)
(* Properties.                                                             *)
(***************************************************************************)
TypeOK ==
    /\ upHas \subseteq DigestKeys
    /\ upTags \in [TagKeys -> Digests \cup {None}]
    /\ has \subseteq DigestKeys
    /\ workload \in Workloads
    /\ tags \in [TagKeys -> Digests \cup {None}]
    /\ data \in [Digests -> {"none", "bare", "full"}]
    /\ mutex \in [Keys -> Procs \cup {None}]
    /\ pc \in [Procs -> Pcs]
    /\ call \in [Procs -> Calls \cup {None}]
    /\ got \in [Procs -> Digests \cup {None}]
    /\ budget \in [Procs -> Nat]
    /\ fetched \in [Keys -> 0..2]
    /\ unsure \subseteq TagKeys

\* Two goroutines never ask upstream for the same ref at the same time: the
\* refMutexes are there "to ensure we don't double up on upstream lookups"
\* (cache.go:36).
NoDoubleLookup ==
    \A p, q \in Procs :
        p # q /\ pc[p] = "upstream" /\ pc[q] = "upstream"
        => FirstKey(call[p]) # FirstKey(call[q])

\* A push to tag k is in the registry but not yet in the cache.
PushInFlight(k) ==
    \E p \in Procs : /\ pc[p] = "store" /\ TagsPush(call[p])
                     /\ k = <<call[p].repo, call[p].tag>>

\* A tag in the cache is the tag upstream, so that a goroutine reads the tags
\* that it or another one pushed, unless a push failed: the mutex of a tag
\* spans the upstream call and the store (cache.go:279-301).
TagsCoherent ==
    \A k \in TagKeys :
        tags[k] # None /\ k \notin unsure /\ ~PushInFlight(k) => tags[k] = upTags[k]

\* The cache never says of a repository that it has what it does not have,
\* although "data" is shared by all repositories (cache.go:43-45).
HasIsTrue ==
    /\ has \subseteq upHas
    /\ \A k \in TagKeys : tags[k] # None => /\ <<k[1], tags[k]>> \in has
                                            /\ data[tags[k]] # "none"

\* Data once cached is only ever dropped by a Get that fetches the same
\* object: what resolves, pushes or mounts it keeps the "other existing
\* fields" (cache.go:204, 326, 356).
DataKept ==
    [][\A d \in Digests : data[d] = "full" /\ data'[d] # "full" =>
          \E p \in Procs : pc[p] = "store" /\ Gets(call[p]) /\ got[p] = d]_vars

\* And such a Get is about to put the Data back, unless its read fails: an object
\* that was got once has Data whenever no Get of it is under way, through
\* whatever repository or tag (cache.go:85-106, 144-171).
DropIsBrief ==
    \A k \in DigestKeys :
        /\ fetched[k] > 0 /\ k[2] \notin Large /\ data[k[2]] # "full"
        => \E p \in Procs : /\ pc[p] \in {"store", "read", "keep"}
                            /\ Gets(call[p]) /\ got[p] = k[2]

\* the mutex that p is at, and whether another goroutine keeps p from it
Awaited(p) == IF pc[p] = "lock" THEN FirstKey(call[p]) ELSE <<call[p].repo, call[p].tag>>
Waits(p) == pc[p] \in {"lock", "lockTag"} /\ ~Free(Awaited(p))
Moves(p) == pc[p] # "idle" /\ ~Waits(p)
Holder(p) == mutex[Awaited(p)]

\* Whoever waits for a mutex waits for a call that goes on, or for a push that
\* itself waits for such a call, and for no longer chain: "defer" leaves none
\* locked, and of the two mutexes of PushManifest the second one's holders wait
\* for nobody (cache.go:273-284).
WaitsAreShort ==
    \A p \in Procs : Waits(p) =>
        /\ Holder(p) \in Procs
        /\ Moves(Holder(p)) \/ (/\ Waits(Holder(p)) /\ Holder(Holder(p)) \in Procs
                               /\ Moves(Holder(Holder(p))))

\* Every call returns: the two mutexes of PushManifest, always the digest's
\* before the tag's, make no cycle (cache.go:273-284).
CallsReturn == \A p \in Procs : pc[p] # "idle" ~> pc[p] = "idle"
=============================================================================
