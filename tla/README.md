# TLA+ models of meta-scripts

This directory holds TLA+ specifications of the scripts behind the Docker
Official Images' meta data: the programs that find out which images exist
(`cmd/builds`), that trigger the builds of those that do not
(`Jenkinsfile.trigger`), and that push what was built to where it belongs
(`Jenkinsfile.deploy`, `cmd/deploy`), with the registry library they share
(`registry/`). TLC checks the models on small instances, and TLAPS proves their
safety properties for all instances: any stream of inputs, graph of objects, list
of builds or of descriptors, number of goroutines. `PROJECT.json` maps every
definition to the lines it stands for.

## The system

    sources.sh -> sources.json -> cmd/builds -> builds.json -> Jenkinsfile.trigger
                                      |               |               |
                                      |           deploy.jq     Jenkinsfile.build
                                  registry/           |               |
                                      |          cmd/deploy       staging images
                                      +-- registry ---+---------------+

| Part | Keeps | Does | What is hard | What makes it correct |
|---|---|---|---|---|
| `cmd/deploy/main.go`, jobs | an RWMutex per `repo@digest` (`childMutexes`), a WaitGroup | decodes a stream of inputs, one goroutine per (input, ref) with `--parallel` | the only thing that orders concurrent pushes are read and write locks that two kinds of goroutines take; a failed push panics | children are pushed before parents, nobody reads what is being pushed, nothing deadlocks |
| `cmd/deploy/main.go`, dry run | a channel of channels | prints in order what jobs find out in any order | blocking sends under a lock, channels closed by deferred calls | order, completeness, an end |
| `cmd/deploy/input.go` | nothing | normalises an input: what to push or to copy, to where, with which lookups | many shapes of input; its output is its input again | what an input names itself is locked, a dry run can be replayed, a copy by digest stays one |
| `registry/push.go` | nothing; the registry changes | `EnsureManifest` and its recursion over children, `CopyManifest`, `EnsureBlob`, `CopyBlob` | a HEAD stands for a whole tree, children are copied only after a refusal, concurrent pushes of shared children, lost answers | success means everything is there; failure leaves the tag alone |
| `registry/cache.go` | has, tags and data maps; a mutex per ref | eight methods in front of a registry | a mutex held over the upstream call, two of them in `PushManifest`, a descriptor shared by all refs | no double lookups, no stale tags, no false presence |
| `registry/client.go`, `lookup.go` | one client per host | builds the stack of transports, turns 404 into nil | once per host, from any goroutine | one cache and one limiter per host; "nothing there" only if the registry says so |
| `registry/rate-limits.go` | a token bucket | retries 429 without end and 50x three times | all goroutines share the bucket, and drain it while others wait; request bodies are sent again | the rate is kept, no body is lost, calls return |
| `registry/synthesize-index.go`, `cosign.go` | nothing | an index with platforms and architectures filled in; the signatures of its images | filters in place, one pass | attestations stay with their subject; with keys what is deployed is signed or may be unsigned, and only images that are deployed are signed anew |
| `cmd/builds` | OnceValue functions by source and architecture, an in-memory and an on-disk cache | resolves parents, then the image of each build, verifies signatures, signs for production, prints in order | hundreds of goroutines that wait for each other's functions and share variables | order, a build left out only if a parent is not there, fresh verdicts, stable signatures |
| `Jenkinsfile.trigger`, `jenkins.jq` | `past-jobs.json`, as an artifact of the last successful run | sorts and filters the queue, triggers, waits, records | the state survives only through successful runs; builds fail again and again | failing builds come last, none is forgotten |
| `Jenkinsfile.deploy`, `deploy.jq` | `deploy.json` of the last successful run | makes deploy inputs, leaves out what was deployed last time | the filter trusts a file, while failed runs push too | what is left out is still there; tags end up where builds.json has them |
| `Jenkinsfile.meta`, `Jenkinsfile.build`, `sources.sh`, `meta.jq`, `helpers/` | git and workspaces | regenerate, build, sign, push to staging | shell and external tools | - |
| `oci.jq`, `sort.jq` | nothing | sorts and normalises what deploy.jq emits | stable sorts by computed positions | nothing but attestations between an attestation and its subject |
| `om/`, `sm/`, `validate.jq`, `doi.jq`, `tianon.jq`, `provenance.jq` | nothing shared | containers, JSON | - | - |

A deploy job calls `normal.do`, which calls `EnsureManifest` and its like, whose
requests go through the cache of the host, the rate limiter and HTTP.
`cmd/builds` shares the same cache. The Jenkins jobs interact only through
files: `builds.json` in git, `past-jobs.json` and `deploy.json` as artifacts.

## Modules

| Module | Extends | Models |
|---|---|---|
| `DeployLocks` | | main loop, RWMutexes and jobs of `cmd/deploy` |
| `DeployOrder` | | what those locks promise, without locks |
| `DeployBelow` | `DeployLocks` | what a push goes to below what its job has locked |
| `DeployDryRun` | `DeployLocks` | with `--dry-run`, the channels and the printer on top of the locks |
| `DeployProofs` | `DeployDryRun`, `DeployBelow` | proofs about them and about `DeployLocks` |
| `DeployInput` | | `NormalizeInput`, `MarshalJSON`, the keys to lock and those that a push goes to, as operators |
| `DeployReplay` | `DeployInput` | a document normalised, printed by a dry run, and normalised again |
| `DeployReplayProofs` | `DeployReplay` | proofs |
| `Push` | | `registry/push.go` and `normal.do` against a registry |
| `PushProofs` | `Push` | proofs |
| `RegistryCache` | | `registry/cache.go` between goroutines and a registry |
| `RegistryCacheProofs` | `RegistryCache` | proofs |
| `Client` | | `registry/client.go`, `lookup.go` and `rate-limits.go`, between goroutines |
| `ClientProofs` | `Client` | proofs |
| `Builds` | | `cmd/builds` over several runs |
| `BuildsProofs` | `Builds` | proofs |
| `Indexes` | | `SynthesizeIndex`, the verdict on signatures and `deploy.jq`, as operators |
| `Pipeline` | `Indexes` | `Jenkinsfile.deploy`: from images in staging to tags, over several runs |
| `PipelineProofs` | `Pipeline` | proofs |
| `Trigger` | | `Jenkinsfile.trigger` with `jenkins.jq` |
| `TriggerProofs` | `Trigger` | proofs |
| `MC*` | the module of that name | constants for TLC |

Some definitions are preceded by a variant marked `slip`: what a plausible
mistake would make of them. The slips are used nowhere in a specification; they
serve to see that a property notices the mistake. `PROJECT.json` pairs each
property with one.

### DeployLocks

Variables: `mainPc` and `next` are the main goroutine's place and iteration,
`pc` that of each job; `writer`, `announced` and `readers` are the RWMutexes of
`childMutexes`. Go's RWMutex keeps new readers out as soon as a writer waits, so
`Lock` is two steps: `AnnounceLock` and `GrantLock`. Only the main goroutine
calls `Lock`. `Spawn` is the `go f()` of main.go:263 or, without `--parallel`
(the variable `parallel`, chosen at the start), the call at 265, after which
the loop waits: `JobReturned`. A job takes its read locks in any order (part of
its list comes from a Go map), pushes (`StartDo`, `FinishDo`), and runs its
deferred unlocks in the order Go would. A failed push panics: the unlocks run,
and then the process ends (`Crash`), while others may still run. So may they when a
document is refused and the main goroutine panics (`RefuseInput`).

A job is a pair of an input and a ref. `Target` is its `repo@digest`, `Writers`
are the first refs of their input for that key, `Reads` the keys the job
read-locks; DeployInput shows how main.go computes them.

### DeployOrder

The same jobs without locks: a push begins when the earlier pushes that it
depends on are over and no push that it would disturb, or be disturbed by, is
under way; without `--parallel`, when all earlier pushes succeeded. DeployLocks
implements it (`ImplementsOrder`) under the mapping `PushState`: waiting and
locking look the same, and a push is over when `normal.do` has returned.

### DeployDryRun

The same locks and, if `dryRun` was chosen at the start, jobs that look for
their object instead of pushing it, and print the input if it needs a push.
`dryRunOuts` is the channel of channels (`OutCap` stands for its capacity, 100000
in the code), `dryRunOut` the one-slot channel of each job, closed by a deferred
call before its locks go. Whether a job finds its object is an open choice.
Without `--dry-run` the module adds nothing to DeployLocks, so that one run
checks both.

### DeployInput and DeployReplay

`NormalizeInput` is a pure function from a raw input to a normalised one or to
`Refused`. Host and repository are one value, data is its digest. `ReadKeys`
lists what main.go:170-208 locks for a ref, `GoesTo` what its push may look at or
write by the rule of registry/push.go, on all levels, of which `GoesToFirst` is the
first, with what the lookup names. DeployReplay feeds each normalised
input, printed for one of its refs, to `NormalizeInput` again. `Inputs` is every
document there can be, `RawInputs` those that a run of TLC starts from.

### DeployBelow

The locks of a job cover what its data or its copy names itself, and no more:
`EnsureManifest` goes on to the children of children (push.go:98-128), and
`CopyManifest` to those of the manifest that it copies (push.go:169-193), without a
lock. What keeps these apart from jobs listed before is that a parent's push has
been waited for, and that it had waited for theirs. DeployBelow adds to DeployLocks what each job
goes to, `GoesFirst` and `Goes`, and says for which streams the argument holds
(`Chained`): those that push, between a grandchild and what it is below, a parent of
it too. A stream that leaves the parents out is not covered, and has two jobs at the grandchild at the
same time; registry/push.go then does twice what needs doing once, as `Push` has it.

### Push

A job has a stack of `EnsureManifest` calls, since the recursion is interleaved with
other jobs'. A call goes from `head` to `push` to `children` and, after the last
child, to the second and last push. `has` and `tagged` are the registry. It is taken
to refuse a manifest whose children the repository lacks, with a status in the 400s:
that is what `EnsureManifest` is written for, and what makes its HEAD shortcut
right. At the start the registry has any content in which manifests have their
children. `Below` is everything below an object, the least set with its children and
theirs. A blob's HEAD before a large push (push.go:211) is left out, since pushing a
blob again changes nothing. With `MayFail` requests of a job fail in other ways, and
`AnswerLost` is a push that was carried out but not reported.

### RegistryCache

A goroutine in a call goes from `lock` (its ref's mutex; `lockTag` for the
second one of `PushManifest`) to `check`, `upstream`, `store`, and for a Get to
`read` and `keep`, then to `unlock`. Each access to the maps under `rc.mu` is
one step. Of a descriptor the model keeps whether it is there and has its
`Data`. Calls upstream may fail before or after they took effect.

### Client

Below the cache. `clientCache` maps a host to the closure of `sync.OnceValues`
that was stored first (`cached`); the closure that a goroutine calls is `mine`,
and `once` and `auth` say whether it is running, has made the client, or has
failed for good. A request then waits for the request limiter of its own (one
try per tick) and for the shared limiter of the host, whose `tokens` go below
zero when they are taken in advance. After a 429 the bucket is drained, one
`Allow` at a time while others take tokens too, and the request is sent again;
so it is after a 50x, without the draining, while `left50x` lasts. `spare`, `failed50x` and
`ticked` are history. golang.org/x/time/rate and the transport are external, and
modelled by what their documentation promises.

### Builds

A build stands for its OnceValue function, its channel and its staging image.
The producer queues a channel (`Send`), then registers and starts the function
(`Register`). A function goes through its parents (`TakeParent` waits for a
build, `LookupParent` asks for an image), looks up its own image, verifies it
and returns. `err` is one variable for all functions, as in main.go:422, and
`CheckErr` reads either what its function assigned or what another one did
since. `SkippedForAReason` is about runs in which the lookups of foreign images
fail for all or for none (`LookupsAgree`), since otherwise a failure may be lost in
`err`, which `BuildsErr` shows. An image that carries signatures is signed for production: `SignDigest`
takes the signature from the cache file or makes one, and `KeepSignature`, under
the mutex, settles which of several is used. `Rerun` starts the program again,
with the cache file of the last run that ended normally, a registry in which
images appeared or were replaced, and perhaps other keys (`env`). `--cache` is
taken to be given, as it is in Jenkinsfile.meta.

### Indexes and Pipeline

Indexes has the pure functions: `SynthesizeIndex`, a function of how many turns its
loop has made over a list of descriptors, `ValidSignatureState` and what leads to
it, and `DeployJson`, the objects deploy.jq makes, their manifests sorted by the
two sorts of oci.jq. What filters or sorts a list is one operator, `Picked`: the
positions that stay, in the order of their keys. A signature is the key that made
it, a platform a name with a rank. `Staged` says what a staging index
has: a digest is of one descriptor, its kind is one that validate_oci_index
(oci.jq:266) lets pass, and what is about another is about an image (as
helpers/sign-image.sh:44-55 checks); there may be any number of images, and
attestations and signatures in any order. `Coherent` says the same of all the
indexes of one time. `Rank` is the order of sort_split_platform (oci.jq:44-53):
linux first, then by name, so that attestations, which are of "unknown", come behind all images
until sort_attestations takes them to theirs. Pipeline puts
them to use: `builds` is builds.json, `past` the deploy.json of the last successful
run, and a run generates, filters, pushes in any order (more orders than DeployLocks lets
happen) and succeeds, or fails anywhere. `SynthesizeIndex` is not checked by
itself, but by what reaches a tag.

### Trigger

`Queue` computes the records and the queue from `past-jobs.json`, which is that of
the last successful run or, if it could not be fetched, empty. Then builds are
triggered one after the other (`SortedQueue` is the order of counts, and of
builds.json among equal ones, as jq's sort is stable), those on GitHub Actions
without waiting for them, the others are waited for in any order, and `Archive`
merges the time stamps into the records. Time is in hours: time stamps are ages,
capped at the longest interval, beyond which they are all alike.

## Runs

| Run | Bounds | Shows |
|---|---|---|
| `Deploy` | 6 jobs, 8 keys, with and without `--parallel` and `--dry-run`, a channel of two | the locks order pushes, also below what is locked, output in order and complete, nothing stalls, an end |
| `DeployRetag` | one document, 2 refs | violated: a tag given in the same repository deadlocks |
| `DeployReplay` | about 60,000 documents | replay is faithful; copies stay by digest |
| `Push` | 3 jobs, 3 repositories, 5 objects, 729 registries | success and failure mean what push.go says |
| `Cache` | 2 goroutines with 2 calls each, of two sets of calls, 2 repositories, 2 objects, 1 tag | tags are coherent, presence is true, `Data` is kept, no double lookup, waits are short, calls return |
| `Client` | 2 requests, 2 hosts, a burst of 2, two 429s | one client per host, the rate is kept, results mean what they say, calls return |
| `Builds` | 3 builds, 1 foreign image, 2 keys, 2 runs, a channel of one | order, left out only what has a parent that is not there, fresh verdicts, stable signatures, nothing stalls, an end |
| `BuildsErr` | 2 builds, 2 foreign images | violated: a failed lookup is lost through the shared `err` |
| `Pipeline` | every index of up to 3 of 11 descriptors under 5 lists of keys; 48 pairs of builds with a tag in common; 3 histories of 3 versions, 2 failed runs | what is deployed to a tag is what should be, in order, and signed or free to be unsigned; what is signed is that; in the end tags are what builds.json has, but for those in doubt |
| `PipelineSigned` | one signed image under one tag or two | violated: a tag comes to name a signature |
| `Trigger` | 2 builds, intervals 0, 0, 1, 2 | failing builds come last, are remembered and retried |
| `TriggerStarves` | 1 build | violated: two failed triggers and a build is skipped for ever |

Why the bounds are enough. *Deploy*: the locks act per key, and the stream has
every relation two jobs can have over a key: a child and a parent, two refs of
one input, two inputs with one key, and a writer after readers; the first push of the
image may fail. The channel of channels gets full. The layer is below what the index
and its copy lock, with the image between them in the stream, and what is below is
found by a fallback, by an explicit lookup and through a copied manifest. That a ref
without a digest has no lock is in `DeployProofs` only. *DeployReplay* is finite up to names: refs matter by whether they have a
tag and a digest and which, lookups by their digest, fallback or not. *Push*
has an index, images and blobs, so the recursion has its full depth, a shared
layer, and a foreign source per child. *Cache*: properties relate one or two
goroutines and one key. What no call of a run names is left out of its
registry. *Client*: two goroutines fill the bucket's burst, so that the second
round waits; the two 429s fall on one request or on both. *Builds*: a chain, a
common parent and a wrong order; two builds with one payload and one without;
the interesting run is the second one. *Pipeline*: three descriptors are an
image, what is about it, and one more before, between or after; three longer
lists have two subjects of which one is ours. Two subjects of ours need two builds:
pairs, each with an attestation or two, before and behind their subject, so that the
list which sort_attestations gets has all attestations behind both images. The histories move a tag away and back, to
and from an image of another architecture, and between builds. *Trigger*: two
builds to sort, and a table of intervals long enough to have a first wait, a
longer one and a last entry.

### Fairness

All liveness rests on weak fairness of goroutines, which the Go scheduler gives,
and on every request coming to an end, which HTTP does, with an error if need
be. In Client time goes on, and 429s cease after `MaxRefused`: the code would
try for ever. In Trigger time goes on and cron starts a run every hour; a build
that Jenkins waits for ends (`Jenkinsfile.build` has a timeout of 3 hours). In
Pipeline a run is started every day and with every change, and comes to an end;
`Converges` is about `MaxFailures` failed runs, and any runs after that. In the
other models nothing is assumed about failures ceasing.

## Proofs

`DeployProofs`, for every stream of jobs, from `DeployAssumption` alone:

- `TypeCorrect`, `ChildrenComeFirst`, `PushesAreAlone`. The two properties are
  not inductive. `IInv` adds the locking protocol: a write lock is held from
  before its job is spawned until the job has returned (`WriterHolds`), readers
  and a writer exclude each other (`Exclusion`), a pushing job holds all its
  read locks (`ReadsHeld`), and a reader that came after a writer of the key got
  its lock when that writer had returned (`ReadAfter`).
- `NeverStalls`: as long as nothing the main loop has come to repeats an object
  after what reads it (`InOrderSoFar`), somebody can run. If nobody could,
  the oldest job that waits for a read lock would wait for an older one.
  It needs `Holders`: whoever holds a lock is a job that has not returned.
- `SerialPushes`: without `--parallel` what comes before has been pushed
  *successfully*, whatever fails; by `OneByOne`.
- `ImplementsOrder`: every step is one of `DeployOrder`, or changes none of its
  state.
- `AllBelowIsOver`, for every stream on which jobs lock what they name themselves, which
  `NamedIsLocked` proves of main.go's list. `BegunAfter`: when a job has begun, what is
  listed before it and what it has locked is over; so was, by then, what that one goes
  to. Along `Chained` that reaches everything below.

and of a dry run, for every stream and every capacity, from `DeployAssumption` and
`OutAssumption`:

- `DryChildrenFirst`: every step of DeployDryRun is one of DeployLocks or changes
  none of its state (`DryStep`), so that `IInv` is an invariant here too.
- `DryTypeCorrect`, with the bound on the channel of channels.
- `DryOutputInOrder`. The printer has come to a certain job (`Cursor`), and
  `Queued` says that the channels which wait for it are those of the jobs from
  there to the last one spawned, without a gap. `Settled`: of the jobs before,
  the channel is closed or full, so what is needed of them is known;
  `PrintedSoFar`: and has been printed. `EndsDone`: main only returns when all has.

`RegistryCacheProofs`, for any goroutines, refs and calls, from
`CacheAssumption`:

- `TypeCorrect` and `NeverDoubleLookup`, from `Locking`: who is in a call holds
  the mutex of its ref.
- `CacheIsCoherent`, from `IInv`: what a call brings back for a tag is still what
  the tag is upstream when it is stored (`BringsTag`), because nobody else has
  the tag's mutex.

- `PresenceIsTrue`, from `Presence`: what a call is about to store is upstream in
  the repository of the call (`ThereUpstream`). That a descriptor is shared by all
  repositories does not matter, as `has` is kept for each.
- `DropsAreBrief` and the action property `DataIsKept`, from `Brief`: data that is
  kept is of small objects (`DataIsSmall`), and whoever drops it is in `read` or
  `keep` of the same object.
- `NobodyWaitsInVain`, from `InUse`: who holds a mutex is in a call that has locked it
  and not yet unlocked it. Who holds the mutex of a tag waits for nobody
  (`WaitsForTag`: only `PushManifest` takes a second mutex, and that is a tag's), so
  a chain has at most two waits. Two goroutines, as in `Cache`, show only that
  there is no cycle; the chain of two is the theorem's.

`DeployReplayProofs`, for all documents, from `InputAssumption` and
`ReplayAssumption` (documents are what Go's types admit, and nil is no reference):

- `NamedIsLocked` compares two pieces of code, main.go's list of keys and push.go's
  choice of where a child is, for the first level, which is all that is locked.
- `RoundTrip`. `IInv` says that a document is one of `Inputs`, that what was made of
  it is `NormalizeInput` of it, and that it is one to start from or was printed of
  such a one. Then `NormalizeInput` of what was printed is computed: `PushAgain`,
  and `CopyAgain` from `CopiedAgain`, which says of each way to name the source of
  a copy (`Filed`, `Alone`, `AsItIs`, `FromFallback`) what names it the second time.
- `CopiesTheDigest`, by the same four ways (`Sources`).

`PushProofs`, for any graph of objects, jobs, repositories and failures, from
`PushAssumption`. The stack of calls is a variable, so no induction over the
recursion is needed:

- `AllIsEnsured`. `Sound`: the registry has no manifest without its children, nor a
  tag without its object; so an object that is there has all that is below it
  there. `Stack` says of the calls of a job that the outermost is the job's
  (`Outermost`), that each is for the child that its caller has come to (`Nested`),
  that what a caller is past is there (`Done`), and that a fallback is where the
  task says that something above it is (`Inner`). `Kept` is `Ensured` without what
  is below.
- `NoFailureWithoutReason`: a task that knows a place for everything below its
  object fails only for want of an answer. A refused push has a child left to copy
  or has all of them; by `Inner` and `Nested` the child is looked for where the
  task says that it is. This is an action property: after a job has failed others
  may push what it lacked.
- `TagsMoveLast`: by `Outermost` and `Inner` no call but the outermost has a tag.

`ClientProofs`, for any goroutines, hosts and limiters, from `ClientAssumption`:

- `OnlyOneClient`, from `Stores` (what is stored for a host was made for it),
  `Holds` (who has looked holds what is stored) and `Ran` (only what is stored is
  run): a closure that lost the race to be stored is never called.
- `ResultsAreMeant`, from `Counts50x` (each 50x took one of the tries) and `Bodies`
  (only a stream's body is gone when the request is sent again).
- `DrainingStarves`, from `Draining`: as long as no time passes, who drains is still
  to take no less than there is, whatever others take meanwhile.
- `RateIsKept`. A token may be taken long before its request goes out, so what has
  gone out is not what was taken. `InTime`: tokens that will still be missing in j
  ticks are of as many requests that wait for longer than j ticks, so none goes out
  on a token that has not come. `Spared`: what the rate leaves to spare is at least
  the tokens there are and those of the requests that wait (`Promised`), or more
  than all requests to come. Goroutines are finitely many, of any number.
- `TypeCorrect`, with the bounds of what is drained and what is there (`Bounded`).

`BuildsProofs`, for any builds, families of parents, capacities, keys and runs, from
`BuildsAssumption`:

- `TypeCorrect`, and with it that `outs` never holds more than its capacity.
- `OutputInOrder`, by the argument of `DryOutputInOrder`. Here a channel is queued one
  step before its function is registered, so `Queued` counts up to `End`.
- `NoParentUnknown`, from `Known`: what is registered is what comes before `next`.
- `LeftOutForAReason`. `Walking`: a function has found all parents that it is past,
  and one that closed its channel has met one that is not there or, if `err` hid
  it, whose lookup failed; `ErrTrue`: as long as lookups agree, `err` says nothing else than each function's own
  lookup did, so the second does not happen.
- `VerdictIsFresh`, from `CacheTrue`: neither cache holds what is not so. An
  "invalid" is in it only until its own function, in `verify`, has taken it out,
  which is why an image that fails once is looked up again in the next run.
- `OneSignature`, from `Signed`: what a function brings for a payload is accepted,
  is that of the cache file if that is, and is what was settled once it returned.
- `NeverStalls`. Each wait leads to somebody who is further on: the printer waits for a
  channel whose function has begun or is about to (`Queued`), a full `outs` waits for
  the printer, and a function waits for one that is registered and has not returned
  (`Known`, `Settled`). Of the functions begun and not returned the one of least height
  (`Lowest`) waits for none (`SomebodyMoves`). That heights exist is `Acyclic`, which
  sources.sh sees to: it has `bashbrew cat --build-order` list a parent before what
  is built on it (sources.sh:64). The order itself is not assumed here.

`PipelineProofs`, for any builds, histories and failures, from `PipelineAssumption`,
`SourcesAssumption` (what the staging registry has is `Staged`, a build has tags) and
`IndexesAssumption`:

- `EveryTagAsListed`. A run leaves out what the last successful one deployed without
  looking; `PastNamed` says why that is right: its tags are where it put them,
  unless a failed run moved one (`doubtful`) or this run has. `MovedNamed`: what
  this run has moved is where its deploy.json has it, whichever push came last, as
  one index has a tag there; signatures are the exception (`SignedDoubted`).
- `OnlyOursInOrder`, for lists of any length. `KeptSoFar` is the invariant of
  SynthesizeIndex's loop: what it has kept after n turns are the first n
  descriptors, each digest once, without those about something not kept; by
  `LoopRuns` and `Synthesized` it holds of the result. What cmd/builds and deploy.jq
  keep of that are `Ours`, and `OursAreWanted`: these are the ones that should be
  deployed. `BehindSubject`: an attestation's key in sort_attestations is one more than
  that of its subject, wherever the sort by platform has put both, so what stands
  between has either key, and is the subject again or about it.
- `OnlyTrusted`: by `ResolvedIsTrusted` a verdict that every image is signed, by one
  key, is about the very images that are deployed. A build that does not end
  cmd/builds has one image (`OneImage`) and, if anything is signed, as many payloads;
  as one of them is the image's there is no other (`SignedIsDeployed`).

  For both, `BuildsFollow` says that builds.json is what cmd/builds made of the
  sources. Inductions are by the least number that fails (`Least`): that
  a loop has run (`LoopRuns`), that lists are joined (`FlattenRuns`). A stable sort is
  a choice of positions by the number of those before them, and `OrderExists` shows
  that there is one for each number.

`TriggerProofs`, for any builds and table of intervals, from `TriggerAssumption`:

- `QueueIsSorted`. `SortedQueue` is a choice, so it has to exist: `QueueExists` takes
  the builds by their rank, the number of those before them. `Sorted`: while a run
  triggers, the records have the counts raised by one up to the bound, which
  keeps the order.
- `NothingForgotten`, from `SinceRead`: what a run writes continues what it has read,
  and that is what is archived, or nothing.

New objects, builds or goroutines are covered by these theorems; new code is not.
The assumptions on constants are types, finiteness, and that model values such as
`None` are not among what they stand apart from. TLC evaluates them in every run.
The runs do not check types: every type invariant that a module states is proved.

Each inductive invariant was first checked by TLC as an invariant of its run.
That changed the models in two places. `Below` was the children and
grandchildren that an example has, and is now the whole closure. `FailsForAReason`
was stated as an invariant, which it is not in general: a later push by another
job may bring what a failed one lacked.

Only model-checked:

- All liveness: `Terminates`, `JobsReturn`, `RunsEnd`, `Converges`, `FailingRetried` and
  `CallsReturn` of the cache and of the client. Fairness and ENABLED are beyond the
  prover's reach. What is proved in their stead is that somebody can always go on:
  `NeverStalls` of the locks and of the builds, `NobodyWaitsInVain` of the cache.

## Findings

Four runs show where the code differs from what it says; `PROJECT.json` has them
with the lines. Besides:

- A push that fails under `--parallel` runs its deferred unlocks before the
  process ends (main.go:163), so a parent may begin to be pushed although its
  child never got there. `SerialChildrenPushed` is therefore about runs without
  `--parallel` only; in Push the registry refuses such a parent.
- `Lock` in the main loop is safe on streams that list children first
  (`InOrderSoFar`, `NeverStalls`), as main.go:144 says. A stream that repeats an
  object after something that reads it is not one of them, and may deadlock.
  Take an index X that looks up A and B, where B is itself an index of A, then B
  again and A again: X reads A and waits for B, the job of B has B and waits for
  A, since the main loop waits for A's writer lock, which waits for X. `Deploy`
  has a repetition that is harmless; `NoStall` says nothing about a stream
  from there on, `Terminates` does.
- With `--dry-run` such a stream may also end when the channel of channels is
  full: the main loop has the write lock of the repeated object while it waits for
  room (main.go:147-154), and the printer waits for the job that waits for that
  lock. With a capacity of 1 instead of 2 the run `Deploy` finds it; the code
  has 100000.
- A blob of zero bytes is printed by a dry run without its data (input.go:47,
  `omitempty`), and a copy from a source without tag and digest comes back as
  something else (input.go:120); `RoundTripOtherwise` leaves both out.
- Refs with a digest and a lookup of nothing but a fallback with a tag:
  the copy loses the tag and never gets the digest, and would copy `latest`
  (input.go:170-173, 228, lookup.go:57). `CopyByDigest` leaves this shape out.
- A Get may go upstream twice for one object: `Resolve` or the Get of another ref
  stores the descriptor without `Data` in between (cache.go:88), and a body that
  cannot be read leaves a descriptor that lost its `Data` until the next Get.
- 429s are retried without a limit (rate-limits.go:54 notes it). The tokens that a
  goroutine drains are those there at that time, so goroutines whose tokens are
  already promised go on; more than the burst may then go out in a short
  window, and `WithinRate` states the bound since the start instead.
- A failure to make the client of a host, or to load credentials, is kept
  for the life of the program (client.go:21).
- `SynthesizeIndex` drops an attestation that is listed before its subject,
  not only one whose "subject is missing" (synthesize-index.go:93);
  `IndexesSound` says that it is lost.
- An attestation about a signature would be deployed without its subject, as
  `SynthesizeIndex` keeps both and deploy.jq leaves signatures out; sort_attestations
  then multiplies null (oci.jq:88) and no deploy.json is made for any tag. Neither BuildKit nor cosign makes such a thing, and `Staged` leaves it out.
- A deploy that fails may have moved a tag. If builds.json then goes back to what
  the last successful run deployed, the filter leaves the tag out, and it stays
  wrong; `DeployedAsListed` and `Converges` leave out such tags, which `doubtful` keeps track of.
  Jenkinsfile.deploy never looks at the registry to find out.
- saveCacheToFile truncates the cache file before it writes it (cmd/builds/main.go:370):
  a crash in between leaves a file that the next run refuses.

## Not modelled

- `Jenkinsfile.meta`, `Jenkinsfile.build`, `sources.sh`, `meta.jq`, `helpers/` and
  the jq libraries that only format: they drive git, docker and other tools, and
  what they contribute to the state of the models is one step each (a build that
  ends, `builds.json` that changes).
- `cmd/lookup`, which is for debugging and prints in random order on purpose, and
  `om`, a sequential container with a test of its own.
- The parsing of references and of keys, ECDSA, the format of JSON documents and
  of the cache file, user agents, and the proxy that DOCKERHUB_PUBLIC_PROXY names.
- Descriptors whose size or annotations matter by themselves: `validate.jq` and the
  normalisation in `oci.jq` work on one document at a time.

## Plan

All that was planned is modelled, and every safety property that a run checks is
proved. Further work would be `SynthesizeIndex` against a staging registry that
changes between the requests for an image's index and for its configs, which
Indexes takes as one.
