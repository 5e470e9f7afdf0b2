------------------------------- MODULE Builds -------------------------------
(***************************************************************************)
(* cmd/builds/main.go: from sources.json to builds.json.  A producer walks *)
(* the (source, architecture) pairs in order, queues a channel for each    *)
(* and starts its sync.OnceValue function on a goroutine; the function     *)
(* waits for those of its parents, looks its image up in the registry,     *)
(* signs it for production if it is signed, and writes one JSON document   *)
(* to its channel, or closes the channel when a parent does not exist yet. *)
(* The main goroutine prints what the channels hold in their order, and    *)
(* writes the cache of lookups and signatures that the next run starts     *)
(* from.                                                                   *)
(*                                                                         *)
(* A build stands for its OnceValue function, its channel and its staging  *)
(* image.  The name of the image is the hash of what the build consists    *)
(* of, so that it stays the same as long as the parents do; the model      *)
(* keeps them.  Whose goroutine runs the function does not matter: nothing *)
(* but the function itself is left of the goroutine's work.                *)
(***************************************************************************)
EXTENDS Integers, Sequences

CONSTANTS
    NBuilds,        \* how many (source, architecture) pairs there are
    Externals,      \* parents that are not built here, by name and pin
    Families,       \* the parents sources.json may give, "scratch" left out
    Concurrency,    \* the capacity of outs (1000 in main.go:24)
    MayFail,        \* the images whose lookup or verification may fail
    Payload,        \* build -> the digest of what is signed of its image, or
                    \* Unsigned
    Unsigned,
    KeyPairs,       \* what production signs with
    Environments,   \* the keys a run may be given
    MaxRuns         \* bound: how many times the program is run

Builds == 1..NBuilds
Nobody == 0
NoSignature == <<>>
NoKey == "no key"
Payloads == {Payload[b] : b \in Builds} \ {Unsigned}
\* no two signatures are the same: which key made it, in which run, for whom
Signatures == KeyPairs \X (1..MaxRuns) \X Builds
Images == Builds \cup Externals

ASSUME BuildsAssumption ==
    /\ NBuilds \in Nat /\ Externals \cap Builds = {}
    /\ Families \subseteq [Builds -> Seq(Images)]
    /\ Concurrency \in Nat \ {0}
    /\ MayFail \subseteq Images
    /\ MaxRuns \in Nat \ {0}
    /\ DOMAIN Payload = Builds
    /\ Environments \subseteq [signs : KeyPairs, public : KeyPairs \cup {NoKey}]

VARIABLES
    parents,        \* build -> its parents, in order
    run,            \* which run of the program this is
    status,         \* how the run stands, or how it ended
    registry,       \* image -> what a lookup of it comes to in this run
    env,            \* the key sign-digest.sh signs with, and the public key of
                    \* BASHBREW_META_SIGN_PROD_PUBLIC_KEY
    disk,           \* the cache file: staging image -> what was found
    cacheSignatures, \* the cache file: payload -> its production signature
    saveCache,      \* what the cache file will hold after this run
    saveSignatures,
    producer,       \* where the producer stands
    next,           \* its current pair
    outs,           \* the channels that wait to be received, by their builds
    outChan,        \* build -> what its channel holds
    registered,     \* the keys of sourceArchResolved
    pc,             \* build -> where its function stands
    at,             \* build -> which parent the function is at
    resolved,       \* build -> what its last lookup came to
    err,            \* the err of main.go:422, one variable for all functions
    prodSignature,  \* build -> the signature of its payload
    result,         \* build -> whether the function returned an index
    printing,       \* the build whose channel main reads, Nobody if none
    printed         \* what went to stdout

fileVars == <<parents, run, registry, env, disk, cacheSignatures>>
prodVars == <<producer, next, registered>>
signVars == <<prodSignature, saveSignatures>>
funcVars == <<pc, at, resolved, err, result, saveCache, signVars>>
mainVars == <<printing, printed>>
vars == <<fileVars, status, prodVars, outs, outChan, funcVars, mainVars>>

Statuses == {"running", "exited", "lookup failed", "parent unknown", "wrong key"}

\* a staging image may carry signatures that do not verify
Lookups(i) ==
    {"missing", "found"} \cup (IF i \in Builds THEN {"invalid"} ELSE {})
                         \cup (IF i \in MayFail THEN {"error"} ELSE {})

\* everything of the process that is not the cache file
Fresh ==
    [status |-> "running", producer |-> "decode", next |-> 1, outs |-> <<>>,
     outChan |-> [b \in Builds |-> "open"], registered |-> {},
     pc |-> [b \in Builds |-> "idle"], at |-> [b \in Builds |-> 1],
     resolved |-> [b \in Builds |-> "none"], err |-> "nil",
     result |-> [b \in Builds |-> "none"],
     saveCache |-> [b \in Builds |-> "none"],
     prodSignature |-> [b \in Builds |-> NoSignature],
     saveSignatures |-> [d \in Payloads |-> NoSignature],
     printing |-> Nobody, printed |-> <<>>]

Init ==
    /\ parents \in Families
    /\ run = 1
    /\ registry \in [Images -> {"missing", "found", "invalid", "error"}]
    /\ \A i \in Images : registry[i] \in Lookups(i)
    /\ env \in Environments
    /\ disk = [b \in Builds |-> "none"]
    /\ cacheSignatures = [d \in Payloads |-> NoSignature]
    /\ status = Fresh.status /\ saveCache = Fresh.saveCache
    /\ producer = Fresh.producer /\ next = Fresh.next
    /\ outs = Fresh.outs /\ outChan = Fresh.outChan
    /\ registered = Fresh.registered
    /\ prodSignature = Fresh.prodSignature /\ saveSignatures = Fresh.saveSignatures
    /\ pc = Fresh.pc /\ at = Fresh.at
    /\ resolved = Fresh.resolved /\ err = Fresh.err /\ result = Fresh.result
    /\ printing = Fresh.printing /\ printed = Fresh.printed

Running == status = "running"

(***************************************************************************)
(* The producer.                                                           *)
(***************************************************************************)

Room == Len(outs) < Concurrency

\* outs <- outChan, which waits for room
Send ==
    /\ Running /\ producer = "decode" /\ next \in Builds
    /\ Room
    /\ outs' = Append(outs, next)
    /\ producer' = "register"
    /\ UNCHANGED <<fileVars, status, next, registered, outChan, funcVars, mainVars>>

\* slip: the function is run but cannot be found
RegisterNot == registered
NowRegistered == registered \cup {next}

Register ==
    /\ Running /\ producer = "register"
    /\ registered' = NowRegistered
    /\ pc' = [pc EXCEPT ![next] = "parents"]
    /\ next' = next + 1
    /\ producer' = "decode"
    /\ UNCHANGED <<fileVars, status, outs, outChan, at, resolved, err, result,
                   saveCache, signVars, mainVars>>

CloseOuts ==
    /\ Running /\ producer = "decode" /\ next \notin Builds
    /\ producer' = "closed"
    /\ UNCHANGED <<fileVars, status, next, registered, outs, outChan, funcVars, mainVars>>

(***************************************************************************)
(* The function of a build.                                                *)
(***************************************************************************)
AtParent(b) == Running /\ pc[b] = "parents" /\ at[b] \in DOMAIN parents[b]
Parent(b) == parents[b][at[b]]

Panic(why) ==
    /\ status' = why
    /\ UNCHANGED <<fileVars, prodVars, outs, outChan, funcVars, mainVars>>

\* the parent is there: on to the next
HaveParent(b) ==
    /\ at' = [at EXCEPT ![b] = @ + 1]
    /\ pc' = [pc EXCEPT ![b] = "parents"]
    /\ UNCHANGED <<outChan, result>>

\* slip: the channel is not closed
LeftOpen(b) == outChan
ClosedFor(b) == [outChan EXCEPT ![b] = "closed"]

\* "not yet!": nothing is written, and children of b will not be either
NotYet(b) ==
    /\ outChan' = ClosedFor(b)
    /\ result' = [result EXCEPT ![b] = "nil"]
    /\ pc' = [pc EXCEPT ![b] = "returned"]
    /\ UNCHANGED at

UnknownParent(b) ==
    /\ AtParent(b) /\ Parent(b) \in Builds \ registered
    /\ Panic("parent unknown")

\* slip: a parent is taken for there whatever its function returned
ResolvedAny(p) == TRUE
Resolved(p) == result[p] = "resolved"

\* the parent's own OnceValue function has returned
TakeParent(b) ==
    /\ AtParent(b) /\ Parent(b) \in registered /\ result[Parent(b)] # "none"
    /\ IF Resolved(Parent(b)) THEN HaveParent(b) ELSE NotYet(b)
    /\ UNCHANGED <<fileVars, status, prodVars, outs, resolved, err, saveCache, signVars,
                   mainVars>>

\* resolved, err = resolveArchIndex(...): err is not the function's own
LookupParent(b) ==
    /\ AtParent(b) /\ Parent(b) \in Externals
    /\ resolved' = [resolved EXCEPT ![b] = registry[Parent(b)]]
    /\ err' = IF registry[Parent(b)] = "error" THEN "error" ELSE "nil"
    /\ pc' = [pc EXCEPT ![b] = "check"]
    /\ UNCHANGED <<fileVars, status, prodVars, outs, outChan, at, result,
                   saveCache, signVars, mainVars>>

\* if err != nil: of the value just assigned, or of another function's since
CheckErr(b) ==
    /\ Running /\ pc[b] = "check"
    /\ \E e \in {err, IF resolved[b] = "error" THEN "error" ELSE "nil"} :
         IF e = "error" THEN Panic("lookup failed")
         ELSE /\ IF resolved[b] = "found" THEN HaveParent(b) ELSE NotYet(b)
              /\ UNCHANGED <<fileVars, status, prodVars, outs, resolved, err,
                             saveCache, signVars, mainVars>>

\* what is in the cache file is not looked up again
Answer(b) == IF disk[b] # "none" THEN disk[b] ELSE registry[b]

\* resolveArchIndex of the staging image, which caches what it finds
LookupImg(b) ==
    /\ Running /\ pc[b] = "parents" /\ at[b] \notin DOMAIN parents[b]
    /\ IF Answer(b) = "error" THEN Panic("lookup failed")
       ELSE /\ resolved' = [resolved EXCEPT ![b] = Answer(b)]
            /\ saveCache' = IF Answer(b) = "missing" THEN saveCache
                            ELSE [saveCache EXCEPT ![b] = Answer(b)]
            /\ pc' = [pc EXCEPT ![b] = "verify"]
            /\ UNCHANGED <<fileVars, status, prodVars, outs, outChan, at, err,
                           result, signVars, mainVars>>

\* slip: what does not verify stays cached
Remembered(b) == saveCache
WithoutInvalid(b) ==
    IF resolved[b] = "invalid" THEN [saveCache EXCEPT ![b] = "none"] ELSE saveCache

\* the document is written, and the function returns
Publish(b) ==
    /\ outChan' = [outChan EXCEPT ![b] = "full"]
    /\ result' = [result EXCEPT ![b] = IF resolved[b] = "found" THEN "resolved" ELSE "nil"]
    /\ pc' = [pc EXCEPT ![b] = "returned"]

\* the signatures of the image
Verify(b) ==
    /\ Running /\ pc[b] = "verify"
    /\ saveCache' = WithoutInvalid(b)
    /\ IF resolved[b] = "found" /\ Payload[b] # Unsigned
       THEN pc' = [pc EXCEPT ![b] = "sign"] /\ UNCHANGED <<outChan, result>>
       ELSE Publish(b)
    /\ UNCHANGED <<fileVars, status, prodVars, outs, at, resolved, err, signVars, mainVars>>

\* CosignSignatures, a key or prodSignDigest fails
VerifyFails(b) ==
    /\ Running /\ pc[b] \in {"verify", "sign"} /\ b \in MayFail /\ resolved[b] # "missing"
    /\ Panic("lookup failed")

\* ValidateSignatureBase64 under the public key, if there is one
Accepted(signature) == env.public \in {NoKey, signature[1]}

\* a signature of the cache file is used if it verifies, or cannot be verified
Cached(d) == cacheSignatures[d] # NoSignature /\ Accepted(cacheSignatures[d])

\* prodSignDigest up to saveCacheMutex; of the signatures made in one run the
\* first is verified, and with it what they all are made with
SignDigest(b) ==
    /\ Running /\ pc[b] = "sign"
    /\ IF ~Cached(Payload[b]) /\ env.public \notin {NoKey, env.signs}
       THEN Panic("wrong key")
       ELSE /\ prodSignature' = [prodSignature EXCEPT ![b] =
                  IF Cached(Payload[b]) THEN cacheSignatures[Payload[b]]
                                        ELSE <<env.signs, run, b>>]
            /\ pc' = [pc EXCEPT ![b] = "keep"]
            /\ UNCHANGED <<fileVars, status, prodVars, outs, outChan, at, resolved, err,
                           result, saveCache, saveSignatures, mainVars>>

\* slip: what was signed last is kept, and used
Latest(b) == prodSignature[b]
\* of two signatures for one payload the first that is kept is used by both
First(b) == IF saveSignatures[Payload[b]] # NoSignature THEN saveSignatures[Payload[b]]
                                                       ELSE prodSignature[b]

\* the rest of prodSignDigest, under saveCacheMutex, and the document
KeepSignature(b) ==
    /\ Running /\ pc[b] = "keep"
    /\ prodSignature' = [prodSignature EXCEPT ![b] = First(b)]
    /\ saveSignatures' = [saveSignatures EXCEPT ![Payload[b]] = First(b)]
    /\ Publish(b)
    /\ UNCHANGED <<fileVars, status, prodVars, outs, at, resolved, err, saveCache, mainVars>>

(***************************************************************************)
(* The main goroutine.                                                     *)
(***************************************************************************)
Receive ==
    /\ Running /\ printing = Nobody /\ outs # <<>>
    /\ printing' = Head(outs)
    /\ outs' = Tail(outs)
    /\ UNCHANGED <<fileVars, status, prodVars, outChan, funcVars, printed>>

\* slip: a channel that has nothing yet is passed over
ReadyUnasked(b) == TRUE
Ready(b) == outChan[b] # "open"

PrintOut ==
    /\ Running /\ printing # Nobody /\ Ready(printing)
    /\ printed' = IF outChan[printing] = "full" THEN Append(printed, printing) ELSE printed
    /\ printing' = Nobody
    /\ UNCHANGED <<fileVars, status, prodVars, outs, outChan, funcVars>>

\* outs is closed and empty: saveCacheToFile
Exit ==
    /\ Running /\ producer = "closed" /\ outs = <<>> /\ printing = Nobody
    /\ disk' = saveCache
    /\ cacheSignatures' = saveSignatures
    /\ status' = "exited"
    /\ UNCHANGED <<parents, run, registry, env, prodVars, outs, outChan, funcVars, mainVars>>

\* the program is run again: meanwhile images appeared, or were replaced by
\* ones that verify
Rerun ==
    /\ ~Running /\ run < MaxRuns
    /\ run' = run + 1
    /\ registry' \in [Images -> {"missing", "found", "invalid", "error"}]
    /\ \A i \in Images : /\ registry'[i] \in Lookups(i)
                         /\ registry[i] = "found" => registry'[i] = "found"
    /\ env' \in Environments
    /\ UNCHANGED <<parents, disk, cacheSignatures>>
    /\ status' = Fresh.status /\ saveCache' = Fresh.saveCache
    /\ producer' = Fresh.producer /\ next' = Fresh.next
    /\ outs' = Fresh.outs /\ outChan' = Fresh.outChan
    /\ registered' = Fresh.registered
    /\ prodSignature' = Fresh.prodSignature /\ saveSignatures' = Fresh.saveSignatures
    /\ pc' = Fresh.pc /\ at' = Fresh.at
    /\ resolved' = Fresh.resolved /\ err' = Fresh.err /\ result' = Fresh.result
    /\ printing' = Fresh.printing /\ printed' = Fresh.printed

Producer == Send \/ Register \/ CloseOuts
Func(b) ==
    \/ UnknownParent(b) \/ TakeParent(b) \/ LookupParent(b) \/ CheckErr(b)
    \/ LookupImg(b) \/ Verify(b) \/ VerifyFails(b) \/ SignDigest(b) \/ KeepSignature(b)
Main == Receive \/ PrintOut \/ Exit

Finished == ~Running /\ run = MaxRuns /\ UNCHANGED vars

Next == Producer \/ Main \/ Rerun \/ Finished \/ \E b \in Builds : Func(b)

\* the Go scheduler runs every goroutine that can run
Fairness ==
    WF_vars(Producer) /\ WF_vars(Main) /\ \A b \in Builds : WF_vars(Func(b))

Spec == Init /\ [][Next]_vars /\ Fairness

\* sources.json lists a parent before its children
ParentsFirst ==
    \A b \in Builds : \A i \in DOMAIN parents[b] :
        parents[b][i] \in Builds => parents[b][i] < b

(***************************************************************************)
(* Properties.                                                             *)
(***************************************************************************)
TypeOK ==
    /\ parents \in Families
    /\ run \in 1..MaxRuns /\ status \in Statuses
    /\ \A i \in Images : registry[i] \in Lookups(i)
    /\ disk \in [Builds -> {"none", "found", "invalid"}]
    /\ saveCache \in [Builds -> {"none", "found", "invalid"}]
    /\ env \in Environments
    /\ {cacheSignatures, saveSignatures}
           \subseteq [Payloads -> Signatures \cup {NoSignature}]
    /\ prodSignature \in [Builds -> Signatures \cup {NoSignature}]
    /\ producer \in {"decode", "register", "closed"}
    /\ next \in 1..NBuilds + 1
    /\ outs \in Seq(Builds) /\ Len(outs) <= Concurrency
    /\ outChan \in [Builds -> {"open", "full", "closed"}]
    /\ registered \subseteq Builds
    /\ pc \in [Builds -> {"idle", "parents", "check", "verify", "sign", "keep", "returned"}]
    /\ at \in [Builds -> Nat]
    /\ resolved \in [Builds -> {"none", "missing", "found", "invalid", "error"}]
    /\ err \in {"nil", "error"}
    /\ result \in [Builds -> {"none", "nil", "resolved"}]
    /\ printing \in Builds \cup {Nobody} /\ printed \in Seq(Builds)

\* builds.json lists the builds in the order of sources.json, each once,
\* however their goroutines overtake each other: "we want the end result to
\* be in order" (main.go:414).
PrintedInOrder ==
    /\ \A i, j \in DOMAIN printed : i < j => printed[i] < printed[j]
    /\ \A j \in DOMAIN printed : \A b \in Builds :
           b < printed[j] /\ outChan[b] = "full" => \E i \in 1..j : printed[i] = b

\* nothing makes the shared err say another thing than a function's own lookup
LookupsAgree ==
    \A p, q \in Externals : registry[p] = "error" => registry[q] = "error"

Listed(b) == \E j \in DOMAIN printed : printed[j] = b

\* What a run that ends normally has left out are exactly the builds that are
\* "not yet" (main.go:481-485), at whatever distance the reason lies: a build
\* is listed if and only if each of its parents is a build that is listed, with
\* an image that verifies, or a foreign image that is not missing.  A lookup
\* that failed is no reason: it ends the run.  When one foreign image can be
\* looked up and another cannot, that is not so (FailuresExplode).
SkippedForAReason ==
    status = "exited" /\ LookupsAgree => \A b \in Builds :
        Listed(b) <=> \A i \in DOMAIN parents[b] :
               LET p == parents[b][i]
               IN  IF p \in Builds THEN Listed(p) /\ registry[p] = "found"
                                   ELSE registry[p] # "missing"

\* With parents listed first no function asks for a parent whose own function
\* is "unknown to us" (main.go:466), although it runs concurrently with the
\* registration of what comes next.
ParentsKnown == ParentsFirst => status # "parent unknown"

\* What a run says of an image agrees with the registry as it is, not with
\* the verdict of an earlier run on an image replaced since: or "we'll just
\* ignore this image forever in a tight loop" (main.go:650).
FreshVerdict ==
    status = "exited" => \A j \in DOMAIN printed :
        (result[printed[j]] = "resolved") <=> (registry[printed[j]] = "found")

\* The production signature of a payload is one and the same in all documents
\* of a run, although two builds may sign it at once ("we should be consistent
\* up-front", main.go:289), and is the one an earlier run left, unless the
\* public key has changed: no signature goes out that it does not accept
\* (main.go:252-280).
SignaturesStable ==
    \A b \in Builds :
        pc[b] = "returned" /\ prodSignature[b] # NoSignature =>
            LET before == cacheSignatures[Payload[b]]
            IN  /\ Accepted(prodSignature[b])
                /\ before # NoSignature /\ Accepted(before) => prodSignature[b] = before
                /\ \A c \in Builds : pc[c] = "returned" /\ prodSignature[c] # NoSignature
                                    /\ Payload[c] = Payload[b]
                                    => prodSignature[c] = prodSignature[b]

\* A failure to look something up ends the run: "failures to fetch objects
\* from the registry should explode instead" (main.go:521).
FailuresExplode ==
    status = "exited" => \A b \in Builds : resolved[b] # "error"

\* no build is a parent of its parents, at whatever distance
Acyclic ==
    \E height \in [Builds -> Builds] : \A b \in Builds : \A i \in DOMAIN parents[b] :
        parents[b][i] \in Builds => height[parents[b][i]] < height[b]

ProducerCanMove == producer = "register" \/ (producer = "decode" /\ (next \in Builds => Room))

\* the function of b runs, and does not wait for that of its parent
FuncCanMove(b) ==
    \/ pc[b] \in {"check", "verify", "sign", "keep"}
    \/ /\ pc[b] = "parents"
       /\ at[b] \in DOMAIN parents[b] /\ Parent(b) \in registered => result[Parent(b)] # "none"

MainCanMove ==
    \/ printing # Nobody /\ Ready(printing)
    \/ printing = Nobody /\ (outs # <<>> \/ producer = "closed")

\* Functions wait for functions, the printer for channels in their order, and the
\* producer for room in outs (main.go:416-474, 703); but somebody can always run,
\* however small outs is and in whatever order sources.json lists builds, if none
\* is its own ancestor.
NoStall ==
    Acyclic /\ Running => ProducerCanMove \/ MainCanMove \/ \E b \in Builds : FuncCanMove(b)

\* Every run ends, however small the capacity of outs: a full outs never
\* keeps the producer from starting what the printer waits for (main.go:452).
RunsEnd == Running ~> ~Running
=============================================================================
