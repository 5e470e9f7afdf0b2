---------------------------- MODULE BuildsProofs ----------------------------
(***************************************************************************)
(* Proofs about Builds, for any number of builds, families of parents,     *)
(* capacity of outs, keys, payloads and runs.                              *)
(***************************************************************************)
EXTENDS Builds, SequenceTheorems, WellFoundedInduction, TLAPS

\* everything of the process as a run starts
Started ==
    /\ status = "running" /\ producer = "decode" /\ next = 1 /\ outs = <<>>
    /\ outChan = [b \in Builds |-> "open"] /\ registered = {}
    /\ pc = [b \in Builds |-> "idle"] /\ at = [b \in Builds |-> 1]
    /\ resolved = [b \in Builds |-> "none"] /\ err = "nil"
    /\ result = [b \in Builds |-> "none"]
    /\ saveCache = [b \in Builds |-> "none"]
    /\ prodSignature = [b \in Builds |-> NoSignature]
    /\ saveSignatures = [d \in Payloads |-> NoSignature]
    /\ printing = Nobody /\ printed = <<>>

\* A run starts from nothing but the cache file (main.go:370-405).
LEMMA FreshStart == (Init => Started) /\ (Rerun => Started')
  BY DEF Init, Rerun, Started, Fresh

\* What the types say of numbers and sequences.
LEMMA BuildNumbers ==
    /\ NBuilds \in Nat /\ Builds \subseteq Nat /\ Nobody \notin Builds /\ Nobody \in Nat
    /\ \A b \in Builds : 1 <= b /\ b <= NBuilds
    /\ \A n \in Nat : n >= 1 /\ n <= NBuilds => n \in Builds
  BY BuildsAssumption DEF Builds, Nobody

\* A parent is a build or an image of somebody else's.
LEMMA ParentIsImage ==
    ASSUME parents \in Families, NEW b \in Builds
    PROVE  /\ DOMAIN parents[b] = 1..Len(parents[b]) /\ Len(parents[b]) \in Nat
           /\ \A i \in DOMAIN parents[b] : parents[b][i] \in Builds \cup Externals
<1>1. parents[b] \in Seq(Images)
  BY BuildsAssumption
<1>2. DOMAIN parents[b] = 1..Len(parents[b]) /\ Len(parents[b]) \in Nat
  BY <1>1, LenProperties
<1>3. \A i \in DOMAIN parents[b] : parents[b][i] \in Images
  BY <1>1, <1>2, ElementOfSeq
<1> QED  BY <1>2, <1>3 DEF Images

\* A signature is not the empty one.
LEMMA SignatureIsNot ==
    ASSUME NEW s \in Signatures PROVE s # NoSignature
<1>1. PICK k \in KeyPairs, r \in 1..MaxRuns, b \in Builds : s = <<k, r, b>>
  BY DEF Signatures
<1> QED  BY <1>1 DEF NoSignature

\* The types of the cache file, the key and the signatures.
LEMMA SigTypes ==
    ASSUME TypeOK
    PROVE  /\ cacheSignatures \in [Payloads -> Signatures \cup {NoSignature}]
           /\ saveSignatures \in [Payloads -> Signatures \cup {NoSignature}]
           /\ prodSignature \in [Builds -> Signatures \cup {NoSignature}]
           /\ env.signs \in KeyPairs
           /\ run \in 1..MaxRuns
  BY BuildsAssumption DEF TypeOK

\* What the cache file or the registry says of an image.
LEMMA AnswerType ==
    ASSUME TypeOK, NEW b \in Builds
    PROVE  Answer(b) \in {"missing", "found", "invalid", "error"}
<1>1. registry[b] \in Lookups(b) /\ disk[b] \in {"none", "found", "invalid"}
  BY DEF TypeOK, Images
<1> QED  BY <1>1 DEF Answer, Lookups

\* A channel that is sent to outs (main.go:452), or received from it.
LEMMA QueueTypes ==
    ASSUME NEW q \in Seq(Builds), Len(q) <= Concurrency
    PROVE  /\ \A b \in Builds : Len(q) < Concurrency
                => Append(q, b) \in Seq(Builds) /\ Len(Append(q, b)) <= Concurrency
           /\ q # <<>> => /\ Head(q) \in Builds /\ Tail(q) \in Seq(Builds)
                          /\ Len(Tail(q)) <= Concurrency
<1>1. Len(q) \in Nat /\ Concurrency \in Nat
  BY BuildsAssumption, LenProperties
<1>2. \A b \in Builds : Append(q, b) \in Seq(Builds) /\ Len(Append(q, b)) = Len(q) + 1
  BY AppendProperties
<1>3. q # <<>> => Head(q) \in Builds /\ Tail(q) \in Seq(Builds) /\ Len(Tail(q)) = Len(q) - 1
  BY HeadTailProperties
<1> QED  BY <1>1, <1>2, <1>3

-----------------------------------------------------------------------------

\* only what is signed gets a signature (main.go:239, 667)
SignsSigned ==
    \A b \in Builds : pc[b] \in {"sign", "keep"} => Payload[b] \in Payloads

\* the producer is at a pair it has not registered yet, or at the end
ProducerAt ==
    /\ producer = "register" => next \in Builds
    /\ producer = "closed" => next = NBuilds + 1

Typed == TypeOK /\ SignsSigned /\ ProducerAt

\* The producer's steps keep the types.
LEMMA ProducerTypes == Typed /\ Producer => Typed'
<1> SUFFICES ASSUME Typed, Producer PROVE Typed'
  OBVIOUS
<1> USE DEF Typed, SignsSigned, ProducerAt
<1>0. outs \in Seq(Builds) /\ Len(outs) <= Concurrency
  BY DEF TypeOK
<1>1. CASE Send
  <2>1. outs' \in Seq(Builds) /\ Len(outs') <= Concurrency
    BY <1>0, <1>1, QueueTypes DEF Send, Room
  <2>2. UNCHANGED <<fileVars, status, next, registered, outChan, funcVars, mainVars>>
        /\ producer' = "register" /\ next \in Builds
    BY <1>1 DEF Send
  <2> QED  BY <2>1, <2>2 DEF TypeOK, fileVars, funcVars, signVars, mainVars
<1>2. CASE Register
  <2>1. next' \in 1..NBuilds + 1 /\ registered' \subseteq Builds
    BY <1>2, BuildNumbers DEF Register, NowRegistered, TypeOK
  <2>2. /\ producer' = "decode"
        /\ pc' = [pc EXCEPT ![next] = "parents"]
        /\ UNCHANGED <<fileVars, status, outs, outChan, at, resolved, err, result,
                       saveCache, signVars, mainVars>>
    BY <1>2 DEF Register
  <2> QED  BY <2>1, <2>2 DEF TypeOK, fileVars, funcVars, signVars, mainVars
<1>3. CASE CloseOuts
  <2>1. next = NBuilds + 1
    BY <1>3, BuildNumbers DEF CloseOuts, TypeOK
  <2> QED  BY <1>3, <2>1 DEF CloseOuts, TypeOK, fileVars, funcVars, signVars, mainVars
<1> QED  BY <1>1, <1>2, <1>3 DEF Producer

\* The steps of the functions keep the types.
LEMMA FuncTypes == Typed /\ (\E b \in Builds : Func(b)) => Typed'
<1> SUFFICES ASSUME Typed, NEW b \in Builds, Func(b) PROVE Typed'
  OBVIOUS
<1> USE DEF Typed, SignsSigned, ProducerAt
<1>0. ASSUME status' \in Statuses,
             UNCHANGED <<fileVars, prodVars, outs, outChan, funcVars, mainVars>>
      PROVE  Typed'
  BY <1>0 DEF TypeOK, fileVars, prodVars, funcVars, signVars, mainVars
<1>a. /\ pc \in [Builds -> {"idle", "parents", "check", "verify", "sign", "keep", "returned"}]
      /\ outChan \in [Builds -> {"open", "full", "closed"}]
      /\ result \in [Builds -> {"none", "nil", "resolved"}]
      /\ saveCache \in [Builds -> {"none", "found", "invalid"}]
  BY DEF TypeOK
<1>1. ASSUME NEW why \in {"lookup failed", "parent unknown", "wrong key"}, Panic(why)
      PROVE  Typed'
  BY <1>0, <1>1 DEF Panic, Statuses
<1>2. ASSUME HaveParent(b) \/ NotYet(b),
             UNCHANGED <<fileVars, status, prodVars, outs, resolved, err, saveCache,
                         signVars, mainVars>>
      PROVE  Typed'
  <2>1. /\ pc' \in {[pc EXCEPT ![b] = "parents"], [pc EXCEPT ![b] = "returned"]}
        /\ at' \in {at, [at EXCEPT ![b] = @ + 1]}
        /\ outChan' \in {outChan, [outChan EXCEPT ![b] = "closed"]}
        /\ result' \in {result, [result EXCEPT ![b] = "nil"]}
    BY <1>2 DEF HaveParent, NotYet, ClosedFor
  <2>2. pc' \in [Builds -> {"idle", "parents", "check", "verify", "sign", "keep", "returned"}]
    BY ONLY <1>a, <2>1
  <2>3. outChan' \in [Builds -> {"open", "full", "closed"}]
    BY ONLY <1>a, <2>1
  <2>4. at' \in [Builds -> Nat]
    <3>1. at \in [Builds -> Nat] /\ at[b] + 1 \in Nat
      BY DEF TypeOK
    <3> QED  BY <2>1, <3>1
  <2>5. result' \in [Builds -> {"none", "nil", "resolved"}]
    BY ONLY <1>a, <2>1
  <2>6. SignsSigned'
    BY <2>1 DEF TypeOK
  <2> QED  BY <1>2, <2>2, <2>3, <2>4, <2>5, <2>6 DEF TypeOK, fileVars, prodVars, signVars, mainVars
<1>3. CASE UnknownParent(b) \/ VerifyFails(b)
  BY <1>1, <1>3 DEF UnknownParent, VerifyFails
<1>4. CASE TakeParent(b)
  BY <1>2, <1>4 DEF TakeParent
<1>5. CASE LookupParent(b)
  <2>1. registry[Parent(b)] \in {"missing", "found", "invalid", "error"}
    <3>1. registry[Parent(b)] \in Lookups(Parent(b))
      BY <1>5 DEF LookupParent, TypeOK, Images
    <3> QED  BY <3>1 DEF Lookups
  <2>2. /\ resolved' = [resolved EXCEPT ![b] = registry[Parent(b)]]
        /\ err' \in {"error", "nil"}
        /\ pc' = [pc EXCEPT ![b] = "check"]
        /\ UNCHANGED <<fileVars, status, prodVars, outs, outChan, at, result,
                       saveCache, signVars, mainVars>>
    BY <1>5 DEF LookupParent
  <2> QED  BY <2>1, <2>2 DEF TypeOK, fileVars, prodVars, signVars, mainVars
<1>6. CASE CheckErr(b)
  BY <1>1, <1>2, <1>6 DEF CheckErr
<1>7. CASE LookupImg(b)
  <2>1. CASE Answer(b) = "error"
    BY <1>1, <1>7, <2>1 DEF LookupImg
  <2>2. CASE Answer(b) # "error"
    <3>1. /\ resolved' = [resolved EXCEPT ![b] = Answer(b)]
          /\ saveCache' = IF Answer(b) = "missing" THEN saveCache
                          ELSE [saveCache EXCEPT ![b] = Answer(b)]
          /\ pc' = [pc EXCEPT ![b] = "verify"]
          /\ UNCHANGED <<fileVars, status, prodVars, outs, outChan, at, err,
                         result, signVars, mainVars>>
      BY <1>7, <2>2 DEF LookupImg
    <3>2. Answer(b) \in {"missing", "found", "invalid"}
      BY <2>2, AnswerType
    <3>3. saveCache' \in [Builds -> {"none", "found", "invalid"}]
      BY <3>1, <3>2 DEF TypeOK
    <3> HIDE DEF Answer
    <3> QED  BY <3>1, <3>2, <3>3 DEF TypeOK, fileVars, prodVars, signVars, mainVars
  <2> QED  BY <2>1, <2>2
<1>8. CASE Verify(b)
  <2>1. /\ saveCache' \in {saveCache, [saveCache EXCEPT ![b] = "none"]}
        /\ outChan' \in {outChan, [outChan EXCEPT ![b] = "full"]}
        /\ \/ result' = result
           \/ result' = [result EXCEPT ![b] = "resolved"]
           \/ result' = [result EXCEPT ![b] = "nil"]
        /\ \/ pc' = [pc EXCEPT ![b] = "sign"] /\ Payload[b] # Unsigned
           \/ pc' = [pc EXCEPT ![b] = "returned"]
        /\ UNCHANGED <<fileVars, status, prodVars, outs, at, resolved, err, signVars,
                       mainVars>>
    BY <1>8 DEF Verify, WithoutInvalid, Publish
  <2>2. pc' \in [Builds -> {"idle", "parents", "check", "verify", "sign", "keep", "returned"}]
    BY ONLY <1>a, <2>1
  <2>3. saveCache' \in [Builds -> {"none", "found", "invalid"}]
    BY ONLY <1>a, <2>1
  <2>4. outChan' \in [Builds -> {"open", "full", "closed"}]
    BY ONLY <1>a, <2>1
  <2>5. result' \in [Builds -> {"none", "nil", "resolved"}]
    BY ONLY <1>a, <2>1
  <2>6. SignsSigned'
    BY <2>1 DEF TypeOK, Payloads
  <2> QED  BY <2>1, <2>2, <2>3, <2>4, <2>5, <2>6 DEF TypeOK, fileVars, prodVars, signVars, mainVars
<1>9. CASE SignDigest(b)
  <2>1. CASE Panic("wrong key")
    BY <1>1, <2>1
  <2>2. CASE ~Panic("wrong key")
    <3> DEFINE s == IF Cached(Payload[b]) THEN cacheSignatures[Payload[b]]
                                          ELSE <<env.signs, run, b>>
    <3>1. /\ prodSignature' = [prodSignature EXCEPT ![b] = s]
          /\ pc' = [pc EXCEPT ![b] = "keep"] /\ pc[b] = "sign"
          /\ UNCHANGED <<fileVars, status, prodVars, outs, outChan, at, resolved, err,
                         result, saveCache, saveSignatures, mainVars>>
      BY <1>9, <2>2 DEF SignDigest
    <3>2. s \in Signatures \cup {NoSignature}
      BY <3>1, SigTypes DEF Signatures
    <3> HIDE DEF s
    <3> QED  BY <3>1, <3>2 DEF TypeOK, fileVars, prodVars, mainVars
  <2> QED  BY <2>1, <2>2
<1>10. CASE KeepSignature(b)
  <2>1. /\ prodSignature' = [prodSignature EXCEPT ![b] = First(b)]
        /\ saveSignatures' = [saveSignatures EXCEPT ![Payload[b]] = First(b)]
        /\ Publish(b) /\ pc[b] = "keep"
        /\ UNCHANGED <<fileVars, status, prodVars, outs, at, resolved, err, saveCache,
                       mainVars>>
    BY <1>10 DEF KeepSignature
  <2>2. First(b) \in Signatures \cup {NoSignature}
    BY <2>1, SigTypes DEF First
  <2>3. /\ outChan' = [outChan EXCEPT ![b] = "full"]
        /\ \/ result' = [result EXCEPT ![b] = "resolved"]
           \/ result' = [result EXCEPT ![b] = "nil"]
        /\ pc' = [pc EXCEPT ![b] = "returned"]
    BY <2>1 DEF Publish
  <2> HIDE DEF First
  <2>4. saveSignatures' \in [Payloads -> Signatures \cup {NoSignature}]
    BY <2>1, <2>2, SigTypes
  <2>5. /\ pc' \in [Builds -> {"idle", "parents", "check", "verify", "sign", "keep",
                              "returned"}]
        /\ outChan' \in [Builds -> {"open", "full", "closed"}]
        /\ result' \in [Builds -> {"none", "nil", "resolved"}]
        /\ prodSignature' \in [Builds -> Signatures \cup {NoSignature}]
    <3>1. pc' \in [Builds -> {"idle", "parents", "check", "verify", "sign", "keep", "returned"}]
      BY ONLY <1>a, <2>3
    <3>2. outChan' \in [Builds -> {"open", "full", "closed"}]
      BY ONLY <1>a, <2>3
    <3>3. result' \in [Builds -> {"none", "nil", "resolved"}]
      BY ONLY <1>a, <2>3
    <3>4. prodSignature' \in [Builds -> Signatures \cup {NoSignature}]
      BY <2>1, <2>2, SigTypes
    <3> QED  BY <3>1, <3>2, <3>3, <3>4
  <2>6. SignsSigned'
    BY <2>3 DEF TypeOK
  <2> QED  BY <2>1, <2>4, <2>5, <2>6, SigTypes DEF TypeOK, fileVars, prodVars, mainVars
<1> QED
  BY <1>3, <1>4, <1>5, <1>6, <1>7, <1>8, <1>9, <1>10 DEF Func

\* The steps of the main goroutine, and the next run, keep the types.
LEMMA MainTypes == Typed /\ (Main \/ Rerun \/ Finished \/ UNCHANGED vars) => Typed'
<1> SUFFICES ASSUME Typed, Main \/ Rerun \/ Finished \/ UNCHANGED vars PROVE Typed'
  OBVIOUS
<1> USE DEF Typed, SignsSigned, ProducerAt
<1>1. CASE Receive
  <2>1. /\ printing' \in Builds /\ outs' \in Seq(Builds) /\ Len(outs') <= Concurrency
    BY <1>1, QueueTypes DEF Receive, TypeOK
  <2>2. UNCHANGED <<fileVars, status, prodVars, outChan, funcVars, printed>>
    BY <1>1 DEF Receive
  <2> QED  BY <2>1, <2>2 DEF TypeOK, fileVars, prodVars, funcVars, signVars
<1>2. CASE PrintOut
  <2>1. printing \in Builds /\ printed \in Seq(Builds)
    BY <1>2 DEF PrintOut, TypeOK
  <2>2. printed' \in Seq(Builds)
    BY <1>2, <2>1, AppendProperties DEF PrintOut
  <2>3. printing' = Nobody /\ UNCHANGED <<fileVars, status, prodVars, outs, outChan, funcVars>>
    BY <1>2 DEF PrintOut
  <2> QED  BY <2>2, <2>3 DEF TypeOK, fileVars, prodVars, funcVars, signVars
<1>3. CASE Exit
  BY <1>3 DEF Exit, TypeOK, prodVars, funcVars, signVars, mainVars, Statuses
<1>4. CASE Rerun
  <2>1. /\ run' \in 1..MaxRuns /\ env' \in Environments
        /\ \A i \in Images : registry'[i] \in Lookups(i)
        /\ UNCHANGED <<parents, disk, cacheSignatures>>
    BY <1>4, BuildsAssumption DEF Rerun, TypeOK
  <2>2. Started'
    BY <1>4, FreshStart
  <2>3. /\ parents' \in Families /\ disk' \in [Builds -> {"none", "found", "invalid"}]
        /\ cacheSignatures' \in [Payloads -> Signatures \cup {NoSignature}]
    BY <2>1 DEF TypeOK
  <2>4. SignsSigned' /\ ProducerAt'
    BY <2>2 DEF Started
  <2>5. next' \in 1..NBuilds + 1 /\ outs' \in Seq(Builds) /\ Len(outs') <= Concurrency
    BY <2>2, BuildsAssumption DEF Started
  <2>6. saveSignatures' \in [Payloads -> Signatures \cup {NoSignature}]
    BY <2>2 DEF Started
  <2> QED
    BY <2>1, <2>2, <2>3, <2>4, <2>5, <2>6 DEF Started, TypeOK, Statuses
<1>5. CASE UNCHANGED vars
  BY <1>5 DEF TypeOK, vars, fileVars, prodVars, funcVars, signVars, mainVars
<1> QED  BY <1>1, <1>2, <1>3, <1>4, <1>5 DEF Main, Finished

\* The types, with where the producer is and what is signed.
LEMMA TypedInvariant == Spec => []Typed
<1>1. Init => Typed
  <2> SUFFICES ASSUME Init PROVE Typed
    OBVIOUS
  <2>1. Started
    BY FreshStart
  <2>2. /\ parents \in Families /\ run = 1 /\ env \in Environments
        /\ \A i \in Images : registry[i] \in Lookups(i)
        /\ disk = [b \in Builds |-> "none"]
        /\ cacheSignatures = [d \in Payloads |-> NoSignature]
    BY DEF Init
  <2> QED
    BY <2>1, <2>2, BuildsAssumption
    DEF Typed, TypeOK, Started, SignsSigned, ProducerAt, Statuses
<1>2. Typed /\ [Next]_vars => Typed'
  BY ProducerTypes, FuncTypes, MainTypes DEF Next
<1> QED  BY <1>1, <1>2, PTL DEF Spec

\* Every variable of the program keeps its type, for any number of builds and
\* runs.
THEOREM TypeCorrect == Spec => []TypeOK
  BY TypedInvariant, PTL DEF Typed

-----------------------------------------------------------------------------

\* the first build that is not in outs and was not
End == IF producer = "register" THEN next + 1 ELSE next

\* the first build that the main goroutine is not done with
Cursor == IF printing # Nobody THEN printing ELSE End - Len(outs)

\* outs holds, and main reads, the builds last sent, without a gap
Queued ==
    /\ \A i \in 1..Len(outs) : outs[i] = End - Len(outs) + i - 1
    /\ Len(outs) < End
    /\ printing # Nobody => printing = End - Len(outs) - 1

\* the functions that run are those of the builds before next
Known ==
    /\ \A b \in Builds : b \in registered <=> b < next
    /\ \A b \in Builds : pc[b] # "idle" <=> b < next
    /\ ParentsKnown

\* a function that has returned has left its channel closed or with the
\* document in it, and main goes past no other
Settled ==
    \A b \in Builds :
        /\ outChan[b] = "open" <=> pc[b] # "returned"
        /\ result[b] = "none" <=> pc[b] # "returned"
        /\ outChan[b] = "closed" => result[b] = "nil"
        /\ b < Cursor => outChan[b] # "open"

PrintedSoFar ==
    /\ \A i, j \in DOMAIN printed : i < j => printed[i] < printed[j]
    /\ \A i \in DOMAIN printed : printed[i] < Cursor /\ outChan[printed[i]] = "full"
    /\ \A b \in Builds : b < Cursor /\ outChan[b] = "full"
                         => \E i \in DOMAIN printed : printed[i] = b

EndsDone ==
    status = "exited" => producer = "closed" /\ outs = <<>> /\ printing = Nobody

\* whether the parent is there, and whether it is known not to be
There(p) == IF p \in Builds THEN result[p] = "resolved" ELSE registry[p] = "found"
NotThere(p) == IF p \in Builds THEN result[p] = "nil"
               ELSE registry[p] # "found" /\ (LookupsAgree => registry[p] = "missing")

\* a function has found there all parents it is past, and all of them once it
\* looks for its own image; one that closed its channel has met one that is not
Walking ==
    \A b \in Builds :
        /\ at[b] >= 1
        /\ \A i \in DOMAIN parents[b] : i < at[b] => There(parents[b][i])
        /\ pc[b] \in {"verify", "sign", "keep"} \/ outChan[b] = "full"
           => at[b] \notin DOMAIN parents[b]
        /\ outChan[b] = "closed" => \E i \in DOMAIN parents[b] : NotThere(parents[b][i])
        /\ pc[b] = "check" => /\ at[b] \in DOMAIN parents[b] /\ Parent(b) \in Externals
                              /\ resolved[b] = registry[Parent(b)]

\* the shared err says what a function's own lookup came to, as all lookups do
ErrTrue ==
    LookupsAgree => \A b \in Builds : pc[b] = "check" => (err = "error" <=> resolved[b] = "error")

Walked == Walking /\ ErrTrue

\* the cache, the file and the one the run makes, only holds what is so
CacheTrue ==
    \A b \in Builds :
        /\ disk[b] \in {"none", "found"}
        /\ "found" \in {disk[b], saveCache[b]} => registry[b] = "found"
        /\ saveCache[b] = "invalid" => pc[b] = "verify" /\ resolved[b] = "invalid"
        /\ pc[b] \in {"verify", "sign", "keep"}
           => (resolved[b] = "found" <=> registry[b] = "found")
        /\ outChan[b] = "full" => (result[b] = "resolved" <=> registry[b] = "found")

\* a function that signs has, and leaves, a signature that is accepted, and the
\* cache file's if that one is
Agrees(d, s) == Accepted(s) /\ (Cached(d) => s = cacheSignatures[d])
Signed ==
    /\ \A d \in Payloads : saveSignatures[d] # NoSignature => Agrees(d, saveSignatures[d])
    /\ \A b \in Builds :
         /\ prodSignature[b] # NoSignature
            => Payload[b] \in Payloads /\ pc[b] \in {"keep", "returned"}
         /\ pc[b] = "keep" => prodSignature[b] # NoSignature
                              /\ Agrees(Payload[b], prodSignature[b])
         /\ pc[b] = "returned" /\ prodSignature[b] # NoSignature
            => prodSignature[b] = saveSignatures[Payload[b]]

IInv ==
    /\ Typed /\ Queued /\ Known /\ Settled /\ PrintedSoFar /\ EndsDone
    /\ Walked /\ CacheTrue /\ Signed

-----------------------------------------------------------------------------

\* What the types say of the queue, apart from what they say of functions.
LEMMA QueueNumbers ==
    ASSUME TypeOK
    PROVE  /\ next \in Nat /\ next >= 1 /\ next <= NBuilds + 1
           /\ printing \in Builds \cup {Nobody} /\ printing \in Nat
           /\ outs \in Seq(Builds) /\ Len(outs) \in Nat
           /\ printed \in Seq(Builds) /\ Len(printed) \in Nat
           /\ DOMAIN printed = 1..Len(printed)
           /\ \A i \in DOMAIN printed : printed[i] \in Builds
<1>1. next \in 1..NBuilds + 1 /\ printing \in Builds \cup {Nobody}
      /\ outs \in Seq(Builds) /\ printed \in Seq(Builds)
  BY DEF TypeOK
<1>2. Len(outs) \in Nat /\ Len(printed) \in Nat /\ DOMAIN printed = 1..Len(printed)
  BY <1>1, LenProperties
<1>3. \A i \in DOMAIN printed : printed[i] \in Builds
  BY <1>1, <1>2, ElementOfSeq
<1>4. next \in Nat /\ next >= 1 /\ next <= NBuilds + 1
  BY <1>1, BuildNumbers
<1>5. printing \in Nat
  BY <1>1, BuildNumbers
<1> QED  BY <1>1, <1>2, <1>3, <1>4, <1>5

\* A function's step leaves the queue, the files and the output alone, and
\* all functions but its own.
LEMMA FuncQuiet ==
    ASSUME Typed, NEW b \in Builds, Func(b)
    PROVE  /\ UNCHANGED <<fileVars, prodVars, outs, mainVars>>
           /\ Running /\ pc[b] \notin {"idle", "returned"} /\ status' # "exited"
           /\ \A c \in Builds \ {b} : /\ pc'[c] = pc[c] /\ outChan'[c] = outChan[c]
                                      /\ result'[c] = result[c] /\ at'[c] = at[c]
                                      /\ resolved'[c] = resolved[c]
                                      /\ saveCache'[c] = saveCache[c]
                                      /\ prodSignature'[c] = prodSignature[c]
<1> USE DEF Typed, TypeOK
<1>1. CASE UnknownParent(b) \/ VerifyFails(b)
  BY <1>1 DEF UnknownParent, VerifyFails, Panic, AtParent, Running, funcVars, signVars
<1>2. CASE TakeParent(b)
  BY <1>2 DEF TakeParent, HaveParent, NotYet, AtParent, Running, ClosedFor, signVars
<1>3. CASE LookupParent(b)
  BY <1>3 DEF LookupParent, AtParent, Running, signVars
<1>4. CASE CheckErr(b)
  <2>1. Running /\ pc[b] = "check"
    BY <1>4 DEF CheckErr
  <2>2. CASE Panic("lookup failed")
    BY <2>1, <2>2 DEF Panic, funcVars, signVars
  <2>3. CASE ~Panic("lookup failed")
    <3>1. /\ HaveParent(b) \/ NotYet(b)
          /\ UNCHANGED <<fileVars, status, prodVars, outs, resolved, err, saveCache,
                         signVars, mainVars>>
      BY <1>4, <2>3 DEF CheckErr
    <3>2. CASE HaveParent(b)
      BY <2>1, <3>1, <3>2 DEF HaveParent, Running, signVars
    <3>3. CASE NotYet(b)
      BY <2>1, <3>1, <3>3 DEF NotYet, ClosedFor, Running, signVars
    <3> QED  BY <3>1, <3>2, <3>3
  <2> QED  BY <2>2, <2>3
<1>5. CASE LookupImg(b)
  BY <1>5 DEF LookupImg, Panic, Running, funcVars, signVars
<1>6. CASE Verify(b)
  BY <1>6 DEF Verify, Publish, Running, signVars, WithoutInvalid
<1>7. CASE SignDigest(b)
  BY <1>7 DEF SignDigest, Panic, Running, funcVars, signVars
<1>8. CASE KeepSignature(b)
  BY <1>8 DEF KeepSignature, Publish, Running
<1> QED
  BY <1>1, <1>2, <1>3, <1>4, <1>5, <1>6, <1>7, <1>8 DEF Func

\* What main is done with stays a beginning of the builds sent, for as long as
\* the run goes on.
LEMMA QueuedStep ==
    ASSUME Typed, Queued, [Next]_vars, ~Rerun
    PROVE  /\ Queued'
           /\ Cursor \in Nat /\ Cursor' \in Nat
           /\ ~PrintOut => Cursor' = Cursor
           /\ PrintOut => Cursor = printing /\ Cursor' = printing + 1
<1>1. /\ next \in Nat /\ printing \in Nat /\ outs \in Seq(Builds) /\ Len(outs) \in Nat
      /\ Nobody = 0
  BY QueueNumbers DEF Typed, Nobody
<1>2. CASE Send
  <2>1. /\ producer = "decode" /\ producer' = "register" /\ next \in Builds
        /\ outs' = Append(outs, next) /\ UNCHANGED <<next, printing>> /\ ~PrintOut
    BY <1>2, <1>1 DEF Send, mainVars, PrintOut, prodVars
  <2>2. /\ Len(outs') = Len(outs) + 1
        /\ \A i \in 1..Len(outs) : outs'[i] = outs[i]
        /\ outs'[Len(outs) + 1] = next
    BY <1>1, <2>1, AppendProperties
  <2>3. End = next /\ End' = next + 1
    BY <2>1 DEF End
  <2>4. Queued'
    <3>1. End \in Nat /\ Nobody = 0
      BY <1>1, <2>3
    <3>2. End' - Len(outs') = End - Len(outs)
      BY <1>1, <2>2, <2>3
    <3>3. Len(outs') < End'
      BY <1>1, <2>2, <2>3, <3>1 DEF Queued
    <3>4. \A i \in 1..Len(outs) : outs'[i] = End' - Len(outs') + i - 1
      BY <2>2, <3>2 DEF Queued
    <3>5. outs'[Len(outs')] = End' - Len(outs') + Len(outs') - 1
      BY <1>1, <2>2, <2>3
    <3>6. \A i \in 1..Len(outs') : i \in 1..Len(outs) \/ i = Len(outs')
      BY <1>1, <2>2
    <3>7. \A i \in 1..Len(outs') : outs'[i] = End' - Len(outs') + i - 1
      BY <3>4, <3>5, <3>6
    <3>8. printing' # Nobody => printing' = End' - Len(outs') - 1
      BY <2>1, <3>2 DEF Queued
    <3> QED  BY <3>3, <3>7, <3>8 DEF Queued
  <2> QED  BY <1>1, <2>1, <2>2, <2>3, <2>4 DEF Queued, Cursor
<1>3. CASE Receive
  <2>1. /\ printing = Nobody /\ outs # <<>>
        /\ printing' = Head(outs) /\ outs' = Tail(outs)
        /\ UNCHANGED <<next, producer>> /\ ~PrintOut
    BY <1>3 DEF Receive, prodVars, PrintOut
  <2>2. /\ Len(outs') = Len(outs) - 1 /\ Len(outs') \in Nat
        /\ \A i \in 1..Len(outs') : outs'[i] = outs[i + 1]
        /\ printing' = outs[1]
    BY <1>1, <2>1, HeadTailProperties, LenProperties
  <2>3. End' = End /\ End \in Nat
    BY <1>1, <2>1 DEF End
  <2>4. printing' = End - Len(outs) /\ printing' # Nobody
    BY <1>1, <2>1, <2>2, <2>3 DEF Queued
  <2>5. Queued'
    <3>1. End' - Len(outs') = End - Len(outs) + 1 /\ Len(outs') < End'
      BY <1>1, <2>2, <2>3 DEF Queued
    <3>2. \A i \in 1..Len(outs') : i + 1 \in 1..Len(outs)
      BY <1>1, <2>2
    <3>3. \A i \in 1..Len(outs') : outs'[i] = End - Len(outs) + (i + 1) - 1
      BY <2>2, <3>2 DEF Queued
    <3>4. \A i \in 1..Len(outs') : outs'[i] = End' - Len(outs') + i - 1
      BY <1>1, <2>3, <3>1, <3>3
    <3>5. printing' = End' - Len(outs') - 1
      BY <1>1, <2>3, <2>4, <3>1
    <3> QED  BY <3>1, <3>4, <3>5 DEF Queued
  <2>6. Cursor = End - Len(outs) /\ Cursor' = printing'
    BY <2>1, <2>4 DEF Cursor
  <2>7. Cursor \in Nat
    BY <1>1, <2>3, <2>6 DEF Queued
  <2> QED  BY <2>1, <2>4, <2>5, <2>6, <2>7
<1>4. CASE PrintOut
  <2>1. /\ printing # Nobody /\ printing' = Nobody
        /\ UNCHANGED <<next, producer, outs>>
    BY <1>4 DEF PrintOut, prodVars
  <2>2. End' = End /\ End \in Nat
    BY <1>1, <2>1 DEF End
  <2> QED  BY <1>1, <1>4, <2>1, <2>2 DEF Queued, Cursor
<1>5. CASE UNCHANGED <<outs, printing>> /\ End' = End /\ ~PrintOut
  <2>1. End \in Nat
    BY <1>1 DEF End
  <2> QED  BY <1>1, <1>5, <2>1 DEF Queued, Cursor
<1>6. Register \/ CloseOuts => UNCHANGED <<outs, printing>> /\ End' = End
  BY DEF Register, CloseOuts, End, mainVars
<1>7. Exit \/ Finished \/ UNCHANGED vars => UNCHANGED <<outs, printing>> /\ End' = End
  BY DEF Exit, Finished, End, mainVars, prodVars, vars
<1>8. (\E b \in Builds : Func(b)) => UNCHANGED <<outs, printing>> /\ End' = End
  BY FuncQuiet DEF End, mainVars, prodVars
<1> QED
  BY <1>2, <1>3, <1>4, <1>5, <1>6, <1>7, <1>8 DEF Next, Producer, Main

\* The registered functions are those of the builds before next, and no
\* function asks for one after its own.
LEMMA KnownStep ==
    ASSUME Typed, Known, [Next]_vars, ~Rerun
    PROVE  Known'
<1>1. next \in Nat /\ Builds \subseteq Nat
  BY QueueNumbers, BuildNumbers DEF Typed
<1>2. pc \in [Builds -> {"idle", "parents", "check", "verify", "sign", "keep", "returned"}]
  BY DEF Typed, TypeOK
<1>3. ASSUME UNCHANGED <<next, registered, pc, parents>>,
             status' # "parent unknown" \/ status' = status
      PROVE  Known'
  BY <1>3 DEF Known, ParentsKnown, ParentsFirst
<1>4. CASE Register
  <2>1. /\ next \in Builds /\ next' = next + 1 /\ registered' = registered \cup {next}
        /\ pc' = [pc EXCEPT ![next] = "parents"] /\ UNCHANGED <<status, parents>>
    BY <1>4 DEF Register, NowRegistered, fileVars, Typed, ProducerAt
  <2>2. ASSUME NEW b \in Builds PROVE b < next' <=> b < next \/ b = next
    BY <1>1, <2>1
  <2>3. ParentsKnown'
    BY <2>1 DEF Known, ParentsKnown, ParentsFirst
  <2> QED  BY <1>2, <2>1, <2>2, <2>3 DEF Known
<1>5. ASSUME NEW b \in Builds, Func(b) PROVE Known'
  <2>1. /\ UNCHANGED <<next, registered, parents>> /\ pc[b] # "idle" /\ Running
        /\ \A c \in Builds \ {b} : pc'[c] = pc[c]
    BY <1>5, FuncQuiet DEF fileVars, prodVars
  <2>2. pc'[b] # "idle"
    <3>1. CASE UnknownParent(b) \/ VerifyFails(b)
      BY <2>1, <3>1 DEF UnknownParent, VerifyFails, Panic, funcVars
    <3>2. CASE TakeParent(b) \/ CheckErr(b)
      BY <1>2, <2>1, <3>2 DEF TakeParent, CheckErr, HaveParent, NotYet, Panic, funcVars
    <3>3. CASE LookupParent(b) \/ LookupImg(b) \/ SignDigest(b)
      BY <1>2, <2>1, <3>3 DEF LookupParent, LookupImg, SignDigest, Panic, funcVars
    <3>4. CASE Verify(b) \/ KeepSignature(b)
      BY <1>2, <3>4 DEF Verify, KeepSignature, Publish
    <3> QED  BY <1>5, <3>1, <3>2, <3>3, <3>4 DEF Func
  <2>3. ParentsKnown'
    <3>1. CASE UnknownParent(b)
      <4> SUFFICES ASSUME ParentsFirst PROVE FALSE
        BY <2>1 DEF ParentsKnown, ParentsFirst
      <4>1. at[b] \in DOMAIN parents[b] /\ Parent(b) \in Builds \ registered
        BY <3>1 DEF UnknownParent, AtParent
      <4>2. Parent(b) < b
        BY <4>1 DEF ParentsFirst, Parent
      <4>3. b < next /\ ~(Parent(b) < next)
        BY <2>1, <4>1 DEF Known
      <4>4. Parent(b) \in Nat /\ b \in Nat
        BY <1>1, <4>1
      <4> QED  BY <1>1, <4>2, <4>3, <4>4
    <3>2. CASE ~UnknownParent(b)
      <4>1. status' # "parent unknown"
        BY <1>5, <2>1, <3>2
        DEF Func, TakeParent, LookupParent, CheckErr, LookupImg, Verify, VerifyFails,
            SignDigest, KeepSignature, Panic, Running
      <4> QED  BY <4>1 DEF ParentsKnown
    <3> QED  BY <3>1, <3>2
  <2> QED  BY <2>1, <2>2, <2>3 DEF Known
<1>6. CASE Send \/ CloseOuts
  BY <1>3, <1>6 DEF Send, CloseOuts, fileVars, funcVars
<1>7. CASE Main
  BY <1>3, <1>7 DEF Main, Receive, PrintOut, Exit, fileVars, prodVars, funcVars
<1>8. CASE Finished \/ UNCHANGED vars
  BY <1>3, <1>8 DEF Finished, vars, fileVars, prodVars, funcVars
<1> QED
  BY <1>4, <1>5, <1>6, <1>7, <1>8 DEF Next, Producer

-----------------------------------------------------------------------------

\* the process ends, and leaves everything as it is
Stops == UNCHANGED <<fileVars, prodVars, outs, outChan, funcVars, mainVars>>

\* the parent the function is at is there, or is known not to be
GoesOn(b) == /\ at[b] \in DOMAIN parents[b] /\ There(Parent(b)) /\ HaveParent(b)
             /\ pc[b] \in {"parents", "check"}
             /\ UNCHANGED <<resolved, err, saveCache, signVars>>
GivesUp(b) == /\ at[b] \in DOMAIN parents[b] /\ NotThere(Parent(b)) /\ NotYet(b)
              /\ pc[b] \in {"parents", "check"}
              /\ UNCHANGED <<resolved, err, saveCache, signVars>>

\* What the step of a function comes to (main.go:454-700).
LEMMA FuncKinds ==
    ASSUME Typed, Settled, Walked, NEW b \in Builds, Func(b)
    PROVE  \/ Stops
           \/ GoesOn(b) \/ GivesUp(b) \/ LookupParent(b)
           \/ LookupImg(b) /\ Answer(b) # "error"
           \/ Verify(b)
           \/ (SignDigest(b) /\ pc'[b] = "keep")
           \/ KeepSignature(b)
<1>1. CASE UnknownParent(b) \/ VerifyFails(b)
  BY <1>1 DEF UnknownParent, VerifyFails, Panic, Stops
<1>2. CASE TakeParent(b)
  <2>1. Parent(b) \in Builds /\ result[Parent(b)] \in {"nil", "resolved"}
    BY <1>2 DEF TakeParent, Typed, TypeOK
  <2>2. There(Parent(b)) <=> Resolved(Parent(b))
    BY <2>1 DEF There, Resolved
  <2>3. NotThere(Parent(b)) <=> ~Resolved(Parent(b))
    BY <2>1 DEF NotThere, Resolved
  <2> QED  BY <1>2, <2>2, <2>3 DEF TakeParent, AtParent, GoesOn, GivesUp
<1>3. CASE CheckErr(b)
  <2>1. /\ at[b] \in DOMAIN parents[b] /\ Parent(b) \in Externals
        /\ resolved[b] = registry[Parent(b)] /\ pc[b] = "check"
    BY <1>3 DEF CheckErr, Walked, Walking
  <2>2. Parent(b) \notin Builds
    BY <2>1, BuildsAssumption
  <2>3. There(Parent(b)) <=> resolved[b] = "found"
    BY <2>1, <2>2 DEF There
  <2>4. CASE err = "error" /\ resolved[b] = "error"
    BY <1>3, <2>4 DEF CheckErr, Panic, Stops
  <2>5. resolved[b] \in {"missing", "found", "error"}
    BY <2>1, <2>2 DEF Typed, TypeOK, Lookups, Images
  <2>6. \/ err = "error" /\ resolved[b] = "error"
        \/ (NotThere(Parent(b)) <=> resolved[b] # "found")
    BY <2>1, <2>2, <2>5 DEF NotThere, Walked, ErrTrue
  <2> QED  BY <1>3, <2>1, <2>3, <2>4, <2>6 DEF CheckErr, GoesOn, GivesUp, Panic, Stops
<1>4. CASE LookupImg(b)
  BY <1>4 DEF LookupImg, Panic, Stops
<1>5. CASE SignDigest(b)
  BY <1>5 DEF SignDigest, Panic, Stops, Typed, TypeOK
<1> QED  BY <1>1, <1>2, <1>3, <1>4, <1>5 DEF Func

\* A function that is about to be registered does not run yet.
LEMMA NextIsIdle ==
    ASSUME Typed, Known, producer = "register"
    PROVE  next \in Builds /\ pc[next] = "idle"
<1>1. next \in Builds /\ next \in Nat
  BY QueueNumbers DEF Typed, ProducerAt
<1>2. ~(next < next)
  BY <1>1
<1> QED  BY <1>1, <1>2 DEF Known

\* A channel is closed or full when, and only when, its function has returned.
LEMMA SettledStep ==
    ASSUME Typed, Queued, Known, Settled, Walked, [Next]_vars, ~Rerun
    PROVE  Settled'
<1>1. /\ Cursor \in Nat /\ Cursor' \in Nat /\ Builds \subseteq Nat
      /\ ~PrintOut => Cursor' = Cursor
      /\ PrintOut => Cursor = printing /\ Cursor' = printing + 1
  BY QueuedStep, BuildNumbers
<1>2. /\ pc \in [Builds -> {"idle", "parents", "check", "verify", "sign", "keep", "returned"}]
      /\ outChan \in [Builds -> {"open", "full", "closed"}]
      /\ result \in [Builds -> {"none", "nil", "resolved"}]
      /\ at \in [Builds -> Nat]
  BY DEF Typed, TypeOK
<1>3. ASSUME UNCHANGED <<pc, outChan, result>>, ~PrintOut PROVE Settled'
  BY <1>1, <1>3 DEF Settled
<1>4. CASE PrintOut
  <2>1. /\ printing # Nobody /\ outChan[printing] # "open"
        /\ UNCHANGED <<pc, outChan, result>>
    BY <1>4 DEF PrintOut, Ready, funcVars
  <2>2. printing \in Builds
    BY <2>1 DEF Typed, TypeOK
  <2>3. ASSUME NEW b \in Builds, b < Cursor' PROVE b < Cursor \/ b = printing
    BY <1>1, <1>4, <2>2, <2>3
  <2> QED  BY <2>1, <2>3 DEF Settled
<1>5. CASE Register
  <2>1. next \in Builds /\ pc[next] = "idle"
    BY <1>5, NextIsIdle DEF Register
  <2>2. /\ pc' = [pc EXCEPT ![next] = "parents"] /\ UNCHANGED <<outChan, result>>
        /\ ~PrintOut
    BY <1>5 DEF Register, mainVars, PrintOut
  <2> QED  BY <1>1, <1>2, <2>1, <2>2 DEF Settled
<1>6. ASSUME NEW b \in Builds, Func(b), ~PrintOut PROVE Settled'
  <2>0. /\ pc[b] # "returned"
        /\ \A c \in Builds \ {b} : /\ pc'[c] = pc[c] /\ outChan'[c] = outChan[c]
                                   /\ result'[c] = result[c]
    BY <1>6, FuncQuiet
  <2>1. CASE Stops
    BY <1>3, <1>6, <2>1 DEF Stops, funcVars
  <2>2. CASE UNCHANGED <<outChan, result>> /\ pc'[b] # "returned"
    BY <1>1, <1>6, <2>0, <2>2 DEF Settled
  <2>3. CASE /\ pc'[b] = "returned"
             /\ \/ outChan'[b] = "closed" /\ result'[b] = "nil"
                \/ outChan'[b] = "full" /\ result'[b] \in {"nil", "resolved"}
    BY <1>1, <1>6, <2>0, <2>3 DEF Settled
  <2>4. GoesOn(b) => UNCHANGED <<outChan, result>> /\ pc'[b] # "returned"
    BY <1>2 DEF GoesOn, HaveParent
  <2>5. GivesUp(b) => pc'[b] = "returned" /\ outChan'[b] = "closed" /\ result'[b] = "nil"
    BY <1>2 DEF GivesUp, NotYet, ClosedFor
  <2>6. LookupParent(b) \/ (LookupImg(b) /\ Answer(b) # "error") \/ (SignDigest(b) /\ pc'[b] = "keep")
        => UNCHANGED <<outChan, result>> /\ pc'[b] # "returned"
    BY <1>2 DEF LookupParent, LookupImg, SignDigest, Panic, funcVars
  <2>7. Publish(b) => /\ pc'[b] = "returned" /\ outChan'[b] = "full"
                      /\ result'[b] \in {"nil", "resolved"}
    BY <1>2 DEF Publish
  <2>8. Verify(b) => \/ UNCHANGED <<outChan, result>> /\ pc'[b] # "returned"
                     \/ Publish(b)
    BY <1>2 DEF Verify
  <2>9. KeepSignature(b) => Publish(b)
    BY DEF KeepSignature
  <2>10. \/ Stops \/ GoesOn(b) \/ GivesUp(b) \/ Verify(b) \/ KeepSignature(b)
         \/ LookupParent(b) \/ (LookupImg(b) /\ Answer(b) # "error")
         \/ (SignDigest(b) /\ pc'[b] = "keep")
    BY <1>6, FuncKinds
  <2>11. CASE GoesOn(b) \/ LookupParent(b) \/ (LookupImg(b) /\ Answer(b) # "error")
               \/ (SignDigest(b) /\ pc'[b] = "keep")
    BY <2>2, <2>4, <2>6, <2>11
  <2>12. CASE GivesUp(b) \/ Publish(b)
    BY <2>3, <2>5, <2>7, <2>12
  <2>13. CASE Verify(b) \/ KeepSignature(b)
    BY <2>2, <2>8, <2>9, <2>12, <2>13
  <2> QED
    BY <2>1, <2>10, <2>11, <2>12, <2>13
<1>7. Send \/ CloseOuts \/ Receive \/ Exit \/ Finished \/ UNCHANGED vars
      => UNCHANGED <<pc, outChan, result>>
  BY DEF Send, CloseOuts, Receive, Exit, Finished, vars, funcVars
<1> QED
  BY <1>3, <1>4, <1>5, <1>6, <1>7 DEF Next, Producer, Main

\* What the step of a function does to the channels.
LEMMA ChannelKept ==
    ASSUME Typed, Settled, NEW b \in Builds, Func(b)
    PROVE  /\ \A c \in Builds : outChan[c] # "open" => outChan'[c] = outChan[c]
           /\ ~(b < Cursor)
<1>1. /\ pc[b] # "returned"
      /\ \A c \in Builds \ {b} : outChan'[c] = outChan[c]
  BY FuncQuiet
<1>2. outChan[b] = "open"
  BY <1>1 DEF Settled
<1> QED  BY <1>1, <1>2 DEF Settled

\* The documents of the builds that main is done with have been printed, in
\* order.
LEMMA PrintedStep ==
    ASSUME Typed, Queued, Settled, PrintedSoFar, [Next]_vars, ~Rerun
    PROVE  PrintedSoFar'
<1>1. /\ Cursor \in Nat /\ Cursor' \in Nat /\ Builds \subseteq Nat
      /\ ~PrintOut => Cursor' = Cursor
      /\ PrintOut => Cursor = printing /\ Cursor' = printing + 1
  BY QueuedStep, BuildNumbers
<1>2. /\ printed \in Seq(Builds) /\ Len(printed) \in Nat /\ DOMAIN printed = 1..Len(printed)
      /\ \A i \in DOMAIN printed : printed[i] \in Builds /\ printed[i] \in Nat
  BY <1>1, QueueNumbers DEF Typed
<1>3. ASSUME UNCHANGED <<printed, outChan>>, ~PrintOut PROVE PrintedSoFar'
  BY <1>1, <1>3 DEF PrintedSoFar
<1>4. ASSUME NEW b \in Builds, Func(b) PROVE PrintedSoFar'
  <2>1. UNCHANGED <<printed, printing>> /\ ~PrintOut
    BY <1>4, FuncQuiet DEF mainVars, PrintOut
  <2>2. /\ \A c \in Builds : outChan[c] # "open" => outChan'[c] = outChan[c]
        /\ \A c \in Builds : c < Cursor => outChan[c] # "open"
    BY <1>4, ChannelKept DEF Settled
  <2> QED  BY <1>1, <1>2, <2>1, <2>2 DEF PrintedSoFar
<1>5. CASE PrintOut
  <2>1. /\ printing \in Builds /\ UNCHANGED outChan
        /\ outChan[printing] = "full" => printed' = Append(printed, printing)
        /\ outChan[printing] # "full" => printed' = printed
    BY <1>5 DEF PrintOut, Typed, TypeOK
  <2>2. Cursor = printing /\ Cursor' = printing + 1
    BY <1>1, <1>5
  <2>3. CASE outChan[printing] = "full"
    <3>1. /\ DOMAIN printed' = 1..Len(printed) + 1
          /\ \A i \in 1..Len(printed) : printed'[i] = printed[i]
          /\ printed'[Len(printed) + 1] = printing
      <4>1. printed' = Append(printed, printing)
        BY <2>1, <2>3
      <4>0. printed \in Seq(Builds) /\ printing \in Builds
        BY <1>2, <2>1
      <4>2. /\ printed' \in Seq(Builds) /\ Len(printed') = Len(printed) + 1
            /\ \A i \in 1..Len(printed) : printed'[i] = printed[i]
            /\ printed'[Len(printed) + 1] = printing
        BY <4>0, <4>1, AppendProperties
      <4>3. DOMAIN printed' = 1..Len(printed')
        BY <4>2, LenProperties
      <4> QED  BY <4>2, <4>3
    <3>2. \A i, j \in DOMAIN printed' : i < j => printed'[i] < printed'[j]
      BY <1>1, <1>2, <2>2, <3>1 DEF PrintedSoFar
    <3>3. \A i \in DOMAIN printed' : printed'[i] < Cursor' /\ outChan'[printed'[i]] = "full"
      BY <1>1, <1>2, <2>1, <2>2, <2>3, <3>1 DEF PrintedSoFar
    <3>4. ASSUME NEW b \in Builds, b < Cursor', outChan'[b] = "full"
          PROVE  \E i \in DOMAIN printed' : printed'[i] = b
      <4>1. CASE b = printing
        BY <1>2, <3>1, <4>1
      <4>2. CASE b < printing
        <5>1. PICK i \in DOMAIN printed : printed[i] = b
          BY <2>1, <2>2, <3>4, <4>2 DEF PrintedSoFar
        <5> QED  BY <1>2, <3>1, <5>1
      <4> QED  BY <1>1, <2>1, <2>2, <3>4, <4>1, <4>2
    <3> QED  BY <3>2, <3>3, <3>4 DEF PrintedSoFar
  <2>4. CASE outChan[printing] # "full"
    <3>1. ASSUME NEW b \in Builds, b < Cursor', outChan[b] = "full" PROVE b < Cursor
      <4>1. b # printing /\ b \in Nat /\ printing \in Nat
        BY <1>1, <2>1, <2>4, <3>1
      <4> QED  BY <2>2, <3>1, <4>1
    <3>2. \A i \in DOMAIN printed : printed[i] < Cursor'
      BY <1>1, <1>2, <2>2 DEF PrintedSoFar
    <3> QED  BY <2>1, <2>4, <3>1, <3>2 DEF PrintedSoFar
  <2> QED  BY <2>3, <2>4
<1>6. Producer \/ Receive \/ Exit \/ Finished \/ UNCHANGED vars => UNCHANGED <<printed, outChan>>
  BY DEF Producer, Send, Register, CloseOuts, Receive, Exit, Finished, vars, mainVars
<1> QED
  BY <1>3, <1>4, <1>5, <1>6 DEF Next, Main

\* main returns when outs is closed and empty, and only then (main.go:702-728).
LEMMA EndsStep ==
    ASSUME Typed, EndsDone, [Next]_vars, ~Rerun
    PROVE  EndsDone'
<1>1. CASE Exit
  BY <1>1 DEF Exit, EndsDone, prodVars, mainVars
<1>2. (\E b \in Builds : Func(b)) => status' # "exited"
  BY FuncQuiet
<1>3. CASE Producer \/ Receive \/ PrintOut
  BY <1>3 DEF Producer, Send, Register, CloseOuts, Receive, PrintOut, Running, EndsDone
<1>4. CASE Finished \/ UNCHANGED vars
  BY <1>4 DEF Finished, vars, prodVars, mainVars, EndsDone
<1> QED
  BY <1>1, <1>2, <1>3, <1>4 DEF Next, Main, EndsDone

\* When main can return every function has returned, and every document is
\* printed.
LEMMA AllReturned ==
    ASSUME Typed, Queued, Settled, PrintedSoFar,
           producer = "closed", outs = <<>>, printing = Nobody
    PROVE  \A b \in Builds : /\ pc[b] = "returned" /\ outChan[b] \in {"full", "closed"}
                             /\ outChan[b] = "full" <=> \E i \in DOMAIN printed : printed[i] = b
<1>1. next = NBuilds + 1 /\ Len(outs) = 0
  BY DEF Typed, ProducerAt
<1>2. Cursor = NBuilds + 1
  BY <1>1, BuildNumbers DEF Cursor, End
<1>3. \A b \in Builds : b < Cursor
  BY <1>2, BuildNumbers
<1>4. \A b \in Builds : pc[b] = "returned" /\ outChan[b] \in {"full", "closed"}
  BY <1>3 DEF Settled, Typed, TypeOK
<1> QED  BY <1>3, <1>4 DEF PrintedSoFar

-----------------------------------------------------------------------------

\* What a function has returned it keeps returning: it is a OnceValue
\* (main.go:416).
LEMMA ReturnsOnce ==
    ASSUME Typed, Settled, NEW b \in Builds, Func(b), NEW c \in Builds, result[c] # "none"
    PROVE  result'[c] = result[c]
<1>1. pc[b] # "returned" /\ \A d \in Builds \ {b} : result'[d] = result[d]
  BY FuncQuiet
<1>2. result[b] = "none"
  BY <1>1 DEF Settled
<1> QED  BY <1>1, <1>2

\* What a function has found of its parents stays found.
LEMMA WalkingStep ==
    ASSUME Typed, Settled, Walked, [Next]_vars, ~Rerun
    PROVE  Walking'
<1>0. Walking
  BY DEF Walked
<1>1. /\ pc \in [Builds -> {"idle", "parents", "check", "verify", "sign", "keep", "returned"}]
      /\ outChan \in [Builds -> {"open", "full", "closed"}]
      /\ resolved \in [Builds -> {"none", "missing", "found", "invalid", "error"}]
      /\ at \in [Builds -> Nat]
  BY DEF Typed, TypeOK
<1>2. ASSUME UNCHANGED <<at, parents, resolved, registry, outChan, result>>,
             \A b \in Builds : pc'[b] \in {pc[b], "parents"}
      PROVE  Walking'
  BY <1>2 DEF Walked, Walking, There, NotThere, LookupsAgree, Parent
<1>3. ASSUME NEW b \in Builds, Func(b) PROVE Walking'
  <2>1. /\ UNCHANGED <<parents, registry>>
        /\ pc[b] \notin {"idle", "returned"} /\ outChan[b] = "open"
        /\ \A c \in Builds \ {b} : /\ pc'[c] = pc[c] /\ outChan'[c] = outChan[c]
                                   /\ at'[c] = at[c] /\ resolved'[c] = resolved[c]
    BY <1>3, FuncQuiet DEF fileVars, Settled
  <2>2. \A c \in Builds : result[c] # "none" => result'[c] = result[c]
    BY <1>3, ReturnsOnce
  <2>3. ASSUME NEW c \in Builds \ {b}
        PROVE  /\ at'[c] >= 1
               /\ \A i \in DOMAIN parents'[c] : i < at'[c] => There(parents[c][i])'
               /\ pc'[c] \in {"verify", "sign", "keep"} \/ outChan'[c] = "full"
                  => at'[c] \notin DOMAIN parents'[c]
               /\ outChan'[c] = "closed"
                  => \E i \in DOMAIN parents'[c] : NotThere(parents[c][i])'
               /\ pc'[c] = "check"
                  => /\ at'[c] \in DOMAIN parents'[c] /\ Parent(c)' \in Externals
                     /\ resolved'[c] = registry'[Parent(c)']
    <3>1. \A i \in DOMAIN parents[c] : There(parents[c][i]) => There(parents[c][i])'
      BY <2>1, <2>2 DEF There
    <3>2. \A i \in DOMAIN parents[c] : NotThere(parents[c][i]) => NotThere(parents[c][i])'
      BY <2>1, <2>2 DEF NotThere, LookupsAgree
    <3> QED  BY <1>0, <2>1, <3>1, <3>2 DEF Walking, Parent
  <2>4. /\ at'[b] >= 1
        /\ \A i \in DOMAIN parents'[b] : i < at'[b] => There(parents[b][i])'
        /\ pc'[b] \in {"verify", "sign", "keep"} \/ outChan'[b] = "full"
           => at'[b] \notin DOMAIN parents'[b]
        /\ outChan'[b] = "closed"
           => \E i \in DOMAIN parents'[b] : NotThere(parents[b][i])'
        /\ pc'[b] = "check"
           => /\ at'[b] \in DOMAIN parents'[b] /\ Parent(b)' \in Externals
              /\ resolved'[b] = registry'[Parent(b)']
    <3>1. at[b] \in Nat /\ at[b] >= 1 /\ at[b] + 1 >= 1
      BY <1>0, <1>1 DEF Walking
    <3>0. \A i \in DOMAIN parents[b] : i < at[b] => There(parents[b][i])'
      BY <1>0, <2>1, <2>2 DEF Walking, There
    <3>2. CASE GoesOn(b)
      <4>1. at' = [at EXCEPT ![b] = @ + 1] /\ pc'[b] = "parents" /\ outChan'[b] = "open"
        BY <1>1, <2>1, <3>2 DEF GoesOn, HaveParent
      <4>3. at'[b] = at[b] + 1
        BY <1>1, <4>1
      <4>4. There(parents[b][at[b]])
        BY <3>2 DEF GoesOn, Parent
      <4>2. ASSUME NEW i \in DOMAIN parents[b], i < at'[b] PROVE i < at[b] \/ i = at[b]
        <5>1. i \in Nat
          BY ParentIsImage DEF Typed, TypeOK
        <5> QED  BY <3>1, <4>2, <4>3, <5>1
      <4>5. ASSUME NEW i \in DOMAIN parents[b], i < at'[b] PROVE There(parents[b][i])'
        <5>1. CASE i < at[b]
          BY <3>0, <5>1
        <5>2. CASE i = at[b]
          BY <2>1, <2>2, <4>4, <5>2 DEF There
        <5> QED  BY <4>2, <4>5, <5>1, <5>2
      <4> QED  BY <2>1, <3>1, <4>1, <4>3, <4>5
    <3>3. CASE GivesUp(b)
      <4>1. /\ at' = at /\ pc'[b] = "returned" /\ outChan'[b] = "closed"
            /\ at[b] \in DOMAIN parents[b] /\ NotThere(parents[b][at[b]])
        BY <1>1, <3>3 DEF GivesUp, NotYet, ClosedFor, Parent
      <4>2. NotThere(parents[b][at[b]])'
        BY <2>1, <2>2, <4>1 DEF NotThere, LookupsAgree
      <4> QED  BY <2>1, <3>0, <3>1, <4>1, <4>2
    <3>4. CASE LookupParent(b)
      <4>1. /\ at' = at /\ outChan' = outChan /\ pc'[b] = "check"
            /\ resolved'[b] = registry[Parent(b)] /\ Parent(b) \in Externals
            /\ at[b] \in DOMAIN parents[b]
        BY <1>1, <3>4 DEF LookupParent, AtParent
      <4> QED  BY <2>1, <3>0, <3>1, <4>1 DEF Parent
    <3>5. CASE LookupImg(b) /\ Answer(b) # "error"
      <4>1. /\ at' = at /\ outChan' = outChan /\ pc'[b] = "verify"
            /\ at[b] \notin DOMAIN parents[b]
        BY <1>1, <3>5 DEF LookupImg
      <4> QED  BY <2>1, <3>0, <3>1, <4>1
    <3>6. CASE Verify(b) \/ (SignDigest(b) /\ pc'[b] = "keep") \/ KeepSignature(b)
      <4>1. pc[b] \in {"verify", "sign", "keep"} /\ at' = at
        BY <3>6 DEF Verify, SignDigest, KeepSignature, Panic, funcVars
      <4>2. pc'[b] # "check" /\ outChan'[b] # "closed"
        BY <1>1, <2>1, <3>6 DEF Verify, SignDigest, KeepSignature, Publish, Panic
      <4>3. at[b] \notin DOMAIN parents[b]
        BY <1>0, <4>1 DEF Walking
      <4> QED  BY <2>1, <3>0, <3>1, <4>1, <4>2, <4>3
    <3>7. CASE Stops
      BY <1>0, <1>2, <3>7 DEF Stops, Walking, fileVars, funcVars
    <3> QED  BY <1>3, <3>2, <3>3, <3>4, <3>5, <3>6, <3>7, FuncKinds
  <2> QED  BY <1>0, <2>3, <2>4 DEF Walking
<1>4. CASE Register
  <2>1. \A b \in Builds : pc'[b] \in {pc[b], "parents"}
    BY <1>1, <1>4 DEF Register
  <2> QED  BY <1>2, <1>4, <2>1 DEF Register, fileVars
<1>5. CASE Send \/ CloseOuts \/ Main \/ Finished \/ UNCHANGED vars
  BY <1>2, <1>5
  DEF Send, CloseOuts, Main, Receive, PrintOut, Exit, Finished, vars, fileVars, funcVars
<1> QED  BY <1>3, <1>4, <1>5 DEF Next, Producer

\* When lookups agree, no function's lookup changes what err says of another's
\* (main.go:422, 476).
LEMMA ErrStep ==
    ASSUME Typed, Settled, Walked, Walking', [Next]_vars, ~Rerun
    PROVE  ErrTrue'
<1>0. pc \in [Builds -> {"idle", "parents", "check", "verify", "sign", "keep", "returned"}]
  BY DEF Typed, TypeOK
<1>1. ASSUME UNCHANGED <<registry, resolved, err>>, \A b \in Builds : pc'[b] \in {pc[b], "parents"}
      PROVE  ErrTrue'
  BY <1>1 DEF Walked, ErrTrue, LookupsAgree
<1>2. ASSUME NEW b \in Builds, Func(b) PROVE ErrTrue'
  <2>1. /\ UNCHANGED registry
        /\ \A c \in Builds \ {b} : pc'[c] = pc[c] /\ resolved'[c] = resolved[c]
    BY <1>2, FuncQuiet DEF fileVars
  <2>2. CASE LookupParent(b)
    <3>1. /\ err' = IF registry[Parent(b)] = "error" THEN "error" ELSE "nil"
          /\ Parent(b) \in Externals
      BY <2>2 DEF LookupParent
    <3>2. ASSUME NEW c \in Builds, pc'[c] = "check"
          PROVE  resolved'[c] = registry[Parent(c)'] /\ Parent(c)' \in Externals
      BY <2>1, <3>2 DEF Walking
    <3> QED  BY <2>1, <3>1, <3>2 DEF ErrTrue, LookupsAgree
  <2>3. CASE UNCHANGED err /\ pc'[b] # "check"
    BY <2>1, <2>3 DEF Walked, ErrTrue, LookupsAgree
  <2>4. GoesOn(b) \/ GivesUp(b) => UNCHANGED err /\ pc'[b] # "check"
    BY <1>0 DEF GoesOn, GivesUp, HaveParent, NotYet
  <2>5. (LookupImg(b) /\ Answer(b) # "error") \/ Verify(b)
          \/ (SignDigest(b) /\ pc'[b] = "keep") \/ KeepSignature(b)
        => UNCHANGED err /\ pc'[b] # "check"
    BY <1>0 DEF LookupImg, Verify, SignDigest, KeepSignature, Publish, Panic, funcVars
  <2>6. CASE Stops
    BY <1>1, <2>6 DEF Stops, fileVars, funcVars
  <2> QED  BY <1>2, <2>2, <2>3, <2>4, <2>5, <2>6, FuncKinds
<1>3. CASE Register
  BY <1>0, <1>1, <1>3 DEF Register, fileVars
<1>4. CASE Send \/ CloseOuts \/ Main \/ Finished \/ UNCHANGED vars
  BY <1>1, <1>4
  DEF Send, CloseOuts, Main, Receive, PrintOut, Exit, Finished, vars, fileVars, funcVars
<1> QED  BY <1>2, <1>3, <1>4 DEF Next, Producer

\* What a function knows of its parents, and of err, stays true (main.go:454-487).
LEMMA WalkedStep ==
    ASSUME Typed, Settled, Walked, [Next]_vars, ~Rerun
    PROVE  Walked'
BY WalkingStep, ErrStep DEF Walked

\* What the cache holds is what the registry has, and the verdict on an image
\* that does not verify is gone before the run can end (main.go:650).
LEMMA CacheStep ==
    ASSUME Typed, Queued, Known, Settled, PrintedSoFar, Walked, CacheTrue, [Next]_vars, ~Rerun
    PROVE  CacheTrue'
<1>1. /\ pc \in [Builds -> {"idle", "parents", "check", "verify", "sign", "keep", "returned"}]
      /\ outChan \in [Builds -> {"open", "full", "closed"}]
      /\ result \in [Builds -> {"none", "nil", "resolved"}]
      /\ saveCache \in [Builds -> {"none", "found", "invalid"}]
      /\ resolved \in [Builds -> {"none", "missing", "found", "invalid", "error"}]
  BY DEF Typed, TypeOK
<1>2. ASSUME UNCHANGED <<disk, registry, saveCache, resolved, outChan, result, pc>>
      PROVE  CacheTrue'
  BY <1>2 DEF CacheTrue
<1>3. ASSUME NEW b \in Builds, Func(b) PROVE CacheTrue'
  <2>1. /\ UNCHANGED <<registry, disk>>
        /\ pc[b] \notin {"idle", "returned"} /\ outChan[b] = "open"
        /\ \A c \in Builds \ {b} : /\ pc'[c] = pc[c] /\ outChan'[c] = outChan[c]
                                   /\ saveCache'[c] = saveCache[c]
                                   /\ resolved'[c] = resolved[c] /\ result'[c] = result[c]
    BY <1>3, FuncQuiet DEF fileVars, Settled
  <2>2. SUFFICES
          /\ "found" \in {disk[b], saveCache'[b]} => registry[b] = "found"
          /\ saveCache'[b] = "invalid" => pc'[b] = "verify" /\ resolved'[b] = "invalid"
          /\ pc'[b] \in {"verify", "sign", "keep"}
             => (resolved'[b] = "found" <=> registry[b] = "found")
          /\ outChan'[b] = "full" => (result'[b] = "resolved" <=> registry[b] = "found")
    BY <2>1 DEF CacheTrue
  <2>3. /\ disk[b] \in {"none", "found"}
        /\ "found" \in {disk[b], saveCache[b]} => registry[b] = "found"
        /\ saveCache[b] = "invalid" => pc[b] = "verify" /\ resolved[b] = "invalid"
        /\ pc[b] \in {"verify", "sign", "keep"}
           => (resolved[b] = "found" <=> registry[b] = "found")
    BY DEF CacheTrue
  <2>4. CASE GoesOn(b) \/ GivesUp(b) \/ LookupParent(b)
    <3>1. /\ saveCache' = saveCache /\ pc[b] # "verify"
          /\ pc'[b] \notin {"verify", "sign", "keep"} /\ outChan'[b] # "full"
      BY <1>1, <2>1, <2>4
      DEF GoesOn, GivesUp, LookupParent, HaveParent, NotYet, ClosedFor, AtParent
    <3> QED  BY <2>3, <3>1
  <2>5. CASE LookupImg(b) /\ Answer(b) # "error"
    <3>1. /\ resolved'[b] = Answer(b) /\ pc'[b] = "verify" /\ outChan' = outChan
          /\ saveCache'[b] = IF Answer(b) = "missing" THEN saveCache[b] ELSE Answer(b)
          /\ pc[b] = "parents"
      BY <1>1, <2>5 DEF LookupImg
    <3>2. Answer(b) = "found" <=> registry[b] = "found"
      BY <2>3 DEF Answer
    <3>3. saveCache[b] \in {"none", "found"}
      BY <1>1, <2>3, <3>1
    <3> HIDE DEF Answer
    <3> QED  BY <2>1, <2>3, <3>1, <3>2, <3>3
  <2>6. CASE Verify(b)
    <3>1. /\ pc[b] = "verify" /\ resolved' = resolved
          /\ saveCache'[b] = IF resolved[b] = "invalid" THEN "none" ELSE saveCache[b]
      BY <1>1, <2>6 DEF Verify, WithoutInvalid
    <3>2. outChan'[b] = "full" => (result'[b] = "resolved" <=> resolved[b] = "found")
      BY <1>1, <2>1, <2>6 DEF Verify, Publish
    <3> QED  BY <2>3, <3>1, <3>2
  <2>7. CASE SignDigest(b) /\ pc'[b] = "keep"
    <3>1. UNCHANGED <<saveCache, resolved, outChan>> /\ pc[b] = "sign"
      BY <2>7 DEF SignDigest, Panic, funcVars
    <3> QED  BY <2>1, <2>3, <3>1
  <2>8. CASE KeepSignature(b)
    <3>1. /\ UNCHANGED <<saveCache, resolved>> /\ pc[b] = "keep" /\ pc'[b] = "returned"
          /\ result'[b] = "resolved" <=> resolved[b] = "found"
      BY <1>1, <2>8 DEF KeepSignature, Publish
    <3> QED  BY <2>3, <3>1
  <2>9. CASE Stops
    BY <2>1, <2>3, <2>9 DEF Stops, fileVars, funcVars
  <2> QED  BY <1>3, <2>4, <2>5, <2>6, <2>7, <2>8, <2>9, FuncKinds
<1>4. CASE Register
  <2>1. /\ pc' = [pc EXCEPT ![next] = "parents"]
        /\ UNCHANGED <<disk, registry, saveCache, resolved, outChan, result>>
    BY <1>4 DEF Register, fileVars
  <2>2. next \in Builds /\ pc[next] = "idle"
    BY <1>4, NextIsIdle DEF Register
  <2> QED  BY <1>1, <2>1, <2>2 DEF CacheTrue
<1>5. CASE Exit
  <2>1. \A b \in Builds : pc[b] = "returned"
    BY <1>5, AllReturned DEF Exit
  <2>2. /\ disk' = saveCache
        /\ UNCHANGED <<registry, saveCache, resolved, outChan, result, pc>>
    BY <1>5 DEF Exit, funcVars
  <2>3. \A b \in Builds : saveCache[b] \in {"none", "found"}
    BY <1>1, <2>1 DEF CacheTrue
  <2> QED  BY <2>2, <2>3 DEF CacheTrue
<1>6. CASE Send \/ CloseOuts \/ Receive \/ PrintOut \/ Finished \/ UNCHANGED vars
  BY <1>2, <1>6 DEF Send, CloseOuts, Receive, PrintOut, Finished, vars, fileVars, funcVars
<1> QED  BY <1>3, <1>4, <1>5, <1>6 DEF Next, Producer, Main

\* One signature is kept for each payload, and no other is used; it is the one
\* of the cache file if that one is accepted (main.go:252-300).
LEMMA SignedStep ==
    ASSUME Typed, Queued, Known, Settled, PrintedSoFar, Walked, Signed, [Next]_vars, ~Rerun
    PROVE  Signed'
<1>1. /\ pc \in [Builds -> {"idle", "parents", "check", "verify", "sign", "keep", "returned"}]
      /\ cacheSignatures \in [Payloads -> Signatures \cup {NoSignature}]
      /\ saveSignatures \in [Payloads -> Signatures \cup {NoSignature}]
      /\ prodSignature \in [Builds -> Signatures \cup {NoSignature}]
      /\ env.signs \in KeyPairs /\ run \in 1..MaxRuns
  BY SigTypes DEF Typed, TypeOK
<1>2. ASSUME UNCHANGED <<env, cacheSignatures, saveSignatures, prodSignature>>,
             \A b \in Builds : \/ pc'[b] = pc[b]
                               \/ pc[b] \notin {"keep", "returned"}
                                  /\ pc'[b] # "keep"
      PROVE  Signed'
  <2>1. \A d \in Payloads : saveSignatures[d] # NoSignature => Agrees(d, saveSignatures[d])
    BY DEF Signed
  <2>2. \A b \in Builds : pc'[b] = "keep" => /\ prodSignature[b] # NoSignature
                                            /\ Agrees(Payload[b], prodSignature[b])
    BY <1>2 DEF Signed
  <2>3. \A b \in Builds :
           /\ prodSignature[b] # NoSignature
              => Payload[b] \in Payloads /\ pc'[b] \in {"keep", "returned"}
           /\ pc'[b] = "returned" /\ prodSignature[b] # NoSignature
              => prodSignature[b] = saveSignatures[Payload[b]]
    BY <1>2 DEF Signed
  <2> QED
    BY <1>2, <2>1, <2>2, <2>3 DEF Signed, Agrees, Accepted, Cached
<1>3. ASSUME NEW b \in Builds, Func(b) PROVE Signed'
  <2>1. /\ UNCHANGED <<env, cacheSignatures>>
        /\ pc[b] \notin {"idle", "returned"}
        /\ \A c \in Builds \ {b} : pc'[c] = pc[c] /\ prodSignature'[c] = prodSignature[c]
    BY <1>3, FuncQuiet DEF fileVars
  <2>2. CASE \/ GoesOn(b) \/ GivesUp(b) \/ LookupParent(b) \/ (LookupImg(b) /\ Answer(b) # "error")
             \/ Verify(b)
    <3>1. /\ UNCHANGED <<saveSignatures, prodSignature>>
          /\ pc[b] \in {"parents", "check", "verify"} /\ pc'[b] # "keep"
      BY <1>1, <2>2
      DEF GoesOn, GivesUp, LookupParent, LookupImg, Verify, HaveParent, NotYet, AtParent,
          Publish, signVars
    <3> QED  BY <1>2, <2>1, <3>1
  <2>3. CASE SignDigest(b) /\ pc'[b] = "keep"
    <3> DEFINE d == Payload[b]
               s == IF Cached(d) THEN cacheSignatures[d] ELSE <<env.signs, run, b>>
    <3>1. /\ pc[b] = "sign" /\ prodSignature' = [prodSignature EXCEPT ![b] = s]
          /\ pc' = [pc EXCEPT ![b] = "keep"] /\ saveSignatures' = saveSignatures
          /\ ~Cached(d) => env.public \in {NoKey, env.signs}
      BY <2>3 DEF SignDigest, Panic, funcVars, Running
    <3>2. d \in Payloads
      BY <3>1 DEF Typed, SignsSigned
    <3>3. s # NoSignature /\ Agrees(d, s)
      <4>1. CASE Cached(d)
        BY <4>1 DEF Agrees, Cached
      <4>2. CASE ~Cached(d)
        <5>1. s = <<env.signs, run, b>> /\ s \in Signatures
          BY <1>1, <4>2 DEF Signatures
        <5>2. Accepted(s)
          BY <3>1, <4>2, <5>1 DEF Accepted
        <5> QED  BY <4>2, <5>1, <5>2, SignatureIsNot DEF Agrees
      <4> QED  BY <4>1, <4>2
    <3> HIDE DEF s
    <3>4. prodSignature'[b] = s /\ pc'[b] = "keep"
      BY <1>1, <3>1
    <3>5. \A c \in Builds : pc'[c] = "keep" => /\ prodSignature'[c] # NoSignature
                                              /\ Agrees(Payload[c], prodSignature'[c])
      BY <2>1, <3>3, <3>4 DEF Signed
    <3>6. \A c \in Builds :
             /\ prodSignature'[c] # NoSignature
                => Payload[c] \in Payloads /\ pc'[c] \in {"keep", "returned"}
             /\ pc'[c] = "returned" /\ prodSignature'[c] # NoSignature
                => prodSignature'[c] = saveSignatures[Payload[c]]
      BY <2>1, <3>2, <3>4 DEF Signed
    <3>7. \A e \in Payloads : saveSignatures[e] # NoSignature => Agrees(e, saveSignatures[e])
      BY DEF Signed
    <3> QED
      BY <2>1, <3>1, <3>5, <3>6, <3>7 DEF Signed, Agrees, Accepted, Cached
  <2>4. CASE KeepSignature(b)
    <3> DEFINE d == Payload[b]
    <3>1. /\ pc[b] = "keep" /\ prodSignature' = [prodSignature EXCEPT ![b] = First(b)]
          /\ saveSignatures' = [saveSignatures EXCEPT ![d] = First(b)]
          /\ pc' = [pc EXCEPT ![b] = "returned"]
      BY <2>4 DEF KeepSignature, Publish
    <3>2. d \in Payloads
      BY <3>1 DEF Typed, SignsSigned
    <3>3. /\ First(b) # NoSignature /\ Agrees(d, First(b))
          /\ saveSignatures[d] # NoSignature => First(b) = saveSignatures[d]
      BY <3>1, <3>2 DEF First, Signed
    <3> HIDE DEF First
    <3>4. /\ prodSignature'[b] = First(b) /\ pc'[b] = "returned"
          /\ saveSignatures'[d] = First(b)
          /\ \A e \in Payloads \ {d} : saveSignatures'[e] = saveSignatures[e]
      BY <1>1, <3>1, <3>2
    <3>5. \A e \in Payloads : saveSignatures[e] # NoSignature => saveSignatures'[e] = saveSignatures[e]
      BY <3>3, <3>4
    <3>6. \A e \in Payloads : saveSignatures'[e] # NoSignature => Agrees(e, saveSignatures'[e])
      BY <3>3, <3>4 DEF Signed
    <3>7. \A c \in Builds : pc'[c] = "keep" => /\ prodSignature'[c] # NoSignature
                                              /\ Agrees(Payload[c], prodSignature'[c])
      BY <2>1, <3>4 DEF Signed
    <3>8. ASSUME NEW c \in Builds, pc'[c] = "returned", prodSignature'[c] # NoSignature
          PROVE  prodSignature'[c] = saveSignatures'[Payload[c]] /\ Payload[c] \in Payloads
      <4>1. CASE c = b
        BY <3>2, <3>4, <4>1
      <4>2. CASE c # b
        <5>1. /\ prodSignature'[c] = prodSignature[c] /\ pc[c] = "returned"
              /\ prodSignature[c] = saveSignatures[Payload[c]] /\ Payload[c] \in Payloads
          BY <2>1, <3>8, <4>2 DEF Signed
        <5> QED  BY <3>5, <3>8, <5>1
      <4> QED  BY <4>1, <4>2
    <3>9. \A c \in Builds : prodSignature'[c] # NoSignature
             => Payload[c] \in Payloads /\ pc'[c] \in {"keep", "returned"}
      BY <2>1, <3>2, <3>4 DEF Signed
    <3> QED
      BY <2>1, <3>6, <3>7, <3>8, <3>9 DEF Signed, Agrees, Accepted, Cached
  <2>5. CASE Stops
    BY <1>2, <2>5 DEF Stops, fileVars, funcVars, signVars
  <2> QED  BY <1>3, <2>2, <2>3, <2>4, <2>5, FuncKinds
<1>4. CASE Register
  <2>1. \A b \in Builds : pc'[b] = pc[b] \/ b = next
    BY <1>1, <1>4 DEF Register
  <2>2. pc' = [pc EXCEPT ![next] = "parents"] /\ next \in Builds /\ pc[next] = "idle"
    BY <1>4, NextIsIdle DEF Register
  <2>3. UNCHANGED <<env, cacheSignatures, saveSignatures, prodSignature>>
    BY <1>4 DEF Register, fileVars, signVars
  <2> QED  BY <1>1, <1>2, <2>1, <2>2, <2>3
<1>5. CASE Exit
  <2>1. \A b \in Builds : pc[b] = "returned"
    BY <1>5, AllReturned DEF Exit
  <2>2. /\ cacheSignatures' = saveSignatures
        /\ UNCHANGED <<env, saveSignatures, prodSignature, pc>>
    BY <1>5 DEF Exit, funcVars, signVars
  <2>3. ASSUME NEW d \in Payloads, saveSignatures[d] # NoSignature
        PROVE  Agrees(d, saveSignatures[d])'
    <3>1. Accepted(saveSignatures[d])
      BY <2>3 DEF Signed, Agrees
    <3> QED  BY <2>2, <3>1 DEF Agrees, Accepted
  <2> QED  BY <2>1, <2>2, <2>3 DEF Signed
<1>6. CASE Send \/ CloseOuts \/ Receive \/ PrintOut \/ Finished \/ UNCHANGED vars
  <2>1. UNCHANGED <<env, cacheSignatures, saveSignatures, prodSignature, pc>>
    BY <1>6 DEF Send, CloseOuts, Receive, PrintOut, Finished, vars, fileVars, funcVars, signVars
  <2> QED  BY <1>2, <2>1
<1> QED  BY <1>3, <1>4, <1>5, <1>6 DEF Next, Producer, Main

-----------------------------------------------------------------------------

\* All of this holds as a run starts.
LEMMA StartHolds ==
    Started /\ parents \in Families
    => Queued /\ Known /\ Settled /\ PrintedSoFar /\ EndsDone /\ Walked /\ Signed
<1> SUFFICES ASSUME Started, parents \in Families
             PROVE  Queued /\ Known /\ Settled /\ PrintedSoFar /\ EndsDone /\ Walked
                    /\ Signed
  OBVIOUS
<1> USE DEF Started
<1>1. Len(outs) = 0 /\ End = 1 /\ Cursor = 1
  BY DEF End, Cursor, Nobody
<1>2. Queued /\ EndsDone
  BY <1>1 DEF Queued, EndsDone
<1>3. \A b \in Builds : ~(b < 1)
  BY BuildNumbers
<1>4. Known
  BY <1>3 DEF Known, ParentsKnown
<1>5. Settled
  BY <1>1, <1>3 DEF Settled
<1>6. PrintedSoFar
  BY <1>1, <1>3 DEF PrintedSoFar
<1>7. Signed
  BY DEF Signed
<1>8. Walked
  <2> SUFFICES ASSUME NEW b \in Builds, NEW i \in DOMAIN parents[b], i < 1
               PROVE  There(parents[b][i])
    BY DEF Walked, Walking, ErrTrue
  <2>1. i \in Nat /\ i >= 1
    BY ParentIsImage
  <2> QED  BY <2>1
<1> QED  BY <1>2, <1>4, <1>5, <1>6, <1>7, <1>8

\* The invariant of a run, and of the cache file between runs.
LEMMA Inductive == Spec => []IInv
<1>1. Init => Queued /\ Known /\ Settled /\ PrintedSoFar /\ EndsDone /\ Walked
              /\ CacheTrue /\ Signed
  <2> SUFFICES ASSUME Init PROVE Queued /\ Known /\ Settled /\ PrintedSoFar /\ EndsDone
                                 /\ Walked /\ CacheTrue /\ Signed
    OBVIOUS
  <2>1. Started /\ disk = [b \in Builds |-> "none"] /\ parents \in Families
    BY FreshStart DEF Init
  <2>2. CacheTrue
    BY <2>1 DEF Started, CacheTrue
  <2> QED  BY <2>1, <2>2, StartHolds
<1>2. ASSUME IInv, [Next]_vars, Typed'
      PROVE  Queued' /\ Known' /\ Settled' /\ PrintedSoFar' /\ EndsDone' /\ Walked'
             /\ CacheTrue' /\ Signed'
  <2>1. CASE ~Rerun
    BY <1>2, <2>1, QueuedStep, KnownStep, SettledStep, PrintedStep, EndsStep, WalkedStep,
       CacheStep, SignedStep DEF IInv
  <2>2. CASE Rerun
    <3>1. Started'
      BY <2>2, FreshStart
    <3>2. (parents \in Families)'
      BY <1>2 DEF Typed, TypeOK
    <3>3. Queued' /\ Known' /\ Settled' /\ PrintedSoFar' /\ EndsDone' /\ Walked' /\ Signed'
      BY <3>1, <3>2, StartHolds, PTL
    <3>4. CacheTrue'
      <4>1. /\ disk' = disk
            /\ \A b \in Builds : registry[b] = "found" => registry'[b] = "found"
        BY <2>2 DEF Rerun, Images
      <4>2. \A b \in Builds : saveCache'[b] = "none" /\ pc'[b] = "idle" /\ outChan'[b] = "open"
        BY <3>1 DEF Started
      <4> QED  BY <1>2, <4>1, <4>2 DEF IInv, CacheTrue
    <3> QED  BY <3>3, <3>4
  <2> QED  BY <2>1, <2>2
<1> QED  BY <1>1, <1>2, TypedInvariant, PTL DEF Spec, IInv

\* builds.json lists the builds in the order of sources.json, each once and
\* nothing before what comes first, for any number of builds and any capacity
\* of outs (main.go:414).
THEOREM OutputInOrder == Spec => []PrintedInOrder
<1>1. IInv => PrintedInOrder
  <2> SUFFICES ASSUME IInv PROVE PrintedInOrder
    OBVIOUS
  <2>1. PrintedSoFar /\ Builds \subseteq Nat
    BY BuildNumbers DEF IInv
  <2>2. /\ DOMAIN printed = 1..Len(printed) /\ Len(printed) \in Nat
        /\ \A i \in DOMAIN printed : printed[i] \in Builds
    BY QueueNumbers DEF IInv, Typed
  <2>3. Cursor \in Nat
    <3>1. /\ next \in Nat /\ printing \in Nat /\ Len(outs) \in Nat
      BY QueueNumbers DEF IInv, Typed
    <3>2. End \in Nat
      BY <3>1 DEF End
    <3> QED  BY <3>1, <3>2 DEF IInv, Queued, Cursor
  <2>4. ASSUME NEW j \in DOMAIN printed, NEW b \in Builds, b < printed[j], outChan[b] = "full"
        PROVE  \E i \in 1..j : printed[i] = b
    <3>1. b \in Nat /\ printed[j] \in Nat /\ printed[j] < Cursor
      BY <2>1, <2>2 DEF PrintedSoFar
    <3>2. b < Cursor
      BY <2>3, <2>4, <3>1
    <3>3. PICK i \in DOMAIN printed : printed[i] = b
      BY <2>1, <2>4, <3>2 DEF PrintedSoFar
    <3>4. ~(j < i)
      <4> SUFFICES ASSUME j < i PROVE FALSE
        OBVIOUS
      <4>1. printed[j] < printed[i]
        BY <2>1 DEF PrintedSoFar
      <4> QED  BY <2>4, <3>1, <3>3, <4>1
    <3> QED  BY <2>2, <3>3, <3>4
  <2> QED  BY <2>1, <2>4 DEF PrintedInOrder, PrintedSoFar
<1> QED  BY <1>1, Inductive, PTL

\* With parents listed first no function asks for a parent that is not yet
\* registered, whatever the goroutines do (main.go:466).
THEOREM NoParentUnknown == Spec => []ParentsKnown
  BY Inductive, PTL DEF IInv, Known

\* A run that ends normally has left out exactly the builds of which a foreign
\* parent is missing, not one whose lookup failed, or a parent is left out or
\* has no image that verifies (main.go:477-485): for any families of parents,
\* as long as not some foreign lookups fail and others do not.
THEOREM LeftOutForAReason == Spec => []SkippedForAReason
<1>1. IInv => SkippedForAReason
  <2> SUFFICES ASSUME IInv, status = "exited", LookupsAgree
               PROVE  \A b \in Builds :
                          Listed(b) <=> \A i \in DOMAIN parents[b] :
                              LET p == parents[b][i]
                              IN  IF p \in Builds THEN Listed(p) /\ registry[p] = "found"
                                                  ELSE registry[p] # "missing"
    BY DEF SkippedForAReason
  <2>1. \A b \in Builds : outChan[b] \in {"full", "closed"} /\ (outChan[b] = "full" <=> Listed(b))
    BY AllReturned DEF IInv, EndsDone, Listed
  <2>2. ASSUME NEW b \in Builds, outChan[b] = "full", NEW i \in DOMAIN parents[b]
        PROVE  There(parents[b][i])
    <3>1. at[b] \notin DOMAIN parents[b] /\ at[b] >= 1 /\ at[b] \in Nat
      BY <2>2 DEF IInv, Walked, Walking, Typed, TypeOK
    <3>2. DOMAIN parents[b] = 1..Len(parents[b]) /\ Len(parents[b]) \in Nat
      BY ParentIsImage DEF IInv, Typed, TypeOK
    <3>3. i < at[b]
      BY <3>1, <3>2
    <3> QED  BY <2>2, <3>3 DEF IInv, Walked, Walking
  <2>3. ASSUME NEW b \in Builds, outChan[b] = "closed"
        PROVE  \E i \in DOMAIN parents[b] : NotThere(parents[b][i])
    BY <2>3 DEF IInv, Walked, Walking
  <2>4. \A p \in Builds : result[p] = "resolved" <=> Listed(p) /\ registry[p] = "found"
    BY <2>1 DEF IInv, Settled, CacheTrue
  <2>5. ASSUME NEW b \in Builds, Listed(b), NEW i \in DOMAIN parents[b]
        PROVE  IF parents[b][i] \in Builds
               THEN Listed(parents[b][i]) /\ registry[parents[b][i]] = "found"
               ELSE registry[parents[b][i]] # "missing"
    BY <2>1, <2>2, <2>4, <2>5 DEF There
  <2>6. ASSUME NEW b \in Builds, ~Listed(b)
        PROVE  \E i \in DOMAIN parents[b] :
                   ~ IF parents[b][i] \in Builds
                     THEN Listed(parents[b][i]) /\ registry[parents[b][i]] = "found"
                     ELSE registry[parents[b][i]] # "missing"
    <3>1. PICK i \in DOMAIN parents[b] : NotThere(parents[b][i])
      BY <2>1, <2>3, <2>6
    <3> QED  BY <2>4, <3>1 DEF NotThere
  <2> QED  BY <2>5, <2>6
<1> QED  BY <1>1, Inductive, PTL

\* What a run says of an image is what the registry has, whatever earlier runs
\* cached (main.go:650).
THEOREM VerdictIsFresh == Spec => []FreshVerdict
<1>1. IInv => FreshVerdict
  <2> SUFFICES ASSUME IInv, NEW j \in DOMAIN printed
               PROVE  (result[printed[j]] = "resolved") <=> (registry[printed[j]] = "found")
    BY DEF FreshVerdict
  <2>1. printed[j] \in Builds /\ outChan[printed[j]] = "full"
    BY QueueNumbers DEF IInv, PrintedSoFar, Typed
  <2> QED  BY <2>1 DEF IInv, CacheTrue
<1> QED  BY <1>1, Inductive, PTL

\* Whatever builds share a payload and whenever they sign it, and whatever keys
\* the runs are given, a run uses one signature for it, the cached one if that
\* is accepted (main.go:252-300).
THEOREM OneSignature == Spec => []SignaturesStable
<1>1. IInv => SignaturesStable
  <2> SUFFICES ASSUME IInv, NEW b \in Builds, pc[b] = "returned",
                      prodSignature[b] # NoSignature
               PROVE  /\ Agrees(Payload[b], prodSignature[b])
                      /\ \A c \in Builds : pc[c] = "returned" /\ prodSignature[c] # NoSignature
                                          /\ Payload[c] = Payload[b]
                                          => prodSignature[c] = prodSignature[b]
    BY DEF SignaturesStable, Agrees, Cached
  <2> QED  BY DEF IInv, Signed
<1> QED  BY <1>1, Inductive, PTL

\* Of builds that are not acyclic one could not say which is the lowest.
LEMMA Lowest ==
    ASSUME NEW S, S \subseteq Builds, S # {}, NEW height \in [Builds -> Builds]
    PROVE  \E b \in S : \A c \in S : height[b] <= height[c]
<1> DEFINE heights == {height[b] : b \in S}
<1>1. heights \subseteq Nat /\ heights # {}
  BY BuildNumbers
<1> HIDE DEF heights
<1>2. PICK n \in heights : \A m \in heights : <<m, n>> \notin OpToRel(<, Nat)
  BY <1>1, NatLessThanWellFounded, WFMin, Zenon
<1>3. \A m \in heights : ~(m < n)
  BY <1>1, <1>2, Zenon DEF OpToRel
<1>4. \A m \in heights : n <= m
  BY <1>1, <1>3
<1> QED  BY <1>4 DEF heights

\* Whoever waits waits for the function of an ancestor that has started, and the
\* lowest of those that have not returned can go on (main.go:416-474).
LEMMA SomebodyMoves ==
    ASSUME IInv, Acyclic, Running, ~ProducerCanMove, ~MainCanMove
    PROVE  \E b \in Builds : FuncCanMove(b)
<1> SUFFICES ASSUME \A b \in Builds : ~FuncCanMove(b) PROVE FALSE
  OBVIOUS
<1> USE DEF IInv
<1>1. /\ next \in Nat /\ Len(outs) \in Nat /\ printing \in Builds \cup {Nobody}
      /\ Concurrency \in Nat /\ Concurrency > 0
  BY QueueNumbers, BuildsAssumption DEF Typed
<1>2. producer = "closed" \/ (producer = "decode" /\ Len(outs) >= Concurrency)
  BY <1>1 DEF ProducerCanMove, Room, Typed, TypeOK
<1>3. printing \in Builds /\ outChan[printing] = "open"
  <2>1. printing # Nobody
    <3> SUFFICES ASSUME printing = Nobody PROVE FALSE
      OBVIOUS
    <3>1. outs = <<>> /\ producer # "closed"
      BY DEF MainCanMove
    <3> QED  BY <1>1, <1>2, <3>1
  <2> QED  BY <1>1, <2>1 DEF MainCanMove, Ready
<1> DEFINE Begun == {b \in Builds : b < next /\ pc[b] # "returned"}
<1>4. printing \in Begun
  <2>1. printing = End - Len(outs) - 1 /\ End = next
    BY <1>2, <1>3, BuildNumbers DEF Queued, End
  <2>2. printing < next
    BY <1>1, <2>1
  <2> QED  BY <1>3, <2>2 DEF Settled
<1>5. ASSUME NEW b \in Begun
      PROVE  at[b] \in DOMAIN parents[b] /\ Parent(b) \in Begun
  <2>1. pc[b] = "parents"
    BY DEF Known, FuncCanMove, Typed, TypeOK
  <2>2. at[b] \in DOMAIN parents[b] /\ Parent(b) \in registered /\ result[Parent(b)] = "none"
    BY <2>1 DEF FuncCanMove
  <2>3. Parent(b) \in Builds
    BY <2>2 DEF Typed, TypeOK
  <2> QED  BY <2>2, <2>3 DEF Known, Settled
<1>6. PICK height \in [Builds -> Builds] :
          \A b \in Builds : \A i \in DOMAIN parents[b] :
              parents[b][i] \in Builds => height[parents[b][i]] < height[b]
  BY DEF Acyclic
<1>7. PICK b \in Begun : \A c \in Begun : height[b] <= height[c]
  BY <1>4, Lowest
<1>8. height[Parent(b)] < height[b] /\ height[b] <= height[Parent(b)]
  BY <1>5, <1>6, <1>7 DEF Parent
<1>9. height[b] \in Nat /\ height[Parent(b)] \in Nat
  BY <1>5, BuildNumbers
<1> QED  BY <1>8, <1>9

\* As long as no build is its own ancestor somebody can always run, for any
\* number of builds and any capacity of outs (main.go:452, 703).
THEOREM NeverStalls == Spec => []NoStall
<1>1. IInv => NoStall
  BY SomebodyMoves DEF NoStall
<1> QED  BY <1>1, Inductive, PTL
=============================================================================
