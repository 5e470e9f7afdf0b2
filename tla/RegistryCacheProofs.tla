------------------------ MODULE RegistryCacheProofs ------------------------
(***************************************************************************)
(* Proofs about RegistryCache, for any number of goroutines, repositories, *)
(* tags, objects and calls.                                                *)
(*                                                                         *)
(* All of it rests on who holds which refMutex when.  TagsCoherent needs   *)
(* besides that the digest a call brings back from upstream still is the   *)
(* tag's when the call stores it; HasIsTrue, that what is stored is in the *)
(* repository of the call; DropIsBrief and DataKept, that Data is kept of  *)
(* small objects only.                                                     *)
(***************************************************************************)
EXTENDS RegistryCache, TLAPS

TagKey(c) == <<c.repo, c.tag>>

\* between the Lock of its ref and the deferred Unlock
InCall(p) == pc[p] \in {"lockTag", "check", "upstream", "store", "read", "keep", "unlock"}

CallsAreKnown ==
    \A p \in Procs :
        /\ pc[p] # "idle" => call[p] \in Calls
        /\ pc[p] = "lockTag" => TagsPush(call[p])
        /\ pc[p] \in {"read", "keep"} => got[p] \in Digests \ Large
        /\ pc[p] = "store" => got[p] \in Digests

HoldsRef == \A p \in Procs : InCall(p) => mutex[FirstKey(call[p])] = p

HoldsTag == \A p \in Procs :
                InCall(p) /\ pc[p] # "lockTag" /\ TagsPush(call[p])
                => mutex[TagKey(call[p])] = p

\* what a call is about to store for a tag is what the tag is upstream
BringsTag == \A p \in Procs :
                 /\ pc[p] = "store" /\ (ByTag(call[p]) \/ TagsPush(call[p]))
                 /\ TagKey(call[p]) \notin unsure
                 => got[p] = upTags[TagKey(call[p])]

Locking == TypeOK /\ CallsAreKnown /\ HoldsRef /\ HoldsTag
IInv == Locking /\ BringsTag /\ TagsCoherent

-----------------------------------------------------------------------------

\* The keys a call locks are keys.
LEMMA CallKeys ==
    \A c \in Calls : /\ FirstKey(c) \in Keys
                     /\ c.repo \in Repos
                     /\ ByTag(c) \/ TagsPush(c) => TagKey(c) \in TagKeys /\ c.tag \in Tags
                     /\ ByTag(c) => FirstKey(c) = TagKey(c)
                     /\ ~ByTag(c) => c.digest \in Digests
  BY CacheAssumption
  DEF AllCalls, FirstKey, TagKey, Keys, TagKeys, DigestKeys, ByTag, TagsPush

\* What a goroutine may call is a call.
LEMMA WorkloadKnown == TypeOK => workload \subseteq Calls
  BY DEF TypeOK, Calls

\* The map keys have a mutex each.
LEMMA TagKeysAreKeys == TagKeys \subseteq Keys
  BY DEF Keys

\* What upstream finds is the digest asked for, or that of the tag.
LEMMA FoundDigest ==
    ASSUME TypeOK, NEW c \in Calls, Found(c) # None
    PROVE  /\ Found(c) \in Digests
           /\ ByTag(c) => Found(c) = upTags[TagKey(c)]
           /\ TagsPush(c) => Found(c) = c.digest
<1>1. CASE ByTag(c)
  BY <1>1, CallKeys DEF Found, TypeOK, TagKey, ByTag, TagsPush
<1>2. CASE ~ByTag(c)
  <2>1. Found(c) = c.digest /\ c.digest \in Digests
    BY <1>2, CallKeys DEF Found
  <2> QED  BY <1>2, <2>1
<1> QED  BY <1>1, <1>2

\* What a push leaves upstream is of the right type.
LEMMA PushType ==
    ASSUME TypeOK, NEW c \in Calls, Push(c)
    PROVE  upHas' \subseteq DigestKeys /\ upTags' \in [TagKeys -> Digests \cup {None}]
<1>1. upHas' \subseteq DigestKeys
  <2>1. ~Looks(c) => <<c.repo, c.digest>> \in DigestKeys
    BY CallKeys DEF Looks, ByTag, DigestKeys
  <2> QED  BY <2>1 DEF Push, TypeOK
<1>2. upTags' \in [TagKeys -> Digests \cup {None}]
  <2>1. TagsPush(c) => c.digest \in Digests
    BY CallKeys DEF TagsPush, ByTag
  <2> QED  BY <2>1 DEF Push, TypeOK
<1> QED  BY <1>1, <1>2

\* The cache, the mutexes and the goroutines keep their types.
LEMMA TypeStep == TypeOK /\ CallsAreKnown /\ [Next]_vars => TypeOK'
<1> SUFFICES ASSUME TypeOK, CallsAreKnown, [Next]_vars PROVE TypeOK'
  OBVIOUS
<1> USE DEF TypeOK, Pcs, Goto, cacheVars, upVars, procVars
<1>1. ASSUME NEW p \in Procs, Begin(p) PROVE TypeOK'
  <2>1. call' \in [Procs -> Calls \cup {None}]
    BY <1>1, WorkloadKnown DEF Begin
  <2>2. budget' \in [Procs -> Nat] /\ pc' \in [Procs -> Pcs]
    BY <1>1 DEF Begin
  <2> QED  BY <1>1, <2>1, <2>2 DEF Begin
<1>2. ASSUME NEW p \in Procs, LockRef(p) PROVE TypeOK'
  BY <1>2, CallKeys DEF LockRef, Free, CallsAreKnown
<1>3. ASSUME NEW p \in Procs, LockTag(p) PROVE TypeOK'
  BY <1>3 DEF LockTag, Free
<1>4. ASSUME NEW p \in Procs, Check(p) PROVE TypeOK'
  BY <1>4 DEF Check
<1>5. ASSUME NEW p \in Procs, UpstreamOK(p) PROVE TypeOK'
  <2> DEFINE c == call[p]
  <2>1. c \in Calls /\ Found(c) # None /\ Push(c) /\ pc[p] = "upstream"
    BY <1>5 DEF UpstreamOK, CallsAreKnown
  <2>2. Found(c) \in Digests /\ FirstKey(c) \in Keys
    BY <2>1, FoundDigest, CallKeys
  <2>3. upHas' \subseteq DigestKeys /\ upTags' \in [TagKeys -> Digests \cup {None}]
    BY <2>1, PushType
  <2>4. fetched' \in [Keys -> 0..2]
    <3>1. fetched[FirstKey(c)] \in 0..2
      BY <2>2
    <3>2. fetched[FirstKey(c)] < 2 => fetched[FirstKey(c)] + 1 \in 0..2
      BY <3>1
    <3> QED  BY <1>5, <2>2, <3>2 DEF UpstreamOK
  <2>5. got' \in [Procs -> Digests \cup {None}] /\ unsure' \subseteq TagKeys
    BY <1>5, <2>2 DEF UpstreamOK
  <2>6. pc' \in [Procs -> Pcs]
    BY <1>5 DEF UpstreamOK
  <2> HIDE DEF c
  <2> QED  BY <1>5, <2>3, <2>4, <2>5, <2>6 DEF UpstreamOK
<1>6. ASSUME NEW p \in Procs, UpstreamError(p) PROVE TypeOK'
  <2>1. call[p] \in Calls /\ pc' \in [Procs -> Pcs]
    BY <1>6 DEF UpstreamError, CallsAreKnown
  <2>2. upHas' \subseteq DigestKeys /\ upTags' \in [TagKeys -> Digests \cup {None}]
    BY <1>6, <2>1, PushType DEF UpstreamError
  <2>3. unsure' \subseteq TagKeys
    BY <1>6, <2>1, CallKeys DEF UpstreamError, TagKey
  <2> QED  BY <1>6, <2>1, <2>2, <2>3 DEF UpstreamError
<1>7. ASSUME NEW p \in Procs, Store(p) PROVE TypeOK'
  <2>1. call[p] \in Calls /\ got[p] \in Digests /\ call[p].repo \in Repos
    BY <1>7, CallKeys DEF Store, NowHas, Descriptor, CallsAreKnown
  <2>2. has' \subseteq DigestKeys
    BY <1>7, <2>1 DEF Store, NowHas, Descriptor, DigestKeys
  <2>3. tags' \in [TagKeys -> Digests \cup {None}]
    BY <1>7, <2>1 DEF Store, NowHas, Descriptor
  <2>4. data' \in [Digests -> {"none", "bare", "full"}]
    BY <1>7, <2>1 DEF Store, NowHas, Descriptor
  <2> QED  BY <1>7, <2>2, <2>3, <2>4 DEF Store, NowHas, Descriptor
<1>8. ASSUME NEW p \in Procs, ReadBody(p) PROVE TypeOK'
  <2>1. fetched' \in [Keys -> 0..2] /\ pc' \in [Procs -> Pcs]
    BY <1>8 DEF ReadBody
  <2> QED  BY <1>8, <2>1 DEF ReadBody
<1>9. ASSUME NEW p \in Procs, Keep(p) PROVE TypeOK'
  BY <1>9 DEF Keep
<1>10. ASSUME NEW p \in Procs, Unlock(p) PROVE TypeOK'
  BY <1>10 DEF Unlock
<1>11. CASE UNCHANGED vars
  BY <1>11 DEF vars
<1> QED
  BY <1>1, <1>2, <1>3, <1>4, <1>5, <1>6, <1>7, <1>8, <1>9, <1>10, <1>11
  DEF Next, Step, Finished

\* Between Lock and Unlock a call holds the mutexes of what it names.
LEMMA LockingInductive == /\ Init => Locking
                          /\ Locking /\ [Next]_vars => Locking'
<1>1. Init => Locking
  <2> SUFFICES ASSUME Init PROVE Locking
    OBVIOUS
  <2>1. TypeOK
    BY CacheAssumption DEF Init, TypeOK, Pcs
  <2>2. CallsAreKnown /\ HoldsRef /\ HoldsTag
    BY DEF Init, CallsAreKnown, HoldsRef, HoldsTag, InCall
  <2> QED  BY <2>1, <2>2 DEF Locking
<1>2. Locking /\ [Next]_vars => Locking'
  <2> SUFFICES ASSUME Locking, [Next]_vars PROVE CallsAreKnown' /\ HoldsRef' /\ HoldsTag'
    BY TypeStep DEF Locking
  <2>0. TypeOK'
    BY TypeStep DEF Locking
  <2> USE <2>0 DEF Locking, TypeOK, Goto, InCall, cacheVars, upVars, procVars
  <2>1. ASSUME NEW p \in Procs, Begin(p) PROVE CallsAreKnown' /\ HoldsRef' /\ HoldsTag'
    BY <2>1, WorkloadKnown DEF Begin, CallsAreKnown, HoldsRef, HoldsTag
  <2>2. ASSUME NEW p \in Procs, LockRef(p) PROVE CallsAreKnown' /\ HoldsRef' /\ HoldsTag'
    <3>1. call[p] \in Calls /\ FirstKey(call[p]) \in Keys
      BY <2>2, CallKeys DEF LockRef, Free, CallsAreKnown
    <3>2. CallsAreKnown'
      BY <2>2 DEF LockRef, Free, CallsAreKnown
    <3>3. HoldsRef'
      BY <2>2, <3>1, CacheAssumption DEF LockRef, Free, HoldsRef
    <3>4. HoldsTag'
      BY <2>2, <3>1, CacheAssumption DEF LockRef, Free, HoldsTag
    <3> QED  BY <3>2, <3>3, <3>4
  <2>3. ASSUME NEW p \in Procs, LockTag(p) PROVE CallsAreKnown' /\ HoldsRef' /\ HoldsTag'
    <3>1. call[p] \in Calls /\ TagsPush(call[p]) /\ TagKey(call[p]) \in Keys
      BY <2>3, CallKeys, TagKeysAreKeys DEF LockTag, Free, CallsAreKnown
    <3>2. CallsAreKnown'
      BY <2>3 DEF LockTag, Free, CallsAreKnown
    <3>3. HoldsRef'
      BY <2>3, <3>1, CacheAssumption DEF LockTag, Free, HoldsRef, TagKey
    <3>4. HoldsTag'
      BY <2>3, <3>1, CacheAssumption DEF LockTag, Free, HoldsTag, TagKey
    <3> QED  BY <3>2, <3>3, <3>4
  <2>4. ASSUME NEW p \in Procs, Check(p) \/ UpstreamError(p) \/ ReadBody(p) \/ Keep(p)
        PROVE  CallsAreKnown' /\ HoldsRef' /\ HoldsTag'
    <3>1. UNCHANGED <<call, got, mutex>> /\ InCall(p) /\ pc[p] # "lockTag"
      BY <2>4 DEF Check, UpstreamError, ReadBody, Keep
    <3>2. \E place \in {"unlock", "upstream", "keep"} :
              /\ pc' = [pc EXCEPT ![p] = place]
              /\ place = "keep" => pc[p] = "read"
      BY <2>4 DEF Check, UpstreamError, ReadBody, Keep
    <3> QED  BY <3>1, <3>2 DEF CallsAreKnown, HoldsRef, HoldsTag
  <2>5. ASSUME NEW p \in Procs, UpstreamOK(p) PROVE CallsAreKnown' /\ HoldsRef' /\ HoldsTag'
    <3>1. call[p] \in Calls /\ Found(call[p]) \in Digests
      BY <2>5, FoundDigest DEF UpstreamOK, CallsAreKnown
    <3>2. CallsAreKnown'
      BY <2>5, <3>1 DEF UpstreamOK, CallsAreKnown
    <3>3. HoldsRef' /\ HoldsTag'
      BY <2>5 DEF UpstreamOK, HoldsRef, HoldsTag
    <3> QED  BY <3>2, <3>3
  <2>6. ASSUME NEW p \in Procs, Store(p) PROVE CallsAreKnown' /\ HoldsRef' /\ HoldsTag'
    BY <2>6 DEF Store, NowHas, Descriptor, CallsAreKnown, HoldsRef, HoldsTag
  <2>7. ASSUME NEW p \in Procs, Unlock(p) PROVE CallsAreKnown' /\ HoldsRef' /\ HoldsTag'
    <3>1. CallsAreKnown'
      BY <2>7 DEF Unlock, CallsAreKnown
    <3>2. \A q \in Procs \ {p} : InCall(q)' => InCall(q) /\ call[q] \in Calls
      BY <2>7 DEF Unlock, CallsAreKnown
    <3>3. HoldsRef'
      BY <2>7, <3>2, CallKeys DEF Unlock, HoldsRef
    <3>4. HoldsTag'
      BY <2>7, <3>2, CallKeys, TagKeysAreKeys DEF Unlock, HoldsTag
    <3> QED  BY <3>1, <3>3, <3>4
  <2>8. CASE UNCHANGED vars
    BY <2>8 DEF vars, CallsAreKnown, HoldsRef, HoldsTag
  <2> QED
    BY <2>1, <2>2, <2>3, <2>4, <2>5, <2>6, <2>7, <2>8 DEF Next, Step, Finished
<1> QED  BY <1>1, <1>2

\* The maps, the mutexes and the goroutines keep their types.
THEOREM TypeCorrect == Spec => []TypeOK
<1>1. Locking => TypeOK
  BY DEF Locking
<1> QED  BY <1>1, LockingInductive, PTL DEF Spec

\* No two goroutines ask upstream for one ref at a time: what the comment at
\* cache.go:36 has the mutexes for.
THEOREM NeverDoubleLookup == Spec => []NoDoubleLookup
<1>1. Locking => NoDoubleLookup
  BY DEF Locking, HoldsRef, InCall, NoDoubleLookup
<1> QED  BY <1>1, LockingInductive, PTL DEF Spec

-----------------------------------------------------------------------------

\* Only the call that holds a tag's mutex moves the tag upstream.
LEMMA TagMoves ==
    ASSUME Locking, NEW p \in Procs, UpstreamOK(p) \/ UpstreamError(p),
           NEW k \in TagKeys, upTags'[k] # upTags[k] \/ (k \in unsure /\ k \notin unsure')
    PROVE  TagsPush(call[p]) /\ k = TagKey(call[p]) /\ mutex[k] = p
<1>1. pc[p] = "upstream" /\ call[p] \in Calls
  BY DEF UpstreamOK, UpstreamError, Locking, CallsAreKnown
<1>2. TagsPush(call[p]) /\ k = TagKey(call[p])
  BY DEF UpstreamOK, UpstreamError, Push, Locking, TypeOK, TagKey
<1> QED  BY <1>1, <1>2 DEF Locking, HoldsTag, InCall

\* A call that reads or pushes a tag holds its mutex while it stores.
LEMMA StoresLocked ==
    ASSUME Locking, NEW p \in Procs, pc[p] = "store", ByTag(call[p]) \/ TagsPush(call[p])
    PROVE  TagKey(call[p]) \in TagKeys /\ mutex[TagKey(call[p])] = p
<1>1. call[p] \in Calls
  BY DEF Locking, CallsAreKnown
<1> QED  BY <1>1, CallKeys DEF Locking, HoldsRef, HoldsTag, InCall

\* What a call stores for a tag is what the tag is upstream, and what the
\* cache holds for a tag is too.
LEMMA CoherenceInductive == /\ Init => IInv
                            /\ IInv /\ [Next]_vars => IInv'
<1>1. Init => IInv
  <2> SUFFICES ASSUME Init PROVE BringsTag /\ TagsCoherent
    BY LockingInductive DEF IInv
  <2> QED  BY DEF Init, BringsTag, TagsCoherent
<1>2. IInv /\ [Next]_vars => IInv'
  <2> SUFFICES ASSUME IInv, [Next]_vars PROVE BringsTag' /\ TagsCoherent'
    BY LockingInductive DEF IInv
  <2>0. Locking /\ Locking' /\ TypeOK /\ BringsTag /\ TagsCoherent
    BY LockingInductive DEF IInv, Locking
  <2> USE DEF TypeOK, Goto, cacheVars, upVars, procVars
  <2>1. ASSUME NEW p \in Procs,
               Begin(p) \/ LockRef(p) \/ LockTag(p) \/ Check(p) \/ ReadBody(p)
               \/ Keep(p) \/ Unlock(p)
        PROVE  BringsTag' /\ TagsCoherent'
    <3>1. UNCHANGED <<upTags, tags, unsure, got>>
      BY <2>1 DEF Begin, LockRef, LockTag, Check, ReadBody, Keep, Unlock
    <3>2. \A q \in Procs : /\ (pc'[q] = "store") <=> (pc[q] = "store")
                           /\ pc[q] = "store" => call'[q] = call[q]
      BY <2>0, <2>1 DEF Begin, LockRef, LockTag, Check, ReadBody, Keep, Unlock
    <3>3. BringsTag'
      <4> SUFFICES ASSUME NEW q \in Procs, pc'[q] = "store",
                          (ByTag(call[q]) \/ TagsPush(call[q]))',
                          TagKey(call[q])' \notin unsure
                   PROVE  got[q] = upTags[TagKey(call[q])']
        BY <3>1 DEF BringsTag
      <4>1. pc[q] = "store" /\ call'[q] = call[q]
        BY <3>2
      <4> QED  BY <2>0, <4>1 DEF BringsTag, ByTag, TagsPush, TagKey
    <3>4. ASSUME NEW k \in TagKeys, PushInFlight(k) PROVE PushInFlight(k)'
      <4>1. PICK q \in Procs : /\ pc[q] = "store" /\ TagsPush(call[q])
                               /\ k = <<call[q].repo, call[q].tag>>
        BY <3>4 DEF PushInFlight
      <4>2. pc'[q] = "store" /\ call'[q] = call[q]
        BY <3>2, <4>1
      <4> QED  BY <4>1, <4>2 DEF PushInFlight, TagsPush
    <3>5. TagsCoherent'
      BY <2>0, <3>1, <3>4 DEF TagsCoherent
    <3> QED  BY <3>3, <3>5
  <2>2. ASSUME NEW p \in Procs, UpstreamOK(p) \/ UpstreamError(p)
        PROVE  BringsTag' /\ TagsCoherent'
    <3>1. /\ pc[p] = "upstream" /\ call[p] \in Calls /\ UNCHANGED <<call, tags>>
          /\ \A q \in Procs \ {p} : pc'[q] = pc[q] /\ got'[q] = got[q]
      BY <2>0, <2>2 DEF UpstreamOK, UpstreamError, Locking, CallsAreKnown
    <3>2. BringsTag'
      <4> SUFFICES ASSUME NEW q \in Procs, pc'[q] = "store",
                          ByTag(call[q]) \/ TagsPush(call[q]),
                          TagKey(call[q]) \notin unsure'
                   PROVE  got'[q] = upTags'[TagKey(call[q])]
        BY <3>1 DEF BringsTag
      <4>1. CASE q = p
        <5>1. UpstreamOK(p) /\ got'[p] = Found(call[p]) /\ Found(call[p]) # None
          BY <2>0, <2>2, <4>1 DEF UpstreamOK, UpstreamError
        <5>2. ByTag(call[p]) => /\ got'[p] = upTags[TagKey(call[p])]
                                /\ upTags' = upTags
          BY <2>0, <3>1, <5>1, FoundDigest DEF UpstreamOK, Push, ByTag, TagsPush
        <5>3. TagsPush(call[p]) => /\ got'[p] = call[p].digest
                                   /\ upTags'[TagKey(call[p])] = call[p].digest
          BY <2>0, <3>1, <5>1, FoundDigest, CallKeys DEF UpstreamOK, Push, TagKey
        <5> QED  BY <4>1, <5>2, <5>3
      <4>2. CASE q # p
        <5>1. pc[q] = "store" /\ got'[q] = got[q]
          BY <3>1, <4>2
        <5>2. TagKey(call[q]) \in TagKeys /\ mutex[TagKey(call[q])] = q
          BY <2>0, <5>1, StoresLocked
        <5>3. /\ upTags'[TagKey(call[q])] = upTags[TagKey(call[q])]
              /\ TagKey(call[q]) \notin unsure
          BY <2>0, <2>2, <4>2, <5>2, TagMoves
        <5> QED  BY <2>0, <5>1, <5>3 DEF BringsTag
      <4> QED  BY <4>1, <4>2
    <3>3. TagsCoherent'
      <4> SUFFICES ASSUME NEW k \in TagKeys, tags[k] # None, k \notin unsure',
                          ~PushInFlight(k)'
                   PROVE  tags[k] = upTags'[k]
        BY <3>1 DEF TagsCoherent
      <4>1. ~PushInFlight(k)
        BY <3>1 DEF PushInFlight
      <4>2. CASE upTags'[k] = upTags[k] /\ k \notin unsure
        BY <2>0, <4>1, <4>2 DEF TagsCoherent
      <4>3. CASE upTags'[k] # upTags[k] \/ k \in unsure
        <5>1. TagsPush(call[p]) /\ k = TagKey(call[p])
          BY <2>0, <2>2, <4>3, TagMoves
        <5>2. CASE UpstreamOK(p)
          BY <2>0, <3>1, <5>1, <5>2 DEF UpstreamOK, PushInFlight, TagKey
        <5>3. CASE UpstreamError(p)
          BY <4>3, <5>1, <5>3 DEF UpstreamError, TagKey
        <5> QED  BY <2>2, <5>2, <5>3
      <4> QED  BY <4>2, <4>3
    <3> QED  BY <3>2, <3>3
  <2>3. ASSUME NEW p \in Procs, Store(p) PROVE BringsTag' /\ TagsCoherent'
    <3>1. /\ pc[p] = "store" /\ UNCHANGED <<upTags, unsure, call, got>>
          /\ \A q \in Procs : pc'[q] = "store" => pc[q] = "store"
          /\ \A q \in Procs \ {p} : pc'[q] = pc[q]
      BY <2>0, <2>3 DEF Store, NowHas, Descriptor
    <3>2. BringsTag'
      BY <2>0, <3>1 DEF BringsTag
    <3>3. TagsCoherent'
      <4> SUFFICES ASSUME NEW k \in TagKeys, tags'[k] # None, k \notin unsure,
                          ~PushInFlight(k)'
                   PROVE  tags'[k] = upTags[k]
        BY <3>1 DEF TagsCoherent
      <4>1. CASE (ByTag(call[p]) \/ TagsPush(call[p])) /\ k = TagKey(call[p])
        <5>1. tags'[k] = got[p]
          BY <2>0, <2>3, <4>1 DEF Store, NowHas, Descriptor, TagKey
        <5> QED  BY <2>0, <3>1, <4>1, <5>1 DEF BringsTag
      <4>2. CASE ~((ByTag(call[p]) \/ TagsPush(call[p])) /\ k = TagKey(call[p]))
        <5>1. tags'[k] = tags[k]
          BY <2>0, <2>3, <4>2 DEF Store, NowHas, Descriptor, TagKey
        <5>2. ~PushInFlight(k)
          BY <3>1, <4>2 DEF PushInFlight, TagKey
        <5> QED  BY <2>0, <5>1, <5>2 DEF TagsCoherent
      <4> QED  BY <4>1, <4>2
    <3> QED  BY <3>2, <3>3
  <2>4. CASE UNCHANGED vars
    BY <2>0, <2>4 DEF vars, BringsTag, TagsCoherent, PushInFlight
  <2> QED
    BY <2>1, <2>2, <2>3, <2>4 DEF Next, Step, Finished
<1> QED  BY <1>1, <1>2

\* A tag in the cache is the tag upstream, but for pushes under way and pushes
\* that failed: what holding the tag's mutex across the upstream call is for.
THEOREM CacheIsCoherent == Spec => []TagsCoherent
<1>1. IInv => TagsCoherent
  BY DEF IInv
<1> QED  BY <1>1, CoherenceInductive, PTL DEF Spec

-----------------------------------------------------------------------------

\* What a tag names is there upstream, and so is what a call brings back.
ThereUpstream ==
    /\ \A k \in TagKeys : upTags[k] # None => <<k[1], upTags[k]>> \in upHas
    /\ \A p \in Procs : pc[p] = "store" => <<call[p].repo, got[p]>> \in upHas

Presence == Locking /\ ThereUpstream /\ HasIsTrue

\* Only what is small enough has its Data kept.
DataIsSmall == \A d \in Digests : data[d] = "full" => d \notin Large

Brief == Locking /\ DataIsSmall /\ DropIsBrief

\* A step of a goroutine that neither is upstream nor stores.
Local(p) ==
    \/ Begin(p) \/ LockRef(p) \/ LockTag(p) \/ Check(p) \/ ReadBody(p) \/ Keep(p) \/ Unlock(p)

\* A call that is answered by upstream is about an object that is there by then.
LEMMA FoundIsThere ==
    ASSUME TypeOK, ThereUpstream, NEW c \in Calls, Found(c) # None, Push(c)
    PROVE  <<c.repo, Found(c)>> \in upHas'
<1>1. CASE ByTag(c)
  <2>1. TagKey(c) \in TagKeys /\ TagKey(c)[1] = c.repo /\ Found(c) = upTags[TagKey(c)]
    BY <1>1, CallKeys, FoundDigest DEF TagKey
  <2>2. upHas \subseteq upHas'
    BY DEF Push
  <2> QED  BY <2>1, <2>2 DEF ThereUpstream
<1>2. CASE ~ByTag(c)
  <2>1. Found(c) = c.digest
    BY <1>2 DEF Found
  <2>2. CASE Looks(c)
    <3>1. c.kind \in {"get", "resolve"}
      BY <1>2, <2>2 DEF Looks, ByTag
    <3>2. <<c.repo, c.digest>> \in upHas
      BY <1>2, <3>1 DEF Found
    <3> QED  BY <2>1, <2>2, <3>2 DEF Push
  <2>3. CASE ~Looks(c)
    BY <2>1, <2>3 DEF Push
  <2> QED  BY <2>2, <2>3
<1> QED  BY <1>1, <1>2

\* A push leaves upstream what its tag names, also if its answer is lost.
LEMMA PushKeepsThere ==
    ASSUME TypeOK, ThereUpstream, NEW c \in Calls, Push(c)
    PROVE  /\ upHas \subseteq upHas'
           /\ \A k \in TagKeys : upTags'[k] # None => <<k[1], upTags'[k]>> \in upHas'
<1>1. upHas \subseteq upHas'
  BY DEF Push
<1>2. ASSUME NEW k \in TagKeys, upTags'[k] # None PROVE <<k[1], upTags'[k]>> \in upHas'
  <2>1. CASE upTags'[k] = upTags[k]
    BY <1>1, <1>2, <2>1 DEF ThereUpstream
  <2>2. CASE upTags'[k] # upTags[k]
    <3>1. TagsPush(c) /\ k = TagKey(c) /\ upTags'[k] = c.digest
      BY <2>2 DEF Push, TypeOK, TagKey
    <3>2. k[1] = c.repo
      BY <3>1 DEF TagKey
    <3>3. ~Looks(c)
      BY <3>1 DEF TagsPush, Looks
    <3> QED  BY <3>1, <3>2, <3>3 DEF Push
  <2> QED  BY <2>1, <2>2
<1> QED  BY <1>1, <1>2

\* The cache knows only of objects that it has seen upstream: has and tags follow
\* from the call that stores, data is never emptied.
LEMMA PresenceInductive == /\ Init => Presence
                           /\ Presence /\ [Next]_vars => Presence'
<1>1. Init => Presence
  <2> SUFFICES ASSUME Init PROVE ThereUpstream /\ HasIsTrue
    BY LockingInductive DEF Presence
  <2> QED  BY DEF Init, ThereUpstream, HasIsTrue
<1>2. Presence /\ [Next]_vars => Presence'
  <2> SUFFICES ASSUME Presence, [Next]_vars PROVE ThereUpstream' /\ HasIsTrue'
    BY LockingInductive DEF Presence
  <2>0. Locking /\ Locking' /\ TypeOK /\ TypeOK' /\ ThereUpstream /\ HasIsTrue
    BY LockingInductive DEF Presence, Locking
  <2>1. ASSUME NEW p \in Procs, Local(p) PROVE ThereUpstream' /\ HasIsTrue'
    <3>1. /\ UNCHANGED <<upTags, upHas, has, tags, got>>
          /\ \A d \in Digests : data'[d] \in {data[d], "full"}
      BY <2>0, <2>1
      DEF Local, Begin, LockRef, LockTag, Check, ReadBody, Keep, Unlock, upVars, cacheVars,
          procVars, TypeOK
    <3>2. \A q \in Procs : pc'[q] = "store" => pc[q] = "store" /\ call'[q] = call[q]
      BY <2>0, <2>1
      DEF Local, Begin, LockRef, LockTag, Check, ReadBody, Keep, Unlock, Goto, procVars, TypeOK
    <3>3. ThereUpstream'
      BY <2>0, <3>1, <3>2 DEF ThereUpstream
    <3>4. \A k \in TagKeys : tags[k] # None => tags[k] \in Digests
      BY <2>0 DEF TypeOK
    <3> QED  BY <2>0, <3>1, <3>3, <3>4 DEF HasIsTrue
  <2>2. ASSUME NEW p \in Procs, UpstreamOK(p) \/ UpstreamError(p)
        PROVE  ThereUpstream' /\ HasIsTrue'
    <3>1. /\ pc[p] = "upstream" /\ call[p] \in Calls /\ UNCHANGED <<call, tags, has, data>>
          /\ \A q \in Procs \ {p} : pc'[q] = pc[q] /\ got'[q] = got[q]
      BY <2>0, <2>2 DEF UpstreamOK, UpstreamError, Locking, CallsAreKnown, TypeOK, Goto,
                        cacheVars, procVars
    <3>2. /\ upHas \subseteq upHas'
          /\ \A k \in TagKeys : upTags'[k] # None => <<k[1], upTags'[k]>> \in upHas'
      <4>1. CASE Push(call[p])
        BY <2>0, <3>1, <4>1, PushKeepsThere
      <4>2. CASE UNCHANGED <<upHas, upTags>>
        BY <2>0, <4>2 DEF ThereUpstream
      <4> QED  BY <2>2, <4>1, <4>2 DEF UpstreamOK, UpstreamError
    <3>3. pc'[p] = "store" => <<call[p].repo, got'[p]>> \in upHas'
      <4>1. CASE UpstreamOK(p)
        <5>1. Found(call[p]) # None /\ Push(call[p]) /\ got'[p] = Found(call[p])
          BY <2>0, <4>1 DEF UpstreamOK, TypeOK
        <5> QED  BY <2>0, <3>1, <5>1, FoundIsThere
      <4>2. CASE UpstreamError(p)
        BY <2>0, <4>2 DEF UpstreamError, Goto, TypeOK
      <4> QED  BY <2>2, <4>1, <4>2
    <3>4. ThereUpstream'
      BY <2>0, <3>1, <3>2, <3>3 DEF ThereUpstream
    <3> QED  BY <2>0, <3>1, <3>2, <3>4 DEF HasIsTrue
  <2>3. ASSUME NEW p \in Procs, Store(p) PROVE ThereUpstream' /\ HasIsTrue'
    <3>1. /\ pc[p] = "store" /\ UNCHANGED <<upHas, upTags, call, got>>
          /\ \A q \in Procs : pc'[q] = "store" => pc[q] = "store"
      BY <2>0, <2>3 DEF Store, upVars, procVars, Goto, TypeOK
    <3>2. ThereUpstream'
      BY <2>0, <3>1 DEF ThereUpstream
    <3>3. got[p] \in Digests /\ call[p] \in Calls
      BY <2>0, <3>1 DEF Locking, CallsAreKnown
    <3>4. has' = has \cup {<<call[p].repo, got[p]>>}
      BY <2>3 DEF Store, NowHas
    <3>5. has' \subseteq upHas'
      BY <2>0, <3>1, <3>4 DEF HasIsTrue, ThereUpstream
    <3>6. \A d \in Digests : data'[d] # "none" \/ (data'[d] = data[d] /\ d # got[p])
      BY <2>0, <2>3, <3>3 DEF Store, Descriptor, TypeOK
    <3>7. ASSUME NEW k \in TagKeys, tags'[k] # None
          PROVE  <<k[1], tags'[k]>> \in has' /\ data'[tags'[k]] # "none"
      <4>1. CASE tags'[k] = tags[k]
        <5>1. tags[k] \in Digests
          BY <2>0, <3>7, <4>1 DEF TypeOK
        <5> QED  BY <2>0, <3>4, <3>6, <3>7, <4>1, <5>1 DEF HasIsTrue
      <4>2. CASE tags'[k] # tags[k]
        <5>1. k = TagKey(call[p]) /\ tags'[k] = got[p]
          BY <2>0, <2>3, <4>2 DEF Store, TypeOK, TagKey
        <5>2. k[1] = call[p].repo
          BY <5>1 DEF TagKey
        <5> QED  BY <3>3, <3>4, <3>6, <5>1, <5>2
      <4> QED  BY <4>1, <4>2
    <3> QED  BY <3>2, <3>5, <3>7 DEF HasIsTrue
  <2>4. CASE UNCHANGED vars
    BY <2>0, <2>4 DEF vars, ThereUpstream, HasIsTrue
  <2> QED
    BY <2>1, <2>2, <2>3, <2>4 DEF Next, Step, Finished, Local
<1> QED  BY <1>1, <1>2

\* A repository is never said to have what it does not have, although
\* descriptors are shared by all repositories (cache.go:43-45).
THEOREM PresenceIsTrue == Spec => []HasIsTrue
<1>1. Presence => HasIsTrue
  BY DEF Presence
<1> QED  BY <1>1, PresenceInductive, PTL DEF Spec

-----------------------------------------------------------------------------

\* Descriptors lose their Data, or have it put back, in two steps of one Get;
\* nothing else takes Data away, and only a Get puts an entry in doubt.
LEMMA BriefInductive == /\ Init => Brief
                        /\ Brief /\ [Next]_vars => Brief'
<1>1. Init => Brief
  <2> SUFFICES ASSUME Init PROVE DataIsSmall /\ DropIsBrief
    BY LockingInductive DEF Brief
  <2>1. \A k \in DigestKeys : fetched[k] = 0
    BY DEF Init, Keys
  <2> QED  BY <2>1 DEF Init, DataIsSmall, DropIsBrief
<1>2. Brief /\ [Next]_vars => Brief'
  <2> SUFFICES ASSUME Brief, [Next]_vars PROVE DataIsSmall' /\ DropIsBrief'
    BY LockingInductive DEF Brief
  <2>0. Locking /\ TypeOK /\ CallsAreKnown /\ DataIsSmall /\ DropIsBrief
    BY DEF Brief, Locking
  <2>1. \A k \in DigestKeys : k \in Keys /\ k[2] \in Digests
    BY DEF Keys, DigestKeys
  <2> DEFINE Gone(k) == fetched[k] > 0 /\ k[2] \notin Large /\ data[k[2]] # "full"
             Back(p, k) == /\ pc[p] \in {"store", "read", "keep"}
                           /\ Gets(call[p]) /\ got[p] = k[2]
  <2>2. \A k \in DigestKeys : Gone(k) => \E p \in Procs : Back(p, k)
    BY <2>0 DEF DropIsBrief
  <2>3. ASSUME \A k \in DigestKeys : Gone(k)' => \E p \in Procs : Back(p, k)'
        PROVE  DropIsBrief'
    BY <2>3 DEF DropIsBrief
  <2>4. ASSUME NEW p \in Procs,
               Begin(p) \/ LockRef(p) \/ LockTag(p) \/ Check(p) \/ Unlock(p) \/ UpstreamError(p)
        PROVE  DataIsSmall' /\ DropIsBrief'
    <3>1. UNCHANGED <<data, fetched, got>>
      BY <2>4 DEF Begin, LockRef, LockTag, Check, Unlock, UpstreamError, upVars, cacheVars, procVars
    <3>2. \A q \in Procs : pc[q] \in {"store", "read", "keep"} =>
                              pc'[q] = pc[q] /\ call'[q] = call[q]
      BY <2>0, <2>4 DEF Begin, LockRef, LockTag, Check, Unlock, UpstreamError, Goto, procVars, TypeOK
    <3>3. \A q \in Procs, k \in DigestKeys : Back(q, k) => Back(q, k)'
      BY <3>1, <3>2 DEF Gets
    <3>4. \A k \in DigestKeys : Gone(k)' => Gone(k)
      BY <3>1
    <3> HIDE DEF Gone, Back
    <3>5. \A k \in DigestKeys : Gone(k)' => \E q \in Procs : Back(q, k)'
      BY <2>2, <3>3, <3>4
    <3> QED  BY <2>0, <2>3, <3>1, <3>5 DEF DataIsSmall
  <2>5. ASSUME NEW p \in Procs, UpstreamOK(p) PROVE DataIsSmall' /\ DropIsBrief'
    <3>1. /\ UNCHANGED <<data, call>> /\ pc[p] = "upstream" /\ pc'[p] = "store"
          /\ \A q \in Procs \ {p} : pc'[q] = pc[q] /\ got'[q] = got[q]
          /\ got'[p] = Found(call[p]) /\ call[p] \in Calls
      BY <2>0, <2>5 DEF UpstreamOK, cacheVars, Goto, TypeOK, CallsAreKnown
    <3>2. \A q \in Procs, k \in DigestKeys : Back(q, k) => Back(q, k)'
      BY <3>1 DEF Gets
    <3>3. ASSUME NEW k \in DigestKeys, fetched'[k] # fetched[k] PROVE Back(p, k)'
      <4>1. Gets(call[p]) /\ k = FirstKey(call[p])
        BY <2>0, <2>1, <2>5, <3>3 DEF UpstreamOK, TypeOK
      <4>2. ~ByTag(call[p])
        <5>1. k[2] \in Digests
          BY <2>1
        <5>2. ByTag(call[p]) => k[2] = call[p].tag /\ call[p].tag \in Tags
          BY <3>1, <4>1, CallKeys DEF FirstKey
        <5> QED  BY <5>1, <5>2, CacheAssumption
      <4>3. k[2] = call[p].digest /\ Found(call[p]) \in {None, call[p].digest}
        BY <4>1, <4>2 DEF FirstKey, Found
      <4>4. got'[p] = k[2]
        BY <2>5, <3>1, <4>3 DEF UpstreamOK
      <4> QED  BY <3>1, <4>1, <4>4 DEF Gets
    <3>4. \A k \in DigestKeys : Gone(k)' => Gone(k) \/ fetched'[k] # fetched[k]
      BY <3>1
    <3> HIDE DEF Gone, Back
    <3>5. \A k \in DigestKeys : Gone(k)' => \E q \in Procs : Back(q, k)'
      BY <2>2, <3>2, <3>3, <3>4
    <3> QED  BY <2>0, <2>3, <3>1, <3>5 DEF DataIsSmall
  <2>6. ASSUME NEW p \in Procs, Store(p) PROVE DataIsSmall' /\ DropIsBrief'
    <3>1. /\ UNCHANGED <<fetched, call, got>> /\ pc[p] = "store"
          /\ pc'[p] = IF Gets(call[p]) /\ got[p] \notin Large THEN "read" ELSE "unlock"
          /\ \A q \in Procs \ {p} : pc'[q] = pc[q]
          /\ got[p] \in Digests
          /\ data' = [data EXCEPT ![got[p]] = Descriptor(p)]
      BY <2>0, <2>6 DEF Store, upVars, procVars, Goto, TypeOK, CallsAreKnown
    <3>2. \A d \in Digests \ {got[p]} : data'[d] = data[d]
      BY <2>0, <3>1 DEF TypeOK
    <3>3. data'[got[p]] = Descriptor(p)
      BY <2>0, <3>1 DEF TypeOK
    <3>4. Descriptor(p) = "full" => got[p] \notin Large
      BY <2>0, <3>1 DEF Descriptor, DataIsSmall
    <3>5. DataIsSmall'
      BY <2>0, <3>2, <3>3, <3>4 DEF DataIsSmall
    <3>6. \A k \in DigestKeys : k[2] \notin Large =>
              \A q \in Procs : Back(q, k) => Back(q, k)'
      BY <3>1 DEF Gets
    <3>7. ASSUME NEW k \in DigestKeys, Gone(k)', ~Gone(k) PROVE Back(p, k)'
      <4>1. data[k[2]] = "full" /\ data'[k[2]] # "full" /\ k[2] \notin Large
        BY <3>1, <3>7
      <4>2. k[2] = got[p] /\ Descriptor(p) # "full"
        BY <2>1, <3>2, <3>3, <4>1
      <4>3. Gets(call[p])
        BY <4>1, <4>2 DEF Descriptor
      <4> QED  BY <3>1, <4>1, <4>2, <4>3 DEF Gets
    <3>8. \A k \in DigestKeys : Gone(k)' => k[2] \notin Large
      OBVIOUS
    <3> HIDE DEF Gone, Back
    <3>9. \A k \in DigestKeys : Gone(k)' => \E q \in Procs : Back(q, k)'
      BY <2>2, <3>6, <3>7, <3>8
    <3> QED  BY <2>3, <3>5, <3>9
  <2>7. ASSUME NEW p \in Procs, ReadBody(p) PROVE DataIsSmall' /\ DropIsBrief'
    <3>1. /\ UNCHANGED <<data, call, got>> /\ pc[p] = "read" /\ pc'[p] \in {"keep", "unlock"}
          /\ \A q \in Procs \ {p} : pc'[q] = pc[q]
      BY <2>0, <2>7 DEF ReadBody, cacheVars, procVars, Goto, TypeOK
    <3>2. \A k \in DigestKeys : fetched'[k] \in {0, fetched[k]}
      BY <2>0, <2>1, <2>7 DEF ReadBody, TypeOK
    <3>3. \A k \in DigestKeys : pc'[p] = "unlock" /\ got[p] = k[2] => fetched'[k] = 0
      BY <2>0, <2>1, <2>7 DEF ReadBody, Goto, TypeOK
    <3>4. \A k \in DigestKeys : Gone(k)' => Gone(k)
      BY <3>1, <3>2
    <3>5. ASSUME NEW q \in Procs, NEW k \in DigestKeys, Back(q, k), Gone(k)'
          PROVE  Back(q, k)'
      <4>1. ~(pc'[p] = "unlock" /\ got[p] = k[2])
        BY <3>3, <3>5
      <4> QED  BY <3>1, <3>5, <4>1 DEF Gets
    <3> HIDE DEF Gone, Back
    <3>6. \A k \in DigestKeys : Gone(k)' => \E q \in Procs : Back(q, k)'
      BY <2>2, <3>4, <3>5
    <3> QED  BY <2>0, <2>3, <3>1, <3>6 DEF DataIsSmall
  <2>8. ASSUME NEW p \in Procs, Keep(p) PROVE DataIsSmall' /\ DropIsBrief'
    <3>1. /\ UNCHANGED <<fetched, call, got>> /\ pc[p] = "keep"
          /\ \A q \in Procs \ {p} : pc'[q] = pc[q]
          /\ got[p] \in Digests \ Large
          /\ data' = [data EXCEPT ![got[p]] = "full"]
      BY <2>0, <2>8 DEF Keep, upVars, procVars, Goto, TypeOK, CallsAreKnown
    <3>2. /\ data'[got[p]] = "full"
          /\ \A d \in Digests \ {got[p]} : data'[d] = data[d]
      BY <2>0, <3>1 DEF TypeOK
    <3>3. DataIsSmall'
      BY <2>0, <3>1, <3>2 DEF DataIsSmall
    <3>4. \A k \in DigestKeys : Gone(k)' => Gone(k) /\ k[2] # got[p]
      BY <2>1, <3>1, <3>2
    <3>5. \A q \in Procs, k \in DigestKeys : Back(q, k) /\ k[2] # got[p] => Back(q, k)'
      BY <3>1 DEF Gets
    <3> HIDE DEF Gone, Back
    <3>6. \A k \in DigestKeys : Gone(k)' => \E q \in Procs : Back(q, k)'
      BY <2>2, <3>4, <3>5
    <3> QED  BY <2>3, <3>3, <3>6
  <2>9. CASE UNCHANGED vars
    BY <2>0, <2>9 DEF vars, DataIsSmall, DropIsBrief, Gets
  <2> QED
    BY <2>4, <2>5, <2>6, <2>7, <2>8, <2>9 DEF Next, Step, Finished
<1> QED  BY <1>1, <1>2

\* An object that was got once has its Data, unless a Get of it is between
\* dropping it and putting it back (cache.go:85-106, 144-171).
THEOREM DropsAreBrief == Spec => []DropIsBrief
<1>1. Brief => DropIsBrief
  BY DEF Brief
<1> QED  BY <1>1, BriefInductive, PTL DEF Spec

\* Only a Get of an object drops its Data: the methods that "carefully copy"
\* (cache.go:204, 326, 356) do keep it, and what pushManifest stores without is
\* too large to ever have had it.
THEOREM DataIsKept == Spec => DataKept
<1>1. Brief /\ [Next]_vars =>
        [\A d \in Digests : data[d] = "full" /\ data'[d] # "full" =>
            \E p \in Procs : pc[p] = "store" /\ Gets(call[p]) /\ got[p] = d]_vars
  <2> SUFFICES ASSUME Brief, Next, NEW d \in Digests, data[d] = "full", data'[d] # "full"
               PROVE  \E p \in Procs : pc[p] = "store" /\ Gets(call[p]) /\ got[p] = d
    OBVIOUS
  <2>0. TypeOK /\ DataIsSmall
    BY DEF Brief, Locking
  <2>1. ASSUME NEW p \in Procs, Step(p) \/ Begin(p), ~Store(p) PROVE FALSE
    <3>1. data' \in {data, [data EXCEPT ![got[p]] = "full"]}
      BY <2>1 DEF Step, Begin, LockRef, LockTag, Check, UpstreamOK, UpstreamError, ReadBody,
                  Keep, Unlock, cacheVars
    <3> QED  BY <2>0, <3>1 DEF TypeOK
  <2>2. PICK p \in Procs : Store(p)
    BY <2>1 DEF Next, Finished, vars
  <2>3. pc[p] = "store" /\ got[p] = d /\ Descriptor(p) # "full"
    BY <2>0, <2>2 DEF Store, TypeOK
  <2>4. Gets(call[p])
    BY <2>0, <2>3 DEF Descriptor, DataIsSmall
  <2> QED  BY <2>3, <2>4
<1> QED  BY <1>1, BriefInductive, PTL DEF Spec, DataKept

-----------------------------------------------------------------------------

\* Who holds a mutex is in a call that has locked it.
InUse ==
    \A k \in Keys : mutex[k] # None =>
        LET p == mutex[k]
        IN  /\ p \in Procs /\ InCall(p)
            /\ k = FirstKey(call[p]) \/ (TagsPush(call[p]) /\ pc[p] # "lockTag" /\ k = TagKey(call[p]))

\* Every mutex is unlocked when the call returns (cache.go:278, 287).
LEMMA InUseInductive == /\ Init => InUse
                        /\ Locking /\ InUse /\ [Next]_vars => InUse'
<1>1. Init => InUse
  BY DEF Init, InUse
<1>2. ASSUME Locking, InUse, [Next]_vars PROVE InUse'
  <2> USE <1>2 DEF Goto, procVars
  <2>0. /\ mutex \in [Keys -> Procs \cup {None}] /\ pc \in [Procs -> Pcs]
        /\ call \in [Procs -> Calls \cup {None}] /\ None \notin Procs
    BY CacheAssumption DEF Locking, TypeOK
  <2>1. ASSUME NEW p \in Procs, UNCHANGED mutex, ~InCall(p),
               \A q \in Procs \ {p} : pc'[q] = pc[q] /\ call'[q] = call[q]
        PROVE  InUse'
    <3> SUFFICES ASSUME NEW k \in Keys, mutex[k] # None
                 PROVE  /\ mutex[k] \in Procs /\ InCall(mutex[k])'
                        /\ k = FirstKey(call[mutex[k]])' \/
                           (TagsPush(call[mutex[k]])' /\ pc'[mutex[k]] # "lockTag"
                            /\ k = TagKey(call[mutex[k]])')
      BY <2>1 DEF InUse
    <3>1. mutex[k] \in Procs \ {p}
      BY <2>1 DEF InUse
    <3>2. pc'[mutex[k]] = pc[mutex[k]] /\ call'[mutex[k]] = call[mutex[k]] /\ mutex'[k] = mutex[k]
      BY <2>1, <3>1
    <3> QED  BY <2>1, <3>1, <3>2 DEF InUse, InCall, FirstKey, TagsPush, TagKey, ByTag
  <2>2. ASSUME NEW p \in Procs, Begin(p) PROVE InUse'
    <3>1. /\ UNCHANGED mutex /\ ~InCall(p)
          /\ \A q \in Procs \ {p} : pc'[q] = pc[q] /\ call'[q] = call[q]
      BY <2>0, <2>2 DEF Begin, InCall
    <3> QED  BY <2>1, <3>1
  <2>3. ASSUME NEW p \in Procs, LockRef(p) PROVE InUse'
    <3>1. /\ FirstKey(call[p]) \in Keys /\ mutex' = [mutex EXCEPT ![FirstKey(call[p])] = p]
          /\ UNCHANGED call /\ ~InCall(p) /\ InCall(p)'
          /\ \A q \in Procs \ {p} : pc'[q] = pc[q]
      BY <2>0, <2>3, CallKeys DEF LockRef, InCall, Locking, CallsAreKnown
    <3>2. ASSUME NEW k \in Keys, mutex'[k] # None, k # FirstKey(call[p])
          PROVE  /\ mutex'[k] \in Procs \ {p} /\ mutex'[k] = mutex[k]
                 /\ pc'[mutex[k]] = pc[mutex[k]]
      BY <2>0, <3>1, <3>2 DEF InUse
    <3>3. mutex'[FirstKey(call[p])] = p
      BY <2>0, <3>1
    <3> QED  BY <3>1, <3>2, <3>3 DEF InUse, InCall
  <2>4. ASSUME NEW p \in Procs, LockTag(p) PROVE InUse'
    <3>1. /\ TagKey(call[p]) \in Keys /\ mutex' = [mutex EXCEPT ![TagKey(call[p])] = p]
          /\ UNCHANGED call /\ TagsPush(call[p]) /\ pc'[p] = "upstream"
          /\ \A q \in Procs \ {p} : pc'[q] = pc[q]
      BY <2>0, <2>4, CallKeys, TagKeysAreKeys DEF LockTag, TagKey, Locking, CallsAreKnown
    <3>2. ASSUME NEW k \in Keys, mutex'[k] # None, k # TagKey(call[p])
          PROVE  mutex'[k] = mutex[k] /\ pc'[mutex[k]] \in {pc[mutex[k]], "upstream"}
      BY <2>0, <3>1, <3>2 DEF InUse
    <3>3. mutex'[TagKey(call[p])] = p
      BY <2>0, <3>1
    <3> QED  BY <3>1, <3>2, <3>3 DEF InUse, InCall
  <2>5. ASSUME NEW p \in Procs,
               \/ Check(p) \/ UpstreamOK(p) \/ UpstreamError(p)
               \/ Store(p) \/ ReadBody(p) \/ Keep(p)
        PROVE  InUse'
    <3>1. /\ UNCHANGED <<call, mutex>>
          /\ \E place \in {"upstream", "store", "read", "keep", "unlock"} :
                  pc' = [pc EXCEPT ![p] = place]
      BY <2>5 DEF Check, UpstreamOK, UpstreamError, Store, ReadBody, Keep
    <3>2. /\ pc'[p] \in {"upstream", "store", "read", "keep", "unlock"}
          /\ \A q \in Procs \ {p} : pc'[q] = pc[q]
      BY <2>0, <3>1
    <3> QED  BY <3>1, <3>2 DEF InUse, InCall
  <2>6. ASSUME NEW p \in Procs, Unlock(p) PROVE InUse'
    <3>1. /\ UNCHANGED call /\ \A q \in Procs \ {p} : pc'[q] = pc[q]
          /\ \A k \in Keys : mutex'[k] # None => mutex'[k] = mutex[k] /\ mutex[k] # p
      BY <2>0, <2>6 DEF Unlock
    <3> QED  BY <3>1 DEF InUse, InCall
  <2>7. CASE UNCHANGED vars
    BY <2>7 DEF vars, InUse, InCall
  <2> QED
    BY <2>2, <2>3, <2>4, <2>5, <2>6, <2>7 DEF Next, Step, Finished
<1> QED  BY <1>1, <1>2

\* A call that has one mutex waits for no mutex but that of its tag.
LEMMA WaitsForTag ==
    ASSUME Locking, InUse, NEW p \in Procs, Waits(p)
    PROVE  /\ Holder(p) \in Procs /\ InCall(Holder(p))
           /\ pc[p] = "lockTag" => /\ Awaited(p) = TagKey(call[p]) /\ Awaited(p) \in Keys
                                   /\ pc[Holder(p)] # "lockTag"
<1>1. call[p] \in Calls /\ (pc[p] = "lockTag" => TagsPush(call[p]))
  BY DEF Locking, CallsAreKnown, Waits
<1>2. CASE pc[p] = "lock"
  <2>1. Awaited(p) \in Keys
    BY <1>1, <1>2, CallKeys DEF Awaited
  <2> QED  BY <1>2, <2>1 DEF InUse, Waits, Free, Holder
<1>3. CASE pc[p] = "lockTag"
  <2>1. Awaited(p) = TagKey(call[p]) /\ Awaited(p) \in TagKeys
    BY <1>1, <1>3, CallKeys DEF Awaited, TagKey
  <2> DEFINE q == Holder(p)
  <2>2. /\ q \in Procs /\ InCall(q)
        /\ \/ Awaited(p) = FirstKey(call[q])
           \/ TagsPush(call[q]) /\ pc[q] # "lockTag"
    BY <2>1, TagKeysAreKeys DEF InUse, Waits, Free, Holder
  <2>3. ASSUME pc[q] = "lockTag" PROVE Awaited(p) # FirstKey(call[q])
    <3>1. call[q] \in Calls /\ TagsPush(call[q])
      BY <2>2, <2>3 DEF Locking, CallsAreKnown
    <3>2. FirstKey(call[q]) = <<call[q].repo, call[q].digest>> /\ call[q].digest \in Digests
      BY <3>1, CallKeys DEF FirstKey, TagsPush, ByTag
    <3> QED  BY <2>1, <3>2, CacheAssumption DEF TagKeys
  <2> QED  BY <1>3, <2>1, <2>2, <2>3, TagKeysAreKeys
<1> QED  BY <1>2, <1>3 DEF Waits

\* Whoever waits waits for a call that goes on, at most through one other, for
\* any goroutines and calls (cache.go:273-284).
THEOREM NobodyWaitsInVain == Spec => []WaitsAreShort
<1>1. Locking /\ InUse => WaitsAreShort
  <2> SUFFICES ASSUME Locking, InUse, NEW p \in Procs, Waits(p), ~Moves(Holder(p))
               PROVE  /\ Holder(p) \in Procs /\ Waits(Holder(p))
                      /\ Holder(Holder(p)) \in Procs /\ Moves(Holder(Holder(p)))
    BY WaitsForTag DEF WaitsAreShort
  <2> DEFINE q == Holder(p)
             r == Holder(q)
  <2>1. q \in Procs /\ InCall(q)
    BY WaitsForTag
  <2>2. Waits(q) /\ pc[q] = "lockTag"
    BY <2>1 DEF Moves, InCall, Waits
  <2> HIDE DEF q
  <2>3. r \in Procs /\ InCall(r) /\ pc[r] # "lockTag"
    BY <2>1, <2>2, WaitsForTag
  <2>4. Moves(r)
    BY <2>3 DEF Moves, Waits, InCall
  <2> QED  BY <2>1, <2>2, <2>3, <2>4 DEF q
<1> QED  BY <1>1, LockingInductive, InUseInductive, PTL DEF Spec
=============================================================================
