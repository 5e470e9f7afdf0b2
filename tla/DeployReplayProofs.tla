------------------------- MODULE DeployReplayProofs -------------------------
(***************************************************************************)
(* Proofs about DeployReplay, for every set of documents.                  *)
(*                                                                         *)
(* A document is normalised once, printed, and normalised again; what is   *)
(* proved of the second time rests on what the first one leaves in a       *)
(* document: one digest for all refs, a fallback in the lookup of a copy,  *)
(* and no tag or digest in the lookup that still means anything.           *)
(***************************************************************************)
EXTENDS DeployReplay, FiniteSetTheorems, TLAPS

\* inputs that were accepted (inputNormalized, input.go:41)
Forms == [type : {"manifest", "blob"}, refs : Seq(References), lookup : LookupMaps,
          data : Digests \cup {NoData}, copyFrom : References \cup {NoRef}]

\* what a dry run prints for the i-th ref of n (main.go:236)
Printed(n, i) == [n EXCEPT !.refs = <<n.refs[i]>>]

\* emitted is what was printed of a document that was accepted
WasPrinted ==
    \E doc \in Inputs :
        /\ NormalizeInput(doc) # Refused
        /\ \E i \in DOMAIN NormalizeInput(doc).refs : emitted = Printed(NormalizeInput(doc), i)

IInv ==
    /\ raw \in Inputs
    /\ normal = Unread \/ normal = NormalizeInput(raw)
    /\ emitted = Unread \/ (WasPrinted /\ raw = MarshalInput(emitted))

(***************************************************************************)
(* References and lookups.                                                 *)
(***************************************************************************)

\* The member of a set that has one (rawRefs' digest, lookup's only key).
LEMMA OnlyMember == \A x : Only({x}) = x
  BY DEF Only

\* A reference is its three parts, and setting one of them leaves the others
\* (registry/ref.go:29).
LEMMA ReferenceParts ==
    ASSUME NEW r \in References
    PROVE  /\ r.repo \in Repos /\ r.tag \in Tags \cup {None} /\ r.digest \in Digests \cup {None}
           /\ r = Ref(r.repo, r.tag, r.digest)
           /\ \A d : [r EXCEPT !.digest = d] = Ref(r.repo, r.tag, d)
           /\ \A t : [r EXCEPT !.tag = t] = Ref(r.repo, t, r.digest)
  BY DEF References, Ref

\* The parts of what Ref makes.
LEMMA PartsOf == \A p, t, d : Ref(p, t, d).repo = p /\ Ref(p, t, d).tag = t /\ Ref(p, t, d).digest = d
  BY DEF Ref

\* What makes a reference.
LEMMA RefType ==
    ASSUME NEW p \in Repos, NEW t \in Tags \cup {None}, NEW d \in Digests \cup {None}
    PROVE  /\ Ref(p, t, d) \in References
           /\ Ref(p, t, d).repo = p /\ Ref(p, t, d).tag = t /\ Ref(p, t, d).digest = d
  BY DEF References, Ref

\* A lookup is a finite map to references (input.go:44).
LEMMA LookupParts ==
    ASSUME NEW L \in LookupMaps
    PROVE  /\ DOMAIN L \subseteq Digests \cup {None} /\ IsFiniteSet(DOMAIN L)
           /\ \A d \in DOMAIN L : L[d] \in References
           /\ L = [d \in DOMAIN L |-> L[d]]
  BY DEF LookupMaps

\* What makes a lookup.
LEMMA LookupType ==
    ASSUME NEW S, S \subseteq Digests \cup {None}, IsFiniteSet(S),
           NEW f, f = [d \in S |-> f[d]], \A d \in S : f[d] \in References
    PROVE  f \in LookupMaps
<1>1. f \in [S -> References]
  OBVIOUS
<1> QED BY <1>1 DEF LookupMaps

\* normalizeInputLookup files every entry under its digest (input.go:105-112).
LEMMA Filled ==
    ASSUME NEW L \in LookupMaps
    PROVE  /\ FillLookup(L) \in LookupMaps /\ DOMAIN FillLookup(L) = DOMAIN L
           /\ \A d \in DOMAIN L \ {None} : FillLookup(L)[d] = Ref(L[d].repo, L[d].tag, d)
           /\ None \in DOMAIN L => FillLookup(L)[None] = L[None]
<1> DEFINE F == FillLookup(L)
<1>1. /\ DOMAIN L \subseteq Digests \cup {None} /\ IsFiniteSet(DOMAIN L)
      /\ \A d \in DOMAIN L : L[d] \in References
  BY LookupParts
<1>2. DOMAIN F = DOMAIN L /\ F = [d \in DOMAIN L |-> F[d]]
  BY DEF FillLookup
<1>3. /\ \A d \in DOMAIN L \ {None} : F[d] = Ref(L[d].repo, L[d].tag, d)
      /\ None \in DOMAIN L => F[None] = L[None]
  BY <1>1, ReferenceParts DEF FillLookup
<1>4. ASSUME NEW d \in DOMAIN L PROVE F[d] \in References
  <2>1. CASE d = None
    BY <1>1, <1>3, <2>1
  <2>2. CASE d # None
    <3>1. /\ L[d].repo \in Repos /\ L[d].tag \in Tags \cup {None}
          /\ d \in Digests \cup {None} /\ F[d] = Ref(L[d].repo, L[d].tag, d)
      BY <1>1, <1>3, <2>2, ReferenceParts
    <3> QED BY <3>1, RefType
  <2> QED BY <2>1, <2>2
<1>5. F \in LookupMaps
  <2> HIDE DEF F
  <2> QED BY <1>1, <1>2, <1>4, LookupType
<1> QED BY <1>2, <1>3, <1>5

\* ClearLookup leaves the repositories, and the tag of a fallback from which a
\* tag is copied (input.go:231-240).
LEMMA Cleared ==
    ASSUME NEW L \in LookupMaps, NEW g, NEW from
    PROVE  /\ ClearLookup(L, g, from) \in LookupMaps
           /\ DOMAIN ClearLookup(L, g, from) = DOMAIN L
           /\ \A d \in DOMAIN L \ {None} :
                  ClearLookup(L, g, from)[d] = Ref(L[d].repo, None, None)
           /\ None \in DOMAIN L =>
                  ClearLookup(L, g, from)[None] =
                      IF /\ g = None /\ from # NoRef
                         /\ L[None].tag # None /\ L[None].tag = from.tag
                      THEN L[None] ELSE Ref(L[None].repo, None, None)
<1> DEFINE C == ClearLookup(L, g, from)
<1>1. /\ DOMAIN L \subseteq Digests \cup {None} /\ IsFiniteSet(DOMAIN L)
      /\ \A d \in DOMAIN L : L[d] \in References
  BY LookupParts
<1>2. DOMAIN C = DOMAIN L /\ C = [d \in DOMAIN L |-> C[d]]
  BY DEF ClearLookup
<1>3. \A d \in DOMAIN L \ {None} : C[d] = Ref(L[d].repo, None, None)
  BY DEF ClearLookup
<1>4. None \in DOMAIN L =>
          C[None] = IF /\ g = None /\ from # NoRef
                       /\ L[None].tag # None /\ L[None].tag = from.tag
                    THEN L[None] ELSE Ref(L[None].repo, None, None)
  BY DEF ClearLookup
<1>5. ASSUME NEW d \in DOMAIN L PROVE C[d] \in References
  <2>1. L[d] \in References /\ L[d].repo \in Repos
    BY <1>1, ReferenceParts
  <2>2. Ref(L[d].repo, None, None) \in References
    BY <2>1, RefType
  <2>3. C[d] \in {L[d], Ref(L[d].repo, None, None)}
    BY <1>3, <1>4
  <2> QED BY <2>1, <2>2, <2>3
<1>6. C \in LookupMaps
  <2> HIDE DEF C
  <2> QED BY <1>1, <1>2, <1>5, LookupType
<1> QED BY <1>2, <1>3, <1>4, <1>6

\* A copy gets a fallback if it has none (input.go:188-191).
LEMMA FallbackAdded ==
    ASSUME NEW L \in LookupMaps, NEW from \in References
    PROVE  /\ WithFallback(L, from) \in LookupMaps
           /\ DOMAIN WithFallback(L, from) = DOMAIN L \cup {None}
           /\ \A d \in DOMAIN L : WithFallback(L, from)[d] = L[d]
           /\ None \notin DOMAIN L => WithFallback(L, from)[None] = from
<1> DEFINE W == WithFallback(L, from)
<1>1. /\ DOMAIN L \cup {None} \subseteq Digests \cup {None}
      /\ IsFiniteSet(DOMAIN L \cup {None})
      /\ \A d \in DOMAIN L : L[d] \in References
  BY LookupParts, FS_Singleton, FS_Union
<1>2. /\ DOMAIN W = DOMAIN L \cup {None} /\ W = [d \in DOMAIN L \cup {None} |-> W[d]]
      /\ \A d \in DOMAIN L : W[d] = L[d]
      /\ None \notin DOMAIN L => W[None] = from
  BY DEF WithFallback
<1>3. \A d \in DOMAIN L \cup {None} : W[d] \in References
  BY <1>1, <1>2
<1>4. W \in LookupMaps
  <2> HIDE DEF W
  <2> QED BY <1>1, <1>2, <1>3, LookupType
<1> QED BY <1>2, <1>4

(***************************************************************************)
(* What is copied.                                                         *)
(***************************************************************************)

\* A lookup with one entry.
LEMMA Sole ==
    ASSUME NEW L \in LookupMaps
    PROVE  HasSoleEntry(L) <=>
               \E s \in Digests \cup {None} :
                   /\ DOMAIN L = {s} /\ SoleEntry(L) = s
                   /\ s = None => L[None].digest # None \/ L[None].tag # None
<1>1. IsFiniteSet(DOMAIN L) /\ DOMAIN L \subseteq Digests \cup {None}
  BY LookupParts
<1>2. Cardinality(DOMAIN L) = 1 <=> \E s : DOMAIN L = {s}
  BY <1>1, FS_Singleton
<1>3. \A s : DOMAIN L = {s} => SoleEntry(L) = s
  BY OnlyMember DEF SoleEntry
<1> QED BY <1>1, <1>2, <1>3 DEF HasSoleEntry

\* The ways to say what a document without data copies (input.go:164-182).
Filed(L, rd, s) ==
    rd # None /\ rd \in DOMAIN L /\ s = [from |-> L[rd], by |-> rd]
Alone(L, rd, s) ==
    \E e \in Digests : DOMAIN L = {e} /\ rd # e /\ s = [from |-> L[e], by |-> e]
AsItIs(L, rd, s) ==
    /\ DOMAIN L = {None} /\ s = [from |-> L[None], by |-> L[None].digest]
    /\ L[None].digest # None \/ L[None].tag # None
FromFallback(L, rd, s) ==
    /\ rd # None /\ rd \notin DOMAIN L /\ None \in DOMAIN L
    /\ s = [from |-> Ref(L[None].repo, L[None].tag, rd), by |-> rd]

\* What is copied is one of them, or nothing.
LEMMA Sources ==
    ASSUME NEW L \in LookupMaps, NEW rd \in Digests \cup {None}, NEW s,
           s = CopySource(rd, L), s.from # NoRef
    PROVE  Filed(L, rd, s) \/ Alone(L, rd, s) \/ AsItIs(L, rd, s) \/ FromFallback(L, rd, s)
<1>1. CASE rd # None /\ rd \in DOMAIN L
  BY <1>1 DEF CopySource, Filed
<1>2. CASE ~(rd # None /\ rd \in DOMAIN L) /\ HasSoleEntry(L)
  <2>1. PICK e \in Digests \cup {None} :
            /\ DOMAIN L = {e} /\ SoleEntry(L) = e
            /\ e = None => L[None].digest # None \/ L[None].tag # None
    BY <1>2, Sole
  <2>2. s = [from |-> L[e], by |-> IF e # None THEN e ELSE L[None].digest]
    BY <1>2, <2>1 DEF CopySource
  <2>3. CASE e = None
    BY <2>1, <2>2, <2>3 DEF AsItIs
  <2>4. CASE e # None
    BY <1>2, <2>1, <2>2, <2>4 DEF Alone
  <2> QED BY <2>3, <2>4
<1>3. CASE ~(rd # None /\ rd \in DOMAIN L) /\ ~HasSoleEntry(L)
  <2>1. rd # None /\ None \in DOMAIN L
    BY <1>3 DEF CopySource
  <2>2. L[None] \in References
    BY <2>1, LookupParts
  <2>3. ByDigest(L[None], rd) = Ref(L[None].repo, L[None].tag, rd)
    BY <2>2, ReferenceParts DEF ByDigest
  <2>4. s = [from |-> ByDigest(L[None], rd), by |-> rd]
    BY <1>3, <2>1 DEF CopySource
  <2> QED BY <1>3, <2>1, <2>3, <2>4 DEF FromFallback
<1> QED BY <1>1, <1>2, <1>3

\* the digest of the refs, and copyFrom (input.go:184-229)
DigestOf(rd, s) == IF rd = None THEN s.by ELSE rd
CopyFromOf(s, g) == IF g # None THEN [s.from EXCEPT !.tag = None] ELSE s.from

\* What a copy that was accepted copies, in terms of its lookup: what the
\* lookup says of the digest, or else of the fallback, or a tag.  The premise
\* that it says something excludes LosesSource.
LEMMA CopiedFrom ==
    ASSUME NEW L \in LookupMaps, \A d \in DOMAIN L \ {None} : L[d].digest = d,
           NEW rd \in Digests \cup {None}, NEW s, s = CopySource(rd, L), s.from # NoRef,
           NEW g, g = DigestOf(rd, s), s.by \in {None, g},
           NEW cf, cf = CopyFromOf(s, g)
    PROVE  /\ g \in Digests \cup {None} /\ s.from \in References /\ cf \in References
           /\ cf.digest # None \/ cf.tag # None =>
                \/ g # None /\ g \in DOMAIN L /\ cf = Ref(L[g].repo, None, g)
                \/ /\ g # None /\ g \notin DOMAIN L /\ None \in DOMAIN L
                   /\ cf = Ref(L[None].repo, None, g)
                \/ /\ g = None /\ DOMAIN L = {None} /\ cf = L[None]
                   /\ cf.digest = None /\ cf.tag # None
<1>1. Filed(L, rd, s) \/ Alone(L, rd, s) \/ AsItIs(L, rd, s) \/ FromFallback(L, rd, s)
  BY Sources
<1>2. \A d \in DOMAIN L : L[d] \in References /\ d \in Digests \cup {None}
  BY LookupParts
<1>3. None \notin Digests
  BY InputAssumption
<1>4. s.from \in References /\ s.by \in Digests \cup {None}
  <2>1. CASE Filed(L, rd, s)
    BY <1>2, <2>1 DEF Filed
  <2>2. CASE Alone(L, rd, s)
    BY <1>2, <2>2 DEF Alone
  <2>3. CASE AsItIs(L, rd, s)
    BY <1>2, <2>3, ReferenceParts DEF AsItIs
  <2>4. CASE FromFallback(L, rd, s)
    <3>1. L[None].repo \in Repos /\ L[None].tag \in Tags \cup {None}
      BY <1>2, <2>4, ReferenceParts DEF FromFallback
    <3> QED BY <2>4, <3>1, RefType DEF FromFallback
  <2> QED BY <1>1, <2>1, <2>2, <2>3, <2>4
<1>5. g \in Digests \cup {None}
  BY <1>4 DEF DigestOf
<1>6. g # None => cf = Ref(s.from.repo, None, s.from.digest)
  BY <1>4, ReferenceParts DEF CopyFromOf
<1>7. cf \in References
  <2>1. s.from.repo \in Repos /\ s.from.digest \in Digests \cup {None}
    BY <1>4, ReferenceParts
  <2>2. g = None => cf = s.from
    BY DEF CopyFromOf
  <2> QED BY <1>4, <1>6, <2>1, <2>2, RefType
<1>8. ASSUME g # None, cf.digest # None \/ cf.tag # None
      PROVE  \/ g \in DOMAIN L /\ cf = Ref(L[g].repo, None, g)
             \/ g \notin DOMAIN L /\ None \in DOMAIN L /\ cf = Ref(L[None].repo, None, g)
  <2>0. cf = Ref(s.from.repo, None, s.from.digest) /\ s.from.digest # None
    BY <1>6, <1>8 DEF Ref
  <2>1. CASE Filed(L, rd, s)
    BY <1>2, <1>8, <2>0, <2>1 DEF Filed, DigestOf
  <2>2. CASE Alone(L, rd, s)
    BY <1>2, <1>3, <1>8, <2>0, <2>2 DEF Alone, DigestOf
  <2>3. CASE AsItIs(L, rd, s)
    BY <1>8, <2>0, <2>3 DEF AsItIs
  <2>4. CASE FromFallback(L, rd, s)
    BY <2>0, <2>4 DEF FromFallback, Ref, DigestOf
  <2> QED BY <1>1, <2>1, <2>2, <2>3, <2>4
<1>9. ASSUME g = None
      PROVE  /\ DOMAIN L = {None} /\ cf = L[None]
             /\ cf.digest = None /\ cf.tag # None
  <2>1. rd = None /\ s.by = None /\ cf = s.from
    BY <1>9 DEF DigestOf, CopyFromOf
  <2>2. ~Filed(L, rd, s) /\ ~FromFallback(L, rd, s)
    BY <2>1 DEF Filed, FromFallback
  <2>3. ASSUME Alone(L, rd, s) PROVE FALSE
    <3>1. PICK e \in Digests : s = [from |-> L[e], by |-> e]
      BY <2>3 DEF Alone
    <3>2. s.by = e
      BY <3>1
    <3> QED BY <1>3, <2>1, <3>2
  <2>4. AsItIs(L, rd, s)
    BY <1>1, <2>2, <2>3
  <2> QED BY <2>1, <2>4 DEF AsItIs
<1> QED BY <1>4, <1>5, <1>7, <1>8, <1>9

\* What is printed of a copy says again what to copy, and has the lookup that
\* a lookup normalised from it has: "this allows our normalized objects to
\* still be completely valid "raw" inputs" (input.go:234).
LEMMA CopiedAgain ==
    ASSUME NEW L \in LookupMaps, \A d \in DOMAIN L \ {None} : L[d].digest = d,
           NEW rd \in Digests \cup {None}, NEW s, s = CopySource(rd, L), s.from # NoRef,
           NEW g, g = DigestOf(rd, s), s.by \in {None, g},
           NEW cf, cf = CopyFromOf(s, g),
           cf.digest # None \/ cf.tag # None,
           NEW K, K = ClearLookup(WithFallback(L, s.from), g, cf)
    PROVE  /\ CopySource(g, FillLookup(K)) = [from |-> cf, by |-> g]
           /\ ClearLookup(WithFallback(FillLookup(K), cf), g, cf) = K
<1> DEFINE W == WithFallback(L, s.from)
           F == FillLookup(K)
<1> HIDE DEF W, F
<1>1. /\ g \in Digests \cup {None} /\ s.from \in References /\ cf \in References
      /\ \/ g # None /\ g \in DOMAIN L /\ cf = Ref(L[g].repo, None, g)
         \/ /\ g # None /\ g \notin DOMAIN L /\ None \in DOMAIN L
            /\ cf = Ref(L[None].repo, None, g)
         \/ /\ g = None /\ DOMAIN L = {None} /\ cf = L[None]
            /\ cf.digest = None /\ cf.tag # None
  BY CopiedFrom
<1>2. cf # NoRef
  BY <1>1, ReplayAssumption
<1>3. /\ W \in LookupMaps /\ DOMAIN W = DOMAIN L \cup {None}
      /\ \A d \in DOMAIN L : W[d] = L[d]
  BY <1>1, FallbackAdded DEF W
<1>4. /\ K \in LookupMaps /\ DOMAIN K = DOMAIN L \cup {None}
      /\ \A d \in DOMAIN K \ {None} : K[d] = Ref(L[d].repo, None, None)
      /\ K[None] = IF g = None /\ W[None].tag # None /\ W[None].tag = cf.tag
                   THEN W[None] ELSE Ref(W[None].repo, None, None)
  <2>1. K = ClearLookup(W, g, cf)
    BY DEF W
  <2> QED BY <1>2, <1>3, <2>1, Cleared
<1>5. /\ F \in LookupMaps /\ DOMAIN F = DOMAIN K /\ F[None] = K[None]
      /\ \A d \in DOMAIN K \ {None} : F[d] = Ref(K[d].repo, K[d].tag, d)
  BY <1>4, Filled DEF F
<1>6. /\ \A d \in DOMAIN K \ {None} : F[d] = Ref(L[d].repo, None, d)
      /\ g # None => F[None] = Ref(W[None].repo, None, None)
      /\ g = None => F[None] = cf
  <2>1. ASSUME NEW d \in DOMAIN K \ {None} PROVE K[d].repo = L[d].repo /\ K[d].tag = None
    BY <1>4, PartsOf
  <2> QED BY <1>1, <1>3, <1>4, <1>5, <2>1
<1>7. CopySource(g, F) = [from |-> cf, by |-> g]
  <2>1. CASE g # None /\ g \in DOMAIN L
    <3>1. cf = Ref(L[g].repo, None, g) /\ g \in DOMAIN F /\ F[g] = cf
      BY <1>1, <1>4, <1>5, <1>6, <2>1
    <3> QED BY <2>1, <3>1 DEF CopySource
  <2>2. CASE g # None /\ g \notin DOMAIN L
    <3>1. None \in DOMAIN L /\ cf = Ref(L[None].repo, None, g) /\ g \notin DOMAIN F
      BY <1>1, <1>4, <1>5, <2>2
    <3>2. F[None] = Ref(L[None].repo, None, None)
      BY <1>3, <1>6, <2>2, <3>1
    <3>3. F[None].digest = None /\ F[None].tag = None
      BY <3>2, PartsOf
    <3>4. ~HasSoleEntry(F)
      <4>1. F \in LookupMaps /\ None \in DOMAIN F
        BY <1>4, <1>5
      <4> QED BY ONLY <3>3, <4>1, Sole
    <3>5. ByDigest(F[None], g) = cf
      BY <3>1, <3>2 DEF ByDigest, Ref
    <3> QED BY <1>4, <1>5, <2>2, <3>1, <3>4, <3>5 DEF CopySource
  <2>3. CASE g = None
    <3>1. DOMAIN F = {None} /\ F[None] = cf /\ cf.digest = None /\ cf.tag # None
      BY <1>1, <1>4, <1>5, <1>6, <2>3
    <3>2. HasSoleEntry(F) /\ SoleEntry(F) = None
      <4>1. F \in LookupMaps
        BY <1>5
      <4>2. SoleEntry(F) = None
        BY ONLY <3>1, OnlyMember DEF SoleEntry
      <4> QED BY ONLY <3>1, <4>1, <4>2, Sole
    <3> QED BY <2>3, <3>1, <3>2 DEF CopySource
  <2> QED BY <2>1, <2>2, <2>3
<1>8. ClearLookup(WithFallback(F, cf), g, cf) = K
  <2> DEFINE V == WithFallback(F, cf)
             C == ClearLookup(V, g, cf)
  <2>1. /\ V \in LookupMaps /\ DOMAIN V = DOMAIN K /\ \A d \in DOMAIN K : V[d] = F[d]
    <3>1. cf \in References /\ F \in LookupMaps /\ DOMAIN F = DOMAIN K /\ None \in DOMAIN K
      BY <1>1, <1>4, <1>5
    <3> QED BY ONLY <3>1, FallbackAdded
  <2>2. /\ DOMAIN C = DOMAIN K /\ C \in LookupMaps
        /\ \A d \in DOMAIN K \ {None} : C[d] = Ref(F[d].repo, None, None)
        /\ C[None] = IF g = None /\ F[None].tag # None /\ F[None].tag = cf.tag
                     THEN F[None] ELSE Ref(F[None].repo, None, None)
    <3> HIDE DEF V
    <3> QED BY <1>2, <1>4, <2>1, Cleared
  <2>3. ASSUME NEW d \in DOMAIN K \ {None} PROVE C[d] = K[d]
    <3>1. F[d].repo = L[d].repo
      BY <1>6, PartsOf
    <3> QED BY <1>4, <2>2, <3>1
  <2>4. C[None] = K[None]
    <3>1. CASE g = None
      BY <1>1, <1>5, <1>6, <2>2, <3>1
    <3>2. CASE g # None
      <4>1. F[None].repo = W[None].repo
        BY <1>6, <3>2 DEF Ref
      <4> QED BY <1>4, <2>2, <3>2, <4>1
    <3> QED BY <3>1, <3>2
  <2>5. C = [d \in DOMAIN K |-> C[d]] /\ K = [d \in DOMAIN K |-> K[d]]
    <3> HIDE DEF C
    <3> QED BY <1>4, <2>2, LookupParts
  <2> HIDE DEF C
  <2>6. C = K
    BY <2>3, <2>4, <2>5
  <2> QED BY <2>6 DEF C, V
<1> QED BY <1>7, <1>8 DEF F

(***************************************************************************)
(* NormalizeInput.                                                         *)
(***************************************************************************)

\* The digest the refs have in common, as far as they have one
\* (normalizeInputRefs, input.go:60-85).
LEMMA RefsDigest ==
    ASSUME NEW refs \in Seq(References)
    PROVE  CommonDigest(refs) \in Digests \cup {None}
<1>1. RefDigests(refs) \subseteq Digests \cup {None}
  <2>1. \A i \in DOMAIN refs : refs[i] \in References
    OBVIOUS
  <2> QED BY <2>1, ReferenceParts DEF RefDigests, ToSet
<1>2. RefDigests(refs) # {} => Only(RefDigests(refs)) \in RefDigests(refs)
  BY DEF Only
<1> QED BY <1>1, <1>2 DEF CommonDigest

\* One ref has its own digest in common with itself.
LEMMA OneRef ==
    ASSUME NEW r \in References, NEW type, type = "blob" => r.tag = None
    PROVE  CommonDigest(<<r>>) = r.digest /\ RefsAccepted(type, <<r>>)
<1>1. ToSet(<<r>>) = {r}
  BY DEF ToSet
<1>2. RefDigests(<<r>>) = {r.digest} \ {None}
  BY <1>1 DEF RefDigests
<1>3. CASE r.digest = None
  <2>1. RefDigests(<<r>>) = {}
    BY <1>2, <1>3
  <2>2. Cardinality(RefDigests(<<r>>)) <= 1
    BY <2>1, FS_EmptySet
  <2> QED BY <1>1, <1>3, <2>1, <2>2 DEF CommonDigest, RefsAccepted
<1>4. CASE r.digest # None
  <2>1. RefDigests(<<r>>) = {r.digest}
    BY <1>2, <1>4
  <2>2. Cardinality(RefDigests(<<r>>)) <= 1
    <3>1. \A x : Cardinality({x}) = 1
      BY ONLY FS_Singleton
    <3>2. Cardinality(RefDigests(<<r>>)) = 1
      BY ONLY <2>1, <3>1
    <3> QED BY <3>2
  <2> QED BY <1>1, <2>1, <2>2, OnlyMember DEF CommonDigest, RefsAccepted
<1> QED BY <1>3, <1>4

\* All refs of a document get one digest (input.go:221-224).
LEMMA PinnedRefs ==
    ASSUME NEW refs \in Seq(References), NEW g \in Digests \cup {None}
    PROVE  /\ Pinned(refs, g) \in Seq(References)
           /\ DOMAIN Pinned(refs, g) = DOMAIN refs
           /\ \A i \in DOMAIN refs :
                  Pinned(refs, g)[i] = Ref(refs[i].repo, refs[i].tag, g)
<1>1. \A i \in DOMAIN refs : refs[i] \in References
  OBVIOUS
<1>2. \A i \in DOMAIN refs :
          [refs[i] EXCEPT !.digest = g] = Ref(refs[i].repo, refs[i].tag, g)
  BY <1>1, ReferenceParts
<1>3. /\ DOMAIN Pinned(refs, g) = DOMAIN refs
      /\ \A i \in DOMAIN refs :
             Pinned(refs, g)[i] = Ref(refs[i].repo, refs[i].tag, g)
  BY <1>2 DEF Pinned
<1>4. ASSUME NEW i \in DOMAIN refs PROVE Ref(refs[i].repo, refs[i].tag, g) \in References
  <2>1. refs[i].repo \in Repos /\ refs[i].tag \in Tags \cup {None}
    BY <1>1, ReferenceParts
  <2> QED BY <2>1, RefType
<1>5. Pinned(refs, g) = [i \in 1..Len(refs) |-> Ref(refs[i].repo, refs[i].tag, g)]
  BY <1>2 DEF Pinned
<1>6. Len(refs) \in Nat /\ DOMAIN refs = 1..Len(refs)
  OBVIOUS
<1>7. Pinned(refs, g) \in [1..Len(refs) -> References]
  BY <1>4, <1>5, <1>6
<1>8. Pinned(refs, g) \in Seq(References)
  BY <1>6, <1>7
<1> QED BY <1>3, <1>8

\* the parts of what a document without data becomes
LookupOf(doc) == FillLookup(doc.lookup)
SourceOf(doc) == CopySource(CommonDigest(doc.refs), LookupOf(doc))
CopyDigest(doc) == DigestOf(CommonDigest(doc.refs), SourceOf(doc))
CopyFrom(doc) == CopyFromOf(SourceOf(doc), CopyDigest(doc))
CopyLookup(doc) ==
    ClearLookup(WithFallback(LookupOf(doc), SourceOf(doc).from), CopyDigest(doc), CopyFrom(doc))

\* a document is a copy that is accepted
CopyAccepted(doc) ==
    /\ RefsAccepted(doc.type, doc.refs) /\ LookupAccepted(doc.lookup)
    /\ doc.data = NoData
    /\ SourceOf(doc).from # NoRef /\ SourceOf(doc).by \in {None, CopyDigest(doc)}
    /\ doc.type = "blob" => SourceOf(doc).from.digest # None
CopyForm(doc) ==
    [type |-> doc.type, refs |-> Pinned(doc.refs, CopyDigest(doc)),
     lookup |-> CopyLookup(doc), data |-> NoData, copyFrom |-> CopyFrom(doc)]

\* NormalizeInput of a document without data.
LEMMA CopyCase ==
    ASSUME NEW doc, doc.data = NoData
    PROVE  /\ NormalizeInput(doc) # Refused => CopyAccepted(doc)
           /\ CopyAccepted(doc) => NormalizeInput(doc) = CopyForm(doc)
<1>1. NormalizeCopy(doc, LookupOf(doc)) =
          IF \/ SourceOf(doc).from = NoRef
             \/ SourceOf(doc).by \notin {None, CopyDigest(doc)}
             \/ doc.type = "blob" /\ SourceOf(doc).from.digest = None
          THEN Refused ELSE CopyForm(doc)
  BY DEF NormalizeCopy, SourceOf, CopyDigest, CopyFrom, CopyLookup, CopyForm, DigestOf,
         CopyFromOf
<1>2. NormalizeInput(doc) =
          IF ~RefsAccepted(doc.type, doc.refs) \/ ~LookupAccepted(doc.lookup)
          THEN Refused ELSE NormalizeCopy(doc, LookupOf(doc))
  BY DEF NormalizeInput, LookupOf
<1> QED BY <1>1, <1>2 DEF CopyAccepted

\* a document with data that is accepted, and what it becomes
PushAccepted(doc) ==
    /\ RefsAccepted(doc.type, doc.refs) /\ LookupAccepted(doc.lookup)
    /\ doc.data # NoData /\ (doc.type = "manifest" => doc.data \in Manifests)
    /\ CommonDigest(doc.refs) \in {None, doc.data}
PushForm(doc) ==
    [type |-> doc.type, refs |-> Pinned(doc.refs, doc.data),
     lookup |-> ClearLookup(LookupOf(doc), doc.data, NoRef),
     data |-> doc.data, copyFrom |-> NoRef]

\* NormalizeInput of a document with data.
LEMMA PushCase ==
    ASSUME NEW doc, doc.data # NoData
    PROVE  /\ NormalizeInput(doc) # Refused => PushAccepted(doc)
           /\ PushAccepted(doc) => NormalizeInput(doc) = PushForm(doc)
  BY DEF NormalizeInput, NormalizePush, PushAccepted, PushForm, LookupOf

\* The parts of a document.
LEMMA InputParts ==
    ASSUME NEW doc \in Inputs
    PROVE  /\ doc.type \in {"manifest", "blob"} /\ doc.refs \in Seq(References)
           /\ doc.lookup \in LookupMaps /\ doc.data \in Digests \cup {NoData}
           /\ LookupOf(doc) \in LookupMaps
           /\ \A d \in DOMAIN LookupOf(doc) \ {None} : LookupOf(doc)[d].digest = d
<1>1. /\ doc.type \in {"manifest", "blob"} /\ doc.refs \in Seq(References)
      /\ doc.lookup \in LookupMaps /\ doc.data \in Digests \cup {NoData}
  BY DEF Inputs
<1>2. /\ LookupOf(doc) \in LookupMaps /\ DOMAIN LookupOf(doc) = DOMAIN doc.lookup
      /\ \A d \in DOMAIN doc.lookup \ {None} :
             LookupOf(doc)[d] = Ref(doc.lookup[d].repo, doc.lookup[d].tag, d)
  BY <1>1, Filled DEF LookupOf
<1> QED BY <1>1, <1>2, PartsOf

\* The parts of a copy that is accepted.
LEMMA CopyParts ==
    ASSUME NEW doc \in Inputs, CopyAccepted(doc)
    PROVE  /\ CopyDigest(doc) \in Digests \cup {None}
           /\ CopyFrom(doc) \in References /\ CopyLookup(doc) \in LookupMaps
           /\ CommonDigest(doc.refs) \in Digests \cup {None}
<1>1. CommonDigest(doc.refs) \in Digests \cup {None}
  BY InputParts, RefsDigest
<1>2. /\ CopyDigest(doc) \in Digests \cup {None}
      /\ SourceOf(doc).from \in References /\ CopyFrom(doc) \in References
  BY <1>1, InputParts, CopiedFrom DEF CopyAccepted, SourceOf, CopyDigest, CopyFrom
<1>3. WithFallback(LookupOf(doc), SourceOf(doc).from) \in LookupMaps
  BY <1>2, InputParts, FallbackAdded
<1>4. CopyLookup(doc) \in LookupMaps
  BY <1>3, Cleared DEF CopyLookup
<1> QED BY <1>1, <1>2, <1>4

\* What NormalizeInput accepts is an input again (inputNormalized, input.go:41).
LEMMA FormType ==
    ASSUME NEW doc \in Inputs, NormalizeInput(doc) # Refused
    PROVE  NormalizeInput(doc) \in Forms
<1>1. CASE doc.data = NoData
  <2>1. CopyAccepted(doc) /\ NormalizeInput(doc) = CopyForm(doc)
    BY <1>1, CopyCase
  <2>2. /\ CopyFrom(doc) \in References /\ CopyLookup(doc) \in LookupMaps
        /\ CopyDigest(doc) \in Digests \cup {None}
    BY <2>1, CopyParts
  <2>3. Pinned(doc.refs, CopyDigest(doc)) \in Seq(References)
    BY <2>2, InputParts, PinnedRefs
  <2> QED BY <2>1, <2>2, <2>3, InputParts DEF CopyForm, Forms
<1>2. CASE doc.data # NoData
  <2>1. PushAccepted(doc) /\ NormalizeInput(doc) = PushForm(doc)
    BY <1>2, PushCase
  <2>2. doc.data \in Digests
    BY <1>2, InputParts
  <2>3. Pinned(doc.refs, doc.data) \in Seq(References)
    BY <2>2, InputParts, PinnedRefs
  <2>4. ClearLookup(LookupOf(doc), doc.data, NoRef) \in LookupMaps
    BY InputParts, Cleared
  <2> QED BY <2>1, <2>2, <2>3, <2>4, InputParts DEF PushForm, Forms
<1> QED BY <1>1, <1>2

\* What is printed of it can be read (input.go:26-53).
LEMMA PrintedType ==
    ASSUME NEW n \in Forms, NEW i \in DOMAIN n.refs
    PROVE  /\ Printed(n, i).type = n.type /\ Printed(n, i).refs = <<n.refs[i]>>
           /\ Printed(n, i).lookup = n.lookup /\ Printed(n, i).data = n.data
           /\ Printed(n, i).copyFrom = n.copyFrom
           /\ MarshalInput(Printed(n, i)) \in Inputs
<1>1. /\ n.type \in {"manifest", "blob"} /\ n.refs \in Seq(References)
      /\ n.lookup \in LookupMaps /\ n.data \in Digests \cup {NoData}
      /\ n = [type |-> n.type, refs |-> n.refs, lookup |-> n.lookup,
              data |-> n.data, copyFrom |-> n.copyFrom]
  BY DEF Forms
<1>2. /\ Printed(n, i).type = n.type /\ Printed(n, i).refs = <<n.refs[i]>>
      /\ Printed(n, i).lookup = n.lookup /\ Printed(n, i).data = n.data
      /\ Printed(n, i).copyFrom = n.copyFrom
  BY <1>1 DEF Printed
<1>3. <<n.refs[i]>> \in Seq(References)
  <2>1. n.refs[i] \in References
    BY <1>1
  <2> QED BY <2>1
<1>4. (IF n.data = EmptyData THEN NoData ELSE n.data) \in Digests \cup {NoData}
  BY <1>1
<1>5. MarshalInput(Printed(n, i)) =
          [type |-> n.type, refs |-> <<n.refs[i]>>, lookup |-> n.lookup,
           data |-> IF n.data = EmptyData THEN NoData ELSE n.data]
  BY <1>2 DEF MarshalInput
<1>6. MarshalInput(Printed(n, i)) \in Inputs
  <2> HIDE DEF Inputs
  <2> QED BY <1>1, <1>3, <1>4, <1>5 DEF Inputs
<1> QED BY <1>2, <1>6

\* A push that is printed and read again is the same push (input.go:197-224).
LEMMA PushAgain ==
    ASSUME NEW doc \in Inputs, doc.data # NoData, NormalizeInput(doc) # Refused,
           doc.data # EmptyData,
           NEW i \in DOMAIN NormalizeInput(doc).refs
    PROVE  NormalizeInput(MarshalInput(Printed(NormalizeInput(doc), i)))
               = Printed(NormalizeInput(doc), i)
<1> DEFINE n == NormalizeInput(doc)
           r == n.refs[i]
           e == Printed(n, i)
           m == MarshalInput(e)
<1> HIDE DEF n, r, e, m
<1>1. PushAccepted(doc) /\ n = PushForm(doc) /\ n \in Forms
  BY PushCase, FormType DEF n
<1>2. /\ n.type = doc.type /\ n.refs = Pinned(doc.refs, doc.data)
      /\ n.lookup = ClearLookup(LookupOf(doc), doc.data, NoRef)
      /\ n.data = doc.data /\ n.copyFrom = NoRef /\ i \in DOMAIN n.refs
  BY <1>1 DEF PushForm, n
<1>3. e = [type |-> n.type, refs |-> <<r>>, lookup |-> n.lookup, data |-> n.data,
           copyFrom |-> n.copyFrom]
  BY <1>1, <1>2 DEF PushForm, Printed, e, r
<1>4. m = [type |-> n.type, refs |-> <<r>>, lookup |-> n.lookup, data |-> n.data]
  BY <1>2, <1>3 DEF MarshalInput, m
<1>5. doc.data \in Digests /\ doc.data # None
  BY InputParts, InputAssumption
<1>6. /\ i \in DOMAIN doc.refs /\ r = Ref(doc.refs[i].repo, doc.refs[i].tag, doc.data)
      /\ r \in References
  <2>1. /\ Pinned(doc.refs, doc.data) \in Seq(References)
        /\ DOMAIN Pinned(doc.refs, doc.data) = DOMAIN doc.refs
        /\ \A h \in DOMAIN doc.refs : Pinned(doc.refs, doc.data)[h] =
               Ref(doc.refs[h].repo, doc.refs[h].tag, doc.data)
    BY <1>5, InputParts, PinnedRefs
  <2> QED BY <1>2, <2>1 DEF r
<1>7. m.type = "blob" => r.tag = None
  <2>1. doc.type = "blob" => doc.refs[i].tag = None
    BY <1>1, <1>6 DEF PushAccepted, RefsAccepted, ToSet
  <2> QED BY <1>2, <1>4, <1>6, <2>1, PartsOf
<1>8. CommonDigest(m.refs) = doc.data /\ RefsAccepted(m.type, m.refs)
  <2>1. m.refs = <<r>> /\ r.digest = doc.data
    BY <1>4, <1>6, PartsOf
  <2> QED BY <1>6, <1>7, <2>1, OneRef
<1>9. /\ n.lookup \in LookupMaps
      /\ \A d \in DOMAIN n.lookup : n.lookup[d] = Ref(LookupOf(doc)[d].repo, None, None)
  <2>1. LookupOf(doc) \in LookupMaps
    BY InputParts
  <2>2. /\ n.lookup \in LookupMaps /\ DOMAIN n.lookup = DOMAIN LookupOf(doc)
        /\ \A d \in DOMAIN LookupOf(doc) \ {None} :
               n.lookup[d] = Ref(LookupOf(doc)[d].repo, None, None)
        /\ None \in DOMAIN LookupOf(doc) =>
               n.lookup[None] = Ref(LookupOf(doc)[None].repo, None, None)
    BY <1>2, <1>5, <2>1, Cleared
  <2> QED BY <2>2
<1>10. LookupAccepted(m.lookup)
  <2>1. m.lookup = n.lookup
    BY <1>4
  <2> QED BY <1>9, <2>1, PartsOf DEF LookupAccepted
<1>11. ClearLookup(LookupOf(m), doc.data, NoRef) = n.lookup
  <2> DEFINE C == ClearLookup(LookupOf(m), doc.data, NoRef)
  <2>1. /\ LookupOf(m) \in LookupMaps /\ DOMAIN LookupOf(m) = DOMAIN n.lookup
        /\ \A d \in DOMAIN n.lookup \ {None} :
               LookupOf(m)[d] = Ref(n.lookup[d].repo, n.lookup[d].tag, d)
        /\ None \in DOMAIN n.lookup => LookupOf(m)[None] = n.lookup[None]
    <3>1. m.lookup = n.lookup
      BY <1>4
    <3> QED BY <1>9, <3>1, Filled DEF LookupOf
  <2>2. /\ C \in LookupMaps /\ DOMAIN C = DOMAIN n.lookup
        /\ \A d \in DOMAIN n.lookup : C[d] = Ref(LookupOf(m)[d].repo, None, None)
    BY <1>5, <2>1, Cleared
  <2> HIDE DEF C
  <2>3. ASSUME NEW d \in DOMAIN n.lookup PROVE C[d] = n.lookup[d]
    <3>1. LookupOf(m)[d].repo = n.lookup[d].repo
      BY <2>1, PartsOf
    <3>2. n.lookup[d].repo = LookupOf(doc)[d].repo
      BY <1>9, PartsOf
    <3> QED BY <1>9, <2>2, <3>1, <3>2
  <2>4. C = [d \in DOMAIN n.lookup |-> C[d]] /\ n.lookup = [d \in DOMAIN n.lookup |-> n.lookup[d]]
    BY <1>9, <2>2, LookupParts
  <2>5. C = n.lookup
    BY <2>3, <2>4
  <2> QED BY <2>5 DEF C
<1>12. Pinned(m.refs, doc.data) = <<r>>
  <2>1. [r EXCEPT !.digest = doc.data] = r
    BY <1>6, ReferenceParts, PartsOf
  <2> QED BY <1>4, <2>1 DEF Pinned
<1>13. m.data = doc.data /\ m.type = n.type
  BY <1>2, <1>4
<1>14. PushAccepted(m)
  BY <1>1, <1>2, <1>8, <1>10, <1>13 DEF PushAccepted
<1>15. NormalizeInput(m) = PushForm(m)
  BY <1>13, <1>14, PushCase
<1>16. PushForm(m) = e
  BY <1>2, <1>3, <1>11, <1>12, <1>13 DEF PushForm
<1> QED BY <1>15, <1>16 DEF m, e, n

\* A copy that is printed and read again is the same copy, unless its source
\* says nothing (input.go:164-196).
LEMMA CopyAgain ==
    ASSUME NEW doc \in Inputs, doc.data = NoData, NormalizeInput(doc) # Refused,
           CopyFrom(doc).digest # None \/ CopyFrom(doc).tag # None,
           NEW i \in DOMAIN NormalizeInput(doc).refs
    PROVE  NormalizeInput(MarshalInput(Printed(NormalizeInput(doc), i)))
               = Printed(NormalizeInput(doc), i)
<1> DEFINE n == NormalizeInput(doc)
           r == n.refs[i]
           e == Printed(n, i)
           m == MarshalInput(e)
           g == CopyDigest(doc)
<1> HIDE DEF n, r, e, m, g
<1>1. CopyAccepted(doc) /\ n = CopyForm(doc)
  BY CopyCase DEF n
<1>2. /\ n.type = doc.type /\ n.refs = Pinned(doc.refs, g) /\ n.lookup = CopyLookup(doc)
      /\ n.data = NoData /\ n.copyFrom = CopyFrom(doc) /\ i \in DOMAIN n.refs
  BY <1>1 DEF CopyForm, n, g
<1>3. e = [type |-> n.type, refs |-> <<r>>, lookup |-> n.lookup, data |-> n.data,
           copyFrom |-> n.copyFrom]
  BY <1>1, <1>2 DEF CopyForm, Printed, e, r
<1>4. m = [type |-> n.type, refs |-> <<r>>, lookup |-> n.lookup, data |-> NoData]
  BY <1>2, <1>3 DEF MarshalInput, m
<1>5. /\ g \in Digests \cup {None} /\ CopyFrom(doc) \in References
      /\ CopyLookup(doc) \in LookupMaps
      /\ CommonDigest(doc.refs) \in Digests \cup {None}
  BY <1>1, CopyParts DEF g
<1>6. /\ i \in DOMAIN doc.refs /\ r = Ref(doc.refs[i].repo, doc.refs[i].tag, g)
      /\ r \in References
  <2>1. /\ Pinned(doc.refs, g) \in Seq(References)
        /\ DOMAIN Pinned(doc.refs, g) = DOMAIN doc.refs
        /\ \A h \in DOMAIN doc.refs : Pinned(doc.refs, g)[h] =
               Ref(doc.refs[h].repo, doc.refs[h].tag, g)
    BY <1>5, InputParts, PinnedRefs
  <2> QED BY <1>2, <2>1 DEF r
<1>7. m.type = "blob" => r.tag = None
  <2>1. doc.type = "blob" => doc.refs[i].tag = None
    BY <1>1, <1>6 DEF CopyAccepted, RefsAccepted, ToSet
  <2> QED BY <1>2, <1>4, <1>6, <2>1, PartsOf
<1>8. CommonDigest(m.refs) = g /\ RefsAccepted(m.type, m.refs)
  <2>1. m.refs = <<r>> /\ r.digest = g
    BY <1>4, <1>6, PartsOf
  <2> QED BY <1>6, <1>7, <2>1, OneRef
<1>9. /\ SourceOf(doc).from # NoRef /\ SourceOf(doc).by \in {None, g}
      /\ LookupOf(doc) \in LookupMaps
      /\ \A d \in DOMAIN LookupOf(doc) \ {None} : LookupOf(doc)[d].digest = d
  BY <1>1, InputParts DEF CopyAccepted, g
<1>10. LookupOf(m) = FillLookup(CopyLookup(doc))
  BY <1>2, <1>4 DEF LookupOf
<1>11. /\ CopySource(g, LookupOf(m)) = [from |-> CopyFrom(doc), by |-> g]
       /\ ClearLookup(WithFallback(LookupOf(m), CopyFrom(doc)), g, CopyFrom(doc))
              = CopyLookup(doc)
  <2>1. /\ SourceOf(doc) = CopySource(CommonDigest(doc.refs), LookupOf(doc))
        /\ g = DigestOf(CommonDigest(doc.refs), SourceOf(doc))
        /\ CopyFrom(doc) = CopyFromOf(SourceOf(doc), g)
        /\ CopyLookup(doc) =
               ClearLookup(WithFallback(LookupOf(doc), SourceOf(doc).from), g, CopyFrom(doc))
    BY DEF SourceOf, g, CopyDigest, CopyFrom, CopyLookup
  <2> QED BY ONLY <1>5, <1>9, <1>10, <2>1, CopiedAgain,
                  CopyFrom(doc).digest # None \/ CopyFrom(doc).tag # None
<1>12. /\ SourceOf(m) = [from |-> CopyFrom(doc), by |-> g] /\ CopyDigest(m) = g
  BY <1>8, <1>11 DEF SourceOf, CopyDigest, DigestOf
<1>13. CopyFrom(m) = CopyFrom(doc)
  <2>1. CASE g = None
    BY <1>12, <2>1 DEF CopyFrom, CopyFromOf
  <2>2. CASE g # None
    <3>1. CopyFrom(doc).tag = None
      <4>1. SourceOf(doc).from \in References
        BY <1>5, <1>9, CopiedFrom DEF SourceOf, g, CopyDigest
      <4>2. CopyFrom(doc) = [SourceOf(doc).from EXCEPT !.tag = None]
        BY <2>2 DEF CopyFrom, CopyFromOf, g
      <4> QED BY <4>1, <4>2, ReferenceParts, PartsOf
    <3>2. CopyFrom(m) = [CopyFrom(doc) EXCEPT !.tag = None]
      BY <1>12, <2>2 DEF CopyFrom, CopyFromOf
    <3> QED BY <1>5, <3>1, <3>2, ReferenceParts
  <2> QED BY <2>1, <2>2
<1>14. CopyLookup(m) = CopyLookup(doc)
  BY <1>11, <1>12, <1>13 DEF CopyLookup
<1>15. Pinned(m.refs, g) = <<r>>
  <2>1. [r EXCEPT !.digest = g] = r
    BY <1>6, ReferenceParts, PartsOf
  <2> QED BY <1>4, <2>1 DEF Pinned
<1>16. LookupAccepted(m.lookup)
  <2>1. m.lookup = CopyLookup(doc)
    BY <1>2, <1>4
  <2>2. ASSUME NEW d \in DOMAIN CopyLookup(doc) \ {None} PROVE CopyLookup(doc)[d].digest = None
    <3> DEFINE W == WithFallback(LookupOf(doc), SourceOf(doc).from)
    <3>1. SourceOf(doc).from \in References
      BY <1>5, <1>9, CopiedFrom DEF SourceOf, g, CopyDigest
    <3>2. W \in LookupMaps
      BY <1>9, <3>1, FallbackAdded
    <3> HIDE DEF W
    <3>3. CopyLookup(doc) = ClearLookup(W, CopyDigest(doc), CopyFrom(doc))
      BY DEF CopyLookup, W
    <3>4. CopyLookup(doc)[d] = Ref(W[d].repo, None, None)
      BY <3>2, <3>3, Cleared
    <3> QED BY <3>4, PartsOf
  <2> QED BY <2>1, <2>2 DEF LookupAccepted
<1>17. m.data = NoData /\ m.type = n.type
  BY <1>4
<1>18. m.type = "blob" => CopyFrom(doc).digest # None
  <2>1. doc.type = "blob" => SourceOf(doc).from.digest # None
    BY <1>1 DEF CopyAccepted
  <2>2. CopyFrom(doc).digest = SourceOf(doc).from.digest
    <3>1. SourceOf(doc).from \in References
      BY <1>5, <1>9, CopiedFrom DEF SourceOf, g, CopyDigest
    <3>2. CASE g = None
      BY <3>2 DEF CopyFrom, CopyFromOf, g
    <3>3. CASE g # None
      <4>1. CopyFrom(doc) = [SourceOf(doc).from EXCEPT !.tag = None]
        BY <3>3 DEF CopyFrom, CopyFromOf, g
      <4> QED BY <3>1, <4>1, ReferenceParts, PartsOf
    <3> QED BY <3>2, <3>3
  <2> QED BY <1>2, <1>17, <2>1, <2>2
<1>19. CopyAccepted(m)
  <2>1. CopyFrom(doc) # NoRef
    BY <1>5, ReplayAssumption
  <2> QED BY <1>8, <1>12, <1>16, <1>17, <1>18, <2>1 DEF CopyAccepted
<1>20. NormalizeInput(m) = CopyForm(m)
  BY <1>17, <1>19, CopyCase
<1>21. CopyForm(m) = e
  BY <1>2, <1>3, <1>12, <1>13, <1>14, <1>15, <1>17 DEF CopyForm
<1> QED BY <1>20, <1>21 DEF m, e, n

-----------------------------------------------------------------------------

\* The documents and what is made of them, as main reads and prints them
\* (main.go:91-100 and 236-242).
THEOREM Inductive == Spec => []IInv
<1>1. Init => IInv
  BY ReplayAssumption DEF Init, IInv
<1>2. IInv /\ [Next]_vars => IInv'
  <2> SUFFICES ASSUME IInv, [Next]_vars PROVE IInv'
    OBVIOUS
  <2>1. CASE Normalize
    BY <2>1 DEF Normalize, IInv, WasPrinted
  <2>2. CASE EmitRef
    <3>0. PICK i \in DOMAIN normal.refs : emitted' = Printed(normal, i)
      BY <2>2 DEF EmitRef, Printed
    <3>1. /\ normal = NormalizeInput(raw) /\ normal # Refused /\ raw \in Inputs
          /\ raw' = MarshalInput(emitted') /\ normal' = Unread
      BY <2>2 DEF EmitRef, IInv
    <3>2. raw' \in Inputs
      BY <3>0, <3>1, FormType, PrintedType
    <3>3. WasPrinted'
      BY <3>0, <3>1 DEF WasPrinted
    <3> QED BY <3>1, <3>2, <3>3 DEF IInv
  <2>3. CASE Stop \/ UNCHANGED vars
    BY <2>3 DEF Stop, vars, IInv, WasPrinted
  <2> QED BY <2>1, <2>2, <2>3 DEF Next
<1> QED BY <1>1, <1>2, PTL DEF Spec

\* What a document names itself, by its data, its lookup or its copy, is among the keys that
\* main.go read-locks for it, at both places where EnsureManifest goes for it
\* (main.go:170-208, push.go:83-96): what AllBelowIsOver takes of the jobs.
THEOREM NamedIsLocked ==
    ASSUME NEW n, NEW i \in DOMAIN n.refs,
           n.copyFrom = NoRef /\ n.type = "manifest" => n.data # NoData
    PROVE  GoesToFirst(n, i) \subseteq ReadKeys(n, i)
<1>1. CASE n.copyFrom = NoRef /\ n.type = "manifest"
  <2>1. GoesToFirst(n, i) =
          LookupKeys(n) \cup PlacesBelow(n, n.refs[i], FirstObject(n, n.refs[i]))
    BY <1>1 DEF GoesToFirst
  <2>2. ASSUME NEW c \in ChildrenOf[n.data]
        PROVE  {Key(n.refs[i].repo, c), Key(ChildRepo(n, FallbackRepo(n, n.refs[i]), c), c)}
                   \subseteq ChildKeys(n, n.refs[i])
    <3>1. ChildRepo(n, FallbackRepo(n, n.refs[i]), c) \in
              {n.refs[i].repo} \cup {n.lookup[d].repo : d \in {c, None} \cap DOMAIN n.lookup}
      BY DEF ChildRepo, FallbackRepo
    <3> QED BY <1>1, <3>1 DEF ChildKeys
  <2>3. FirstObject(n, n.refs[i]) = <<n.data, FallbackRepo(n, n.refs[i])>>
    BY <1>1 DEF FirstObject, Pushed
  <2>4. PlacesBelow(n, n.refs[i], FirstObject(n, n.refs[i])) \subseteq ChildKeys(n, n.refs[i])
    BY <2>2, <2>3 DEF PlacesBelow, ChildObjects
  <2> QED BY <2>1, <2>4 DEF ReadKeys
<1>2. CASE ~(n.copyFrom = NoRef /\ n.type = "manifest")
  BY <1>2 DEF GoesToFirst, ReadKeys
<1> QED BY <1>1, <1>2

\* What a dry run prints means, read again, what it was printed from: "deploy
\* --dry-run leans on that assumption" (input_test.go:463), but for zero bytes
\* of data and for a source that says nothing.
THEOREM RoundTrip == Spec => []RoundTripOtherwise
<1>1. IInv => RoundTripOtherwise
  <2> SUFFICES ASSUME IInv, normal # Unread, emitted # Unread,
                      ~LosesData(emitted), ~LosesSource(emitted)
               PROVE  normal = emitted
    BY DEF RoundTripOtherwise
  <2>1. normal = NormalizeInput(MarshalInput(emitted)) /\ WasPrinted
    BY DEF IInv
  <2>2. PICK doc \in Inputs :
            /\ NormalizeInput(doc) # Refused
            /\ \E i \in DOMAIN NormalizeInput(doc).refs :
                   emitted = Printed(NormalizeInput(doc), i)
    BY <2>1 DEF WasPrinted
  <2>3. PICK i \in DOMAIN NormalizeInput(doc).refs : emitted = Printed(NormalizeInput(doc), i)
    BY <2>2
  <2>4. /\ emitted.data = NormalizeInput(doc).data
        /\ emitted.copyFrom = NormalizeInput(doc).copyFrom
    BY <2>2, <2>3, FormType, PrintedType
  <2>5. CASE doc.data = NoData
    <3>1. CopyAccepted(doc) /\ NormalizeInput(doc) = CopyForm(doc)
      BY <2>2, <2>5, CopyCase
    <3>2. emitted.copyFrom = CopyFrom(doc) /\ CopyFrom(doc) # NoRef
      BY <2>4, <3>1, CopyParts, ReplayAssumption DEF CopyForm
    <3>3. CopyFrom(doc).digest # None \/ CopyFrom(doc).tag # None
      BY <3>2 DEF LosesSource
    <3> QED BY <2>1, <2>2, <2>3, <2>5, <3>3, CopyAgain
  <2>6. CASE doc.data # NoData
    <3>1. NormalizeInput(doc).data = doc.data
      BY <2>2, <2>6, PushCase DEF PushForm
    <3>2. doc.data # EmptyData
      BY <2>4, <3>1 DEF LosesData
    <3> QED BY <2>1, <2>2, <2>3, <2>6, <3>2, PushAgain
  <2> QED BY <2>5, <2>6
<1> QED BY <1>1, Inductive, PTL

\* A copy whose refs have a digest copies that digest (input.go:226-229),
\* unless all that its lookup has is a fallback.
THEOREM CopiesTheDigest == Spec => []CopyByDigest
<1>1. IInv => CopyByDigest
  <2> SUFFICES ASSUME IInv, Accepted, normal.copyFrom # NoRef, DOMAIN raw.lookup # {None},
                      NEW i \in DOMAIN normal.refs, normal.refs[i].digest # None
               PROVE  normal.copyFrom.digest = normal.refs[i].digest
    BY DEF CopyByDigest
  <2>1. raw \in Inputs /\ normal = NormalizeInput(raw) /\ normal # Refused
    BY DEF IInv, Accepted
  <2>2. raw.data = NoData
    <3> SUFFICES ASSUME raw.data # NoData PROVE FALSE
      OBVIOUS
    <3> QED BY <2>1, PushCase DEF PushForm
  <2>3. CopyAccepted(raw) /\ normal = CopyForm(raw)
    BY <2>1, <2>2, CopyCase
  <2> DEFINE L == LookupOf(raw)
             rd == CommonDigest(raw.refs)
             s == SourceOf(raw)
             g == CopyDigest(raw)
  <2>4. normal.refs = Pinned(raw.refs, g) /\ normal.copyFrom = CopyFrom(raw)
    BY <2>3 DEF CopyForm
  <2>5. g \in Digests \cup {None} /\ rd \in Digests \cup {None}
    BY <2>1, <2>3, CopyParts
  <2>6. normal.refs[i].digest = g
    BY <2>1, <2>4, <2>5, InputParts, PinnedRefs, PartsOf
  <2>7. /\ L \in LookupMaps /\ DOMAIN L = DOMAIN raw.lookup
        /\ \A d \in DOMAIN L \ {None} : L[d].digest = d
    BY <2>1, InputParts, Filled DEF LookupOf
  <2>8. s = CopySource(rd, L) /\ s.from # NoRef /\ s.by \in {None, g}
        /\ g = DigestOf(rd, s) /\ CopyFrom(raw) = CopyFromOf(s, g)
    BY <2>3 DEF CopyAccepted, SourceOf, CopyDigest, CopyFrom
  <2> HIDE DEF L, rd, s, g
  <2>9. s.from \in References
    BY <2>5, <2>7, <2>8, CopiedFrom
  <2>10. CopyFrom(raw) = Ref(s.from.repo, None, s.from.digest) /\ g # None
    BY <2>6, <2>8, <2>9, ReferenceParts DEF CopyFromOf
  <2>11. s.from.digest = g
    <3>1. Filed(L, rd, s) \/ Alone(L, rd, s) \/ AsItIs(L, rd, s) \/ FromFallback(L, rd, s)
      BY <2>5, <2>7, <2>8, Sources
    <3>2. CASE Filed(L, rd, s)
      BY <2>7, <2>8, <3>2 DEF Filed, DigestOf
    <3>3. CASE Alone(L, rd, s)
      <4>1. PICK e \in Digests : DOMAIN L = {e} /\ s = [from |-> L[e], by |-> e]
        BY <3>3 DEF Alone
      <4>2. s.by = e /\ s.from = L[e] /\ e # None
        BY <4>1, InputAssumption
      <4> QED BY <2>7, <2>8, <4>1, <4>2
    <3>4. CASE FromFallback(L, rd, s)
      BY <2>8, <3>4, PartsOf DEF FromFallback, DigestOf
    <3> QED BY <2>7, <3>1, <3>2, <3>3, <3>4 DEF AsItIs
  <2> QED BY <2>4, <2>6, <2>10, <2>11, PartsOf
<1> QED BY <1>1, Inductive, PTL
=============================================================================
