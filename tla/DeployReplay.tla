---------------------------- MODULE DeployReplay ----------------------------
(***************************************************************************)
(* A document goes through NormalizeInput (cmd/deploy/input.go) and, with  *)
(* --dry-run, comes out again as one document per ref that needs a push    *)
(* (cmd/deploy/main.go:235-241).  Those documents are input for a deploy   *)
(* themselves, and are normalised anew.                                    *)
(***************************************************************************)
EXTENDS DeployInput

CONSTANTS
    Repos, Tags,    \* the repositories, and the tags
    RawInputs,      \* the documents to start from
    Unread          \* no document has been normalised yet

References == [repo : Repos, tag : Tags \cup {None}, digest : Digests \cup {None}]

\* finite maps from digests, and None for the fallback, to references
LookupMaps ==
    UNION {[ds -> References] : ds \in {s \in SUBSET (Digests \cup {None}) : IsFiniteSet(s)}}

\* inputRaw and, without mediaType, inputNormalized (input.go:26-53)
Inputs == [type : {"manifest", "blob"}, refs : Seq(References),
           lookup : LookupMaps, data : Digests \cup {NoData}]

ASSUME ReplayAssumption ==
    RawInputs \subseteq Inputs /\ NoRef \notin References

VARIABLES
    raw,        \* the document being read
    normal,     \* what NormalizeInput made of it
    emitted     \* the normalised input that raw was printed from, if any

vars == <<raw, normal, emitted>>

Init ==
    /\ raw \in RawInputs
    /\ normal = Unread
    /\ emitted = Unread

Normalize ==
    /\ normal = Unread
    /\ normal' = NormalizeInput(raw)
    /\ UNCHANGED <<raw, emitted>>

\* normal.Refs = []registry.Reference{ref}, marshalled for the ref's own job
EmitRef ==
    /\ normal \notin {Unread, Refused} /\ emitted = Unread
    /\ \E i \in DOMAIN normal.refs :
           emitted' = [normal EXCEPT !.refs = <<normal.refs[i]>>]
    /\ raw' = MarshalInput(emitted')
    /\ normal' = Unread

\* an error ends the process, and so does having replayed the document
Stop == /\ normal # Unread /\ (normal = Refused \/ emitted # Unread)
        /\ UNCHANGED vars

Next == Normalize \/ EmitRef \/ Stop

Spec == Init /\ [][Next]_vars

(***************************************************************************)
(* Properties.                                                             *)
(***************************************************************************)
Accepted == normal \notin {Unread, Refused}

\* the two inputs that a dry run does not print faithfully: "omitempty" drops
\* data of zero bytes (input.go:47), and a source without tag or digest comes
\* back as a fallback that says nothing (input.go:120)
LosesData(n) == n.data = EmptyData
LosesSource(n) == n.copyFrom # NoRef /\ n.copyFrom.digest = None /\ n.copyFrom.tag = None

\* What a dry run prints means, read again, what it was printed from:
\* "deploy --dry-run leans on that assumption" (input_test.go:463).  It holds
\* of every input but those two kinds.
RoundTripOtherwise ==
    normal # Unread /\ emitted # Unread /\ ~LosesData(emitted) /\ ~LosesSource(emitted)
        => normal = emitted

\* A copy whose refs have a digest copies that digest: the tag copied from
\* "is no longer relevant information" (input.go:226).  A lookup of nothing but
\* a fallback is the exception: it is taken as it stands, and then loses its
\* tag (input.go:170-173, 228).
CopyByDigest ==
    Accepted /\ normal.copyFrom # NoRef /\ DOMAIN raw.lookup # {None} =>
        \A i \in DOMAIN normal.refs : normal.refs[i].digest # None =>
            normal.copyFrom.digest = normal.refs[i].digest
=============================================================================
