-------------------------- MODULE MCRegistryCache --------------------------
(***************************************************************************)
(* RegistryCache with two goroutines, two repositories, one tag and two    *)
(* objects.                                                                *)
(***************************************************************************)
EXTENDS RegistryCache

Call(kind, repo, digest, tag, from) ==
    [kind |-> kind, repo |-> repo, digest |-> digest, tag |-> tag, from |-> from]

Get(r, d) == Call("get", r, d, None, None)
Resolve(r, d) == Call("resolve", r, d, None, None)
GetTag(r, t) == Call("getTag", r, None, t, None)
ResolveTag(r, t) == Call("resolveTag", r, None, t, None)
PushManifest(r, d, t) == Call("pushManifest", r, d, t, None)
PushBlob(r, d) == Call("pushBlob", r, d, None, None)
Mount(f, r, d) == Call("mount", r, d, None, f)

\* everything that can meet on one object in one repository, and in another
DataCalls ==
    {Get("a", "x"), Get("b", "x"), Resolve("a", "x"), GetTag("a", "t"),
     PushBlob("b", "x"), Mount("a", "b", "x"), PushManifest("a", "x", None)}
\* everything that moves a tag, or reads one
TagCalls ==
    {GetTag("a", "t"), ResolveTag("a", "t"), PushManifest("a", "x", "t"),
     PushManifest("a", "y", "t"), Resolve("a", "y"), Get("a", "x")}
TagsAndData == {DataCalls, TagCalls}

\* an object or a tag that no call names may as well be missing upstream
Named == {<<c.repo, c.digest>> : c \in workload} \cup {<<c.repo, c.tag>> : c \in workload}
NamedOnly == upHas \subseteq Named /\ \A k \in TagKeys \ Named : upTags[k] = None

MCInit == Init /\ NamedOnly

MCSpec == MCInit /\ [][Next]_vars /\ Fairness
=============================================================================
