----------------------------- MODULE MCPipeline -----------------------------
(***************************************************************************)
(* Pipeline on every index of up to three descriptors, one build each; on  *)
(* pairs of builds that share a tag; and on a few whose tags change.       *)
(***************************************************************************)
EXTENDS Pipeline

MCArchOf == [p \in {"linux/amd64", "linux/arm64", "unknown"} |->
    CASE p = "linux/amd64" -> "amd64" [] p = "linux/arm64" -> "arm64v8" [] OTHER -> None]
\* sort_split_platform has "linux" first, then other names as they sort: no name,
\* "unknown"
MCRank == [p \in {"linux/amd64", "linux/arm64", "unknown", None} |->
    CASE p = "linux/amd64" -> 0 [] p = "linux/arm64" -> 1 [] p = None -> 2 [] OTHER -> 3]
MCConfigPlatform == [d \in {"bare", "odd", "sig", "sig2", "misfit", "other"} |->
    IF d = "bare" THEN "linux/amd64" ELSE None]

Image(digest, platform) ==
    [digest |-> digest, kind |-> "image", subject |-> None, platform |-> platform]
About(digest, kind, subject, platform) ==
    [digest |-> digest, kind |-> kind, subject |-> subject, platform |-> platform]

Amd == Image("amd", "linux/amd64")
Bare == Image("bare", None)
Arm == Image("arm", "linux/arm64")
AttAmd == About("att-amd", "attestation", "amd", "unknown")
AttBare == About("att-bare", "attestation", "bare", "unknown")
AttArm == About("att-arm", "attestation", "arm", "unknown")
AttAmd2 == About("att-amd-2", "attestation", "amd", "unknown")
Sig == About("sig", "signature", "amd", None)
Sig2 == About("sig2", "signature", "amd", None)

Descriptors ==
    {Amd, Bare, Arm, Image("odd", None), AttAmd, AttBare, AttArm, Sig, Sig2,
     About("misfit", "signature", "amd", None), About("other", "signature", "amd", None)}

MCPayloads == [d \in {"sig", "sig2", "misfit", "other"} |->
    CASE d = "sig" -> <<Payload("amd", TRUE, "k1")>>
      [] d = "sig2" -> <<Payload("amd", TRUE, "k2")>>
      [] d = "misfit" -> <<Payload("amd", FALSE, "k1")>>
      [] OTHER -> <<Payload("arm", TRUE, "k1")>>]

Build(raw, keys, names) == [raw |-> raw, keys |-> keys, tags |-> names]

KeyLists == {<<>>, <<"">>, <<"k1">>, <<"k1", "">>, <<"k2", "k1">>}
Lists == UNION {[1..n -> Descriptors] : n \in 1..3} \cup {<<AttAmd, Amd, AttAmd, Sig>>,
            <<AttArm, Arm, AttArm, Amd, AttAmd, Sig>>, <<Arm, Amd, AttArm, AttAmd, Amd>>}
SingleBuilds == {Build(raw, keys, {"x"}) : raw \in Lists, keys \in KeyLists}
SingleHistories == {<<<<b>>>> : b \in SingleBuilds}

\* tags that move, back and forth, and a tag that is added
First == <<Build(<<Amd, AttAmd>>, <<>>, {"x", "y"})>>
Second == <<Build(<<Bare>>, <<>>, {"x"}), Build(<<Amd, AttAmd>>, <<"">>, {"y", "z"})>>
Third == <<Build(<<Arm>>, <<>>, {"x"}), Build(<<Bare>>, <<>>, {"x", "y"})>>
Failing == <<Build(<<Amd, Bare>>, <<>>, {"y"})>>
ChangingHistories == {<<First, Second, First>>, <<First, Third, Second>>, <<Second, Failing, Third>>}

\* two builds with images of our architecture for one tag
Halves == {<<Amd, AttAmd>>, <<Arm, Amd, AttAmd, AttAmd2>>, <<AttBare, Bare, AttBare>>, <<Bare, AttBare, Arm, AttArm>>}
SharedHistories ==
    {<<<<Build(one, <<>>, {"x", "y"}), Build(other, keys, {"x"})>>>> :
        one \in Halves, other \in Halves, keys \in {<<>>, <<"">>, <<"k1">>}}

MCHistories == SingleHistories \cup ChangingHistories \cup SharedHistories

\* an image that is signed in the staging registry
SignedHistories == {<<<<Build(<<Amd, AttAmd, Sig>>, <<"k1">>, names)>>>> : names \in {{"x"}, {"x", "y"}}}
=============================================================================
