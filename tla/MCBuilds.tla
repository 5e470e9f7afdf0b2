------------------------------ MODULE MCBuilds ------------------------------
(***************************************************************************)
(* Builds on a small family of images: two built on the same image of      *)
(* somebody else's and one built on both; and two built on two images.     *)
(***************************************************************************)
EXTENDS Builds

CONSTANTS debian, alpine

OneBase == <<<<debian>>, <<debian>>, <<1, 2>>>>
\* a child before its parent
Backwards == <<<<debian, 2>>, <<>>, <<1>>>>
TwoBases == <<<<debian>>, <<alpine>>>>

OneBaseOnly == {OneBase, Backwards}
TwoBasesOnly == {TwoBases}

\* the first two builds come to the same thing; the last is not signed
SamePayload == <<"p", "p", "none">>
NoPayload == <<"none", "none">>
\* the key pair of run 2 may be another; the public key may be left out, or be
\* that of another key
Signers == {[signs |-> "k1", public |-> "k1"], [signs |-> "k2", public |-> "k2"],
            [signs |-> "k2", public |-> NoKey], [signs |-> "k2", public |-> "k1"]}
NoSigners == {[signs |-> "k1", public |-> NoKey]}
=============================================================================
