------------------------------ MODULE MCClient ------------------------------
(***************************************************************************)
(* Client with two requests: both to Docker Hub, or one of them elsewhere. *)
(***************************************************************************)
EXTENDS Client

To(host, kind) == [host |-> host, kind |-> kind]
Pair(one, two) == [g \in Goroutines |-> IF g = 1 THEN one ELSE two]

MCWorkloads ==
    {Pair(To("hub", "lookup"), To("hub", "push")),
     Pair(To("hub", "lookup"), To("hub", "stream")),
     Pair(To("hub", "lookup"), To("local", "push"))}
=============================================================================
