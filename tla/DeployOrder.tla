---------------------------- MODULE DeployOrder ----------------------------
(***************************************************************************)
(* What cmd/deploy promises of the order of its pushes: "stop parents from *)
(* being pushed before their children" (main.go:65), and nothing about how.*)
(* A push begins when the pushes it depends on are over and nobody is in   *)
(* its way, and ends well or not.                                          *)
(***************************************************************************)
EXTENDS Integers

CONSTANTS
    NJobs,      \* how many (input, ref) pairs the stream holds
    Target,     \* what each job pushes
    Writers,    \* the jobs that push it on behalf of their input
    Reads,      \* what each job needs to find
    MayFail     \* the jobs whose push may return an error

VARIABLES
    parallel,   \* whether --parallel was given
    state,      \* job -> how its push stands
    ended       \* whether the process has ended

vars == <<parallel, state, ended>>

Jobs == 1..NJobs

\* j needs what i pushes, or pushes it as well
Follows(j, i) ==
    i \in Writers /\ (Target[i] \in Reads[j] \/ (j \in Writers /\ Target[i] = Target[j]))

Over(i) == state[i] \in {"pushed", "failed"}

Init ==
    /\ parallel \in BOOLEAN
    /\ state = [j \in Jobs |-> "waiting"]
    /\ ended = FALSE

Begin(j) ==
    /\ ~ended /\ state[j] = "waiting"
    /\ \A i \in Jobs : i < j /\ Follows(j, i) => Over(i)
    /\ \A i \in Jobs : state[i] = "pushing" => ~Follows(j, i) /\ ~Follows(i, j)
    /\ ~parallel => \A i \in Writers : i < j => state[i] = "pushed"
    /\ state' = [state EXCEPT ![j] = "pushing"]
    /\ UNCHANGED <<parallel, ended>>

End(j) ==
    /\ ~ended /\ state[j] = "pushing"
    /\ \/ state' = [state EXCEPT ![j] = "pushed"]
       \/ j \in MayFail /\ state' = [state EXCEPT ![j] = "failed"]
    /\ UNCHANGED <<parallel, ended>>

\* at the end of the stream or because a push failed; with --parallel also
\* because a document is refused while those before it are still pushed
Stop ==
    /\ ~ended
    /\ \/ parallel
       \/ \A j \in Jobs : state[j] = "pushed"
       \/ \E j \in Jobs : state[j] = "failed"
    /\ ended' = TRUE
    /\ UNCHANGED <<parallel, state>>

Next == Stop \/ \E j \in Jobs : Begin(j) \/ End(j)

Spec == Init /\ [][Next]_vars
=============================================================================
