------------------------------- MODULE Client -------------------------------
(***************************************************************************)
(* registry/client.go, lookup.go and rate-limits.go: goroutines that each  *)
(* want the client of a host, which is made once, and then send a request  *)
(* that is paced, refused and repeated below that client.                  *)
(*                                                                         *)
(* A tick is the second in which a request is tried at most once; PerTick  *)
(* of the limiter's tokens come with it.  golang.org/x/time/rate and the   *)
(* transport are external: Wait takes a token at once, be there one or     *)
(* not, and waits until it has come; Allow takes one only if it is there.  *)
(***************************************************************************)
EXTENDS Integers, FiniteSets

CONSTANTS
    Goroutines, Hosts,
    None,           \* no goroutine
    Limited,        \* the hosts in registryRateLimiters: one, docker.io
    Workloads,      \* [Goroutines -> Requests]: what they may be about to do
    Burst, PerTick, \* of the limiter
    MaxRefused      \* bound: how often a registry answers 429 in all

\* a push has GetBody, a stream has a body that can be read once
Requests == [host : Hosts, kind : {"lookup", "push", "stream"}]

ASSUME ClientAssumption ==
    /\ IsFiniteSet(Goroutines) /\ None \notin Goroutines
    /\ Limited \subseteq Hosts /\ Cardinality(Limited) <= 1
    /\ Workloads \subseteq [Goroutines -> Requests]
    /\ Burst \in Nat \ {0} /\ PerTick \in Nat \ {0} /\ MaxRefused \in Nat

VARIABLES
    request,    \* goroutine -> what it is about to do
    cached,     \* clientCache: host -> the goroutine whose closure is stored
    once,       \* closure -> what its OnceValues has come to
    auth,       \* what that of authConfigFunc has come to
    pc, mine,   \* goroutine -> where it stands; the closure it calls
    tokens,     \* of the limiter, below 0 when tokens to come are taken
    wait, rest, \* goroutine -> ticks until its token is there; until its next try
    left50x,    \* goroutine -> maxTry50X
    drain,      \* goroutine -> calls of Allow to come
    body,       \* goroutine -> whether the body can be sent
    last,       \* goroutine -> the answer to its last try, or ""
    result,     \* goroutine -> what it got in the end, or ""
    refused,    \* how often a 429 was the answer
    spare,      \* history: how many more requests may have been sent by now
    failed50x,  \* history: goroutine -> its 50x answers
    ticked      \* history: goroutine -> did the clock tick since its last answer

onceVars == <<request, cached, once, auth, mine>>
history == <<spare, failed50x, ticked>>
vars == <<onceVars, pc, tokens, wait, rest, left50x, drain, body, last, result,
          refused, history>>

Least(a, b) == IF a < b THEN a ELSE b
Host(g) == request[g].host
Lookup(g) == request[g].kind = "lookup"

\* how many requests can still be sent: bound of the history variable
Tries == {t \in Goroutines \X (1..3) : pc[t[1]] # "end" /\ t[2] <= left50x[t[1]]}
Sendable == MaxRefused - refused + Cardinality(Tries)

Init ==
    /\ request \in Workloads
    /\ cached = [h \in Hosts |-> None]
    /\ once = [g \in Goroutines |-> "idle"]
    /\ auth = "idle"
    /\ pc = [g \in Goroutines |-> "start"]
    /\ mine = [g \in Goroutines |-> None]
    /\ tokens = Burst /\ spare = Burst
    /\ wait = [g \in Goroutines |-> 0]
    /\ rest = [g \in Goroutines |-> 0]
    /\ left50x = [g \in Goroutines |-> 3]
    /\ drain = [g \in Goroutines |-> 0]
    /\ body = [g \in Goroutines |-> IF Lookup(g) THEN "none" ELSE "whole"]
    /\ last = [g \in Goroutines |-> ""]
    /\ result = [g \in Goroutines |-> ""]
    /\ refused = 0
    /\ failed50x = [g \in Goroutines |-> 0]
    /\ ticked = [g \in Goroutines |-> FALSE]

Goto(g, place) == pc' = [pc EXCEPT ![g] = place]
Return(g, r) == Goto(g, "end") /\ result' = [result EXCEPT ![g] = r]
sending == <<tokens, wait, rest, left50x, drain, body, last, refused, history>>

(***************************************************************************)
(* Client: f, _ := clientCache.LoadOrStore(host, sync.OnceValues(...)),    *)
(* return f().                                                             *)
(***************************************************************************)

\* slip: stored even if there is one
StoredAnew(g) == g
\* which closure the map has for the host: what was stored first stays
Stored(g) == IF cached[Host(g)] = None THEN g ELSE cached[Host(g)]

LoadOrStore(g) ==
    /\ pc[g] = "start"
    /\ cached' = [cached EXCEPT ![Host(g)] = Stored(g)]
    /\ mine' = [mine EXCEPT ![g] = Stored(g)]
    /\ Goto(g, "once")
    /\ UNCHANGED <<request, once, auth, result, sending>>

\* f(): the first one runs it, others block until it is done
CallOnce(g) ==
    /\ pc[g] = "once" /\ once[mine[g]] # "running"
    /\ \/ /\ once[mine[g]] = "idle"
          /\ once' = [once EXCEPT ![mine[g]] = "running"]
          /\ Goto(g, "auth") /\ UNCHANGED result
       \/ once[mine[g]] = "ok" /\ Goto(g, "request") /\ UNCHANGED <<once, result>>
       \/ once[mine[g]] = "failed" /\ Return(g, "noclient") /\ UNCHANGED once
    /\ UNCHANGED <<request, cached, auth, mine, sending>>

\* slip: the others go on waiting for one that failed
Unsettled(g) == once
\* the error is kept, for all who ask
Failed(g) == [once EXCEPT ![mine[g]] = "failed"]

\* authConfigFunc(), likewise
CallAuth(g) ==
    /\ pc[g] = "auth" /\ auth # "running"
    /\ \/ auth = "idle" /\ auth' = "running" /\ Goto(g, "load") /\ UNCHANGED <<once, result>>
       \/ auth = "ok" /\ Goto(g, "make") /\ UNCHANGED <<once, auth, result>>
       \/ /\ auth = "failed" /\ Return(g, "noclient")
          /\ once' = Failed(g) /\ UNCHANGED auth
    /\ UNCHANGED <<request, cached, mine, sending>>

LoadAuth(g) ==
    /\ pc[g] = "load"
    /\ auth' \in {"ok", "failed"}
    /\ Goto(g, "auth")
    /\ UNCHANGED <<request, cached, once, mine, result, sending>>

\* ociclient.New, the settings of a proxy, and RegistryCache around it all
MakeClient(g) ==
    /\ pc[g] = "make"
    /\ \/ once' = [once EXCEPT ![mine[g]] = "ok"] /\ Goto(g, "request") /\ UNCHANGED result
       \/ once' = Failed(g) /\ Return(g, "noclient")
    /\ UNCHANGED <<request, cached, auth, mine, sending>>

(***************************************************************************)
(* RoundTrip.                                                              *)
(***************************************************************************)
Paced(g) == Host(g) \in Limited
\* a host without a limiter has no such transport either: one try
Request(g) ==
    /\ pc[g] = "request"
    /\ Goto(g, IF Paced(g) THEN "pace" ELSE "send")
    /\ UNCHANGED <<onceVars, result, sending>>

\* slip: sent at once, with a token to come
Unwaited(n) == 0
\* in how many ticks a token comes when n are taken before their time
TicksFor(n) == IF n <= 0 THEN 0 ELSE (n + PerTick - 1) \div PerTick

\* requestRetryLimiter.Wait, then d.limiter.Wait
Reserve(g) ==
    /\ pc[g] = "pace" /\ rest[g] = 0
    /\ rest' = [rest EXCEPT ![g] = 1]
    /\ tokens' = tokens - 1
    /\ wait' = [wait EXCEPT ![g] = TicksFor(1 - tokens)]
    /\ Goto(g, "send")
    /\ UNCHANGED <<onceVars, left50x, drain, body, last, result, refused, history>>

\* a body that an earlier try has read cannot be sent again
Send(g) ==
    /\ pc[g] = "send" /\ wait[g] = 0
    /\ IF body[g] = "spent"
       THEN Return(g, "nobody") /\ UNCHANGED <<body, spare>>
       ELSE /\ Goto(g, "await")
            /\ body' = [body EXCEPT ![g] = IF @ = "whole" THEN "spent" ELSE @]
            /\ spare' = IF Paced(g) THEN spare - 1 ELSE spare
            /\ UNCHANGED result
    /\ last' = [last EXCEPT ![g] = ""]
    /\ UNCHANGED <<onceVars, tokens, wait, rest, left50x, drain, refused, failed50x, ticked>>

\* "broken" is another status, or no answer
Answers == {"200", "404-like", "429", "50x", "broken"}

\* doRetry
Retried(g, a) == a = "429" \/ (a = "50x" /\ left50x[g] > 1)

\* what Lookup makes of an answer, and what the caller gets of a push
Outcome(g, a) ==
    IF a = "200" THEN "ok"
    ELSE IF a = "404-like" /\ Lookup(g) THEN "nil" ELSE "error"

\* slip: one token is left
AllButOne == IF tokens > 0 THEN tokens - 1 ELSE 0
\* for i := d.limiter.Tokens(); i > 0; i--
Available == IF tokens > 0 THEN tokens ELSE 0

Answer(g, a) ==
    /\ pc[g] = "await"
    /\ a = "429" => refused < MaxRefused
    /\ refused' = IF a = "429" THEN refused + 1 ELSE refused
    /\ last' = [last EXCEPT ![g] = a]
    /\ failed50x' = [failed50x EXCEPT ![g] = IF a = "50x" THEN @ + 1 ELSE @]
    /\ ticked' = [ticked EXCEPT ![g] = FALSE]
    /\ IF Paced(g) /\ Retried(g, a)
       THEN /\ Goto(g, IF a = "429" THEN "drain" ELSE "again")
            /\ drain' = [drain EXCEPT ![g] = IF a = "429" THEN Available ELSE 0]
            /\ left50x' = [left50x EXCEPT ![g] = IF a = "50x" THEN @ - 1 ELSE @]
            /\ UNCHANGED result
       ELSE Return(g, Outcome(g, a)) /\ UNCHANGED <<drain, left50x>>
    /\ UNCHANGED <<onceVars, tokens, wait, rest, body, spare>>

\* d.limiter.Allow()
Drain(g) ==
    /\ pc[g] = "drain"
    /\ IF drain[g] > 0
       THEN /\ tokens' = IF tokens > 0 THEN tokens - 1 ELSE tokens
            /\ drain' = [drain EXCEPT ![g] = @ - 1]
            /\ UNCHANGED pc
       ELSE Goto(g, "again") /\ UNCHANGED <<tokens, drain>>
    /\ UNCHANGED <<onceVars, wait, rest, left50x, body, last, result, refused, history>>

\* slip: the request is sent again as it is
BodyKept(g) == body[g]
\* req.GetBody()
NewBody(g) == IF request[g].kind = "push" THEN "whole" ELSE body[g]

\* the answer's body cannot be closed, or GetBody fails
Again(g) ==
    /\ pc[g] = "again"
    /\ \/ /\ Goto(g, "pace") /\ body' = [body EXCEPT ![g] = NewBody(g)]
          /\ UNCHANGED <<last, result>>
       \/ /\ last' = [last EXCEPT ![g] = "broken"] /\ Return(g, "error") /\ UNCHANGED body
    /\ UNCHANGED <<onceVars, tokens, wait, rest, left50x, drain, refused, history>>

\* the limiter's tokens after a tick
Refilled == Least(Burst, tokens + PerTick)

Tick ==
    /\ tokens' = Refilled
    /\ wait' = [g \in Goroutines |-> IF wait[g] > 0 THEN wait[g] - 1 ELSE 0]
    /\ rest' = [g \in Goroutines |-> 0]
    /\ spare' = Least(Sendable, spare + PerTick)
    /\ ticked' = [g \in Goroutines |-> pc[g] = "drain"]
    /\ UNCHANGED <<onceVars, pc, left50x, drain, body, last, result, refused, failed50x>>

Step(g) ==
    \/ LoadOrStore(g) \/ CallOnce(g) \/ CallAuth(g) \/ LoadAuth(g) \/ MakeClient(g)
    \/ Request(g) \/ Reserve(g) \/ Send(g)
    \/ \E a \in Answers : Answer(g, a)
    \/ Drain(g) \/ Again(g)

Next == (\E g \in Goroutines : Step(g)) \/ Tick

\* goroutines run, requests are answered, and time passes
Spec == Init /\ [][Next]_vars /\ WF_vars(Tick) /\ \A g \in Goroutines : WF_vars(Step(g))

(***************************************************************************)
(* Properties.                                                             *)
(***************************************************************************)
Places == {"start", "once", "auth", "load", "make", "request", "pace",
           "send", "await", "drain", "again", "end"}

TypeOK ==
    /\ request \in [Goroutines -> Requests]
    /\ cached \in [Hosts -> Goroutines \cup {None}]
    /\ mine \in [Goroutines -> Goroutines \cup {None}]
    /\ once \in [Goroutines -> {"idle", "running", "ok", "failed"}]
    /\ auth \in {"idle", "running", "ok", "failed"}
    /\ pc \in [Goroutines -> Places]
    /\ tokens \in Int /\ tokens <= Burst
    /\ wait \in [Goroutines -> Nat] /\ rest \in [Goroutines -> 0..1]
    /\ left50x \in [Goroutines -> 1..3] /\ failed50x \in [Goroutines -> 0..3]
    /\ drain \in [Goroutines -> 0..Burst]
    /\ body \in [Goroutines -> {"none", "whole", "spent"}]
    /\ last \in [Goroutines -> Answers \cup {""}]
    /\ result \in [Goroutines -> {"", "ok", "nil", "error", "nobody", "noclient"}]
    /\ refused \in 0..MaxRefused /\ spare \in Int
    /\ ticked \in [Goroutines -> BOOLEAN]

\* "cached such that multiple calls for the same registry transparently return
\* the same client object / in-memory registry cache" (client.go:19): whoever
\* comes first, the closures of one host are run once in all, and whoever has a
\* client has the one that is stored.
OneClient ==
    /\ \A c, d \in Goroutines :
           once[c] # "idle" /\ once[d] # "idle" /\ Host(c) = Host(d) => c = d
    /\ \A g \in Goroutines : pc[g] \notin {"start", "once"} => mine[g] = cached[Host(g)]

\* "stick to at most 300/min ... and allow an immediate burst" (rate-limits.go
\* :13): by any time no more requests have gone out to the host than the burst
\* and what the time since the start allows, whoever sent or repeated them.
WithinRate == spare >= 0

\* "eat all available tokens and starve out the rate limiter" (rate-limits.go
\* :50): the tokens are counted and then taken one by one while others take
\* theirs, and still nothing is left but what came with the time.
DrainStarves ==
    [][\A g \in Goroutines : pc[g] = "drain" /\ pc'[g] = "again" /\ ~ticked[g] =>
          tokens' <= 0]_vars

\* A lookup answers that there is nothing only if the registry said so last
\* (lookup.go:79-94).  A limited host's 429 never reaches the caller, its 50x
\* only the third time (rate-limits.go:29, 58), and a body that can be had
\* again is never missing when the request is repeated (rate-limits.go:76).
ResultsMeanIt ==
    \A g \in Goroutines :
        /\ result[g] = "nil" => last[g] = "404-like"
        /\ result[g] = "error" /\ Paced(g) =>
               /\ last[g] # "429"
               /\ last[g] = "50x" => failed50x[g] = 3
        /\ result[g] = "nobody" => request[g].kind = "stream"

\* Every call returns, with whatever result, unless the registry refuses it for
\* ever: nobody waits for a closure that nobody runs, and draining the limiter
\* takes nobody's place in the queue for its tokens (client.go:21, rate-limits.go
\* :37, 49).
CallsReturn == \A g \in Goroutines : <>(pc[g] = "end")
=============================================================================
