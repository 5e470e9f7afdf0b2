---------------------------- MODULE ClientProofs ----------------------------
(***************************************************************************)
(* Proofs about Client, for any number of goroutines, hosts and limiter    *)
(* tokens: the closures of a host are run once in all (OnlyOneClient),     *)
(* what a call returns is what the registry said (ResultsAreMeant),        *)
(* draining leaves nothing (DrainingStarves), and the limiter's rate is    *)
(* kept (RateIsKept).  TypeCorrect follows from what they need.            *)
(***************************************************************************)
EXTENDS Client, FiniteSetTheorems, TLAPS

(***************************************************************************)
(* The inductive invariant.                                                *)
(***************************************************************************)

ClientTyped ==
    /\ request \in [Goroutines -> Requests]
    /\ cached \in [Hosts -> Goroutines \cup {None}]
    /\ mine \in [Goroutines -> Goroutines \cup {None}]
    /\ once \in [Goroutines -> {"idle", "running", "ok", "failed"}]

PlaceTyped ==
    /\ pc \in [Goroutines -> Places]
    /\ body \in [Goroutines -> {"none", "whole", "spent"}]
    /\ last \in [Goroutines -> Answers \cup {""}]
    /\ result \in [Goroutines -> {"", "ok", "nil", "error", "nobody", "noclient"}]

CountTyped ==
    /\ tokens \in Int
    /\ left50x \in [Goroutines -> 1..3]
    /\ failed50x \in [Goroutines -> 0..3]
    /\ drain \in [Goroutines -> Nat]
    /\ ticked \in [Goroutines -> BOOLEAN]

\* what is stored for a host is a closure made for that host
Stores == \A h \in Hosts : cached[h] # None => Host(cached[h]) = h

\* who has looked holds what is stored: it never goes away
Holds == \A g \in Goroutines :
            pc[g] # "start" => mine[g] = cached[Host(g)] /\ cached[Host(g)] # None

\* only what is stored is run
Ran == \A c \in Goroutines : once[c] # "idle" => cached[Host(c)] = c

\* a result is the end
Ends == \A g \in Goroutines : result[g] # "" => pc[g] = "end"

\* each 50x took one of the three tries
Counts50x == \A g \in Goroutines : pc[g] # "end" => failed50x[g] = 3 - left50x[g]

\* only a stream's body is gone when the request is about to be sent
Bodies ==
    \A g \in Goroutines :
        /\ request[g].kind = "lookup" => body[g] = "none"
        /\ request[g].kind = "push" /\ body[g] = "spent" => pc[g] \in {"await", "drain", "again", "end"}

\* as long as no time passes, who drains is to take all there is
Draining == \A g \in Goroutines : pc[g] = "drain" /\ ~ticked[g] => tokens <= drain[g]

ClientInv == ClientTyped /\ PlaceTyped /\ Stores /\ Holds /\ Ran
SendInv == CountTyped /\ Ends /\ Counts50x /\ Bodies /\ ResultsMeanIt /\ Draining
IInv == ClientInv /\ SendInv

(***************************************************************************)
(* It holds at first.                                                      *)
(***************************************************************************)

\* Before a goroutine has run nothing is stored, sent or answered (client.go:20,
\* rate-limits.go:29).
LEMMA InitInv == Init => IInv
<1> SUFFICES ASSUME Init PROVE IInv
    OBVIOUS
<1>1. request \in [Goroutines -> Requests]
    BY ClientAssumption DEF Init
<1>2. ClientTyped /\ PlaceTyped
    BY <1>1 DEF Init, ClientTyped, PlaceTyped, Places
<1>3. /\ left50x = [g \in Goroutines |-> 3] /\ failed50x = [g \in Goroutines |-> 0]
    BY DEF Init
<1>10. drain = [g \in Goroutines |-> 0] /\ tokens = Burst
    BY DEF Init
<1>11. /\ pc = [g \in Goroutines |-> "start"] /\ result = [g \in Goroutines |-> ""]
    BY DEF Init
<1>9. ticked \in [Goroutines -> BOOLEAN]
    BY Zenon DEF Init
<1>4. Stores /\ Holds /\ Ran
    BY <1>1 DEF Init, Stores, Holds, Ran, Host, Requests
<1>5. Ends /\ Counts50x /\ Draining
  <2>1. Ends
      BY <1>11 DEF Ends
  <2>2. Counts50x
      BY <1>3 DEF Counts50x
  <2>3. Draining
      BY <1>11 DEF Draining
  <2> QED BY <2>1, <2>2, <2>3
<1>6. Bodies
    BY <1>1 DEF Init, Bodies, Lookup
<1>7. ResultsMeanIt
    BY <1>11 DEF ResultsMeanIt
<1>8. CountTyped
  <2>1. tokens \in Int
      BY <1>10, ClientAssumption
  <2>2. left50x \in [Goroutines -> 1..3]
      BY <1>3
  <2>3. failed50x \in [Goroutines -> 0..3]
      BY <1>3
  <2>4. drain \in [Goroutines -> Nat]
      BY <1>10
  <2> QED BY <2>1, <2>2, <2>3, <2>4, <1>9 DEF CountTyped
<1> QED BY <1>2, <1>8, <1>4, <1>5, <1>6, <1>7 DEF IInv, ClientInv, SendInv

(***************************************************************************)
(* The client of a host.                                                   *)
(***************************************************************************)

\* LoadOrStore keeps what is there, so nobody who has looked is left with
\* another closure (client.go:21).
LEMMA LoadKeeps ==
    ASSUME NEW g \in Goroutines, ClientInv, LoadOrStore(g)
    PROVE  ClientInv'
<1> USE ClientAssumption
<1> DEFINE h == Host(g)
           c == Stored(g)
<1>1. /\ pc[g] = "start" /\ h \in Hosts /\ c \in Goroutines
      /\ Host(c) = h /\ (cached[h] # None => c = cached[h])
    BY DEF ClientInv, ClientTyped, Stores, LoadOrStore, Stored, Host, Requests
<1>2. /\ cached' = [cached EXCEPT ![h] = c] /\ mine' = [mine EXCEPT ![g] = c]
      /\ pc' = [pc EXCEPT ![g] = "once"] /\ UNCHANGED <<request, once, body, last, result>>
    BY DEF LoadOrStore, Goto, sending
<1>3. \A x \in Goroutines : Host(x)' = Host(x) /\ Host(x) \in Hosts
    BY <1>2 DEF Host, ClientInv, ClientTyped, Requests
<1> HIDE DEF h, c
<1>4. ClientTyped'
    BY <1>1, <1>2 DEF ClientInv, ClientTyped
<1>5. PlaceTyped'
    BY <1>2 DEF ClientInv, PlaceTyped, Places
<1>6. Stores'
    BY <1>1, <1>2, <1>3 DEF Stores, ClientInv, ClientTyped
<1>7. Holds'
  <2> SUFFICES ASSUME NEW x \in Goroutines, pc'[x] # "start"
               PROVE  mine'[x] = cached'[Host(x)] /\ cached'[Host(x)] # None
      BY <1>3 DEF Holds
  <2>1. CASE x = g
      BY <2>1, <1>1, <1>2 DEF ClientInv, ClientTyped, h
  <2>2. CASE x # g
    <3>1. mine[x] = cached[Host(x)] /\ cached[Host(x)] # None
        BY <2>2, <1>2 DEF ClientInv, Holds, PlaceTyped
    <3> QED BY <3>1, <2>2, <1>1, <1>2, <1>3 DEF ClientInv, ClientTyped
  <2> QED BY <2>1, <2>2
<1>8. Ran'
  <2> SUFFICES ASSUME NEW x \in Goroutines, once[x] # "idle" PROVE cached'[Host(x)] = x
      BY <1>2, <1>3 DEF Ran
  <2>1. cached[Host(x)] = x /\ x # None
      BY DEF ClientInv, Ran
  <2> QED BY <2>1, <1>1, <1>2, <1>3 DEF ClientInv, ClientTyped
<1> QED BY <1>4, <1>5, <1>6, <1>7, <1>8 DEF ClientInv

\* Nothing else stores a closure, and only what a goroutine holds, which is what
\* is stored, is run and comes to something (client.go:21-134).
LEMMA OnceKeeps ==
    ASSUME NEW g \in Goroutines, ClientInv, PlaceTyped', UNCHANGED <<request, cached, mine>>,
           pc[g] # "start", \A x \in Goroutines : pc'[x] # "start" => x = g \/ pc[x] # "start",
           \/ UNCHANGED once
           \/ \E v \in {"running", "ok", "failed"} : once' = [once EXCEPT ![mine[g]] = v]
    PROVE  ClientInv'
<1>1. mine[g] = cached[Host(g)] /\ mine[g] # None /\ mine[g] \in Goroutines
    BY ClientAssumption DEF ClientInv, Holds, ClientTyped
<1>2. Host(g) \in Hosts
    BY DEF ClientInv, ClientTyped, Host, Requests
<1>3. Host(mine[g]) = Host(g)
    BY <1>1, <1>2 DEF ClientInv, Stores
<1>4. ClientTyped'
    BY DEF ClientInv, ClientTyped
<1>5. Stores'
    BY DEF ClientInv, Stores, Host
<1>6. Holds'
    BY DEF ClientInv, Holds, Host
<1>7. Ran'
    BY <1>1, <1>3 DEF ClientInv, ClientTyped, Ran, Host
<1> QED BY <1>4, <1>5, <1>6, <1>7 DEF ClientInv

\* The steps before the request, of the closure and of authConfigFunc, keep
\* the client's part of the invariant (client.go:20-136).
LEMMA ClientSteps ==
    ASSUME NEW g \in Goroutines, ClientInv,
           CallOnce(g) \/ CallAuth(g) \/ LoadAuth(g) \/ MakeClient(g)
    PROVE  ClientInv'
<1>1. pc \in [Goroutines -> Places] /\ PlaceTyped
    BY DEF ClientInv, PlaceTyped
<1>2. UNCHANGED <<request, cached, mine>>
    BY DEF CallOnce, CallAuth, LoadAuth, MakeClient
<1>3. pc[g] \in {"once", "auth", "load", "make"}
    BY DEF CallOnce, CallAuth, LoadAuth, MakeClient
<1>4. PICK p \in {"auth", "load", "make", "request", "end"} : pc' = [pc EXCEPT ![g] = p]
    BY DEF CallOnce, CallAuth, LoadAuth, MakeClient, Goto, Return
<1>5. \/ UNCHANGED once
      \/ \E v \in {"running", "ok", "failed"} : once' = [once EXCEPT ![mine[g]] = v]
    BY DEF CallOnce, CallAuth, LoadAuth, MakeClient, Failed
<1>6. result' = result \/ result' = [result EXCEPT ![g] = "noclient"]
    BY DEF CallOnce, CallAuth, LoadAuth, MakeClient, Return
<1>7. UNCHANGED <<body, last>>
    BY DEF CallOnce, CallAuth, LoadAuth, MakeClient, sending
<1>8. PlaceTyped'
  <2>1. pc' \in [Goroutines -> Places]
      BY <1>1, <1>4 DEF Places
  <2>2. result' \in [Goroutines -> {"", "ok", "nil", "error", "nobody", "noclient"}]
      BY <1>1, <1>6 DEF PlaceTyped
  <2> QED BY <2>1, <2>2, <1>1, <1>7 DEF PlaceTyped
<1>9. \A x \in Goroutines : pc'[x] # "start" => x = g \/ pc[x] # "start"
    BY <1>1, <1>4
<1> QED BY <1>2, <1>3, <1>5, <1>8, <1>9, OnceKeeps

\* The request itself leaves the client alone (rate-limits.go:33-90).
RequestStep(g) ==
    \/ Request(g) \/ Reserve(g) \/ Send(g) \/ (\E a \in Answers : Answer(g, a))
    \/ Drain(g) \/ Again(g)

\* What a goroutine does with its client stores and runs no closure, and stays
\* within the places that come after it (rate-limits.go:33-90).
LEMMA RequestSteps ==
    ASSUME NEW g \in Goroutines, ClientInv, RequestStep(g)
    PROVE  ClientInv'
<1>1. pc \in [Goroutines -> Places] /\ PlaceTyped
    BY DEF ClientInv, PlaceTyped
<1>2. UNCHANGED <<request, cached, mine, once>>
    BY DEF RequestStep, Request, Reserve, Send, Answer, Drain, Again, onceVars
<1>3. pc[g] \in {"request", "pace", "send", "await", "drain", "again"}
    BY DEF RequestStep, Request, Reserve, Send, Answer, Drain, Again
<1>4. UNCHANGED pc
      \/ \E p \in {"pace", "send", "await", "drain", "again", "end"} : pc' = [pc EXCEPT ![g] = p]
    BY DEF RequestStep, Request, Reserve, Send, Answer, Drain, Again, Goto, Return
<1>5. \/ result' = result
      \/ \E r \in {"ok", "nil", "error", "nobody"} : result' = [result EXCEPT ![g] = r]
    BY DEF RequestStep, Request, Reserve, Send, Answer, Drain, Again, Return, Outcome
<1>6. UNCHANGED last \/ \E a \in Answers \cup {""} : last' = [last EXCEPT ![g] = a]
  <2>1. CASE \E a \in Answers : Answer(g, a)
      BY <2>1 DEF Answer
  <2>2. CASE Send(g)
      BY <2>2 DEF Send
  <2>3. CASE Again(g)
      BY <2>3 DEF Again, Answers
  <2>4. CASE Request(g) \/ Reserve(g) \/ Drain(g)
      BY <2>4 DEF Request, Reserve, Drain, sending
  <2> QED BY <2>1, <2>2, <2>3, <2>4 DEF RequestStep
<1>7. \/ UNCHANGED body
      \/ \E b \in {"none", "whole", "spent"} : body' = [body EXCEPT ![g] = b]
  <2>1. body[g] \in {"none", "whole", "spent"}
      BY <1>1 DEF PlaceTyped
  <2>2. CASE Send(g)
      BY <2>1, <2>2 DEF Send
  <2>3. CASE Again(g)
      BY <2>1, <2>3 DEF Again, NewBody
  <2>4. CASE Request(g) \/ Reserve(g) \/ Drain(g) \/ \E a \in Answers : Answer(g, a)
      BY <2>4 DEF Request, Reserve, Drain, Answer, sending
  <2> QED BY <2>2, <2>3, <2>4 DEF RequestStep
<1>8. PlaceTyped'
  <2>1. pc' \in [Goroutines -> Places]
      BY <1>1, <1>4 DEF Places
  <2>2. result' \in [Goroutines -> {"", "ok", "nil", "error", "nobody", "noclient"}]
      BY <1>1, <1>5 DEF PlaceTyped
  <2>3. last' \in [Goroutines -> Answers \cup {""}]
      BY <1>1, <1>6 DEF PlaceTyped
  <2>4. body' \in [Goroutines -> {"none", "whole", "spent"}]
      BY <1>1, <1>7 DEF PlaceTyped
  <2> QED BY <2>1, <2>2, <2>3, <2>4 DEF PlaceTyped
<1>9. \A x \in Goroutines : pc'[x] # "start" => x = g \/ pc[x] # "start"
    BY <1>1, <1>4
<1> QED BY <1>2, <1>3, <1>8, <1>9, OnceKeeps

\* Nor does the clock.
LEMMA TickClient == ClientInv /\ (Tick \/ UNCHANGED vars) => ClientInv'
<1> SUFFICES ASSUME ClientInv, Tick \/ UNCHANGED vars PROVE ClientInv'
    OBVIOUS
<1>1. UNCHANGED <<request, cached, mine, once, pc, body, last, result>>
    BY DEF Tick, vars, onceVars
<1> QED BY <1>1 DEF ClientInv, ClientTyped, PlaceTyped, Stores, Holds, Ran, Host

(***************************************************************************)
(* The request.                                                            *)
(***************************************************************************)

\* Until it has a client a goroutine neither sends nor is answered
\* (lookup.go:33-36).
LEMMA BeforeRequest ==
    ASSUME NEW g \in Goroutines, ClientInv, SendInv,
           \/ LoadOrStore(g) \/ CallOnce(g) \/ CallAuth(g) \/ LoadAuth(g) \/ MakeClient(g)
           \/ Request(g)
    PROVE  SendInv'
<1>1. pc \in [Goroutines -> Places] /\ PlaceTyped
    BY DEF ClientInv, PlaceTyped
<1>2. UNCHANGED <<request, tokens, left50x, drain, body, last, failed50x, ticked>>
    BY DEF LoadOrStore, CallOnce, CallAuth, LoadAuth, MakeClient, Request, sending, onceVars, history
<1>3. pc[g] \in {"start", "once", "auth", "load", "make", "request"}
    BY DEF LoadOrStore, CallOnce, CallAuth, LoadAuth, MakeClient, Request
<1>4. \/ UNCHANGED result /\ \E p \in {"once", "auth", "load", "make", "request", "pace", "send"} :
                                pc' = [pc EXCEPT ![g] = p]
      \/ result' = [result EXCEPT ![g] = "noclient"] /\ pc' = [pc EXCEPT ![g] = "end"]
    BY DEF LoadOrStore, CallOnce, CallAuth, LoadAuth, MakeClient, Request, Goto, Return
<1>5. CountTyped'
    BY <1>2 DEF SendInv, CountTyped
<1>6. Ends'
    BY <1>1, <1>3, <1>4 DEF SendInv, Ends, PlaceTyped
<1>7. Counts50x'
  <2>1. \A x \in Goroutines : pc'[x] # "end" => pc[x] # "end"
      BY <1>1, <1>3, <1>4
  <2> QED BY <2>1, <1>2 DEF SendInv, Counts50x
<1>8. Bodies'
    BY <1>1, <1>2, <1>3, <1>4 DEF SendInv, Bodies
<1>9. ResultsMeanIt'
  <2>1. \A x \in Goroutines : result'[x] = result[x] \/ result'[x] = "noclient"
      BY <1>1, <1>4 DEF PlaceTyped
  <2> QED BY <2>1, <1>2 DEF SendInv, ResultsMeanIt, Paced, Host
<1>10. Draining'
  <2>1. \A x \in Goroutines : pc'[x] = "drain" => pc[x] = "drain"
      BY <1>1, <1>4
  <2> QED BY <2>1, <1>2 DEF SendInv, Draining
<1> QED BY <1>5, <1>6, <1>7, <1>8, <1>9, <1>10 DEF SendInv

\* A token is taken before the request is sent (rate-limits.go:34-39).
LEMMA ReserveKeeps ==
    ASSUME NEW g \in Goroutines, ClientInv, SendInv, Reserve(g)
    PROVE  SendInv'
<1>1. pc \in [Goroutines -> Places]
    BY DEF ClientInv, PlaceTyped
<1>2. UNCHANGED <<request, left50x, drain, body, last, failed50x, ticked, result>>
    BY DEF Reserve, onceVars, history
<1>3. pc[g] = "pace" /\ pc' = [pc EXCEPT ![g] = "send"]
    BY DEF Reserve, Goto
<1>4. tokens' = tokens - 1
    BY DEF Reserve
<1>5. CountTyped'
    BY <1>2, <1>4 DEF SendInv, CountTyped
<1>6. Ends'
    BY <1>1, <1>2, <1>3 DEF SendInv, Ends
<1>7. Counts50x'
  <2>1. \A x \in Goroutines : pc'[x] # "end" => pc[x] # "end"
      BY <1>1, <1>3
  <2> QED BY <2>1, <1>2 DEF SendInv, Counts50x
<1>8. Bodies'
    BY <1>1, <1>2, <1>3 DEF SendInv, Bodies
<1>9. ResultsMeanIt'
    BY <1>2 DEF SendInv, ResultsMeanIt, Paced, Host
<1>10. Draining'
  <2>1. \A x \in Goroutines : pc'[x] = "drain" => pc[x] = "drain"
      BY <1>1, <1>3
  <2>2. \A x \in Goroutines : drain[x] \in Nat
      BY DEF SendInv, CountTyped
  <2>3. tokens \in Int /\ tokens' <= tokens
      BY <1>4 DEF SendInv, CountTyped
  <2> QED BY <2>1, <2>2, <2>3, <1>2, <1>4 DEF SendInv, Draining
<1> QED BY <1>5, <1>6, <1>7, <1>8, <1>9, <1>10 DEF SendInv

\* A body that is gone is a stream's, as a push has a new one and a lookup needs
\* none (rate-limits.go:76-82).
LEMMA SendKeeps ==
    ASSUME NEW g \in Goroutines, ClientInv, SendInv, Send(g)
    PROVE  SendInv'
<1>1. PlaceTyped /\ pc \in [Goroutines -> Places] /\ request[g].kind \in {"lookup", "push", "stream"}
    BY DEF ClientInv, PlaceTyped, ClientTyped, Requests
<1>2. /\ UNCHANGED <<request, tokens, left50x, drain, failed50x, ticked>>
      /\ last' = [last EXCEPT ![g] = ""] /\ pc[g] = "send"
    BY DEF Send, onceVars
<1>3. \/ /\ body[g] = "spent" /\ pc' = [pc EXCEPT ![g] = "end"] /\ body' = body
         /\ result' = [result EXCEPT ![g] = "nobody"]
      \/ /\ pc' = [pc EXCEPT ![g] = "await"] /\ result' = result
         /\ body' = [body EXCEPT ![g] = IF @ = "whole" THEN "spent" ELSE @]
    BY DEF Send, Goto, Return
<1>4. result[g] = ""
    BY <1>2 DEF SendInv, Ends
<1>5. CountTyped'
    BY <1>2 DEF SendInv, CountTyped
<1>6. Ends'
    BY <1>1, <1>2, <1>3 DEF SendInv, Ends, PlaceTyped
<1>7. Counts50x'
  <2>1. \A x \in Goroutines : pc'[x] # "end" => pc[x] # "end"
      BY <1>1, <1>2, <1>3
  <2> QED BY <2>1, <1>2 DEF SendInv, Counts50x
<1>8. Bodies'
  <2>1. \A x \in Goroutines \ {g} : body'[x] = body[x] /\ pc'[x] = pc[x]
      BY <1>1, <1>3 DEF PlaceTyped
  <2>2. pc'[g] \in {"await", "end"} /\ (body'[g] = "none" <=> body[g] = "none")
      BY <1>1, <1>3 DEF PlaceTyped
  <2> QED BY <2>1, <2>2, <1>2 DEF SendInv, Bodies
<1>9. ResultsMeanIt'
  <2>1. body[g] = "spent" => request[g].kind = "stream"
      BY <1>1, <1>2 DEF SendInv, Bodies
  <2>2. \A x \in Goroutines \ {g} : result'[x] = result[x] /\ last'[x] = last[x]
      BY <1>1, <1>2, <1>3 DEF PlaceTyped
  <2>3. result'[g] = "" \/ (result'[g] = "nobody" /\ body[g] = "spent")
      BY <1>1, <1>3, <1>4 DEF PlaceTyped
  <2> QED BY <2>1, <2>2, <2>3, <1>2 DEF SendInv, ResultsMeanIt, Paced, Host
<1>10. Draining'
  <2>1. \A x \in Goroutines : pc'[x] = "drain" => pc[x] = "drain"
      BY <1>1, <1>3
  <2> QED BY <2>1, <1>2 DEF SendInv, Draining
<1> QED BY <1>5, <1>6, <1>7, <1>8, <1>9, <1>10 DEF SendInv

\* What an answer comes to: a 429 is never the end of a limited request, nor is a
\* 50x that is not the third (rate-limits.go:49-62).
LEMMA AnswerMeans ==
    ASSUME NEW g \in Goroutines, NEW a \in Answers, ClientInv, SendInv, Answer(g, a),
           ~(Paced(g) /\ Retried(g, a))
    PROVE  /\ Outcome(g, a) = "nil" => a = "404-like"
           /\ Paced(g) => a # "429"
           /\ Paced(g) /\ a = "50x" => failed50x[g] + 1 = 3
           /\ Outcome(g, a) \in {"ok", "nil", "error"}
<1>1. /\ left50x[g] \in 1..3 /\ failed50x[g] = 3 - left50x[g]
    BY DEF SendInv, CountTyped, Counts50x, Answer
<1>2. Paced(g) /\ a = "50x" => left50x[g] <= 1
    BY <1>1 DEF Retried
<1>3. Paced(g) /\ a = "50x" => failed50x[g] + 1 = 3
    BY <1>1, <1>2
<1>4. Paced(g) => a # "429"
    BY DEF Retried
<1>5. (Outcome(g, a) = "nil" => a = "404-like") /\ Outcome(g, a) \in {"ok", "nil", "error"}
    BY DEF Outcome
<1> QED BY <1>3, <1>4, <1>5

\* An answer is counted, and all the tokens there are with a 429
\* (rate-limits.go:49-62).
LEMMA AnswerKeeps ==
    ASSUME NEW g \in Goroutines, NEW a \in Answers, ClientInv, SendInv, Answer(g, a)
    PROVE  SendInv'
<1> DEFINE again == Paced(g) /\ Retried(g, a)
<1>1. PlaceTyped /\ pc \in [Goroutines -> Places]
    BY DEF ClientInv, PlaceTyped
<1>2. /\ UNCHANGED <<request, tokens, body>> /\ pc[g] = "await"
      /\ last' = [last EXCEPT ![g] = a]
      /\ failed50x' = [failed50x EXCEPT ![g] = IF a = "50x" THEN @ + 1 ELSE @]
    BY DEF Answer, onceVars
<1>3. ticked' = [ticked EXCEPT ![g] = FALSE]
    BY DEF Answer
<1>4. CASE again
  <2>1. /\ pc' = [pc EXCEPT ![g] = IF a = "429" THEN "drain" ELSE "again"]
        /\ result' = result
      BY <1>4 DEF Answer, Goto
  <2>2. /\ drain' = [drain EXCEPT ![g] = IF a = "429" THEN Available ELSE 0]
        /\ left50x' = [left50x EXCEPT ![g] = IF a = "50x" THEN @ - 1 ELSE @]
      BY <1>4 DEF Answer
  <2>3. left50x[g] \in 1..3 /\ (a = "50x" => left50x[g] > 1) /\ failed50x[g] = 3 - left50x[g]
    <3>1. left50x[g] \in 1..3 /\ failed50x[g] = 3 - left50x[g]
        BY <1>2 DEF SendInv, CountTyped, Counts50x
    <3>2. a = "50x" => left50x[g] > 1
        BY <1>4 DEF Retried
    <3> QED BY <3>1, <3>2
  <2>4. Available \in Nat /\ tokens <= Available
      BY DEF Available, SendInv, CountTyped
  <2>5. CountTyped'
    <3>1. left50x' \in [Goroutines -> 1..3]
        BY <2>2, <2>3 DEF SendInv, CountTyped
    <3>2. failed50x' \in [Goroutines -> 0..3]
        BY <1>2, <2>3 DEF SendInv, CountTyped
    <3>3. drain' \in [Goroutines -> Nat]
        BY <2>2, <2>4 DEF SendInv, CountTyped
    <3>4. ticked' \in [Goroutines -> BOOLEAN]
        BY <1>3 DEF SendInv, CountTyped
    <3> QED BY <3>1, <3>2, <3>3, <3>4, <1>2 DEF SendInv, CountTyped
  <2>6. Ends'
      BY <1>1, <1>2, <2>1 DEF SendInv, Ends
  <2>7. Counts50x'
    <3> SUFFICES ASSUME NEW x \in Goroutines, pc'[x] # "end"
                 PROVE  failed50x'[x] = 3 - left50x'[x]
        BY DEF Counts50x
    <3>1. CASE x = g
        BY <3>1, <1>2, <2>2, <2>3 DEF SendInv, CountTyped
    <3>2. CASE x # g
      <4>1. pc[x] # "end"
          BY <3>2, <2>1, <1>1
      <4> QED BY <4>1, <3>2, <1>2, <2>2 DEF SendInv, CountTyped, Counts50x
    <3> QED BY <3>1, <3>2
  <2>8. Bodies'
      BY <1>1, <1>2, <2>1 DEF SendInv, Bodies
  <2>9. ResultsMeanIt'
    <3>1. result[g] = ""
        BY <1>2 DEF SendInv, Ends
    <3>2. \A x \in Goroutines \ {g} : last'[x] = last[x] /\ failed50x'[x] = failed50x[x]
        BY <1>1, <1>2 DEF SendInv, CountTyped, PlaceTyped
    <3> QED BY <3>1, <3>2, <1>2, <2>1 DEF SendInv, ResultsMeanIt, Paced, Host
  <2>10. Draining'
    <3> SUFFICES ASSUME NEW x \in Goroutines, pc'[x] = "drain", ~ticked'[x]
                 PROVE  tokens <= drain'[x]
        BY <1>2 DEF Draining
    <3>1. CASE x = g
      <4>1. a = "429"
          BY <3>1, <2>1, <1>1
      <4> QED BY <4>1, <3>1, <2>2, <2>4 DEF SendInv, CountTyped
    <3>2. CASE x # g
      <4>1. pc[x] = "drain" /\ drain'[x] = drain[x]
          BY <3>2, <2>1, <2>2, <1>1 DEF SendInv, CountTyped
      <4>2. ~ticked[x]
          BY <3>2, <1>3 DEF SendInv, CountTyped
      <4> QED BY <4>1, <4>2 DEF SendInv, Draining
    <3> QED BY <3>1, <3>2
  <2> QED BY <2>5, <2>6, <2>7, <2>8, <2>9, <2>10 DEF SendInv
<1>5. CASE ~again
  <2>1. /\ pc' = [pc EXCEPT ![g] = "end"] /\ result' = [result EXCEPT ![g] = Outcome(g, a)]
        /\ UNCHANGED <<drain, left50x>>
      BY <1>5 DEF Answer, Return, Goto
  <2>2. /\ Outcome(g, a) = "nil" => a = "404-like"
        /\ Paced(g) => a # "429"
        /\ Paced(g) /\ a = "50x" => failed50x[g] + 1 = 3
        /\ Outcome(g, a) \in {"ok", "nil", "error"}
      BY <1>5, AnswerMeans
  <2>3. failed50x[g] \in 0..2
      BY <1>2 DEF SendInv, CountTyped, Counts50x
  <2>4. failed50x' \in [Goroutines -> 0..3]
      BY <1>2, <2>3 DEF SendInv, CountTyped
  <2>5. CountTyped'
    <3>1. ticked' \in [Goroutines -> BOOLEAN]
        BY <1>3 DEF SendInv, CountTyped
    <3> QED BY <3>1, <2>4, <1>2, <2>1 DEF SendInv, CountTyped
  <2>6. Ends'
      BY <1>1, <1>2, <2>1 DEF SendInv, Ends, PlaceTyped
  <2>7. Counts50x'
    <3>1. \A x \in Goroutines : pc'[x] # "end" => pc[x] # "end" /\ x # g
        BY <1>1, <2>1
    <3> QED BY <3>1, <1>2, <2>1 DEF SendInv, CountTyped, Counts50x
  <2>8. Bodies'
      BY <1>1, <1>2, <2>1 DEF SendInv, Bodies
  <2>9. ResultsMeanIt'
    <3>1. \A x \in Goroutines \ {g} : /\ result'[x] = result[x] /\ last'[x] = last[x]
                                      /\ failed50x'[x] = failed50x[x]
        BY <1>1, <1>2, <2>1 DEF SendInv, CountTyped, PlaceTyped
    <3>2. /\ result'[g] = Outcome(g, a) /\ last'[g] = a
        BY <1>1, <1>2, <2>1 DEF PlaceTyped
    <3>3. a = "50x" => failed50x'[g] = failed50x[g] + 1
        BY <1>2 DEF SendInv, CountTyped
    <3>4. \A x \in Goroutines : Paced(x)' = Paced(x)
        BY <1>2 DEF Paced, Host
    <3>5. /\ result'[g] = "nil" => last'[g] = "404-like"
          /\ result'[g] = "error" /\ Paced(g) =>
                 last'[g] # "429" /\ (last'[g] = "50x" => failed50x'[g] = 3)
          /\ result'[g] # "nobody"
        BY <3>2, <3>3, <2>2
    <3> QED BY <3>1, <3>4, <3>5, <1>2 DEF SendInv, ResultsMeanIt
  <2>10. Draining'
    <3> SUFFICES ASSUME NEW x \in Goroutines, pc'[x] = "drain", ~ticked'[x]
                 PROVE  tokens <= drain[x]
        BY <1>2, <2>1 DEF Draining
    <3>1. pc[x] = "drain" /\ x # g
        BY <2>1, <1>1
    <3>2. ~ticked[x]
        BY <3>1, <1>3 DEF SendInv, CountTyped
    <3> QED BY <3>1, <3>2 DEF SendInv, Draining
  <2> QED BY <2>5, <2>6, <2>7, <2>8, <2>9, <2>10 DEF SendInv
<1> QED BY <1>4, <1>5

\* A token that is taken is one less to take (rate-limits.go:51-53).
LEMMA DrainKeeps ==
    ASSUME NEW g \in Goroutines, ClientInv, SendInv, Drain(g)
    PROVE  SendInv'
<1>1. pc \in [Goroutines -> Places]
    BY DEF ClientInv, PlaceTyped
<1>2. /\ UNCHANGED <<request, left50x, body, last, failed50x, ticked, result>>
      /\ pc[g] = "drain"
    BY DEF Drain, onceVars, history
<1>3. pc' = pc \/ pc' = [pc EXCEPT ![g] = "again"]
    BY DEF Drain, Goto
<1>4. /\ tokens \in Int /\ tokens' \in Int /\ tokens' <= tokens
      /\ drain \in [Goroutines -> Nat] /\ drain' \in [Goroutines -> Nat]
      /\ \A x \in Goroutines : tokens <= drain[x] => tokens' <= drain'[x]
    BY DEF Drain, SendInv, CountTyped
<1>5. CountTyped'
    BY <1>2, <1>4 DEF SendInv, CountTyped
<1>6. Ends'
    BY <1>1, <1>2, <1>3 DEF SendInv, Ends
<1>7. Counts50x'
  <2>1. \A x \in Goroutines : pc'[x] # "end" => pc[x] # "end"
      BY <1>1, <1>2, <1>3
  <2> QED BY <2>1, <1>2 DEF SendInv, Counts50x
<1>8. Bodies'
    BY <1>1, <1>2, <1>3 DEF SendInv, Bodies
<1>9. ResultsMeanIt'
    BY <1>2 DEF SendInv, ResultsMeanIt, Paced, Host
<1>10. Draining'
  <2>1. \A x \in Goroutines : pc'[x] = "drain" => pc[x] = "drain"
      BY <1>1, <1>3
  <2> QED BY <2>1, <1>2, <1>4 DEF SendInv, Draining
<1> QED BY <1>5, <1>6, <1>7, <1>8, <1>9, <1>10 DEF SendInv

\* The request is repeated with a body of its own, or ends with an error that is
\* no answer of the registry (rate-limits.go:64-86).
LEMMA AgainKeeps ==
    ASSUME NEW g \in Goroutines, ClientInv, SendInv, Again(g)
    PROVE  SendInv'
<1>1. PlaceTyped /\ pc \in [Goroutines -> Places] /\ request[g].kind \in {"lookup", "push", "stream"}
    BY DEF ClientInv, PlaceTyped, ClientTyped, Requests
<1>2. UNCHANGED <<request, tokens, left50x, drain, failed50x, ticked>> /\ pc[g] = "again"
    BY DEF Again, onceVars, history
<1>3. \/ /\ pc' = [pc EXCEPT ![g] = "pace"] /\ UNCHANGED <<last, result>>
         /\ body' = [body EXCEPT ![g] = NewBody(g)]
      \/ /\ pc' = [pc EXCEPT ![g] = "end"] /\ body' = body
         /\ last' = [last EXCEPT ![g] = "broken"] /\ result' = [result EXCEPT ![g] = "error"]
    BY DEF Again, Goto, Return
<1>4. CountTyped'
    BY <1>2 DEF SendInv, CountTyped
<1>5. Ends'
    BY <1>1, <1>2, <1>3 DEF SendInv, Ends, PlaceTyped
<1>6. Counts50x'
  <2>1. \A x \in Goroutines : pc'[x] # "end" => pc[x] # "end"
      BY <1>1, <1>2, <1>3
  <2> QED BY <2>1, <1>2 DEF SendInv, Counts50x
<1>7. Bodies'
  <2>1. \A x \in Goroutines \ {g} : body'[x] = body[x] /\ pc'[x] = pc[x]
      BY <1>1, <1>3 DEF PlaceTyped
  <2>2. \/ pc'[g] = "end" /\ body'[g] = body[g]
        \/ pc'[g] = "pace" /\ body'[g] = NewBody(g)
      BY <1>1, <1>3 DEF PlaceTyped
  <2>3. /\ request[g].kind = "lookup" => NewBody(g) = "none"
        /\ request[g].kind = "push" => NewBody(g) = "whole"
      BY DEF NewBody, SendInv, Bodies
  <2> QED BY <2>1, <2>2, <2>3, <1>2 DEF SendInv, Bodies
<1>8. ResultsMeanIt'
  <2>1. \A x \in Goroutines \ {g} : result'[x] = result[x] /\ last'[x] = last[x]
      BY <1>1, <1>3 DEF PlaceTyped
  <2>2. result[g] = ""
      BY <1>2 DEF SendInv, Ends
  <2>3. result'[g] = "" \/ (result'[g] = "error" /\ last'[g] = "broken")
      BY <2>2, <1>1, <1>3 DEF PlaceTyped
  <2> QED BY <2>1, <2>3, <1>2 DEF SendInv, ResultsMeanIt, Paced, Host
<1>9. Draining'
  <2>1. \A x \in Goroutines : pc'[x] = "drain" => pc[x] = "drain"
      BY <1>1, <1>3
  <2> QED BY <2>1, <1>2 DEF SendInv, Draining
<1> QED BY <1>4, <1>5, <1>6, <1>7, <1>8, <1>9 DEF SendInv

\* Time brings tokens, and says so to whoever drains them (rate-limits.go:11-15).
LEMMA TickKeeps ==
    ASSUME ClientInv, SendInv, Tick
    PROVE  SendInv'
<1>1. UNCHANGED <<request, pc, left50x, drain, body, last, result, failed50x>>
    BY DEF Tick, onceVars
<1>2. tokens' \in Int
    BY ClientAssumption DEF Tick, Refilled, Least, SendInv, CountTyped
<1>3. ticked' = [g \in Goroutines |-> pc[g] = "drain"]
    BY DEF Tick
<1>4. ticked' \in [Goroutines -> BOOLEAN] /\ \A g \in Goroutines : pc[g] = "drain" => ticked'[g]
    BY <1>3, Zenon
<1>5. CountTyped'
    BY <1>1, <1>2, <1>4 DEF SendInv, CountTyped
<1>6. Draining'
    BY <1>1, <1>4 DEF Draining
<1>7. Ends' /\ Counts50x' /\ Bodies' /\ ResultsMeanIt'
    BY <1>1 DEF SendInv, Ends, Counts50x, Bodies, ResultsMeanIt, Paced, Host
<1> QED BY <1>5, <1>6, <1>7 DEF SendInv

(***************************************************************************)
(* The theorems.                                                           *)
(***************************************************************************)

\* Every step of every goroutine, and of the clock, keeps the invariant
\* (client.go:20-136, rate-limits.go:23-91).
LEMMA NextInv == IInv /\ [Next]_vars => IInv'
<1> SUFFICES ASSUME ClientInv, SendInv, [Next]_vars PROVE ClientInv' /\ SendInv'
    BY DEF IInv
<1>1. CASE \E g \in Goroutines : Step(g)
  <2>1. PICK g \in Goroutines : Step(g)
      BY <1>1
  <2>2. CASE LoadOrStore(g)
      BY <2>2, LoadKeeps, BeforeRequest
  <2>3. CASE CallOnce(g) \/ CallAuth(g) \/ LoadAuth(g) \/ MakeClient(g)
      BY <2>3, ClientSteps, BeforeRequest
  <2>4. CASE Request(g)
      BY <2>4, RequestSteps, BeforeRequest DEF RequestStep
  <2>5. CASE Reserve(g)
      BY <2>5, RequestSteps, ReserveKeeps DEF RequestStep
  <2>6. CASE Send(g)
      BY <2>6, RequestSteps, SendKeeps DEF RequestStep
  <2>7. CASE \E a \in Answers : Answer(g, a)
      BY <2>7, RequestSteps, AnswerKeeps DEF RequestStep
  <2>8. CASE Drain(g)
      BY <2>8, RequestSteps, DrainKeeps DEF RequestStep
  <2>9. CASE Again(g)
      BY <2>9, RequestSteps, AgainKeeps DEF RequestStep
  <2> QED BY <2>1, <2>2, <2>3, <2>4, <2>5, <2>6, <2>7, <2>8, <2>9 DEF Step
<1>2. CASE Tick
    BY <1>2, TickClient, TickKeeps
<1>3. CASE UNCHANGED vars
  <2>1. ClientInv'
      BY <1>3, TickClient
  <2>2. UNCHANGED <<request, pc, tokens, left50x, drain, body, last, result, failed50x, ticked>>
      BY <1>3 DEF vars, onceVars, history
  <2>3. CountTyped' /\ Draining'
      BY <2>2 DEF SendInv, CountTyped, Draining
  <2>4. Ends' /\ Counts50x' /\ Bodies' /\ ResultsMeanIt'
      BY <2>2 DEF SendInv, Ends, Counts50x, Bodies, ResultsMeanIt, Paced, Host
  <2> QED BY <2>1, <2>3, <2>4 DEF SendInv
<1> QED BY <1>1, <1>2, <1>3 DEF Next

\* The invariant holds in every state the client and its requests reach
\* (client.go:20-136, rate-limits.go:23-91).
LEMMA Invariant == Spec => []IInv
BY InitInv, NextInv, PTL DEF Spec

\* However many goroutines ask for the client of a host at once, one closure is
\* run for it, and whoever has a client has that one (client.go:19-21, 135).
THEOREM OnlyOneClient == Spec => []OneClient
<1>1. IInv => OneClient
  <2> SUFFICES ASSUME ClientInv PROVE OneClient
      BY DEF IInv
  <2>1. \A c, d \in Goroutines :
            once[c] # "idle" /\ once[d] # "idle" /\ Host(c) = Host(d) => c = d
      BY DEF ClientInv, Ran
  <2>2. \A g \in Goroutines : pc[g] \notin {"start", "once"} => mine[g] = cached[Host(g)]
      BY DEF ClientInv, Holds
  <2> QED BY <2>1, <2>2 DEF OneClient
<1> QED BY <1>1, Invariant, PTL

\* What a call returns is what the registry meant: nothing only if it said so, no
\* 429 of a limited host, no 50x before the third, and a missing body only of a
\* stream (lookup.go:79-94, rate-limits.go:49-62, 76-82).
THEOREM ResultsAreMeant == Spec => []ResultsMeanIt
<1>1. IInv => ResultsMeanIt
    BY DEF IInv, SendInv
<1> QED BY <1>1, Invariant, PTL

\* Whatever the others take or reserve while a goroutine counts the tokens down,
\* when it is done none is left but those that came since (rate-limits.go:50-53).
THEOREM DrainingStarves == Spec => DrainStarves
<1>1. IInv /\ [Next]_vars =>
        [\A g \in Goroutines : pc[g] = "drain" /\ pc'[g] = "again" /\ ~ticked[g] => tokens' <= 0]_vars
  <2> SUFFICES ASSUME IInv, Next, NEW g \in Goroutines,
                      pc[g] = "drain", pc'[g] = "again", ~ticked[g]
               PROVE  tokens' <= 0
      BY DEF vars
  <2>1. pc \in [Goroutines -> Places] /\ tokens <= drain[g] /\ drain[g] \in Nat
      BY DEF IInv, ClientInv, PlaceTyped, SendInv, CountTyped, Draining
  <2>2. ~Tick
      BY DEF Tick
  <2>3. PICK x \in Goroutines : Step(x)
      BY <2>2 DEF Next
  <2>4. x = g
    <3>1. UNCHANGED pc \/ \E p \in Places : pc' = [pc EXCEPT ![x] = p]
        BY <2>3 DEF Step, LoadOrStore, CallOnce, CallAuth, LoadAuth, MakeClient, Request, Reserve,
                    Send, Answer, Drain, Again, Goto, Return, Places
    <3> QED BY <3>1, <2>1
  <2>5. Drain(g)
      BY <2>3, <2>4 DEF Step, LoadOrStore, CallOnce, CallAuth, LoadAuth, MakeClient, Request,
                        Reserve, Send, Answer, Again
  <2>6. drain[g] = 0 /\ tokens' = tokens
      BY <2>1, <2>5 DEF Drain, Goto
  <2> QED BY <2>1, <2>6 DEF IInv, SendInv, CountTyped
<1> QED BY <1>1, Invariant, PTL DEF Spec, DrainStarves

(***************************************************************************)
(* The rate.                                                               *)
(***************************************************************************)

\* How the wait for a token is rounded (rate-limits.go:37).
LEMMA Division ==
    ASSUME NEW n \in Nat, NEW p \in Nat \ {0}
    PROVE  (n \div p) \in Nat /\ n < (n \div p) * p + p
<1>1. n = p * (n \div p) + (n % p) /\ n % p \in 0..(p - 1) /\ n \div p \in Int
    OBVIOUS
<1>2. n \div p >= 0
    OBVIOUS
<1> QED BY <1>1, <1>2

\* More ticks bring more tokens (rate-limits.go:13).
LEMMA Monotonic ==
    ASSUME NEW i \in Nat, NEW j \in Nat, i <= j, NEW p \in Nat \ {0}
    PROVE  i * p <= j * p
  OBVIOUS

\* Who waits for a token waits for as many ticks as it takes for all before it
\* to come (rate-limits.go:37).
LEMMA TicksSuffice ==
    ASSUME NEW n \in Int, NEW j \in Nat, TicksFor(n) <= j
    PROVE  n <= j * PerTick
<1> DEFINE p == PerTick
<1>0. p \in Nat \ {0}
    BY ClientAssumption
<1>1. CASE n <= 0
    BY <1>0, <1>1
<1>2. CASE n > 0
  <2> DEFINE m == n + p - 1
             q == m \div p
  <2>1. m \in Nat /\ q <= j
      BY <1>0, <1>2 DEF TicksFor
  <2>2. q \in Nat /\ m < q * p + p
      BY <1>0, <2>1, Division
  <2> HIDE DEF p, q
  <2>3. q * p <= j * p
      BY <1>0, <2>1, <2>2, Monotonic
  <2>4. q * p \in Int /\ j * p \in Int
      BY <1>0, <2>2
  <2> QED BY <1>0, <2>2, <2>3, <2>4 DEF p
<1> QED BY <1>1, <1>2

\* whose token is taken but not used; it comes in more than j ticks
Promised == {g \in Goroutines : pc[g] = "send" /\ Paced(g)}
Late(j) == {g \in Promised : wait[g] > j}

\* the tries to be made without the one that is under way
Ahead == {t \in Tries : pc[t[1]] = "await" => t[2] < left50x[t[1]]}

\* the limiter's transport is that of a limited host
PacedOnly == \A g \in Goroutines : pc[g] \in {"pace", "drain", "again"} => Paced(g)

\* tokens taken before their time are of requests that wait: whatever will still
\* be missing in j ticks is of those that wait longer
InTime == \A j \in Nat : Cardinality(Late(j)) >= (-tokens) - j * PerTick

\* the requests sent are those whose tokens came and are gone, unless there are
\* more tokens than requests to come
Spared == \/ spare >= tokens + Cardinality(Promised)
          \/ spare >= MaxRefused - refused + Cardinality(Ahead)

RateTyped == wait \in [Goroutines -> Nat] /\ refused \in 0..MaxRefused /\ spare \in Int

RateInv == RateTyped /\ PacedOnly /\ InTime /\ Spared

\* There are finitely many goroutines, and three tries of each
\* (rate-limits.go:29).
LEMMA Countable ==
    /\ \A S \in SUBSET Goroutines : IsFiniteSet(S) /\ Cardinality(S) \in Nat
    /\ \A S \in SUBSET (Goroutines \X (1..3)) : IsFiniteSet(S) /\ Cardinality(S) \in Nat
<1>1. IsFiniteSet(1..3)
  <2>1. ASSUME NEW n \in Nat PROVE IsFiniteSet(1..n)
      BY FS_Interval
  <2> QED BY <2>1
<1>2. IsFiniteSet(Goroutines \X (1..3))
    BY <1>1, ClientAssumption, FS_Product
<1> QED BY <1>2, ClientAssumption, FS_Subset, FS_CardinalityType

\* A step that sends nothing and takes no token before its time keeps the account
\* (rate-limits.go:51-91).
LEMMA QuietKeeps ==
    ASSUME RateInv, RateTyped', PacedOnly', tokens \in Int, tokens' \in Int,
           UNCHANGED <<refused, spare>>,
           tokens' <= tokens, tokens' = tokens \/ tokens' >= 0,
           Promised' \subseteq Promised, \A j \in Nat : Late(j)' = Late(j),
           Ahead' \subseteq Ahead
    PROVE  RateInv'
<1> USE ClientAssumption
<1>1. /\ Promised \in SUBSET Goroutines /\ Promised' \in SUBSET Goroutines
      /\ Ahead \in SUBSET (Goroutines \X (1..3)) /\ Ahead' \in SUBSET (Goroutines \X (1..3))
    BY DEF Promised, Ahead, Tries
<1>2. /\ Cardinality(Promised') <= Cardinality(Promised)
      /\ Cardinality(Ahead') <= Cardinality(Ahead)
    BY <1>1, Countable, FS_Subset
<1>3. /\ Cardinality(Promised) \in Nat /\ Cardinality(Promised') \in Nat
      /\ Cardinality(Ahead) \in Nat /\ Cardinality(Ahead') \in Nat
    BY <1>1, Countable
<1>4. Spared'
    BY <1>2, <1>3 DEF RateInv, RateTyped, Spared
<1>5. InTime'
  <2> SUFFICES ASSUME NEW j \in Nat
               PROVE  Cardinality(Late(j)') >= (-tokens') - j * PerTick
      BY DEF InTime
  <2>1. /\ Late(j) \in SUBSET Goroutines /\ j * PerTick \in Nat
      BY DEF Late, Promised
  <2>2. Cardinality(Late(j)) \in Nat /\ Cardinality(Late(j)) >= (-tokens) - j * PerTick
      BY <2>1, Countable DEF RateInv, InTime
  <2>3. Late(j)' = Late(j)
      OBVIOUS
  <2> QED BY <2>1, <2>2, <2>3
<1> QED BY <1>4, <1>5 DEF RateInv

\* Until it has a client a goroutine has no token (client.go:20-136).
LEMMA BeforeRate ==
    ASSUME NEW g \in Goroutines, ClientInv, SendInv, RateInv,
           \/ LoadOrStore(g) \/ CallOnce(g) \/ CallAuth(g) \/ LoadAuth(g) \/ MakeClient(g)
           \/ Request(g)
    PROVE  RateInv'
<1>1. pc \in [Goroutines -> Places] /\ tokens \in Int
    BY DEF ClientInv, PlaceTyped, SendInv, CountTyped
<1>2. UNCHANGED <<request, tokens, wait, left50x, refused, spare>>
    BY DEF LoadOrStore, CallOnce, CallAuth, LoadAuth, MakeClient, Request, sending, onceVars, history
<1>3. pc[g] \in {"start", "once", "auth", "load", "make", "request"}
    BY DEF LoadOrStore, CallOnce, CallAuth, LoadAuth, MakeClient, Request
<1>4. \E p \in {"once", "auth", "load", "make", "request", "pace", "send", "end"} :
          /\ pc' = [pc EXCEPT ![g] = p]
          /\ p = "pace" => Paced(g)
          /\ p = "send" => ~Paced(g)
    BY DEF LoadOrStore, CallOnce, CallAuth, LoadAuth, MakeClient, Request, Goto, Return
<1>5. \A x \in Goroutines : Paced(x)' = Paced(x)
    BY <1>2 DEF Paced, Host
<1>6. PacedOnly'
    BY <1>1, <1>4, <1>5 DEF RateInv, PacedOnly
<1>7. Promised' = Promised
    BY <1>1, <1>3, <1>4, <1>5 DEF Promised
<1>8. Ahead' \subseteq Ahead
    BY <1>1, <1>2, <1>3, <1>4 DEF Ahead, Tries
<1> QED BY <1>1, <1>2, <1>6, <1>7, <1>8, QuietKeeps DEF RateInv, RateTyped, Late

\* Taking a token before its time makes a request wait for as long as it takes
\* (rate-limits.go:34-39).
LEMMA ReserveRate ==
    ASSUME NEW g \in Goroutines, ClientInv, SendInv, RateInv, Reserve(g)
    PROVE  RateInv'
<1> USE ClientAssumption
<1>1. pc \in [Goroutines -> Places] /\ tokens \in Int /\ wait \in [Goroutines -> Nat]
    BY DEF ClientInv, PlaceTyped, SendInv, CountTyped, RateInv, RateTyped
<1>2. /\ UNCHANGED <<request, left50x, refused, spare>> /\ pc[g] = "pace"
      /\ pc' = [pc EXCEPT ![g] = "send"]
      /\ tokens' = tokens - 1 /\ wait' = [wait EXCEPT ![g] = TicksFor(1 - tokens)]
    BY DEF Reserve, Goto, onceVars, history
<1>3. TicksFor(1 - tokens) \in Nat
  <2>1. CASE 1 - tokens <= 0
      BY <2>1 DEF TicksFor
  <2>2. CASE 1 - tokens > 0
      BY <1>1, <2>2, Division DEF TicksFor
  <2> QED BY <1>1, <2>1, <2>2
<1>4. \A x \in Goroutines : Paced(x)' = Paced(x)
    BY <1>2 DEF Paced, Host
<1>5. RateTyped' /\ PacedOnly'
    BY <1>1, <1>2, <1>3, <1>4 DEF RateInv, RateTyped, PacedOnly
<1>6. Paced(g) /\ g \notin Promised
    BY <1>2 DEF RateInv, PacedOnly, Promised
<1>7. Promised' = Promised \cup {g}
    BY <1>1, <1>2, <1>4, <1>6 DEF Promised
<1>8. Promised \in SUBSET Goroutines
    BY DEF Promised
<1>9. /\ Cardinality(Promised) \in Nat
      /\ Cardinality(Promised \cup {g}) = Cardinality(Promised) + 1
    BY <1>6, <1>8, Countable, FS_AddElement
<1>10. Ahead' = Ahead
    BY <1>1, <1>2 DEF Ahead, Tries
<1>11. Spared'
    BY <1>1, <1>2, <1>7, <1>9, <1>10 DEF RateInv, RateTyped, Spared
<1>12. ASSUME NEW j \in Nat PROVE Cardinality(Late(j)') >= (-tokens') - j * PerTick
  <2>1. /\ Late(j) \in SUBSET Goroutines /\ Late(j)' \in SUBSET Goroutines
        /\ j * PerTick \in Nat /\ g \notin Late(j)
      BY <1>6 DEF Late, Promised
  <2>2. Cardinality(Late(j)) \in Nat /\ Cardinality(Late(j)') \in Nat
      BY <2>1, Countable
  <2>3. Cardinality(Late(j)) >= (-tokens) - j * PerTick
      BY DEF RateInv, InTime
  <2>4. CASE TicksFor(1 - tokens) > j
    <3>1. Late(j)' = Late(j) \cup {g}
        BY <1>1, <1>2, <1>6, <1>7, <2>4 DEF Late, Promised
    <3>2. Cardinality(Late(j) \cup {g}) = Cardinality(Late(j)) + 1
        BY <2>1, Countable, FS_AddElement
    <3> QED BY <1>1, <1>2, <2>1, <2>2, <2>3, <3>1, <3>2
  <2>5. CASE TicksFor(1 - tokens) <= j
    <3>1. 1 - tokens <= j * PerTick
        BY <1>1, <2>5, TicksSuffice
    <3> QED BY <1>1, <1>2, <2>1, <2>2, <3>1
  <2> QED BY <1>3, <2>4, <2>5
<1> QED BY <1>5, <1>11, <1>12 DEF RateInv, InTime

\* A request goes out when its token has come (rate-limits.go:37-44).
LEMMA SendRate ==
    ASSUME NEW g \in Goroutines, ClientInv, SendInv, RateInv, Send(g)
    PROVE  RateInv'
<1>1. /\ pc \in [Goroutines -> Places] /\ tokens \in Int /\ wait \in [Goroutines -> Nat]
      /\ left50x \in [Goroutines -> 1..3] /\ spare \in Int /\ refused \in 0..MaxRefused
    BY DEF ClientInv, PlaceTyped, SendInv, CountTyped, RateInv, RateTyped
<1>2. UNCHANGED <<request, tokens, wait, left50x, refused>> /\ pc[g] = "send" /\ wait[g] = 0
    BY DEF Send, onceVars
<1>3. \A x \in Goroutines : Paced(x)' = Paced(x)
    BY <1>2 DEF Paced, Host
<1>4. CASE UNCHANGED spare /\ pc' = [pc EXCEPT ![g] = "end"]
  <2>1. Promised' \subseteq Promised /\ \A j \in Nat : Late(j)' = Late(j)
      BY <1>1, <1>2, <1>3, <1>4 DEF Promised, Late
  <2>2. Ahead' \subseteq Ahead
      BY <1>1, <1>2, <1>4 DEF Ahead, Tries
  <2>3. PacedOnly' /\ RateTyped'
      BY <1>1, <1>2, <1>3, <1>4 DEF RateInv, PacedOnly, RateTyped
  <2> QED BY <1>1, <1>2, <1>4, <2>1, <2>2, <2>3, QuietKeeps
<1>5. CASE pc' = [pc EXCEPT ![g] = "await"] /\ spare' = IF Paced(g) THEN spare - 1 ELSE spare
  <2>1. PacedOnly' /\ RateTyped'
      BY <1>1, <1>2, <1>3, <1>5 DEF RateInv, PacedOnly, RateTyped
  <2>2. \A j \in Nat : Late(j)' = Late(j)
      BY <1>1, <1>2, <1>3, <1>5 DEF Promised, Late
  <2>3. Ahead' = Ahead \ {<<g, left50x[g]>>} /\ <<g, left50x[g]>> \in Ahead
    <3>1. <<g, left50x[g]>> \in Ahead
        BY <1>1, <1>2 DEF Ahead, Tries
    <3>2. \A t \in Goroutines \X (1..3) : t \in Ahead' <=> t \in Ahead /\ t # <<g, left50x[g]>>
      <4> TAKE t \in Goroutines \X (1..3)
      <4>1. CASE t[1] = g
          BY <1>1, <1>2, <1>5, <4>1 DEF Ahead, Tries
      <4>2. CASE t[1] # g
          BY <1>1, <1>2, <1>5, <4>2 DEF Ahead, Tries
      <4> QED BY <4>1, <4>2
    <3>3. Ahead \subseteq Goroutines \X (1..3) /\ Ahead' \subseteq Goroutines \X (1..3)
        BY DEF Ahead, Tries
    <3> QED BY <3>1, <3>2, <3>3
  <2>4. /\ Ahead \in SUBSET (Goroutines \X (1..3)) /\ Promised \in SUBSET Goroutines
      BY DEF Ahead, Tries, Promised
  <2>5. /\ Cardinality(Ahead) \in Nat /\ Cardinality(Ahead') = Cardinality(Ahead) - 1
      BY <2>3, <2>4, Countable, FS_RemoveElement
  <2>6. CASE Paced(g)
    <3>1. g \in Promised /\ Promised' = Promised \ {g}
        BY <1>1, <1>2, <1>3, <1>5, <2>6 DEF Promised
    <3>2. Cardinality(Promised) \in Nat /\ Cardinality(Promised') = Cardinality(Promised) - 1
        BY <2>4, <3>1, Countable, FS_RemoveElement
    <3>3. Spared'
        BY <1>1, <1>2, <1>5, <2>5, <2>6, <3>2, ClientAssumption DEF RateInv, Spared
    <3> QED BY <1>2, <2>1, <2>2, <3>3 DEF RateInv, InTime
  <2>7. CASE ~Paced(g)
    <3>1. Promised' \subseteq Promised
        BY <1>1, <1>2, <1>3, <1>5, <2>7 DEF Promised
    <3> QED BY <1>1, <1>2, <1>5, <2>1, <2>2, <2>3, <2>7, <3>1, QuietKeeps
  <2> QED BY <2>6, <2>7
<1> QED BY <1>4, <1>5 DEF Send, Goto, Return

\* A 429 is one of those to come, and the try is made again; any other answer
\* takes its try (rate-limits.go:49-62).
LEMMA AnswerRate ==
    ASSUME NEW g \in Goroutines, NEW a \in Answers, ClientInv, SendInv, RateInv, Answer(g, a)
    PROVE  RateInv'
<1>1. /\ pc \in [Goroutines -> Places] /\ tokens \in Int /\ wait \in [Goroutines -> Nat]
      /\ left50x \in [Goroutines -> 1..3] /\ spare \in Int /\ refused \in 0..MaxRefused
    BY DEF ClientInv, PlaceTyped, SendInv, CountTyped, RateInv, RateTyped
<1>2. /\ UNCHANGED <<request, tokens, wait, spare>> /\ pc[g] = "await"
      /\ refused' = (IF a = "429" THEN refused + 1 ELSE refused)
      /\ a = "429" => refused < MaxRefused
    BY DEF Answer, onceVars
<1>3. \/ /\ pc' = [pc EXCEPT ![g] = IF a = "429" THEN "drain" ELSE "again"]
         /\ left50x' = [left50x EXCEPT ![g] = IF a = "50x" THEN @ - 1 ELSE @]
         /\ Paced(g) /\ (a = "50x" => left50x[g] > 1) /\ a \in {"429", "50x"}
      \/ pc' = [pc EXCEPT ![g] = "end"] /\ left50x' = left50x
    BY DEF Answer, Goto, Return, Retried
<1>4. \A x \in Goroutines : Paced(x)' = Paced(x)
    BY <1>2 DEF Paced, Host
<1>5. RateTyped'
    BY <1>1, <1>2, ClientAssumption DEF RateInv, RateTyped
<1>6. PacedOnly'
    BY <1>1, <1>2, <1>3, <1>4 DEF RateInv, PacedOnly
<1>7. Promised' = Promised /\ \A j \in Nat : Late(j)' = Late(j)
    BY <1>1, <1>2, <1>3, <1>4 DEF Promised, Late
<1>8. InTime'
    BY <1>2, <1>7 DEF RateInv, InTime
<1>9. Ahead \in SUBSET (Goroutines \X (1..3)) /\ Ahead' \in SUBSET (Goroutines \X (1..3))
    BY DEF Ahead, Tries
<1>10. Ahead' \subseteq Ahead \cup (IF a = "429" THEN {<<g, left50x[g]>>} ELSE {})
  <2> SUFFICES ASSUME NEW t \in Ahead', ~(a = "429" /\ t = <<g, left50x[g]>>)
               PROVE  t \in Ahead
      OBVIOUS
  <2>0. t \in Goroutines \X (1..3)
      BY <1>9
  <2>1. CASE t[1] = g
      BY <1>1, <1>2, <1>3, <2>0, <2>1 DEF Ahead, Tries
  <2>2. CASE t[1] # g
      BY <1>1, <1>2, <1>3, <2>0, <2>2 DEF Ahead, Tries
  <2> QED BY <2>1, <2>2
<1>11. CASE a = "429"
  <2> DEFINE more == Ahead \cup {<<g, left50x[g]>>}
  <2>0. Cardinality(Ahead) \in Nat /\ Cardinality(Ahead') \in Nat /\ IsFiniteSet(Ahead)
      BY <1>9, Countable
  <2>1. /\ IsFiniteSet(more)
        /\ Cardinality(more) = Cardinality(Ahead) \/ Cardinality(more) = Cardinality(Ahead) + 1
      BY <2>0, FS_AddElement
  <2>2. Cardinality(Ahead') <= Cardinality(Ahead) + 1
    <3>1. Ahead' \in SUBSET more
        BY <1>10, <1>11
    <3> HIDE DEF more
    <3>2. Cardinality(Ahead') <= Cardinality(more)
        BY <2>1, <3>1, FS_Subset
    <3> QED BY <2>0, <2>1, <3>2
  <2>3. Cardinality(Promised') = Cardinality(Promised)
      BY <1>7
  <2>4. Spared'
      BY <1>1, <1>2, <1>11, <2>0, <2>2, <2>3, ClientAssumption DEF RateInv, Spared
  <2> QED BY <1>5, <1>6, <1>8, <2>4 DEF RateInv
<1>12. CASE a # "429"
  <2>1. Ahead' \subseteq Ahead /\ UNCHANGED refused
      BY <1>2, <1>10, <1>12
  <2> QED BY <1>1, <1>2, <1>5, <1>6, <1>7, <2>1, QuietKeeps
<1> QED BY <1>11, <1>12

\* Draining takes only tokens that are there (rate-limits.go:51-53).
LEMMA DrainRate ==
    ASSUME NEW g \in Goroutines, ClientInv, SendInv, RateInv, Drain(g) \/ Again(g)
    PROVE  RateInv'
<1>1. /\ pc \in [Goroutines -> Places] /\ tokens \in Int /\ wait \in [Goroutines -> Nat]
      /\ left50x \in [Goroutines -> 1..3]
    BY DEF ClientInv, PlaceTyped, SendInv, CountTyped, RateInv, RateTyped
<1>2. UNCHANGED <<request, wait, left50x, refused, spare>> /\ pc[g] \in {"drain", "again"}
    BY DEF Drain, Again, onceVars, history
<1>3. tokens' \in Int /\ tokens' <= tokens /\ (tokens' = tokens \/ tokens' >= 0)
    BY <1>1 DEF Drain, Again
<1>4. UNCHANGED pc \/ \E p \in {"again", "pace", "end"} : pc' = [pc EXCEPT ![g] = p]
    BY DEF Drain, Again, Goto, Return
<1>5. \A x \in Goroutines : Paced(x)' = Paced(x)
    BY <1>2 DEF Paced, Host
<1>6. PacedOnly' /\ RateTyped'
    BY <1>1, <1>2, <1>4, <1>5 DEF RateInv, PacedOnly, RateTyped
<1>7. Promised' = Promised /\ \A j \in Nat : Late(j)' = Late(j)
    BY <1>1, <1>2, <1>4, <1>5 DEF Promised, Late
<1>8. Ahead' \subseteq Ahead
    BY <1>1, <1>2, <1>4 DEF Ahead, Tries
<1> QED BY <1>1, <1>2, <1>3, <1>6, <1>7, <1>8, QuietKeeps

\* A tick brings the same tokens to the limiter, to those that wait and to the
\* account (rate-limits.go:11-15).
LEMMA TickRate ==
    ASSUME ClientInv, SendInv, RateInv, Tick
    PROVE  RateInv'
<1> USE ClientAssumption
<1>1. /\ tokens \in Int /\ wait \in [Goroutines -> Nat] /\ spare \in Int
      /\ refused \in 0..MaxRefused
    BY DEF SendInv, CountTyped, RateInv, RateTyped
<1>2. /\ UNCHANGED <<request, pc, left50x, refused>>
      /\ tokens' = Refilled /\ spare' = Least(Sendable, spare + PerTick)
      /\ wait' = [g \in Goroutines |-> IF wait[g] > 0 THEN wait[g] - 1 ELSE 0]
    BY DEF Tick, onceVars
<1>3. \A x \in Goroutines : Paced(x)' = Paced(x)
    BY <1>2 DEF Paced, Host
<1>4. Promised' = Promised /\ Ahead' = Ahead /\ PacedOnly'
    BY <1>2, <1>3 DEF Promised, Ahead, Tries, RateInv, PacedOnly
<1>5. /\ Promised \in SUBSET Goroutines /\ Tries \in SUBSET (Goroutines \X (1..3))
      /\ Ahead \in SUBSET Tries /\ Ahead \in SUBSET (Goroutines \X (1..3))
    BY DEF Promised, Tries, Ahead
<1>6. /\ Cardinality(Promised) \in Nat /\ Cardinality(Tries) \in Nat
      /\ Cardinality(Ahead) \in Nat /\ Cardinality(Ahead) <= Cardinality(Tries)
    BY <1>5, Countable, FS_Subset
<1>7. Sendable \in Int /\ Sendable >= MaxRefused - refused + Cardinality(Ahead)
    BY <1>1, <1>6 DEF Sendable
<1>8. RateTyped'
    BY <1>1, <1>2, <1>7 DEF RateInv, RateTyped, Least
<1>9. tokens' \in Int /\ tokens' <= tokens + PerTick /\ (tokens' = tokens + PerTick \/ tokens' > 0)
    BY <1>1, <1>2 DEF Refilled, Least
<1>10. Spared'
  <2>1. \/ spare' = spare + PerTick
        \/ spare' >= MaxRefused - refused + Cardinality(Ahead)
      BY <1>2, <1>7 DEF Least
  <2> QED BY <1>1, <1>2, <1>4, <1>6, <1>9, <2>1 DEF RateInv, Spared
<1>11. ASSUME NEW j \in Nat PROVE Cardinality(Late(j)') >= (-tokens') - j * PerTick
  <2>1. Late(j)' = Late(j + 1)
      BY <1>1, <1>2, <1>4 DEF Late, Promised
  <2>2. Cardinality(Late(j + 1)) >= (-tokens) - (j + 1) * PerTick
      BY DEF RateInv, InTime
  <2>3. (j + 1) * PerTick = j * PerTick + PerTick /\ j * PerTick \in Nat
      OBVIOUS
  <2>4. Late(j + 1) \in SUBSET Goroutines
      BY DEF Late, Promised
  <2>5. Cardinality(Late(j + 1)) \in Nat
      BY <2>4, Countable
  <2> QED BY <1>1, <1>9, <2>1, <2>2, <2>3, <2>5
<1> QED BY <1>4, <1>8, <1>10, <1>11 DEF RateInv, InTime

\* The account holds whatever the requests and the clock do (rate-limits.go:34-53).
LEMMA RateInvariant == Spec => []RateInv
<1>1. Init => RateInv
  <2> SUFFICES ASSUME Init PROVE RateInv
      OBVIOUS
  <2>1. /\ pc = [g \in Goroutines |-> "start"] /\ wait = [g \in Goroutines |-> 0]
        /\ refused = 0 /\ tokens = Burst /\ spare = Burst
      BY DEF Init
  <2>2. RateTyped /\ PacedOnly
      BY <2>1, ClientAssumption DEF RateTyped, PacedOnly
  <2>3. Promised = {}
      BY <2>1 DEF Promised
  <2>4. Spared
      BY <2>1, <2>3, FS_EmptySet, ClientAssumption DEF Spared
  <2>5. ASSUME NEW j \in Nat PROVE Cardinality(Late(j)) >= (-tokens) - j * PerTick
    <3>1. Late(j) = {} /\ j * PerTick \in Nat
        BY <2>3, ClientAssumption DEF Late
    <3> QED BY <2>1, <3>1, FS_EmptySet, ClientAssumption
  <2> QED BY <2>2, <2>4, <2>5 DEF RateInv, InTime
<1>2. IInv /\ RateInv /\ [Next]_vars => RateInv'
  <2> SUFFICES ASSUME ClientInv, SendInv, RateInv, [Next]_vars PROVE RateInv'
      BY DEF IInv
  <2>1. CASE \E g \in Goroutines : Step(g)
      BY <2>1, BeforeRate, ReserveRate, SendRate, AnswerRate, DrainRate DEF Step
  <2>2. CASE UNCHANGED vars
    <3>1. UNCHANGED <<request, pc, tokens, wait, left50x, refused, spare>>
        BY <2>2 DEF vars, onceVars, history
    <3> QED BY <3>1 DEF RateInv, RateTyped, PacedOnly, InTime, Spared, Promised, Late, Ahead, Tries,
                        Paced, Host
  <2> QED BY <2>1, <2>2, TickRate DEF Next
<1> QED BY <1>1, <1>2, Invariant, PTL DEF Spec

\* By any time no more requests have gone out to the host than the burst and what
\* the time since the start allows, whoever sent, repeated or drained, and
\* however many there are (rate-limits.go:11-15, 34-53).
THEOREM RateIsKept == Spec => []WithinRate
<1>1. IInv /\ RateInv => WithinRate
  <2> SUFFICES ASSUME IInv, RateInv PROVE spare >= 0
      BY DEF WithinRate
  <2>1. tokens \in Int /\ spare \in Int /\ refused \in 0..MaxRefused
      BY DEF IInv, SendInv, CountTyped, RateInv, RateTyped
  <2>2. /\ Promised \in SUBSET Goroutines /\ Late(0) \in SUBSET Promised
        /\ Ahead \in SUBSET (Goroutines \X (1..3))
      BY DEF Promised, Late, Ahead, Tries
  <2>3. /\ Cardinality(Ahead) \in Nat /\ Cardinality(Promised) \in Nat
        /\ Cardinality(Late(0)) \in Nat /\ Cardinality(Late(0)) <= Cardinality(Promised)
      BY <2>2, Countable, FS_Subset
  <2>4. Cardinality(Late(0)) >= -tokens
    <3>1. Cardinality(Late(0)) >= (-tokens) - 0 * PerTick /\ 0 * PerTick = 0
        BY ClientAssumption DEF RateInv, InTime
    <3> QED BY <2>1, <2>3, <3>1
  <2> QED BY <2>1, <2>3, <2>4, ClientAssumption DEF RateInv, Spared
<1> QED BY <1>1, Invariant, RateInvariant, PTL

(***************************************************************************)
(* The type invariant.                                                     *)
(***************************************************************************)

\* what neither invariant above has had a need for
Bounded ==
    /\ auth \in {"idle", "running", "ok", "failed"}
    /\ tokens <= Burst
    /\ rest \in [Goroutines -> 0..1]
    /\ drain \in [Goroutines -> 0..Burst]

\* What is drained was there, and the limiter is never filled beyond its burst
\* (rate-limits.go:50-53).
LEMMA StepBounded ==
    ASSUME NEW g \in Goroutines, tokens \in Int, Bounded, Step(g)
    PROVE  Bounded'
<1> USE ClientAssumption DEF Bounded
<1>1. CASE LoadOrStore(g) \/ CallOnce(g) \/ CallAuth(g) \/ LoadAuth(g) \/ MakeClient(g) \/ Request(g)
  <2>1. UNCHANGED <<tokens, rest, drain>>
      BY <1>1 DEF LoadOrStore, CallOnce, CallAuth, LoadAuth, MakeClient, Request, sending
  <2>2. auth' \in {"idle", "running", "ok", "failed"}
      BY <1>1 DEF LoadOrStore, CallOnce, CallAuth, LoadAuth, MakeClient, Request, onceVars
  <2> QED BY <2>1, <2>2
<1>2. CASE Reserve(g)
    BY <1>2 DEF Reserve, onceVars
<1>3. CASE Send(g)
    BY <1>3 DEF Send, onceVars
<1>4. ASSUME NEW a \in Answers, Answer(g, a) PROVE Bounded'
  <2>1. UNCHANGED <<auth, tokens, rest>>
      BY <1>4 DEF Answer, onceVars
  <2>2. Available \in 0..Burst
      BY DEF Available
  <2>3. UNCHANGED drain \/ \E n \in 0..Burst : drain' = [drain EXCEPT ![g] = n]
      BY <1>4, <2>2 DEF Answer
  <2> QED BY <2>1, <2>3
<1>5. CASE Drain(g)
  <2>1. UNCHANGED <<auth, rest>> /\ tokens' <= Burst
      BY <1>5 DEF Drain, onceVars
  <2>2. UNCHANGED drain \/ (drain[g] > 0 /\ drain' = [drain EXCEPT ![g] = @ - 1])
      BY <1>5 DEF Drain
  <2> QED BY <2>1, <2>2
<1>6. CASE Again(g)
    BY <1>6 DEF Again, onceVars
<1> QED BY <1>1, <1>2, <1>3, <1>4, <1>5, <1>6 DEF Step

\* Every variable keeps its type, for any goroutines and limiters: no more is
\* drained, and no more is there, than the burst (rate-limits.go:11-53).
THEOREM TypeCorrect == Spec => []TypeOK
<1>1. Init => Bounded
  <2> SUFFICES ASSUME Init PROVE Bounded
      OBVIOUS
  <2>1. /\ auth = "idle" /\ tokens = Burst
        /\ rest = [g \in Goroutines |-> 0] /\ drain = [g \in Goroutines |-> 0]
      BY DEF Init
  <2> QED BY <2>1, ClientAssumption DEF Bounded
<1>2. IInv /\ Bounded /\ [Next]_vars => Bounded'
  <2> SUFFICES ASSUME tokens \in Int, Bounded, [Next]_vars PROVE Bounded'
      BY DEF IInv, SendInv, CountTyped
  <2>1. CASE \E g \in Goroutines : Step(g)
      BY <2>1, StepBounded
  <2>2. CASE Tick
    <3>1. UNCHANGED <<auth, drain>> /\ rest' = [g \in Goroutines |-> 0] /\ tokens' = Refilled
        BY <2>2 DEF Tick, onceVars
    <3>2. Refilled <= Burst
        BY ClientAssumption DEF Refilled, Least
    <3> QED BY <3>1, <3>2 DEF Bounded
  <2>3. CASE UNCHANGED vars
      BY <2>3 DEF vars, onceVars, Bounded
  <2> QED BY <2>1, <2>2, <2>3 DEF Next
<1>3. IInv /\ RateInv /\ Bounded => TypeOK
    BY DEF IInv, ClientInv, ClientTyped, PlaceTyped, SendInv, CountTyped, RateInv, RateTyped,
           Bounded, TypeOK
<1> QED BY <1>1, <1>2, <1>3, Invariant, RateInvariant, PTL DEF Spec
=============================================================================
