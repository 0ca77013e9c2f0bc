-------------------------- MODULE RouterProperties -------------------------
(***************************************************************************)
(* What makes the routing core correct: the properties of module Router.   *)
(***************************************************************************)
EXTENDS Router

CONSTANTS
    Statuses,       \* the HTTP statuses an answer may carry
    Tries           \* the numbers of a request's attempts

\* A committed stream is over once pump is, though its Fail may still run.
Answered(r) == pc[r] = "done" \/ (pc[r] = "failing" /\ result[r].committed)

\* The indices of r's attempts that reached a provider.
Reached(r) ==
    {i \in DOMAIN attempts[r] : attempts[r][i].outcome \notin {"skipped_blackout", "error"}}

\* Was the (target, key) of that type tried, or skipped, among the first n
\* attempts of r?
Covered(r, t, key, type, n) ==
    \E i \in 1..n : /\ attempts[r][i].target = t
                    /\ attempts[r][i].key = key
                    /\ attempts[r][i].type = type

\* Was the combo t blocked on policy grounds among the first n attempts of r?
Barred(r, t, n) ==
    \E i \in 1..n : attempts[r][i].target = t /\ attempts[r][i].outcome = "prohibited_content"

\* The configuration r started under.
OwnCfg(r) == Cfgs[route[r].gen]

TargetsOf(r) == {route[r].targets[i] : i \in DOMAIN route[r].targets}
DefinedTargets(r) == {t \in TargetsOf(r) : t.provider \in DOMAIN OwnCfg(r).providers}
ProviderOf(r, t) == OwnCfg(r).providers[t.provider]
Elements(s) == {s[i] : i \in DOMAIN s}

AllNormalKeysSpent(r, n) ==
    \A t \in DefinedTargets(r) :
        \/ Barred(r, t, n)
        \/ \A k \in Elements(ProviderOf(r, t).keys) : Covered(r, t, k, "normal", n)

AllFallbackKeysSpent(r) ==
    LET n == Len(attempts[r]) IN
    \A t \in DefinedTargets(r) :
        \/ Barred(r, t, n)
        \/ ~FallbackAllows(ProviderOf(r, t), t.model)
        \/ \A k \in Elements(FallbackKeySet(ProviderOf(r, t))) : Covered(r, t, k, "fallback", n)

\* A request is given up only when there is nothing left to try: every target's
\* normal keys were called or skipped as blacked out and every fallback key its
\* fallback_models allow was called, policy-blocked combos excepted. (run in
\* src/router/router.go; README "Routing algorithm".)
GivesUpOnlyWhenExhausted ==
    \A r \in Requests :
        /\ pc[r] = "done" /\ ~result[r].success /\ result[r].status # 499
        /\ \A i \in DOMAIN attempts[r] : attempts[r][i].outcome # "canceled"
        /\ result[r].committed => wire[r] = <<[try |-> 0, n |-> 1]>>
        => AllNormalKeysSpent(r, Len(attempts[r])) /\ AllFallbackKeysSpent(r)

\* Fallback keys are the last resort: none is called while some target still has
\* an untried normal key. (run's two phases; README "tried only after every
\* normal key/model is exhausted".)
FallbackIsLastResort ==
    \A r \in Requests : \A i \in DOMAIN attempts[r] :
        attempts[r][i].type = "fallback" => AllNormalKeysSpent(r, i - 1)

\* A policy-blocked combo is not asked again in the fallback round. (prohibited
\* in run, src/router/router.go.)
NoFallbackAfterPolicyBlock ==
    \A r \in Requests : \A i \in DOMAIN attempts[r] :
        attempts[r][i].type = "fallback" => ~Barred(r, attempts[r][i].target, i - 1)

\* The comment in run on a policy block: "the remaining keys (and the
\* fallback-key phase) for that combo are skipped". A combo that answered with a
\* policy block is not called again by the same request.
NoCallAfterPolicyBlock ==
    \A r \in Requests : \A i \in Reached(r) : ~Barred(r, attempts[r][i].target, i - 1)

\* The comment of onlyIncompatible: "whether every attempt that reached a provider
\* was rejected as non-portable"; Execute answers such a request 400, "the fault
\* is in the request, not in the providers".
RequestFaultIsA400 ==
    \A r \in Requests :
        /\ pc[r] = "done" /\ Reached(r) # {} /\ result[r].status # 499
        /\ \A i \in Reached(r) : attempts[r][i].outcome = "incompatible"
        => result[r].status = 400

\* A failed request is never dressed up as a success: outside a stream a 2xx
\* without success is only the truncated reply of a buffered Chat, Responses or
\* embeddings call, and never one a policy blocked. (exhaustedHTTPStatus,
\* ExecuteStream's and executeAudio's exhaustion.)
FailureIsNot2xx ==
    \A r \in Requests :
        pc[r] = "done" /\ ~result[r].success /\ ~result[r].committed /\ result[r].status \in 200..299
        => /\ ~IsStreamed(r) /\ ~IsAudio(r)
           /\ \E i \in Reached(r) : /\ attempts[r][i].outcome = "bad_output"
                                    /\ \A j \in Reached(r) : j > i =>
                                        attempts[r][j].outcome = "incompatible"

\* The indices of r's attempts that got a reply a caller could be shown.
Real(r) ==
    {i \in Reached(r) : attempts[r][i].outcome # "incompatible"}

\* An exhausted buffered request is answered for its last real reply: a later
\* skipped key, undefined provider or incompatible target does not mask it.
\* (last in settle; exhaustedHTTPStatus.)
LastRealReplyIsAnswered ==
    \A r \in Requests :
        /\ pc[r] = "done" /\ ~result[r].success /\ ~result[r].committed
        /\ result[r].status # 499 /\ Real(r) # {}
        /\ ~IsStreamed(r) /\ ~IsAudio(r)
        => LET x == attempts[r][CHOOSE i \in Real(r) : \A j \in Real(r) : j <= i].reply
           IN  result[r].status = IF x.body THEN ExhaustedStatus(x) ELSE 502

\* Once the caller's cancellation was noticed the run is over: it is the last
\* attempt, and outside a stream the answer is 499. (outcomeCanceled in settle,
\* pump.)
NothingAfterCancellation ==
    \A r \in Requests : \A i \in DOMAIN attempts[r] :
        attempts[r][i].outcome = "canceled" =>
            i = Len(attempts[r]) /\ pc[r] = "done"
            /\ (result[r].committed \/ result[r].status = 499)

View(r) ==
    [state |-> IF Answered(r) THEN "answered"
               ELSE IF result[r].committed THEN "streaming" ELSE "waiting",
     streamed |-> IsStreamed(r),
     status |-> result[r].status,
     wire |-> wire[r]]

Life == INSTANCE RequestLife
        WITH Clients <- Requests, view <- [r \in Requests |-> View(r)]

\* The client's view of every request is as RequestLife promises: one answer, or
\* one stream from one attempt, gapless and in order, never a 2xx outside a
\* stream for who asked for one. (ExecuteStream, tryKeyStream and pump in
\* src/router/stream.go; "Once it has committed through sink it never switches
\* attempts".)
ImplementsRequestLife == Life!LifeSpec

-----------------------------------------------------------------------------
(* Shared state: other requests, and reloads *)

\* The attempt a of r failed on the pair p as a normal key, through the provider's
\* fault.
FailedOn(r, a, p) ==
    /\ p = <<a.key, a.target.model>>
    /\ a.type = "normal" /\ a.outcome = "provider_error" /\ a.reply.status # 400
    /\ ~(a.reply.timedOut /\ ask[r].op = "transcribe")

\* The attempt that made a request report a failure to the blackout tracker.
Culprit(r, p) == attempts[r] # <<>> /\ FailedOn(r, attempts[r][Len(attempts[r])], p)

\* A pair is blacked out only by a request whose latest attempt failed on it as a
\* normal key through the provider's fault: never for a 400, a refusal, a bad
\* output, a transcription that ran out of time, a caller that left or a
\* fallback key. (settle, pump, executeAudio; README "Key blackout".)
BlackoutOnlyForKeyFaults ==
    [][\A p \in DOMAIN until' :
        p \notin DOMAIN until \/ until'[p] # until[p] => \E r \in Requests : Culprit(r, p)]_until

\* A request only ever uses keys of the configuration it started under, however
\* many reloads happen while it runs. (state.Load once per request; comment of
\* Router.Reload.)
UsesItsOwnGeneration ==
    \A r \in Requests : \A i \in DOMAIN attempts[r] :
        LET a == attempts[r][i] IN
        IF a.outcome = "error" THEN a.target.provider \notin DOMAIN OwnCfg(r).providers
        ELSE /\ a.target.provider \in DOMAIN OwnCfg(r).providers
             /\ a.key \in Elements(ProviderOf(r, a.target).keys)
                         \cup Elements(FallbackKeySet(ProviderOf(r, a.target)))

\* r has asked p, as an attempt or in the call at hand, and was told that p has no
\* /responses route; of an open stream nothing but that it was asked is kept.
Taught(r, p) ==
    \/ \E i \in Reached(r) : /\ attempts[r][i].target.provider = p
                             /\ attempts[r][i].reply.learn \/ IsStreamed(r)
    \/ /\ pc[r] \in {"judged", "early", "commit", "pump", "gone"}
       /\ CurTarget(r).provider = p
       /\ call[r].reply.learn \/ IsStreamed(r)

\* A provider is remembered as Chat-only only in the cache of a generation whose
\* configuration leaves that open, and only through a Responses request that was
\* routed under this very generation and asked it: a verdict of an old generation
\* never crosses a reload, and no request speaks for another's provider. Whether p
\* really lacks the route is not said: a probe may be misread.
\* (capability.go, "Each config reload starts a new cache"; Reload.)
ChatOnlyIsLearntHere ==
    \A g \in Generations : \A p \in chatOnly[g] :
        /\ p \in DOMAIN Cfgs[g].providers
        /\ Cfgs[g].providers[p].kind = "openai" /\ Cfgs[g].providers[p].supports = "unset"
        /\ \E r \in Requests : route[r].gen = g /\ ask[r].op = "responses" /\ Taught(r, p)

\* Under the fairness of FairSpec every request is answered, whatever the other
\* requests, the reloads and the client do. (run always advances; a stream that
\* commits is always pumped to its end.)
EveryRequestIsAnswered == \A r \in Requests : <>(pc[r] = "done")
=============================================================================
