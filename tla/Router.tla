------------------------------- MODULE Router ------------------------------
(***************************************************************************)
(* The routing core of maiGoLLMRouter (src/router): for every inbound      *)
(* request, the walk over targets and keys (run, tryKey, settle), the      *)
(* streamed attempts (tryKeyStream, judgeEarlyEnd, pump), the audio        *)
(* attempts (executeAudio), the answer when everything is exhausted, and   *)
(* Router.Reload in the middle of it all. Requests run concurrently and    *)
(* share the blackout tracker (module Blackout) and, per configuration     *)
(* generation, the cache of providers without a /responses route.          *)
(*                                                                         *)
(* Downstream providers and clients are the environment: a provider may    *)
(* answer any attempt with any reply of Replies, or stream any frames and  *)
(* end in any way of StreamEnds; a client may go away at any time.         *)
(***************************************************************************)
EXTENDS Blackout, Integers, Sequences

CONSTANTS
    Inbound,        \* what a request may ask for
    Cfgs,           \* the configurations, in the order they are loaded
    Providers,      \* provider names, defined in a configuration or not
    Models,         \* downstream model names
    Keys,           \* downstream API keys
    Direct,         \* Direct[name]: how a "provider/model" name splits
    Replies,        \* what a downstream may answer to a buffered call
    StreamEnds,     \* how a downstream's stream may end
    MaxFrames       \* bound on the frames of one stream

\* The inbound requests are the goroutines that use the blackout tracker.
Requests == Callers

Target == [provider: Providers, model: Models]

Operations == {"chat", "responses", "embed", "speech", "transcribe"}

\* An inbound request: portable tells a Responses body that translates to Chat.
Ask == [name: Models, op: Operations, stream: BOOLEAN, portable: BOOLEAN]

\* provider.Response as far as routing looks at it. none says that there is no
\* reply yet, err that the call failed in transport, learn is LearnChatOnly, and
\* timedOut that the attempt's own deadline had passed. A stream that ended is
\* told in the same terms: err for a *StreamError, otherwise io.EOF and the
\* state at that point. words is what isResponsesUnsupported looks for in a body:
\* "unknown" stands for any of its markers, "model not found" for any of
\* isModelNotFoundBody's. (Every dialect returns a Response, error or not; kinds
\* are validated by the configuration.)
Words == {"/responses", "unknown", "unknown_url", "model not found"}

Reply == [none: BOOLEAN, err: BOOLEAN, timedOut: BOOLEAN, status: Nat,
          body: BOOLEAN, content: BOOLEAN, finish: {"", "stop", "length"},
          prohibited: BOOLEAN, incompatible: BOOLEAN, learn: BOOLEAN,
          words: SUBSET Words]

NoReply == [none |-> TRUE, err |-> FALSE, timedOut |-> FALSE, status |-> 0,
            body |-> FALSE, content |-> FALSE, finish |-> "",
            prohibited |-> FALSE, incompatible |-> FALSE, learn |-> FALSE,
            words |-> {}]

\* An outbound reply that carries nothing yet.
Empty == [NoReply EXCEPT !.none = FALSE]

Provider == [kind: {"openai", "anthropic", "gemini"}, keys: Seq(Keys),
             fallbackKeys: Seq(Keys), fallbackModels: SUBSET Models,
             supports: {"unset", "yes", "no"}, hasRoute: BOOLEAN]

Modes == {"probe", "force", "chat_only"}

Outcomes == {"success", "canceled", "incompatible", "prohibited_content",
             "provider_error", "bad_output", "skipped_blackout", "error"}

NoKey == ""

Attempt == [target: Target, type: {"normal", "fallback"}, key: Keys \cup {NoKey},
            outcome: Outcomes, reply: Reply]

\* Frames are told apart by the attempt they belong to and their place in its
\* stream; the router's own error event has place 0, a refusal attempt 0.
Frame == [try: Nat, n: Nat]

Generations == 1..Len(Cfgs)

Stages == {"new", "enter", "pick", "ready", "calling", "judged", "early",
           "commit", "pump", "gone", "failing", "done"}

-----------------------------------------------------------------------------
(* Configurations and inbound requests *)

\* A configuration: its routes and providers are functions on the names it defines.
IsConfig(c) ==
    /\ DOMAIN c.routes \subseteq Models /\ DOMAIN c.providers \subseteq Providers
    /\ \A name \in DOMAIN c.routes : c.routes[name] \in [targets: Seq(Target), shuffle: BOOLEAN]
    /\ \A name \in DOMAIN c.routes : c.routes[name].targets # <<>>
    /\ \A p \in DOMAIN c.providers : c.providers[p] \in Provider
    /\ c.fallbacks \in Seq(Providers)
    /\ c.shuffleFallbacks \in BOOLEAN /\ c.streaming \in BOOLEAN
    /\ c.blackout \in Windows

ASSUME RouterAssumption ==
    /\ Inbound \subseteq Ask
    /\ Len(Cfgs) \in Nat \ {0}
    /\ \A g \in Generations : IsConfig(Cfgs[g])
    /\ \A name \in DOMAIN Direct : name \in Models /\ Direct[name] \in Target
    /\ Keys \X Models \subseteq Pairs
    /\ Replies \cup StreamEnds \subseteq {x \in Reply : ~x.none}
    /\ \A e \in StreamEnds : ~e.incompatible
    /\ MaxFrames \in Nat

\* FallbackAllows: an empty fallback_models list allows every model.
FallbackAllows(p, model) == p.fallbackModels = {} \/ model \in p.fallbackModels

\* FallbackKeySet: the fallback keys, else the normal keys when only
\* fallback_models is set, else none.
FallbackKeySet(p) ==
    IF p.fallbackKeys # <<>> THEN p.fallbackKeys
    ELSE IF p.fallbackModels # {} THEN p.keys ELSE <<>>

\* orderedTargets, orderedProviders: the list as it is, or any shuffle of it.
Orders(s, shuffle) ==
    IF shuffle
    THEN {[i \in DOMAIN s |-> s[f[i]]] :
            f \in {g \in [DOMAIN s -> DOMAIN s] :
                    \A i, j \in DOMAIN s : g[i] = g[j] => i = j}}
    ELSE {s}

\* resolve: the target lists a name may turn into; <<>> when it has none.
Resolve(c, name) ==
    IF name \in DOMAIN c.routes
    THEN Orders(c.routes[name].targets, c.routes[name].shuffle)
    ELSE IF name \in DOMAIN Direct /\ Direct[name].provider \in DOMAIN c.providers
    THEN {<<Direct[name]>>}
    ELSE Orders([i \in DOMAIN c.fallbacks |-> [provider |-> c.fallbacks[i], model |-> name]],
                c.shuffleFallbacks)

-----------------------------------------------------------------------------
(* State *)

VARIABLES
    ask,        \* ask[r]: what request r asks for
    gen,        \* the generation Router.state points to
    pending,    \* the window a running Reload has yet to set, if any
    chatOnly,   \* chatOnly[g]: providers marked in generation g's cache
    pc,         \* pc[r]: how far request r is
    route,      \* route[r]: the generation r loaded and the targets it resolved
    scan,       \* scan[r]: where r stands in run's two phases
    call,       \* call[r]: r's attempt in progress
    attempts,   \* attempts[r]: Result.Attempts
    last,       \* last[r]: the reply kept for the exhausted answer
    buf,        \* buf[r]: frames read from the stream and not yet written
    wire,       \* wire[r]: frames the client got
    result,     \* result[r]: Result's status, committed and success
    client      \* client[r]: is the caller there, and does the context know

requestVars == <<route, scan, call, attempts, last, buf, wire, result>>
sharedVars == <<ask, gen, pending, chatOnly>>
vars == <<sharedVars, pc, requestVars, client, blackoutVars>>

\* What a request keeps: the route it took, its place in run's two phases, the
\* call it makes and the result it builds.
RouteTaken == [gen: Generations, targets: Seq(Target)]
Place == [phase: {"normal", "fallback"}, at: Nat \ {0}, left: SUBSET Nat, key: Nat,
          barred: SUBSET Target]
CallMade == [mode: Modes, read: Nat, reply: Reply, verdict: Outcomes]
Result == [status: Nat, committed: BOOLEAN, success: BOOLEAN]

TypeOK ==
    /\ BlackoutTypeOK
    /\ ask \in [Requests -> Ask]
    /\ gen \in Generations
    /\ pending \in SUBSET Windows
    /\ chatOnly \in [Generations -> SUBSET Providers]
    /\ pc \in [Requests -> Stages]
    /\ route \in [Requests -> RouteTaken]
    /\ scan \in [Requests -> Place]
    /\ call \in [Requests -> CallMade]
    /\ attempts \in [Requests -> Seq(Attempt)]
    /\ last \in [Requests -> Reply]
    /\ buf \in [Requests -> Seq(Frame)]
    /\ wire \in [Requests -> Seq(Frame)]
    /\ result \in [Requests -> Result]
    /\ client \in [Requests -> {"here", "gone", "canceled"}]

RouterInit ==
    /\ BlackoutInit(Cfgs[1].blackout)
    /\ ask \in [Requests -> Inbound]
    /\ gen = 1
    /\ pending = {}
    /\ chatOnly = [g \in Generations |-> {}]
    /\ pc = [r \in Requests |-> "new"]
    /\ route = [r \in Requests |-> [gen |-> 1, targets |-> <<>>]]
    /\ scan = [r \in Requests |-> [phase |-> "normal", at |-> 1, left |-> {},
                                   key |-> 0, barred |-> {}]]
    /\ call = [r \in Requests |-> [mode |-> "probe", read |-> 0, reply |-> NoReply,
                                   verdict |-> "error"]]
    /\ attempts = [r \in Requests |-> <<>>]
    /\ last = [r \in Requests |-> NoReply]
    /\ buf = [r \in Requests |-> <<>>]
    /\ wire = [r \in Requests |-> <<>>]
    /\ result = [r \in Requests |-> [status |-> 0, committed |-> FALSE, success |-> FALSE]]
    /\ client = [r \in Requests |-> "here"]

Goto(r, stage) == pc' = [pc EXCEPT ![r] = stage]

IsAudio(r) == ask[r].op \in {"speech", "transcribe"}
IsStreamed(r) == ask[r].stream /\ ask[r].op \in {"chat", "responses"}

\* Mutant: the configuration is loaded anew at every step.
CfgNow(r) == Cfgs[gen]

\* What request r sees of its own generation.
Cfg(r) == Cfgs[route[r].gen]
CurTarget(r) == route[r].targets[scan[r].at]
Defined(r) == CurTarget(r).provider \in DOMAIN Cfg(r).providers
CurProvider(r) == Cfg(r).providers[CurTarget(r).provider]
CurKeys(r) == IF scan[r].phase = "normal" THEN CurProvider(r).keys
                                          ELSE FallbackKeySet(CurProvider(r))
CurPair(r, k) == <<CurKeys(r)[k], CurTarget(r).model>>
Canceled(r) == client[r] = "canceled"

InTarget == Stages \ {"new", "enter", "done"}
InCall == InTarget \ {"pick"}

\* The walk never leaves its lists: while a target is being tried it is one of
\* the request's targets and its provider is defined, the keys left are keys of
\* the list at hand, and so is the key in use. (No index out of range, no nil
\* provider in run and the try functions, across both phases and every skip.)
InBounds(r) ==
    /\ pc[r] \in InTarget =>
          /\ scan[r].at <= Len(route[r].targets) /\ Defined(r)
          /\ scan[r].left \subseteq DOMAIN CurKeys(r)
    /\ pc[r] \in InCall => scan[r].key \in DOMAIN CurKeys(r)

WalkInBounds == \A r \in Requests : InBounds(r)

-----------------------------------------------------------------------------
(* run: resolving the model and walking targets and keys *)

\* Execute, ExecuteStream, executeAudio: the state is loaded once, then the
\* model is resolved. A name with no target is answered 400 at once.
Start(r) ==
    /\ pc[r] = "new"
    /\ \E ts \in Resolve(Cfgs[gen], ask[r].name) :
        /\ route' = [route EXCEPT ![r] = [gen |-> gen, targets |-> ts]]
        /\ IF ts = <<>>
           THEN /\ result' = [result EXCEPT ![r].status = 400]
                /\ Goto(r, "done")
           ELSE UNCHANGED result /\ Goto(r, "enter")
    /\ UNCHANGED <<scan, call, attempts, last, buf, wire, client, sharedVars, blackoutVars>>

InTargets(r) == pc[r] = "enter" /\ scan[r].at <= Len(route[r].targets)

\* A target whose provider is not defined: noted in phase 1, passed over in 2.
UndefinedTarget(r) ==
    /\ InTargets(r) /\ ~Defined(r)
    /\ scan' = [scan EXCEPT ![r].at = @ + 1]
    /\ attempts' = IF scan[r].phase = "fallback" THEN attempts
                   ELSE [attempts EXCEPT ![r] = Append(@,
                          [target |-> CurTarget(r), type |-> "normal", key |-> NoKey,
                           outcome |-> "error", reply |-> NoReply])]
    /\ UNCHANGED <<pc, route, call, last, buf, wire, result, client, sharedVars, blackoutVars>>

\* Phase 2 passes over a model fallback_models excludes and a prohibited combo.
SkipFallback(r) ==
    /\ InTargets(r) /\ Defined(r) /\ scan[r].phase = "fallback"
    /\ \/ ~FallbackAllows(CurProvider(r), CurTarget(r).model)
       \/ CurTarget(r) \in scan[r].barred
    /\ scan' = [scan EXCEPT ![r].at = @ + 1]
    /\ UNCHANGED <<pc, route, call, attempts, last, buf, wire, result, client, sharedVars, blackoutVars>>

\* Mutant: the fallback round counts the normal keys.
EnterTargetByNormalKeys(r) ==
    /\ InTargets(r) /\ Defined(r)
    /\ \/ scan[r].phase = "normal"
       \/ /\ FallbackAllows(CurProvider(r), CurTarget(r).model)
          /\ CurTarget(r) \notin scan[r].barred
    /\ scan' = [scan EXCEPT ![r].left = DOMAIN CurProvider(r).keys]
    /\ Goto(r, "pick")
    /\ UNCHANGED <<route, call, attempts, last, buf, wire, result, client, sharedVars, blackoutVars>>

\* A target to try: phase 1 takes all its normal keys, phase 2 its fallback keys.
EnterTarget(r) ==
    /\ InTargets(r) /\ Defined(r)
    /\ \/ scan[r].phase = "normal"
       \/ /\ FallbackAllows(CurProvider(r), CurTarget(r).model)
          /\ CurTarget(r) \notin scan[r].barred
    /\ scan' = [scan EXCEPT ![r].left = DOMAIN CurKeys(r)]
    /\ Goto(r, "pick")
    /\ UNCHANGED <<route, call, attempts, last, buf, wire, result, client, sharedVars, blackoutVars>>

\* No key left for this target.
LeaveTarget(r) ==
    /\ pc[r] = "pick" /\ scan[r].left = {}
    /\ scan' = [scan EXCEPT ![r].at = @ + 1]
    /\ Goto(r, "enter")
    /\ UNCHANGED <<route, call, attempts, last, buf, wire, result, client, sharedVars, blackoutVars>>

\* Mutant: the last target's normal keys are forgotten.
BeginFallbackEarly(r) ==
    /\ pc[r] = "enter" /\ scan[r].at >= Len(route[r].targets) /\ scan[r].phase = "normal"
    /\ scan' = [scan EXCEPT ![r].phase = "fallback", ![r].at = 1]
    /\ UNCHANGED <<pc, route, call, attempts, last, buf, wire, result, client, sharedVars, blackoutVars>>

\* Every target had its normal keys tried: the fallback round begins.
BeginFallback(r) ==
    /\ pc[r] = "enter" /\ scan[r].at > Len(route[r].targets) /\ scan[r].phase = "normal"
    /\ scan' = [scan EXCEPT ![r].phase = "fallback", ![r].at = 1]
    /\ UNCHANGED <<pc, route, call, attempts, last, buf, wire, result, client, sharedVars, blackoutVars>>

\* A blacked-out normal key is noted and skipped.
SkipBlackedOut(r) ==
    /\ pc[r] = "pick" /\ scan[r].phase = "normal"
    /\ \E k \in scan[r].left :
        /\ Blocked(CurPair(r, k))
        /\ scan' = [scan EXCEPT ![r].left = @ \ {k}]
        /\ attempts' = [attempts EXCEPT ![r] = Append(@,
              [target |-> CurTarget(r), type |-> "normal", key |-> CurKeys(r)[k],
               outcome |-> "skipped_blackout", reply |-> NoReply])]
    /\ UNCHANGED <<pc, route, call, last, buf, wire, result, client, sharedVars, blackoutVars>>

\* The next key: any remaining normal key that is not blacked out (the order is
\* shuffled), the first remaining fallback key.
TakeKey(r) ==
    /\ pc[r] = "pick"
    /\ \E k \in scan[r].left :
        /\ scan' = [scan EXCEPT ![r].left = @ \ {k}, ![r].key = k]
        /\ IF scan[r].phase = "normal"
           THEN ~Blocked(CurPair(r, k)) /\ CheckBlocked(CurPair(r, k))
           ELSE (\A j \in scan[r].left : k <= j) /\ UNCHANGED blackoutVars
    /\ Goto(r, "ready")
    /\ UNCHANGED <<route, call, attempts, last, buf, wire, result, client, sharedVars>>

-----------------------------------------------------------------------------
(* One attempt: the call and its reply *)

\* responsesMode: explicit configuration, else the verdict cached for this
\* generation, else probe.
ResponsesMode(r) ==
    IF ask[r].op # "responses" THEN "probe"
    ELSE IF CurProvider(r).supports = "yes" THEN "force"
    ELSE IF CurProvider(r).supports = "no" THEN "chat_only"
    ELSE IF CurTarget(r).provider \in chatOnly[route[r].gen] THEN "chat_only" ELSE "probe"

\* Mutant: the frames kept of the attempt before are not dropped.
SendCallKeepingFrames(r) ==
    /\ pc[r] = "ready"
    /\ call' = [call EXCEPT ![r] = [mode |-> ResponsesMode(r), read |-> 0,
                                    reply |-> NoReply, verdict |-> "error"]]
    /\ Goto(r, "calling")
    /\ UNCHANGED <<route, scan, attempts, last, buf, wire, result, client, sharedVars, blackoutVars>>

SendCall(r) ==
    /\ pc[r] = "ready"
    /\ call' = [call EXCEPT ![r] = [mode |-> ResponsesMode(r), read |-> 0,
                                    reply |-> NoReply, verdict |-> "error"]]
    /\ buf' = [buf EXCEPT ![r] = <<>>]
    /\ Goto(r, "calling")
    /\ UNCHANGED <<route, scan, attempts, last, wire, result, client, sharedVars, blackoutVars>>

\* CallStream opens a stream for these dialects; others are called buffered.
Streamable(r) ==
    IsStreamed(r) /\ Cfg(r).streaming /\ CurProvider(r).kind \in {"openai", "gemini"}

HTTPFailed(x) == x.err \/ x.status < 200 \/ x.status >= 300

\* Does this 4xx say that there is no /responses route? Its body is judged by its
\* words alone: a provider that has the route may be misread.
isResponsesUnsupported(x) ==
    /\ x.status \in 400..499
    /\ "model not found" \notin x.words
    /\ {"/responses", "unknown"} \subseteq x.words \/ "unknown_url" \in x.words

\* A probe that is answered x goes on as Chat.
Downgrades(r, x) == call[r].mode = "probe" /\ ~x.err /\ isResponsesUnsupported(x)

\* The ways a call may go. Responses reach another dialect as Chat; on kind
\* openai they are asked for on /responses, where nothing but failures is met if
\* the route is missing, and a probe may be downgraded.
Paths(r) ==
    IF ask[r].op # "responses" THEN {"plain"}
    ELSE IF CurProvider(r).kind # "openai" \/ call[r].mode = "chat_only" THEN {"chat"}
    ELSE {IF CurProvider(r).hasRoute THEN "native" ELSE "missing"}
         \cup {path \in {"probed"} : \E x \in Replies : Downgrades(r, x)}

\* Nothing can be sent: the body does not translate to Chat, or the dialect has
\* no audio route (kind anthropic).
Unservable(r, path) ==
    \/ path \in {"chat", "probed"} /\ ~ask[r].portable
    \/ IsAudio(r) /\ CurProvider(r).kind = "anthropic"

\* How the reply x reaches the router. CallStream gives a transport failure the
\* status and body of its StreamError (504 out of time, 502 dropped).
AsSeen(r, x) ==
    IF x.err /\ Streamable(r)
    THEN [x EXCEPT !.status = IF x.timedOut THEN 504 ELSE 502, !.body = TRUE] ELSE x

\* What the call may return: an incompatible reply without any HTTP call, the
\* 400 that kind anthropic gives embeddings, or any reply of the downstream that
\* does not downgrade it. What was read before a connection broke is kept for
\* audio only (doJSON, doRaw).
Returns(r, path) ==
    IF Unservable(r, path)
    THEN {[Empty EXCEPT !.incompatible = TRUE, !.learn = (path = "probed")]}
    ELSE IF ask[r].op = "embed" /\ CurProvider(r).kind = "anthropic"
    THEN {[Empty EXCEPT !.err = TRUE, !.status = 400, !.body = TRUE]}
    ELSE {[AsSeen(r, x) EXCEPT !.learn = (path = "probed")] :
            x \in {y \in Replies : /\ path = "missing" => HTTPFailed(y)
                                   /\ path \in {"native", "missing"} => ~Downgrades(r, y)
                                   /\ y.err /\ y.body => IsAudio(r)}}

\* outputOK: content for embeddings and audio; content and a good finish reason
\* otherwise (good_finish_reasons is {"stop"} here).
OutputOK(r, x) == x.content /\ (ask[r].op = "embed" \/ IsAudio(r) \/ x.finish = "stop")

\* judge: the caller going away comes first, then a body this dialect cannot
\* carry, a policy block, a failure, and the check of the output.
Judge(r, x) ==
    IF Canceled(r) THEN "canceled"
    ELSE IF x.incompatible THEN "incompatible"
    ELSE IF x.prohibited THEN "prohibited_content"
    ELSE IF HTTPFailed(x) THEN "provider_error"
    ELSE IF OutputOK(r, x) THEN "success" ELSE "bad_output"

\* Mutant: the verdict goes to the cache of the newest generation.
LearnInNewest(r, learned) ==
    chatOnly' = IF learned THEN [chatOnly EXCEPT ![gen] = @ \cup {CurTarget(r).provider}]
                ELSE chatOnly

\* MarkChatOnly on the cache of the generation this request runs in.
Learn(r, learned) ==
    chatOnly' = IF learned
                THEN [chatOnly EXCEPT ![route[r].gen] = @ \cup {CurTarget(r).provider}]
                ELSE chatOnly

\* The call returned a whole reply. A good reply to a streamed request is
\* rendered as a stream (BufferedStream), its frames all at hand.
ReplyArrives(r) ==
    /\ pc[r] = "calling"
    /\ \E path \in Paths(r) : \E x \in Returns(r, path) :
        /\ Learn(r, x.learn)
        /\ call' = [call EXCEPT ![r].reply = x, ![r].verdict = Judge(r, x)]
        /\ IF Judge(r, x) = "success" /\ IsStreamed(r)
           THEN /\ \E n \in 1..MaxFrames : buf' = [buf EXCEPT ![r] =
                        [i \in 1..n |-> [try |-> Len(attempts[r]) + 1, n |-> i]]]
                /\ Goto(r, "commit")
           ELSE UNCHANGED buf /\ Goto(r, "judged")
    /\ UNCHANGED <<route, scan, attempts, last, wire, result, client, ask, gen, pending, blackoutVars>>

\* CallStream returned an open stream.
StreamOpens(r) ==
    /\ pc[r] = "calling" /\ Streamable(r)
    /\ \E path \in Paths(r) \ {"missing"} :
        ~Unservable(r, path) /\ Learn(r, path = "probed")
    /\ Goto(r, "early")
    /\ UNCHANGED <<requestVars, client, ask, gen, pending, blackoutVars>>

\* Stream.Next hands out the next frame.
ReadFrame(r) ==
    /\ call[r].read < MaxFrames
    /\ call' = [call EXCEPT ![r].read = @ + 1]
    /\ buf' = [buf EXCEPT ![r] = Append(@, [try |-> Len(attempts[r]) + 1, n |-> call[r].read + 1])]

\* Before output the frames are kept; the first one with real output commits.
EarlyFrame(r) ==
    /\ pc[r] = "early"
    /\ ReadFrame(r)
    /\ \/ UNCHANGED pc
       \/ Goto(r, "commit")
    /\ UNCHANGED <<route, scan, attempts, last, wire, result, client, sharedVars, blackoutVars>>

\* judgeEarlyEnd: the reply that stands for a stream without output. A policy
\* block that ended the stream has no body, an empty stream is a 502.
EarlyReply(e) ==
    IF e.err THEN e
    ELSE IF e.prohibited THEN [e EXCEPT !.body = FALSE]
    ELSE [e EXCEPT !.status = 502, !.body = TRUE]

\* Mutant: an empty stream leaves the attempt's outcome unset.
EarlyVerdictUnset(r, e) ==
    IF Canceled(r) THEN "canceled"
    ELSE IF e.prohibited THEN "prohibited_content"
    ELSE IF e.err THEN "provider_error" ELSE ""

EarlyVerdict(r, e) ==
    IF Canceled(r) THEN "canceled"
    ELSE IF e.prohibited THEN "prohibited_content"
    ELSE IF e.err THEN "provider_error" ELSE "bad_output"

\* The stream ended before output. A complete reply (a final event only) is
\* still good and commits; anything else is judged, and the kept frames are never sent.
EarlyEnd(r) ==
    /\ pc[r] = "early"
    /\ \E e \in StreamEnds :
        IF ~e.err /\ e.content /\ ~e.prohibited
        THEN /\ call' = [call EXCEPT ![r].reply = e]
             /\ Goto(r, "commit")
        ELSE /\ call' = [call EXCEPT ![r].reply = EarlyReply(e),
                                     ![r].verdict = EarlyVerdict(r, e)]
             /\ Goto(r, "judged")
    /\ UNCHANGED <<route, scan, attempts, last, buf, wire, result, client, sharedVars, blackoutVars>>

-----------------------------------------------------------------------------
(* settle: what an attempt that did not stream leads to *)

\* The attempt as it is recorded, with the reply it stands for.
Tried(r, outcome, x) ==
    [target |-> CurTarget(r), type |-> scan[r].phase, key |-> CurKeys(r)[scan[r].key],
     outcome |-> outcome, reply |-> x]

\* Mutant: a reply to a body that could not be sent masks the last real one.
SettleMasking(r, verdict) ==
    /\ pc[r] = "judged" /\ call[r].verdict = verdict
    /\ attempts' = [attempts EXCEPT ![r] = Append(@, Tried(r, verdict, call[r].reply))]
    /\ last' = [last EXCEPT ![r] = call[r].reply]
    /\ UNCHANGED <<route, call, buf, wire, client, sharedVars>>

\* settle's head: the attempt is recorded, and its reply is kept for the
\* exhausted answer unless nothing was sent.
Settle(r, verdict) ==
    /\ pc[r] = "judged" /\ call[r].verdict = verdict
    /\ attempts' = [attempts EXCEPT ![r] = Append(@, Tried(r, verdict, call[r].reply))]
    /\ last' = IF call[r].reply.incompatible THEN last
               ELSE [last EXCEPT ![r] = call[r].reply]
    /\ UNCHANGED <<route, call, buf, wire, client, sharedVars>>

SettleSuccess(r) ==
    /\ Settle(r, "success")
    /\ Success(CurPair(r, scan[r].key))
    /\ result' = [result EXCEPT ![r].success = TRUE, ![r].status = call[r].reply.status]
    /\ Goto(r, "done")
    /\ UNCHANGED scan

\* Mutant: the run goes on for a caller that is gone.
SettleCanceledOnward(r) ==
    /\ Settle(r, "canceled")
    /\ Goto(r, "pick")
    /\ UNCHANGED <<scan, result, blackoutVars>>

SettleCanceled(r) ==
    /\ Settle(r, "canceled")
    /\ result' = [result EXCEPT ![r].status = 499]
    /\ Goto(r, "done")
    /\ UNCHANGED <<scan, blackoutVars>>

\* Mutant: only the phase at hand knows of the policy block.
SettleProhibitedOnce(r) ==
    /\ Settle(r, "prohibited_content")
    /\ scan' = [scan EXCEPT ![r].left = {}]
    /\ Goto(r, "pick")
    /\ UNCHANGED <<result, blackoutVars>>

\* A policy block: the combo is barred and its other keys are skipped.
SettleProhibited(r) ==
    /\ Settle(r, "prohibited_content")
    /\ scan' = [scan EXCEPT ![r].barred = @ \cup {CurTarget(r)}, ![r].left = {}]
    /\ Goto(r, "pick")
    /\ UNCHANGED <<result, blackoutVars>>

\* Mutant: a bad output gives up the target's other keys.
SettleNextTarget(r) ==
    /\ Settle(r, "incompatible") \/ Settle(r, "bad_output")
    /\ scan' = [scan EXCEPT ![r].left = {}]
    /\ Goto(r, "pick")
    /\ UNCHANGED <<result, blackoutVars>>

\* Nothing to hold against the key: on to the next one.
SettleNext(r) ==
    /\ Settle(r, "incompatible") \/ Settle(r, "bad_output")
    /\ Goto(r, "pick")
    /\ UNCHANGED <<scan, result, blackoutVars>>

\* Mutants: a fallback key is blamed too; a transcription's own time limit is.
BlamedFallback(r, x) == x.status # 400 /\ ~(x.timedOut /\ ask[r].op = "transcribe")
BlamedOutOfTime(r, x) == scan[r].phase = "normal" /\ x.status # 400

\* NoBlackout: a transcription that ran out of its own time.
Blamed(r, x) ==
    /\ scan[r].phase = "normal" /\ x.status # 400
    /\ ~(x.timedOut /\ ask[r].op = "transcribe")

\* Mutant: an error that is not the key's ends the target's turn.
SettleErrorTarget(r) ==
    /\ Settle(r, "provider_error")
    /\ IF Blamed(r, call[r].reply)
       THEN FailBegin(r, CurPair(r, scan[r].key)) /\ Goto(r, "failing") /\ UNCHANGED scan
       ELSE UNCHANGED blackoutVars /\ Goto(r, "pick")
            /\ scan' = [scan EXCEPT ![r].left = {}]
    /\ UNCHANGED result

\* A provider error blacks out the normal key, unless the request is to blame.
SettleError(r) ==
    /\ Settle(r, "provider_error")
    /\ IF Blamed(r, call[r].reply)
       THEN FailBegin(r, CurPair(r, scan[r].key)) /\ Goto(r, "failing")
       ELSE UNCHANGED blackoutVars /\ Goto(r, "pick")
    /\ UNCHANGED <<scan, result>>

\* The second half of Fail; nothing is left to do when no window was set.
FinishFail(r) ==
    /\ pc[r] = "failing"
    /\ IF failing[r] = {} THEN UNCHANGED blackoutVars ELSE FailEnd(r)
    /\ Goto(r, IF result[r].committed THEN "done" ELSE "pick")
    /\ UNCHANGED <<requestVars, client, sharedVars>>

-----------------------------------------------------------------------------
(* pump: a committed stream *)

\* A write or flush may fail once the client is gone, but need not.
WriteFails(r) == client[r] # "here"

Commit(r) ==
    /\ pc[r] = "commit"
    /\ result' = [result EXCEPT ![r].committed = TRUE, ![r].status = 200]
    /\ \/ Goto(r, "pump")
       \/ WriteFails(r) /\ Goto(r, "gone")
    /\ UNCHANGED <<route, scan, call, attempts, last, buf, wire, client, sharedVars, blackoutVars>>

WriteFrame(r) ==
    /\ pc[r] = "pump" /\ buf[r] # <<>>
    /\ buf' = [buf EXCEPT ![r] = Tail(@)]
    /\ \/ wire' = [wire EXCEPT ![r] = Append(@, Head(buf[r]))] /\ UNCHANGED pc
       \/ WriteFails(r) /\ UNCHANGED wire /\ Goto(r, "gone")
    /\ UNCHANGED <<route, scan, call, attempts, last, result, client, sharedVars, blackoutVars>>

PumpFrame(r) ==
    /\ pc[r] = "pump" /\ buf[r] = <<>> /\ call[r].reply.none
    /\ ReadFrame(r)
    /\ UNCHANGED <<pc, route, scan, attempts, last, wire, result, client, sharedVars, blackoutVars>>

\* Mutant: no idle limit, so a stream that goes silent never ends.
PumpEndsWithoutLimit(r) == {call[r].reply} \ {NoReply}

\* How the stream ends: as already known (a complete reply), else in any way.
PumpEnds(r) == IF call[r].reply.none THEN StreamEnds ELSE {call[r].reply}

PumpVerdict(r, e) ==
    IF pc[r] = "gone" \/ Canceled(r) THEN "canceled"
    ELSE IF ~e.err /\ OutputOK(r, e) THEN "success"
    ELSE IF e.prohibited THEN "prohibited_content"
    ELSE IF e.err THEN "provider_error" ELSE "bad_output"

\* pump's end: the stream's own failure is told to the client in the stream,
\* the attempt is recorded, and the key is cleared or blacked out.
PumpEnd(r) ==
    /\ pc[r] = "gone" \/ (pc[r] = "pump" /\ buf[r] = <<>>)
    /\ \E e \in IF pc[r] = "gone" THEN {call[r].reply} ELSE PumpEnds(r) :
        LET verdict == PumpVerdict(r, e) IN
        /\ attempts' = [attempts EXCEPT ![r] = Append(@, Tried(r, verdict, e))]
        /\ result' = [result EXCEPT ![r].success = (verdict = "success")]
        /\ wire' \in {wire} \cup
              IF e.err /\ verdict # "canceled"
              THEN {[wire EXCEPT ![r] = Append(@, [try |-> Len(attempts[r]) + 1, n |-> 0])]}
              ELSE {}
        /\ e.err /\ verdict # "canceled" /\ wire' = wire => WriteFails(r)
        /\ CASE verdict = "success" ->
                    Success(CurPair(r, scan[r].key)) /\ Goto(r, "done")
             [] verdict = "provider_error" /\ scan[r].phase = "normal" /\ e.status # 400 ->
                    FailBegin(r, CurPair(r, scan[r].key)) /\ Goto(r, "failing")
             [] OTHER -> UNCHANGED blackoutVars /\ Goto(r, "done")
    /\ buf' = [buf EXCEPT ![r] = <<>>]
    /\ UNCHANGED <<route, scan, call, last, client, sharedVars>>

-----------------------------------------------------------------------------
(* Everything exhausted *)

AllTried(r) ==
    pc[r] = "enter" /\ scan[r].at > Len(route[r].targets) /\ scan[r].phase = "fallback"

OutcomesOf(r) == {attempts[r][i].outcome : i \in DOMAIN attempts[r]}

\* onlyIncompatible, onlyProhibited: an undefined provider ("error") spoils both.
OnlyIncompatible(r) ==
    /\ "incompatible" \in OutcomesOf(r)
    /\ OutcomesOf(r) \subseteq {"skipped_blackout", "incompatible"}
OnlyProhibited(r) ==
    /\ "prohibited_content" \in OutcomesOf(r)
    /\ OutcomesOf(r) \subseteq {"skipped_blackout", "incompatible", "prohibited_content"}

\* Mutant: the status is passed on whatever the reply says.
ExhaustedStatusAsIs(x) == IF x.status > 0 THEN x.status ELSE 502

\* exhaustedHTTPStatus
ExhaustedStatus(x) == IF x.prohibited THEN 403 ELSE IF x.status > 0 THEN x.status ELSE 502

\* What Execute, ExecuteStream and executeAudio answer: the last real reply if
\* it has a body, but a stream or an audio request never gets a 2xx this way.
ExhaustedAnswer(r) ==
    IF OnlyIncompatible(r) THEN 400
    ELSE IF /\ last[r].body
            /\ (IsStreamed(r) \/ IsAudio(r)) => ExhaustedStatus(last[r]) >= 300
         THEN ExhaustedStatus(last[r])
         ELSE 502

AnswerExhausted(r) ==
    /\ AllTried(r)
    /\ ~(IsStreamed(r) /\ OnlyProhibited(r))
    /\ result' = [result EXCEPT ![r].status = ExhaustedAnswer(r)]
    /\ Goto(r, "done")
    /\ UNCHANGED <<route, scan, call, attempts, last, buf, wire, client, sharedVars, blackoutVars>>

\* sendRefusal: a stream request that every target refused gets a refusal.
SendRefusal(r) ==
    /\ AllTried(r)
    /\ IsStreamed(r) /\ OnlyProhibited(r)
    /\ result' = [result EXCEPT ![r].committed = TRUE, ![r].status = 200]
    /\ \/ wire' = [wire EXCEPT ![r] = <<[try |-> 0, n |-> 1]>>]
       \/ WriteFails(r) /\ UNCHANGED wire
    /\ Goto(r, "done")
    /\ UNCHANGED <<route, scan, call, attempts, last, buf, client, sharedVars, blackoutVars>>

-----------------------------------------------------------------------------
(* Reload, and the clients *)

\* Router.Reload, serialised by the reloader's mutex: the new state is stored
\* first, the blackout window follows. Requests in flight keep their state.
SwapState ==
    /\ pending = {} /\ gen < Len(Cfgs)
    /\ gen' = gen + 1
    /\ pending' = {Cfgs[gen + 1].blackout}
    /\ UNCHANGED <<ask, chatOnly, pc, requestVars, client, blackoutVars>>

SetWindow ==
    /\ \E w \in pending : SetDuration(w)
    /\ pending' = {}
    /\ UNCHANGED <<ask, gen, chatOnly, pc, requestVars, client>>

\* A client may go away while its request runs. The writes of a stream may
\* notice before the request's context does.
ClientLeaves(r) ==
    /\ pc[r] \notin {"new", "done"} /\ IsStreamed(r) /\ client[r] = "here"
    /\ client' = [client EXCEPT ![r] = "gone"]
    /\ UNCHANGED <<pc, requestVars, sharedVars, blackoutVars>>

ContextEnds(r) ==
    /\ pc[r] \notin {"new", "done"} /\ client[r] # "canceled"
    /\ client' = [client EXCEPT ![r] = "canceled"]
    /\ UNCHANGED <<pc, requestVars, sharedVars, blackoutVars>>

ClockTicks == Tick /\ UNCHANGED <<pc, requestVars, client, sharedVars>>

-----------------------------------------------------------------------------
(* The specification *)

Walk(r) ==
    \/ Start(r) \/ UndefinedTarget(r) \/ SkipFallback(r) \/ EnterTarget(r)
    \/ LeaveTarget(r) \/ BeginFallback(r) \/ SkipBlackedOut(r) \/ TakeKey(r)

Try(r) ==
    \/ SendCall(r) \/ ReplyArrives(r) \/ StreamOpens(r) \/ EarlyFrame(r) \/ EarlyEnd(r)
    \/ SettleSuccess(r) \/ SettleCanceled(r) \/ SettleProhibited(r) \/ SettleNext(r)
    \/ SettleError(r) \/ FinishFail(r)

Deliver(r) ==
    \/ Commit(r) \/ WriteFrame(r) \/ PumpFrame(r) \/ PumpEnd(r)
    \/ AnswerExhausted(r) \/ SendRefusal(r)

Handle(r) == Walk(r) \/ Try(r) \/ Deliver(r)

Reload == SwapState \/ SetWindow

\* Nothing left to do: every request answered, every configuration loaded.
Finished ==
    /\ \A r \in Requests : pc[r] = "done"
    /\ gen = Len(Cfgs) /\ pending = {} /\ now = MaxTime
    /\ UNCHANGED vars

Next ==
    \/ \E r \in Requests : Handle(r) \/ ClientLeaves(r) \/ ContextEnds(r)
    \/ Reload
    \/ ClockTicks
    \/ Finished

Spec == RouterInit /\ [][Next]_vars

\* A handler goroutine keeps running, and a downstream call returns: buffered
\* calls and audio attempts have a deadline, streams a first-output and an idle
\* limit, and MaxFrames bounds what one stream can trickle.
FairSpec == Spec /\ \A r \in Requests : WF_vars(Handle(r))
=============================================================================
