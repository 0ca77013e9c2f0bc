---------------------------- MODULE RouterProofs ---------------------------
(***************************************************************************)
(* The routing core, for every set of requests, configuration and reply:   *)
(* its types, that its walk stays inside its lists, and what follows for   *)
(* the state that requests share. First the blackout tracker alone: its    *)
(* types, and that it keeps the promise of KeyHealth.                      *)
(***************************************************************************)
EXTENDS RouterProperties, TLAPS

USE BlackoutAssumption, RouterAssumption

-----------------------------------------------------------------------------
(* Types *)

\* Writing an entry, and deleting one, keep the map a map from pairs to times.
LEMMA WithIsTyped ==
    ASSUME BlackoutTypeOK, NEW p \in Pairs, NEW t \in Nat
    PROVE  /\ DOMAIN With(p, t) \subseteq Pairs
           /\ \A q \in DOMAIN With(p, t) : With(p, t)[q] \in Nat
  BY DEF BlackoutTypeOK, With

LEMMA WithoutIsTyped ==
    ASSUME BlackoutTypeOK, NEW p
    PROVE  /\ DOMAIN Without(p) \subseteq Pairs
           /\ \A q \in DOMAIN Without(p) : Without(p)[q] \in Nat
  BY DEF BlackoutTypeOK, Without

\* The tracker's map, window and clock keep their types through every step
\* (src/router/blackout.go).
LEMMA BlackoutStepIsTyped ==
    ASSUME BlackoutTypeOK, [BlackoutNext]_blackoutVars
    PROVE  BlackoutTypeOK'
<1>1. CASE UNCHANGED blackoutVars
  BY <1>1 DEF BlackoutTypeOK, blackoutVars
<1>2. ASSUME NEW c \in Callers, NEW p \in Pairs, FailBegin(c, p)
      PROVE  BlackoutTypeOK'
  BY <1>2 DEF BlackoutTypeOK, FailBegin
<1>3. ASSUME NEW c \in Callers, FailEnd(c)
      PROVE  BlackoutTypeOK'
  <2>1. PICK p \in failing[c] : until' = With(p, now + dur)
    BY <1>3 DEF FailEnd
  <2>2. p \in Pairs /\ now + dur \in Nat
    BY DEF BlackoutTypeOK
  <2>. QED  BY <1>3, <2>1, <2>2, WithIsTyped DEF BlackoutTypeOK, FailEnd
<1>4. ASSUME NEW p \in Pairs, Success(p)
      PROVE  BlackoutTypeOK'
  BY <1>4, WithoutIsTyped DEF BlackoutTypeOK, Success
<1>5. ASSUME NEW p \in Pairs, CheckBlocked(p)
      PROVE  BlackoutTypeOK'
  BY <1>5, WithoutIsTyped DEF BlackoutTypeOK, CheckBlocked, Sweep
<1>6. ASSUME NEW w \in Windows, SetDuration(w)
      PROVE  BlackoutTypeOK'
  BY <1>6 DEF BlackoutTypeOK, SetDuration
<1>7. CASE Tick
  BY <1>7 DEF BlackoutTypeOK, Tick
<1>. QED  BY <1>1, <1>2, <1>3, <1>4, <1>5, <1>6, <1>7 DEF BlackoutNext

\* The tracker is always well formed.
THEOREM BlackoutIsTyped == BlackoutSpec => []BlackoutTypeOK
<1>1. (\E w \in Windows : BlackoutInit(w)) => BlackoutTypeOK
  BY DEF BlackoutInit, BlackoutTypeOK
<1>2. BlackoutTypeOK /\ [BlackoutNext]_blackoutVars => BlackoutTypeOK'
  BY BlackoutStepIsTyped
<1>. QED  BY <1>1, <1>2, PTL DEF BlackoutSpec

-----------------------------------------------------------------------------
(* Refinement of KeyHealth *)

Rests == [p \in Pairs |-> RestOf(p)]

\* What the map says of every pair after a step that rewrites the entry of one.
LEMMA RestOfSweep ==
    ASSUME BlackoutTypeOK, NEW p \in Pairs, Sweep(p), now' = now
    PROVE  Rests' = Rests
<1>. SUFFICES ASSUME NEW q \in Pairs PROVE RestOf(q)' = RestOf(q)
  BY DEF Rests
<1>. QED  BY DEF BlackoutTypeOK, Sweep, Without, RestOf, Blocked

\* Every step of the tracker is a step of KeyHealth, or invisible to it
\* (Fail, Success, Blocked and SetDuration in src/router/blackout.go).
LEMMA BlackoutStepRefines ==
    ASSUME BlackoutTypeOK, [BlackoutNext]_blackoutVars
    PROVE  [Health!HealthNext]_<<Rests, dur>>
<1>. USE DEF Health!HealthNext
<1>1. CASE UNCHANGED blackoutVars
  BY <1>1 DEF blackoutVars, Rests, RestOf, Blocked
<1>2. ASSUME NEW c \in Callers, NEW p \in Pairs, FailBegin(c, p)
      PROVE  UNCHANGED <<Rests, dur>>
  BY <1>2 DEF FailBegin, Rests, RestOf, Blocked
<1>3. ASSUME NEW c \in Callers, FailEnd(c)
      PROVE  \E p \in Pairs : Health!Rest(p)
  <2>1. PICK p \in failing[c] : until' = With(p, now + dur)
    BY <1>3 DEF FailEnd
  <2>2. p \in Pairs /\ now' = now /\ dur' = dur /\ now \in Nat /\ dur \in Nat
    BY <1>3 DEF BlackoutTypeOK, FailEnd
  <2>3. RestOf(p)' = dur + 1
    BY <2>1, <2>2 DEF RestOf, Blocked, With
  <2>4. ASSUME NEW q \in Pairs, q # p
        PROVE  RestOf(q)' = RestOf(q)
    BY <2>1, <2>2, <2>4 DEF RestOf, Blocked, With
  <2>5. Rests' = [Rests EXCEPT ![p] = dur + 1]
    BY <2>3, <2>4 DEF Rests
  <2>. QED  BY <2>2, <2>5 DEF Health!Rest, Rests
<1>4. ASSUME NEW p \in Pairs, Success(p)
      PROVE  Health!Recover(p)
  <2>1. RestOf(p)' = 0
    BY <1>4 DEF Success, RestOf, Blocked, Without
  <2>2. ASSUME NEW q \in Pairs, q # p
        PROVE  RestOf(q)' = RestOf(q)
    BY <1>4, <2>2 DEF Success, RestOf, Blocked, Without
  <2>3. Rests' = [Rests EXCEPT ![p] = 0]
    BY <2>1, <2>2 DEF Rests
  <2>. QED  BY <1>4, <2>3 DEF Health!Recover, Rests, Success
<1>5. ASSUME NEW p \in Pairs, CheckBlocked(p)
      PROVE  UNCHANGED <<Rests, dur>>
  BY <1>5, RestOfSweep DEF CheckBlocked
<1>6. ASSUME NEW w \in Windows, SetDuration(w)
      PROVE  Health!Configure(w)
  BY <1>6 DEF SetDuration, Health!Configure, Rests, RestOf, Blocked
<1>7. CASE Tick
  <2>1. ASSUME NEW q \in Pairs
        PROVE  RestOf(q)' = IF RestOf(q) = 0 THEN 0 ELSE RestOf(q) - 1
    BY <1>7 DEF BlackoutTypeOK, Tick, RestOf, Blocked
  <2>2. Rests' = [q \in Pairs |-> IF Rests[q] = 0 THEN 0 ELSE Rests[q] - 1]
    BY <2>1 DEF Rests
  <2>. QED  BY <1>7, <2>2 DEF Tick, Health!Wait, Rests
<1>. QED  BY <1>1, <1>2, <1>3, <1>4, <1>5, <1>6, <1>7 DEF BlackoutNext

\* The tracker implements KeyHealth, for any number of concurrent callers.
THEOREM BlackoutImplementsKeyHealth == BlackoutSpec => ImplementsKeyHealth
<1>1. (\E w \in Windows : BlackoutInit(w)) => Health!HealthInit
  BY DEF BlackoutInit, Health!HealthInit, RestOf, Blocked
<1>2. BlackoutTypeOK /\ [BlackoutNext]_blackoutVars => [Health!HealthNext]_(Health!healthVars)
  BY BlackoutStepRefines DEF Health!healthVars, Rests
<1>. QED  BY <1>1, <1>2, BlackoutIsTyped, PTL DEF BlackoutSpec, ImplementsKeyHealth, Health!HealthSpec

-----------------------------------------------------------------------------
(* The configuration *)

LEMMA GenerationsAreNumbers ==
    /\ Generations \subseteq Nat /\ 1 \in Generations
    /\ \A g \in Generations : g < Len(Cfgs) => g + 1 \in Generations
  BY DEF Generations

\* A shuffle of a list is a list of the same elements.
LEMMA OrdersAreLists ==
    ASSUME NEW S, NEW s \in Seq(S), NEW b \in BOOLEAN, NEW ts \in Orders(s, b)
    PROVE  ts \in Seq(S)
<1>1. CASE ~b
  BY <1>1 DEF Orders
<1>2. CASE b
  <2>1. PICK f \in [DOMAIN s -> DOMAIN s] : ts = [i \in DOMAIN s |-> s[f[i]]]
    BY <1>2 DEF Orders
  <2>2. DOMAIN s = 1..Len(s) /\ Len(s) \in Nat
    OBVIOUS
  <2>3. \A i \in 1..Len(s) : s[f[i]] \in S
    BY <2>2
  <2>. QED  BY <2>1, <2>2, <2>3
<1>. QED  BY <1>1, <1>2

\* Whatever a name resolves to is a list of targets.
LEMMA ResolveGivesTargets ==
    ASSUME NEW g \in Generations, NEW name \in Models, NEW ts \in Resolve(Cfgs[g], name)
    PROVE  ts \in Seq(Target)
<1>. DEFINE c == Cfgs[g]
<1>0. IsConfig(c)
  OBVIOUS
<1>. HIDE DEF c
<1>1. CASE name \in DOMAIN c.routes
  <2>1. c.routes[name].targets \in Seq(Target) /\ c.routes[name].shuffle \in BOOLEAN
    BY <1>0, <1>1 DEF IsConfig
  <2>2. ts \in Orders(c.routes[name].targets, c.routes[name].shuffle)
    BY <1>1 DEF Resolve, c
  <2>. QED  BY <2>1, <2>2, OrdersAreLists
<1>2. CASE /\ name \notin DOMAIN c.routes
           /\ name \in DOMAIN Direct /\ Direct[name].provider \in DOMAIN c.providers
  <2>1. Direct[name] \in Target
    BY <1>2
  <2>2. ts = <<Direct[name]>>
    BY <1>2 DEF Resolve, c
  <2>. QED  BY <2>1, <2>2
<1>3. CASE /\ name \notin DOMAIN c.routes
           /\ ~(name \in DOMAIN Direct /\ Direct[name].provider \in DOMAIN c.providers)
  <2>. DEFINE all == [i \in DOMAIN c.fallbacks |-> [provider |-> c.fallbacks[i], model |-> name]]
  <2>1. ts \in Orders(all, c.shuffleFallbacks)
    BY <1>3 DEF Resolve, c
  <2>2. all \in Seq(Target)
    <3>1. c.fallbacks \in Seq(Providers)
      BY <1>0 DEF IsConfig
    <3>2. /\ DOMAIN c.fallbacks = 1..Len(c.fallbacks) /\ Len(c.fallbacks) \in Nat
          /\ \A i \in 1..Len(c.fallbacks) : c.fallbacks[i] \in Providers
      BY <3>1
    <3>3. \A i \in 1..Len(c.fallbacks) : [provider |-> c.fallbacks[i], model |-> name] \in Target
      BY <3>2 DEF Target
    <3>. QED  BY <3>2, <3>3
  <2>3. c.shuffleFallbacks \in BOOLEAN
    BY <1>0 DEF IsConfig
  <2>. QED  BY <2>1, <2>2, <2>3, OrdersAreLists
<1>. QED  BY <1>1, <1>2, <1>3

\* While r stands at one of its targets and its provider is defined, the target,
\* the provider and the key list at hand are what they should be.
LEMMA HereIsTyped ==
    ASSUME TypeOK, NEW r \in Requests, scan[r].at <= Len(route[r].targets)
    PROVE  /\ CurTarget(r) \in Target
           /\ Defined(r) => CurProvider(r) \in Provider /\ CurKeys(r) \in Seq(Keys)
           /\ Cfgs[route[r].gen].blackout \in Windows
<1>1. route[r].gen \in Generations /\ route[r].targets \in Seq(Target) /\ scan[r].at \in Nat \ {0}
  BY DEF TypeOK, RouteTaken, Place
<1>2. CurTarget(r) \in Target
  BY <1>1 DEF CurTarget
<1>3. IsConfig(Cfgs[route[r].gen])
  BY <1>1
<1>4. ASSUME Defined(r)
      PROVE  CurProvider(r) \in Provider /\ CurKeys(r) \in Seq(Keys)
  <2>1. CurProvider(r) \in Provider
    BY <1>3, <1>4 DEF IsConfig, Defined, CurProvider, Cfg
  <2>2. CurProvider(r).keys \in Seq(Keys) /\ CurProvider(r).fallbackKeys \in Seq(Keys)
    BY <2>1 DEF Provider
  <2>. QED  BY <2>1, <2>2 DEF CurKeys, FallbackKeySet
<1>. QED  BY <1>2, <1>3, <1>4 DEF IsConfig

\* So a key of that list makes a pair of the blackout tracker.
LEMMA PairIsTyped ==
    ASSUME TypeOK, NEW r \in Requests, scan[r].at <= Len(route[r].targets), Defined(r),
           NEW k \in DOMAIN CurKeys(r)
    PROVE  CurKeys(r)[k] \in Keys /\ CurPair(r, k) \in Pairs
  BY HereIsTyped DEF CurPair, Target

-----------------------------------------------------------------------------
(* The blackout tracker under the router *)

Inv == TypeOK /\ WalkInBounds

\* Whatever a request does to the tracker is one of the tracker's operations.
LEMMA HandleUsesTracker ==
    ASSUME Inv, NEW r \in Requests, Handle(r)
    PROVE  [BlackoutNext]_blackoutVars
<1>. USE DEF BlackoutNext
<1>0. ASSUME NEW k \in DOMAIN CurKeys(r), pc[r] \in InTarget
      PROVE  CurPair(r, k) \in Pairs
  BY <1>0, PairIsTyped DEF Inv, WalkInBounds, InBounds
<1>1. pc[r] \in InCall => CurPair(r, scan[r].key) \in Pairs
  BY <1>0 DEF Inv, WalkInBounds, InBounds, InCall
<1>2. ASSUME TakeKey(r) PROVE [BlackoutNext]_blackoutVars
  <2>1. PICK k \in scan[r].left :
            UNCHANGED blackoutVars \/ CheckBlocked(CurPair(r, k))
    BY <1>2 DEF TakeKey
  <2>2. CurPair(r, k) \in Pairs
    BY <1>0, <1>2 DEF TakeKey, Inv, WalkInBounds, InBounds, InTarget, Stages
  <2>. QED  BY <2>1, <2>2
<1>3. ASSUME SettleSuccess(r) PROVE [BlackoutNext]_blackoutVars
  BY <1>1, <1>3 DEF SettleSuccess, Settle, InCall, InTarget, Stages
<1>4. ASSUME SettleError(r) PROVE [BlackoutNext]_blackoutVars
  BY <1>1, <1>4 DEF SettleError, Settle, InCall, InTarget, Stages, Requests
<1>5. ASSUME FinishFail(r) PROVE [BlackoutNext]_blackoutVars
  BY <1>5 DEF FinishFail, Requests
<1>6. ASSUME PumpEnd(r) PROVE [BlackoutNext]_blackoutVars
  <2>1. CurPair(r, scan[r].key) \in Pairs
    BY <1>1, <1>6 DEF PumpEnd, InCall, InTarget, Stages
  <2>2. \/ Success(CurPair(r, scan[r].key))
        \/ FailBegin(r, CurPair(r, scan[r].key))
        \/ UNCHANGED blackoutVars
    BY <1>6 DEF PumpEnd
  <2>. QED  BY <2>1, <2>2 DEF Requests
<1>7. ASSUME \/ Start(r) \/ UndefinedTarget(r) \/ SkipFallback(r) \/ EnterTarget(r)
             \/ LeaveTarget(r) \/ BeginFallback(r) \/ SkipBlackedOut(r)
      PROVE  UNCHANGED blackoutVars
  BY <1>7 DEF Start, UndefinedTarget, SkipFallback, EnterTarget, LeaveTarget, BeginFallback,
              SkipBlackedOut
<1>8. ASSUME \/ SendCall(r) \/ ReplyArrives(r) \/ StreamOpens(r) \/ EarlyFrame(r) \/ EarlyEnd(r)
             \/ SettleCanceled(r) \/ SettleProhibited(r) \/ SettleNext(r)
      PROVE  UNCHANGED blackoutVars
  BY <1>8 DEF SendCall, ReplyArrives, StreamOpens, EarlyFrame, EarlyEnd, SettleCanceled,
              SettleProhibited, SettleNext
<1>9. ASSUME \/ Commit(r) \/ WriteFrame(r) \/ PumpFrame(r) \/ AnswerExhausted(r) \/ SendRefusal(r)
      PROVE  UNCHANGED blackoutVars
  BY <1>9 DEF Commit, WriteFrame, PumpFrame, AnswerExhausted, SendRefusal
<1>. QED  BY <1>2, <1>3, <1>4, <1>5, <1>6, <1>7, <1>8, <1>9 DEF Handle, Walk, Try, Deliver

LEMMA StepUsesTracker ==
    ASSUME Inv, [Next]_vars
    PROVE  [BlackoutNext]_blackoutVars
<1>1. CASE UNCHANGED vars
  BY <1>1 DEF vars, blackoutVars
<1>2. ASSUME NEW r \in Requests, Handle(r) PROVE [BlackoutNext]_blackoutVars
  BY <1>2, HandleUsesTracker
<1>3. ASSUME NEW r \in Requests, ClientLeaves(r) \/ ContextEnds(r)
      PROVE  [BlackoutNext]_blackoutVars
  BY <1>3 DEF ClientLeaves, ContextEnds
<1>4. CASE SwapState
  BY <1>4 DEF SwapState
<1>5. CASE SetWindow
  BY <1>5 DEF SetWindow, BlackoutNext, Inv, TypeOK
<1>6. CASE ClockTicks
  BY <1>6 DEF ClockTicks, BlackoutNext
<1>7. CASE Finished
  BY <1>7 DEF Finished, vars, blackoutVars
<1>. QED  BY <1>1, <1>2, <1>3, <1>4, <1>5, <1>6, <1>7 DEF Next, Reload

-----------------------------------------------------------------------------
(* Types and bounds of the walk *)

\* A step of r leaves the other requests where they are.
Elsewhere(r) ==
    \A q \in Requests \ {r} : pc'[q] = pc[q] /\ route'[q] = route[q] /\ scan'[q] = scan[q]

LEMMA OthersStayInBounds ==
    ASSUME Inv, NEW r \in Requests, Elsewhere(r), InBounds(r)'
    PROVE  WalkInBounds'
<1>. SUFFICES ASSUME NEW q \in Requests, q # r PROVE InBounds(q)'
  BY DEF WalkInBounds
<1>1. InBounds(q) /\ pc'[q] = pc[q] /\ route'[q] = route[q] /\ scan'[q] = scan[q]
  BY DEF Inv, WalkInBounds, Elsewhere
<1>. QED
  BY <1>1 DEF InBounds, Defined, CurKeys, CurProvider, CurTarget, Cfg

\* As long as r stays at its place, what it sees there stays the same.
LEMMA SamePlace ==
    ASSUME NEW r \in Requests, route'[r] = route[r],
           scan'[r].at = scan[r].at, scan'[r].phase = scan[r].phase
    PROVE  /\ Defined(r)' = Defined(r) /\ CurKeys(r)' = CurKeys(r)
           /\ CurTarget(r)' = CurTarget(r) /\ CurProvider(r)' = CurProvider(r)
  BY DEF Defined, CurKeys, CurProvider, CurTarget, Cfg

\* What the steps do to the records they update.
LEMMA PlaceUpdates ==
    ASSUME TypeOK, NEW r \in Requests, NEW n \in Nat, NEW left \in SUBSET Nat,
           NEW barred \in SUBSET Target, NEW phase \in {"normal", "fallback"}
    PROVE  /\ [scan EXCEPT ![r].at = n + 1] \in [Requests -> Place]
           /\ [scan EXCEPT ![r].left = left] \in [Requests -> Place]
           /\ [scan EXCEPT ![r].left = left, ![r].key = n] \in [Requests -> Place]
           /\ [scan EXCEPT ![r].barred = barred, ![r].left = left] \in [Requests -> Place]
           /\ [scan EXCEPT ![r].phase = phase, ![r].at = 1] \in [Requests -> Place]
<1>1. scan[r] \in Place /\ scan \in [Requests -> Place]
  BY DEF TypeOK
<1>2. [scan[r] EXCEPT !.left = left] \in Place /\ [scan[r] EXCEPT !.barred = barred] \in Place
      /\ [scan[r] EXCEPT !.phase = phase] \in Place /\ [scan[r] EXCEPT !.at = n + 1] \in Place
  BY <1>1 DEF Place
<1>3. [scan[r] EXCEPT !.left = left, !.key = n] \in Place
  BY <1>1, Zenon DEF Place
<1>4. [scan[r] EXCEPT !.barred = barred, !.left = left] \in Place
  BY <1>1, Zenon DEF Place
<1>5. 1 \in Nat \ {0}
  OBVIOUS
<1>6. [scan[r] EXCEPT !.phase = phase, !.at = 1] \in Place
  BY <1>1, <1>5, Zenon DEF Place
<1>. QED  BY <1>1, <1>2, <1>3, <1>4, <1>6, Zenon

LEMMA CallReads ==
    ASSUME TypeOK, NEW r \in Requests, NEW n \in Nat
    PROVE  [call EXCEPT ![r].read = n + 1] \in [Requests -> CallMade]
<1>1. call[r] \in CallMade /\ call \in [Requests -> CallMade]
  BY DEF TypeOK
<1>2. [call[r] EXCEPT !.read = n + 1] \in CallMade
  BY <1>1 DEF CallMade
<1>. QED  BY <1>1, <1>2

LEMMA CallReturns ==
    ASSUME TypeOK, NEW r \in Requests, NEW x \in Reply
    PROVE  /\ [call EXCEPT ![r].reply = x] \in [Requests -> CallMade]
           /\ \A v \in Outcomes :
                [call EXCEPT ![r].reply = x, ![r].verdict = v] \in [Requests -> CallMade]
<1>1. call[r] \in CallMade /\ call \in [Requests -> CallMade]
  BY DEF TypeOK
<1>2. [call[r] EXCEPT !.reply = x] \in CallMade
  BY <1>1 DEF CallMade
<1>3. ASSUME NEW v \in Outcomes
      PROVE  [call[r] EXCEPT !.reply = x, !.verdict = v] \in CallMade
  BY <1>1, Zenon DEF CallMade
<1>. QED  BY <1>1, <1>2, <1>3, Zenon

LEMMA ResultSucceeds ==
    ASSUME TypeOK, NEW r \in Requests, NEW b \in BOOLEAN
    PROVE  [result EXCEPT ![r].success = b] \in [Requests -> Result]
  BY DEF TypeOK, Result

LEMMA ResultAnswers ==
    ASSUME TypeOK, NEW r \in Requests, NEW n \in Nat
    PROVE  /\ [result EXCEPT ![r].committed = TRUE, ![r].status = n] \in [Requests -> Result]
           /\ [result EXCEPT ![r].success = TRUE, ![r].status = n] \in [Requests -> Result]
<1>1. result[r] \in Result /\ result \in [Requests -> Result] /\ TRUE \in BOOLEAN
  BY DEF TypeOK
<1>3. [result[r] EXCEPT !.committed = TRUE, !.status = n] \in Result
  BY <1>1, Zenon DEF Result
<1>4. [result[r] EXCEPT !.success = TRUE, !.status = n] \in Result
  BY <1>1, Zenon DEF Result
<1>. QED  BY <1>1, <1>3, <1>4, Zenon

LEMMA StatusIsSet ==
    ASSUME TypeOK, NEW r \in Requests, NEW n \in Nat
    PROVE  [result EXCEPT ![r].status = n] \in [Requests -> Result]
  BY DEF TypeOK, Result

\* A request that stands at a key can record an attempt on it.
LEMMA TriedIsAttempt ==
    ASSUME Inv, NEW r \in Requests, pc[r] \in InCall, NEW v \in Outcomes, NEW x \in Reply
    PROVE  Tried(r, v, x) \in Attempt
<1>1. scan[r].at <= Len(route[r].targets) /\ Defined(r) /\ scan[r].key \in DOMAIN CurKeys(r)
  BY DEF Inv, WalkInBounds, InBounds, InCall
<1>2. CurTarget(r) \in Target /\ CurKeys(r)[scan[r].key] \in Keys
  BY <1>1, HereIsTyped, PairIsTyped DEF Inv
<1>3. scan[r].phase \in {"normal", "fallback"}
  BY DEF Inv, TypeOK, Place
<1>. QED  BY <1>2, <1>3 DEF Tried, Attempt

LEMMA AttemptsGrow ==
    ASSUME TypeOK, NEW r \in Requests, NEW a \in Attempt
    PROVE  [attempts EXCEPT ![r] = Append(@, a)] \in [Requests -> Seq(Attempt)]
  BY DEF TypeOK

LEMMA NoReplyIsReply == NoReply \in Reply /\ Empty \in Reply
  BY DEF NoReply, Empty, Reply

-----------------------------------------------------------------------------
(* The steps between targets and keys *)

LEMMA StartKeepsInv ==
    ASSUME Inv, BlackoutTypeOK', NEW r \in Requests, Start(r)
    PROVE  TypeOK' /\ Elsewhere(r) /\ InBounds(r)'
<1>1. PICK ts \in Resolve(Cfgs[gen], ask[r].name) :
        /\ route' = [route EXCEPT ![r] = [gen |-> gen, targets |-> ts]]
        /\ \/ result' = [result EXCEPT ![r].status = 400] /\ Goto(r, "done")
           \/ UNCHANGED result /\ Goto(r, "enter")
  BY DEF Start
<1>2. gen \in Generations /\ ask[r].name \in Models
  BY DEF Inv, TypeOK, Ask
<1>3. ts \in Seq(Target)
  BY <1>1, <1>2, ResolveGivesTargets
<1>4. route' \in [Requests -> RouteTaken]
  BY <1>1, <1>2, <1>3 DEF Inv, TypeOK, RouteTaken
<1>5. pc' \in [Requests -> Stages] /\ pc'[r] \in {"done", "enter"}
  BY <1>1 DEF Inv, TypeOK, Goto, Stages
<1>6. result' \in [Requests -> Result]
  <2>1. 400 \in Nat /\ (result' = result \/ result' = [result EXCEPT ![r].status = 400])
    BY <1>1
  <2>2. [result EXCEPT ![r].status = 400] \in [Requests -> Result]
    BY <2>1, StatusIsSet DEF Inv
  <2>. QED  BY <2>1, <2>2 DEF Inv, TypeOK
<1>7. TypeOK'
  BY <1>4, <1>5, <1>6 DEF Inv, TypeOK, Start, sharedVars
<1>8. Elsewhere(r)
  BY <1>1 DEF Inv, TypeOK, Start, Goto, Elsewhere
<1>. QED  BY <1>5, <1>7, <1>8 DEF InBounds, InTarget, InCall

\* The steps that change r's place only.
LEMMA MoveKeepsInv ==
    ASSUME Inv, BlackoutTypeOK', NEW r \in Requests,
           \/ SkipFallback(r) \/ EnterTarget(r) \/ LeaveTarget(r) \/ BeginFallback(r)
    PROVE  TypeOK' /\ Elsewhere(r) /\ InBounds(r)'
<1>0. scan[r].at \in Nat \ {0} /\ scan[r].barred \in SUBSET Target /\ "fallback" \in {"normal", "fallback"}
  BY DEF Inv, TypeOK, Place
<1>1. scan' \in [Requests -> Place]
  <2>1. CASE SkipFallback(r) \/ LeaveTarget(r)
    <3>1. scan' = [scan EXCEPT ![r].at = scan[r].at + 1]
      BY <2>1 DEF SkipFallback, LeaveTarget
    <3>. QED  BY <1>0, <3>1, PlaceUpdates DEF Inv
  <2>2. CASE EnterTarget(r)
    <3>1. CurKeys(r) \in Seq(Keys)
      BY <2>2, HereIsTyped DEF Inv, EnterTarget, InTargets
    <3>2. DOMAIN CurKeys(r) \in SUBSET Nat
      BY <3>1
    <3>. QED  BY <2>2, <3>2, PlaceUpdates DEF Inv, EnterTarget
  <2>3. CASE BeginFallback(r)
    <3>1. scan' = [scan EXCEPT ![r].phase = "fallback", ![r].at = 1]
      BY <2>3 DEF BeginFallback
    <3>. QED  BY <1>0, <3>1, PlaceUpdates DEF Inv
  <2>. QED  BY <2>1, <2>2, <2>3
<1>2. pc' \in [Requests -> Stages]
  BY DEF SkipFallback, EnterTarget, LeaveTarget, BeginFallback, Inv, TypeOK, Goto, Stages
<1>3. TypeOK'
  BY <1>1, <1>2 DEF SkipFallback, EnterTarget, LeaveTarget, BeginFallback, Inv, TypeOK, sharedVars
<1>4. Elsewhere(r)
  BY DEF SkipFallback, EnterTarget, LeaveTarget, BeginFallback, Inv, TypeOK, Goto, Elsewhere
<1>5. CASE EnterTarget(r)
  <2>1. scan[r].at <= Len(route[r].targets) /\ Defined(r)
    BY <1>5 DEF EnterTarget, InTargets
  <2>2. /\ pc'[r] = "pick" /\ route'[r] = route[r]
        /\ scan'[r].at = scan[r].at /\ scan'[r].phase = scan[r].phase
        /\ scan'[r].left = DOMAIN CurKeys(r)
    BY <1>5 DEF EnterTarget, Inv, TypeOK, Goto, Place
  <2>3. InBounds(r)'
    BY <2>1, <2>2, SamePlace DEF InBounds, InTarget, InCall
  <2>. QED  BY <1>3, <1>4, <2>3
<1>6. CASE SkipFallback(r) \/ LeaveTarget(r) \/ BeginFallback(r)
  <2>1. pc'[r] = "enter"
    BY <1>6 DEF SkipFallback, LeaveTarget, BeginFallback, InTargets, Inv, TypeOK, Goto
  <2>. QED  BY <1>3, <1>4, <2>1 DEF InBounds, InTarget, InCall
<1>. QED  BY <1>5, <1>6

LEMMA UndefinedTargetKeepsInv ==
    ASSUME Inv, BlackoutTypeOK', NEW r \in Requests, UndefinedTarget(r)
    PROVE  TypeOK' /\ Elsewhere(r) /\ InBounds(r)'
<1>1. scan[r].at <= Len(route[r].targets) /\ scan[r].at \in Nat \ {0} /\ pc[r] = "enter"
  BY DEF UndefinedTarget, InTargets, Inv, TypeOK, Place
<1>. DEFINE a == [target |-> CurTarget(r), type |-> "normal", key |-> NoKey,
                  outcome |-> "error", reply |-> NoReply]
<1>2. a \in Attempt
  BY <1>1, HereIsTyped, NoReplyIsReply DEF Inv, Attempt, Outcomes
<1>3. attempts' \in [Requests -> Seq(Attempt)]
  <2>1. attempts' = attempts \/ attempts' = [attempts EXCEPT ![r] = Append(@, a)]
    BY DEF UndefinedTarget
  <2>2. [attempts EXCEPT ![r] = Append(@, a)] \in [Requests -> Seq(Attempt)]
    <3>. HIDE DEF a
    <3>. QED  BY <1>2, AttemptsGrow DEF Inv
  <2>. QED  BY <2>1, <2>2 DEF Inv, TypeOK
<1>4. scan' \in [Requests -> Place]
  BY <1>1, PlaceUpdates DEF UndefinedTarget, Inv
<1>5. TypeOK'
  BY <1>3, <1>4 DEF UndefinedTarget, Inv, TypeOK, sharedVars
<1>6. Elsewhere(r) /\ pc'[r] = "enter"
  BY <1>1 DEF UndefinedTarget, Inv, TypeOK, Elsewhere
<1>. QED  BY <1>5, <1>6 DEF InBounds, InTarget, InCall

\* A key is passed over or taken: it comes from the keys left at this target.
LEMMA KeyStepKeepsInv ==
    ASSUME Inv, BlackoutTypeOK', NEW r \in Requests, SkipBlackedOut(r) \/ TakeKey(r)
    PROVE  TypeOK' /\ Elsewhere(r) /\ InBounds(r)'
<1>1. /\ pc[r] = "pick" /\ scan[r].at <= Len(route[r].targets) /\ Defined(r)
      /\ scan[r].left \subseteq DOMAIN CurKeys(r) /\ scan[r].left \in SUBSET Nat
  BY DEF SkipBlackedOut, TakeKey, Inv, WalkInBounds, InBounds, InTarget, Stages, TypeOK, Place
<1>2. CASE SkipBlackedOut(r)
  <2>. DEFINE a(k) == [target |-> CurTarget(r), type |-> "normal", key |-> CurKeys(r)[k],
                       outcome |-> "skipped_blackout", reply |-> NoReply]
  <2>1. PICK k \in scan[r].left : /\ scan' = [scan EXCEPT ![r].left = @ \ {k}]
                                  /\ attempts' = [attempts EXCEPT ![r] = Append(@, a(k))]
    BY <1>2 DEF SkipBlackedOut
  <2>2. CurKeys(r)[k] \in Keys /\ CurTarget(r) \in Target
    BY <1>1, PairIsTyped, HereIsTyped DEF Inv
  <2>3. a(k) \in Attempt
    BY <2>2, NoReplyIsReply DEF Attempt, Outcomes
  <2>4. attempts' \in [Requests -> Seq(Attempt)]
    <3>. HIDE DEF a
    <3>. QED  BY <2>1, <2>3, AttemptsGrow DEF Inv
  <2>5. scan[r].left \ {k} \in SUBSET Nat
    BY <1>1
  <2>6. scan' \in [Requests -> Place]
    BY <2>1, <2>5, PlaceUpdates DEF Inv
  <2>7. TypeOK'
    BY <1>2, <2>4, <2>6 DEF SkipBlackedOut, Inv, TypeOK, sharedVars
  <2>8. /\ Elsewhere(r) /\ pc'[r] = pc[r] /\ route'[r] = route[r]
        /\ scan'[r].at = scan[r].at /\ scan'[r].phase = scan[r].phase
        /\ scan'[r].left = scan[r].left \ {k}
    BY <1>2, <2>1 DEF SkipBlackedOut, Inv, TypeOK, Elsewhere, Place
  <2>9. InBounds(r)'
    BY <1>1, <2>8, SamePlace DEF InBounds, InTarget, InCall
  <2>. QED  BY <2>7, <2>8, <2>9
<1>3. CASE TakeKey(r)
  <2>1. PICK k \in scan[r].left : scan' = [scan EXCEPT ![r].left = @ \ {k}, ![r].key = k]
    BY <1>3 DEF TakeKey
  <2>2. scan[r].left \ {k} \in SUBSET Nat /\ k \in Nat /\ k \in DOMAIN CurKeys(r)
    BY <1>1
  <2>3. scan' \in [Requests -> Place]
    BY <2>1, <2>2, PlaceUpdates DEF Inv
  <2>4. pc' \in [Requests -> Stages]
    BY <1>3 DEF TakeKey, Inv, TypeOK, Goto, Stages
  <2>5. TypeOK'
    BY <1>3, <2>3, <2>4 DEF TakeKey, Inv, TypeOK, sharedVars
  <2>6. /\ Elsewhere(r) /\ route'[r] = route[r]
        /\ scan'[r].at = scan[r].at /\ scan'[r].phase = scan[r].phase
        /\ scan'[r].left = scan[r].left \ {k} /\ scan'[r].key = k
    <3>1. scan \in [Requests -> Place] /\ route' = route /\ pc \in [Requests -> Stages]
          /\ pc' = [pc EXCEPT ![r] = "ready"]
      BY <1>3 DEF TakeKey, Inv, TypeOK, Goto
    <3>2. /\ scan'[r] = [scan[r] EXCEPT !.left = scan[r].left \ {k}, !.key = k]
          /\ \A q \in Requests \ {r} : scan'[q] = scan[q]
      BY <2>1, <3>1, Zenon
    <3>3. /\ scan'[r].at = scan[r].at /\ scan'[r].phase = scan[r].phase
          /\ scan'[r].left = scan[r].left \ {k} /\ scan'[r].key = k
      <4>1. scan[r] \in Place
        BY <3>1
      <4>. QED  BY <3>2, <4>1, Zenon DEF Place
    <3>. QED  BY <3>1, <3>2, <3>3 DEF Elsewhere
  <2>7. Defined(r)' /\ CurKeys(r)' = CurKeys(r)
    BY <1>1, <2>6, SamePlace
  <2>8. InBounds(r)'
    BY <1>1, <2>2, <2>6, <2>7 DEF InBounds
  <2>. QED  BY <2>5, <2>6, <2>8
<1>. QED  BY <1>2, <1>3

LEMMA WalkKeepsInv ==
    ASSUME Inv, BlackoutTypeOK', NEW r \in Requests, Walk(r)
    PROVE  Inv'
<1>1. TypeOK' /\ Elsewhere(r) /\ InBounds(r)'
  BY StartKeepsInv, MoveKeepsInv, UndefinedTargetKeepsInv, KeyStepKeepsInv DEF Walk
<1>. QED  BY <1>1, OthersStayInBounds DEF Inv

-----------------------------------------------------------------------------
(* The steps of an attempt *)

\* A step that leaves r at its key may take it to any stage.
LEMMA AtItsKey ==
    ASSUME Inv, NEW r \in Requests, pc[r] \in InCall, UNCHANGED <<scan, route>>,
           NEW s \in Stages, pc' = [pc EXCEPT ![r] = s]
    PROVE  pc' \in [Requests -> Stages] /\ Elsewhere(r) /\ InBounds(r)'
<1>1. /\ scan[r].at <= Len(route[r].targets) /\ Defined(r)
      /\ scan[r].left \subseteq DOMAIN CurKeys(r) /\ scan[r].key \in DOMAIN CurKeys(r)
  BY DEF Inv, WalkInBounds, InBounds, InCall
<1>2. Defined(r)' /\ CurKeys(r)' = CurKeys(r)
  BY <1>1, SamePlace
<1>3. pc' \in [Requests -> Stages] /\ Elsewhere(r)
  BY DEF Inv, TypeOK, Elsewhere
<1>. QED  BY <1>1, <1>2, <1>3 DEF InBounds

LEMMA ReplyUpdates ==
    ASSUME NEW y \in Reply, NEW n \in Nat, NEW b \in BOOLEAN
    PROVE  /\ [y EXCEPT !.learn = b] \in Reply
           /\ [y EXCEPT !.body = b] \in Reply
           /\ [y EXCEPT !.incompatible = TRUE, !.learn = b] \in Reply
           /\ [y EXCEPT !.status = n, !.body = TRUE] \in Reply
           /\ [y EXCEPT !.err = TRUE, !.status = n, !.body = TRUE] \in Reply
<1>1. TRUE \in BOOLEAN
  OBVIOUS
<1>2. [y EXCEPT !.learn = b] \in Reply /\ [y EXCEPT !.body = b] \in Reply
  BY DEF Reply
<1>3. [y EXCEPT !.incompatible = TRUE, !.learn = b] \in Reply
  BY <1>1, Zenon DEF Reply
<1>4. [y EXCEPT !.status = n, !.body = TRUE] \in Reply
  BY <1>1, Zenon DEF Reply
<1>5. [y EXCEPT !.err = TRUE, !.status = n, !.body = TRUE] \in Reply
  BY <1>1, Zenon DEF Reply
<1>. QED  BY <1>2, <1>3, <1>4, <1>5, Zenon

LEMMA SeenIsReply ==
    ASSUME NEW r, NEW y \in Reply
    PROVE  AsSeen(r, y) \in Reply
<1>. DEFINE n == IF y.timedOut THEN 504 ELSE 502
<1>1. n \in Nat /\ TRUE \in BOOLEAN
  OBVIOUS
<1>2. AsSeen(r, y) = y \/ AsSeen(r, y) = [y EXCEPT !.status = n, !.body = TRUE]
  BY Zenon DEF AsSeen
<1>. HIDE DEF n
<1>3. [y EXCEPT !.status = n, !.body = TRUE] \in Reply
  BY <1>1, ReplyUpdates, Zenon
<1>. QED  BY <1>2, <1>3, Zenon

\* The replies a call may return, and what is made of a stream's end.
LEMMA RepliesAreTyped ==
    ASSUME NEW r, NEW path, NEW x \in Returns(r, path)
    PROVE  x \in Reply
<1>1. (path = "probed") \in BOOLEAN /\ Replies \subseteq Reply
  OBVIOUS
<1>2. ASSUME NEW y \in Reply
      PROVE  AsSeen(r, y) \in Reply
  BY SeenIsReply
<1>3. CASE Unservable(r, path)
  <2>1. x = [Empty EXCEPT !.incompatible = TRUE, !.learn = (path = "probed")]
    BY <1>3, Zenon DEF Returns
  <2>2. 0 \in Nat
    OBVIOUS
  <2>. QED  BY <1>1, <2>1, <2>2, NoReplyIsReply, ReplyUpdates, Zenon
<1>4. CASE ~Unservable(r, path) /\ ask[r].op = "embed" /\ CurProvider(r).kind = "anthropic"
  <2>. DEFINE n == 400
  <2>1. x = [Empty EXCEPT !.err = TRUE, !.status = n, !.body = TRUE]
    BY <1>4, Zenon DEF Returns
  <2>2. n \in Nat
    OBVIOUS
  <2>. HIDE DEF n
  <2>. QED  BY <1>1, <2>1, <2>2, NoReplyIsReply, ReplyUpdates, Zenon
<1>5. CASE ~Unservable(r, path) /\ ~(ask[r].op = "embed" /\ CurProvider(r).kind = "anthropic")
  <2>1. PICK y \in Replies : x = [AsSeen(r, y) EXCEPT !.learn = (path = "probed")]
    BY <1>5, Zenon DEF Returns
  <2>2. AsSeen(r, y) \in Reply /\ 0 \in Nat
    BY <1>1, <1>2
  <2>. QED  BY <1>1, <2>1, <2>2, ReplyUpdates, Zenon
<1>. QED  BY <1>3, <1>4, <1>5

LEMMA EndsAreTyped ==
    ASSUME NEW e \in StreamEnds
    PROVE  e \in Reply /\ EarlyReply(e) \in Reply
<1>. DEFINE n == 502
<1>1. e \in Reply /\ n \in Nat /\ FALSE \in BOOLEAN
  OBVIOUS
<1>2. \/ EarlyReply(e) = e
      \/ EarlyReply(e) = [e EXCEPT !.body = FALSE]
      \/ EarlyReply(e) = [e EXCEPT !.status = n, !.body = TRUE]
  BY Zenon DEF EarlyReply
<1>. HIDE DEF n
<1>3. [e EXCEPT !.body = FALSE] \in Reply /\ [e EXCEPT !.status = n, !.body = TRUE] \in Reply
  BY <1>1, ReplyUpdates, Zenon
<1>. QED  BY <1>1, <1>2, <1>3, Zenon

LEMMA VerdictsAreTyped ==
    ASSUME NEW r, NEW x
    PROVE  Judge(r, x) \in Outcomes /\ EarlyVerdict(r, x) \in Outcomes
           /\ PumpVerdict(r, x) \in Outcomes
  BY DEF Judge, EarlyVerdict, PumpVerdict, Outcomes

LEMMA LearnIsTyped ==
    ASSUME Inv, NEW r \in Requests, pc[r] \in InCall, NEW learned, Learn(r, learned)
    PROVE  chatOnly' \in [Generations -> SUBSET Providers]
<1>1. CurTarget(r).provider \in Providers
  BY HereIsTyped DEF Inv, WalkInBounds, InBounds, InCall, Target
<1>2. route[r].gen \in Generations /\ chatOnly \in [Generations -> SUBSET Providers]
  BY DEF Inv, TypeOK, RouteTaken
<1>. QED  BY <1>1, <1>2 DEF Learn

\* The frames of the attempt under way.
LEMMA FramesAreTyped ==
    ASSUME Inv, NEW r \in Requests, NEW n \in Nat
    PROVE  [try |-> Len(attempts[r]) + 1, n |-> n] \in Frame
  BY DEF Inv, TypeOK, Frame

LEMMA ReadFrameIsTyped ==
    ASSUME Inv, NEW r \in Requests, ReadFrame(r)
    PROVE  call' \in [Requests -> CallMade] /\ buf' \in [Requests -> Seq(Frame)]
<1>1. call[r].read \in Nat
  BY DEF Inv, TypeOK, CallMade
<1>2. call' \in [Requests -> CallMade]
  BY <1>1, CallReads DEF ReadFrame, Inv
<1>. DEFINE f == [try |-> Len(attempts[r]) + 1, n |-> call[r].read + 1]
<1>3. f \in Frame /\ buf' = [buf EXCEPT ![r] = Append(@, f)]
  BY <1>1, FramesAreTyped DEF ReadFrame
<1>. HIDE DEF f
<1>4. buf' \in [Requests -> Seq(Frame)]
  BY <1>3 DEF Inv, TypeOK
<1>. QED  BY <1>2, <1>4

LEMMA SendCallKeepsInv ==
    ASSUME Inv, BlackoutTypeOK', NEW r \in Requests, SendCall(r)
    PROVE  TypeOK' /\ Elsewhere(r) /\ InBounds(r)'
<1>. DEFINE c == [mode |-> ResponsesMode(r), read |-> 0, reply |-> NoReply, verdict |-> "error"]
<1>1. c \in CallMade
  BY NoReplyIsReply DEF CallMade, ResponsesMode, Modes, Outcomes
<1>2. call' = [call EXCEPT ![r] = c] /\ buf' = [buf EXCEPT ![r] = <<>>]
  BY DEF SendCall
<1>. HIDE DEF c
<1>3. call' \in [Requests -> CallMade] /\ buf' \in [Requests -> Seq(Frame)]
  BY <1>1, <1>2 DEF Inv, TypeOK
<1>4. pc' \in [Requests -> Stages] /\ Elsewhere(r) /\ InBounds(r)'
  BY AtItsKey DEF SendCall, Goto, InCall, InTarget, Stages
<1>5. TypeOK'
  BY <1>3, <1>4 DEF SendCall, Inv, TypeOK, sharedVars
<1>. QED  BY <1>4, <1>5

LEMMA ReplyArrivesKeepsInv ==
    ASSUME Inv, BlackoutTypeOK', NEW r \in Requests, ReplyArrives(r)
    PROVE  TypeOK' /\ Elsewhere(r) /\ InBounds(r)'
<1>. DEFINE frames(n) == [i \in 1..n |-> [try |-> Len(attempts[r]) + 1, n |-> i]]
<1>0. PICK path \in Paths(r) : \E x \in Returns(r, path) :
        /\ Learn(r, x.learn)
        /\ call' = [call EXCEPT ![r].reply = x, ![r].verdict = Judge(r, x)]
        /\ \/ /\ \E n \in 1..MaxFrames : buf' = [buf EXCEPT ![r] = frames(n)]
              /\ Goto(r, "commit")
           \/ UNCHANGED buf /\ Goto(r, "judged")
  BY Zenon DEF ReplyArrives
<1>1. PICK x \in Returns(r, path) :
        /\ Learn(r, x.learn)
        /\ call' = [call EXCEPT ![r].reply = x, ![r].verdict = Judge(r, x)]
        /\ \/ /\ \E n \in 1..MaxFrames : buf' = [buf EXCEPT ![r] = frames(n)]
              /\ Goto(r, "commit")
           \/ UNCHANGED buf /\ Goto(r, "judged")
  BY <1>0, Zenon
<1>2. pc[r] = "calling" /\ pc[r] \in InCall /\ UNCHANGED <<scan, route>>
  BY DEF ReplyArrives, InCall, InTarget, Stages
<1>3. call' \in [Requests -> CallMade]
  <2>1. x \in Reply /\ Judge(r, x) \in Outcomes
    BY RepliesAreTyped, VerdictsAreTyped
  <2>2. TypeOK
    BY DEF Inv
  <2>. QED  BY <1>1, <2>1, <2>2, CallReturns, Zenon
<1>4. chatOnly' \in [Generations -> SUBSET Providers]
  BY <1>1, <1>2, LearnIsTyped
<1>5. buf' \in [Requests -> Seq(Frame)]
  <2>1. ASSUME NEW n \in 1..MaxFrames
        PROVE  frames(n) \in Seq(Frame)
    <3>1. n \in Nat /\ \A i \in 1..n : [try |-> Len(attempts[r]) + 1, n |-> i] \in Frame
      BY FramesAreTyped
    <3>. QED  BY <3>1
  <2>. HIDE DEF frames
  <2>2. UNCHANGED buf \/ \E n \in 1..MaxFrames : buf' = [buf EXCEPT ![r] = frames(n)]
    BY <1>1, Zenon
  <2>. QED  BY <2>1, <2>2 DEF Inv, TypeOK
<1>6. pc' \in [Requests -> Stages] /\ Elsewhere(r) /\ InBounds(r)'
  <2>1. \E s \in Stages : pc' = [pc EXCEPT ![r] = s]
    BY <1>1 DEF Goto, Stages
  <2>. QED  BY <1>2, <2>1, AtItsKey
<1>7. TypeOK'
  BY <1>3, <1>4, <1>5, <1>6 DEF ReplyArrives, Inv, TypeOK
<1>. QED  BY <1>6, <1>7

LEMMA StreamStepKeepsInv ==
    ASSUME Inv, BlackoutTypeOK', NEW r \in Requests,
           StreamOpens(r) \/ EarlyFrame(r) \/ EarlyEnd(r)
    PROVE  TypeOK' /\ Elsewhere(r) /\ InBounds(r)'
<1>1. /\ pc[r] \in InCall /\ UNCHANGED <<scan, route>>
      /\ \E s \in Stages : pc' = [pc EXCEPT ![r] = s]
  <2>1. CASE StreamOpens(r)
    BY <2>1 DEF StreamOpens, Goto, InCall, InTarget, Stages, requestVars
  <2>2. CASE EarlyFrame(r)
    BY <2>2 DEF EarlyFrame, Goto, InCall, InTarget, Stages, Inv, TypeOK
  <2>3. CASE EarlyEnd(r)
    BY <2>3 DEF EarlyEnd, Goto, InCall, InTarget, Stages
  <2>. QED  BY <2>1, <2>2, <2>3
<1>2. pc' \in [Requests -> Stages] /\ Elsewhere(r) /\ InBounds(r)'
  BY <1>1, AtItsKey
<1>3. CASE StreamOpens(r)
  <2>1. chatOnly' \in [Generations -> SUBSET Providers]
    BY <1>1, <1>3, LearnIsTyped DEF StreamOpens
  <2>2. TypeOK'
    BY <1>2, <1>3, <2>1 DEF StreamOpens, Inv, TypeOK, requestVars
  <2>. QED  BY <1>2, <2>2
<1>4. CASE EarlyFrame(r)
  <2>1. call' \in [Requests -> CallMade] /\ buf' \in [Requests -> Seq(Frame)]
    BY <1>4, ReadFrameIsTyped DEF EarlyFrame
  <2>2. TypeOK'
    BY <1>2, <1>4, <2>1 DEF EarlyFrame, Inv, TypeOK, sharedVars
  <2>. QED  BY <1>2, <2>2
<1>5. CASE EarlyEnd(r)
  <2>1. PICK e \in StreamEnds :
            \/ call' = [call EXCEPT ![r].reply = e]
            \/ call' = [call EXCEPT ![r].reply = EarlyReply(e), ![r].verdict = EarlyVerdict(r, e)]
    BY <1>5, Zenon DEF EarlyEnd
  <2>2. e \in Reply /\ EarlyReply(e) \in Reply /\ EarlyVerdict(r, e) \in Outcomes /\ TypeOK
    BY EndsAreTyped, VerdictsAreTyped DEF Inv
  <2>3. call' \in [Requests -> CallMade]
    <3>1. [call EXCEPT ![r].reply = e] \in [Requests -> CallMade]
      BY <2>2, CallReturns, Zenon
    <3>2. [call EXCEPT ![r].reply = EarlyReply(e), ![r].verdict = EarlyVerdict(r, e)]
              \in [Requests -> CallMade]
      BY <2>2, CallReturns, Zenon
    <3>. QED  BY <2>1, <3>1, <3>2, Zenon
  <2>4. TypeOK'
    BY <1>2, <1>5, <2>3 DEF EarlyEnd, Inv, TypeOK, sharedVars
  <2>. QED  BY <1>2, <2>4
<1>. QED  BY <1>3, <1>4, <1>5

\* What settle does whatever the verdict.
LEMMA SettleIsTyped ==
    ASSUME Inv, NEW r \in Requests, NEW v \in Outcomes, Settle(r, v)
    PROVE  /\ attempts' \in [Requests -> Seq(Attempt)] /\ last' \in [Requests -> Reply]
           /\ pc[r] \in InCall /\ call[r].reply \in Reply
           /\ UNCHANGED <<route, call, buf, wire, client, sharedVars>>
<1>1. pc[r] \in InCall /\ UNCHANGED <<route, call, buf, wire, client, sharedVars>>
  BY DEF Settle, InCall, InTarget, Stages
<1>2. call[r].reply \in Reply
  BY DEF Inv, TypeOK, CallMade
<1>3. attempts' \in [Requests -> Seq(Attempt)]
  <2>1. Tried(r, v, call[r].reply) \in Attempt
    BY <1>1, <1>2, TriedIsAttempt
  <2>. QED  BY <2>1, AttemptsGrow DEF Settle, Inv
<1>4. last' \in [Requests -> Reply]
  BY <1>2 DEF Settle, Inv, TypeOK
<1>. QED  BY <1>1, <1>2, <1>3, <1>4

LEMMA SettleKeepsInv ==
    ASSUME Inv, BlackoutTypeOK', NEW r \in Requests,
           \/ SettleSuccess(r) \/ SettleCanceled(r) \/ SettleNext(r) \/ SettleError(r)
    PROVE  TypeOK' /\ Elsewhere(r) /\ InBounds(r)'
<1>1. \E v \in Outcomes : Settle(r, v)
  BY DEF SettleSuccess, SettleCanceled, SettleNext, SettleError, Outcomes
<1>2. /\ attempts' \in [Requests -> Seq(Attempt)] /\ last' \in [Requests -> Reply]
      /\ pc[r] \in InCall /\ call[r].reply \in Reply
      /\ UNCHANGED <<route, call, buf, wire, client, sharedVars>>
  BY <1>1, SettleIsTyped
<1>3. result' \in [Requests -> Result]
  <2>1. CASE SettleSuccess(r)
    <3>1. call[r].reply.status \in Nat /\ TypeOK
      BY <1>2 DEF Reply, Inv
    <3>2. result' = [result EXCEPT ![r].success = TRUE, ![r].status = call[r].reply.status]
      BY <2>1 DEF SettleSuccess
    <3>3. [result EXCEPT ![r].success = TRUE, ![r].status = call[r].reply.status]
              \in [Requests -> Result]
      BY <3>1, ResultAnswers, Zenon
    <3>. QED  BY <3>2, <3>3, Zenon
  <2>2. CASE SettleCanceled(r)
    <3>1. result' = [result EXCEPT ![r].status = 499]
      BY <2>2 DEF SettleCanceled
    <3>2. [result EXCEPT ![r].status = 499] \in [Requests -> Result]
      <4>1. 499 \in Nat /\ TypeOK
        BY DEF Inv
      <4>. QED  BY <4>1, StatusIsSet, Zenon
    <3>. QED  BY <3>1, <3>2
  <2>3. CASE SettleNext(r) \/ SettleError(r)
    BY <2>3 DEF SettleNext, SettleError, Inv, TypeOK
  <2>. QED  BY <2>1, <2>2, <2>3
<1>4. pc' \in [Requests -> Stages] /\ Elsewhere(r) /\ InBounds(r)'
  <2>1. scan' = scan /\ route' = route /\ \E s \in Stages : pc' = [pc EXCEPT ![r] = s]
    BY <1>2 DEF SettleSuccess, SettleCanceled, SettleNext, SettleError, Goto, Stages
  <2>. QED  BY <1>2, <2>1, AtItsKey
<1>5. scan' = scan
  BY DEF SettleSuccess, SettleCanceled, SettleNext, SettleError
<1>6. TypeOK'
  BY <1>2, <1>3, <1>4, <1>5 DEF Inv, TypeOK, sharedVars
<1>. QED  BY <1>4, <1>6

LEMMA SettleProhibitedKeepsInv ==
    ASSUME Inv, BlackoutTypeOK', NEW r \in Requests, SettleProhibited(r)
    PROVE  TypeOK' /\ Elsewhere(r) /\ InBounds(r)'
<1>1. /\ attempts' \in [Requests -> Seq(Attempt)] /\ last' \in [Requests -> Reply]
      /\ pc[r] \in InCall
      /\ UNCHANGED <<route, call, buf, wire, client, sharedVars>>
  BY SettleIsTyped DEF SettleProhibited, Outcomes
<1>. DEFINE b == scan[r].barred \cup {CurTarget(r)}
<1>2. scan' = [scan EXCEPT ![r].barred = b, ![r].left = {}]
  BY DEF SettleProhibited
<1>3. scan[r].at <= Len(route[r].targets) /\ Defined(r) /\ scan \in [Requests -> Place]
      /\ pc \in [Requests -> Stages] /\ TypeOK
  BY <1>1 DEF Inv, TypeOK, WalkInBounds, InBounds, InCall
<1>4. b \in SUBSET Target /\ {} \in SUBSET Nat
  BY <1>3, HereIsTyped DEF Place
<1>. HIDE DEF b
<1>5. scan' \in [Requests -> Place]
  <2>1. 0 \in Nat /\ "normal" \in {"normal", "fallback"}
    OBVIOUS
  <2>. QED  BY <1>2, <1>3, <1>4, <2>1, PlaceUpdates, Zenon
<1>6. pc' = [pc EXCEPT ![r] = "pick"] /\ result' = result
  BY DEF SettleProhibited, Goto
<1>7. pc' \in [Requests -> Stages]
  BY <1>3, <1>6 DEF Stages
<1>8. TypeOK'
  BY <1>1, <1>5, <1>6, <1>7 DEF Inv, TypeOK, sharedVars
<1>9. /\ scan'[r] = [scan[r] EXCEPT !.barred = b, !.left = {}]
      /\ \A q \in Requests \ {r} : scan'[q] = scan[q]
  BY <1>2, <1>3, Zenon
<1>10. scan'[r].at = scan[r].at /\ scan'[r].phase = scan[r].phase /\ scan'[r].left = {}
  <2>1. scan[r] \in Place
    BY <1>3
  <2>2. scan'[r].at = scan[r].at
    BY <1>9, <2>1, Zenon DEF Place
  <2>3. scan'[r].phase = scan[r].phase
    BY <1>9, <2>1, Zenon DEF Place
  <2>4. scan'[r].left = {}
    BY <1>9, <2>1, Zenon DEF Place
  <2>. QED  BY <2>2, <2>3, <2>4
<1>11. Elsewhere(r) /\ pc'[r] = "pick"
  BY <1>1, <1>3, <1>6, <1>9 DEF Elsewhere
<1>12. Defined(r)' /\ CurKeys(r)' = CurKeys(r) /\ route' = route
  BY <1>1, <1>3, <1>10, SamePlace
<1>. QED  BY <1>3, <1>8, <1>10, <1>11, <1>12 DEF InBounds, InCall

LEMMA FinishFailKeepsInv ==
    ASSUME Inv, BlackoutTypeOK', NEW r \in Requests, FinishFail(r)
    PROVE  TypeOK' /\ Elsewhere(r) /\ InBounds(r)'
<1>1. pc[r] \in InCall /\ UNCHANGED <<scan, route>> /\ \E s \in Stages : pc' = [pc EXCEPT ![r] = s]
  BY DEF FinishFail, Goto, InCall, InTarget, Stages, requestVars
<1>2. pc' \in [Requests -> Stages] /\ Elsewhere(r) /\ InBounds(r)'
  BY <1>1, AtItsKey
<1>. QED  BY <1>2 DEF FinishFail, Inv, TypeOK, requestVars, sharedVars

LEMMA TryKeepsInv ==
    ASSUME Inv, BlackoutTypeOK', NEW r \in Requests, Try(r)
    PROVE  Inv'
<1>1. TypeOK' /\ Elsewhere(r) /\ InBounds(r)'
  BY SendCallKeepsInv, ReplyArrivesKeepsInv, StreamStepKeepsInv, SettleKeepsInv,
     SettleProhibitedKeepsInv, FinishFailKeepsInv DEF Try
<1>. QED  BY <1>1, OthersStayInBounds DEF Inv

-----------------------------------------------------------------------------
(* The steps of a committed stream, and the last answers *)

LEMMA CommitKeepsInv ==
    ASSUME Inv, BlackoutTypeOK', NEW r \in Requests, Commit(r)
    PROVE  TypeOK' /\ Elsewhere(r) /\ InBounds(r)'
<1>1. pc[r] \in InCall /\ UNCHANGED <<scan, route>> /\ \E s \in Stages : pc' = [pc EXCEPT ![r] = s]
  BY DEF Commit, Goto, InCall, InTarget, Stages
<1>2. pc' \in [Requests -> Stages] /\ Elsewhere(r) /\ InBounds(r)'
  BY <1>1, AtItsKey
<1>3. result' = [result EXCEPT ![r].committed = TRUE, ![r].status = 200]
  BY DEF Commit
<1>4. result' \in [Requests -> Result]
  <2>1. 200 \in Nat /\ TypeOK
    BY DEF Inv
  <2>2. [result EXCEPT ![r].committed = TRUE, ![r].status = 200] \in [Requests -> Result]
    BY <2>1, ResultAnswers, Zenon
  <2>. QED  BY <1>3, <2>2, Zenon
<1>5. TypeOK'
  BY <1>2, <1>4 DEF Commit, Inv, TypeOK, sharedVars
<1>. QED  BY <1>2, <1>5

LEMMA PumpKeepsInv ==
    ASSUME Inv, BlackoutTypeOK', NEW r \in Requests, WriteFrame(r) \/ PumpFrame(r)
    PROVE  TypeOK' /\ Elsewhere(r) /\ InBounds(r)'
<1>1. pc[r] \in InCall /\ UNCHANGED <<scan, route>> /\ \E s \in Stages : pc' = [pc EXCEPT ![r] = s]
  BY DEF WriteFrame, PumpFrame, Goto, InCall, InTarget, Stages, Inv, TypeOK
<1>2. pc' \in [Requests -> Stages] /\ Elsewhere(r) /\ InBounds(r)'
  BY <1>1, AtItsKey
<1>3. CASE WriteFrame(r)
  <2>1. buf[r] \in Seq(Frame) /\ buf[r] # <<>> /\ wire \in [Requests -> Seq(Frame)]
        /\ buf \in [Requests -> Seq(Frame)]
    BY <1>3 DEF WriteFrame, Inv, TypeOK
  <2>2. Head(buf[r]) \in Frame /\ Tail(buf[r]) \in Seq(Frame)
    BY <2>1
  <2>3. buf' = [buf EXCEPT ![r] = Tail(buf[r])]
        /\ (wire' = wire \/ wire' = [wire EXCEPT ![r] = Append(wire[r], Head(buf[r]))])
    BY <1>3 DEF WriteFrame
  <2>4. buf' \in [Requests -> Seq(Frame)]
    <3>. DEFINE rest == Tail(buf[r])
    <3>1. rest \in Seq(Frame) /\ buf' = [buf EXCEPT ![r] = rest]
      BY <2>2, <2>3
    <3>. HIDE DEF rest
    <3>. QED  BY <2>1, <3>1
  <2>5. wire' \in [Requests -> Seq(Frame)]
    <3>. DEFINE more == Append(wire[r], Head(buf[r]))
    <3>1. more \in Seq(Frame) /\ (wire' = wire \/ wire' = [wire EXCEPT ![r] = more])
      BY <2>1, <2>2, <2>3
    <3>. HIDE DEF more
    <3>. QED  BY <2>1, <3>1
  <2>6. TypeOK'
    BY <1>2, <1>3, <2>4, <2>5 DEF WriteFrame, Inv, TypeOK, sharedVars
  <2>. QED  BY <1>2, <2>6
<1>4. CASE PumpFrame(r)
  <2>1. call' \in [Requests -> CallMade] /\ buf' \in [Requests -> Seq(Frame)]
    BY <1>4, ReadFrameIsTyped DEF PumpFrame
  <2>2. TypeOK'
    BY <1>2, <1>4, <2>1 DEF PumpFrame, Inv, TypeOK, sharedVars
  <2>. QED  BY <1>2, <2>2
<1>. QED  BY <1>3, <1>4

LEMMA PumpEndKeepsInv ==
    ASSUME Inv, BlackoutTypeOK', NEW r \in Requests, PumpEnd(r)
    PROVE  TypeOK' /\ Elsewhere(r) /\ InBounds(r)'
<1>. DEFINE f == [try |-> Len(attempts[r]) + 1, n |-> 0]
<1>1. pc[r] \in InCall /\ UNCHANGED <<route, scan, call, last, client, sharedVars>>
      /\ buf' = [buf EXCEPT ![r] = <<>>]
  BY DEF PumpEnd, InCall, InTarget, Stages
<1>2. PICK e \in IF pc[r] = "gone" THEN {call[r].reply} ELSE PumpEnds(r) :
        LET verdict == PumpVerdict(r, e) IN
        /\ attempts' = [attempts EXCEPT ![r] = Append(@, Tried(r, verdict, e))]
        /\ result' = [result EXCEPT ![r].success = (verdict = "success")]
        /\ wire' = wire \/ wire' = [wire EXCEPT ![r] = Append(@, f)]
        /\ Goto(r, "done") \/ Goto(r, "failing")
  BY DEF PumpEnd
<1>3. e \in Reply /\ PumpVerdict(r, e) \in Outcomes
  BY <1>2, EndsAreTyped, VerdictsAreTyped DEF PumpEnds, Inv, TypeOK, CallMade
<1>4. attempts' \in [Requests -> Seq(Attempt)]
  <2>1. Tried(r, PumpVerdict(r, e), e) \in Attempt
    BY <1>1, <1>3, TriedIsAttempt
  <2>. QED  BY <1>2, <2>1, AttemptsGrow DEF Inv
<1>5. result' \in [Requests -> Result]
  BY <1>2, ResultSucceeds DEF Inv
<1>6. f \in Frame
  BY FramesAreTyped
<1>. HIDE DEF f
<1>7. wire' \in [Requests -> Seq(Frame)] /\ buf' \in [Requests -> Seq(Frame)]
  <2>1. wire \in [Requests -> Seq(Frame)] /\ buf \in [Requests -> Seq(Frame)] /\ <<>> \in Seq(Frame)
    BY DEF Inv, TypeOK
  <2>2. wire' \in [Requests -> Seq(Frame)]
    <3>1. wire' = wire \/ wire' = [wire EXCEPT ![r] = Append(wire[r], f)]
      BY <1>2
    <3>2. Append(wire[r], f) \in Seq(Frame)
      BY <1>6, <2>1
    <3>. QED  BY <2>1, <3>1, <3>2
  <2>3. buf' \in [Requests -> Seq(Frame)]
    BY <1>1, <2>1
  <2>. QED  BY <2>2, <2>3
<1>8. pc' \in [Requests -> Stages] /\ Elsewhere(r) /\ InBounds(r)'
  <2>1. \E s \in Stages : pc' = [pc EXCEPT ![r] = s]
    BY <1>2 DEF Goto, Stages
  <2>. QED  BY <1>1, <2>1, AtItsKey
<1>9. TypeOK'
  BY <1>1, <1>4, <1>5, <1>7, <1>8 DEF Inv, TypeOK, sharedVars
<1>. QED  BY <1>8, <1>9

LEMMA ExhaustionKeepsInv ==
    ASSUME Inv, BlackoutTypeOK', NEW r \in Requests, AnswerExhausted(r) \/ SendRefusal(r)
    PROVE  TypeOK' /\ Elsewhere(r) /\ InBounds(r)'
<1>1. UNCHANGED <<scan, route, call, attempts, last, client, sharedVars, buf>>
      /\ pc' = [pc EXCEPT ![r] = "done"]
  BY DEF AnswerExhausted, SendRefusal, Goto
<1>2. pc' \in [Requests -> Stages] /\ Elsewhere(r) /\ pc'[r] = "done"
  BY <1>1 DEF Inv, TypeOK, Stages, Elsewhere
<1>3. CASE AnswerExhausted(r)
  <2>1. ExhaustedAnswer(r) \in Nat
    <3>1. last[r].status \in Nat
      BY DEF Inv, TypeOK, Reply
    <3>2. ExhaustedStatus(last[r]) \in Nat
      BY <3>1 DEF ExhaustedStatus
    <3>. QED  BY <3>2 DEF ExhaustedAnswer
  <2>2. result' \in [Requests -> Result] /\ wire' = wire
    BY <1>3, <2>1, StatusIsSet DEF AnswerExhausted, Inv
  <2>3. TypeOK'
    BY <1>1, <1>2, <2>2 DEF Inv, TypeOK, sharedVars
  <2>. QED  BY <1>2, <2>3 DEF InBounds, InTarget, InCall
<1>4. CASE SendRefusal(r)
  <2>1. result' \in [Requests -> Result]
    <3>1. 200 \in Nat /\ TypeOK
      BY DEF Inv
    <3>2. [result EXCEPT ![r].committed = TRUE, ![r].status = 200] \in [Requests -> Result]
      BY <3>1, ResultAnswers, Zenon
    <3>. QED  BY <1>4, <3>2, Zenon DEF SendRefusal
  <2>2. <<[try |-> 0, n |-> 1]>> \in Seq(Frame)
    BY DEF Frame
  <2>3. wire' = wire \/ wire' = [wire EXCEPT ![r] = <<[try |-> 0, n |-> 1]>>]
    BY <1>4 DEF SendRefusal
  <2>4. wire' \in [Requests -> Seq(Frame)]
    BY <2>2, <2>3 DEF Inv, TypeOK
  <2>5. TypeOK'
    BY <1>1, <1>2, <2>1, <2>4 DEF Inv, TypeOK, sharedVars
  <2>. QED  BY <1>2, <2>5 DEF InBounds, InTarget, InCall
<1>. QED  BY <1>3, <1>4

LEMMA DeliverKeepsInv ==
    ASSUME Inv, BlackoutTypeOK', NEW r \in Requests, Deliver(r)
    PROVE  Inv'
<1>1. TypeOK' /\ Elsewhere(r) /\ InBounds(r)'
  BY CommitKeepsInv, PumpKeepsInv, PumpEndKeepsInv, ExhaustionKeepsInv DEF Deliver
<1>. QED  BY <1>1, OthersStayInBounds DEF Inv

-----------------------------------------------------------------------------
(* Every step, and the theorems *)

\* A step that moves no request keeps every walk in its lists.
LEMMA NobodyMoves ==
    ASSUME Inv, UNCHANGED <<pc, route, scan>>
    PROVE  WalkInBounds'
  BY DEF Inv, WalkInBounds, InBounds, Defined, CurKeys, CurProvider, CurTarget, Cfg

LEMMA NextKeepsInv ==
    ASSUME Inv, [Next]_vars
    PROVE  Inv'
<1>1. BlackoutTypeOK'
  BY StepUsesTracker, BlackoutStepIsTyped DEF Inv, TypeOK
<1>2. CASE UNCHANGED vars \/ Finished
  <2>1. TypeOK'
    BY <1>1, <1>2 DEF Finished, vars, requestVars, sharedVars, Inv, TypeOK
  <2>2. UNCHANGED <<pc, route, scan>>
    BY <1>2 DEF Finished, vars, requestVars
  <2>. QED  BY <2>1, <2>2, NobodyMoves DEF Inv
<1>3. ASSUME NEW r \in Requests, Handle(r) PROVE Inv'
  BY <1>1, <1>3, WalkKeepsInv, TryKeepsInv, DeliverKeepsInv DEF Handle
<1>4. ASSUME NEW r \in Requests, ClientLeaves(r) \/ ContextEnds(r) PROVE Inv'
  <2>1. TypeOK'
    BY <1>1, <1>4 DEF ClientLeaves, ContextEnds, requestVars, sharedVars, Inv, TypeOK
  <2>2. UNCHANGED <<pc, route, scan>>
    BY <1>4 DEF ClientLeaves, ContextEnds, requestVars
  <2>. QED  BY <2>1, <2>2, NobodyMoves DEF Inv
<1>5. CASE SwapState
  <2>1. gen \in Generations /\ gen < Len(Cfgs) /\ gen + 1 \in Generations
    BY <1>5, GenerationsAreNumbers DEF SwapState, Inv, TypeOK
  <2>2. Cfgs[gen + 1].blackout \in Windows
    BY <2>1 DEF IsConfig
  <2>3. gen' \in Generations /\ pending' \in SUBSET Windows
    BY <1>5, <2>1, <2>2 DEF SwapState
  <2>4. TypeOK'
    BY <1>1, <1>5, <2>3 DEF SwapState, requestVars, Inv, TypeOK
  <2>5. UNCHANGED <<pc, route, scan>>
    BY <1>5 DEF SwapState, requestVars
  <2>. QED  BY <2>4, <2>5, NobodyMoves DEF Inv
<1>6. CASE SetWindow \/ ClockTicks
  <2>1. TypeOK'
    BY <1>1, <1>6 DEF SetWindow, ClockTicks, requestVars, sharedVars, Inv, TypeOK
  <2>2. UNCHANGED <<pc, route, scan>>
    BY <1>6 DEF SetWindow, ClockTicks, requestVars
  <2>. QED  BY <2>1, <2>2, NobodyMoves DEF Inv
<1>. QED  BY <1>2, <1>3, <1>4, <1>5, <1>6 DEF Next, Reload

LEMMA InitGivesInv ==
    ASSUME RouterInit
    PROVE  Inv
<1>1. 1 \in Generations /\ Cfgs[1].blackout \in Windows
  BY GenerationsAreNumbers DEF IsConfig
<1>2. BlackoutTypeOK
  BY <1>1 DEF RouterInit, BlackoutInit, BlackoutTypeOK
<1>3. [phase |-> "normal", at |-> 1, left |-> {}, key |-> 0, barred |-> {}] \in Place
  BY DEF Place
<1>4. [mode |-> "probe", read |-> 0, reply |-> NoReply, verdict |-> "error"] \in CallMade
  BY NoReplyIsReply DEF CallMade, Modes, Outcomes
<1>5. scan \in [Requests -> Place] /\ call \in [Requests -> CallMade] /\ last \in [Requests -> Reply]
  BY <1>3, <1>4, NoReplyIsReply DEF RouterInit
<1>6. TypeOK
  BY <1>1, <1>2, <1>5 DEF RouterInit, TypeOK, Stages, RouteTaken, Result
<1>7. \A r \in Requests : pc[r] = "new"
  BY DEF RouterInit
<1>8. WalkInBounds
  BY <1>7 DEF WalkInBounds, InBounds, InTarget, InCall
<1>. QED  BY <1>6, <1>8 DEF Inv

\* The inductive invariant: the two properties below need each other, for a step
\* keeps the types only from inside the lists.
THEOREM InvHolds == Spec => []Inv
<1>1. RouterInit => Inv
  BY InitGivesInv
<1>2. Inv /\ [Next]_vars => Inv'
  BY NextKeepsInv
<1>. QED  BY <1>1, <1>2, PTL DEF Spec

\* Every variable of the router keeps its type, whatever is configured, asked
\* and answered: in particular every attempt that ends has an outcome.
THEOREM RouterIsTyped == Spec => []TypeOK
<1>1. Inv => TypeOK
  BY DEF Inv
<1>. QED  BY <1>1, InvHolds, PTL

\* No request ever indexes outside its targets or keys, nor uses a provider its
\* configuration does not define (run, tryKey and the rest in src/router).
THEOREM WalkStaysInBounds == Spec => []WalkInBounds
<1>1. Inv => WalkInBounds
  BY DEF Inv
<1>. QED  BY <1>1, InvHolds, PTL

\* Under the router, with any number of concurrent requests and reloads, the
\* blackout tracker keeps the promise of KeyHealth.
THEOREM RouterImplementsKeyHealth == Spec => ImplementsKeyHealth
<1>1. RouterInit => \E w \in Windows : BlackoutInit(w)
  BY GenerationsAreNumbers DEF RouterInit, IsConfig
<1>2. Inv /\ [Next]_vars => [BlackoutNext]_blackoutVars
  BY StepUsesTracker
<1>3. Spec => BlackoutSpec
  BY <1>1, <1>2, InvHolds, PTL DEF Spec, BlackoutSpec
<1>. QED  BY <1>3, BlackoutImplementsKeyHealth, PTL
=============================================================================
