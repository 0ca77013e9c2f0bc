---------------------------- MODULE StreamProofs ----------------------------
(***************************************************************************)
(* A streamed call, for every provider, script and whole reply: its types, *)
(* that its limit runs out when it should, and that a Responses client is  *)
(* sent what ResponsesEvents promises.                                     *)
(***************************************************************************)
EXTENDS EventProofs

USE StreamAssumption

-----------------------------------------------------------------------------
(* Types *)

\* What was written and is not handled.
WireFits ==
    /\ wire = [queue |-> wire.queue, sent |-> wire.sent, script |-> wire.script,
               over |-> wire.over, told |-> wire.told]
    /\ wire.sent \in 0..MaxEvents /\ wire.over \in {"no", "eof", "drop"} /\ wire.told \in BOOLEAN
    /\ IsList(wire.queue) /\ IsList(buf) /\ Len(wire.queue) + Len(buf) <= wire.sent
    /\ stage \in {"connecting", "reply"} => buf = <<>>

\* The limit, and the clock by which it is measured. Before output the limit and
\* the age of the call are two sides of one thing; after output the limit has lost
\* at least the ticks in which the provider was waited for, and no more than those
\* and the client's. What was read is handled before time passes.
Measures(t, k) ==
    /\ t \in [left : 0..Limit, started : BOOLEAN]
    /\ k \in [age : 0..Limit, quiet : 0..Limit, away : 0..Limit, silent : 0..Limit]
    /\ ~t.started => k.age = Limit - t.left /\ k.quiet = 0
    /\ t.started => k.quiet <= Limit - t.left /\ Limit - t.left <= k.quiet + k.away
ClockFits ==
    /\ Measures(timer, clock)
    /\ ctx \in [timedOut : BOOLEAN, callerGone : BOOLEAN]
    /\ ~ctx.timedOut => timer.left > 0
    /\ buf # <<>> => clock.quiet = 0

\* Where the call is, how it ended, and what the client has.
EndFits ==
    /\ end.how \in {"none", "answer", "eof", "error", "context"}
    /\ end.how = "error" => end.status \in 400..599
    /\ (end.how = "none") = (stage # "over")
CallFits ==
    /\ call \in Calls /\ route \in {"native", "chat"}
    /\ stage \in {"connecting", "reply", "reading", "over"}
    /\ hold \in BOOLEAN /\ holds \in 0..MaxHolds
    /\ EndFits /\ IsSeen(seen)

Inv == WireFits /\ ClockFits /\ CallFits

LEMMA InvIsTyped == Inv => StreamTypeOK
<1>. SUFFICES ASSUME Inv PROVE StreamTypeOK
  OBVIOUS
<1>1. \A c \in DOMAIN clock : clock[c] \in 0..Limit
  BY DEF Inv, ClockFits, Measures
<1>2. timer.left \in 0..Limit /\ timer.started \in BOOLEAN
  BY DEF Inv, ClockFits, Measures
<1>. QED  BY <1>1, <1>2 DEF Inv, WireFits, ClockFits, CallFits, EndFits, IsSeen, Phases, StreamTypeOK

\* A client that takes a frame keeps the shape of what it has.
LEMMA TakeFits ==
    ASSUME NEW s, IsSeen(s), NEW f
    PROVE  IsSeen(Take(s, f))
<1>1. ASSUME NEW n, NEW p, NEW i, NEW x,
             p \in Phases
      PROVE  IsSeen([s EXCEPT !.next = n, !.phase = p, !.items = i, !.final = x])
  BY <1>1 DEF IsSeen
<1>2. CASE call.op = "responses"
  <2>1. PhaseAfter(s, f) \in Phases
    BY DEF IsSeen, Phases, PhaseAfter
  <2>. QED  BY <1>1, <1>2, <2>1, Zenon DEF Take, TakeEvent
<1>3. CASE call.op # "responses"
  BY <1>3 DEF Take, IsSeen, Phases
<1>. QED  BY <1>2, <1>3

LEMMA Measured ==
    ASSUME NEW t, NEW k, Measures(t, k)
    PROVE  /\ t = [left |-> t.left, started |-> t.started]
           /\ k = [age |-> k.age, quiet |-> k.quiet, away |-> k.away, silent |-> k.silent]
           /\ t.left \in 0..Limit /\ t.started \in BOOLEAN
           /\ k.age \in 0..Limit /\ k.quiet \in 0..Limit /\ k.away \in 0..Limit /\ k.silent \in 0..Limit
<1>1. /\ t \in [left : 0..Limit, started : BOOLEAN]
      /\ k \in [age : 0..Limit, quiet : 0..Limit, away : 0..Limit, silent : 0..Limit]
  BY DEF Measures
<1>. QED  BY <1>1

\* A limit that is set anew.
LEMMA AnewMeasures ==
    /\ newStreamTimer.left = Limit /\ Limit > 0 /\ Clock.quiet = 0
    /\ Measures(newStreamTimer, Clock)
<1>1. newStreamTimer.left = Limit /\ Limit > 0 /\ Clock.quiet = 0
  BY DEF newStreamTimer, Clock
<1>2. Clock \in [age : 0..Limit, quiet : 0..Limit, away : 0..Limit, silent : 0..Limit]
      /\ Clock.age = 0 /\ Clock.away = 0
  BY DEF Clock
<1>3. newStreamTimer \in [left : 0..Limit, started : BOOLEAN] /\ ~newStreamTimer.started
  BY DEF newStreamTimer
<1>. QED  BY <1>1, <1>2, <1>3 DEF Measures

\* One that is on silence has lost nothing to a provider that was just read.
LEMMA RestartMeasures ==
    ASSUME NEW t, NEW k \in [age : 0..Limit, quiet : 0..Limit, away : 0..Limit, silent : 0..Limit], k.quiet = 0
    PROVE  /\ Measures(outputStarted(t), k)
           /\ outputStarted(t).left = Limit /\ outputStarted(t).started = TRUE
<1>1. /\ outputStarted(t) \in [left : 0..Limit, started : BOOLEAN] /\ outputStarted(t).started = TRUE
      /\ outputStarted(t).left = Limit
  BY DEF outputStarted
<1>2. k.away \in 0..Limit
  OBVIOUS
<1>. QED  BY <1>1, <1>2 DEF Measures

\* A connection that is closed has nothing left, and the limit is off.
LEMMA CloseFits ==
    ASSUME Inv, CloseConn, UNCHANGED ctx
    PROVE  WireFits' /\ ClockFits'
<1>1. wire' = [wire EXCEPT !.queue = <<>>] /\ buf' = <<>>
  BY DEF CloseConn
<1>2. wire'.queue = <<>> /\ wire'.sent = wire.sent /\ wire'.over = wire.over /\ wire'.told = wire.told
      /\ wire'.script = wire.script
  BY <1>1 DEF Inv, WireFits
<1>3. wire' = [queue |-> wire'.queue, sent |-> wire'.sent, script |-> wire'.script,
               over |-> wire'.over, told |-> wire'.told]
  BY <1>1, <1>2 DEF Inv, WireFits
<1>4. WireFits'
  BY <1>1, <1>2, <1>3, NothingIsAList DEF Inv, WireFits
<1>5. timer' = newStreamTimer /\ clock' = Clock
  BY DEF CloseConn
<1>6. ClockFits'
  BY <1>1, <1>5, AnewMeasures DEF Inv, ClockFits
<1>. QED  BY <1>4, <1>6

\* However a call ends, its connection is closed.
LEMMA EndsAsFits ==
    ASSUME Inv, NEW how \in {"answer", "eof", "error", "context"}, NEW status, NEW timeout,
           EndsAs(how, status, timeout), how = "error" => status \in 400..599, IsSeen(seen')
    PROVE  Inv'
<1>1. WireFits' /\ ClockFits'
  BY CloseFits DEF EndsAs
<1>2. end'.how = how /\ end'.status = status /\ stage' = "over" /\ hold' = FALSE
  BY DEF EndsAs
<1>3. EndFits'
  BY <1>2 DEF EndFits
<1>4. CallFits'
  BY <1>2, <1>3, Zenon DEF Inv, CallFits, EndsAs
<1>. QED  BY <1>1, <1>4 DEF Inv

\* An error ends the call with a status of its own.
LEMMA ErrorFits ==
    ASSUME Inv, NEW e, e.status \in 400..599, EndsInError(e)
    PROVE  Inv'
<1>1. IsSeen(seen')
  BY TakeFits DEF Inv, CallFits, EndsInError
<1>2. EndsAs("error", e.status, e.timeout)
  BY DEF EndsInError
<1>. QED  BY <1>1, <1>2, EndsAsFits

LEMMA FailureFits ==
    ASSUME Inv, EndsInFailure
    PROVE  Inv'
<1>1. CASE ctx.callerGone
  BY <1>1, EndsAsFits, Zenon DEF EndsInFailure, Inv, CallFits
<1>2. CASE ~ctx.callerGone
  <2>1. Timeout.status = 504 /\ StreamError(502, <<>>).status = 502
    BY DEF Timeout, StreamError
  <2>2. EndsInError(IF ctx.timedOut THEN Timeout ELSE StreamError(502, <<>>))
    BY <1>2 DEF EndsInFailure
  <2>. QED  BY <2>1, <2>2, ErrorFits
<1>. QED  BY <1>1, <1>2

LEMMA ErrorStatusFits ==
    ASSUME NEW ev
    PROVE  streamErrorFromObject(ev).status \in 400..599
<1>1. errorStatus(ev.code) \in 400..599
  BY DEF errorStatus, errorCodeStatus
<1>. QED  BY <1>1 DEF streamErrorFromObject, StreamError

-----------------------------------------------------------------------------
(* Every step keeps them *)

LEMMA BeginFits ==
    ASSUME Inv, Begin
    PROVE  Inv'
<1>1. CASE Opens
  <2>1. PICK script : wire' = [Idle EXCEPT !.script = script] \/ wire' = Idle
    BY <1>1 DEF Opens
  <2>2. buf = <<>> /\ buf' = buf
    BY <1>1 DEF Opens, Inv, WireFits
  <2>3. /\ wire' = [queue |-> wire'.queue, sent |-> wire'.sent, script |-> wire'.script,
                    over |-> wire'.over, told |-> wire'.told]
        /\ wire'.queue = <<>> /\ wire'.sent = 0 /\ wire'.over = "no" /\ wire'.told = FALSE
    BY <2>1 DEF Idle
  <2>4. WireFits'
    <3>1. stage' = "reading" /\ 0 \in 0..MaxEvents /\ IsList(<<>>) /\ Len(<<>>) = 0
      BY <1>1, NothingIsAList DEF Opens
    <3>2. IsList(wire'.queue) /\ Len(wire'.queue) = 0
      BY <2>3, <3>1
    <3>3. IsList(buf') /\ Len(buf') = 0
      BY <2>2, <3>1
    <3>4. Len(wire'.queue) + Len(buf') <= wire'.sent
      BY <2>3, <3>2, <3>3
    <3>. QED  BY <2>3, <3>1, <3>2, <3>3, <3>4, Zenon DEF WireFits
  <2>5. ClockFits'
    BY <1>1 DEF Opens, Inv, ClockFits
  <2>6. CallFits'
    BY <1>1 DEF Opens, Inv, CallFits, EndFits
  <2>. QED  BY <2>4, <2>5, <2>6 DEF Inv
<1>2. CASE AnswersWhole
  BY <1>2 DEF AnswersWhole, Inv, WireFits, ClockFits, CallFits, EndFits
<1>3. CASE ConnectFails \/ ReplyFails
  BY <1>3, FailureFits DEF ConnectFails, ReplyFails
<1>4. CASE ReplyIsJudged
  BY <1>4, EndsAsFits, Zenon DEF ReplyIsJudged, Inv, CallFits
<1>5. CASE FallsBackToChat
  <2>1. WireFits'
    BY <1>5 DEF FallsBackToChat, Inv, WireFits
  <2>2. ClockFits'
    <3>1. timer' = newStreamTimer /\ clock' = Clock /\ buf' = buf
      BY <1>5 DEF FallsBackToChat
    <3>2. ctx' = [timedOut |-> FALSE, callerGone |-> ctx.callerGone] /\ ctx.callerGone \in BOOLEAN
      BY <1>5, Zenon DEF FallsBackToChat, Inv, ClockFits
    <3>. QED  BY <3>1, <3>2, AnewMeasures DEF ClockFits
  <2>3. CallFits'
    BY <1>5 DEF FallsBackToChat, Inv, CallFits, EndFits
  <2>. QED  BY <2>1, <2>2, <2>3 DEF Inv
<1>6. ASSUME NEW s, SendsFixed(s)
      PROVE  Inv'
  <2>1. WireFits' /\ ClockFits'
    BY <1>6, CloseFits DEF SendsFixed
  <2>2. CallFits'
    BY <1>6 DEF SendsFixed, Inv, CallFits, EndFits
  <2>. QED  BY <2>1, <2>2 DEF Inv
<1>7. CASE SendsWholeReply \/ SendsRefusal
  BY <1>6, <1>7 DEF SendsWholeReply, SendsRefusal
<1>. QED  BY <1>1, <1>2, <1>3, <1>4, <1>5, <1>7 DEF Begin

LEMMA ProviderFits ==
    ASSUME Inv, Provider
    PROVE  Inv'
<1>1. CASE ProviderWrites
  <2>1. PICK ev, told : wire' = [wire EXCEPT !.queue = Append(@, ev), !.sent = @ + 1, !.told = @ \/ told]
    BY <1>1, Zenon DEF ProviderWrites
  <2>2. /\ wire' = [queue |-> Append(wire.queue, ev), sent |-> wire.sent + 1, script |-> wire.script,
                    over |-> wire.over, told |-> (wire.told \/ told)]
    BY <2>1, Zenon DEF Inv, WireFits
  <2>3. IsList(wire'.queue) /\ Len(wire'.queue) = Len(wire.queue) + 1 /\ Len(wire.queue) \in Nat
    BY <2>2, ListGrows DEF Inv, WireFits
  <2>4. Len(buf) \in Nat /\ buf' = buf /\ wire.sent < MaxEvents
    BY <1>1, ListHas DEF Inv, WireFits, ProviderWrites
  <2>5. /\ wire'.sent = wire.sent + 1 /\ wire'.over = wire.over /\ wire'.told \in BOOLEAN
        /\ wire' = [queue |-> wire'.queue, sent |-> wire'.sent, script |-> wire'.script,
                    over |-> wire'.over, told |-> wire'.told]
    BY <2>2
  <2>6. /\ wire.sent \in 0..MaxEvents /\ wire.over \in {"no", "eof", "drop"} /\ IsList(buf)
        /\ Len(wire.queue) + Len(buf) <= wire.sent /\ stage = "reading" /\ stage' = stage
    BY <1>1 DEF Inv, WireFits, ProviderWrites, Streams
  <2>9. WireFits'
    BY <2>3, <2>4, <2>5, <2>6 DEF WireFits
  <2>7. ClockFits'
    <3>1. clock' = [age |-> clock.age, quiet |-> clock.quiet, away |-> clock.away, silent |-> 0]
      BY <1>1, Zenon DEF Inv, ClockFits, Measures, ProviderWrites
    <3>2. clock' \in [age : 0..Limit, quiet : 0..Limit, away : 0..Limit, silent : 0..Limit]
          /\ clock'.age = clock.age /\ clock'.quiet = clock.quiet /\ clock'.away = clock.away
      BY <3>1 DEF Inv, ClockFits, Measures
    <3>3. Measures(timer, clock')
      BY <3>2 DEF Inv, ClockFits, Measures
    <3>. QED  BY <1>1, <3>2, <3>3 DEF Inv, ClockFits, ProviderWrites
  <2>8. CallFits'
    BY <1>1 DEF Inv, CallFits, EndFits, ProviderWrites
  <2>. QED  BY <2>7, <2>8, <2>9 DEF Inv
<1>2. CASE ProviderEnds
  <2>1. PICK how \in {"eof", "drop"} : wire' = [wire EXCEPT !.over = how]
    BY <1>2 DEF ProviderEnds
  <2>2. wire' = [queue |-> wire.queue, sent |-> wire.sent, script |-> wire.script,
                 over |-> how, told |-> wire.told]
    BY <2>1 DEF Inv, WireFits
  <2>3. WireFits'
    BY <1>2, <2>2 DEF Inv, WireFits, ProviderEnds
  <2>4. ClockFits' /\ CallFits'
    BY <1>2 DEF Inv, ClockFits, CallFits, EndFits, ProviderEnds
  <2>. QED  BY <2>3, <2>4 DEF Inv
<1>. QED  BY <1>1, <1>2 DEF Provider

\* The events are handled one by one; output restarts the limit.
LEMMA AdvanceFits ==
    ASSUME Inv, stage = "reading", buf # <<>>, NEW s, NEW t \in {timer, outputStarted(timer)}, Advance(s, t)
    PROVE  Inv'
<1>1. CallFits'
  BY DEF Advance, Inv, CallFits, EndFits
<1>2. CASE s.done
  BY <1>1, <1>2, CloseFits DEF Advance, Inv
<1>3. CASE ~s.done
  <2>1. wire' = wire /\ buf' = Tail(buf) /\ timer' = t /\ stage' = stage /\ ctx' = ctx
        /\ clock' = IF t.started = timer.started THEN clock ELSE Clock
    BY <1>3 DEF Advance
  <2>2. IsList(Tail(buf)) /\ Len(Tail(buf)) = Len(buf) - 1 /\ Len(buf) \in Nat \ {0} /\ Len(wire.queue) \in Nat
    BY ListShrinks, ListHas DEF Inv, WireFits
  <2>3. WireFits'
    BY <2>1, <2>2 DEF Inv, WireFits
  <2>4. clock.quiet = 0
    BY DEF Inv, ClockFits
  <2>5. Measures(t, clock') /\ clock'.quiet = 0 /\ (t.left > 0 \/ t = timer)
    <3>1. CASE t = timer
      BY <2>1, <2>4, <3>1 DEF Inv, ClockFits
    <3>2. CASE t = outputStarted(timer)
      <4>1. Measures(timer, clock) /\ timer.started \in BOOLEAN
        BY DEF Inv, ClockFits, Measures
      <4>2. t.started = TRUE /\ t.left = Limit /\ Limit > 0
        BY <3>2 DEF outputStarted
      <4>3. CASE timer.started
        <5>1. clock' = clock
          BY <2>1, <4>1, <4>2, <4>3, Zenon
        <5>2. clock \in [age : 0..Limit, quiet : 0..Limit, away : 0..Limit, silent : 0..Limit]
          BY <4>1 DEF Measures
        <5>3. Measures(t, clock)
          BY <2>4, <3>2, <5>2, RestartMeasures, Zenon
        <5>. QED  BY <2>4, <4>2, <5>1, <5>3
      <4>4. CASE ~timer.started
        <5>1. clock' = Clock
          BY <2>1, <4>1, <4>2, <4>4
        <5>2. Clock \in [age : 0..Limit, quiet : 0..Limit, away : 0..Limit, silent : 0..Limit] /\ Clock.quiet = 0
          BY DEF Clock
        <5>3. Measures(t, Clock)
          BY <3>2, <5>2, RestartMeasures, Zenon
        <5>. QED  BY <4>2, <5>1, <5>2, <5>3
      <4>. QED  BY <4>1, <4>3, <4>4
    <3>. QED  BY <3>1, <3>2
  <2>6. ClockFits'
    BY <2>1, <2>5 DEF Inv, ClockFits
  <2>. QED  BY <1>1, <2>3, <2>5, <2>6 DEF Inv
<1>. QED  BY <1>2, <1>3

LEMMA ReaderFits ==
    ASSUME Inv, Reader
    PROVE  Inv'
<1>1. CASE Read
  <2>1. wire' = [queue |-> <<>>, sent |-> wire.sent, script |-> wire.script, over |-> wire.over, told |-> wire.told]
    BY <1>1 DEF Read, Inv, WireFits
  <2>2. buf = <<>> /\ buf' = wire.queue /\ stage' = "reading"
    BY <1>1 DEF Read, Waiting
  <2>3. WireFits'
    BY <1>1, <2>1, <2>2, NothingIsAList DEF Inv, WireFits
  <2>4. ClockFits'
    <3>1. Measures(timer, clock)
      BY DEF Inv, ClockFits
    <3>2. clock' = [age |-> clock.age, quiet |-> 0, away |-> 0, silent |-> clock.silent]
      <4>1. clock' = [clock EXCEPT !.quiet = 0, !.away = 0]
        BY <1>1 DEF Read
      <4>2. clock = [age |-> clock.age, quiet |-> clock.quiet, away |-> clock.away, silent |-> clock.silent]
        BY <3>1, Measured
      <4>. QED  BY <4>1, <4>2, Zenon
    <3>3. timer' = IF timer.started THEN [left |-> Limit, started |-> TRUE] ELSE timer
      <4>1. timer' = IF timer.started THEN [timer EXCEPT !.left = Limit] ELSE timer
        BY <1>1 DEF Read
      <4>2. timer = [left |-> timer.left, started |-> timer.started] /\ timer.started \in BOOLEAN
        BY <3>1, Measured
      <4>3. [timer EXCEPT !.left = Limit] = [left |-> Limit, started |-> timer.started]
        BY <4>2
      <4>4. timer.started => timer.started = TRUE
        BY <4>2, Zenon
      <4>. QED  BY <4>1, <4>3, <4>4, Zenon
    <3>4. /\ clock' \in [age : 0..Limit, quiet : 0..Limit, away : 0..Limit, silent : 0..Limit]
          /\ clock'.age = clock.age /\ clock'.quiet = 0 /\ clock'.away = 0
      <4>1. clock.age \in 0..Limit /\ clock.silent \in 0..Limit
        BY <3>1, Measured
      <4>. QED  BY <3>2, <4>1
    <3>5. Measures(timer', clock') /\ (timer'.left = timer.left \/ timer'.left > 0)
      <4>1. CASE timer.started
        <5>1. timer' = [left |-> Limit, started |-> TRUE]
          BY <3>3, <4>1
        <5>2. clock'.quiet <= Limit - timer'.left /\ Limit - timer'.left <= clock'.quiet + clock'.away
          BY <3>4, <5>1
        <5>. QED  BY <3>4, <5>1, <5>2 DEF Measures
      <4>2. CASE ~timer.started
        BY <3>1, <3>3, <3>4, <4>2 DEF Measures
      <4>. QED  BY <4>1, <4>2
    <3>. QED  BY <1>1, <3>4, <3>5 DEF Inv, ClockFits, Read
  <2>5. CallFits'
    BY <1>1 DEF Read, Inv, CallFits, EndFits
  <2>. QED  BY <2>3, <2>4, <2>5 DEF Inv
<1>2. CASE ReadFails
  BY <1>2, FailureFits DEF ReadFails
<1>3. CASE BodyEnds
  <2>1. PICK r : /\ r \in {OpenAIBodyEnds(src), GeminiBodyEnds(src), PassBodyEnds(src)}
                 /\ IF r.err = NoError
                    THEN CloseConn /\ UNCHANGED <<call, route, stage, ctx, end, seen, committed, hold, holds>>
                    ELSE EndsInError(r.err)
    BY <1>3, Zenon DEF BodyEnds
  <2>2. CASE r.err = NoError
    <3>1. CallFits'
      BY <2>1, <2>2 DEF Inv, CallFits, EndFits
    <3>. QED  BY <2>1, <2>2, <3>1, CloseFits DEF Inv
  <2>3. CASE r.err # NoError
    <3>1. r.err = StreamError(502, <<>>)
      BY <2>1, <2>3 DEF OpenAIBodyEnds, GeminiBodyEnds, PassBodyEnds
    <3>2. r.err.status = 502
      BY <3>1 DEF StreamError
    <3>. QED  BY <2>1, <2>3, <3>2, ErrorFits
  <2>. QED  BY <2>2, <2>3
<1>4. ASSUME NEW dialect, Handles(dialect)
      PROVE  stage = "reading" /\ buf # <<>>
  BY <1>4 DEF Handles
<1>5. CASE OpenAINext
  <2>1. \/ \E s : \E t \in {timer, outputStarted(timer)} : Advance(s, t)
        \/ EndsInError(streamErrorFromObject(Head(buf)))
    BY <1>5, Zenon DEF OpenAINext
  <2>. QED  BY <1>4, <1>5, <2>1, AdvanceFits, ErrorFits, ErrorStatusFits DEF OpenAINext
<1>6. CASE GeminiNext
  <2>1. \/ \E s : \E t \in {timer, outputStarted(timer)} : Advance(s, t)
        \/ EndsInError(streamErrorFromObject(Head(buf)))
    BY <1>6, Zenon DEF GeminiNext
  <2>. QED  BY <1>4, <1>6, <2>1, AdvanceFits, ErrorFits, ErrorStatusFits DEF GeminiNext
<1>7. CASE PassNext
  <2>1. \/ \E s : \E t \in {timer, outputStarted(timer)} : Advance(s, t)
        \/ EndsInError(streamErrorFromObject(Head(buf)))
    BY <1>7, Zenon DEF PassNext
  <2>. QED  BY <1>4, <1>7, <2>1, AdvanceFits, ErrorFits, ErrorStatusFits DEF PassNext
<1>8. CASE HandOver
  <2>1. IsSeen(seen')
    BY <1>8, TakeFits DEF HandOver, Inv, CallFits
  <2>2. CallFits'
    BY <1>8, <2>1 DEF HandOver, Inv, CallFits, EndFits
  <2>3. WireFits' /\ ClockFits'
    BY <1>8 DEF HandOver, Inv, WireFits, ClockFits
  <2>. QED  BY <2>2, <2>3 DEF Inv
<1>9. CASE Completes
  BY <1>9, EndsAsFits, Zenon DEF Completes, Inv, CallFits
<1>. QED  BY <1>1, <1>2, <1>3, <1>5, <1>6, <1>7, <1>8, <1>9 DEF Reader

\* What a tick does to the limit and to the time it has lost.
LEMMA Loses ==
    ASSUME NEW left \in 1..Limit, NEW quiet \in 0..Limit, NEW away \in 0..Limit,
           quiet <= Limit - left, Limit - left <= quiet + away
    PROVE  /\ quiet <= Limit - (left - 1) /\ Limit - (left - 1) <= quiet + Up(away)
           /\ Up(quiet) <= Limit - (left - 1) /\ Limit - (left - 1) <= Up(quiet) + away
<1>1. Limit \in Nat
  OBVIOUS
<1>2. Up(quiet) = quiet + 1
  BY <1>1 DEF Up
<1>3. Up(away) = away + 1 \/ (away = Limit /\ Up(away) = away)
  BY <1>1 DEF Up
<1>. QED  BY <1>1, <1>2, <1>3

LEMMA UpFits == \A n \in 0..Limit : Up(n) \in 0..Limit
  BY DEF Up

\* Time passes while the reader waits: what it read is handled by then.
LEMMA TickFits ==
    ASSUME Inv, Tick
    PROVE  ClockFits'
<1>1. /\ timer' = [left |-> timer.left - 1, started |-> timer.started]
      /\ timer.left \in 1..Limit /\ timer.started \in BOOLEAN /\ Limit \in Nat
      /\ ctx' = [timedOut |-> timer'.left = 0, callerGone |-> ctx.callerGone] /\ buf' = buf
  BY DEF Tick, Cancelled, Elapse, Inv, ClockFits, Measures
<1>2. /\ clock.age \in 0..Limit /\ clock.quiet \in 0..Limit /\ clock.away \in 0..Limit /\ clock.silent \in 0..Limit
      /\ clock = [age |-> clock.age, quiet |-> clock.quiet, away |-> clock.away, silent |-> clock.silent]
  BY Measured DEF Inv, ClockFits
<1>3. Measures(timer', clock') /\ (buf # <<>> => clock'.quiet = 0) => ClockFits'
  <2>1. timer'.left \in 0..Limit /\ ctx.callerGone \in BOOLEAN
    BY <1>1 DEF Inv, ClockFits
  <2>2. ctx' \in [timedOut : BOOLEAN, callerGone : BOOLEAN]
    BY <1>1, <2>1
  <2>3. timer'.left = 0 \/ timer'.left > 0
    BY <2>1
  <2>4. ctx'.timedOut = (timer'.left = 0)
    BY <1>1
  <2>5. ~ctx'.timedOut => timer'.left > 0
    BY <2>3, <2>4, Zenon
  <2>. QED  BY <1>1, <2>2, <2>5 DEF ClockFits
<1>4. CASE timer.started
  <2>1. /\ clock.quiet <= Limit - timer.left /\ Limit - timer.left <= clock.quiet + clock.away
        /\ buf # <<>> => clock.quiet = 0
    BY <1>4 DEF Inv, ClockFits, Measures
  <2>2. /\ clock.quiet <= Limit - (timer.left - 1) /\ Limit - (timer.left - 1) <= clock.quiet + Up(clock.away)
        /\ Up(clock.quiet) <= Limit - (timer.left - 1) /\ Limit - (timer.left - 1) <= Up(clock.quiet) + clock.away
    BY <1>1, <1>2, <2>1, Loses, Zenon
  <2>3. clock' = [clock EXCEPT !.silent = Up(@), !.quiet = IF hold THEN @ ELSE Up(@),
                               !.away   = IF hold THEN Up(@) ELSE @]
    BY <1>4 DEF Tick
  <2>4. CASE hold
    <3>1. clock' = [age |-> clock.age, quiet |-> clock.quiet, away |-> Up(clock.away), silent |-> Up(clock.silent)]
      BY <1>2, <2>3, <2>4, Zenon
    <3>2. Up(clock.away) \in 0..Limit /\ Up(clock.silent) \in 0..Limit
      BY <1>2, UpFits
    <3>3. Measures(timer', clock')
      BY <1>1, <1>2, <1>4, <2>2, <3>1, <3>2 DEF Measures
    <3>. QED  BY <1>3, <2>1, <3>1, <3>3
  <2>5. CASE ~hold
    <3>1. clock' = [age |-> clock.age, quiet |-> Up(clock.quiet), away |-> clock.away, silent |-> Up(clock.silent)]
      BY <1>2, <2>3, <2>5, Zenon
    <3>2. Up(clock.quiet) \in 0..Limit /\ Up(clock.silent) \in 0..Limit
      BY <1>2, UpFits
    <3>3. Measures(timer', clock')
      BY <1>1, <1>2, <1>4, <2>2, <3>1, <3>2 DEF Measures
    <3>4. buf = <<>>
      BY <2>5 DEF Tick, Blocked, Waiting, Inv, WireFits
    <3>. QED  BY <1>3, <3>3, <3>4
  <2>. QED  BY <2>4, <2>5
<1>5. CASE ~timer.started
  <2>1. clock' = [age |-> Up(clock.age), quiet |-> clock.quiet, away |-> clock.away, silent |-> clock.silent]
    BY <1>2, <1>5 DEF Tick
  <2>2. clock.age = Limit - timer.left /\ clock.quiet = 0
    BY <1>5 DEF Inv, ClockFits, Measures
  <2>3. Up(clock.age) = clock.age + 1 /\ Up(clock.age) \in 0..Limit
    BY <1>1, <1>2, <2>2 DEF Up
  <2>4. /\ clock' \in [age : 0..Limit, quiet : 0..Limit, away : 0..Limit, silent : 0..Limit]
        /\ clock'.age = clock.age + 1 /\ clock'.quiet = 0
    BY <1>2, <2>1, <2>2, <2>3
  <2>5. Limit - (timer.left - 1) = clock.age + 1
    BY <1>1, <1>2, <2>2
  <2>6. Measures(timer', clock')
    BY <1>1, <1>5, <2>4, <2>5 DEF Measures
  <2>. QED  BY <1>3, <2>4, <2>6
<1>. QED  BY <1>1, <1>4, <1>5

LEMMA OthersFit ==
    ASSUME Inv, Others
    PROVE  Inv'
<1>1. CASE ClientHolds
  BY <1>1 DEF ClientHolds, Inv, WireFits, ClockFits, CallFits, EndFits
<1>2. CASE ClientTakes
  <2>1. WireFits' /\ ClockFits'
    BY <1>2 DEF ClientTakes, Inv, WireFits, ClockFits
  <2>2. hold' \in BOOLEAN
    BY <1>2, Zenon DEF ClientTakes
  <2>3. CallFits'
    BY <1>2, <2>2 DEF ClientTakes, Inv, CallFits, EndFits
  <2>. QED  BY <2>1, <2>3 DEF Inv
<1>3. CASE CallerLeaves
  <2>1. ctx' = [timedOut |-> ctx.timedOut, callerGone |-> TRUE]
    BY <1>3, Zenon DEF CallerLeaves, Inv, ClockFits
  <2>2. ClockFits'
    BY <1>3, <2>1, Zenon DEF CallerLeaves, Inv, ClockFits
  <2>. QED  BY <1>3, <2>2 DEF CallerLeaves, Inv, WireFits, CallFits, EndFits
<1>4. CASE WriteFails
  BY <1>4, EndsAsFits, Zenon DEF WriteFails, Inv, CallFits
<1>5. CASE Tick
  <2>1. ClockFits'
    BY <1>5, TickFits
  <2>. QED  BY <1>5, <2>1 DEF Tick, Inv, WireFits, CallFits, EndFits
<1>. QED  BY <1>1, <1>2, <1>3, <1>4, <1>5 DEF Others

LEMMA InitFits == Init => Inv
<1>. SUFFICES ASSUME Init PROVE Inv
  OBVIOUS
<1>1. WireFits
  BY NothingIsAList DEF Init, WireFits, Idle
<1>2. ClockFits
  BY AnewMeasures DEF Init, ClockFits
<1>3. IsSeen(seen)
  BY DEF Init, NothingSeen, IsSeen, Phases
<1>4. EndFits
  BY DEF Init, EndFits, NotOver
<1>5. CallFits
  <2>1. route \in {"native", "chat"}
    BY DEF Init
  <2>2. call \in Calls /\ stage = "connecting" /\ hold = FALSE /\ holds = 0
    BY DEF Init
  <2>3. hold \in BOOLEAN
    BY <2>2, Zenon
  <2>4. holds \in 0..MaxHolds
    BY <2>2
  <2>. QED  BY <1>3, <1>4, <2>1, <2>2, <2>3, <2>4 DEF CallFits
<1>. QED  BY <1>1, <1>2, <1>5 DEF Inv

LEMMA StepFits == Inv /\ [Next]_vars => Inv'
<1>. SUFFICES ASSUME Inv, [Next]_vars PROVE Inv'
  OBVIOUS
<1>1. CASE UNCHANGED vars
  BY <1>1 DEF vars, Inv, WireFits, ClockFits, CallFits, EndFits
<1>. QED  BY <1>1, BeginFits, ProviderFits, ReaderFits, OthersFit DEF Next

\* Every call keeps its types: the events that are on their way never outnumber
\* those the provider sent, a failure has the status of a failure, and the
\* clocks stay within the limit.
THEOREM StreamIsTyped == Spec => []StreamTypeOK
<1>. QED  BY InitFits, StepFits, InvIsTyped, PTL DEF Spec

-----------------------------------------------------------------------------
(* The limit *)

\* Only time makes the limit fire.
LEMMA OnlyTickFires ==
    ASSUME Inv, [Next]_vars, Fires
    PROVE  Tick
<1>1. CASE UNCHANGED vars
  BY <1>1 DEF vars, Fires
<1>2. CASE Begin
  BY <1>2 DEF Begin, Opens, AnswersWhole, ConnectFails, ReplyFails, ReplyIsJudged, FallsBackToChat, SendsWholeReply,
              SendsRefusal, SendsFixed, EndsInFailure, EndsInError, EndsAs, Fires, Inv, ClockFits
<1>3. CASE Provider
  BY <1>3 DEF Provider, ProviderWrites, ProviderEnds, Fires
<1>4. CASE Reader
  BY <1>4 DEF Reader, Read, ReadFails, BodyEnds, OpenAINext, GeminiNext, PassNext, Advance, HandOver, Completes,
              EndsInFailure, EndsInError, EndsAs, Fires
<1>5. CASE ClientHolds \/ ClientTakes \/ CallerLeaves \/ WriteFails
  BY <1>5 DEF ClientHolds, ClientTakes, CallerLeaves, WriteFails, EndsAs, Fires, Inv, ClockFits
<1>. QED  BY <1>1, <1>2, <1>3, <1>4, <1>5 DEF Next, Others

\* The limit runs out no sooner and no later than it may: before output it is on
\* the call's age, after it on the time since the last read (streamTimer).
THEOREM TimerIsKept == Spec => TimerKeepsItsPromise
<1>1. ASSUME Inv, [Next]_vars
      PROVE  /\ Fires => IF timer.started THEN clock'.quiet + clock'.away >= Limit ELSE clock'.age >= Limit
             /\ ~Cancelled' /\ stage' # "over" /\ src'.dialect # "fixed" /\ ~src'.done =>
                   IF timer'.started THEN clock'.quiet < Limit ELSE clock'.age < Limit
  <2>1. Measures(timer', clock') /\ (~ctx'.timedOut => timer'.left > 0)
    BY <1>1, StepFits DEF Inv, ClockFits
  <2>2. /\ timer'.left \in 0..Limit /\ timer'.started \in BOOLEAN /\ Limit \in Nat
        /\ clock'.age \in 0..Limit /\ clock'.quiet \in 0..Limit /\ clock'.away \in 0..Limit
    BY <2>1, Measured
  <2>3. /\ ~timer'.started => clock'.age = Limit - timer'.left
        /\ timer'.started => clock'.quiet <= Limit - timer'.left /\ Limit - timer'.left <= clock'.quiet + clock'.away
    BY <2>1 DEF Measures
  <2>4. ASSUME Fires
        PROVE  IF timer.started THEN clock'.quiet + clock'.away >= Limit ELSE clock'.age >= Limit
    <3>1. Tick /\ ctx'.timedOut
      BY <1>1, <2>4, OnlyTickFires DEF Fires
    <3>2. timer' = [timer EXCEPT !.left = @ - 1] /\ ctx' = [ctx EXCEPT !.timedOut = timer'.left = 0]
      BY <3>1 DEF Tick, Elapse
    <3>3. DOMAIN timer = {"left", "started"} /\ DOMAIN ctx = {"timedOut", "callerGone"}
      BY <1>1 DEF Inv, ClockFits, Measures
    <3>4. (timer'.started <=> timer.started) /\ timer'.left = 0
      BY <3>1, <3>2, <3>3, Zenon
    <3>. QED  BY <2>2, <2>3, <3>4
  <2>5. ASSUME ~Cancelled'
        PROVE  IF timer'.started THEN clock'.quiet < Limit ELSE clock'.age < Limit
    <3>1. timer'.left > 0
      BY <2>1, <2>5 DEF Cancelled
    <3>. QED  BY <2>2, <2>3, <3>1
  <2>. QED  BY <2>4, <2>5
<1>2. Inv /\ [Next]_vars =>
         [/\ Fires => IF timer.started THEN clock'.quiet + clock'.away >= Limit ELSE clock'.age >= Limit
          /\ ~Cancelled' /\ stage' # "over" /\ src'.dialect # "fixed" /\ ~src'.done =>
                IF timer'.started THEN clock'.quiet < Limit ELSE clock'.age < Limit]_vars
  BY <1>1
<1>. QED  BY <1>2, InitFits, StepFits, PTL DEF Spec, TimerKeepsItsPromise

-----------------------------------------------------------------------------
(* The events of a Responses call *)

\* What is written and not handled is what a provider may say.
Sayable(ev) ==
    /\ ev.type = "chunk" => /\ IsChunk(ev.chunk)
                            /\ DOMAIN ev.chunk = {"n", "choice", "says", "calls", "finish", "usage"}
                            /\ call.op = "responses" => ev.chunk.choice \in {0, None}
    /\ ev.type = "gemini" => IsList(ev.parts)
Sayables(b, w) == (\A k \in 1..Len(b) : Sayable(b[k])) /\ \A k \in 1..Len(w.queue) : Sayable(w.queue[k])

\* A provider's own events: n are handled, the others are read or under way, and
\* the client, once it has taken the queue, has what they make of it.
Follows(b, w, n) ==
    /\ w.script \in Scripts /\ n \in Nat /\ n + Len(b) + Len(w.queue) = w.sent /\ w.sent <= Len(w.script)
    /\ \A i \in 1..Len(b) : b[i] = w.script[n + i]
    /\ \A i \in 1..Len(w.queue) : w.queue[i] = w.script[n + Len(b) + i]
Passing(s, r, b, w) ==
    /\ IsList(r.queue)
    /\ \E t : /\ Leads(s, r.queue, t) /\ t.phase \in {"new", "open"} /\ t.next = r.lastSeq + 1
              /\ \E n : Follows(b, w, n) /\ At(w.script, n, t)

\* What the frames that are queued, or still to come, make of the client.
Streaming(s, r, b, w) ==
    /\ r.done => Completing(s, r)
    /\ ~r.done /\ r.dialect = "pass" => Passing(s, r, b, w)
    /\ ~r.done /\ r.dialect # "pass" => Pending(s, r)

\* A Chat client gets chunks, and [DONE] last.
Chatting(s, r) == IsList(r.queue) /\ s.phase # "complete" /\ \A k \in 1..Len(r.queue) : r.queue[k].type = "chunk"
ChatEnding(s, r) ==
    IsList(r.queue) /\ IF r.queue = <<>> THEN s.phase = "complete" ELSE r.queue[Len(r.queue)] = DoneFrame
Talking(s, r) == (r.done => ChatEnding(s, r)) /\ (~r.done => Chatting(s, r))

SourceIs(r) ==
    /\ DOMAIN r = SourceFields /\ r.dialect \in {"openai", "gemini", "pass", "fixed"}
    /\ r.dialect = "fixed" => r.done
    /\ r.dialect = "pass" => call.op = "responses" /\ ~ViaChat
    /\ r.dialect \in {"openai", "gemini"} => call.op = "chat" \/ ViaChat

StreamFits(s, r, b, w) ==
    /\ SourceIs(r)
    /\ r.dialect \in {"openai", "gemini"} => Sayables(b, w)
    /\ call.op = "responses" => Streaming(s, r, b, w)
    /\ call.op = "chat" => Talking(s, r)

EventsFit ==
    /\ stage \in {"connecting", "reply"} => seen = NothingSeen /\ ~committed
    /\ stage = "reading" => StreamFits(seen, src, buf, wire)

LEMMA CallIs ==
    ASSUME Inv
    PROVE  /\ call.kind \in {"openai", "gemini"} /\ call.op \in {"chat", "responses"}
           /\ route \in {"native", "chat"}
           /\ call.op = "responses" => (ViaChat <=> ~(call.kind = "openai" /\ route = "native"))
  BY CallsAssumption DEF Inv, CallFits, ViaChat

\* Where the source stands when a call goes on reading.
LEMMA ReadsOn ==
    ASSUME stage' = "reading", call' = call, route' = route, StreamFits(seen', src', buf', wire')
    PROVE  EventsFit'
  BY DEF EventsFit, StreamFits, SourceIs, ViaChat, Sayables, Sayable

LEMMA SourceOf ==
    ASSUME NEW dialect, NEW queue, NEW em, NEW r, r = Source(dialect, queue, em)
    PROVE  /\ DOMAIN r = SourceFields /\ r.dialect = dialect /\ r.queue = queue
           /\ ~r.done /\ r.lastSeq = -1 /\ ~r.finished
  BY DEF Source, SourceFields

LEMMA SourceEmits ==
    ASSUME NEW dialect, NEW queue, NEW em, IsEmitter(em), NEW r, r = Source(dialect, queue, em)
    PROVE  r.em = [em EXCEPT !.out = <<>>] /\ r.em.out = <<>>
  BY DEF Source, SourceFields, IsEmitter

LEMMA OpensFits ==
    ASSUME Inv, EventsFit, Opens
    PROVE  EventsFit'
<1>1. /\ stage' = "reading" /\ call' = call /\ route' = route /\ seen' = seen /\ buf' = buf /\ src' = OpenSource
      /\ seen = NothingSeen /\ buf = <<>>
  BY DEF Opens, EventsFit, Inv, WireFits
<1>2. wire' \in IF call.kind = "openai" /\ call.op = "responses" /\ route = "native"
                THEN {[Idle EXCEPT !.script = s] : s \in Scripts} ELSE {Idle}
  BY DEF Opens
<1>3. wire'.queue = <<>> /\ wire'.sent = 0
  BY <1>2 DEF Idle
<1>4. Sayables(buf, wire')
  <2>1. 1..Len(buf) = {} /\ 1..Len(wire'.queue) = {}
    BY <1>1, <1>3, NothingIsAList
  <2>. QED  BY <2>1 DEF Sayables
<1>5. CASE call.kind = "openai" /\ call.op = "responses" /\ route = "native"
  <2>1. src' = Source("pass", <<>>, newResponsesEmitter)
    BY <1>1, <1>5, Zenon DEF OpenSource
  <2>2. /\ DOMAIN src' = SourceFields /\ src'.dialect = "pass" /\ src'.queue = <<>> /\ ~src'.done
        /\ src'.lastSeq = -1
    BY <2>1, SourceOf
  <2>3. SourceIs(src')
    BY <1>5, <2>2, CallIs DEF SourceIs
  <2>4. IsClient(NothingSeen) /\ NothingSeen.next = 0 /\ NothingSeen.phase = "new"
    BY StartIsReady DEF NothingSeen
  <2>5. Leads(NothingSeen, src'.queue, NothingSeen) /\ IsList(src'.queue)
    BY <2>2, <2>4, LeadsNowhere, NothingIsAList
  <2>6. wire'.script \in Scripts
    BY <1>2, <1>5 DEF Idle
  <2>7. IsList(wire'.script) /\ FollowsProtocol(wire'.script)
    BY <2>6, ScriptsAssumption
  <2>8. At(wire'.script, 0, NothingSeen) /\ Len(wire'.script) \in Nat
    BY <2>7, ScriptBegins, ListHas
  <2>9. Follows(buf, wire', 0)
    <3>1. Len(buf) = 0 /\ Len(wire'.queue) = 0
      BY <1>1, <1>3, NothingIsAList
    <3>. QED  BY <1>3, <2>6, <2>8, <3>1 DEF Follows
  <2>10. Passing(NothingSeen, src', buf, wire')
    <3>1. NothingSeen.next = src'.lastSeq + 1
      BY <2>2, <2>4
    <3>. QED  BY <2>4, <2>5, <2>8, <2>9, <3>1 DEF Passing
  <2>11. StreamFits(NothingSeen, src', buf, wire')
    BY <1>5, <2>2, <2>3, <2>10 DEF StreamFits, Streaming
  <2>. QED  BY <1>1, <2>11, ReadsOn
<1>6. CASE ~(call.kind = "openai" /\ call.op = "responses" /\ route = "native")
  <2>1. PICK em : em = start(newResponsesEmitter)
    OBVIOUS
  <2>2. Ready(NothingSeen, em) /\ IsEmitter(em) /\ IsList(em.out)
    BY <2>1, StartIsReady DEF Ready, Carried, IsEmitter
  <2>3. CASE ViaChat
    <3>1. src' = Source(call.kind, em.out, em)
      BY <1>1, <1>6, <2>1, <2>3, Zenon DEF OpenSource
    <3>2. /\ DOMAIN src' = SourceFields /\ src'.dialect = call.kind /\ src'.queue = em.out /\ ~src'.done
          /\ src'.em = [em EXCEPT !.out = <<>>] /\ src'.em.out = <<>>
      BY <2>2, <3>1, SourceOf, SourceEmits
    <3>3. SourceIs(src')
      BY <2>3, <3>2, CallIs DEF SourceIs
    <3>4. PICK t : Leads(NothingSeen, em.out, t) /\ t.phase = "open" /\ Ready(t, [em EXCEPT !.out = <<>>])
      BY <2>2, ReadyIsDrained
    <3>5. Pending(NothingSeen, src')
      BY <2>2, <3>2, <3>4 DEF Pending
    <3>6. StreamFits(NothingSeen, src', buf, wire')
      <4>1. call.op = "responses" /\ src'.dialect # "pass"
        BY <2>3, <3>2, CallIs DEF ViaChat
      <4>. QED  BY <1>4, <3>2, <3>3, <3>5, <4>1 DEF StreamFits, Streaming
    <3>. QED  BY <1>1, <3>6, ReadsOn
  <2>4. CASE ~ViaChat
    <3>1. src' = Source(call.kind, <<>>, newResponsesEmitter)
      BY <1>1, <1>6, <2>4, Zenon DEF OpenSource
    <3>2. DOMAIN src' = SourceFields /\ src'.dialect = call.kind /\ ~src'.done /\ src'.queue = <<>>
      BY <3>1, SourceOf
    <3>3. call.op = "chat"
      BY <1>6, <2>4, CallIs
    <3>4. SourceIs(src')
      BY <3>2, <3>3, CallIs DEF SourceIs
    <3>6. Talking(NothingSeen, src')
      <4>1. IsList(src'.queue) /\ 1..Len(src'.queue) = {}
        BY <3>2, NothingIsAList
      <4>. QED  BY <3>2, <4>1 DEF Talking, Chatting, NothingSeen
    <3>5. StreamFits(NothingSeen, src', buf, wire')
      BY <1>4, <3>3, <3>4, <3>6 DEF StreamFits
    <3>. QED  BY <1>1, <3>5, ReadsOn
  <2>. QED  BY <2>3, <2>4
<1>. QED  BY <1>5, <1>6

\* A reply that came whole.
LEMMA FixedFits ==
    ASSUME Inv, EventsFit, NEW r, SendsFixed(r), DOMAIN r = SourceFields, r.dialect = "fixed", r.done,
           call.op = "responses" => Completing(NothingSeen, r), call.op = "chat" => ChatEnding(NothingSeen, r)
    PROVE  EventsFit'
<1>1. /\ stage' = "reading" /\ call' = call /\ route' = route /\ seen' = seen /\ src' = r
      /\ seen = NothingSeen
  BY DEF SendsFixed, EventsFit
<1>2. SourceIs(r)
  BY DEF SourceIs
<1>3. StreamFits(NothingSeen, r, buf', wire')
  BY <1>2 DEF StreamFits, Streaming, Talking
<1>. QED  BY <1>1, <1>3, ReadsOn

\* Frames of a list of chunks, [DONE] last.
LEMMA FramesEnd ==
    ASSUME NEW q, IsList(q), NEW frames, frames = Append([k \in DOMAIN q |-> ChunkFrame(q[k])], DoneFrame)
    PROVE  IsList(frames) /\ frames # <<>> /\ frames[Len(frames)] = DoneFrame
<1>1. PICK n, s : n = Len(q) /\ s = [k \in DOMAIN q |-> ChunkFrame(q[k])]
  BY Zenon
<1>2. n \in Nat /\ DOMAIN q = 1..n
  BY <1>1, ListHas
<1>3. s = [k \in 1..n |-> s[k]]
  BY <1>1, <1>2
<1>4. IsList(s)
  BY <1>2, <1>3, ListIs
<1>5. frames = Append(s, DoneFrame)
  BY <1>1
<1>6. PICK m : m = Len(s)
  BY Zenon
<1>7. IsList(frames) /\ frames # <<>> /\ Len(frames) = m + 1 /\ frames[m + 1] = DoneFrame
  <2>1. /\ IsList(Append(s, DoneFrame)) /\ Append(s, DoneFrame) # <<>>
        /\ Len(Append(s, DoneFrame)) = Len(s) + 1 /\ Append(s, DoneFrame)[Len(s) + 1] = DoneFrame
    BY <1>4, ListGrows
  <2>. QED  BY <1>5, <1>6, <2>1, Zenon
<1>. QED  BY <1>7

LEMMA ChoiceIsAList ==
    ASSUME NEW i, NEW c, DOMAIN c.calls \subseteq Nat, IsFiniteSet(DOMAIN c.calls)
    PROVE  IsList(choiceChunks(i, c))
<1>. DEFINE Says(f) == IF c.text[f] = <<>> THEN <<>> ELSE <<Chunk(0, i, {f}, <<>>, NoFinish, FALSE)>>
            Call(k) == Chunk(0, i, {}, <<CallPiece(k, c.calls[k].id, TRUE, c.calls[k].sig)>>, NoFinish, FALSE)
<1>1. PICK first, last, called :
         /\ first = Chunk(0, i, {}, <<>>, NoFinish, FALSE) /\ last = Chunk(0, i, {}, <<>>, c.finish, FALSE)
         /\ called = Sorted(DOMAIN c.calls)
  BY Zenon
<1>2. PICK calls : calls = [k \in DOMAIN called |-> Call(called[k])]
  BY Zenon
<1>3. choiceChunks(i, c) = <<first>> \o Says("reasoning") \o Says("content") \o Says("refusal") \o calls \o <<last>>
  BY <1>1, <1>2, Zenon DEF choiceChunks
<1>4. \A f : IsList(Says(f))
  BY NothingIsAList, OneIsAList
<1>5. IsList(calls)
  <2>1. PICK n : n = Len(called)
    BY Zenon
  <2>2. n \in Nat /\ DOMAIN called = 1..n
    BY <1>1, <2>1, SortedIs, ListHas
  <2>3. calls = [k \in 1..n |-> calls[k]]
    BY <1>2, <2>2
  <2>. QED  BY <2>2, <2>3, ListIs
<1>. HIDE DEF Says, Call
<1>6. PICK x, y, z : x = Says("reasoning") /\ y = Says("content") /\ z = Says("refusal")
  OBVIOUS
<1>7. IsList(<<first>>) /\ IsList(<<last>>) /\ IsList(x) /\ IsList(y) /\ IsList(z)
  BY <1>4, <1>6, OneIsAList
<1>8. choiceChunks(i, c) = <<first>> \o x \o y \o z \o calls \o <<last>>
  BY <1>3, <1>6
<1>9. IsList(<<first>> \o x)
  BY <1>7, ListsJoin
<1>10. IsList(<<first>> \o x \o y)
  BY <1>7, <1>9, ListsJoin
<1>11. IsList(<<first>> \o x \o y \o z)
  BY <1>7, <1>10, ListsJoin
<1>12. IsList(<<first>> \o x \o y \o z \o calls)
  BY <1>5, <1>11, ListsJoin
<1>13. IsList(<<first>> \o x \o y \o z \o calls \o <<last>>)
  BY <1>7, <1>12, ListsJoin
<1>. QED  BY <1>8, <1>13, Zenon

LEMMA ListsAreJoined ==
    ASSUME NEW q, NEW n \in Nat, DOMAIN q = 1..n, n = Len(q), \A k \in 1..n : IsList(q[k])
    PROVE  IsList(FoldLeft(Joined, <<>>, q))
<1>1. PICK f : Joining!Goes(f, <<>>, q, n) /\ Joining!Run(<<>>, q) = f[n]
  BY Joining!RunIs
<1>2. FoldLeft(Joined, <<>>, q) = f[n]
  <2>1. FoldLeft(Joined, <<>>, q) = Joining!FoldLeft(Joined, <<>>, q)
    BY Zenon DEF FoldLeft, MapThenFoldSet, Max, Joining!FoldLeft, Joining!MapThenFoldSet, Joining!Max
  <2>. QED  BY <1>1, <2>1, Zenon DEF Joining!Run
<1>. DEFINE T == {i \in Nat : IsList(f[i])}
<1>3. 0 \in T
  BY <1>1, NothingIsAList DEF Joining!Goes
<1>4. ASSUME NEW i \in 1..n, i - 1 \in T
      PROVE  i \in T
  <2>1. IsList(f[i - 1]) /\ f[i] = Joined(f[i - 1], q[i]) /\ i \in Nat
    BY <1>1, <1>4 DEF Joining!Goes
  <2>2. f[i] = f[i - 1] \o q[i]
    BY <2>1 DEF Joined
  <2>3. IsList(f[i])
    BY <2>1, <2>2, ListsJoin
  <2>. QED  BY <2>1, <2>3
<1>. HIDE DEF T
<1>5. \A i \in 1..n : i - 1 \in T => i \in T
  BY <1>4
<1>6. n \in T
  <2>1. \A i \in 0..n : i \in T
    BY <1>3, <1>5, Joining!Upwards, Zenon
  <2>. QED  BY <2>1
<1>. QED  BY <1>2, <1>6 DEF T

LEMMA WholeChatEnds ==
    ASSUME NEW reply \in Replies.chat, NEW usage, NEW frames, frames = bufferedChatFrames(reply, usage)
    PROVE  IsList(frames) /\ frames # <<>> /\ frames[Len(frames)] = DoneFrame
<1>1. PICK order : order = Sorted(DOMAIN reply.choices)
  OBVIOUS
<1>2. /\ DOMAIN reply.choices \subseteq Nat /\ IsFiniteSet(DOMAIN reply.choices)
      /\ \A i \in DOMAIN reply.choices :
            DOMAIN reply.choices[i].calls \subseteq Nat /\ IsFiniteSet(DOMAIN reply.choices[i].calls)
  BY RepliesAssumption
<1>3. PICK n : n = Len(order)
  BY Zenon
<1>4. n \in Nat /\ DOMAIN order = 1..n /\ \A k \in 1..n : order[k] \in DOMAIN reply.choices
  BY <1>1, <1>2, <1>3, SortedIs, ListHas
<1>5. PICK q : q = [k \in DOMAIN order |-> choiceChunks(order[k], reply.choices[order[k]])]
  BY Zenon
<1>6. \A k \in 1..n : IsList(q[k])
  BY <1>2, <1>4, <1>5, ChoiceIsAList
<1>7. DOMAIN q = 1..n /\ n = Len(q)
  <2>1. q = [k \in 1..n |-> q[k]]
    BY <1>4, <1>5
  <2>. QED  BY <1>4, <2>1, ListIs
<1>8. PICK told, joined, chunks : /\ told = (IF usage /\ reply.usage THEN <<UsageChunk>> ELSE <<>>)
                                  /\ joined = FoldLeft(Joined, <<>>, q) /\ chunks = joined \o told
  BY Zenon
<1>9. IsList(chunks)
  <2>1. IsList(joined)
    BY <1>4, <1>6, <1>7, <1>8, ListsAreJoined
  <2>2. IsList(told)
    BY <1>8, NothingIsAList, OneIsAList
  <2>. QED  BY <1>8, <2>1, <2>2, ListsJoin, Zenon
<1>10. frames = Append([k \in DOMAIN chunks |-> ChunkFrame(chunks[k])], DoneFrame)
  BY <1>1, <1>5, <1>8, Zenon DEF bufferedChatFrames
<1>. QED  BY <1>9, <1>10, FramesEnd, Zenon

LEMMA WholeFits ==
    ASSUME Inv, EventsFit, SendsWholeReply
    PROVE  EventsFit'
<1>1. PICK form : form = IF call.op = "chat" \/ ViaChat THEN "chat" ELSE "responses"
  OBVIOUS
<1>2. PICK reply \in Replies[form] : SendsFixed(BufferedStream(form, reply))
  BY <1>1, Zenon DEF SendsWholeReply
<1>3. CASE call.op = "responses"
  <2>1. PICK whole, em : /\ whole = (IF form = "chat" THEN wrapChatReplyAsResponses(reply) ELSE reply)
                         /\ em = bufferedResponsesFrames(whole)
    OBVIOUS
  <2>2. Whole(whole)
    <3>1. CASE form = "chat"
      BY <1>2, <2>1, <3>1, WrappedIsWhole
    <3>2. CASE form # "chat"
      <4>1. reply \in Replies.responses /\ whole = reply
        BY <1>1, <1>2, <2>1, <3>2
      <4>. QED  BY <4>1, RepliesAssumption DEF Whole
    <3>. QED  BY <3>1, <3>2
  <2>3. Told(NothingSeen, em)
    BY <2>1, <2>2, WholeIsTold DEF Whole
  <2>4. PICK r : r = [Source("fixed", em.out, em) EXCEPT !.final = whole, !.done = TRUE]
    OBVIOUS
  <2>5. BufferedStream(form, reply) = r
    BY <1>3, <2>1, <2>4, Zenon DEF BufferedStream
  <2>6. IsEmitter(em) /\ IsList(em.out)
    BY <2>3 DEF Told, IsEmitter
  <2>7. DOMAIN r = SourceFields /\ r.dialect = "fixed" /\ r.done /\ r.queue = em.out
    BY <2>4 DEF Source, SourceFields
  <2>8. Completing(NothingSeen, r)
    BY <2>3, <2>6, <2>7 DEF Completing, Told
  <2>9. SendsFixed(r) /\ (call.op = "chat" => ChatEnding(NothingSeen, r))
    BY <1>2, <1>3, <2>5
  <2>. QED  BY <2>7, <2>8, <2>9, FixedFits
<1>4. CASE call.op # "responses"
  <2>1. PICK q, r : /\ q = Source("fixed", bufferedChatFrames(reply, call.usage), newResponsesEmitter)
                    /\ r = [q EXCEPT !.acc.choices = reply.choices, !.done = TRUE]
    OBVIOUS
  <2>2. BufferedStream(form, reply) = r
    BY <1>4, <2>1, Zenon DEF BufferedStream
  <2>3. DOMAIN q = SourceFields /\ q.dialect = "fixed" /\ q.queue = bufferedChatFrames(reply, call.usage)
    BY <2>1, SourceOf
  <2>4. DOMAIN r = SourceFields /\ r.dialect = "fixed" /\ r.done /\ r.queue = q.queue
    BY <2>1, <2>3 DEF SourceFields
  <2>5. reply \in Replies.chat
    BY <1>1, <1>2, <1>4, CallIs
  <2>6. ChatEnding(NothingSeen, r)
    BY <2>3, <2>4, <2>5, WholeChatEnds DEF ChatEnding
  <2>. QED  BY <1>2, <1>4, <2>2, <2>4, <2>6, FixedFits
<1>. QED  BY <1>3, <1>4

LEMMA RefusalFits ==
    ASSUME Inv, EventsFit, SendsRefusal
    PROVE  EventsFit'
<1>1. SendsFixed(RefusalStream)
  BY DEF SendsRefusal
<1>2. PICK chunks, em :
         /\ chunks = <<Chunk(0, 0, {}, <<>>, NoFinish, FALSE), Chunk(0, 0, {}, <<>>, "content_filter", FALSE)>>
         /\ em = event(event(newResponsesEmitter, "created", NoFields), "incomplete", [output |-> <<>>])
  BY Zenon
<1>3. Told(NothingSeen, em)
  BY <1>2, RefusalIsTold
<1>4. IsEmitter(em) /\ IsList(em.out)
  BY <1>3 DEF Told, IsEmitter
<1>5. CASE call.op = "responses"
  <2>1. PICK r : r = [Source("fixed", em.out, em) EXCEPT !.final = [status |-> "incomplete", output |-> <<>>],
                                                         !.done = TRUE]
    OBVIOUS
  <2>2. RefusalStream = r
    BY <1>2, <1>5, <2>1, Zenon DEF RefusalStream
  <2>3. DOMAIN r = SourceFields /\ r.dialect = "fixed" /\ r.done /\ r.queue = em.out
    BY <2>1 DEF Source, SourceFields
  <2>4. Completing(NothingSeen, r)
    BY <1>3, <1>4, <2>3 DEF Completing, Told
  <2>5. SendsFixed(r) /\ (call.op = "chat" => ChatEnding(NothingSeen, r))
    BY <1>1, <1>5, <2>2
  <2>. QED  BY <2>3, <2>4, <2>5, FixedFits
<1>6. CASE call.op # "responses"
  <2>1. PICK frames, q, r :
                    /\ frames = Append([k \in DOMAIN chunks |-> ChunkFrame(chunks[k])], DoneFrame)
                    /\ q = Source("fixed", frames, em)
                    /\ r = [q EXCEPT !.acc = FoldLeft(add, q.acc, chunks), !.done = TRUE]
    OBVIOUS
  <2>2. RefusalStream = r
    BY <1>2, <1>6, <2>1, Zenon DEF RefusalStream
  <2>3. DOMAIN q = SourceFields /\ q.dialect = "fixed" /\ q.queue = frames
    <3>1. q = Source("fixed", frames, em)
      BY <2>1
    <3>. QED  BY <3>1, SourceOf
  <2>4. DOMAIN r = SourceFields /\ r.dialect = "fixed" /\ r.done /\ r.queue = q.queue
    BY <2>1, <2>3 DEF SourceFields
  <2>5. ChatEnding(NothingSeen, r)
    <3>1. IsList(chunks)
      <4>1. PICK a, b : /\ a = Chunk(0, 0, {}, <<>>, NoFinish, FALSE)
                        /\ b = Chunk(0, 0, {}, <<>>, "content_filter", FALSE)
        BY Zenon
      <4>2. chunks = Append(<<a>>, b)
        <5>1. chunks = <<a, b>>
          BY <1>2, <4>1, Zenon
        <5>. QED  BY <5>1
      <4>. QED  BY <4>2, OneIsAList, ListGrows
    <3>2. IsList(frames) /\ frames # <<>> /\ frames[Len(frames)] = DoneFrame
      BY <2>1, <3>1, FramesEnd, Zenon
    <3>. QED  BY <2>3, <2>4, <3>2 DEF ChatEnding
  <2>. QED  BY <1>1, <1>6, <2>2, <2>4, <2>5, FixedFits
<1>. QED  BY <1>5, <1>6

\* A step that leaves what was queued, read and written.
LEMMA LeavesFits ==
    ASSUME Inv, EventsFit, stage' = "reading", stage = "reading", call' = call, route' = route,
           seen' = seen, src' = src, buf' = buf, wire'.queue = wire.queue, wire'.sent = wire.sent,
           wire'.script = wire.script
    PROVE  EventsFit'
<1>1. StreamFits(seen, src, buf, wire)
  BY DEF EventsFit
<1>2. StreamFits(seen, src, buf, wire')
  BY <1>1 DEF StreamFits, Sayables, Streaming, Passing, Follows
<1>. QED  BY <1>2, ReadsOn

\* A step before the call reads, or after it.
LEMMA EarlyFits ==
    ASSUME EventsFit, stage' = stage, stage # "reading", seen' = seen, committed' = committed
    PROVE  EventsFit'
  BY DEF EventsFit

LEMMA OverFits ==
    ASSUME stage' = "over"
    PROVE  EventsFit'
  BY DEF EventsFit

LEMMA SaidIsSayable ==
    ASSUME call \in Calls, NEW kind \in {"openai", "gemini"}, NEW said \in Vocabulary[kind], NEW n
    PROVE  Sayable(Numbered([said EXCEPT !.n = n]))
<1>1. PICK ev : ev = [said EXCEPT !.n = n]
  BY Zenon
<1>2. /\ {"type", "n"} \subseteq DOMAIN said
      /\ said.type = "chunk" => /\ "chunk" \in DOMAIN said /\ IsList(said.chunk.calls)
                                /\ said.chunk.says \subseteq Fields
                                /\ call.op = "responses" => said.chunk.choice \in {0, None}
                                /\ DOMAIN said.chunk = {"n", "choice", "says", "calls", "finish", "usage"}
      /\ said.type = "gemini" => "parts" \in DOMAIN said /\ IsList(said.parts)
  BY VocabularyAssumption, ChoicesAssumption
<1>3. ev.type = said.type /\ DOMAIN ev = DOMAIN said
  BY <1>1, <1>2
<1>4. CASE ev.type = "chunk"
  <2>1. PICK c, d : c = said.chunk /\ d = [c EXCEPT !.n = ev.n]
    BY Zenon
  <2>2. ev.chunk = c
    BY <1>1, <1>2, <1>3, <1>4, <2>1
  <2>3. Numbered(ev) = [ev EXCEPT !.chunk = d]
    BY <1>4, <2>1, <2>2, Zenon DEF Numbered
  <2>4. d.calls = c.calls /\ d.says = c.says /\ d.choice = c.choice /\ DOMAIN d = DOMAIN c
    BY <1>2, <1>3, <1>4, <2>1
  <2>5. Numbered(ev).chunk = d /\ Numbered(ev).type = "chunk"
    BY <1>2, <1>3, <1>4, <2>3
  <2>. QED  BY <1>1, <1>2, <1>3, <1>4, <2>1, <2>4, <2>5 DEF Sayable, IsChunk
<1>5. CASE ev.type # "chunk"
  <2>1. Numbered(ev) = ev
    BY <1>5 DEF Numbered
  <2>2. ev.type = "gemini" => ev.parts = said.parts
    BY <1>1, <1>2, <1>3
  <2>. QED  BY <1>1, <1>2, <1>3, <1>5, <2>1, <2>2 DEF Sayable
<1>. QED  BY <1>4, <1>5

LEMMA WritesFits ==
    ASSUME Inv, EventsFit, ProviderWrites
    PROVE  EventsFit'
<1>1. /\ stage = "reading" /\ stage' = "reading" /\ call' = call /\ route' = route /\ seen' = seen
      /\ src' = src /\ buf' = buf /\ ~src.done /\ src.dialect # "fixed"
  BY DEF ProviderWrites, Streams
<1>2. PICK ev \in NextSays :
         wire' = [wire EXCEPT !.queue = Append(wire.queue, Numbered(ev)), !.sent = wire.sent + 1,
                              !.told = wire.told \/ TellsTheEnd(ev)]
  BY Zenon DEF ProviderWrites
<1>3. PICK Q, x : Q = wire.queue /\ x = Numbered(ev)
  OBVIOUS
<1>4. wire'.queue = Append(Q, x) /\ wire'.sent = wire.sent + 1 /\ wire'.script = wire.script
  BY <1>2, <1>3 DEF Inv, WireFits
<1>5. StreamFits(seen, src, buf, wire) /\ IsList(Q) /\ IsList(buf) /\ wire.sent \in Nat
  BY <1>1, <1>3 DEF EventsFit, Inv, WireFits
<1>6. /\ Len(Append(Q, x)) = Len(Q) + 1 /\ Len(Q) \in Nat /\ Append(Q, x)[Len(Q) + 1] = x
      /\ \A i \in 1..Len(Q) : Append(Q, x)[i] = Q[i]
  BY <1>5, ListGrows
<1>7. Len(buf) \in Nat
  BY <1>5, ListHas
<1>8. CASE src.dialect = "pass"
  <2>1. wire.sent < Len(wire.script) /\ ev = wire.script[wire.sent + 1]
    BY <1>2, <1>8 DEF NextSays
  <2>2. call.op = "responses" /\ Passing(seen, src, buf, wire)
    BY <1>1, <1>5, <1>8 DEF StreamFits, SourceIs, Streaming
  <2>3. PICK t : /\ Leads(seen, src.queue, t) /\ t.phase \in {"new", "open"} /\ t.next = src.lastSeq + 1
                 /\ \E n : Follows(buf, wire, n) /\ At(wire.script, n, t)
    BY <2>2 DEF Passing
  <2>4. PICK n : Follows(buf, wire, n) /\ At(wire.script, n, t)
    BY <2>3
  <2>5. IsList(wire.script) /\ \A k \in DOMAIN wire.script : wire.script[k].type # "chunk"
    BY <2>4, ScriptsAssumption DEF Follows
  <2>6. Len(wire.script) \in Nat /\ DOMAIN wire.script = 1..Len(wire.script)
    BY <2>5, ListHas
  <2>7. x = ev
    <3>1. wire.sent + 1 \in DOMAIN wire.script
      BY <1>5, <2>1, <2>6
    <3>2. ev.type # "chunk"
      BY <2>1, <2>5, <3>1
    <3>. QED  BY <1>3, <3>2 DEF Numbered
  <2>8. Follows(buf, wire', n)
    <3>1. n \in Nat /\ n + Len(buf) + Len(Q) = wire.sent
      BY <1>3, <2>4 DEF Follows
    <3>2. n + Len(buf) + Len(wire'.queue) = wire'.sent /\ wire'.sent <= Len(wire'.script)
      BY <1>4, <1>5, <1>6, <1>7, <2>1, <2>6, <3>1
    <3>3. \A i \in 1..Len(wire'.queue) : wire'.queue[i] = wire'.script[n + Len(buf) + i]
      <4>. TAKE i \in 1..Len(wire'.queue)
      <4>1. CASE i \in 1..Len(Q)
        BY <1>3, <1>4, <1>6, <2>4, <4>1 DEF Follows
      <4>2. CASE i \notin 1..Len(Q)
        <5>1. i = Len(Q) + 1 /\ n + Len(buf) + i = wire.sent + 1
          BY <1>4, <1>6, <1>7, <3>1, <4>2
        <5>. QED  BY <1>4, <1>6, <2>1, <2>7, <5>1
      <4>. QED  BY <4>1, <4>2
    <3>. QED  BY <1>4, <2>4, <3>2, <3>3 DEF Follows
  <2>9. Passing(seen, src, buf, wire')
    BY <1>4, <2>2, <2>3, <2>4, <2>8 DEF Passing
  <2>10. StreamFits(seen, src, buf, wire')
    BY <1>1, <1>5, <1>8, <2>9 DEF StreamFits, Streaming
  <2>. QED  BY <1>1, <2>10, ReadsOn
<1>9. CASE src.dialect # "pass"
  <2>1. src.dialect \in {"openai", "gemini"}
    BY <1>1, <1>5, <1>9 DEF StreamFits, SourceIs
  <2>2. PICK said \in Vocabulary[call.kind] : ev = [said EXCEPT !.n = wire.sent + 1]
    BY <1>2, <1>9, Zenon DEF NextSays
  <2>3. Sayable(x)
    BY <1>3, <2>2, CallIs, SaidIsSayable DEF Inv, CallFits
  <2>4. Sayables(buf, wire)
    BY <1>5, <2>1 DEF StreamFits
  <2>5. \A k \in 1..Len(wire'.queue) : Sayable(wire'.queue[k])
    <3>. TAKE k \in 1..Len(wire'.queue)
    <3>1. CASE k \in 1..Len(Q)
      BY <1>3, <1>4, <1>6, <2>4, <3>1 DEF Sayables
    <3>2. CASE k \notin 1..Len(Q)
      <4>1. k = Len(Q) + 1
        BY <1>4, <1>6, <3>2
      <4>. QED  BY <1>4, <1>6, <2>3, <4>1
    <3>. QED  BY <3>1, <3>2
  <2>6. Sayables(buf, wire')
    BY <2>4, <2>5 DEF Sayables
  <2>7. StreamFits(seen, src, buf, wire')
    BY <1>1, <1>5, <1>9, <2>6 DEF StreamFits, Streaming
  <2>. QED  BY <1>1, <2>7, ReadsOn
<1>. QED  BY <1>8, <1>9

LEMMA ReadEventsFit ==
    ASSUME Inv, EventsFit, Read
    PROVE  EventsFit'
<1>1. /\ stage = "reading" /\ stage' = "reading" /\ call' = call /\ route' = route /\ seen' = seen
      /\ src' = src /\ buf = <<>> /\ buf' = wire.queue
  BY DEF Read, Waiting
<1>2. wire' = [wire EXCEPT !.queue = <<>>]
  BY DEF Read
<1>3. wire'.queue = <<>> /\ wire'.sent = wire.sent /\ wire'.script = wire.script
  BY <1>2 DEF Inv, WireFits
<1>4. StreamFits(seen, src, buf, wire) /\ IsList(wire.queue) /\ Len(buf) = 0 /\ Len(wire'.queue) = 0
  BY <1>1, <1>3, NothingIsAList DEF EventsFit, Inv, WireFits
<1>5. Len(wire.queue) \in Nat
  BY <1>4, ListHas
<1>6. Sayables(buf, wire) => Sayables(wire.queue, wire')
  BY <1>4 DEF Sayables
<1>7. ASSUME NEW n, Follows(buf, wire, n)
      PROVE  Follows(wire.queue, wire', n)
  <2>1. n \in Nat
    BY <1>7 DEF Follows
  <2>2. \A i \in 1..Len(wire.queue) : n + Len(buf) + i = n + i
    BY <1>4, <2>1
  <2>3. n + Len(wire.queue) + Len(wire'.queue) = wire.sent
    BY <1>4, <1>5, <1>7, <2>1 DEF Follows
  <2>. QED  BY <1>3, <1>4, <1>7, <2>2, <2>3 DEF Follows
<1>8. Passing(seen, src, buf, wire) => Passing(seen, src, wire.queue, wire')
  BY <1>3, <1>7 DEF Passing
<1>9. StreamFits(seen, src, wire.queue, wire')
  BY <1>4, <1>6, <1>8 DEF StreamFits, Streaming
<1>. QED  BY <1>1, <1>9, ReadsOn

\* A Chat client takes a frame.
LEMMA HandedTalks ==
    ASSUME Inv, call.op = "chat", Talking(seen, src), src.queue # <<>>,
           NEW t, t = Take(seen, Head(src.queue)), NEW r, r.queue = Tail(src.queue), r.done = src.done
    PROVE  Talking(t, r)
<1>1. PICK q, f, n, acc : q = src.queue /\ f = Head(q) /\ n = Len(q) /\ acc = add(seen.acc, f.chunk)
  BY Zenon
<1>2. IsList(q)
  BY <1>1 DEF Talking, Chatting, ChatEnding
<1>3. /\ IsList(r.queue) /\ n \in Nat \ {0} /\ Len(r.queue) = n - 1 /\ f = q[1]
      /\ \A i \in 1..(n - 1) : r.queue[i] = q[i + 1]
  BY <1>1, <1>2, ListShrinks
<1>4. t = CASE f.type = "chunk" -> [seen EXCEPT !.acc = acc, !.phase = "open"]
            [] f.type = "DONE"  -> [seen EXCEPT !.phase = "complete"]
            [] OTHER            -> [seen EXCEPT !.phase = "failed"]
  BY <1>1, Zenon DEF Take
<1>5. (f.type = "chunk" => t.phase = "open") /\ (f.type = "DONE" => t.phase = "complete")
  BY <1>4, Zenon DEF Inv, CallFits, IsSeen
<1>6. CASE src.done
  <2>1. q[n] = DoneFrame
    BY <1>1, <1>6 DEF Talking, ChatEnding
  <2>2. CASE n = 1
    <3>1. Len(r.queue) = 0
      BY <1>3, <2>2
    <3>2. r.queue = <<>>
      BY <1>3, <3>1, ListShrinks, Zenon
    <3>. QED  BY <1>3, <1>5, <1>6, <2>1, <2>2, <3>2 DEF Talking, ChatEnding, DoneFrame
  <2>3. CASE n # 1
    <3>1. n - 1 \in 1..(n - 1) /\ (n - 1) + 1 = n
      BY <1>3, <2>3
    <3>2. r.queue[Len(r.queue)] = DoneFrame
      BY <1>3, <2>1, <3>1
    <3>3. r.queue # <<>>
      <4>1. Len(r.queue) # 0
        BY <1>3, <2>3
      <4>. QED  BY <4>1, NothingIsAList, Zenon
    <3>. QED  BY <1>3, <1>6, <3>2, <3>3 DEF Talking, ChatEnding
  <2>. QED  BY <2>2, <2>3
<1>7. CASE ~src.done
  <2>1. \A k \in 1..n : q[k].type = "chunk"
    BY <1>1, <1>7 DEF Talking, Chatting
  <2>2. t.phase = "open"
    BY <1>3, <1>5, <2>1
  <2>3. \A k \in 1..Len(r.queue) : r.queue[k].type = "chunk"
    <3>. TAKE k \in 1..Len(r.queue)
    <3>1. k \in 1..(n - 1) /\ k + 1 \in 1..n
      BY <1>3
    <3>. QED  BY <1>3, <2>1, <3>1
  <2>. QED  BY <1>3, <1>7, <2>2, <2>3 DEF Talking, Chatting
<1>. QED  BY <1>6, <1>7

\* A frame is handed over.
LEMMA HandOverFits ==
    ASSUME Inv, EventsFit, HandOver
    PROVE  EventsFit'
<1>1. /\ stage = "reading" /\ stage' = "reading" /\ call' = call /\ route' = route
      /\ seen' = Take(seen, Head(src.queue)) /\ src' = [src EXCEPT !.queue = Tail(src.queue)]
      /\ src.queue # <<>> /\ buf' = buf /\ wire' = wire
  BY DEF HandOver, Queue
<1>2. StreamFits(seen, src, buf, wire)
  BY <1>1 DEF EventsFit
<1>3. DOMAIN src = SourceFields /\ SourceIs(src)
  BY <1>2 DEF StreamFits, SourceIs
<1>4. PICK r : r = src'
  OBVIOUS
<1>5. /\ DOMAIN r = SourceFields /\ r.queue = Tail(src.queue) /\ r.dialect = src.dialect /\ r.done = src.done
      /\ r.em = src.em /\ r.lastSeq = src.lastSeq
  BY <1>1, <1>3, <1>4 DEF SourceFields
<1>6. SourceIs(r)
  BY <1>3, <1>5 DEF SourceIs
<1>7. CASE call.op = "responses"
  <2>1. PICK s : s = TakeEvent(seen, Head(src.queue))
    OBVIOUS
  <2>2. seen' = s
    BY <1>1, <1>7, <2>1 DEF Take
  <2>3. IsList(src.queue)
    BY <1>2, <1>7 DEF StreamFits, Streaming, Completing, Passing, Pending
  <2>4. IsList(r.queue)
    BY <1>1, <1>5, <2>3, ListShrinks
  <2>5. \A t : Leads(seen, src.queue, t) => Leads(s, r.queue, t)
    BY <1>1, <1>5, <2>1, <2>3, LeadsFirst
  <2>6. Streaming(seen, src, buf, wire)
    BY <1>2, <1>7 DEF StreamFits
  <2>7. Streaming(s, r, buf, wire)
    <3>1. src.done => Streaming(s, r, buf, wire)
      BY <1>5, <2>4, <2>5, <2>6 DEF Streaming, Completing
    <3>2. ~src.done /\ src.dialect = "pass" => Streaming(s, r, buf, wire)
      BY <1>5, <2>4, <2>5, <2>6 DEF Streaming, Passing
    <3>3. ~src.done /\ src.dialect # "pass" => Streaming(s, r, buf, wire)
      BY <1>5, <2>4, <2>5, <2>6 DEF Streaming, Pending
    <3>. QED  BY <3>1, <3>2, <3>3
  <2>8. StreamFits(s, r, buf, wire)
    BY <1>2, <1>5, <1>6, <1>7, <2>7 DEF StreamFits
  <2>. QED  BY <1>1, <1>4, <2>2, <2>8, ReadsOn
<1>8. CASE call.op # "responses"
  <2>1. call.op = "chat" /\ Talking(seen, src)
    BY <1>2, <1>8, CallIs DEF StreamFits
  <2>2. Talking(seen', r)
    BY <1>1, <1>5, <2>1, HandedTalks
  <2>3. StreamFits(seen', r, buf, wire)
    BY <1>2, <1>5, <1>6, <1>8, <2>2 DEF StreamFits
  <2>. QED  BY <1>1, <1>4, <2>3, ReadsOn
<1>. QED  BY <1>7, <1>8

\* A Chat source, its frames going to the client or to the wrapper.
Chats(r) ==
    /\ DOMAIN r = SourceFields /\ r.dialect \in {"openai", "gemini"}
    /\ call.op = "responses" => ViaChat /\ Pending(seen, r)
    /\ call.op = "chat" => Chatting(seen, r)
Ends(r) ==
    /\ DOMAIN r = SourceFields /\ r.dialect \in {"openai", "gemini"} /\ r.done
    /\ call.op = "responses" => ViaChat /\ Completing(seen, r)
    /\ call.op = "chat" => ChatEnding(seen, r)

\* What it gathers beside changes nothing.
LEMMA ChatsOn ==
    ASSUME NEW r, Chats(r), NEW q, DOMAIN q = SourceFields, q.dialect = r.dialect, q.queue = r.queue,
           q.em = r.em
    PROVE  Chats(q)
  BY DEF Chats, Pending, Chatting

LEMMA HandsChunks ==
    ASSUME Inv, NEW r, Chats(r), NEW frames, IsList(frames),
           \A k \in DOMAIN frames : frames[k].type = "chunk" /\ IsChunk(frames[k].chunk)
    PROVE  Chats(Hand(r, frames)) /\ Beside(Hand(r, frames), r)
<1>1. CASE ViaChat
  <2>1. Hand(r, frames) = ReEmit(r, frames)
    BY <1>1, Zenon DEF Hand
  <2>2. call.op = "responses"
    BY <1>1 DEF ViaChat
  <2>3. Pending(seen, r)
    BY <2>2 DEF Chats
  <2>4. Pending(seen, ReEmit(r, frames)) /\ Beside(ReEmit(r, frames), r)
    BY <2>3, FramesAreQueued
  <2>5. DOMAIN ReEmit(r, frames) = SourceFields /\ ReEmit(r, frames).dialect = r.dialect
    BY <2>4 DEF Pending, Beside
  <2>. QED  BY <1>1, <2>1, <2>2, <2>4, <2>5 DEF Chats
<1>2. CASE ~ViaChat
  <2>1. PICK q, u : q = r.queue \o frames /\ u = Hand(r, frames)
    BY Zenon
  <2>2. u = [r EXCEPT !.queue = q]
    BY <1>2, <2>1, Zenon DEF Hand
  <2>3. DOMAIN u = SourceFields /\ Beside(u, r)
    BY <2>2 DEF Chats, SourceFields, Beside
  <2>4. call.op # "responses"
    BY <1>2 DEF Chats
  <2>5. u.queue = q /\ Chatting(seen, r)
    BY <2>2, <2>4, CallIs DEF Chats, SourceFields
  <2>6. Chatting(seen, u)
    <3>1. /\ IsList(q) /\ Len(r.queue) \in Nat /\ Len(frames) \in Nat /\ Len(q) = Len(r.queue) + Len(frames)
          /\ \A i \in 1..Len(r.queue) : q[i] = r.queue[i]
          /\ \A i \in (Len(r.queue) + 1)..(Len(r.queue) + Len(frames)) : q[i] = frames[i - Len(r.queue)]
      <4>1. PICK p : p = r.queue
        OBVIOUS
      <4>2. IsList(p)
        BY <2>5, <4>1 DEF Chatting
      <4>3. q = p \o frames
        BY <2>1, <4>1, Zenon
      <4>4. /\ IsList(q) /\ Len(p) \in Nat /\ Len(frames) \in Nat /\ Len(q) = Len(p) + Len(frames)
            /\ \A i \in 1..Len(p) : q[i] = p[i]
            /\ \A i \in (Len(p) + 1)..(Len(p) + Len(frames)) : q[i] = frames[i - Len(p)]
        <5>1. /\ IsList(p \o frames) /\ Len(p) \in Nat /\ Len(frames) \in Nat
              /\ Len(p \o frames) = Len(p) + Len(frames)
              /\ \A i \in 1..Len(p) : (p \o frames)[i] = p[i]
              /\ \A i \in (Len(p) + 1)..(Len(p) + Len(frames)) : (p \o frames)[i] = frames[i - Len(p)]
          BY <4>2, ListsJoin
        <5>. QED  BY <4>3, <5>1, Zenon
      <4>. QED  BY <4>1, <4>4, Zenon
    <3>2. ASSUME NEW k \in 1..Len(q)
          PROVE  q[k].type = "chunk"
      <4>1. CASE k \in 1..Len(r.queue)
        BY <2>5, <3>1, <4>1 DEF Chatting
      <4>2. CASE k \notin 1..Len(r.queue)
        <5>1. k \in (Len(r.queue) + 1)..(Len(r.queue) + Len(frames)) /\ k - Len(r.queue) \in 1..Len(frames)
          BY <3>1, <4>2
        <5>2. k - Len(r.queue) \in DOMAIN frames
          BY <5>1, ListHas
        <5>. QED  BY <3>1, <5>1, <5>2
      <4>. QED  BY <4>1, <4>2
    <3>. QED  BY <2>5, <3>1, <3>2 DEF Chatting
  <2>. QED  BY <2>1, <2>3, <2>4, <2>6 DEF Chats, Beside
<1>. QED  BY <1>1, <1>2

LEMMA EndsCleanly ==
    ASSUME Inv, NEW r, Chats(r)
    PROVE  Ends(CleanEnd(r)) /\ CleanEnd(r).dialect = r.dialect
<1>1. PICK h, u : h = Hand(r, <<DoneFrame>>) /\ u = [h EXCEPT !.done = TRUE]
  BY Zenon
<1>2. /\ DOMAIN h = SourceFields /\ h.dialect = r.dialect
      /\ call.op = "responses" => ViaChat /\ Completing(seen, h)
      /\ call.op = "chat" => ChatEnding(seen, h)
  <2>1. CASE ViaChat
    <3>1. call.op = "responses" /\ h = ReEmit(r, <<DoneFrame>>)
      BY <1>1, <2>1, Zenon DEF ViaChat, Hand
    <3>2. Pending(seen, r)
      BY <3>1 DEF Chats
    <3>. QED  BY <2>1, <3>1, <3>2, EndIsQueued DEF Beside
  <2>2. CASE ~ViaChat
    <3>1. PICK q : q = r.queue \o <<DoneFrame>>
      BY Zenon
    <3>2. h = [r EXCEPT !.queue = q]
      BY <1>1, <2>2, <3>1, Zenon DEF Hand
    <3>3. DOMAIN h = SourceFields /\ h.dialect = r.dialect /\ h.queue = q /\ call.op # "responses"
      BY <2>2, <3>2 DEF Chats, SourceFields
    <3>4. Chatting(seen, r)
      BY <3>3, CallIs DEF Chats
    <3>5. /\ IsList(q) /\ Len(q) = Len(r.queue) + 1 /\ Len(r.queue) \in Nat
          /\ \A i \in 1..1 : q[Len(r.queue) + i] = (<<DoneFrame>>)[i]
      <4>1. PICK p, one : p = r.queue /\ one = <<DoneFrame>>
        BY Zenon
      <4>2. IsList(p)
        BY <3>4, <4>1 DEF Chatting
      <4>3. IsList(one) /\ Len(one) = 1
        BY <4>1, OneIsAList
      <4>4. q = p \o one
        BY <3>1, <4>1, Zenon
      <4>5. /\ IsList(q) /\ Len(p) \in Nat /\ Len(q) = Len(p) + Len(one)
            /\ \A i \in 1..Len(one) : q[Len(p) + i] = one[i]
        <5>1. /\ IsList(p \o one) /\ Len(p) \in Nat /\ Len(p \o one) = Len(p) + Len(one)
              /\ \A i \in 1..Len(one) : (p \o one)[Len(p) + i] = one[i]
          <6>1. IsList(one)
            BY <4>3
          <6>. QED  BY <4>2, <6>1, ListsJoin
        <5>. QED  BY <4>4, <5>1, Zenon
      <4>6. Len(q) = Len(p) + 1 /\ \A i \in 1..1 : q[Len(p) + i] = one[i]
        BY <4>3, <4>5, Zenon
      <4>. QED  BY <4>1, <4>5, <4>6, Zenon
    <3>6. q[Len(q)] = DoneFrame /\ q # <<>>
      BY <3>5, OneIsAList, NothingIsAList
    <3>. QED  BY <3>3, <3>5, <3>6 DEF ChatEnding
  <2>. QED  BY <2>1, <2>2
<1>3. DOMAIN u = SourceFields /\ u.dialect = r.dialect /\ u.done /\ u.queue = h.queue
  BY <1>1, <1>2 DEF SourceFields
<1>4. u = CleanEnd(r)
  BY <1>1, Zenon DEF CleanEnd
<1>. QED  BY <1>2, <1>3, <1>4 DEF Ends, Chats, Completing, ChatEnding

\* One chunk of an OpenAI stream.
LEMMA ChunkIsHanded ==
    ASSUME Inv, NEW r, Chats(r), NEW ev, Sayable(ev), ev.type = "chunk"
    PROVE  /\ Chats(OpenAIChunk(r, ev)) /\ OpenAIChunk(r, ev).done = r.done
           /\ OpenAIChunk(r, ev).dialect = r.dialect
           /\ OpenAIChunk(r, ev).finished => r.finished \/ ev.chunk.finish # NoFinish
<1>1. PICK c, acc, fin : /\ c = ev.chunk /\ acc = add(r.acc, ev.chunk)
                         /\ fin = (r.finished \/ ev.chunk.finish # NoFinish)
  OBVIOUS
<1>2. PICK added : added = [r EXCEPT !.acc = acc, !.finished = fin]
  OBVIOUS
<1>3. Chats(added) /\ added.done = r.done /\ added.dialect = r.dialect /\ added.finished = fin
  <2>1. DOMAIN added = SourceFields /\ added.dialect = r.dialect /\ added.queue = r.queue /\ added.em = r.em
    BY <1>2 DEF Chats, SourceFields
  <2>2. added.done = r.done /\ added.finished = fin
    BY <1>2 DEF Chats, SourceFields
  <2>. QED  BY <2>1, <2>2, ChatsOn
<1>4. PICK usage, d : usage = (c.usage /\ forwardUsage) /\ d = [c EXCEPT !.usage = usage]
  BY Zenon
<1>5. PICK frames : frames = <<ChunkFrame(d)>>
  BY Zenon
<1>6. IsChunk(d)
  BY <1>1, <1>4 DEF Sayable, IsChunk
<1>7. IsList(frames) /\ \A k \in DOMAIN frames : frames[k].type = "chunk" /\ IsChunk(frames[k].chunk)
  <2>1. IsList(frames) /\ DOMAIN frames = 1..1 /\ frames[1] = ChunkFrame(d)
    BY <1>5, OneIsAList
  <2>2. \A k \in DOMAIN frames : k = 1
    BY <2>1
  <2>. QED  BY <1>6, <2>1, <2>2 DEF ChunkFrame
<1>8. Chats(Hand(added, frames)) /\ Hand(added, frames).done = added.done
      /\ Hand(added, frames).dialect = added.dialect /\ Hand(added, frames).finished = added.finished
  BY <1>3, <1>7, HandsChunks DEF Beside
<1>9. OpenAIChunk(r, ev) = IF c.choice = None /\ c.usage /\ ~forwardUsage THEN added ELSE Hand(added, frames)
  BY <1>1, <1>2, <1>4, <1>5, Zenon DEF OpenAIChunk
<1>10. OpenAIChunk(r, ev).finished = fin
  BY <1>3, <1>8, <1>9
<1>11. OpenAIChunk(r, ev).finished => r.finished \/ ev.chunk.finish # NoFinish
  BY <1>1, <1>10, Zenon
<1>. QED  BY <1>3, <1>8, <1>9, <1>11

\* One event of a Gemini stream, and its end.
LEMMA GeminiIsHanded ==
    ASSUME Inv, NEW r, Chats(r), NEW ev, Sayable(ev), ev.type = "gemini"
    PROVE  /\ Chats(GeminiEvent(r, ev)) /\ GeminiEvent(r, ev).done = r.done
           /\ GeminiEvent(r, ev).dialect = r.dialect
           /\ GeminiEvent(r, ev).finished => r.finished \/ ev.block \/ ev.finish # NoFinish
<1>1. PICK g, usage, fin, acc :
         /\ g = GeminiChunks(r, ev) /\ usage = (r.usage \/ ev.usage)
         /\ fin = (r.finished \/ ev.block \/ ev.finish # NoFinish)
         /\ acc = FoldLeft(add, r.acc, g.out)
  OBVIOUS
<1>2. PICK told, frames : /\ told = [r EXCEPT !.role = TRUE, !.calls = g.calls, !.usage = usage,
                                              !.finished = fin, !.acc = acc]
                          /\ frames = [k \in DOMAIN g.out |-> ChunkFrame(g.out[k])]
  BY Zenon
<1>3. Chats(told) /\ told.done = r.done /\ told.dialect = r.dialect /\ told.finished = fin
  <2>1. DOMAIN told = SourceFields /\ told.dialect = r.dialect /\ told.queue = r.queue /\ told.em = r.em
    BY <1>2 DEF Chats, SourceFields
  <2>2. told.done = r.done /\ told.finished = fin
    BY <1>2 DEF Chats, SourceFields
  <2>. QED  BY <2>1, <2>2, ChatsOn
<1>4. Chunks(g.out)
  BY <1>1, GeminiGivesChunks DEF Sayable
<1>5. IsList(frames) /\ \A k \in DOMAIN frames : frames[k].type = "chunk" /\ IsChunk(frames[k].chunk)
  BY <1>2, <1>4, FramesOfChunks
<1>6. Chats(Hand(told, frames)) /\ Hand(told, frames).done = told.done
      /\ Hand(told, frames).dialect = told.dialect /\ Hand(told, frames).finished = told.finished
  BY <1>3, <1>5, HandsChunks DEF Beside
<1>7. GeminiEvent(r, ev) = Hand(told, frames)
  BY <1>1, <1>2, Zenon DEF GeminiEvent
<1>8. GeminiEvent(r, ev).finished = fin
  BY <1>3, <1>6, <1>7
<1>9. GeminiEvent(r, ev).finished => r.finished \/ ev.block \/ ev.finish # NoFinish
  BY <1>1, <1>8, Zenon
<1>. QED  BY <1>3, <1>6, <1>7, <1>9

LEMMA GeminiEndsCleanly ==
    ASSUME Inv, NEW r, Chats(r)
    PROVE  Ends(GeminiEnd(r)) /\ GeminiEnd(r).dialect = r.dialect
<1>1. PICK q, frames, h :
         /\ q = [r EXCEPT !.acc = add(r.acc, UsageChunk)]
         /\ frames = (IF forwardUsage THEN <<ChunkFrame(UsageChunk)>> ELSE <<>>)
         /\ h = (IF ~r.usage THEN r ELSE Hand(q, frames))
  BY Zenon
<1>2. Chats(q)
  <2>1. DOMAIN q = SourceFields /\ q.dialect = r.dialect /\ q.queue = r.queue /\ q.em = r.em
    BY <1>1 DEF Chats, SourceFields
  <2>. QED  BY <2>1, ChatsOn
<1>3. q.dialect = r.dialect
  BY <1>1 DEF Chats, SourceFields
<1>4. IsList(frames) /\ \A k \in DOMAIN frames : frames[k].type = "chunk" /\ IsChunk(frames[k].chunk)
  <2>1. CASE forwardUsage
    <3>1. PICK c : c = UsageChunk
      OBVIOUS
    <3>2. IsChunk(c)
      BY <3>1, NothingIsAList DEF UsageChunk, IsChunk, Chunk
    <3>3. IsList(frames) /\ DOMAIN frames = 1..1 /\ frames[1] = ChunkFrame(c)
      BY <1>1, <2>1, <3>1, OneIsAList
    <3>4. \A k \in DOMAIN frames : k = 1
      BY <3>3
    <3>. QED  BY <3>2, <3>3, <3>4 DEF ChunkFrame
  <2>2. CASE ~forwardUsage
    <3>1. frames = <<>>
      BY <1>1, <2>2
    <3>. QED  BY <3>1, NothingIsAList
  <2>. QED  BY <2>1, <2>2
<1>5. Chats(h) /\ h.dialect = r.dialect
  <2>1. Chats(Hand(q, frames)) /\ Beside(Hand(q, frames), q)
    BY <1>2, <1>4, HandsChunks
  <2>. QED  BY <1>1, <1>3, <2>1 DEF Beside
<1>6. GeminiEnd(r) = CleanEnd(h)
  BY <1>1, Zenon DEF GeminiEnd
<1>. QED  BY <1>5, <1>6, EndsCleanly

\* An event is handled.
LEMMA AdvanceEventsFit ==
    ASSUME Inv, EventsFit, stage = "reading", buf # <<>>, ~src.done, NEW r, NEW t, Advance(r, t),
           r.dialect = src.dialect, ~r.done => Chats(r), r.done => Ends(r)
    PROVE  EventsFit'
<1>1. /\ stage' = "reading" /\ call' = call /\ route' = route /\ seen' = seen /\ src' = r
  BY DEF Advance
<1>2. StreamFits(seen, src, buf, wire) /\ IsList(buf) /\ IsList(wire.queue)
  BY DEF EventsFit, Inv, WireFits
<1>3. DOMAIN r = SourceFields /\ r.dialect \in {"openai", "gemini"}
  BY DEF Chats, Ends
<1>4. SourceIs(r)
  BY <1>2, <1>3 DEF SourceIs, StreamFits
<1>5. Sayables(buf, wire)
  BY <1>2, <1>3 DEF StreamFits
<1>6. CASE r.done
  <2>1. buf' = <<>> /\ wire'.queue = <<>>
    BY <1>6 DEF Advance, CloseConn, Inv, WireFits
  <2>2. 1..Len(buf') = {} /\ 1..Len(wire'.queue) = {}
    BY <2>1, NothingIsAList
  <2>3. Sayables(buf', wire')
    BY <2>2 DEF Sayables
  <2>4. StreamFits(seen, r, buf', wire')
    BY <1>4, <1>6, <2>3 DEF StreamFits, Streaming, Ends, Talking
  <2>. QED  BY <1>1, <2>4, ReadsOn
<1>7. CASE ~r.done
  <2>1. buf' = Tail(buf) /\ wire' = wire
    BY <1>7 DEF Advance
  <2>2. Sayables(Tail(buf), wire)
    <3>1. Len(Tail(buf)) = Len(buf) - 1 /\ Len(buf) \in Nat /\ \A i \in 1..(Len(buf) - 1) : Tail(buf)[i] = buf[i + 1]
      BY <1>2, ListShrinks
    <3>2. \A i \in 1..Len(Tail(buf)) : i + 1 \in 1..Len(buf)
      BY <3>1
    <3>. QED  BY <1>5, <3>1, <3>2 DEF Sayables
  <2>3. StreamFits(seen, r, Tail(buf), wire)
    BY <1>3, <1>4, <1>7, <2>2 DEF StreamFits, Streaming, Chats, Talking
  <2>. QED  BY <1>1, <2>1, <2>3, ReadsOn
<1>. QED  BY <1>6, <1>7

LEMMA HandlesChats ==
    ASSUME Inv, EventsFit, NEW dialect \in {"openai", "gemini"}, Handles(dialect)
    PROVE  /\ stage = "reading" /\ buf # <<>> /\ ~src.done /\ src.dialect = dialect /\ Chats(src)
           /\ Sayable(Head(buf))
<1>1. stage = "reading" /\ buf # <<>> /\ ~src.done /\ src.dialect = dialect
  BY DEF Handles
<1>2. StreamFits(seen, src, buf, wire) /\ IsList(buf)
  BY <1>1 DEF EventsFit, Inv, WireFits
<1>3. Chats(src)
  BY <1>1, <1>2, CallIs DEF StreamFits, SourceIs, Streaming, Chats, Talking
<1>4. Sayables(buf, wire)
  BY <1>1, <1>2 DEF StreamFits
<1>5. Head(buf) = buf[1] /\ 1 \in 1..Len(buf)
  BY <1>1, <1>2, ListShrinks
<1>. QED  BY <1>1, <1>3, <1>4, <1>5 DEF Sayables

LEMMA OpenAIFits ==
    ASSUME Inv, EventsFit, OpenAINext
    PROVE  EventsFit'
<1>1. Handles("openai")
  BY DEF OpenAINext
<1>2. /\ stage = "reading" /\ buf # <<>> /\ ~src.done /\ Chats(src) /\ Sayable(Head(buf))
  BY <1>1, HandlesChats
<1>3. PICK ev : ev = Head(buf)
  OBVIOUS
<1>4. CASE ev.type = "chunk"
  <2>1. PICK r, t : r = OpenAIChunk(src, ev) /\ Advance(r, t)
    BY <1>3, <1>4, Zenon DEF OpenAINext
  <2>2. Chats(r) /\ r.done = src.done /\ r.dialect = src.dialect
    BY <1>2, <1>3, <1>4, <2>1, ChunkIsHanded
  <2>. QED  BY <1>2, <2>1, <2>2, AdvanceEventsFit
<1>5. CASE ev.type = "DONE"
  <2>1. PICK r, t : r = CleanEnd(src) /\ Advance(r, t)
    BY <1>3, <1>5, Zenon DEF OpenAINext
  <2>2. Ends(r) /\ r.dialect = src.dialect /\ r.done
    BY <1>2, <2>1, EndsCleanly DEF Ends
  <2>. QED  BY <1>2, <2>1, <2>2, AdvanceEventsFit
<1>6. CASE ev.type = "error"
  <2>1. EndsInError(streamErrorFromObject(ev))
    BY <1>3, <1>6, Zenon DEF OpenAINext
  <2>2. stage' = "over"
    BY <2>1 DEF EndsInError, EndsAs
  <2>. QED  BY <2>2, OverFits
<1>7. CASE ev.type \notin {"chunk", "DONE", "error"}
  <2>1. Advance(src, timer)
    BY <1>3, <1>7 DEF OpenAINext
  <2>. QED  BY <1>2, <2>1, AdvanceEventsFit
<1>. QED  BY <1>4, <1>5, <1>6, <1>7

LEMMA GeminiFits ==
    ASSUME Inv, EventsFit, GeminiNext
    PROVE  EventsFit'
<1>1. Handles("gemini")
  BY DEF GeminiNext
<1>2. /\ stage = "reading" /\ buf # <<>> /\ ~src.done /\ Chats(src) /\ Sayable(Head(buf))
  BY <1>1, HandlesChats
<1>3. PICK ev : ev = Head(buf)
  OBVIOUS
<1>4. CASE ev.type = "gemini"
  <2>1. PICK r, t : r = GeminiEvent(src, ev) /\ Advance(r, t)
    BY <1>3, <1>4, Zenon DEF GeminiNext
  <2>2. Chats(r) /\ r.done = src.done /\ r.dialect = src.dialect
    BY <1>2, <1>3, <1>4, <2>1, GeminiIsHanded
  <2>. QED  BY <1>2, <2>1, <2>2, AdvanceEventsFit
<1>5. CASE ev.type = "error"
  <2>1. EndsInError(streamErrorFromObject(ev))
    BY <1>3, <1>5, Zenon DEF GeminiNext
  <2>2. stage' = "over"
    BY <2>1 DEF EndsInError, EndsAs
  <2>. QED  BY <2>2, OverFits
<1>6. CASE ev.type \notin {"gemini", "error"}
  <2>1. Advance(src, timer)
    BY <1>3, <1>6 DEF GeminiNext
  <2>. QED  BY <1>2, <2>1, AdvanceEventsFit
<1>. QED  BY <1>4, <1>5, <1>6

\* The first event that was read is the next of the script.
LEMMA NextOfScript ==
    ASSUME NEW b, IsList(b), b # <<>>, NEW w, IsList(w.queue), NEW n, Follows(b, w, n)
    PROVE  /\ n \in Nat /\ n < Len(w.script) /\ Head(b) = w.script[n + 1] /\ Follows(Tail(b), w, n + 1)
           /\ IsList(w.script)
<1>1. /\ Len(b) \in Nat \ {0} /\ Len(Tail(b)) = Len(b) - 1 /\ Head(b) = b[1] /\ Len(w.queue) \in Nat
      /\ \A i \in 1..(Len(b) - 1) : Tail(b)[i] = b[i + 1]
  BY ListShrinks, ListHas
<1>2. /\ w.script \in Scripts /\ n \in Nat /\ n + Len(b) + Len(w.queue) = w.sent /\ w.sent <= Len(w.script)
      /\ \A i \in 1..Len(b) : b[i] = w.script[n + i]
      /\ \A i \in 1..Len(w.queue) : w.queue[i] = w.script[n + Len(b) + i]
  BY Zenon DEF Follows
<1>3. IsList(w.script)
  BY <1>2, ScriptsAssumption
<1>4. Len(w.script) \in Nat
  BY <1>3, ListHas
<1>0. PICK p, q, l, m : p = Len(b) /\ q = Len(w.queue) /\ l = Len(w.script) /\ m = Len(Tail(b))
  BY Zenon
<1>. p \in Nat \ {0} /\ q \in Nat /\ l \in Nat /\ m = p - 1 /\ n \in Nat
  BY <1>0, <1>1, <1>2, <1>4
<1>10. n + p + q = w.sent /\ w.sent <= l
  BY <1>0, <1>2, Zenon
<1>5. n < Len(w.script) /\ Head(b) = w.script[n + 1]
  <2>1. n < l /\ 1 \in 1..p
    BY <1>10
  <2>2. b[1] = w.script[n + 1]
    BY <1>0, <1>2, <2>1
  <2>. QED  BY <1>0, <1>1, <2>1, <2>2
<1>6. \A i \in 1..Len(Tail(b)) : Tail(b)[i] = w.script[(n + 1) + i]
  <2>. TAKE i \in 1..Len(Tail(b))
  <2>1. i \in 1..(Len(b) - 1) /\ i + 1 \in 1..Len(b) /\ n + (i + 1) = (n + 1) + i
    BY <1>1, <1>2
  <2>. QED  BY <1>1, <1>2, <2>1
<1>7. \A i \in 1..Len(w.queue) : w.queue[i] = w.script[(n + 1) + Len(Tail(b)) + i]
  <2>. TAKE i \in 1..Len(w.queue)
  <2>1. (n + 1) + Len(Tail(b)) + i = n + Len(b) + i
    BY <1>1, <1>2
  <2>. QED  BY <1>2, <2>1
<1>8. (n + 1) + Len(Tail(b)) + Len(w.queue) = w.sent /\ n + 1 \in Nat
  <2>1. (n + 1) + m + q = w.sent /\ n + 1 \in Nat
    BY <1>10
  <2>. QED  BY <1>0, <2>1, Zenon
<1>9. Follows(Tail(b), w, n + 1)
  BY <1>2, <1>6, <1>7, <1>8, Zenon DEF Follows
<1>. QED  BY <1>2, <1>3, <1>5, <1>9

\* The source after an event that is passed on.
IsPassed(u, r, f) ==
    /\ DOMAIN u = SourceFields /\ u.dialect = r.dialect /\ u.queue = Append(r.queue, f)
    /\ u.lastSeq = f.seq /\ u.finished = r.finished /\ u.acc = r.acc /\ u.em = r.em
    /\ f.type \in LastEvents => u.done
    /\ f.type \notin LastEvents => u.done = r.done /\ (u.output <=> r.output \/ isResponsesOutputEvent(f))
LEMMA PassedOn ==
    ASSUME NEW r, DOMAIN r = SourceFields, NEW ev, NEW u, u = PassEvent(r, ev)
    PROVE  IsPassed(u, r, ev.frame)
<1>1. PICK q, o, x : /\ q = Append(r.queue, ev.frame) /\ o = (r.output \/ isResponsesOutputEvent(ev.frame))
                     /\ x = [status |-> ev.frame.type, output |-> ev.frame.fields.output]
  BY Zenon
<1>2. PICK told : told = [r EXCEPT !.queue = q, !.lastSeq = ev.frame.seq]
  OBVIOUS
<1>3. /\ DOMAIN told = SourceFields /\ told.dialect = r.dialect /\ told.queue = q /\ told.done = r.done
      /\ told.lastSeq = ev.frame.seq /\ told.output = r.output /\ told.finished = r.finished
      /\ told.acc = r.acc /\ told.em = r.em
  BY <1>2 DEF SourceFields
<1>4. u = IF ev.frame.type \in LastEvents THEN [told EXCEPT !.final = x, !.done = TRUE] ELSE [told EXCEPT !.output = o]
  BY <1>1, <1>2, <1>3, Zenon DEF PassEvent
<1>5. CASE ev.frame.type \in LastEvents
  BY <1>1, <1>3, <1>4, <1>5, Zenon DEF SourceFields, IsPassed
<1>6. CASE ev.frame.type \notin LastEvents
  BY <1>1, <1>3, <1>4, <1>6, Zenon DEF SourceFields, IsPassed
<1>. QED  BY <1>5, <1>6

\* What a client can take leaves the response open, unless it is the end.
LEMMA StaysOpen ==
    ASSUME NEW t, IsClient(t), NEW f, Proper(t, f), f.type \notin LastEvents
    PROVE  TakeEvent(t, f).phase = "open"
<1>1. f.type \in {"created", "in_progress", "part_added", "part_done", "text_done", "item_added", "delta", "item_done"}
  BY DEF Proper, Continues
<1>. QED  BY <1>1, Created, Noted, Announced, Grown, Finished

LEMMA PassFits ==
    ASSUME Inv, EventsFit, PassNext
    PROVE  EventsFit'
<1>1. /\ stage = "reading" /\ src.queue = <<>> /\ ~src.done /\ buf # <<>> /\ src.dialect = "pass"
  BY DEF PassNext, Handles, Queue
<1>2. StreamFits(seen, src, buf, wire) /\ IsList(buf) /\ IsList(wire.queue)
  BY <1>1 DEF EventsFit, Inv, WireFits
<1>3. SourceIs(src) /\ DOMAIN src = SourceFields /\ call.op = "responses" /\ ~ViaChat
  BY <1>1, <1>2 DEF StreamFits, SourceIs
<1>4. Passing(seen, src, buf, wire)
  BY <1>1, <1>2, <1>3 DEF StreamFits, Streaming
<1>5. PICK t : /\ Leads(seen, src.queue, t) /\ t.phase \in {"new", "open"} /\ t.next = src.lastSeq + 1
               /\ \E n : Follows(buf, wire, n) /\ At(wire.script, n, t)
  BY <1>4 DEF Passing
<1>6. PICK n : Follows(buf, wire, n) /\ At(wire.script, n, t)
  BY <1>5
<1>7. PICK ev : ev = Head(buf)
  OBVIOUS
<1>8. n \in Nat /\ n < Len(wire.script) /\ ev = wire.script[n + 1] /\ Follows(Tail(buf), wire, n + 1)
      /\ IsList(wire.script)
  BY <1>1, <1>2, <1>6, <1>7, NextOfScript
<1>9. /\ ev.type # "pass" => At(wire.script, n + 1, t)
      /\ ev.type = "pass" => CanTake(t, ev.frame) /\ At(wire.script, n + 1, TakeEvent(t, ev.frame))
  BY <1>6, <1>8, ScriptGoesOn
<1>10. CASE ev.type # "pass"
  <2>1. Advance(src, timer)
    BY <1>7, <1>10 DEF PassNext
  <2>2. /\ stage' = "reading" /\ call' = call /\ route' = route /\ seen' = seen /\ src' = src
        /\ buf' = Tail(buf) /\ wire' = wire
    BY <1>1, <2>1 DEF Advance
  <2>3. Passing(seen, src, Tail(buf), wire)
    BY <1>4, <1>5, <1>8, <1>9, <1>10 DEF Passing
  <2>4. StreamFits(seen, src, Tail(buf), wire)
    BY <1>1, <1>3, <2>3 DEF StreamFits, Streaming
  <2>. QED  BY <2>2, <2>4, ReadsOn
<1>11. CASE ev.type = "pass" /\ ev.frame.type = "error"
  <2>1. EndsInError(streamErrorFromObject(ev))
    BY <1>7, <1>11, Zenon DEF PassNext
  <2>2. stage' = "over"
    BY <2>1 DEF EndsInError, EndsAs
  <2>. QED  BY <2>2, OverFits
<1>12. CASE ev.type = "pass" /\ ev.frame.type # "error"
  <2>1. PICK f, u, k : f = ev.frame /\ u = PassEvent(src, ev) /\ Advance(u, k)
    BY <1>7, <1>12, Zenon DEF PassNext
  <2>2. Proper(t, f)
    BY <1>9, <1>12, <2>1 DEF CanTake
  <2>3. /\ DOMAIN u = SourceFields /\ u.dialect = "pass" /\ u.queue = Append(src.queue, f) /\ u.lastSeq = f.seq
        /\ f.type \in LastEvents => u.done
        /\ f.type \notin LastEvents => u.done = src.done
    <3>1. u = PassEvent(src, ev) /\ DOMAIN src = SourceFields
      BY <1>3, <2>1
    <3>2. IsPassed(u, src, ev.frame)
      BY <3>1, PassedOn, Zenon
    <3>. QED  BY <1>1, <2>1, <3>2 DEF IsPassed
  <2>4. PICK v : v = TakeEvent(t, f)
    OBVIOUS
  <2>5. IsList(src.queue) /\ IsClient(t)
    BY <1>1, <1>5, NothingIsAList, LeadsToClients, Zenon
  <2>6. Leads(seen, u.queue, v)
    BY <1>5, <2>2, <2>3, <2>4, <2>5, LeadsOn
  <2>7. IsList(u.queue)
    BY <2>3, <2>5, ListGrows
  <2>8. v.next = u.lastSeq + 1
    <3>1. IsSeen(t) /\ t.next \in Nat /\ t.next = f.seq
      BY <2>2, <2>5 DEF IsClient, Proper
    <3>2. v.next = f.seq + 1
      BY <2>4, <3>1, TakenIs, Zenon
    <3>. QED  BY <2>3, <3>2
  <2>9. /\ stage' = "reading" /\ call' = call /\ route' = route /\ seen' = seen /\ src' = u
    BY <1>1, <2>1 DEF Advance
  <2>10. SourceIs(u)
    BY <1>3, <2>3 DEF SourceIs
  <2>11. CASE f.type \in LastEvents
    <3>1. v.phase = "complete" /\ u.done
      BY <2>2, <2>3, <2>4, <2>5, <2>11, Completed
    <3>2. StreamFits(seen, u, buf', wire')
      BY <1>3, <2>3, <2>6, <2>7, <2>10, <3>1 DEF StreamFits, Streaming, Completing
    <3>. QED  BY <2>9, <3>2, ReadsOn
  <2>12. CASE f.type \notin LastEvents
    <3>1. v.phase = "open" /\ ~u.done
      BY <1>1, <2>2, <2>3, <2>4, <2>5, <2>12, StaysOpen
    <3>2. buf' = Tail(buf) /\ wire' = wire
      BY <2>1, <3>1 DEF Advance
    <3>3. At(wire.script, n + 1, v)
      BY <1>9, <1>12, <2>1, <2>4
    <3>4. Passing(seen, u, Tail(buf), wire)
      BY <1>8, <2>6, <2>7, <2>8, <3>1, <3>3 DEF Passing
    <3>5. StreamFits(seen, u, Tail(buf), wire)
      BY <1>3, <2>3, <2>10, <3>1, <3>4 DEF StreamFits, Streaming
    <3>. QED  BY <2>9, <3>2, <3>5, ReadsOn
  <2>. QED  BY <2>11, <2>12
<1>. QED  BY <1>10, <1>11, <1>12

\* The end of the body, clean or not.
LEMMA BodyEndsCleanly ==
    ASSUME Inv, EventsFit, BodyEnds, stage' # "over"
    PROVE  /\ stage = "reading" /\ stage' = "reading" /\ call' = call /\ route' = route /\ seen' = seen
           /\ buf' = <<>> /\ wire'.queue = <<>>
           /\ Ends(src') /\ src'.dialect = src.dialect /\ src.dialect \in {"openai", "gemini"}
<1>1. stage = "reading" /\ ~src.done
  BY DEF BodyEnds, Waiting
<1>2. PICK r : /\ r = CASE src.dialect = "openai" -> OpenAIBodyEnds(src)
                        [] src.dialect = "gemini" -> GeminiBodyEnds(src)
                        [] OTHER                  -> PassBodyEnds(src)
               /\ IF r.err = NoError
                  THEN src' = r.src /\ CloseConn /\ UNCHANGED <<call, route, stage, ctx, end, seen, committed, hold, holds>>
                  ELSE EndsInError(r.err)
  BY Zenon DEF BodyEnds
<1>3. r.err = NoError
  <2>1. EndsInError(r.err) => stage' = "over"
    BY DEF EndsInError, EndsAs
  <2>. QED  BY <1>2, <2>1
<1>4. /\ src' = r.src /\ stage' = "reading" /\ call' = call /\ route' = route /\ seen' = seen
      /\ buf' = <<>> /\ wire'.queue = <<>>
  BY <1>1, <1>2, <1>3 DEF CloseConn, Inv, WireFits
<1>5. StreamError(502, <<>>) # NoError
  BY DEF StreamError, NoError
<1>6. src.dialect \in {"openai", "gemini"} /\ r.src = IF src.dialect = "openai" THEN CleanEnd(src) ELSE GeminiEnd(src)
  <2>1. CASE src.dialect = "openai"
    <3>1. r = OpenAIBodyEnds(src)
      BY <1>2, <2>1
    <3>2. src.finished
      BY <1>3, <1>5, <3>1 DEF OpenAIBodyEnds
    <3>. QED  BY <2>1, <3>1, <3>2 DEF OpenAIBodyEnds
  <2>2. CASE src.dialect = "gemini"
    <3>1. r = GeminiBodyEnds(src)
      BY <1>2, <2>2
    <3>2. src.finished
      BY <1>3, <1>5, <3>1 DEF GeminiBodyEnds
    <3>. QED  BY <2>2, <3>1, <3>2 DEF GeminiBodyEnds
  <2>3. CASE src.dialect \notin {"openai", "gemini"}
    <3>1. r = PassBodyEnds(src)
      BY <1>2, <2>3
    <3>. QED  BY <1>3, <1>5, <3>1 DEF PassBodyEnds
  <2>. QED  BY <2>1, <2>2, <2>3
<1>7. StreamFits(seen, src, buf, wire)
  BY <1>1 DEF EventsFit
<1>8. Chats(src)
  BY <1>1, <1>6, <1>7, CallIs DEF StreamFits, SourceIs, Streaming, Chats, Talking
<1>9. Ends(src') /\ src'.dialect = src.dialect
  BY <1>4, <1>6, <1>8, EndsCleanly, GeminiEndsCleanly
<1>. QED  BY <1>1, <1>4, <1>6, <1>9

LEMMA BodyEndsFits ==
    ASSUME Inv, EventsFit, BodyEnds
    PROVE  EventsFit'
<1>1. CASE stage' = "over"
  BY <1>1, OverFits
<1>2. CASE stage' # "over"
  <2>1. /\ stage = "reading" /\ stage' = "reading" /\ call' = call /\ route' = route /\ seen' = seen
        /\ buf' = <<>> /\ wire'.queue = <<>> /\ Ends(src') /\ src'.dialect = src.dialect
        /\ src.dialect \in {"openai", "gemini"}
    BY <1>2, BodyEndsCleanly
  <2>2. StreamFits(seen, src, buf, wire)
    BY <2>1 DEF EventsFit
  <2>3. SourceIs(src')
    BY <2>1, <2>2 DEF SourceIs, StreamFits, Ends
  <2>4. 1..Len(buf') = {} /\ 1..Len(wire'.queue) = {}
    BY <2>1, NothingIsAList
  <2>5. Sayables(buf', wire')
    BY <2>4 DEF Sayables
  <2>6. StreamFits(seen, src', buf', wire')
    BY <2>1, <2>3, <2>5 DEF StreamFits, Streaming, Ends, Talking
  <2>. QED  BY <2>1, <2>6, ReadsOn
<1>. QED  BY <1>1, <1>2

LEMMA EventsKeepFitting == Inv /\ EventsFit /\ [Next]_vars => EventsFit'
<1>. SUFFICES ASSUME Inv, EventsFit, [Next]_vars PROVE EventsFit'
  OBVIOUS
<1>1. CASE UNCHANGED vars
  BY <1>1 DEF vars, EventsFit, StreamFits, SourceIs, ViaChat, Sayables, Sayable, Streaming, Passing
<1>2. CASE AnswersWhole \/ FallsBackToChat
  BY <1>2 DEF AnswersWhole, FallsBackToChat, EventsFit
<1>3. CASE ConnectFails \/ ReplyFails \/ ReplyIsJudged \/ ReadFails \/ Completes \/ WriteFails
  <2>1. stage' = "over"
    BY <1>3 DEF ConnectFails, ReplyFails, ReplyIsJudged, ReadFails, Completes, WriteFails, EndsInFailure,
                EndsInError, EndsAs
  <2>. QED  BY <2>1, OverFits
<1>4. CASE ProviderEnds
  <2>1. PICK how : wire' = [wire EXCEPT !.over = how]
    BY <1>4, Zenon DEF ProviderEnds
  <2>2. wire'.queue = wire.queue /\ wire'.sent = wire.sent /\ wire'.script = wire.script
    BY <2>1 DEF Inv, WireFits
  <2>. QED  BY <1>4, <2>2, LeavesFits DEF ProviderEnds, Streams
<1>5. CASE ClientHolds \/ ClientTakes \/ CallerLeaves \/ Tick
  <2>1. /\ stage' = stage /\ call' = call /\ route' = route /\ seen' = seen /\ src' = src /\ buf' = buf
        /\ wire' = wire /\ committed' = committed
    BY <1>5 DEF ClientHolds, ClientTakes, CallerLeaves, Tick
  <2>2. CASE stage = "reading"
    BY <2>1, <2>2, LeavesFits
  <2>3. CASE stage # "reading"
    BY <2>1, <2>3, EarlyFits
  <2>. QED  BY <2>2, <2>3
<1>. QED  BY <1>1, <1>2, <1>3, <1>4, <1>5, OpensFits, WholeFits, RefusalFits, WritesFits, ReadEventsFit, OpenAIFits,
             GeminiFits, PassFits, BodyEndsFits, HandOverFits DEF Next, Begin, Provider, Reader, Others

LEMMA EventsFitFirst == Init => EventsFit
  BY DEF Init, EventsFit

-----------------------------------------------------------------------------
(* What a Responses client relies on *)

\* The items a client shows, and what may become of them and of the response.
Shown(s) ==
    [i \in DOMAIN s.items |-> [id |-> s.items[i].id, kind |-> s.items[i].kind,
                               text |-> s.items[i].text, done |-> s.items[i].done]]
Adds(a, b) ==
    Len(b) = Len(a) + 1 /\ SubSeq(b, 1, Len(a)) = a /\ ~b[Len(b)].done /\ b[Len(b)].text = <<>>
Grows(a, b) ==
    \E i \in DOMAIN a :
        /\ ~a[i].done /\ Len(b[i].text) > Len(a[i].text)
        /\ SubSeq(b[i].text, 1, Len(a[i].text)) = a[i].text
        /\ b = [a EXCEPT ![i].text = b[i].text]
Closes(a, b) == \E i \in DOMAIN a : ~a[i].done /\ b = [a EXCEPT ![i].done = TRUE]
Moves(p, q, a, b) ==
    \/ p \in {"new", "open"} /\ q = "open" /\ b = a
    \/ p = "open" /\ q = "open" /\ (Adds(a, b) \/ Grows(a, b) \/ Closes(a, b))
    \/ p = "open" /\ q = "complete" /\ b = a /\ \A i \in DOMAIN a : a[i].done
    \/ p \in {"new", "open"} /\ q = "failed" /\ b = a

LEMMA ShownIs ==
    ASSUME NEW s, IsClient(s), NEW a, a = Shown(s)
    PROVE  /\ IsList(a) /\ Len(a) = Len(s.items) /\ Len(a) \in Nat /\ DOMAIN a = 1..Len(a)
           /\ \A i \in 1..Len(a) : a[i] = [id |-> s.items[i].id, kind |-> s.items[i].kind,
                                           text |-> s.items[i].text, done |-> s.items[i].done]
<1>1. PICK n : n = Len(s.items)
  BY Zenon
<1>2. n \in Nat /\ DOMAIN s.items = 1..n
  BY <1>1, ListHas DEF IsClient
<1>3. a = [i \in 1..n |-> a[i]]
  BY <1>2 DEF Shown
<1>4. IsList(a) /\ Len(a) = n /\ DOMAIN a = 1..n
  BY <1>2, <1>3, ListIs
<1>. QED  BY <1>1, <1>2, <1>4 DEF Shown

LEMMA PrefixIs ==
    ASSUME NEW a, IsList(a), NEW b, IsList(b), Len(a) <= Len(b), \A i \in 1..Len(a) : b[i] = a[i]
    PROVE  SubSeq(b, 1, Len(a)) = a
<1>1. PICK S : S = {b[i] : i \in DOMAIN b}
  BY Zenon
<1>2. b \in Seq(S)
  BY <1>1 DEF IsList
<1>3. PICK n, m : n = Len(a) /\ m = Len(b) /\ n \in Nat /\ m \in Nat
  BY ListHas, Zenon
<1>4. a = [i \in 1..n |-> a[i]]
  BY <1>3, ListHas
<1>5. SubSeq(b, 1, n) = [i \in 1..n |-> b[i]]
  BY <1>2, <1>3
<1>. QED  BY <1>3, <1>4, <1>5, Zenon

LEMMA ChangedIs ==
    ASSUME NEW a, IsList(a), NEW i \in 1..Len(a), NEW b, IsList(b), Len(b) = Len(a),
           \A j \in 1..Len(a) : j # i => b[j] = a[j], NEW x, x = b[i]
    PROVE  b = [a EXCEPT ![i] = x]
<1>1. PICK c : c = Changed(a, i, x)
  OBVIOUS
<1>2. IsList(c) /\ Len(c) = Len(a) /\ c[i] = x /\ \A j \in 1..Len(a) : j # i => c[j] = a[j]
  BY <1>1, ListChanges
<1>3. c = [j \in 1..Len(a) |-> c[j]] /\ b = [j \in 1..Len(a) |-> b[j]]
  BY <1>2, ListHas
<1>4. \A j \in 1..Len(a) : c[j] = b[j]
  BY <1>2
<1>5. b = c
  BY <1>3, <1>4
<1>. QED  BY <1>1, <1>5 DEF Changed

LEMMA AddsItem ==
    ASSUME NEW s, IsClient(s), NEW f, Proper(s, f), f.type = "item_added", NEW t, t = TakeEvent(s, f)
    PROVE  Adds(Shown(s), Shown(t))
<1>1. IsClient(t) /\ t.items = TakeItem(s.items, f.fields)
  BY ClientStays, Announced
<1>2. PICK a, b, n : a = Shown(s) /\ b = Shown(t) /\ n = Len(s.items)
  BY Zenon
<1>3. /\ IsList(a) /\ Len(a) = n /\ n \in Nat
      /\ \A i \in 1..n : a[i] = [id |-> s.items[i].id, kind |-> s.items[i].kind,
                                 text |-> s.items[i].text, done |-> s.items[i].done]
  BY <1>2, ShownIs
<1>4. /\ Len(t.items) = n + 1 /\ \A i \in 1..n : t.items[i] = s.items[i]
      /\ t.items[n + 1] = [kind |-> f.fields.kind, id |-> f.fields.id, own |-> f.fields.own, text |-> <<>>,
                           sig |-> Missing, done |-> FALSE]
  BY <1>1, <1>2, ItemTaken DEF IsClient
<1>5. /\ IsList(b) /\ Len(b) = n + 1
      /\ \A i \in 1..(n + 1) : b[i] = [id |-> t.items[i].id, kind |-> t.items[i].kind,
                                       text |-> t.items[i].text, done |-> t.items[i].done]
  BY <1>1, <1>2, <1>4, ShownIs
<1>6. \A i \in 1..n : b[i] = a[i]
  BY <1>3, <1>4, <1>5
<1>7. SubSeq(b, 1, n) = a
  <2>1. Len(a) <= Len(b) /\ \A i \in 1..Len(a) : b[i] = a[i]
    BY <1>3, <1>5, <1>6
  <2>. QED  BY <1>3, <1>5, <2>1, PrefixIs
<1>8. ~b[n + 1].done /\ b[n + 1].text = <<>>
  BY <1>3, <1>4, <1>5
<1>. QED  BY <1>2, <1>3, <1>5, <1>7, <1>8 DEF Adds

\* A record that shows an item, one field changed.
LEMMA ShownChanges ==
    \A i, k, x, d, u :
        /\ [[id |-> i, kind |-> k, text |-> x, done |-> d] EXCEPT !.text = u] =
              [id |-> i, kind |-> k, text |-> u, done |-> d]
        /\ [[id |-> i, kind |-> k, text |-> x, done |-> d] EXCEPT !.done = u] =
              [id |-> i, kind |-> k, text |-> x, done |-> u]
  OBVIOUS

LEMMA GrowsItem ==
    ASSUME NEW s, IsClient(s), NEW f, Proper(s, f), f.type = "delta", NEW t, t = TakeEvent(s, f)
    PROVE  Grows(Shown(s), Shown(t))
<1>1. IsClient(t) /\ t.items = TakeDelta(s.items, f.fields)
  BY ClientStays, Grown
<1>2. PICK a, b, n, i, d : /\ a = Shown(s) /\ b = Shown(t) /\ n = Len(s.items)
                           /\ i = f.fields.index /\ d = f.fields.text
  BY Zenon
<1>3. i \in 1..n /\ ~s.items[i].done /\ IsList(d) /\ d # <<>>
  BY <1>2 DEF Proper, Continues, LastEvents
<1>4. /\ IsList(a) /\ Len(a) = n /\ n \in Nat /\ DOMAIN a = 1..n
      /\ \A j \in 1..n : a[j] = [id |-> s.items[j].id, kind |-> s.items[j].kind,
                                 text |-> s.items[j].text, done |-> s.items[j].done]
  BY <1>2, ShownIs
<1>5. PICK x, y : x = s.items[i] /\ y = [x EXCEPT !.text = x.text \o d]
  BY Zenon
<1>6. IsHeld(x) /\ IsList(s.items)
  BY <1>2, <1>3, <1>5 DEF IsClient
<1>7. y.text = x.text \o d /\ y.id = x.id /\ y.kind = x.kind /\ y.done = x.done
  BY <1>5, <1>6, Zenon DEF IsHeld
<1>8. t.items = Changed(s.items, i, y)
  <2>1. t.items = [s.items EXCEPT ![f.fields.index] =
                      [s.items[f.fields.index] EXCEPT !.text = s.items[f.fields.index].text \o f.fields.text]]
    BY <1>1, <1>2, <1>3, <1>6, DeltaTaken, Zenon
  <2>. QED  BY <1>2, <1>5, <2>1, Zenon DEF Changed
<1>9. Len(t.items) = n /\ t.items[i] = y /\ \A j \in 1..n : j # i => t.items[j] = s.items[j]
  BY <1>2, <1>3, <1>6, <1>8, ListChanges
<1>10. /\ IsList(b) /\ Len(b) = n
       /\ \A j \in 1..n : b[j] = [id |-> t.items[j].id, kind |-> t.items[j].kind,
                                  text |-> t.items[j].text, done |-> t.items[j].done]
  BY <1>1, <1>2, <1>9, ShownIs
<1>11. \A j \in 1..n : j # i => b[j] = a[j]
  BY <1>4, <1>9, <1>10
<1>12. PICK z : z = [a[i] EXCEPT !.text = b[i].text]
  BY Zenon
<1>13. /\ a[i] = [id |-> x.id, kind |-> x.kind, text |-> x.text, done |-> x.done]
       /\ b[i] = [id |-> y.id, kind |-> y.kind, text |-> y.text, done |-> y.done]
  <2>1. a[i] = [id |-> x.id, kind |-> x.kind, text |-> x.text, done |-> x.done]
    BY <1>3, <1>4, <1>5
  <2>2. b[i] = [id |-> t.items[i].id, kind |-> t.items[i].kind, text |-> t.items[i].text, done |-> t.items[i].done]
    BY <1>3, <1>10
  <2>3. t.items[i] = y
    BY <1>9
  <2>4. b[i] = [id |-> y.id, kind |-> y.kind, text |-> y.text, done |-> y.done]
    BY <2>2, <2>3, Zenon
  <2>. QED  BY <2>1, <2>4
<1>14. b[i] = z
  <2>1. b[i].text = y.text
    BY <1>13
  <2>2. z = [id |-> x.id, kind |-> x.kind, text |-> y.text, done |-> x.done]
    <3>1. [[id |-> x.id, kind |-> x.kind, text |-> x.text, done |-> x.done] EXCEPT !.text = y.text]
             = [id |-> x.id, kind |-> x.kind, text |-> y.text, done |-> x.done]
      BY ShownChanges
    <3>2. z = [[id |-> x.id, kind |-> x.kind, text |-> x.text, done |-> x.done] EXCEPT !.text = y.text]
      BY <1>12, <1>13, <2>1, Zenon
    <3>. QED  BY <3>1, <3>2, Zenon
  <2>. QED  BY <1>7, <1>13, <2>2, Zenon
<1>15. b = [a EXCEPT ![i] = z]
  BY <1>3, <1>4, <1>10, <1>11, <1>14, ChangedIs
<1>16. ~a[i].done /\ a[i].text = x.text /\ b[i].text = x.text \o d
  BY <1>3, <1>5, <1>7, <1>13
<1>17. IsList(x.text) /\ Len(x.text \o d) > Len(x.text) /\ SubSeq(x.text \o d, 1, Len(x.text)) = x.text
  <2>1. IsList(x.text)
    BY <1>6 DEF IsHeld
  <2>2. Len(d) \in Nat \ {0}
    BY <1>3, ListShrinks
  <2>3. PICK p, q : p = x.text /\ q = x.text \o d
    BY Zenon
  <2>4. Len(q) = Len(p) + Len(d) /\ Len(p) \in Nat /\ SubSeq(q, 1, Len(p)) = p
    BY <1>3, <2>1, <2>3, ListsJoin, Zenon
  <2>5. Len(q) > Len(p)
    BY <2>2, <2>4
  <2>. QED  BY <2>1, <2>3, <2>4, <2>5
<1>18. b = [a EXCEPT ![i].text = b[i].text]
  BY <1>12, <1>15, Zenon
<1>. QED  BY <1>2, <1>3, <1>4, <1>16, <1>17, <1>18, Zenon DEF Grows

LEMMA ClosesItem ==
    ASSUME NEW s, IsClient(s), NEW f, Proper(s, f), f.type = "item_done", NEW t, t = TakeEvent(s, f)
    PROVE  Closes(Shown(s), Shown(t))
<1>1. IsClient(t) /\ t.items = TakeDone(s.items, f.fields)
  BY ClientStays, Finished
<1>2. PICK a, b, n, i, d : /\ a = Shown(s) /\ b = Shown(t) /\ n = Len(s.items)
                           /\ i = f.fields.index /\ d = f.fields.sig
  BY Zenon
<1>3. i \in 1..n /\ ~s.items[i].done
  BY <1>2 DEF Proper, Continues, LastEvents
<1>4. /\ IsList(a) /\ Len(a) = n /\ n \in Nat /\ DOMAIN a = 1..n
      /\ \A j \in 1..n : a[j] = [id |-> s.items[j].id, kind |-> s.items[j].kind,
                                 text |-> s.items[j].text, done |-> s.items[j].done]
  BY <1>2, ShownIs
<1>5. PICK x, y : x = s.items[i] /\ y = [x EXCEPT !.done = TRUE, !.sig = d]
  OBVIOUS
<1>6. IsHeld(x) /\ IsList(s.items)
  BY <1>2, <1>3, <1>5 DEF IsClient
<1>7. y.text = x.text /\ y.id = x.id /\ y.kind = x.kind /\ y.done = TRUE
  BY <1>5, <1>6 DEF IsHeld
<1>8. t.items = Changed(s.items, i, y)
  <2>1. t.items = [s.items EXCEPT ![f.fields.index] =
                      [s.items[f.fields.index] EXCEPT !.done = TRUE, !.sig = f.fields.sig]]
    BY <1>1, <1>2, <1>3, <1>6, DoneTaken
  <2>. QED  BY <1>2, <1>5, <2>1, Zenon DEF Changed
<1>9. Len(t.items) = n /\ t.items[i] = y /\ \A j \in 1..n : j # i => t.items[j] = s.items[j]
  BY <1>2, <1>3, <1>6, <1>8, ListChanges
<1>10. /\ IsList(b) /\ Len(b) = n
       /\ \A j \in 1..n : b[j] = [id |-> t.items[j].id, kind |-> t.items[j].kind,
                                  text |-> t.items[j].text, done |-> t.items[j].done]
  BY <1>1, <1>2, <1>9, ShownIs
<1>11. \A j \in 1..n : j # i => b[j] = a[j]
  BY <1>4, <1>9, <1>10
<1>12. PICK u, z : u = TRUE /\ z = [a[i] EXCEPT !.done = u]
  BY Zenon
<1>13. /\ a[i] = [id |-> x.id, kind |-> x.kind, text |-> x.text, done |-> x.done]
       /\ b[i] = [id |-> y.id, kind |-> y.kind, text |-> y.text, done |-> y.done]
  <2>1. a[i] = [id |-> x.id, kind |-> x.kind, text |-> x.text, done |-> x.done]
    BY <1>3, <1>4, <1>5
  <2>2. b[i] = [id |-> t.items[i].id, kind |-> t.items[i].kind, text |-> t.items[i].text, done |-> t.items[i].done]
    BY <1>3, <1>10
  <2>3. t.items[i] = y
    BY <1>9
  <2>4. b[i] = [id |-> y.id, kind |-> y.kind, text |-> y.text, done |-> y.done]
    BY <2>2, <2>3, Zenon
  <2>. QED  BY <2>1, <2>4
<1>14. b[i] = z
  <2>1. z = [id |-> x.id, kind |-> x.kind, text |-> x.text, done |-> TRUE]
    <3>1. [[id |-> x.id, kind |-> x.kind, text |-> x.text, done |-> x.done] EXCEPT !.done = u]
             = [id |-> x.id, kind |-> x.kind, text |-> x.text, done |-> u]
      BY ShownChanges
    <3>2. z = [[id |-> x.id, kind |-> x.kind, text |-> x.text, done |-> x.done] EXCEPT !.done = u]
      BY <1>12, <1>13, Zenon
    <3>. QED  BY <1>12, <3>1, <3>2, Zenon
  <2>. QED  BY <1>7, <1>13, <2>1, Zenon
<1>15. b = [a EXCEPT ![i] = z]
  BY <1>3, <1>4, <1>10, <1>11, <1>14, ChangedIs
<1>16. ~a[i].done
  BY <1>3, <1>5, <1>13
<1>17. b = [a EXCEPT ![i].done = TRUE]
  BY <1>12, <1>15, Zenon
<1>. QED  BY <1>2, <1>3, <1>4, <1>16, <1>17, Zenon DEF Closes

\* An event that can be taken moves a client as the promise says.
LEMMA ProperMoves ==
    ASSUME NEW s, IsClient(s), NEW f, Proper(s, f), NEW t, t = TakeEvent(s, f)
    PROVE  t.next = s.next + 1 /\ Moves(s.phase, t.phase, Shown(s), Shown(t))
<1>1. t.next = s.next + 1
  BY ClientStays
<1>2. CASE f.type = "created"
  <2>1. t.phase = "open" /\ t.items = s.items
    BY <1>2, Created
  <2>2. s.phase \in {"new", "open"}
    BY DEF Proper
  <2>3. Shown(t) = Shown(s)
    BY <2>1 DEF Shown
  <2>. QED  BY <1>1, <2>1, <2>2, <2>3 DEF Moves
<1>3. CASE f.type \in {"in_progress", "part_added", "part_done", "text_done"}
  <2>1. t.phase = "open" /\ t.items = s.items /\ s.phase = "open"
    BY <1>3, Noted
  <2>2. Shown(t) = Shown(s)
    BY <2>1 DEF Shown
  <2>. QED  BY <1>1, <2>1, <2>2 DEF Moves
<1>4. CASE f.type = "item_added"
  BY <1>1, <1>4, Announced, AddsItem DEF Moves
<1>5. CASE f.type = "delta"
  BY <1>1, <1>5, Grown, GrowsItem DEF Moves
<1>6. CASE f.type = "item_done"
  BY <1>1, <1>6, Finished, ClosesItem DEF Moves
<1>7. CASE f.type \in LastEvents
  <2>1. t.phase = "complete" /\ t.items = s.items /\ s.phase = "open"
    BY <1>7, Completed
  <2>2. Shown(t) = Shown(s)
    BY <2>1 DEF Shown
  <2>3. PICK a, n : a = Shown(s) /\ n = Len(s.items)
    BY Zenon
  <2>4. /\ DOMAIN a = 1..n
        /\ \A i \in 1..n : a[i] = [id |-> s.items[i].id, kind |-> s.items[i].kind,
                                   text |-> s.items[i].text, done |-> s.items[i].done]
    BY <2>3, ShownIs
  <2>5. \A i \in 1..n : s.items[i].done
    BY <1>7, <2>3 DEF Proper, Continues, LastEvents
  <2>6. \A i \in DOMAIN a : a[i].done
    BY <2>4, <2>5
  <2>. QED  BY <1>1, <2>1, <2>2, <2>3, <2>6 DEF Moves
<1>. QED  BY <1>2, <1>3, <1>4, <1>5, <1>6, <1>7 DEF Proper, Continues

\* One that does not fit fails the response.
LEMMA ErrorMoves ==
    ASSUME NEW s, IsClient(s), s.phase \in {"new", "open"}, NEW f, f.type = "error", f.seq = s.next,
           NEW t, t = TakeEvent(s, f)
    PROVE  t.next = s.next + 1 /\ Moves(s.phase, t.phase, Shown(s), Shown(t))
<1>1. IsSeen(s)
  BY DEF IsClient
<1>2. t.next = f.seq + 1 /\ t.phase = PhaseAfter(s, f) /\ t.items = ItemsAfter(s.items, f)
  BY <1>1, TakenIs, Zenon
<1>3. t.phase = "failed"
  BY <1>2 DEF PhaseAfter, LastEvents
<1>4. t.items = s.items
  BY <1>2 DEF ItemsAfter, FitsIn
<1>5. Shown(t) = Shown(s)
  BY <1>4 DEF Shown
<1>. QED  BY <1>2, <1>3, <1>5 DEF Moves

\* The frame of a failure has the next number.
LEMMA ErrorIsNext ==
    ASSUME Inv, EventsFit, stage = "reading", src.queue = <<>>, ~src.done, call.op = "responses", NEW e,
           src.dialect = "pass" => e.own = <<>> \/ (buf # <<>> /\ Head(buf).type = "pass"
                                       /\ Head(buf).frame.type = "error" /\ e.own = <<Head(buf).frame>>)
    PROVE  /\ IsClient(seen) /\ seen.phase \in {"new", "open"}
           /\ ErrorFrame(e).type = "error" /\ ErrorFrame(e).seq = seen.next
<1>1. StreamFits(seen, src, buf, wire) /\ IsList(buf) /\ IsList(wire.queue)
  BY DEF EventsFit, Inv, WireFits
<1>2. Streaming(seen, src, buf, wire)
  BY <1>1 DEF StreamFits
<1>3. CASE src.dialect = "pass"
  <2>1. PICK t : /\ Leads(seen, src.queue, t) /\ t.phase \in {"new", "open"} /\ t.next = src.lastSeq + 1
                 /\ \E n : Follows(buf, wire, n) /\ At(wire.script, n, t)
    BY <1>2, <1>3 DEF Streaming, Passing
  <2>2. IsClient(seen) /\ Leads(seen, <<>>, t)
    BY <2>1, NothingIsAList, LeadsToClients
  <2>3. t = seen
    BY <2>2, LeadsNowhere
  <2>4. CASE e.own = <<>>
    <3>1. ErrorFrame(e) = [type |-> "error", seq |-> src.lastSeq + 1]
      BY <1>3, <2>4 DEF ErrorFrame
    <3>. QED  BY <2>1, <2>2, <2>3, <3>1
  <2>5. CASE e.own # <<>>
    <3>1. PICK ev, f : ev = Head(buf) /\ f = ev.frame /\ ev.type = "pass" /\ f.type = "error" /\ e.own = <<f>>
                       /\ buf # <<>>
      BY <1>3, <2>5
    <3>2. ErrorFrame(e) = [type |-> "error", seq |-> f.seq]
      <4>1. e.own[1] = f
        BY <3>1
      <4>. QED  BY <1>3, <2>5, <4>1 DEF ErrorFrame
    <3>3. PICK n : Follows(buf, wire, n) /\ At(wire.script, n, t)
      BY <2>1
    <3>4. n \in Nat /\ n < Len(wire.script) /\ ev = wire.script[n + 1] /\ IsList(wire.script)
      BY <1>1, <3>1, <3>3, NextOfScript
    <3>5. CanTake(t, f)
      BY <3>1, <3>3, <3>4, ScriptGoesOn
    <3>6. f.seq = t.next
      BY <3>1, <3>5 DEF CanTake
    <3>. QED  BY <2>1, <2>2, <2>3, <3>2, <3>6
  <2>. QED  BY <2>4, <2>5
<1>4. CASE src.dialect # "pass"
  <2>1. PICK t : Leads(seen, src.queue, t) /\ t.phase = "open" /\ Ready(t, src.em) /\ src.em.out = <<>>
    BY <1>2, <1>4 DEF Streaming, Pending
  <2>2. IsClient(seen) /\ Leads(seen, <<>>, t)
    BY <2>1, NothingIsAList, LeadsToClients
  <2>3. t = seen
    BY <2>2, LeadsNowhere
  <2>4. PICK u : Leads(t, src.em.out, u) /\ Shows(u, src.em, {})
    BY <2>1 DEF Ready, Carried
  <2>5. u = seen
    BY <2>1, <2>2, <2>3, <2>4, LeadsNowhere
  <2>6. seen.next = src.em.nextSeq
    BY <2>4, <2>5 DEF Shows
  <2>7. ErrorFrame(e) = [type |-> "error", seq |-> src.em.nextSeq]
    BY <1>4 DEF ErrorFrame
  <2>. QED  BY <2>1, <2>2, <2>3, <2>6, <2>7
<1>. QED  BY <1>3, <1>4

\* How a step may change what the client has.
ClientMoves ==
    \/ seen' = seen
    \/ call.op = "chat" /\ seen'.next = seen.next /\ seen'.items = seen.items
    \/ /\ call.op = "responses" /\ seen'.next = seen.next + 1
       /\ Moves(seen.phase, seen'.phase, Shown(seen), Shown(seen'))

\* A Chat client has no items.
LEMMA ChatTakes ==
    ASSUME Inv, call.op = "chat", NEW f, NEW t, t = Take(seen, f)
    PROVE  t.next = seen.next /\ t.items = seen.items
<1>1. PICK acc : acc = add(seen.acc, f.chunk)
  OBVIOUS
<1>2. t = CASE f.type = "chunk" -> [seen EXCEPT !.acc = acc, !.phase = "open"]
            [] f.type = "DONE"  -> [seen EXCEPT !.phase = "complete"]
            [] OTHER            -> [seen EXCEPT !.phase = "failed"]
  BY <1>1, Zenon DEF Take
<1>. QED  BY <1>2 DEF Inv, CallFits, IsSeen

LEMMA HandOverMoves ==
    ASSUME Inv, EventsFit, HandOver
    PROVE  ClientMoves
<1>1. stage = "reading" /\ src.queue # <<>> /\ seen' = Take(seen, Head(src.queue))
  BY DEF HandOver, Queue
<1>2. CASE call.op = "chat"
  BY <1>1, <1>2, ChatTakes DEF ClientMoves
<1>3. CASE call.op = "responses"
  <2>1. Streaming(seen, src, buf, wire)
    BY <1>1, <1>3 DEF EventsFit, StreamFits
  <2>2. IsList(src.queue) /\ \E t : Leads(seen, src.queue, t)
    BY <2>1 DEF Streaming, Completing, Passing, Pending
  <2>3. PICK t, f : Leads(seen, src.queue, t) /\ f = Head(src.queue)
    BY <2>2
  <2>4. IsClient(seen) /\ Proper(seen, f)
    BY <1>1, <2>2, <2>3, LeadsToClients, LeadsFirst
  <2>5. seen' = TakeEvent(seen, f)
    BY <1>1, <1>3, <2>3 DEF Take
  <2>. QED  BY <1>3, <2>4, <2>5, ProperMoves DEF ClientMoves
<1>. QED  BY <1>2, <1>3, CallIs

\* A failure, while the call reads.
LEMMA ErrorMovesClient ==
    ASSUME Inv, EventsFit, stage = "reading", src.queue = <<>>, ~src.done, NEW e, EndsInError(e),
           src.dialect = "pass" => e.own = <<>> \/ (buf # <<>> /\ Head(buf).type = "pass"
                                       /\ Head(buf).frame.type = "error" /\ e.own = <<Head(buf).frame>>)
    PROVE  ClientMoves
<1>1. CASE seen' = seen
  BY <1>1 DEF ClientMoves
<1>2. CASE seen' # seen
  <2>1. PICK f : f = ErrorFrame(e) /\ seen' = Take(seen, f)
    BY <1>2 DEF EndsInError
  <2>2. CASE call.op = "chat"
    BY <2>1, <2>2, ChatTakes DEF ClientMoves
  <2>3. CASE call.op = "responses"
    <3>1. IsClient(seen) /\ seen.phase \in {"new", "open"} /\ f.type = "error" /\ f.seq = seen.next
      BY <2>1, <2>3, ErrorIsNext
    <3>2. seen' = TakeEvent(seen, f)
      BY <2>1, <2>3 DEF Take
    <3>. QED  BY <2>3, <3>1, <3>2, ErrorMoves DEF ClientMoves
  <2>. QED  BY <2>2, <2>3, CallIs
<1>. QED  BY <1>1, <1>2

LEMMA FailureMovesClient ==
    ASSUME Inv, EventsFit, EndsInFailure,
           stage \in {"connecting", "reply"} \/ (stage = "reading" /\ src.queue = <<>> /\ ~src.done)
    PROVE  ClientMoves
<1>1. CASE ctx.callerGone
  BY <1>1 DEF EndsInFailure, ClientMoves
<1>2. CASE ~ctx.callerGone
  <2>1. PICK e : e = IF ctx.timedOut THEN Timeout ELSE StreamError(502, <<>>)
    OBVIOUS
  <2>2. e.own = <<>> /\ EndsInError(e)
    BY <1>2, <2>1 DEF Timeout, StreamError, EndsInFailure
  <2>3. CASE stage \in {"connecting", "reply"}
    BY <2>2, <2>3 DEF EventsFit, EndsInError, ClientMoves
  <2>4. CASE stage = "reading" /\ src.queue = <<>> /\ ~src.done
    BY <2>2, <2>4, ErrorMovesClient
  <2>. QED  BY <2>3, <2>4
<1>. QED  BY <1>1, <1>2

LEMMA AdvanceMoves ==
    ASSUME NEW r, NEW t, Advance(r, t)
    PROVE  ClientMoves
  BY DEF Advance, ClientMoves

LEMMA HandledMoves ==
    ASSUME Inv, EventsFit, OpenAINext \/ GeminiNext \/ PassNext
    PROVE  ClientMoves
<1>1. PICK ev : ev = Head(buf)
  OBVIOUS
<1>2. CASE OpenAINext
  <2>1. Handles("openai")
    BY <1>2 DEF OpenAINext
  <2>2. \/ \E r, t : Advance(r, t)
        \/ EndsInError(streamErrorFromObject(ev))
    BY <1>1, <1>2, Zenon DEF OpenAINext
  <2>. QED  BY <2>1, <2>2, AdvanceMoves, ErrorMovesClient DEF Handles, Queue
<1>3. CASE GeminiNext
  <2>1. Handles("gemini")
    BY <1>3 DEF GeminiNext
  <2>2. \/ \E r, t : Advance(r, t)
        \/ EndsInError(streamErrorFromObject(ev))
    BY <1>1, <1>3, Zenon DEF GeminiNext
  <2>. QED  BY <2>1, <2>2, AdvanceMoves, ErrorMovesClient DEF Handles, Queue
<1>4. CASE PassNext
  <2>1. Handles("pass")
    BY <1>4 DEF PassNext
  <2>2. CASE \E r, t : Advance(r, t)
    BY <2>2, AdvanceMoves
  <2>3. CASE ~ \E r, t : Advance(r, t)
    <3>1. ev.type = "pass" /\ ev.frame.type = "error" /\ EndsInError(streamErrorFromObject(ev))
      BY <1>1, <1>4, <2>3, Zenon DEF PassNext
    <3>2. PICK e : e = streamErrorFromObject(ev)
      OBVIOUS
    <3>3. e.own = <<ev.frame>>
      BY <3>1, <3>2 DEF streamErrorFromObject, StreamError
    <3>. QED  BY <1>1, <2>1, <3>1, <3>2, <3>3, ErrorMovesClient DEF Handles, Queue
  <2>. QED  BY <2>2, <2>3
<1>. QED  BY <1>2, <1>3, <1>4

LEMMA BodyEndsMoves ==
    ASSUME Inv, EventsFit, BodyEnds
    PROVE  ClientMoves
<1>1. stage = "reading" /\ src.queue = <<>> /\ ~src.done
  BY DEF BodyEnds, Waiting, Queue
<1>2. PICK r : /\ r = CASE src.dialect = "openai" -> OpenAIBodyEnds(src)
                        [] src.dialect = "gemini" -> GeminiBodyEnds(src)
                        [] OTHER                  -> PassBodyEnds(src)
               /\ IF r.err = NoError THEN UNCHANGED seen ELSE EndsInError(r.err)
  BY Zenon DEF BodyEnds
<1>3. CASE r.err = NoError
  BY <1>2, <1>3 DEF ClientMoves
<1>4. CASE r.err # NoError
  <2>1. src.dialect = "pass" => r.err.own = <<>>
    BY <1>2 DEF PassBodyEnds, StreamError
  <2>. QED  BY <1>1, <1>2, <1>4, <2>1, ErrorMovesClient
<1>. QED  BY <1>3, <1>4

LEMMA StepMovesClient ==
    ASSUME Inv, EventsFit, [Next]_vars
    PROVE  ClientMoves /\ call' = call
<1>1. CASE UNCHANGED vars
  BY <1>1 DEF vars, ClientMoves
<1>2. CASE Opens \/ AnswersWhole \/ ReplyIsJudged \/ FallsBackToChat \/ SendsWholeReply \/ SendsRefusal
  BY <1>2 DEF Opens, AnswersWhole, ReplyIsJudged, FallsBackToChat, SendsWholeReply, SendsRefusal, SendsFixed,
              EndsAs, ClientMoves
<1>3. CASE ConnectFails \/ ReplyFails
  <2>1. stage \in {"connecting", "reply"} /\ EndsInFailure
    BY <1>3 DEF ConnectFails, ReplyFails
  <2>2. call' = call
    BY <2>1 DEF EndsInFailure, EndsInError, EndsAs
  <2>. QED  BY <2>1, <2>2, FailureMovesClient
<1>4. CASE Provider \/ Others
  BY <1>4 DEF Provider, ProviderWrites, ProviderEnds, Others, ClientHolds, ClientTakes, CallerLeaves, WriteFails,
              Tick, EndsAs, ClientMoves
<1>5. CASE Read \/ Completes
  BY <1>5 DEF Read, Completes, EndsAs, ClientMoves
<1>6. CASE ReadFails
  <2>1. stage = "reading" /\ src.queue = <<>> /\ ~src.done /\ EndsInFailure
    BY <1>6 DEF ReadFails, Waiting, Queue
  <2>2. call' = call
    BY <2>1 DEF EndsInFailure, EndsInError, EndsAs
  <2>. QED  BY <2>1, <2>2, FailureMovesClient
<1>7. CASE HandOver
  BY <1>7, HandOverMoves DEF HandOver
<1>8. CASE BodyEnds
  <2>1. call' = call
    BY <1>8 DEF BodyEnds, EndsInError, EndsAs
  <2>. QED  BY <1>8, <2>1, BodyEndsMoves
<1>9. CASE OpenAINext \/ GeminiNext \/ PassNext
  <2>1. call' = call
    BY <1>9 DEF OpenAINext, GeminiNext, PassNext, Advance, EndsInError, EndsAs
  <2>. QED  BY <1>9, <2>1, HandledMoves
<1>. QED  BY <1>1, <1>2, <1>3, <1>4, <1>5, <1>6, <1>7, <1>8, <1>9 DEF Next, Begin, Reader

LEMMA GrowsInEvents ==
    ASSUME call.op = "responses", call' = call, seen'.next = seen.next + 1, seen.phase = "open", seen'.phase = "open",
           \E i \in DOMAIN Shown(seen) :
              /\ ~Shown(seen)[i].done /\ Len(Shown(seen')[i].text) > Len(Shown(seen)[i].text)
              /\ SubSeq(Shown(seen')[i].text, 1, Len(Shown(seen)[i].text)) = Shown(seen)[i].text
              /\ Shown(seen') = [Shown(seen) EXCEPT ![i].text = Shown(seen')[i].text]
    PROVE  Events!Grow
  BY Zenon DEF Events!Grow, Events!Numbered, Shown

LEMMA MovesAreEvents ==
    ASSUME ClientMoves, call' = call
    PROVE  [Events!EventsNext]_(Events!eventVars)
<1>1. PICK a, b, p, q : a = Shown(seen) /\ b = Shown(seen') /\ p = seen.phase /\ q = seen'.phase
  OBVIOUS
<1>2. CASE seen' = seen
  BY <1>2 DEF Events!eventVars
<1>3. CASE call.op = "chat" /\ seen'.next = seen.next /\ seen'.items = seen.items
  BY <1>3 DEF Events!eventVars
<1>4. CASE /\ call.op = "responses" /\ seen'.next = seen.next + 1 /\ Moves(p, q, a, b)
  <2>1. CASE p = "new" /\ q = "open" /\ b = a
    BY <1>1, <1>4, <2>1 DEF Events!EventsNext, Events!Create, Events!Numbered, Shown
  <2>2. CASE p = "open" /\ q = "open" /\ b = a
    BY <1>1, <1>4, <2>2 DEF Events!EventsNext, Events!Note, Events!Numbered, Shown
  <2>3. CASE p = "open" /\ q = "open" /\ Adds(a, b)
    BY <1>1, <1>4, <2>3, Zenon DEF Events!EventsNext, Events!AddItem, Events!Numbered, Shown, Adds
  <2>4. CASE p = "open" /\ q = "open" /\ Grows(a, b)
    <3>1. PICK i \in DOMAIN a :
        /\ ~a[i].done /\ Len(b[i].text) > Len(a[i].text)
        /\ SubSeq(b[i].text, 1, Len(a[i].text)) = a[i].text
        /\ b = [a EXCEPT ![i].text = b[i].text]
      BY <2>4, Zenon DEF Grows
    <3>2. Events!Grow
      <4>1. /\ i \in DOMAIN Shown(seen) /\ ~Shown(seen)[i].done
            /\ Len(Shown(seen')[i].text) > Len(Shown(seen)[i].text)
            /\ SubSeq(Shown(seen')[i].text, 1, Len(Shown(seen)[i].text)) = Shown(seen)[i].text
            /\ Shown(seen') = [Shown(seen) EXCEPT ![i].text = Shown(seen')[i].text]
        BY <1>1, <3>1, Zenon
      <4>. QED  BY <1>1, <1>4, <2>4, <4>1, GrowsInEvents
    <3>. QED  BY <3>2 DEF Events!EventsNext
  <2>5. CASE p = "open" /\ q = "open" /\ Closes(a, b)
    <3>1. PICK i \in DOMAIN a :
        ~a[i].done /\ b = [a EXCEPT ![i].done = TRUE]
      BY <2>5, Zenon DEF Closes
    <3>2. Events!CloseItem
      <4>1. /\ i \in DOMAIN Shown(seen) /\ ~Shown(seen)[i].done
            /\ Shown(seen') = [Shown(seen) EXCEPT ![i].done = TRUE]
        BY <1>1, <3>1, Zenon
      <4>. QED  BY <1>1, <1>4, <2>5, <4>1, Zenon DEF Events!CloseItem, Events!Numbered, Shown
    <3>. QED  BY <3>2 DEF Events!EventsNext
  <2>6. CASE p = "open" /\ q = "complete" /\ b = a /\ \A i \in DOMAIN a : a[i].done
    BY <1>1, <1>4, <2>6, Zenon DEF Events!EventsNext, Events!Complete, Events!Numbered, Shown
  <2>7. CASE p \in {"new", "open"} /\ q = "failed" /\ b = a
    BY <1>1, <1>4, <2>7 DEF Events!EventsNext, Events!Fail, Events!Numbered, Shown
  <2>. QED  BY <1>4, <2>1, <2>2, <2>3, <2>4, <2>5, <2>6, <2>7 DEF Moves
<1>. QED  BY <1>1, <1>2, <1>3, <1>4 DEF ClientMoves

\* What a Responses client is sent is what ResponsesEvents promises: numbers
\* without gaps, items added in order, grown and done once, one end
\* (chatToResponsesSource, responsesPassSource, bufferedResponsesFrames, and the
\* error frame of a stream that breaks).
THEOREM StreamImplementsEvents == Spec => ImplementsResponsesEvents
<1>1. Init => Events!EventsInit
  BY DEF Init, Events!EventsInit, NothingSeen
<1>2. Inv /\ EventsFit /\ [Next]_vars => [Events!EventsNext]_(Events!eventVars)
  BY StepMovesClient, MovesAreEvents
<1>. QED  BY <1>1, <1>2, InitFits, StepFits, EventsFitFirst, EventsKeepFitting, PTL
          DEF Spec, ImplementsResponsesEvents, Events!EventsSpec
=============================================================================
