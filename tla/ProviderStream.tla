--------------------------- MODULE ProviderStream ---------------------------
(***************************************************************************)
(* One streamed call to a provider (provider.CallStream and Stream.Next),  *)
(* from the connection to the last frame the router is handed: the         *)
(* provider writes events, or breaks off; the reader turns them into       *)
(* frames; the timer, the caller and a slow client interfere.              *)
(*                                                                         *)
(* What the reader does between two reads is atomic; it is interrupted     *)
(* where it waits: for the connection, a whole reply, bytes, or a client   *)
(* that does not take a frame. Time passes only while it waits.            *)
(***************************************************************************)
EXTENDS ResponsesEmitter, Integers

CONSTANTS
    Limit,          \* the provider's timeout, in ticks
    MaxEvents,      \* events a provider sends at most
    MaxUnread,      \* of which this many wait to be read
    MaxHolds,       \* times the client makes the reader wait
    Calls,          \* [kind, op, mode, usage]
    Vocabulary,     \* Vocabulary[kind]: what a chat stream may say next
    Scripts,        \* the event sequences of a native Responses stream
    Replies         \* Replies[form]: whole replies, form being chat or responses

ASSUME StreamAssumption == Limit \in Nat \ {0} /\ MaxEvents \in Nat /\ MaxUnread \in Nat /\ MaxHolds \in Nat

VARIABLES
    call,       \* the call
    route,      \* native, or chat: a Responses call served over the Chat route
    stage,      \* connecting, reply (a whole reply is read), reading, over
    wire,       \* what is on its way: [queue, sent, script, over, told]
    buf,        \* events read but not handled
    timer,      \* streamTimer: [left, started]
    ctx,        \* the attempt's context: [timedOut, callerGone]
    src,        \* the streamSource
    end,        \* how the call ended: [how, status, timeout]
    seen,       \* what the router was handed, put together by a client
    committed,  \* the router has begun to send it to the client
    hold,       \* the client does not take the frame that is written
    holds,
    clock       \* [age, quiet, away, silent]: see Tick
vars == <<call, route, stage, wire, buf, timer, ctx, src, end, seen, committed, hold, holds, clock>>

-----------------------------------------------------------------------------
(* Sources *)

ViaChat == call.op = "responses" /\ (call.kind = "gemini" \/ route = "chat")

NoFinal == [status |-> "none", output |-> <<>>]

\* A source: its dialect, the frames not handed out, and what it has gathered.
\* "em" is the emitter of chatToResponsesSource, whose start is queued at once.
Source(dialect, queue, em) ==
    [dialect |-> dialect, queue |-> queue, em |-> [em EXCEPT !.out = <<>>],
     acc |-> newChatAccumulator, finished |-> FALSE, done |-> FALSE,
     role |-> FALSE, calls |-> 0, usage |-> FALSE,
     lastSeq |-> -1, output |-> FALSE, final |-> NoFinal]

OpenSource ==
    IF call.kind = "openai" /\ call.op = "responses" /\ route = "native"
    THEN Source("pass", <<>>, newResponsesEmitter)
    ELSE LET em == start(newResponsesEmitter)
         IN  IF ViaChat THEN Source(call.kind, em.out, em)
             ELSE Source(call.kind, <<>>, newResponsesEmitter)

forwardUsage == call.usage \/ ViaChat

ChunkFrame(c) == [type |-> "chunk", chunk |-> c]
DoneFrame == [type |-> "DONE"]

\* chatToResponsesSource.next: what the Chat stream's frames become.
replyEnds(s) == finish(s.em, responsesFinal(FirstChoice(s.acc)))
ReEmitFrame(s, f) ==
    IF f.type = "DONE"
    THEN [s EXCEPT !.em = replyEnds(s), !.final = responsesFinal(FirstChoice(s.acc))]
    ELSE [s EXCEPT !.em = translate(@, f.chunk)]
Queued(s) == [s EXCEPT !.queue = @ \o s.em.out, !.em.out = <<>>]
ReEmit(s, frames) == Queued(FoldLeft(ReEmitFrame, s, frames))

\* Frames of a Chat stream, for the client or for the Responses wrapper.
Hand(s, frames) == IF ViaChat THEN ReEmit(s, frames) ELSE [s EXCEPT !.queue = @ \o frames]

NoError == [status |-> 0, timeout |-> FALSE, own |-> <<>>]
StreamError(status, own) == [status |-> status, timeout |-> FALSE, own |-> own]
Timeout == [status |-> 504, timeout |-> TRUE, own |-> <<>>]

\* errorStatus: a status as a code is taken as it is; else the known codes.
errorCodeStatus == [rate_limit_exceeded |-> 429, server_is_overloaded |-> 503, invalid_api_key |-> 401]
\* Mutant: a code that is not known is no failure.
errorStatusUnmapped(code) == IF code \in DOMAIN errorCodeStatus THEN errorCodeStatus[code] ELSE 0
errorStatus(code) == IF code \in DOMAIN errorCodeStatus THEN errorCodeStatus[code] ELSE 502

\* streamErrorFromObject: the event's own frame goes to the client.
streamErrorFromObject(ev) ==
    StreamError(errorStatus(ev.code), IF ev.type = "pass" THEN <<ev.frame>> ELSE <<[type |-> "error"]>>)


\* Chunks pass through, without the usage the client did not ask for.
OpenAIChunk(s, ev) ==
    LET c == ev.chunk
        added == [s EXCEPT !.acc = add(@, c), !.finished = @ \/ c.finish # NoFinish]
    IN  IF c.choice = None /\ c.usage /\ ~forwardUsage THEN added
        ELSE Hand(added, <<ChunkFrame([c EXCEPT !.usage = @ /\ forwardUsage])>>)

\* [DONE], handed out once.
CleanEnd(s) == [Hand(s, <<DoneFrame>>) EXCEPT !.done = TRUE]

-----------------------------------------------------------------------------
(* Gemini *)

normalizeGeminiFinish(r) ==
    CASE r = "STOP" -> "stop" [] r = "MAX_TOKENS" -> "length"
      [] r \in {"SAFETY", "PROHIBITED_CONTENT"} -> "content_filter" [] OTHER -> r

\* geminiStreamTranslator.translate: the chunks of one event, with the number of
\* tool calls after them.
CallID(k) == "g" \o ToString(k)
GeminiPart(g, p) ==
    IF p.kind = "call"
    THEN [g EXCEPT !.calls = @ + 1,
                   !.out   = Append(@, Chunk(g.n, 0, {}, <<CallPiece(g.calls, CallID(g.calls), TRUE, p.sig)>>,
                                             NoFinish, FALSE))]
    ELSE IF p.kind = "empty" THEN g
    ELSE [g EXCEPT !.out = Append(@, Chunk(g.n, 0, {IF p.kind = "thought" THEN "reasoning" ELSE "content"},
                                           <<>>, NoFinish, FALSE))]
GeminiChunks(s, ev) ==
    LET role == IF s.role THEN <<>> ELSE <<Chunk(ev.n, 0, {}, <<>>, NoFinish, FALSE)>>
        parts == FoldLeft(GeminiPart, [n |-> ev.n, calls |-> s.calls, out |-> role], ev.parts)
        why   == IF parts.calls > 0 THEN "tool_calls" ELSE normalizeGeminiFinish(ev.finish)
        Finish(reason) == <<Chunk(ev.n, 0, {}, <<>>, reason, FALSE)>>
    IN  IF ev.block THEN [n |-> ev.n, calls |-> s.calls, out |-> role \o Finish("content_filter")]
        ELSE [parts EXCEPT !.out = @ \o (IF ev.finish = NoFinish THEN <<>> ELSE Finish(why))]

\* final: the usage chunk.
UsageChunk == Chunk(0, None, {}, <<>>, NoFinish, TRUE)

GeminiEvent(s, ev) ==
    LET g == GeminiChunks(s, ev)
        told == [s EXCEPT !.role = TRUE, !.calls = g.calls, !.usage = @ \/ ev.usage,
                          !.finished = @ \/ ev.block \/ ev.finish # NoFinish,
                          !.acc = FoldLeft(add, @, g.out)]
    IN  Hand(told, [k \in DOMAIN g.out |-> ChunkFrame(g.out[k])])

\* The body ended after a finish: the usage, to the log always, then [DONE].
GeminiEnd(s) ==
    CleanEnd(IF ~s.usage THEN s
             ELSE Hand([s EXCEPT !.acc = add(@, UsageChunk)],
                       IF forwardUsage THEN <<ChunkFrame(UsageChunk)>> ELSE <<>>))

-----------------------------------------------------------------------------
(* Native Responses events *)

\* Mutant: any added item counts as output.
AnyItemIsOutput(f) == f.type \in {"delta", "item_added", "item_done"}

\* An added message or reasoning is empty yet.
isResponsesOutputEvent(f) ==
    \/ f.type \in {"delta", "item_done"}
    \/ f.type = "item_added" /\ f.fields.kind \notin {"message", "reasoning"}

PassEvent(s, ev) ==
    LET f == ev.frame
        told == [s EXCEPT !.queue = Append(@, f), !.lastSeq = f.seq]
    IN  IF f.type \in LastEvents
        THEN [told EXCEPT !.final = [status |-> f.type, output |-> f.fields.output], !.done = TRUE]
        ELSE [told EXCEPT !.output = @ \/ isResponsesOutputEvent(f)]

-----------------------------------------------------------------------------
(* What the router asks of a stream *)

Output(s) ==
    CASE s.dialect = "pass"  -> s.output
      [] s.dialect = "fixed" -> TRUE
      [] OTHER -> s.acc.output

\* responsesOutcome's hasContent, and a Chat stream's.
HasReply(s) ==
    IF s.dialect = "pass"
    THEN s.final.status = "completed"
         /\ \E k \in DOMAIN s.final.output :
               s.final.output[k].kind = "function_call" \/ s.final.output[k].text # <<>>
    ELSE HasContent(FirstChoice(s.acc))

\* bufferedChatFrames: a whole Chat reply as chunks, choice by choice.
Joined(s, t) == s \o t
choiceChunks(i, c) ==
    LET Says(f) == IF c.text[f] = <<>> THEN <<>> ELSE <<Chunk(0, i, {f}, <<>>, NoFinish, FALSE)>>
        Call(k) == Chunk(0, i, {}, <<CallPiece(k, c.calls[k].id, TRUE, c.calls[k].sig)>>, NoFinish, FALSE)
        called  == Sorted(DOMAIN c.calls)
    IN  <<Chunk(0, i, {}, <<>>, NoFinish, FALSE)>>
        \o Says("reasoning") \o Says("content") \o Says("refusal")
        \o [k \in DOMAIN called |-> Call(called[k])]
        \o <<Chunk(0, i, {}, <<>>, c.finish, FALSE)>>
bufferedChatFrames(reply, wantsUsage) ==
    LET order  == Sorted(DOMAIN reply.choices)
        chunks == FoldLeft(Joined, <<>>, [k \in DOMAIN order |-> choiceChunks(order[k], reply.choices[order[k]])])
                  \o (IF wantsUsage /\ reply.usage THEN <<UsageChunk>> ELSE <<>>)
    IN  Append([k \in DOMAIN chunks |-> ChunkFrame(chunks[k])], DoneFrame)

\* wrapChatReplyAsResponses: a whole Chat reply as a Responses object; its
\* reasoning has no place in it.
wrapChatReplyAsResponses(reply) ==
    [status |-> IF FirstChoice(reply).finish = "length" THEN "incomplete" ELSE "completed",
     output |-> ChatToResponses(FirstChoice(reply))]

\* BufferedStream: the frames of a reply that came whole.
BufferedStream(form, reply) ==
    LET Sent(em, whole) == [Source("fixed", em.out, em) EXCEPT !.final = whole, !.done = TRUE]
        AsEvents(whole) == Sent(bufferedResponsesFrames(whole), whole)
    IN  IF call.op = "responses"
        THEN AsEvents(IF form = "chat" THEN wrapChatReplyAsResponses(reply) ELSE reply)
        ELSE [Source("fixed", bufferedChatFrames(reply, call.usage), newResponsesEmitter)
                 EXCEPT !.acc.choices = reply.choices, !.done = TRUE]

\* RefusalStream: a reply that ends as a refusal, without text.
RefusalStream ==
    LET chunks == <<Chunk(0, 0, {}, <<>>, NoFinish, FALSE), Chunk(0, 0, {}, <<>>, "content_filter", FALSE)>>
        em     == event(event(newResponsesEmitter, "created", NoFields), "incomplete", [output |-> <<>>])
    IN  IF call.op = "responses"
        THEN [Source("fixed", em.out, em) EXCEPT !.final = [status |-> "incomplete", output |-> <<>>], !.done = TRUE]
        ELSE [Source("fixed", Append([k \in DOMAIN chunks |-> ChunkFrame(chunks[k])], DoneFrame), em)
                 EXCEPT !.acc = FoldLeft(add, @, chunks), !.done = TRUE]

-----------------------------------------------------------------------------
(* A client: the frames put together *)

NothingSeen == [acc |-> newChatAccumulator, next |-> 0, phase |-> "new", items |-> <<>>,
                final |-> NoFinal]

\* An event that fits nowhere leaves the client with a reply it cannot use.
TakeItem(items, x) ==
    Append(items, [kind |-> x.kind, id |-> x.id, own |-> x.own, text |-> <<>>, sig |-> Missing, done |-> FALSE])
TakeDelta(items, x) == [items EXCEPT ![x.index].text = @ \o x.text]
TakeDone(items, x) == [items EXCEPT ![x.index].done = TRUE, ![x.index].sig = x.sig]

FitsIn(items, f) ==
    LET x == f.fields
    IN  CASE f.type = "item_added" -> x.index = Len(items) + 1
          [] f.type = "delta"      -> x.index \in DOMAIN items
          [] f.type = "text_done"  -> x.index \in DOMAIN items /\ items[x.index].text = x.text
          [] f.type = "item_done"  -> /\ x.index \in DOMAIN items /\ ~items[x.index].done
                                      /\ items[x.index].id = x.id
                                      /\ x.own \/ items[x.index].text = x.text
          [] OTHER                 -> TRUE

PhaseAfter(s, f) ==
    CASE f.type = "created"     -> "open"
      [] f.type \in LastEvents  -> "complete"
      [] f.type = "error"       -> "failed"
      [] OTHER                  -> IF FitsIn(s.items, f) THEN s.phase ELSE "broken"
ItemsAfter(items, f) ==
    IF ~FitsIn(items, f) THEN items
    ELSE CASE f.type = "item_added" -> TakeItem(items, f.fields)
           [] f.type = "delta"      -> TakeDelta(items, f.fields)
           [] f.type = "item_done"  -> TakeDone(items, f.fields)
           [] OTHER                 -> items
TakeEvent(s, f) ==
    [s EXCEPT !.next = f.seq + 1, !.phase = PhaseAfter(s, f), !.items = ItemsAfter(@, f),
              !.final = IF f.type \in LastEvents THEN [status |-> f.type, output |-> f.fields.output] ELSE @]

Take(s, f) ==
    IF call.op = "responses" THEN TakeEvent(s, f)
    ELSE CASE f.type = "chunk" -> [s EXCEPT !.acc = add(@, f.chunk), !.phase = "open"]
           [] f.type = "DONE"  -> [s EXCEPT !.phase = "complete"]
           [] OTHER            -> [s EXCEPT !.phase = "failed"]

-----------------------------------------------------------------------------
(* The call begins *)

NotOver == [how |-> "none", status |-> 0, timeout |-> FALSE]
Idle == [queue |-> <<>>, sent |-> 0, script |-> <<>>, over |-> "no", told |-> FALSE]
newStreamTimer == [left |-> Limit, started |-> FALSE]
Clock == [age |-> 0, quiet |-> 0, away |-> 0, silent |-> 0]

Init ==
    /\ call \in Calls
    /\ route = IF call.mode = "chat_only" THEN "chat" ELSE "native"
    /\ stage = "connecting"
    /\ wire = Idle /\ buf = <<>>
    /\ timer = newStreamTimer
    /\ ctx = [timedOut |-> FALSE, callerGone |-> FALSE]
    /\ src = OpenSource
    /\ end = NotOver
    /\ seen = NothingSeen /\ committed = FALSE
    /\ hold = FALSE /\ holds = 0
    /\ clock = Clock

Cancelled == ctx.timedOut \/ ctx.callerGone

\* Where the reader waits.
Queue == src.queue
Waiting == stage = "reading" /\ ~hold /\ Queue = <<>> /\ ~src.done /\ buf = <<>>
Blocked == stage \in {"connecting", "reply"} \/ Waiting \/ hold

\* streamConn.close: the limit is off, and what was not read or handled is lost.
CloseConn ==
    /\ buf' = <<>> /\ wire' = [wire EXCEPT !.queue = <<>>]
    /\ timer' = newStreamTimer /\ clock' = Clock

EndsAs(how, status, timeout) ==
    /\ stage' = "over" /\ end' = [how |-> how, status |-> status, timeout |-> timeout]
    /\ CloseConn /\ hold' = FALSE
    /\ UNCHANGED <<call, route, ctx, src, holds>>

\* The client's frame for a failure after output: the provider's own, else one
\* with the next number; none before, and none to a caller that is gone.
ErrorFrame(e) ==
    IF call.op = "chat" THEN [type |-> "error"]
    ELSE IF src.dialect = "pass"
    THEN IF e.own # <<>> THEN [type |-> "error", seq |-> e.own[1].seq]
         ELSE [type |-> "error", seq |-> src.lastSeq + 1]
    ELSE [type |-> "error", seq |-> src.em.nextSeq]

EndsInError(e) ==
    /\ seen' = IF committed /\ ~ctx.callerGone THEN Take(seen, ErrorFrame(e)) ELSE seen
    /\ UNCHANGED committed
    /\ EndsAs("error", e.status, e.timeout)

\* streamConn.failure: whose fault a broken connection is.
EndsInFailure ==
    IF ctx.callerGone THEN EndsAs("context", 0, FALSE) /\ UNCHANGED <<seen, committed>>
    ELSE EndsInError(IF ctx.timedOut THEN Timeout ELSE StreamError(502, <<>>))

\* openStream: a stream opens.
Opens ==
    /\ stage = "connecting"
    /\ stage' = "reading"
    /\ src' = OpenSource
    /\ wire' \in IF call.kind = "openai" /\ call.op = "responses" /\ route = "native"
                 THEN {[Idle EXCEPT !.script = s] : s \in Scripts} ELSE {Idle}
    /\ UNCHANGED <<call, route, buf, timer, ctx, end, seen, committed, hold, holds, clock>>

\* A reply that is no event stream, to be read whole.
AnswersWhole ==
    /\ stage = "connecting" /\ stage' = "reply"
    /\ UNCHANGED <<call, route, wire, buf, timer, ctx, src, end, seen, committed, hold, holds, clock>>

\* client.Do fails, or the limit ran out or the caller left meanwhile.
ConnectFails == stage = "connecting" /\ EndsInFailure

\* readAll failed.
ReplyFails == stage = "reply" /\ EndsInFailure

\* The whole reply is not a good one: the router judges it.
ReplyIsJudged == stage = "reply" /\ EndsAs("answer", 0, FALSE) /\ UNCHANGED <<seen, committed>>

\* A probe found no /responses route: the Chat route is tried, on a connection
\* and with a limit of its own.
FallsBackToChat ==
    /\ stage = "reply"
    /\ call.kind = "openai" /\ call.op = "responses" /\ call.mode = "probe" /\ route = "native"
    /\ route' = "chat" /\ stage' = "connecting"
    /\ timer' = newStreamTimer /\ clock' = Clock
    /\ ctx' = [ctx EXCEPT !.timedOut = FALSE]
    /\ UNCHANGED <<call, wire, buf, src, end, seen, committed, hold, holds>>

\* A good one is sent as a stream, the connection being closed by then; so is a
\* refusal, when this was the last of targets that all refused.
SendsFixed(s) ==
    /\ stage = "reply" /\ stage' = "reading"
    /\ src' = s
    /\ committed' = TRUE
    /\ CloseConn
    /\ UNCHANGED <<call, route, ctx, end, seen, hold, holds>>

SendsWholeReply ==
    LET form == IF call.op = "chat" \/ ViaChat THEN "chat" ELSE "responses"
    IN  \E reply \in Replies[form] : SendsFixed(BufferedStream(form, reply))
SendsRefusal == SendsFixed(RefusalStream)

-----------------------------------------------------------------------------
(* The provider *)

Streams == stage = "reading" /\ src.dialect # "fixed" /\ ~src.done /\ wire.over = "no" /\ ~Cancelled

NextSays ==
    IF src.dialect = "pass"
    THEN IF wire.sent < Len(wire.script) THEN {wire.script[wire.sent + 1]} ELSE {}
    ELSE {[e EXCEPT !.n = wire.sent + 1] : e \in Vocabulary[call.kind]}

\* Does the event say that the reply ends here?
TellsTheEnd(ev) ==
    CASE ev.type = "chunk"  -> ev.chunk.finish # NoFinish
      [] ev.type = "gemini" -> ev.block \/ ev.finish # NoFinish
      [] ev.type = "pass"   -> ev.frame.type \in LastEvents
      [] OTHER              -> ev.type = "DONE"

\* Numbered text: an event's pieces carry its place.
Numbered(ev) == IF ev.type = "chunk" THEN [ev EXCEPT !.chunk.n = ev.n] ELSE ev

ProviderWrites ==
    /\ Streams /\ (Waiting \/ hold)
    /\ wire.sent < MaxEvents /\ Len(wire.queue) < MaxUnread
    /\ \E ev \in NextSays :
        wire' = [wire EXCEPT !.queue = Append(@, Numbered(ev)), !.sent = @ + 1, !.told = @ \/ TellsTheEnd(ev)]
    /\ clock' = [clock EXCEPT !.silent = 0]
    /\ UNCHANGED <<call, route, stage, buf, timer, ctx, src, end, seen, committed, hold, holds>>

\* The body ends, or the connection drops.
ProviderEnds ==
    /\ Streams /\ (Waiting \/ hold)
    /\ \E how \in {"eof", "drop"} : wire' = [wire EXCEPT !.over = how]
    /\ UNCHANGED <<call, route, stage, buf, timer, ctx, src, end, seen, committed, hold, holds, clock>>

-----------------------------------------------------------------------------
(* The reader *)

\* streamConn.Read: whatever has arrived; it extends the limit once output has
\* started. A body whose context is cancelled may still give what it has.
Read ==
    /\ Waiting /\ wire.queue # <<>>
    /\ buf' = wire.queue
    /\ wire' = [wire EXCEPT !.queue = <<>>]
    /\ timer' = IF timer.started THEN [timer EXCEPT !.left = Limit] ELSE timer
    /\ clock' = [clock EXCEPT !.quiet = 0, !.away = 0]
    /\ UNCHANGED <<call, route, stage, ctx, src, end, seen, committed, hold, holds>>

ReadFails ==
    /\ Waiting
    /\ Cancelled \/ (wire.queue = <<>> /\ wire.over = "drop")
    /\ EndsInFailure

\* Mutant: the end of the body is the end of the reply.
AnyEndIsClean(s) == [src |-> CleanEnd(s), err |-> NoError]

\* The body ended: clean only if the reply had finished.
OpenAIBodyEnds(s) == IF s.finished THEN [src |-> CleanEnd(s), err |-> NoError]
                     ELSE [src |-> s, err |-> StreamError(502, <<>>)]
GeminiBodyEnds(s) == IF s.finished THEN [src |-> GeminiEnd(s), err |-> NoError]
                     ELSE [src |-> s, err |-> StreamError(502, <<>>)]
PassBodyEnds(s) == [src |-> s, err |-> StreamError(502, <<>>)]

BodyEnds ==
    /\ Waiting
    /\ wire.queue = <<>> /\ wire.over = "eof"
    /\ LET r == CASE src.dialect = "openai" -> OpenAIBodyEnds(src)
                  [] src.dialect = "gemini" -> GeminiBodyEnds(src)
                  [] OTHER                  -> PassBodyEnds(src)
       IN  IF r.err = NoError
           THEN src' = r.src /\ CloseConn /\ UNCHANGED <<call, route, stage, ctx, end, seen, committed, hold, holds>>
           ELSE EndsInError(r.err)

\* Mutant: the limit before output goes on as the limit on silence.
StartedWithoutReset(t) == [t EXCEPT !.started = TRUE]

\* outputStarted: from now on the limit is on silence.
outputStarted(t) == [left |-> Limit, started |-> TRUE]

Handles(dialect) ==
    stage = "reading" /\ Queue = <<>> /\ ~src.done /\ buf # <<>> /\ ~hold /\ src.dialect = dialect

Advance(s, t) ==
    /\ src' = s
    /\ IF s.done THEN CloseConn
       ELSE /\ timer' = t /\ buf' = Tail(buf) /\ UNCHANGED wire
            /\ clock' = IF t.started = timer.started THEN clock ELSE Clock
    /\ UNCHANGED <<call, route, stage, ctx, end, seen, committed, hold, holds>>

\* openAIChatSource.next
OpenAINext ==
    /\ Handles("openai")
    /\ LET ev == Head(buf)
       IN  CASE ev.type = "chunk" ->
                  Advance(OpenAIChunk(src, ev), IF CarriesOutput(ev.chunk) THEN outputStarted(timer) ELSE timer)
             [] ev.type = "DONE"  -> Advance(CleanEnd(src), timer)
             [] ev.type = "error" -> EndsInError(streamErrorFromObject(ev))
             [] OTHER             -> Advance(src, timer)

\* geminiChatSource.next
GeminiNext ==
    /\ Handles("gemini")
    /\ LET ev == Head(buf)
       IN  CASE ev.type = "gemini" ->
                  Advance(GeminiEvent(src, ev),
                          IF \E k \in DOMAIN GeminiChunks(src, ev).out : CarriesOutput(GeminiChunks(src, ev).out[k])
                          THEN outputStarted(timer) ELSE timer)
             [] ev.type = "error" -> EndsInError(streamErrorFromObject(ev))
             [] OTHER             -> Advance(src, timer)

\* responsesPassSource.next: the first output switches the limit, once.
PassNext ==
    /\ Handles("pass")
    /\ LET ev == Head(buf)
           first == isResponsesOutputEvent(ev.frame) /\ ~src.output
       IN  IF ev.type # "pass" THEN Advance(src, timer)
           ELSE IF ev.frame.type = "error" THEN EndsInError(streamErrorFromObject(ev))
           ELSE Advance(PassEvent(src, ev), IF first THEN outputStarted(timer) ELSE timer)

\* Stream.Next hands the router a frame: it commits with the first after output.
HandOver ==
    /\ stage = "reading" /\ Queue # <<>> /\ ~hold
    /\ seen' = Take(seen, Head(Queue))
    /\ committed' = (committed \/ Output(src))
    /\ src' = [src EXCEPT !.queue = Tail(@)]
    /\ UNCHANGED <<call, route, stage, wire, buf, timer, ctx, end, hold, holds, clock>>

\* The stream is complete: io.EOF. A reply without output is not sent at all,
\* unless it came with the last event.
Completes ==
    /\ stage = "reading" /\ Queue = <<>> /\ src.done /\ ~hold
    /\ committed' = (committed \/ HasReply(src)) /\ UNCHANGED seen
    /\ EndsAs("eof", 0, FALSE)

-----------------------------------------------------------------------------
(* The client, the caller, and time *)

\* A frame was written and is not taken; the reader waits.
ClientHolds ==
    /\ stage = "reading" /\ committed /\ ~hold /\ ~ctx.callerGone
    /\ holds < MaxHolds
    /\ hold' = TRUE /\ holds' = holds + 1
    /\ UNCHANGED <<call, route, stage, wire, buf, timer, ctx, src, end, seen, committed, clock>>

ClientTakes ==
    /\ hold /\ hold' = FALSE
    /\ UNCHANGED <<call, route, stage, wire, buf, timer, ctx, src, end, seen, committed, holds, clock>>

CallerLeaves ==
    /\ Blocked /\ ~ctx.callerGone
    /\ ctx' = [ctx EXCEPT !.callerGone = TRUE]
    /\ UNCHANGED <<call, route, stage, wire, buf, timer, src, end, seen, committed, hold, holds, clock>>

\* sink.Write fails.
WriteFails ==
    /\ stage = "reading" /\ committed /\ ctx.callerGone /\ (hold \/ Queue # <<>>)
    /\ EndsAs("context", 0, FALSE) /\ UNCHANGED <<seen, committed>>

Up(n) == IF n < Limit THEN n + 1 ELSE n

\* Mutant: once output has started, nothing limits the silence.
ElapseBeforeOutput(t) == IF t.started THEN t ELSE [t EXCEPT !.left = @ - 1]
Elapse(t) == [t EXCEPT !.left = @ - 1]

\* Time. Before output, the call's age; after it, the ticks since the last read
\* that were spent waiting for the provider (quiet) or the client (away), and
\* those since the provider last wrote (silent). The limit fires when nothing is
\* left of it.
Tick ==
    /\ Blocked /\ ~Cancelled /\ ~src.done
    /\ hold \/ (wire.queue = <<>> /\ wire.over = "no")
    /\ timer' = Elapse(timer)
    /\ ctx' = [ctx EXCEPT !.timedOut = timer'.left = 0]
    /\ clock' = IF timer.started
                THEN [clock EXCEPT !.silent = Up(@), !.quiet = IF hold THEN @ ELSE Up(@),
                                   !.away   = IF hold THEN Up(@) ELSE @]
                ELSE [clock EXCEPT !.age = Up(@)]
    /\ UNCHANGED <<call, route, stage, wire, buf, src, end, seen, committed, hold, holds>>

Begin == Opens \/ AnswersWhole \/ ConnectFails \/ ReplyFails \/ ReplyIsJudged \/ FallsBackToChat
         \/ SendsWholeReply \/ SendsRefusal
Provider == ProviderWrites \/ ProviderEnds
Reader == Read \/ ReadFails \/ BodyEnds \/ OpenAINext \/ GeminiNext \/ PassNext \/ HandOver \/ Completes
Others == ClientHolds \/ ClientTakes \/ CallerLeaves \/ WriteFails \/ Tick
Next == Begin \/ Provider \/ Reader \/ Others

Spec == Init /\ [][Next]_vars
=============================================================================
