------------------------- MODULE StreamOutputProofs -------------------------
(***************************************************************************)
(* What becomes of a stream's output, for every provider, script and whole *)
(* reply: no reply is cut short unsaid, and the router commits only to a   *)
(* stream whose output it can send.                                        *)
(***************************************************************************)
EXTENDS StreamProofs

USE StreamAssumption

-----------------------------------------------------------------------------
(* No reply is cut short in silence *)

\* As long as the provider has not told the end, no event that is on its way
\* does, and the source has not come to it.
Untold(s, b, w) ==
    /\ ~s.finished /\ ~s.done
    /\ \A k \in 1..Len(b) : ~TellsTheEnd(b[k])
    /\ \A k \in 1..Len(w.queue) : ~TellsTheEnd(w.queue[k])
WireTells == stage = "reading" /\ src.dialect # "fixed" /\ ~wire.told => Untold(src, buf, wire)

\* A call that is over stays as it ended.
EndsAreTold == stage = "over" => ~hold /\ NoSilentTruncation

LEMMA NumberedTells ==
    ASSUME NEW ev, "type" \in DOMAIN ev,
           ev.type = "chunk" => /\ "chunk" \in DOMAIN ev
                                /\ DOMAIN ev.chunk = {"n", "choice", "says", "calls", "finish", "usage"}
    PROVE  TellsTheEnd(Numbered(ev)) => TellsTheEnd(ev)
<1>1. CASE ev.type = "chunk"
  <2>1. PICK c, d : c = ev.chunk /\ d = [c EXCEPT !.n = ev.n]
    BY Zenon
  <2>2. Numbered(ev) = [ev EXCEPT !.chunk = d]
    BY <1>1, <2>1, Zenon DEF Numbered
  <2>3. d.finish = c.finish
    BY <1>1, <2>1
  <2>4. Numbered(ev).chunk = d /\ Numbered(ev).type = "chunk"
    BY <1>1, <2>2
  <2>5. TellsTheEnd(Numbered(ev)) = (d.finish # NoFinish) /\ TellsTheEnd(ev) = (c.finish # NoFinish)
    BY <1>1, <2>1, <2>4 DEF TellsTheEnd
  <2>. QED  BY <2>3, <2>5
<1>2. CASE ev.type # "chunk"
  BY <1>2 DEF Numbered
<1>. QED  BY <1>1, <1>2

LEMMA WritesTell ==
    ASSUME Inv, EventsFit, WireTells, ProviderWrites
    PROVE  WireTells'
<1>1. /\ stage = "reading" /\ stage' = "reading" /\ src' = src /\ buf' = buf /\ ~src.done /\ src.dialect # "fixed"
  BY DEF ProviderWrites, Streams
<1>2. PICK ev \in NextSays :
         wire' = [wire EXCEPT !.queue = Append(wire.queue, Numbered(ev)), !.sent = wire.sent + 1,
                              !.told = wire.told \/ TellsTheEnd(ev)]
  BY Zenon DEF ProviderWrites
<1>3. PICK Q, x, n, u : Q = wire.queue /\ x = Numbered(ev) /\ n = wire.sent + 1 /\ u = (wire.told \/ TellsTheEnd(ev))
  OBVIOUS
<1>4. wire' = [wire EXCEPT !.queue = Append(Q, x), !.sent = n, !.told = u]
  BY <1>2, <1>3, Zenon
<1>5. wire'.queue = Append(Q, x) /\ wire'.told = u
  BY <1>4 DEF Inv, WireFits
<1>6. IsList(Q) /\ IsList(buf) /\ wire.sent \in Nat
  BY <1>3 DEF Inv, WireFits
<1>7. SUFFICES ASSUME ~wire'.told
               PROVE  Untold(src, buf, wire')
  BY <1>1 DEF WireTells
<1>8. ~u
  BY <1>5, <1>7
<1>9. ~wire.told /\ ~TellsTheEnd(ev)
  BY <1>3, <1>8, Zenon
<1>10. Untold(src, buf, wire)
  BY <1>1, <1>9 DEF WireTells
<1>11. ~TellsTheEnd(x)
  <2>1. CASE src.dialect = "pass"
    <3>1. StreamFits(seen, src, buf, wire)
      BY <1>1 DEF EventsFit
    <3>2. Passing(seen, src, buf, wire)
      BY <1>1, <2>1, <3>1 DEF StreamFits, SourceIs, Streaming
    <3>3. wire.script \in Scripts
      BY <3>2 DEF Passing, Follows
    <3>4. IsList(wire.script) /\ \A k \in DOMAIN wire.script : wire.script[k].type # "chunk"
      BY <3>3, ScriptsAssumption
    <3>5. wire.sent < Len(wire.script) /\ ev = wire.script[wire.sent + 1]
      BY <1>2, <2>1 DEF NextSays
    <3>6. wire.sent + 1 \in DOMAIN wire.script
      BY <1>6, <3>4, <3>5, ListHas
    <3>7. ev.type # "chunk"
      BY <3>4, <3>5, <3>6
    <3>8. x = ev
      BY <1>3, <3>7 DEF Numbered
    <3>. QED  BY <1>9, <3>8
  <2>2. CASE src.dialect # "pass"
    <3>1. PICK said \in Vocabulary[call.kind] : ev = [said EXCEPT !.n = wire.sent + 1]
      BY <1>2, <2>2, Zenon DEF NextSays
    <3>2. /\ {"type", "n"} \subseteq DOMAIN said
          /\ said.type = "chunk" => /\ "chunk" \in DOMAIN said
                                    /\ DOMAIN said.chunk = {"n", "choice", "says", "calls", "finish", "usage"}
      BY <3>1, CallIs, VocabularyAssumption
    <3>3. ev.type = said.type /\ DOMAIN ev = DOMAIN said /\ ("chunk" \in DOMAIN said => ev.chunk = said.chunk)
      BY <3>1, <3>2
    <3>4. TellsTheEnd(x) => TellsTheEnd(ev)
      BY <1>3, <3>2, <3>3, NumberedTells
    <3>. QED  BY <1>9, <3>4
  <2>. QED  BY <2>1, <2>2
<1>12. ASSUME NEW k \in 1..Len(wire'.queue)
       PROVE  ~TellsTheEnd(wire'.queue[k])
  <2>1. /\ Len(Append(Q, x)) = Len(Q) + 1 /\ Len(Q) \in Nat /\ Append(Q, x)[Len(Q) + 1] = x
        /\ \A i \in 1..Len(Q) : Append(Q, x)[i] = Q[i]
    BY <1>6, ListGrows
  <2>2. CASE k \in 1..Len(Q)
    <3>1. wire'.queue[k] = Q[k]
      BY <1>5, <2>1, <2>2
    <3>. QED  BY <1>3, <1>10, <2>2, <3>1 DEF Untold
  <2>3. CASE k \notin 1..Len(Q)
    <3>1. k = Len(Q) + 1
      BY <1>5, <2>1, <2>3
    <3>. QED  BY <1>5, <1>11, <2>1, <3>1
  <2>. QED  BY <2>2, <2>3
<1>. QED  BY <1>10, <1>12 DEF Untold

LEMMA ReadTells ==
    ASSUME Inv, WireTells, Read
    PROVE  WireTells'
<1>1. /\ stage = "reading" /\ stage' = "reading" /\ src' = src /\ buf' = wire.queue
      /\ wire' = [wire EXCEPT !.queue = <<>>]
  BY DEF Read, Waiting
<1>2. wire'.queue = <<>> /\ wire'.told = wire.told
  BY <1>1 DEF Inv, WireFits
<1>3. 1..Len(wire'.queue) = {}
  BY <1>2, NothingIsAList
<1>. QED  BY <1>1, <1>2, <1>3 DEF WireTells, Untold

\* An event that does not tell the end does not bring the source to it.
LEMMA AdvanceTells ==
    ASSUME Inv, WireTells, stage = "reading", buf # <<>>, src.dialect # "fixed", NEW r, NEW t, Advance(r, t),
           r.dialect = src.dialect,
           ~TellsTheEnd(Head(buf)) => (r.finished => src.finished) /\ (r.done => src.done)
    PROVE  WireTells'
<1>1. stage' = "reading" /\ src' = r
  BY DEF Advance
<1>2. wire'.told = wire.told
  BY DEF Advance, CloseConn, Inv, WireFits
<1>3. SUFFICES ASSUME ~wire.told
               PROVE  Untold(r, buf', wire')
  BY <1>1, <1>2 DEF WireTells
<1>4. Untold(src, buf, wire)
  BY <1>3 DEF WireTells
<1>5. IsList(buf)
  BY DEF Inv, WireFits
<1>6. Head(buf) = buf[1] /\ Len(buf) \in Nat \ {0} /\ Len(Tail(buf)) = Len(buf) - 1
      /\ \A i \in 1..(Len(buf) - 1) : Tail(buf)[i] = buf[i + 1]
  BY <1>5, ListShrinks
<1>7. ~TellsTheEnd(Head(buf))
  <2>1. 1 \in 1..Len(buf)
    BY <1>6
  <2>. QED  BY <1>4, <1>6, <2>1 DEF Untold
<1>8. ~r.finished /\ ~r.done
  BY <1>4, <1>7 DEF Untold
<1>9. buf' = Tail(buf) /\ wire' = wire
  BY <1>8 DEF Advance
<1>10. ASSUME NEW k \in 1..Len(Tail(buf))
       PROVE  ~TellsTheEnd(Tail(buf)[k])
  <2>1. k \in 1..(Len(buf) - 1) /\ k + 1 \in 1..Len(buf)
    BY <1>6
  <2>. QED  BY <1>4, <1>6, <2>1 DEF Untold
<1>. QED  BY <1>4, <1>8, <1>9, <1>10 DEF Untold

LEMMA OverTells ==
    ASSUME stage' = "over"
    PROVE  WireTells'
  BY DEF WireTells

LEMMA OpenAITells ==
    ASSUME Inv, EventsFit, WireTells, OpenAINext
    PROVE  WireTells'
<1>1. Handles("openai")
  BY DEF OpenAINext
<1>2. /\ stage = "reading" /\ buf # <<>> /\ ~src.done /\ src.dialect = "openai" /\ Chats(src) /\ Sayable(Head(buf))
  BY <1>1, HandlesChats
<1>3. PICK ev : ev = Head(buf)
  OBVIOUS
<1>4. CASE ev.type = "chunk"
  <2>1. PICK r, t : r = OpenAIChunk(src, ev) /\ Advance(r, t)
    BY <1>3, <1>4, Zenon DEF OpenAINext
  <2>2. /\ r.done = src.done /\ r.dialect = src.dialect
        /\ r.finished => src.finished \/ ev.chunk.finish # NoFinish
    BY <1>2, <1>3, <1>4, <2>1, ChunkIsHanded
  <2>3. ~TellsTheEnd(ev) => ev.chunk.finish = NoFinish
    BY <1>4 DEF TellsTheEnd
  <2>4. ~TellsTheEnd(Head(buf)) => (r.finished => src.finished) /\ (r.done => src.done)
    BY <1>3, <2>2, <2>3
  <2>. QED  BY <1>2, <2>1, <2>2, <2>4, AdvanceTells
<1>5. CASE ev.type = "DONE"
  <2>1. PICK r, t : r = CleanEnd(src) /\ Advance(r, t)
    BY <1>3, <1>5, Zenon DEF OpenAINext
  <2>2. r.dialect = src.dialect
    BY <1>2, <2>1, EndsCleanly
  <2>3. TellsTheEnd(Head(buf))
    BY <1>3, <1>5 DEF TellsTheEnd
  <2>. QED  BY <1>2, <2>1, <2>2, <2>3, AdvanceTells
<1>6. CASE ev.type = "error"
  <2>1. EndsInError(streamErrorFromObject(ev))
    BY <1>3, <1>6, Zenon DEF OpenAINext
  <2>2. stage' = "over"
    BY <2>1 DEF EndsInError, EndsAs
  <2>. QED  BY <2>2, OverTells
<1>7. CASE ev.type \notin {"chunk", "DONE", "error"}
  <2>1. Advance(src, timer)
    BY <1>3, <1>7 DEF OpenAINext
  <2>. QED  BY <1>2, <2>1, AdvanceTells
<1>. QED  BY <1>4, <1>5, <1>6, <1>7

LEMMA GeminiTells ==
    ASSUME Inv, EventsFit, WireTells, GeminiNext
    PROVE  WireTells'
<1>1. Handles("gemini")
  BY DEF GeminiNext
<1>2. /\ stage = "reading" /\ buf # <<>> /\ ~src.done /\ src.dialect = "gemini" /\ Chats(src) /\ Sayable(Head(buf))
  BY <1>1, HandlesChats
<1>3. PICK ev : ev = Head(buf)
  OBVIOUS
<1>4. CASE ev.type = "gemini"
  <2>1. PICK r, t : r = GeminiEvent(src, ev) /\ Advance(r, t)
    BY <1>3, <1>4, Zenon DEF GeminiNext
  <2>2. /\ r.done = src.done /\ r.dialect = src.dialect
        /\ r.finished => src.finished \/ ev.block \/ ev.finish # NoFinish
    BY <1>2, <1>3, <1>4, <2>1, GeminiIsHanded
  <2>3. ~TellsTheEnd(ev) => ~ev.block /\ ev.finish = NoFinish
    BY <1>4 DEF TellsTheEnd
  <2>4. ~TellsTheEnd(Head(buf)) => (r.finished => src.finished) /\ (r.done => src.done)
    BY <1>3, <2>2, <2>3
  <2>. QED  BY <1>2, <2>1, <2>2, <2>4, AdvanceTells
<1>5. CASE ev.type = "error"
  <2>1. EndsInError(streamErrorFromObject(ev))
    BY <1>3, <1>5, Zenon DEF GeminiNext
  <2>2. stage' = "over"
    BY <2>1 DEF EndsInError, EndsAs
  <2>. QED  BY <2>2, OverTells
<1>6. CASE ev.type \notin {"gemini", "error"}
  <2>1. Advance(src, timer)
    BY <1>3, <1>6 DEF GeminiNext
  <2>. QED  BY <1>2, <2>1, AdvanceTells
<1>. QED  BY <1>4, <1>5, <1>6

LEMMA PassTells ==
    ASSUME Inv, EventsFit, WireTells, PassNext
    PROVE  WireTells'
<1>1. /\ stage = "reading" /\ ~src.done /\ buf # <<>> /\ src.dialect = "pass"
  BY DEF PassNext, Handles
<1>2. DOMAIN src = SourceFields
  BY <1>1 DEF EventsFit, StreamFits, SourceIs
<1>3. PICK ev : ev = Head(buf)
  OBVIOUS
<1>4. CASE ev.type # "pass"
  <2>1. Advance(src, timer)
    BY <1>3, <1>4 DEF PassNext
  <2>. QED  BY <1>1, <2>1, AdvanceTells
<1>5. CASE ev.type = "pass" /\ ev.frame.type = "error"
  <2>1. EndsInError(streamErrorFromObject(ev))
    BY <1>3, <1>5, Zenon DEF PassNext
  <2>2. stage' = "over"
    BY <2>1 DEF EndsInError, EndsAs
  <2>. QED  BY <2>2, OverTells
<1>6. CASE ev.type = "pass" /\ ev.frame.type # "error"
  <2>1. PICK u, k : u = PassEvent(src, ev) /\ Advance(u, k)
    BY <1>3, <1>6, Zenon DEF PassNext
  <2>2. IsPassed(u, src, ev.frame)
    BY <1>2, <2>1, PassedOn, Zenon
  <2>3. ~TellsTheEnd(ev) => ev.frame.type \notin LastEvents
    BY <1>6 DEF TellsTheEnd
  <2>4. ~TellsTheEnd(Head(buf)) => (u.finished => src.finished) /\ (u.done => src.done)
    BY <1>3, <2>2, <2>3 DEF IsPassed
  <2>5. u.dialect = src.dialect
    BY <2>2 DEF IsPassed
  <2>. QED  BY <1>1, <2>1, <2>4, <2>5, AdvanceTells
<1>. QED  BY <1>4, <1>5, <1>6

\* A body that ends is taken for the end of the reply only after the last finish.
LEMMA BodyEndsTells ==
    ASSUME Inv, EventsFit, WireTells, BodyEnds
    PROVE  WireTells'
<1>1. stage = "reading" /\ ~src.done
  BY DEF BodyEnds, Waiting
<1>2. PICK r : /\ r = CASE src.dialect = "openai" -> OpenAIBodyEnds(src)
                        [] src.dialect = "gemini" -> GeminiBodyEnds(src)
                        [] OTHER                  -> PassBodyEnds(src)
               /\ IF r.err = NoError
                  THEN src' = r.src /\ CloseConn /\ UNCHANGED <<call, route, stage, ctx, end, seen, committed, hold, holds>>
                  ELSE EndsInError(r.err)
  BY Zenon DEF BodyEnds
<1>3. CASE r.err # NoError
  <2>1. stage' = "over"
    BY <1>2, <1>3 DEF EndsInError, EndsAs
  <2>. QED  BY <2>1, OverTells
<1>4. CASE r.err = NoError
  <2>1. wire'.told = wire.told
    BY <1>2, <1>4 DEF CloseConn, Inv, WireFits
  <2>2. StreamError(502, <<>>) # NoError
    BY DEF StreamError, NoError
  <2>3. src.finished /\ src.dialect # "fixed"
    <3>1. CASE src.dialect = "openai"
      <4>1. r = OpenAIBodyEnds(src)
        BY <1>2, <3>1
      <4>. QED  BY <1>4, <2>2, <3>1, <4>1 DEF OpenAIBodyEnds
    <3>2. CASE src.dialect = "gemini"
      <4>1. r = GeminiBodyEnds(src)
        BY <1>2, <3>2
      <4>. QED  BY <1>4, <2>2, <3>2, <4>1 DEF GeminiBodyEnds
    <3>3. CASE src.dialect \notin {"openai", "gemini"}
      <4>1. r = PassBodyEnds(src)
        BY <1>2, <3>3
      <4>. QED  BY <1>4, <2>2, <4>1 DEF PassBodyEnds
    <3>. QED  BY <3>1, <3>2, <3>3
  <2>4. wire.told
    BY <1>1, <2>3 DEF WireTells, Untold
  <2>. QED  BY <2>1, <2>4 DEF WireTells
<1>. QED  BY <1>3, <1>4

\* A reply that was read whole is of no provider's stream.
LEMMA WholeIsFixed ==
    ASSUME SendsWholeReply \/ SendsRefusal
    PROVE  src'.dialect = "fixed"
<1>1. ASSUME NEW queue, NEW em, NEW x, NEW y
      PROVE  /\ [Source("fixed", queue, em) EXCEPT !.final = x, !.done = TRUE].dialect = "fixed"
             /\ [Source("fixed", queue, em) EXCEPT !.acc = y, !.done = TRUE].dialect = "fixed"
  BY DEF Source
<1>2. ASSUME NEW form, NEW reply
      PROVE  BufferedStream(form, reply).dialect = "fixed"
  <2>1. PICK whole, em : /\ whole = (IF form = "chat" THEN wrapChatReplyAsResponses(reply) ELSE reply)
                         /\ em = bufferedResponsesFrames(whole)
    OBVIOUS
  <2>2. PICK q, acc : /\ q = Source("fixed", bufferedChatFrames(reply, call.usage), newResponsesEmitter)
                      /\ acc = [q.acc EXCEPT !.choices = reply.choices]
    BY Zenon
  <2>3. CASE call.op = "responses"
    <3>1. BufferedStream(form, reply) = [Source("fixed", em.out, em) EXCEPT !.final = whole, !.done = TRUE]
      BY <2>1, <2>3, Zenon DEF BufferedStream
    <3>. QED  BY <1>1, <3>1
  <2>4. CASE call.op # "responses"
    <3>1. BufferedStream(form, reply) = [q EXCEPT !.acc = acc, !.done = TRUE]
      BY <2>2, <2>4, Zenon DEF BufferedStream
    <3>. QED  BY <1>1, <2>2, <3>1
  <2>. QED  BY <2>3, <2>4
<1>3. RefusalStream.dialect = "fixed"
  <2>1. PICK chunks, em :
         /\ chunks = <<Chunk(0, 0, {}, <<>>, NoFinish, FALSE), Chunk(0, 0, {}, <<>>, "content_filter", FALSE)>>
         /\ em = event(event(newResponsesEmitter, "created", NoFields), "incomplete", [output |-> <<>>])
    BY Zenon
  <2>2. PICK frames, q, acc, final :
         /\ frames = Append([k \in DOMAIN chunks |-> ChunkFrame(chunks[k])], DoneFrame)
         /\ q = Source("fixed", frames, em) /\ acc = FoldLeft(add, q.acc, chunks)
         /\ final = [status |-> "incomplete", output |-> <<>>]
    BY Zenon
  <2>3. RefusalStream = IF call.op = "responses"
                        THEN [Source("fixed", em.out, em) EXCEPT !.final = final, !.done = TRUE]
                        ELSE [q EXCEPT !.acc = acc, !.done = TRUE]
    BY <2>1, <2>2, Zenon DEF RefusalStream
  <2>4. [q EXCEPT !.acc = acc, !.done = TRUE].dialect = "fixed"
    BY <1>1, <2>2
  <2>. QED  BY <1>1, <2>3, <2>4
<1>4. CASE SendsWholeReply
  <2>1. PICK form, reply : SendsFixed(BufferedStream(form, reply))
    BY <1>4, Zenon DEF SendsWholeReply
  <2>2. src' = BufferedStream(form, reply)
    BY <2>1 DEF SendsFixed
  <2>. QED  BY <1>2, <2>2
<1>5. CASE SendsRefusal
  <2>1. src' = RefusalStream
    BY <1>5 DEF SendsRefusal, SendsFixed
  <2>. QED  BY <1>3, <2>1
<1>. QED  BY <1>4, <1>5

LEMMA WiresKeepTelling == Inv /\ EventsFit /\ WireTells /\ [Next]_vars => WireTells'
<1>. SUFFICES ASSUME Inv, EventsFit, WireTells, [Next]_vars PROVE WireTells'
  OBVIOUS
<1>1. CASE UNCHANGED vars
  BY <1>1 DEF vars, WireTells, Untold
<1>2. CASE AnswersWhole \/ FallsBackToChat
  BY <1>2 DEF AnswersWhole, FallsBackToChat, WireTells
<1>3. CASE ConnectFails \/ ReplyFails \/ ReplyIsJudged \/ ReadFails \/ Completes \/ WriteFails
  <2>1. stage' = "over"
    BY <1>3 DEF ConnectFails, ReplyFails, ReplyIsJudged, ReadFails, Completes, WriteFails, EndsInFailure,
                EndsInError, EndsAs
  <2>. QED  BY <2>1, OverTells
<1>4. CASE Opens
  <2>1. src' = OpenSource /\ buf' = buf /\ stage = "connecting"
    BY <1>4 DEF Opens
  <2>2. buf' = <<>> /\ wire'.queue = <<>>
    BY <1>4, <2>1 DEF Opens, Idle, Inv, WireFits
  <2>3. ~src'.finished /\ ~src'.done
    BY <2>1 DEF OpenSource, Source
  <2>4. 1..Len(buf') = {} /\ 1..Len(wire'.queue) = {}
    BY <2>2, NothingIsAList
  <2>. QED  BY <2>3, <2>4 DEF WireTells, Untold
<1>5. CASE ProviderEnds
  <2>1. PICK how : wire' = [wire EXCEPT !.over = how]
    BY <1>5, Zenon DEF ProviderEnds
  <2>2. wire'.queue = wire.queue /\ wire'.told = wire.told
    BY <2>1 DEF Inv, WireFits
  <2>. QED  BY <1>5, <2>2 DEF ProviderEnds, Streams, WireTells, Untold
<1>6. CASE ClientHolds \/ ClientTakes \/ CallerLeaves \/ Tick
  <2>1. stage' = stage /\ src' = src /\ buf' = buf /\ wire' = wire
    BY <1>6 DEF ClientHolds, ClientTakes, CallerLeaves, Tick
  <2>. QED  BY <2>1 DEF WireTells, Untold
<1>7. CASE HandOver
  <2>1. stage = "reading" /\ stage' = stage /\ buf' = buf /\ wire' = wire /\ src' = [src EXCEPT !.queue = Tail(src.queue)]
    BY <1>7 DEF HandOver
  <2>2. DOMAIN src = SourceFields
    BY <2>1 DEF EventsFit, StreamFits, SourceIs
  <2>3. src'.finished = src.finished /\ src'.done = src.done /\ src'.dialect = src.dialect
    BY <2>1, <2>2 DEF SourceFields
  <2>. QED  BY <2>1, <2>3 DEF WireTells, Untold
<1>8. CASE SendsWholeReply \/ SendsRefusal
  BY <1>8, WholeIsFixed DEF WireTells
<1>. QED  BY <1>1, <1>2, <1>3, <1>4, <1>5, <1>6, <1>7, <1>8, WritesTell, ReadTells, OpenAITells, GeminiTells, PassTells,
             BodyEndsTells DEF Next, Begin, Provider, Reader, Others

\* A client has the end only of a source that has come to it.
LEMMA Unfinished ==
    ASSUME Inv, EventsFit, stage # "over", stage = "reading" => ~src.done
    PROVE  seen.phase # "complete"
<1>1. CASE stage # "reading"
  <2>1. seen = NothingSeen
    BY <1>1 DEF EventsFit, Inv, CallFits
  <2>. QED  BY <2>1 DEF NothingSeen
<1>2. CASE stage = "reading" /\ call.op = "chat"
  BY <1>2 DEF EventsFit, StreamFits, Talking, Chatting
<1>3. CASE stage = "reading" /\ call.op = "responses"
  <2>1. Streaming(seen, src, buf, wire) /\ ~src.done
    BY <1>3 DEF EventsFit, StreamFits
  <2>2. IsList(src.queue) /\ \E t : Leads(seen, src.queue, t) /\ t.phase \in {"new", "open"}
    BY <2>1 DEF Streaming, Passing, Pending
  <2>3. PICK t : Leads(seen, src.queue, t) /\ t.phase \in {"new", "open"}
    BY <2>2
  <2>4. IsClient(seen)
    BY <2>2, <2>3, LeadsToClients
  <2>5. CASE src.queue = <<>>
    BY <2>3, <2>4, <2>5, LeadsNowhere
  <2>6. CASE src.queue # <<>>
    <3>1. Proper(seen, Head(src.queue))
      BY <2>2, <2>3, <2>6, LeadsFirst
    <3>. QED  BY <3>1 DEF Proper
  <2>. QED  BY <2>5, <2>6
<1>. QED  BY <1>1, <1>2, <1>3, CallIs

LEMMA ToldWhileItReads ==
    ASSUME Inv, EventsFit, WireTells, stage # "over"
    PROVE  seen.phase = "complete" /\ src.dialect # "fixed" => wire.told
<1>1. CASE stage = "reading" => ~src.done
  BY <1>1, Unfinished
<1>2. CASE stage = "reading" /\ src.done
  BY <1>2 DEF WireTells, Untold
<1>. QED  BY <1>1, <1>2

LEMMA EndKeeps ==
    ASSUME Inv, NEW how, NEW status, NEW timeout, EndsAs(how, status, timeout)
    PROVE  /\ stage' = "over" /\ ~hold' /\ end'.how = how /\ ctx' = ctx /\ src' = src /\ wire'.told = wire.told
  BY DEF EndsAs, CloseConn, Inv, WireFits

\* A failure is told to a client that has output.
LEMMA ErrorIsTold ==
    ASSUME Inv, EventsFit, stage # "over", stage = "reading" => ~src.done, NEW e, EndsInError(e)
    PROVE  EndsAreTold'
<1>1. seen.phase # "complete"
  BY Unfinished
<1>2. stage' = "over" /\ ~hold' /\ end'.how = "error" /\ ctx' = ctx
  BY EndKeeps DEF EndsInError
<1>3. committed' = committed
  BY DEF EndsInError
<1>4. PICK f : f = ErrorFrame(e)
  OBVIOUS
<1>5. f.type = "error"
  BY <1>4 DEF ErrorFrame
<1>6. Take(seen, f).phase = "failed"
  <2>1. CASE call.op = "responses"
    <3>1. PhaseAfter(seen, f) = "failed"
      BY <1>5 DEF PhaseAfter, LastEvents
    <3>2. PICK n, p, i, x : Take(seen, f) = [seen EXCEPT !.next = n, !.phase = p, !.items = i, !.final = x]
                            /\ p = PhaseAfter(seen, f)
      BY <2>1, Zenon DEF Take, TakeEvent
    <3>. QED  BY <3>1, <3>2 DEF Inv, CallFits, IsSeen
  <2>2. CASE call.op # "responses"
    <3>1. Take(seen, f) = [seen EXCEPT !.phase = "failed"]
      BY <1>5, <2>2 DEF Take
    <3>. QED  BY <3>1 DEF Inv, CallFits, IsSeen
  <2>. QED  BY <2>1, <2>2
<1>7. seen' = IF committed /\ ~ctx.callerGone THEN Take(seen, f) ELSE seen
  BY <1>4 DEF EndsInError
<1>8. seen'.phase # "complete" /\ (committed' /\ ~ctx'.callerGone => seen'.phase = "failed")
  BY <1>1, <1>2, <1>3, <1>6, <1>7
<1>. QED  BY <1>2, <1>8 DEF EndsAreTold, NoSilentTruncation, Ended

\* An end of which the client is not told: it is gone, or it has nothing.
LEMMA QuietEnds ==
    ASSUME Inv, EventsFit, WireTells, stage # "over", NEW how, EndsAs(how, 0, FALSE), seen' = seen,
           committed' = committed, ~committed \/ ctx.callerGone
    PROVE  EndsAreTold'
<1>1. /\ stage' = "over" /\ ~hold' /\ ctx' = ctx /\ src' = src /\ wire'.told = wire.told
  BY EndKeeps, Zenon
<1>2. seen'.phase = "complete" /\ src'.dialect # "fixed" => wire'.told
  BY <1>1, ToldWhileItReads
<1>. QED  BY <1>1, <1>2 DEF EndsAreTold, NoSilentTruncation, Ended

LEMMA FailureIsTold ==
    ASSUME Inv, EventsFit, WireTells, stage # "over", stage = "reading" => ~src.done, EndsInFailure
    PROVE  EndsAreTold'
<1>1. CASE ctx.callerGone
  BY <1>1, QuietEnds, Zenon DEF EndsInFailure
<1>2. CASE ~ctx.callerGone
  <2>1. PICK e : EndsInError(e)
    BY <1>2 DEF EndsInFailure
  <2>. QED  BY <2>1, ErrorIsTold
<1>. QED  BY <1>1, <1>2

\* A stream that completes has told its client so.
LEMMA CompletionIsTold ==
    ASSUME Inv, EventsFit, WireTells, Completes
    PROVE  EndsAreTold'
<1>1. stage = "reading" /\ src.queue = <<>> /\ src.done /\ seen' = seen /\ EndsAs("eof", 0, FALSE)
  BY Zenon DEF Completes, Queue
<1>2. /\ stage' = "over" /\ ~hold' /\ end'.how = "eof" /\ src' = src /\ wire'.told = wire.told
  BY <1>1, EndKeeps, Zenon
<1>3. StreamFits(seen, src, buf, wire)
  BY <1>1 DEF EventsFit
<1>4. CASE call.op = "chat"
  <2>1. seen.phase = "complete"
    BY <1>1, <1>3, <1>4 DEF StreamFits, Talking, ChatEnding
  <2>. QED  BY <1>1, <1>2, <2>1, ToldWhileItReads DEF EndsAreTold, NoSilentTruncation
<1>5. CASE call.op = "responses"
  <2>1. PICK t : Leads(seen, <<>>, t) /\ t.phase = "complete"
    BY <1>1, <1>3, <1>5 DEF StreamFits, Streaming, Completing
  <2>2. IsClient(seen)
    BY <2>1, NothingIsAList, LeadsToClients
  <2>3. seen.phase = "complete"
    BY <2>1, <2>2, LeadsNowhere
  <2>. QED  BY <1>1, <1>2, <2>3, ToldWhileItReads DEF EndsAreTold, NoSilentTruncation
<1>. QED  BY <1>4, <1>5, CallIs

LEMMA HandledEnds ==
    ASSUME Inv, EventsFit, WireTells, OpenAINext \/ GeminiNext \/ PassNext
    PROVE  EndsAreTold'
<1>1. PICK ev : ev = Head(buf)
  OBVIOUS
<1>2. stage = "reading" /\ ~src.done
  BY DEF OpenAINext, GeminiNext, PassNext, Handles
<1>3. \/ \E r, t : Advance(r, t)
      \/ \E e : EndsInError(e)
  <2>1. CASE OpenAINext
    BY <1>1, <2>1, Zenon DEF OpenAINext
  <2>2. CASE GeminiNext
    BY <1>1, <2>2, Zenon DEF GeminiNext
  <2>3. CASE PassNext
    BY <1>1, <2>3, Zenon DEF PassNext
  <2>. QED  BY <2>1, <2>2, <2>3
<1>4. CASE \E r, t : Advance(r, t)
  <2>1. stage' = stage
    BY <1>4 DEF Advance
  <2>. QED  BY <1>2, <2>1 DEF EndsAreTold
<1>5. CASE \E e : EndsInError(e)
  BY <1>2, <1>5, ErrorIsTold
<1>. QED  BY <1>3, <1>4, <1>5

LEMMA BodyEndIsTold ==
    ASSUME Inv, EventsFit, WireTells, BodyEnds
    PROVE  EndsAreTold'
<1>1. stage = "reading" /\ ~src.done
  BY DEF BodyEnds, Waiting
<1>2. stage' = stage \/ \E e : EndsInError(e)
  BY Zenon DEF BodyEnds
<1>3. CASE stage' = stage
  BY <1>1, <1>3 DEF EndsAreTold
<1>4. CASE \E e : EndsInError(e)
  BY <1>1, <1>4, ErrorIsTold
<1>. QED  BY <1>2, <1>3, <1>4

\* Nothing happens to a call that is over.
LEMMA OverStays ==
    ASSUME EndsAreTold, stage = "over", [Next]_vars
    PROVE  EndsAreTold'
<1>1. ~hold
  BY DEF EndsAreTold
<1>2. ~Begin
  BY DEF Begin, Opens, AnswersWhole, ConnectFails, ReplyFails, ReplyIsJudged, FallsBackToChat, SendsWholeReply,
         SendsRefusal, SendsFixed
<1>3. ~Provider
  BY DEF Provider, ProviderWrites, ProviderEnds, Streams
<1>4. ~Reader
  BY DEF Reader, Read, ReadFails, BodyEnds, OpenAINext, GeminiNext, PassNext, Handles, HandOver, Completes, Waiting
<1>5. ~Others
  BY <1>1 DEF Others, ClientHolds, ClientTakes, CallerLeaves, WriteFails, Tick, Blocked, Waiting
<1>6. UNCHANGED vars
  BY <1>2, <1>3, <1>4, <1>5 DEF Next
<1>. QED  BY <1>6 DEF vars, EndsAreTold, NoSilentTruncation, Ended

LEMMA EndsKeepTelling == Inv /\ EventsFit /\ WireTells /\ EndsAreTold /\ [Next]_vars => EndsAreTold'
<1>. SUFFICES ASSUME Inv, EventsFit, WireTells, EndsAreTold, [Next]_vars, stage # "over" PROVE EndsAreTold'
  BY OverStays
<1>1. CASE UNCHANGED vars
  BY <1>1 DEF vars, EndsAreTold
<1>2. CASE Opens \/ AnswersWhole \/ FallsBackToChat \/ SendsWholeReply \/ SendsRefusal
  BY <1>2 DEF Opens, AnswersWhole, FallsBackToChat, SendsWholeReply, SendsRefusal, SendsFixed, EndsAreTold
<1>3. CASE Provider \/ ClientHolds \/ ClientTakes \/ CallerLeaves \/ Tick \/ Read \/ HandOver
  <2>1. stage' = stage
    BY <1>3 DEF Provider, ProviderWrites, ProviderEnds, ClientHolds, ClientTakes, CallerLeaves, Tick, Read, HandOver
  <2>. QED  BY <2>1 DEF EndsAreTold
<1>4. CASE ConnectFails \/ ReplyFails
  <2>1. stage # "reading" /\ EndsInFailure
    BY <1>4 DEF ConnectFails, ReplyFails
  <2>. QED  BY <2>1, FailureIsTold
<1>5. CASE ReplyIsJudged
  <2>1. EndsAs("answer", 0, FALSE) /\ seen' = seen /\ committed' = committed /\ ~committed
    BY <1>5, Zenon DEF ReplyIsJudged, EventsFit
  <2>. QED  BY <2>1, QuietEnds, Zenon
<1>6. CASE WriteFails
  <2>1. EndsAs("context", 0, FALSE) /\ seen' = seen /\ committed' = committed /\ ctx.callerGone
    BY <1>6, Zenon DEF WriteFails
  <2>. QED  BY <2>1, QuietEnds, Zenon
<1>7. CASE ReadFails
  <2>1. ~src.done /\ EndsInFailure
    BY <1>7 DEF ReadFails, Waiting
  <2>. QED  BY <2>1, FailureIsTold
<1>. QED  BY <1>1, <1>2, <1>3, <1>4, <1>5, <1>6, <1>7, CompletionIsTold, HandledEnds, BodyEndIsTold
          DEF Next, Begin, Reader, Others

\* Whatever breaks a stream, the client is not left to take a part for the whole:
\* it has the end only if the provider told it, and one that has output is told of
\* every other end (OpenAI and Gemini finish reasons, the terminal events of a
\* provider's own stream, and the error frame of streamConn.failure).
THEOREM NothingIsTruncated == Spec => []NoSilentTruncation
<1>1. Init => WireTells /\ EndsAreTold
  BY DEF Init, WireTells, EndsAreTold
<1>2. Inv /\ EventsFit /\ WireTells /\ EndsAreTold => NoSilentTruncation
  <2>. SUFFICES ASSUME Inv, EventsFit, WireTells, EndsAreTold, stage # "over" PROVE NoSilentTruncation
    BY DEF EndsAreTold
  <2>. QED  BY ToldWhileItReads DEF NoSilentTruncation, Ended
<1>. QED  BY <1>1, <1>2, InitFits, StepFits, EventsFitFirst, EventsKeepFitting, WiresKeepTelling, EndsKeepTelling, PTL
          DEF Spec

-----------------------------------------------------------------------------
(* Output *)

\* What a client that puts chunks together has gathered.
AccIs(a) == DOMAIN a = {"choices", "usage", "output"} /\ a.output \in BOOLEAN

LEMMA AddSpeaks ==
    ASSUME NEW a, AccIs(a), NEW c
    PROVE  AccIs(add(a, c)) /\ (add(a, c).output <=> a.output \/ CarriesOutput(c))
<1>1. PICK b, u : b = add(a, c) /\ u = (a.usage \/ c.usage)
  OBVIOUS
<1>2. CASE c.choice = None
  <2>1. b = [a EXCEPT !.usage = u]
    BY <1>1, <1>2, Zenon DEF add
  <2>2. ~CarriesOutput(c)
    BY <1>2 DEF CarriesOutput
  <2>. QED  BY <1>1, <2>1, <2>2 DEF AccIs
<1>3. CASE c.choice # None
  <2>1. PICK m, o : /\ m = Put(a.choices, c.choice, Extended(IF c.choice \in DOMAIN a.choices THEN a.choices[c.choice]
                                                             ELSE NewChoice, c))
                    /\ o = (a.output \/ CarriesOutput(c))
    OBVIOUS
  <2>2. b = [choices |-> m, usage |-> u, output |-> o]
    BY <1>1, <1>3, <2>1, Zenon DEF add
  <2>3. b.output = o /\ DOMAIN b = {"choices", "usage", "output"}
    BY <2>2
  <2>4. o \in BOOLEAN
    BY <2>1
  <2>. QED  BY <1>1, <2>1, <2>3, <2>4, Zenon DEF AccIs
<1>. QED  BY <1>2, <1>3

LEMMA AddsSpeak ==
    ASSUME NEW a, AccIs(a), NEW q, IsList(q)
    PROVE  /\ AccIs(FoldLeft(add, a, q))
           /\ FoldLeft(add, a, q).output <=> a.output \/ \E k \in DOMAIN q : CarriesOutput(q[k])
<1>1. PICK n, b : n = Len(q) /\ b = FoldLeft(add, a, q)
  BY Zenon
<1>2. n \in Nat /\ DOMAIN q = 1..n
  BY <1>1, ListHas
<1>3. PICK f : Adding!Goes(f, a, q, n) /\ Adding!Run(a, q) = f[n]
  BY <1>2, Adding!RunIs
<1>4. b = f[n]
  <2>1. FoldLeft(add, a, q) = Adding!FoldLeft(add, a, q)
    BY Zenon DEF FoldLeft, MapThenFoldSet, Max, Adding!FoldLeft, Adding!MapThenFoldSet, Adding!Max
  <2>. QED  BY <1>1, <1>3, <2>1, Zenon DEF Adding!Run
<1>. DEFINE Speaking(x, i) == AccIs(x) /\ (x.output <=> a.output \/ \E k \in 1..i : CarriesOutput(q[k]))
            T == {i \in Nat : Speaking(f[i], i)}
<1>5. 0 \in T
  BY <1>3 DEF Adding!Goes
<1>6. ASSUME NEW i \in 1..n, i - 1 \in T
      PROVE  i \in T
  <2>1. PICK x, y : x = f[i - 1] /\ y = f[i]
    OBVIOUS
  <2>2. Speaking(x, i - 1) /\ y = add(x, q[i]) /\ i \in Nat
    BY <1>3, <1>6, <2>1 DEF Adding!Goes
  <2>3. AccIs(y) /\ (y.output <=> x.output \/ CarriesOutput(q[i]))
    BY <2>2, AddSpeaks
  <2>4. (\E k \in 1..i : CarriesOutput(q[k])) <=> (\E k \in 1..(i - 1) : CarriesOutput(q[k])) \/ CarriesOutput(q[i])
    <3>1. \A k \in Int : k \in 1..i <=> k \in 1..(i - 1) \/ k = i
      BY <2>2
    <3>. QED  BY <3>1
  <2>. QED  BY <2>1, <2>2, <2>3, <2>4, Zenon
<1>. HIDE DEF T
<1>7. \A i \in 1..n : i - 1 \in T => i \in T
  BY <1>6
<1>8. n \in T
  <2>1. \A i \in 0..n : i \in T
    BY <1>2, <1>5, <1>7, Adding!Upwards, Zenon
  <2>. QED  BY <1>2, <2>1
<1>. QED  BY <1>1, <1>2, <1>4, <1>8 DEF T

\* A source has spoken when it has output, or has begun a tool call.
Opened(r) == ViaChat /\ DOMAIN r.em.calls # {}
Spoken(r) == Output(r) \/ Opened(r)

LEMMA HandsOutput ==
    ASSUME Inv, NEW r, Chats(r), NEW frames, IsList(frames),
           \A k \in DOMAIN frames : frames[k].type = "chunk" /\ IsChunk(frames[k].chunk),
           \A k \in DOMAIN frames : call.op = "responses" /\ CarriesOutput(frames[k].chunk) => frames[k].chunk.choice = 0
    PROVE  (\E k \in DOMAIN frames : CarriesOutput(frames[k].chunk)) \/ Opened(Hand(r, frames)) =>
               Opened(r) \/ Voices(Hand(r, frames).queue)
<1>1. PICK u : u = Hand(r, frames)
  OBVIOUS
<1>2. CASE ViaChat
  <2>1. u = ReEmit(r, frames)
    BY <1>1, <1>2, Zenon DEF Hand
  <2>2. call.op = "responses"
    BY <1>2 DEF ViaChat
  <2>3. Pending(seen, r)
    BY <2>2 DEF Chats
  <2>4. DOMAIN u.em.calls # {} \/ (\E k \in DOMAIN frames : Speaks(frames[k].chunk))
            => DOMAIN r.em.calls # {} \/ Voices(u.queue)
    BY <2>1, <2>3, FramesAreQueued
  <2>5. \A k \in DOMAIN frames : CarriesOutput(frames[k].chunk) => Speaks(frames[k].chunk)
    BY <2>2 DEF Speaks
  <2>. QED  BY <1>1, <1>2, <2>4, <2>5 DEF Opened
<1>3. CASE ~ViaChat
  <2>1. u = [r EXCEPT !.queue = r.queue \o frames]
    BY <1>1, <1>3, Zenon DEF Hand
  <2>2. call.op # "responses"
    BY <1>3 DEF Chats
  <2>3. IsList(r.queue) /\ u.queue = r.queue \o frames
    <3>1. call.op = "chat"
      BY <2>2, CallIs
    <3>. QED  BY <2>1, <3>1 DEF Chats, Chatting, SourceFields
  <2>4. Voices(frames) => Voices(u.queue)
    BY <2>3, VoicesJoin
  <2>5. (\E k \in DOMAIN frames : CarriesOutput(frames[k].chunk)) => Voices(frames)
    BY ListHas DEF Voices, Carries
  <2>. QED  BY <1>1, <1>3, <2>4, <2>5 DEF Opened
<1>. QED  BY <1>2, <1>3

LEMMA ChunkSpeaks ==
    ASSUME Inv, NEW r, Chats(r), AccIs(r.acc), NEW ev, Sayable(ev), ev.type = "chunk",
           NEW u, u = OpenAIChunk(r, ev)
    PROVE  /\ AccIs(u.acc) /\ (r.acc.output => u.acc.output)
           /\ u.acc.output \/ Opened(u) => r.acc.output \/ Opened(r) \/ Voices(u.queue)
<1>1. PICK c, acc, fin : /\ c = ev.chunk /\ acc = add(r.acc, c)
                         /\ fin = (r.finished \/ c.finish # NoFinish)
  OBVIOUS
<1>2. PICK added : added = [r EXCEPT !.acc = acc, !.finished = fin]
  OBVIOUS
<1>3. PICK usage, d, frames : usage = (c.usage /\ forwardUsage) /\ d = [c EXCEPT !.usage = usage]
                              /\ frames = <<ChunkFrame(d)>>
  BY Zenon
<1>4. /\ DOMAIN added = SourceFields /\ added.dialect = r.dialect /\ added.queue = r.queue /\ added.em = r.em
      /\ added.acc = acc
  BY <1>2 DEF Chats, SourceFields
<1>5. Chats(added)
  BY <1>4, ChatsOn
<1>6. AccIs(acc) /\ (acc.output <=> r.acc.output \/ CarriesOutput(c))
  BY <1>1, AddSpeaks
<1>7. IsChunk(c) /\ DOMAIN c = {"n", "choice", "says", "calls", "finish", "usage"}
      /\ (call.op = "responses" => c.choice \in {0, None})
  BY <1>1 DEF Sayable
<1>8. d.choice = c.choice /\ d.says = c.says /\ d.calls = c.calls
  BY <1>3, <1>7
<1>9. IsChunk(d) /\ (CarriesOutput(d) <=> CarriesOutput(c))
  BY <1>7, <1>8 DEF IsChunk, CarriesOutput
<1>10. IsList(frames) /\ DOMAIN frames = 1..1 /\ frames[1] = ChunkFrame(d) /\ \A k \in DOMAIN frames : k = 1
  <2>1. IsList(frames) /\ DOMAIN frames = 1..1 /\ frames[1] = ChunkFrame(d)
    BY <1>3, OneIsAList
  <2>. QED  BY <2>1
<1>11. \A k \in DOMAIN frames : frames[k].type = "chunk" /\ frames[k].chunk = d
  BY <1>10 DEF ChunkFrame
<1>12. u = IF c.choice = None /\ c.usage /\ ~forwardUsage THEN added ELSE Hand(added, frames)
  BY <1>1, <1>2, <1>3, Zenon DEF OpenAIChunk
<1>13. CASE c.choice = None /\ c.usage /\ ~forwardUsage
  <2>1. u = added /\ ~CarriesOutput(c)
    BY <1>12, <1>13 DEF CarriesOutput
  <2>. QED  BY <1>4, <1>6, <2>1 DEF Opened
<1>14. CASE ~(c.choice = None /\ c.usage /\ ~forwardUsage)
  <2>1. u = Hand(added, frames)
    BY <1>12, <1>14
  <2>2. \A k \in DOMAIN frames : frames[k].type = "chunk" /\ IsChunk(frames[k].chunk)
    BY <1>9, <1>11
  <2>3. Beside(u, added)
    BY <1>5, <1>10, <2>1, <2>2, HandsChunks
  <2>4. \A k \in DOMAIN frames : call.op = "responses" /\ CarriesOutput(frames[k].chunk) => frames[k].chunk.choice = 0
    BY <1>7, <1>8, <1>11 DEF CarriesOutput
  <2>5. (\E k \in DOMAIN frames : CarriesOutput(frames[k].chunk)) \/ Opened(u) => Opened(added) \/ Voices(u.queue)
    BY <1>5, <1>10, <2>1, <2>2, <2>4, HandsOutput
  <2>6. CarriesOutput(c) => \E k \in DOMAIN frames : CarriesOutput(frames[k].chunk)
    BY <1>9, <1>10, <1>11
  <2>7. u.acc = acc /\ (Opened(added) <=> Opened(r))
    BY <1>4, <2>3 DEF Beside, Opened
  <2>. QED  BY <1>6, <2>5, <2>6, <2>7
<1>. QED  BY <1>13, <1>14

LEMMA GeminiSpeaks ==
    ASSUME Inv, NEW r, Chats(r), AccIs(r.acc), NEW ev, Sayable(ev), ev.type = "gemini",
           NEW u, u = GeminiEvent(r, ev)
    PROVE  /\ AccIs(u.acc) /\ (r.acc.output => u.acc.output)
           /\ u.acc.output \/ Opened(u) => r.acc.output \/ Opened(r) \/ Voices(u.queue)
<1>1. PICK g, usage, fin, acc :
         /\ g = GeminiChunks(r, ev) /\ usage = (r.usage \/ ev.usage)
         /\ fin = (r.finished \/ ev.block \/ ev.finish # NoFinish)
         /\ acc = FoldLeft(add, r.acc, g.out)
  OBVIOUS
<1>2. PICK told, frames : /\ told = [r EXCEPT !.role = TRUE, !.calls = g.calls, !.usage = usage,
                                              !.finished = fin, !.acc = acc]
                          /\ frames = [k \in DOMAIN g.out |-> ChunkFrame(g.out[k])]
  BY Zenon
<1>3. /\ DOMAIN told = SourceFields /\ told.dialect = r.dialect /\ told.queue = r.queue /\ told.em = r.em
      /\ told.acc = acc
  BY <1>2 DEF Chats, SourceFields
<1>4. Chats(told)
  BY <1>3, ChatsOn
<1>5. Chunks(g.out)
  BY <1>1, GeminiGivesChunks DEF Sayable
<1>6. PICK q : q = g.out
  OBVIOUS
<1>7. Chunks(q) /\ IsList(q) /\ DOMAIN q = 1..Len(q)
  BY <1>5, <1>6, ListHas DEF Chunks
<1>8. /\ IsList(frames) /\ DOMAIN frames = 1..Len(q)
      /\ \A k \in DOMAIN frames : /\ frames[k].type = "chunk" /\ IsChunk(frames[k].chunk)
                                  /\ frames[k].chunk = q[k] /\ q[k].choice = 0
  <2>1. frames = [k \in DOMAIN q |-> ChunkFrame(q[k])]
    BY <1>2, <1>6
  <2>. QED  BY <1>7, <2>1, FramesOfChunks
<1>9. AccIs(acc) /\ (acc.output <=> r.acc.output \/ \E k \in DOMAIN q : CarriesOutput(q[k]))
  BY <1>1, <1>6, <1>7, AddsSpeak
<1>10. u = Hand(told, frames)
  BY <1>1, <1>2, Zenon DEF GeminiEvent
<1>11. Beside(u, told)
  BY <1>4, <1>8, <1>10, HandsChunks
<1>12. (\E k \in DOMAIN frames : CarriesOutput(frames[k].chunk)) \/ Opened(u) => Opened(told) \/ Voices(u.queue)
  BY <1>4, <1>8, <1>10, HandsOutput
<1>13. (\E k \in DOMAIN q : CarriesOutput(q[k])) => \E k \in DOMAIN frames : CarriesOutput(frames[k].chunk)
  BY <1>7, <1>8
<1>14. u.acc = acc /\ (Opened(told) <=> Opened(r))
  BY <1>3, <1>11 DEF Beside, Opened
<1>. QED  BY <1>9, <1>12, <1>13, <1>14

\* What a client has been given that counts as output.
Got(s) ==
    \/ s.acc.output
    \/ \E i \in DOMAIN s.items :
          s.items[i].text # <<>> \/ s.items[i].done \/ s.items[i].kind \notin {"message", "reasoning"}

\* While a stream is read the router has committed only to one that has output;
\* what such a stream says is with the client or in the queue.
OutputFits ==
    stage = "reading" /\ src.dialect # "fixed" /\ ~src.done =>
        /\ AccIs(src.acc) /\ AccIs(seen.acc)
        /\ committed => Output(src)
        /\ Spoken(src) => Got(seen) \/ Voices(src.queue)

LEMMA GotInEvents ==
    ASSUME NEW s, IsClient(s), NEW f, Proper(s, f), NEW t, t = TakeEvent(s, f)
    PROVE  t.acc = s.acc /\ (Got(s) \/ Carries(f) => Got(t))
<1>1. t.acc = s.acc
  <2>1. PICK p, q, x : /\ p = PhaseAfter(s, f) /\ q = ItemsAfter(s.items, f)
                       /\ x = IF f.type \in LastEvents THEN [status |-> f.type, output |-> f.fields.output] ELSE s.final
    BY Zenon
  <2>2. t = [s EXCEPT !.next = f.seq + 1, !.phase = p, !.items = q, !.final = x]
    BY <2>1, Zenon DEF TakeEvent
  <2>. QED  BY <2>2 DEF IsClient, IsSeen
<1>2. PICK a, b, n, x : a = s.items /\ b = t.items /\ n = Len(s.items) /\ x = f.fields
  BY Zenon
<1>3. IsList(a) /\ n \in Nat /\ DOMAIN a = 1..n /\ n = Len(a) /\ \A i \in 1..n : IsHeld(a[i])
  BY <1>2, ListHas DEF IsClient
<1>4. CASE f.type \in {"created", "in_progress", "part_added", "part_done", "text_done"} \cup LastEvents
  <2>1. t.items = s.items
    BY <1>4, Created, Noted, Completed
  <2>2. ~Carries(f)
    BY <1>4 DEF Carries, isResponsesOutputEvent, LastEvents
  <2>. QED  BY <1>1, <2>1, <2>2 DEF Got
<1>5. CASE f.type = "item_added"
  <2>1. b = TakeItem(a, x)
    BY <1>2, <1>5, Announced
  <2>2. /\ IsList(b) /\ Len(b) = n + 1 /\ \A i \in 1..n : b[i] = a[i]
        /\ b[n + 1] = [kind |-> x.kind, id |-> x.id, own |-> x.own, text |-> <<>>, sig |-> Missing, done |-> FALSE]
    BY <1>3, <2>1, ItemTaken
  <2>3. DOMAIN b = 1..(n + 1)
    BY <2>2, ListHas
  <2>4. b[n + 1].kind = x.kind /\ n + 1 \in DOMAIN b /\ \A i \in 1..n : i \in DOMAIN b
    BY <1>3, <2>2, <2>3
  <2>5. Carries(f) => x.kind \notin {"message", "reasoning"}
    BY <1>2, <1>5 DEF Carries, isResponsesOutputEvent
  <2>6. Carries(f) => Got(t)
    BY <1>2, <2>4, <2>5 DEF Got
  <2>7. Got(s) => Got(t)
    BY <1>1, <1>2, <1>3, <2>2, <2>4 DEF Got
  <2>. QED  BY <1>1, <2>6, <2>7
<1>6. CASE f.type = "delta"
  <2>1. x.index \in 1..n /\ IsList(x.text) /\ x.text # <<>>
    BY <1>2, <1>6 DEF Proper, Continues, LastEvents
  <2>2. b = TakeDelta(a, x)
    BY <1>2, <1>6, Grown
  <2>3. PICK i, p, d, w : i = x.index /\ p = a[i].text /\ d = x.text /\ w = p \o d
    BY Zenon
  <2>4. IsList(p) /\ IsList(d) /\ d # <<>> /\ i \in 1..n
    BY <1>3, <2>1, <2>3 DEF IsHeld
  <2>5. Len(w) = Len(p) + Len(d) /\ Len(p) \in Nat /\ Len(d) \in Nat \ {0}
    <3>1. Len(p \o d) = Len(p) + Len(d) /\ Len(p) \in Nat
      BY <2>4, ListsJoin
    <3>2. Len(d) \in Nat \ {0}
      BY <2>4, ListShrinks
    <3>. QED  BY <2>3, <3>1, <3>2
  <2>6. w # <<>>
    <3>1. Len(w) # 0
      BY <2>5
    <3>. QED  BY <3>1, NothingIsAList
  <2>7. b = [a EXCEPT ![i] = [a[i] EXCEPT !.text = w]]
    BY <1>3, <2>1, <2>2, <2>3, DeltaTaken, Zenon
  <2>8. i \in DOMAIN b /\ b[i].text = w
    BY <1>3, <2>4, <2>7 DEF IsHeld
  <2>. QED  BY <1>1, <1>2, <2>6, <2>8 DEF Got
<1>7. CASE f.type = "item_done"
  <2>1. x.index \in 1..n
    BY <1>2, <1>7 DEF Proper, Continues, LastEvents
  <2>2. b = TakeDone(a, x)
    BY <1>2, <1>7, Finished
  <2>3. PICK i, y : i = x.index /\ y = [a[i] EXCEPT !.done = TRUE, !.sig = x.sig]
    OBVIOUS
  <2>4. b = [a EXCEPT ![i] = y]
    BY <1>3, <2>1, <2>2, <2>3, DoneTaken
  <2>5. IsHeld(a[i])
    BY <1>3, <2>1, <2>3
  <2>6. y.done
    BY <2>3, <2>5 DEF IsHeld
  <2>7. i \in DOMAIN b /\ b[i].done
    BY <1>3, <2>1, <2>3, <2>4, <2>6
  <2>. QED  BY <1>1, <1>2, <2>7 DEF Got
<1>. QED  BY <1>4, <1>5, <1>6, <1>7 DEF Proper, Continues

LEMMA VoicesFirst ==
    ASSUME NEW q, IsList(q), q # <<>>
    PROVE  Voices(q) => Carries(Head(q)) \/ Voices(Tail(q))
<1>1. PICK r, n : r = Tail(q) /\ n = Len(q)
  BY Zenon
<1>2. n \in Nat \ {0} /\ Len(r) = n - 1 /\ Head(q) = q[1] /\ \A i \in 1..(n - 1) : r[i] = q[i + 1]
  BY <1>1, ListShrinks
<1>3. ASSUME NEW k \in 1..n, Carries(q[k]), k # 1
      PROVE  Voices(r)
  <2>1. k - 1 \in 1..(n - 1) /\ (k - 1) + 1 = k
    BY <1>2, <1>3
  <2>2. r[k - 1] = q[k]
    BY <1>2, <2>1
  <2>. QED  BY <1>2, <1>3, <2>1, <2>2 DEF Voices
<1>. QED  BY <1>1, <1>2, <1>3 DEF Voices

\* A frame is handed over.
LEMMA HandOverSpeaks ==
    ASSUME Inv, EventsFit, OutputFits, HandOver
    PROVE  OutputFits'
<1>1. /\ stage = "reading" /\ seen' = Take(seen, Head(src.queue)) /\ src' = [src EXCEPT !.queue = Tail(src.queue)]
      /\ committed' = (committed \/ Output(src)) /\ src.queue # <<>> /\ call' = call /\ route' = route
  BY DEF HandOver, Queue
<1>2. StreamFits(seen, src, buf, wire) /\ DOMAIN src = SourceFields
  BY <1>1 DEF EventsFit, StreamFits, SourceIs
<1>3. PICK r, q, f : r = src' /\ q = src.queue /\ f = Head(src.queue)
  OBVIOUS
<1>4. /\ r.dialect = src.dialect /\ r.done = src.done /\ r.acc = src.acc /\ r.em = src.em /\ r.output = src.output
      /\ r.queue = Tail(q)
  BY <1>1, <1>2, <1>3 DEF SourceFields
<1>. SUFFICES ASSUME src.dialect # "fixed", ~src.done PROVE OutputFits'
  BY <1>3, <1>4 DEF OutputFits
<1>5. AccIs(src.acc) /\ AccIs(seen.acc) /\ (committed => Output(src)) /\ (Spoken(src) => Got(seen) \/ Voices(q))
  BY <1>1, <1>3 DEF OutputFits
<1>6. IsList(q) /\ AccIs(seen'.acc) /\ (Got(seen) \/ Carries(f) => Got(seen'))
  <2>1. CASE call.op = "responses"
    <3>1. PICK t : IsList(q) /\ Leads(seen, q, t)
      BY <1>2, <1>3, <2>1 DEF StreamFits, Streaming, Passing, Pending
    <3>2. IsClient(seen) /\ Proper(seen, f)
      BY <1>1, <1>3, <3>1, LeadsToClients, LeadsFirst
    <3>3. seen' = TakeEvent(seen, f)
      BY <1>1, <1>3, <2>1 DEF Take
    <3>4. seen'.acc = seen.acc /\ (Got(seen) \/ Carries(f) => Got(seen'))
      BY <3>2, <3>3, GotInEvents
    <3>. QED  BY <1>5, <3>1, <3>4
  <2>2. CASE call.op = "chat"
    <3>1. Chatting(seen, src)
      BY <1>2, <2>2 DEF StreamFits, Talking
    <3>2. IsList(q) /\ f.type = "chunk"
      <4>1. IsList(q) /\ \A k \in 1..Len(q) : q[k].type = "chunk"
        BY <1>3, <3>1 DEF Chatting
      <4>2. Len(q) \in Nat \ {0} /\ f = q[1]
        BY <1>1, <1>3, <4>1, ListShrinks
      <4>. QED  BY <4>1, <4>2
    <3>3. PICK acc : acc = add(seen.acc, f.chunk)
      OBVIOUS
    <3>4. seen' = [seen EXCEPT !.acc = acc, !.phase = "open"]
      BY <1>1, <1>3, <2>2, <3>2, <3>3, Zenon DEF Take
    <3>5. seen'.acc = acc /\ seen'.items = seen.items
      BY <3>4 DEF Inv, CallFits, IsSeen
    <3>6. AccIs(acc) /\ (acc.output <=> seen.acc.output \/ CarriesOutput(f.chunk))
      BY <1>5, <3>3, AddSpeaks
    <3>7. Carries(f) <=> CarriesOutput(f.chunk)
      BY <3>2 DEF Carries
    <3>. QED  BY <3>2, <3>5, <3>6, <3>7 DEF Got
  <2>. QED  BY <2>1, <2>2, CallIs
<1>7. Voices(q) => Carries(f) \/ Voices(r.queue)
  BY <1>1, <1>3, <1>4, <1>6, VoicesFirst
<1>8. (Output(r) <=> Output(src)) /\ (Opened(r) <=> Opened(src)) /\ (Spoken(r) <=> Spoken(src))
  BY <1>4, Zenon DEF Output, Opened, Spoken
<1>9. (ViaChat <=> ViaChat')
  BY <1>1 DEF ViaChat
<1>10. Spoken(src)' => Spoken(r)
  BY <1>3, <1>9 DEF Spoken, Opened, Output
<1>11. Output(src)' <=> Output(r)
  BY <1>3 DEF Output
<1>. QED  BY <1>1, <1>3, <1>4, <1>5, <1>6, <1>7, <1>8, <1>10, <1>11, Zenon DEF OutputFits

\* An event is handled: a source speaks only with a frame that says so.
LEMMA AdvanceSpeaks ==
    ASSUME OutputFits, stage = "reading", src.queue = <<>>, src.dialect # "fixed", ~src.done,
           NEW r, NEW t, Advance(r, t),
           r.done \/ /\ AccIs(r.acc) /\ (Output(src) => Output(r))
                     /\ Spoken(r) => Spoken(src) \/ Voices(r.queue)
    PROVE  OutputFits'
<1>1. /\ src' = r /\ call' = call /\ route' = route /\ seen' = seen /\ committed' = committed
  BY DEF Advance
<1>2. SUFFICES ASSUME ~r.done PROVE OutputFits'
  BY <1>1 DEF OutputFits
<1>3. AccIs(src.acc) /\ AccIs(seen.acc) /\ (committed => Output(src)) /\ (Spoken(src) => Got(seen) \/ Voices(src.queue))
  BY DEF OutputFits
<1>4. ~Voices(src.queue)
  <2>1. 1..Len(src.queue) = {}
    BY NothingIsAList
  <2>. QED  BY <2>1 DEF Voices
<1>5. Spoken(r) => Got(seen) \/ Voices(r.queue)
  BY <1>2, <1>3, <1>4
<1>6. (ViaChat <=> ViaChat') /\ (Got(seen)' <=> Got(seen))
  BY <1>1 DEF ViaChat, Got
<1>7. Output(src)' <=> Output(r)
  BY <1>1 DEF Output
<1>8. Spoken(src)' => Spoken(r)
  BY <1>1, <1>6, <1>7 DEF Spoken, Opened
<1>9. Voices(src.queue)' <=> Voices(r.queue)
  BY <1>1
<1>. QED  BY <1>1, <1>2, <1>3, <1>5, <1>6, <1>7, <1>8, <1>9 DEF OutputFits

LEMMA OverSpeaks ==
    ASSUME stage' # "reading"
    PROVE  OutputFits'
  BY DEF OutputFits

\* A step that leaves the source and the client alone.
LEMMA LeavesOutput ==
    ASSUME OutputFits, stage' = stage, call' = call, route' = route, src' = src, seen' = seen, committed' = committed
    PROVE  OutputFits'
  BY DEF OutputFits, AccIs, Output, Spoken, Opened, ViaChat, Got

LEMMA OpensOutput ==
    ASSUME EventsFit, Opens
    PROVE  OutputFits'
<1>1. stage = "connecting" /\ src' = OpenSource /\ seen' = seen /\ committed' = committed /\ call' = call /\ route' = route
  BY DEF Opens
<1>2. seen = NothingSeen /\ ~committed
  BY <1>1 DEF EventsFit
<1>3. AccIs(newChatAccumulator) /\ ~newChatAccumulator.output
  BY DEF AccIs, newChatAccumulator
<1>4. AccIs(seen.acc)
  BY <1>2, <1>3 DEF NothingSeen
<1>5. newResponsesEmitter.calls = [i \in {} |-> NoItem] /\ start(newResponsesEmitter).calls = [i \in {} |-> NoItem]
  BY DEF newResponsesEmitter, start, event
<1>6. PICK dialect, queue, em : /\ OpenSource = Source(dialect, queue, em)
                                /\ em.calls = [i \in {} |-> NoItem]
                                /\ DOMAIN em = {"nextSeq", "items", "current", "calls", "nextID", "out"}
  <2>1. PICK em : em = start(newResponsesEmitter)
    OBVIOUS
  <2>2. /\ DOMAIN newResponsesEmitter = {"nextSeq", "items", "current", "calls", "nextID", "out"}
        /\ DOMAIN em = {"nextSeq", "items", "current", "calls", "nextID", "out"}
    BY <2>1 DEF newResponsesEmitter, start, event
  <2>3. OpenSource = IF call.kind = "openai" /\ call.op = "responses" /\ route = "native"
                     THEN Source("pass", <<>>, newResponsesEmitter)
                     ELSE IF ViaChat THEN Source(call.kind, em.out, em)
                          ELSE Source(call.kind, <<>>, newResponsesEmitter)
    BY <2>1, Zenon DEF OpenSource
  <2>. QED  BY <1>5, <2>1, <2>2, <2>3, Zenon
<1>7. src'.acc = newChatAccumulator /\ ~src'.output /\ DOMAIN src'.em.calls = {} /\ src'.dialect = dialect
  BY <1>1, <1>6 DEF Source
<1>8. src'.dialect # "fixed" => ~Output(src')
  BY <1>3, <1>7 DEF Output
<1>9. src'.dialect # "fixed" => ~Spoken(src)'
  BY <1>7, <1>8 DEF Spoken, Opened, Output
<1>10. ~committed' /\ AccIs(seen'.acc)
  BY <1>1, <1>2, <1>4
<1>. QED  BY <1>3, <1>7, <1>9, <1>10 DEF OutputFits

LEMMA OpenAIOutput ==
    ASSUME Inv, EventsFit, OutputFits, OpenAINext
    PROVE  OutputFits'
<1>1. Handles("openai") /\ src.queue = <<>>
  BY DEF OpenAINext, Handles, Queue
<1>2. /\ stage = "reading" /\ buf # <<>> /\ ~src.done /\ src.dialect = "openai" /\ Chats(src) /\ Sayable(Head(buf))
  BY <1>1, HandlesChats
<1>3. PICK ev : ev = Head(buf)
  OBVIOUS
<1>4. AccIs(src.acc) /\ (Output(src) <=> src.acc.output)
  BY <1>2 DEF OutputFits, Output
<1>5. CASE ev.type = "chunk"
  <2>1. PICK r, t : r = OpenAIChunk(src, ev) /\ Advance(r, t)
    BY <1>3, <1>5, Zenon DEF OpenAINext
  <2>2. /\ AccIs(r.acc) /\ (src.acc.output => r.acc.output)
        /\ r.acc.output \/ Opened(r) => src.acc.output \/ Opened(src) \/ Voices(r.queue)
    BY <1>2, <1>3, <1>4, <1>5, <2>1, ChunkSpeaks
  <2>3. r.dialect = src.dialect
    BY <1>2, <1>3, <1>5, <2>1, ChunkIsHanded
  <2>4. Output(r) <=> r.acc.output
    BY <1>2, <2>3 DEF Output
  <2>5. (Output(src) => Output(r)) /\ (Spoken(r) => Spoken(src) \/ Voices(r.queue))
    BY <1>4, <2>2, <2>4 DEF Spoken
  <2>. QED  BY <1>1, <1>2, <2>1, <2>2, <2>5, AdvanceSpeaks
<1>6. CASE ev.type = "DONE"
  <2>1. PICK r, t : r = CleanEnd(src) /\ Advance(r, t)
    BY <1>3, <1>6, Zenon DEF OpenAINext
  <2>2. r.done
    BY <1>2, <2>1, EndsCleanly DEF Ends
  <2>. QED  BY <1>1, <1>2, <2>1, <2>2, AdvanceSpeaks
<1>7. CASE ev.type = "error"
  <2>1. EndsInError(streamErrorFromObject(ev))
    BY <1>3, <1>7, Zenon DEF OpenAINext
  <2>2. stage' = "over"
    BY <2>1 DEF EndsInError, EndsAs
  <2>. QED  BY <2>2, OverSpeaks
<1>8. CASE ev.type \notin {"chunk", "DONE", "error"}
  <2>1. Advance(src, timer)
    BY <1>3, <1>8 DEF OpenAINext
  <2>. QED  BY <1>1, <1>2, <1>4, <2>1, AdvanceSpeaks
<1>. QED  BY <1>5, <1>6, <1>7, <1>8

LEMMA GeminiOutput ==
    ASSUME Inv, EventsFit, OutputFits, GeminiNext
    PROVE  OutputFits'
<1>1. Handles("gemini") /\ src.queue = <<>>
  BY DEF GeminiNext, Handles, Queue
<1>2. /\ stage = "reading" /\ buf # <<>> /\ ~src.done /\ src.dialect = "gemini" /\ Chats(src) /\ Sayable(Head(buf))
  BY <1>1, HandlesChats
<1>3. PICK ev : ev = Head(buf)
  OBVIOUS
<1>4. AccIs(src.acc) /\ (Output(src) <=> src.acc.output)
  BY <1>2 DEF OutputFits, Output
<1>5. CASE ev.type = "gemini"
  <2>1. PICK r, t : r = GeminiEvent(src, ev) /\ Advance(r, t)
    BY <1>3, <1>5, Zenon DEF GeminiNext
  <2>2. /\ AccIs(r.acc) /\ (src.acc.output => r.acc.output)
        /\ r.acc.output \/ Opened(r) => src.acc.output \/ Opened(src) \/ Voices(r.queue)
    BY <1>2, <1>3, <1>4, <1>5, <2>1, GeminiSpeaks
  <2>3. r.dialect = src.dialect
    BY <1>2, <1>3, <1>5, <2>1, GeminiIsHanded
  <2>4. Output(r) <=> r.acc.output
    BY <1>2, <2>3 DEF Output
  <2>5. (Output(src) => Output(r)) /\ (Spoken(r) => Spoken(src) \/ Voices(r.queue))
    BY <1>4, <2>2, <2>4 DEF Spoken
  <2>. QED  BY <1>1, <1>2, <2>1, <2>2, <2>5, AdvanceSpeaks
<1>6. CASE ev.type = "error"
  <2>1. EndsInError(streamErrorFromObject(ev))
    BY <1>3, <1>6, Zenon DEF GeminiNext
  <2>2. stage' = "over"
    BY <2>1 DEF EndsInError, EndsAs
  <2>. QED  BY <2>2, OverSpeaks
<1>7. CASE ev.type \notin {"gemini", "error"}
  <2>1. Advance(src, timer)
    BY <1>3, <1>7 DEF GeminiNext
  <2>. QED  BY <1>1, <1>2, <1>4, <2>1, AdvanceSpeaks
<1>. QED  BY <1>5, <1>6, <1>7

\* An event that is passed on and counts as output is itself in the queue.
LEMMA PassOutput ==
    ASSUME Inv, EventsFit, OutputFits, PassNext
    PROVE  OutputFits'
<1>1. /\ stage = "reading" /\ src.queue = <<>> /\ ~src.done /\ src.dialect = "pass"
  BY DEF PassNext, Handles, Queue
<1>2. DOMAIN src = SourceFields
  BY <1>1 DEF EventsFit, StreamFits, SourceIs
<1>3. AccIs(src.acc) /\ (Output(src) <=> src.output)
  BY <1>1 DEF OutputFits, Output
<1>4. PICK ev : ev = Head(buf)
  OBVIOUS
<1>5. CASE ev.type # "pass"
  <2>1. Advance(src, timer)
    BY <1>4, <1>5 DEF PassNext
  <2>. QED  BY <1>1, <1>3, <2>1, AdvanceSpeaks
<1>6. CASE ev.type = "pass" /\ ev.frame.type = "error"
  <2>1. EndsInError(streamErrorFromObject(ev))
    BY <1>4, <1>6, Zenon DEF PassNext
  <2>2. stage' = "over"
    BY <2>1 DEF EndsInError, EndsAs
  <2>. QED  BY <2>2, OverSpeaks
<1>7. CASE ev.type = "pass" /\ ev.frame.type # "error"
  <2>1. PICK u, k : u = PassEvent(src, ev) /\ Advance(u, k)
    BY <1>4, <1>7, Zenon DEF PassNext
  <2>2. /\ u.dialect = src.dialect /\ u.queue = Append(src.queue, ev.frame)
        /\ ev.frame.type \in LastEvents => u.done
        /\ u.acc = src.acc /\ u.em = src.em
        /\ ev.frame.type \notin LastEvents => (u.output <=> src.output \/ isResponsesOutputEvent(ev.frame))
    <3>1. IsPassed(u, src, ev.frame)
      BY <1>2, <2>1, PassedOn, Zenon
    <3>. QED  BY <3>1 DEF IsPassed
  <2>3. CASE ev.frame.type \in LastEvents
    BY <1>1, <2>1, <2>2, <2>3, AdvanceSpeaks
  <2>4. CASE ev.frame.type \notin LastEvents
    <3>1. isResponsesOutputEvent(ev.frame) => Carries(ev.frame)
      BY DEF isResponsesOutputEvent, Carries
    <3>2. PICK q, p, f : q = u.queue /\ p = src.queue /\ f = ev.frame
      OBVIOUS
    <3>3. q = Append(p, f) /\ p = <<>> /\ Len(p) = 0
      BY <1>1, <2>2, <3>2, NothingIsAList
    <3>4. Len(q) = 1 /\ q[1] = f
      <4>1. IsList(p)
        BY <3>3, NothingIsAList
      <4>2. Len(q) = Len(p) + 1 /\ q[Len(p) + 1] = f
        BY <3>3, <4>1, ListGrows
      <4>. QED  BY <3>3, <4>2
    <3>5. Carries(ev.frame) => Voices(u.queue)
      BY <3>2, <3>4 DEF Voices
    <3>6. Output(u) <=> src.output \/ isResponsesOutputEvent(ev.frame)
      BY <1>1, <2>2, <2>4 DEF Output
    <3>7. Opened(u) => Opened(src)
      BY <2>2 DEF Opened
    <3>8. (Output(src) => Output(u)) /\ (Spoken(u) => Spoken(src) \/ Voices(u.queue))
      BY <1>3, <3>1, <3>5, <3>6, <3>7 DEF Spoken
    <3>. QED  BY <1>1, <1>3, <2>1, <2>2, <3>8, AdvanceSpeaks
  <2>. QED  BY <2>3, <2>4
<1>. QED  BY <1>5, <1>6, <1>7

LEMMA OutputKeepsFitting == Inv /\ EventsFit /\ OutputFits /\ [Next]_vars => OutputFits'
<1>. SUFFICES ASSUME Inv, EventsFit, OutputFits, [Next]_vars PROVE OutputFits'
  OBVIOUS
<1>1. CASE UNCHANGED vars
  BY <1>1, LeavesOutput DEF vars
<1>2. CASE AnswersWhole \/ FallsBackToChat
  BY <1>2, OverSpeaks DEF AnswersWhole, FallsBackToChat
<1>3. CASE ConnectFails \/ ReplyFails \/ ReplyIsJudged \/ ReadFails \/ Completes \/ WriteFails
  <2>1. stage' = "over"
    BY <1>3 DEF ConnectFails, ReplyFails, ReplyIsJudged, ReadFails, Completes, WriteFails, EndsInFailure,
                EndsInError, EndsAs
  <2>. QED  BY <2>1, OverSpeaks
<1>4. CASE SendsWholeReply \/ SendsRefusal
  BY <1>4, WholeIsFixed DEF OutputFits
<1>5. CASE Provider \/ Read \/ ClientHolds \/ ClientTakes \/ CallerLeaves \/ Tick
  <2>1. stage' = stage /\ call' = call /\ route' = route /\ src' = src /\ seen' = seen /\ committed' = committed
    BY <1>5 DEF Provider, ProviderWrites, ProviderEnds, Read, ClientHolds, ClientTakes, CallerLeaves, Tick
  <2>. QED  BY <2>1, LeavesOutput
<1>6. CASE BodyEnds
  <2>1. CASE stage' = "over"
    BY <2>1, OverSpeaks
  <2>2. CASE stage' # "over"
    <3>1. src'.done
      BY <1>6, <2>2, BodyEndsCleanly DEF Ends
    <3>. QED  BY <3>1 DEF OutputFits
  <2>. QED  BY <2>1, <2>2
<1>. QED  BY <1>1, <1>2, <1>3, <1>4, <1>5, <1>6, OpensOutput, OpenAIOutput, GeminiOutput, PassOutput, HandOverSpeaks
          DEF Next, Begin, Reader, Others

\* When the router commits, the client has been given output or the next frames
\* carry it: a source counts as having output only with the frame that says so
\* (StreamState.Output, isResponsesOutputEvent, chatAccumulator.add).
THEOREM OutputFollows == Spec => []CommitMeansOutputFollows
<1>1. Init => OutputFits
  BY DEF Init, OutputFits
<1>2. Inv /\ EventsFit /\ OutputFits => CommitMeansOutputFollows
  <2>. SUFFICES ASSUME Inv, EventsFit, OutputFits, stage = "reading", src.dialect # "fixed", committed, ~src.done
                PROVE  CommitMeansOutputFollows
    BY DEF CommitMeansOutputFollows
  <2>1. Got(seen) \/ Voices(src.queue)
    BY DEF OutputFits, Spoken
  <2>2. IsList(src.queue)
    BY CallIs DEF EventsFit, StreamFits, Streaming, Passing, Pending, Talking, Chatting
  <2>3. Voices(src.queue) => \E k \in DOMAIN Queue : Carries(Queue[k])
    BY <2>2, ListHas DEF Voices, Queue
  <2>. QED  BY <2>1, <2>3 DEF CommitMeansOutputFollows, Got
<1>. QED  BY <1>1, <1>2, InitFits, StepFits, EventsFitFirst, EventsKeepFitting, OutputKeepsFitting, PTL DEF Spec
=============================================================================
