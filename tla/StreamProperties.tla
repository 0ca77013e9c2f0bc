-------------------------- MODULE StreamProperties --------------------------
(***************************************************************************)
(* What a streamed call promises to the router, the client and the log.    *)
(***************************************************************************)
EXTENDS ProviderStream, FiniteSets

-----------------------------------------------------------------------------
(* What is taken of providers: their lists are lists, and those that write *)
(* Responses events of their own write ones a client can take.             *)

\* A list of anything.
IsList(s) == s \in Seq({s[i] : i \in DOMAIN s})

\* What a client can take next: the response is created first, its items are
\* added in order, grow, are told in full and done once, and all are by its end.
Continues(items, f) ==
    \/ f.type \in {"in_progress", "part_added", "part_done"}
    \/ f.type = "item_added" /\ f.fields.index = Len(items) + 1
    \/ /\ f.type = "delta" /\ f.fields.index \in 1..Len(items) /\ ~items[f.fields.index].done
       /\ IsList(f.fields.text) /\ f.fields.text # <<>>
    \/ /\ f.type = "text_done" /\ f.fields.index \in 1..Len(items)
       /\ items[f.fields.index].text = f.fields.text
    \/ /\ f.type = "item_done" /\ f.fields.index \in 1..Len(items) /\ ~items[f.fields.index].done
       /\ items[f.fields.index].id = f.fields.id
       /\ f.fields.own \/ items[f.fields.index].text = f.fields.text
    \/ f.type \in LastEvents /\ \A i \in 1..Len(items) : items[i].done
Proper(t, f) ==
    /\ f.seq = t.next
    /\ \/ f.type = "created" /\ t.phase = "new"
       \/ t.phase = "open" /\ Continues(t.items, f)
CanTake(t, f) ==
    \/ f.type # "error" /\ Proper(t, f)
    \/ f.type = "error" /\ f.seq = t.next /\ t.phase \in {"new", "open"}

\* A client reads a provider's own stream.
Reads(c, ev) ==
    IF ev.type # "pass" THEN c
    ELSE [seen |-> TakeEvent(c.seen, ev.frame), ok |-> c.ok /\ CanTake(c.seen, ev.frame)]
FollowsProtocol(script) == FoldLeft(Reads, [seen |-> NothingSeen, ok |-> TRUE], script).ok

ASSUME CallsAssumption ==
    \A c \in Calls : c.kind \in {"openai", "gemini"} /\ c.op \in {"chat", "responses"}
ASSUME VocabularyAssumption ==
    \A kind \in {"openai", "gemini"} : \A ev \in Vocabulary[kind] :
        /\ {"type", "n"} \subseteq DOMAIN ev
        /\ ev.type = "chunk" => /\ "chunk" \in DOMAIN ev /\ IsList(ev.chunk.calls) /\ ev.chunk.says \subseteq Fields
                                /\ DOMAIN ev.chunk = {"n", "choice", "says", "calls", "finish", "usage"}
        /\ ev.type = "gemini" => "parts" \in DOMAIN ev /\ IsList(ev.parts)
\* The Responses API asks for one reply: the Chat stream it is served over has one choice.
ASSUME ChoicesAssumption ==
    (\E c \in Calls : c.op = "responses") =>
        \A kind \in {"openai", "gemini"} : \A ev \in Vocabulary[kind] :
            ev.type = "chunk" => ev.chunk.choice \in {0, None}
ASSUME ScriptsAssumption ==
    \A s \in Scripts : IsList(s) /\ FollowsProtocol(s) /\ \A k \in DOMAIN s : s[k].type # "chunk"
ASSUME RepliesAssumption ==
    /\ \A reply \in Replies.responses :
        /\ reply.status \in LastEvents /\ IsList(reply.output)
        /\ \A k \in DOMAIN reply.output : IsList(reply.output[k].text)
    /\ \A reply \in Replies.chat :
        /\ DOMAIN reply.choices \subseteq Nat /\ IsFiniteSet(DOMAIN reply.choices)
        /\ \A i \in DOMAIN reply.choices :
              LET choice == reply.choices[i]
              IN  /\ \A f \in Fields : IsList(choice.text[f])
                  /\ DOMAIN choice.calls \subseteq Nat /\ IsFiniteSet(DOMAIN choice.calls)
                  /\ \A k \in DOMAIN choice.calls : IsList(choice.calls[k].args)

-----------------------------------------------------------------------------
(* Types and promises *)

StreamTypeOK ==
    /\ call \in Calls /\ route \in {"native", "chat"}
    /\ stage \in {"connecting", "reply", "reading", "over"}
    /\ wire.sent \in 0..MaxEvents /\ Len(wire.queue) + Len(buf) <= wire.sent
    /\ wire.over \in {"no", "eof", "drop"} /\ wire.told \in BOOLEAN
    /\ timer.left \in 0..Limit /\ timer.started \in BOOLEAN
    /\ ctx \in [timedOut : BOOLEAN, callerGone : BOOLEAN]
    /\ end.how \in {"none", "answer", "eof", "error", "context"}
    /\ end.how = "error" => end.status \in 400..599
    /\ (end.how = "none") = (stage # "over")
    /\ seen.phase \in {"new", "open", "complete", "failed", "broken"}
    /\ hold \in BOOLEAN /\ holds \in 0..MaxHolds
    /\ \A c \in DOMAIN clock : clock[c] \in 0..Limit

\* What a Responses client is sent follows the protocol: numbers without gaps,
\* items added, grown and done once, one end (responsesEmitter, responsesPassSource).
Events == INSTANCE ResponsesEvents WITH
    next  <- seen.next,
    phase <- IF call.op = "responses" THEN seen.phase ELSE "new",
    items <- [i \in DOMAIN seen.items |-> [id |-> seen.items[i].id, kind |-> seen.items[i].kind,
                                           text |-> seen.items[i].text, done |-> seen.items[i].done]]
ImplementsResponsesEvents == Events!EventsSpec

Ended == stage = "over" /\ committed /\ ~ctx.callerGone

TextOf(items, kind) ==
    FlattenSeq([i \in DOMAIN items |-> IF items[i].kind = kind THEN items[i].text ELSE <<>>])
Pieces(text, field) == SelectSeq(text, LAMBDA p : p[1] = field)


\* A kind of item returns when text comes again after something else.
Returns == \E i, j \in DOMAIN seen.items :
    i < j /\ seen.items[i].kind = seen.items[j].kind /\ seen.items[i].kind # "function_call"
Refused == Pieces(TextOf(seen.items, "message"), "refusal") # <<>>


\* The router commits when a stream says it has output: the client then has a
\* frame that carries it, or it is the next to be sent (StreamState.Output).
Carries(f) == IF f.type = "chunk" THEN CarriesOutput(f.chunk)
              ELSE isResponsesOutputEvent(f)
CommitMeansOutputFollows ==
    stage = "reading" /\ src.dialect # "fixed" /\ committed =>
        \/ seen.acc.output
        \/ \E i \in DOMAIN seen.items :
              \/ seen.items[i].text # <<>> \/ seen.items[i].done
              \/ seen.items[i].kind \notin {"message", "reasoning"}
        \/ \E k \in DOMAIN Queue : Carries(Queue[k])
        \/ src.done

\* A stream ends clean only if the provider said that the reply had ended, and
\* a client that was sent output is told of every other end.
NoSilentTruncation ==
    /\ seen.phase = "complete" /\ src.dialect # "fixed" => wire.told
    /\ Ended => seen.phase = (IF end.how = "eof" THEN "complete" ELSE "failed")

\* The limit runs out no sooner and no later than it may: before output it is
\* on the call's age, after output on the time since the last read, in which a
\* client that takes its time is counted (streamTimer).
Fires == ~ctx.timedOut /\ ctx'.timedOut
TimerKeepsItsPromise ==
    [][/\ Fires => IF timer.started THEN clock'.quiet + clock'.away >= Limit ELSE clock'.age >= Limit
       /\ ~Cancelled' /\ stage' # "over" /\ src'.dialect # "fixed" /\ ~src'.done =>
             IF timer'.started THEN clock'.quiet < Limit ELSE clock'.age < Limit]_vars

\* The provider is cut off only for its own silence (streamTimer: "when the
\* body has been silent for limit").
TimeoutMeansSilence == [][Fires /\ timer.started => clock'.silent >= Limit]_vars

\* [DONE] is sent only when every choice of the reply has finished.
CleanEndMeansEveryChoice ==
    seen.phase = "complete" /\ call.op = "chat" =>
        \A i \in DOMAIN seen.acc.choices : seen.acc.choices[i].finish # NoFinish

\* Every call comes to an end, whatever the provider does, if the reader is
\* scheduled, time passes and a client does not refuse a frame for ever.
EveryStreamEnds == <>(stage = "over")

\* WF_vars(Reader), with ENABLED Reader written out.
ReaderCanMove ==
    /\ stage = "reading" /\ ~hold
    /\ Waiting => wire.queue # <<>> \/ wire.over # "no" \/ Cancelled
ReaderIsScheduled == []<>~ReaderCanMove \/ []<><<Reader>>_vars

Fairness ==
    /\ ReaderIsScheduled /\ WF_vars(Tick) /\ WF_vars(ClientTakes)
    /\ WF_vars(ConnectFails /\ Cancelled) /\ WF_vars(ReplyFails /\ Cancelled)
FairSpec == Spec /\ Fairness
=============================================================================
