------------------------------- MODULE Dialogue ------------------------------
(***************************************************************************)
(* Conversations of several turns. A client keeps the history and sends it *)
(* whole; every turn may be served by another provider, in another         *)
(* dialect, and tool calls come back with their results a turn later. All  *)
(* conversations share one signature cache.                                *)
(*                                                                         *)
(* One attempt is Call (provider/provider.go) on the buffered path, with   *)
(* the dialects of module Dialects; module Router says which targets are   *)
(* tried, here any of them may be.                                         *)
(***************************************************************************)
EXTENDS Dialects

\* By client, what it sends; the targets; the replies; how many calls may be
\* written at most; and until when time passes.
CONSTANT Scenarios  \* [talks, targets, replies, writes, until]

VARIABLES
    scenario,
    now,
    cache,
    talk,           \* talk[c]: the client's history, and how far its request is
    written,        \* how many calls were written: they are numbered from 1
    remembered      \* history: the signed calls in the order they were put in the cache
vars == <<scenario, now, cache, talk, written, remembered>>

\* No attempt is under way.
Idle == [target |-> [signer |-> ""], via |-> "", wire |-> <<>>, reply |-> <<>>, unsaid |-> <<>>, heard |-> <<>>]

Init ==
    /\ scenario \in Scenarios
    /\ now = 0 /\ cache = NewSignatureCache /\ written = 0 /\ remembered = <<>>
    /\ talk = [c \in DOMAIN scenario.talks |->
                [history |-> scenario.talks[c].history, stage |-> "client", turns |-> 0, tried |-> {}] @@ Idle]

Asked(c) == scenario.talks[c]
Goes(c, fields) == talk' = [talk EXCEPT ![c] = fields @@ @]

Time == now < scenario.until /\ now' = now + 1 /\ UNCHANGED <<scenario, cache, talk, written, remembered>>

-----------------------------------------------------------------------------
(* The client *)

\* Calls of the history that have no result yet.
Unanswered(history, api) ==
    IF api = "chat"
    THEN SelectSeq(CallsOf(history), LAMBDA k : \A i \in DOMAIN history : history[i].id # k.id)
    ELSE LET calls == SelectSeq(history, LAMBDA it : it.type = "function_call")
         IN  SelectSeq([i \in DOMAIN calls |-> calls[i].call],
                LAMBDA k : \A i \in DOMAIN history :
                    ~(history[i].type = "function_call_output" /\ history[i].call.id = k.id))

result(k, api) ==
    IF api = "chat" THEN [message("tool", <<part("text", "done")>>) EXCEPT !.id = k.id]
    ELSE [item("function_call_output", "", <<part("text", "done")>>) EXCEPT !.call.id = k.id]
question(api) ==
    IF api = "chat" THEN message("user", <<part("text", "q")>>)
    ELSE item("message", "user", <<part("input_text", "q")>>)

\* The results of the calls, else a question; or the history as it is.
Says(c) ==
    /\ talk[c].stage = "client" /\ talk[c].turns < Asked(c).turns
    /\ \E more \in {FALSE, TRUE} :
        LET calls == Unanswered(talk[c].history, Asked(c).api)
            says  == IF calls # <<>> THEN [i \in DOMAIN calls |-> result(calls[i], Asked(c).api)]
                     ELSE <<question(Asked(c).api)>>
        IN  /\ more \/ (calls = <<>> /\ talk[c].history # <<>>)
            /\ Goes(c, [stage |-> "routing", turns |-> talk[c].turns + 1,
                        history |-> talk[c].history \o (IF more THEN says ELSE <<>>)])
    /\ UNCHANGED <<scenario, now, cache, written, remembered>>

-----------------------------------------------------------------------------
(* An attempt *)

\* What the handler routes: a buffered request's last turn is coerced.
Items(c) == IF Asked(c).coerce THEN CoerceTrailingAssistantTurn(talk[c].history) ELSE talk[c].history

\* How the target is told: in its dialect, directly or through Chat.
Via(c, t) ==
    CASE t.kind # "openai" -> t.kind
      [] Asked(c).api = "chat" -> "chat"
      [] t.chatOnly -> "chat"
      [] OTHER -> "responses"

ResponsesBody(c) == [Asked(c).body EXCEPT !.input = Items(c)]
ChatBody(c) ==
    IF Asked(c).api = "chat" THEN [messages |-> Items(c), tools |-> Asked(c).body.tools, choice |-> Asked(c).body.choice]
    ELSE ResponsesToChat(ResponsesBody(c))

\* callResponsesViaChat and openAIResponsesViaChat translate only what is portable.
Incompatible(c, t) ==
    Asked(c).api = "responses" /\ Via(c, t) # "responses" /\ ~PortableForChat(ResponsesBody(c))

Outbound(c, t, via) ==
    CASE via = "gemini" -> buildGeminiChatBody(ChatBody(c), t, cache, now)
      [] via = "anthropic" -> buildAnthropicBody(ChatBody(c))
      [] via = "chat" -> ChatBody(c)
      [] via = "responses" -> ResponsesBody(c)

Attempts(c, t) == talk[c].stage = "routing" /\ t \in scenario.targets \ talk[c].tried

IsIncompatible(c, t) ==
    /\ Attempts(c, t) /\ Incompatible(c, t)
    /\ Goes(c, [tried |-> talk[c].tried \cup {t}])
    /\ UNCHANGED <<scenario, now, cache, written, remembered>>

Calls(c, t) ==
    /\ Attempts(c, t) /\ ~Incompatible(c, t)
    /\ Goes(c, [stage |-> "waiting", target |-> t, via |-> Via(c, t), wire |-> Outbound(c, t, Via(c, t))])
    /\ UNCHANGED <<scenario, now, cache, written, remembered>>

\* The call fails, or its reply is judged no answer (Router.judge).
Fails(c) ==
    /\ talk[c].stage \in {"waiting", "remembering"} /\ talk[c].unsaid = <<>>
    /\ Goes(c, [stage |-> "routing", tried |-> talk[c].tried \cup {talk[c].target}] @@ Idle)
    /\ UNCHANGED <<scenario, now, cache, written, remembered>>

\* No target is left: the client hears of an error.
GivesUp(c) ==
    /\ talk[c].stage = "routing" /\ scenario.targets = talk[c].tried
    /\ Goes(c, [stage |-> "client", tried |-> {}])
    /\ UNCHANGED <<scenario, now, cache, written, remembered>>

-----------------------------------------------------------------------------
(* The reply *)

CallsIn(shape) == SelectSeq(shape, LAMBDA p : p.kind = "call")
Ids(n) == [i \in 1..n |-> written + i]
Numbered(shape) ==
    LET place(i) == written + Len(CallsIn(SubSeq(shape, 1, i)))
    IN  [i \in DOMAIN shape |-> [shape[i] EXCEPT !.id = IF shape[i].kind = "call" THEN place(i) ELSE 0]]

\* The reply in the dialect it comes in. Only Gemini signs.
geminiReply(shape) == [i \in DOMAIN shape |-> gpart(shape[i].kind, shape[i].name, shape[i].v,
                                                    IF shape[i].signed THEN shape[i].id ELSE NoSignature)]
anthropicReply(shape) == [i \in DOMAIN shape |-> block(shape[i].kind, shape[i].id, shape[i].name, shape[i].v)]
chatReply(shape) == anthropicToOpenAIChat(anthropicReply(shape))
responsesItem(p) ==
    CASE p.kind = "thought" -> item("reasoning", "", <<>>)
      [] p.kind = "text" -> item("message", "assistant", <<part("output_text", p.v)>>)
      [] p.kind = "call" -> [item("function_call", "", <<>>) EXCEPT !.call = call(p.id, p.name, p.v, NoSignature)]

\* What Call makes of it, in the client's API.
Translated(c, via, shape) ==
    LET msg == IF via = "gemini" THEN geminiToOpenAIChat(geminiReply(shape), Ids(Len(CallsIn(shape))))
               ELSE IF via = "anthropic" THEN anthropicToOpenAIChat(anthropicReply(shape)) ELSE chatReply(shape)
    IN  IF via = "responses" THEN [i \in DOMAIN shape |-> responsesItem(shape[i])]
        ELSE IF Asked(c).api = "chat" THEN <<msg>> ELSE ChatToResponses(msg)

Replies(c) ==
    /\ talk[c].stage = "waiting"
    /\ \E shape \in scenario.replies :
        LET via   == talk[c].via
            calls == CallsIn(Numbered(shape))
            signs == via = "gemini"
        IN  /\ written + Len(calls) <= scenario.writes
            /\ written' = written + Len(calls)
            /\ Goes(c, [stage |-> "remembering", wire |-> <<>>, reply |-> shape, heard |-> Translated(c, via, Numbered(shape)),
                        unsaid |-> IF signs THEN calls ELSE <<>>])
    /\ UNCHANGED <<scenario, now, cache, remembered>>

\* rememberGeminiSignatures: one call after the other (a streamed reply's calls
\* are put as they come).
Remembers(c) ==
    /\ talk[c].stage = "remembering" /\ talk[c].unsaid # <<>>
    /\ LET k == Head(talk[c].unsaid)
       IN  /\ cache' = Put(cache, k.id, talk[c].target.signer, IF k.signed THEN k.id ELSE NoSignature, now)
           /\ remembered' = IF k.signed THEN Append(remembered, [id |-> k.id, signer |-> talk[c].target.signer, at |-> now])
                            ELSE remembered
    /\ Goes(c, [unsaid |-> Tail(talk[c].unsaid)])
    /\ UNCHANGED <<scenario, now, written>>

\* A client that does not know signatures, or reasoning items, drops them.
Kept(c, items) ==
    IF Asked(c).keeps THEN items
    ELSE IF Asked(c).api = "chat"
    THEN [i \in DOMAIN items |-> [items[i] EXCEPT !.calls = [k \in DOMAIN @ |-> [@[k] EXCEPT !.sig = NoSignature]]]]
    ELSE LET said == SelectSeq(items, LAMBDA it : it.type # "reasoning")
         IN  [i \in DOMAIN said |-> [said[i] EXCEPT !.call.sig = NoSignature]]

Hears(c) ==
    /\ talk[c].stage = "remembering" /\ talk[c].unsaid = <<>>
    /\ Goes(c, [stage |-> "client", tried |-> {}, history |-> talk[c].history \o Kept(c, talk[c].heard)] @@ Idle)
    /\ UNCHANGED <<scenario, now, cache, written, remembered>>

Next ==
    \/ Time
    \/ \E c \in DOMAIN talk :
        \/ Says(c) \/ Fails(c) \/ GivesUp(c) \/ Replies(c) \/ Remembers(c) \/ Hears(c)
        \/ \E t \in scenario.targets : IsIncompatible(c, t) \/ Calls(c, t)

Spec == Init /\ [][Next]_vars
=============================================================================
