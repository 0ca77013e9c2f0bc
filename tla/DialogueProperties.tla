-------------------------- MODULE DialogueProperties -------------------------
(***************************************************************************)
(* What a conversation may expect of being told in other dialects. The     *)
(* client's history and the outbound body are each read as a list of       *)
(* facts, without the translation, and the two lists compared.             *)
(***************************************************************************)
EXTENDS Dialogue, FiniteSets

fact(who, kind, id, name, v) == [who |-> who, kind |-> kind, id |-> id, name |-> name, v |-> v]
Flat(Facts(_), s) == FlattenSeq([i \in DOMAIN s |-> Facts(s[i])])

-----------------------------------------------------------------------------
(* Reading what the client holds *)

\* Of a Responses request, what no other dialect has: files of OpenAI's store, audio, unknown parts.
PartKind(p, api) ==
    CASE p.type \in {"text", "input_text", "output_text"} -> "text"
      [] p.type \in {"image_url", "input_image"} -> "media"
      [] api = "chat" -> "media"
      [] p.type = "input_file" /\ p.by # "id" -> "media"
      [] OTHER -> "unknown"

\* What only OpenAI can look up is told to nobody else; Anthropic takes no audio.
\* An image by id is portable (PortableForChat), and lost.
IsHeard(p, api, via) ==
    \/ PartKind(p, api) # "media" \/ (api = "chat" /\ via = "chat")
    \/ p.by # "id" /\ (p.type = "input_audio" => via # "anthropic")

PartFacts(who, parts, api, via) ==
    LET heard == SelectSeq(parts, LAMBDA p : (who # "user" => PartKind(p, api) # "media") /\ IsHeard(p, api, via))
    IN  [i \in DOMAIN heard |-> fact(who, PartKind(heard[i], api), 0, "", <<heard[i].v>>)]

\* Gemini is told a function's name and no id; Anthropic and Chat an id, and no
\* name of a result.
CallFact(k, via) == fact("model", "call", IF via = "gemini" THEN 0 ELSE k.id, k.name, <<k.args>>)
ResultFact(id, name, parts, calls, via) ==
    LET of == {i \in DOMAIN calls : calls[i].id = id}
    IN  fact("user", "result", IF via = "gemini" THEN 0 ELSE id,
             IF via # "gemini" THEN "" ELSE IF of = {} THEN name ELSE calls[CHOOSE i \in of : TRUE].name,
             contentToText(parts))

Speaker(role) == CASE role \in {"system", "developer"} -> "system" [] role = "assistant" -> "model" [] OTHER -> "user"

ChatFacts(m, calls, via) ==
    CASE m.role \in {"tool", "function"} -> <<ResultFact(m.id, m.name, m.content, calls, via)>>
      [] m.role = "assistant" -> PartFacts("model", m.content, "chat", via) \o [i \in DOMAIN m.calls |-> CallFact(m.calls[i], via)]
      [] OTHER -> PartFacts(Speaker(m.role), m.content, "chat", via)

ItemFacts(it, calls, via) ==
    CASE it.type = "function_call" -> <<CallFact(it.call, via)>>
      [] it.type = "function_call_output" -> <<ResultFact(it.call.id, "", it.content, calls, via)>>
      [] it.type \in {"", "message"} -> PartFacts(Speaker(it.role), it.content, "responses", via)
      [] OTHER -> <<fact("model", "unknown", 0, "", <<>>)>>

ItemCalls(items) ==
    LET calls == SelectSeq(items, LAMBDA it : it.type = "function_call") IN [i \in DOMAIN calls |-> calls[i].call]

\* The last turn counts as the user's where the server is set so, unless it is a result or has no speaker.
Spoken(c) ==
    LET h == talk[c].history
    IN  [i \in DOMAIN h |->
            IF Asked(c).coerce /\ i = Len(h) /\ h[i].role \in {"assistant", "system", "developer"}
            THEN [h[i] EXCEPT !.role = "user"] ELSE h[i]]

Said(c, via) ==
    LET h == Spoken(c)
    IN  IF Asked(c).api = "chat" THEN Flat(LAMBDA m : ChatFacts(m, CallsOf(h), via), h)
        ELSE PartFacts("system", IF Asked(c).body.instructions = "" THEN <<>>
                                 ELSE <<part("text", Asked(c).body.instructions)>>, "responses", via)
             \o Flat(LAMBDA it : ItemFacts(it, ItemCalls(h), via), h)

-----------------------------------------------------------------------------
(* Reading what the target is told *)

\* A text of several pieces is as many facts; a filler text is none.
Told(who, kind, id, name, v) ==
    IF kind \in {"text", "media"} THEN [i \in DOMAIN v |-> fact(who, kind, 0, "", <<v[i]>>)]
    ELSE <<fact(IF kind = "call" THEN "model" ELSE "user", kind, id, name, IF kind = "call" THEN <<v>> ELSE v)>>
SystemFacts(texts) == Flat(LAMBDA t : Told("system", "text", 0, "", t), texts)

GeminiFacts(body) ==
    SystemFacts(body.system)
    \o Flat(LAMBDA cont : Flat(LAMBDA p : Told(cont.role, p.kind, 0, p.name, p.v), cont.parts), body.contents)
AnthropicFacts(body) ==
    SystemFacts(body.system)
    \o Flat(LAMBDA m : Flat(LAMBDA b : Told(IF m.role = "assistant" THEN "model" ELSE m.role, b.kind, b.id, b.name, b.v),
                            m.parts), body.messages)
ChatBodyFacts(body) ==
    SelectSeq(Flat(LAMBDA m : ChatFacts(m, CallsOf(body.messages), "chat"), body.messages),
              LAMBDA f : ~(f.kind = "media" /\ f.v = <<"">>))

BodyFacts(via, body) ==
    CASE via = "gemini" -> GeminiFacts(body) [] via = "anthropic" -> AnthropicFacts(body) [] via = "chat" -> ChatBodyFacts(body)

Of(facts, speakers) == SelectSeq(facts, LAMBDA f : f.who \in speakers)
SameFacts(f, g) == Of(f, {"system"}) = Of(g, {"system"}) /\ Of(f, {"user", "model"}) = Of(g, {"user", "model"})

\* The function the model must call, if any, and whether it must or must not.
Forced(via, body) ==
    CASE via = "gemini" -> [must |-> body.config.mode = "ANY", mustNot |-> body.config.mode = "NONE", names |-> body.config.names]
      [] via = "anthropic" -> [must |-> body.choice.type \in {"any", "tool"}, mustNot |-> body.choice.type = "none",
                               names |-> {body.choice.name} \ {""}]
      [] via = "chat" -> [must |-> body.choice.type \in {"required", "function"}, mustNot |-> body.choice.type = "none",
                          names |-> {body.choice.name} \ {""}]
ToolNames(via, body) == IF via = "chat" THEN FunctionNames(body.tools) ELSE body.tools

-----------------------------------------------------------------------------
(* Signatures *)

\* The calls a history holds, in order, and whether each begins a turn of the
\* model: in Responses every call is an item of its own.
CallsHeld(c) ==
    LET h == Spoken(c)
    IN  IF Asked(c).api = "responses"
        THEN [i \in DOMAIN ItemCalls(h) |-> [of |-> ItemCalls(h)[i], first |-> TRUE]]
        ELSE Flat(LAMBDA m : IF m.role # "assistant" THEN <<>>
                             ELSE [i \in DOMAIN m.calls |-> [of |-> m.calls[i], first |-> i = 1]], h)

\* The calls of a Gemini body: it holds no ids.
CallParts(body) == SelectSeq(Flat(LAMBDA cont : cont.parts, body.contents), LAMBDA p : p.kind = "call")

Latest == Max({0, Len(remembered) - MaxSignatures}) + 1 .. Len(remembered)
WroteIt(target, id, places) ==
    \E i \in places : remembered[i].id = id /\ remembered[i].signer = target.signer /\ now - remembered[i].at <= TTL

Attempted(c) == talk[c].stage = "routing" /\ talk'[c].stage = "waiting"

\* However turns of several conversations interleave, expire and go over to
\* other models: a signature told to a model is the client's own, or the one that
\* model itself wrote on that very call; every model is told again the ones among
\* the latest and fresh that its client dropped; and a Gemini model never gets a
\* first call unsigned (provider/signatures.go, assistantToolCallParts).
SignaturesGoHome ==
    [][\A c \in DOMAIN talk : Attempted(c) /\ talk'[c].via = "gemini" =>
        LET held == CallsHeld(c)
            told == CallParts(talk'[c].wire)
            t    == talk'[c].target
        IN  /\ Len(told) = Len(held)
            /\ \A i \in DOMAIN held :
                /\ told[i].sig \in {NoSignature, Placeholder, held[i].of.sig, held[i].of.id}
                /\ held[i].of.sig # NoSignature => told[i].sig = held[i].of.sig
                /\ held[i].of.sig = NoSignature /\ told[i].sig > 0 => WroteIt(t, held[i].of.id, DOMAIN remembered)
                /\ held[i].of.sig = NoSignature /\ WroteIt(t, held[i].of.id, Latest) => told[i].sig = held[i].of.id
                /\ told[i].sig = Placeholder => held[i].first /\ t.isGeminiModel
                /\ held[i].first /\ t.isGeminiModel => told[i].sig # NoSignature]_vars

\* The cache is the latest signed calls, whichever requests wrote them, in the
\* order they were written (SignatureCache.Put).
CacheKeepsTheLatest ==
    /\ now \in 0..scenario.until
    /\ \A c \in DOMAIN talk :
        /\ talk[c].stage \in {"client", "routing", "waiting", "remembering"} /\ talk[c].turns \in 0..Asked(c).turns
        /\ talk[c].tried \subseteq scenario.targets
        /\ talk[c].stage \in {"waiting", "remembering"} => talk[c].target \in scenario.targets \ talk[c].tried
    /\ cache.order = [i \in 1..Cardinality(Latest) |-> remembered[Len(remembered) - Cardinality(Latest) + i].id]
    /\ cache.byID = [id \in {remembered[i].id : i \in Latest} |->
                        LET r == remembered[CHOOSE i \in Latest : remembered[i].id = id]
                        IN  [signer |-> r.signer, signature |-> id, at |-> r.at]]

-----------------------------------------------------------------------------
(* Translation *)

\* A Responses request that no Chat model can be told.
CannotBeTold(c) ==
    LET body == Asked(c).body
    IN  \/ body.previous # ""
        \/ \E i \in DOMAIN body.tools : body.tools[i].type # "function"
        \/ body.choice.type \notin {"", "auto", "none", "required", "function"}
        \/ body.choice = [type |-> "function", name |-> ""]
        \/ \E i \in DOMAIN Said(c, "chat") : Said(c, "chat")[i].kind = "unknown"

\* What a translated body says, forces and offers is what the client's request does.
SaysTheSame(c, via, body) ==
    /\ SameFacts(BodyFacts(via, body), Said(c, via))
    /\ Forced(via, body) = Forced("chat", Asked(c).body)
    /\ ToolNames(via, body) = FunctionNames(Asked(c).body.tools)

Refused(c) == talk[c].stage = "routing" /\ talk'[c].stage = "routing" /\ talk'[c].tried # talk[c].tried
Answered(c) == talk[c].stage = "remembering" /\ talk'[c].stage = "client"

Values(facts, kind) ==
    LET of == SelectSeq(facts, LAMBDA f : f.kind = kind) IN [i \in DOMAIN of |-> [name |-> of[i].name, v |-> of[i].v]]
Heard(c, new) == Flat(LAMBDA m : IF Asked(c).api = "chat" THEN ChatFacts(m, <<>>, "chat") ELSE ItemFacts(m, <<>>, "chat"), new)
Given(reply, kind) ==
    LET of == SelectSeq(reply, LAMBDA p : p.kind = kind) IN [i \in DOMAIN of |-> [name |-> of[i].name, v |-> <<of[i].v>>]]

\* Whatever was said in earlier turns, by whichever models, and in whatever
\* order results came: the next model is told every text, call and result, and
\* whose it was, in order, each result under its own call (by id, or for Gemini by
\* the function's name); a Responses request is turned down just where it holds
\* what Chat has no word for; and the client hears the reply's texts and calls
\* (responses_codec.go, gemini.go, anthropic.go).
TranslationKeepsTheDialogue ==
    [][\A c \in DOMAIN talk :
        /\ Attempted(c) /\ talk'[c].via # "responses" =>
            /\ Asked(c).api = "responses" => ~CannotBeTold(c)
            /\ SaysTheSame(c, talk'[c].via, talk'[c].wire)
        /\ Refused(c) => CannotBeTold(c)
        /\ Answered(c) =>
            LET heard == Heard(c, SubSeq(talk'[c].history, Len(talk[c].history) + 1, Len(talk'[c].history)))
            IN  \A kind \in {"text", "call"} : Values(heard, kind) = Given(talk[c].reply, kind)]_vars
=============================================================================
