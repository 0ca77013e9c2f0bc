------------------------------- MODULE Dialects ------------------------------
(***************************************************************************)
(* How one conversation is told in four dialects: Chat Completions and     *)
(* Responses towards clients and OpenAI, generateContent towards Gemini,   *)
(* Messages towards Anthropic (provider/responses_codec.go, gemini.go,     *)
(* anthropic.go, content_media.go, coerce_trailing.go).                    *)
(*                                                                         *)
(* A text is a sequence of pieces, none of them empty; content is a        *)
(* sequence of parts, a plain string being one text part. Media stand for  *)
(* themselves and the way they are given: inline, by URL, or by an id of   *)
(* OpenAI's file store. Arguments and results are JSON objects. Call ids   *)
(* and signatures are numbers, 0 for none.                                 *)
(***************************************************************************)
EXTENDS SequencesExt, SignatureCache

part(type, v) == [type |-> type, v |-> v, by |-> "data"]
call(id, name, args, sig) == [id |-> id, name |-> name, args |-> args, sig |-> sig]

\* A Chat message; id and name are a tool result's.
message(role, content) == [role |-> role, content |-> content, calls |-> <<>>, id |-> 0, name |-> ""]

\* A Responses input or output item.
item(type, role, content) == [type |-> type, role |-> role, content |-> content, call |-> call(0, "", "", NoSignature)]

ValuesOf(parts) == [i \in DOMAIN parts |-> parts[i].v]
contentToText(content) == ValuesOf(SelectSeq(content, LAMBDA p : p.type = "text"))

-----------------------------------------------------------------------------
(* Responses and Chat *)

portableContent(content) ==
    \A i \in DOMAIN content :
        \/ content[i].type \in {"input_text", "output_text", "text", "input_image", "image_url"}
        \/ content[i].type = "input_file" /\ content[i].by # "id"

portableInputItem(it) ==
    \/ it.type \in {"function_call", "function_call_output"}
    \/ /\ it.type \in {"", "message"} /\ it.role \in {"system", "user", "assistant", "developer"}
       /\ portableContent(it.content)

\* A reference to stored state, other tools than functions, and other items than
\* messages, calls and results cannot be told to a Chat model.
PortableForChat(body) ==
    /\ body.previous = ""
    /\ \A i \in DOMAIN body.tools : body.tools[i].type = "function"
    /\ body.choice.type = "function" => body.choice.name # ""
    /\ body.choice.type \in {"", "auto", "none", "required", "function"}
    /\ \A i \in DOMAIN body.input : portableInputItem(body.input[i])

chatType(type) ==
    CASE type \in {"input_text", "output_text", "text"} -> "text"
      [] type \in {"input_image", "image_url"} -> "image_url"
      [] OTHER -> "file"

\* An image that is only an id becomes an image of nothing.
responsesContentToChat(content) ==
    [i \in DOMAIN content |->
        [type |-> chatType(content[i].type), by |-> content[i].by,
         v |-> IF content[i].by = "id" THEN "" ELSE content[i].v]]

\* Every call is a message of its own.
itemToMessage(it) ==
    CASE it.type = "function_call" -> [message("assistant", <<>>) EXCEPT !.calls = <<it.call>>]
      [] it.type = "function_call_output" -> [message("tool", it.content) EXCEPT !.id = it.call.id]
      [] OTHER -> message(IF it.role = "developer" THEN "system" ELSE it.role, responsesContentToChat(it.content))

responsesInputToMessages(input) == [i \in DOMAIN input |-> itemToMessage(input[i])]

ResponsesToChat(body) ==
    [messages |-> (IF body.instructions = "" THEN <<>>
                   ELSE <<message("system", <<part("text", body.instructions)>>)>>)
                  \o responsesInputToMessages(body.input),
     tools    |-> body.tools,
     choice   |-> body.choice]

\* A Chat reply as output items: its text, then its calls.
ChatToResponses(msg) ==
    (IF contentToText(msg.content) = <<>> THEN <<>>
     ELSE <<item("message", "assistant", [i \in DOMAIN msg.content |-> [msg.content[i] EXCEPT !.type = "output_text"]])>>)
    \o [i \in DOMAIN msg.calls |-> [item("function_call", "", <<>>) EXCEPT !.call = msg.calls[i]]]

\* The last turn is made the user's, in a copy. (Pronouns are left out.)
CoerceTrailingAssistantTurn(items) ==
    IF items = <<>> \/ items[Len(items)].role \in {"", "user", "tool", "function"} THEN items
    ELSE [items EXCEPT ![Len(items)].role = "user"]

-----------------------------------------------------------------------------
(* Gemini *)

Placeholder == -1
gpart(kind, name, v, sig) == [kind |-> kind, name |-> name, v |-> v, sig |-> sig]
content(role, parts) == [role |-> role, parts |-> parts]

CallsOf(msgs) == FlattenSeq([i \in DOMAIN msgs |-> msgs[i].calls])

\* Mutant: only the first call of a message is looked at.
collectFirstToolCallNames(msgs) ==
    LET calls == FlattenSeq([i \in DOMAIN msgs |->
                    IF msgs[i].calls = <<>> THEN <<>> ELSE <<Head(msgs[i].calls)>>])
    IN  FoldLeft(LAMBDA names, c : [k \in DOMAIN names \cup {c.id} |-> IF k = c.id THEN c.name ELSE names[k]],
                 [k \in {} |-> ""], calls)

\* What each call id is called; of two calls of one id, the later one.
collectToolCallNames(msgs) ==
    FoldLeft(LAMBDA names, c : [k \in DOMAIN names \cup {c.id} |-> IF k = c.id THEN c.name ELSE names[k]],
             [k \in {} |-> ""], CallsOf(msgs))

\* The client's own signature, else the one remembered for this model, else, at
\* the first call of a Gemini model's turn, the placeholder.
Signature(c, isFirst, target, cache, now) ==
    IF c.sig # NoSignature THEN c.sig
    ELSE IF Get(cache, c.id, target.signer, now) # NoSignature THEN Get(cache, c.id, target.signer, now)
    ELSE IF isFirst /\ target.isGeminiModel THEN Placeholder ELSE NoSignature

assistantToolCallParts(calls, target, cache, now) ==
    [i \in DOMAIN calls |->
        gpart("call", calls[i].name, calls[i].args, Signature(calls[i], i = 1, target, cache, now))]

\* A result goes by its function's name.
toolResponsePart(msg, names) ==
    gpart("result", IF msg.id \in DOMAIN names /\ names[msg.id] # "" THEN names[msg.id] ELSE msg.name,
          contentToText(msg.content), NoSignature)

\* An image or a file that is only an id, and parts of other kinds, are left out.
geminiUserParts(parts) ==
    LET told == SelectSeq(parts, LAMBDA p : p.type \in {"text", "input_audio"}
                                            \/ (p.type \in {"image_url", "file"} /\ p.by # "id"))
    IN  IF told = <<>> THEN <<gpart("text", "", <<>>, NoSignature)>>
        ELSE [i \in DOMAIN told |-> IF told[i].type = "text" THEN gpart("text", "", <<told[i].v>>, NoSignature)
                                    ELSE gpart("media", "", <<told[i].v>>, NoSignature)]

geminiContent(msg, names, target, cache, now) ==
    CASE msg.role = "assistant" ->
            LET text  == contentToText(msg.content)
                parts == (IF text = <<>> THEN <<>> ELSE <<gpart("text", "", text, NoSignature)>>)
                         \o assistantToolCallParts(msg.calls, target, cache, now)
            IN  content("model", IF parts = <<>> THEN <<gpart("text", "", <<>>, NoSignature)>> ELSE parts)
      [] msg.role \in {"tool", "function"} -> content("user", <<toolResponsePart(msg, names)>>)
      [] OTHER -> content("user", geminiUserParts(msg.content))

IsSystem(msg) == msg.role \in {"system", "developer"}
SystemTexts(msgs) ==
    LET system == SelectSeq(msgs, IsSystem) IN [i \in DOMAIN system |-> contentToText(system[i].content)]
Turns(msgs) == SelectSeq(msgs, LAMBDA msg : ~IsSystem(msg))

\* Only functions are declared.
FunctionNames(tools) ==
    LET functions == SelectSeq(tools, LAMBDA t : t.name # "")
    IN  [i \in DOMAIN functions |-> functions[i].name]
geminiFunctionDeclarations(tools) == FunctionNames(tools)

geminiToolConfig(choice) ==
    CASE choice.type = "auto" -> [mode |-> "AUTO", names |-> {}]
      [] choice.type = "none" -> [mode |-> "NONE", names |-> {}]
      [] choice.type = "required" -> [mode |-> "ANY", names |-> {}]
      [] choice.type = "function" -> [mode |-> "ANY", names |-> {choice.name}]
      [] OTHER -> [mode |-> "", names |-> {}]

buildGeminiChatBody(body, target, cache, now) ==
    LET names == collectToolCallNames(body.messages)
    IN  [system   |-> SystemTexts(body.messages),
         contents |-> [i \in DOMAIN Turns(body.messages) |->
                            geminiContent(Turns(body.messages)[i], names, target, cache, now)],
         tools    |-> geminiFunctionDeclarations(body.tools),
         config   |-> geminiToolConfig(body.choice)]

\* A reply's parts as a Chat message: thoughts are left out, texts are joined,
\* and every call gets an id.
geminiToOpenAIChat(parts, ids) ==
    LET calls == SelectSeq(parts, LAMBDA p : p.kind = "call")
        texts == SelectSeq(parts, LAMBDA p : p.kind = "text")
    IN  [message("assistant", [i \in DOMAIN texts |-> part("text", texts[i].v)]) EXCEPT
            !.calls = [i \in DOMAIN calls |-> call(ids[i], calls[i].name, calls[i].v, calls[i].sig)]]

-----------------------------------------------------------------------------
(* Anthropic *)

block(kind, id, name, v) == [kind |-> kind, id |-> id, name |-> name, v |-> v]

\* Audio is left out.
anthropicUserContent(parts) ==
    LET told == SelectSeq(parts, LAMBDA p : p.type = "text" \/ (p.type \in {"image_url", "file"} /\ p.by # "id"))
    IN  [i \in DOMAIN told |-> IF told[i].type = "text" THEN block("text", 0, "", <<told[i].v>>)
                               ELSE block("media", 0, "", <<told[i].v>>)]

anthropicAssistantContent(msg) ==
    (IF contentToText(msg.content) = <<>> THEN <<>> ELSE <<block("text", 0, "", contentToText(msg.content))>>)
    \o [i \in DOMAIN msg.calls |-> block("call", msg.calls[i].id, msg.calls[i].name, msg.calls[i].args)]

anthropicMessage(msg) ==
    CASE msg.role = "assistant" -> content("assistant", anthropicAssistantContent(msg))
      [] msg.role \in {"tool", "function"} ->
            content("user", <<block("result", msg.id, "", contentToText(msg.content))>>)
      [] OTHER -> content("user", anthropicUserContent(msg.content))

anthropicTools(tools) == FunctionNames(tools)
anthropicToolChoice(choice) ==
    CASE choice.type \in {"auto", "none"} -> [type |-> choice.type, name |-> ""]
      [] choice.type = "required" -> [type |-> "any", name |-> ""]
      [] choice.type = "function" -> [type |-> "tool", name |-> choice.name]
      [] OTHER -> [type |-> "", name |-> ""]

buildAnthropicBody(body) ==
    [system   |-> SystemTexts(body.messages),
     messages |-> [i \in DOMAIN Turns(body.messages) |-> anthropicMessage(Turns(body.messages)[i])],
     tools    |-> anthropicTools(body.tools),
     choice   |-> anthropicToolChoice(body.choice)]

\* A reply's blocks as a Chat message.
anthropicToOpenAIChat(blocks) ==
    LET calls == SelectSeq(blocks, LAMBDA b : b.kind = "call")
        texts == SelectSeq(blocks, LAMBDA b : b.kind = "text")
    IN  [message("assistant", [i \in DOMAIN texts |-> part("text", texts[i].v)]) EXCEPT
            !.calls = [i \in DOMAIN calls |-> call(calls[i].id, calls[i].name, calls[i].v, NoSignature)]]
=============================================================================
