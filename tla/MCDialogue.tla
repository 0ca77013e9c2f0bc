------------------------------ MODULE MCDialogue -----------------------------
(***************************************************************************)
(* One conversation that starts with any of many histories and requests,   *)
(* over any of four pairs of targets; and conversations, two of them side  *)
(* by side, with Gemini models that write more signatures than the cache   *)
(* holds, while they expire.                                               *)
(***************************************************************************)
EXTENDS DialogueProperties

target(signer, kind, isGeminiModel, chatOnly) ==
    [signer |-> signer, kind |-> kind, isGeminiModel |-> isGeminiModel, chatOnly |-> chatOnly]
GeminiA == target("g/gemini-a", "gemini", TRUE, FALSE)
GeminiB == target("g/gemini-b", "gemini", TRUE, FALSE)
Gemma   == target("g/gemma", "gemini", FALSE, FALSE)
Claude  == target("a/claude", "anthropic", FALSE, FALSE)
Native  == target("o/native", "openai", FALSE, FALSE)
Old     == target("o/old", "openai", FALSE, TRUE)
Pairs   == {{GeminiA, GeminiB}, {GeminiA, Claude}, {Gemma, Old}, {Claude, Native}}

Piece(kind, name, v, signed) == [kind |-> kind, name |-> name, v |-> v, signed |-> signed, id |-> 0]
SignedCall(v) == Piece("call", "f", v, TRUE)
PlainCall(v) == Piece("call", "g", v, FALSE)
Replies1 == {<<Piece("thought", "", "t", FALSE), Piece("text", "", "x", FALSE), SignedCall("1"), PlainCall("2")>>,
             <<Piece("text", "", "x", FALSE), Piece("text", "", "y", FALSE)>>}
Replies2 == {<<SignedCall("1"), PlainCall("2")>>, <<SignedCall("1"), SignedCall("3")>>}

NoChoice == [type |-> "", name |-> ""]
Function(name) == [type |-> "function", name |-> name]
Body == [previous |-> "", instructions |-> "", input |-> <<>>, tools |-> <<>>, choice |-> NoChoice]
Tooled == [Body EXCEPT !.tools = <<Function("f"), Function("g")>>, !.choice = Function("g"), !.instructions = "i"]

Said1(role, v) == message(role, <<part("text", v)>>)
Media(type, v, by) == [part(type, v) EXCEPT !.by = by]
\* Two calls, the second one signed by another model.
Two == <<call(101, "f", "1", NoSignature), call(102, "g", "2", 102)>>
Result(id) == [Said1("tool", "r") EXCEPT !.id = id]
Looks == message("user", <<part("text", "see"), Media("image_url", "p", "data"), Media("file", "d", "id"),
                           Media("file", "e", "url"), Media("input_audio", "a", "data"), part("text", "that")>>)
\* The results come in the other order; a third one has only a name.
Worked == <<Said1("system", "s"), Looks, [Said1("assistant", "x") EXCEPT !.calls = Two], Result(102), Result(101),
            [Said1("function", "r") EXCEPT !.name = "h"]>>
Histories == {Worked, Worked \o <<Said1("developer", "d")>>, Worked \o <<[Said1("assistant", "y") EXCEPT !.content = <<Head(@), Head(@)>>]>>,
              <<Looks, message("assistant", <<>>)>>, <<Said1("user", "q"), [message("assistant", <<>>) EXCEPT !.calls = Two]>>, <<>>}

Item1(role, parts) == item("message", role, parts)
CallItem(k) == [item("function_call", "", <<>>) EXCEPT !.call = k]
ResultItem(id) == [item("function_call_output", "", <<part("text", "r")>>) EXCEPT !.call.id = id]
Shown(p) == Item1("user", <<part("input_text", "see"), p, part("input_text", "that")>>)
\* What can be told in other dialects, then what cannot.
ItemLists == {<<Shown(Media("input_image", "p", "url")), CallItem(Two[1]), CallItem(Two[2]), ResultItem(102), ResultItem(101)>>,
              <<Item1("developer", <<part("input_text", "d")>>), Shown(Media("input_file", "d", "data")),
                Item1("assistant", <<part("output_text", "x"), part("output_text", "y")>>)>>,
              <<[Shown(Media("input_image", "p", "id")) EXCEPT !.type = ""], Item1("developer", <<part("input_text", "d")>>)>>,
              <<Shown(Media("input_file", "d", "id"))>>, <<item("reasoning", "", <<>>), CallItem(Two[1])>>}
Bodies == {Body, Tooled, [Tooled EXCEPT !.choice = [type |-> "required", name |-> ""]],
           [Tooled EXCEPT !.choice = [type |-> "none", name |-> ""]],
           [Tooled EXCEPT !.choice = Function("")], [Tooled EXCEPT !.choice = [type |-> "web_search", name |-> ""]],
           [Tooled EXCEPT !.tools = <<[type |-> "web_search", name |-> ""], Function("g")>>], [Body EXCEPT !.previous = "p"]}

Talk(api, keeps, coerce, history, body, turns) ==
    [api |-> api, keeps |-> keeps, coerce |-> coerce, history |-> history, body |-> body, turns |-> turns]
Scenario(talks, targets, replies, writes, until) ==
    [talks |-> talks, targets |-> targets, replies |-> replies, writes |-> writes, until |-> until]

ChatTalks == {Talk("chat", k, co, h, Tooled, 2) : k \in BOOLEAN, co \in BOOLEAN, h \in Histories}
ResponsesTalks == {Talk("responses", k, co, h, Tooled, 2) : k \in BOOLEAN, co \in BOOLEAN, h \in ItemLists}
                  \cup {Talk("responses", FALSE, FALSE, <<>>, b, 1) : b \in Bodies}
One == {Scenario(<<t>>, p, Replies1, 8, 0) : t \in ChatTalks \cup ResponsesTalks, p \in Pairs}

Forgets(api, turns) == Talk(api, FALSE, TRUE, <<>>, Body, turns)
Several == {Scenario(<<Forgets("chat", 2), Forgets("responses", 1)>>, {GeminiA, GeminiB}, {<<SignedCall("1"), SignedCall("2")>>}, 4, 2),
            Scenario(<<Forgets("chat", 3)>>, {GeminiA}, Replies2, 6, 2),
            Scenario(<<Forgets("responses", 2)>>, {GeminiB, Gemma}, Replies2, 6, 2)}
MCScenarios == One \cup Several
=============================================================================
