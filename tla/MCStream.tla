------------------------------ MODULE MCStream ------------------------------
(***************************************************************************)
(* One streamed call of each form, to a provider that sends any of a few   *)
(* events in any order, or a native stream of Responses events, or a whole *)
(* reply.                                                                  *)
(***************************************************************************)
EXTENDS StreamProperties

MCCall(kind, op, mode, usage) == [kind |-> kind, op |-> op, mode |-> mode, usage |-> usage]
MCCalls == {MCCall("openai", "chat", "force", FALSE), MCCall("gemini", "chat", "force", TRUE),
            MCCall("openai", "responses", "probe", FALSE),
            MCCall("gemini", "responses", "force", FALSE)}

Says(choice, says, calls, why, usage) ==
    [type |-> "chunk", n |-> 0, chunk |-> Chunk(0, choice, says, calls, why, usage)]
MCOpenAI == {
    Says(0, {"reasoning"}, <<>>, NoFinish, FALSE),
    Says(0, {"content"}, <<>>, NoFinish, TRUE),
    Says(0, {}, <<CallPiece(0, "c0", FALSE, "s")>>, NoFinish, FALSE),
    Says(0, {}, <<CallPiece(0, "c0", TRUE, ""), CallPiece(1, "c1", TRUE, "")>>, NoFinish, FALSE),
    Says(0, {"refusal"}, <<>>, "stop", FALSE),
    Says(None, {}, <<>>, NoFinish, TRUE),
    [type |-> "DONE", n |-> 0], [type |-> "error", n |-> 0, code |-> "rate_limit_exceeded"]}

Part(kind, sig) == [kind |-> kind, sig |-> sig]
Gemini(parts, why, block, usage) ==
    [type |-> "gemini", n |-> 0, parts |-> parts, finish |-> why, block |-> block, usage |-> usage]
MCGemini == {
    Gemini(<<Part("text", ""), Part("empty", "s")>>, NoFinish, FALSE, TRUE),
    Gemini(<<Part("thought", ""), Part("call", "s"), Part("call", "")>>, NoFinish, FALSE, FALSE),
    Gemini(<<Part("text", "")>>, "STOP", FALSE, TRUE),
    Gemini(<<Part("text", "")>>, "SAFETY", TRUE, FALSE),
    [type |-> "junk", n |-> 0], [type |-> "error", n |-> 0, code |-> "other"]}
MCVocabulary == [openai |-> MCOpenAI, gemini |-> MCGemini]

\* Native streams: an item in two pieces, a call, and a reply that has only its end.
Ev(seq, type, fields) == [type |-> "pass", n |-> 0, code |-> "other", frame |-> [type |-> type, seq |-> seq, fields |-> fields]]
Created == <<Ev(0, "created", NoFields)>>
MsgItem == OutputItem("message", 5, "", <<<<"content", 1>>>>, "")
Delta(seq) == Ev(seq, "delta", [index |-> 1, text |-> <<<<"content", seq>>>>])
MCScripts == {
    Created \o <<Ev(1, "item_added", [index |-> 1, kind |-> "message", id |-> 5, own |-> FALSE]),
                 Delta(2), Delta(3), Ev(4, "error", NoFields)>>,
    Created \o <<Ev(1, "item_added", [index |-> 1, kind |-> "function_call", id |-> 6, own |-> FALSE]),
                 Ev(2, "item_done", [index |-> 1, id |-> 6, text |-> <<>>, sig |-> "", own |-> TRUE]),
                 Ev(3, "incomplete", [output |-> <<>>])>>,
    Created \o <<[type |-> "junk", n |-> 0], Ev(1, "completed", [output |-> <<MsgItem>>])>>}

Zero(f) == <<<<f, 0>>>>
Whole(reasoning, content, calls) ==
    [NewChoice EXCEPT !.text["reasoning"] = reasoning, !.text["content"] = content, !.calls = calls,
                      !.finish = "stop"]
OneCall(id, sig) == [id |-> id, args |-> Zero("args"), sig |-> sig]
MCReplies == [
    chat |-> {[choices |-> (0 :> Whole(Zero("reasoning"), Zero("content"), 0 :> OneCall("c", "s"))) @@
                           (1 :> Whole(<<>>, Zero("content"), [i \in {} |-> NoCall])), usage |-> TRUE]},
    responses |-> {
        [status |-> "completed",
         output |-> <<OutputItem("message", 5, "", Zero("content"), ""),
                      OutputItem("reasoning", 6, "", <<>>, ""),
                      OutputItem("message", NoID, "", Zero("content"), ""),
                      OutputItem("function_call", 7, "c", Zero("args"), ""),
                      OutputItem("web_search_call", 8, "", <<>>, "")>>],
        [status |-> "incomplete",
         output |-> <<OutputItem("function_call", 7, "c", Zero("args"), "s"),
                      OutputItem("function_call", 8, "d", Zero("args"), ""),
                      OutputItem("reasoning", 9, "", Zero("reasoning"), "")>>]}]

MCFresh == [i \in 1..9 |-> 10 + i]
=============================================================================
