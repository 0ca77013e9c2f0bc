----------------------------- MODULE MCBuffered -----------------------------
(***************************************************************************)
(* One request at a time of every kind that is answered whole: a route     *)
(* whose targets are shuffled, a provider/model name, and a name that goes *)
(* to the fallback providers.                                              *)
(***************************************************************************)
EXTENDS MCRouter

MCProviders == [a |-> OpenAI(<<"k1", "k2">>, <<"k4">>, {}),
                b |-> [OpenAI(<<"k3">>, <<>>, {"m"}) EXCEPT !.kind = "anthropic"]]
MCConfig == [Serve([chat |-> Route(<<T("a", "m"), T("b", "m")>>, TRUE)], MCProviders)
             EXCEPT !.fallbacks = <<"a", "b">>, !.shuffleFallbacks = TRUE]
MCCfgs == <<MCConfig>>
MCInbound == {Asks("chat", "chat", FALSE), Unportable(Asks("chat", "responses", FALSE)),
              Asks("chat", "transcribe", FALSE), Asks("chat", "speech", FALSE),
              Asks("a/m", "embed", FALSE), Asks("other", "embed", FALSE)}
MCDirect == [n \in {"a/m"} |-> T("a", "m")]
MCReplies == {Good, Truncated, Filtered, Overloaded, BadRequest, Dropped, CutShort,
              TimedOut, LateOverload}
MCStreamEnds == {}
MCKeys == {"k1", "k2", "k3", "k4"}
MCPairs == MCKeys \X {"chat", "other", "m", "a/m"}
=============================================================================
