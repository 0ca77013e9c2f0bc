----------------------------- MODULE MCStreamed -----------------------------
(***************************************************************************)
(* One streamed request over an openai provider with a fallback key, a     *)
(* target whose provider is not defined, and an anthropic provider.        *)
(***************************************************************************)
EXTENDS MCRouter

MCProviders == [a |-> OpenAI(<<"k1">>, <<"k3">>, {}),
                b |-> [OpenAI(<<"k2">>, <<>>, {"m"}) EXCEPT !.kind = "anthropic"]]
MCConfig == Serve([chat |-> Route(<<T("a", "m"), T("x", "m"), T("b", "m")>>, FALSE),
                   plain |-> Route(<<T("b", "m")>>, FALSE)], MCProviders)
MCCfgs == <<MCConfig>>
MCInbound == {Asks("chat", "chat", TRUE), Asks("other", "chat", TRUE), Asks("plain", "chat", TRUE),
              Unportable(Asks("chat", "responses", TRUE))}
MCReplies == {Good, Truncated, Filtered, Overloaded, UnknownRoute, Dropped, TimedOut}
MCStreamEnds == {EndGood, EndCut, EndEmpty, EndFiltered, EndError(400), EndError(502), EndBlocked}
MCKeys == {"k1", "k2", "k3"}
MCPairs == MCKeys \X {"chat", "plain", "other", "m"}
=============================================================================
