----------------------------- MODULE MCOddRoutes ----------------------------
(***************************************************************************)
(* Routes a configuration may contain although no test has them: one that  *)
(* names a target twice, and one whose first target has a provider that is *)
(* not defined (config.build checks neither).                              *)
(***************************************************************************)
EXTENDS MCRouter

MCProviders == [a |-> OpenAI(<<"k1">>, <<>>, {}),
                b |-> [OpenAI(<<"k2">>, <<>>, {}) EXCEPT !.kind = "anthropic"]]
MCCfgs == <<Serve([twice |-> Route(<<T("a", "m"), T("a", "m")>>, FALSE),
                   undefined |-> Route(<<T("x", "m"), T("b", "m")>>, FALSE)], MCProviders)>>
MCTwice == {Asks("twice", "chat", FALSE)}
MCUndefined == {Unportable(Asks("undefined", "responses", FALSE))}
MCReplies == {Good, Filtered, Overloaded}
MCKeys == {"k1", "k2"}
MCPairs == MCKeys \X {"twice", "undefined", "m"}
=============================================================================
