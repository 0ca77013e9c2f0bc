------------------------------ MODULE MCShared ------------------------------
(***************************************************************************)
(* Two requests at once that share keys, the blackout and the Chat-only    *)
(* cache, while a reload gives the provider a new key and a base URL that  *)
(* has a /responses route, and switches the blackout window.               *)
(***************************************************************************)
EXTENDS MCRouter, TLC

CONSTANTS r1, r2

Before == [a |-> [OpenAI(<<"k1">>, <<"k3">>, {}) EXCEPT !.hasRoute = FALSE]]
After == [a |-> OpenAI(<<"k2">>, <<>>, {})]
MCRoutes == [chat |-> Route(<<T("a", "m")>>, FALSE)]
MCCfgs == <<Serve(MCRoutes, Before), [Serve(MCRoutes, After) EXCEPT !.blackout = 0]>>
MCInbound == {Asks("chat", "responses", FALSE)}
MCReplies == {Good, Overloaded, UnknownRoute}
MCKeys == {"k1", "k2", "k3"}
MCPairs == MCKeys \X {"chat", "m"}
Interchangeable == Permutations({r1, r2})
=============================================================================
