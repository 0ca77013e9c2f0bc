------------------------------ MODULE MCRouter -----------------------------
(***************************************************************************)
(* Replies, stream ends, providers and configurations from which the model *)
(* checking runs of the router are put together.                           *)
(***************************************************************************)
EXTENDS RouterProperties

\* Replies
Good == [Empty EXCEPT !.status = 200, !.body = TRUE, !.content = TRUE, !.finish = "stop"]
Truncated == [Good EXCEPT !.finish = "length"]
Filtered == [Good EXCEPT !.content = FALSE, !.prohibited = TRUE]
Overloaded == [Empty EXCEPT !.status = 429, !.body = TRUE]
BadRequest == [Empty EXCEPT !.status = 400, !.body = TRUE]
\* Says that there is no /responses route, or so it seems.
UnknownRoute == [BadRequest EXCEPT !.words = {"/responses", "unknown"}]
LateOverload == [Overloaded EXCEPT !.timedOut = TRUE]
Dropped == [Empty EXCEPT !.err = TRUE]
CutShort == [Dropped EXCEPT !.status = 200]
TimedOut == [Empty EXCEPT !.err = TRUE, !.timedOut = TRUE]

\* Stream ends
EndGood == [Good EXCEPT !.body = FALSE]
EndCut == [EndGood EXCEPT !.finish = "length"]
EndEmpty == [EndGood EXCEPT !.content = FALSE, !.finish = ""]
EndFiltered == [EndEmpty EXCEPT !.prohibited = TRUE]
EndError(status) == [EndEmpty EXCEPT !.err = TRUE, !.status = status, !.body = TRUE]
EndBlocked == [EndError(502) EXCEPT !.prohibited = TRUE]

\* Providers
OpenAI(keys, fallback, models) ==
    [kind |-> "openai", keys |-> keys, fallbackKeys |-> fallback, fallbackModels |-> models,
     supports |-> "unset", hasRoute |-> TRUE]

T(p, m) == [provider |-> p, model |-> m]
Route(targets, shuffle) == [targets |-> targets, shuffle |-> shuffle]
Serve(routes, providers) ==
    [routes |-> routes, providers |-> providers, fallbacks |-> <<>>,
     shuffleFallbacks |-> FALSE, blackout |-> 1, streaming |-> TRUE]
Asks(name, op, stream) == [name |-> name, op |-> op, stream |-> stream, portable |-> TRUE]
Unportable(a) == [a EXCEPT !.portable = FALSE]
NoDirect == [n \in {} |-> T("a", "m")]
=============================================================================
