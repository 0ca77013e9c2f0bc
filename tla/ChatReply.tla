----------------------------- MODULE ChatReply -----------------------------
(***************************************************************************)
(* A Chat Completions reply put together from its chunks                   *)
(* (provider/chat_accum.go), and as a list of Responses output items       *)
(* (ChatToResponses, responsesFinal).                                      *)
(*                                                                         *)
(* Text is a sequence of pieces <<field, n>>, n being the place of the     *)
(* chunk that brought it: what is asked of text is only which pieces it    *)
(* has, and in which order.                                                *)
(***************************************************************************)
EXTENDS Naturals, Sequences, SequencesExt, TLC

Fields == {"reasoning", "content", "refusal"}

\* A chunk: for one choice, the text fields it carries, pieces of tool calls and
\* the finish reason; no choice at all when choice is None (a chunk that only
\* tells usage).
None == 99
Chunk(n, choice, says, calls, finish, usage) ==
    [n |-> n, choice |-> choice, says |-> says, calls |-> calls,
     finish |-> finish, usage |-> usage]

\* A piece of the tool call at index: id, name and signature may be missing.
CallPiece(index, id, args, sig) == [index |-> index, id |-> id, args |-> args, sig |-> sig]

NoFinish == ""
Missing == ""
NoCall == [id |-> Missing, args |-> <<>>, sig |-> Missing]
NewChoice == [text |-> [f \in Fields |-> <<>>], calls |-> [i \in {} |-> NoCall],
              finish |-> NoFinish]

newChatAccumulator == [choices |-> [i \in {} |-> NewChoice], usage |-> FALSE, output |-> FALSE]

Piece(f, n) == <<<<f, n>>>>

\* The function f with v at x.
Put(f, x, v) == [y \in DOMAIN f \cup {x} |-> IF y = x THEN v ELSE f[y]]

\* The first id of a call counts, its latest signature does.
AddCall(calls, p, n) ==
    LET old == IF p.index \in DOMAIN calls THEN calls[p.index] ELSE NoCall
    IN  Put(calls, p.index, [id   |-> IF old.id = Missing THEN p.id ELSE old.id,
                             args |-> old.args \o (IF p.args THEN Piece("args", n) ELSE <<>>),
                             sig  |-> IF p.sig = Missing THEN old.sig ELSE p.sig])

\* Does the chunk carry real output?
CarriesOutput(c) == c.choice # None /\ (c.says # {} \/ c.calls # <<>>)

\* What a chunk adds to its choice.
Extended(old, c) ==
    [text   |-> [f \in Fields |-> old.text[f] \o (IF f \in c.says THEN Piece(f, c.n) ELSE <<>>)],
     calls  |-> FoldLeft(LAMBDA calls, p : AddCall(calls, p, c.n), old.calls, c.calls),
     finish |-> IF c.finish = NoFinish THEN old.finish ELSE c.finish]

\* chatAccumulator.add: one chunk folded into the reply.
add(acc, c) ==
    IF c.choice = None THEN [acc EXCEPT !.usage = @ \/ c.usage]
    ELSE LET old == IF c.choice \in DOMAIN acc.choices THEN acc.choices[c.choice] ELSE NewChoice
         IN  [choices |-> Put(acc.choices, c.choice, Extended(old, c)),
              usage   |-> acc.usage \/ c.usage,
              output  |-> acc.output \/ CarriesOutput(c)]

FirstChoice(acc) ==
    IF DOMAIN acc.choices = {} THEN NewChoice
    ELSE acc.choices[CHOOSE i \in DOMAIN acc.choices : \A j \in DOMAIN acc.choices : i <= j]

\* chatAccumulator.state's HasContent.
HasContent(choice) == choice.text["content"] # <<>> \/ DOMAIN choice.calls # {}

-----------------------------------------------------------------------------
(* The same reply as Responses output items *)

\* A set of numbers in order.
Sorted(S) == CHOOSE s \in [1..Cardinality(S) -> S] : \A i, j \in DOMAIN s : i < j => s[i] < s[j]

OutputItem(kind, id, call, text, sig) ==
    [kind |-> kind, id |-> id, call |-> call, text |-> text, sig |-> sig]

\* ChatToResponses: the text as one message, then the tool calls by index. A
\* refusal has no place in it.
NoID == 0
ChatToResponses(choice) ==
    (IF choice.text["content"] = <<>> THEN <<>>
     ELSE <<OutputItem("message", NoID, Missing, choice.text["content"], Missing)>>)
    \o [k \in 1..Len(Sorted(DOMAIN choice.calls)) |->
          LET call == choice.calls[Sorted(DOMAIN choice.calls)[k]]
          IN  OutputItem("function_call", NoID, call.id, call.args, call.sig)]

\* responsesFinal: the reasoning summary comes first; a reply cut short or
\* filtered is incomplete.
responsesFinal(choice) ==
    [status |-> IF choice.finish \in {"length", "content_filter"} THEN "incomplete" ELSE "completed",
     output |-> (IF choice.text["reasoning"] = <<>> THEN <<>>
                 ELSE <<OutputItem("reasoning", NoID, Missing, choice.text["reasoning"], Missing)>>)
                \o ChatToResponses(choice)]
=============================================================================
