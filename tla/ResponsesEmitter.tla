-------------------------- MODULE ResponsesEmitter -------------------------
(***************************************************************************)
(* The event sequence of a streamed Responses reply                        *)
(* (provider/responses_stream.go, responsesEmitter), as operators on the   *)
(* emitter: each returns it with the events appended to "out".             *)
(*                                                                         *)
(* Item i of "items" has output_index i - 1. An event is a record with its *)
(* type, its sequence_number seq and the fields its type calls for;        *)
(* item_done stands for response.output_item.done, text_done for the two   *)
(* ..._text.done and for function_call_arguments.done, and so on.          *)
(***************************************************************************)
EXTENDS ChatReply

\* Item ids: NoID, the ids a provider gave, and the ones the emitter makes up.
CONSTANT Fresh      \* Fresh[i]: the id made up for item i
NoItem == 0

newResponsesEmitter ==
    [nextSeq |-> 0, items |-> <<>>, current |-> NoItem, calls |-> [i \in {} |-> NoItem],
     nextID |-> NoID, out |-> <<>>]

\* The events that end a response.
LastEvents == {"completed", "incomplete"}

NoFields == [f \in {} |-> 0]

\* event, with seq: the next sequence_number is used up.
event(e, type, fields) ==
    [e EXCEPT !.out = Append(@, [type |-> type, seq |-> e.nextSeq, fields |-> fields]),
              !.nextSeq = @ + 1]

start(e) == event(event(e, "created", NoFields), "in_progress", NoFields)

open(e, kind) ==
    [e EXCEPT !.items = Append(@, [kind |-> kind, call |-> Missing, text |-> <<>>, sig |-> Missing,
                                   own |-> FALSE, closed |-> FALSE,
                                   id |-> IF e.nextID # NoID THEN e.nextID
                                          ELSE Fresh[Len(e.items) + 1]]),
              !.nextID = NoID]

\* The last item is announced.
Added(e, own) ==
    event(e, "item_added", [index |-> Len(e.items), kind |-> e.items[Len(e.items)].kind,
                            id |-> e.items[Len(e.items)].id, own |-> own])

partAdded(e) == event(e, "part_added", [index |-> Len(e.items)])

textDone(e, i) == event(e, "text_done", [index |-> i, text |-> e.items[i].text])
partDone(e, i) == IF e.items[i].kind = "function_call" THEN e ELSE event(e, "part_done", [index |-> i])
itemDone(e, i) ==
    event(e, "item_done", [index |-> i, id |-> e.items[i].id, text |-> e.items[i].text,
                           sig |-> e.items[i].sig, own |-> e.items[i].own])

\* closeEvents: the text, the part if there is one, then the item; a provider's
\* own item (raw) is sent as it was.
closeEvents(e, i) == itemDone(partDone(textDone([e EXCEPT !.items[i].closed = TRUE], i), i), i)

\* Mutant: an item that is closed is closed again.
closeItemAgain(e, i) == closeEvents(e, i)

closeItem(e, i) == IF e.items[i].closed THEN e ELSE closeEvents(e, i)

closeAll(e) ==
    [FoldLeftDomain(closeItem, e, e.items) EXCEPT !.current = NoItem]

\* closeCurrent: the open message or reasoning; tool calls stay open until finish.
closeCurrent(e) ==
    IF e.current = NoItem THEN e ELSE [closeItem(e, e.current) EXCEPT !.current = NoItem]

grow(e, i, delta) ==
    event([e EXCEPT !.items[i].text = @ \o delta], "delta", [index |-> i, text |-> delta])

\* reasoning, text: added to the open item of its kind, opening one if needed.
openText(e, kind) ==
    IF e.current # NoItem /\ e.items[e.current].kind = kind THEN e
    ELSE [partAdded(Added(open(closeCurrent(e), kind), FALSE)) EXCEPT !.current = Len(e.items) + 1]
growCurrent(e, delta) == grow(e, e.current, delta)
say(e, kind, delta) == growCurrent(openText(e, kind), delta)

\* toolCall: a piece of the call at Chat index; its item opens with the first.
openCall(e, index, call) ==
    IF index \in DOMAIN e.calls THEN e
    ELSE Added([open(closeCurrent(e), "function_call")
                    EXCEPT !.items[Len(e.items) + 1].call = call,
                           !.calls = Put(@, index, Len(e.items) + 1)], FALSE)
growCall(e, i, delta) == IF delta = <<>> \/ e.items[i].closed THEN e ELSE grow(e, i, delta)
signCall(e, i, delta, sig) ==
    growCall(IF sig = Missing THEN e ELSE [e EXCEPT !.items[i].sig = sig], i, delta)
addPiece(e, index, delta, sig) == signCall(e, e.calls[index], delta, sig)
toolCall(e, index, call, delta, sig) == addPiece(openCall(e, index, call), index, delta, sig)

\* item: one the emitter does not build itself is added and done at once.
lastDone(e) == itemDone([e EXCEPT !.items[Len(e.items)].closed = TRUE, !.items[Len(e.items)].own = TRUE],
                        Len(e.items))
item(e, kind) == lastDone(Added(open(closeAll(e), kind), TRUE))


\* The streamed items an output item may stand for.
Match(items, used, o) ==
    {i \in DOMAIN items : /\ i \notin used /\ items[i].kind = o.kind
                          /\ o.kind = "function_call" => items[i].call = o.call}

Least(S) == CHOOSE i \in S : \A j \in S : i <= j

\* stampIDs: every output item takes the id of the first streamed item it
\* matches, and its place; what was not streamed comes last, in its own order.
stampIDs(items, output) ==
    LET Stamp(acc, k) ==
            LET found == Match(items, acc.used, output[k])
                i     == Least(found)
            IN  IF found = {}
                THEN [acc EXCEPT !.placed = Append(@, [at |-> Len(items) + k, item |-> output[k]])]
                ELSE [used   |-> acc.used \cup {i},
                      placed |-> Append(acc.placed, [at |-> i, item |-> [output[k] EXCEPT !.id = items[i].id]])]
        placed == FoldLeftDomain(Stamp, [used |-> {}, placed |-> <<>>], output).placed
        sorted == SortSeq(placed, LAMBDA a, b : a.at < b.at)
    IN  [k \in DOMAIN sorted |-> sorted[k].item]

\* finish: the open items are closed and the response ends.
ended(e, final) == event(e, final.status, [output |-> stampIDs(e.items, final.output)])
finish(e, final) == ended(closeAll(e), final)

-----------------------------------------------------------------------------
(* What is sent from a Chat chunk, and from a whole reply *)

\* chatToResponsesSource.translate: the first choice only; reasoning, text and
\* refusal, then the pieces of tool calls.
sayField(e, field, kind, c) == IF field \in c.says THEN say(e, kind, Piece(field, c.n)) ELSE e
sayFields(e, c) ==
    sayField(sayField(sayField(e, "reasoning", "reasoning", c), "content", "message", c), "refusal", "message", c)
callPiece(e, p) == toolCall(e, p.index, p.id, p.delta, p.sig)
callPieces(c) ==
    [k \in DOMAIN c.calls |->
        [index |-> c.calls[k].index, id |-> c.calls[k].id, sig |-> c.calls[k].sig,
         delta |-> IF c.calls[k].args THEN Piece("args", c.n) ELSE <<>>]]
translate(e, c) ==
    IF c.choice # 0 THEN e ELSE FoldLeft(callPiece, sayFields(e, c), callPieces(c))

\* bufferedResponsesFrames: a finished Responses object, item by item, each
\* keeping its own id and, when done, its own form.
named(e, o) == [IF o.kind \in {"reasoning", "message"} THEN closeAll(e) ELSE e EXCEPT !.nextID = o.id]
owned(e) == [e EXCEPT !.items[Len(e.items)].own = TRUE]
wholeItem(e, k, o) ==
    IF o.kind = "function_call" THEN owned(toolCall(e, k, o.call, o.text, o.sig))
    ELSE IF o.kind \in {"reasoning", "message"} /\ o.text # <<>> THEN owned(say(e, o.kind, o.text))
    ELSE item(e, o.kind)
place(e, p) == wholeItem(named(e, p.item), p.at, p.item)
places(output) == [k \in DOMAIN output |-> [at |-> k, item |-> output[k]]]
bufferedResponsesFrames(reply) ==
    finish(FoldLeft(place, start(newResponsesEmitter), places(reply.output)), reply)
=============================================================================
