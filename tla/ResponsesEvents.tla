-------------------------- MODULE ResponsesEvents --------------------------
(***************************************************************************)
(* What the client of a streamed Responses reply relies on: events         *)
(* numbered without gaps, a response that is created first and ends once,  *)
(* items that are added in order, grow piece by piece and are done once,   *)
(* with the text their pieces add up to.                                   *)
(***************************************************************************)
EXTENDS Naturals, Sequences

VARIABLES
    next,       \* the sequence number of the next event
    phase,      \* new, open, complete (completed or incomplete) or failed
    items       \* the items the client has put together

eventVars == <<next, phase, items>>

EventsInit == next = 0 /\ phase = "new" /\ items = <<>>

Numbered == next' = next + 1

Create == phase = "new" /\ phase' = "open" /\ Numbered /\ UNCHANGED items

\* An event that adds nothing to what the client knows: in_progress, a part
\* added or done, an item's text told once more in full.
Note == phase = "open" /\ Numbered /\ UNCHANGED <<phase, items>>

AddItem ==
    /\ phase = "open"
    /\ Len(items') = Len(items) + 1
    /\ SubSeq(items', 1, Len(items)) = items
    /\ ~items'[Len(items')].done /\ items'[Len(items')].text = <<>>
    /\ Numbered /\ UNCHANGED phase

Grow ==
    /\ phase = "open"
    /\ \E i \in DOMAIN items :
        /\ ~items[i].done
        /\ Len(items'[i].text) > Len(items[i].text)
        /\ SubSeq(items'[i].text, 1, Len(items[i].text)) = items[i].text
        /\ items' = [items EXCEPT ![i].text = items'[i].text]
    /\ Numbered /\ UNCHANGED phase

CloseItem ==
    /\ phase = "open"
    /\ \E i \in DOMAIN items :
        ~items[i].done /\ items' = [items EXCEPT ![i].done = TRUE]
    /\ Numbered /\ UNCHANGED phase

Complete ==
    /\ phase = "open" /\ phase' = "complete"
    /\ \A i \in DOMAIN items : items[i].done
    /\ Numbered /\ UNCHANGED items

Fail == phase \in {"new", "open"} /\ phase' = "failed" /\ Numbered /\ UNCHANGED items

EventsNext == Create \/ Note \/ AddItem \/ Grow \/ CloseItem \/ Complete \/ Fail

EventsSpec == EventsInit /\ [][EventsNext]_eventVars
=============================================================================
