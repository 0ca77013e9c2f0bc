---------------------------- MODULE RequestLife ----------------------------
(***************************************************************************)
(* What one client sees of its request, whatever happens behind the        *)
(* router: it waits, then either gets one whole answer, or a stream that   *)
(* comes from a single attempt, without a gap, a repeat or a second        *)
(* attempt mixed in, and that may close with the router's error event. A   *)
(* client that asked for a stream never gets a 2xx outside a stream.       *)
(***************************************************************************)
EXTENDS Naturals, Sequences

CONSTANTS
    Clients,        \* the requests
    Statuses,       \* the HTTP statuses an answer may carry
    Tries           \* the attempt numbers

VARIABLE view   \* view[c]: did c ask for a stream, and how far is the answer

\* A frame is named by the attempt it comes from and its place there. The
\* error event has place 0; a refusal, of no attempt, is attempt 0's.
LifeInit ==
    view \in [Clients -> [state: {"waiting"}, streamed: BOOLEAN, status: {0}, wire: {<<>>}]]

\* One whole answer.
Answer(c, status) ==
    /\ view[c].state = "waiting"
    /\ view[c].streamed => status >= 300
    /\ view' = [view EXCEPT ![c].state = "answered", ![c].status = status]

\* The router commits to an attempt.
BeginStream(c) ==
    /\ view[c].streamed /\ view[c].state = "waiting"
    /\ view' = [view EXCEPT ![c].state = "streaming", ![c].status = 200]

\* The next frame of the attempt the stream began with.
SendFrame(c, try) ==
    /\ view[c].state = "streaming"
    /\ view[c].wire # <<>> => try = view[c].wire[1].try
    /\ view' = [view EXCEPT ![c].wire =
                    Append(@, [try |-> try, n |-> Len(view[c].wire) + 1])]

\* The stream is over, with or without a last word of the router.
EndStream(c, try) ==
    /\ view[c].state = "streaming"
    /\ view[c].wire # <<>> => try = view[c].wire[1].try
    /\ \/ view' = [view EXCEPT ![c].state = "answered"]
       \/ view' = [view EXCEPT ![c].state = "answered",
                               ![c].wire = Append(@, [try |-> try, n |-> 0])]

\* Every target refused: a stream that says so (or nobody left to read it).
Refuse(c) ==
    /\ view[c].streamed /\ view[c].state = "waiting"
    /\ \E w \in {<<>>, <<[try |-> 0, n |-> 1]>>} :
        view' = [view EXCEPT ![c].state = "answered", ![c].status = 200, ![c].wire = w]

LifeNext ==
    \E c \in Clients :
        \/ \E status \in Statuses : Answer(c, status)
        \/ BeginStream(c)
        \/ \E try \in Tries : SendFrame(c, try) \/ EndStream(c, try)
        \/ Refuse(c)

LifeSpec == LifeInit /\ [][LifeNext]_view
=============================================================================
