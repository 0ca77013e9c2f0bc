----------------------------- MODULE Blackout ------------------------------
(***************************************************************************)
(* The blackout tracker of src/router/blackout.go: the (API key, model)    *)
(* pairs that failed recently, each with the time until which it is        *)
(* skipped. Every operation runs under the tracker's mutex except the      *)
(* first line of Fail, which reads the window unlocked: Fail is therefore  *)
(* two steps, between which any other operation may run.                   *)
(***************************************************************************)
EXTENDS Naturals

CONSTANTS
    Callers,    \* the goroutines that report failures
    Pairs,      \* the (API key, model) pairs
    Windows,    \* the values global_blackout takes over the reloads
    MaxTime     \* bound on the clock

ASSUME BlackoutAssumption == Windows \subseteq Nat /\ MaxTime \in Nat

VARIABLES
    until,      \* the map: a function on the pairs that have an entry
    dur,        \* the window of future failures
    now,        \* the wall clock
    failing     \* failing[c]: the pair c is about to write in Fail, if any

blackoutVars == <<until, dur, now, failing>>

BlackoutTypeOK ==
    /\ DOMAIN until \subseteq Pairs
    /\ \A p \in DOMAIN until : until[p] \in Nat
    /\ dur \in Windows
    /\ now \in Nat
    /\ failing \in [Callers -> SUBSET Pairs]

\* Mutants: entries keyed by the API key alone; a failure rests its whole key.
WithKeyOnly(p, t) == [q \in DOMAIN until \cup {p[1]} |-> IF q = p[1] THEN t ELSE until[q]]
WithWholeKey(p, t) ==
    LET same == {q \in Pairs : q[1] = p[1]} IN
    [q \in DOMAIN until \cup same |-> IF q \in same THEN t ELSE until[q]]

\* The map without / with an entry for p.
Without(p) == [q \in DOMAIN until \ {p} |-> until[q]]
With(p, t) == [q \in DOMAIN until \cup {p} |-> IF q = p THEN t ELSE until[q]]

\* The verdict of Blocked: there is an entry and its deadline has not passed
\* (time.After is strict).
Blocked(p) == p \in DOMAIN until /\ now <= until[p]

-----------------------------------------------------------------------------
\* NewBlackout
BlackoutInit(w) ==
    /\ until = [p \in {} |-> 0]
    /\ dur = w
    /\ now = 0
    /\ failing = [c \in Callers |-> {}]

\* What Blocked leaves behind: an entry whose deadline has passed is deleted.
Sweep(p) ==
    until' = IF p \in DOMAIN until /\ now > until[p] THEN Without(p) ELSE until

CheckBlocked(p) == Sweep(p) /\ UNCHANGED <<dur, now, failing>>

\* Fail, first line: the unlocked read of the window. With none configured
\* the call returns without a trace.
FailBegin(c, p) ==
    /\ failing[c] = {}
    /\ failing' = [failing EXCEPT ![c] = IF dur > 0 THEN {p} ELSE {}]
    /\ UNCHANGED <<until, dur, now>>

\* Fail, under the lock: the window is read again.
FailEnd(c) ==
    /\ \E p \in failing[c] : until' = With(p, now + dur)
    /\ failing' = [failing EXCEPT ![c] = {}]
    /\ UNCHANGED <<dur, now>>

Success(p) == until' = Without(p) /\ UNCHANGED <<dur, now, failing>>

SetDuration(w) == dur' = w /\ UNCHANGED <<until, now, failing>>

\* The environment: time passes.
Tick ==
    /\ now < MaxTime
    /\ now' = now + 1
    /\ UNCHANGED <<until, dur, failing>>

-----------------------------------------------------------------------------
\* The tracker on its own, under any callers.
BlackoutNext ==
    \/ \E c \in Callers, p \in Pairs : FailBegin(c, p)
    \/ \E c \in Callers : FailEnd(c)
    \/ \E p \in Pairs : Success(p)
    \/ \E p \in Pairs : CheckBlocked(p)
    \/ \E w \in Windows : SetDuration(w)
    \/ Tick

BlackoutSpec == (\E w \in Windows : BlackoutInit(w)) /\ [][BlackoutNext]_blackoutVars

-----------------------------------------------------------------------------
\* How long a pair still rests, read off the map; an expired entry that no one
\* has swept yet counts as no entry.
RestOf(p) == IF Blocked(p) THEN until[p] - now + 1 ELSE 0

Health == INSTANCE KeyHealth WITH rest <- [p \in Pairs |-> RestOf(p)], window <- dur

\* The tracker keeps the promise of KeyHealth: sweeping is invisible, a failure
\* rests exactly its own pair for the window in force when it is written, a
\* success frees exactly its own pair, a reload leaves running rests alone, and
\* nothing but time ends a rest otherwise
\* (src/router/blackout.go: Fail, Success, Blocked).
ImplementsKeyHealth == Health!HealthSpec
=============================================================================
