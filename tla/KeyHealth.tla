----------------------------- MODULE KeyHealth -----------------------------
(***************************************************************************)
(* What the router promises about blackouts, without a map, deadlines or   *)
(* a lazily cleaned cache: every (API key, model) pair either is usable or *)
(* rests for a known number of clock ticks.                                *)
(***************************************************************************)
EXTENDS Naturals

CONSTANTS
    Pairs,      \* the (API key, model) pairs
    Windows     \* the blackout windows a configuration may ask for

VARIABLES
    rest,       \* rest[p]: ticks during which p is still skipped; 0 = usable
    window      \* the window in force

healthVars == <<rest, window>>

HealthInit ==
    /\ rest = [p \in Pairs |-> 0]
    /\ window \in Windows

\* A failure makes the pair rest for the window in force: the current instant
\* and that many ticks more (a deadline is over only strictly after it).
Rest(p) == rest' = [rest EXCEPT ![p] = window + 1] /\ UNCHANGED window

\* A good reply makes the pair usable at once.
Recover(p) == rest' = [rest EXCEPT ![p] = 0] /\ UNCHANGED window

\* A reload changes the window of future failures only.
Configure(w) == window' = w /\ UNCHANGED rest

\* Time passes for every pair alike.
Wait ==
    /\ rest' = [p \in Pairs |-> IF rest[p] = 0 THEN 0 ELSE rest[p] - 1]
    /\ UNCHANGED window

HealthNext ==
    \/ \E p \in Pairs : Rest(p)
    \/ \E p \in Pairs : Recover(p)
    \/ \E w \in Windows : Configure(w)
    \/ Wait

HealthSpec == HealthInit /\ [][HealthNext]_healthVars
=============================================================================
