---------------------------- MODULE ServingProofs ---------------------------
(***************************************************************************)
(* The running process, for every file the operator may write, every       *)
(* interleaving of reloads with requests, and every reader of the page.    *)
(***************************************************************************)
EXTENDS ServingProperties, TLAPS

-----------------------------------------------------------------------------
(* The inductive invariant *)

Names == {"none", "watcher", "signal"}
Steps == {"none", "read", "router", "server"}
Statuses == {0, 200, 400, 401, 404, 405}
Clients == DOMAIN request

\* The elements of a list are all it needs to be typed by.
IsList(s) == s \in Seq({s[i] : i \in DOMAIN s})

\* The operator's side.
FileFits ==
    /\ scenario \in Scenarios
    /\ now \in 1..scenario.until
    /\ file \in [text: DOMAIN Texts, mtime: 1..now, version: 1..(scenario.writes + 1)]

\* Who is in tryReload wants to reload, and only a process that is up reloads.
ReloadFits ==
    /\ stage \in {"down", "up", "exited"}
    /\ IsList(loaded)
    /\ stage = "up" <=> loaded # <<>>
    /\ lock \in [by: Names, step: Steps]
    /\ lock.step = "none" <=> lock.by = "none"
    /\ watcher \in [lastMod: 0..now, state: {"idle", "wants"}]
    /\ hangup \in [queued: BOOLEAN, state: {"idle", "wants"}, version: Nat]
    /\ lock.by = "watcher" => watcher.state = "wants"
    /\ lock.by = "signal" => hangup.state = "wants"
    /\ watcher.state = "wants" \/ hangup.state = "wants" \/ hangup.queued => stage = "up"

\* The server follows the router, and has nothing the router has not.
GenerationsFit ==
    /\ routerGen \in Nat /\ serverGen \in Nat
    /\ serverGen <= routerGen /\ routerGen <= Len(loaded)
    /\ lock.step = "server" => routerGen = Len(loaded)

Stages == {"new", "reading", "read", "registered", "routing", "replied", "logged", "gone"}
Shown == {"registered", "routing", "replied", "logged"}
RequestOf(asked) ==
    [ask: {asked}, stage: Stages, authorised: Nat, read: Nat, routed: Nat,
     attempts: 0..asked.tries, status: Statuses, json: BOOLEAN]
EntryOf == [attempts: Nat, outcome: {"none", "attempted", "streaming"}]
IsRegistry(f) == DOMAIN f \subseteq Clients /\ f \in [DOMAIN f -> EntryOf]

\* What a request has been through tells what it has: no attempt and no router's
\* configuration before it is routed, each generation taken no older than the
\* one before.
Fits(x, asked) ==
    /\ x \in RequestOf(asked)
    /\ x.authorised <= serverGen /\ x.read <= serverGen
    /\ x.stage = "new" => x.read = 0
    /\ x.stage \in {"new", "reading", "read", "registered"} => x.routed = 0 /\ x.attempts = 0
    /\ x.read # 0 => x.authorised <= x.read
    /\ x.routed # 0 => x.read <= x.routed
RequestsFit ==
    /\ request = [r \in DOMAIN scenario.asks |-> request[r]]
    /\ \A r \in DOMAIN scenario.asks : Fits(request[r], scenario.asks[r])

\* The registry has the requests between Register and Unregister, and the log
\* those that are behind it.
IsEntered(r, x) ==
    /\ r \in DOMAIN running <=> x.stage \in Shown
    /\ r \in DOMAIN running => running[r].attempts = x.attempts
    /\ x.stage \in {"logged", "gone"} /\ x.routed # 0 /\ x.json => r \in logged
RegistryFits ==
    /\ IsRegistry(running) /\ logged \subseteq Clients
    /\ \A r \in Clients : IsEntered(r, request[r])

\* A snapshot under way: whoever runs all the while is copied or yet to be.
PageFits ==
    /\ page = [state |-> page.state, ids |-> page.ids, out |-> page.out,
               always |-> page.always, ever |-> page.ever]
    /\ page.state \in {"idle", "copying"} /\ IsRegistry(page.out)
    /\ page.state = "copying" =>
        /\ page.always \subseteq DOMAIN running /\ DOMAIN running \subseteq page.ever
        /\ page.always \subseteq DOMAIN page.out \cup page.ids
        /\ DOMAIN page.out \subseteq page.ever /\ page.ids \subseteq page.ever
        /\ \A r \in DOMAIN page.out : page.out[r].attempts <= request[r].attempts

ProcessFits == FileFits /\ ReloadFits /\ GenerationsFit
HandlersFit == RequestsFit /\ RegistryFits /\ PageFits
Inv == ProcessFits /\ HandlersFit

-----------------------------------------------------------------------------
(* Lists, and the texts *)

\* A list with an element more is a list.
LEMMA ListGrows ==
    ASSUME NEW s, IsList(s), NEW x
    PROVE  /\ IsList(Append(s, x)) /\ Append(s, x) # <<>>
           /\ Len(s) \in Nat /\ Len(Append(s, x)) = Len(s) + 1
           /\ Append(s, x)[Len(s) + 1] = x
           /\ \A i \in 1..Len(s) : Append(s, x)[i] = s[i]
<1>. DEFINE t == Append(s, x)
            S == {s[i] : i \in DOMAIN s} \cup {x}
<1>1. s \in Seq(S)
  <2>1. /\ Len(s) \in Nat /\ DOMAIN s = 1..Len(s)
        /\ s \in [1..Len(s) -> {s[i] : i \in DOMAIN s}]
    BY DEF IsList
  <2>2. \A i \in 1..Len(s) : s[i] \in S
    BY <2>1
  <2>. QED  BY <2>1, <2>2
<1>. HIDE DEF S
<1>2. x \in S
  BY DEF S
<1>3. /\ t \in Seq(S) /\ Len(s) \in Nat /\ Len(t) = Len(s) + 1 /\ DOMAIN t = 1..Len(t)
      /\ t[Len(s) + 1] = x /\ \A i \in 1..Len(s) : t[i] = s[i]
  BY <1>1, <1>2
<1>. HIDE DEF t
<1>4. t \in Seq({t[i] : i \in DOMAIN t})
  <2>1. t \in [1..Len(t) -> S] /\ Len(t) \in Nat
    BY <1>3
  <2>2. \A i \in 1..Len(t) : t[i] \in {t[j] : j \in DOMAIN t}
    BY <1>3
  <2>. QED  BY <1>3, <2>1, <2>2
<1>5. t # <<>>
  BY <1>3
<1>. QED  BY <1>3, <1>4, <1>5 DEF IsList, t

\* The scenario of a run says what it may.
LEMMA ScenarioIsTyped ==
    ASSUME FileFits
    PROVE  /\ scenario.edits \subseteq DOMAIN Texts /\ scenario.file \in DOMAIN Texts
           /\ scenario.writes \in Nat /\ scenario.until \in Nat \ {0}
           /\ \A r \in DOMAIN scenario.asks : scenario.asks[r].tries \in Nat
  BY ServingAssumption DEF FileFits, ServingAssumption

-----------------------------------------------------------------------------
(* The operator and the reloads *)

\* Time may go on: what a reload has got to stays right.
LEMMA ReloadStays ==
    ASSUME ReloadFits, now \in Nat, now' \in Nat, now <= now', UNCHANGED configVars
    PROVE  ReloadFits'
<1>1. watcher' \in [lastMod: 0..now', state: {"idle", "wants"}]
  <2>1. watcher \in [lastMod: 0..now, state: {"idle", "wants"}] /\ watcher' = watcher
    BY DEF ReloadFits, configVars
  <2>2. 0..now \subseteq 0..now'
    OBVIOUS
  <2>. QED  BY <2>1, <2>2
<1>2. IsList(loaded)' = IsList(loaded)
  BY DEF IsList, configVars
<1>. QED  BY <1>1, <1>2 DEF ReloadFits, configVars

LEMMA GenerationsStay ==
    ASSUME GenerationsFit, UNCHANGED configVars
    PROVE  GenerationsFit'
  BY DEF GenerationsFit, configVars

LEMMA FileStays ==
    ASSUME FileFits, UNCHANGED <<scenario, now, file>>
    PROVE  FileFits' /\ now \in Nat /\ now' \in Nat /\ now <= now'
  BY ScenarioIsTyped DEF FileFits

LEMMA OperatorKeepsProcess ==
    ASSUME ProcessFits, Operator
    PROVE  ProcessFits'
<1>. USE DEF ProcessFits
<1>1. CASE Time
  <2>1. now' = now + 1 /\ now < scenario.until /\ UNCHANGED <<scenario, file, configVars>>
    BY <1>1 DEF Time
  <2>2. now \in Nat /\ now' \in Nat /\ now <= now' /\ now' \in 1..scenario.until
    BY <2>1, ScenarioIsTyped DEF FileFits
  <2>3. FileFits'
    BY <2>1, <2>2, ScenarioIsTyped DEF FileFits
  <2>. QED  BY <2>1, <2>2, <2>3, ReloadStays, GenerationsStay
<1>2. CASE Writes
  <2>1. /\ UNCHANGED <<scenario, now, configVars>> /\ file.version <= scenario.writes
        /\ \E c \in scenario.edits : file' = [text |-> c, mtime |-> now, version |-> file.version + 1]
    BY <1>2 DEF Writes
  <2>2. FileFits' /\ now \in Nat
    BY <2>1, ScenarioIsTyped DEF FileFits
  <2>. QED  BY <2>1, <2>2, ReloadStays, GenerationsStay
<1>3. CASE HangsUp
  <2>1. /\ UNCHANGED <<scenario, now, file>> /\ UNCHANGED <<stage, built, loaded, routerGen, serverGen, lock, watcher>>
        /\ stage = "up" /\ hangup' = [hangup EXCEPT !.queued = TRUE, !.version = file.version]
    BY <1>3 DEF HangsUp
  <2>2. hangup' \in [queued: BOOLEAN, state: {"idle", "wants"}, version: Nat] /\ hangup'.state = hangup.state
    <3>1. file.version \in Nat /\ hangup \in [queued: BOOLEAN, state: {"idle", "wants"}, version: Nat]
      BY ScenarioIsTyped DEF ReloadFits, FileFits
    <3>. QED  BY <2>1, <3>1
  <2>3. IsList(loaded)' = IsList(loaded)
    BY <2>1 DEF IsList
  <2>4. ReloadFits'
    BY <2>1, <2>2, <2>3 DEF ReloadFits
  <2>5. GenerationsFit'
    BY <2>1 DEF GenerationsFit
  <2>. QED  BY <2>1, <2>4, <2>5, FileStays
<1>. QED  BY <1>1, <1>2, <1>3 DEF Operator

LEMMA StartKeepsProcess ==
    ASSUME ProcessFits, Start
    PROVE  ProcessFits'
<1>. USE DEF ProcessFits
<1>1. UNCHANGED <<scenario, now, file, lock, watcher, hangup>> /\ stage = "down"
  BY DEF Start
<1>2. FileFits' /\ now \in Nat
  BY <1>1, FileStays
<1>3. /\ loaded = <<>> /\ lock.step = "none" /\ watcher.state # "wants" /\ hangup.state # "wants" /\ ~hangup.queued
      /\ IsList(loaded)
  BY <1>1 DEF ReloadFits, Names
<1>4. CASE CanLoad
  <2>. DEFINE x == [cfg |-> build(Text, "generated"), text |-> file.text, version |-> file.version]
  <2>1. loaded' = Append(loaded, x) /\ stage' = "up" /\ routerGen' = 1 /\ serverGen' = 1
    BY <1>4 DEF Start, Take
  <2>. HIDE DEF x
  <2>2. /\ IsList(Append(loaded, x)) /\ Append(loaded, x) # <<>>
        /\ Len(loaded) \in Nat /\ Len(Append(loaded, x)) = Len(loaded) + 1
    BY <1>3, ListGrows
  <2>3. Len(loaded) = 0
    BY <1>3
  <2>4. (\A s : s = Append(loaded, x) => IsList(s))
    BY <2>2
  <2>5. IsList(loaded') /\ loaded' # <<>> /\ Len(loaded') = 1
    BY <2>1, <2>2, <2>3, <2>4
  <2>6. ReloadFits'
    BY <1>1, <1>3, <2>1, <2>5 DEF ReloadFits
  <2>7. GenerationsFit'
    <3>1. lock'.step = "none"
      BY <1>1, <1>3
    <3>. QED  BY <2>1, <2>5, <3>1 DEF GenerationsFit
  <2>. QED  BY <1>2, <2>6, <2>7
<1>5. CASE ~CanLoad
  <2>1. stage' = "exited" /\ UNCHANGED <<loaded, routerGen, serverGen>>
    BY <1>5 DEF Start
  <2>2. IsList(loaded)' = IsList(loaded)
    BY <2>1 DEF IsList
  <2>3. ReloadFits'
    BY <1>1, <1>3, <2>1, <2>2 DEF ReloadFits
  <2>4. GenerationsFit'
    BY <1>1, <2>1 DEF GenerationsFit
  <2>. QED  BY <1>2, <2>3, <2>4
<1>. QED  BY <1>4, <1>5

\* Whoever returns leaves the lock, and wants nothing more.
LEMMA ReturnFits ==
    ASSUME ReloadFits, lock.by # "none", Returns(lock.by), UNCHANGED <<stage, loaded, now>>
    PROVE  ReloadFits' /\ lock'.step = "none"
<1>1. IsList(loaded)' = IsList(loaded)
  BY DEF IsList
<1>2. lock' = [by |-> "none", step |-> "none"]
  BY DEF Returns, Free, None
<1>3. CASE lock.by = "watcher"
  <2>1. watcher' = [watcher EXCEPT !.state = "idle"] /\ hangup' = hangup
    BY <1>3 DEF Returns
  <2>2. watcher' \in [lastMod: 0..now, state: {"idle", "wants"}] /\ watcher'.state = "idle"
    BY <2>1 DEF ReloadFits
  <2>. QED  BY <1>1, <1>2, <2>1, <2>2 DEF ReloadFits, Names, Steps
<1>4. CASE lock.by = "signal"
  <2>1. hangup' = [hangup EXCEPT !.state = "idle"] /\ watcher' = watcher
    BY <1>4 DEF Returns
  <2>2. /\ hangup' \in [queued: BOOLEAN, state: {"idle", "wants"}, version: Nat]
        /\ hangup'.state = "idle" /\ hangup'.queued = hangup.queued
    BY <2>1 DEF ReloadFits
  <2>. QED  BY <1>1, <1>2, <2>1, <2>2 DEF ReloadFits, Names, Steps
<1>. QED  BY <1>3, <1>4 DEF ReloadFits, Names

LEMMA WatcherKeepsReload ==
    ASSUME FileFits, ReloadFits, Watches
    PROVE  ReloadFits'
<1>1. /\ UNCHANGED <<stage, loaded, lock, hangup, now>> /\ stage = "up"
      /\ \/ watcher' = [watcher EXCEPT !.lastMod = file.mtime]
         \/ watcher' = [lastMod |-> file.mtime, state |-> "wants"]
  BY DEF Watches
<1>2. /\ watcher' \in [lastMod: 0..now, state: {"idle", "wants"}]
      /\ watcher'.state = "wants" \/ watcher'.state = watcher.state
  <2>1. file.mtime \in 0..now /\ watcher \in [lastMod: 0..now, state: {"idle", "wants"}]
    BY ScenarioIsTyped DEF ReloadFits, FileFits
  <2>. QED  BY <1>1, <2>1
<1>3. IsList(loaded)' = IsList(loaded)
  BY <1>1 DEF IsList
<1>. QED  BY <1>1, <1>2, <1>3 DEF ReloadFits

LEMMA SignalKeepsReload ==
    ASSUME ReloadFits, TakesSignal
    PROVE  ReloadFits'
<1>1. /\ UNCHANGED <<stage, loaded, lock, watcher, now>> /\ hangup.queued
      /\ hangup' = [hangup EXCEPT !.queued = FALSE, !.state = "wants"]
  BY DEF TakesSignal
<1>2. hangup' \in [queued: BOOLEAN, state: {"idle", "wants"}, version: Nat] /\ hangup'.state = "wants"
  BY <1>1 DEF ReloadFits
<1>3. IsList(loaded)' = IsList(loaded)
  BY <1>1 DEF IsList
<1>. QED  BY <1>1, <1>2, <1>3 DEF ReloadFits

LEMMA LockKeepsReload ==
    ASSUME ReloadFits, NEW by \in {"watcher", "signal"}, Locks(by)
    PROVE  ReloadFits' /\ lock'.step = "read"
<1>1. /\ UNCHANGED <<stage, loaded, watcher, hangup, now>>
      /\ lock' = [by |-> by, step |-> "read"]
      /\ (IF by = "watcher" THEN watcher.state ELSE hangup.state) = "wants"
  BY DEF Locks, Wants
<1>2. IsList(loaded)' = IsList(loaded)
  BY <1>1 DEF IsList
<1>. QED  BY <1>1, <1>2 DEF ReloadFits, Names, Steps

\* A file that can be read is a configuration more; nobody has it yet.
LEMMA ReadKeepsProcess ==
    ASSUME ReloadFits, GenerationsFit, Reads
    PROVE  ReloadFits' /\ GenerationsFit'
<1>1. UNCHANGED <<now, stage, routerGen, serverGen>> /\ lock.step = "read"
  BY DEF Reads
<1>2. lock.by # "none" /\ stage = "up" /\ IsList(loaded)
  BY <1>1 DEF ReloadFits, Names
<1>3. CASE CanLoad
  <2>. DEFINE x == [cfg |-> Frozen(Reload(Text, Previous, "generated again")), text |-> file.text,
                    version |-> file.version]
  <2>1. /\ loaded' = Append(loaded, x) /\ lock' = [lock EXCEPT !.step = "router"]
        /\ UNCHANGED <<watcher, hangup>>
    BY <1>3 DEF Reads, Take
  <2>. HIDE DEF x
  <2>2. /\ IsList(Append(loaded, x)) /\ Append(loaded, x) # <<>>
        /\ Len(loaded) \in Nat /\ Len(Append(loaded, x)) = Len(loaded) + 1
    BY <1>2, ListGrows
  <2>3. \A s : s = Append(loaded, x) => IsList(s)
    BY <2>2
  <2>4. IsList(loaded') /\ loaded' # <<>> /\ Len(loaded') = Len(loaded) + 1
    BY <2>1, <2>2, <2>3
  <2>5. lock' \in [by: Names, step: Steps] /\ lock'.by = lock.by /\ lock'.step = "router"
    BY <2>1 DEF ReloadFits, Steps
  <2>6. ReloadFits'
    BY <1>1, <1>2, <2>1, <2>4, <2>5 DEF ReloadFits
  <2>7. GenerationsFit'
    BY <1>1, <2>2, <2>4, <2>5 DEF GenerationsFit
  <2>. QED  BY <2>6, <2>7
<1>4. CASE ~CanLoad
  <2>1. Returns(lock.by) /\ loaded' = loaded
    BY <1>4 DEF Reads
  <2>2. ReloadFits' /\ lock'.step = "none"
    BY <1>1, <1>2, <2>1, ReturnFits
  <2>. QED  BY <1>1, <2>1, <2>2 DEF GenerationsFit
<1>. QED  BY <1>3, <1>4

\* The router is told first, and the server has it by the time of the return.
LEMMA ApplyKeepsProcess ==
    ASSUME ReloadFits, GenerationsFit, Applies
    PROVE  ReloadFits' /\ GenerationsFit'
<1>1. UNCHANGED <<now, stage, loaded>>
  BY DEF Applies
<1>2. Len(loaded) \in Nat
  BY ListGrows DEF ReloadFits
<1>3. IsList(loaded)' = IsList(loaded)
  BY <1>1 DEF IsList
<1>4. CASE lock.step = "router"
  <2>1. /\ lock' = [lock EXCEPT !.step = "server"] /\ routerGen' = Len(loaded)
        /\ UNCHANGED <<serverGen, watcher, hangup>>
    BY <1>4 DEF Applies, Tells
  <2>2. lock' \in [by: Names, step: Steps] /\ lock'.by = lock.by /\ lock'.step = "server"
    BY <2>1 DEF ReloadFits, Steps
  <2>3. ReloadFits'
    BY <1>1, <1>3, <1>4, <2>1, <2>2 DEF ReloadFits
  <2>4. GenerationsFit'
    BY <1>1, <1>2, <2>1, <2>2 DEF GenerationsFit
  <2>. QED  BY <2>3, <2>4
<1>5. CASE lock.step = "server"
  <2>1. Returns(lock.by) /\ serverGen' = Len(loaded) /\ routerGen' = routerGen /\ lock.by # "none"
    BY <1>5 DEF Applies, Tells, ReloadFits
  <2>2. ReloadFits' /\ lock'.step = "none"
    BY <1>1, <2>1, ReturnFits
  <2>3. GenerationsFit'
    BY <1>1, <1>2, <1>5, <2>1, <2>2 DEF GenerationsFit
  <2>. QED  BY <2>2, <2>3
<1>. QED  BY <1>4, <1>5 DEF Applies

LEMMA ReloaderKeepsProcess ==
    ASSUME ProcessFits, Reloader
    PROVE  ProcessFits'
<1>. USE DEF ProcessFits
<1>1. FileFits'
  <2>1. UNCHANGED <<scenario, now, file>>
    BY DEF Reloader, Watches, TakesSignal, Locks, Reads, Applies
  <2>. QED  BY <2>1, FileStays
<1>2. CASE Watches
  <2>1. UNCHANGED <<loaded, routerGen, serverGen, lock>>
    BY <1>2 DEF Watches
  <2>. QED  BY <1>1, <1>2, <2>1, WatcherKeepsReload DEF GenerationsFit
<1>3. CASE TakesSignal
  <2>1. UNCHANGED <<loaded, routerGen, serverGen, lock>>
    BY <1>3 DEF TakesSignal
  <2>. QED  BY <1>1, <1>3, <2>1, SignalKeepsReload DEF GenerationsFit
<1>4. ASSUME NEW by \in {"watcher", "signal"}, Locks(by) PROVE ProcessFits'
  <2>1. UNCHANGED <<loaded, routerGen, serverGen>>
    BY <1>4 DEF Locks
  <2>. QED  BY <1>1, <1>4, <2>1, LockKeepsReload DEF GenerationsFit
<1>. QED  BY <1>1, <1>2, <1>3, <1>4, ReadKeepsProcess, ApplyKeepsProcess DEF Reloader

-----------------------------------------------------------------------------
(* The handlers, while the process moves *)

\* Whatever the operator and the reloads do, no request is touched, and the
\* server's configuration only gets newer.
LEMMA ProcessMoves ==
    ASSUME ProcessFits, Operator \/ Start \/ Reloader
    PROVE  /\ UNCHANGED <<scenario, request, running, logged, page>>
           /\ serverGen \in Nat /\ serverGen' \in Nat /\ serverGen <= serverGen'
<1>. USE DEF ProcessFits
<1>1. UNCHANGED <<scenario, request, running, logged, page>>
  BY DEF Operator, Time, Writes, HangsUp, Start, Reloader, Watches, TakesSignal, Locks, Reads, Applies,
         requestVars
<1>2. serverGen \in Nat /\ Len(loaded) \in Nat /\ serverGen <= Len(loaded)
  <2>1. Len(loaded) \in Nat
    BY ListGrows DEF ReloadFits
  <2>. QED  BY <2>1 DEF GenerationsFit
<1>3. CASE Start
  <2>1. loaded = <<>> /\ (serverGen' = 1 \/ serverGen' = serverGen)
    BY <1>3 DEF Start, ReloadFits
  <2>2. Len(loaded) = 0
    BY <2>1
  <2>. QED  BY <1>1, <1>2, <2>1, <2>2
<1>4. CASE Applies
  <2>1. serverGen' = Len(loaded) \/ serverGen' = serverGen
    BY <1>4 DEF Applies, Tells
  <2>. QED  BY <1>1, <1>2, <2>1
<1>5. CASE Operator \/ (Reloader /\ ~Applies)
  <2>1. serverGen' = serverGen
    BY <1>5 DEF Operator, Time, Writes, HangsUp, Reloader, Watches, TakesSignal, Locks, Reads, configVars
  <2>. QED  BY <1>1, <1>2, <2>1
<1>. QED  BY <1>3, <1>4, <1>5

LEMMA RequestsStay ==
    ASSUME RequestsFit, UNCHANGED <<scenario, request>>,
           serverGen \in Nat, serverGen' \in Nat, serverGen <= serverGen'
    PROVE  RequestsFit'
<1>. SUFFICES ASSUME NEW r \in DOMAIN scenario.asks
              PROVE  \A x, asked : x = request[r] /\ asked = scenario.asks[r] => Fits(x, asked)'
  BY DEF RequestsFit
<1>1. Fits(request[r], scenario.asks[r])
  BY DEF RequestsFit
<1>2. request[r].authorised \in Nat /\ request[r].read \in Nat
  BY <1>1 DEF Fits, RequestOf
<1>. QED  BY <1>1, <1>2 DEF Fits

LEMMA RegistryStays ==
    ASSUME RegistryFits, UNCHANGED <<request, running, logged>>
    PROVE  RegistryFits'
  BY DEF RegistryFits, IsEntered, IsRegistry, Clients

LEMMA PageStays ==
    ASSUME PageFits, UNCHANGED <<request, running, page>>
    PROVE  PageFits'
  BY DEF PageFits, IsRegistry, Clients

LEMMA ProcessKeepsHandlers ==
    ASSUME ProcessFits, HandlersFit, Operator \/ Start \/ Reloader
    PROVE  HandlersFit'
  BY ProcessMoves, RequestsStay, RegistryStays, PageStays DEF HandlersFit

LEMMA HandlersKeepProcess ==
    ASSUME ProcessFits, UNCHANGED <<scenario, now, file, configVars>>
    PROVE  ProcessFits'
  BY FileStays, ReloadStays, GenerationsStay DEF ProcessFits

-----------------------------------------------------------------------------
(* A handler moves its own request alone *)

Becomes(r, x) == request' = [request EXCEPT ![r] = x]

LEMMA OnlyOneMoves ==
    ASSUME RequestsFit, NEW r \in Clients, NEW x, Becomes(r, x)
    PROVE  /\ Clients' = Clients /\ Clients = DOMAIN scenario.asks /\ request'[r] = x
           /\ \A q \in Clients \ {r} : request'[q] = request[q]
  BY DEF RequestsFit, Becomes, Clients

LEMMA MoveFits ==
    ASSUME RequestsFit, NEW r \in Clients, NEW x, Becomes(r, x),
           UNCHANGED <<scenario, serverGen>>, Fits(x, scenario.asks[r])
    PROVE  RequestsFit'
<1>1. DOMAIN request' = DOMAIN scenario.asks /\ request' = [q \in DOMAIN scenario.asks |-> request'[q]]
  BY DEF RequestsFit, Becomes
<1>2. ASSUME NEW q \in DOMAIN scenario.asks
      PROVE  Fits(request'[q], scenario.asks[q])
  BY OnlyOneMoves DEF RequestsFit, Clients
<1>3. \A q \in DOMAIN scenario.asks : \A y : y = request'[q] => Fits(y, scenario.asks[q])'
  BY <1>2 DEF Fits
<1>. QED  BY <1>1, <1>3 DEF RequestsFit

LEMMA EntryFits ==
    ASSUME RequestsFit, RegistryFits, NEW r \in Clients, NEW x, Becomes(r, x),
           DOMAIN running' \subseteq Clients, running' \in [DOMAIN running' -> EntryOf],
           logged \subseteq logged', logged' \subseteq Clients, IsEntered(r, x)',
           \A q \in Clients \ {r} :
               /\ q \in DOMAIN running' <=> q \in DOMAIN running
               /\ q \in DOMAIN running' => running'[q] = running[q]
    PROVE  RegistryFits'
<1>1. ASSUME NEW q \in Clients, NEW y, y = request'[q]
      PROVE  IsEntered(q, y)'
  <2>1. CASE q = r
    BY <1>1, <2>1, OnlyOneMoves
  <2>2. CASE q # r
    BY <1>1, <2>2, OnlyOneMoves DEF RegistryFits, IsEntered
  <2>. QED  BY <2>1, <2>2
<1>2. \A q \in Clients' : IsEntered(q, request[q])'
  BY <1>1, OnlyOneMoves
<1>. QED  BY <1>2, OnlyOneMoves DEF RegistryFits, IsRegistry

LEMMA PageKept ==
    ASSUME RequestsFit, PageFits, NEW r \in Clients, NEW x, Becomes(r, x), page' = page,
           DOMAIN running' = DOMAIN running, request[r].attempts <= x.attempts,
           x.attempts \in Nat, request[r].attempts \in Nat
    PROVE  PageFits'
<1>1. /\ Clients' = Clients /\ request'[r] = x
      /\ \A q \in Clients \ {r} : request'[q] = request[q]
  BY OnlyOneMoves
<1>2. IsRegistry(page.out)'
  BY <1>1 DEF PageFits, IsRegistry
<1>3. ASSUME page.state = "copying", NEW q \in DOMAIN page.out
      PROVE  page.out[q].attempts <= request'[q].attempts
  <2>1. page.out[q].attempts <= request[q].attempts /\ page.out[q].attempts \in Nat /\ q \in Clients
    BY <1>3 DEF PageFits, IsRegistry, EntryOf
  <2>2. CASE q = r
    <3>. DEFINE a == page.out[q].attempts  b == request[r].attempts  c == x.attempts
    <3>1. a <= b /\ b <= c /\ a \in Nat /\ b \in Nat /\ c \in Nat /\ request'[q].attempts = c
      BY <1>1, <2>1, <2>2
    <3>. HIDE DEF a, b, c
    <3>2. a <= c
      BY <3>1
    <3>. QED  BY <3>1, <3>2 DEF a
  <2>3. CASE q # r
    BY <1>1, <2>1, <2>3
  <2>. QED  BY <2>2, <2>3
<1>. QED  BY <1>2, <1>3 DEF PageFits

\* A step that leaves the registry, the log and the page alone.
LEMMA QuietMoveFits ==
    ASSUME HandlersFit, NEW r \in Clients, NEW x, Becomes(r, x),
           UNCHANGED <<scenario, serverGen, running, logged, page>>,
           Fits(x, scenario.asks[r]), x.attempts = request[r].attempts,
           x.stage \in Shown <=> request[r].stage \in Shown,
           x.stage \in {"logged", "gone"} => x.routed = 0
    PROVE  HandlersFit'
<1>. USE DEF HandlersFit
<1>1. RequestsFit'
  BY MoveFits
<1>2. IsEntered(r, request[r]) /\ DOMAIN running \subseteq Clients /\ running \in [DOMAIN running -> EntryOf]
      /\ logged \subseteq Clients
  BY DEF RegistryFits, IsRegistry
<1>3. IsEntered(r, x)'
  BY <1>2 DEF IsEntered
<1>4. RegistryFits'
  BY <1>2, <1>3, EntryFits
<1>5. x.attempts \in Nat
  <2>1. \A n : n \in 0..scenario.asks[r].tries => n \in Nat
    OBVIOUS
  <2>2. x.attempts \in 0..scenario.asks[r].tries
    BY DEF Fits, RequestOf
  <2>. QED  BY <2>1, <2>2
<1>6. request[r].attempts <= x.attempts
  BY <1>5
<1>7. PageFits'
  BY <1>5, <1>6, PageKept
<1>. QED  BY <1>1, <1>4, <1>7

-----------------------------------------------------------------------------
(* The steps of a handler *)

\* What a handler finds.
LEMMA RequestIsTyped ==
    ASSUME ProcessFits, HandlersFit, NEW r \in Clients
    PROVE  /\ Fits(request[r], scenario.asks[r]) /\ request[r] \in RequestOf(scenario.asks[r])
           /\ request[r].ask = scenario.asks[r] /\ scenario.asks[r].tries \in Nat
           /\ request[r].attempts \in Nat
           /\ request[r].authorised \in Nat /\ request[r].read \in Nat /\ request[r].routed \in Nat
           /\ serverGen \in Nat /\ routerGen \in Nat /\ serverGen <= routerGen
<1>1. Fits(request[r], scenario.asks[r]) /\ r \in DOMAIN scenario.asks
  BY DEF HandlersFit, RequestsFit, Clients
<1>2. request[r] \in RequestOf(scenario.asks[r])
  BY <1>1 DEF Fits
<1>3. scenario.asks[r].tries \in Nat
  BY <1>1, ScenarioIsTyped DEF ProcessFits
<1>4. /\ request[r].ask = scenario.asks[r] /\ request[r].attempts \in 0..scenario.asks[r].tries
      /\ request[r].authorised \in Nat /\ request[r].read \in Nat /\ request[r].routed \in Nat
  BY <1>2 DEF RequestOf
<1>. QED  BY <1>1, <1>2, <1>3, <1>4 DEF ProcessFits, GenerationsFit

\* A request that is refused, or told about models, was never routed.
LEMMA LeavesUnrouted ==
    ASSUME ProcessFits, HandlersFit, NEW r \in Clients, request[r].stage \in {"new", "reading"},
           UNCHANGED <<scenario, serverGen, running, logged, page>>,
           NEW read \in {request[r].read, serverGen}, NEW status \in Statuses,
           read = request[r].read \/ request[r].stage = "reading",
           Becomes(r, [request[r] EXCEPT !.stage = "gone", !.read = read, !.status = status])
    PROVE  HandlersFit'
<1>. DEFINE x == [request[r] EXCEPT !.stage = "gone", !.read = read, !.status = status]
<1>1. /\ x \in RequestOf(scenario.asks[r]) /\ x.stage = "gone" /\ x.read = read
      /\ x.routed = request[r].routed /\ x.attempts = request[r].attempts
      /\ x.authorised = request[r].authorised
  BY RequestIsTyped DEF RequestOf, Stages
<1>2. Becomes(r, x)
  OBVIOUS
<1>. HIDE DEF x
<1>3. x.routed = 0
  BY <1>1, RequestIsTyped DEF Fits
<1>4. Fits(x, scenario.asks[r])
  BY <1>1, <1>3, RequestIsTyped DEF Fits
<1>5. x.stage \in Shown <=> request[r].stage \in Shown
  BY <1>1 DEF Shown
<1>. QED  BY <1>1, <1>2, <1>3, <1>4, <1>5, QuietMoveFits

LEMMA RefusesKeeps ==
    ASSUME ProcessFits, HandlersFit, NEW r \in Clients, request[r].stage \in {"new", "reading"},
           UNCHANGED <<scenario, serverGen, running, logged, page>>, NEW status \in Statuses, Refuses(r, status)
    PROVE  HandlersFit'
<1>1. request[r] \in RequestOf(scenario.asks[r])
  BY RequestIsTyped
<1>2. Becomes(r, [request[r] EXCEPT !.stage = "gone", !.read = request[r].read, !.status = status])
  <2>1. [request[r] EXCEPT !.stage = "gone", !.read = request[r].read, !.status = status]
            = [request[r] EXCEPT !.stage = "gone", !.status = status]
    BY <1>1 DEF RequestOf
  <2>2. request' = [request EXCEPT ![r] = [request[r] EXCEPT !.stage = "gone", !.status = status]]
    BY DEF Refuses, Clients, HandlersFit, RequestsFit
  <2>. QED  BY <2>1, <2>2 DEF Becomes
<1>. QED  BY <1>2, LeavesUnrouted

LEMMA AuthorizesKeeps ==
    ASSUME ProcessFits, HandlersFit, NEW r \in Clients, Authorizes(r)
    PROVE  HandlersFit'
<1>1. request[r].stage = "new" /\ UNCHANGED <<scenario, serverGen, running, logged, page>>
  BY DEF Authorizes, At, Unserved, Others, configVars
<1>2. CASE Refuses(r, 405) \/ Refuses(r, 401)
  BY <1>1, <1>2, RefusesKeeps DEF Statuses
<1>3. CASE ~(Refuses(r, 405) \/ Refuses(r, 401))
  <2>. DEFINE x == [request[r] EXCEPT !.stage = "reading", !.authorised = serverGen]
  <2>1. Becomes(r, x)
    BY <1>3 DEF Authorizes, Becomes, Clients, HandlersFit, RequestsFit
  <2>2. /\ x \in RequestOf(scenario.asks[r]) /\ x.stage = "reading" /\ x.read = request[r].read
        /\ x.routed = request[r].routed /\ x.attempts = request[r].attempts
        /\ x.authorised = serverGen
    BY RequestIsTyped DEF RequestOf, Stages
  <2>. HIDE DEF x
  <2>3. Fits(x, scenario.asks[r])
    BY <1>1, <2>2, RequestIsTyped DEF Fits
  <2>. QED  BY <1>1, <2>1, <2>2, <2>3, QuietMoveFits DEF Shown
<1>. QED  BY <1>2, <1>3

\* The body is read under the server's configuration (chat), or the one the
\* client was let in by (audio); both are as new as that.
LEMMA ReadsKeeps ==
    ASSUME ProcessFits, HandlersFit, NEW r \in Clients, ReadsBody(r) \/ ReadsAudio(r)
    PROVE  HandlersFit'
<1>1. request[r].stage = "reading" /\ UNCHANGED <<scenario, serverGen, running, logged, page>>
  BY DEF ReadsBody, ReadsAudio, At, Unserved, Others, configVars
<1>2. CASE Refuses(r, 400)
  BY <1>1, <1>2, RefusesKeeps DEF Statuses
<1>3. CASE ~Refuses(r, 400)
  <2>1. PICK g \in {serverGen, request[r].authorised} :
            request' = [request EXCEPT ![r].stage = "read", ![r].read = g]
    BY <1>3 DEF ReadsBody, ReadsAudio
  <2>. DEFINE x == [request[r] EXCEPT !.stage = "read", !.read = g]
  <2>2. Becomes(r, x)
    BY <2>1 DEF Becomes, Clients, HandlersFit, RequestsFit
  <2>3. /\ x \in RequestOf(scenario.asks[r]) /\ x.stage = "read" /\ x.read = g
        /\ x.routed = request[r].routed /\ x.attempts = request[r].attempts
        /\ x.authorised = request[r].authorised
    BY RequestIsTyped DEF RequestOf, Stages
  <2>. HIDE DEF x
  <2>4. Fits(x, scenario.asks[r])
    BY <1>1, <2>3, RequestIsTyped DEF Fits
  <2>. QED  BY <1>1, <2>2, <2>3, <2>4, QuietMoveFits DEF Shown
<1>. QED  BY <1>2, <1>3

LEMMA TellsModelsKeeps ==
    ASSUME ProcessFits, HandlersFit, NEW r \in Clients, TellsModels(r)
    PROVE  HandlersFit'
<1>1. request[r].stage = "reading" /\ UNCHANGED <<scenario, serverGen, running, logged, page>>
  BY DEF TellsModels, At, Unserved, Others, configVars
<1>. DEFINE known == request[r].ask.kind = "models" \/ request[r].ask.model \in DOMAIN Served.models
            status == IF known THEN 200 ELSE 404
<1>2. /\ request' = [request EXCEPT ![r].stage = "gone", ![r].read = serverGen, ![r].status = status]
      /\ status \in Statuses
  <2>1. status \in Statuses
    BY DEF Statuses
  <2>. HIDE DEF known
  <2>. QED  BY <2>1, Zenon DEF TellsModels, known
<1>. HIDE DEF status
<1>3. Becomes(r, [request[r] EXCEPT !.stage = "gone", !.read = serverGen, !.status = status])
  BY <1>2 DEF Becomes, Clients, HandlersFit, RequestsFit
<1>4. status \in Statuses /\ serverGen \in {request[r].read, serverGen}
  BY <1>2
<1>. QED  BY <1>1, <1>3, <1>4, LeavesUnrouted, Zenon

\* The router's configuration is never older than the server's.
LEMMA LoadsStateKeeps ==
    ASSUME ProcessFits, HandlersFit, NEW r \in Clients, LoadsState(r)
    PROVE  HandlersFit'
<1>1. /\ request[r].stage = "registered" /\ UNCHANGED <<scenario, serverGen, running, logged, page>>
      /\ request' = [request EXCEPT ![r].stage = "routing", ![r].routed = routerGen]
  BY DEF LoadsState, At, Unserved, Others, configVars
<1>. DEFINE x == [request[r] EXCEPT !.stage = "routing", !.routed = routerGen]
<1>2. Becomes(r, x)
  BY <1>1 DEF Becomes, Clients, HandlersFit, RequestsFit
<1>3. /\ x \in RequestOf(scenario.asks[r]) /\ x.stage = "routing" /\ x.read = request[r].read
      /\ x.routed = routerGen /\ x.attempts = request[r].attempts
      /\ x.authorised = request[r].authorised
  BY RequestIsTyped DEF RequestOf, Stages
<1>. HIDE DEF x
<1>4. Fits(x, scenario.asks[r])
  BY <1>1, <1>3, RequestIsTyped DEF Fits
<1>. QED  BY <1>1, <1>2, <1>3, <1>4, QuietMoveFits DEF Shown

LEMMA RepliesKeeps ==
    ASSUME ProcessFits, HandlersFit, NEW r \in Clients, Replies(r)
    PROVE  HandlersFit'
<1>1. request[r].stage = "routing" /\ UNCHANGED <<scenario, serverGen, running, logged, page>>
  BY DEF Replies, At, Unserved, Others, configVars
<1>2. PICK json \in BOOLEAN :
          request' = [request EXCEPT ![r].stage = "replied", ![r].status = 200, ![r].json = json]
  BY DEF Replies
<1>. DEFINE x == [request[r] EXCEPT !.stage = "replied", !.status = 200, !.json = json]
<1>3. Becomes(r, x)
  BY <1>2 DEF Becomes, Clients, HandlersFit, RequestsFit
<1>4. /\ x \in RequestOf(scenario.asks[r]) /\ x.stage = "replied" /\ x.read = request[r].read
      /\ x.routed = request[r].routed /\ x.attempts = request[r].attempts
      /\ x.authorised = request[r].authorised
  <2>1. request[r] \in RequestOf(scenario.asks[r])
    BY RequestIsTyped
  <2>2. /\ x.stage = "replied" /\ x.read = request[r].read /\ x.routed = request[r].routed
        /\ x.attempts = request[r].attempts /\ x.authorised = request[r].authorised
    BY <2>1 DEF RequestOf
  <2>. DEFINE y == [request[r] EXCEPT !.stage = "replied"]
            z == [y EXCEPT !.status = 200]
  <2>3. "replied" \in Stages /\ 200 \in Statuses
    BY DEF Stages, Statuses
  <2>4. y \in RequestOf(scenario.asks[r])
    BY <2>1, <2>3, Zenon DEF RequestOf
  <2>5. z \in RequestOf(scenario.asks[r])
    <3>. HIDE DEF y
    <3>. QED  BY <2>3, <2>4, Zenon DEF RequestOf
  <2>6. x = [z EXCEPT !.json = json]
    OBVIOUS
  <2>7. x \in RequestOf(scenario.asks[r])
    <3>. HIDE DEF x, z
    <3>. QED  BY <2>5, <2>6, Zenon DEF RequestOf
  <2>. QED  BY <2>2, <2>7
<1>. HIDE DEF x
<1>5. Fits(x, scenario.asks[r])
  BY <1>1, <1>4, RequestIsTyped DEF Fits
<1>. QED  BY <1>1, <1>3, <1>4, <1>5, QuietMoveFits DEF Shown

-----------------------------------------------------------------------------
(* The steps that are entered in the registry or the log *)

\* What the registry and the log have before a step.
LEMMA RegistryIsTyped ==
    ASSUME HandlersFit
    PROVE  /\ DOMAIN running \subseteq Clients /\ running \in [DOMAIN running -> EntryOf]
           /\ logged \subseteq Clients /\ \A r \in Clients : IsEntered(r, request[r])
           /\ Clients = DOMAIN scenario.asks
  BY DEF HandlersFit, RequestsFit, RegistryFits, IsRegistry, Clients

\* A stage further on.
LEMMA GoesOn ==
    ASSUME ProcessFits, HandlersFit, NEW r \in Clients, NEW s \in {"registered", "logged", "gone"},
           UNCHANGED <<scenario, serverGen>>, Goes(r, s),
           s = "registered" => request[r].stage = "read"
    PROVE  \E x : /\ Becomes(r, x) /\ RequestsFit'
                  /\ x.stage = s /\ x.attempts = request[r].attempts /\ x.routed = request[r].routed
                  /\ x.json = request[r].json /\ x.attempts \in Nat
<1>. DEFINE x == [request[r] EXCEPT !.stage = s]
<1>1. Becomes(r, x)
  BY DEF Goes, Becomes
<1>2. request[r] \in RequestOf(scenario.asks[r]) /\ s \in Stages
  BY RequestIsTyped DEF Stages
<1>3. x \in RequestOf(scenario.asks[r])
  BY <1>2, Zenon DEF RequestOf
<1>4. /\ x.stage = s /\ x.read = request[r].read /\ x.authorised = request[r].authorised
      /\ x.routed = request[r].routed /\ x.attempts = request[r].attempts
  BY <1>2 DEF RequestOf
<1>5. x.json = request[r].json
  BY <1>2, Zenon DEF RequestOf
<1>. HIDE DEF x
<1>6. Fits(x, scenario.asks[r])
  BY <1>3, <1>4, RequestIsTyped DEF Fits
<1>7. RequestsFit'
  BY <1>1, <1>6, MoveFits DEF HandlersFit
<1>8. x.attempts \in Nat
  BY <1>4, RequestIsTyped
<1>. QED  BY <1>1, <1>4, <1>5, <1>7, <1>8

LEMMA RegistersKeeps ==
    ASSUME ProcessFits, HandlersFit, NEW r \in Clients, Registers(r)
    PROVE  HandlersFit'
<1>1. /\ request[r].stage = "read" /\ Goes(r, "registered") /\ UNCHANGED <<scenario, serverGen, logged>>
      /\ running' = [q \in DOMAIN running \cup {r} |-> IF q = r THEN NewEntry ELSE running[q]]
      /\ page' = IF page.state = "idle" THEN page ELSE [page EXCEPT !.ever = @ \cup {r}]
  BY DEF Registers, At, configVars
<1>2. PICK x : /\ Becomes(r, x) /\ RequestsFit'
               /\ x.stage = "registered" /\ x.attempts = request[r].attempts /\ x.attempts \in Nat
  BY <1>1, GoesOn
<1>3. x.attempts = 0
  BY <1>1, <1>2, RequestIsTyped DEF Fits
<1>4. NewEntry \in EntryOf /\ NewEntry.attempts = 0
  BY DEF NewEntry, EntryOf, None
<1>5. /\ DOMAIN running' = DOMAIN running \cup {r} /\ running'[r] = NewEntry
      /\ \A q \in DOMAIN running \ {r} : running'[q] = running[q]
  BY <1>1
<1>6. running' \in [DOMAIN running' -> EntryOf] /\ DOMAIN running' \subseteq Clients
  BY <1>1, <1>4, <1>5, RegistryIsTyped
<1>7. RegistryFits'
  <2>1. IsEntered(r, x)'
    BY <1>2, <1>3, <1>4, <1>5 DEF IsEntered, Shown
  <2>2. \A q \in Clients \ {r} : /\ q \in DOMAIN running' <=> q \in DOMAIN running
                                 /\ q \in DOMAIN running' => running'[q] = running[q]
    BY <1>5
  <2>3. logged \subseteq logged' /\ logged' \subseteq Clients
    BY <1>1, RegistryIsTyped
  <2>. QED  BY <1>2, <1>6, <2>1, <2>2, <2>3, EntryFits DEF HandlersFit
<1>8. PageFits'
  <2>1. /\ Clients' = Clients /\ \A q \in Clients : request'[q].attempts = request[q].attempts
    BY <1>2, OnlyOneMoves DEF HandlersFit
  <2>2. PageFits
    BY DEF HandlersFit
  <2>3. page' = [state |-> page.state, ids |-> page.ids, out |-> page.out, always |-> page.always,
                 ever |-> IF page.state = "idle" THEN page.ever ELSE page.ever \cup {r}]
    BY <1>1, <2>2 DEF PageFits
  <2>4. \A q \in DOMAIN page.out : request'[q].attempts = request[q].attempts
    BY <2>1, <2>2 DEF PageFits, IsRegistry
  <2>. QED  BY <1>5, <2>1, <2>2, <2>3, <2>4 DEF PageFits, IsRegistry
<1>. QED  BY <1>2, <1>7, <1>8 DEF HandlersFit

\* An attempt is counted in the request and in its entry at once.
LEMMA AttemptsKeeps ==
    ASSUME ProcessFits, HandlersFit, NEW r \in Clients, Attempts(r)
    PROVE  HandlersFit'
<1>1. /\ request[r].stage = "routing" /\ request[r].attempts < request[r].ask.tries
      /\ request' = [request EXCEPT ![r].attempts = @ + 1]
      /\ running' = [running EXCEPT ![r] = [attempts |-> @.attempts + 1, outcome |-> "attempted"]]
      /\ UNCHANGED <<scenario, serverGen, logged, page>>
  BY DEF Attempts, At, Others, configVars
<1>. DEFINE n == request[r].attempts + 1
<1>2. PICK x : x = [request[r] EXCEPT !.attempts = n] /\ Becomes(r, x)
  BY <1>1 DEF Becomes
<1>3. n \in 0..scenario.asks[r].tries /\ n \in Nat /\ request[r].attempts <= n /\ request[r].attempts \in Nat
  BY <1>1, RequestIsTyped
<1>. HIDE DEF n
<1>4. /\ x \in RequestOf(scenario.asks[r]) /\ x.stage = "routing" /\ x.read = request[r].read
      /\ x.routed = request[r].routed /\ x.attempts = n /\ x.authorised = request[r].authorised
  <2>1. request[r] \in RequestOf(scenario.asks[r])
    BY RequestIsTyped
  <2>2. x \in RequestOf(scenario.asks[r])
    BY <1>2, <1>3, <2>1, Zenon DEF RequestOf
  <2>. QED  BY <1>1, <1>2, <2>1, <2>2 DEF RequestOf
<1>5. Fits(x, scenario.asks[r])
  BY <1>1, <1>4, RequestIsTyped DEF Fits
<1>6. RequestsFit'
  BY <1>1, <1>2, <1>5, MoveFits DEF HandlersFit
<1>7. r \in DOMAIN running /\ running[r].attempts = request[r].attempts
  BY <1>1, RegistryIsTyped DEF IsEntered, Shown
<1>8. /\ DOMAIN running' = DOMAIN running
      /\ running'[r] = [attempts |-> n, outcome |-> "attempted"]
      /\ \A q \in DOMAIN running \ {r} : running'[q] = running[q]
  BY <1>1, <1>7 DEF n
<1>9. RegistryFits'
  <2>1. IsEntered(r, x)'
    <3>1. r \in DOMAIN running' /\ \A m : m = n => running'[r].attempts = m
      BY <1>7, <1>8
    <3>2. running'[r].attempts = x.attempts
      BY <1>4, <3>1
    <3>. QED  BY <1>4, <3>1, <3>2 DEF IsEntered, Shown
  <2>2. running' \in [DOMAIN running' -> EntryOf] /\ DOMAIN running' \subseteq Clients
    <3>1. [attempts |-> n, outcome |-> "attempted"] \in EntryOf
      BY <1>3 DEF EntryOf
    <3>2. running' = [q \in DOMAIN running' |-> running'[q]]
      BY <1>1
    <3>. QED  BY <1>8, <3>1, <3>2, RegistryIsTyped
  <2>3. \A q \in Clients \ {r} : /\ q \in DOMAIN running' <=> q \in DOMAIN running
                                 /\ q \in DOMAIN running' => running'[q] = running[q]
    BY <1>8
  <2>4. logged \subseteq logged' /\ logged' \subseteq Clients
    BY <1>1, RegistryIsTyped
  <2>. QED  BY <1>2, <2>1, <2>2, <2>3, <2>4, EntryFits DEF HandlersFit
<1>10. PageFits'
  BY <1>1, <1>2, <1>3, <1>4, <1>8, PageKept DEF HandlersFit
<1>. QED  BY <1>6, <1>9, <1>10 DEF HandlersFit

LEMMA CommitsKeeps ==
    ASSUME ProcessFits, HandlersFit, NEW r \in Clients, Commits(r)
    PROVE  HandlersFit'
<1>1. /\ request[r].stage = "routing" /\ running' = [running EXCEPT ![r].outcome = "streaming"]
      /\ UNCHANGED <<scenario, serverGen, logged, page, request>>
  BY DEF Commits, At, Others, configVars
<1>2. RequestsFit'
  <2>1. serverGen \in Nat
    BY DEF ProcessFits, GenerationsFit
  <2>. QED  BY <1>1, <2>1, RequestsStay DEF HandlersFit
<1>3. r \in DOMAIN running /\ running[r] \in EntryOf
  BY <1>1, RegistryIsTyped DEF IsEntered, Shown
<1>4. /\ DOMAIN running' = DOMAIN running
      /\ running'[r] = [running[r] EXCEPT !.outcome = "streaming"]
      /\ \A q \in DOMAIN running \ {r} : running'[q] = running[q]
  BY <1>1, <1>3
<1>5. running'[r] \in EntryOf /\ running'[r].attempts = running[r].attempts
  BY <1>3, <1>4 DEF EntryOf
<1>6. RegistryFits'
  <2>1. running' \in [DOMAIN running' -> EntryOf]
    <3>1. running' = [q \in DOMAIN running' |-> running'[q]]
      BY <1>1
    <3>. QED  BY <1>4, <1>5, <3>1, RegistryIsTyped
  <2>2. ASSUME NEW q \in Clients, NEW y, y = request[q] PROVE IsEntered(q, y)'
    <3>1. IsEntered(q, y)
      BY <2>2, RegistryIsTyped
    <3>2. q \in DOMAIN running => running'[q].attempts = running[q].attempts
      BY <1>4, <1>5
    <3>. QED  BY <1>1, <1>4, <3>1, <3>2 DEF IsEntered
  <2>3. \A q \in Clients' : IsEntered(q, request[q])'
    BY <1>1, <2>2 DEF Clients
  <2>. QED  BY <1>1, <1>4, <2>1, <2>3, RegistryIsTyped DEF RegistryFits, IsRegistry, Clients
<1>7. PageFits'
  BY <1>1, <1>4 DEF PageFits, IsRegistry, Clients, HandlersFit
<1>. QED  BY <1>2, <1>6, <1>7 DEF HandlersFit

LEMMA LogsKeeps ==
    ASSUME ProcessFits, HandlersFit, NEW r \in Clients, Logs(r)
    PROVE  HandlersFit'
<1>1. /\ request[r].stage = "replied" /\ Goes(r, "logged") /\ UNCHANGED <<scenario, serverGen, running, page>>
      /\ logged' = IF request[r].json THEN logged \cup {r} ELSE logged
  BY DEF Logs, At, Others, configVars
<1>2. PICK x : /\ Becomes(r, x) /\ RequestsFit'
               /\ x.stage = "logged" /\ x.attempts = request[r].attempts /\ x.attempts \in Nat
               /\ x.json = request[r].json
  BY <1>1, GoesOn
<1>3. /\ logged \subseteq logged' /\ logged' \subseteq Clients
      /\ request[r].json => r \in logged'
  BY <1>1, RegistryIsTyped, Zenon
<1>4. RegistryFits'
  <2>1. r \in DOMAIN running /\ running[r].attempts = x.attempts
    BY <1>1, <1>2, RegistryIsTyped DEF IsEntered, Shown
  <2>2. x.json => r \in logged'
    BY <1>2, <1>3, Zenon
  <2>3. "logged" \in Shown
    BY DEF Shown
  <2>4. IsEntered(r, x)'
    BY <1>1, <1>2, <2>1, <2>2, <2>3, Zenon DEF IsEntered
  <2>5. DOMAIN running' \subseteq Clients /\ running' \in [DOMAIN running' -> EntryOf]
    BY <1>1, RegistryIsTyped
  <2>. QED  BY <1>1, <1>2, <1>3, <2>4, <2>5, EntryFits DEF HandlersFit
<1>5. request[r].attempts <= x.attempts /\ request[r].attempts \in Nat
  BY <1>2
<1>6. PageFits'
  BY <1>1, <1>2, <1>5, PageKept DEF HandlersFit
<1>. QED  BY <1>2, <1>4, <1>6 DEF HandlersFit

LEMMA UnregistersKeeps ==
    ASSUME ProcessFits, HandlersFit, NEW r \in Clients, Unregisters(r)
    PROVE  HandlersFit'
<1>1. /\ request[r].stage = "logged" /\ Goes(r, "gone") /\ UNCHANGED <<scenario, serverGen, logged>>
      /\ running' = [q \in DOMAIN running \ {r} |-> running[q]]
      /\ page' = [page EXCEPT !.always = @ \ {r}]
  BY DEF Unregisters, At, configVars
<1>2. PICK x : /\ Becomes(r, x) /\ RequestsFit'
               /\ x.stage = "gone" /\ x.attempts = request[r].attempts /\ x.attempts \in Nat
               /\ x.routed = request[r].routed /\ x.json = request[r].json
  BY <1>1, GoesOn
<1>3. /\ DOMAIN running' = DOMAIN running \ {r}
      /\ \A q \in DOMAIN running \ {r} : running'[q] = running[q]
  BY <1>1
<1>4. RegistryFits'
  <2>1. request[r].routed # 0 /\ request[r].json => r \in logged
    BY <1>1, RegistryIsTyped, Zenon DEF IsEntered
  <2>2. "gone" \notin Shown
    BY DEF Shown
  <2>3. IsEntered(r, x)'
    <3>1. r \notin DOMAIN running'
      BY <1>3
    <3>. QED  BY <1>1, <1>2, <2>1, <2>2, <3>1, Zenon DEF IsEntered
  <2>4. DOMAIN running' \subseteq Clients /\ running' \in [DOMAIN running' -> EntryOf]
    BY <1>1, <1>3, RegistryIsTyped
  <2>5. \A q \in Clients \ {r} : /\ q \in DOMAIN running' <=> q \in DOMAIN running
                                 /\ q \in DOMAIN running' => running'[q] = running[q]
    BY <1>3
  <2>6. logged \subseteq logged' /\ logged' \subseteq Clients
    BY <1>1, RegistryIsTyped
  <2>. QED  BY <1>2, <2>3, <2>4, <2>5, <2>6, EntryFits DEF HandlersFit
<1>5. PageFits'
  <2>1. /\ Clients' = Clients /\ \A q \in Clients : request'[q].attempts = request[q].attempts
    BY <1>2, OnlyOneMoves DEF HandlersFit
  <2>2. PageFits
    BY DEF HandlersFit
  <2>3. page' = [state |-> page.state, ids |-> page.ids, out |-> page.out, always |-> page.always \ {r},
                 ever |-> page.ever]
    BY <1>1, <2>2 DEF PageFits
  <2>4. \A q \in DOMAIN page.out : request'[q].attempts = request[q].attempts
    BY <2>1, <2>2 DEF PageFits, IsRegistry
  <2>. QED  BY <1>3, <2>1, <2>2, <2>3, <2>4 DEF PageFits, IsRegistry
<1>. QED  BY <1>2, <1>4, <1>5 DEF HandlersFit

LEMMA HandlerKeepsHandlers ==
    ASSUME ProcessFits, HandlersFit, NEW r \in Clients, Handler(r)
    PROVE  HandlersFit'
  BY AuthorizesKeeps, ReadsKeeps, TellsModelsKeeps, RegistersKeeps, LoadsStateKeeps, AttemptsKeeps,
     CommitsKeeps, RepliesKeeps, LogsKeeps, UnregistersKeeps, Zenon DEF Handler

-----------------------------------------------------------------------------
(* The page *)

LEMMA PageKeepsHandlers ==
    ASSUME ProcessFits, HandlersFit, Page
    PROVE  HandlersFit'
<1>1. UNCHANGED <<scenario, serverGen, request, running, logged>>
  BY DEF Page, Lists, Copies, Shows, configVars, requestVars
<1>2. RequestsFit' /\ RegistryFits'
  <2>1. serverGen \in Nat
    BY DEF ProcessFits, GenerationsFit
  <2>. QED  BY <1>1, <2>1, RequestsStay, RegistryStays DEF HandlersFit
<1>3. Clients' = Clients /\ PageFits
  BY <1>1 DEF Clients, HandlersFit
<1>. DEFINE nobody == [r \in {} |-> NewEntry]
<1>4. DOMAIN nobody = {} /\ nobody \in [DOMAIN nobody -> EntryOf] /\ DOMAIN nobody \subseteq Clients
  OBVIOUS
<1>. HIDE DEF nobody
<1>5. CASE Lists
  <2>1. page' = [state |-> "copying", ids |-> DOMAIN running, out |-> nobody,
                 always |-> DOMAIN running, ever |-> DOMAIN running]
    BY <1>5 DEF Lists, NoSnapshot, nobody
  <2>2. PageFits'
    BY <1>1, <1>3, <1>4, <2>1 DEF PageFits, IsRegistry
  <2>. QED  BY <1>2, <2>2 DEF HandlersFit
<1>6. CASE Shows
  <2>1. page' = [state |-> "idle", ids |-> {}, out |-> nobody, always |-> {}, ever |-> {}]
    BY <1>6 DEF Shows, NoSnapshot, nobody
  <2>2. PageFits'
    BY <1>1, <1>3, <1>4, <2>1 DEF PageFits, IsRegistry
  <2>. QED  BY <1>2, <2>2 DEF HandlersFit
\* Who is still there is copied with the attempts it has by now.
<1>7. CASE Copies
  <2>1. PICK r \in page.ids :
            page' = [page EXCEPT !.ids = @ \ {r},
                        !.out = IF r \in DOMAIN running
                                THEN [q \in DOMAIN @ \cup {r} |-> IF q = r THEN running[r] ELSE @[q]] ELSE @]
    BY <1>7, Zenon DEF Copies
  <2>. DEFINE out == IF r \in DOMAIN running
                     THEN [q \in DOMAIN page.out \cup {r} |-> IF q = r THEN running[r] ELSE page.out[q]]
                     ELSE page.out
  <2>2. page' = [state |-> page.state, ids |-> page.ids \ {r}, out |-> out,
                 always |-> page.always, ever |-> page.ever]
    BY <1>3, <2>1 DEF PageFits
  <2>3. /\ DOMAIN out = IF r \in DOMAIN running THEN DOMAIN page.out \cup {r} ELSE DOMAIN page.out
        /\ out \in [DOMAIN out -> EntryOf] /\ DOMAIN out \subseteq Clients
        /\ \A q \in DOMAIN out : \/ out[q] = page.out[q] /\ q \in DOMAIN page.out
                                 \/ q = r /\ r \in DOMAIN running /\ out[q] = running[r]
    <3>1. page.out \in [DOMAIN page.out -> EntryOf] /\ DOMAIN page.out \subseteq Clients
      BY <1>3 DEF PageFits, IsRegistry
    <3>2. CASE r \in DOMAIN running
      <4>1. out = [q \in DOMAIN page.out \cup {r} |-> IF q = r THEN running[r] ELSE page.out[q]]
        BY <3>2
      <4>2. running[r] \in EntryOf /\ r \in Clients
        BY <3>2, RegistryIsTyped
      <4>. HIDE DEF out
      <4>. QED  BY <3>1, <3>2, <4>1, <4>2
    <3>3. CASE r \notin DOMAIN running
      <4>1. out = page.out
        BY <3>3
      <4>. HIDE DEF out
      <4>. QED  BY <3>1, <3>3, <4>1
    <3>. QED  BY <3>2, <3>3
  <2>. HIDE DEF out
  <2>4. ASSUME page.state = "copying", NEW q \in DOMAIN out
        PROVE  out[q].attempts <= request[q].attempts
    <3>1. CASE out[q] = page.out[q] /\ q \in DOMAIN page.out
      BY <1>3, <2>4, <3>1 DEF PageFits
    <3>2. CASE q = r /\ r \in DOMAIN running /\ out[q] = running[r]
      <4>1. running[r].attempts = request[r].attempts /\ r \in Clients
        BY <3>2, RegistryIsTyped DEF IsEntered
      <4>2. request[r].attempts \in Nat
        BY <4>1, RequestIsTyped
      <4>. QED  BY <3>2, <4>1, <4>2
    <3>. QED  BY <2>3, <3>1, <3>2
  <2>5. page.state = "copying"
    BY <1>7 DEF Copies
  <2>6. /\ page.always \subseteq DOMAIN out \cup (page.ids \ {r})
        /\ DOMAIN out \subseteq page.ever
    BY <1>3, <2>3, <2>5 DEF PageFits
  <2>7. PageFits'
    BY <1>1, <1>3, <2>2, <2>3, <2>4, <2>5, <2>6 DEF PageFits, IsRegistry
  <2>. QED  BY <1>2, <2>7 DEF HandlersFit
<1>. QED  BY <1>5, <1>6, <1>7 DEF Page

-----------------------------------------------------------------------------
(* The theorems *)

LEMMA ServingStartsFit ==
    ASSUME Init
    PROVE  Inv
<1>1. /\ scenario \in Scenarios /\ now = 1 /\ file = [text |-> scenario.file, mtime |-> 1, version |-> 1]
      /\ stage = "down" /\ loaded = <<>> /\ routerGen = 0 /\ serverGen = 0
      /\ lock = [by |-> "none", step |-> "none"] /\ watcher = [lastMod |-> 0, state |-> "idle"]
      /\ hangup = [queued |-> FALSE, state |-> "idle", version |-> 0]
  BY DEF Init, Free, None
<1>2. /\ scenario.file \in DOMAIN Texts /\ scenario.writes \in Nat /\ scenario.until \in Nat \ {0}
      /\ \A r \in DOMAIN scenario.asks : scenario.asks[r].tries \in Nat
  BY <1>1, ServingAssumption DEF ServingAssumption
<1>3. FileFits
  BY <1>1, <1>2 DEF FileFits
<1>4. ReloadFits
  <2>1. IsList(<<>>)
    BY DEF IsList
  <2>. QED  BY <1>1, <2>1 DEF ReloadFits, Names, Steps
<1>5. GenerationsFit
  <2>1. Len(loaded) = 0 /\ lock.step = "none"
    BY <1>1
  <2>. QED  BY <1>1, <2>1 DEF GenerationsFit
<1>6. /\ request = [r \in DOMAIN scenario.asks |->
                      [ask |-> scenario.asks[r], stage |-> "new", authorised |-> 0, read |-> 0, routed |-> 0,
                       attempts |-> 0, status |-> 0, json |-> TRUE]]
      /\ running = [r \in {} |-> NewEntry] /\ logged = {} /\ page = NoSnapshot
  BY DEF Init
<1>7. RequestsFit
  <2>1. ASSUME NEW asked, asked.tries \in Nat
        PROVE  Fits([ask |-> asked, stage |-> "new", authorised |-> 0, read |-> 0, routed |-> 0,
                     attempts |-> 0, status |-> 0, json |-> TRUE], asked)
    BY <1>1, <2>1 DEF Fits, RequestOf, Stages, Statuses
  <2>2. \A r \in DOMAIN scenario.asks : Fits(request[r], scenario.asks[r])
    BY <1>2, <1>6, <2>1
  <2>. QED  BY <1>6, <2>2 DEF RequestsFit
<1>8. DOMAIN running = {} /\ running \in [DOMAIN running -> EntryOf] /\ running = page.out
  BY <1>6 DEF NoSnapshot
<1>9. \A r \in Clients : request[r].stage = "new"
  BY <1>6 DEF Clients
<1>10. RegistryFits
  BY <1>6, <1>8, <1>9 DEF RegistryFits, IsRegistry, IsEntered, Shown
<1>11. PageFits
  <2>1. page = [state |-> "idle", ids |-> {}, out |-> running, always |-> {}, ever |-> {}]
    BY <1>6 DEF NoSnapshot
  <2>. HIDE DEF NoSnapshot
  <2>. QED  BY <1>8, <2>1 DEF PageFits, IsRegistry
<1>. QED  BY <1>3, <1>4, <1>5, <1>7, <1>10, <1>11 DEF Inv, ProcessFits, HandlersFit

LEMMA ServingStaysFit ==
    ASSUME Inv, [Next]_vars
    PROVE  Inv'
<1>. USE DEF Inv
<1>1. CASE Operator \/ Start \/ Reloader
  BY <1>1, OperatorKeepsProcess, StartKeepsProcess, ReloaderKeepsProcess, ProcessKeepsHandlers
<1>2. ASSUME NEW r \in DOMAIN request, Handler(r)
      PROVE  Inv'
  <2>1. UNCHANGED <<scenario, now, file, configVars>>
    BY <1>2 DEF Handler, Authorizes, ReadsBody, ReadsAudio, TellsModels, Registers, LoadsState, Attempts,
                Commits, Replies, Logs, Unregisters, Others
  <2>. QED  BY <1>2, <2>1, HandlersKeepProcess, HandlerKeepsHandlers DEF Clients
<1>3. CASE Page
  <2>1. UNCHANGED <<scenario, now, file, configVars>>
    BY <1>3 DEF Page, Lists, Copies, Shows
  <2>. QED  BY <1>3, <2>1, HandlersKeepProcess, PageKeepsHandlers
<1>4. CASE UNCHANGED vars
  <2>1. UNCHANGED <<scenario, now, file, configVars>> /\ UNCHANGED <<request, running, logged, page, serverGen>>
    BY <1>4 DEF vars, configVars
  <2>2. serverGen \in Nat
    BY DEF ProcessFits, GenerationsFit
  <2>. QED  BY <2>1, <2>2, HandlersKeepProcess, RequestsStay, RegistryStays, PageStays DEF HandlersFit
<1>. QED  BY <1>1, <1>2, <1>3, <1>4 DEF Next

\* The inductive invariant of the process, for any files, edits and requests.
THEOREM ServingFits == Spec => []Inv
<1>1. Init => Inv
  BY ServingStartsFit
<1>2. Inv /\ [Next]_vars => Inv'
  BY ServingStaysFit
<1>. QED  BY <1>1, <1>2, PTL DEF Spec

\* Every variable keeps its type, and only who is at a reload holds its lock
\* (tryReload, startWatch, startSignalReload).
THEOREM ServingIsTyped == Spec => []ServingTypeOK
<1>1. ASSUME Inv PROVE ServingTypeOK
  <2>1. FileFits /\ ReloadFits /\ GenerationsFit /\ RequestsFit /\ RegistryFits
    BY <1>1 DEF Inv, ProcessFits, HandlersFit
  <2>2. /\ now \in 1..scenario.until /\ file.mtime \in 1..now /\ file.version \in 1..(scenario.writes + 1)
    BY <2>1 DEF FileFits
  <2>3. Len(loaded) \in Nat
    BY <2>1, ListGrows DEF ReloadFits
  <2>4. routerGen \in 0..Len(loaded) /\ serverGen \in 0..Len(loaded)
    BY <2>1, <2>3 DEF GenerationsFit
  <2>5. ASSUME NEW r \in DOMAIN request
        PROVE  request[r].attempts \in 0..request[r].ask.tries /\ request[r].status \in {0, 200, 400, 401, 404, 405}
    <3>1. request[r] \in RequestOf(scenario.asks[r])
      BY <2>1 DEF RequestsFit, Fits
    <3>. QED  BY <3>1 DEF RequestOf, Statuses
  <2>6. DOMAIN running \subseteq DOMAIN request /\ logged \subseteq DOMAIN request
    BY <2>1 DEF RegistryFits, IsRegistry, Clients
  <2>7. /\ stage \in {"down", "up", "exited"}
        /\ stage = "up" <=> loaded # <<>>
        /\ lock.by \in {"none", "watcher", "signal"} /\ lock.step \in {"none", "read", "router", "server"}
        /\ watcher.lastMod \in 0..now /\ watcher.state \in {"idle", "wants"}
        /\ hangup.queued \in BOOLEAN /\ hangup.state \in {"idle", "wants"}
        /\ lock.by = "watcher" => watcher.state = "wants"
        /\ lock.by = "signal" => hangup.state = "wants"
    BY <2>1 DEF ReloadFits, Names, Steps
  <2>. QED  BY <2>2, <2>4, <2>5, <2>6, <2>7 DEF ServingTypeOK
<1>. QED  BY <1>1, ServingFits, PTL

\* However reloads and requests interleave, a request is routed under no older a
\* configuration than the ones it was let in by and prepared under: the router is
\* told of a new one before the server (tryReload, handle, Execute).
THEOREM NobodyIsRoutedUnderOlder == Spec => []NeverRoutedUnderOlder
<1>1. Inv => NeverRoutedUnderOlder
  BY DEF Inv, HandlersFit, RequestsFit, Fits, NeverRoutedUnderOlder
<1>. QED  BY <1>1, ServingFits, PTL

\* Whatever runs at once, the registry, the log and the page tell of every
\* request what they should (Register, Unregister, Snapshot, handle).
THEOREM EveryRequestIsAccountedFor == Spec => []RequestsAreAccountedFor
<1>1. ASSUME Inv PROVE RequestsAreAccountedFor
  <2>1. RegistryFits /\ PageFits
    BY <1>1 DEF Inv, HandlersFit
  <2>2. ASSUME NEW r \in DOMAIN request
        PROVE  /\ request[r].stage \in {"registered", "routing", "replied"} => r \in DOMAIN running
               /\ r \in DOMAIN running => running[r].attempts = request[r].attempts
               /\ request[r].stage \in {"logged", "gone"} /\ request[r].routed # 0 /\ request[r].json => r \in logged
    <3>1. IsEntered(r, request[r])
      BY <2>1 DEF RegistryFits, Clients
    <3>. QED  BY <3>1, Zenon DEF IsEntered, Shown
  <2>3. page.state = "copying" /\ page.ids = {} =>
          /\ page.always \subseteq DOMAIN page.out /\ DOMAIN page.out \subseteq page.ever
          /\ \A r \in DOMAIN page.out : page.out[r].attempts <= request[r].attempts
    BY <2>1 DEF PageFits
  <2>. QED  BY <2>2, <2>3, Zenon DEF RequestsAreAccountedFor
<1>. QED  BY <1>1, ServingFits, PTL

-----------------------------------------------------------------------------
(* The client keys, edit by edit *)

\* What the server's part of a configuration is made of.
LEMMA ServerIsMade ==
    ASSUME NEW raw, NEW fresh
    PROVE  /\ Server(raw, fresh).keys = IF raw.keys = <<>> THEN <<fresh>> ELSE raw.keys
           /\ {"listen", "logDir", "retention", "keys"} \subseteq DOMAIN Server(raw, fresh)
<1>1. Server(raw, fresh).keys = IF raw.keys = <<>> THEN <<fresh>> ELSE raw.keys
  BY Zenon DEF Server
<1>2. DOMAIN Server(raw, fresh) = {"listen", "logDir", "retention", "keys", "generated", "retries", "blackout", "reasons",
    "interval", "audioTimeout", "coerce", "cors", "origins", "streaming", "ffmpeg"}
  BY Zenon DEF Server
<1>. QED  BY <1>1, <1>2

\* And the whole of it.
LEMMA BuildIsMade ==
    ASSUME NEW raw, NEW fresh
    PROVE  build(raw, fresh).server = Server(raw.server, fresh) /\ "server" \in DOMAIN build(raw, fresh)
<1>1. build(raw, fresh).server = Server(raw.server, fresh)
  BY Zenon DEF build
<1>2. DOMAIN build(raw, fresh) = {"server", "providers", "models", "fallbacks", "fallbackSelection"}
  BY Zenon DEF build
<1>. QED  BY <1>1, <1>2

\* A file that is TOML has a server section with a list of keys.
LEMMA TextsHaveServers ==
    ASSUME NEW i \in DOMAIN Texts, Texts[i] # NotTOML
    PROVE  "server" \in DOMAIN Texts[i] /\ "keys" \in DOMAIN Texts[i].server
<1>1. DOMAIN Texts[i] = DOMAIN rawConfig /\ DOMAIN Texts[i].server = DOMAIN rawServer
  BY ServingAssumption, Zenon DEF ServingAssumption
<1>2. DOMAIN rawConfig = {"server", "provider", "model", "routing"}
  BY Zenon DEF rawConfig
<1>3. DOMAIN rawServer = {"listen", "logDir", "retention", "keys", "retries", "blackout", "reasons", "interval",
     "audioTimeout", "coerce", "cors", "origins", "streaming", "ffmpeg"}
  BY Zenon DEF rawServer
<1>. QED  BY <1>1, <1>2, <1>3

\* A reload makes no key up, as long as there were keys before.
LEMMA ReloadKeepsKeys ==
    ASSUME NEW raw, NEW prev, NEW fresh, "server" \in DOMAIN raw, "keys" \in DOMAIN raw.server,
           prev.server.keys # <<>>
    PROVE  /\ Reload(raw, prev, fresh).server.keys = IF raw.server.keys = <<>> THEN prev.server.keys
                                                     ELSE raw.server.keys
           /\ "server" \in DOMAIN Reload(raw, prev, fresh)
           /\ {"listen", "logDir", "retention", "keys"} \subseteq DOMAIN Reload(raw, prev, fresh).server
<1>. DEFINE named == IF raw.server.keys = <<>> THEN [raw EXCEPT !.server.keys = prev.server.keys] ELSE raw
<1>1. named.server.keys = IF raw.server.keys = <<>> THEN prev.server.keys ELSE raw.server.keys
  OBVIOUS
<1>2. Reload(raw, prev, fresh) = build(named, fresh)
  BY DEF Reload
<1>. HIDE DEF named
<1>3. Reload(raw, prev, fresh).server.keys = IF named.server.keys = <<>> THEN <<fresh>> ELSE named.server.keys
  BY <1>2, BuildIsMade, ServerIsMade
<1>4. "server" \in DOMAIN Reload(raw, prev, fresh)
  BY <1>2, BuildIsMade
<1>5. {"listen", "logDir", "retention", "keys"} \subseteq DOMAIN Reload(raw, prev, fresh).server
  <2>1. Reload(raw, prev, fresh).server = Server(named.server, fresh)
    BY <1>2, BuildIsMade
  <2>2. {"listen", "logDir", "retention", "keys"} \subseteq DOMAIN Server(named.server, fresh)
    BY ServerIsMade
  <2>. QED  BY <2>1, <2>2, Zenon
<1>. QED  BY <1>1, <1>3, <1>4, <1>5

\* What only a restart may change is frozen, and nothing else.
LEMMA FrozenIsFrozen ==
    ASSUME NEW cfg, "server" \in DOMAIN cfg, {"listen", "logDir", "retention", "keys"} \subseteq DOMAIN cfg.server
    PROVE  /\ Frozen(cfg).server.keys = cfg.server.keys
           /\ \A f \in {"listen", "logDir", "retention"} : Frozen(cfg).server[f] = Previous.server[f]
  BY DEF Frozen

\* The files among the first n taken over that name keys.
Named(n) == {i \in 1..n : Texts[loaded[i].text].server.keys # <<>>}

\* KeysOutliveEdits for the n-th configuration, its latest file by a witness.
KeysFit(n) ==
    /\ \/ Named(n) = {} /\ loaded[n].cfg.server.keys = <<"generated">>
       \/ \E i \in Named(n) : /\ \A j \in Named(n) : j <= i
                              /\ loaded[n].cfg.server.keys = Texts[loaded[i].text].server.keys
    /\ \A f \in {"listen", "logDir", "retention"} : loaded[n].cfg.server[f] = loaded[1].cfg.server[f]
KeysKept == \A n \in 1..Len(loaded) : KeysFit(n)

\* What a configuration more has to say for the keys to be kept.
Continues(e) ==
    /\ e.cfg.server.keys =
           IF Texts[e.text].server.keys # <<>> THEN Texts[e.text].server.keys
           ELSE IF loaded = <<>> THEN <<"generated">> ELSE loaded[Len(loaded)].cfg.server.keys
    /\ loaded # <<>> =>
           \A f \in {"listen", "logDir", "retention"} : e.cfg.server[f] = loaded[Len(loaded)].cfg.server[f]

LEMMA LastIsThere ==
    ASSUME IsList(loaded), loaded # <<>>
    PROVE  Len(loaded) \in Nat \ {0} /\ Len(loaded) \in 1..Len(loaded) /\ 1 \in 1..Len(loaded)
<1>1. loaded \in Seq({loaded[i] : i \in DOMAIN loaded})
  BY DEF IsList
<1>. QED  BY <1>1

LEMMA KeysAreThere ==
    ASSUME IsList(loaded), KeysKept, loaded # <<>>
    PROVE  loaded[Len(loaded)].cfg.server.keys # <<>>
<1>1. KeysFit(Len(loaded))
  BY LastIsThere DEF KeysKept
<1>. QED  BY <1>1 DEF KeysFit, Named

LEMMA KeysGoOn ==
    ASSUME IsList(loaded), KeysKept, NEW e, loaded' = Append(loaded, e), Continues(e)
    PROVE  KeysKept'
<1>1. PICK n \in Nat : n = Len(loaded)
  BY ListGrows
<1>2. Len(loaded') = n + 1 /\ loaded'[n + 1] = e /\ \A i \in 1..n : loaded'[i] = loaded[i]
  BY <1>1, ListGrows
<1>3. loaded = <<>> \/ (n \in 1..n /\ 1 \in 1..n)
  BY <1>1, LastIsThere
<1>4. 1..(n + 1) = 1..n \cup {n + 1} /\ n + 1 \notin 1..n
  BY <1>1
<1>5. n = 0 <=> loaded = <<>>
  BY <1>1, <1>3
\* The configurations there were are what they were.
<1>6. ASSUME NEW m \in 1..n
      PROVE  KeysFit(m)'
  <2>1. KeysFit(m) /\ loaded'[m] = loaded[m] /\ loaded'[1] = loaded[1] /\ 1..m \subseteq 1..n
    <3>1. 1 \in 1..n /\ 1..m \subseteq 1..n
      BY <1>1
    <3>. QED  BY <1>1, <1>2, <3>1 DEF KeysKept
  <2>2. \A i \in 1..m : loaded'[i] = loaded[i]
    BY <1>2, <2>1
  <2>3. Named(m)' = Named(m) /\ \A i \in Named(m) : loaded'[i] = loaded[i]
    BY <2>2 DEF Named
  <2>. QED  BY <2>1, <2>3 DEF KeysFit
<1>7. KeysFit(n + 1)'
  <2>1. Named(n + 1)' = Named(n) \cup (IF Texts[e.text].server.keys # <<>> THEN {n + 1} ELSE {})
    BY <1>2, <1>4 DEF Named
  <2>2. \A i \in Named(n) : i \in 1..n /\ loaded'[i] = loaded[i]
    BY <1>2 DEF Named
  <2>3. loaded # <<>> => KeysFit(n) /\ n = Len(loaded)
    BY <1>1, <1>3 DEF KeysKept
  <2>4. \A f \in {"listen", "logDir", "retention"} : e.cfg.server[f] = loaded'[1].cfg.server[f]
    <3>1. CASE loaded = <<>>
      BY <1>2, <1>5, <3>1
    <3>2. CASE loaded # <<>>
      BY <1>2, <1>3, <2>3, <3>2 DEF Continues, KeysFit
    <3>. QED  BY <3>1, <3>2
  <2>5. CASE Texts[e.text].server.keys # <<>>
    <3>1. n + 1 \in Named(n + 1)' /\ \A j \in Named(n + 1)' : j <= n + 1
      <4>1. \A j \in 1..n : j <= n + 1
        BY <1>1
      <4>2. n + 1 <= n + 1
        BY <1>1
      <4>. QED  BY <2>1, <2>2, <2>5, <4>1, <4>2
    <3>2. e.cfg.server.keys = Texts[loaded'[n + 1].text].server.keys
      BY <1>2, <2>5 DEF Continues
    <3>. QED  BY <1>2, <2>4, <3>1, <3>2 DEF KeysFit
  <2>6. CASE Texts[e.text].server.keys = <<>> /\ loaded = <<>>
    <3>1. Named(n + 1)' = {}
      BY <1>5, <2>1, <2>2, <2>6
    <3>. QED  BY <1>2, <2>4, <2>6, <3>1 DEF KeysFit, Continues
  <2>7. CASE Texts[e.text].server.keys = <<>> /\ loaded # <<>>
    <3>1. Named(n + 1)' = Named(n)
      BY <2>1, <2>7
    <3>2. e.cfg.server.keys = loaded[n].cfg.server.keys
      BY <2>3, <2>7 DEF Continues
    <3>. QED  BY <1>2, <2>2, <2>3, <2>4, <2>7, <3>1, <3>2 DEF KeysFit
  <2>. QED  BY <2>5, <2>6, <2>7
<1>8. \A m \in 1..(n + 1) : KeysFit(m)'
  BY <1>4, <1>6, <1>7
<1>. QED  BY <1>2, <1>8 DEF KeysKept

\* The first file, and every one read again.
LEMMA StepKeepsKeys ==
    ASSUME Inv, KeysKept, [Next]_vars
    PROVE  KeysKept'
<1>1. CASE loaded' = loaded
  BY <1>1 DEF KeysKept, KeysFit, Named
<1>2. CASE loaded' # loaded
  <2>1. IsList(loaded) /\ file.text \in DOMAIN Texts /\ (stage = "down" => loaded = <<>>)
        /\ (lock.step = "read" => loaded # <<>>)
    BY DEF Inv, ProcessFits, ReloadFits, FileFits, Names
  <2>2. CanLoad /\ (Start \/ Reads)
    <3>1. ASSUME NEW r \in DOMAIN request, Handler(r) PROVE loaded' = loaded
      BY <3>1 DEF Handler, Authorizes, ReadsBody, ReadsAudio, TellsModels, Registers, LoadsState, Attempts,
                  Commits, Replies, Logs, Unregisters, Others, configVars
    <3>2. Page \/ Operator \/ UNCHANGED vars => loaded' = loaded
      BY DEF Page, Lists, Copies, Shows, Operator, Time, Writes, HangsUp, configVars, vars
    <3>3. Watches \/ TakesSignal \/ Applies \/ (\E by \in {"watcher", "signal"} : Locks(by)) => loaded' = loaded
      BY DEF Watches, TakesSignal, Applies, Locks
    <3>4. Start => CanLoad \/ loaded' = loaded
      BY Zenon DEF Start
    <3>5. Reads => CanLoad \/ loaded' = loaded
      BY Zenon DEF Reads
    <3>. QED  BY <1>2, <3>1, <3>2, <3>3, <3>4, <3>5, Zenon DEF Next, Reloader
  <2>3. Text \in {Texts[i] : i \in DOMAIN Texts} /\ "server" \in DOMAIN Text /\ "keys" \in DOMAIN Text.server
    BY <2>1, <2>2, TextsHaveServers DEF CanLoad, Loadable, Text
  <2>4. CASE Start
    <3>1. PICK e : /\ loaded' = Append(loaded, e) /\ e.text = file.text
                   /\ e.cfg = build(Text, "generated")
      BY <2>2, <2>4 DEF Start, Take
    <3>2. e.cfg.server.keys = IF Text.server.keys = <<>> THEN <<"generated">> ELSE Text.server.keys
      BY <3>1, BuildIsMade, ServerIsMade
    <3>3. loaded = <<>>
      BY <2>1, <2>4 DEF Start
    <3>4. Continues(e)
      BY <3>1, <3>2, <3>3 DEF Continues, Text
    <3>. QED  BY <2>1, <3>1, <3>4, KeysGoOn
  <2>5. CASE Reads
    <3>1. PICK fresh, e : /\ loaded' = Append(loaded, e) /\ e.text = file.text
                          /\ e.cfg = Frozen(Reload(Text, Previous, fresh))
      <4>. DEFINE x(k) == [cfg |-> Frozen(Reload(Text, Previous, k)), text |-> file.text, version |-> file.version]
      <4>1. \E k : loaded' = Append(loaded, x(k))
        BY <2>2, <2>5, Zenon DEF Reads, Take
      <4>2. \A k : x(k).text = file.text /\ x(k).cfg = Frozen(Reload(Text, Previous, k))
        OBVIOUS
      <4>. HIDE DEF x
      <4>. QED  BY <4>1, <4>2, Zenon
    <3>2. loaded # <<>>
      BY <2>1, <2>5 DEF Reads
    <3>3. Previous.server.keys # <<>>
      BY <2>1, <3>2, KeysAreThere DEF Previous
    <3>. DEFINE cfg == Reload(Text, Previous, fresh)
    <3>4. cfg.server.keys = IF Text.server.keys = <<>> THEN Previous.server.keys ELSE Text.server.keys
      BY <2>3, <3>3, ReloadKeepsKeys
    <3>5. "server" \in DOMAIN cfg /\ {"listen", "logDir", "retention", "keys"} \subseteq DOMAIN cfg.server
      BY <2>3, <3>3, ReloadKeepsKeys
    <3>. HIDE DEF cfg
    <3>6. /\ e.cfg.server.keys = cfg.server.keys
          /\ \A f \in {"listen", "logDir", "retention"} : e.cfg.server[f] = Previous.server[f]
      BY <3>1, <3>5, FrozenIsFrozen DEF cfg
    <3>7. Continues(e)
      BY <3>1, <3>2, <3>4, <3>6 DEF Continues, Text, Previous
    <3>. QED  BY <2>1, <3>1, <3>7, KeysGoOn
  <2>. QED  BY <2>2, <2>4, <2>5
<1>. QED  BY <1>1, <1>2

\* Over any sequence of edits, good or bad, and any interleaving of the two ways a
\* file is read again, who is let in is who the last file to name keys lets in, and
\* nothing is changed that only a restart may change (config.Reload, tryReload).
THEOREM KeysAreKept == Spec => []KeysOutliveEdits
<1>1. Init => KeysKept
  <2>1. loaded = <<>> => KeysKept
    BY DEF KeysKept
  <2>. QED  BY <2>1 DEF Init
<1>2. KeysKept /\ Inv /\ [Next]_vars => KeysKept'
  BY StepKeepsKeys
<1>3. KeysKept => KeysOutliveEdits
  <2>. SUFFICES ASSUME KeysKept, NEW n \in 1..Len(loaded)
                PROVE  LET latest == CHOOSE i \in Named(n) : \A j \in Named(n) : j <= i
                       IN  /\ loaded[n].cfg.server.keys = IF Named(n) = {} THEN <<"generated">>
                                                          ELSE Texts[loaded[latest].text].server.keys
                           /\ \A f \in {"listen", "logDir", "retention"} :
                                  loaded[n].cfg.server[f] = loaded[1].cfg.server[f]
    BY Zenon DEF KeysOutliveEdits, Named
  <2>1. KeysFit(n)
    BY DEF KeysKept
  <2>2. ASSUME NEW i \in Named(n), \A j \in Named(n) : j <= i
        PROVE  (CHOOSE k \in Named(n) : \A j \in Named(n) : j <= k) = i
    <3>. DEFINE m == CHOOSE k \in Named(n) : \A j \in Named(n) : j <= k
    <3>1. m \in Named(n) /\ \A j \in Named(n) : j <= m
      BY <2>2
    <3>. HIDE DEF m
    <3>2. m <= i /\ i <= m /\ m \in Int /\ i \in Int
      BY <2>2, <3>1 DEF Named
    <3>3. m = i
      BY <3>2
    <3>. QED  BY <3>3 DEF m
  <2>. QED  BY <2>1, <2>2, Zenon DEF KeysFit
<1>. QED  BY <1>1, <1>2, <1>3, ServingFits, PTL DEF Spec
=============================================================================
