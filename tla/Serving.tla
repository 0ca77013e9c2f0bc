------------------------------- MODULE Serving ------------------------------
(***************************************************************************)
(* The running process around the router: the operator's file and the two  *)
(* ways it is read again (reload.go: a watcher that polls the file's       *)
(* modification time, and SIGHUP), the handlers (server/server.go,         *)
(* server/audio.go), the registry of running requests (inflight) and the   *)
(* page that shows it (webui).                                             *)
(*                                                                         *)
(* Router.Execute is one attempt after the other under the configuration   *)
(* it loaded at the start; module Router has its detail.                   *)
(***************************************************************************)
EXTENDS Config

CONSTANTS
    Texts,          \* what a file may say, by number
    Scenarios       \* the first file; what the operator may write in its place, how
                    \* often, and until when; what each client asks, with how many
                    \* attempts; whether somebody looks at the page

\* A text either is no TOML or has every table a file may have.
ASSUME ServingAssumption ==
    /\ \A i \in DOMAIN Texts : Texts[i] = NotTOML \/
           (DOMAIN Texts[i] = DOMAIN rawConfig /\ DOMAIN Texts[i].server = DOMAIN rawServer)
    /\ \A s \in Scenarios :
           /\ s.file \in DOMAIN Texts /\ s.edits \subseteq DOMAIN Texts
           /\ s.writes \in Nat /\ s.until \in Nat \ {0} /\ s.visited \in BOOLEAN
           /\ \A r \in DOMAIN s.asks : s.asks[r].tries \in Nat

VARIABLES
    scenario,
    now,            \* the clock that stamps writes
    file,           \* [text, mtime, version]
    stage,          \* down, up, or exited: the file could not be loaded
    built,          \* what Load and tryReload made of the file: [text, ok, cfg]
    loaded,         \* the configurations taken over: [cfg, text, version]
    routerGen, serverGen,   \* which of them the router and the server have
    lock,           \* who is in tryReload, and how far: [by, step]
    watcher,        \* [lastMod, state]
    hangup,         \* SIGHUP: [queued, state, version]
    request,        \* request[r]
    running,        \* the registry: [r -> what Entry tells]
    logged,         \* requests in the log
    page            \* the page's snapshot of the registry: [state, ids, out], and for
                    \* the record which requests ran all the while, or at some time
vars == <<scenario, now, file, stage, built, loaded, routerGen, serverGen, lock, watcher, hangup,
          request, running, logged, page>>
configVars == <<stage, built, loaded, routerGen, serverGen, lock, watcher, hangup>>
requestVars == <<request, running, logged>>

None == "none"
NoBuild == [ok |-> FALSE, text |-> 0]
Free == [by |-> None, step |-> None]
NewEntry == [attempts |-> 0, outcome |-> None]
NoSnapshot == [state |-> "idle", ids |-> {}, out |-> [r \in {} |-> NewEntry], always |-> {}, ever |-> {}]

Init ==
    /\ scenario \in Scenarios
    /\ now = 1
    /\ file = [text |-> scenario.file, mtime |-> 1, version |-> 1]
    /\ stage = "down" /\ built = NoBuild /\ loaded = <<>>
    /\ routerGen = 0 /\ serverGen = 0
    /\ lock = Free
    /\ watcher = [lastMod |-> 0, state |-> "idle"]
    /\ hangup = [queued |-> FALSE, state |-> "idle", version |-> 0]
    /\ request = [r \in DOMAIN scenario.asks |->
                    [ask |-> scenario.asks[r], stage |-> "new", authorised |-> 0, read |-> 0, routed |-> 0,
                     attempts |-> 0, status |-> 0, json |-> TRUE]]
    /\ running = [r \in {} |-> NewEntry] /\ logged = {} /\ page = NoSnapshot

-----------------------------------------------------------------------------
(* The operator *)

Time == now < scenario.until /\ now' = now + 1 /\ UNCHANGED <<scenario, file, configVars, requestVars, page>>

\* The file is replaced, or left half written for a while.
Writes ==
    /\ file.version <= scenario.writes
    /\ \E c \in scenario.edits : file' = [text |-> c, mtime |-> now, version |-> file.version + 1]
    /\ UNCHANGED <<scenario, now, configVars, requestVars, page>>

\* SIGHUP: the channel holds one.
HangsUp ==
    /\ stage = "up" /\ scenario.writes > 0 /\ hangup.version < file.version
    /\ hangup' = [hangup EXCEPT !.queued = TRUE, !.version = file.version]
    /\ UNCHANGED <<scenario, now, file, stage, built, loaded, routerGen, serverGen, lock, watcher,
                   requestVars, page>>

-----------------------------------------------------------------------------
(* Start and reload *)

Text == Texts[file.text]
Loadable == {i \in DOMAIN Texts : Texts[i] # NotTOML /\ builds(Texts[i])}
CanLoad == file.text \in Loadable

Take(cfg) == Append(loaded, [cfg |-> cfg, text |-> file.text, version |-> file.version])

\* main: the file is loaded, and everything made from it.
Start ==
    /\ stage = "down"
    /\ IF CanLoad
       THEN /\ built' = [text |-> file.text, ok |-> TRUE]
            /\ loaded' = Take(build(Text, "generated")) /\ stage' = "up"
            /\ routerGen' = 1 /\ serverGen' = 1
       ELSE /\ built' = [text |-> file.text, ok |-> FALSE]
            /\ stage' = "exited"
            /\ UNCHANGED <<loaded, routerGen, serverGen>>
    /\ UNCHANGED <<scenario, now, file, lock, watcher, hangup, requestVars, page>>

\* startWatch: the first look only remembers the time; later a newer one is
\* remembered and a reload begun.
Watches ==
    /\ stage = "up" /\ watcher.state = "idle" /\ loaded[1].cfg.server.interval > 0
    /\ IF watcher.lastMod = 0 THEN watcher' = [watcher EXCEPT !.lastMod = file.mtime]
       ELSE file.mtime > watcher.lastMod /\ watcher' = [lastMod |-> file.mtime, state |-> "wants"]
    /\ UNCHANGED <<scenario, now, file, stage, built, loaded, routerGen, serverGen, lock, hangup,
                   requestVars, page>>

\* startSignalReload
TakesSignal ==
    /\ hangup.queued /\ hangup.state = "idle"
    /\ hangup' = [hangup EXCEPT !.queued = FALSE, !.state = "wants"]
    /\ UNCHANGED <<scenario, now, file, stage, built, loaded, routerGen, serverGen, lock, watcher,
                   requestVars, page>>

Wants(by) == (IF by = "watcher" THEN watcher.state ELSE hangup.state) = "wants"

\* Mutant: a return that keeps the lock.
ReturnsLocked(by) ==
    /\ UNCHANGED lock
    /\ IF by = "watcher" THEN watcher' = [watcher EXCEPT !.state = "idle"] /\ UNCHANGED hangup
       ELSE hangup' = [hangup EXCEPT !.state = "idle"] /\ UNCHANGED watcher

\* tryReload is over for by.
Returns(by) ==
    /\ lock' = Free
    /\ IF by = "watcher" THEN watcher' = [watcher EXCEPT !.state = "idle"] /\ UNCHANGED hangup
       ELSE hangup' = [hangup EXCEPT !.state = "idle"] /\ UNCHANGED watcher

\* Mutant: who finds a reload under way leaves it at that.
TryLock(by) ==
    /\ Wants(by) /\ lock.by # by
    /\ IF lock = Free THEN lock' = [by |-> by, step |-> "read"] /\ UNCHANGED <<watcher, hangup>>
       ELSE /\ UNCHANGED lock
            /\ IF by = "watcher" THEN watcher' = [watcher EXCEPT !.state = "idle"] /\ UNCHANGED hangup
               ELSE hangup' = [hangup EXCEPT !.state = "idle"] /\ UNCHANGED watcher
    /\ UNCHANGED <<scenario, now, file, stage, built, loaded, routerGen, serverGen, requestVars, page>>

\* tryReload: one at a time.
Locks(by) ==
    /\ Wants(by) /\ lock = Free
    /\ lock' = [by |-> by, step |-> "read"]
    /\ UNCHANGED <<scenario, now, file, stage, built, loaded, routerGen, serverGen, watcher, hangup,
                   requestVars, page>>

Previous == loaded[Len(loaded)].cfg

\* What only a restart may change stays as it is.
Frozen(cfg) ==
    [cfg EXCEPT !.server.listen = Previous.server.listen, !.server.logDir = Previous.server.logDir,
                !.server.retention = Previous.server.retention]

\* The file as it is by now; one that cannot be loaded changes nothing.
Reads ==
    /\ lock.step = "read"
    /\ IF CanLoad
       THEN /\ built' = [text |-> file.text, ok |-> TRUE]
            /\ loaded' = Take(Frozen(Reload(Text, Previous, "generated again")))
            /\ lock' = [lock EXCEPT !.step = "router"] /\ UNCHANGED <<watcher, hangup>>
       ELSE /\ built' = [text |-> file.text, ok |-> FALSE]
            /\ Returns(lock.by) /\ UNCHANGED loaded
    /\ UNCHANGED <<scenario, now, file, stage, routerGen, serverGen, requestVars, page>>

\* Mutant: the server is told first.
TellsServerFirst(step) ==
    IF step = "router" THEN serverGen' = Len(loaded) /\ UNCHANGED routerGen
    ELSE routerGen' = Len(loaded) /\ UNCHANGED serverGen

\* rt.Reload, then srv.Reload.
Tells(step) ==
    IF step = "router" THEN routerGen' = Len(loaded) /\ UNCHANGED serverGen
    ELSE serverGen' = Len(loaded) /\ UNCHANGED routerGen

Applies ==
    /\ lock.step \in {"router", "server"} /\ Tells(lock.step)
    /\ IF lock.step = "router" THEN lock' = [lock EXCEPT !.step = "server"] /\ UNCHANGED <<watcher, hangup>>
       ELSE Returns(lock.by)
    /\ UNCHANGED <<scenario, now, file, stage, built, loaded, requestVars, page>>

-----------------------------------------------------------------------------
(* Requests *)

At(r, s) == stage = "up" /\ request[r].stage = s
Served == loaded[serverGen].cfg
Goes(r, s) == request' = [request EXCEPT ![r].stage = s]
Unserved == <<running, logged>>
Others == <<scenario, now, file, configVars, page>>

Refuses(r, status) ==
    request' = [request EXCEPT ![r].stage = "gone", ![r].status = status]

\* The method, then authorize.
Authorizes(r) ==
    /\ At(r, "new")
    /\ IF ~request[r].ask.method THEN Refuses(r, 405)
       ELSE IF \E k \in DOMAIN Served.server.keys : Served.server.keys[k] = request[r].ask.key
       THEN request' = [request EXCEPT ![r].stage = "reading", ![r].authorised = serverGen]
       ELSE Refuses(r, 401)
    /\ UNCHANGED <<Unserved, Others>>

\* handle: the body is read and judged, and then the server is asked whether the
\* last turn is to be coerced.
ReadsBody(r) ==
    /\ At(r, "reading") /\ request[r].ask.kind = "chat"
    /\ IF ~request[r].ask.valid THEN Refuses(r, 400)
       ELSE request' = [request EXCEPT ![r].stage = "read", ![r].read = serverGen]
    /\ UNCHANGED <<Unserved, Others>>

\* handleSpeech, handleTranscription
ReadsAudio(r) ==
    /\ At(r, "reading") /\ request[r].ask.kind = "audio"
    /\ IF ~request[r].ask.valid THEN Refuses(r, 400)
       ELSE request' = [request EXCEPT ![r].stage = "read", ![r].read = request[r].authorised]
    /\ UNCHANGED <<Unserved, Others>>

\* handleModels lists the routes, handleModel looks one up.
TellsModels(r) ==
    /\ At(r, "reading") /\ request[r].ask.kind \in {"models", "model"}
    /\ request' = [request EXCEPT ![r].stage = "gone", ![r].read = serverGen,
            ![r].status = IF request[r].ask.kind = "models" \/ request[r].ask.model \in DOMAIN Served.models
                          THEN 200 ELSE 404]
    /\ UNCHANGED <<Unserved, Others>>

\* Register
Registers(r) ==
    /\ At(r, "read") /\ Goes(r, "registered")
    /\ running' = [q \in DOMAIN running \cup {r} |-> IF q = r THEN NewEntry ELSE running[q]]
    /\ page' = IF page.state = "idle" THEN page ELSE [page EXCEPT !.ever = @ \cup {r}]
    /\ UNCHANGED <<logged, scenario, now, file, configVars>>

\* Execute, ExecuteStream: the configuration of the call.
LoadsState(r) ==
    /\ At(r, "registered")
    /\ request' = [request EXCEPT ![r].stage = "routing", ![r].routed = routerGen]
    /\ UNCHANGED <<Unserved, Others>>

\* notifyAttempt: OnAttempt.
Attempts(r) ==
    /\ At(r, "routing") /\ request[r].attempts < request[r].ask.tries
    /\ request' = [request EXCEPT ![r].attempts = @ + 1]
    /\ running' = [running EXCEPT ![r] = [attempts |-> @.attempts + 1, outcome |-> "attempted"]]
    /\ UNCHANGED <<logged, Others>>

\* notifyCommit: OnCommit.
Commits(r) ==
    /\ At(r, "routing") /\ request[r].ask.stream /\ running[r].outcome # "streaming"
    /\ running' = [running EXCEPT ![r].outcome = "streaming"]
    /\ UNCHANGED <<request, logged, Others>>

\* The reply is written; it need not be JSON.
Replies(r) ==
    /\ At(r, "routing")
    /\ \E json \in BOOLEAN :
        request' = [request EXCEPT ![r].stage = "replied", ![r].status = 200, ![r].json = json]
    /\ UNCHANGED <<Unserved, Others>>

\* Mutant: a request leaves the registry before it is logged.
LogsLast(r) ==
    /\ At(r, "replied") /\ Goes(r, "logged")
    /\ running' = [q \in DOMAIN running \ {r} |-> running[q]]
    /\ page' = [page EXCEPT !.always = @ \ {r}]
    /\ UNCHANGED <<logged, scenario, now, file, configVars>>

\* log: an entry whose body is not JSON cannot be marshalled, and the error is dropped.
Logs(r) ==
    /\ At(r, "replied") /\ Goes(r, "logged")
    /\ logged' = IF request[r].json THEN logged \cup {r} ELSE logged
    /\ UNCHANGED <<running, Others>>

\* The deferred Unregister.
Unregisters(r) ==
    /\ At(r, "logged") /\ Goes(r, "gone")
    /\ running' = [q \in DOMAIN running \ {r} |-> running[q]]
    /\ page' = [page EXCEPT !.always = @ \ {r}]
    /\ UNCHANGED <<logged, scenario, now, file, configVars>>

-----------------------------------------------------------------------------
(* The page *)

\* Snapshot: the ids first.
Lists ==
    /\ stage = "up" /\ scenario.visited /\ page.state = "idle" /\ running # NoSnapshot.out
    /\ page' = [NoSnapshot EXCEPT !.state = "copying", !.ids = DOMAIN running,
                                  !.always = DOMAIN running, !.ever = DOMAIN running]
    /\ UNCHANGED <<scenario, now, file, configVars, requestVars>>

\* Then entry by entry; one that is gone is left out.
Copies ==
    /\ page.state = "copying"
    /\ \E r \in page.ids :
        page' = [page EXCEPT !.ids = @ \ {r},
                    !.out = IF r \in DOMAIN running
                            THEN [q \in DOMAIN @ \cup {r} |-> IF q = r THEN running[r] ELSE @[q]] ELSE @]
    /\ UNCHANGED <<scenario, now, file, configVars, requestVars>>

Shows ==
    /\ page.state = "copying" /\ page.ids = {}
    /\ page' = NoSnapshot
    /\ UNCHANGED <<scenario, now, file, configVars, requestVars>>

Operator == Time \/ Writes \/ HangsUp
Reloader == Watches \/ TakesSignal \/ (\E by \in {"watcher", "signal"} : Locks(by))
            \/ Reads \/ Applies
Handler(r) == Authorizes(r) \/ ReadsBody(r) \/ ReadsAudio(r) \/ TellsModels(r) \/ Registers(r) \/ LoadsState(r)
              \/ Attempts(r) \/ Commits(r) \/ Replies(r) \/ Logs(r) \/ Unregisters(r)
Page == Lists \/ Copies \/ Shows
Next == Operator \/ Start \/ Reloader \/ (\E r \in DOMAIN request : Handler(r)) \/ Page

Spec == Init /\ [][Next]_vars
=============================================================================
