-------------------------- MODULE ServingProperties -------------------------
(***************************************************************************)
(* What the running process promises to its operator and its clients.      *)
(***************************************************************************)
EXTENDS Serving, FiniteSets

\* The types; and whoever is in tryReload is at a reload.
ServingTypeOK ==
    /\ now \in 1..scenario.until /\ file.mtime \in 1..now /\ file.version \in 1..(scenario.writes + 1)
    /\ stage \in {"down", "up", "exited"}
    /\ stage = "up" <=> loaded # <<>>
    /\ routerGen \in 0..Len(loaded) /\ serverGen \in 0..Len(loaded)
    /\ lock.by \in {"none", "watcher", "signal"} /\ lock.step \in {"none", "read", "router", "server"}
    /\ watcher.lastMod \in 0..now /\ watcher.state \in {"idle", "wants"}
    /\ hangup.queued \in BOOLEAN /\ hangup.state \in {"idle", "wants"}
    /\ \A r \in DOMAIN request : request[r].attempts \in 0..request[r].ask.tries
                           /\ request[r].status \in {0, 200, 400, 401, 404, 405}
    /\ lock.by = "watcher" => watcher.state = "wants"
    /\ lock.by = "signal" => hangup.state = "wants"
    /\ DOMAIN running \subseteq DOMAIN request /\ logged \subseteq DOMAIN request

-----------------------------------------------------------------------------
(* The file, read by its definition *)

\* A route's targets: every route in it replaced by what it says, once for every
\* route there is. What still names a route then goes round in a circle.
Unfolded(model, name) ==
    LET TextsIn(n) == [i \in DOMAIN model[n].targets |-> model[n].targets[i].text]
        Unfold(texts, i) == FlattenSeq([k \in DOMAIN texts |->
                                IF texts[k] \in DOMAIN model THEN TextsIn(texts[k]) ELSE <<texts[k]>>])
    IN  FoldLeft(Unfold, TextsIn(name), [i \in 1..Cardinality(DOMAIN model) |-> i])

\* The tables of a provider, in the order of the file.
TablesOf(tables, name) == SelectSeq(tables, LAMBDA t : t.name = name)
LastSaid(options, default) ==
    LET said == SelectSeq(options, LAMBDA o : o # <<>>)
    IN  IF said = <<>> THEN default ELSE said[Len(said)][1]

TargetsOf(route) == {route.targets[i] : i \in DOMAIN route.targets}

\* Every setting a route has for a target comes from itself, else from the last
\* route it includes that has one. (Blanks around a route's name keep its
\* settings out, though not its targets.)
SpeechIsNearest(model, routes, name) ==
    \A k \in DOMAIN routes[name].speech :
        /\ k \in TargetsOf(routes[name])
        /\ LET includes == SelectSeq(model[name].targets, LAMBDA t :
                               t.text \in DOMAIN model /\ ~t.padded /\ k \in DOMAIN routes[t.text].speech)
           IN  routes[name].speech[k] =
                   IF k \in DOMAIN model[name].speech THEN model[name].speech[k]
                   ELSE routes[includes[Len(includes)].text].speech[k]

IsRight(text, cfg) ==
    /\ \A n \in DOMAIN text.model :
        /\ [i \in DOMAIN cfg.models[n].targets |-> cfg.models[n].targets[i]]
               = [i \in DOMAIN Unfolded(text.model, n) |-> Split[Unfolded(text.model, n)[i]]]
        /\ SpeechIsNearest(text.model, cfg.models, n)
    /\ \A n \in DOMAIN cfg.providers :
        LET tables == TablesOf(text.provider, n)
        IN  /\ cfg.providers[n].keys = FlattenSeq([i \in DOMAIN tables |-> tables[i].keys])
            /\ cfg.providers[n].url = LastSaid([i \in DOMAIN tables |-> tables[i].url], "")
            /\ cfg.providers[n].timeout = LastSaid([i \in DOMAIN tables |-> tables[i].timeout], 60)
            /\ cfg.providers[n].audio = "stepfun" => cfg.providers[n].kind = "openai"
    /\ \A i, j \in DOMAIN cfg.fallbacks : cfg.fallbacks[i] = cfg.fallbacks[j] => i = j
    /\ {cfg.fallbacks[i] : i \in DOMAIN cfg.fallbacks} =
        DOMAIN cfg.providers \cap ({text.routing.providers[i] : i \in DOMAIN text.routing.providers}
                                   \cup {text.routing.provider})

\* What routing needs of a configuration (Router, IsConfig).
IsUsable(cfg) ==
    /\ cfg.server.keys # <<>>
    /\ \A n \in DOMAIN cfg.models : cfg.models[n].targets # <<>>
    /\ \A n \in DOMAIN cfg.providers : cfg.providers[n].kind \in {"openai", "anthropic", "gemini"}

\* A file is refused exactly if a route of it goes round in a circle, or names
\* what is neither a route nor a target, or a value is not one of its kind; what
\* is taken over is what the file says, and fit to route by (build).
RoutesAreRight(text) ==
    \A n \in DOMAIN text.model :
        /\ text.model[n].targets # <<>> /\ text.model[n].selection \in Selections
        /\ \A i \in DOMAIN Unfolded(text.model, n) :
            Unfolded(text.model, n)[i] \in DOMAIN Split \ DOMAIN text.model
        /\ \A k \in DOMAIN text.model[n].speech :
            /\ \E i \in DOMAIN Unfolded(text.model, n) : Split[Unfolded(text.model, n)[i]] = k
            /\ text.model[n].speech[k].format \in SpeechFormats \cup {""}
BuiltRight(text, ok, cfg) ==
    /\ ok <=> /\ text # NotTOML
              /\ serverIsValid(text.server) /\ providersAreValid(text.provider)
              /\ text.routing.selection \in Selections /\ RoutesAreRight(text)
    /\ ok => IsRight(text, cfg) /\ IsUsable(cfg)
ConfigIsWhatTheFileSays ==
    [][built' # built => BuiltRight(Texts[built'.text], built'.ok, loaded'[Len(loaded')].cfg)]_vars

-----------------------------------------------------------------------------
(* Reload *)

\* The clients that are let in are those of the last file that named any, or
\* the holder of the key made up at the start; and what only a restart may
\* change is as it was at the start (Reload, tryReload).
KeysOutliveEdits ==
    \A n \in 1..Len(loaded) :
        LET named == {i \in 1..n : Texts[loaded[i].text].server.keys # <<>>}
            latest == CHOOSE i \in named : \A j \in named : j <= i
        IN  /\ loaded[n].cfg.server.keys = IF named = {} THEN <<"generated">>
                                           ELSE Texts[loaded[latest].text].server.keys
            /\ \A f \in {"listen", "logDir", "retention"} : loaded[n].cfg.server[f] = loaded[1].cfg.server[f]

\* A request is never routed by a configuration older than the one it was let
\* in by, or than the one its body was prepared under (tryReload, handle).
NeverRoutedUnderOlder ==
    \A r \in DOMAIN request :
        /\ request[r].read # 0 => request[r].authorised <= request[r].read
        /\ request[r].routed # 0 => request[r].read <= request[r].routed

SetMax(S) == CHOOSE n \in S : \A m \in S : m <= n

\* A good file is in use, or has been overtaken by a later one.
Current(v) == file.version # v \/ (loaded # <<>> /\ loaded[Len(loaded)].version = v
                                   /\ routerGen = Len(loaded) /\ serverGen = Len(loaded))

\* A good file is taken over in the end, if it is newer than what the watcher
\* last saw, or was hung up for (startWatch, startSignalReload).
EditsAreLoaded ==
    \A v \in 1..(1 + SetMax({s.writes : s \in Scenarios})) :
        (/\ stage = "up" /\ file.version = v /\ CanLoad
         /\ \/ watcher.lastMod # 0 /\ file.mtime > watcher.lastMod /\ loaded[1].cfg.server.interval > 0
            \/ hangup.version = v) ~> Current(v)

-----------------------------------------------------------------------------
(* Requests *)

\* Every request that was let through is shown as running until it is in the
\* log, with as many attempts as it has made, and a snapshot of the registry has
\* every request that ran all the while and none that did not run meanwhile
\* (handle, beginAudio, Snapshot). A reply that is not JSON is never logged.
RequestsAreAccountedFor ==
    /\ \A r \in DOMAIN request :
        /\ request[r].stage \in {"registered", "routing", "replied"} => r \in DOMAIN running
        /\ r \in DOMAIN running => running[r].attempts = request[r].attempts
        /\ request[r].stage \in {"logged", "gone"} /\ request[r].routed # 0 /\ request[r].json => r \in logged
    /\ page.state = "copying" /\ page.ids = {} =>
        /\ page.always \subseteq DOMAIN page.out /\ DOMAIN page.out \subseteq page.ever
        /\ \A r \in DOMAIN page.out : page.out[r].attempts <= request[r].attempts

-----------------------------------------------------------------------------
\* The ticker goes on, and so do the goroutines that reload.
Fairness == WF_vars(Reloader)
FairSpec == Spec /\ Fairness
=============================================================================
