------------------------------- MODULE Config -------------------------------
(***************************************************************************)
(* The configuration file as the router reads it (config/config.go, build, *)
(* and config/reload.go): defaults, provider tables merged by name, routes *)
(* that include other routes expanded in place, speech settings, fallback  *)
(* providers; and what makes a file an error.                              *)
(*                                                                         *)
(* An option is <<>> when the file leaves it out and <<v>> when it gives   *)
(* v. Durations are numbers of seconds. A target is written as a text, to  *)
(* which blanks may be padded; Split has the texts of the form             *)
(* "provider/model". Letter case is left out.                              *)
(***************************************************************************)
EXTENDS Integers, SequencesExt

CONSTANT Split      \* Split[text]: the target a text splits into

NotADuration == -99

Or(option, default) == IF option = <<>> THEN default ELSE option[1]

DefaultReasons == {"stop", "length", "tool_calls", "function_call", "end_turn"}
SpeechFormats == {"opus", "mp3", "aac", "flac", "wav", "pcm"}

-----------------------------------------------------------------------------
(* The server section *)

\* What a file that sets nothing says.
rawServer == [listen |-> <<>>, logDir |-> <<>>, retention |-> <<>>, keys |-> <<>>, retries |-> 0,
              blackout |-> <<>>, reasons |-> {}, interval |-> <<>>, audioTimeout |-> <<>>,
              coerce |-> <<>>, cors |-> <<>>, origins |-> {}, streaming |-> <<>>, ffmpeg |-> <<>>]

serverIsValid(raw) ==
    /\ raw.blackout # <<NotADuration>>
    /\ Or(raw.interval, 3) >= 0
    /\ Or(raw.audioTimeout, 10) > 0

\* Without client keys one is made up, so that the API is never open.
Server(raw, fresh) ==
    [listen       |-> Or(raw.listen, ":8470"),
     logDir       |-> Or(raw.logDir, "./logs"),
     retention    |-> IF Or(raw.retention, 60) < 0 THEN 0 ELSE Or(raw.retention, 60),
     keys         |-> IF raw.keys = <<>> THEN <<fresh>> ELSE raw.keys,
     generated    |-> raw.keys = <<>>,
     retries      |-> IF raw.retries < 0 THEN 0 ELSE raw.retries,
     blackout     |-> Or(raw.blackout, 60),
     reasons      |-> IF raw.reasons = {} THEN DefaultReasons ELSE raw.reasons,
     interval     |-> Or(raw.interval, 3),
     audioTimeout |-> Or(raw.audioTimeout, 10),
     coerce       |-> Or(raw.coerce, TRUE),
     cors         |-> Or(raw.cors, TRUE),
     origins      |-> raw.origins,
     streaming    |-> Or(raw.streaming, TRUE),
     ffmpeg       |-> Or(raw.ffmpeg, "ffmpeg")]

-----------------------------------------------------------------------------
(* Providers *)

rawProvider(name) ==
    [name |-> name, kind |-> <<>>, url |-> <<>>, timeout |-> <<>>, keys |-> <<>>,
     fallbackKeys |-> <<>>, fallbackModels |-> {}, responses |-> <<>>, audio |-> <<>>]

NewProvider == [kind |-> "", url |-> "", timeout |-> 60, keys |-> <<>>, fallbackKeys |-> <<>>,
                fallbackModels |-> {}, responses |-> "unset", audio |-> ""]

Merged(old, rp) ==
    [kind           |-> Or(rp.kind, old.kind),
     url            |-> Or(rp.url, old.url),
     timeout        |-> Or(rp.timeout, old.timeout),
     keys           |-> old.keys \o rp.keys,
     fallbackKeys   |-> old.fallbackKeys \o rp.fallbackKeys,
     fallbackModels |-> old.fallbackModels \cup rp.fallbackModels,
     responses      |-> Or(rp.responses, old.responses),
     audio          |-> Or(rp.audio, old.audio)]

\* Tables of one name are one provider: keys add up, the last word counts.
MergedProviders(tables) ==
    LET Merge(ps, rp) ==
            [n \in DOMAIN ps \cup {rp.name} |->
                IF n # rp.name THEN ps[n]
                ELSE Merged(IF n \in DOMAIN ps THEN ps[n] ELSE NewProvider, rp)]
    IN  FoldLeft(Merge, [n \in {} |-> NewProvider], tables)

providerIsValid(p) ==
    /\ p.kind \in {"openai", "anthropic", "gemini"} /\ p.url # ""
    /\ p.audio # "" => p.kind = "openai" /\ p.audio \in {"openai", "stepfun"}

Providers(tables) ==
    LET merged == MergedProviders(tables)
    IN  [n \in DOMAIN merged |-> [merged[n] EXCEPT !.audio = IF @ = "" THEN "openai" ELSE @]]

providersAreValid(tables) ==
    /\ \A k \in DOMAIN tables : tables[k].name # "" /\ tables[k].timeout # <<NotADuration>>
    /\ \A n \in DOMAIN MergedProviders(tables) : providerIsValid(MergedProviders(tables)[n])

-----------------------------------------------------------------------------
(* Routes *)

Written(text) == [text |-> text, padded |-> FALSE]
Padded(text) == [text |-> text, padded |-> TRUE]

normalizeSelection(s) == IF s \in {"shuffle", "random"} THEN "shuffle" ELSE "sequential"
Selections == {"", "sequential", "shuffle", "random"}

Flat(targets) == [ok |-> TRUE, targets |-> targets]
Refused == [ok |-> FALSE, targets |-> <<>>]

\* Mutant: the names on the way down are remembered on the way up.
expandModelOnce(model, name) ==
    LET expand[n \in DOMAIN model, stack \in SUBSET DOMAIN model] ==
            LET Join(acc, sub) == [ok |-> acc.ok /\ sub.ok, targets |-> acc.targets \o sub.targets,
                                   stack |-> acc.stack \cup sub.stack]
                Add(acc, t) ==
                    IF ~acc.ok THEN acc
                    ELSE IF t.text \in DOMAIN model THEN Join(acc, expand[t.text, acc.stack])
                    ELSE IF t.text \in DOMAIN Split THEN [acc EXCEPT !.targets = Append(@, Split[t.text])]
                    ELSE [acc EXCEPT !.ok = FALSE]
            IN  IF n \in stack THEN [ok |-> FALSE, targets |-> <<>>, stack |-> stack]
                ELSE FoldLeft(Add, [ok |-> TRUE, targets |-> <<>>, stack |-> stack \cup {n}],
                              model[n].targets)
        result == expand[name, {}]
    IN  [ok |-> result.ok, targets |-> result.targets]

\* expandModel: the routes a route names are expanded in place; one that comes
\* back to a route on the way to it is an error, and so is a text that is
\* neither a route nor a provider/model.
expandModel(model, name) ==
    LET expand[n \in DOMAIN model, stack \in SUBSET DOMAIN model] ==
            LET Join(acc, sub) == [ok |-> sub.ok, targets |-> acc.targets \o sub.targets]
                Add(acc, t) ==
                    IF ~acc.ok THEN acc
                    ELSE IF t.text \in DOMAIN model THEN Join(acc, expand[t.text, stack \cup {n}])
                    ELSE IF t.text \in DOMAIN Split THEN [acc EXCEPT !.targets = Append(@, Split[t.text])]
                    ELSE Refused
            IN  IF n \in stack THEN Refused ELSE FoldLeft(Add, Flat(<<>>), model[n].targets)
    IN  expand[name, {}]

\* routeSpeech: the settings of the routes it includes, then its own on top. A
\* padded text is not looked up here.
routeSpeech(model, name) ==
    LET speech[n \in DOMAIN model] ==
            LET Include(acc, t) ==
                    IF t.text \in DOMAIN model /\ ~t.padded
                    THEN [k \in DOMAIN acc \cup DOMAIN speech[t.text] |->
                            IF k \in DOMAIN speech[t.text] THEN speech[t.text][k] ELSE acc[k]]
                    ELSE acc
                included == FoldLeft(Include, [k \in {} |-> 0], model[n].targets)
            IN  [k \in DOMAIN included \cup DOMAIN model[n].speech |->
                    IF k \in DOMAIN model[n].speech THEN model[n].speech[k] ELSE included[k]]
    IN  speech[name]

speechIsValid(own, targets) ==
    \A k \in DOMAIN own :
        k \in {targets[i] : i \in DOMAIN targets} /\ own[k].format \in SpeechFormats \cup {""}

\* A cycle is found before settings are gathered along it.
routeIsValid(model, name) ==
    LET expanded == expandModel(model, name)
    IN  /\ model[name].targets # <<>> /\ model[name].selection \in Selections
        /\ expanded.ok /\ speechIsValid(model[name].speech, expanded.targets)

ModelRoute(model, name) ==
    [targets   |-> expandModel(model, name).targets,
     selection |-> normalizeSelection(model[name].selection),
     speech    |-> routeSpeech(model, name)]

-----------------------------------------------------------------------------
(* The whole file *)

rawConfig == [server |-> rawServer, provider |-> <<>>, model |-> [n \in {} |-> 0],
              routing |-> [provider |-> "", providers |-> <<>>, selection |-> ""]]

\* A text that toml does not decode.
NotTOML == [decodes |-> FALSE]

\* addFallback: the deprecated single one comes last; doubles and blanks drop out.
fallbackNames(routing) ==
    LET Add(names, n) == IF n = "" \/ \E i \in DOMAIN names : names[i] = n THEN names ELSE Append(names, n)
    IN  FoldLeft(Add, <<>>, Append(routing.providers, routing.provider))

builds(raw) ==
    /\ serverIsValid(raw.server) /\ providersAreValid(raw.provider)
    /\ \A n \in DOMAIN raw.model : routeIsValid(raw.model, n)
    /\ raw.routing.selection \in Selections

build(raw, fresh) ==
    LET providers == Providers(raw.provider)
    IN  [server            |-> Server(raw.server, fresh),
         providers         |-> providers,
         models            |-> [n \in DOMAIN raw.model |-> ModelRoute(raw.model, n)],
         fallbacks         |-> SelectSeq(fallbackNames(raw.routing), LAMBDA n : n \in DOMAIN providers),
         fallbackSelection |-> normalizeSelection(raw.routing.selection)]

\* Mutant: a reload of a file without keys makes up a key again.
ReloadAfresh(raw, prev, fresh) == build(raw, fresh)

\* Reload: a file without client keys keeps those in use.
Reload(raw, prev, fresh) ==
    build(IF raw.server.keys = <<>> THEN [raw EXCEPT !.server.keys = prev.server.keys] ELSE raw, fresh)
=============================================================================
