------------------------------ MODULE MCServing -----------------------------
(***************************************************************************)
(* Three kinds of scenarios: the process is started with each of many      *)
(* files, right and wrong; the operator edits the file while a client asks *)
(* with an old or a new key; two requests run while the page looks.        *)
(***************************************************************************)
EXTENDS ServingProperties

MCSplit == [ax |-> [provider |-> "a", model |-> "x"], by |-> [provider |-> "b", model |-> "y"]]
Ax == MCSplit.ax
By == MCSplit.by

RawRoute(targets) == [targets |-> targets, selection |-> "", speech |-> [k \in {} |-> 0]]
Tables == <<[rawProvider("a") EXCEPT !.kind = <<"openai">>, !.url = <<"u">>, !.keys = <<"k1">>],
            [rawProvider("b") EXCEPT !.kind = <<"gemini">>, !.url = <<"v">>, !.keys = <<"k2">>]>>
Base == [rawConfig EXCEPT !.provider = Tables,
             !.model = [m |-> RawRoute(<<Written("ax"), Written("n")>>), n |-> RawRoute(<<Written("by")>>)]]

\* Every way to combine an element of s with one of t.
Cross(Op(_, _), s, t) ==
    [i \in 1..(Len(s) * Len(t)) |-> Op(s[((i - 1) \div Len(t)) + 1], t[((i - 1) % Len(t)) + 1])]
UpToTwo(s) == [i \in DOMAIN s |-> <<s[i]>>] \o Cross(LAMBDA a, b : <<a, b>>, s, s)

\* Routes that include each other in any way.
Graphs == Cross(LAMBDA x, y : [Base EXCEPT !.model = [m |-> RawRoute(x), n |-> RawRoute(y)]],
                UpToTwo(<<Written("n"), Padded("n"), Written("m"), Written("ax"), Written("junk")>>),
                UpToTwo(<<Written("m"), Written("by"), Written("o")>>) \o <<<<>>>>)
Chains == Cross(LAMBDA x, y : [Base EXCEPT !.model = [m |-> RawRoute(<<Written("n"), Written("o")>>),
                                                      n |-> RawRoute(x), o |-> RawRoute(y)]],
                <<<<Written("o"), Written("ax")>>>>,
                UpToTwo(<<Written("m"), Written("by"), Written("n")>>))

Voice(v, f) == [voice |-> v, format |-> f]
Settings(v, f) ==
    <<[k \in {} |-> 0], [k \in {Ax} |-> Voice(v, f)], [k \in {By} |-> Voice(v, f)], [k \in {Ax, By} |-> Voice(v, f)]>>
Speeches == Cross(LAMBDA x, y : [x EXCEPT !.model["n"].speech = y],
                  Cross(LAMBDA x, y : [Base EXCEPT !.model["m"].speech = x, !.model["m"].targets[2] = y],
                        Settings("v", ""), <<Written("n"), Padded("n")>>),
                  Settings("w", "mp3") \o Settings("w", "ogg"))

MoreTables == <<rawProvider(""), [rawProvider("a") EXCEPT !.timeout = <<NotADuration>>],
                [rawProvider("a") EXCEPT !.url = <<"u2">>, !.keys = <<"k3">>, !.timeout = <<5>>],
                [rawProvider("a") EXCEPT !.audio = <<"stepfun">>, !.fallbackModels = {"x"}],
                [rawProvider("b") EXCEPT !.audio = <<"stepfun">>], [rawProvider("b") EXCEPT !.kind = <<"other">>],
                [rawProvider("c") EXCEPT !.url = <<"u">>]>>
Routing(p, ps, selection) == [provider |-> p, providers |-> ps, selection |-> selection]
Merges == Cross(LAMBDA x, y : [Base EXCEPT !.provider = Tables \o x, !.routing = y], UpToTwo(MoreTables),
                <<Routing("", <<"b", "a", "b", "">>, "random"), Routing("a", <<>>, ""),
                  Routing("z", <<"b", "z">>, "any")>>)

Servers == Cross(LAMBDA x, y : [Base EXCEPT !.server = x, !.routing = y],
    <<[rawServer EXCEPT !.retention = <<-1>>, !.interval = <<0>>], [rawServer EXCEPT !.interval = <<-1>>],
      [rawServer EXCEPT !.audioTimeout = <<0>>], [rawServer EXCEPT !.blackout = <<NotADuration>>]>>,
    <<Routing("a", <<"b", "a">>, "shuffle")>>)

\* Edits: a key is named, with a setting that needs a restart, and left out
\* again; a circle of routes; and a file that is no TOML.
Edited == [Base EXCEPT !.server.keys = <<"new">>, !.server.listen = <<":1">>]
Circle == [Base EXCEPT !.model = [m |-> RawRoute(<<Written("m")>>)]]

MCTexts == <<Base, Edited, rawConfig, Circle, NotTOML>> \o Graphs \o Chains \o Speeches \o Merges \o Servers

Ask(kind, key, tries) ==
    [kind |-> kind, model |-> "m", key |-> key, tries |-> tries, stream |-> TRUE, method |-> TRUE, valid |-> TRUE]
Scenario(first, edits, writes, until, asks) ==
    [file |-> first, edits |-> edits, writes |-> writes, until |-> until, asks |-> asks, visited |-> writes = 0]
Generated == Ask("chat", "generated", 1)
MCScenarios ==
    {Scenario(i, {}, 0, 2, <<>>) : i \in DOMAIN MCTexts}
    \cup {Scenario(1, {2, 3, 4}, 2, 3, <<>>), Scenario(1, {2, 3}, 1, 2, <<Ask("chat", "new", 0)>>)}
    \cup {Scenario(1, {}, 0, 1, <<Generated, a>>) :
            a \in {[Generated EXCEPT !.valid = FALSE], [Generated EXCEPT !.method = FALSE],
                   Ask("models", "generated", 1), Ask("audio", "generated", 1),
                   [Ask("audio", "generated", 1) EXCEPT !.valid = FALSE],
                   [Ask("model", "generated", 1) EXCEPT !.model = "n"],
                   [Ask("model", "generated", 1) EXCEPT !.model = "z"]}}
=============================================================================
