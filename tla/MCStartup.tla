------------------------------- MODULE MCStartup -------------------------------
(* Three suites that run clean, every suite that differs from one of them in *)
(* up to two fields, and every way telemetry may have been decided.          *)
EXTENDS Startup

NoPair == [timeout |-> 0, interval |-> 0]
Inverted == [timeout |-> 0, interval |-> 3]
Long == [timeout |-> 4, interval |-> 0]

Base ==
  [junit |-> "ok", cucumber |-> None, eventsFlag |-> None, eventsVar |-> None,
   evidenceFlag |-> FALSE, evidenceVar |-> None, evidenceKey |-> FALSE, bufferBad |-> FALSE,
   configFlag |-> FALSE, configVar |-> FALSE, yaml |-> TRUE, yml |-> FALSE,
   text |-> "good", envBroken |-> FALSE, op |-> None, process |-> "unset",
   dotenv |-> "unset", dotenvLocal |-> "unset",
   apis |-> {"a"}, apiKey |-> None, apiVar |-> None, apiFlag |-> None, apiTwice |-> FALSE,
   polling |-> NoPair, pollingVar |-> NoPair, apiPolling |-> NoPair, badVariable |-> FALSE,
   declared |-> FALSE, instances |-> {}, groupKey |-> None, groupFlag |-> None,
   typo |-> FALSE, plugin |-> None, implicit |-> FALSE, refuses |-> {}, silent |-> {}, dir |-> "ok",
   macros |-> "good", words |-> {}, wordsOnly |-> {},
   keyPaths |-> "suite", varPaths |-> None, cliPaths |-> None, tagsKey |-> None, cliTags |-> None,
   f1 |-> "plain", f2 |-> "plain", url |-> "good", srp |-> "good",
   dsn |-> None, dbUp |-> TRUE, apiUp |-> TRUE, live |-> FALSE,
   telFlag |-> None, telVar |-> None, doNotTrack |-> FALSE, telKey |-> None,
   userAnswer |-> None, projectAnswer |-> None, terminal |-> FALSE]

\* What a field may be instead.
Files2 == {"unparsable", "unknown", "api", "plugin", "badtag"}
Other ==
  [junit |-> {None, "bad"}, cucumber |-> {"ok", "bad"},
   eventsFlag |-> {"ok", "bad", "fifo"}, eventsVar |-> {"ok", "bad"},
   evidenceFlag |-> {TRUE}, evidenceVar |-> {"some", "bad"}, evidenceKey |-> {TRUE},
   bufferBad |-> {TRUE}, configFlag |-> {TRUE}, yaml |-> {FALSE}, yml |-> {TRUE},
   text |-> {"missing", "broken"}, envBroken |-> {TRUE}, op |-> {"bare", ":-", ":?", ":+"},
   process |-> {"", "v"}, dotenv |-> {"w"},
   apis |-> {{}, {"a", "b"}}, apiKey |-> {"a", "z"}, apiVar |-> {"b"}, apiFlag |-> {"b"},
   apiTwice |-> {TRUE}, polling |-> {Inverted, Long}, pollingVar |-> {Inverted, Long},
   apiPolling |-> {Inverted}, badVariable |-> {TRUE},
   declared |-> {TRUE}, instances |-> {{"x"}, {"x", "y"}}, groupKey |-> {"x"}, groupFlag |-> {"y"},
   typo |-> {TRUE}, plugin |-> {"good", "gone", "abi"}, implicit |-> {TRUE},
   refuses |-> {{"x", "default"}}, silent |-> {{"x", "default"}}, dir |-> {"missing"},
   macros |-> {"bad", "plugin"}, words |-> {{{"w"}}}, wordsOnly |-> {{{}}},
   keyPaths |-> {"gone"}, varPaths |-> {"gone"}, cliPaths |-> {"suite"},
   tagsKey |-> {"one", "nothing"}, cliTags |-> {"one"}, f1 |-> Files2, f2 |-> Files2,
   url |-> {"bad"}, srp |-> {"bad"}, dsn |-> {"good", "bad"}, dbUp |-> {FALSE}, apiUp |-> {FALSE}, live |-> {TRUE},
   userAnswer |-> {"yes"}, projectAnswer |-> {"no"}, terminal |-> {TRUE}]

\* Every way telemetry's decision may come about.
Telemetry ==
  {[Base EXCEPT !.telFlag = flag, !.telVar = variable, !.doNotTrack = track, !.telKey = key,
                !.userAnswer = user, !.projectAnswer = project, !.terminal = terminal] :
     flag \in {None, "yes", "no"}, variable \in {None, "yes", "typo"}, track \in BOOLEAN,
     key \in {None, "yes", "no"}, user \in {None, "yes", "no", "broken"},
     project \in {None, "yes", "no"}, terminal \in BOOLEAN}

\* A suite of plugin steps, and one with a stream, two APIs and a tag.
WithPlugin ==
  [Base EXCEPT !.plugin = "good", !.declared = TRUE, !.instances = {"x"}, !.f2 = "plugin"]
WithStream ==
  [Base EXCEPT !.eventsFlag = "ok", !.evidenceVar = "some", !.apis = {"a", "b"}, !.apiKey = "a",
               !.tagsKey = "one", !.f1 = "api", !.dsn = "good"]

Changes == UNION {{f} \X Other[f] : f \in DOMAIN Other}
\* At most two fields of one of them are something else.
Changed ==
  {[base EXCEPT ![c[1]] = c[2], ![d[1]] = d[2]] :
     base \in {Base, WithPlugin, WithStream}, c \in Changes, d \in Changes}
MCSuites == Changed \cup Telemetry \cup {Base, WithPlugin, WithStream}
================================================================================
