------------------------------ MODULE Polling --------------------------------
(***************************************************************************)
(* One file's requests and assertions: the request builder, the last       *)
(* exchange and its replay recipe (http.rs), the armed modifier            *)
(* `I expect the next assertion to pass ...` (world.rs), and the loop that *)
(* polls an assertion until it holds or its time is over (runner.rs,       *)
(* polling.rs).  An HTTP assertion looks at the last exchange first and    *)
(* sends the request again for every further attempt.                      *)
(***************************************************************************)
EXTENDS Integers, Sequences, FiniteSetsExt

CONSTANTS Apis, DefaultApi,
          Options,      \* Options[r]: timeout and interval of an API, "db", "plugin"
          OptionLayers, \* what a modifier step may arm; 0 is a value it leaves alone
          Slow,         \* bound: how long an attempt takes
          Late,         \* bound: how late a sleep ends
          AttemptLimit, \* bound: attempts of an assertion, more than any window has room for
          StepLimit,    \* bound: steps of a scenario
          ScenarioLimit

ASSUME PollingAssumption ==
  /\ DefaultApi \in Apis /\ "none" \notin Apis
  /\ Options \in [Apis \cup {"db", "plugin"} -> [timeout : Nat \ {0}, interval : Nat \ {0}]]
  /\ OptionLayers \subseteq [timeout : Nat, interval : Nat]
  /\ {Slow, Late, AttemptLimit} \subseteq Nat /\ StepLimit \in Nat /\ ScenarioLimit \in Nat

VARIABLES builder,   \* the request that is being set up: API, edits, signature
          recipe,    \* replay: the last request that was answered, or NoRequest
          last,      \* the last exchange: its request and the attempt it was sent in
          pending,   \* the armed modifier, or NoLayer
          poll,      \* the assertion that runs
          now,       \* time since that assertion began
          ended,     \* how the last assertion ended: "held", "expired", "refused"
          failed,    \* a step of the scenario has failed: the others are skipped
          asked,     \* history: the last request a step sent, answered or not
          log,       \* history: the steps of the scenario, "arm", "assert" or "act"
          scenarios

httpVars == <<builder, recipe, last, asked>>
pollingVars == <<httpVars, pending, poll, now, ended, failed, log, scenarios>>

Fresh(api) == [api |-> api, edits |-> 0, signed |-> FALSE]
NoRequest == [api |-> "none", edits |-> 0, signed |-> FALSE]
NoExchange == [request |-> NoRequest, attempt |-> 0]
NoLayer == [timeout |-> -1, interval |-> -1]
NoPoll == [at |-> "idle", source |-> "http", armed |-> FALSE, timeout |-> 0, interval |-> 0,
           attempt |-> 0, wake |-> 0]

PollingInit ==
  /\ builder = Fresh(DefaultApi) /\ recipe = NoRequest /\ last = NoExchange
  /\ pending = NoLayer /\ poll = NoPoll /\ now = 0 /\ ended = "held" /\ failed = FALSE
  /\ asked = NoRequest /\ log = <<>> /\ scenarios = 1

\* A step of the scenario begins.
Steps(kind) ==
  /\ poll = NoPoll /\ ~failed /\ Len(log) < StepLimit
  /\ log' = Append(log, kind)
  /\ UNCHANGED scenarios

\* set_header, set_query, set_body and the like
EditRequest ==
  /\ Steps("act")
  /\ builder' = [builder EXCEPT !.edits = @ + 1]
  /\ UNCHANGED <<recipe, last, asked, pending, poll, now, ended, failed>>

SignNext ==
  /\ Steps("act")
  /\ builder' = [builder EXCEPT !.signed = TRUE]
  /\ UNCHANGED <<recipe, last, asked, pending, poll, now, ended, failed>>

\* The exchange and its recipe stay with the API they came from.
UseApi(a) ==
  /\ Steps("act")
  /\ builder' = Fresh(a)
  /\ UNCHANGED <<recipe, last, asked, pending, poll, now, ended, failed>>

\* `I request ...`: whatever was there is forgotten before the request is
\* built, and the signature is used up whether or not it is answered.
SendRequest(answered) ==
  /\ Steps("act")
  /\ asked' = builder
  /\ builder' = [builder EXCEPT !.signed = FALSE]
  /\ IF answered THEN recipe' = builder /\ last' = [request |-> builder, attempt |-> 0]
     ELSE recipe' = NoRequest /\ last' = NoExchange
  /\ failed' = ~answered
  /\ UNCHANGED <<pending, poll, now, ended>>

\* Any other step, a plugin's action for one; it may fail.
OtherStep ==
  /\ Steps("act")
  /\ failed' \in BOOLEAN
  /\ UNCHANGED <<httpVars, pending, poll, now, ended>>

Arm(layer) ==
  /\ Steps("arm")
  /\ pending' = layer
  /\ UNCHANGED <<httpVars, poll, now, ended, failed>>

\* Options::apply and its validate.
Applied(base, layer) ==
  [timeout |-> IF layer.timeout > 0 THEN layer.timeout ELSE base.timeout,
   interval |-> IF layer.interval > 0 THEN layer.interval ELSE base.interval]
Valid(o) == o.interval <= o.timeout

\* The resource whose options an assertion starts from: an HTTP one asks the
\* API that the last response came from, not the one selected now.
Resource(source) == IF source = "http" THEN recipe.api ELSE source

Fails(how) == poll' = NoPoll /\ ended' = how /\ failed' = TRUE

\* An assertion takes the modifier; without one it has a single attempt.
Assert(source) ==
  /\ Steps("assert")
  /\ pending' = NoLayer /\ now' = 0
  /\ LET o == Applied(Options[Resource(source)], pending)
         First(armed, timeout, interval) ==
           /\ poll' = [NoPoll EXCEPT !.at = "attempt", !.source = source, !.armed = armed,
                                     !.timeout = timeout, !.interval = interval]
           /\ UNCHANGED <<ended, failed>>
     IN  CASE pending = NoLayer -> First(FALSE, 0, 0)
           [] pending # NoLayer /\ Resource(source) \in DOMAIN Options /\ Valid(o) ->
                First(TRUE, o.timeout, o.interval)
           [] OTHER -> Fails("refused")
  /\ UNCHANGED httpVars

\* What an attempt comes to: it holds, it never can, or it does not hold yet,
\* which Polling::after_not_yet judges when the assertion is polled.
Holds == poll' = NoPoll /\ ended' = "held" /\ UNCHANGED failed

\* Slip: an attempt that ends at the deadline is followed by another.
NotYetEndless ==
  CASE ~poll.armed -> Fails("refused")
    [] poll.armed /\ now' > poll.timeout -> Fails("expired")
    [] OTHER ->
         /\ poll' = [poll EXCEPT !.at = "sleep",
                                 !.wake = now' + Min({poll.timeout - now', poll.interval})]
         /\ UNCHANGED <<ended, failed>>

\* Slip: the sleep is not cut to what is left of the window.
NotYetOversleeps ==
  CASE ~poll.armed -> Fails("refused")
    [] poll.armed /\ now' >= poll.timeout -> Fails("expired")
    [] OTHER -> /\ poll' = [poll EXCEPT !.at = "sleep", !.wake = now' + poll.interval]
                /\ UNCHANGED <<ended, failed>>

NotYet ==
  CASE ~poll.armed -> Fails("refused")
    [] poll.armed /\ now' >= poll.timeout -> Fails("expired")
    [] OTHER ->
         /\ poll' = [poll EXCEPT !.at = "sleep",
                                 !.wake = now' + Min({poll.timeout - now', poll.interval})]
         /\ UNCHANGED <<ended, failed>>

\* replay_response: every attempt but the first sends the last request again.
Replays == poll.source = "http" /\ poll.attempt > 0

\* Slip: a further attempt sends what is set up now.
SlipAttempt(d) ==
  /\ poll.at = "attempt"
  /\ now' = now + d
  /\ \/ /\ Replays
        /\ last' = [request |-> builder, attempt |-> poll.attempt]
        /\ Holds \/ NotYet \/ Fails("refused")
     \/ /\ ~Replays
        /\ UNCHANGED last
        /\ IF poll.source = "http" /\ last = NoExchange THEN Fails("refused")
           ELSE Holds \/ NotYet \/ Fails("refused")
  /\ UNCHANGED <<builder, recipe, asked, pending, log, scenarios>>

Attempt(d) ==
  /\ poll.at = "attempt"
  /\ now' = now + d
  /\ \/ /\ Replays
        /\ last' = [request |-> recipe, attempt |-> poll.attempt]
        /\ Holds \/ NotYet \/ Fails("refused")
     \/ /\ Replays
        /\ last' = NoExchange          \* no answer, or a request that cannot be built
        /\ NotYet \/ Fails("refused")
     \/ /\ ~Replays
        /\ UNCHANGED last
        /\ IF poll.source = "http" /\ last = NoExchange THEN Fails("refused")
           ELSE Holds \/ NotYet \/ Fails("refused")
  /\ UNCHANGED <<builder, recipe, asked, pending, log, scenarios>>

Wake(late) ==
  /\ poll.at = "sleep" /\ poll.attempt < AttemptLimit
  /\ now' = poll.wake + late
  /\ poll' = [poll EXCEPT !.at = "attempt", !.attempt = @ + 1, !.wake = 0]
  /\ UNCHANGED <<httpVars, pending, ended, failed, log, scenarios>>

\* Slip: the armed modifier outlives its scenario.
SlipNextScenario ==
  /\ poll = NoPoll /\ scenarios < ScenarioLimit
  /\ builder' = Fresh(DefaultApi) /\ recipe' = NoRequest /\ last' = NoExchange
  /\ failed' = FALSE
  /\ asked' = NoRequest /\ log' = <<>> /\ scenarios' = scenarios + 1
  /\ UNCHANGED <<pending, poll, now, ended>>

\* reset_scenario at the next scenario's beginning; its steps are new.
NextScenario ==
  /\ poll = NoPoll /\ scenarios < ScenarioLimit
  /\ builder' = Fresh(DefaultApi) /\ recipe' = NoRequest /\ last' = NoExchange
  /\ pending' = NoLayer /\ failed' = FALSE
  /\ asked' = NoRequest /\ log' = <<>> /\ scenarios' = scenarios + 1
  /\ UNCHANGED <<poll, now, ended>>

Proceeds == (\E d \in 0..Slow : Attempt(d)) \/ (\E late \in 0..Late : Wake(late))

PollingNext ==
  \/ EditRequest \/ SignNext \/ OtherStep \/ NextScenario \/ Proceeds
  \/ \E a \in Apis : UseApi(a)
  \/ \E answered \in BOOLEAN : SendRequest(answered)
  \/ \E layer \in OptionLayers : Arm(layer)
  \/ \E source \in {"http", "db", "plugin"} : Assert(source)

PollingSpec == PollingInit /\ [][PollingNext]_pollingVars /\ WF_pollingVars(Proceeds)
-----------------------------------------------------------------------------
Polls ==
  [at : {"idle", "attempt", "sleep"}, source : {"http", "db", "plugin"}, armed : BOOLEAN,
   timeout : Nat, interval : Nat, attempt : Nat, wake : Nat]
AnyRequest == [api : Apis \cup {"none"}, edits : Nat, signed : BOOLEAN]

PollingTypeOK ==
  /\ builder \in [api : Apis, edits : Nat, signed : BOOLEAN]
  /\ recipe \in AnyRequest /\ asked \in AnyRequest
  /\ pending \in OptionLayers \cup {NoLayer}
  /\ poll \in Polls /\ now \in Nat
  /\ log \in Seq({"arm", "assert", "act"})

\* An HTTP assertion holds only of an answer to the very request the last
\* `I request` sent, whatever was set up or selected since; and from the second
\* attempt on only of the answer to that attempt.
JudgesLastRequest ==
  [][(poll.at = "attempt" /\ poll.source = "http" /\ poll' = NoPoll /\ ~failed')
       => /\ last'.request = asked /\ asked # NoRequest
          /\ poll.attempt > 0 => last'.attempt = poll.attempt]_pollingVars

\* A polled assertion gives its condition the whole time it was given: it
\* sleeps no longer than its interval, begins its attempts inside the window (a
\* sleep that overruns apart), and gives up for want of time only when the
\* window has closed.
WindowKept ==
  [][/\ poll.at = "sleep" => now' - now <= poll.interval + Late /\ now' <= poll.timeout + Late
     /\ poll.armed /\ poll' = NoPoll /\ ended' = "expired" => now' >= poll.timeout]_pollingVars

\* The steps since the last assertion of this scenario.
SinceAssert(s) ==
  {i \in DOMAIN s : \A j \in DOMAIN s : s[j] = "assert" => j < i}
\* An assertion is polled when a modifier stands before it in its own scenario
\* with no other assertion between, whatever else ran, and only then.
ModifierReach ==
  [][(poll = NoPoll /\ poll' # NoPoll)
       => (poll'.armed <=> \E i \in SinceAssert(log) : log[i] = "arm")]_pollingVars

\* Every assertion comes to an end, however often its condition fails.
AssertionEnds == poll # NoPoll ~> poll = NoPoll
=============================================================================
