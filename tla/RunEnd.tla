------------------------------- MODULE RunEnd -------------------------------
(***************************************************************************)
(* How `bddkit run` ends: main::run_suite from the moment its signal       *)
(* handlers are installed, main::handle_interrupt beside it, the claim of  *)
(* the ending that settles their race (RunContext::claim_end), the plugin  *)
(* sweep, the last line of the event stream and the exit code.             *)
(*                                                                         *)
(* The stream is the one of EventStream; its two finishers are the main    *)
(* task and the handler.  process::exit stops every thread where it is.    *)
(***************************************************************************)
EXTENDS EventStream

CONSTANTS Signals,      \* kinds of signal, SIGINT, SIGTERM, SIGHUP
          CodeOf,       \* exit code of each: 128 plus its number
          SignalLimit,  \* bound: signals sent to the process
          HasPlugins    \* the suite declares plugins

ASSUME CodeAssumption == CodeOf \in [Signals -> 128..255]

Main == "main"
Handler == "handler"
ASSUME FinishersAssumption == Finishers = {Main, Handler}

VARIABLES main,         \* where run_suite is
          handler,      \* where handle_interrupt is
          handlerIn,    \* signals its registration holds, one per kind
          tailIn,       \* signals the tail's registration holds
          arrived,      \* history: every signal sent, in order
          ending,       \* RunContext::ending
          taken,        \* the signal the handler woke up for
          tailFirst,    \* the first signal the tail woke up for
          code,         \* the exit code run_suite computes
          sweeping,     \* who is inside Plugins::shutdown
          sweeps,       \* history: calls of Plugins::shutdown
          exited,       \* the process is gone
          exitCode      \* with this code

endVars == <<main, handler, handlerIn, tailIn, arrived, ending, taken, tailFirst,
             code, sweeping, sweeps, exited, exitCode>>
runVars == <<streamVars, endVars>>

None == "none"

RunInit ==
  /\ StreamInit
  /\ main = "before_install"
  /\ handler = "unborn"
  /\ handlerIn = {}
  /\ tailIn = {}
  /\ arrived = <<>>
  /\ ending = FALSE
  /\ taken = None
  /\ tailFirst = None
  /\ code = 0
  /\ sweeping = {}
  /\ sweeps = 0
  /\ exited = FALSE
  /\ exitCode = 0

Exit(c) == /\ exited' = TRUE
           /\ exitCode' = c

\* Once registered a signal is held until the next wait; a second one of the
\* same kind in between is the same one.  Before Interrupts::install the
\* system's default kills the process; a registration that was dropped
\* swallows the signal.
TailInstalled == main \in {"claim", "await_handler", "sweep", "report", "finish", "still_writing"}

Signal(k) ==
  /\ Len(arrived) < SignalLimit
  /\ arrived' = Append(arrived, k)
  /\ IF main = "before_install"
     THEN Exit(CodeOf[k])
     ELSE UNCHANGED <<exited, exitCode>>
  /\ handlerIn' = IF handler \in {"unborn", "gone"} THEN handlerIn ELSE handlerIn \cup {k}
  /\ tailIn' = IF TailInstalled THEN tailIn \cup {k} ELSE tailIn
  /\ UNCHANGED <<main, handler, ending, taken, tailFirst, code, sweeping, sweeps>>
  /\ UNCHANGED streamVars

\* Interrupts::install, run_started, spawn the handler, start the pool.
Install ==
  /\ main = "before_install"
  /\ main' = "pool"
  /\ handler' = "wait"
  /\ UNCHANGED <<handlerIn, tailIn, arrived, ending, taken, tailFirst, code,
                 sweeping, sweeps, exited, exitCode>>
  /\ UNCHANGED streamVars

\* A file emits while the pool runs.
FileEmits(p) == main = "pool" /\ Emit(p) /\ UNCHANGED endVars

\* run_all returns; then the tail's registration, before the claim.
PoolDrains ==
  /\ main = "pool"
  /\ main' = "drained"
  /\ UNCHANGED <<handler, handlerIn, tailIn, arrived, ending, taken, tailFirst,
                 code, sweeping, sweeps, exited, exitCode>>
  /\ UNCHANGED streamVars

InstallTail ==
  /\ main = "drained"
  /\ main' = "claim"
  /\ UNCHANGED <<handler, handlerIn, tailIn, arrived, ending, taken, tailFirst,
                 code, sweeping, sweeps, exited, exitCode>>
  /\ UNCHANGED streamVars

\* Slip: the main task does not look at what claim_end returned.
MainClaimBlind ==
  /\ main = "claim"
  /\ ending' = TRUE
  /\ main' = IF HasPlugins THEN "sweep" ELSE "report"
  /\ handler' = IF handler = "wait" THEN "gone" ELSE handler
  /\ sweeping' = IF HasPlugins THEN sweeping \cup {Main} ELSE sweeping
  /\ sweeps' = IF HasPlugins THEN sweeps + 1 ELSE sweeps
  /\ UNCHANGED <<handlerIn, tailIn, arrived, taken, tailFirst, code, exited, exitCode>>
  /\ UNCHANGED streamVars

\* claim_end: the winner aborts the handler, which takes effect at its wait;
\* the loser waits for the handler to end the process.
MainClaim ==
  /\ main = "claim"
  /\ ending' = TRUE
  /\ IF ending
     THEN /\ main' = "await_handler"
          /\ UNCHANGED <<handler, sweeping, sweeps>>
     ELSE /\ handler' = IF handler = "wait" THEN "gone" ELSE handler
          /\ IF HasPlugins
             THEN /\ main' = "sweep"
                  /\ sweeping' = sweeping \cup {Main}
                  /\ sweeps' = sweeps + 1
             ELSE /\ main' = "report"
                  /\ UNCHANGED <<sweeping, sweeps>>
  /\ UNCHANGED <<handlerIn, tailIn, arrived, taken, tailFirst, code, exited, exitCode>>
  /\ UNCHANGED streamVars

\* plugins.shutdown() on the main task itself.
MainSwept ==
  /\ main = "sweep"
  /\ main' = "report"
  /\ sweeping' = sweeping \ {Main}
  /\ UNCHANGED <<handler, handlerIn, tailIn, arrived, ending, taken, tailFirst,
                 code, sweeps, exited, exitCode>>
  /\ UNCHANGED streamVars

\* The summary's code, and 2 when a report cannot be written.
AnyFailed == \E i \in DOMAIN emitted : emitted[i].kind = "file_failed"
\* Slip: the code is that of the reports alone.
MainReportBlind ==
  /\ main = "report"
  /\ \E written \in BOOLEAN : code' = IF ~written THEN 2 ELSE 0
  /\ main' = "finish"
  /\ UNCHANGED <<handler, handlerIn, tailIn, arrived, ending, taken, tailFirst,
                 sweeping, sweeps, exited, exitCode>>
  /\ UNCHANGED streamVars

MainReport ==
  /\ main = "report"
  /\ \E written \in BOOLEAN :
        code' = IF ~written THEN 2 ELSE IF AnyFailed THEN 1 ELSE 0
  /\ main' = "finish"
  /\ UNCHANGED <<handler, handlerIn, tailIn, arrived, ending, taken, tailFirst,
                 sweeping, sweeps, exited, exitCode>>
  /\ UNCHANGED streamVars

\* events.finish on a blocking thread of the main task's.
MainFinish ==
  /\ main \in {"finish", "still_writing"}
  /\ FinishSend(Main, code) \/ FinishLock(Main) \/ FinishJoin(Main)
  /\ UNCHANGED endVars

\* The tail's select: the flush is over, or a first signal ...
MainFlushed ==
  /\ main \in {"finish", "still_writing"}
  /\ finisher[Main] \in {"ok", "error"}
  /\ code' = IF finisher[Main] = "error" THEN 2 ELSE code
  /\ main' = "leave"
  /\ UNCHANGED <<handler, handlerIn, tailIn, arrived, ending, taken, tailFirst,
                 sweeping, sweeps, exited, exitCode>>
  /\ UNCHANGED streamVars

TailFirst(k) ==
  /\ main = "finish"
  /\ k \in tailIn
  /\ tailIn' = tailIn \ {k}
  /\ tailFirst' = k
  /\ main' = "still_writing"
  /\ UNCHANGED <<handler, handlerIn, arrived, ending, taken, code, sweeping,
                 sweeps, exited, exitCode>>
  /\ UNCHANGED streamVars

\* ... and a second one, which exits with the first one's code.
TailSecond(k) ==
  /\ main = "still_writing"
  /\ k \in tailIn
  /\ Exit(CodeOf[tailFirst])
  /\ UNCHANGED <<main, handler, handlerIn, tailIn, arrived, ending, taken,
                 tailFirst, code, sweeping, sweeps>>
  /\ UNCHANGED streamVars

\* What telemetry still does ends, by itself or on a signal, with this code.
MainLeave ==
  /\ main = "leave"
  /\ Exit(code)
  /\ UNCHANGED <<main, handler, handlerIn, tailIn, arrived, ending, taken,
                 tailFirst, code, sweeping, sweeps>>
  /\ UNCHANGED streamVars

\* handle_interrupt: wait, then claim in the same poll.
HandlerWakes(k) ==
  /\ handler = "wait"
  /\ k \in handlerIn
  /\ handlerIn' = handlerIn \ {k}
  /\ taken' = k
  /\ handler' = "claim"
  /\ UNCHANGED <<main, tailIn, arrived, ending, tailFirst, code, sweeping,
                 sweeps, exited, exitCode>>
  /\ UNCHANGED streamVars

\* Slip: a handler that comes late gives up, after it has claimed the ending.
HandlerGivesUp ==
  /\ handler = "claim"
  /\ ending' = TRUE
  /\ IF ending \/ main # "pool"
     THEN /\ handler' = "gone"
          /\ UNCHANGED <<sweeping, sweeps>>
     ELSE /\ handler' = "sweep"
          /\ sweeping' = sweeping \cup {Handler}
          /\ sweeps' = sweeps + 1
  /\ UNCHANGED <<main, handlerIn, tailIn, arrived, taken, tailFirst, code,
                 exited, exitCode>>
  /\ UNCHANGED streamVars

HandlerClaim ==
  /\ handler = "claim"
  /\ ending' = TRUE
  /\ IF ending
     THEN /\ handler' = "gone"
          /\ UNCHANGED <<sweeping, sweeps>>
     ELSE IF HasPlugins
     THEN /\ handler' = "sweep"
          /\ sweeping' = sweeping \cup {Handler}
          /\ sweeps' = sweeps + 1
     ELSE /\ handler' = "finish"
          /\ UNCHANGED <<sweeping, sweeps>>
  /\ UNCHANGED <<main, handlerIn, tailIn, arrived, taken, tailFirst, code,
                 exited, exitCode>>
  /\ UNCHANGED streamVars

HandlerSwept ==
  /\ handler = "sweep"
  /\ handler' = "finish"
  /\ sweeping' = sweeping \ {Handler}
  /\ UNCHANGED <<main, handlerIn, tailIn, arrived, ending, taken, tailFirst,
                 code, sweeps, exited, exitCode>>
  /\ UNCHANGED streamVars

HandlerFinish ==
  /\ handler = "finish"
  /\ FinishSend(Handler, CodeOf[taken]) \/ FinishLock(Handler) \/ FinishJoin(Handler)
  /\ UNCHANGED endVars

\* Slip: the second signal's code is returned.
HandlerExitsSecond ==
  /\ \/ handler = "finish" /\ finisher[Handler] \in {"ok", "error"} /\ Exit(CodeOf[taken])
     \/ handler \in {"sweep", "finish"} /\ \E k \in handlerIn : Exit(CodeOf[k])
  /\ UNCHANGED <<main, handler, handlerIn, tailIn, arrived, ending, taken,
                 tailFirst, code, sweeping, sweeps>>
  /\ UNCHANGED streamVars

\* The cleanup is over, or a second signal won the select.
HandlerExit ==
  /\ \/ handler = "finish" /\ finisher[Handler] \in {"ok", "error"}
     \/ handler \in {"sweep", "finish"} /\ handlerIn # {}
  /\ Exit(CodeOf[taken])
  /\ UNCHANGED <<main, handler, handlerIn, tailIn, arrived, ending, taken,
                 tailFirst, code, sweeping, sweeps>>
  /\ UNCHANGED streamVars

MainStep == \/ Install \/ InstallTail \/ MainClaim \/ MainReport \/ MainFinish
            \/ MainFlushed \/ MainLeave \/ \E k \in Signals : TailFirst(k) \/ TailSecond(k)

HandlerStep == \/ HandlerClaim \/ HandlerFinish \/ HandlerExit
               \/ \E k \in Signals : HandlerWakes(k)

RunWriter == WriterStep /\ UNCHANGED endVars

RunNext ==
  /\ ~exited
  /\ \/ MainStep \/ HandlerStep \/ RunWriter
     \/ MainSwept \/ HandlerSwept \/ PoolDrains
     \/ \E p \in Producers : FileEmits(p)
     \/ \E k \in Signals : Signal(k)

\* The runtime polls both tasks, the writer runs, every file ends.
Polled == /\ WF_runVars(~exited /\ MainStep)
          /\ WF_runVars(~exited /\ HandlerStep)
          /\ WF_runVars(~exited /\ RunWriter)
          /\ WF_runVars(~exited /\ PoolDrains)

\* Besides, every plugin answers bddkit_drop_instance.
PluginsAnswer == /\ WF_runVars(~exited /\ MainSwept)
                 /\ WF_runVars(~exited /\ HandlerSwept)

\* A plugin may hang in its drop; everything else is scheduled.
RunSpec == RunInit /\ [][RunNext]_runVars /\ Polled

HealthySpec == RunSpec /\ PluginsAnswer
-----------------------------------------------------------------------------
\* claim_end: the plugin shutdown, the terminator and the exit belong to one
\* task; Plugins::shutdown is never called twice and one terminator is sent.
OneEnding ==
  /\ sweeps <= 1
  /\ ~(finisher[Main] # "idle" /\ finisher[Handler] # "idle")
  /\ main \in {"sweep", "report", "finish", "still_writing", "leave"} =>
       handler \in {"wait", "claim", "gone"}

Closed == Log!Closed(Sent(disk))

\* The last line says how the run ended: a signal's code only when the handler
\* owns the ending, and otherwise 0 only over totals without a failed file.
LastLineTells ==
  Closed =>
    LET last == Last(disk) IN
    /\ last.event.from = Handler <=> last.event.exit >= 128
    /\ last.event.from = Main => /\ last.event.exit = 0 => last.totals[2] = 0
                                 /\ last.event.exit = 1 => last.totals[2] > 0

\* The exit code: without a signal, or with one that came after the run's own
\* ending, it is the run's; an interrupted run exits with a signal that was
\* sent, and only two signals can turn a settled code into 128+N.
ExitCodeRule ==
  exited =>
    /\ arrived = <<>> => exitCode = code
    /\ exitCode >= 128 => \E i \in DOMAIN arrived : exitCode = CodeOf[arrived[i]]
    /\ exitCode >= 128 /\ main # "before_install" /\ finisher[Main] # "idle" => Len(arrived) >= 2
    /\ handler \in {"sweep", "finish"} => exitCode = CodeOf[taken]

\* A stream without run_finished means the process was killed, a second
\* signal, or a write error, which the exit code reports (2) unless a signal
\* ended the run.
CutShortExplained ==
  exited /\ ~Closed =>
    \/ main = "before_install"
    \/ Len(arrived) >= 2
    \/ failed /\ exitCode \in {2} \cup {CodeOf[k] : k \in Signals}

\* Every run ends when plugins and files answer.
RunEnds == <>exited

\* The stream tells how the run ended, or its exit code does.
EndTold == LastLineTells /\ CutShortExplained
=============================================================================
