----------------------------- MODULE EventStream ----------------------------
(***************************************************************************)
(* events.rs: the --events stream.  Emitters on any thread stamp an event  *)
(* with the time and send it into an unbounded channel; one writer thread  *)
(* receives, encodes (Tally: seq, a clamped t, the totals), batches, and   *)
(* writes and flushes a batch at a time.  Events::finish sends the         *)
(* terminator and joins the writer under the lock of its handle.           *)
(***************************************************************************)
EXTENDS Naturals, FiniteSets, Sequences, SequencesExt

CONSTANTS Producers,   \* file tasks and workers that emit
          Workers,     \* those of them that emit file_finished
          Finishers,   \* callers of Events::finish
          EmitLimit,   \* bound: events emitted in all
          MaxClock,    \* bound: the clock stops there
          BatchLimit,  \* BATCH_LIMIT, in events
          MayFail      \* the target can refuse a write

ASSUME WorkersAssumption == Workers \subseteq Producers
ASSUME EmitLimitAssumption == EmitLimit \in Nat
ASSUME MaxClockAssumption == MaxClock \in Nat
ASSUME BatchLimitAssumption == BatchLimit \in Nat \ {0}
ASSUME MayFailAssumption == MayFail \in BOOLEAN
ASSUME SeparateActors == Producers \cap Finishers = {}

VARIABLES clock,     \* milliseconds since Events::start
          emits,     \* events each producer has emitted
          lastT,     \* the last t each producer stamped
          chan,      \* the channel
          writer,    \* the writer thread: "recv", "drain", "write", "ended"
          closing,   \* the terminator is in the batch
          batch,     \* encoded lines not yet written
          tally,     \* Tally: seq, t, files, failed
          disk,      \* lines a reader can see
          failed,    \* the first write error is kept here
          finisher,  \* each finisher: "idle", "sent", "joining", "ok", "error"
          handle,    \* the writer's JoinHandle is still in the mutex
          emitted    \* history: every event the channel accepted

streamVars == <<clock, emits, lastT, chan, writer, closing, batch, tally, disk,
                failed, finisher, handle, emitted>>

\* An event as it is sent: who sent it, the how-manieth of theirs it is, the
\* kind, the time stamped, and for run_finished the exit it announces.
Event(from, n, kind, t, exit) ==
  [from |-> from, n |-> n, kind |-> kind, t |-> t, exit |-> exit]

FileFinished == {"file_passed", "file_failed"}
Kinds == {"line"} \cup FileFinished
KindsOf(p) == IF p \in Workers THEN FileFinished ELSE {"line"}
Terminator == "run_finished"

StreamInit ==
  /\ clock = 0
  /\ emits = [p \in Producers |-> 0]
  /\ lastT = [p \in Producers |-> 0]
  /\ chan = <<>>
  /\ writer = "recv"
  /\ closing = FALSE
  /\ batch = <<>>
  /\ tally = [seq |-> 0, t |-> 0, files |-> 0, failed |-> 0]
  /\ disk = <<>>
  /\ failed = FALSE
  /\ finisher = [x \in Finishers |-> "idle"]
  /\ handle = TRUE
  /\ emitted = <<>>

Tick == /\ clock < MaxClock
        /\ clock' = clock + 1
        /\ UNCHANGED <<emits, lastT, chan, writer, closing, batch, tally, disk,
                       failed, finisher, handle, emitted>>

\* tx.send: once the writer has returned the receiver is gone and the error
\* is ignored.
Send(e) == IF writer = "ended"
           THEN UNCHANGED <<chan, emitted>>
           ELSE /\ chan' = Append(chan, e)
                /\ emitted' = Append(emitted, e)

\* Events::emit.  The envelope reads the clock before the send, so another
\* emitter can get between the two: t is any time since the last one.
Emit(p) ==
  /\ SumFunction(emits) < EmitLimit
  /\ emits' = [emits EXCEPT ![p] = @ + 1]
  /\ \E t \in lastT[p]..clock, kind \in KindsOf(p) :
        /\ lastT' = [lastT EXCEPT ![p] = t]
        /\ Send(Event(p, emits[p] + 1, kind, t, 0))
  /\ UNCHANGED <<clock, writer, closing, batch, tally, disk, failed, finisher, handle>>

\* Events::finish, first half: send the terminator (its stamp is the clock:
\* an earlier one is clamped to the last line's in any case).
FinishSend(x, exit) ==
  /\ finisher[x] = "idle"
  /\ finisher' = [finisher EXCEPT ![x] = "sent"]
  /\ Send(Event(x, 1, Terminator, clock, exit))
  /\ UNCHANGED <<clock, emits, lastT, writer, closing, batch, tally, disk, failed, handle>>

\* Slip: the handle is taken out of the lock before it is joined.
FinishTakes(x) ==
  /\ finisher[x] = "sent"
  /\ finisher' = [finisher EXCEPT ![x] = IF handle THEN "joining" ELSE "ok"]
  /\ handle' = FALSE
  /\ UNCHANGED <<clock, emits, lastT, chan, writer, closing, batch, tally, disk,
                 failed, emitted>>

\* Events::finish, second half: the lock is held while the writer is joined,
\* so a later caller waits for the same flush and then finds no handle.
FinishLock(x) ==
  /\ finisher[x] = "sent"
  /\ \A y \in Finishers : finisher[y] # "joining"
  /\ finisher' = [finisher EXCEPT ![x] = IF handle THEN "joining" ELSE "ok"]
  /\ handle' = FALSE
  /\ UNCHANGED <<clock, emits, lastT, chan, writer, closing, batch, tally, disk,
                 failed, emitted>>

FinishJoin(x) ==
  /\ finisher[x] = "joining"
  /\ writer = "ended"
  /\ finisher' = [finisher EXCEPT ![x] = IF failed THEN "error" ELSE "ok"]
  /\ UNCHANGED <<clock, emits, lastT, chan, writer, closing, batch, tally, disk,
                 failed, handle, emitted>>

\* Tally::encode: seq counts lines, t never goes back, run_finished carries
\* the totals of the file_finished lines before it.
Count(kind) == [tally EXCEPT !.seq = @ + 1,
                             !.t = Max({@, Head(chan).t}),
                             !.files = IF kind \in FileFinished THEN @ + 1 ELSE @,
                             !.failed = IF kind = "file_failed" THEN @ + 1 ELSE @]

Line(e, count) ==
  [event |-> e, seq |-> count.seq - 1, t |-> count.t,
   totals |-> IF e.kind = Terminator THEN <<count.files, count.failed>> ELSE <<>>]

Encode ==
  LET e == Head(chan)
      count == Count(e.kind)
  IN  /\ tally' = count
      /\ batch' = Append(batch, Line(e, count))
      /\ closing' = (e.kind = Terminator)
      /\ chan' = Tail(chan)

\* rx.recv()
Receive ==
  /\ writer = "recv"
  /\ chan # <<>>
  /\ Encode
  /\ writer' = "drain"
  /\ UNCHANGED <<clock, emits, lastT, disk, failed, finisher, handle, emitted>>

\* rx.try_recv() until the terminator, a full batch or an empty channel
Drain ==
  /\ writer = "drain"
  /\ IF closing \/ Len(batch) >= BatchLimit \/ chan = <<>>
     THEN /\ writer' = "write"
          /\ UNCHANGED <<chan, batch, tally, closing>>
     ELSE /\ Encode
          /\ UNCHANGED writer
  /\ UNCHANGED <<clock, emits, lastT, disk, failed, finisher, handle, emitted>>

\* Slip: the writer goes on writing after an error.
WriteOn ==
  \/ disk' = disk \o batch /\ UNCHANGED failed
  \/ /\ MayFail
     /\ \E k \in 0..(Len(batch) - 1) : disk' = disk \o SubSeq(batch, 1, k)
     /\ failed' = TRUE

\* write_all and flush (a file's flush never fails).  A write that fails leaves
\* a proper prefix of the batch, and nothing is written after it; the writer
\* goes on draining.
WriteOut ==
  \/ /\ ~failed
     /\ disk' = disk \o batch
     /\ UNCHANGED failed
  \/ /\ ~failed /\ MayFail
     /\ \E k \in 0..(Len(batch) - 1) : disk' = disk \o SubSeq(batch, 1, k)
     /\ failed' = TRUE
  \/ /\ failed
     /\ UNCHANGED <<disk, failed>>

\* Slip: the terminator does not end the loop.
WriteForever ==
  /\ writer = "write"
  /\ WriteOut
  /\ batch' = <<>>
  /\ writer' = "recv"
  /\ UNCHANGED <<clock, emits, lastT, chan, closing, tally, finisher, handle, emitted>>

Write ==
  /\ writer = "write"
  /\ WriteOut
  /\ batch' = <<>>
  /\ writer' = IF closing THEN "ended" ELSE "recv"
  /\ UNCHANGED <<clock, emits, lastT, chan, closing, tally, finisher, handle, emitted>>

WriterStep == Receive \/ Drain \/ Write

StreamNext == \/ Tick
              \/ \E p \in Producers : Emit(p)
              \/ \E x \in Finishers : FinishSend(x, 0) \/ FinishLock(x) \/ FinishJoin(x)
              \/ WriterStep

\* The writer thread keeps running (the target takes or refuses every write)
\* and finish runs on a blocking thread of its own.
StreamFairness == /\ WF_streamVars(WriterStep)
                  /\ \A x \in Finishers : WF_streamVars(FinishLock(x) \/ FinishJoin(x))

StreamSpec == StreamInit /\ [][StreamNext]_streamVars /\ StreamFairness
-----------------------------------------------------------------------------
Events == [from : Producers \cup Finishers, n : Nat, kind : Kinds \cup {Terminator},
           t : Nat, exit : Nat]

StreamTypeOK ==
  /\ clock \in 0..MaxClock
  /\ emits \in [Producers -> 0..EmitLimit]
  /\ lastT \in [Producers -> 0..MaxClock]
  /\ chan \in Seq(Events)
  /\ emitted \in Seq(Events)
  /\ writer \in {"recv", "drain", "write", "ended"}
  /\ closing \in BOOLEAN
  /\ tally \in [seq : Nat, t : Nat, files : Nat, failed : Nat]
  /\ \A s \in {batch, disk} : \A i \in DOMAIN s : s[i].event \in Events
  /\ failed \in BOOLEAN
  /\ finisher \in [Finishers -> {"idle", "sent", "joining", "ok", "error"}]
  /\ handle \in BOOLEAN

\* The writer, its batches and its failures implement the log a reader is
\* promised: a prefix of what was emitted, closed by run_finished.
Sent(s) == [i \in DOMAIN s |-> s[i].event]
Log == INSTANCE EventLog WITH
  IsTerminator <- LAMBDA e : e.kind = Terminator,
  disk <- Sent(disk)
ImplementsEventLog == Log!Spec

\* What Tally promises of every line on disk: seq is dense from 0, t never
\* goes backwards although emitters stamp on their own threads, and the
\* totals of run_finished are those of the file_finished lines above it.
FilesAbove(i, kinds) == {j \in 1..(i - 1) : disk[j].event.kind \in kinds}
LinesTally ==
  \A i \in DOMAIN disk :
    /\ disk[i].seq = i - 1
    /\ i > 1 => disk[i - 1].t <= disk[i].t
    /\ disk[i].event.t <= disk[i].t
    /\ disk[i].event.kind = Terminator =>
         disk[i].totals = <<Cardinality(FilesAbove(i, FileFinished)),
                            Cardinality(FilesAbove(i, {"file_failed"}))>>

\* finish returns, to every caller, only once the writer is done; Ok to the
\* caller that joined it means the terminator and everything before it is on
\* disk, and only an error lets a line be missing.  A failed write is reported:
\* to the caller whose terminator closed the stream or to whoever joins first.
FinishFlushes ==
  /\ \A x \in Finishers : finisher[x] \in {"ok", "error"} =>
       /\ writer = "ended"
       /\ failed \/ (Log!Closed(Sent(disk)) /\ IsPrefix(Sent(disk), emitted))
       /\ finisher[x] = "error" => failed
  /\ (\A x \in Finishers : finisher[x] \in {"ok", "error"}) /\ failed /\ Finishers # {}
       => \E x \in Finishers : finisher[x] = "error"

\* What a reader who waits for finish can rely on: the lines are numbered and
\* timed and all there, or one of the callers was told an error.
StreamReads == LinesTally /\ FinishFlushes

\* Every call of finish returns: the terminator ends the writer's loop
\* although emitters go on sending.
FinishReturns ==
  \A x \in Finishers : finisher[x] = "sent" ~> finisher[x] \in {"ok", "error"}
=============================================================================
