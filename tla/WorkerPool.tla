----------------------------- MODULE WorkerPool -----------------------------
(***************************************************************************)
(* runner::run_all: the pool that runs the queue of chains.                *)
(*                                                                         *)
(* A worker loops: is the run stopped, claim a chain with fetch_add on the *)
(* cursor, and for every file of the chain: is the run stopped, spawn      *)
(* run_file as a task and await it, emit file_finished, arm the stop when  *)
(* the file failed under --fail-fast, push the result under the results    *)
(* lock.  run_all spawns the workers, joins them and takes the results.    *)
(*                                                                         *)
(* The stop flag is stored and loaded with Ordering::Relaxed: a load may   *)
(* miss a store of another thread until something orders the two.  The     *)
(* model keeps, for each worker, whether it is bound to observe the flag   *)
(* (seen) and whether the results mutex carries it (lockSeen).             *)
(***************************************************************************)
EXTENDS Naturals, FiniteSets, Sequences

CONSTANTS Files,        \* the loaded files
          ChainQueues,  \* the queues a run may start with
          Concurrency,  \* the config's concurrency; 0 is legal
          FailFast      \* --fail-fast

Verdicts == {"passed", "failed", "panicked"}

\* Every file is in one place of the queue.
IsQueue(q) ==
  /\ q \in Seq(Seq(Files))
  /\ \A f \in Files : \E i \in DOMAIN q : \E k \in DOMAIN q[i] : q[i][k] = f
  /\ \A i, j \in DOMAIN q : \A k \in DOMAIN q[i], l \in DOMAIN q[j] :
        q[i][k] = q[j][l] => i = j /\ k = l

ASSUME QueueAssumption == \A q \in ChainQueues : IsQueue(q)
ASSUME ConcurrencyAssumption == Concurrency \in Nat
ASSUME FailFastAssumption == FailFast \in BOOLEAN

VARIABLES chains,    \* the queue, fixed for the run
          cursor,    \* AtomicUsize: chains claimed so far
          spawned,   \* workers spawned so far
          pc,        \* where each worker is in its loop
          chain,     \* index of the chain each worker holds
          pos,       \* position in that chain
          status,    \* each file: "waiting", "running" or its verdict
          closed,    \* files whose file_finished was emitted
          results,   \* the vector behind the mutex
          stop,      \* AtomicBool, Relaxed
          seen,      \* workers bound to observe stop
          lockSeen,  \* a thread that saw stop has released the results lock
          returned,  \* run_all has returned (results is then what it returned)
          pushed     \* history: Len(results) after each worker's last push

vars == <<chains, cursor, spawned, pc, chain, pos, status, closed, results,
          stop, seen, lockSeen, returned, pushed>>

\* worker_count: no more workers than chains, never fewer than one.
AtLeastOne(n) == IF n = 0 THEN 1 ELSE n
Slots == 1..AtLeastOne(Concurrency)
WorkerCount == IF AtLeastOne(Concurrency) <= AtLeastOne(Len(chains))
               THEN AtLeastOne(Concurrency) ELSE AtLeastOne(Len(chains))

\* The file a worker is on.
File(w) == chains[chain[w]][pos[w]]

Init ==
  /\ chains \in ChainQueues
  /\ cursor = 0
  /\ spawned = 0
  /\ pc = [w \in Slots |-> "unspawned"]
  /\ chain = [w \in Slots |-> 0]
  /\ pos = [w \in Slots |-> 0]
  /\ status = [f \in Files |-> "waiting"]
  /\ closed = {}
  /\ results = <<>>
  /\ stop = FALSE
  /\ seen = [w \in Slots |-> FALSE]
  /\ lockSeen = FALSE
  /\ returned = FALSE
  /\ pushed = [w \in Slots |-> 0]

\* ctx.stopped(): TRUE only when the flag is set, FALSE unless this worker is
\* already bound to see it.
Loads(w, b) ==
  /\ b => stop
  /\ ~b => ~seen[w]
  /\ seen' = [seen EXCEPT ![w] = b \/ @]

SpawnWorker ==
  /\ spawned < WorkerCount
  /\ spawned' = spawned + 1
  /\ pc' = [pc EXCEPT ![spawned + 1] = "top"]
  /\ UNCHANGED <<chains, cursor, chain, pos, status, closed, results,
                 stop, seen, lockSeen, returned, pushed>>

\* loop { if ctx.stopped() { break } ...
CheckStop(w) ==
  /\ pc[w] = "top"
  /\ \E b \in BOOLEAN : /\ Loads(w, b)
                        /\ pc' = [pc EXCEPT ![w] = IF b THEN "done" ELSE "claim"]
  /\ UNCHANGED <<chains, cursor, spawned, chain, pos, status, closed, results,
                 stop, lockSeen, returned, pushed>>

\* Slip: load and store in place of fetch_add, so the index can be stale.
ClaimStale(w) ==
  /\ pc[w] = "claim"
  /\ cursor' = cursor + 1
  /\ \E index \in {cursor, cursor - 1} \cap Nat :
       IF index < Len(chains)
       THEN /\ chain' = [chain EXCEPT ![w] = index + 1]
            /\ pos' = [pos EXCEPT ![w] = 1]
            /\ pc' = [pc EXCEPT ![w] = "next"]
       ELSE /\ pc' = [pc EXCEPT ![w] = "done"]
            /\ UNCHANGED <<chain, pos>>
  /\ UNCHANGED <<chains, spawned, status, closed, results, stop, seen,
                 lockSeen, returned, pushed>>

\* let index = cursor.fetch_add(1); chains.get(index) or break
Claim(w) ==
  /\ pc[w] = "claim"
  /\ cursor' = cursor + 1
  /\ IF cursor < Len(chains)
     THEN /\ chain' = [chain EXCEPT ![w] = cursor + 1]
          /\ pos' = [pos EXCEPT ![w] = 1]
          /\ pc' = [pc EXCEPT ![w] = "next"]
     ELSE /\ pc' = [pc EXCEPT ![w] = "done"]
          /\ UNCHANGED <<chain, pos>>
  /\ UNCHANGED <<chains, spawned, status, closed, results, stop, seen,
                 lockSeen, returned, pushed>>

\* The for loop is over: back to the top for another chain.
ChainOver(w) ==
  /\ pc[w] = "next"
  /\ pos[w] > Len(chains[chain[w]])
  /\ pc' = [pc EXCEPT ![w] = "top"]
  /\ UNCHANGED <<chains, cursor, spawned, chain, pos, status, closed, results,
                 stop, seen, lockSeen, returned, pushed>>

\* Slip: `continue` in place of `break`, over a position that does not move.
ContinueChain(w) ==
  /\ pc[w] = "next"
  /\ pos[w] <= Len(chains[chain[w]])
  /\ Loads(w, TRUE)
  /\ UNCHANGED <<chains, cursor, spawned, pc, chain, pos, status, closed, results,
                 stop, lockSeen, returned, pushed>>

\* if ctx.stopped() { break } inside the for loop
BreakChain(w) ==
  /\ pc[w] = "next"
  /\ pos[w] <= Len(chains[chain[w]])
  /\ Loads(w, TRUE)
  /\ pc' = [pc EXCEPT ![w] = "top"]
  /\ UNCHANGED <<chains, cursor, spawned, chain, pos, status, closed, results,
                 stop, lockSeen, returned, pushed>>

\* tokio::spawn(run_file(..))
StartFile(w) ==
  /\ pc[w] = "next"
  /\ pos[w] <= Len(chains[chain[w]])
  /\ Loads(w, FALSE)
  /\ status' = [status EXCEPT ![File(w)] = "running"]
  /\ pc' = [pc EXCEPT ![w] = "run"]
  /\ UNCHANGED <<chains, cursor, spawned, chain, pos, closed, results, stop,
                 lockSeen, returned, pushed>>

\* task.await: the file's own result, or panicked_file for a JoinError
FinishFile(w) ==
  /\ pc[w] = "run"
  /\ \E v \in Verdicts : status' = [status EXCEPT ![File(w)] = v]
  /\ pc' = [pc EXCEPT ![w] = "emit"]
  /\ UNCHANGED <<chains, cursor, spawned, chain, pos, closed, results, stop,
                 seen, lockSeen, returned, pushed>>

\* events.emit("file_finished", ..)
EmitFinished(w) ==
  /\ pc[w] = "emit"
  /\ closed' = closed \cup {File(w)}
  /\ pc' = [pc EXCEPT ![w] = "judge"]
  /\ UNCHANGED <<chains, cursor, spawned, chain, pos, status, results, stop,
                 seen, lockSeen, returned, pushed>>

\* Slip: under --fail-fast a failed file breaks out before its result is pushed.
JudgeAndLeave(w) ==
  /\ pc[w] = "judge"
  /\ IF status[File(w)] # "passed" /\ FailFast
     THEN /\ stop' = TRUE
          /\ seen' = [seen EXCEPT ![w] = TRUE]
          /\ pc' = [pc EXCEPT ![w] = "done"]
     ELSE /\ pc' = [pc EXCEPT ![w] = "collect"]
          /\ UNCHANGED <<stop, seen>>
  /\ UNCHANGED <<chains, cursor, spawned, chain, pos, status, closed, results,
                 lockSeen, returned, pushed>>

\* Slip: only scenarios that failed arm --fail-fast, a panic does not.
JudgeForgivesPanic(w) ==
  /\ pc[w] = "judge"
  /\ IF status[File(w)] = "failed" /\ FailFast
     THEN /\ stop' = TRUE
          /\ seen' = [seen EXCEPT ![w] = TRUE]
     ELSE UNCHANGED <<stop, seen>>
  /\ pc' = [pc EXCEPT ![w] = "collect"]
  /\ UNCHANGED <<chains, cursor, spawned, chain, pos, status, closed, results,
                 lockSeen, returned, pushed>>

\* if result.failed() > 0 { ctx.request_stop() }; a panic counts as a failure
JudgeFile(w) ==
  /\ pc[w] = "judge"
  /\ IF status[File(w)] # "passed" /\ FailFast
     THEN /\ stop' = TRUE
          /\ seen' = [seen EXCEPT ![w] = TRUE]
     ELSE UNCHANGED <<stop, seen>>
  /\ pc' = [pc EXCEPT ![w] = "collect"]
  /\ UNCHANGED <<chains, cursor, spawned, chain, pos, status, closed, results,
                 lockSeen, returned, pushed>>

\* lock the results, print and push; the mutex carries the stop flag from
\* the thread that released it to the thread that takes it
CollectResult(w) ==
  /\ pc[w] = "collect"
  /\ results' = Append(results, File(w))
  /\ seen' = [seen EXCEPT ![w] = @ \/ lockSeen]
  /\ lockSeen' = (lockSeen \/ seen[w])
  /\ pos' = [pos EXCEPT ![w] = @ + 1]
  /\ pc' = [pc EXCEPT ![w] = "next"]
  /\ pushed' = [pushed EXCEPT ![w] = Len(results) + 1]
  /\ UNCHANGED <<chains, cursor, spawned, chain, status, closed, stop, returned>>

\* Every handle joined: take the results.
Return ==
  /\ ~returned
  /\ spawned = WorkerCount
  /\ \A w \in 1..spawned : pc[w] = "done"
  /\ returned' = TRUE
  /\ UNCHANGED <<chains, cursor, spawned, pc, chain, pos, status, closed, results,
                 stop, seen, lockSeen, pushed>>

\* The interrupt handler's force_stop, at any point of the run.
ForceStop ==
  /\ ~returned
  /\ ~stop
  /\ stop' = TRUE
  /\ UNCHANGED <<chains, cursor, spawned, pc, chain, pos, status, closed,
                 results, seen, lockSeen, returned, pushed>>

WorkerStep(w) ==
  \/ CheckStop(w) \/ Claim(w) \/ ChainOver(w) \/ BreakChain(w) \/ StartFile(w)
  \/ FinishFile(w) \/ EmitFinished(w) \/ JudgeFile(w) \/ CollectResult(w)

Next == SpawnWorker \/ Return \/ ForceStop \/ \E w \in Slots : WorkerStep(w)

Spec == Init /\ [][Next]_vars

\* The tokio runtime keeps polling the workers and the task that joins them,
\* and every file task ends.  Nothing obliges a signal to arrive.
Fairness == /\ WF_vars(SpawnWorker)
            /\ WF_vars(Return)
            /\ \A w \in Slots : WF_vars(WorkerStep(w))

FairSpec == Spec /\ Fairness
-----------------------------------------------------------------------------
Holding == {"next", "run", "emit", "judge", "collect"}

TypeOK ==
  /\ IsQueue(chains)
  /\ cursor \in Nat
  /\ spawned \in 0..WorkerCount
  /\ pc \in [Slots -> Holding \cup {"unspawned", "top", "claim", "done"}]
  /\ chain \in [Slots -> Nat]
  /\ pos \in [Slots -> Nat]
  /\ status \in [Files -> Verdicts \cup {"waiting", "running"}]
  /\ closed \in SUBSET Files
  /\ results \in Seq(Files)
  /\ stop \in BOOLEAN
  /\ seen \in [Slots -> BOOLEAN]
  /\ lockSeen \in BOOLEAN
  /\ returned \in BOOLEAN
  /\ pushed \in [Slots -> Nat]

\* run_all's cursor hands a chain to one worker only, even when every worker
\* races for the last one.
ChainExclusive ==
  \A v, w \in Slots :
    v # w /\ pc[v] \in Holding /\ pc[w] \in Holding => chain[v] # chain[w]

\* The workers, the cursor and the stop flag implement the abstract scheduler:
\* a file starts once, after the files ahead of it in its chain are over, in
\* a slot that is free.
Abstract == INSTANCE Scheduler WITH
  slot <- [w \in Slots |-> IF pc[w] = "run" THEN {File(w)} ELSE {}],
  state <- status
ImplementsScheduler == Abstract!Spec

\* What run_all returns: one result and one file_finished for every file that
\* was started, and a file that was not is explained by the stop flag.
InSeq(f, s) == {k \in DOMAIN s : s[k] = f}
NothingLost ==
  returned =>
    /\ \A f \in Files : status[f] # "waiting" => Cardinality(InSeq(f, results)) = 1
    /\ closed = {f \in Files : status[f] # "waiting"}
    /\ \A f \in Files : status[f] \in Verdicts \cup {"waiting"}
    /\ (\E f \in Files : status[f] = "waiting") => stop

\* --fail-fast with a Relaxed flag: a worker that has pushed a result behind a
\* failed one, its own or another worker's, starts nothing more.
NoStartBehindFailure ==
  [][\A w \in Slots :
       FailFast /\ pc[w] = "next" /\ pc'[w] = "run" =>
         \A k \in 1..pushed[w] : status[results[k]] = "passed"]_vars

\* The run ends: every worker leaves its loop and the results are returned.
Drains == <>returned
=============================================================================
