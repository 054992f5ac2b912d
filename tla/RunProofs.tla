----------------------------- MODULE RunProofs ------------------------------
(***************************************************************************)
(* A run, from the queue its files are taken from to its exit code.        *)
(*                                                                         *)
(* First what build_chains and run_all guarantee for every selection of    *)
(* files, every tagging of them, every concurrency and both settings of    *)
(* --fail-fast.  The argument is the ownership of chains: fetch_add gives  *)
(* a chain to one worker, so the status of its files is written by that    *)
(* worker only and can be read off its position (PoolInv).  From there the *)
(* pool refines Scheduler.  A second invariant (StopInv) follows the       *)
(* relaxed stop flag through the results lock.  Then the queue itself:     *)
(* what build_chains makes of the tags is a queue (ChainsAreAQueue), and   *)
(* the order of its chains and of a chain's files, which the pool keeps    *)
(* (ChainProgress), is the one the tags ask for (TagsAreHonoured).         *)
(*                                                                         *)
(* Then how a run ends, for any signals and any number of them and any     *)
(* order in which the main task, the handler and the writer are scheduled: *)
(* the event stream keeps its promise to a reader, one task ends the run,  *)
(* and the last line and the exit code tell how it ended.                  *)
(***************************************************************************)
EXTENDS Scheduling, RunEnd, FiniteSetTheorems, TLAPS

\* A worker that is on a file, as opposed to between files.
Busy == {"run", "emit", "judge", "collect"}

\* The chain a worker holds was claimed, and its position is in it or just
\* past its end.
HoldsChain ==
  \A w \in Slots : pc[w] \in Holding =>
    /\ chain[w] \in 1..Len(chains)
    /\ chain[w] <= cursor
    /\ pos[w] \in 1..(Len(chains[chain[w]]) + 1)
    /\ pc[w] \in Busy => pos[w] <= Len(chains[chain[w]])

\* Workers are spawned in the order of their numbers.
SpawnOrder == \A w \in Slots : w > spawned => pc[w] = "unspawned"

\* No file of a chain nobody claimed has been started.
UnclaimedWaits ==
  \A i \in 1..Len(chains) : i > cursor =>
    \A k \in 1..Len(chains[i]) : status[chains[i][k]] = "waiting"

\* The files of a held chain: over before the position, waiting behind it, and
\* at the position whatever the worker's program counter says.
HeldStatus ==
  \A w \in Slots : pc[w] \in Holding =>
    \A k \in 1..Len(chains[chain[w]]) :
      LET s == status[chains[chain[w]][k]] IN
      /\ k < pos[w] => s \in Verdicts
      /\ k > pos[w] => s = "waiting"
      /\ k = pos[w] => /\ pc[w] = "next" => s = "waiting"
                       /\ pc[w] = "run" => s = "running"
                       /\ pc[w] \in {"emit", "judge", "collect"} => s \in Verdicts

PoolInv == /\ TypeOK
           /\ ChainExclusive
           /\ HoldsChain
           /\ SpawnOrder
           /\ UnclaimedWaits
           /\ HeldStatus
-----------------------------------------------------------------------------
\* The queue as arithmetic: lengths are naturals, every place holds a file and
\* every file is in exactly one.
LEMMA QueueFacts ==
  ASSUME IsQueue(chains)
  PROVE  /\ Len(chains) \in Nat
         /\ \A i \in 1..Len(chains) : Len(chains[i]) \in Nat
         /\ \A i \in 1..Len(chains) : \A k \in 1..Len(chains[i]) : chains[i][k] \in Files
         /\ \A i, j \in 1..Len(chains) :
              \A k \in 1..Len(chains[i]), l \in 1..Len(chains[j]) :
                chains[i][k] = chains[j][l] => i = j /\ k = l
         /\ \A f \in Files : \E i \in 1..Len(chains) : \E k \in 1..Len(chains[i]) :
              chains[i][k] = f
<1>1. chains \in Seq(Seq(Files))
  BY DEF IsQueue
<1>2. /\ Len(chains) \in Nat
      /\ DOMAIN chains = 1..Len(chains)
      /\ \A i \in 1..Len(chains) : chains[i] \in Seq(Files)
  BY <1>1
<1>3. \A i \in 1..Len(chains) : /\ Len(chains[i]) \in Nat
                                /\ DOMAIN chains[i] = 1..Len(chains[i])
                                /\ \A k \in 1..Len(chains[i]) : chains[i][k] \in Files
  BY <1>2
<1>4. ASSUME NEW i \in 1..Len(chains), NEW j \in 1..Len(chains),
             NEW k \in 1..Len(chains[i]), NEW l \in 1..Len(chains[j]),
             chains[i][k] = chains[j][l]
      PROVE  i = j /\ k = l
  <2>1. i \in DOMAIN chains /\ j \in DOMAIN chains
    BY <1>2
  <2>2. k \in DOMAIN chains[i] /\ l \in DOMAIN chains[j]
    BY <1>3
  <2> QED
    BY <2>1, <2>2, <1>4 DEF IsQueue
<1>5. ASSUME NEW f \in Files
      PROVE  \E i \in 1..Len(chains) : \E k \in 1..Len(chains[i]) : chains[i][k] = f
  <2>1. PICK i \in DOMAIN chains : \E k \in DOMAIN chains[i] : chains[i][k] = f
    BY DEF IsQueue
  <2> QED
    BY <1>2, <1>3, <2>1
<1> QED
  BY <1>2, <1>3, <1>4, <1>5

\* worker_count: at least one worker, and never more than there are slots.
LEMMA WorkerCountFacts ==
  ASSUME Len(chains) \in Nat
  PROVE  /\ Slots \subseteq Nat \ {0}
         /\ WorkerCount \in Nat \ {0}
         /\ 1..WorkerCount \subseteq Slots
<1>1. \A n \in Nat : AtLeastOne(n) \in Nat /\ AtLeastOne(n) >= 1
  BY DEF AtLeastOne
<1>2. /\ AtLeastOne(Concurrency) \in Nat /\ AtLeastOne(Concurrency) >= 1
      /\ AtLeastOne(Len(chains)) \in Nat /\ AtLeastOne(Len(chains)) >= 1
  BY <1>1, ConcurrencyAssumption
<1>3. /\ WorkerCount \in Nat /\ WorkerCount >= 1
      /\ WorkerCount <= AtLeastOne(Concurrency)
  BY <1>2 DEF WorkerCount
<1>4. \A w \in Slots : w \in Nat \ {0}
  BY <1>2 DEF Slots
<1>5. \A w \in 1..WorkerCount : w \in Slots
  BY <1>2, <1>3 DEF Slots
<1> QED
  BY <1>3, <1>4, <1>5

\* The file a busy worker is on is a file.
LEMMA FileOfWorker ==
  ASSUME IsQueue(chains), HoldsChain, NEW w \in Slots, pc[w] \in Holding,
         pos[w] <= Len(chains[chain[w]])
  PROVE  File(w) \in Files
<1>1. /\ chain[w] \in 1..Len(chains)
      /\ pos[w] \in 1..(Len(chains[chain[w]]) + 1)
  BY DEF HoldsChain
<1>2. pos[w] \in 1..Len(chains[chain[w]])
  BY <1>1, QueueFacts
<1> QED
  BY <1>1, <1>2, QueueFacts DEF File

\* run_all starts with every worker unspawned and every file waiting.
LEMMA InitPoolInv == Init => PoolInv
<1> SUFFICES ASSUME Init PROVE PoolInv
  OBVIOUS
<1>1. IsQueue(chains)
  BY QueueAssumption DEF Init
<1>2. WorkerCount \in Nat
  BY <1>1, QueueFacts, WorkerCountFacts
<1>3. TypeOK
  <2>1. results \in Seq(Files) /\ spawned \in 0..WorkerCount
    BY <1>2 DEF Init
  <2>2. /\ pc \in [Slots -> Holding \cup {"unspawned", "top", "claim", "done"}]
        /\ status \in [Files -> Verdicts \cup {"waiting", "running"}]
    BY DEF Init
  <2>3. /\ cursor \in Nat /\ chain \in [Slots -> Nat] /\ pos \in [Slots -> Nat]
        /\ pushed \in [Slots -> Nat]
    BY DEF Init
  <2> QED
    BY <1>1, <2>1, <2>2, <2>3 DEF Init, TypeOK
<1>4. \A w \in Slots : pc[w] \notin Holding
  BY DEF Init, Holding
<1>5. UnclaimedWaits
  BY <1>1, QueueFacts DEF Init, UnclaimedWaits
<1> QED
  BY <1>3, <1>4, <1>5 DEF PoolInv, ChainExclusive, HoldsChain, SpawnOrder, HeldStatus, Init

-----------------------------------------------------------------------------
\* Every step keeps the types.
LEMMA NextTypeOK == PoolInv /\ [Next]_vars => TypeOK'
<1> SUFFICES ASSUME PoolInv, [Next]_vars PROVE TypeOK'
  OBVIOUS
<1> USE DEF PoolInv, TypeOK
<1>q. /\ chains' = chains /\ WorkerCount' = WorkerCount
  BY DEF Next, WorkerStep, SpawnWorker, CheckStop, Claim, ChainOver, BreakChain, StartFile,
     FinishFile, EmitFinished, JudgeFile, CollectResult, Return, ForceStop, vars, WorkerCount
<1>t. IsQueue(chains)' /\ WorkerCount \in Nat /\ Slots \subseteq Nat
  BY <1>q, QueueFacts, WorkerCountFacts DEF IsQueue
<1>1. CASE SpawnWorker
  <2>1. spawned' \in 0..WorkerCount'
    BY <1>1, <1>q, <1>t DEF SpawnWorker
  <2>2. pc' \in [Slots -> Holding \cup {"unspawned", "top", "claim", "done"}]
    BY <1>1 DEF SpawnWorker
  <2> QED
    BY <1>1, <1>q, <1>t, <2>1, <2>2 DEF SpawnWorker
<1>2. ASSUME NEW w \in Slots, CheckStop(w) PROVE TypeOK'
  BY <1>2, <1>q, <1>t DEF CheckStop, Loads
<1>3. ASSUME NEW w \in Slots, Claim(w) PROVE TypeOK'
  <2>1. /\ cursor' = cursor + 1
        /\ UNCHANGED <<chains, spawned, status, closed, results, stop, seen, lockSeen,
                       returned, pushed>>
    BY <1>3 DEF Claim
  <2>2. cursor + 1 \in Nat
    OBVIOUS
  <2>3. chain' \in [Slots -> Nat] /\ pos' \in [Slots -> Nat]
    <3>1. chain \in [Slots -> Nat] /\ pos \in [Slots -> Nat]
      OBVIOUS
    <3>2. \/ /\ chain' = [chain EXCEPT ![w] = cursor + 1]
             /\ pos' = [pos EXCEPT ![w] = 1]
          \/ UNCHANGED <<chain, pos>>
      BY ONLY <1>3 DEF Claim
    <3> QED
      BY ONLY <2>2, <3>1, <3>2
  <2>4. pc' \in [Slots -> Holding \cup {"unspawned", "top", "claim", "done"}]
    BY <1>3 DEF Claim, Holding
  <2> QED
    BY <2>1, <2>2, <2>3, <2>4, <1>q, <1>t
<1>4. ASSUME NEW w \in Slots, ChainOver(w) PROVE TypeOK'
  BY <1>4, <1>q, <1>t DEF ChainOver
<1>5. ASSUME NEW w \in Slots, BreakChain(w) PROVE TypeOK'
  BY <1>5, <1>q, <1>t DEF BreakChain, Loads
<1>6. ASSUME NEW w \in Slots, StartFile(w) PROVE TypeOK'
  BY <1>6, <1>q, <1>t DEF StartFile, Loads, Holding
<1>7. ASSUME NEW w \in Slots, FinishFile(w) PROVE TypeOK'
  BY <1>7, <1>q, <1>t DEF FinishFile, Holding
<1>8. ASSUME NEW w \in Slots, EmitFinished(w) PROVE TypeOK'
  <2>1. File(w) \in Files
    BY <1>8, FileOfWorker DEF EmitFinished, HoldsChain, Busy
  <2> QED
    BY <1>8, <1>q, <1>t, <2>1 DEF EmitFinished, Holding
<1>9. ASSUME NEW w \in Slots, JudgeFile(w) PROVE TypeOK'
  BY <1>9, <1>q, <1>t DEF JudgeFile, Holding
<1>10. ASSUME NEW w \in Slots, CollectResult(w) PROVE TypeOK'
  <2>1. File(w) \in Files
    BY <1>10, FileOfWorker DEF CollectResult, HoldsChain, Busy
  <2>2. results' \in Seq(Files) /\ Len(results) \in Nat
    BY <1>10, <2>1 DEF CollectResult
  <2> QED
    BY <1>10, <1>q, <1>t, <2>2 DEF CollectResult, Holding
<1>11. CASE Return
  BY <1>11, <1>q, <1>t DEF Return
<1>12. CASE ForceStop
  BY <1>12, <1>q, <1>t DEF ForceStop
<1>13. CASE UNCHANGED vars
  BY <1>13, <1>q, <1>t DEF vars
<1> QED
  BY <1>1, <1>2, <1>3, <1>4, <1>5, <1>6, <1>7, <1>8, <1>9, <1>10, <1>11, <1>12, <1>13
  DEF Next, WorkerStep

\* The four facts about who holds which chain and how far it is.
Ownership == ChainExclusive /\ HoldsChain /\ SpawnOrder /\ UnclaimedWaits /\ HeldStatus

\* What a held chain's worker may do to its own program counter alone: leave
\* the chain, or go on from one stage behind the file's end to the next.
LEMMA PcStepOwnership ==
  ASSUME PoolInv, NEW w \in Slots, NEW p,
         pc' = [pc EXCEPT ![w] = p],
         pc[w] # "unspawned",
         \/ p \notin Holding
         \/ pc[w] \in {"emit", "judge"} /\ p \in {"judge", "collect"},
         UNCHANGED <<chains, cursor, spawned, chain, pos, status>>
  PROVE  Ownership'
<1> USE DEF PoolInv
<1>1. pc' \in [Slots -> Holding \cup {"unspawned", "top", "claim", "done", p}]
  BY DEF TypeOK
<1>2. \A v \in Slots : pc'[v] = IF v = w THEN p ELSE pc[v]
  BY DEF TypeOK
<1>3. \A v \in Slots : pc'[v] \in Holding =>
        /\ pc[v] \in Holding
        /\ pc'[v] = pc[v] \/ (pc[v] \in {"emit", "judge"} /\ pc'[v] \in {"judge", "collect"})
  BY <1>2 DEF Holding
<1>4. ChainExclusive'
  BY <1>3 DEF ChainExclusive
<1>5. HoldsChain'
  BY <1>3 DEF HoldsChain, Busy
<1>6. SpawnOrder'
  BY <1>2 DEF SpawnOrder
<1>7. UnclaimedWaits'
  BY DEF UnclaimedWaits
<1>8. HeldStatus'
  BY <1>3 DEF HeldStatus
<1> QED
  BY <1>4, <1>5, <1>6, <1>7, <1>8 DEF Ownership

\* Spawning puts a worker at the top of its loop, holding nothing.
LEMMA SpawnOwnership ==
  ASSUME PoolInv, SpawnWorker
  PROVE  Ownership'
<1> USE DEF PoolInv
<1>1. spawned \in Nat /\ spawned + 1 \in Slots /\ Slots \subseteq Nat
  <2>1. /\ WorkerCount \in Nat /\ 1..WorkerCount \subseteq Slots
        /\ Slots \subseteq Nat
    BY QueueFacts, WorkerCountFacts DEF TypeOK
  <2>2. spawned \in 0..WorkerCount /\ spawned < WorkerCount
    BY DEF SpawnWorker, TypeOK
  <2> QED
    BY <2>1, <2>2
<1>2. \A v \in Slots : pc'[v] = IF v = spawned + 1 THEN "top" ELSE pc[v]
  BY <1>1 DEF SpawnWorker, TypeOK
<1>3. \A v \in Slots : pc'[v] \in Holding => pc[v] \in Holding /\ pc'[v] = pc[v]
  BY <1>2 DEF Holding
<1>4. ChainExclusive'
  BY <1>3 DEF ChainExclusive, SpawnWorker
<1>5. HoldsChain'
  BY <1>3 DEF HoldsChain, SpawnWorker
<1>6. SpawnOrder'
  BY <1>1, <1>2 DEF SpawnOrder, SpawnWorker
<1>7. UnclaimedWaits'
  BY DEF UnclaimedWaits, SpawnWorker
<1>8. HeldStatus'
  BY <1>3 DEF HeldStatus, SpawnWorker
<1> QED
  BY <1>4, <1>5, <1>6, <1>7, <1>8 DEF Ownership

\* fetch_add: the index a worker gets is behind every claimed one, so the
\* chain is nobody else's and none of its files has been started.
LEMMA ClaimOwnership ==
  ASSUME PoolInv, NEW w \in Slots, Claim(w)
  PROVE  Ownership'
<1> USE DEF PoolInv
<1>1. CASE cursor < Len(chains)
  <2>1. /\ cursor \in Nat /\ cursor' = cursor + 1
        /\ UNCHANGED <<chains, status, spawned>>
        /\ Len(chains) \in Nat
    BY <1>1, QueueFacts DEF Claim, TypeOK
  <2>2. cursor + 1 \in 1..Len(chains) /\ Len(chains[cursor + 1]) \in Nat
    BY <1>1, <2>1, QueueFacts DEF TypeOK
  <2>3. \A v \in Slots : /\ pc'[v] = IF v = w THEN "next" ELSE pc[v]
                         /\ chain'[v] = IF v = w THEN cursor + 1 ELSE chain[v]
                         /\ pos'[v] = IF v = w THEN 1 ELSE pos[v]
    BY <1>1 DEF Claim, TypeOK
  <2>4. \A v \in Slots \ {w} : pc[v] \in Holding => chain[v] # cursor + 1
    BY <2>1 DEF HoldsChain, TypeOK
  <2>5. ChainExclusive'
    BY <2>3, <2>4 DEF ChainExclusive
  <2>6. HoldsChain'
    <3> SUFFICES ASSUME NEW v \in Slots, pc'[v] \in Holding
                 PROVE  /\ chain'[v] \in 1..Len(chains)
                        /\ chain'[v] <= cursor + 1
                        /\ pos'[v] \in 1..(Len(chains[chain'[v]]) + 1)
                        /\ pc'[v] \in Busy => pos'[v] <= Len(chains[chain'[v]])
      BY <2>1 DEF HoldsChain
    <3>1. CASE v = w
      BY <3>1, <2>1, <2>2, <2>3 DEF Busy
    <3>2. CASE v # w
      BY <3>2, <2>1, <2>3 DEF HoldsChain, TypeOK
    <3> QED
      BY <3>1, <3>2
  <2>7. SpawnOrder'
    BY <2>1, <2>3 DEF SpawnOrder, Claim
  <2>8. UnclaimedWaits'
    BY <2>1 DEF UnclaimedWaits
  <2>9. HeldStatus'
    <3> SUFFICES ASSUME NEW v \in Slots, pc'[v] \in Holding,
                        NEW k \in 1..Len(chains[chain'[v]])
                 PROVE  LET s == status[chains[chain'[v]][k]] IN
                        /\ k < pos'[v] => s \in Verdicts
                        /\ k > pos'[v] => s = "waiting"
                        /\ k = pos'[v] =>
                             /\ pc'[v] = "next" => s = "waiting"
                             /\ pc'[v] = "run" => s = "running"
                             /\ pc'[v] \in {"emit", "judge", "collect"} => s \in Verdicts
      BY <2>1 DEF HeldStatus
    <3>1. CASE v = w
      BY <3>1, <2>1, <2>2, <2>3 DEF UnclaimedWaits
    <3>2. CASE v # w
      BY <3>2, <2>3 DEF HeldStatus
    <3> QED
      BY <3>1, <3>2
  <2> QED
    BY <2>5, <2>6, <2>7, <2>8, <2>9 DEF Ownership
<1>2. CASE ~(cursor < Len(chains))
  <2>1. /\ cursor \in Nat /\ cursor' = cursor + 1
        /\ UNCHANGED <<chains, status, spawned, chain, pos>>
        /\ Len(chains) \in Nat
    BY <1>2, QueueFacts DEF Claim, TypeOK
  <2>2. \A v \in Slots : pc'[v] = IF v = w THEN "done" ELSE pc[v]
    BY <1>2 DEF Claim, TypeOK
  <2>3. \A v \in Slots : pc'[v] \in Holding => pc[v] \in Holding /\ pc'[v] = pc[v]
    BY <2>2 DEF Holding
  <2>4. ChainExclusive'
    BY <2>1, <2>3 DEF ChainExclusive
  <2>5. HoldsChain'
    BY <2>1, <2>3 DEF HoldsChain, TypeOK
  <2>6. SpawnOrder'
    BY <2>1, <2>2 DEF SpawnOrder, Claim
  <2>7. UnclaimedWaits'
    BY <2>1, <1>2 DEF UnclaimedWaits
  <2>8. ASSUME NEW v \in Slots, pc'[v] \in Holding,
               NEW k \in 1..Len(chains[chain[v]])
        PROVE  LET s == status[chains[chain[v]][k]] IN
               /\ k < pos[v] => s \in Verdicts
               /\ k > pos[v] => s = "waiting"
               /\ k = pos[v] => /\ pc'[v] = "next" => s = "waiting"
                                /\ pc'[v] = "run" => s = "running"
                                /\ pc'[v] \in {"emit", "judge", "collect"} => s \in Verdicts
    <3>1. pc[v] \in Holding /\ pc'[v] = pc[v]
      BY <2>3, <2>8
    <3> QED
      BY <3>1 DEF HeldStatus
  <2>9. HeldStatus'
    BY <2>1, <2>8 DEF HeldStatus
  <2> QED
    BY <2>4, <2>5, <2>6, <2>7, <2>9 DEF Ownership
<1> QED
  BY <1>1, <1>2

\* Starting or ending a file writes the status of that file alone, and no
\* other worker's chain and no unclaimed chain has it.
LEMMA StatusStepOwnership ==
  ASSUME PoolInv, NEW w \in Slots, NEW p, NEW s,
         pc[w] \in Holding, pos[w] <= Len(chains[chain[w]]),
         p \in {"run", "emit"},
         s \in IF p = "run" THEN {"running"} ELSE Verdicts,
         pc' = [pc EXCEPT ![w] = p],
         status' = [status EXCEPT ![File(w)] = s],
         UNCHANGED <<chains, cursor, spawned, chain, pos>>
  PROVE  Ownership'
<1> USE DEF PoolInv
<1>1. \A v \in Slots : pc'[v] = IF v = w THEN p ELSE pc[v]
  BY DEF TypeOK
<1>2. \A f \in Files : status'[f] = IF f = File(w) THEN s ELSE status[f]
  BY DEF TypeOK
<1>3. /\ chain[w] \in 1..Len(chains)
      /\ pos[w] \in 1..Len(chains[chain[w]])
      /\ chain[w] <= cursor
  BY QueueFacts DEF HoldsChain, TypeOK
<1>4. \A i \in 1..Len(chains) : \A k \in 1..Len(chains[i]) :
        /\ chains[i][k] \in Files
        /\ chains[i][k] = File(w) => i = chain[w] /\ k = pos[w]
  BY SMTT(30), <1>3, QueueFacts DEF File, TypeOK
<1>5. ChainExclusive'
  BY <1>1 DEF ChainExclusive, Holding
<1>6. HoldsChain'
  BY <1>1, <1>3 DEF HoldsChain, Busy
<1>7. SpawnOrder'
  BY <1>1 DEF SpawnOrder, Holding
<1>8. UnclaimedWaits'
  BY <1>2, <1>3, <1>4 DEF UnclaimedWaits, TypeOK
<1>9. HeldStatus'
  <2> SUFFICES ASSUME NEW v \in Slots, pc'[v] \in Holding,
                      NEW k \in 1..Len(chains[chain[v]])
               PROVE  LET t == status'[chains[chain[v]][k]] IN
                      /\ k < pos[v] => t \in Verdicts
                      /\ k > pos[v] => t = "waiting"
                      /\ k = pos[v] =>
                           /\ pc'[v] = "next" => t = "waiting"
                           /\ pc'[v] = "run" => t = "running"
                           /\ pc'[v] \in {"emit", "judge", "collect"} => t \in Verdicts
    BY DEF HeldStatus
  <2>1. CASE v = w
    <3>1. /\ k < pos[w] => status[chains[chain[w]][k]] \in Verdicts
          /\ k > pos[w] => status[chains[chain[w]][k]] = "waiting"
      BY <2>1 DEF HeldStatus
    <3>2. status'[chains[chain[w]][k]]
            = IF k = pos[w] THEN s ELSE status[chains[chain[w]][k]]
      BY <2>1, <1>2, <1>3, <1>4 DEF File
    <3>3. k \in Nat /\ pos[w] \in Nat
      BY <2>1, <1>3, QueueFacts DEF TypeOK
    <3> QED
      BY <2>1, <1>1, <3>1, <3>2, <3>3
  <2>2. CASE v # w
    <3>1. pc'[v] = pc[v] /\ chain[v] # chain[w] /\ chain[v] \in 1..Len(chains)
      BY <2>2, <1>1 DEF ChainExclusive, HoldsChain
    <3>2. status'[chains[chain[v]][k]] = status[chains[chain[v]][k]]
      BY <1>2, <1>4, <3>1
    <3> QED
      BY <3>1, <3>2 DEF HeldStatus
  <2> QED
    BY <2>1, <2>2
<1> QED
  BY <1>5, <1>6, <1>7, <1>8, <1>9 DEF Ownership

\* Pushing the result moves the position past a file that is over.
LEMMA CollectOwnership ==
  ASSUME PoolInv, NEW w \in Slots, CollectResult(w)
  PROVE  Ownership'
<1> USE DEF PoolInv
<1>1. \A v \in Slots : /\ pc'[v] = IF v = w THEN "next" ELSE pc[v]
                       /\ pos'[v] = IF v = w THEN pos[w] + 1 ELSE pos[v]
  BY DEF CollectResult, TypeOK
<1>2. UNCHANGED <<chains, cursor, spawned, chain, status>>
  BY DEF CollectResult
<1>3. pc[w] = "collect" /\ pc[w] \in Holding /\ pc[w] \in Busy
  BY DEF CollectResult, Holding, Busy
<1>4. /\ chain[w] \in 1..Len(chains)
      /\ Len(chains[chain[w]]) \in Nat
      /\ pos[w] \in 1..Len(chains[chain[w]])
  BY <1>3, QueueFacts DEF HoldsChain, TypeOK
<1>5. \A v \in Slots : pc'[v] \in Holding => pc[v] \in Holding
  BY <1>1, <1>3
<1>6. ChainExclusive'
  BY <1>2, <1>5 DEF ChainExclusive
<1>7. HoldsChain'
  BY SMTT(30), <1>1, <1>2, <1>3, <1>4 DEF HoldsChain, Busy
<1>8. SpawnOrder'
  BY <1>1, <1>2, <1>3 DEF SpawnOrder, Holding
<1>9. UnclaimedWaits'
  BY <1>2 DEF UnclaimedWaits
<1>10. HeldStatus'
  <2> SUFFICES ASSUME NEW v \in Slots, pc'[v] \in Holding,
                      NEW k \in 1..Len(chains[chain[v]])
               PROVE  LET t == status[chains[chain[v]][k]] IN
                      /\ k < pos'[v] => t \in Verdicts
                      /\ k > pos'[v] => t = "waiting"
                      /\ k = pos'[v] =>
                           /\ pc'[v] = "next" => t = "waiting"
                           /\ pc'[v] = "run" => t = "running"
                           /\ pc'[v] \in {"emit", "judge", "collect"} => t \in Verdicts
    BY <1>2 DEF HeldStatus
  <2>1. CASE v = w
    <3>1. k \in Nat /\ pos[w] \in Nat
      BY <2>1, <1>4
    <3>2. LET t == status[chains[chain[w]][k]] IN
          /\ k < pos[w] \/ k = pos[w] => t \in Verdicts
          /\ k > pos[w] => t = "waiting"
      BY <2>1, <1>3 DEF HeldStatus
    <3> QED
      BY <2>1, <1>1, <3>1, <3>2
  <2>2. CASE v # w
    BY <2>2, <1>1, <1>5 DEF HeldStatus
  <2> QED
    BY <2>1, <2>2
<1> QED
  BY <1>6, <1>7, <1>8, <1>9, <1>10 DEF Ownership

\* Every step of the pool keeps the ownership of chains.
LEMMA NextOwnership == PoolInv /\ [Next]_vars => Ownership'
<1> SUFFICES ASSUME PoolInv, [Next]_vars PROVE Ownership'
  OBVIOUS
<1>1. CASE SpawnWorker
  BY <1>1, SpawnOwnership
<1>2. ASSUME NEW w \in Slots, CheckStop(w) PROVE Ownership'
  <2>1. PICK p \in {"done", "claim"} : pc' = [pc EXCEPT ![w] = p]
    BY <1>2 DEF CheckStop
  <2> QED
    BY <1>2, <2>1, PcStepOwnership DEF CheckStop, Holding
<1>3. ASSUME NEW w \in Slots, Claim(w) PROVE Ownership'
  BY <1>3, ClaimOwnership
<1>4. ASSUME NEW w \in Slots, ChainOver(w) PROVE Ownership'
  BY <1>4, PcStepOwnership DEF ChainOver, Holding
<1>5. ASSUME NEW w \in Slots, BreakChain(w) PROVE Ownership'
  BY <1>5, PcStepOwnership DEF BreakChain, Holding
<1>6. ASSUME NEW w \in Slots, StartFile(w) PROVE Ownership'
  <2>1. /\ pc[w] \in Holding /\ pos[w] <= Len(chains[chain[w]])
        /\ UNCHANGED <<chains, cursor, spawned, chain, pos>>
    BY <1>6 DEF StartFile, Holding
  <2>2. PICK p \in {"run"}, s \in {"running"} :
           pc' = [pc EXCEPT ![w] = p] /\ status' = [status EXCEPT ![File(w)] = s]
    BY <1>6 DEF StartFile
  <2> QED
    BY <2>1, <2>2, StatusStepOwnership
<1>7. ASSUME NEW w \in Slots, FinishFile(w) PROVE Ownership'
  <2>1. PICK v \in Verdicts : status' = [status EXCEPT ![File(w)] = v]
    BY <1>7 DEF FinishFile
  <2>2. pos[w] <= Len(chains[chain[w]])
    BY <1>7 DEF FinishFile, PoolInv, HoldsChain, Holding, Busy
  <2>3. /\ pc[w] \in Holding
        /\ pc' = [pc EXCEPT ![w] = "emit"]
        /\ UNCHANGED <<chains, cursor, spawned, chain, pos>>
    BY <1>7 DEF FinishFile, Holding
  <2> QED
    BY <2>1, <2>2, <2>3, StatusStepOwnership
<1>8. ASSUME NEW w \in Slots, EmitFinished(w) PROVE Ownership'
  BY <1>8, PcStepOwnership DEF EmitFinished
<1>9. ASSUME NEW w \in Slots, JudgeFile(w) PROVE Ownership'
  BY <1>9, PcStepOwnership DEF JudgeFile
<1>10. ASSUME NEW w \in Slots, CollectResult(w) PROVE Ownership'
  BY <1>10, CollectOwnership
<1>11. CASE Return \/ ForceStop \/ UNCHANGED vars
  <2>1. UNCHANGED <<chains, cursor, spawned, pc, chain, pos, status>>
    BY <1>11 DEF Return, ForceStop, vars
  <2> QED
    BY <2>1 DEF PoolInv, Ownership, ChainExclusive, HoldsChain, SpawnOrder, UnclaimedWaits,
       HeldStatus
<1> QED
  BY <1>1, <1>2, <1>3, <1>4, <1>5, <1>6, <1>7, <1>8, <1>9, <1>10, <1>11
  DEF Next, WorkerStep

LEMMA NextPoolInv == PoolInv /\ [Next]_vars => PoolInv'
BY NextTypeOK, NextOwnership DEF PoolInv, Ownership

LEMMA PoolInvariant == Spec => []PoolInv
<1>1. Init => PoolInv
  BY InitPoolInv
<1>2. PoolInv /\ [Next]_vars => PoolInv'
  BY NextPoolInv
<1> QED
  BY <1>1, <1>2, PTL DEF Spec

\* The state of run_all is well typed in every reachable state, whatever the
\* queue and the concurrency; in particular no more workers are spawned than
\* worker_count allows.
THEOREM TypeCorrect == Spec => []TypeOK
BY PoolInvariant, PTL DEF PoolInv

\* fetch_add on the cursor gives every chain to one worker only.
THEOREM OneWorkerPerChain == Spec => []ChainExclusive
BY PoolInvariant, PTL DEF PoolInv

-----------------------------------------------------------------------------
\* The files queued ahead of the one a worker is about to start are over.
LEMMA BeforeIsOver ==
  ASSUME PoolInv, NEW w \in Slots, pc[w] = "next", pos[w] <= Len(chains[chain[w]]),
         NEW g \in Abstract!Before(File(w))
  PROVE  status[g] \in Verdicts
<1> USE DEF PoolInv
<1>1. pc[w] \in Holding
  BY DEF Holding
<1>2. chain[w] \in 1..Len(chains) /\ pos[w] \in 1..Len(chains[chain[w]])
  BY <1>1, QueueFacts DEF HoldsChain, TypeOK
<1>3. /\ chains \in Seq(Seq(Files))
      /\ DOMAIN chains = 1..Len(chains)
  BY DEF TypeOK, IsQueue
<1>4. PICK i \in DOMAIN chains : \E j, k \in DOMAIN chains[i] :
             j < k /\ chains[i][j] = g /\ chains[i][k] = File(w)
  BY DEF Abstract!Before
<1>5. /\ i \in 1..Len(chains)
      /\ DOMAIN chains[i] = 1..Len(chains[i])
  BY <1>3
<1>6. PICK j \in 1..Len(chains[i]), k \in 1..Len(chains[i]) :
             j < k /\ chains[i][j] = g /\ chains[i][k] = File(w)
  BY <1>4, <1>5
<1>7. i = chain[w] /\ k = pos[w]
  <2>1. IsQueue(chains)
    BY DEF TypeOK
  <2>2. chains[i][k] = chains[chain[w]][pos[w]]
    BY <1>6 DEF File
  <2> QED
    BY ONLY SMTT(30), <1>2, <1>5, <1>6, <2>1, <2>2, QueueFacts
<1> QED
  BY <1>1, <1>6, <1>7 DEF HeldStatus

\* A step of a worker that does not start or end its file leaves the abstract
\* scheduler where it is.
LEMMA StutterRefines ==
  ASSUME PoolInv, NEW w \in Slots, NEW p,
         pc[w] # "run", p # "run", pc' = [pc EXCEPT ![w] = p],
         \A v \in Slots : pc[v] = "run" => chain'[v] = chain[v] /\ pos'[v] = pos[v],
         UNCHANGED <<chains, status>>
  PROVE  UNCHANGED Abstract!vars
<1>1. \A v \in Slots : pc'[v] = IF v = w THEN p ELSE pc[v]
  BY DEF PoolInv, TypeOK
<1>2. \A v \in Slots : (IF pc[v] = "run" THEN {File(v)} ELSE {})'
                         = (IF pc[v] = "run" THEN {File(v)} ELSE {})
  BY <1>1 DEF File
<1>3. [v \in Slots |-> IF pc[v] = "run" THEN {File(v)} ELSE {}]'
        = [v \in Slots |-> IF pc[v] = "run" THEN {File(v)} ELSE {}]
  BY <1>2
<1> QED
  BY <1>3 DEF Abstract!vars

\* Awaiting run_file is Start, its end is Finish with the same verdict.
LEMMA StartRefines ==
  ASSUME PoolInv, NEW w \in Slots, StartFile(w)
  PROVE  \E f \in Files : Abstract!Start(w, f)
<1> DEFINE Slot == [v \in Slots |-> IF pc[v] = "run" THEN {File(v)} ELSE {}]
<1>1. /\ pc[w] = "next" /\ pc[w] \in Holding
      /\ pos[w] <= Len(chains[chain[w]])
      /\ UNCHANGED <<chains, chain, pos>>
  BY DEF StartFile, Holding
<1>2. File(w) \in Files
  BY <1>1, FileOfWorker DEF PoolInv, TypeOK
<1>3. chain[w] \in 1..Len(chains) /\ pos[w] \in 1..Len(chains[chain[w]])
  BY <1>1, QueueFacts DEF PoolInv, HoldsChain
<1>4. status[File(w)] = "waiting"
  BY <1>1, <1>3 DEF File, PoolInv, HeldStatus
<1>5. \A v \in Slots : pc'[v] = IF v = w THEN "run" ELSE pc[v]
  BY DEF StartFile, PoolInv, TypeOK
<1>6. \A v \in Slots : File(v)' = File(v)
  BY <1>1 DEF File
<1>7. Slot' = [Slot EXCEPT ![w] = {File(w)}]
  BY <1>5, <1>6
<1>8. Slot[w] = {}
  BY <1>1
<1>9. \A g \in Abstract!Before(File(w)) : status[g] \in Verdicts
  BY <1>1, BeforeIsOver
<1>10. Abstract!Verdicts = Verdicts
  BY DEF Abstract!Verdicts, Verdicts
<1>11. PICK f \in Files : f = File(w)
  BY <1>2
<1>12. Abstract!Start(w, f)
  BY <1>1, <1>4, <1>7, <1>8, <1>9, <1>10, <1>11 DEF Abstract!Start, StartFile
<1> QED
  BY <1>12

LEMMA FinishRefines ==
  ASSUME PoolInv, NEW w \in Slots, FinishFile(w)
  PROVE  File(w) \in Files /\ \E v \in Verdicts : Abstract!Finish(w, File(w), v)
<1> DEFINE Slot == [v \in Slots |-> IF pc[v] = "run" THEN {File(v)} ELSE {}]
<1>1. /\ pc[w] = "run" /\ pc[w] \in Holding /\ pc[w] \in Busy
      /\ UNCHANGED <<chains, chain, pos>>
  BY DEF FinishFile, Holding, Busy
<1>2. /\ chain[w] \in 1..Len(chains)
      /\ pos[w] \in 1..Len(chains[chain[w]])
      /\ pos[w] <= Len(chains[chain[w]])
  BY <1>1, QueueFacts DEF PoolInv, HoldsChain
<1>3. File(w) \in Files
  BY <1>1, <1>2, FileOfWorker DEF PoolInv, TypeOK
<1>4. status[File(w)] = "running"
  BY <1>1, <1>2 DEF File, PoolInv, HeldStatus
<1>5. \A v \in Slots : pc'[v] = IF v = w THEN "emit" ELSE pc[v]
  BY DEF FinishFile, PoolInv, TypeOK
<1>6. \A v \in Slots : File(v)' = File(v)
  BY <1>1 DEF File
<1>7. Slot' = [Slot EXCEPT ![w] = {}]
  BY <1>5, <1>6
<1>8. Slot[w] = {File(w)}
  BY <1>1
<1>9. PICK v \in Verdicts : status' = [status EXCEPT ![File(w)] = v]
  BY DEF FinishFile
<1>10. Abstract!Finish(w, File(w), v)
  BY <1>1, <1>4, <1>7, <1>8, <1>9 DEF Abstract!Finish
<1> QED
  BY <1>3, <1>10

\* Every other step is a stutter of the abstract scheduler.
LEMMA StepRefines == PoolInv /\ [Next]_vars => [Abstract!Next]_Abstract!vars
<1> SUFFICES ASSUME PoolInv, [Next]_vars PROVE [Abstract!Next]_Abstract!vars
  OBVIOUS
<1> DEFINE Slot == [v \in Slots |-> IF pc[v] = "run" THEN {File(v)} ELSE {}]
<1>1. CASE SpawnWorker
  <2>1. spawned + 1 \in Slots /\ pc[spawned + 1] = "unspawned"
    <3>1. /\ WorkerCount \in Nat /\ 1..WorkerCount \subseteq Slots
          /\ spawned \in 0..WorkerCount /\ spawned < WorkerCount
      BY <1>1, QueueFacts, WorkerCountFacts DEF SpawnWorker, PoolInv, TypeOK
    <3>2. spawned + 1 \in Slots /\ spawned + 1 > spawned
      BY <3>1
    <3> QED
      BY <3>2 DEF PoolInv, SpawnOrder
  <2>2. UNCHANGED Abstract!vars
    BY <1>1, <2>1, StutterRefines DEF SpawnWorker
  <2> QED
    BY <2>2
<1>2. ASSUME NEW w \in Slots, CheckStop(w) PROVE UNCHANGED Abstract!vars
  <2>1. PICK p \in {"done", "claim"} : pc' = [pc EXCEPT ![w] = p]
    BY <1>2 DEF CheckStop
  <2> QED
    BY <1>2, <2>1, StutterRefines DEF CheckStop
<1>3. ASSUME NEW w \in Slots, Claim(w) PROVE UNCHANGED Abstract!vars
  <2>1. PICK p \in {"done", "next"} : pc' = [pc EXCEPT ![w] = p]
    BY <1>3 DEF Claim
  <2>2. \A v \in Slots : pc[v] = "run" => chain'[v] = chain[v] /\ pos'[v] = pos[v]
    BY <1>3 DEF Claim, PoolInv, TypeOK
  <2> QED
    BY <1>3, <2>1, <2>2, StutterRefines DEF Claim
<1>4. ASSUME NEW w \in Slots, ChainOver(w) PROVE UNCHANGED Abstract!vars
  BY <1>4, StutterRefines DEF ChainOver
<1>5. ASSUME NEW w \in Slots, BreakChain(w) PROVE UNCHANGED Abstract!vars
  BY <1>5, StutterRefines DEF BreakChain
<1>6. ASSUME NEW w \in Slots, StartFile(w) PROVE Abstract!Next
  BY <1>6, StartRefines DEF Abstract!Next
<1>7. ASSUME NEW w \in Slots, FinishFile(w) PROVE Abstract!Next
  <2>1. Abstract!Verdicts = Verdicts
    BY DEF Abstract!Verdicts, Verdicts
  <2> QED
    BY <1>7, <2>1, FinishRefines DEF Abstract!Next
<1>8. ASSUME NEW w \in Slots, EmitFinished(w) PROVE UNCHANGED Abstract!vars
  BY <1>8, StutterRefines DEF EmitFinished
<1>9. ASSUME NEW w \in Slots, JudgeFile(w) PROVE UNCHANGED Abstract!vars
  BY <1>9, StutterRefines DEF JudgeFile
<1>10. ASSUME NEW w \in Slots, CollectResult(w) PROVE UNCHANGED Abstract!vars
  <2>1. \A v \in Slots : pc[v] = "run" => chain'[v] = chain[v] /\ pos'[v] = pos[v]
    BY <1>10 DEF CollectResult
  <2> QED
    BY <1>10, <2>1, StutterRefines DEF CollectResult
<1>11. CASE Return \/ ForceStop \/ UNCHANGED vars
  <2>1. UNCHANGED <<chains, pc, chain, pos, status>>
    BY <1>11 DEF Return, ForceStop, vars
  <2>2. Slot' = Slot
    BY <2>1 DEF File
  <2> QED
    BY <2>1, <2>2 DEF Abstract!vars
<1> QED
  BY <1>1, <1>2, <1>3, <1>4, <1>5, <1>6, <1>7, <1>8, <1>9, <1>10, <1>11
  DEF Next, WorkerStep

\* The pool implements the abstract scheduler for every queue: a file starts
\* at most once, in a free slot, when the files ahead of it in its chain are
\* over, so two files of one @serial chain never run together.
THEOREM PoolImplementsScheduler == Spec => ImplementsScheduler
<1>1. Init => Abstract!Init
  BY DEF Init, Abstract!Init
<1>2. PoolInv /\ [Next]_vars => [Abstract!Next]_Abstract!vars
  BY StepRefines
<1> QED
  BY <1>1, <1>2, PoolInvariant, PTL DEF Spec, ImplementsScheduler, Abstract!Spec

-----------------------------------------------------------------------------
\* --fail-fast through the relaxed flag.  A failed result behind which a worker
\* has pushed is one it is bound to see: its own, because it armed the flag,
\* or one it took over with the results lock.
Failing(f) == FailFast /\ status[f] # "passed"

StopInv ==
  /\ \A k \in 1..Len(results) : /\ status[results[k]] \in Verdicts
                                /\ Failing(results[k]) => lockSeen
  /\ \A w \in Slots :
       /\ pushed[w] <= Len(results)
       /\ pc[w] = "collect" /\ Failing(File(w)) => seen[w]
       /\ \A k \in 1..pushed[w] : Failing(results[k]) => seen[w]

\* Nothing is lost: a started file is on a worker or in the results, once; its
\* file_finished follows its verdict; and while nothing has asked the run to
\* stop, a claimed chain is held or over and a worker leaves only an empty queue.
OnWorker(w, f) == pc[w] \in Busy /\ File(w) = f

CollectedOnce ==
  /\ \A k, l \in 1..Len(results) : results[k] = results[l] => k = l
  /\ \A w \in Slots : pc[w] \in Busy => \A k \in 1..Len(results) : results[k] # File(w)
  /\ \A f \in Files : status[f] # "waiting" =>
       \/ \E k \in 1..Len(results) : results[k] = f
       \/ \E w \in Slots : OnWorker(w, f)

ClosedInv ==
  /\ \A f \in closed : status[f] \in Verdicts
  /\ \A k \in 1..Len(results) : results[k] \in closed
  /\ \A w \in Slots : pc[w] \in {"judge", "collect"} => File(w) \in closed

HeldOrOver(i) ==
  \/ \E w \in Slots : pc[w] \in Holding /\ chain[w] = i
  \/ \A k \in 1..Len(chains[i]) : status[chains[i][k]] \in Verdicts

Drained ==
  /\ \A w \in Slots : pc[w] = "done" => cursor >= Len(chains)
  /\ \A i \in 1..Len(chains) : i <= cursor => HeldOrOver(i)

QueueDrained == stop \/ Drained

AllJoined ==
  returned => /\ spawned = WorkerCount
              /\ \A w \in 1..spawned : pc[w] = "done"

LossInv == StopInv /\ CollectedOnce /\ ClosedInv /\ QueueDrained /\ AllJoined

\* The file a worker is on, and its status, in every busy stage.
LEMMA BusyFile ==
  ASSUME PoolInv, NEW w \in Slots, pc[w] \in Busy
  PROVE  /\ File(w) \in Files
         /\ pc[w] = "run" => status[File(w)] = "running"
         /\ pc[w] # "run" => status[File(w)] \in Verdicts
<1>1. pc[w] \in Holding
  BY DEF Busy, Holding
<1>2. /\ chain[w] \in 1..Len(chains)
      /\ pos[w] \in 1..Len(chains[chain[w]])
      /\ pos[w] <= Len(chains[chain[w]])
  BY <1>1, QueueFacts DEF PoolInv, HoldsChain
<1>3. File(w) \in Files
  BY <1>1, <1>2, FileOfWorker DEF PoolInv, TypeOK
<1> QED
  BY <1>1, <1>2, <1>3 DEF PoolInv, HeldStatus, File, Busy

\* The file a worker is about to start has not been started.
LEMMA NextFile ==
  ASSUME PoolInv, NEW w \in Slots, pc[w] = "next", pos[w] <= Len(chains[chain[w]])
  PROVE  File(w) \in Files /\ status[File(w)] = "waiting"
<1>1. pc[w] \in Holding
  BY DEF Holding
<1>2. chain[w] \in 1..Len(chains) /\ pos[w] \in 1..Len(chains[chain[w]])
  BY <1>1, QueueFacts DEF PoolInv, HoldsChain
<1>3. File(w) \in Files
  BY <1>1, FileOfWorker DEF PoolInv, TypeOK
<1> QED
  BY <1>1, <1>2, <1>3 DEF PoolInv, HeldStatus, File

\* Two workers are never on the same file.
LEMMA DistinctFiles ==
  ASSUME PoolInv, NEW v \in Slots, NEW w \in Slots, v # w, pc[v] \in Busy, pc[w] \in Busy
  PROVE  File(v) # File(w)
<1>1. pc[v] \in Holding /\ pc[w] \in Holding
  BY DEF Busy, Holding
<1>2. chain[v] # chain[w]
  BY <1>1 DEF PoolInv, ChainExclusive
<1>3. /\ chain[v] \in 1..Len(chains) /\ pos[v] \in 1..Len(chains[chain[v]])
      /\ chain[w] \in 1..Len(chains) /\ pos[w] \in 1..Len(chains[chain[w]])
  BY <1>1, QueueFacts DEF PoolInv, HoldsChain
<1>4. IsQueue(chains)
  BY DEF PoolInv, TypeOK
<1> QED
  BY ONLY SMTT(30), <1>2, <1>3, <1>4, QueueFacts DEF File

\* A verdict is final: no step changes the status of a file that has one, and
\* none puts a started file back.
LEMMA VerdictStays ==
  ASSUME PoolInv, [Next]_vars, NEW f \in Files
  PROVE  /\ status[f] \in Verdicts => status'[f] = status[f]
         /\ status[f] # "waiting" => status'[f] # "waiting"
<1>1. ASSUME NEW w \in Slots, StartFile(w)
      PROVE  status'[f] = IF f = File(w) THEN "running" ELSE status[f]
  BY <1>1 DEF StartFile, PoolInv, TypeOK
<1>2. ASSUME NEW w \in Slots, StartFile(w), f = File(w)
      PROVE  status[f] = "waiting"
  BY <1>2, NextFile DEF StartFile
<1>3. ASSUME NEW w \in Slots, FinishFile(w)
      PROVE  /\ f # File(w) => status'[f] = status[f]
             /\ f = File(w) => status[f] = "running" /\ status'[f] \in Verdicts
  <2>1. PICK v \in Verdicts : status' = [status EXCEPT ![File(w)] = v]
    BY <1>3 DEF FinishFile
  <2>2. status'[f] = IF f = File(w) THEN v ELSE status[f]
    BY <2>1 DEF PoolInv, TypeOK
  <2>3. status[File(w)] = "running"
    BY <1>3, BusyFile DEF FinishFile, Busy
  <2> QED
    BY <2>2, <2>3
<1>4. \/ \E w \in Slots : StartFile(w) \/ FinishFile(w)
      \/ status' = status
  BY DEF Next, WorkerStep, SpawnWorker, CheckStop, Claim, ChainOver, BreakChain, EmitFinished,
     JudgeFile, CollectResult, Return, ForceStop, vars
<1> QED
  BY <1>1, <1>2, <1>3, <1>4 DEF Verdicts

\* A file's verdict is in before it is pushed, and what is pushed stays.
LEMMA ResultsGrow ==
  ASSUME PoolInv, [Next]_vars, ~\E w \in Slots : CollectResult(w)
  PROVE  UNCHANGED <<results, pushed, lockSeen>>
BY DEF Next, WorkerStep, SpawnWorker, CheckStop, Claim, ChainOver, BreakChain, StartFile,
   FinishFile, EmitFinished, JudgeFile, Return, ForceStop, vars

\* A worker's obligation to see the flag is never lifted.
LEMMA SeenStays ==
  ASSUME PoolInv, [Next]_vars, NEW w \in Slots, seen[w]
  PROVE  seen'[w]
<1>1. ASSUME NEW v \in Slots, NEW b \in BOOLEAN, Loads(v, b) PROVE seen'[w]
  BY <1>1 DEF Loads
<1>2. ASSUME NEW v \in Slots, JudgeFile(v) \/ CollectResult(v) PROVE seen'[w]
  BY <1>2 DEF JudgeFile, CollectResult, PoolInv, TypeOK
<1>3. \/ \E v \in Slots : \E b \in BOOLEAN : Loads(v, b)
      \/ \E v \in Slots : JudgeFile(v) \/ CollectResult(v)
      \/ UNCHANGED seen
  BY DEF Next, WorkerStep, SpawnWorker, CheckStop, Claim, ChainOver, BreakChain, StartFile,
     FinishFile, EmitFinished, Return, ForceStop, vars
<1> QED
  BY <1>1, <1>2, <1>3

\* How a worker comes to each stage behind the file's end, and that it stays on
\* its file through all of them.
LEMMA StageEntered ==
  ASSUME PoolInv, [Next]_vars, NEW w \in Slots
  PROVE  /\ pc'[w] = "collect" => (pc[w] = "collect" /\ File(w)' = File(w)) \/ JudgeFile(w)
         /\ pc'[w] = "judge" => (pc[w] = "judge" /\ File(w)' = File(w)) \/ EmitFinished(w)
         /\ pc'[w] \in Busy => (pc[w] \in Busy /\ File(w)' = File(w)) \/ StartFile(w)
         /\ pc[w] \in Busy => (pc'[w] \in Busy /\ File(w)' = File(w)) \/ CollectResult(w)
<1> USE DEF Busy
<1>1. ASSUME NEW v \in Slots, WorkerStep(v), v # w
      PROVE  pc'[w] = pc[w] /\ File(w)' = File(w)
  BY <1>1 DEF WorkerStep, CheckStop, Claim, ChainOver, BreakChain, StartFile, FinishFile,
     EmitFinished, JudgeFile, CollectResult, File, PoolInv, TypeOK
<1>2. CASE CheckStop(w) \/ Claim(w) \/ ChainOver(w) \/ BreakChain(w)
  BY <1>2 DEF CheckStop, Claim, ChainOver, BreakChain, PoolInv, TypeOK
<1>3. CASE StartFile(w)
  BY <1>3 DEF StartFile, PoolInv, TypeOK
<1>4. CASE FinishFile(w) \/ EmitFinished(w) \/ JudgeFile(w)
  BY <1>4 DEF FinishFile, EmitFinished, JudgeFile, File, PoolInv, TypeOK
<1>5. CASE CollectResult(w)
  BY <1>5 DEF CollectResult, PoolInv, TypeOK
<1>6. CASE SpawnWorker
  <2>1. /\ WorkerCount \in Nat /\ 1..WorkerCount \subseteq Slots
        /\ spawned \in 0..WorkerCount /\ spawned < WorkerCount
    BY <1>6, QueueFacts, WorkerCountFacts DEF SpawnWorker, PoolInv, TypeOK
  <2>2. spawned + 1 \in Slots /\ spawned + 1 > spawned
    BY <2>1
  <2>3. pc[spawned + 1] = "unspawned"
    BY <2>2 DEF PoolInv, SpawnOrder
  <2> QED
    BY <1>6, <2>2, <2>3 DEF SpawnWorker, File
<1>7. CASE Return \/ ForceStop \/ UNCHANGED vars
  BY <1>7 DEF Return, ForceStop, vars, File
<1> QED
  BY <1>1, <1>2, <1>3, <1>4, <1>5, <1>6, <1>7 DEF Next, WorkerStep

\* Pushing a result appends one file, which is over.
LEMMA CollectFacts ==
  ASSUME PoolInv, NEW w \in Slots, CollectResult(w)
  PROVE  /\ File(w) \in Files /\ status[File(w)] \in Verdicts
         /\ Len(results) \in Nat /\ Len(results') = Len(results) + 1
         /\ \A k \in 1..Len(results) : results'[k] = results[k]
         /\ results'[Len(results) + 1] = File(w)
         /\ UNCHANGED <<status, chains, chain, cursor, closed, stop>>
<1>1. pc[w] \in Busy /\ pc[w] # "run"
  BY DEF CollectResult, Busy
<1>2. File(w) \in Files /\ status[File(w)] \in Verdicts
  BY <1>1, BusyFile
<1>3. results \in Seq(Files) /\ results' = Append(results, File(w))
  BY DEF CollectResult, PoolInv, TypeOK
<1> QED
  BY <1>2, <1>3 DEF CollectResult

LEMMA NextStopInv == PoolInv /\ StopInv /\ [Next]_vars => StopInv'
<1> SUFFICES ASSUME PoolInv, StopInv, [Next]_vars PROVE StopInv'
  OBVIOUS
<1>t. /\ results \in Seq(Files) /\ Len(results) \in Nat
      /\ \A k \in 1..Len(results) : results[k] \in Files
      /\ pushed \in [Slots -> Nat]
  BY DEF PoolInv, TypeOK
<1>0. \A k \in 1..Len(results) : status'[results[k]] = status[results[k]]
  BY <1>t, VerdictStays DEF StopInv
<1>c. \A v \in Slots : pc[v] = "collect" =>
        File(v) \in Files /\ status[File(v)] \in Verdicts
  BY BusyFile DEF Busy
<1>j. ASSUME NEW v \in Slots, JudgeFile(v), pc'[v] = "collect", FailFast,
             status'[File(v)'] # "passed"
      PROVE  seen'[v]
  <2>1. status' = status /\ File(v)' = File(v)
    BY <1>j DEF JudgeFile, File
  <2> QED
    BY <1>j, <2>1 DEF JudgeFile, PoolInv, TypeOK
<1>s. ASSUME NEW v \in Slots, pc'[v] = "collect", FailFast, status'[File(v)'] # "passed"
      PROVE  seen'[v]
  <2>1. CASE pc[v] = "collect" /\ File(v)' = File(v)
    <3>1. status'[File(v)] = status[File(v)]
      BY <2>1, <1>c, VerdictStays
    <3>2. seen[v]
      BY <1>s, <2>1, <3>1 DEF StopInv, Failing
    <3> QED
      BY <3>2, SeenStays
  <2>2. CASE JudgeFile(v)
    BY <1>s, <1>j, <2>2
  <2> QED
    BY <1>s, <2>1, <2>2, StageEntered
<1>1. CASE ~\E w \in Slots : CollectResult(w)
  <2>1. UNCHANGED <<results, pushed, lockSeen>>
    BY <1>1, ResultsGrow
  <2>2. \A k \in 1..Len(results') : /\ status'[results'[k]] \in Verdicts
                                    /\ Failing(results[k])' => lockSeen'
    BY <1>0, <2>1 DEF StopInv, Failing
  <2>3. ASSUME NEW w \in Slots
        PROVE  /\ pushed'[w] <= Len(results')
               /\ \A k \in 1..pushed'[w] : Failing(results[k])' => seen'[w]
    <3>1. pushed[w] \in Nat /\ pushed[w] <= Len(results)
      BY <1>t DEF StopInv
    <3>2. \A k \in 1..pushed[w] : k \in 1..Len(results)
      BY <3>1, <1>t
    <3> QED
      BY <1>0, <2>1, <3>1, <3>2, SeenStays DEF StopInv, Failing
  <2> QED
    BY <1>s, <2>2, <2>3 DEF StopInv, Failing
<1>2. ASSUME NEW w \in Slots, CollectResult(w) PROVE StopInv'
  <2>1. /\ File(w) \in Files /\ status[File(w)] \in Verdicts
        /\ Len(results') = Len(results) + 1
        /\ \A k \in 1..Len(results) : results'[k] = results[k]
        /\ results'[Len(results) + 1] = File(w)
        /\ status' = status
    BY <1>2, CollectFacts
  <2>2. /\ pc[w] = "collect"
        /\ seen'[w] = (seen[w] \/ lockSeen)
        /\ lockSeen' = (lockSeen \/ seen[w])
        /\ \A v \in Slots : pushed'[v] = IF v = w THEN Len(results) + 1 ELSE pushed[v]
    BY <1>2 DEF CollectResult, PoolInv, TypeOK
  <2>3. Failing(File(w)) => seen[w]
    BY <2>2 DEF StopInv
  <2>4. \A k \in 1..Len(results') : /\ status'[results'[k]] \in Verdicts
                                    /\ Failing(results[k])' => lockSeen' /\ seen'[w]
    <3> SUFFICES ASSUME NEW k \in 1..(Len(results) + 1)
                 PROVE  /\ status[results'[k]] \in Verdicts
                        /\ FailFast /\ status[results'[k]] # "passed" => lockSeen' /\ seen'[w]
      BY <2>1 DEF Failing
    <3>1. CASE k = Len(results) + 1
      BY <3>1, <2>1, <2>2, <2>3 DEF Failing
    <3>2. CASE k # Len(results) + 1
      <4>1. k \in 1..Len(results)
        BY <3>2, <1>t
      <4> QED
        BY <4>1, <2>1, <2>2 DEF StopInv, Failing
    <3> QED
      BY <3>1, <3>2
  <2>5. ASSUME NEW v \in Slots
        PROVE  /\ pushed'[v] <= Len(results')
               /\ \A k \in 1..pushed'[v] : Failing(results[k])' => seen'[v]
    <3>1. CASE v = w
      BY <3>1, <2>1, <2>2, <2>4, <1>t
    <3>2. CASE v # w
      <4>1. pushed'[v] = pushed[v] /\ pushed[v] \in Nat /\ pushed[v] <= Len(results)
        BY <3>2, <2>2, <1>t DEF StopInv
      <4>2. \A k \in 1..pushed[v] : k \in 1..Len(results)
        BY <4>1, <1>t
      <4> QED
        BY <4>1, <4>2, <2>1, <1>t, SeenStays DEF StopInv, Failing
    <3> QED
      BY <3>1, <3>2
  <2> QED
    BY <1>s, <2>4, <2>5 DEF StopInv, Failing
<1> QED
  BY <1>1, <1>2

\* --fail-fast with a Relaxed flag, on any number of workers: a worker that has
\* pushed a result behind a failed one starts no further file.
THEOREM FailFastStops == Spec => NoStartBehindFailure
<1>1. Init => StopInv
  BY QueueAssumption DEF Init, StopInv
<1>2. PoolInv /\ StopInv /\ [Next]_vars => StopInv'
  BY NextStopInv
<1>3. PoolInv /\ StopInv /\ [Next]_vars =>
        [\A w \in Slots : FailFast /\ pc[w] = "next" /\ pc'[w] = "run" =>
            \A k \in 1..pushed[w] : status[results[k]] = "passed"]_vars
  <2> SUFFICES ASSUME PoolInv, StopInv, [Next]_vars,
                      NEW w \in Slots, FailFast, pc[w] = "next", pc'[w] = "run",
                      NEW k \in 1..pushed[w]
               PROVE  status[results[k]] = "passed"
    OBVIOUS
  <2>1. StartFile(w)
    BY StageEntered DEF Busy
  <2>2. ~seen[w]
    BY <2>1 DEF StartFile, Loads
  <2> QED
    BY <2>2 DEF StopInv, Failing
<1> QED
  BY <1>1, <1>2, <1>3, PoolInvariant, PTL DEF Spec, NoStartBehindFailure

-----------------------------------------------------------------------------
LEMMA NextCollectedOnce ==
  PoolInv /\ StopInv /\ CollectedOnce /\ [Next]_vars => CollectedOnce'
<1> SUFFICES ASSUME PoolInv, StopInv, CollectedOnce, [Next]_vars PROVE CollectedOnce'
  OBVIOUS
<1>t. /\ Len(results) \in Nat
      /\ \A k \in 1..Len(results) : results[k] \in Files /\ status[results[k]] \in Verdicts
  BY DEF PoolInv, TypeOK, StopInv
<1>1. CASE ~\E w \in Slots : CollectResult(w)
  <2>1. results' = results
    BY <1>1, ResultsGrow
  <2>2. ASSUME NEW w \in Slots, pc'[w] \in Busy, NEW k \in 1..Len(results)
        PROVE  results[k] # File(w)'
    <3>1. CASE StartFile(w)
      <4>1. status[File(w)] = "waiting" /\ File(w)' = File(w)
        BY <3>1, NextFile DEF StartFile, File
      <4> QED
        BY <4>1, <1>t DEF Verdicts
    <3>2. CASE pc[w] \in Busy /\ File(w)' = File(w)
      BY <3>2 DEF CollectedOnce
    <3> QED
      BY <2>2, <3>1, <3>2, StageEntered
  <2>3. ASSUME NEW f \in Files, status'[f] # "waiting"
        PROVE  (\E k \in 1..Len(results) : results[k] = f) \/ \E w \in Slots : OnWorker(w, f)'
    <3>1. CASE status[f] # "waiting"
      <4>1. \A w \in Slots : OnWorker(w, f) => OnWorker(w, f)'
        BY <1>1, StageEntered DEF OnWorker
      <4> QED
        BY <3>1, <4>1 DEF CollectedOnce
    <3>2. CASE status[f] = "waiting"
      <4>1. PICK w \in Slots : StartFile(w) \/ FinishFile(w)
        BY <2>3, <3>2 DEF Next, WorkerStep, SpawnWorker, CheckStop, Claim, ChainOver,
           BreakChain, EmitFinished, JudgeFile, CollectResult, Return, ForceStop, vars
      <4>2. CASE StartFile(w)
        <5>1. f = File(w) /\ pc'[w] = "run" /\ File(w)' = File(w)
          BY <2>3, <3>2, <4>2 DEF StartFile, File, PoolInv, TypeOK
        <5> QED
          BY <5>1 DEF OnWorker, Busy
      <4>3. CASE FinishFile(w)
        <5>1. status[File(w)] = "running"
          BY <4>3, BusyFile DEF FinishFile, Busy
        <5>2. status'[f] = status[f]
          BY <3>2, <4>3, <5>1 DEF FinishFile
        <5> QED
          BY <2>3, <3>2, <5>2
      <4> QED
        BY <4>1, <4>2, <4>3
    <3> QED
      BY <3>1, <3>2
  <2> QED
    BY <2>1, <2>2, <2>3 DEF CollectedOnce
<1>2. ASSUME NEW w \in Slots, CollectResult(w) PROVE CollectedOnce'
  <2>1. /\ File(w) \in Files
        /\ Len(results') = Len(results) + 1
        /\ \A k \in 1..Len(results) : results'[k] = results[k]
        /\ results'[Len(results) + 1] = File(w)
        /\ status' = status
    BY <1>2, CollectFacts
  <2>2. pc[w] \in Busy /\ pc'[w] \notin Busy
    BY <1>2 DEF CollectResult, Busy, PoolInv, TypeOK
  <2>3. \A k \in 1..Len(results) : results[k] # File(w)
    BY <2>2 DEF CollectedOnce
  <2>4. \A k \in 1..Len(results') : k \in 1..Len(results) \/ k = Len(results) + 1
    BY <2>1, <1>t
  <2>5. \A k, l \in 1..Len(results') : results'[k] = results'[l] => k = l
    BY <2>1, <2>3, <2>4 DEF CollectedOnce
  <2>6. ASSUME NEW v \in Slots, pc'[v] \in Busy, NEW k \in 1..Len(results')
        PROVE  results'[k] # File(v)'
    <3>1. v # w
      BY <2>2, <2>6
    <3>2. pc[v] \in Busy /\ File(v)' = File(v)
      BY <1>2, <2>6, <3>1 DEF CollectResult, File
    <3>3. File(v) # File(w)
      BY <3>1, <3>2, <2>2, DistinctFiles
    <3> QED
      BY <2>1, <2>4, <3>2, <3>3 DEF CollectedOnce
  <2>7. ASSUME NEW f \in Files, status'[f] # "waiting"
        PROVE  (\E k \in 1..Len(results') : results'[k] = f) \/ \E v \in Slots : OnWorker(v, f)'
    <3>1. 1..Len(results) \subseteq 1..Len(results') /\ Len(results) + 1 \in 1..Len(results')
      BY <2>1, <1>t
    <3>2. CASE \E k \in 1..Len(results) : results[k] = f
      BY <2>1, <3>1, <3>2
    <3>3. ASSUME NEW v \in Slots, OnWorker(v, f)
          PROVE  (\E k \in 1..Len(results') : results'[k] = f) \/ OnWorker(v, f)'
      <4>1. CASE v = w
        BY <2>1, <3>1, <3>3, <4>1 DEF OnWorker
      <4>2. CASE v # w
        BY <1>2, <3>3, <4>2 DEF OnWorker, CollectResult, File
      <4> QED
        BY <4>1, <4>2
    <3> QED
      BY <2>1, <2>7, <3>2, <3>3 DEF CollectedOnce
  <2> QED
    BY <2>5, <2>6, <2>7 DEF CollectedOnce
<1> QED
  BY <1>1, <1>2

\* file_finished is emitted between the verdict and the push.
LEMMA NextClosedInv ==
  PoolInv /\ StopInv /\ ClosedInv /\ [Next]_vars => ClosedInv'
<1> SUFFICES ASSUME PoolInv, StopInv, ClosedInv, [Next]_vars PROVE ClosedInv'
  OBVIOUS
<1>t. /\ closed \subseteq Files /\ Len(results) \in Nat
      /\ \A k \in 1..Len(results) : results[k] \in Files
  BY DEF PoolInv, TypeOK
<1>1. closed \subseteq closed'
  BY DEF Next, WorkerStep, SpawnWorker, CheckStop, Claim, ChainOver, BreakChain, StartFile,
     FinishFile, EmitFinished, JudgeFile, CollectResult, Return, ForceStop, vars
<1>2. \A f \in closed' : status'[f] \in Verdicts
  <2>1. \A f \in closed : status'[f] \in Verdicts
    BY <1>t, VerdictStays DEF ClosedInv
  <2>2. ASSUME NEW w \in Slots, EmitFinished(w)
        PROVE  closed' = closed \cup {File(w)} /\ status'[File(w)] \in Verdicts
    <3>1. status[File(w)] \in Verdicts
      BY <2>2, BusyFile DEF EmitFinished, Busy
    <3> QED
      BY <2>2, <3>1 DEF EmitFinished
  <2>3. (\E w \in Slots : EmitFinished(w)) \/ closed' = closed
    BY DEF Next, WorkerStep, SpawnWorker, CheckStop, Claim, ChainOver, BreakChain, StartFile,
       FinishFile, JudgeFile, CollectResult, Return, ForceStop, vars
  <2> QED
    BY <2>1, <2>2, <2>3
<1>3. \A w \in Slots : pc'[w] \in {"judge", "collect"} => File(w)' \in closed'
  <2> SUFFICES ASSUME NEW w \in Slots, pc'[w] \in {"judge", "collect"}
               PROVE  File(w)' \in closed'
    OBVIOUS
  <2>1. CASE EmitFinished(w)
    BY <2>1 DEF EmitFinished, File
  <2>2. CASE JudgeFile(w)
    <3>1. File(w)' = File(w) /\ File(w) \in closed
      BY <2>2 DEF JudgeFile, File, ClosedInv
    <3> QED
      BY <3>1, <1>1
  <2>3. CASE pc[w] \in {"judge", "collect"} /\ File(w)' = File(w)
    BY <2>3, <1>1 DEF ClosedInv
  <2> QED
    BY <2>1, <2>2, <2>3, StageEntered
<1>4. \A k \in 1..Len(results') : results'[k] \in closed'
  <2>1. CASE ~\E w \in Slots : CollectResult(w)
    BY <2>1, <1>1, ResultsGrow DEF ClosedInv
  <2>2. ASSUME NEW w \in Slots, CollectResult(w)
        PROVE  \A k \in 1..Len(results') : results'[k] \in closed'
    <3>1. /\ Len(results') = Len(results) + 1
          /\ \A k \in 1..Len(results) : results'[k] = results[k]
          /\ results'[Len(results) + 1] = File(w)
      BY <2>2, CollectFacts
    <3>2. \A k \in 1..Len(results') : k \in 1..Len(results) \/ k = Len(results) + 1
      BY <3>1, <1>t
    <3>3. File(w) \in closed
      BY <2>2 DEF CollectResult, ClosedInv
    <3> QED
      BY <3>1, <3>2, <3>3, <1>1 DEF ClosedInv
  <2> QED
    BY <2>1, <2>2
<1> QED
  BY <1>2, <1>3, <1>4 DEF ClosedInv

\* A chain whose files are over stays over.
LEMMA OverStays ==
  ASSUME PoolInv, [Next]_vars, NEW i \in 1..Len(chains),
         \A k \in 1..Len(chains[i]) : status[chains[i][k]] \in Verdicts
  PROVE  \A k \in 1..Len(chains[i]) : status'[chains[i][k]] \in Verdicts
BY QueueFacts, VerdictStays DEF PoolInv, TypeOK

LEMMA NextQueueDrained ==
  PoolInv /\ QueueDrained /\ [Next]_vars => QueueDrained'
<1> SUFFICES ASSUME PoolInv, QueueDrained, [Next]_vars, ~stop'
             PROVE  Drained'
  BY DEF QueueDrained
<1>t. /\ chains' = chains /\ Len(chains) \in Nat /\ cursor \in Nat
      /\ \A i \in 1..Len(chains) : Len(chains[i]) \in Nat
  BY QueueFacts DEF PoolInv, TypeOK, Next, WorkerStep, SpawnWorker, CheckStop, Claim,
     ChainOver,
     BreakChain, StartFile, FinishFile, EmitFinished, JudgeFile, CollectResult, Return,
     ForceStop, vars
<1>0. ~stop
  BY DEF Next, WorkerStep, SpawnWorker, CheckStop, Claim, ChainOver, BreakChain, StartFile,
     FinishFile, EmitFinished, JudgeFile, CollectResult, Return, ForceStop, vars
<1>d. /\ \A w \in Slots : pc[w] = "done" => cursor >= Len(chains)
      /\ \A i \in 1..Len(chains) : i <= cursor =>
           \/ \E w \in Slots : pc[w] \in Holding /\ chain[w] = i
           \/ \A k \in 1..Len(chains[i]) : status[chains[i][k]] \in Verdicts
  BY <1>0 DEF QueueDrained, Drained, HeldOrOver
<1>k. ASSUME cursor' = cursor,
             \A w \in Slots : pc'[w] = "done" => pc[w] = "done",
             \A w \in Slots : pc[w] \in Holding =>
               \/ pc'[w] \in Holding /\ chain'[w] = chain[w]
               \/ \A k \in 1..Len(chains[chain[w]]) : status[chains[chain[w]][k]] \in Verdicts
      PROVE  Drained'
  <2>1. ASSUME NEW i \in 1..Len(chains), i <= cursor PROVE HeldOrOver(i)'
    <3>1. CASE \E w \in Slots : pc[w] \in Holding /\ chain[w] = i
      <4>1. PICK w \in Slots : pc[w] \in Holding /\ chain[w] = i
        BY <3>1
      <4>2. CASE pc'[w] \in Holding /\ chain'[w] = chain[w]
        BY <4>1, <4>2 DEF HeldOrOver
      <4>3. CASE \A k \in 1..Len(chains[i]) : status[chains[i][k]] \in Verdicts
        BY <4>3, <1>t, OverStays DEF HeldOrOver
      <4> QED
        BY <1>k, <4>1, <4>2, <4>3
    <3>2. CASE \A k \in 1..Len(chains[i]) : status[chains[i][k]] \in Verdicts
      BY <3>2, <1>t, OverStays DEF HeldOrOver
    <3> QED
      BY <2>1, <1>d, <3>1, <3>2
  <2>2. \A w \in Slots : pc'[w] = "done" => cursor' >= Len(chains')
    BY <1>k, <1>t, <1>d
  <2> QED
    BY <1>k, <1>t, <2>1, <2>2 DEF Drained
<1>1. CASE SpawnWorker
  <2>1. /\ WorkerCount \in Nat /\ 1..WorkerCount \subseteq Slots
        /\ spawned \in 0..WorkerCount /\ spawned < WorkerCount
    BY <1>1, QueueFacts, WorkerCountFacts DEF SpawnWorker, PoolInv, TypeOK
  <2>2. spawned + 1 \in Slots /\ spawned + 1 > spawned
    BY <2>1
  <2>3. pc[spawned + 1] = "unspawned"
    BY <2>2 DEF PoolInv, SpawnOrder
  <2> QED
    BY <1>1, <1>k, <2>2, <2>3 DEF SpawnWorker, Holding
<1>2. ASSUME NEW w \in Slots, CheckStop(w)
      PROVE  /\ cursor' = cursor /\ chain' = chain
             /\ \A v \in Slots : pc'[v] = IF v = w THEN "claim" ELSE pc[v]
             /\ pc[w] = "top"
  BY <1>0, <1>2 DEF CheckStop, Loads, PoolInv, TypeOK
<1>3. ASSUME NEW w \in Slots, Claim(w)
      PROVE  Drained'
  <2>1. /\ cursor' = cursor + 1 /\ status' = status /\ pc[w] = "claim"
        /\ \A v \in Slots \ {w} : pc'[v] = pc[v] /\ chain'[v] = chain[v]
        /\ IF cursor < Len(chains) THEN pc'[w] = "next" /\ chain'[w] = cursor + 1
                                   ELSE pc'[w] = "done"
    BY <1>3 DEF Claim, PoolInv, TypeOK
  <2>2. pc[w] \notin Holding
    BY <2>1 DEF Holding
  <2>3. ASSUME NEW i \in 1..Len(chains), i <= cursor + 1
        PROVE  HeldOrOver(i)'
    <3>1. CASE i = cursor + 1
      BY <2>1, <3>1, <1>t DEF Holding, HeldOrOver
    <3>2. CASE i # cursor + 1
      <4>1. i <= cursor
        BY <2>3, <3>2, <1>t
      <4>2. \A v \in Slots : pc[v] \in Holding => pc'[v] \in Holding /\ chain'[v] = chain[v]
        BY <2>1, <2>2
      <4> QED
        BY <4>1, <4>2, <1>d, <1>t, <2>1 DEF HeldOrOver
    <3> QED
      BY <3>1, <3>2
  <2>4. \A v \in Slots : pc'[v] = "done" => cursor' >= Len(chains')
    BY <2>1, <1>t, <1>d
  <2> QED
    BY <2>1, <2>3, <2>4, <1>t DEF Drained
<1>4. ASSUME NEW w \in Slots, ChainOver(w)
      PROVE  \A k \in 1..Len(chains[chain[w]]) : status[chains[chain[w]][k]] \in Verdicts
  <2>1. pc[w] \in Holding /\ pos[w] > Len(chains[chain[w]])
    BY <1>4 DEF ChainOver, Holding
  <2>2. Len(chains[chain[w]]) \in Nat /\ pos[w] \in Nat
    BY <2>1, <1>t DEF PoolInv, HoldsChain
  <2>3. \A k \in 1..Len(chains[chain[w]]) : k < pos[w]
    BY <2>1, <2>2
  <2> QED
    BY <2>1, <2>3 DEF PoolInv, HeldStatus
<1>5. ASSUME NEW w \in Slots, BreakChain(w) PROVE FALSE
  BY <1>0, <1>5 DEF BreakChain, Loads
<1>6. ASSUME NEW w \in Slots,
             StartFile(w) \/ FinishFile(w) \/ EmitFinished(w) \/ JudgeFile(w) \/ CollectResult(w)
      PROVE  /\ cursor' = cursor /\ chain' = chain
             /\ pc'[w] \in Holding
             /\ \A v \in Slots \ {w} : pc'[v] = pc[v]
  BY <1>6 DEF StartFile, FinishFile, EmitFinished, JudgeFile, CollectResult, Holding, PoolInv,
     TypeOK
<1>7. ASSUME Return \/ ForceStop \/ UNCHANGED vars
      PROVE  UNCHANGED <<cursor, chain, pc>>
  BY <1>7 DEF Return, ForceStop, vars
<1>8. ASSUME NEW w \in Slots, CheckStop(w)
      PROVE  Drained'
  BY <1>8, <1>2, <1>k DEF Holding
<1>9. ASSUME NEW w \in Slots, ChainOver(w)
      PROVE  Drained'
  <2>1. /\ cursor' = cursor /\ chain' = chain
        /\ \A v \in Slots : pc'[v] = IF v = w THEN "top" ELSE pc[v]
    BY <1>9 DEF ChainOver, PoolInv, TypeOK
  <2> QED
    BY <1>9, <1>4, <1>k, <2>1
<1>10. ASSUME NEW w \in Slots,
              StartFile(w) \/ FinishFile(w) \/ EmitFinished(w) \/ JudgeFile(w) \/ CollectResult(w)
       PROVE  Drained'
  <2>1. "done" \notin Holding
    BY DEF Holding
  <2> QED
    BY <1>10, <1>6, <1>k, <2>1
<1> QED
  BY <1>1, <1>3, <1>5, <1>7, <1>8, <1>9, <1>10, <1>k DEF Next, WorkerStep

\* Once the handles are joined every worker is done and stays done.
LEMMA NextAllJoined == PoolInv /\ AllJoined /\ [Next]_vars => AllJoined'
<1> SUFFICES ASSUME PoolInv, AllJoined, [Next]_vars, returned'
             PROVE  spawned' = WorkerCount' /\ \A w \in 1..spawned' : pc'[w] = "done"
  BY DEF AllJoined
<1>t. chains' = chains /\ WorkerCount' = WorkerCount /\ 1..WorkerCount \subseteq Slots
      /\ WorkerCount \in Nat /\ spawned \in 0..WorkerCount
  BY QueueFacts, WorkerCountFacts DEF PoolInv, TypeOK, WorkerCount, Next, WorkerStep,
     SpawnWorker, CheckStop, Claim, ChainOver, BreakChain, StartFile, FinishFile, EmitFinished,
     JudgeFile, CollectResult, Return, ForceStop, vars
<1>1. CASE Return
  BY <1>1, <1>t DEF Return
<1>2. CASE ~Return
  <2>1. returned
    BY <1>2 DEF Next, WorkerStep, SpawnWorker, CheckStop, Claim, ChainOver, BreakChain,
       StartFile, FinishFile, EmitFinished, JudgeFile, CollectResult, ForceStop, vars
  <2>2. spawned = WorkerCount /\ \A w \in 1..spawned : pc[w] = "done"
    BY <2>1 DEF AllJoined
  <2>3. ASSUME NEW w \in Slots, WorkerStep(w) PROVE FALSE
    <3>1. pc[w] # "done" /\ pc[w] # "unspawned"
      BY <2>3 DEF WorkerStep, CheckStop, Claim, ChainOver, BreakChain, StartFile, FinishFile,
         EmitFinished, JudgeFile, CollectResult
    <3>2. ~(w > spawned)
      BY <3>1 DEF PoolInv, SpawnOrder
    <3>3. w \in Nat \ {0}
      BY QueueFacts, WorkerCountFacts DEF PoolInv, TypeOK
    <3>4. w \in 1..spawned
      BY <1>t, <3>2, <3>3
    <3> QED
      BY <2>2, <3>1, <3>4
  <2>4. ~SpawnWorker
    <3>1. SpawnWorker => spawned < WorkerCount
      BY DEF SpawnWorker
    <3>2. ~(spawned < WorkerCount)
      BY <1>t, <2>2
    <3> QED
      BY <3>1, <3>2
  <2>5. UNCHANGED <<spawned, pc>>
    BY <1>2, <2>3, <2>4 DEF Next, ForceStop, vars
  <2> QED
    BY <1>t, <2>2, <2>5
<1> QED
  BY <1>1, <1>2

LEMMA LossInvariant == Spec => []LossInv
<1>1. Init => LossInv
  <2> SUFFICES ASSUME Init PROVE LossInv
    OBVIOUS
  <2>1. /\ results = <<>> /\ Len(results) = 0 /\ closed = {} /\ cursor = 0 /\ ~returned
        /\ \A f \in Files : status[f] = "waiting"
        /\ \A w \in Slots : pc[w] = "unspawned" /\ pushed[w] = 0
    BY DEF Init
  <2>2. IsQueue(chains)
    BY QueueAssumption DEF Init
  <2>3. \A w \in Slots : pc[w] \notin Busy
    BY <2>1 DEF Busy
  <2>4. StopInv
    BY <2>1 DEF StopInv
  <2>5. CollectedOnce /\ ClosedInv /\ AllJoined
    BY <2>1, <2>3 DEF CollectedOnce, ClosedInv, AllJoined
  <2>6. QueueDrained
    BY <2>1, <2>2, QueueFacts DEF QueueDrained, Drained
  <2> QED
    BY <2>4, <2>5, <2>6 DEF LossInv
<1>2. PoolInv /\ LossInv /\ [Next]_vars => LossInv'
  BY NextStopInv, NextCollectedOnce, NextClosedInv, NextQueueDrained,
     NextAllJoined DEF LossInv
<1> QED
  BY <1>1, <1>2, PoolInvariant, PTL DEF Spec

\* run_all returns one result and has emitted one file_finished for every file
\* it started, each with a verdict, and leaves a file out only when something
\* asked the run to stop: for every queue, concurrency and interleaving.
THEOREM ResultsComplete == Spec => []NothingLost
<1>1. PoolInv /\ LossInv => NothingLost
  <2> SUFFICES ASSUME PoolInv, LossInv, returned
               PROVE  /\ \A f \in Files : status[f] # "waiting" => Cardinality(InSeq(f, results)) = 1
                      /\ closed = {f \in Files : status[f] # "waiting"}
                      /\ \A f \in Files : status[f] \in Verdicts \cup {"waiting"}
                      /\ (\E f \in Files : status[f] = "waiting") => stop
    BY DEF NothingLost
  <2>t. /\ results \in Seq(Files) /\ Len(results) \in Nat /\ DOMAIN results = 1..Len(results)
        /\ closed \subseteq Files
    BY DEF PoolInv, TypeOK
  <2>1. \A w \in Slots : pc[w] \in {"done", "unspawned"}
    <3> SUFFICES ASSUME NEW w \in Slots, pc[w] # "unspawned" PROVE pc[w] = "done"
      OBVIOUS
    <3>1. ~(w > spawned)
      BY DEF PoolInv, SpawnOrder
    <3>2. w \in Nat \ {0} /\ spawned \in Nat
      BY QueueFacts, WorkerCountFacts DEF PoolInv, TypeOK
    <3>3. w \in 1..spawned
      BY <3>1, <3>2
    <3> QED
      BY <3>3 DEF LossInv, AllJoined
  <2>2. \A w \in Slots : pc[w] \notin Busy /\ pc[w] \notin Holding
    BY <2>1 DEF Busy, Holding
  <2>3. ASSUME NEW f \in Files, status[f] # "waiting"
        PROVE  \E k \in 1..Len(results) : results[k] = f
    BY <2>2, <2>3 DEF LossInv, CollectedOnce, OnWorker
  <2>4. ASSUME NEW f \in Files, status[f] # "waiting"
        PROVE  Cardinality(InSeq(f, results)) = 1
    <3>1. PICK k \in 1..Len(results) : results[k] = f
      BY <2>3, <2>4
    <3>2. InSeq(f, results) = {k}
      BY <3>1, <2>t DEF InSeq, LossInv, CollectedOnce
    <3> QED
      BY <3>2, FS_Singleton
  <2>5. ASSUME NEW f \in Files, status[f] # "waiting"
        PROVE  status[f] \in Verdicts /\ f \in closed
    BY <2>3, <2>5 DEF LossInv, ClosedInv
  <2>6. \A f \in closed : status[f] # "waiting"
    BY DEF LossInv, ClosedInv, Verdicts
  <2>7. ASSUME NEW f \in Files, status[f] = "waiting" PROVE stop
    <3> SUFFICES ASSUME ~stop PROVE FALSE
      OBVIOUS
    <3>1. PICK i \in 1..Len(chains) : \E k \in 1..Len(chains[i]) : chains[i][k] = f
      BY QueueFacts DEF PoolInv, TypeOK
    <3>2. 1 \in 1..spawned /\ 1 \in Slots
      <4>1. WorkerCount \in Nat \ {0} /\ 1..WorkerCount \subseteq Slots
        BY QueueFacts, WorkerCountFacts DEF PoolInv, TypeOK
      <4>2. spawned = WorkerCount
        BY DEF LossInv, AllJoined
      <4> QED
        BY <4>1, <4>2
    <3>3. pc[1] = "done"
      BY <3>2 DEF LossInv, AllJoined
    <3>4. Drained
      BY DEF LossInv, QueueDrained
    <3>5. i <= cursor
      BY <3>2, <3>3, <3>4, QueueFacts DEF Drained, PoolInv, TypeOK
    <3>6. \A k \in 1..Len(chains[i]) : status[chains[i][k]] \in Verdicts
      BY <2>2, <3>4, <3>5 DEF Drained, HeldOrOver
    <3> QED
      BY <2>7, <3>1, <3>6 DEF Verdicts
  <2> QED
    BY <2>t, <2>4, <2>5, <2>6, <2>7
<1> QED
  BY <1>1, PoolInvariant, LossInvariant, PTL
-----------------------------------------------------------------------------
\* A relation that ranks the members of S.
Ranks(R, S) ==
  /\ \A x \in S : <<x, x>> \notin R
  /\ \A x, y, z \in S : <<x, y>> \in R /\ <<y, z>> \in R => <<x, z>> \in R
  /\ \A x, y \in S : x # y => <<x, y>> \in R \/ <<y, x>> \in R

\* A finite set in the order of such a relation: a list of its members, each in
\* one place, and one is ahead of another exactly when the relation says so.
LEMMA RankedOrders ==
  ASSUME NEW S, IsFiniteSet(S), NEW R, Ranks(R, S)
  PROVE  /\ Cardinality(S) \in Nat /\ Ranked(S, R) \in [1..Cardinality(S) -> S]
         /\ \A x \in S : \E i \in 1..Cardinality(S) : Ranked(S, R)[i] = x
         /\ \A i, j \in 1..Cardinality(S) :
              /\ i < j => <<Ranked(S, R)[i], Ranked(S, R)[j]>> \in R
              /\ <<Ranked(S, R)[i], Ranked(S, R)[j]>> \in R => i < j
              /\ Ranked(S, R)[i] = Ranked(S, R)[j] => i = j
<1> DEFINE n == Cardinality(S)
           rank == [x \in S |-> Cardinality(Ahead(S, R, x))]
           s == Ranked(S, R)
<1>1. n \in Nat
  BY FS_CardinalityType
<1>2. ASSUME NEW x \in S
      PROVE  /\ Ahead(S, R, x) \subseteq S /\ x \notin Ahead(S, R, x)
             /\ IsFiniteSet(Ahead(S, R, x)) /\ rank[x] \in 0..(n - 1)
  <2>1. Ahead(S, R, x) \subseteq S /\ x \notin Ahead(S, R, x)
    BY DEF Ahead, Ranks
  <2>2. /\ IsFiniteSet(Ahead(S, R, x)) /\ Cardinality(Ahead(S, R, x)) <= n
        /\ Cardinality(Ahead(S, R, x)) = n => Ahead(S, R, x) = S
    BY <2>1, FS_Subset
  <2>3. Cardinality(Ahead(S, R, x)) \in Nat
    BY <2>2, FS_CardinalityType
  <2> QED
    BY <1>1, <2>1, <2>2, <2>3
<1>3. ASSUME NEW x \in S, NEW y \in S, <<x, y>> \in R PROVE rank[x] < rank[y]
  <2>1. Ahead(S, R, x) \subseteq Ahead(S, R, y) /\ x \in Ahead(S, R, y)
    BY <1>3 DEF Ahead, Ranks
  <2>2. Cardinality(Ahead(S, R, x)) <= Cardinality(Ahead(S, R, y))
        /\ Cardinality(Ahead(S, R, x)) # Cardinality(Ahead(S, R, y))
    BY <1>2, <2>1, FS_Subset
  <2>3. rank[x] \in Int /\ rank[y] \in Int
    BY <1>1, <1>2
  <2> QED
    BY <2>2, <2>3
<1>4. rank \in [S -> 0..(n - 1)]
  BY <1>2
<1> HIDE DEF rank, n
<1>5. \A x, y \in S : x # y => rank[x] # rank[y]
  <2> SUFFICES ASSUME NEW x \in S, NEW y \in S, x # y PROVE rank[x] # rank[y]
    OBVIOUS
  <2>1. rank[x] \in Int /\ rank[y] \in Int
    BY <1>1, <1>4
  <2>2. rank[x] < rank[y] \/ rank[y] < rank[x]
    BY <1>3 DEF Ranks
  <2> QED
    BY <2>1, <2>2
<1>6. IsFiniteSet(0..(n - 1)) /\ Cardinality(0..(n - 1)) = n
  BY <1>1, FS_Interval
<1>7. rank \in Injection(S, 0..(n - 1))
  BY <1>4, <1>5 DEF Injection, IsInjective
<1>8. rank \in Surjection(S, 0..(n - 1))
  BY <1>6, <1>7, FS_Injection DEF n
<1>9. \A k \in 0..(n - 1) : \E x \in S : rank[x] = k
  BY <1>8 DEF Surjection
<1>10. \A x \in S : rank[x] = Cardinality(Ahead(S, R, x))
  BY DEF rank
<1>11. s = [i \in 1..n |-> CHOOSE x \in S : Cardinality(Ahead(S, R, x)) = i - 1]
  BY DEF Ranked, n
<1>12. ASSUME NEW i \in 1..n PROVE s[i] \in S /\ rank[s[i]] = i - 1
  <2>1. i - 1 \in 0..(n - 1)
    BY <1>1
  <2>2. \E x \in S : Cardinality(Ahead(S, R, x)) = i - 1
    BY <1>9, <1>10, <2>1
  <2>3. s[i] = CHOOSE x \in S : Cardinality(Ahead(S, R, x)) = i - 1
    BY <1>11
  <2> HIDE DEF s
  <2> QED
    BY <1>10, <2>2, <2>3
<1>13. s \in [1..n -> S]
  BY <1>11, <1>12
<1> HIDE DEF s
<1>14. ASSUME NEW x \in S PROVE \E i \in 1..n : s[i] = x
  <2>1. rank[x] + 1 \in 1..n /\ rank[x] \in Int
    BY <1>1, <1>4
  <2>2. s[rank[x] + 1] \in S /\ rank[s[rank[x] + 1]] = rank[x]
    BY <1>12, <2>1
  <2> QED
    BY <1>5, <2>1, <2>2
<1>15. ASSUME NEW i \in 1..n, NEW j \in 1..n
       PROVE  /\ i < j => <<s[i], s[j]>> \in R
              /\ <<s[i], s[j]>> \in R => i < j
              /\ s[i] = s[j] => i = j
  <2>1. /\ s[i] \in S /\ s[j] \in S /\ rank[s[i]] = i - 1 /\ rank[s[j]] = j - 1
        /\ i \in Int /\ j \in Int
    BY <1>1, <1>12
  <2>2. <<s[i], s[j]>> \in R => i < j
    BY <1>3, <2>1
  <2>3. <<s[j], s[i]>> \in R => j < i
    BY <1>3, <2>1
  <2>4. i < j => <<s[i], s[j]>> \in R
    BY <2>1, <2>3 DEF Ranks
  <2> QED
    BY <2>1, <2>2, <2>4
<1> QED
  BY <1>1, <1>13, <1>14, <1>15 DEF n, s

\* A finite set of numbers has a largest one.
LEMMA MaxIs ==
  ASSUME NEW S, S \subseteq Int, IsFiniteSet(S), S # {}
  PROVE  Max(S) \in S /\ \A y \in S : Max(S) >= y
<1> DEFINE R == {p \in S \X S : p[1] > p[2]}
           s == Ranked(S, R)
<1>1. \A x, y \in S : <<x, y>> \in R <=> x > y
  OBVIOUS
<1> HIDE DEF R
<1>2. Ranks(R, S)
  BY <1>1 DEF Ranks
<1>3. /\ Cardinality(S) \in Nat /\ s \in [1..Cardinality(S) -> S]
      /\ \A x \in S : \E i \in 1..Cardinality(S) : s[i] = x
      /\ \A i, j \in 1..Cardinality(S) : i < j => <<s[i], s[j]>> \in R
  BY <1>2, RankedOrders
<1> HIDE DEF s
<1>4. Cardinality(S) >= 1
  <2>1. Cardinality(S) # 0
    BY FS_EmptySet
  <2> QED
    BY <1>3, <2>1
<1>5. s[1] \in S /\ \A y \in S : s[1] >= y
  <2>1. 1 \in 1..Cardinality(S) /\ s[1] \in S
    BY <1>3, <1>4
  <2>2. ASSUME NEW y \in S PROVE s[1] >= y
    <3>1. PICK i \in 1..Cardinality(S) : s[i] = y
      BY <1>3
    <3>2. CASE i = 1
      BY <2>1, <3>1, <3>2
    <3>3. CASE i # 1
      <4>1. 1 < i
        BY <1>3, <3>3
      <4>2. <<s[1], y>> \in R
        BY <1>3, <2>1, <3>1, <4>1
      <4>3. s[1] > y /\ s[1] \in Int /\ y \in Int
        BY <1>1, <2>1, <4>2
      <4> QED
        BY <4>3
    <3> QED
      BY <3>2, <3>3
  <2> QED
    BY <2>1, <2>2
<1> QED
  BY <1>5 DEF Max
-----------------------------------------------------------------------------
\* The tags a run may be given; what build_chains reads of an entry's.
TagsOf == [Paths -> TagChoices]
PriorityAt(t, e) == PriorityOf(t[Loaded[e]])
GroupAt(t, e) == SerialOf(t[Loaded[e]])

\* The entries are the places of a list, and every one has a priority.
LEMMA EntriesAre ==
  ASSUME NEW t \in TagsOf
  PROVE  /\ Len(Loaded) \in Nat /\ Entries = 1..Len(Loaded) /\ IsFiniteSet(Entries)
         /\ \A e \in Entries : e \in Int /\ PriorityAt(t, e) \in Int
<1>1. Len(Loaded) \in Nat /\ Entries = 1..Len(Loaded) /\ \A e \in Entries : Loaded[e] \in Paths
  BY LoadedAssumption DEF Entries
<1>2. IsFiniteSet(Entries)
  BY <1>1, FS_Interval
<1>3. ASSUME NEW e \in Entries PROVE e \in Int /\ PriorityAt(t, e) \in Int
  <2>1. t[Loaded[e]] \in TagChoices
    BY <1>1 DEF TagsOf
  <2> DEFINE P == Priorities(t[Loaded[e]])
  <2>2. IsFiniteSet(P) /\ P \subseteq Int
    BY <2>1, TagsAssumption
  <2> HIDE DEF P
  <2>3. P # {} => Max(P) \in Int
    BY <2>2, MaxIs
  <2> QED
    BY <1>1, <2>3 DEF P, PriorityAt, PriorityOf
<1> QED
  BY <1>1, <1>2, <1>3

\* The members of a group: each of them once, in the order of build_chains.
LEMMA MembersAre ==
  ASSUME NEW t \in TagsOf, NEW g
  PROVE  LET m == Members(Loaded, t, g)
             S == {e \in Entries : GroupAt(t, e) = g}
             n == Cardinality(S)
         IN  /\ n \in Nat /\ m \in [1..n -> S] /\ \A e \in S : \E k \in 1..n : m[k] = e
             /\ \A k, l \in 1..n : m[k] = m[l] => k = l
             /\ \A k, l \in 1..n :
                  \/ PriorityAt(t, m[k]) > PriorityAt(t, m[l])
                  \/ PriorityAt(t, m[k]) = PriorityAt(t, m[l]) /\ m[k] < m[l]
                  => k < l
<1> DEFINE S == {e \in Entries : GroupAt(t, e) = g}
           R == MoreUrgent(Loaded, t)
           m == Ranked(S, R)
           n == Cardinality(S)
<1>1. S \subseteq Entries /\ IsFiniteSet(S) /\ \A e \in S : e \in Int /\ PriorityAt(t, e) \in Int
  BY EntriesAre, FS_Subset
<1>2. Members(Loaded, t, g) = m
  BY DEF Members, InGroup, GroupAt, Entries
<1>3. \A x, y \in S : <<x, y>> \in R <=> \/ PriorityAt(t, x) > PriorityAt(t, y)
                                         \/ PriorityAt(t, x) = PriorityAt(t, y) /\ x < y
  BY <1>1 DEF MoreUrgent, PriorityAt, Entries
<1> HIDE DEF S, R
<1>4. Ranks(R, S)
  <2>1. \A x \in S : <<x, x>> \notin R
    BY <1>1, <1>3
  <2>2. \A x, y, z \in S : <<x, y>> \in R /\ <<y, z>> \in R => <<x, z>> \in R
    BY <1>1, <1>3
  <2>3. \A x, y \in S : x # y => <<x, y>> \in R \/ <<y, x>> \in R
    BY <1>1, <1>3
  <2> QED
    BY <2>1, <2>2, <2>3 DEF Ranks
<1>5. /\ n \in Nat /\ m \in [1..n -> S] /\ \A e \in S : \E k \in 1..n : m[k] = e
      /\ \A k, l \in 1..n : /\ <<m[k], m[l]>> \in R => k < l
                            /\ m[k] = m[l] => k = l
  BY <1>1, <1>4, RankedOrders
<1> HIDE DEF m, n
<1>6. \A k, l \in 1..n : \/ PriorityAt(t, m[k]) > PriorityAt(t, m[l])
                         \/ PriorityAt(t, m[k]) = PriorityAt(t, m[l]) /\ m[k] < m[l]
                         => k < l
  BY <1>3, <1>5
<1> QED
  BY <1>2, <1>5, <1>6 DEF S, n

\* The places of a chain are taken by one group, or by one entry that has none.
OfGroup(t, c, n) ==
  \E g : /\ \A k \in 1..n : GroupAt(t, c[k]) = g
         /\ g = NoGroup => c = <<c[1]>>
         /\ g # NoGroup => c = Members(Loaded, t, g)

\* A chain is a non-empty list of entries of one group, each of them once.
LEMMA ChainIs ==
  ASSUME NEW t \in TagsOf, NEW c \in ChainSet(Loaded, t)
  PROVE  \E n \in Nat \ {0} :
           /\ c \in [1..n -> Entries] /\ c \in Seq(Entries) /\ Len(c) = n /\ Head(c) = c[1]
           /\ \A k, l \in 1..n : c[k] = c[l] => k = l
           /\ OfGroup(t, c, n)
<1>1. CASE \E e \in InGroup(Loaded, t, NoGroup) : c = <<e>>
  <2>1. PICK e \in Entries : c = <<e>> /\ GroupAt(t, e) = NoGroup
    BY <1>1 DEF InGroup, GroupAt, Entries
  <2>2. c \in [1..1 -> Entries] /\ c \in Seq(Entries) /\ Len(c) = 1 /\ c[1] = e /\ Head(c) = e
    BY <2>1
  <2>3. \A k \in 1..1 : k = 1
    OBVIOUS
  <2>4. OfGroup(t, c, 1)
    BY <2>1, <2>2, <2>3 DEF OfGroup
  <2> QED
    BY <2>2, <2>3, <2>4
<1>2. CASE c \notin {<<e>> : e \in InGroup(Loaded, t, NoGroup)}
  <2>1. PICK g : /\ g \in {GroupAt(t, e) : e \in Entries} \ {NoGroup} /\ c = Members(Loaded, t, g)
    BY <1>2 DEF ChainSet, GroupAt, Entries
  <2> DEFINE S == {e \in Entries : GroupAt(t, e) = g}
             n == Cardinality(S)
  <2>2. n \in Nat /\ c \in [1..n -> S] /\ \A k, l \in 1..n : c[k] = c[l] => k = l
    BY <2>1, MembersAre
  <2>3. S # {} /\ IsFiniteSet(S)
    BY <2>1, EntriesAre, FS_Subset
  <2>4. n # 0
    BY <2>3, FS_EmptySet
  <2>5. c \in [1..n -> Entries] /\ \A k \in 1..n : GroupAt(t, c[k]) = g
    BY <2>2
  <2> HIDE DEF n
  <2>6. c \in Seq(Entries) /\ Len(c) = n
    BY <2>2, <2>5
  <2>7. Head(c) = c[1]
    BY <2>2, <2>4, <2>6
  <2>8. OfGroup(t, c, n)
    BY <2>1, <2>5 DEF OfGroup
  <2> QED
    BY <2>2, <2>4, <2>5, <2>6, <2>7, <2>8
<1> QED
  BY <1>1, <1>2

\* A chain is as urgent as its most urgent member.
LEMMA ChainPriorityIs ==
  ASSUME NEW t \in TagsOf, NEW n \in Nat \ {0}, NEW c \in [1..n -> Entries]
  PROVE  /\ ChainPriority(Loaded, t, c) \in Int
         /\ \A k \in 1..n : ChainPriority(Loaded, t, c) >= PriorityAt(t, c[k])
         /\ \E k \in 1..n : ChainPriority(Loaded, t, c) = PriorityAt(t, c[k])
<1> DEFINE P == {PriorityAt(t, e) : e \in Range(c)}
           f == [k \in 1..n |-> PriorityAt(t, c[k])]
<1>1. Range(c) = {c[k] : k \in 1..n}
  BY DEF Range
<1>2. ChainPriority(Loaded, t, c) = Max(P)
  BY DEF ChainPriority, PriorityAt
<1>3. \A k \in 1..n : PriorityAt(t, c[k]) \in Int
  BY EntriesAre
<1>4. P = {PriorityAt(t, c[k]) : k \in 1..n}
  BY <1>1
<1>5. f \in Surjection(1..n, P)
  BY <1>4 DEF Surjection
<1>6. IsFiniteSet(P)
  <2>1. IsFiniteSet(1..n)
    BY FS_Interval
  <2>2. \E g : g \in Surjection(1..n, P)
    BY <1>5
  <2> HIDE DEF P, f
  <2> QED
    BY <2>1, <2>2, FS_Surjection
<1>7. P \subseteq Int /\ P # {}
  <2>1. 1 \in 1..n
    OBVIOUS
  <2>2. PriorityAt(t, c[1]) \in P
    BY <1>4, <2>1
  <2> QED
    BY <1>3, <1>4, <2>2
<1> HIDE DEF P
<1>8. Max(P) \in P /\ \A y \in P : Max(P) >= y
  BY <1>6, <1>7, MaxIs
<1> QED
  BY <1>2, <1>4, <1>7, <1>8

\* The queue: every chain in one place, and of two the one that is at least as
\* urgent ahead.
LEMMA QueueIs ==
  ASSUME NEW t \in TagsOf
  PROVE  LET q == BuildChains(Loaded, t)
             C == ChainSet(Loaded, t)
             n == Cardinality(C)
         IN  /\ n \in Nat /\ q \in [1..n -> C] /\ \A c \in C : \E i \in 1..n : q[i] = c
             /\ \A i, j \in 1..n : q[i] = q[j] => i = j
             /\ \A i, j \in 1..n : i < j =>
                  ChainPriority(Loaded, t, q[i]) >= ChainPriority(Loaded, t, q[j])
<1> DEFINE C == ChainSet(Loaded, t)
           R == QueueOrder(Loaded, t)
           q == Ranked(C, R)
           n == Cardinality(C)
           prio(c) == ChainPriority(Loaded, t, c)
<1>1. BuildChains(Loaded, t) = q
  BY DEF BuildChains
<1>2. IsFiniteSet(C)
  <2> DEFINE of == [e \in Entries |-> IF GroupAt(t, e) = NoGroup THEN <<e>>
                                      ELSE Members(Loaded, t, GroupAt(t, e))]
  <2>1. of \in Surjection(Entries, C)
    BY DEF Surjection, ChainSet, InGroup, GroupAt, Entries
  <2>2. IsFiniteSet(Entries)
    BY EntriesAre
  <2> HIDE DEF of, C
  <2> QED
    BY <2>1, <2>2, FS_Surjection
<1>3. ASSUME NEW c \in C PROVE prio(c) \in Int /\ Head(c) \in Int
  BY ChainIs, ChainPriorityIs, EntriesAre
<1>4. ASSUME NEW c \in C, NEW d \in C, Head(c) = Head(d) PROVE c = d
  <2>1. PICK m \in Nat \ {0} : /\ c \in [1..m -> Entries] /\ Head(c) = c[1]
                               /\ OfGroup(t, c, m)
    BY ChainIs
  <2>2. PICK l \in Nat \ {0} : /\ d \in [1..l -> Entries] /\ Head(d) = d[1]
                               /\ OfGroup(t, d, l)
    BY ChainIs
  <2> QED
    BY <1>4, <2>1, <2>2 DEF OfGroup
<1>5. \A c, d \in C : <<c, d>> \in R <=> \/ prio(c) > prio(d)
                                         \/ prio(c) = prio(d) /\ Head(c) < Head(d)
  BY DEF QueueOrder
<1> HIDE DEF C, R, prio
<1>6. Ranks(R, C)
  <2>1. \A c \in C : <<c, c>> \notin R
    BY <1>3, <1>5
  <2>2. \A c, d, e \in C : <<c, d>> \in R /\ <<d, e>> \in R => <<c, e>> \in R
    BY <1>3, <1>5
  <2>3. \A c, d \in C : c # d => <<c, d>> \in R \/ <<d, c>> \in R
    <3> SUFFICES ASSUME NEW c \in C, NEW d \in C, c # d PROVE <<c, d>> \in R \/ <<d, c>> \in R
      OBVIOUS
    <3>1. Head(c) # Head(d) /\ Head(c) \in Int /\ Head(d) \in Int /\ prio(c) \in Int /\ prio(d) \in Int
      BY <1>3, <1>4
    <3> QED
      BY <1>5, <3>1
  <2> QED
    BY <2>1, <2>2, <2>3 DEF Ranks
<1>7. /\ n \in Nat /\ q \in [1..n -> C] /\ \A c \in C : \E i \in 1..n : q[i] = c
      /\ \A i, j \in 1..n : /\ i < j => <<q[i], q[j]>> \in R
                            /\ q[i] = q[j] => i = j
  BY <1>2, <1>6, RankedOrders
<1> HIDE DEF q, n
<1>8. \A i, j \in 1..n : i < j => prio(q[i]) >= prio(q[j])
  <2> SUFFICES ASSUME NEW i \in 1..n, NEW j \in 1..n, i < j PROVE prio(q[i]) >= prio(q[j])
    OBVIOUS
  <2>1. q[i] \in C /\ q[j] \in C /\ <<q[i], q[j]>> \in R
    BY <1>7
  <2>2. prio(q[i]) \in Int /\ prio(q[j]) \in Int
    BY <1>3, <2>1
  <2> QED
    BY <1>5, <2>1, <2>2
<1> QED
  BY <1>1, <1>7, <1>8 DEF C, n, prio

\* build_chains loses no entry and doubles none: what it makes is a queue.
THEOREM ChainsAreAQueue ==
  ASSUME NEW t \in TagsOf
  PROVE  IsQueue(BuildChains(Loaded, t))
<1> DEFINE C == ChainSet(Loaded, t)
           n == Cardinality(C)
           q == BuildChains(Loaded, t)
<1>1. /\ n \in Nat /\ q \in [1..n -> C] /\ \A c \in C : \E i \in 1..n : q[i] = c
      /\ \A i, j \in 1..n : q[i] = q[j] => i = j
  BY QueueIs
<1> HIDE DEF n, q
<1>2. ASSUME NEW c \in C, NEW d \in C, NEW k \in DOMAIN c, NEW l \in DOMAIN d, c[k] = d[l]
      PROVE  c = d /\ k = l
  <2>1. PICK m \in Nat \ {0} : /\ c \in [1..m -> Entries] /\ OfGroup(t, c, m)
                               /\ \A i, j \in 1..m : c[i] = c[j] => i = j
    BY ChainIs
  <2>2. PICK p \in Nat \ {0} : d \in [1..p -> Entries] /\ OfGroup(t, d, p)
    BY ChainIs
  <2>3. PICK g : /\ \A i \in 1..m : GroupAt(t, c[i]) = g
                 /\ g = NoGroup => c = <<c[1]>>
                 /\ g # NoGroup => c = Members(Loaded, t, g)
    BY <2>1 DEF OfGroup
  <2>4. PICK h : /\ \A i \in 1..p : GroupAt(t, d[i]) = h
                 /\ h = NoGroup => d = <<d[1]>>
                 /\ h # NoGroup => d = Members(Loaded, t, h)
    BY <2>2 DEF OfGroup
  <2>5. DOMAIN c = 1..m /\ DOMAIN d = 1..p /\ g = h
    BY <1>2, <2>1, <2>2, <2>3, <2>4
  <2>6. CASE g # NoGroup
    BY <1>2, <2>1, <2>3, <2>4, <2>5, <2>6
  <2>7. CASE g = NoGroup
    <3>1. DOMAIN c = {1} /\ DOMAIN d = {1}
      BY <2>3, <2>4, <2>5, <2>7
    <3> QED
      BY <1>2, <2>3, <2>4, <2>5, <2>7, <3>1
  <2> QED
    BY <2>6, <2>7
<1>3. ASSUME NEW e \in Entries PROVE \E c \in C : \E k \in DOMAIN c : c[k] = e
  <2>1. CASE GroupAt(t, e) = NoGroup
    <3>1. <<e>> \in C
      BY <2>1 DEF ChainSet, InGroup, GroupAt, Entries
    <3>2. 1 \in DOMAIN <<e>> /\ <<e>>[1] = e
      OBVIOUS
    <3> QED
      BY <3>1, <3>2
  <2>2. CASE GroupAt(t, e) # NoGroup
    <3> DEFINE g == GroupAt(t, e)
               S == {x \in Entries : GroupAt(t, x) = g}
               c == Members(Loaded, t, g)
    <3>1. c \in C
      BY <2>2 DEF ChainSet, GroupAt, Entries
    <3>2. c \in [1..Cardinality(S) -> S] /\ \E k \in 1..Cardinality(S) : c[k] = e
      BY MembersAre
    <3> QED
      BY <3>1, <3>2
  <2> QED
    BY <2>1, <2>2
<1>4. \A c \in C : c \in Seq(Entries)
  BY ChainIs
<1>5. q \in Seq(Seq(Files)) /\ DOMAIN q = 1..n
  BY <1>1, <1>4, PoolAssumption
<1>6. \A f \in Files : \E i \in DOMAIN q : \E k \in DOMAIN q[i] : q[i][k] = f
  BY <1>1, <1>3, <1>5, PoolAssumption
<1>7. \A i, j \in DOMAIN q : \A k \in DOMAIN q[i], l \in DOMAIN q[j] :
        q[i][k] = q[j][l] => i = j /\ k = l
  BY <1>1, <1>2, <1>5
<1> QED
  BY <1>5, <1>6, <1>7 DEF IsQueue, q

-----------------------------------------------------------------------------
\* Along a chain what is behind a started file is over: the part of the
\* abstract scheduler that outlives the worker who held the chain.
ChainProgress ==
  \A i \in 1..Len(chains) : \A k, l \in 1..Len(chains[i]) :
    k < l /\ status[chains[i][l]] # "waiting" => status[chains[i][k]] \in Verdicts

\* A file that was waiting and is not any more was started by a worker.
LEMMA StartedBy ==
  ASSUME PoolInv, [Next]_vars, NEW f \in Files, status[f] = "waiting", status'[f] # "waiting"
  PROVE  \E w \in Slots : StartFile(w) /\ File(w) = f
<1>1. ASSUME NEW w \in Slots, FinishFile(w) PROVE FALSE
  <2>1. PICK v \in Verdicts : status' = [status EXCEPT ![File(w)] = v]
    BY <1>1 DEF FinishFile
  <2>2. status[File(w)] = "running"
    BY <1>1, BusyFile DEF FinishFile, Busy
  <2> QED
    BY <2>1, <2>2 DEF PoolInv, TypeOK
<1>2. ASSUME NEW w \in Slots, StartFile(w) PROVE File(w) = f
  BY <1>2 DEF StartFile, PoolInv, TypeOK
<1>3. \/ \E w \in Slots : StartFile(w) \/ FinishFile(w)
      \/ status' = status
  BY DEF Next, WorkerStep, SpawnWorker, CheckStop, Claim, ChainOver, BreakChain, EmitFinished,
     JudgeFile, CollectResult, Return, ForceStop, vars
<1> QED
  BY <1>1, <1>2, <1>3

LEMMA NextChainProgress == PoolInv /\ ChainProgress /\ [Next]_vars => ChainProgress'
<1> SUFFICES ASSUME PoolInv, ChainProgress, [Next]_vars PROVE ChainProgress'
  OBVIOUS
<1>1. chains' = chains /\ IsQueue(chains)
  BY DEF Next, WorkerStep, SpawnWorker, CheckStop, Claim, ChainOver, BreakChain, StartFile,
     FinishFile, EmitFinished, JudgeFile, CollectResult, Return, ForceStop, vars, PoolInv, TypeOK
<1>2. SUFFICES ASSUME NEW i \in 1..Len(chains), NEW k \in 1..Len(chains[i]),
                      NEW l \in 1..Len(chains[i]), k < l, status'[chains[i][l]] # "waiting"
               PROVE  status'[chains[i][k]] \in Verdicts
  BY <1>1 DEF ChainProgress
<1>3. chains[i][k] \in Files /\ chains[i][l] \in Files
  BY <1>1, QueueFacts
<1>4. CASE status[chains[i][l]] # "waiting"
  <2>1. status[chains[i][k]] \in Verdicts
    BY <1>2, <1>4 DEF ChainProgress
  <2> QED
    BY <1>3, <2>1, VerdictStays
<1>5. CASE status[chains[i][l]] = "waiting"
  <2>1. PICK w \in Slots : StartFile(w) /\ File(w) = chains[i][l]
    BY <1>2, <1>3, <1>5, StartedBy
  <2>2. chains[i][k] \in Abstract!Before(File(w))
    <3>1. /\ i \in DOMAIN chains /\ k \in DOMAIN chains[i] /\ l \in DOMAIN chains[i]
      BY <1>1 DEF IsQueue
    <3> QED
      BY <1>2, <1>3, <2>1, <3>1 DEF Abstract!Before
  <2>3. status[chains[i][k]] \in Verdicts
    BY <2>1, <2>2, BeforeIsOver DEF StartFile
  <2> QED
    BY <1>3, <2>3, VerdictStays
<1> QED
  BY <1>4, <1>5

\* The pool runs the queue of the tags, whatever a step does.
TagsInv == /\ PoolInv /\ ChainProgress
           /\ tags \in Tagged /\ chains = BuildChains(Loaded, tags)

\* Two entries of a group are in one chain, the more urgent one ahead.
LEMMA GroupPlaces ==
  ASSUME TagsInv, NEW d \in Entries, NEW e \in Entries, SameGroup(d, e)
  PROVE  \E i \in 1..Len(chains) : \E k, l \in 1..Len(chains[i]) :
           /\ chains[i][k] = d /\ chains[i][l] = e /\ k # l
           /\ Urgency(d) > Urgency(e) \/ (Urgency(d) = Urgency(e) /\ d < e) => k < l
<1>0. PICK g : g = Group(d)
  OBVIOUS
<1> DEFINE S == {x \in Entries : GroupAt(tags, x) = g}
           c == Members(Loaded, tags, g)
           n == Cardinality(S)
<1>1. tags \in TagsOf
  BY DEF TagsInv, Tagged, TagsOf
<1>2. c \in ChainSet(Loaded, tags)
  BY <1>0 DEF ChainSet, SameGroup, Group, Entries
<1>3. PICK i \in 1..Len(chains) : chains[i] = c
  <2>1. /\ BuildChains(Loaded, tags) \in [1..Cardinality(ChainSet(Loaded, tags)) -> ChainSet(Loaded, tags)]
        /\ \E i \in 1..Cardinality(ChainSet(Loaded, tags)) : BuildChains(Loaded, tags)[i] = c
    BY <1>1, <1>2, QueueIs
  <2>2. chains \in Seq(Seq(Files)) /\ chains = BuildChains(Loaded, tags)
    BY DEF TagsInv, PoolInv, TypeOK, IsQueue
  <2> DEFINE N == Cardinality(ChainSet(Loaded, tags))
             C == ChainSet(Loaded, tags)
  <2>3. chains \in [1..N -> C] /\ \E i \in 1..N : chains[i] = c
    BY <2>1, <2>2
  <2> HIDE DEF N, C, c
  <2>4. DOMAIN chains = 1..N /\ DOMAIN chains = 1..Len(chains)
    BY <2>2, <2>3
  <2> QED
    BY <2>3, <2>4
<1>4. d \in S /\ e \in S
  BY <1>0 DEF SameGroup, Group, GroupAt
<1>5. /\ n \in Nat /\ c \in [1..n -> S] /\ \A x \in S : \E k \in 1..n : c[k] = x
      /\ \A k, l \in 1..n :
           \/ PriorityAt(tags, c[k]) > PriorityAt(tags, c[l])
           \/ PriorityAt(tags, c[k]) = PriorityAt(tags, c[l]) /\ c[k] < c[l]
           => k < l
  BY <1>1, MembersAre
<1>6. Len(chains[i]) = n
  <2>1. chains[i] \in Seq(Files)
    BY DEF TagsInv, PoolInv, TypeOK, IsQueue
  <2> HIDE DEF c, n
  <2> QED
    BY <1>3, <1>5, <2>1
<1> HIDE DEF c, n, S
<1>7. PICK k \in 1..n : c[k] = d
  BY <1>4, <1>5
<1>8. PICK l \in 1..n : c[l] = e
  BY <1>4, <1>5
<1>9. k # l
  BY <1>7, <1>8 DEF SameGroup
<1>10. Urgency(d) > Urgency(e) \/ (Urgency(d) = Urgency(e) /\ d < e) => k < l
  BY <1>5, <1>7, <1>8 DEF Urgency, PriorityAt
<1> QED
  BY <1>3, <1>6, <1>7, <1>8, <1>9, <1>10

\* The chain of an entry holds it.
LEMMA ChainOfHolds ==
  ASSUME TagsInv, NEW e \in Entries
  PROVE  /\ ChainOf(e) \in 1..Len(chains) /\ \E k \in 1..Len(chains[ChainOf(e)]) : chains[ChainOf(e)][k] = e
         /\ Range(chains[ChainOf(e)]) = {chains[ChainOf(e)][k] : k \in 1..Len(chains[ChainOf(e)])}
<1>1. IsQueue(chains)
  BY DEF TagsInv, PoolInv, TypeOK
<1>2. \A i \in 1..Len(chains) : /\ i \in DOMAIN chains
                                /\ Range(chains[i]) = {chains[i][k] : k \in 1..Len(chains[i])}
  <2>1. chains \in Seq(Seq(Files))
    BY <1>1 DEF IsQueue
  <2>2. \A i \in 1..Len(chains) : i \in DOMAIN chains /\ chains[i] \in Seq(Files)
    BY <2>1
  <2>3. \A i \in 1..Len(chains) : DOMAIN chains[i] = 1..Len(chains[i])
    BY <2>2
  <2> QED
    BY <2>2, <2>3 DEF Range
<1>3. \E i \in 1..Len(chains) : \E k \in 1..Len(chains[i]) : chains[i][k] = e
  BY <1>1, QueueFacts, PoolAssumption
<1>4. \E i \in DOMAIN chains : e \in Range(chains[i])
  BY <1>2, <1>3
<1>5. ChainOf(e) \in DOMAIN chains /\ e \in Range(chains[ChainOf(e)])
  BY <1>4 DEF ChainOf
<1>6. DOMAIN chains = 1..Len(chains)
  BY <1>1 DEF IsQueue
<1> QED
  BY <1>2, <1>5, <1>6

\* A chain behind another one in the queue is no more urgent.
LEMMA QueueByUrgency ==
  ASSUME TagsInv, NEW i \in 1..Len(chains), NEW j \in 1..Len(chains), j < i,
         NEW k \in 1..Len(chains[i])
  PROVE  \E l \in 1..Len(chains[j]) : Urgency(chains[j][l]) >= Urgency(chains[i][k])
<1> DEFINE C == ChainSet(Loaded, tags)
           n == Cardinality(C)
           prio(c) == ChainPriority(Loaded, tags, c)
<1>1. tags \in TagsOf
  BY DEF TagsInv, Tagged, TagsOf
<1>2. /\ n \in Nat /\ chains \in [1..n -> C]
      /\ \A x, y \in 1..n : x < y => prio(chains[x]) >= prio(chains[y])
  BY <1>1, QueueIs DEF TagsInv
<1>3. chains \in Seq(Seq(Files))
  BY DEF TagsInv, PoolInv, TypeOK, IsQueue
<1> HIDE DEF C, n, prio
<1>4. Len(chains) = n
  BY <1>2, <1>3
<1>5. prio(chains[j]) >= prio(chains[i]) /\ chains[i] \in C /\ chains[j] \in C
  BY <1>2, <1>4
<1>6. ASSUME NEW c \in C
      PROVE  /\ prio(c) \in Int
             /\ \A x \in 1..Len(c) : PriorityAt(tags, c[x]) \in Int /\ prio(c) >= PriorityAt(tags, c[x])
             /\ \E x \in 1..Len(c) : prio(c) = PriorityAt(tags, c[x])
  <2>1. PICK m \in Nat \ {0} : c \in [1..m -> Entries] /\ Len(c) = m
    BY <1>1, <1>6, ChainIs DEF C
  <2>2. \A x \in 1..m : PriorityAt(tags, c[x]) \in Int
    BY <1>1, <2>1, EntriesAre
  <2> QED
    BY <1>1, <2>1, <2>2, ChainPriorityIs DEF prio
<1>7. PICK l \in 1..Len(chains[j]) : prio(chains[j]) = PriorityAt(tags, chains[j][l])
  BY <1>5, <1>6
<1>8. prio(chains[i]) >= PriorityAt(tags, chains[i][k]) /\ PriorityAt(tags, chains[i][k]) \in Int
  BY <1>5, <1>6
<1>9. prio(chains[i]) \in Int /\ prio(chains[j]) \in Int
  BY <1>5, <1>6
<1>10. PriorityAt(tags, chains[j][l]) >= PriorityAt(tags, chains[i][k])
  BY <1>5, <1>7, <1>8, <1>9
<1> QED
  BY <1>10 DEF PriorityAt, Urgency

LEMMA TagsKept == TagsInv => TagsHonoured
<1> SUFFICES ASSUME TagsInv PROVE TagsHonoured
  OBVIOUS
<1>1. SerialExclusion
  <2> SUFFICES ASSUME NEW d \in Entries, NEW e \in Entries, SameGroup(d, e),
                      status[d] = "running", status[e] = "running"
               PROVE  FALSE
    BY DEF SerialExclusion
  <2>1. PICK i \in 1..Len(chains) : \E k, l \in 1..Len(chains[i]) :
               chains[i][k] = d /\ chains[i][l] = e /\ k # l
    BY GroupPlaces
  <2>2. PICK k \in 1..Len(chains[i]), l \in 1..Len(chains[i]) :
               chains[i][k] = d /\ chains[i][l] = e /\ k # l
    BY <2>1
  <2>3. k < l \/ l < k
    BY <2>2
  <2> QED
    BY <2>2, <2>3 DEF TagsInv, ChainProgress, Verdicts
<1>2. GroupOrder
  <2> SUFFICES ASSUME NEW d \in Entries, NEW e \in Entries, SameGroup(d, e),
                      Urgency(d) > Urgency(e) \/ (Urgency(d) = Urgency(e) /\ d < e),
                      status[e] # "waiting"
               PROVE  status[d] \in Verdicts
    BY DEF GroupOrder
  <2>1. PICK i \in 1..Len(chains) : \E k, l \in 1..Len(chains[i]) :
               chains[i][k] = d /\ chains[i][l] = e /\ k < l
    BY GroupPlaces
  <2> QED
    BY <2>1 DEF TagsInv, ChainProgress
<1>3. UrgentClaimedFirst
  <2> SUFFICES ASSUME NEW d \in Entries, NEW e \in Entries, status[e] # "waiting",
                      \A m \in Range(chains[ChainOf(e)]) : Urgency(d) > Urgency(m),
                      ~(ChainOf(d) <= cursor)
               PROVE  FALSE
    BY DEF UrgentClaimedFirst
  <2> DEFINE i == ChainOf(d)
             j == ChainOf(e)
  <2>1. /\ i \in 1..Len(chains) /\ j \in 1..Len(chains) /\ cursor \in Nat /\ Len(chains) \in Nat
    BY ChainOfHolds, QueueFacts DEF TagsInv, PoolInv, TypeOK
  <2>2. PICK k \in 1..Len(chains[i]) : chains[i][k] = d
    BY ChainOfHolds
  <2>3. PICK l \in 1..Len(chains[j]) : chains[j][l] = e
    BY ChainOfHolds
  <2>4. \A m \in 1..Len(chains[j]) : Urgency(d) > Urgency(chains[j][m])
    BY ChainOfHolds
  <2> HIDE DEF i, j
  <2>5. ~(j > cursor)
    BY <2>1, <2>3 DEF TagsInv, PoolInv, UnclaimedWaits
  <2>6. j < i
    BY <2>1, <2>5 DEF i
  <2>7. PICK m \in 1..Len(chains[j]) : Urgency(chains[j][m]) >= Urgency(d)
    BY <2>1, <2>2, <2>6, QueueByUrgency
  <2>8. Urgency(chains[j][m]) \in Int /\ Urgency(d) \in Int
    <3>1. chains[j][m] \in Entries
      BY <2>1, QueueFacts, PoolAssumption DEF TagsInv, PoolInv, TypeOK
    <3>2. tags \in TagsOf
      BY DEF TagsInv, Tagged, TagsOf
    <3> QED
      BY <3>1, <3>2, EntriesAre DEF PriorityAt, Urgency
  <2> QED
    BY <2>4, <2>7, <2>8
<1> QED
  BY <1>1, <1>2, <1>3 DEF TagsHonoured

\* Whatever tags a suite's files carry and however the workers interleave, the
\* files of one @serial group run one at a time in the order of their
\* @priority, and a more urgent chain is claimed first (build_chains, run_all).
THEOREM TagsAreHonoured == SchedulingSpec => []TagsHonoured
<1>1. SchedulingInit => TagsInv
  <2> SUFFICES ASSUME SchedulingInit PROVE TagsInv
    OBVIOUS
  <2>1. PoolInv
    BY InitPoolInv DEF SchedulingInit
  <2>2. ChainProgress
    BY <2>1, QueueFacts DEF SchedulingInit, Init, ChainProgress, PoolInv, TypeOK
  <2> QED
    BY <2>1, <2>2 DEF SchedulingInit, TagsInv
<1>2. TagsInv /\ [SchedulingNext]_<<vars, tags>> => TagsInv'
  <2> SUFFICES ASSUME TagsInv, [SchedulingNext]_<<vars, tags>> PROVE TagsInv'
    OBVIOUS
  <2>1. [Next]_vars /\ tags' = tags
    BY DEF SchedulingNext
  <2>2. PoolInv' /\ ChainProgress'
    BY <2>1, NextPoolInv, NextChainProgress DEF TagsInv
  <2>3. chains' = chains
    BY <2>1 DEF Next, WorkerStep, SpawnWorker, CheckStop, Claim, ChainOver, BreakChain, StartFile,
       FinishFile, EmitFinished, JudgeFile, CollectResult, Return, ForceStop, vars
  <2> QED
    BY <2>1, <2>2, <2>3 DEF TagsInv
<1> QED
  BY <1>1, <1>2, TagsKept, PTL DEF SchedulingSpec


(***************************************************************************)
(* The stream first.  Encoded events leave the channel for a batch and the *)
(* batch for the disk, so at any moment the events accepted so far are     *)
(* those on disk, those of the batch and those in the channel, in that     *)
(* order, until a write fails; StreamInv says so, and that the tally is    *)
(* the count of what was encoded.                                          *)
(***************************************************************************)
Lines == [event : Events, seq : Nat, t : Nat, totals : {<<>>} \cup (Nat \X Nat)]

\* How many events the writer has encoded, and how many of the first n
\* accepted ones are of some kinds.
Encoded == Len(emitted) - Len(chan)
Of(n, kinds) == {j \in 1..n : emitted[j].kind \in kinds}

StreamTypes ==
  /\ clock \in Nat /\ emits \in [Producers -> Nat] /\ lastT \in [Producers -> Nat]
  /\ chan \in Seq(Events) /\ emitted \in Seq(Events)
  /\ writer \in {"recv", "drain", "write", "ended"} /\ closing \in BOOLEAN
  /\ batch \in Seq(Lines) /\ disk \in Seq(Lines)
  /\ tally \in [seq : Nat, t : Nat, files : Nat, failed : Nat]
  /\ failed \in BOOLEAN /\ handle \in BOOLEAN
  /\ finisher \in [Finishers -> {"idle", "sent", "joining", "ok", "error"}]

\* What is in the channel is what was accepted and not encoded yet.
ChannelInv ==
  /\ Len(chan) <= Len(emitted)
  /\ \A i \in 1..Len(chan) : chan[i] = emitted[Encoded + i]

TallyInv ==
  /\ tally.seq = Encoded
  /\ tally.files = Cardinality(Of(Encoded, FileFinished))
  /\ tally.failed = Cardinality(Of(Encoded, {"file_failed"}))

\* Line i tells event i.
LineTells(i, line) ==
  /\ line.event = emitted[i] /\ line.seq = i - 1 /\ emitted[i].t <= line.t /\ line.t <= tally.t
  /\ emitted[i].kind = Terminator =>
       line.totals = <<Cardinality(Of(i - 1, FileFinished)), Cardinality(Of(i - 1, {"file_failed"}))>>
LinesTell(lines) ==
  \A i \in 1..Len(lines) :
    LineTells(i, lines[i]) /\ (i > 1 => lines[i - 1].t <= lines[i].t)

LinesInv ==
  /\ Len(disk) <= Encoded
  /\ LinesTell(disk)
  /\ ~failed => Len(disk) + Len(batch) = Encoded /\ LinesTell(disk \o batch)

\* The first terminator that is encoded is the last event that is.
ClosingInv ==
  /\ \A i \in 1..Encoded : emitted[i].kind = Terminator => i = Encoded /\ closing
  /\ closing => Encoded > 0 /\ emitted[Encoded].kind = Terminator /\ writer # "recv"
  /\ writer = "ended" => closing
  /\ writer \in {"drain", "write"} <=> batch # <<>>

\* The handle goes to one finisher, who reports what became of the writes.
JoinInv ==
  /\ ~handle => \E x \in Finishers :
       finisher[x] = "joining" \/ (writer = "ended" /\ finisher[x] = (IF failed THEN "error" ELSE "ok"))
  /\ \A x \in Finishers : finisher[x] = "joining" => ~handle
  /\ \A x \in Finishers : finisher[x] \in {"ok", "error"} =>
       ~handle /\ writer = "ended" /\ (finisher[x] = "error" => failed)

StreamInv == StreamTypes /\ ChannelInv /\ TallyInv /\ LinesInv /\ ClosingInv /\ JoinInv
-----------------------------------------------------------------------------
LEMMA MaxOfTwo ==
  ASSUME NEW a \in Nat, NEW b \in Nat
  PROVE  Max({a, b}) \in {a, b} /\ Max({a, b}) >= a /\ Max({a, b}) >= b
<1> DEFINE m == IF a >= b THEN a ELSE b
<1>1. m \in {a, b} /\ \A y \in {a, b} : m >= y
  OBVIOUS
<1> HIDE DEF m
<1> QED
  BY <1>1 DEF Max

\* One more event is counted where it belongs.
LEMMA OfGrows ==
  ASSUME NEW n \in Nat, NEW kinds
  PROVE  /\ IsFiniteSet(Of(n, kinds)) /\ Cardinality(Of(n, kinds)) \in Nat
         /\ Cardinality(Of(n + 1, kinds))
              = Cardinality(Of(n, kinds)) + (IF emitted[n + 1].kind \in kinds THEN 1 ELSE 0)
<1>1. IsFiniteSet(Of(n, kinds)) /\ Cardinality(Of(n, kinds)) \in Nat
  <2>1. IsFiniteSet(1..n) /\ Of(n, kinds) \subseteq 1..n
    BY FS_Interval DEF Of
  <2> QED
    BY <2>1, FS_Subset, FS_CardinalityType
<1>2. Of(n + 1, kinds) = IF emitted[n + 1].kind \in kinds THEN Of(n, kinds) \cup {n + 1} ELSE Of(n, kinds)
  BY DEF Of
<1>3. n + 1 \notin Of(n, kinds)
  BY DEF Of
<1>4. Cardinality(Of(n, kinds) \cup {n + 1}) = Cardinality(Of(n, kinds)) + 1
  BY <1>1, <1>3, FS_AddElement
<1> QED
  BY <1>1, <1>2, <1>4

LEMMA AppendBehind ==
  ASSUME NEW S, NEW s \in Seq(S), NEW t \in Seq(S), NEW e \in S
  PROVE  s \o Append(t, e) = Append(s \o t, e)
  OBVIOUS

\* What an emitter or finisher sends waits behind what is in the channel.
LEMMA SendKeeps ==
  ASSUME StreamInv, NEW e \in Events, Send(e),
         UNCHANGED <<writer, closing, batch, tally, disk, failed>>
  PROVE  /\ chan' \in Seq(Events) /\ emitted' \in Seq(Events)
         /\ ChannelInv' /\ TallyInv' /\ LinesInv' /\ ClosingInv'
<1>1. CASE UNCHANGED <<chan, emitted>>
  <2>1. Encoded' = Encoded /\ \A n, kinds : Of(n, kinds)' = Of(n, kinds)
    BY <1>1 DEF Encoded, Of
  <2>2. \A i, line : LineTells(i, line) => LineTells(i, line)'
    BY <1>1, <2>1 DEF LineTells
  <2>3. ChannelInv' /\ TallyInv' /\ ClosingInv'
    BY <1>1, <2>1 DEF StreamInv, ChannelInv, TallyInv, ClosingInv
  <2>4. LinesInv'
    BY <2>1, <2>2 DEF StreamInv, LinesInv, LinesTell
  <2> QED
    BY <1>1, <2>3, <2>4 DEF StreamInv, StreamTypes
<1>2. CASE chan' = Append(chan, e) /\ emitted' = Append(emitted, e)
  <2>1. chan \in Seq(Events) /\ emitted \in Seq(Events) /\ Len(chan) <= Len(emitted)
    BY DEF StreamInv, StreamTypes, ChannelInv
  <2>2. /\ chan' \in Seq(Events) /\ emitted' \in Seq(Events)
        /\ Len(chan') = Len(chan) + 1 /\ Len(emitted') = Len(emitted) + 1
        /\ \A i \in 1..Len(chan) : chan'[i] = chan[i]
        /\ \A i \in 1..Len(emitted) : emitted'[i] = emitted[i]
        /\ chan'[Len(chan) + 1] = e /\ emitted'[Len(emitted) + 1] = e
        /\ Len(chan) \in Nat /\ Len(emitted) \in Nat
    BY <1>2, <2>1
  <2>3. Encoded' = Encoded /\ Encoded \in Nat /\ Encoded <= Len(emitted)
    BY <2>1, <2>2 DEF Encoded
  <2>4. ChannelInv'
    <3>1. Len(chan') <= Len(emitted')
      BY <2>1, <2>2
    <3>2. ASSUME NEW i \in 1..Len(chan') PROVE chan'[i] = emitted'[Encoded' + i]
      <4>1. CASE i = Len(chan) + 1
        <5>1. Encoded' + i = Len(emitted) + 1
          BY <2>2, <2>3, <4>1 DEF Encoded
        <5> QED
          BY <2>2, <4>1, <5>1
      <4>2. CASE i # Len(chan) + 1
        <5>1. i \in 1..Len(chan)
          BY <2>2, <4>2
        <5>2. Encoded + i \in 1..Len(emitted)
          BY <2>1, <2>2, <2>3, <5>1 DEF Encoded
        <5>3. chan[i] = emitted[Encoded + i]
          BY <5>1 DEF StreamInv, ChannelInv
        <5> QED
          BY <2>2, <2>3, <5>1, <5>2, <5>3
      <4> QED
        BY <4>1, <4>2
    <3> QED
      BY <3>1, <3>2 DEF ChannelInv
  <2>5. \A i \in 1..Encoded : emitted'[i] = emitted[i]
    BY <2>2, <2>3
  <2>6. \A n \in 0..Encoded : \A kinds : Of(n, kinds)' = Of(n, kinds)
    <3> SUFFICES ASSUME NEW n \in 0..Encoded, NEW kinds
                 PROVE  {j \in 1..n : emitted'[j].kind \in kinds} = {j \in 1..n : emitted[j].kind \in kinds}
      BY DEF Of
    <3>1. \A j \in 1..n : emitted'[j] = emitted[j]
      BY <2>3, <2>5
    <3> QED
      BY <3>1
  <2>7. TallyInv'
    BY <2>3, <2>6 DEF StreamInv, TallyInv
  <2>8. \A i \in 1..Encoded : \A line : LineTells(i, line) => LineTells(i, line)'
    <3> SUFFICES ASSUME NEW i \in 1..Encoded, NEW line, LineTells(i, line) PROVE LineTells(i, line)'
      OBVIOUS
    <3>1. i - 1 \in 0..Encoded
      BY <2>3
    <3> QED
      BY <2>5, <2>6, <3>1 DEF LineTells
  <2>9. LinesInv'
    <3>1. /\ disk \in Seq(Lines) /\ batch \in Seq(Lines) /\ Len(disk) <= Encoded
          /\ LinesTell(disk)
          /\ ~failed => Len(disk) + Len(batch) = Encoded /\ LinesTell(disk \o batch)
      BY DEF StreamInv, StreamTypes, LinesInv
    <3>2. ASSUME NEW lines, Len(lines) \in Nat, Len(lines) <= Encoded, LinesTell(lines) PROVE LinesTell(lines)'
      BY <2>3, <2>8, <3>2 DEF LinesTell
    <3>3. PICK old, all : old = disk /\ all = disk \o batch
      OBVIOUS
    <3>5. Len(old) \in Nat /\ Len(old) <= Encoded /\ (~failed => Len(all) \in Nat /\ Len(all) <= Encoded)
      BY <2>3, <3>1, <3>3
    <3>6. LinesTell(old) /\ (~failed => LinesTell(all))
      BY <3>1, <3>3
    <3>4. LinesTell(old)' /\ (~failed => LinesTell(all)')
      BY <3>2, <3>5, <3>6
    <3> QED
      BY <2>3, <3>1, <3>3, <3>4 DEF LinesInv
  <2>10. ClosingInv'
    BY <2>3, <2>5 DEF StreamInv, ClosingInv
  <2> QED
    BY <2>2, <2>4, <2>7, <2>9, <2>10
<1> QED
  BY <1>1, <1>2 DEF Send

\* Lines that tell their events still do when the tally's time goes on.
LEMMA LinesLast ==
  ASSUME NEW lines \in Seq(Lines), LinesTell(lines), UNCHANGED emitted,
         tally.t \in Nat, tally'.t \in Nat, tally.t <= tally'.t, emitted \in Seq(Events),
         Len(lines) <= Len(emitted)
  PROVE  LinesTell(lines)'
<1>1. ASSUME NEW i \in 1..Len(lines) PROVE LineTells(i, lines[i])'
  <2>1. LineTells(i, lines[i]) /\ (i > 1 => lines[i - 1].t <= lines[i].t)
    BY DEF LinesTell
  <2>3. lines[i] \in Lines
    OBVIOUS
  <2>4. lines[i].t \in Nat
    BY <2>3 DEF Lines
  <2>2. \A n, kinds : Of(n, kinds)' = Of(n, kinds)
    BY DEF Of
  <2>5. emitted[i] \in Events
    OBVIOUS
  <2>6. emitted[i].t \in Nat
    BY <2>5 DEF Events
  <2> QED
    BY <2>1, <2>2, <2>4, <2>6 DEF LineTells
<1> QED
  BY <1>1 DEF LinesTell

\* The writer encodes the next event of the channel behind those before it.
LEMMA EncodeKeeps ==
  ASSUME StreamInv, writer \in {"recv", "drain"}, ~closing, chan # <<>>, Encode,
         UNCHANGED <<emitted, disk, failed>>, writer' = "drain"
  PROVE  /\ chan' \in Seq(Events) /\ batch' \in Seq(Lines) /\ closing' \in BOOLEAN
         /\ tally' \in [seq : Nat, t : Nat, files : Nat, failed : Nat]
         /\ ChannelInv' /\ TallyInv' /\ LinesInv' /\ ClosingInv'
<1> DEFINE e == Head(chan)
           count == Count(e.kind)
           line == Line(e, count)
<1>1. /\ chan \in Seq(Events) /\ emitted \in Seq(Events) /\ batch \in Seq(Lines) /\ disk \in Seq(Lines)
      /\ tally \in [seq : Nat, t : Nat, files : Nat, failed : Nat]
      /\ Len(chan) <= Len(emitted)
      /\ \A i \in 1..Len(chan) : chan[i] = emitted[Encoded + i]
      /\ tally.seq = Encoded /\ Encoded \in Nat
      /\ tally.files = Cardinality(Of(Encoded, FileFinished))
      /\ tally.failed = Cardinality(Of(Encoded, {"file_failed"}))
  BY DEF StreamInv, StreamTypes, ChannelInv, TallyInv
<1>2. /\ e = chan[1] /\ e \in Events /\ e = emitted[Encoded + 1]
      /\ chan' \in Seq(Events) /\ Len(chan') = Len(chan) - 1
      /\ \A i \in 1..Len(chan') : chan'[i] = chan[i + 1]
      /\ Len(chan) \in Nat /\ Len(chan) >= 1 /\ Len(emitted) \in Nat
  <2>1. chan' = Tail(chan)
    BY DEF Encode
  <2> QED
    BY <1>1, <2>1
<1>3. Encoded' = Encoded + 1 /\ Encoded + 1 <= Len(emitted)
  BY <1>1, <1>2 DEF Encoded
<1>4. /\ tally' = count /\ batch' = Append(batch, line) /\ closing' = (e.kind = Terminator)
  BY DEF Encode
<1>5. e.t \in Nat /\ e.kind \in Kinds \cup {Terminator}
  BY <1>2 DEF Events
<1> DEFINE t == Max({tally.t, e.t})
<1>6. t \in Nat /\ tally.t <= t /\ e.t <= t
  <2>1. tally.t \in Nat
    BY <1>1
  <2>2. t \in {tally.t, e.t} /\ t >= tally.t /\ t >= e.t
    BY <1>5, <2>1, MaxOfTwo
  <2> HIDE DEF t, e
  <2> QED
    BY <1>5, <2>1, <2>2
<1>7. /\ count \in [seq : Nat, t : Nat, files : Nat, failed : Nat]
      /\ count.seq = Encoded + 1 /\ count.t = t
      /\ count.files = tally.files + (IF e.kind \in FileFinished THEN 1 ELSE 0)
      /\ count.failed = tally.failed + (IF e.kind = "file_failed" THEN 1 ELSE 0)
  <2> DEFINE files == IF e.kind \in FileFinished THEN tally.files + 1 ELSE tally.files
             bad == IF e.kind = "file_failed" THEN tally.failed + 1 ELSE tally.failed
  <2>1. files \in Nat /\ bad \in Nat /\ tally.seq + 1 \in Nat
    BY <1>1
  <2>2. count = [tally EXCEPT !.seq = @ + 1, !.t = t, !.files = files, !.failed = bad]
    BY DEF Count
  <2> HIDE DEF t, e, count, files, bad
  <2>3. /\ count \in [seq : Nat, t : Nat, files : Nat, failed : Nat]
        /\ count.seq = Encoded + 1 /\ count.t = t /\ count.files = files /\ count.failed = bad
    BY <1>1, <1>6, <2>1, <2>2
  <2> QED
    BY <1>1, <2>3 DEF files, bad
<1> HIDE DEF t, count
<1>8. TallyInv'
  <2>1. \A n, kinds : Of(n, kinds)' = Of(n, kinds)
    BY DEF Of
  <2> HIDE DEF e
  <2>2. ASSUME NEW kinds
        PROVE  Cardinality(Of(Encoded + 1, kinds)) = Cardinality(Of(Encoded, kinds)) + (IF e.kind \in kinds THEN 1 ELSE 0)
    <3>1. Encoded \in Nat /\ emitted[Encoded + 1].kind = e.kind
      BY <1>1, <1>2
    <3> QED
      BY <3>1, OfGrows
  <2>3. tally'.files = Cardinality(Of(Encoded + 1, FileFinished))
    <3>1. Cardinality(Of(Encoded + 1, FileFinished)) = tally.files + (IF e.kind \in FileFinished THEN 1 ELSE 0)
      BY <1>1, <2>2
    <3> QED
      BY ONLY <1>4, <1>7, <3>1
  <2>4. tally'.failed = Cardinality(Of(Encoded + 1, {"file_failed"}))
    <3>1. Cardinality(Of(Encoded + 1, {"file_failed"}))
            = tally.failed + (IF e.kind \in {"file_failed"} THEN 1 ELSE 0)
      BY <1>1, <2>2
    <3> QED
      BY ONLY <1>4, <1>7, <3>1
  <2>5. tally'.seq = Encoded'
    BY ONLY <1>3, <1>4, <1>7
  <2> QED
    BY <1>3, <2>1, <2>3, <2>4, <2>5 DEF TallyInv
<1>9. ChannelInv'
  <2> HIDE DEF e
  <2>1. Len(chan') <= Len(emitted')
    BY <1>1, <1>2
  <2>2. ASSUME NEW i \in 1..Len(chan') PROVE chan'[i] = emitted'[Encoded' + i]
    <3>1. i + 1 \in 1..Len(chan) /\ i \in Nat /\ chan'[i] = chan[i + 1]
      BY <1>2
    <3>2. chan[i + 1] = emitted[Encoded + (i + 1)]
      BY <1>1, <3>1
    <3>3. Encoded + (i + 1) = Encoded' + i
      BY <1>1, <1>3, <3>1
    <3> QED
      BY <3>1, <3>2, <3>3
  <2> QED
    BY <2>1, <2>2 DEF ChannelInv
<1>10. /\ line.event = e /\ line.seq = Encoded /\ line.t = t /\ line \in Lines
       /\ e.kind = Terminator => line.totals = <<tally.files, tally.failed>>
  <2> DEFINE totals == IF e.kind = Terminator THEN <<count.files, count.failed>> ELSE <<>>
  <2>1. line = [event |-> e, seq |-> count.seq - 1, t |-> count.t, totals |-> totals]
    BY DEF Line
  <2>2. e.kind = Terminator => totals = <<tally.files, tally.failed>>
    <3>1. tally.files \in Nat /\ tally.failed \in Nat
      BY <1>1
    <3>2. e.kind = Terminator => e.kind \notin FileFinished /\ e.kind # "file_failed"
      BY DEF FileFinished, Terminator
    <3> HIDE DEF e
    <3> QED
      BY <1>7, <3>1, <3>2
  <2>3. totals \in {<<>>} \cup (Nat \X Nat)
    BY <1>7
  <2> HIDE DEF e, line, totals
  <2>4. count.seq - 1 = Encoded /\ count.t = t
    BY <1>1, <1>7
  <2>5. line.event = e /\ line.seq = Encoded /\ line.t = t /\ line.totals = totals
    BY <2>1, <2>4
  <2>6. line \in Lines
    BY <1>1, <1>2, <1>6, <2>1, <2>3, <2>4 DEF Lines
  <2> QED
    BY <2>2, <2>5, <2>6
<1> HIDE DEF line
<1>11. batch' \in Seq(Lines) /\ Len(batch') = Len(batch) + 1 /\ batch' # <<>>
  BY <1>1, <1>4, <1>10
<1>12. LinesInv'
  <2>1. tally'.t = t /\ tally.t \in Nat
    BY <1>1, <1>4, <1>7
  <2>2. LinesTell(disk)'
    BY <1>1, <1>3, <1>6, <2>1, LinesLast DEF StreamInv, LinesInv
  <2>3. ASSUME ~failed PROVE Len(disk) + Len(batch') = Encoded + 1 /\ LinesTell(disk \o batch)'
    <3>1. PICK old, n, l : old = disk \o batch /\ n = Encoded /\ l = line
      OBVIOUS
    <3>2. PICK new : new = Append(old, l)
      OBVIOUS
    <3>3. old \in Seq(Lines) /\ Len(old) = Len(disk) + Len(batch) /\ n \in Nat /\ l \in Lines
      BY <1>1, <1>10, <3>1
    <3>4. LinesTell(old) /\ Len(old) = n
      BY <2>3, <3>1, <3>3 DEF StreamInv, LinesInv
    <3>5. disk' \o batch' = new
      <4>1. disk \o Append(batch, line) = Append(disk \o batch, line)
        BY ONLY <1>1, <1>10, AppendBehind
      <4> QED
        BY <1>4, <3>1, <3>2, <4>1
    <3>6. /\ Len(new) = n + 1 /\ new[n + 1] = l
          /\ \A i \in 1..n : new[i] = old[i]
      BY <3>2, <3>3, <3>4
    <3>7. LinesTell(old)'
      <4>1. tally'.t \in Nat /\ tally.t <= tally'.t /\ Len(old) <= Len(emitted)
        BY <1>1, <1>2, <1>3, <1>6, <2>1, <3>1, <3>4
      <4> QED
        BY ONLY <1>1, <2>1, <3>3, <3>4, <4>1, LinesLast, UNCHANGED emitted
    <3>8. LineTells(n + 1, l)'
      <4>1. PICK k : k = n + 1
        OBVIOUS
      <4>2. \A kinds : Of(k - 1, kinds)' = Of(n, kinds)
        BY <3>3, <4>1 DEF Of
      <4>3. /\ emitted'[k] = e /\ l.event = emitted'[k] /\ l.seq = k - 1
            /\ emitted'[k].t <= l.t /\ l.t <= tally'.t
        BY <1>2, <1>6, <1>10, <2>1, <3>1, <3>3, <4>1
      <4> HIDE DEF e
      <4>4. e.kind = Terminator =>
              l.totals = <<Cardinality(Of(n, FileFinished)), Cardinality(Of(n, {"file_failed"}))>>
        BY <1>1, <1>10, <3>1
      <4>5. LineTells(k, l)'
        BY <4>2, <4>3, <4>4 DEF LineTells
      <4> QED
        BY <4>1, <4>5
    <3>9. n > 0 => old[n].t <= l.t
      <4>1. n > 0 => LineTells(n, old[n]) /\ old[n] \in Lines
        BY <3>3, <3>4 DEF LinesTell
      <4>2. n > 0 => old[n].t <= tally.t /\ old[n].t \in Nat
        BY <4>1 DEF LineTells, Lines
      <4>3. l.t = t
        BY <1>10, <3>1
      <4> HIDE DEF e
      <4> QED
        BY <1>6, <2>1, <4>2, <4>3
    <3>10. LinesTell(new)'
      <4> SUFFICES ASSUME NEW i \in 1..Len(new)
                   PROVE  LineTells(i, new[i])' /\ (i > 1 => new[i - 1].t <= new[i].t)
        BY DEF LinesTell
      <4>1. CASE i = n + 1
        BY <3>3, <3>6, <3>8, <3>9, <4>1
      <4>2. CASE i # n + 1
        <5>1. i \in 1..Len(old) /\ (i > 1 => i - 1 \in 1..Len(old))
          BY <3>3, <3>4, <3>6, <4>2
        <5>2. LineTells(i, old[i])' /\ (i > 1 => old[i - 1].t <= old[i].t)
          BY <3>7, <5>1 DEF LinesTell
        <5> QED
          BY <3>4, <3>6, <5>1, <5>2
      <4> QED
        BY <4>1, <4>2
    <3>11. Len(disk) + Len(batch') = Encoded + 1
      <4>1. Len(disk) \in Nat /\ Len(batch) \in Nat
        BY <1>1
      <4>2. n = Encoded /\ n = Len(disk) + Len(batch) /\ Len(batch') = Len(batch) + 1
        BY <1>11, <3>1, <3>3, <3>4
      <4> HIDE DEF e
      <4> QED
        BY ONLY <4>1, <4>2
    <3> QED
      BY <3>5, <3>10, <3>11
  <2>4. Len(disk) <= Encoded /\ Len(disk) \in Nat
    BY <1>1 DEF StreamInv, LinesInv
  <2> QED
    BY <1>1, <1>3, <2>2, <2>3, <2>4 DEF LinesInv
<1>13. ClosingInv'
  <2>1. \A i \in 1..Encoded : emitted[i].kind # Terminator
    BY DEF StreamInv, ClosingInv
  <2> HIDE DEF e
  <2>2. \A i \in 1..(Encoded + 1) : emitted[i].kind = Terminator => i = Encoded + 1 /\ e.kind = Terminator
    BY <1>1, <1>2, <2>1
  <2>3. \A i \in 1..Encoded' : emitted'[i].kind = Terminator => i = Encoded' /\ closing'
    BY <1>3, <1>4, <2>2
  <2>4. closing' => emitted[Encoded + 1].kind = Terminator
    BY <1>2, <1>4
  <2>5. Encoded' > 0 /\ (closing' => emitted'[Encoded'].kind = Terminator)
    BY <1>1, <1>3, <2>4
  <2> QED
    BY <1>11, <2>3, <2>5 DEF ClosingInv
<1> QED
  BY <1>2, <1>4, <1>7, <1>8, <1>9, <1>11, <1>12, <1>13

\* A file task or a worker emits.
LEMMA EmitKeeps == ASSUME StreamInv, NEW p \in Producers, Emit(p) PROVE StreamInv'
<1>1. PICK t \in lastT[p]..clock, kind \in KindsOf(p) :
        lastT' = [lastT EXCEPT ![p] = t] /\ Send(Event(p, emits[p] + 1, kind, t, 0))
  BY DEF Emit
<1> DEFINE e == Event(p, emits[p] + 1, kind, t, 0)
<1>2. /\ emits' = [emits EXCEPT ![p] = @ + 1]
      /\ UNCHANGED <<clock, writer, closing, batch, tally, disk, failed, finisher, handle>>
  BY DEF Emit
<1>3. StreamTypes /\ JoinInv
  BY DEF StreamInv
<1>4. t \in Nat /\ emits[p] + 1 \in Nat
  BY <1>3 DEF StreamTypes
<1>5. e \in Events
  BY <1>4 DEF Event, Events, KindsOf, Kinds, FileFinished
<1> HIDE DEF e
<1>6. /\ chan' \in Seq(Events) /\ emitted' \in Seq(Events)
      /\ ChannelInv' /\ TallyInv' /\ LinesInv' /\ ClosingInv'
  BY <1>1, <1>2, <1>5, SendKeeps DEF e
<1>7. emits' \in [Producers -> Nat] /\ lastT' \in [Producers -> Nat]
  BY <1>1, <1>2, <1>3, <1>4 DEF StreamTypes
<1>8. JoinInv'
  BY <1>2, <1>3 DEF JoinInv
<1>9. StreamTypes'
  BY <1>2, <1>3, <1>6, <1>7 DEF StreamTypes
<1> QED
  BY <1>6, <1>8, <1>9 DEF StreamInv

\* finish sends its terminator, and waits for the writer or for who does.
LEMMA FinishingKeeps ==
  ASSUME StreamInv, NEW x \in Finishers,
         (\E exit \in Nat : FinishSend(x, exit)) \/ FinishLock(x) \/ FinishJoin(x)
  PROVE  StreamInv'
<1>1. StreamTypes /\ JoinInv
  BY DEF StreamInv
<1>2. ASSUME NEW exit \in Nat, FinishSend(x, exit) PROVE StreamInv'
  <2> DEFINE e == Event(x, 1, Terminator, clock, exit)
  <2>1. /\ finisher[x] = "idle" /\ finisher' = [finisher EXCEPT ![x] = "sent"] /\ Send(e)
        /\ UNCHANGED <<clock, emits, lastT, writer, closing, batch, tally, disk, failed, handle>>
    BY <1>2 DEF FinishSend
  <2>2. e \in Events
    BY <1>1 DEF Event, Events, StreamTypes
  <2> HIDE DEF e
  <2>3. /\ chan' \in Seq(Events) /\ emitted' \in Seq(Events)
        /\ ChannelInv' /\ TallyInv' /\ LinesInv' /\ ClosingInv'
    BY <2>1, <2>2, SendKeeps
  <2>4. StreamTypes'
    BY <1>1, <2>1, <2>3 DEF StreamTypes
  <2>5. JoinInv'
    BY <1>1, <2>1 DEF JoinInv, StreamTypes
  <2> QED
    BY <2>3, <2>4, <2>5 DEF StreamInv
<1>3. CASE FinishLock(x) \/ FinishJoin(x)
  <2>1. UNCHANGED <<clock, emits, lastT, chan, writer, closing, batch, tally, disk, failed, emitted>>
    BY <1>3 DEF FinishLock, FinishJoin
  <2>2. ASSUME FinishLock(x) PROVE StreamTypes' /\ JoinInv'
    <3>1. /\ finisher[x] = "sent" /\ handle' = FALSE
          /\ \A y \in Finishers : finisher[y] # "joining"
          /\ finisher' = [finisher EXCEPT ![x] = IF handle THEN "joining" ELSE "ok"]
      BY <2>2 DEF FinishLock
    <3>2. StreamTypes'
      BY <1>1, <2>1, <3>1 DEF StreamTypes
    <3>3. /\ finisher'[x] = (IF handle THEN "joining" ELSE "ok")
          /\ \A y \in Finishers \ {x} : finisher'[y] = finisher[y]
      BY <1>1, <3>1 DEF StreamTypes
    <3>4. handle \in BOOLEAN
      BY <1>1 DEF StreamTypes
    <3>5. JoinInv'
      <4>1. CASE handle
        <5>1. finisher'[x] = "joining" /\ \A y \in Finishers : finisher[y] \notin {"ok", "error"}
          BY <1>1, <3>3, <4>1 DEF JoinInv
        <5> QED
          BY <3>1, <3>3, <5>1 DEF JoinInv
      <4>2. CASE ~handle
        <5>1. PICK y \in Finishers : writer = "ended" /\ finisher[y] = (IF failed THEN "error" ELSE "ok")
          BY <1>1, <3>1, <4>2 DEF JoinInv
        <5>2. y # x /\ finisher'[x] = "ok"
          BY <3>1, <3>3, <4>2, <5>1
        <5>3. finisher'[y] = (IF failed' THEN "error" ELSE "ok") /\ writer' = "ended"
          BY <2>1, <3>3, <5>1, <5>2
        <5>4. \A z \in Finishers : finisher'[z] # "joining"
          BY <3>1, <3>3, <5>2
        <5>5. \A z \in Finishers : finisher'[z] = "error" => failed'
          BY <1>1, <2>1, <3>3, <5>2 DEF JoinInv
        <5> QED
          BY <3>1, <5>3, <5>4, <5>5 DEF JoinInv
      <4> QED
        BY <3>4, <4>1, <4>2
    <3> QED
      BY <3>2, <3>5
  <2>3. ASSUME FinishJoin(x) PROVE StreamTypes' /\ JoinInv'
    <3>1. /\ finisher[x] = "joining" /\ writer = "ended" /\ UNCHANGED handle
          /\ finisher' = [finisher EXCEPT ![x] = IF failed THEN "error" ELSE "ok"]
      BY <2>3 DEF FinishJoin
    <3>2. StreamTypes'
      BY <1>1, <2>1, <3>1 DEF StreamTypes
    <3>3. /\ finisher'[x] = (IF failed THEN "error" ELSE "ok")
          /\ \A y \in Finishers \ {x} : finisher'[y] = finisher[y]
      BY <1>1, <3>1 DEF StreamTypes
    <3>4. ~handle'
      BY <1>1, <3>1 DEF JoinInv
    <3>5. finisher'[x] \in {"ok", "error"} /\ (finisher'[x] = "error" => failed') /\ writer' = "ended"
          /\ finisher'[x] = (IF failed' THEN "error" ELSE "ok")
      BY <2>1, <3>1, <3>3
    <3>6. \A y \in Finishers \ {x} : finisher'[y] = "error" => failed'
      BY <1>1, <2>1, <3>3 DEF JoinInv
    <3>7. JoinInv'
      BY <3>4, <3>5, <3>6 DEF JoinInv
    <3> QED
      BY <3>2, <3>7
  <2>4. StreamTypes' /\ JoinInv'
    BY <1>3, <2>2, <2>3
  <2>5. Encoded' = Encoded /\ \A n, kinds : Of(n, kinds)' = Of(n, kinds)
    BY <2>1 DEF Encoded, Of
  <2>6. \A i, line : LineTells(i, line) => LineTells(i, line)'
    BY <2>1, <2>5 DEF LineTells
  <2>7. LinesInv'
    BY <2>1, <2>5, <2>6 DEF StreamInv, LinesInv, LinesTell
  <2>8. ChannelInv' /\ TallyInv' /\ ClosingInv'
    BY <2>1, <2>5 DEF StreamInv, ChannelInv, TallyInv, ClosingInv
  <2> QED
    BY <2>4, <2>7, <2>8 DEF StreamInv
<1> QED
  BY <1>2, <1>3

\* The lines of a prefix tell what they told.
LEMMA PrefixTells ==
  ASSUME NEW lines, LinesTell(lines), NEW part, Len(part) \in Nat, Len(lines) \in Nat, Len(part) <= Len(lines),
         \A i \in 1..Len(part) : part[i] = lines[i], UNCHANGED <<emitted, tally>>
  PROVE  LinesTell(part)'
<1>1. \A n, kinds : Of(n, kinds)' = Of(n, kinds)
  BY DEF Of
<1>2. \A i, line : LineTells(i, line) => LineTells(i, line)'
  BY <1>1 DEF LineTells
<1>3. ASSUME NEW i \in 1..Len(part) PROVE LineTells(i, part[i]) /\ (i > 1 => part[i - 1].t <= part[i].t)
  <2>1. i \in 1..Len(lines) /\ (i > 1 => i - 1 \in 1..Len(part))
    OBVIOUS
  <2> QED
    BY <2>1 DEF LinesTell
<1> QED
  BY <1>2, <1>3 DEF LinesTell

\* A batch is written, or a part of it, or it is thrown away.
LEMMA WriteKeeps == ASSUME StreamInv, Write PROVE StreamInv'
<1>1. /\ writer = "write" /\ WriteOut /\ batch' = <<>> /\ writer' = (IF closing THEN "ended" ELSE "recv")
      /\ UNCHANGED <<clock, emits, lastT, chan, closing, tally, finisher, handle, emitted>>
  BY DEF Write
<1>2. StreamTypes /\ JoinInv /\ LinesInv /\ ClosingInv
  BY DEF StreamInv
<1>3. disk \in Seq(Lines) /\ batch \in Seq(Lines) /\ failed \in BOOLEAN
  BY <1>2 DEF StreamTypes
<1> DEFINE all == disk \o batch
<1>4. /\ all \in Seq(Lines) /\ Len(all) = Len(disk) + Len(batch) /\ Len(disk) \in Nat /\ Len(batch) \in Nat
      /\ \A i \in 1..Len(disk) : all[i] = disk[i]
      /\ \A i \in 1..Len(batch) : all[Len(disk) + i] = batch[i]
  BY <1>3
<1>5. \/ ~failed /\ disk' = all /\ failed' = FALSE
      \/ ~failed /\ failed' = TRUE /\ \E k \in 0..(Len(batch) - 1) : disk' = disk \o SubSeq(batch, 1, k)
      \/ failed /\ failed' = TRUE /\ disk' = disk
  BY <1>1, <1>3 DEF WriteOut
<1>6. /\ disk' \in Seq(Lines) /\ Len(disk') \in Nat
      /\ ~failed => Len(disk') <= Len(all) /\ \A i \in 1..Len(disk') : disk'[i] = all[i]
  <2>1. CASE disk' = all
    BY <1>4, <2>1
  <2>3. CASE failed /\ disk' = disk
    BY <1>4, <2>3, <1>3
  <2>2. ASSUME NEW k \in 0..(Len(batch) - 1), disk' = disk \o SubSeq(batch, 1, k) PROVE <1>6
    BY <1>3, <1>4, <2>2
  <2> QED
    BY <1>5, <2>1, <2>2, <2>3
<1>7. Encoded' = Encoded /\ Encoded \in Int
  BY <1>1, <1>2 DEF Encoded, StreamTypes
<1>8. LinesInv'
  <2>1. LinesTell(disk)' /\ Len(disk') <= Encoded
    <3>1. CASE failed
      <4>1. disk' = disk /\ LinesTell(disk) /\ Len(disk) <= Encoded
        BY <1>2, <1>5, <3>1 DEF LinesInv
      <4>2. PICK old : old = disk
        OBVIOUS
      <4>3. LinesTell(old)'
        <5>1. LinesTell(old) /\ Len(old) \in Nat
          BY <1>4, <4>1, <4>2
        <5> QED
          BY <1>1, <5>1, PrefixTells
      <4> QED
        BY <4>1, <4>2, <4>3
    <3>2. CASE ~failed
      <4>1. LinesTell(disk \o batch) /\ Len(disk) + Len(batch) = Encoded
        BY <1>2, <3>2 DEF LinesInv
      <4>2. PICK old, part : old = disk \o batch /\ part = disk'
        OBVIOUS
      <4>3. /\ LinesTell(old) /\ Len(old) \in Nat /\ Len(part) \in Nat /\ Len(part) <= Len(old)
            /\ \A i \in 1..Len(part) : part[i] = old[i]
        BY <1>4, <1>6, <3>2, <4>1, <4>2
      <4>4. LinesTell(part)'
        BY <1>1, <4>3, PrefixTells
      <4>5. Len(disk') <= Encoded
        BY <1>4, <1>6, <3>2, <4>1
      <4> QED
        BY <4>2, <4>4, <4>5
    <3> QED
      BY <1>3, <3>1, <3>2
  <2>2. ~failed' => Len(disk') + Len(batch') = Encoded /\ disk' \o batch' = disk'
    BY <1>1, <1>2, <1>4, <1>5, <1>6 DEF LinesInv
  <2> QED
    BY <1>7, <2>1, <2>2 DEF LinesInv
<1>9. ClosingInv'
  BY <1>1, <1>2, <1>7 DEF ClosingInv
<1>10. JoinInv'
  BY <1>1, <1>2 DEF JoinInv
<1>11. StreamTypes'
  <2>1. batch' \in Seq(Lines)
    BY <1>1
  <2>2. failed' \in BOOLEAN /\ writer' \in {"recv", "ended"}
    BY <1>1, <1>5
  <2> QED
    BY <1>1, <1>2, <1>6, <2>1, <2>2 DEF StreamTypes
<1>12. ChannelInv' /\ TallyInv'
  <2>1. \A n, kinds : Of(n, kinds)' = Of(n, kinds)
    BY <1>1 DEF Of
  <2> QED
    BY <1>1, <1>7, <2>1 DEF StreamInv, ChannelInv, TallyInv
<1> QED
  BY <1>8, <1>9, <1>10, <1>11, <1>12 DEF StreamInv

\* The writer receives, drains and writes.
LEMMA WriterKeeps == ASSUME StreamInv, WriterStep PROVE StreamInv'
<1>1. ASSUME writer \in {"recv", "drain"}, ~closing, chan # <<>>, Encode, writer' = "drain",
             UNCHANGED <<clock, emits, lastT, disk, failed, finisher, handle, emitted>>
      PROVE  StreamInv'
  <2>1. /\ chan' \in Seq(Events) /\ batch' \in Seq(Lines) /\ closing' \in BOOLEAN
        /\ tally' \in [seq : Nat, t : Nat, files : Nat, failed : Nat]
        /\ ChannelInv' /\ TallyInv' /\ LinesInv' /\ ClosingInv'
    BY <1>1, EncodeKeeps
  <2>2. StreamTypes' /\ JoinInv'
    BY <1>1, <2>1 DEF StreamInv, StreamTypes, JoinInv
  <2> QED
    BY <2>1, <2>2 DEF StreamInv
<1>2. CASE Receive
  <2>1. ~closing
    BY <1>2 DEF Receive, StreamInv, StreamTypes, ClosingInv
  <2> QED
    BY <1>1, <1>2, <2>1 DEF Receive
<1>3. CASE Drain
  <2>1. CASE writer' = "write" /\ UNCHANGED <<chan, batch, tally, closing>>
    <3>1. /\ writer = "drain" /\ UNCHANGED <<clock, emits, lastT, disk, failed, finisher, handle, emitted>>
      BY <1>3 DEF Drain
    <3>2. Encoded' = Encoded /\ \A n, kinds : Of(n, kinds)' = Of(n, kinds)
      BY <2>1, <3>1 DEF Encoded, Of
    <3>3. \A i, line : LineTells(i, line) => LineTells(i, line)'
      BY <2>1, <3>1, <3>2 DEF LineTells
    <3>4. LinesInv'
      BY <2>1, <3>1, <3>2, <3>3 DEF StreamInv, LinesInv, LinesTell
    <3>5. ChannelInv' /\ TallyInv' /\ ClosingInv'
      BY <2>1, <3>1, <3>2 DEF StreamInv, ChannelInv, TallyInv, ClosingInv
    <3>6. StreamTypes' /\ JoinInv'
      BY <2>1, <3>1 DEF StreamInv, StreamTypes, JoinInv
    <3> QED
      BY <3>4, <3>5, <3>6 DEF StreamInv
  <2>2. CASE ~closing /\ chan # <<>> /\ Encode /\ UNCHANGED writer
    BY <1>1, <1>3, <2>2 DEF Drain
  <2> QED
    BY <1>3, <2>1, <2>2 DEF Drain
<1> QED
  BY <1>2, <1>3, WriteKeeps DEF WriterStep

LEMMA StreamStart == StreamInit => StreamInv
<1> SUFFICES ASSUME StreamInit PROVE StreamInv
  OBVIOUS
<1>1. /\ chan = <<>> /\ emitted = <<>> /\ batch = <<>> /\ disk = <<>> /\ writer = "recv" /\ closing = FALSE
      /\ tally = [seq |-> 0, t |-> 0, files |-> 0, failed |-> 0] /\ failed = FALSE /\ handle = TRUE
      /\ finisher = [x \in Finishers |-> "idle"]
  BY DEF StreamInit
<1>2. Encoded = 0 /\ \A kinds : Of(0, kinds) = {}
  BY <1>1 DEF Encoded, Of
<1>3. TallyInv
  BY <1>1, <1>2, FS_EmptySet DEF TallyInv
<1>4. StreamTypes
  <2>1. chan \in Seq(Events) /\ emitted \in Seq(Events) /\ batch \in Seq(Lines) /\ disk \in Seq(Lines)
    BY <1>1
  <2>2. clock = 0 /\ emits = [p \in Producers |-> 0] /\ lastT = [p \in Producers |-> 0]
    BY DEF StreamInit
  <2>3. emits \in [Producers -> Nat] /\ lastT \in [Producers -> Nat] /\ clock \in Nat
    BY <2>2
  <2>4. tally \in [seq : Nat, t : Nat, files : Nat, failed : Nat]
    BY <1>1
  <2>5. finisher \in [Finishers -> {"idle", "sent", "joining", "ok", "error"}]
    BY <1>1
  <2> QED
    BY <1>1, <2>1, <2>3, <2>4, <2>5 DEF StreamTypes
<1>5. ChannelInv /\ ClosingInv /\ JoinInv
  BY <1>1, <1>2 DEF ChannelInv, ClosingInv, JoinInv
<1>6. LinesInv
  <2>1. LinesTell(disk) /\ disk \o batch = <<>> /\ LinesTell(<<>>)
    BY <1>1 DEF LinesTell
  <2> QED
    BY <1>1, <1>2, <2>1 DEF LinesInv
<1> QED
  BY <1>3, <1>4, <1>5, <1>6 DEF StreamInv

\* The clock, and every step of something else.
LEMMA StreamRests ==
  ASSUME StreamInv, clock' \in Nat,
         UNCHANGED <<emits, lastT, chan, writer, closing, batch, tally, disk,
                     failed, finisher, handle, emitted>>
  PROVE  StreamInv'
<1>1. Encoded' = Encoded /\ \A n, kinds : Of(n, kinds)' = Of(n, kinds)
  BY DEF Encoded, Of
<1>2. \A i, line : LineTells(i, line) => LineTells(i, line)'
  BY <1>1 DEF LineTells
<1>3. LinesInv'
  BY <1>1, <1>2 DEF StreamInv, LinesInv, LinesTell
<1>4. ChannelInv' /\ TallyInv' /\ ClosingInv'
  BY <1>1 DEF StreamInv, ChannelInv, TallyInv, ClosingInv
<1>5. StreamTypes' /\ JoinInv'
  BY DEF StreamInv, StreamTypes, JoinInv
<1> QED
  BY <1>3, <1>4, <1>5 DEF StreamInv

LEMMA StreamStep == StreamInv /\ [StreamNext]_streamVars => StreamInv'
<1> SUFFICES ASSUME StreamInv, [StreamNext]_streamVars PROVE StreamInv'
  OBVIOUS
<1>1. clock \in Nat
  BY DEF StreamInv, StreamTypes
<1>2. CASE UNCHANGED streamVars
  BY <1>1, <1>2, StreamRests DEF streamVars
<1>3. CASE Tick
  BY <1>1, <1>3, StreamRests DEF Tick
<1>4. ASSUME NEW x \in Finishers, FinishSend(x, 0) \/ FinishLock(x) \/ FinishJoin(x) PROVE StreamInv'
  BY <1>4, FinishingKeeps
<1> QED
  BY <1>2, <1>3, <1>4, EmitKeeps, WriterKeeps DEF StreamNext

\* The events of the lines on disk are the first that were accepted.
LEMMA DiskIsPrefix ==
  ASSUME StreamInv
  PROVE  /\ Sent(disk) = SubSeq(emitted, 1, Len(disk)) /\ Sent(disk) \in Seq(Events)
         /\ Len(Sent(disk)) = Len(disk) /\ IsPrefix(Sent(disk), emitted)
         /\ \A i \in 1..Len(disk) : Sent(disk)[i] = emitted[i]
<1>1. /\ disk \in Seq(Lines) /\ emitted \in Seq(Events) /\ Len(disk) <= Len(emitted)
      /\ \A i \in 1..Len(disk) : disk[i].event = emitted[i]
  <2>1. chan \in Seq(Events) /\ emitted \in Seq(Events) /\ disk \in Seq(Lines)
    BY DEF StreamInv, StreamTypes
  <2>2. Encoded <= Len(emitted) /\ Encoded \in Int /\ Len(emitted) \in Nat /\ Len(disk) \in Nat
    BY <2>1 DEF Encoded
  <2> QED
    BY <2>1, <2>2 DEF StreamInv, LinesInv, LinesTell, LineTells
<1>2. Sent(disk) = SubSeq(emitted, 1, Len(disk))
  BY <1>1 DEF Sent
<1>3. Sent(disk) \in Seq(Events) /\ Len(Sent(disk)) = Len(disk) /\ \A i \in 1..Len(disk) : Sent(disk)[i] = emitted[i]
  BY <1>1, <1>2
<1>4. IsPrefix(Sent(disk), emitted)
  <2>1. SubSeq(Sent(disk), 1, Len(disk)) = Sent(disk)
    BY <1>3
  <2> QED
    BY <1>1, <1>2, <1>3, <2>1 DEF IsPrefix
<1> QED
  BY <1>2, <1>3, <1>4

COROLLARY DiskIsPrefixNext ==
  StreamInv' =>
    /\ Sent(disk)' \in Seq(Events) /\ Len(Sent(disk)') = Len(disk')
    /\ \A i \in 1..Len(disk') : Sent(disk)'[i] = emitted'[i]
    /\ IsPrefix(Sent(disk)', emitted')
<1>1. StreamInv => /\ Sent(disk) \in Seq(Events) /\ Len(Sent(disk)) = Len(disk)
                   /\ \A i \in 1..Len(disk) : Sent(disk)[i] = emitted[i]
                   /\ Len(Sent(disk)) <= Len(emitted)
                   /\ SubSeq(Sent(disk), 1, Len(Sent(disk))) = SubSeq(emitted, 1, Len(Sent(disk)))
  BY DiskIsPrefix DEF IsPrefix
<1>2. StreamInv' => (/\ Sent(disk) \in Seq(Events) /\ Len(Sent(disk)) = Len(disk)
                     /\ \A i \in 1..Len(disk) : Sent(disk)[i] = emitted[i]
                     /\ Len(Sent(disk)) <= Len(emitted)
                     /\ SubSeq(Sent(disk), 1, Len(Sent(disk))) = SubSeq(emitted, 1, Len(Sent(disk))))'
  BY <1>1, PTL
<1> QED
  BY <1>2 DEF IsPrefix

\* A stream that lost nothing is closed once the writer has ended.
LEMMA EndedIsClosed ==
  ASSUME StreamInv, writer = "ended", ~failed
  PROVE  Log!Closed(Sent(disk))
<1>1. Encoded > 0 /\ emitted[Encoded].kind = Terminator /\ batch = <<>> /\ Len(disk) = Encoded
  BY DEF StreamInv, StreamTypes, ClosingInv, LinesInv
<1>2. Encoded \in 1..Len(disk)
  BY <1>1 DEF StreamInv, StreamTypes
<1>3. Sent(disk) \in Seq(Events) /\ Len(Sent(disk)) = Encoded /\ Sent(disk)[Encoded] = emitted[Encoded]
  BY <1>1, <1>2, DiskIsPrefix
<1> QED
  BY <1>1, <1>3 DEF Log!Closed, Log!Last

\* What a reader of the stream relies on: the lines are numbered, timed and
\* totalled, and finish returns only after they are all there (events.rs,
\* Tally::encode and Events::finish).
THEOREM LinesAreCounted == StreamSpec => []StreamReads
<1>1. StreamInv => LinesTally
  <2> SUFFICES ASSUME StreamInv, NEW i \in 1..Len(disk)
               PROVE  /\ disk[i].seq = i - 1
                      /\ i > 1 => disk[i - 1].t <= disk[i].t
                      /\ disk[i].event.t <= disk[i].t
                      /\ disk[i].event.kind = Terminator =>
                           disk[i].totals = <<Cardinality(FilesAbove(i, FileFinished)),
                                              Cardinality(FilesAbove(i, {"file_failed"}))>>
    <3>1. ASSUME StreamInv PROVE DOMAIN disk = 1..Len(disk)
      BY <3>1 DEF StreamInv, StreamTypes
    <3> QED
      BY <3>1 DEF LinesTally
  <2>1. LinesTell(disk) /\ disk \in Seq(Lines)
    BY DEF StreamInv, StreamTypes, LinesInv
  <2>2. \A j \in 1..Len(disk) : disk[j].event = emitted[j]
    BY <2>1 DEF LinesTell, LineTells
  <2>3. \A kinds : FilesAbove(i, kinds) = Of(i - 1, kinds)
    BY <2>1, <2>2 DEF FilesAbove, Of
  <2>4. LineTells(i, disk[i]) /\ (i > 1 => disk[i - 1].t <= disk[i].t)
    BY <2>1 DEF LinesTell
  <2> QED
    BY <2>2, <2>3, <2>4 DEF LineTells
<1>2. StreamInv => FinishFlushes
  <2> SUFFICES ASSUME StreamInv PROVE FinishFlushes
    OBVIOUS
  <2>1. ASSUME writer = "ended", ~failed PROVE Log!Closed(Sent(disk)) /\ IsPrefix(Sent(disk), emitted)
    BY <2>1, DiskIsPrefix, EndedIsClosed
  <2>2. ASSUME \A x \in Finishers : finisher[x] \in {"ok", "error"}, failed, Finishers # {}
        PROVE  \E x \in Finishers : finisher[x] = "error"
    BY <2>2 DEF StreamInv, JoinInv
  <2>3. \A x \in Finishers : finisher[x] \in {"ok", "error"} =>
          writer = "ended" /\ (finisher[x] = "error" => failed)
    BY DEF StreamInv, JoinInv
  <2> QED
    BY <2>1, <2>2, <2>3 DEF FinishFlushes
<1> QED
  BY <1>1, <1>2, StreamStart, StreamStep, PTL DEF StreamSpec, StreamReads

\* Every step of the channel, the writer and its batches is one of the log's:
\* an event accepted, lines flushed, or nothing a reader sees.
THEOREM StreamIsLog == StreamSpec => ImplementsEventLog
<1>1. StreamInit => Log!Init
  BY DEF StreamInit, Log!Init, Sent
<1>2. StreamInv /\ StreamInv' /\ [StreamNext]_streamVars => [Log!Next]_(Log!vars)
  <2> SUFFICES ASSUME StreamInv, StreamInv', [StreamNext]_streamVars PROVE [Log!Next]_(Log!vars)
    OBVIOUS
  <2>1. ASSUME NEW e, Send(e), UNCHANGED disk PROVE [Log!Next]_(Log!vars)
    <3>1. UNCHANGED Sent(disk)
      BY <2>1 DEF Sent
    <3>2. CASE UNCHANGED emitted
      BY <3>1, <3>2 DEF Log!vars
    <3>3. CASE emitted' = Append(emitted, e)
      <4>1. emitted \in Seq(Events) /\ emitted' \in Seq(Events)
        BY DEF StreamInv, StreamTypes
      <4>2. Len(emitted') = Len(emitted) + 1 /\ \A i \in 1..Len(emitted) : emitted'[i] = emitted[i]
        BY <3>3, <4>1
      <4>3. SubSeq(emitted, 1, Len(emitted)) = SubSeq(emitted', 1, Len(emitted))
        BY <4>1, <4>2
      <4> QED
        BY <3>1, <4>1, <4>2, <4>3 DEF Log!Next, Log!Emit, Log!IsPrefix
    <3> QED
      BY <2>1, <3>2, <3>3 DEF Send
  <2>2. ASSUME Write PROVE [Log!Next]_(Log!vars)
    <3>1. writer = "write" /\ UNCHANGED <<emitted, chan>> /\ WriteOut
      BY <2>2 DEF Write
    <3>2. CASE failed
      BY <3>1, <3>2 DEF WriteOut, Log!vars, Sent
    <3>3. CASE ~failed
      <4>1. /\ Sent(disk) \in Seq(Events) /\ Len(Sent(disk)) = Len(disk) /\ Len(disk) \in Nat
            /\ \A i \in 1..Len(disk) : Sent(disk)[i] = emitted[i]
        BY DiskIsPrefix DEF StreamInv, StreamTypes
      <4>2. /\ Sent(disk)' \in Seq(Events) /\ Len(Sent(disk)') = Len(disk') /\ Len(disk') \in Nat
            /\ \A i \in 1..Len(disk') : Sent(disk)'[i] = emitted[i]
            /\ IsPrefix(Sent(disk)', emitted)
        <5>1. /\ Sent(disk)' \in Seq(Events) /\ Len(Sent(disk)') = Len(disk')
              /\ \A i \in 1..Len(disk') : Sent(disk)'[i] = emitted'[i]
              /\ IsPrefix(Sent(disk)', emitted')
          BY DiskIsPrefixNext
        <5> QED
          BY <3>1, <5>1
      <4>3. Len(disk) <= Len(disk')
        <5>1. disk \in Seq(Lines) /\ batch \in Seq(Lines)
          BY DEF StreamInv, StreamTypes
        <5>2. disk' = disk \o batch \/ \E k \in 0..(Len(batch) - 1) : disk' = disk \o SubSeq(batch, 1, k)
          BY <3>1, <3>3 DEF WriteOut
        <5> QED
          BY <5>1, <5>2
      <4>4. Len(disk) < Encoded /\ Len(disk') <= Encoded /\ Encoded \in Nat
            /\ \A i \in 1..Encoded : emitted[i].kind = Terminator => i = Encoded
        <5>1. Len(disk) + Len(batch) = Encoded /\ batch # <<>> /\ batch \in Seq(Lines)
          BY <3>1, <3>3 DEF StreamInv, StreamTypes, LinesInv, ClosingInv
        <5>2. Len(disk') <= Encoded' /\ Encoded' = Encoded
          BY <3>1 DEF StreamInv, LinesInv, Encoded
        <5> QED
          BY <4>1, <5>1, <5>2 DEF StreamInv, ClosingInv
      <4>5. ~Log!Closed(Sent(disk))
        BY <4>1, <4>4 DEF Log!Closed, Log!Last
      <4>6. IsPrefix(Sent(disk), Sent(disk)')
        <5>1. SubSeq(Sent(disk), 1, Len(disk)) = SubSeq(Sent(disk)', 1, Len(disk))
          BY <4>1, <4>2, <4>3
        <5> QED
          BY <4>1, <4>2, <4>3, <5>1 DEF IsPrefix
      <4>7. \A i \in DOMAIN Sent(disk)' : Sent(disk)'[i].kind = Terminator => i = Len(Sent(disk)')
        BY <4>2, <4>4
      <4> QED
        BY <3>1, <4>2, <4>5, <4>6, <4>7 DEF Log!Next, Log!Flush, Log!IsPrefix, IsPrefix
    <3> QED
      BY <3>2, <3>3
  <2>3. ASSUME UNCHANGED <<emitted, disk>> PROVE [Log!Next]_(Log!vars)
    BY <2>3 DEF Log!vars, Sent
  <2> QED
    BY <2>1, <2>2, <2>3 DEF StreamNext, Tick, Emit, FinishSend, FinishLock, FinishJoin, WriterStep,
       Receive, Drain, streamVars
<1> QED
  BY <1>1, <1>2, StreamStart, StreamStep, PTL DEF StreamSpec, ImplementsEventLog, Log!Spec

-----------------------------------------------------------------------------
(***************************************************************************)
(* Who has the ending.                                                     *)
(***************************************************************************)
\* The main task before its claim, and after it has won.
Early == {"before_install", "pool", "drained", "claim"}
Finishing == {"finish", "still_writing", "leave"}
Own == {"sweep", "report"} \cup Finishing
Taking == {"sweep", "finish"}

\* Whoever claimed first has the ending, and the other has let go or will.
Claimed ==
  /\ main \in Early \cup {"await_handler"} \cup Own
  /\ handler \in {"unborn", "wait", "claim", "gone"} \cup Taking
  /\ main = "before_install" <=> handler = "unborn"
  /\ main \in Own => ending /\ handler \in {"claim", "gone"}
  /\ handler \in Taking => ending
  /\ ending <=> main \in Own \/ handler \in Taking
  /\ handler = "gone" => main \in Own
  /\ main = "await_handler" => handler \in Taking

\* Only who has the ending sweeps and finishes.
OneAtIt ==
  /\ sweeps \in {0, 1} /\ (~ending => sweeps = 0)
  /\ finisher \in [Finishers -> {"idle", "sent", "joining", "ok", "error"}]
  /\ finisher[Main] # "idle" => main \in Finishing
  /\ finisher[Handler] # "idle" => handler = "finish"

Sent2 == Len(arrived) >= 2
\* A registration holds signals that were sent; what the tail holds and has
\* taken are different ones.
Heard ==
  /\ arrived \in Seq(Signals)
  /\ handlerIn \cup tailIn \subseteq {arrived[i] : i \in DOMAIN arrived}
  /\ handler \in {"claim"} \cup Taking => \E i \in DOMAIN arrived : taken = arrived[i]
  /\ main = "still_writing" =>
       /\ \E i \in DOMAIN arrived : tailFirst = arrived[i]
       /\ tailIn # {} => Sent2
  /\ \A k, m \in tailIn : k # m => Sent2
  /\ code \in 0..2

EndInv == Claimed /\ OneAtIt /\ Heard /\ ExitCodeRule

-----------------------------------------------------------------------------
LEMMA TheFinishers == Main \in Finishers /\ Handler \in Finishers /\ Main # Handler
BY FinishersAssumption DEF Main, Handler

LEMMA EndStart == RunInit => EndInv
BY TheFinishers DEF RunInit, StreamInit, EndInv, Claimed, OneAtIt, Heard, ExitCodeRule, Early, Own,
   Finishing, Taking

\* The steps that leave the ending alone.
LEMMA ElseKeeps ==
  ASSUME EndInv, ~exited, UNCHANGED endVars, UNCHANGED finisher
  PROVE  EndInv'
BY DEF EndInv, endVars, Claimed, OneAtIt, Heard, Sent2, ExitCodeRule

\* A step of finish, by the task that has the ending.
LEMMA FinishKeeps ==
  ASSUME EndInv, ~exited, UNCHANGED endVars, NEW x \in Finishers,
         x = Main => main \in Finishing, x = Handler => handler = "finish",
         NEW s \in {"sent", "joining", "ok", "error"}, finisher' = [finisher EXCEPT ![x] = s]
  PROVE  EndInv'
<1>1. OneAtIt'
  BY TheFinishers DEF EndInv, OneAtIt, endVars
<1> QED
  BY <1>1 DEF EndInv, endVars, Claimed, Heard, Sent2, ExitCodeRule

LEMMA SignalKeeps ==
  ASSUME EndInv, ~exited, NEW k \in Signals, Signal(k)
  PROVE  EndInv'
<1>1. /\ arrived \in Seq(Signals) /\ arrived' = Append(arrived, k)
      /\ UNCHANGED <<main, handler, ending, taken, tailFirst, code, sweeping, sweeps, finisher>>
  BY DEF Signal, streamVars, EndInv, Heard
<1>2. /\ arrived' \in Seq(Signals) /\ Len(arrived) \in Nat /\ Len(arrived') = Len(arrived) + 1
      /\ \A i \in DOMAIN arrived : i \in DOMAIN arrived' /\ arrived'[i] = arrived[i]
      /\ Len(arrived') \in DOMAIN arrived' /\ arrived'[Len(arrived')] = k
      /\ DOMAIN arrived # {} => Len(arrived) >= 1
  BY <1>1
<1>3. {arrived[i] : i \in DOMAIN arrived} \cup {k} \subseteq {arrived'[i] : i \in DOMAIN arrived'}
  BY <1>2
<1>4. handlerIn' \subseteq handlerIn \cup {k} /\ tailIn' \subseteq tailIn \cup {k}
  BY DEF Signal
<1>5. Claimed' /\ OneAtIt'
  BY <1>1 DEF EndInv, Claimed, OneAtIt
<1>6. tailIn # {} \/ main = "still_writing" => Sent2'
  BY <1>2 DEF EndInv, Heard, Sent2
<1>7. Heard'
  <2>1. (handlerIn \cup tailIn)' \subseteq {arrived'[i] : i \in DOMAIN arrived'}
    BY <1>3, <1>4 DEF EndInv, Heard
  <2>2. handler' \in {"claim"} \cup Taking => \E i \in DOMAIN arrived' : taken' = arrived'[i]
    BY <1>1, <1>2 DEF EndInv, Heard
  <2>3. main' = "still_writing" => \E i \in DOMAIN arrived' : tailFirst' = arrived'[i]
    BY <1>1, <1>2 DEF EndInv, Heard
  <2>4. \A j, m \in tailIn' : j # m => Sent2'
    BY <1>4, <1>6 DEF EndInv, Heard
  <2> QED
    BY <1>1, <1>2, <1>6, <2>1, <2>2, <2>3, <2>4 DEF EndInv, Heard
<1>8. ExitCodeRule'
  <2>1. CASE main = "before_install" /\ exitCode' = CodeOf[k]
    <3>1. handler' \notin Taking /\ main' = "before_install"
      BY <1>1, <2>1 DEF EndInv, Claimed, Taking
    <3>2. arrived' # <<>>
      BY <1>2
    <3> QED
      BY <1>2, <2>1, <3>1, <3>2 DEF ExitCodeRule, Taking
  <2>2. CASE UNCHANGED exited
    BY <2>2 DEF ExitCodeRule
  <2> QED
    BY <2>1, <2>2 DEF Signal, Exit
<1> QED
  BY <1>5, <1>7, <1>8 DEF EndInv

\* The steps of the main task up to its claim, and those that end the run.
LEMMA MainKeeps ==
  ASSUME EndInv, ~exited,
         \/ Install \/ PoolDrains \/ InstallTail \/ MainClaim \/ MainSwept \/ MainReport
         \/ MainFlushed \/ MainLeave
  PROVE  EndInv'
<1> USE TheFinishers DEF EndInv, Claimed, OneAtIt, Heard, Sent2, ExitCodeRule, streamVars,
        Early, Own, Finishing, Taking
<1>1. CASE Install
  BY <1>1 DEF Install
<1>2. CASE PoolDrains
  BY <1>2 DEF PoolDrains
<1>3. CASE InstallTail
  BY <1>3 DEF InstallTail
<1>4. CASE MainClaim
  BY <1>4 DEF MainClaim
<1>5. CASE MainSwept
  BY <1>5 DEF MainSwept
<1>6. CASE MainReport
  BY <1>6 DEF MainReport
<1>7. CASE MainFlushed
  BY <1>7 DEF MainFlushed
<1>8. CASE MainLeave
  BY <1>8 DEF MainLeave, Exit
<1> QED
  BY <1>1, <1>2, <1>3, <1>4, <1>5, <1>6, <1>7, <1>8

\* The tail's two signals.
LEMMA TailKeeps ==
  ASSUME EndInv, ~exited, NEW k \in Signals, TailFirst(k) \/ TailSecond(k)
  PROVE  EndInv'
<1>1. CASE TailFirst(k)
  <2>1. /\ main = "finish" /\ k \in tailIn /\ tailIn' = tailIn \ {k} /\ tailFirst' = k
        /\ main' = "still_writing"
        /\ UNCHANGED <<handler, handlerIn, arrived, ending, taken, code, sweeping, sweeps, exited,
                       exitCode, finisher>>
    BY <1>1 DEF TailFirst, streamVars
  <2>2. Claimed' /\ OneAtIt'
    BY <2>1 DEF EndInv, Claimed, OneAtIt, Early, Own, Finishing, Taking
  <2>3. tailIn' # {} => Sent2'
    BY <2>1 DEF EndInv, Heard, Sent2
  <2>4. Heard'
    BY <2>1, <2>3 DEF EndInv, Heard, Sent2
  <2> QED
    BY <2>1, <2>2, <2>4 DEF EndInv, ExitCodeRule
<1>2. CASE TailSecond(k)
  <2>1. /\ main = "still_writing" /\ k \in tailIn /\ exitCode' = CodeOf[tailFirst]
        /\ UNCHANGED <<main, handler, handlerIn, tailIn, arrived, ending, taken, tailFirst, code,
                       sweeping, sweeps, finisher>>
    BY <1>2 DEF TailSecond, streamVars, Exit
  <2>2. /\ Sent2 /\ arrived # <<>> /\ handler \notin Taking
        /\ \E i \in DOMAIN arrived : tailFirst = arrived[i]
    BY <2>1 DEF EndInv, Claimed, Heard, Sent2, Own, Finishing, Taking
  <2>3. Claimed' /\ OneAtIt' /\ Heard'
    BY <2>1 DEF EndInv, Claimed, OneAtIt, Heard, Sent2
  <2>4. ExitCodeRule'
    BY <2>1, <2>2 DEF ExitCodeRule, Sent2, Taking
  <2> QED
    BY <2>3, <2>4 DEF EndInv
<1> QED
  BY <1>1, <1>2

LEMMA HandlerKeeps ==
  ASSUME EndInv, ~exited,
         (\E k \in Signals : HandlerWakes(k)) \/ HandlerClaim \/ HandlerSwept \/ HandlerExit
  PROVE  EndInv'
<1> USE TheFinishers DEF EndInv, Claimed, OneAtIt, Heard, Sent2, ExitCodeRule, streamVars,
        Early, Own, Finishing, Taking
<1>1. ASSUME NEW k \in Signals, HandlerWakes(k) PROVE EndInv'
  BY <1>1 DEF HandlerWakes
<1>2. CASE HandlerClaim
  BY <1>2 DEF HandlerClaim
<1>3. CASE HandlerSwept
  BY <1>3 DEF HandlerSwept
<1>4. CASE HandlerExit
  BY <1>4 DEF HandlerExit, Exit
<1> QED
  BY <1>1, <1>2, <1>3, <1>4

LEMMA EndStep == EndInv /\ [RunNext]_runVars => EndInv'
<1> SUFFICES ASSUME EndInv, [RunNext]_runVars PROVE EndInv'
  OBVIOUS
<1>1. CASE UNCHANGED runVars
  BY <1>1 DEF runVars, streamVars, endVars, EndInv, Claimed, OneAtIt, Heard, Sent2, ExitCodeRule
<1>2. ASSUME ~exited, MainFinish PROVE EndInv'
  <2>1. main \in Finishing /\ UNCHANGED endVars
    BY <1>2 DEF MainFinish, Finishing
  <2>2. \E s \in {"sent", "joining", "ok", "error"} : finisher' = [finisher EXCEPT ![Main] = s]
    BY <1>2 DEF MainFinish, FinishSend, FinishLock, FinishJoin
  <2> QED
    BY <1>2, <2>1, <2>2, FinishKeeps, TheFinishers
<1>3. ASSUME ~exited, HandlerFinish PROVE EndInv'
  <2>1. handler = "finish" /\ UNCHANGED endVars
    BY <1>3 DEF HandlerFinish
  <2>2. \E s \in {"sent", "joining", "ok", "error"} : finisher' = [finisher EXCEPT ![Handler] = s]
    BY <1>3 DEF HandlerFinish, FinishSend, FinishLock, FinishJoin
  <2> QED
    BY <1>3, <2>1, <2>2, FinishKeeps, TheFinishers
<1>4. ASSUME ~exited, RunWriter PROVE EndInv'
  BY <1>4, ElseKeeps DEF RunWriter, WriterStep, Receive, Drain, Write
<1>5. ASSUME ~exited, NEW p \in Producers, FileEmits(p) PROVE EndInv'
  BY <1>5, ElseKeeps DEF FileEmits, Emit
<1> QED
  BY <1>1, <1>2, <1>3, <1>4, <1>5, MainKeeps, TailKeeps, HandlerKeeps, SignalKeeps
     DEF RunNext, MainStep, HandlerStep

-----------------------------------------------------------------------------
\* What a claim of the ending buys: one sweep of the plugins, one terminator,
\* and a handler that lets go once the main task has won (events.rs RunContext
\* claim_end, main.rs handle_interrupt).
THEOREM EndingIsOne == RunSpec => []OneEnding
<1>1. EndInv => OneEnding
  BY DEF EndInv, Claimed, OneAtIt, OneEnding, Own, Finishing, Taking
<1> QED
  BY <1>1, EndStart, EndStep, PTL DEF RunSpec

\* The exit code is the run's unless a signal was sent; an interrupted run
\* exits with a signal it got, and a settled code takes two to override.
THEOREM ExitCodeIsRight == RunSpec => []ExitCodeRule
<1>1. EndInv => ExitCodeRule
  BY DEF EndInv
<1> QED
  BY <1>1, EndStart, EndStep, PTL DEF RunSpec

-----------------------------------------------------------------------------
(***************************************************************************)
(* The two together: what the last line and the exit code tell.            *)
(***************************************************************************)
\* A file's event comes from a producer; the terminator comes from who has
\* the ending and carries what it knows: a signal's code, or the run's.
Fits(i, e) ==
  /\ e.from \in Producers <=> e.kind # Terminator
  /\ e.kind = Terminator =>
       /\ e.from = Handler => e.exit >= 128
       /\ e.from = Main => /\ e.exit \in 0..2
                           /\ e.exit = 0 => Of(i - 1, {"file_failed"}) = {}
                           /\ e.exit = 1 => Of(i - 1, {"file_failed"}) # {}
Whose == \A i \in 1..Len(emitted) : Fits(i, emitted[i])

\* The code is settled after the pool; an error of the flush makes it 2, and
\* a handler that sees a second signal has been sent two.
Settled ==
  /\ main \in {"finish", "still_writing"} => (code = 0 => ~AnyFailed) /\ (code = 1 => AnyFailed)
  /\ main = "leave" => finisher[Main] \in {"ok", "error"} /\ (finisher[Main] = "error" => code = 2)
  /\ handler \in {"claim"} \cup Taking /\ handlerIn # {} => Sent2
  /\ \A k, m \in handlerIn : k # m => Sent2

ToldInv == StreamInv /\ EndInv /\ Whose /\ Settled /\ CutShortExplained
-----------------------------------------------------------------------------
\* What the handler woke up for is a signal, and its code says so.
LEMMA TakenCode ==
  ASSUME EndInv, handler \in {"claim"} \cup Taking
  PROVE  taken \in Signals /\ CodeOf[taken] \in Nat /\ CodeOf[taken] >= 128
<1>1. taken \in Signals
  BY DEF EndInv, Heard
<1> QED
  BY <1>1, CodeAssumption

\* The stream's steps keep its invariant under the run.
LEMMA StreamUnderRun ==
  ASSUME StreamInv, EndInv, [RunNext]_runVars
  PROVE  StreamInv'
<1>1. CASE UNCHANGED streamVars
  BY <1>1, StreamStep
<1>2. ASSUME NEW p \in Producers, FileEmits(p) PROVE StreamInv'
  BY <1>2, EmitKeeps DEF FileEmits
<1>3. ASSUME RunWriter PROVE StreamInv'
  BY <1>3, WriterKeeps DEF RunWriter
<1>4. ASSUME MainFinish PROVE StreamInv'
  <2>1. code \in Nat
    BY DEF EndInv, Heard
  <2> QED
    BY <1>4, <2>1, FinishingKeeps, TheFinishers DEF MainFinish
<1>5. ASSUME HandlerFinish PROVE StreamInv'
  <2>1. CodeOf[taken] \in Nat
    BY <1>5, TakenCode DEF HandlerFinish, Taking
  <2> QED
    BY <1>5, <2>1, FinishingKeeps, TheFinishers DEF HandlerFinish
<1> QED
  BY <1>1, <1>2, <1>3, <1>4, <1>5 DEF RunNext, MainStep, HandlerStep, runVars, Install, InstallTail,
     MainClaim, MainReport, MainFlushed, MainLeave, TailFirst, TailSecond, HandlerWakes, HandlerClaim,
     HandlerExit, MainSwept, HandlerSwept, PoolDrains, Signal

\* An event that fits goes behind those that do.
LEMMA SendFits ==
  ASSUME StreamInv, Whose, NEW e \in Events, Send(e), Fits(Len(emitted) + 1, e)
  PROVE  Whose' /\ (e.kind # "file_failed" => AnyFailed' = AnyFailed)
<1>1. CASE UNCHANGED emitted
  <2>1. \A n, kinds : Of(n, kinds)' = Of(n, kinds)
    BY <1>1 DEF Of
  <2>2. \A i, d : Fits(i, d) => Fits(i, d)'
    BY <2>1 DEF Fits
  <2> QED
    BY <1>1, <2>2 DEF Whose, AnyFailed
<1>2. CASE emitted' = Append(emitted, e)
  <2>1. emitted \in Seq(Events) /\ Len(emitted) \in Nat
    BY DEF StreamInv, StreamTypes
  <2>2. /\ emitted' \in Seq(Events) /\ Len(emitted') = Len(emitted) + 1
        /\ emitted'[Len(emitted) + 1] = e
        /\ \A i \in 1..Len(emitted) : emitted'[i] = emitted[i]
    BY <1>2, <2>1
  <2>3. \A n \in 0..Len(emitted) : \A kinds : Of(n, kinds)' = Of(n, kinds)
    <3> SUFFICES ASSUME NEW n \in 0..Len(emitted), NEW kinds
                 PROVE  {j \in 1..n : emitted'[j].kind \in kinds} = {j \in 1..n : emitted[j].kind \in kinds}
      BY DEF Of
    <3>1. \A j \in 1..n : emitted'[j] = emitted[j]
      BY <2>1, <2>2
    <3> QED
      BY <3>1
  <2>4. \A i \in 1..(Len(emitted) + 1) : \A d : Fits(i, d) => Fits(i, d)'
    <3> SUFFICES ASSUME NEW i \in 1..(Len(emitted) + 1), NEW d, Fits(i, d) PROVE Fits(i, d)'
      OBVIOUS
    <3>1. Of(i - 1, {"file_failed"})' = Of(i - 1, {"file_failed"})
      BY <2>1, <2>3
    <3> QED
      BY <3>1 DEF Fits
  <2>5. Whose'
    <3>1. PICK new : new = emitted'
      OBVIOUS
    <3>2. ASSUME NEW i \in 1..(Len(emitted) + 1) PROVE Fits(i, new[i])'
      <4>1. Fits(i, new[i])
        BY <2>1, <2>2, <3>1 DEF Whose
      <4> QED
        BY <2>4, <4>1
    <3> QED
      BY <2>2, <3>1, <3>2 DEF Whose
  <2>6. DOMAIN emitted' = 1..(Len(emitted) + 1) /\ DOMAIN emitted = 1..Len(emitted)
    BY <2>1, <2>2
  <2>7. e.kind # "file_failed" => AnyFailed' = AnyFailed
    BY <2>1, <2>2, <2>6 DEF AnyFailed
  <2> QED
    BY <2>5, <2>7
<1> QED
  BY <1>1, <1>2 DEF Send

LEMMA RestFits ==
  ASSUME Whose, UNCHANGED emitted
  PROVE  Whose' /\ AnyFailed' = AnyFailed
<1>1. \A n, kinds : Of(n, kinds)' = Of(n, kinds)
  BY DEF Of
<1>2. \A i, d : Fits(i, d) => Fits(i, d)'
  BY <1>1 DEF Fits
<1> QED
  BY <1>2 DEF Whose, AnyFailed

\* A failed file among those accepted so far, as the code and as a line counts it.
LEMMA FailedIsCounted ==
  ASSUME StreamInv
  PROVE  AnyFailed <=> Of(Len(emitted), {"file_failed"}) # {}
<1>1. emitted \in Seq(Events)
  BY DEF StreamInv, StreamTypes
<1>2. DOMAIN emitted = 1..Len(emitted)
  BY <1>1
<1> QED
  BY <1>2 DEF AnyFailed, Of

\* Who finishes has the ending, so the main task and the handler do not both.
LEMMA OneFinishes ==
  ASSUME EndInv
  PROVE  /\ finisher[Main] # "idle" => finisher[Handler] = "idle"
         /\ main = "leave" => finisher[Handler] = "idle"
         /\ finisher[Handler] # "idle" => handler = "finish"
BY DEF EndInv, Claimed, OneAtIt, Own, Finishing, Taking

\* Events that are sent fit: a file's, the run's terminator and the handler's.
LEMMA WhoseKeeps ==
  ASSUME ToldInv, [RunNext]_runVars
  PROVE  Whose' /\ (main # "pool" => AnyFailed' = AnyFailed)
<1>1. StreamInv /\ EndInv /\ Whose /\ Settled
  BY DEF ToldInv
<1>2. CASE UNCHANGED emitted
  BY <1>1, <1>2, RestFits
<1>3. ASSUME NEW p \in Producers, FileEmits(p) PROVE Whose' /\ main = "pool"
  <2>1. PICK t \in lastT[p]..clock, kind \in KindsOf(p) : Send(Event(p, emits[p] + 1, kind, t, 0))
    BY <1>3 DEF FileEmits, Emit
  <2> DEFINE e == Event(p, emits[p] + 1, kind, t, 0)
  <2>2. e.from = p /\ e.kind # Terminator /\ e \in Events
    BY <1>1 DEF Event, Events, KindsOf, Kinds, FileFinished, Terminator, StreamInv, StreamTypes
  <2> HIDE DEF e
  <2>3. Fits(Len(emitted) + 1, e)
    BY <2>2 DEF Fits
  <2> QED
    BY <1>1, <1>3, <2>1, <2>2, <2>3, SendFits DEF FileEmits, e
<1>4. ASSUME FinishSend(Main, code), main \in {"finish", "still_writing"} PROVE Whose' /\ AnyFailed' = AnyFailed
  <2> DEFINE e == Event(Main, 1, Terminator, clock, code)
  <2>1. code \in 0..2 /\ clock \in Nat /\ Len(emitted) \in Nat
    BY <1>1 DEF StreamInv, StreamTypes, EndInv, Heard
  <2>2. e.from = Main /\ e.kind = Terminator /\ e.exit = code /\ e \in Events /\ e.kind # "file_failed"
    BY <2>1, TheFinishers DEF Event, Events, Terminator
  <2>3. Main \notin Producers /\ Main # Handler
    BY TheFinishers, SeparateActors
  <2>4. (code = 0 => ~AnyFailed) /\ (code = 1 => AnyFailed)
    BY <1>1, <1>4 DEF Settled
  <2> HIDE DEF e
  <2>5. Fits(Len(emitted) + 1, e)
    <3>1. (Len(emitted) + 1) - 1 = Len(emitted)
      BY <2>1
    <3> QED
      BY <1>1, <2>1, <2>2, <2>3, <2>4, <3>1, FailedIsCounted DEF Fits
  <2>6. Send(e)
    BY <1>4 DEF FinishSend, e
  <2> QED
    BY <1>1, <2>2, <2>5, <2>6, SendFits
<1>5. ASSUME FinishSend(Handler, CodeOf[taken]), handler = "finish" PROVE Whose' /\ AnyFailed' = AnyFailed
  <2> DEFINE e == Event(Handler, 1, Terminator, clock, CodeOf[taken])
  <2>1. CodeOf[taken] \in Nat /\ CodeOf[taken] >= 128 /\ clock \in Nat
    BY <1>1, <1>5, TakenCode DEF StreamInv, StreamTypes, Taking
  <2>2. /\ e.from = Handler /\ e.kind = Terminator /\ e.exit >= 128 /\ e \in Events
        /\ e.kind # "file_failed"
    BY <2>1, TheFinishers DEF Event, Events, Terminator
  <2>3. Handler \notin Producers /\ Main # Handler
    BY TheFinishers, SeparateActors
  <2> HIDE DEF e
  <2>4. Fits(Len(emitted) + 1, e)
    BY <2>2, <2>3 DEF Fits
  <2>5. Send(e)
    BY <1>5 DEF FinishSend, e
  <2> QED
    BY <1>1, <2>2, <2>4, <2>5, SendFits
<1>6. \/ UNCHANGED emitted
      \/ \E p \in Producers : FileEmits(p)
      \/ FinishSend(Main, code) /\ main \in {"finish", "still_writing"}
      \/ FinishSend(Handler, CodeOf[taken]) /\ handler = "finish"
  BY DEF RunNext, MainStep, HandlerStep, runVars, streamVars, Install, InstallTail, MainClaim, MainReport,
     MainFlushed, MainLeave, TailFirst, TailSecond, HandlerWakes, HandlerClaim, HandlerExit, MainSwept,
     HandlerSwept, PoolDrains, Signal, MainFinish, HandlerFinish, FinishLock, FinishJoin, RunWriter,
     WriterStep, Receive, Drain, Write
<1> QED
  BY <1>2, <1>3, <1>4, <1>5, <1>6

\* The code and the signals of the handler.
LEMMA SettledKeeps ==
  ASSUME ToldInv, [RunNext]_runVars
  PROVE  Settled'
<1> DEFINE Ending == {"finish", "still_writing"}
<1>1. StreamInv /\ EndInv /\ Whose /\ Settled
  BY DEF ToldInv
<1>2. main # "pool" => AnyFailed' = AnyFailed
  BY WhoseKeeps
<1>3. main' \in Ending => (code' = 0 => ~AnyFailed') /\ (code' = 1 => AnyFailed')
  <2>1. CASE MainReport
    BY <1>2, <2>1 DEF MainReport
  <2>2. CASE main' \in Ending => main \in Ending /\ code' = code
    BY <1>1, <1>2, <2>2 DEF Settled
  <2>3. ~MainReport => (main' \in Ending => main \in Ending /\ code' = code)
    BY DEF RunNext, MainStep, HandlerStep, runVars, endVars, Install, InstallTail, MainClaim, MainFlushed,
       MainLeave, TailFirst, TailSecond, HandlerWakes, HandlerClaim, HandlerExit, MainSwept, HandlerSwept,
       PoolDrains, Signal, MainFinish, HandlerFinish, RunWriter, FileEmits
  <2> QED
    BY <2>1, <2>2, <2>3
<1>4. main' = "leave" => finisher'[Main] \in {"ok", "error"} /\ (finisher'[Main] = "error" => code' = 2)
  <2>1. CASE MainFlushed
    BY <2>1 DEF MainFlushed, streamVars
  <2>2. CASE main = "leave" /\ UNCHANGED <<code, finisher>>
    BY <1>1, <2>2 DEF Settled
  <2>3. ~MainFlushed /\ main' = "leave" => main = "leave" /\ UNCHANGED <<code, finisher>>
    <3>1. main = "leave" => handler \notin {"finish"}
      BY <1>1 DEF EndInv, Claimed, Own, Finishing, Taking
    <3> QED
      BY <3>1 DEF RunNext, MainStep, HandlerStep, runVars, endVars, streamVars, Install, InstallTail,
         MainClaim, MainReport, MainLeave, TailFirst, TailSecond, HandlerWakes, HandlerClaim, HandlerExit,
         MainSwept, HandlerSwept, PoolDrains, Signal, MainFinish, HandlerFinish, RunWriter, WriterStep,
         Receive, Drain, Write, FileEmits, Emit
  <2> QED
    BY <2>1, <2>2, <2>3
<1>5. /\ handler' \in {"claim"} \cup Taking /\ handlerIn' # {} => Sent2'
      /\ \A k, m \in handlerIn' : k # m => Sent2'
  <2>1. arrived \in Seq(Signals)
    BY <1>1 DEF EndInv, Heard
  <2>2. ASSUME NEW k \in Signals, Signal(k) PROVE <1>5!1 /\ <1>5!2
    <3>1. /\ arrived' = Append(arrived, k) /\ UNCHANGED handler
          /\ handlerIn' \subseteq handlerIn \cup {k}
      BY <2>2 DEF Signal
    <3>2. Len(arrived') = Len(arrived) + 1 /\ Len(arrived) \in Nat
      BY <2>1, <3>1
    <3>3. handlerIn # {} \/ handler \in {"claim"} \cup Taking => Len(arrived) >= 1
      BY <1>1, <2>1 DEF EndInv, Heard
    <3>4. handlerIn # {} \/ handler \in {"claim"} \cup Taking => Sent2'
      BY <3>2, <3>3 DEF Sent2
    <3> QED
      BY <3>1, <3>4
  <2>3. ASSUME NEW k \in Signals, HandlerWakes(k) PROVE <1>5!1 /\ <1>5!2
    <3>1. k \in handlerIn /\ handlerIn' = handlerIn \ {k} /\ UNCHANGED arrived
      BY <2>3 DEF HandlerWakes
    <3> QED
      BY <1>1, <3>1 DEF Settled, Sent2
  <2>4. CASE UNCHANGED <<arrived, handlerIn>> /\ handler' \in {handler, "unborn", "wait", "gone"}
    BY <1>1, <2>4 DEF Settled, Sent2, Taking
  <2>5. CASE HandlerClaim \/ HandlerSwept
    BY <1>1, <2>5 DEF Settled, Sent2, Taking, HandlerClaim, HandlerSwept
  <2>6. \/ \E k \in Signals : Signal(k) \/ HandlerWakes(k)
        \/ HandlerClaim \/ HandlerSwept
        \/ UNCHANGED <<arrived, handlerIn>> /\ handler' \in {handler, "unborn", "wait", "gone"}
    BY DEF RunNext, MainStep, HandlerStep, runVars, endVars, Install, InstallTail, MainClaim, MainReport,
       MainFlushed, MainLeave, TailFirst, TailSecond, HandlerExit, MainSwept, PoolDrains, MainFinish,
       HandlerFinish, RunWriter, FileEmits
  <2> QED
    BY <2>2, <2>3, <2>4, <2>5, <2>6
<1> QED
  BY <1>3, <1>4, <1>5 DEF Settled

\* An exit with the stream cut short is one of three.
LEMMA CutShortKeeps ==
  ASSUME ToldInv, [RunNext]_runVars
  PROVE  CutShortExplained'
<1>1. StreamInv /\ EndInv /\ Settled /\ CutShortExplained
  BY DEF ToldInv
<1> SUFFICES ASSUME exited' PROVE CutShortExplained'
  BY DEF CutShortExplained
<1>2. CASE exited
  <2>1. UNCHANGED <<exited, exitCode, main, arrived, failed, disk>>
    BY <1>2 DEF RunNext, runVars, endVars, streamVars
  <2> QED
    BY <1>1, <1>2, <2>1 DEF CutShortExplained, Closed, Sent
<1>3. CASE ~exited /\ main = "before_install" /\ main' = main
  BY <1>3 DEF CutShortExplained
<1>4. CASE ~exited /\ Sent2 /\ UNCHANGED arrived
  BY <1>4 DEF CutShortExplained, Sent2
<1>5. ASSUME writer = "ended", UNCHANGED <<disk, failed>>,
             failed => exitCode' \in {2} \cup {CodeOf[k] : k \in Signals}
      PROVE  CutShortExplained'
  <2>1. ~failed => Closed
    BY <1>1, <1>5, EndedIsClosed DEF Closed
  <2>2. ~failed' => Closed'
    BY <1>5, <2>1 DEF Closed, Sent
  <2> QED
    BY <1>5, <2>2 DEF CutShortExplained
<1>6. ASSUME MainLeave PROVE CutShortExplained'
  <2>1. /\ main = "leave" /\ exitCode' = code /\ UNCHANGED <<disk, failed>>
    BY <1>6 DEF MainLeave, Exit, streamVars
  <2>2. writer = "ended" /\ ~handle
    BY <1>1, <2>1, TheFinishers DEF Settled, StreamInv, JoinInv
  <2>3. failed => finisher[Main] = "error"
    <3>1. finisher[Handler] = "idle" /\ finisher[Main] \in {"ok", "error"}
      BY <1>1, <2>1, OneFinishes DEF Settled
    <3>2. \A x \in Finishers : x = Main \/ x = Handler
      BY FinishersAssumption
    <3> QED
      BY <1>1, <2>2, <3>1, <3>2 DEF StreamInv, JoinInv
  <2> QED
    BY <1>1, <1>5, <2>1, <2>2, <2>3 DEF Settled
<1>7. ASSUME HandlerExit PROVE CutShortExplained'
  <2>1. /\ handler \in Taking /\ exitCode' = CodeOf[taken] /\ UNCHANGED <<disk, failed, arrived>>
    BY <1>7 DEF HandlerExit, Exit, streamVars, Taking
  <2>2. CASE finisher[Handler] \in {"ok", "error"}
    BY <1>1, <1>5, <2>1, <2>2, TakenCode, TheFinishers DEF StreamInv, JoinInv
  <2>3. CASE handlerIn # {}
    BY <1>1, <2>1, <2>3 DEF Settled, CutShortExplained, Sent2
  <2> QED
    BY <1>7, <2>2, <2>3 DEF HandlerExit
<1>8. ASSUME NEW k \in Signals, TailSecond(k) PROVE Sent2 /\ UNCHANGED arrived
  BY <1>1, <1>8 DEF TailSecond, EndInv, Heard
<1>9. ~exited => \/ main = "before_install" /\ main' = main
                 \/ MainLeave \/ HandlerExit \/ \E k \in Signals : TailSecond(k)
  BY DEF RunNext, MainStep, HandlerStep, runVars, endVars, Install, InstallTail, MainClaim, MainReport,
     MainFlushed, TailFirst, HandlerWakes, HandlerClaim, MainSwept, HandlerSwept, PoolDrains, Signal,
     MainFinish, HandlerFinish, RunWriter, FileEmits
<1> QED
  BY <1>2, <1>3, <1>4, <1>6, <1>7, <1>8, <1>9

\* How the run ended is in the last line of the stream: a signal's code when
\* the handler ended it, the verdict of its totals when the main task did; and
\* a stream without that line was cut short by a signal before the start, by a
\* second one, or by a write error the exit code reports (events.rs Tally,
\* main.rs run_suite and handle_interrupt).
THEOREM EndIsTold == RunSpec => []EndTold
<1>1. RunInit => ToldInv
  BY EndStart, StreamStart DEF RunInit, StreamInit, ToldInv, Whose, Settled, CutShortExplained, Taking
<1>2. ToldInv /\ [RunNext]_runVars => ToldInv'
  BY StreamUnderRun, EndStep, WhoseKeeps, SettledKeeps, CutShortKeeps DEF ToldInv
<1>3. ToldInv => EndTold
  <2> SUFFICES ASSUME ToldInv, Closed PROVE LastLineTells
    BY DEF ToldInv, EndTold, LastLineTells
  <2> DEFINE n == Len(disk)
             last == Last(disk)
  <2>1. StreamInv /\ disk \in Seq(Lines) /\ n \in Nat /\ emitted \in Seq(Events)
    BY DEF ToldInv, StreamInv, StreamTypes
  <2>2. Len(Sent(disk)) = n /\ n > 0 /\ Log!Last(Sent(disk)).kind = Terminator
    BY <2>1, DiskIsPrefix DEF Closed, Log!Closed
  <2>3. n \in 1..Len(disk) /\ n \in 1..Len(emitted) /\ last = disk[n]
    <3>1. IsPrefix(Sent(disk), emitted)
      BY <2>1, DiskIsPrefix
    <3> QED
      BY <2>1, <2>2, <3>1 DEF IsPrefix, Last
  <2>4. last.event = emitted[n] /\ emitted[n].kind = Terminator
    <3>1. Sent(disk)[n] = emitted[n] /\ Sent(disk)[n] = disk[n].event
      BY <2>1, <2>3, DiskIsPrefix DEF Sent
    <3> QED
      BY <2>2, <2>3, <3>1 DEF Log!Last
  <2>5. last.totals[2] = Cardinality(Of(n - 1, {"file_failed"}))
    BY <2>1, <2>3, <2>4 DEF StreamInv, LinesInv, LinesTell, LineTells
  <2>6. Fits(n, emitted[n]) /\ emitted[n].from \in {Main, Handler}
    <3>1. Fits(n, emitted[n])
      BY <2>3 DEF ToldInv, Whose
    <3>2. emitted[n] \in Events
      BY <2>1, <2>3
    <3> QED
      BY <2>4, <3>1, <3>2, FinishersAssumption DEF Fits, Events
  <2>7. /\ Cardinality(Of(n - 1, {"file_failed"})) \in Nat
        /\ Cardinality(Of(n - 1, {"file_failed"})) = 0 <=> Of(n - 1, {"file_failed"}) = {}
    <3>1. n - 1 \in Nat
      BY <2>1, <2>2
    <3>2. IsFiniteSet(Of(n - 1, {"file_failed"}))
      BY <3>1, OfGrows
    <3> QED
      BY <3>2, FS_EmptySet, FS_CardinalityType
  <2>8. Main # Handler
    BY TheFinishers
  <2> HIDE DEF n, last
  <2> QED
    BY <2>4, <2>5, <2>6, <2>7, <2>8 DEF Fits, LastLineTells, last
<1> QED
  BY <1>1, <1>2, <1>3, PTL DEF RunSpec
==============================================================================
