----------------------------- MODULE Scheduler ------------------------------
(***************************************************************************)
(* What the worker pool promises, without workers' program counters, the   *)
(* shared cursor or the stop flag: a fixed number of slots, every file     *)
(* started at most once, a chain's files strictly one after another.       *)
(***************************************************************************)
EXTENDS Naturals, Sequences

CONSTANTS Files, Slots
VARIABLES chains,   \* the queue: a sequence of sequences of files
          slot,     \* slot[s]: the file slot s runs, {} when it is free
          state     \* state[f]: "waiting", "running", "passed", "failed", "panicked"

vars == <<chains, slot, state>>

Verdicts == {"passed", "failed", "panicked"}

\* The files queued ahead of f in f's own chain.
Before(f) ==
  {g \in Files : \E i \in DOMAIN chains : \E j, k \in DOMAIN chains[i] :
                    j < k /\ chains[i][j] = g /\ chains[i][k] = f}

Init == /\ slot = [s \in Slots |-> {}]
        /\ state = [f \in Files |-> "waiting"]

Start(s, f) == /\ slot[s] = {}
               /\ state[f] = "waiting"
               /\ \A g \in Before(f) : state[g] \in Verdicts
               /\ slot' = [slot EXCEPT ![s] = {f}]
               /\ state' = [state EXCEPT ![f] = "running"]
               /\ UNCHANGED chains

Finish(s, f, v) == /\ slot[s] = {f}
                   /\ state[f] = "running"
                   /\ state' = [state EXCEPT ![f] = v]
                   /\ slot' = [slot EXCEPT ![s] = {}]
                   /\ UNCHANGED chains

Next == \E s \in Slots, f \in Files :
          Start(s, f) \/ \E v \in Verdicts : Finish(s, f, v)

Spec == Init /\ [][Next]_vars
=============================================================================
