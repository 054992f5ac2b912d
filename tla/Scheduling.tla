----------------------------- MODULE Scheduling -----------------------------
(***************************************************************************)
(* The path from the command line to the pool, as main::run_suite takes    *)
(* it: discover the files, read their tags, build the queue, run it.  The  *)
(* properties are about tags, which is what a suite's author writes, and   *)
(* not about the queue they turn into.                                     *)
(***************************************************************************)
EXTENDS WorkerPool, Chains

CONSTANTS Args,       \* the path arguments, in order
          Below,      \* each argument's files
          TagChoices  \* the tag sets a file may carry

Loaded == Discover(Args, Below)
Entries == DOMAIN Loaded
Paths == {Loaded[e] : e \in Entries}

\* discover returns a list; a file's tags are finitely many, NoGroup is not a
\* name, a priority is a number.  The pool runs what they make together.
ASSUME LoadedAssumption == Loaded \in Seq(Paths)
ASSUME TagsAssumption ==
  \A t \in TagChoices : /\ IsFiniteSet(Priorities(t)) /\ Priorities(t) \subseteq Int
                       /\ NoGroup \notin SerialNames(t)

VARIABLE tags         \* tags[p]: every tag of the file at path p

Tagged == {t \in [Paths -> TagChoices] : Schedulable(Loaded, t)}
Queues == {BuildChains(Loaded, t) : t \in Tagged}

ASSUME PoolAssumption == Files = Entries /\ ChainQueues = Queues

SchedulingInit == /\ tags \in Tagged
                  /\ Init
                  /\ chains = BuildChains(Loaded, tags)

SchedulingNext == Next /\ UNCHANGED tags

SchedulingSpec == /\ SchedulingInit
                  /\ [][SchedulingNext]_<<vars, tags>>
                  /\ Fairness
-----------------------------------------------------------------------------
Group(e) == SerialOf(tags[Loaded[e]])
Urgency(e) == PriorityOf(tags[Loaded[e]])
SameGroup(d, e) == d # e /\ Group(d) = Group(e) /\ Group(d) # NoGroup

\* Files tagged with the same @serial name never run at the same time,
\* whatever the workers' timing (build_chains, run_all).
SerialExclusion ==
  \A d, e \in Entries : SameGroup(d, e) => ~(status[d] = "running" /\ status[e] = "running")

\* Within a group a more urgent file is over before a less urgent one starts,
\* and equally urgent ones go by path (the stable sort of build_chains).
GroupOrder ==
  \A d, e \in Entries :
    /\ SameGroup(d, e)
    /\ Urgency(d) > Urgency(e) \/ (Urgency(d) = Urgency(e) /\ d < e)
    /\ status[e] # "waiting"
    => status[d] \in Verdicts

\* @priority: a file starts only when every file that is more urgent than the
\* whole of its chain has been taken off the queue.
ChainOf(e) == CHOOSE i \in DOMAIN chains : e \in Range(chains[i])
UrgentClaimedFirst ==
  \A d, e \in Entries :
    /\ status[e] # "waiting"
    /\ \A m \in Range(chains[ChainOf(e)]) : Urgency(d) > Urgency(m)
    => ChainOf(d) <= cursor

\* What a suite's author is promised of @serial and @priority: files of a group
\* one at a time, and what is more urgent first, in a group and among chains.
TagsHonoured == SerialExclusion /\ GroupOrder /\ UrgentClaimedFirst
=============================================================================
