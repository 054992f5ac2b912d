------------------------------- MODULE Chains -------------------------------
(***************************************************************************)
(* How a selection of feature files becomes the queue of the worker pool:  *)
(* feature::discover collects the paths, runner::build_chains groups the   *)
(* files by @serial(name) and orders the queue by @priority(N).            *)
(*                                                                         *)
(* A file is a number, its rank in the order of paths.  One path can be    *)
(* loaded more than once (discover does not remove duplicates), so what is *)
(* scheduled is an entry: a position in the sorted list of loaded paths.   *)
(***************************************************************************)
EXTENDS Integers, FiniteSets, Sequences, SequencesExt

\* serial_of and priority_of fold every tag of a file (feature, rules,
\* scenarios) into one value.  A tag is <<"serial", name>> or
\* <<"priority", n>>; a name is a model value, EmptyName the blank one.
CONSTANT EmptyName, NoGroup

SerialNames(tags) == {t[2] : t \in {u \in tags : u[1] = "serial"}}
Priorities(tags) == {t[2] : t \in {u \in tags : u[1] = "priority"}}

\* A blank name and two different names are startup errors.
SerialOk(tags) ==
  /\ EmptyName \notin SerialNames(tags)
  /\ Cardinality(SerialNames(tags)) <= 1

SerialOf(tags) ==
  IF SerialNames(tags) = {} THEN NoGroup ELSE CHOOSE g \in SerialNames(tags) : TRUE

PriorityOf(tags) == IF Priorities(tags) = {} THEN 0 ELSE Max(Priorities(tags))

\* A set in the order of a relation that ranks its members: in each place the
\* one with as many of the others ahead of it.
Ahead(S, R, x) == {y \in S : <<y, x>> \in R}
Ranked(S, R) ==
  [i \in 1..Cardinality(S) |-> CHOOSE x \in S : Cardinality(Ahead(S, R, x)) = i - 1]

\* discover: each argument contributes its files (a file itself, a directory
\* everything below it), and the list is sorted by path.  below maps an
\* argument to the set of files it stands for.
Discover(args, below) ==
  SortSeq(FlattenSeq([i \in DOMAIN args |-> SetToSeq(below[args[i]])]), <)

\* build_chains refuses the run before it starts when a tag is malformed.
Schedulable(files, tags) == \A e \in DOMAIN files : SerialOk(tags[files[e]])

\* Slip: a group keeps the order of its paths.
MembersByPath(files, tags, g) ==
  SetToSortSeq({e \in DOMAIN files : SerialOf(tags[files[e]]) = g}, <)

\* The entries of a group and their order: highest priority first; the sort is
\* stable over entries that arrive in path order.
InGroup(files, tags, g) == {e \in DOMAIN files : SerialOf(tags[files[e]]) = g}
MoreUrgent(files, tags) ==
  {p \in (DOMAIN files) \X (DOMAIN files) :
     LET prio(e) == PriorityOf(tags[files[e]])
     IN  prio(p[1]) > prio(p[2]) \/ (prio(p[1]) = prio(p[2]) /\ p[1] < p[2])}

Members(files, tags, g) == Ranked(InGroup(files, tags, g), MoreUrgent(files, tags))

\* A chain is as urgent as its most urgent member.
ChainPriority(files, tags, chain) ==
  Max({PriorityOf(tags[files[e]]) : e \in Range(chain)})

\* An untagged entry is a chain of its own, a group is one chain.
ChainSet(files, tags) ==
  {<<e>> : e \in InGroup(files, tags, NoGroup)}
    \cup {Members(files, tags, g) : g \in {SerialOf(tags[files[e]]) : e \in DOMAIN files} \ {NoGroup}}

\* The order of the queue: priority descending, ties by the first member.
QueueOrder(files, tags) ==
  {p \in ChainSet(files, tags) \X ChainSet(files, tags) :
     LET prio(c) == ChainPriority(files, tags, c)
     IN  prio(p[1]) > prio(p[2]) \/ (prio(p[1]) = prio(p[2]) /\ Head(p[1]) < Head(p[2]))}

BuildChains(files, tags) == Ranked(ChainSet(files, tags), QueueOrder(files, tags))
=============================================================================
