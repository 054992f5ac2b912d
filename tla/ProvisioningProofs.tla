-------------------------- MODULE ProvisioningProofs --------------------------
(***************************************************************************)
(* A command that runs alone keeps the promise of Shelf and leaves nothing *)
(* of itself behind, for any layers, plugins and releases, any number of   *)
(* commands, failures and crashes.                                         *)
(* bddkit takes no lock, so "alone" is an assumption of the theorem and    *)
(* not of the module: two processes over one lock file break it.           *)
(***************************************************************************)
EXTENDS Provisioning, TLAPS

Entries == [release : Releases \cup {0}, owned : BOOLEAN]
Fetching == {"move", "extract", "load", "clear", "restore", "previous", "commit"}
Registering == {"doc", "write", "sweep", "delete"}
Kinds == {"none", "install", "update", "remove", "prune", "done", "failed", "unrestored", "crashed",
          "unregistered", "unpruned"}
Pcs == {"idle", "prune"} \cup Fetching \cup Registering
Cmds ==
  [pc : Pcs, pid : Nat, kind : Kinds,
   layer : Layers \cup {1}, plugin : Plugins \cup {NoPlugin}, release : Releases \cup {0},
   aside : BOOLEAN, previous : Entries, doc : [Plugins -> Entries], stale : SUBSET Paths]

TypeOK ==
  /\ lock \in [Layers -> [Plugins -> Entries]]
  /\ backup \in SUBSET Dirs
  /\ disk \in [Paths -> {"none", "good", "bad", "empty"}]
  /\ cmd \in [Commands -> Cmds]
  /\ commands \in 0..CommandLimit
  /\ wounded \in SUBSET Dirs

Fetches(c) == cmd[c].kind \in {"install", "update"}
\* The copy that stood at the target before is aside, and good.
Held(c) == Aside(Target(c), c)
Kept(c) == cmd[c].aside /\ disk[Held(c)] = "good"

\* What a command has in hand at each of its steps.
InHand(c) ==
  /\ cmd[c].pc # "idle" => cmd[c].pid \in 1..CommandLimit
  /\ cmd[c].pc \in Fetching \cup Registering => cmd[c].layer \in Layers /\ cmd[c].plugin \in Plugins
  /\ cmd[c].pc \in Fetching => Fetches(c)
  /\ cmd[c].pc \in Registering => Fetches(c) \/ cmd[c].kind = "remove"
  /\ cmd[c].pc \in Fetching \cup Registering /\ Fetches(c) => cmd[c].release \in Releases
  /\ cmd[c].aside => cmd[c].pc \notin {"idle", "move", "prune"} /\ Fetches(c)
  /\ cmd[c].pc = "restore" => cmd[c].aside
  /\ cmd[c].pc = "prune" => cmd[c].kind \in {"prune", "unpruned"}

\* What stands at its target.
TargetStands(c) ==
  /\ cmd[c].pc = "extract" => disk[At(Target(c))] = "none"
  /\ cmd[c].pc \in {"previous", "commit"} \cup Registering /\ Fetches(c) =>
       disk[At(Target(c))] = "good"

\* A library that is named can come back until the new one is registered.
Recoverable(c) ==
  cmd[c].pc \in {"extract", "load", "clear", "restore", "previous", "doc", "write"} /\ Fetches(c) =>
    (Target(c) \in Referenced => Kept(c) \/ Target(c) \in wounded)

\* What was read is still so: nobody else writes.
StillSo(c) ==
  /\ cmd[c].pc = "write" => cmd[c].doc = lock[cmd[c].layer]
  /\ cmd[c].pc \in {"commit", "sweep", "delete"} /\ Fetches(c) => Target(c) \in Referenced
  /\ cmd[c].pc = "delete" => Previous(c) \notin Referenced
  /\ cmd[c].pc = "prune" => \A x \in cmd[c].stale : x[2] = Here => x[1] \notin Referenced

NamedStays == Referenced \subseteq Safe(cmd) \cup wounded

CommandInv(c) == InHand(c) /\ TargetStands(c) /\ Recoverable(c) /\ StillSo(c)
AloneInv == TypeOK /\ NamedStays /\ \A c \in Commands : CommandInv(c)

-----------------------------------------------------------------------------
\* Paths of version directories differ from each other and from those of
\* copies set aside.
LEMMA PathFacts ==
  /\ \A d \in Dirs : At(d) \in Paths
  /\ \A d, e \in Dirs : At(d) = At(e) => d = e
  /\ \A d, e \in Dirs, n \in 1..CommandLimit : <<d, n>> \in Paths /\ <<d, n>> # At(e)
BY ProvisioningAssumption DEF At, Here, Paths

\* What another file, or a backup, names.
LEMMA ReferencedIs ==
  \A d \in Dirs : d \in Referenced <=>
     d \in backup \/ \E l \in Layers : lock[l][d[1]].release = d[2]
BY DEF Referenced, NamedBy

\* The shelf of a command that runs alone: what stands at its place, what it
\* has set aside itself, and what a crash took.
On(c, d) ==
  \/ disk[At(d)] = "good" \/ d \in wounded
  \/ cmd[c].pc # "idle" /\ d = Target(c) /\ Kept(c)

LEMMA ShelfIs ==
  ASSUME NEW c \in Commands, Commands = {c}, wounded \in SUBSET Dirs, wounded' \in SUBSET Dirs
  PROVE  /\ Safe(cmd) \cup wounded = {d \in Dirs : On(c, d)}
         /\ (Safe(cmd) \cup wounded)' = {d \in Dirs : On(c, d)'}
BY DEF Safe, On, Kept, Held, Target

EntriesNow == [l \in Layers |-> [p \in Plugins |-> lock[l][p].release]]
ShelfVars == <<EntriesNow, backup, Safe(cmd) \cup wounded>>
ShelfStep ==
  \/ ImplementsShelf!Bring \/ ImplementsShelf!Register
  \/ ImplementsShelf!Drop \/ ImplementsShelf!Discard \/ UNCHANGED ShelfVars

\* What Shelf calls named is what the lock files name.
LEMMA NamedIs == ImplementsShelf!Named \cup backup = Referenced \cup backup
<1>1. \A d \in Dirs : d \in ImplementsShelf!Named <=> \E l \in Layers : lock[l][d[1]].release = d[2]
  BY DEF ImplementsShelf!Named, Dirs
<1> QED
  BY <1>1, ReferencedIs DEF ImplementsShelf!Named, Dirs, Referenced, NamedBy

LEMMA NamedStaysIs == NamedStays <=> ImplementsShelf!Init
BY NamedIs DEF NamedStays, ImplementsShelf!Init, Referenced

\* The steps of one command, by what they do to what stands on the shelf.
LEMMA ShelfSteps ==
  ASSUME NEW c \in Commands, Commands = {c}, wounded \in SUBSET Dirs, wounded' \in SUBSET Dirs,
         UNCHANGED <<lock, backup>>
  PROVE  /\ (\A d \in Dirs : On(c, d)' <=> On(c, d)) => ShelfStep
         /\ \A e \in Dirs : (\A d \in Dirs : On(c, d)' <=> (On(c, d) \/ d = e)) => ShelfStep
         /\ \A e \in Dirs \ Referenced :
              (\A d \in Dirs : On(c, d)' <=> (On(c, d) /\ d # e)) => ShelfStep
<1>1. /\ Safe(cmd) \cup wounded = {d \in Dirs : On(c, d)}
      /\ (Safe(cmd) \cup wounded)' = {d \in Dirs : On(c, d)'}
  BY ShelfIs
<1>2. EntriesNow' = EntriesNow
  BY DEF EntriesNow
<1>3. ASSUME \A d \in Dirs : On(c, d)' <=> On(c, d) PROVE ShelfStep
  BY <1>1, <1>2, <1>3 DEF ShelfStep, ShelfVars
<1>4. ASSUME NEW e \in Dirs, \A d \in Dirs : On(c, d)' <=> (On(c, d) \/ d = e) PROVE ShelfStep
  <2>1. (Safe(cmd) \cup wounded)' = (Safe(cmd) \cup wounded) \cup {e}
    BY <1>1, <1>4
  <2> QED
    BY <1>2, <2>1 DEF ShelfStep, ImplementsShelf!Bring, EntriesNow, Dirs
<1>5. ASSUME NEW e \in Dirs \ Referenced, \A d \in Dirs : On(c, d)' <=> (On(c, d) /\ d # e)
      PROVE  ShelfStep
  <2>1. CASE ~On(c, e)
    BY <1>3, <1>5, <2>1
  <2>2. CASE On(c, e)
    <3>1. (Safe(cmd) \cup wounded)' = (Safe(cmd) \cup wounded) \ {e}
      BY <1>1, <1>5
    <3>2. e \in Safe(cmd) \cup wounded
      BY <1>1, <2>2
    <3>3. e \notin ImplementsShelf!Named \cup backup
      BY NamedIs DEF Referenced
    <3> QED
      BY <1>2, <3>1, <3>2, <3>3 DEF ShelfStep, ImplementsShelf!Discard, EntriesNow
  <2> QED
    BY <2>1, <2>2
<1> QED
  BY <1>3, <1>4, <1>5

\* Shelf keeps what is named on the shelf.
LEMMA ShelfKeepsNamed == ASSUME TypeOK, NamedStays, ShelfStep PROVE NamedStays'
<1> DEFINE shelf == Safe(cmd) \cup wounded
           names(d) == \E l \in Layers : EntriesNow[l][d[1]] = d[2]
<1>1. EntriesNow \in [Layers -> [Plugins -> Releases \cup {0}]]
  BY DEF TypeOK, EntriesNow, Entries
<1>2. NamedStays <=> backup \subseteq shelf /\ \A d \in Dirs : names(d) => d \in shelf
  BY NamedStaysIs DEF ImplementsShelf!Init, ImplementsShelf!Named, EntriesNow, Dirs
<1>3. (backup \subseteq shelf /\ \A d \in Dirs : names(d) => d \in shelf)' => NamedStays'
  <2>1. (NamedStays <=> ImplementsShelf!Init)'
    BY NamedStaysIs, PTL
  <2> QED
    BY <2>1 DEF ImplementsShelf!Init, ImplementsShelf!Named, EntriesNow, Dirs
<1>4. \A d \in ImplementsShelf!Named : names(d)
  BY DEF ImplementsShelf!Named, EntriesNow
<1>5. \A d \in Dirs : names(d) => d \in ImplementsShelf!Named
  BY DEF ImplementsShelf!Named, EntriesNow, Dirs
<1>6. \/ \E d \in Dirs : shelf' = shelf \cup {d} /\ UNCHANGED <<EntriesNow, backup>>
      \/ \E l \in Layers, d \in shelf :
           EntriesNow' = [EntriesNow EXCEPT ![l][d[1]] = d[2]] /\ UNCHANGED <<shelf, backup>>
      \/ \E l \in Layers, p \in Plugins :
           EntriesNow' = [EntriesNow EXCEPT ![l][p] = 0] /\ UNCHANGED <<shelf, backup>>
      \/ \E d \in shelf : /\ d \notin ImplementsShelf!Named \cup backup
                          /\ shelf' = shelf \ {d} /\ UNCHANGED <<EntriesNow, backup>>
      \/ UNCHANGED <<EntriesNow, backup, shelf>>
  BY DEF ShelfStep, ShelfVars, EntriesNow, Dirs,
     ImplementsShelf!Bring, ImplementsShelf!Register, ImplementsShelf!Drop, ImplementsShelf!Discard
<1>7. shelf \subseteq Dirs /\ 0 \notin Releases
  BY ProvisioningAssumption DEF TypeOK, Safe
<1> HIDE DEF shelf
<1>8. (backup \subseteq shelf)'
  BY <1>2, <1>6
<1>9. ASSUME NEW d \in Dirs, names(d)' PROVE d \in shelf'
  <2>1. CASE \E l \in Layers, e \in shelf :
               EntriesNow' = [EntriesNow EXCEPT ![l][e[1]] = e[2]] /\ UNCHANGED <<shelf, backup>>
    <3>1. PICK l \in Layers, e \in shelf :
            EntriesNow' = [EntriesNow EXCEPT ![l][e[1]] = e[2]] /\ UNCHANGED <<shelf, backup>>
      BY <2>1
    <3>2. PICK k \in Layers : EntriesNow'[k][d[1]] = d[2]
      BY <1>9
    <3>3. e \in Dirs /\ EntriesNow[k] \in [Plugins -> Releases \cup {0}]
      BY <1>1, <1>7
    <3>4. CASE k = l /\ d[1] = e[1]
      <4>1. d[2] = e[2]
        BY <1>1, <3>1, <3>2, <3>3, <3>4 DEF Dirs
      <4> QED
        BY <3>1, <3>3, <3>4, <4>1 DEF Dirs
    <3>5. CASE ~(k = l /\ d[1] = e[1])
      BY <1>1, <1>2, <3>1, <3>2, <3>3, <3>5 DEF Dirs
    <3> QED
      BY <3>4, <3>5
  <2>2. CASE \E l \in Layers, p \in Plugins :
               EntriesNow' = [EntriesNow EXCEPT ![l][p] = 0] /\ UNCHANGED <<shelf, backup>>
    BY <1>1, <1>2, <1>7, <1>9, <2>2 DEF Dirs
  <2>3. CASE UNCHANGED EntriesNow
    BY <1>2, <1>5, <1>6, <1>9, <2>3
  <2> QED
    BY <1>6, <2>1, <2>2, <2>3
<1> QED
  BY <1>3, <1>8, <1>9

-----------------------------------------------------------------------------
LEMMA EntryTyped == Missing \in Entries /\ \A r \in Releases \cup {0}, o \in BOOLEAN : Entry(r, o) \in Entries
BY DEF Missing, Entry, Entries

LEMMA FreshCommand == \A how \in Kinds : Ended(how) \in Cmds
<1>1. "idle" \in Pcs /\ 0 \in Nat /\ [p \in Plugins |-> Missing] \in [Plugins -> Entries]
  BY EntryTyped DEF Pcs
<1> QED
  BY <1>1, EntryTyped DEF Ended, Cmds

\* A field of a command's record that changes keeps it one.
LEMMA FieldTyped ==
  ASSUME NEW k \in Cmds
  PROVE  /\ \A pc \in Pcs : [k EXCEPT !.pc = pc] \in Cmds
         /\ \A n \in Nat : [k EXCEPT !.pid = n] \in Cmds
         /\ \A l \in Layers : [k EXCEPT !.layer = l] \in Cmds
         /\ \A p \in Plugins : [k EXCEPT !.plugin = p] \in Cmds
         /\ \A r \in Releases : [k EXCEPT !.release = r] \in Cmds
         /\ \A aside \in BOOLEAN : [k EXCEPT !.aside = aside] \in Cmds
         /\ \A e \in Entries : [k EXCEPT !.previous = e] \in Cmds
         /\ \A file \in [Plugins -> Entries] : [k EXCEPT !.doc = file] \in Cmds
         /\ \A stale \in SUBSET Paths : [k EXCEPT !.stale = stale] \in Cmds
         /\ \A kind \in Kinds : [k EXCEPT !.kind = kind] \in Cmds
BY DEF Cmds

LEMMA BeginsTyped ==
  ASSUME TypeOK, NEW c \in Commands, NEW fields \in Cmds, Begins(c, fields)
  PROVE  TypeOK' /\ cmd'[c] = [fields EXCEPT !.pid = commands + 1]
                 /\ commands + 1 \in 1..CommandLimit
<1>1. commands' = commands + 1 /\ commands' \in 1..CommandLimit
  BY ProvisioningAssumption DEF Begins, TypeOK
<1>2. [fields EXCEPT !.pid = commands'] \in Cmds
  BY <1>1 DEF Cmds
<1>3. cmd' \in [Commands -> Cmds] /\ cmd'[c] = [fields EXCEPT !.pid = commands']
  BY <1>2 DEF Begins, TypeOK
<1> QED
  BY <1>1, <1>3 DEF Begins, TypeOK

LEMMA GotoTyped ==
  ASSUME cmd \in [Commands -> Cmds], NEW c \in Commands, NEW pc \in Pcs, Goto(c, pc)
  PROVE  cmd' \in [Commands -> Cmds]
<1>1. [cmd[c] EXCEPT !.pc = pc] \in Cmds
  BY DEF Cmds
<1> QED
  BY <1>1 DEF Goto

LEMMA EndsTyped ==
  ASSUME cmd \in [Commands -> Cmds], NEW c \in Commands, NEW how \in Kinds, Ends(c, how)
  PROVE  cmd' \in [Commands -> Cmds]
BY FreshCommand DEF Ends

\* Every step keeps the types.
LEMMA TypeStep ==
  ASSUME TypeOK, \A c \in Commands : InHand(c), [Next]_vars
  PROVE  TypeOK'
<1>1. CASE UNCHANGED vars
  BY <1>1 DEF TypeOK, vars
<1>2. ASSUME NEW c \in Commands, NEW l \in Layers, NEW p \in Plugins, Remove(c, l, p)
      PROVE  TypeOK'
  <2>1. Ended("remove") \in Cmds /\ lock[l][p] \in Entries
    BY FreshCommand DEF TypeOK, Kinds
  <2>2. [Ended("remove") EXCEPT !.pc = "doc", !.layer = l, !.plugin = p, !.previous = lock[l][p]]
          \in Cmds
    BY <2>1, FieldTyped DEF Pcs, Registering
  <2> QED
    BY <1>2, <2>2, BeginsTyped DEF Remove
<1>3. ASSUME NEW c \in Commands, NEW l \in Layers, NEW p \in Plugins, NEW r \in Releases,
             Install(c, l, p, r) \/ Update(c, l, p, r)
      PROVE  TypeOK'
  <2>1. \A kind \in {"install", "update"} : Ended(kind) \in Cmds
    BY FreshCommand DEF Kinds
  <2>2. \A kind \in {"install", "update"} :
          [Ended(kind) EXCEPT !.pc = "move", !.layer = l, !.plugin = p, !.release = r] \in Cmds
    BY <2>1, FieldTyped DEF Pcs, Fetching
  <2> QED
    BY <1>3, <2>2, BeginsTyped DEF Install, Update
<1>4. ASSUME NEW c \in Commands, Prune(c) PROVE TypeOK'
  <2> DEFINE stale == {x \in Paths : disk[x] \in {"good", "bad"} /\ (x[2] = Here => x[1] \notin Referenced)}
  <2>1. Ended("prune") \in Cmds
    BY FreshCommand DEF Kinds
  <2>2. stale \in SUBSET Paths
    OBVIOUS
  <2>3. Begins(c, [Ended("prune") EXCEPT !.pc = "prune", !.stale = stale])
    BY <1>4 DEF Prune
  <2> HIDE DEF stale
  <2>4. [Ended("prune") EXCEPT !.pc = "prune", !.stale = stale] \in Cmds
    BY <2>1, <2>2, FieldTyped DEF Pcs
  <2> QED
    BY <2>3, <2>4, BeginsTyped
<1>5. ASSUME NEW c \in Commands, MoveAside(c) PROVE TypeOK'
  <2> DEFINE aside == disk[At(Target(c))] # "none"
  <2>1. \/ cmd' = [cmd EXCEPT ![c] = [@ EXCEPT !.pc = "extract", !.aside = aside]]
        \/ Ends(c, "failed")
    BY <1>5 DEF MoveAside
  <2>2. aside \in BOOLEAN
    OBVIOUS
  <2> HIDE DEF aside
  <2>3. [cmd[c] EXCEPT !.pc = "extract", !.aside = aside] \in Cmds
    BY <2>2, FieldTyped DEF TypeOK, Pcs, Fetching
  <2>4. cmd' \in [Commands -> Cmds]
    BY <2>1, <2>3, EndsTyped DEF TypeOK, Kinds
  <2>5. disk' \in [Paths -> {"none", "good", "bad", "empty"}]
    <3>1. \/ UNCHANGED disk
          \/ \E x, y \in {At(Target(c)), Aside(Target(c), c)} :
               disk' = [disk EXCEPT ![x] = "none", ![y] = disk[At(Target(c))]]
      BY <1>5 DEF MoveAside
    <3>2. At(Target(c)) \in Paths
      BY <1>5, PathFacts DEF MoveAside, InHand, Target, Dirs, Fetching
    <3> QED
      BY <3>1, <3>2 DEF TypeOK
  <2> QED
    BY <1>5, <2>4, <2>5 DEF MoveAside, TypeOK, History
<1> USE DEF TypeOK, Files, History, Kinds, Pcs, Fetching, Registering
<1>6. ASSUME NEW c \in Commands, Extract(c) PROVE TypeOK'
  BY <1>6, GotoTyped DEF Extract
<1>7. ASSUME NEW c \in Commands, Load(c) PROVE TypeOK'
  BY <1>7, GotoTyped DEF Load
<1>8. ASSUME NEW c \in Commands, Clear(c) PROVE TypeOK'
  BY <1>8, GotoTyped, EndsTyped DEF Clear, Goes, Sticks
<1>9. ASSUME NEW c \in Commands, Restore(c) PROVE TypeOK'
  <2>1. cmd' \in [Commands -> Cmds] /\ UNCHANGED <<lock, backup, commands>>
    BY <1>9, EndsTyped DEF Restore
  <2>2. wounded' \in SUBSET Dirs
    BY <1>9 DEF Restore, Safe
  <2>3. disk' \in [Paths -> {"none", "good", "bad", "empty"}]
    <3>1. Target(c) \in Dirs /\ cmd[c].pid \in 1..CommandLimit
      BY <1>9 DEF Restore, InHand, Target, Dirs, Fetches
    <3>2. disk[Aside(Target(c), c)] \in {"none", "good", "bad", "empty"}
      BY <3>1, PathFacts DEF Aside
    <3> QED
      BY <1>9, <3>2 DEF Restore
  <2> QED
    BY <2>1, <2>2, <2>3
<1>10. ASSUME NEW c \in Commands, ReadPrevious(c) PROVE TypeOK'
  <2>1. lock[cmd[c].layer][cmd[c].plugin] \in Entries
    BY <1>10 DEF ReadPrevious, InHand
  <2>2. [cmd[c] EXCEPT !.pc = "doc", !.previous = lock[cmd[c].layer][cmd[c].plugin]] \in Cmds
    BY <2>1, FieldTyped
  <2>3. cmd' = [cmd EXCEPT ![c] = [@ EXCEPT !.pc = "doc",
                                            !.previous = lock[cmd[c].layer][cmd[c].plugin]]]
    BY <1>10 DEF ReadPrevious
  <2> QED
    BY <1>10, <2>2, <2>3 DEF ReadPrevious
<1>11. ASSUME NEW c \in Commands, ReadDoc(c) PROVE TypeOK'
  <2>1. lock[cmd[c].layer] \in [Plugins -> Entries]
    BY <1>11 DEF ReadDoc, InHand
  <2>2. [cmd[c] EXCEPT !.pc = "write", !.doc = lock[cmd[c].layer]] \in Cmds
    BY <2>1, FieldTyped
  <2>3. cmd' = [cmd EXCEPT ![c] = [@ EXCEPT !.pc = "write", !.doc = lock[cmd[c].layer]]]
    BY <1>11 DEF ReadDoc
  <2> QED
    BY <1>11, <2>2, <2>3 DEF ReadDoc
<1>12. ASSUME NEW c \in Commands, WriteDoc(c) PROVE TypeOK'
  <2>1. cmd' \in [Commands -> Cmds]
    BY <1>12, GotoTyped, EndsTyped DEF WriteDoc
  <2>2. Changed(c) \in [Plugins -> Entries]
    BY FreshCommand, EntryTyped DEF Changed, Cmds, Missing, Entries
  <2> QED
    BY <1>12, <2>1, <2>2 DEF WriteDoc
<1>13. ASSUME NEW c \in Commands, Commit(c) PROVE TypeOK'
  BY <1>13, GotoTyped DEF Commit, Goes, Sticks
<1>14. ASSUME NEW c \in Commands, Sweep(c) PROVE TypeOK'
  BY <1>14, GotoTyped, EndsTyped DEF Sweep, Unswept
<1>15. ASSUME NEW c \in Commands, Delete(c) PROVE TypeOK'
  BY <1>15, EndsTyped DEF Delete, Unswept, Goes, Sticks, Removed, NotRemoved
<1>16. ASSUME NEW c \in Commands, PruneOne(c) PROVE TypeOK'
  <2>1. CASE UNCHANGED disk /\ \E how \in Kinds : Ends(c, how)
    BY <1>16, <2>1, EndsTyped DEF PruneOne
  <2>2. ASSUME NEW x \in cmd[c].stale, NEW kind \in Kinds,
               cmd' = [cmd EXCEPT ![c].stale = @ \ {x}, ![c].kind = kind]
        PROVE  cmd' \in [Commands -> Cmds]
    <3>0. cmd[c].stale \in SUBSET Paths
      BY DEF Cmds
    <3>1. [cmd[c] EXCEPT !.stale = @ \ {x}] \in Cmds
      BY <3>0, FieldTyped
    <3>2. [cmd[c] EXCEPT !.stale = @ \ {x}, !.kind = kind] \in Cmds
      BY <3>1, FieldTyped
    <3> QED
      BY <2>2, <3>2
  <2>3. cmd[c].kind \in Kinds
    BY DEF Cmds
  <2>4. CASE cmd[c].stale = {} /\ UNCHANGED disk /\ Ends(c, IF cmd[c].kind = "prune" THEN "done" ELSE cmd[c].kind)
    BY <2>1, <2>3, <2>4
  <2>5. ASSUME NEW x \in cmd[c].stale, disk' \in [Paths -> {"none", "good", "bad", "empty"}],
               \/ cmd' = [cmd EXCEPT ![c].stale = @ \ {x}]
               \/ cmd' = [cmd EXCEPT ![c].stale = @ \ {x}, ![c].kind = "unpruned"]
        PROVE  TypeOK'
    <3>1. cmd' = [cmd EXCEPT ![c].stale = @ \ {x}] => cmd' = [cmd EXCEPT ![c].stale = @ \ {x}, ![c].kind = cmd[c].kind]
      BY DEF Cmds
    <3>2. cmd' \in [Commands -> Cmds]
      BY <2>2, <2>3, <2>5, <3>1
    <3> QED
      BY <1>16, <2>5, <3>2 DEF PruneOne
  <2>6. ASSUME NEW x \in cmd[c].stale, Removed(x) \/ NotRemoved(x)
        PROVE  disk' \in [Paths -> {"none", "good", "bad", "empty"}]
    BY <2>6 DEF Removed, NotRemoved, Goes, Sticks
  <2> QED
    BY <1>16, <2>4, <2>5, <2>6 DEF PruneOne
<1>17. ASSUME NEW c \in Commands, Crash(c) PROVE TypeOK'
  BY <1>17, EndsTyped DEF Crash, Safe
<1> QED
  BY <1>1, <1>2, <1>3, <1>4, <1>5, <1>6, <1>7, <1>8, <1>9, <1>10, <1>11, <1>12, <1>13, <1>14,
     <1>15, <1>16, <1>17 DEF Next

-----------------------------------------------------------------------------
\* One command alone: its steps keep CommandInv, and are steps of Shelf.

SameHand(c) ==
  /\ cmd'[c].pid = cmd[c].pid /\ cmd'[c].kind = cmd[c].kind /\ cmd'[c].layer = cmd[c].layer
  /\ cmd'[c].plugin = cmd[c].plugin /\ cmd'[c].release = cmd[c].release
  /\ (Target(c))' = Target(c) /\ (Held(c))' = Held(c) /\ (Fetches(c))' = Fetches(c)

LEMMA GotoFields ==
  ASSUME cmd \in [Commands -> Cmds], NEW c \in Commands, NEW pc, Goto(c, pc)
  PROVE  /\ cmd'[c].pc = pc /\ SameHand(c)
         /\ cmd'[c].aside = cmd[c].aside /\ cmd'[c].previous = cmd[c].previous
         /\ (Previous(c))' = Previous(c)
         /\ cmd'[c].doc = cmd[c].doc /\ cmd'[c].stale = cmd[c].stale
<1>1. cmd'[c] = [cmd[c] EXCEPT !.pc = pc]
  BY DEF Goto
<1>2. cmd[c] \in Cmds
  OBVIOUS
<1>3. /\ cmd'[c].pc = pc /\ cmd'[c].pid = cmd[c].pid /\ cmd'[c].kind = cmd[c].kind
      /\ cmd'[c].layer = cmd[c].layer /\ cmd'[c].plugin = cmd[c].plugin
      /\ cmd'[c].release = cmd[c].release /\ cmd'[c].aside = cmd[c].aside
      /\ cmd'[c].previous = cmd[c].previous /\ cmd'[c].doc = cmd[c].doc
      /\ cmd'[c].stale = cmd[c].stale
  BY <1>1, <1>2 DEF Cmds
<1> QED
  BY <1>3 DEF SameHand, Target, Held, Aside, Fetches, Previous

\* A command that has ended has nothing in hand.
LEMMA EndsInv ==
  ASSUME cmd \in [Commands -> Cmds], NEW c \in Commands, NEW how \in Kinds, Ends(c, how)
  PROVE  (CommandInv(c))' /\ cmd'[c].pc = "idle"
<1>1. cmd'[c].pc = "idle" /\ cmd'[c].aside = FALSE
  BY DEF Ends, Ended
<1> QED
  BY <1>1 DEF CommandInv, InHand, TargetStands, Recoverable, StillSo, Fetching, Registering

\* Where a command that fetches works.
LEMMA Places ==
  ASSUME TypeOK, NEW c \in Commands, InHand(c), Fetches(c),
         cmd[c].pc \in Fetching \cup Registering
  PROVE  /\ Target(c) \in Dirs /\ At(Target(c)) \in Paths /\ Held(c) \in Paths
         /\ \A d \in Dirs : /\ At(d) \in Paths /\ At(d) # Held(c)
                            /\ At(d) = At(Target(c)) => d = Target(c)
<1>1. Target(c) \in Dirs /\ cmd[c].pid \in 1..CommandLimit
  BY DEF InHand, Target, Dirs, Fetching, Registering
<1> QED
  BY <1>1, PathFacts DEF Held, Aside

\* A command that is not at a step of install or update has nothing aside.
LEMMA EmptyHanded ==
  ASSUME NEW c \in Commands, InHand(c), ~Fetches(c)
  PROVE  ~Kept(c)
BY DEF InHand, Kept

\* A step on to another step, with no file touched.
LEMMA GoesOn ==
  ASSUME TypeOK, TypeOK', NEW c \in Commands, Commands = {c},
         SameHand(c), cmd'[c].aside = cmd[c].aside, cmd[c].pc # "idle", cmd'[c].pc # "idle",
         UNCHANGED <<lock, backup, disk, wounded>>
  PROVE  ShelfStep /\ (Kept(c))' = Kept(c) /\ (Referenced)' = Referenced
<1>1. (Kept(c))' = Kept(c)
  BY DEF Kept, SameHand
<1>2. \A d \in Dirs : On(c, d)' <=> On(c, d)
  BY <1>1 DEF On, SameHand
<1>3. ShelfStep
  BY <1>2, ShelfSteps DEF TypeOK
<1> QED
  BY <1>1, <1>3 DEF Referenced, NamedBy

\* The end of a command that has nothing aside that is needed.
LEMMA LetsGo ==
  ASSUME TypeOK, TypeOK', NEW c \in Commands, Commands = {c}, NEW how \in Kinds, Ends(c, how),
         Kept(c) => disk[At(Target(c))] = "good",
         UNCHANGED <<lock, backup, disk, wounded>>
  PROVE  (CommandInv(c))' /\ ShelfStep
<1>1. (CommandInv(c))' /\ cmd'[c].pc = "idle"
  BY EndsInv DEF TypeOK
<1>2. \A d \in Dirs : On(c, d)' <=> On(c, d)
  BY <1>1 DEF On
<1> QED
  BY <1>1, <1>2, ShelfSteps DEF TypeOK

\* What a crash takes, or a copy that does not go back, is counted as wounded.
LEMMA Taken ==
  ASSUME NEW c \in Commands, Commands = {c}, cmd'[c].pc = "idle",
         wounded' = wounded \cup (Safe(cmd) \ Safe(cmd')), UNCHANGED disk
  PROVE  \A d \in Dirs : On(c, d)' <=> On(c, d)
<1>1. Safe(cmd') = {d \in Dirs : disk[At(d)] = "good"}
  BY DEF Safe
<1>2. Safe(cmd) = {d \in Dirs : disk[At(d)] = "good" \/ (cmd[c].pc # "idle" /\ d = Target(c) /\ Kept(c))}
  BY DEF Safe, Kept, Held, Target
<1> QED
  BY <1>1, <1>2 DEF On

LEMMA BeginKeeps ==
  ASSUME TypeOK, TypeOK', NEW c \in Commands, Commands = {c}, InHand(c),
         NEW fields \in Cmds, Begins(c, fields),
         fields.pc \in {"move", "doc", "prune"}, ~fields.aside,
         fields.pc # "prune" => fields.layer \in Layers /\ fields.plugin \in Plugins,
         fields.pc = "move" => fields.kind \in {"install", "update"} /\ fields.release \in Releases,
         fields.pc = "doc" => fields.kind = "remove",
         fields.pc = "prune" =>
           fields.kind = "prune" /\ \A x \in fields.stale : x[2] = Here => x[1] \notin Referenced
  PROVE  (CommandInv(c))' /\ ShelfStep
<1>1. cmd'[c] = [fields EXCEPT !.pid = commands + 1] /\ commands + 1 \in 1..CommandLimit
  BY BeginsTyped
<1>2. /\ cmd'[c].pid \in 1..CommandLimit /\ cmd'[c].pc = fields.pc /\ cmd'[c].kind = fields.kind
      /\ cmd'[c].layer = fields.layer /\ cmd'[c].plugin = fields.plugin
      /\ cmd'[c].release = fields.release /\ cmd'[c].aside = fields.aside
      /\ cmd'[c].stale = fields.stale
  BY <1>1 DEF Cmds
<1>3. UNCHANGED <<lock, backup, disk, wounded>> /\ (Referenced)' = Referenced /\ cmd[c].pc = "idle"
  BY DEF Begins, Referenced, NamedBy
<1>4. (InHand(c))' /\ (TargetStands(c))' /\ (Recoverable(c))' /\ (StillSo(c))'
  BY <1>2, <1>3 DEF InHand, TargetStands, Recoverable, StillSo, Fetches, Fetching, Registering
<1>5. \A d \in Dirs : On(c, d)' <=> On(c, d)
  BY <1>2, <1>3 DEF On, Kept
<1> QED
  BY <1>3, <1>4, <1>5, ShelfSteps DEF CommandInv, TypeOK

LEMMA MoveAsideKeeps ==
  ASSUME TypeOK, TypeOK', NEW c \in Commands, Commands = {c}, NamedStays, CommandInv(c),
         MoveAside(c)
  PROVE  (CommandInv(c))' /\ ShelfStep
<1>1. Fetches(c) /\ cmd[c].pc = "move" /\ ~cmd[c].aside
  BY DEF CommandInv, InHand, MoveAside, Fetching
<1>2. /\ Target(c) \in Dirs /\ At(Target(c)) \in Paths /\ Held(c) \in Paths
      /\ \A d \in Dirs : At(d) \in Paths /\ At(d) # Held(c) /\ (At(d) = At(Target(c)) => d = Target(c))
  BY <1>1, Places DEF CommandInv, Fetching
<1>3. UNCHANGED <<lock, backup, wounded>> /\ (Referenced)' = Referenced
  BY DEF MoveAside, History, Referenced, NamedBy
<1>4. CASE Ends(c, "failed") /\ UNCHANGED disk
  BY <1>1, <1>3, <1>4, LetsGo DEF Kept, Kinds
<1>5. CASE /\ disk' = IF disk[At(Target(c))] = "none" THEN disk
                      ELSE [disk EXCEPT ![At(Target(c))] = "none", ![Held(c)] = disk[At(Target(c))]]
           /\ cmd' = [cmd EXCEPT ![c].pc = "extract", ![c].aside = disk[At(Target(c))] # "none"]
  <2>1. cmd'[c] = [cmd[c] EXCEPT !.pc = "extract", !.aside = disk[At(Target(c))] # "none"]
    BY <1>5 DEF TypeOK
  <2>2. /\ cmd'[c].pc = "extract" /\ cmd'[c].pid = cmd[c].pid /\ cmd'[c].kind = cmd[c].kind
        /\ cmd'[c].layer = cmd[c].layer /\ cmd'[c].plugin = cmd[c].plugin
        /\ cmd'[c].release = cmd[c].release
        /\ cmd'[c].aside = (disk[At(Target(c))] # "none")
    BY <2>1 DEF TypeOK, Cmds
  <2>3. SameHand(c)
    BY <2>2 DEF SameHand, Target, Held, Aside, Fetches
  <2>4. disk'[At(Target(c))] = "none"
    BY <1>2, <1>5 DEF TypeOK
  <2>5. disk[At(Target(c))] # "none" => disk'[Held(c)] = disk[At(Target(c))]
    BY <1>2, <1>5 DEF TypeOK
  <2>6. \A d \in Dirs : d # Target(c) => disk'[At(d)] = disk[At(d)]
    BY <1>2, <1>5 DEF TypeOK
  <2>7. (Kept(c))' <=> disk[At(Target(c))] = "good"
    BY <2>2, <2>3, <2>5 DEF Kept, SameHand
  <2>8. \A d \in Dirs : On(c, d)' <=> On(c, d)
    BY <1>1, <1>3, <2>2, <2>3, <2>4, <2>6, <2>7 DEF On, SameHand, Kept
  <2>9. (InHand(c))'
    BY <1>1, <2>2, <2>3 DEF CommandInv, InHand, SameHand, Fetching, Registering
  <2>10. (TargetStands(c))'
    BY <2>2, <2>3, <2>4 DEF TargetStands, SameHand, Registering
  <2>11. (Recoverable(c))'
    <3>1. Target(c) \in Referenced => On(c, Target(c))
      BY <1>2, ShelfIs DEF NamedStays, TypeOK
    <3>2. Target(c) \in Referenced => disk[At(Target(c))] = "good" \/ Target(c) \in wounded
      BY <1>1, <3>1 DEF On, Kept
    <3> QED
      BY <1>3, <2>3, <2>7, <3>2 DEF Recoverable, SameHand
  <2>12. (StillSo(c))'
    BY <2>2 DEF StillSo
  <2> QED
    BY <1>3, <2>8, <2>9, <2>10, <2>11, <2>12, ShelfSteps DEF CommandInv, TypeOK
<1> QED
  BY <1>4, <1>5 DEF MoveAside, Held

LEMMA ExtractKeeps ==
  ASSUME TypeOK, TypeOK', NEW c \in Commands, Commands = {c}, CommandInv(c), Extract(c)
  PROVE  (CommandInv(c))' /\ ShelfStep
<1>1. Fetches(c) /\ cmd[c].pc = "extract" /\ disk[At(Target(c))] = "none"
  BY DEF CommandInv, InHand, TargetStands, Extract, Fetching
<1>2. /\ Target(c) \in Dirs /\ At(Target(c)) \in Paths /\ Held(c) \in Paths
      /\ \A d \in Dirs : At(d) \in Paths /\ At(d) # Held(c) /\ (At(d) = At(Target(c)) => d = Target(c))
  BY <1>1, Places DEF CommandInv, Fetching
<1>3. PICK pc \in {"load", "clear"} : Goto(c, pc)
  BY DEF Extract
<1>4. cmd'[c].pc = pc /\ SameHand(c) /\ cmd'[c].aside = cmd[c].aside
  BY <1>3, GotoFields DEF TypeOK
<1>5. UNCHANGED <<lock, backup, wounded>> /\ (Referenced)' = Referenced
  BY DEF Extract, History, Referenced, NamedBy
<1>6. /\ \A d \in Dirs : d # Target(c) => disk'[At(d)] = disk[At(d)]
      /\ disk'[Held(c)] = disk[Held(c)]
  BY <1>2 DEF Extract, TypeOK
<1>7. (Kept(c))' = Kept(c)
  BY <1>4, <1>6 DEF Kept, SameHand
<1>8. (InHand(c))' /\ (TargetStands(c))' /\ (StillSo(c))'
  BY <1>1, <1>4 DEF CommandInv, InHand, TargetStands, StillSo, SameHand, Fetching, Registering
<1>9. (Recoverable(c))'
  BY <1>1, <1>4, <1>5, <1>7 DEF CommandInv, Recoverable, SameHand
<1>10. CASE disk'[At(Target(c))] = "good"
  <2>1. \A d \in Dirs : On(c, d)' <=> On(c, d) \/ d = Target(c)
    BY <1>1, <1>4, <1>5, <1>6, <1>7, <1>10 DEF On, SameHand
  <2> QED
    BY <1>2, <1>5, <2>1, <1>8, <1>9, ShelfSteps DEF CommandInv, TypeOK
<1>11. CASE disk'[At(Target(c))] # "good"
  <2>1. \A d \in Dirs : On(c, d)' <=> On(c, d)
    BY <1>1, <1>4, <1>5, <1>6, <1>7, <1>11 DEF On, SameHand
  <2> QED
    BY <1>5, <2>1, <1>8, <1>9, ShelfSteps DEF CommandInv, TypeOK
<1> QED
  BY <1>10, <1>11

LEMMA LoadKeeps ==
  ASSUME TypeOK, TypeOK', NEW c \in Commands, Commands = {c}, CommandInv(c), Load(c)
  PROVE  (CommandInv(c))' /\ ShelfStep
<1>1. Fetches(c) /\ cmd[c].pc = "load"
  BY DEF CommandInv, InHand, Load, Fetching
<1>2. PICK pc \in {"previous", "clear"} :
        Goto(c, pc) /\ (pc = "previous" => disk[At(Target(c))] = "good")
  BY DEF Load
<1>3. cmd'[c].pc = pc /\ SameHand(c) /\ cmd'[c].aside = cmd[c].aside
  BY <1>2, GotoFields DEF TypeOK
<1>4. UNCHANGED <<disk, lock, backup, wounded>>
  BY DEF Load, Files, History
<1>5. ShelfStep /\ (Kept(c))' = Kept(c) /\ (Referenced)' = Referenced
  BY <1>1, <1>2, <1>3, <1>4, GoesOn
<1>6. (InHand(c))' /\ (TargetStands(c))' /\ (StillSo(c))'
  BY <1>1, <1>2, <1>3, <1>4
     DEF CommandInv, InHand, TargetStands, StillSo, SameHand, Fetching, Registering
<1>7. (Recoverable(c))'
  BY <1>1, <1>3, <1>4, <1>5 DEF CommandInv, Recoverable, SameHand
<1> QED
  BY <1>5, <1>6, <1>7 DEF CommandInv

LEMMA ClearKeeps ==
  ASSUME TypeOK, TypeOK', NEW c \in Commands, Commands = {c}, CommandInv(c), Clear(c)
  PROVE  (CommandInv(c))' /\ ShelfStep
<1>1. Fetches(c) /\ cmd[c].pc = "clear"
  BY DEF CommandInv, InHand, Clear, Fetching
<1>2. /\ Target(c) \in Dirs /\ At(Target(c)) \in Paths /\ Held(c) \in Paths
      /\ \A d \in Dirs : At(d) \in Paths /\ At(d) # Held(c) /\ (At(d) = At(Target(c)) => d = Target(c))
  BY <1>1, Places DEF CommandInv, Fetching
<1>3. UNCHANGED <<lock, backup, wounded>> /\ (Referenced)' = Referenced
  BY DEF Clear, History, Referenced, NamedBy
<1>4. /\ disk'[At(Target(c))] = "good" => disk[At(Target(c))] = "good"
      /\ disk'[Held(c)] = disk[Held(c)]
      /\ \A d \in Dirs : d # Target(c) => disk'[At(d)] = disk[At(d)]
  BY <1>2 DEF Clear, Goes, Sticks, TypeOK
<1>5. Target(c) \in Referenced => Kept(c) \/ Target(c) \in wounded
  BY <1>1 DEF CommandInv, Recoverable
<1>6. CASE cmd[c].aside /\ Goto(c, "restore")
  <2>1. cmd'[c].pc = "restore" /\ SameHand(c) /\ cmd'[c].aside = cmd[c].aside
    BY <1>6, GotoFields DEF TypeOK
  <2>2. (Kept(c))' = Kept(c)
    BY <2>1, <1>4 DEF Kept, SameHand
  <2>3. (CommandInv(c))'
    BY <1>1, <1>3, <1>5, <1>6, <2>1, <2>2 DEF CommandInv, InHand, TargetStands, Recoverable, StillSo,
       SameHand, Fetching, Registering
  <2>4. CASE On(c, Target(c)) => On(c, Target(c))'
    <3>1. \A d \in Dirs : On(c, d)' <=> On(c, d)
      BY <1>1, <1>3, <1>4, <2>1, <2>2, <2>4 DEF On, SameHand
    <3> QED
      BY <1>3, <2>3, <3>1, ShelfSteps DEF TypeOK
  <2>5. CASE ~On(c, Target(c))'
    <3>1. \A d \in Dirs : On(c, d)' <=> On(c, d) /\ d # Target(c)
      BY <1>1, <1>3, <1>4, <2>1, <2>2, <2>5 DEF On, SameHand
    <3>2. Target(c) \in Dirs \ Referenced
      BY <1>2, <1>3, <1>5, <2>1, <2>2, <2>5 DEF On, SameHand
    <3> QED
      BY <1>3, <2>3, <3>1, <3>2, ShelfSteps DEF TypeOK
  <2> QED
    BY <2>4, <2>5
<1>7. CASE ~cmd[c].aside /\ (Ends(c, "failed") \/ Ends(c, "unrestored"))
  <2>1. (CommandInv(c))' /\ cmd'[c].pc = "idle"
    BY <1>7, EndsInv DEF TypeOK, Kinds
  <2>2. \A d \in Dirs : /\ On(c, d) <=> disk[At(d)] = "good" \/ d \in wounded
                        /\ On(c, d)' <=> disk'[At(d)] = "good" \/ d \in wounded
    BY <1>3, <1>7, <2>1 DEF On, Kept
  <2>3. CASE disk[At(Target(c))] = "good" => disk'[At(Target(c))] = "good" \/ Target(c) \in wounded
    <3>1. \A d \in Dirs : On(c, d)' <=> On(c, d)
      BY <1>2, <1>4, <2>2, <2>3
    <3> QED
      BY <1>3, <2>1, <3>1, ShelfSteps DEF TypeOK
  <2>4. CASE disk'[At(Target(c))] # "good" /\ Target(c) \notin wounded
    <3>1. \A d \in Dirs : On(c, d)' <=> On(c, d) /\ d # Target(c)
      BY <1>2, <1>4, <2>2, <2>4
    <3>2. Target(c) \in Dirs \ Referenced
      BY <1>2, <1>5, <1>7, <2>4 DEF Kept
    <3> QED
      BY <1>3, <2>1, <3>1, <3>2, ShelfSteps DEF TypeOK
  <2> QED
    BY <2>3, <2>4
<1> QED
  BY <1>6, <1>7 DEF Clear

LEMMA RestoreKeeps ==
  ASSUME TypeOK, TypeOK', NEW c \in Commands, Commands = {c}, CommandInv(c), Restore(c)
  PROVE  (CommandInv(c))' /\ ShelfStep
<1>1. Fetches(c) /\ cmd[c].pc = "restore" /\ cmd[c].aside
  BY DEF CommandInv, InHand, Restore, Fetching
<1>2. /\ Target(c) \in Dirs /\ At(Target(c)) \in Paths /\ Held(c) \in Paths
      /\ \A d \in Dirs : At(d) \in Paths /\ At(d) # Held(c) /\ (At(d) = At(Target(c)) => d = Target(c))
  BY <1>1, Places DEF CommandInv, Fetching
<1>3. (CommandInv(c))' /\ cmd'[c].pc = "idle" /\ UNCHANGED <<lock, backup>>
  BY EndsInv DEF Restore, TypeOK, Kinds
<1>4. CASE /\ disk[At(Target(c))] \in {"none", "empty"}
           /\ disk' = [disk EXCEPT ![At(Target(c))] = disk[Held(c)], ![Held(c)] = "none"]
           /\ UNCHANGED wounded
  <2>1. disk'[At(Target(c))] = disk[Held(c)]
    BY <1>2, <1>4 DEF TypeOK
  <2>2. \A d \in Dirs : d # Target(c) => disk'[At(d)] = disk[At(d)]
    BY <1>2, <1>4 DEF TypeOK
  <2>3. \A d \in Dirs : On(c, d)' <=> On(c, d)
    BY <1>1, <1>3, <1>4, <2>1, <2>2 DEF On, Kept
  <2> QED
    BY <1>3, <2>3, ShelfSteps DEF TypeOK
<1>5. CASE Ends(c, "unrestored") /\ wounded' = wounded \cup (Safe(cmd) \ Safe(cmd')) /\ UNCHANGED disk
  <2>1. \A d \in Dirs : On(c, d)' <=> On(c, d)
    BY <1>3, <1>5, Taken
  <2> QED
    BY <1>3, <2>1, ShelfSteps DEF TypeOK
<1> QED
  BY <1>4, <1>5 DEF Restore, Held

LEMMA ReadPreviousKeeps ==
  ASSUME TypeOK, TypeOK', NEW c \in Commands, Commands = {c}, CommandInv(c), ReadPrevious(c)
  PROVE  (CommandInv(c))' /\ ShelfStep
<1>1. Fetches(c) /\ cmd[c].pc = "previous" /\ UNCHANGED <<lock, backup, disk, wounded>>
  BY DEF CommandInv, InHand, ReadPrevious, Fetching, Files, History
<1>2. cmd'[c] = [cmd[c] EXCEPT !.pc = "doc", !.previous = lock[cmd[c].layer][cmd[c].plugin]]
  BY DEF ReadPrevious, TypeOK
<1>3. /\ cmd'[c].pc = "doc" /\ cmd'[c].pid = cmd[c].pid /\ cmd'[c].kind = cmd[c].kind
      /\ cmd'[c].layer = cmd[c].layer /\ cmd'[c].plugin = cmd[c].plugin
      /\ cmd'[c].release = cmd[c].release /\ cmd'[c].aside = cmd[c].aside
  BY <1>2 DEF TypeOK, Cmds
<1>4. SameHand(c)
  BY <1>3 DEF SameHand, Target, Held, Aside, Fetches
<1>5. ShelfStep /\ (Kept(c))' = Kept(c) /\ (Referenced)' = Referenced
  BY <1>1, <1>3, <1>4, GoesOn
<1>6. (InHand(c))' /\ (TargetStands(c))' /\ (StillSo(c))'
  BY <1>1, <1>3, <1>4
     DEF CommandInv, InHand, TargetStands, StillSo, SameHand, Fetching, Registering
<1>7. (Recoverable(c))'
  BY <1>1, <1>3, <1>4, <1>5 DEF CommandInv, Recoverable, SameHand
<1> QED
  BY <1>5, <1>6, <1>7 DEF CommandInv

LEMMA ReadDocKeeps ==
  ASSUME TypeOK, TypeOK', NEW c \in Commands, Commands = {c}, CommandInv(c), ReadDoc(c)
  PROVE  (CommandInv(c))' /\ ShelfStep
<1>1. cmd[c].pc = "doc" /\ UNCHANGED <<lock, backup, disk, wounded>>
  BY DEF ReadDoc, Files, History
<1>2. cmd'[c] = [cmd[c] EXCEPT !.pc = "write", !.doc = lock[cmd[c].layer]]
  BY DEF ReadDoc, TypeOK
<1>3. /\ cmd'[c].pc = "write" /\ cmd'[c].pid = cmd[c].pid /\ cmd'[c].kind = cmd[c].kind
      /\ cmd'[c].layer = cmd[c].layer /\ cmd'[c].plugin = cmd[c].plugin
      /\ cmd'[c].release = cmd[c].release /\ cmd'[c].aside = cmd[c].aside
      /\ cmd'[c].doc = lock[cmd[c].layer]
  BY <1>2 DEF TypeOK, Cmds
<1>4. SameHand(c)
  BY <1>3 DEF SameHand, Target, Held, Aside, Fetches
<1>5. ShelfStep /\ (Kept(c))' = Kept(c) /\ (Referenced)' = Referenced
  BY <1>1, <1>3, <1>4, GoesOn
<1>6. (InHand(c))' /\ (TargetStands(c))' /\ (StillSo(c))'
  BY <1>1, <1>3, <1>4
     DEF CommandInv, InHand, TargetStands, StillSo, SameHand, Fetching, Registering
<1>7. (Recoverable(c))'
  BY <1>1, <1>3, <1>4, <1>5 DEF CommandInv, Recoverable, SameHand
<1> QED
  BY <1>5, <1>6, <1>7 DEF CommandInv

\* An entry written is the one that changes, nothing else.
LEMMA EntryWritten ==
  ASSUME TypeOK, NEW l \in Layers, NEW p \in Plugins, NEW e \in Entries,
         lock' = [lock EXCEPT ![l] = [lock[l] EXCEPT ![p] = e]]
  PROVE  /\ EntriesNow' = [EntriesNow EXCEPT ![l][p] = e.release]
         /\ lock'[l][p] = e
<1>1. \A k \in Layers : lock[k] \in [Plugins -> Entries]
  BY DEF TypeOK
<1>2. \A k \in Layers, q \in Plugins : lock'[k][q] = IF k = l /\ q = p THEN e ELSE lock[k][q]
  BY <1>1 DEF TypeOK
<1>3. EntriesNow' = [k \in Layers |-> [q \in Plugins |->
                       IF k = l /\ q = p THEN e.release ELSE lock[k][q].release]]
  BY <1>2 DEF EntriesNow
<1>4. \A k \in Layers : [EntriesNow EXCEPT ![l][p] = e.release][k] =
                       [q \in Plugins |-> IF k = l /\ q = p THEN e.release ELSE lock[k][q].release]
  BY DEF EntriesNow
<1>5. [EntriesNow EXCEPT ![l][p] = e.release] \in
        [Layers -> {EntriesNow[k] : k \in Layers} \cup {[EntriesNow[l] EXCEPT ![p] = e.release]}]
  BY DEF EntriesNow
<1> QED
  BY <1>2, <1>3, <1>4, <1>5

LEMMA WriteDocKeeps ==
  ASSUME TypeOK, TypeOK', NEW c \in Commands, Commands = {c}, CommandInv(c), WriteDoc(c)
  PROVE  (CommandInv(c))' /\ ShelfStep
<1>1. /\ cmd[c].pc = "write" /\ UNCHANGED <<backup, disk, wounded>>
      /\ cmd[c].layer \in Layers /\ cmd[c].plugin \in Plugins
      /\ cmd[c].doc = lock[cmd[c].layer]
      /\ Fetches(c) \/ cmd[c].kind = "remove"
  BY DEF CommandInv, InHand, StillSo, WriteDoc, History, Registering
<1>2. ASSUME NEW pc \in {"clear", "commit", "sweep"}, Goto(c, pc)
      PROVE  cmd'[c].pc = pc /\ SameHand(c) /\ cmd'[c].aside = cmd[c].aside
  BY <1>2, GotoFields DEF TypeOK
<1>3. CASE UNCHANGED lock /\ cmd[c].kind = "remove" /\ Ends(c, "failed")
  <2>1. ~Kept(c)
    BY <1>3, EmptyHanded DEF CommandInv, Fetches
  <2> QED
    BY <1>1, <1>3, <2>1, LetsGo DEF Kinds
<1>4. CASE UNCHANGED lock /\ cmd[c].kind # "remove" /\ Goto(c, "clear")
  <2>1. ShelfStep /\ (Kept(c))' = Kept(c) /\ (Referenced)' = Referenced
    BY <1>1, <1>2, <1>4, GoesOn
  <2>2. Fetches(c)
    BY <1>1, <1>4
  <2>3. (InHand(c))' /\ (TargetStands(c))' /\ (StillSo(c))'
    BY <1>1, <1>2, <1>4, <2>2
       DEF CommandInv, InHand, TargetStands, StillSo, SameHand, Fetching, Registering
  <2>4. (Recoverable(c))'
    BY <1>1, <1>2, <1>4, <2>1, <2>2 DEF CommandInv, Recoverable, SameHand
  <2> QED
    BY <2>1, <2>3, <2>4 DEF CommandInv
<1>5. CASE /\ lock' = [lock EXCEPT ![cmd[c].layer] = Changed(c)]
           /\ Goto(c, IF cmd[c].kind = "remove" THEN "sweep" ELSE "commit")
  <2> DEFINE e == IF cmd[c].kind = "remove" THEN Missing ELSE Entry(cmd[c].release, TRUE)
  <2>1. /\ cmd'[c].pc \in {"commit", "sweep"} /\ SameHand(c) /\ cmd'[c].aside = cmd[c].aside
        /\ cmd'[c].pc = "commit" => Fetches(c)
    BY <1>1, <1>2, <1>5
  <2>2. e \in Entries
    BY EntryTyped DEF TypeOK, Cmds
  <2>3. lock' = [lock EXCEPT ![cmd[c].layer] = [lock[cmd[c].layer] EXCEPT ![cmd[c].plugin] = e]]
    BY <1>1, <1>5 DEF Changed
  <2> HIDE DEF e
  <2>4. /\ EntriesNow' = [EntriesNow EXCEPT ![cmd[c].layer][cmd[c].plugin] = e.release]
        /\ lock'[cmd[c].layer][cmd[c].plugin] = e
    BY <1>1, <2>2, <2>3, EntryWritten
  <2>5. (Kept(c))' = Kept(c) /\ \A d \in Dirs : On(c, d)' <=> On(c, d)
    BY <1>1, <2>1 DEF On, Kept, SameHand
  <2>6. UNCHANGED (Safe(cmd) \cup wounded)
    BY <1>1, <2>5, ShelfIs DEF TypeOK
  <2>7. (InHand(c))' /\ (TargetStands(c))' /\ (Recoverable(c))'
    BY <1>1, <2>1
       DEF CommandInv, InHand, TargetStands, Recoverable, SameHand, Fetching, Registering
  <2>8. CASE cmd[c].kind = "remove"
    <3>1. e.release = 0 /\ ~Fetches(c)
      BY <2>8 DEF e, Missing, Fetches
    <3>2. ImplementsShelf!Drop
      BY <1>1, <2>4, <2>6, <3>1 DEF ImplementsShelf!Drop, EntriesNow
    <3>3. (StillSo(c))'
      BY <2>1, <3>1 DEF StillSo, SameHand
    <3> QED
      BY <2>7, <3>2, <3>3 DEF CommandInv, ShelfStep
  <2>9. CASE cmd[c].kind # "remove"
    <3>1. /\ Fetches(c) /\ e.release = cmd[c].release /\ Target(c) = <<cmd[c].plugin, e.release>>
          /\ Target(c) \in Dirs /\ disk[At(Target(c))] = "good"
      BY <1>1, <2>9, Places DEF e, Entry, Target, CommandInv, TargetStands, Registering
    <3>2. Target(c) \in Safe(cmd) \cup wounded
      BY <3>1 DEF Safe
    <3>3. ImplementsShelf!Register
      <4>1. EntriesNow' = [EntriesNow EXCEPT ![cmd[c].layer][Target(c)[1]] = Target(c)[2]]
        BY <2>4, <3>1
      <4> HIDE DEF EntriesNow
      <4>2. \E l \in Layers, d \in Safe(cmd) \cup wounded :
              /\ EntriesNow' = [EntriesNow EXCEPT ![l][d[1]] = d[2]]
              /\ UNCHANGED <<Safe(cmd) \cup wounded, backup>>
        BY <1>1, <2>6, <3>2, <4>1
      <4> QED
        BY <4>2 DEF ImplementsShelf!Register, EntriesNow
    <3>4. Target(c) \in (Referenced)'
      <4>1. lock'[cmd[c].layer][Target(c)[1]].release = Target(c)[2]
        BY <2>4, <3>1
      <4>2. Target(c) \in NamedBy(lock'[cmd[c].layer])
        BY <3>1, <4>1 DEF NamedBy
      <4> QED
        BY <1>1, <4>2 DEF Referenced, NamedBy
    <3>5. (StillSo(c))'
      BY <2>1, <3>4 DEF StillSo, SameHand
    <3> QED
      BY <2>7, <3>3, <3>5 DEF CommandInv, ShelfStep
  <2> QED
    BY <2>8, <2>9
<1> QED
  BY <1>3, <1>4, <1>5 DEF WriteDoc

LEMMA CommitKeeps ==
  ASSUME TypeOK, TypeOK', NEW c \in Commands, Commands = {c}, CommandInv(c), Commit(c)
  PROVE  (CommandInv(c))' /\ ShelfStep
<1>1. /\ Fetches(c) /\ cmd[c].pc = "commit" /\ Target(c) \in Referenced
      /\ disk[At(Target(c))] = "good"
  BY DEF CommandInv, InHand, TargetStands, StillSo, Commit, Fetching
<1>2. /\ Held(c) \in Paths /\ \A d \in Dirs : At(d) \in Paths /\ At(d) # Held(c)
      /\ At(Target(c)) \in Paths /\ Target(c) \in Dirs
  BY <1>1, Places DEF CommandInv, Fetching
<1>3. UNCHANGED <<lock, backup, wounded>> /\ (Referenced)' = Referenced
  BY DEF Commit, History, Referenced, NamedBy
<1>4. cmd'[c].pc = "sweep" /\ SameHand(c) /\ cmd'[c].aside = cmd[c].aside
  BY GotoFields DEF Commit, TypeOK
<1>5. \A d \in Dirs : disk'[At(d)] = disk[At(d)]
  BY <1>2 DEF Commit, Goes, Sticks, Held, TypeOK
<1>6. \A d \in Dirs : On(c, d)' <=> On(c, d)
  BY <1>1, <1>2, <1>3, <1>4, <1>5 DEF On, SameHand
<1>7. (CommandInv(c))'
  BY <1>1, <1>2, <1>3, <1>4, <1>5 DEF CommandInv, InHand, TargetStands, Recoverable, StillSo,
     SameHand, Fetching, Registering
<1> QED
  BY <1>3, <1>6, <1>7, ShelfSteps DEF TypeOK

\* From its entry on, what a command set aside is no longer needed.
LEMMA HeldNoMore ==
  ASSUME NEW c \in Commands, CommandInv(c), cmd[c].pc \in {"sweep", "delete"}
  PROVE  Kept(c) => disk[At(Target(c))] = "good" /\ Target(c) \in Referenced
BY DEF CommandInv, InHand, TargetStands, StillSo, Kept, Registering

LEMMA SweepKeeps ==
  ASSUME TypeOK, TypeOK', NEW c \in Commands, Commands = {c}, CommandInv(c), Sweep(c)
  PROVE  (CommandInv(c))' /\ ShelfStep
<1>1. cmd[c].pc = "sweep" /\ UNCHANGED <<lock, backup, disk, wounded>>
  BY DEF Sweep, Files, History
<1>2. CASE Ends(c, "done") \/ Ends(c, "unregistered")
  BY <1>1, <1>2, HeldNoMore, LetsGo DEF Kinds
<1>3. CASE ~StillNamed(c) /\ Goto(c, "delete")
  <2>1. /\ cmd'[c].pc = "delete" /\ SameHand(c) /\ cmd'[c].aside = cmd[c].aside
        /\ (Previous(c))' = Previous(c)
    BY <1>3, GotoFields DEF TypeOK
  <2>2. ShelfStep /\ (Referenced)' = Referenced
    BY <1>1, <2>1, GoesOn
  <2>3. (CommandInv(c))'
    BY <1>1, <1>3, <2>1, <2>2 DEF CommandInv, InHand, TargetStands, Recoverable, StillSo,
       SameHand, StillNamed, Fetching, Registering
  <2> QED
    BY <2>2, <2>3
<1> QED
  BY <1>2, <1>3 DEF Sweep, Unswept

LEMMA DeleteKeeps ==
  ASSUME TypeOK, TypeOK', NEW c \in Commands, Commands = {c}, CommandInv(c), Delete(c)
  PROVE  (CommandInv(c))' /\ ShelfStep
<1>1. cmd[c].pc = "delete" /\ Previous(c) \notin Referenced
  BY DEF CommandInv, StillSo, Delete
<1>2. (CommandInv(c))' /\ cmd'[c].pc = "idle" /\ UNCHANGED <<lock, backup>>
  BY EndsInv DEF Delete, Unswept, TypeOK, Kinds
<1>3. wounded' = wounded \ {Previous(c)}
  BY DEF Delete
<1>4. PICK e : e = Previous(c)
  OBVIOUS
<1>5. /\ \A d \in Dirs : At(d) \in Paths /\ (d # e => At(d) # At(e))
      /\ At(e) \in Paths => e \in Dirs
  BY PathFacts DEF At, Paths
<1>6. \/ UNCHANGED disk
      \/ /\ \A d \in Dirs : d # e => disk'[At(d)] = disk[At(d)]
         /\ e \in Dirs => disk'[At(e)] \in {"none", "empty"}
  BY <1>4, <1>5 DEF Delete, Removed, NotRemoved, Goes, Sticks, TypeOK
<1>7. Kept(c) => disk[At(Target(c))] = "good" /\ Target(c) \in Referenced
  BY <1>1, HeldNoMore
<1>8. \A d \in Dirs : d # e => (On(c, d)' <=> On(c, d))
  BY <1>1, <1>2, <1>3, <1>4, <1>6, <1>7 DEF On
<1>9. CASE e \in Dirs /\ ~On(c, e)'
  <2>1. \A d \in Dirs : On(c, d)' <=> On(c, d) /\ d # e
    BY <1>8, <1>9
  <2> QED
    BY <1>1, <1>2, <1>4, <1>9, <2>1, ShelfSteps DEF TypeOK
<1>10. CASE e \in Dirs /\ On(c, e)'
  <2>1. disk'[At(e)] = "good"
    BY <1>2, <1>3, <1>4, <1>10 DEF On
  <2>2. \A d \in Dirs : On(c, d)' <=> On(c, d)
    BY <1>6, <1>8, <1>10, <2>1 DEF On
  <2> QED
    BY <1>2, <2>2, ShelfSteps DEF TypeOK
<1>11. CASE e \notin Dirs
  <2>1. \A d \in Dirs : On(c, d)' <=> On(c, d)
    BY <1>8, <1>11
  <2> QED
    BY <1>2, <2>1, ShelfSteps DEF TypeOK
<1> QED
  BY <1>9, <1>10, <1>11

LEMMA PruneOneKeeps ==
  ASSUME TypeOK, TypeOK', NEW c \in Commands, Commands = {c}, CommandInv(c), PruneOne(c)
  PROVE  (CommandInv(c))' /\ ShelfStep
<1>1. /\ cmd[c].pc = "prune" /\ ~cmd[c].aside /\ UNCHANGED <<lock, backup>>
      /\ cmd[c].stale \in SUBSET Paths /\ cmd[c].kind \in {"prune", "unpruned"}
      /\ \A x \in cmd[c].stale : x[2] = Here => x[1] \notin Referenced
  BY DEF CommandInv, InHand, StillSo, PruneOne, TypeOK, Cmds
<1>2. CASE UNCHANGED <<disk, wounded>> /\ (Ends(c, "done") \/ Ends(c, "unpruned"))
  BY <1>1, <1>2, LetsGo DEF Kept, Kinds
<1>3. ASSUME NEW x \in cmd[c].stale, NEW kind \in {"prune", "unpruned"},
             cmd'[c] = [cmd[c] EXCEPT !.stale = cmd[c].stale \ {x}, !.kind = kind],
             \/ /\ disk' = [disk EXCEPT ![x] = "none"]
                /\ wounded' = IF x[2] = Here THEN wounded \ {x[1]} ELSE wounded
             \/ disk' = [disk EXCEPT ![x] = "empty"] /\ UNCHANGED wounded
             \/ UNCHANGED <<disk, wounded>>
      PROVE  (CommandInv(c))' /\ ShelfStep
  <2>1. cmd'[c] = [cmd[c] EXCEPT !.stale = cmd[c].stale \ {x}, !.kind = kind]
    BY <1>3
  <2>2. /\ cmd'[c].pc = "prune" /\ cmd'[c].kind = kind
        /\ cmd'[c].pid = cmd[c].pid /\ cmd'[c].layer = cmd[c].layer
        /\ cmd'[c].plugin = cmd[c].plugin /\ ~cmd'[c].aside /\ cmd'[c].stale \subseteq cmd[c].stale
    BY <1>1, <2>1 DEF TypeOK, Cmds
  <2>3. (Referenced)' = Referenced
    BY <1>1 DEF Referenced, NamedBy
  <2>4. (CommandInv(c))'
    BY <1>1, <2>2, <2>3 DEF CommandInv, InHand, TargetStands, Recoverable, StillSo,
       Fetching, Registering
  <2>5. x \in Paths /\ x = <<x[1], x[2]>> /\ x[1] \in Dirs
    BY <1>1 DEF Paths
  <2>6. CASE UNCHANGED <<disk, wounded>>
    <3>1. \A d \in Dirs : On(c, d)' <=> On(c, d)
      BY <1>1, <2>2, <2>6 DEF On, Kept
    <3> QED
      BY <1>1, <2>4, <3>1, ShelfSteps DEF TypeOK
  <2>7. CASE /\ x[2] # Here /\ UNCHANGED wounded
             /\ \E rest \in {"none", "empty"} : disk' = [disk EXCEPT ![x] = rest]
    <3>1. \A d \in Dirs : disk'[At(d)] = disk[At(d)]
      BY <2>5, <2>7, PathFacts DEF At, TypeOK
    <3>2. \A d \in Dirs : On(c, d)' <=> On(c, d)
      BY <1>1, <2>2, <2>7, <3>1 DEF On, Kept
    <3> QED
      BY <1>1, <2>4, <3>2, ShelfSteps DEF TypeOK
  <2>8. CASE /\ x[2] = Here /\ wounded' \in {wounded, wounded \ {x[1]}}
             /\ \E rest \in {"none", "empty"} : disk' = [disk EXCEPT ![x] = rest]
    <3>1. x = At(x[1])
      BY <2>5, <2>8 DEF At
    <3>2. /\ disk'[At(x[1])] # "good"
          /\ \A d \in Dirs : d # x[1] => disk'[At(d)] = disk[At(d)]
      BY <2>5, <2>8, <3>1, PathFacts DEF TypeOK
    <3>3. \A d \in Dirs : d # x[1] => (On(c, d)' <=> On(c, d))
      BY <1>1, <2>2, <2>8, <3>2 DEF On, Kept
    <3>4. x[1] \in Dirs \ Referenced
      BY <1>1, <2>5, <2>8
    <3>5. On(c, x[1])' => On(c, x[1])
      BY <1>1, <2>2, <2>8, <3>2 DEF On, Kept
    <3>6. CASE On(c, x[1])'
      <4>1. \A d \in Dirs : On(c, d)' <=> On(c, d)
        BY <3>3, <3>5, <3>6
      <4> QED
        BY <1>1, <2>4, <4>1, ShelfSteps DEF TypeOK
    <3>7. CASE ~On(c, x[1])'
      <4>1. \A d \in Dirs : On(c, d)' <=> On(c, d) /\ d # x[1]
        BY <3>3, <3>7
      <4> QED
        BY <1>1, <2>4, <3>4, <4>1, ShelfSteps DEF TypeOK
    <3> QED
      BY <3>6, <3>7
  <2> QED
    BY <1>3, <2>6, <2>7, <2>8
<1>4. ASSUME NEW x \in cmd[c].stale, NEW kind,
             \/ cmd' = [cmd EXCEPT ![c].stale = @ \ {x}] /\ kind = cmd[c].kind
             \/ cmd' = [cmd EXCEPT ![c].stale = @ \ {x}, ![c].kind = "unpruned"] /\ kind = "unpruned"
      PROVE  /\ cmd'[c] = [cmd[c] EXCEPT !.stale = cmd[c].stale \ {x}, !.kind = kind]
             /\ kind \in {"prune", "unpruned"}
  <2>1. CASE cmd' = [cmd EXCEPT ![c].stale = @ \ {x}] /\ kind = cmd[c].kind
    <3>1. cmd'[c] = [cmd[c] EXCEPT !.stale = cmd[c].stale \ {x}]
      BY <2>1 DEF TypeOK
    <3> QED
      BY <1>1, <2>1, <3>1 DEF TypeOK, Cmds
  <2>2. CASE cmd' = [cmd EXCEPT ![c].stale = @ \ {x}, ![c].kind = "unpruned"] /\ kind = "unpruned"
    BY <2>2 DEF TypeOK
  <2> QED
    BY <1>4, <2>1, <2>2
<1>5. ASSUME NEW x \in cmd[c].stale, Removed(x),
             cmd' = [cmd EXCEPT ![c].stale = @ \ {x}],
             wounded' = IF x[2] = Here THEN wounded \ {x[1]} ELSE wounded
      PROVE  (CommandInv(c))' /\ ShelfStep
  BY <1>3, <1>4, <1>5 DEF Removed, Goes
<1>6. ASSUME NEW x \in cmd[c].stale, NotRemoved(x), UNCHANGED wounded,
             cmd' = [cmd EXCEPT ![c].stale = @ \ {x}, ![c].kind = "unpruned"]
      PROVE  (CommandInv(c))' /\ ShelfStep
  BY <1>3, <1>4, <1>6 DEF NotRemoved, Sticks
<1>7. CASE UNCHANGED <<disk, wounded>> /\ Ends(c, IF cmd[c].kind = "prune" THEN "done" ELSE cmd[c].kind)
  BY <1>1, <1>2, <1>7
<1> QED
  BY <1>5, <1>6, <1>7 DEF PruneOne

LEMMA CrashKeeps ==
  ASSUME TypeOK, TypeOK', NEW c \in Commands, Commands = {c}, CommandInv(c), Crash(c)
  PROVE  (CommandInv(c))' /\ ShelfStep
<1>1. (CommandInv(c))' /\ cmd'[c].pc = "idle" /\ UNCHANGED <<lock, backup, disk>>
  BY EndsInv DEF Crash, TypeOK, Kinds, Files
<1>2. \A d \in Dirs : On(c, d)' <=> On(c, d)
  BY <1>1, Taken DEF Crash
<1> QED
  BY <1>1, <1>2, ShelfSteps DEF TypeOK

\* Every step of a command alone.
LEMMA AloneStep ==
  ASSUME NEW c \in Commands, Commands = {c}, AloneInv, [Next]_vars
  PROVE  AloneInv' /\ ShelfStep
<1>1. TypeOK /\ NamedStays /\ CommandInv(c) /\ InHand(c)
  BY DEF AloneInv, CommandInv
<1>2. TypeOK'
  BY <1>1, TypeStep
<1>3. (CommandInv(c))' /\ ShelfStep
  <2>1. CASE UNCHANGED vars
    <3>1. (CommandInv(c))'
      BY <1>1, <2>1 DEF vars, CommandInv, InHand, TargetStands, Recoverable, StillSo, Fetches, Kept,
         Held, Aside, Target, Previous, Referenced, NamedBy
    <3>2. \A d \in Dirs : On(c, d)' <=> On(c, d)
      BY <2>1 DEF vars, On, Kept, Held, Aside, Target
    <3> QED
      BY <1>1, <1>2, <2>1, <3>1, <3>2, ShelfSteps DEF vars, TypeOK
  <2>2. ASSUME NEW l \in Layers, NEW p \in Plugins, Remove(c, l, p)
        PROVE  (CommandInv(c))' /\ ShelfStep
    <3> DEFINE fields == [Ended("remove") EXCEPT !.pc = "doc", !.layer = l, !.plugin = p,
                                                 !.previous = lock[l][p]]
    <3>1. Ended("remove") \in Cmds /\ lock[l][p] \in Entries /\ "doc" \in Pcs
      BY <1>1, FreshCommand DEF TypeOK, Kinds, Pcs, Registering
    <3>2. fields \in Cmds
      BY <3>1, FieldTyped
    <3>3. /\ fields.pc = "doc" /\ ~fields.aside /\ fields.layer = l /\ fields.plugin = p
          /\ fields.kind = "remove"
      BY DEF Ended
    <3>4. Begins(c, fields)
      BY <2>2 DEF Remove
    <3> HIDE DEF fields
    <3> QED
      BY <1>1, <1>2, <3>2, <3>3, <3>4, BeginKeeps
  <2>3. ASSUME NEW l \in Layers, NEW p \in Plugins, NEW r \in Releases, NEW kind \in {"install", "update"},
               Begins(c, [Ended(kind) EXCEPT !.pc = "move", !.layer = l, !.plugin = p, !.release = r])
        PROVE  (CommandInv(c))' /\ ShelfStep
    <3> DEFINE fields == [Ended(kind) EXCEPT !.pc = "move", !.layer = l, !.plugin = p, !.release = r]
    <3>1. Ended(kind) \in Cmds /\ "move" \in Pcs
      BY FreshCommand DEF Kinds, Pcs, Fetching
    <3>2. fields \in Cmds
      BY <3>1, FieldTyped
    <3>3. /\ fields.pc = "move" /\ ~fields.aside /\ fields.layer = l /\ fields.plugin = p
          /\ fields.kind = kind /\ fields.release = r
      BY DEF Ended
    <3>4. Begins(c, fields)
      BY <2>3
    <3> HIDE DEF fields
    <3> QED
      BY <1>1, <1>2, <3>2, <3>3, <3>4, BeginKeeps
  <2>4. CASE Prune(c)
    <3> DEFINE stale == {x \in Paths : disk[x] \in {"good", "bad"} /\ (x[2] = Here => x[1] \notin Referenced)}
               fields == [Ended("prune") EXCEPT !.pc = "prune", !.stale = stale]
    <3>1. Ended("prune") \in Cmds /\ "prune" \in Pcs /\ stale \in SUBSET Paths
      BY FreshCommand DEF Kinds, Pcs
    <3>2. \A x \in stale : x[2] = Here => x[1] \notin Referenced
      OBVIOUS
    <3>3. Begins(c, fields)
      BY <2>4 DEF Prune
    <3> HIDE DEF stale
    <3>4. fields \in Cmds
      BY <3>1, FieldTyped
    <3>5. fields.pc = "prune" /\ ~fields.aside /\ fields.stale = stale /\ fields.kind = "prune"
      BY DEF Ended
    <3> HIDE DEF fields
    <3> QED
      BY <1>1, <1>2, <3>2, <3>3, <3>4, <3>5, BeginKeeps
  <2> QED
    BY <1>1, <1>2, <2>1, <2>2, <2>3, <2>4, MoveAsideKeeps, ExtractKeeps, LoadKeeps, ClearKeeps,
       RestoreKeeps, ReadPreviousKeeps, ReadDocKeeps, WriteDocKeeps, CommitKeeps, SweepKeeps,
       DeleteKeeps, PruneOneKeeps, CrashKeeps DEF Next, Install, Update
<1>4. NamedStays'
  BY <1>1, <1>3, ShelfKeepsNamed
<1> QED
  BY <1>2, <1>3, <1>4 DEF AloneInv

LEMMA AloneStart == Init => AloneInv
<1> SUFFICES ASSUME Init PROVE AloneInv
  OBVIOUS
<1>1. TypeOK
  <2>1. {Missing} \cup {Entry(1, o) : o \in BOOLEAN} \subseteq Entries
    BY EntryTyped, ProvisioningAssumption
  <2>2. lock \in [Layers -> [Plugins -> Entries]]
    BY <2>1 DEF Init
  <2>3. cmd \in [Commands -> Cmds]
    BY FreshCommand DEF Init, Kinds
  <2>4. backup \in SUBSET Dirs /\ commands \in 0..CommandLimit
    BY ProvisioningAssumption DEF Init, Dirs
  <2> QED
    BY <2>2, <2>3, <2>4 DEF Init, TypeOK
<1>2. ASSUME NEW c \in Commands PROVE CommandInv(c)
  <2>1. cmd[c].pc = "idle" /\ cmd[c].aside = FALSE
    BY DEF Init, Ended
  <2> QED
    BY <2>1 DEF CommandInv, InHand, TargetStands, Recoverable, StillSo, Fetching, Registering
<1>3. ASSUME NEW d \in Referenced PROVE d \in Safe(cmd)
  <2>1. d \in Dirs /\ d[2] = 1
    <3>1. CASE d \in backup
      BY <3>1, ProvisioningAssumption DEF Init, Dirs
    <3>2. CASE \E l \in Layers : d \in NamedBy(lock[l])
      BY <3>2, ProvisioningAssumption DEF Init, Dirs, NamedBy, Missing, Entry
    <3> QED
      BY <1>3, <3>1, <3>2 DEF Referenced
  <2>2. disk[At(d)] = "good"
    BY <2>1, PathFacts DEF Init, At, Here
  <2> QED
    BY <2>1, <2>2 DEF Safe
<1> QED
  BY <1>1, <1>2, <1>3 DEF AloneInv, NamedStays

\* A command that runs alone keeps the promise of Shelf: it registers only a
\* library that is there and loads, and deletes none that a lock file or a
\* backup names, wherever it fails or dies (manage.rs install_into,
\* remove_one, prune; install.rs fetch_into).
THEOREM AloneKeepsShelf ==
  ASSUME NEW c, Commands = {c}
  PROVE  Spec => ShelfSpec
<1>1. Init => AloneInv
  BY AloneStart
<1>2. AloneInv /\ [Next]_vars => AloneInv' /\ ShelfStep
  BY AloneStep
<1>3. AloneInv => ImplementsShelf!Init
  BY NamedStaysIs DEF AloneInv
<1>4. ShelfStep => [ImplementsShelf!Bring \/ ImplementsShelf!Register \/ ImplementsShelf!Drop
                      \/ ImplementsShelf!Discard]_<<EntriesNow, backup, Safe(cmd) \cup wounded>>
  BY DEF ShelfStep, ShelfVars
<1> QED
  BY <1>1, <1>2, <1>3, <1>4, PTL DEF Spec, ShelfSpec, ImplementsShelf!Spec, EntriesNow

-----------------------------------------------------------------------------
\* A command that has not written the lock file has changed only what stands at
\* its target and beside it, and what stood there is aside.
Building == {"extract", "load", "clear", "restore", "previous", "doc", "write"}

Same(c) == lock = before[c].lock /\ disk = before[c].disk

\* What stood at the target when the command began: set aside, or nothing.
AsideIsOld(c) ==
  /\ lock = before[c].lock
  /\ \A x \in Paths : x # At(Target(c)) /\ x # Held(c) => disk[x] = before[c].disk[x]
  /\ before[c].disk[Held(c)] = "none"
  /\ disk[Held(c)] = before[c].disk[At(Target(c))]
  /\ ~cmd[c].aside => before[c].disk[At(Target(c))] = "none"

\* A copy that is still there when the old one is to come back would not go.
Stuck(c) == cmd[c].pc = "restore" /\ disk[At(Target(c))] # "none" => trouble # 0

Undo(c) ==
  /\ Stuck(c)
  /\ cmd[c].kind = "failed" => cmd[c].pc = "idle" /\ Same(c)
  /\ cmd[c].pc \in {"move", "doc", "write"} /\ (cmd[c].pc = "move" \/ ~Fetches(c)) => Same(c)
  /\ cmd[c].pc \in Building /\ Fetches(c) => AsideIsOld(c)

\* Entries written by hand name the first release; what a command replaces is
\* what the file holds until it is written.
ByHand(e) == e.owned \/ e.release \in {0, 1}
Replaces(c) ==
  /\ ByHand(cmd[c].previous)
  /\ cmd[c].pc \in {"doc", "write"} => cmd[c].previous = lock[cmd[c].layer][cmd[c].plugin]

\* A command that comes to its end in peace leaves named libraries and those
\* written by hand; while it runs there are also its target, the copy beside
\* it, and the release it replaces.
Stays(d) == d \in Referenced \/ d[2] = 1
Belongs(c, x) ==
  \/ x[2] = Here /\ Stays(x[1])
  \/ /\ Fetches(c) /\ x = At(Target(c)) /\ cmd[c].pc \in {"load", "clear", "previous", "doc", "write"}
  \/ /\ cmd[c].aside /\ x = Held(c) /\ cmd[c].pc \in Building \cup {"commit"}
  \/ x = At(Previous(c)) /\ cmd[c].pc \in {"commit", "sweep", "delete"}

Peaceful(c) ==
  trouble = 0 =>
    /\ \A x \in Paths : disk[x] # "none" => Belongs(c, x)
    /\ cmd[c].aside /\ cmd[c].pc \in Building \cup {"commit"} => Stays(Target(c))
    /\ cmd[c].pc = "delete" => cmd[c].previous.owned

\* Nothing stands yet beside a directory under the number of a process to come.
FreshAsides ==
  /\ \A d \in Dirs, n \in 1..CommandLimit : n > commands => disk[<<d, n>>] = "none"
  /\ \A c \in Commands : /\ cmd[c].pc # "idle" => cmd[c].pid <= commands
                         /\ cmd[c].pc = "move" => disk[Held(c)] = "none"

TidyTypes ==
  /\ trouble \in Nat
  /\ before \in [Commands -> [lock : [Layers -> [Plugins -> Entries]],
                              disk : [Paths -> {"none", "good", "bad", "empty"}]]]
  /\ \A l \in Layers, p \in Plugins : ByHand(lock[l][p])

TidyOf(c) == Undo(c) /\ Replaces(c) /\ Peaceful(c)
TidyInv == TidyTypes /\ FreshAsides /\ \A c \in Commands : TidyOf(c)

\* What a step keeps of TidyInv, action by action: a step that begins no
\* command leaves what is found of the ones before.
LEMMA TidyFrom ==
  ASSUME NEW c \in Commands, Commands = {c}, TypeOK, TypeOK', TidyInv,
         UNCHANGED <<commands, before>>, trouble' \in {trouble, trouble + 1},
         \A l \in Layers, p \in Plugins : ByHand(lock'[l][p]),
         \A d \in Dirs, n \in 1..CommandLimit : n > commands /\ disk[<<d, n>>] = "none" => disk'[<<d, n>>] = "none",
         cmd'[c].pc # "move", cmd'[c].pc # "idle" => cmd'[c].pid = cmd[c].pid /\ cmd[c].pc # "idle",
         (TidyOf(c))'
  PROVE  TidyInv'
<1>1. TidyTypes'
  BY DEF TidyInv, TidyTypes
<1>2. FreshAsides'
  BY DEF TidyInv, FreshAsides
<1> QED
  BY <1>1, <1>2 DEF TidyInv

\* The end of a command: nothing is in hand, so only what stands is left to show.
LEMMA TidyEnd ==
  ASSUME NEW c \in Commands, Commands = {c}, TypeOK, TypeOK', TidyInv, NEW how \in Kinds, Ends(c, how),
         UNCHANGED <<commands, before, lock, backup>>, trouble' \in {trouble, trouble + 1},
         \A d \in Dirs, n \in 1..CommandLimit : n > commands /\ disk[<<d, n>>] = "none" => disk'[<<d, n>>] = "none",
         how = "failed" => lock = before[c].lock /\ disk' = before[c].disk,
         trouble' = 0 => \A x \in Paths : disk'[x] # "none" => x[2] = Here /\ Stays(x[1])
  PROVE  TidyInv'
<1>1. /\ cmd'[c].pc = "idle" /\ cmd'[c].aside = FALSE /\ cmd'[c].kind = how
      /\ cmd'[c].previous = Missing
  BY DEF Ends, Ended, TypeOK
<1>2. (Undo(c))'
  BY <1>1 DEF Undo, Stuck, Same, Building
<1>3. (Replaces(c))'
  BY <1>1 DEF Replaces, ByHand, Missing
<1>4. (Referenced)' = Referenced
  BY DEF Referenced, NamedBy
<1>5. (Peaceful(c))'
  BY <1>1, <1>4 DEF Peaceful, Belongs, Stays
<1>6. \A l \in Layers, p \in Plugins : ByHand(lock'[l][p])
  BY DEF TidyInv, TidyTypes
<1> QED
  BY <1>1, <1>2, <1>3, <1>5, <1>6, TidyFrom DEF TidyOf

LEMMA TidyBegin ==
  ASSUME TypeOK, TypeOK', NEW c \in Commands, Commands = {c}, TidyInv,
         NEW fields \in Cmds, Begins(c, fields), ~fields.aside,
         \/ fields.pc = "move" /\ fields.kind \in {"install", "update"}
            /\ fields.plugin \in Plugins /\ fields.release \in Releases
            /\ fields.previous = Missing
         \/ /\ fields.pc = "doc" /\ fields.kind = "remove"
            /\ fields.layer \in Layers /\ fields.plugin \in Plugins
            /\ fields.previous = lock[fields.layer][fields.plugin]
         \/ fields.pc = "prune" /\ fields.kind = "prune" /\ fields.previous = Missing
  PROVE  TidyInv'
<1>1. cmd'[c] = [fields EXCEPT !.pid = commands + 1] /\ commands + 1 \in 1..CommandLimit
  BY BeginsTyped
<1>2. /\ cmd'[c].pid = commands + 1 /\ cmd'[c].pc = fields.pc /\ cmd'[c].kind = fields.kind
      /\ cmd'[c].layer = fields.layer /\ cmd'[c].plugin = fields.plugin
      /\ cmd'[c].release = fields.release /\ ~cmd'[c].aside /\ cmd'[c].previous = fields.previous
  BY <1>1 DEF Cmds
<1>3. /\ UNCHANGED <<lock, backup, disk, trouble>> /\ commands' = commands + 1 /\ commands \in Nat
      /\ before'[c].lock = lock /\ before'[c].disk = disk /\ cmd[c].pc = "idle"
  <2>1. before' = [before EXCEPT ![c] = [lock |-> lock, disk |-> disk]]
    BY DEF Begins
  <2> QED
    BY <2>1 DEF Begins, TypeOK, TidyInv, TidyTypes
<1>4. (Referenced)' = Referenced
  BY <1>3 DEF Referenced, NamedBy
<1>5. (Undo(c))'
  BY <1>2, <1>3 DEF Undo, Stuck, Same, Fetches, Building
<1>6. (Replaces(c))'
  BY <1>2, <1>3 DEF Replaces, ByHand, Missing, TidyInv, TidyTypes
<1>7. (Peaceful(c))'
  BY <1>2, <1>3, <1>4 DEF TidyInv, TidyOf, Peaceful, Belongs, Stays, Building
<1>8. TidyTypes'
  <2>1. [lock |-> lock, disk |-> disk] \in
          [lock : [Layers -> [Plugins -> Entries]], disk : [Paths -> {"none", "good", "bad", "empty"}]]
    BY DEF TypeOK
  <2>2. before' = [before EXCEPT ![c] = [lock |-> lock, disk |-> disk]]
    BY DEF Begins
  <2> QED
    BY <1>3, <2>1, <2>2 DEF TidyInv, TidyTypes
<1>9. FreshAsides'
  <2>1. \A d \in Dirs, n \in 1..CommandLimit : n > commands + 1 => disk[<<d, n>>] = "none"
    BY <1>3 DEF TidyInv, FreshAsides
  <2>2. fields.pc = "move" => disk'[(Held(c))'] = "none"
    <3> SUFFICES ASSUME fields.pc = "move" PROVE disk'[(Held(c))'] = "none"
      OBVIOUS
    <3>1. (Held(c))' = <<(Target(c))', commands + 1>> /\ (Target(c))' \in Dirs
      BY <1>2 DEF Held, Aside, Target, Dirs
    <3> QED
      BY <1>1, <1>3, <3>1 DEF TidyInv, FreshAsides
  <2> QED
    BY <1>2, <1>3, <2>1, <2>2 DEF FreshAsides
<1> QED
  BY <1>5, <1>6, <1>7, <1>8, <1>9 DEF TidyInv, TidyOf

\* What the parts of the invariant say of the one command.
LEMMA TidyGives ==
  ASSUME NEW c \in Commands, Commands = {c}, TidyInv
  PROVE  /\ Undo(c) /\ Replaces(c) /\ Peaceful(c) /\ trouble \in Nat
         /\ \A l \in Layers, p \in Plugins : ByHand(lock[l][p])
         /\ before[c].disk \in [Paths -> {"none", "good", "bad", "empty"}]
         /\ cmd[c].pc # "idle" => cmd[c].pid <= commands
         /\ cmd[c].pc = "move" => disk[Held(c)] = "none"
BY DEF TidyInv, TidyOf, TidyTypes, FreshAsides

\* The places of a fetch, and that no number to come is among them.
LEMMA HeldIsOld ==
  ASSUME TypeOK, NEW c \in Commands, Commands = {c}, TidyInv, CommandInv(c), Fetches(c),
         cmd[c].pc \in Fetching \cup Registering
  PROVE  /\ Target(c) \in Dirs /\ At(Target(c)) \in Paths /\ Held(c) \in Paths
         /\ At(Target(c)) # Held(c) /\ At(Target(c))[2] = Here /\ At(Target(c))[1] = Target(c)
         /\ \A d \in Dirs, n \in 1..CommandLimit : n > commands =>
              <<d, n>> \in Paths /\ <<d, n>> # At(Target(c)) /\ <<d, n>> # Held(c)
<1>1. /\ Target(c) \in Dirs /\ At(Target(c)) \in Paths /\ Held(c) \in Paths
      /\ At(Target(c)) # Held(c)
  BY Places DEF CommandInv
<1>2. cmd[c].pid <= commands /\ cmd[c].pid \in Nat /\ commands \in Nat
  BY TidyGives DEF TypeOK, Cmds, Fetching, Registering
<1>3. At(Target(c))[2] = Here /\ At(Target(c))[1] = Target(c)
  BY DEF At
<1>4. ASSUME NEW d \in Dirs, NEW n \in 1..CommandLimit, n > commands
      PROVE  <<d, n>> \in Paths /\ <<d, n>> # At(Target(c)) /\ <<d, n>> # Held(c)
  BY <1>1, <1>2, <1>4, PathFacts DEF Held, Aside
<1> QED
  BY <1>1, <1>3, <1>4

LEMMA MoveAsideTidy ==
  ASSUME TypeOK, TypeOK', NEW c \in Commands, Commands = {c}, CommandInv(c), TidyInv, MoveAside(c)
  PROVE  TidyInv'
<1>1. Fetches(c) /\ cmd[c].pc = "move" /\ ~cmd[c].aside
  BY DEF CommandInv, InHand, MoveAside, Fetching
<1>2. /\ Target(c) \in Dirs /\ At(Target(c)) \in Paths /\ Held(c) \in Paths
      /\ At(Target(c)) # Held(c) /\ At(Target(c))[2] = Here /\ At(Target(c))[1] = Target(c)
      /\ \A d \in Dirs, n \in 1..CommandLimit : n > commands =>
           <<d, n>> \in Paths /\ <<d, n>> # At(Target(c)) /\ <<d, n>> # Held(c)
  BY <1>1, HeldIsOld DEF Fetching
<1>3. Same(c) /\ disk[Held(c)] = "none" /\ Peaceful(c) /\ Replaces(c) /\ trouble \in Nat
  BY <1>1, TidyGives DEF Undo
<1>4. UNCHANGED <<lock, backup, commands, before>> /\ (Referenced)' = Referenced
  BY DEF MoveAside, History, Referenced, NamedBy
<1>5. CASE Ends(c, "failed") /\ UNCHANGED disk /\ Fault
  BY <1>3, <1>4, <1>5, TidyEnd DEF Kinds, Same, Fault
<1>6. CASE /\ disk' = IF disk[At(Target(c))] = "none" THEN disk
                      ELSE [disk EXCEPT ![At(Target(c))] = "none", ![Held(c)] = disk[At(Target(c))]]
           /\ cmd' = [cmd EXCEPT ![c].pc = "extract", ![c].aside = disk[At(Target(c))] # "none"]
           /\ UNCHANGED trouble
  <2>1. cmd'[c] = [cmd[c] EXCEPT !.pc = "extract", !.aside = disk[At(Target(c))] # "none"]
    BY <1>6 DEF TypeOK
  <2>2. /\ cmd'[c].pc = "extract" /\ cmd'[c].pid = cmd[c].pid /\ cmd'[c].kind = cmd[c].kind
        /\ cmd'[c].layer = cmd[c].layer /\ cmd'[c].plugin = cmd[c].plugin
        /\ cmd'[c].release = cmd[c].release /\ cmd'[c].previous = cmd[c].previous
        /\ cmd'[c].aside = (disk[At(Target(c))] # "none")
    BY <2>1 DEF TypeOK, Cmds
  <2>3. SameHand(c)
    BY <2>2 DEF SameHand, Target, Held, Aside, Fetches
  <2>4. disk'[At(Target(c))] = "none" /\ disk'[Held(c)] = disk[At(Target(c))]
    BY <1>2, <1>3, <1>6 DEF TypeOK
  <2>5. \A x \in Paths : x # At(Target(c)) /\ x # Held(c) => disk'[x] = disk[x]
    BY <1>2, <1>6 DEF TypeOK
  <2>6. (Undo(c))'
    <3>1. (AsideIsOld(c))'
      BY <1>2, <1>3, <1>4, <2>2, <2>3, <2>4, <2>5 DEF AsideIsOld, Same, SameHand
    <3> QED
      BY <1>1, <2>2, <2>3, <3>1 DEF Undo, Stuck, SameHand, Fetches
  <2>7. (Replaces(c))'
    BY <1>3, <2>2 DEF Replaces
  <2>8. (Peaceful(c))'
    <3> SUFFICES ASSUME trouble = 0 PROVE (Peaceful(c))'
      BY <1>6 DEF Peaceful
    <3>1. \A x \in Paths : disk[x] # "none" => x[2] = Here /\ Stays(x[1])
      BY <1>1, <1>3 DEF Peaceful, Belongs, Building
    <3>2. disk[At(Target(c))] # "none" => Stays(Target(c))
      BY <1>2, <3>1
    <3>3. (Stays(Target(c)))' <=> Stays(Target(c))
      BY <1>4, <2>3 DEF Stays, SameHand
    <3>4. ASSUME NEW x \in Paths, disk'[x] # "none" PROVE (Belongs(c, x))'
      <4>1. CASE x = Held(c)
        BY <2>2, <2>3, <2>4, <3>4, <4>1 DEF Belongs, SameHand, Building
      <4>2. CASE x # Held(c)
        <5>1. disk[x] # "none"
          BY <2>4, <2>5, <3>4, <4>2
        <5> QED
          BY <1>4, <3>1, <5>1 DEF Belongs, Stays
      <4> QED
        BY <4>1, <4>2
    <3> QED
      BY <2>2, <3>2, <3>3, <3>4 DEF Peaceful
  <2>9. \A d \in Dirs, n \in 1..CommandLimit : n > commands => disk'[<<d, n>>] = disk[<<d, n>>]
    BY <1>2, <2>5
  <2> QED
    BY <1>1, <1>4, <1>6, <2>2, <2>6, <2>7, <2>8, <2>9, TidyFrom, TidyGives DEF TidyOf
<1> QED
  BY <1>5, <1>6 DEF MoveAside, Held

\* A step between two that touch no file of the target's: load, previous, doc.
LEMMA ReadingTidy ==
  ASSUME TypeOK, TypeOK', NEW c \in Commands, Commands = {c}, CommandInv(c), TidyInv,
         SameHand(c), cmd'[c].aside = cmd[c].aside,
         UNCHANGED <<lock, backup, disk, commands, before, trouble>>,
         \/ Fetches(c) /\ cmd[c].pc = "load" /\ cmd'[c].pc \in {"previous", "clear"}
         \/ Fetches(c) /\ cmd[c].pc = "previous" /\ cmd'[c].pc = "doc"
         \/ cmd[c].pc = "doc" /\ cmd'[c].pc = "write",
         IF cmd[c].pc = "previous" THEN cmd'[c].previous = lock[cmd[c].layer][cmd[c].plugin]
                                   ELSE cmd'[c].previous = cmd[c].previous
  PROVE  TidyInv'
<1>1. /\ Undo(c) /\ Replaces(c) /\ Peaceful(c) /\ trouble \in Nat
      /\ \A l \in Layers, p \in Plugins : ByHand(lock[l][p])
  BY TidyGives
<1>2. cmd[c].layer \in Layers /\ cmd[c].plugin \in Plugins
  BY DEF CommandInv, InHand, Fetching, Registering
<1>3. (Undo(c))'
  BY <1>1 DEF Undo, Stuck, Same, AsideIsOld, SameHand, Building, Fetches
<1>4. (Replaces(c))'
  BY <1>1, <1>2 DEF Replaces, SameHand
<1>5. (Referenced)' = Referenced
  BY DEF Referenced, NamedBy
<1>6. (Peaceful(c))'
  BY <1>1, <1>5 DEF Peaceful, Belongs, Stays, SameHand, Building
<1> QED
  BY <1>1, <1>3, <1>4, <1>6, TidyFrom DEF TidyOf, SameHand

LEMMA LoadTidy ==
  ASSUME TypeOK, TypeOK', NEW c \in Commands, Commands = {c}, CommandInv(c), TidyInv, Load(c)
  PROVE  TidyInv'
<1>1. PICK pc \in {"previous", "clear"} : Goto(c, pc)
  BY DEF Load
<1>2. /\ cmd'[c].pc = pc /\ SameHand(c) /\ cmd'[c].aside = cmd[c].aside
      /\ cmd'[c].previous = cmd[c].previous
  BY <1>1, GotoFields DEF TypeOK
<1>3. Fetches(c) /\ cmd[c].pc = "load"
  BY DEF CommandInv, InHand, Load, Fetching
<1> QED
  BY <1>2, <1>3, ReadingTidy DEF Load, Files, History

LEMMA ReadPreviousTidy ==
  ASSUME TypeOK, TypeOK', NEW c \in Commands, Commands = {c}, CommandInv(c), TidyInv, ReadPrevious(c)
  PROVE  TidyInv'
<1>1. Fetches(c) /\ cmd[c].pc = "previous"
  BY DEF CommandInv, InHand, ReadPrevious, Fetching
<1>2. cmd'[c] = [cmd[c] EXCEPT !.pc = "doc", !.previous = lock[cmd[c].layer][cmd[c].plugin]]
  BY DEF ReadPrevious, TypeOK
<1>3. /\ cmd'[c].pc = "doc" /\ SameHand(c) /\ cmd'[c].aside = cmd[c].aside
      /\ cmd'[c].previous = lock[cmd[c].layer][cmd[c].plugin]
  BY <1>2 DEF SameHand, Target, Held, Aside, Fetches, TypeOK, Cmds
<1> QED
  BY <1>1, <1>3, ReadingTidy DEF ReadPrevious, Files, History

LEMMA ReadDocTidy ==
  ASSUME TypeOK, TypeOK', NEW c \in Commands, Commands = {c}, CommandInv(c), TidyInv, ReadDoc(c)
  PROVE  TidyInv'
<1>1. cmd'[c] = [cmd[c] EXCEPT !.pc = "write", !.doc = lock[cmd[c].layer]]
  BY DEF ReadDoc, TypeOK
<1>2. /\ cmd'[c].pc = "write" /\ SameHand(c) /\ cmd'[c].aside = cmd[c].aside
      /\ cmd'[c].previous = cmd[c].previous
  BY <1>1 DEF SameHand, Target, Held, Aside, Fetches, TypeOK, Cmds
<1> QED
  BY <1>2, ReadingTidy DEF ReadDoc, Files, History

LEMMA ExtractTidy ==
  ASSUME TypeOK, TypeOK', NEW c \in Commands, Commands = {c}, CommandInv(c), TidyInv, Extract(c)
  PROVE  TidyInv'
<1>1. Fetches(c) /\ cmd[c].pc = "extract"
  BY DEF CommandInv, InHand, Extract, Fetching
<1>2. /\ At(Target(c)) \in Paths /\ Held(c) \in Paths /\ At(Target(c)) # Held(c)
      /\ \A d \in Dirs, n \in 1..CommandLimit : n > commands =>
           <<d, n>> \in Paths /\ <<d, n>> # At(Target(c)) /\ <<d, n>> # Held(c)
  BY <1>1, HeldIsOld DEF Fetching
<1>3. PICK pc \in {"load", "clear"} : Goto(c, pc)
  BY DEF Extract
<1>4. /\ cmd'[c].pc = pc /\ SameHand(c) /\ cmd'[c].aside = cmd[c].aside
      /\ cmd'[c].previous = cmd[c].previous /\ (Previous(c))' = Previous(c)
  BY <1>3, GotoFields DEF TypeOK
<1>5. UNCHANGED <<lock, backup, commands, before>> /\ (Referenced)' = Referenced
  BY DEF Extract, History, Referenced, NamedBy
<1>6. \A x \in Paths : x # At(Target(c)) => disk'[x] = disk[x]
  BY <1>2 DEF Extract, TypeOK
<1>7. trouble' \in {trouble, trouble + 1} /\ trouble \in Nat /\ AsideIsOld(c) /\ Replaces(c) /\ Peaceful(c)
  BY <1>1, TidyGives DEF Extract, Fault, Undo, Building
<1>8. (Undo(c))'
  <2>1. (AsideIsOld(c))'
    BY <1>2, <1>4, <1>5, <1>6, <1>7 DEF AsideIsOld, SameHand
  <2> QED
    BY <1>1, <1>4, <2>1 DEF Undo, Stuck, SameHand, Fetches
<1>9. (Replaces(c))'
  BY <1>4, <1>7 DEF Replaces
<1>10. (Peaceful(c))'
  <2> SUFFICES ASSUME trouble' = 0 PROVE (Peaceful(c))'
    BY DEF Peaceful
  <2>1. trouble = 0
    BY <1>7
  <2>2. ASSUME NEW x \in Paths, disk'[x] # "none" PROVE (Belongs(c, x))'
    <3>1. CASE x = At(Target(c))
      BY <1>1, <1>4, <3>1 DEF Belongs, SameHand
    <3>2. CASE x # At(Target(c))
      <4>1. Belongs(c, x)
        BY <1>6, <1>7, <2>1, <2>2, <3>2 DEF Peaceful
      <4> QED
        BY <1>1, <1>4, <1>5, <4>1 DEF Belongs, Stays, SameHand, Building
    <3> QED
      BY <3>1, <3>2
  <2> QED
    BY <1>1, <1>4, <1>5, <1>7, <2>1, <2>2 DEF Peaceful, Stays, SameHand, Building
<1>11. \A d \in Dirs, n \in 1..CommandLimit : n > commands => disk'[<<d, n>>] = disk[<<d, n>>]
  BY <1>2, <1>6
<1> QED
  BY <1>1, <1>4, <1>5, <1>7, <1>8, <1>9, <1>10, <1>11, TidyFrom, TidyGives DEF TidyOf, SameHand

LEMMA ClearTidy ==
  ASSUME TypeOK, TypeOK', NEW c \in Commands, Commands = {c}, CommandInv(c), TidyInv, Clear(c)
  PROVE  TidyInv'
<1>1. Fetches(c) /\ cmd[c].pc = "clear"
  BY DEF CommandInv, InHand, Clear, Fetching
<1>2. /\ At(Target(c)) \in Paths /\ Held(c) \in Paths /\ At(Target(c)) # Held(c)
      /\ \A d \in Dirs, n \in 1..CommandLimit : n > commands =>
           <<d, n>> \in Paths /\ <<d, n>> # At(Target(c)) /\ <<d, n>> # Held(c)
  BY <1>1, HeldIsOld DEF Fetching
<1>3. UNCHANGED <<lock, backup, commands, before>> /\ (Referenced)' = Referenced
  BY DEF Clear, History, Referenced, NamedBy
<1>4. /\ \A x \in Paths : x # At(Target(c)) => disk'[x] = disk[x]
      /\ \/ disk'[At(Target(c))] = "none" /\ UNCHANGED trouble
         \/ trouble' = trouble + 1
  BY <1>2 DEF Clear, Goes, Sticks, Fault, TypeOK
<1>5. trouble \in Nat /\ AsideIsOld(c) /\ Replaces(c) /\ Peaceful(c)
  BY <1>1, TidyGives DEF Undo, Building
<1>6. \A d \in Dirs, n \in 1..CommandLimit : n > commands => disk'[<<d, n>>] = disk[<<d, n>>]
  BY <1>2, <1>4
<1>7. CASE cmd[c].aside /\ Goto(c, "restore")
  <2>1. /\ cmd'[c].pc = "restore" /\ SameHand(c) /\ cmd'[c].aside = cmd[c].aside
        /\ cmd'[c].previous = cmd[c].previous /\ (Previous(c))' = Previous(c)
    BY <1>7, GotoFields DEF TypeOK
  <2>2. (AsideIsOld(c))'
    BY <1>2, <1>3, <1>4, <1>5, <2>1 DEF AsideIsOld, SameHand
  <2>3. (Undo(c))'
    <3>1. (Stuck(c))'
      BY <1>4, <1>5, <2>1 DEF Stuck, SameHand
    <3> QED
      BY <1>1, <2>1, <2>2, <3>1 DEF Undo, SameHand, Fetches
  <2>4. (Replaces(c))'
    BY <1>5, <2>1 DEF Replaces
  <2>5. (Peaceful(c))'
    <3> SUFFICES ASSUME trouble' = 0 PROVE (Peaceful(c))'
      BY DEF Peaceful
    <3>0. trouble = 0 /\ disk'[At(Target(c))] = "none"
      BY <1>4, <1>5
    <3>1. ASSUME NEW x \in Paths, disk'[x] # "none" PROVE (Belongs(c, x))'
      <4>1. Belongs(c, x) /\ x # At(Target(c))
        BY <1>4, <1>5, <3>0, <3>1 DEF Peaceful
      <4> QED
        BY <1>1, <1>3, <2>1, <4>1 DEF Belongs, Stays, SameHand, Building
    <3> QED
      BY <1>1, <1>3, <1>5, <2>1, <3>0, <3>1 DEF Peaceful, Stays, SameHand, Building
  <2> QED
    BY <1>1, <1>3, <1>4, <1>6, <2>1, <2>3, <2>4, <2>5, TidyFrom, TidyGives DEF TidyOf, SameHand
<1>8. CASE ~cmd[c].aside /\ Ends(c, "failed") /\ disk'[At(Target(c))] = "none" /\ UNCHANGED trouble
  <2>1. disk' = before[c].disk
    <3>1. \A x \in Paths : disk'[x] = before[c].disk[x]
      BY <1>2, <1>4, <1>5, <1>8 DEF AsideIsOld
    <3>2. before[c].disk \in [Paths -> {"none", "good", "bad", "empty"}]
      BY TidyGives
    <3> QED
      BY <3>1, <3>2 DEF TypeOK
  <2>2. trouble = 0 => \A x \in Paths : disk'[x] # "none" => x[2] = Here /\ Stays(x[1])
    BY <1>1, <1>4, <1>5, <1>8 DEF Peaceful, Belongs
  <2>3. lock = before[c].lock
    BY <1>5 DEF AsideIsOld
  <2> QED
    BY <1>3, <1>6, <1>8, <2>1, <2>2, <2>3, TidyEnd DEF Kinds
<1>9. CASE Fault /\ Ends(c, "unrestored")
  BY <1>3, <1>5, <1>6, <1>9, TidyEnd DEF Kinds, Fault
<1> QED
  BY <1>2, <1>7, <1>8, <1>9 DEF Clear, Goes, Sticks, TypeOK

LEMMA RestoreTidy ==
  ASSUME TypeOK, TypeOK', NEW c \in Commands, Commands = {c}, CommandInv(c), TidyInv, Restore(c)
  PROVE  TidyInv'
<1>1. Fetches(c) /\ cmd[c].pc = "restore" /\ cmd[c].aside
  BY DEF CommandInv, InHand, Restore, Fetching
<1>2. /\ At(Target(c)) \in Paths /\ Held(c) \in Paths /\ At(Target(c)) # Held(c)
      /\ At(Target(c))[2] = Here /\ At(Target(c))[1] = Target(c)
      /\ \A d \in Dirs, n \in 1..CommandLimit : n > commands =>
           <<d, n>> \in Paths /\ <<d, n>> # At(Target(c)) /\ <<d, n>> # Held(c)
  BY <1>1, HeldIsOld DEF Fetching
<1>3. UNCHANGED <<lock, backup, commands, before>>
  BY DEF Restore
<1>4. trouble \in Nat /\ AsideIsOld(c) /\ Peaceful(c) /\ Stuck(c)
  BY <1>1, TidyGives DEF Undo, Building
<1>5. CASE Fault /\ Ends(c, "unrestored") /\ UNCHANGED disk
  BY <1>3, <1>4, <1>5, TidyEnd DEF Kinds, Fault
<1>7. CASE disk[At(Target(c))] # "none" /\ Ends(c, "unrestored") /\ UNCHANGED <<disk, trouble>>
  <2>1. trouble # 0
    BY <1>1, <1>2, <1>4, <1>7 DEF Stuck
  <2> QED
    BY <1>3, <1>4, <1>7, <2>1, TidyEnd DEF Kinds
<1>6. CASE /\ disk' = [disk EXCEPT ![At(Target(c))] = disk[Held(c)], ![Held(c)] = "none"]
           /\ Ends(c, "failed") /\ UNCHANGED trouble
  <2>1. /\ disk'[At(Target(c))] = disk[Held(c)] /\ disk'[Held(c)] = "none"
        /\ \A x \in Paths : x # At(Target(c)) /\ x # Held(c) => disk'[x] = disk[x]
    BY <1>2, <1>6 DEF TypeOK
  <2>2. disk' = before[c].disk
    <3>1. \A x \in Paths : disk'[x] = before[c].disk[x]
      BY <1>4, <2>1 DEF AsideIsOld
    <3>2. before[c].disk \in [Paths -> {"none", "good", "bad", "empty"}]
      BY TidyGives
    <3> QED
      BY <3>1, <3>2 DEF TypeOK
  <2>3. lock = before[c].lock
    BY <1>4 DEF AsideIsOld
  <2>4. ASSUME trouble = 0, NEW x \in Paths, disk'[x] # "none" PROVE x[2] = Here /\ Stays(x[1])
    <3>1. CASE x = At(Target(c))
      BY <1>1, <1>2, <1>4, <2>4, <3>1 DEF Peaceful, Building
    <3>2. CASE x # At(Target(c))
      <4>1. Belongs(c, x) /\ x # Held(c)
        BY <1>4, <2>1, <2>4, <3>2 DEF Peaceful
      <4> QED
        BY <1>1, <4>1 DEF Belongs
    <3> QED
      BY <3>1, <3>2
  <2>5. \A d \in Dirs, n \in 1..CommandLimit : n > commands => disk'[<<d, n>>] = disk[<<d, n>>]
    BY <1>2, <2>1
  <2> QED
    BY <1>3, <1>6, <2>2, <2>3, <2>4, <2>5, TidyEnd DEF Kinds
<1> QED
  BY <1>5, <1>6, <1>7 DEF Restore, Held

\* register: what the entry replaces may be named no more, and is all that is.
LEMMA WriteDocTidy ==
  ASSUME TypeOK, TypeOK', NEW c \in Commands, Commands = {c}, CommandInv(c), (CommandInv(c))',
         TidyInv, WriteDoc(c)
  PROVE  TidyInv'
<1>1. /\ cmd[c].pc = "write" /\ cmd[c].doc = lock[cmd[c].layer]
      /\ Fetches(c) \/ cmd[c].kind = "remove"
      /\ cmd[c].layer \in Layers /\ cmd[c].plugin \in Plugins
  BY DEF CommandInv, InHand, StillSo, WriteDoc, Registering
<1>2. UNCHANGED <<backup, disk, commands, before>>
  BY DEF WriteDoc, History
<1>3. /\ trouble \in Nat /\ Undo(c) /\ Replaces(c) /\ Peaceful(c)
      /\ \A l \in Layers, p \in Plugins : ByHand(lock[l][p])
  BY TidyGives
<1>4. CASE Fault /\ UNCHANGED lock /\ cmd[c].kind = "remove" /\ Ends(c, "failed")
  <2>1. Same(c)
    BY <1>1, <1>3, <1>4 DEF Undo, Fetches
  <2> QED
    BY <1>2, <1>3, <1>4, <2>1, TidyEnd DEF Kinds, Same, Fault
<1>5. CASE Fault /\ UNCHANGED lock /\ cmd[c].kind # "remove" /\ Goto(c, "clear")
  <2>1. /\ cmd'[c].pc = "clear" /\ SameHand(c) /\ cmd'[c].aside = cmd[c].aside
        /\ cmd'[c].previous = cmd[c].previous /\ (Previous(c))' = Previous(c)
    BY <1>5, GotoFields DEF TypeOK
  <2>2. (Undo(c))'
    BY <1>1, <1>2, <1>3, <1>5, <2>1 DEF Undo, Stuck, AsideIsOld, SameHand, Fetches, Building
  <2>3. (Replaces(c))' /\ (Peaceful(c))'
    BY <1>3, <1>5, <2>1 DEF Replaces, Peaceful, Fault
  <2> QED
    BY <1>1, <1>2, <1>3, <1>5, <2>1, <2>2, <2>3, TidyFrom DEF TidyOf, SameHand, Fault
<1>6. CASE /\ lock' = [lock EXCEPT ![cmd[c].layer] = Changed(c)] /\ UNCHANGED trouble
           /\ Goto(c, IF cmd[c].kind = "remove" THEN "sweep" ELSE "commit")
  <2> DEFINE e == IF cmd[c].kind = "remove" THEN Missing ELSE Entry(cmd[c].release, TRUE)
  <2>0. ByHand(e)
    BY DEF ByHand, Missing, Entry
  <2>1. /\ cmd'[c].pc \in {"sweep", "commit"} /\ (cmd'[c].pc = "sweep" <=> cmd[c].kind = "remove")
        /\ SameHand(c) /\ cmd'[c].aside = cmd[c].aside
        /\ cmd'[c].previous = cmd[c].previous /\ (Previous(c))' = Previous(c)
    BY <1>6, GotoFields DEF TypeOK
  <2>2. \A l \in Layers, p \in Plugins :
          lock'[l][p] = IF l = cmd[c].layer /\ p = cmd[c].plugin THEN e ELSE lock[l][p]
    BY <1>1, <1>6 DEF Changed, TypeOK
  <2>3. \A l \in Layers, p \in Plugins : ByHand(lock'[l][p])
    BY <1>3, <2>0, <2>2
  <2>4. (Undo(c))'
    BY <1>1, <2>1 DEF Undo, Stuck, SameHand, Fetches, Building
  <2>5. (Replaces(c))'
    BY <1>3, <2>1 DEF Replaces
  <2>6. ASSUME NEW d \in Dirs, Stays(d) PROVE (Stays(d))' \/ d = Previous(c)
    <3>1. CASE d[2] = 1 \/ d \in backup
      BY <1>2, <3>1 DEF Stays, Referenced
    <3>2. CASE \E l \in Layers : lock[l][d[1]].release = d[2]
      <4>1. PICK l \in Layers : lock[l][d[1]].release = d[2]
        BY <3>2
      <4>2. d = <<d[1], d[2]>> /\ d[1] \in Plugins
        BY DEF Dirs
      <4>3. CASE l = cmd[c].layer /\ d[1] = cmd[c].plugin
        BY <1>1, <1>3, <4>1, <4>2, <4>3 DEF Replaces, Previous
      <4>4. CASE ~(l = cmd[c].layer /\ d[1] = cmd[c].plugin)
        <5>1. lock'[l][d[1]].release = d[2]
          BY <2>2, <4>1, <4>2, <4>4
        <5>2. d \in (Referenced)'
          BY <5>1 DEF Referenced, NamedBy
        <5> QED
          BY <5>2 DEF Stays
      <4> QED
        BY <4>3, <4>4
    <3> QED
      BY <2>6, <3>1, <3>2, ReferencedIs DEF Stays
  <2>7. Fetches(c) => Target(c) \in (Referenced)'
    BY <2>1 DEF CommandInv, StillSo, SameHand, Fetches
  <2>8. ASSUME trouble = 0, NEW x \in Paths, disk[x] # "none" PROVE (Belongs(c, x))'
    <3>1. Belongs(c, x)
      BY <1>3, <2>8 DEF Peaceful
    <3>2. CASE x[2] = Here /\ Stays(x[1])
      <4>1. x[1] \in Dirs /\ x = At(x[1])
        BY <3>2 DEF Paths, At
      <4> QED
        BY <2>1, <2>6, <3>2, <4>1 DEF Belongs
    <3>3. CASE Fetches(c) /\ x = At(Target(c))
      BY <2>7, <3>3 DEF Belongs, Stays, At
    <3>4. CASE cmd[c].aside /\ x = Held(c)
      <4>1. cmd'[c].pc = "commit"
        BY <2>1, <3>4 DEF CommandInv, InHand, Fetches
      <4> QED
        BY <2>1, <3>4, <4>1 DEF Belongs, SameHand
    <3> QED
      BY <1>1, <3>1, <3>2, <3>3, <3>4 DEF Belongs
  <2>9. (Peaceful(c))'
    <3>1. cmd[c].aside => Fetches(c)
      BY DEF CommandInv, InHand
    <3> QED
      BY <1>2, <1>6, <2>1, <2>7, <2>8, <3>1 DEF Peaceful, Stays, SameHand, Building
  <2> QED
    BY <1>1, <1>2, <1>6, <2>1, <2>3, <2>4, <2>5, <2>9, TidyFrom DEF TidyOf, SameHand
<1> QED
  BY <1>1, <1>4, <1>5, <1>6 DEF WriteDoc

LEMMA CommitTidy ==
  ASSUME TypeOK, TypeOK', NEW c \in Commands, Commands = {c}, CommandInv(c), TidyInv, Commit(c)
  PROVE  TidyInv'
<1>1. Fetches(c) /\ cmd[c].pc = "commit" /\ Target(c) \in Referenced
  BY DEF CommandInv, InHand, StillSo, Commit, Fetching
<1>2. /\ At(Target(c)) \in Paths /\ Held(c) \in Paths /\ At(Target(c)) # Held(c)
      /\ \A d \in Dirs, n \in 1..CommandLimit : n > commands =>
           <<d, n>> \in Paths /\ <<d, n>> # At(Target(c)) /\ <<d, n>> # Held(c)
  BY <1>1, HeldIsOld DEF Fetching
<1>3. UNCHANGED <<lock, backup, commands, before>> /\ (Referenced)' = Referenced
  BY DEF Commit, History, Referenced, NamedBy
<1>4. /\ cmd'[c].pc = "sweep" /\ SameHand(c) /\ cmd'[c].aside = cmd[c].aside
      /\ cmd'[c].previous = cmd[c].previous /\ (Previous(c))' = Previous(c)
  BY GotoFields DEF Commit, TypeOK
<1>5. /\ \A x \in Paths : x # Held(c) => disk'[x] = disk[x]
      /\ cmd[c].aside /\ UNCHANGED trouble => disk'[Held(c)] = "none"
      /\ ~cmd[c].aside => disk' = disk
      /\ trouble' \in {trouble, trouble + 1}
  BY <1>2, TidyGives DEF Commit, Goes, Sticks, Fault, Held, TypeOK
<1>6. /\ trouble \in Nat /\ Undo(c) /\ Replaces(c) /\ Peaceful(c)
      /\ \A l \in Layers, p \in Plugins : ByHand(lock[l][p])
  BY TidyGives
<1>7. (Undo(c))' /\ (Replaces(c))'
  BY <1>1, <1>4, <1>6 DEF Undo, Stuck, Replaces, SameHand, Fetches, Building
<1>8. (Peaceful(c))'
  <2>0. trouble' = 0 => trouble = 0
    BY <1>5, <1>6
  <2>1. ASSUME trouble' = 0, NEW x \in Paths, disk'[x] # "none" PROVE (Belongs(c, x))'
    <3>1. disk[x] # "none" /\ ~(cmd[c].aside /\ x = Held(c))
      BY <1>5, <2>0, <2>1
    <3>2. Belongs(c, x)
      BY <1>6, <2>0, <2>1, <3>1 DEF Peaceful
    <3> QED
      BY <1>1, <1>3, <1>4, <3>1, <3>2 DEF Belongs, Stays
  <2> QED
    BY <1>3, <1>4, <2>0, <2>1 DEF Peaceful, Building
<1>9. \A d \in Dirs, n \in 1..CommandLimit : n > commands => disk'[<<d, n>>] = disk[<<d, n>>]
  BY <1>2, <1>5
<1> QED
  BY <1>1, <1>3, <1>4, <1>5, <1>6, <1>7, <1>8, <1>9, TidyFrom DEF TidyOf, SameHand

LEMMA SweepTidy ==
  ASSUME TypeOK, TypeOK', NEW c \in Commands, Commands = {c}, CommandInv(c), TidyInv, Sweep(c)
  PROVE  TidyInv'
<1>1. cmd[c].pc = "sweep" /\ UNCHANGED <<lock, backup, disk, commands, before>>
  BY DEF Sweep, Files, History
<1>2. /\ trouble \in Nat /\ Undo(c) /\ Replaces(c) /\ Peaceful(c)
      /\ \A l \in Layers, p \in Plugins : ByHand(lock[l][p])
  BY TidyGives
<1>3. CASE cmd[c].previous.owned /\ Goto(c, "delete") /\ UNCHANGED trouble
  <2>1. /\ cmd'[c].pc = "delete" /\ SameHand(c) /\ cmd'[c].aside = cmd[c].aside
        /\ cmd'[c].previous = cmd[c].previous /\ (Previous(c))' = Previous(c)
    BY <1>3, GotoFields DEF TypeOK
  <2>2. (Undo(c))' /\ (Replaces(c))'
    BY <1>1, <1>2, <2>1 DEF Undo, Stuck, Replaces, SameHand, Fetches, Building
  <2>3. (Referenced)' = Referenced
    BY <1>1 DEF Referenced, NamedBy
  <2>4. (Peaceful(c))'
    BY <1>1, <1>2, <1>3, <2>1, <2>3 DEF Peaceful, Belongs, Stays, Building
  <2> QED
    BY <1>1, <1>2, <1>3, <2>1, <2>2, <2>4, TidyFrom DEF TidyOf, SameHand
<1>4. CASE ~(cmd[c].previous.owned /\ ~StillNamed(c)) /\ Ends(c, "done") /\ UNCHANGED trouble
  <2>1. ASSUME trouble = 0, NEW x \in Paths, disk[x] # "none" PROVE x[2] = Here /\ Stays(x[1])
    <3>1. Belongs(c, x)
      BY <1>2, <2>1 DEF Peaceful
    <3>2. CASE x = At(Previous(c))
      <4>1. x[2] = Here /\ x[1] = Previous(c) /\ x[1] \in Dirs
        BY <2>1, <3>2 DEF At, Paths
      <4>2. cmd[c].previous.release \in Releases /\ Previous(c)[2] = cmd[c].previous.release
        BY <4>1 DEF Dirs, Previous
      <4>3. cmd[c].previous.owned \/ cmd[c].previous.release = 1
        BY <1>2, <4>2, ProvisioningAssumption DEF Replaces, ByHand
      <4> QED
        BY <1>4, <4>1, <4>2, <4>3 DEF Stays, StillNamed
    <3> QED
      BY <1>1, <3>1, <3>2 DEF Belongs, Building
  <2> QED
    BY <1>1, <1>4, <2>1, TidyEnd DEF Kinds
<1>5. CASE Fault /\ Ends(c, Unswept(c))
  BY <1>1, <1>2, <1>5, TidyEnd DEF Kinds, Fault, Unswept
<1> QED
  BY <1>3, <1>4, <1>5 DEF Sweep

LEMMA DeleteTidy ==
  ASSUME TypeOK, TypeOK', NEW c \in Commands, Commands = {c}, CommandInv(c), TidyInv, Delete(c)
  PROVE  TidyInv'
<1>1. /\ cmd[c].pc = "delete" /\ UNCHANGED <<lock, backup, commands, before>>
      /\ \E how \in {"done", "unregistered"} : Ends(c, how)
  BY DEF Delete, Unswept
<1>2. trouble \in Nat /\ Peaceful(c)
  BY TidyGives
<1>3. \A x \in Paths : disk'[x] \in {disk[x], IF x = At(Previous(c)) THEN disk'[x] ELSE disk[x]}
  BY DEF Delete, Removed, NotRemoved, Goes, Sticks, TypeOK
<1>4. \A d \in Dirs, n \in 1..CommandLimit : n > commands => disk'[<<d, n>>] = disk[<<d, n>>]
  <2>1. \A d \in Dirs, n \in 1..CommandLimit : <<d, n>> \in Paths /\ <<d, n>> # At(Previous(c))
    BY PathFacts DEF At, Here
  <2> QED
    BY <1>3, <2>1
<1>5. ASSUME UNCHANGED trouble, trouble = 0, NEW x \in Paths, disk'[x] # "none"
      PROVE  x[2] = Here /\ Stays(x[1])
  <2>1. x # At(Previous(c))
    BY <1>5 DEF Delete, Removed, NotRemoved, Goes, Sticks, Fault, TypeOK
  <2>2. Belongs(c, x)
    BY <1>2, <1>3, <1>5, <2>1 DEF Peaceful
  <2> QED
    BY <1>1, <2>1, <2>2 DEF Belongs, Building
<1>6. trouble' \in {trouble, trouble + 1}
  BY DEF Delete, Removed, NotRemoved, Goes, Sticks, Fault
<1>7. trouble' = 0 => \A x \in Paths : disk'[x] # "none" => x[2] = Here /\ Stays(x[1])
  BY <1>2, <1>5, <1>6
<1> QED
  BY <1>1, <1>4, <1>6, <1>7, TidyEnd DEF Kinds

LEMMA PruneOneTidy ==
  ASSUME TypeOK, TypeOK', NEW c \in Commands, Commands = {c}, CommandInv(c), TidyInv, PruneOne(c)
  PROVE  TidyInv'
<1>1. cmd[c].pc = "prune" /\ cmd[c].kind \in {"prune", "unpruned"} /\ ~cmd[c].aside /\ UNCHANGED <<lock, backup, commands, before>>
  BY DEF CommandInv, InHand, PruneOne
<1>2. /\ trouble \in Nat /\ Undo(c) /\ Replaces(c) /\ Peaceful(c)
      /\ \A l \in Layers, p \in Plugins : ByHand(lock[l][p])
  BY TidyGives
<1>3. trouble = 0 => \A x \in Paths : disk[x] # "none" => x[2] = Here /\ Stays(x[1])
  BY <1>1, <1>2 DEF Peaceful, Belongs, Building
<1>4. CASE /\ Ends(c, IF cmd[c].kind = "prune" THEN "done" ELSE cmd[c].kind)
           /\ UNCHANGED <<disk, trouble>>
  BY <1>1, <1>3, <1>4, TidyEnd DEF Kinds
<1>5. ASSUME NEW x \in cmd[c].stale, NEW kind \in {cmd[c].kind, "unpruned"},
             cmd' = [cmd EXCEPT ![c].stale = @ \ {x}, ![c].kind = kind],
             Removed(x) \/ NotRemoved(x)
      PROVE  TidyInv'
  <2>0. x \in Paths
    BY DEF TypeOK, Cmds
  <2>1. cmd'[c] = [cmd[c] EXCEPT !.stale = cmd[c].stale \ {x}, !.kind = kind]
    BY <1>5 DEF TypeOK
  <2>2. /\ cmd'[c].pc = "prune" /\ cmd'[c].pid = cmd[c].pid /\ cmd'[c].kind \in {"prune", "unpruned"}
        /\ ~cmd'[c].aside /\ cmd'[c].previous = cmd[c].previous
    BY <1>1, <2>1 DEF TypeOK, Cmds
  <2>3. \A y \in Paths : disk[y] = "none" => disk'[y] = "none"
    BY <1>5 DEF TypeOK, Removed, NotRemoved, Goes, Sticks
  <2>4. (Undo(c))' /\ (Replaces(c))'
    BY <1>1, <1>2, <2>2 DEF Undo, Stuck, Replaces, Building
  <2>5. (Referenced)' = Referenced
    BY <1>1 DEF Referenced, NamedBy
  <2>6. trouble' = 0 => trouble = 0
    BY <1>2, <1>5 DEF Removed, NotRemoved, Goes, Sticks, Fault
  <2>7. (Peaceful(c))'
    BY <1>3, <2>2, <2>3, <2>5, <2>6 DEF Peaceful, Belongs, Stays, Building
  <2>8. \A d \in Dirs, n \in 1..CommandLimit : disk[<<d, n>>] = "none" => disk'[<<d, n>>] = "none"
    BY <2>3, PathFacts
  <2> QED
    BY <1>1, <1>2, <1>5, <2>2, <2>4, <2>7, <2>8, TidyFrom
       DEF TidyOf, Removed, NotRemoved, Goes, Sticks, Fault
<1>6. ASSUME NEW x \in cmd[c].stale, cmd' = [cmd EXCEPT ![c].stale = @ \ {x}], Removed(x)
      PROVE  TidyInv'
  <2>1. cmd' = [cmd EXCEPT ![c].stale = @ \ {x}, ![c].kind = cmd[c].kind]
    BY <1>6 DEF TypeOK, Cmds
  <2> QED
    BY <1>5, <1>6, <2>1
<1> QED
  BY <1>4, <1>5, <1>6 DEF PruneOne

LEMMA CrashTidy ==
  ASSUME TypeOK, TypeOK', NEW c \in Commands, Commands = {c}, TidyInv, Crash(c)
  PROVE  TidyInv'
BY TidyGives, TidyEnd DEF Crash, Kinds, Files, Fault

\* Every step of a command alone keeps the invariant.
LEMMA TidyStep ==
  ASSUME NEW c \in Commands, Commands = {c}, AloneInv, AloneInv', TidyInv, [Next]_vars
  PROVE  TidyInv'
<1>1. TypeOK /\ TypeOK' /\ CommandInv(c) /\ (CommandInv(c))'
  BY DEF AloneInv
<1>2. CASE UNCHANGED vars
  <2>1. UNCHANGED <<lock, backup, disk, cmd, commands, trouble, before>>
    BY <1>2 DEF vars
  <2>2. TidyTypes' /\ FreshAsides'
    BY <2>1 DEF TidyInv, TidyTypes, FreshAsides, Held, Aside, Target
  <2>3. (Undo(c))' /\ (Replaces(c))'
    BY <2>1 DEF TidyInv, TidyOf, Undo, Stuck, Same, AsideIsOld, Replaces, Fetches, Held, Aside, Target
  <2>4. (Peaceful(c))'
    BY <2>1 DEF TidyInv, TidyOf, Peaceful, Belongs, Stays, Fetches, Held, Aside, Target, Previous,
       Referenced, NamedBy
  <2> QED
    BY <2>2, <2>3, <2>4 DEF TidyInv, TidyOf
<1>3. ASSUME NEW l \in Layers, NEW p \in Plugins, Remove(c, l, p) PROVE TidyInv'
  <2> DEFINE fields == [Ended("remove") EXCEPT !.pc = "doc", !.layer = l, !.plugin = p,
                                               !.previous = lock[l][p]]
  <2>1. Ended("remove") \in Cmds /\ lock[l][p] \in Entries /\ "doc" \in Pcs
    BY <1>1, FreshCommand DEF TypeOK, Kinds, Pcs, Registering
  <2>2. fields \in Cmds
    BY <2>1, FieldTyped
  <2>3. /\ fields.pc = "doc" /\ ~fields.aside /\ fields.layer = l /\ fields.plugin = p
        /\ fields.kind = "remove" /\ fields.previous = lock[l][p]
    BY DEF Ended
  <2>4. Begins(c, fields)
    BY <1>3 DEF Remove
  <2> HIDE DEF fields
  <2> QED
    BY <1>1, <2>2, <2>3, <2>4, TidyBegin
<1>4. ASSUME NEW l \in Layers, NEW p \in Plugins, NEW r \in Releases, NEW kind \in {"install", "update"},
             Begins(c, [Ended(kind) EXCEPT !.pc = "move", !.layer = l, !.plugin = p, !.release = r])
      PROVE  TidyInv'
  <2> DEFINE fields == [Ended(kind) EXCEPT !.pc = "move", !.layer = l, !.plugin = p, !.release = r]
  <2>1. Ended(kind) \in Cmds /\ "move" \in Pcs
    BY FreshCommand DEF Kinds, Pcs, Fetching
  <2>2. fields \in Cmds
    BY <2>1, FieldTyped
  <2>3. /\ fields.pc = "move" /\ ~fields.aside /\ fields.plugin = p
        /\ fields.kind = kind /\ fields.release = r /\ fields.previous = Missing
    BY DEF Ended
  <2>4. Begins(c, fields)
    BY <1>4
  <2> HIDE DEF fields
  <2> QED
    BY <1>1, <2>2, <2>3, <2>4, TidyBegin
<1>5. CASE Prune(c)
  <2> DEFINE stale == {x \in Paths : disk[x] \in {"good", "bad"} /\ (x[2] = Here => x[1] \notin Referenced)}
             fields == [Ended("prune") EXCEPT !.pc = "prune", !.stale = stale]
  <2>1. Ended("prune") \in Cmds /\ "prune" \in Pcs /\ stale \in SUBSET Paths
    BY FreshCommand DEF Kinds, Pcs
  <2>2. Begins(c, fields)
    BY <1>5 DEF Prune
  <2> HIDE DEF stale
  <2>3. fields \in Cmds
    BY <2>1, FieldTyped
  <2>4. fields.pc = "prune" /\ ~fields.aside /\ fields.kind = "prune" /\ fields.previous = Missing
    BY DEF Ended
  <2> HIDE DEF fields
  <2> QED
    BY <1>1, <2>2, <2>3, <2>4, TidyBegin
<1> QED
  BY <1>1, <1>2, <1>3, <1>4, <1>5, MoveAsideTidy, ExtractTidy, LoadTidy, ClearTidy, RestoreTidy,
     ReadPreviousTidy, ReadDocTidy, WriteDocTidy, CommitTidy, SweepTidy, DeleteTidy, PruneOneTidy,
     CrashTidy DEF Next, Install, Update

LEMMA TidyStart == ASSUME NEW c \in Commands, Commands = {c}, Init PROVE TidyInv
<1>1. TypeOK
  BY AloneStart DEF AloneInv
<1>2. cmd[c] = Ended("none")
  BY DEF Init
<1>3. \A l \in Layers, p \in Plugins : ByHand(lock[l][p])
  BY DEF Init, ByHand, Missing, Entry
<1>4. TidyTypes
  <2>1. [lock |-> lock, disk |-> disk] \in
          [lock : [Layers -> [Plugins -> Entries]], disk : [Paths -> {"none", "good", "bad", "empty"}]]
    BY <1>1 DEF TypeOK
  <2>2. before = [x \in Commands |-> [lock |-> lock, disk |-> disk]]
    BY DEF Init
  <2> QED
    BY <1>3, <2>1, <2>2 DEF Init, TidyTypes
<1>5. FreshAsides
  <2>1. \A d \in Dirs, n \in 1..CommandLimit : <<d, n>> \in Paths /\ n # Here
    BY PathFacts DEF Here
  <2> QED
    BY <1>2, <2>1 DEF FreshAsides, Init, Ended
<1>6. Undo(c) /\ Replaces(c)
  BY <1>2 DEF Undo, Stuck, Replaces, Ended, ByHand, Missing, Building
<1>7. Peaceful(c)
  <2>1. ASSUME NEW x \in Paths, disk[x] # "none" PROVE x[2] = Here /\ Stays(x[1])
    BY <2>1 DEF Init, Stays
  <2> QED
    BY <1>2, <2>1 DEF Peaceful, Belongs, Ended, Building
<1> QED
  BY <1>4, <1>5, <1>6, <1>7 DEF TidyInv, TidyOf

\* A remove that has written the lock file has dropped its own entry there, and
\* no directory has changed but, when it could not end, the one it dropped.
Unregisters(c) ==
  /\ cmd[c].kind = "remove" /\ cmd[c].pc \in {"sweep", "delete"} =>
       /\ cmd[c].layer \in Layers /\ cmd[c].plugin \in Plugins
       /\ cmd[c].previous = before[c].lock[cmd[c].layer][cmd[c].plugin]
       /\ lock = [before[c].lock EXCEPT ![cmd[c].layer][cmd[c].plugin] = Missing]
       /\ disk = before[c].disk
       /\ cmd[c].pc = "delete" => cmd[c].previous.owned
  /\ OnlyUnregistered

LEMMA UnregistersStep ==
  ASSUME NEW c \in Commands, Commands = {c}, AloneInv, AloneInv', TidyInv, Unregisters(c), [Next]_vars
  PROVE  (Unregisters(c))'
<1>1. TypeOK /\ InHand(c) /\ StillSo(c) /\ Undo(c) /\ Replaces(c)
  BY TidyGives DEF AloneInv, CommandInv
<1>2. CASE UNCHANGED vars
  BY <1>2 DEF vars, Unregisters, OnlyUnregistered, Referenced, NamedBy
<1>3. CASE /\ cmd'[c].kind # "unregistered"
           /\ cmd'[c].kind = "remove" => cmd'[c].pc \notin {"sweep", "delete"}
  BY <1>3 DEF Unregisters, OnlyUnregistered
<1>4. ASSUME NEW fields \in Cmds, Begins(c, fields), fields.kind # "unregistered",
             fields.pc \notin {"sweep", "delete"}
      PROVE  (Unregisters(c))'
  <2>1. cmd'[c] = [fields EXCEPT !.pid = commands + 1]
    BY <1>1, <1>4, BeginsTyped
  <2> QED
    BY <1>3, <1>4, <2>1 DEF Cmds
<1>5. CASE \/ \E l \in Layers, p \in Plugins :
                Remove(c, l, p) \/ \E r \in Releases : Install(c, l, p, r) \/ Update(c, l, p, r)
           \/ Prune(c)
  <2>1. /\ \A how \in {"remove", "install", "update", "prune"} : Ended(how) \in Cmds
        /\ \A l \in Layers, p \in Plugins : lock[l][p] \in Entries
    BY <1>1, FreshCommand DEF TypeOK, Kinds
  <2>2. ASSUME NEW l \in Layers, NEW p \in Plugins, Remove(c, l, p) PROVE (Unregisters(c))'
    <3> DEFINE fields == [Ended("remove") EXCEPT !.pc = "doc", !.layer = l, !.plugin = p,
                                                 !.previous = lock[l][p]]
    <3>1. fields \in Cmds /\ fields.pc = "doc" /\ fields.kind = "remove"
      BY <2>1, FieldTyped DEF Ended, Pcs, Registering
    <3>2. Begins(c, fields)
      BY <2>2 DEF Remove
    <3> HIDE DEF fields
    <3> QED
      BY <1>4, <3>1, <3>2
  <2>3. ASSUME NEW l \in Layers, NEW p \in Plugins, NEW r \in Releases, NEW kind \in {"install", "update"},
               Begins(c, [Ended(kind) EXCEPT !.pc = "move", !.layer = l, !.plugin = p, !.release = r])
        PROVE  (Unregisters(c))'
    <3> DEFINE fields == [Ended(kind) EXCEPT !.pc = "move", !.layer = l, !.plugin = p, !.release = r]
    <3>1. fields \in Cmds /\ fields.pc = "move" /\ fields.kind = kind
      BY <2>1, FieldTyped DEF Ended, Pcs, Fetching
    <3>2. Begins(c, fields)
      BY <2>3
    <3> HIDE DEF fields
    <3> QED
      BY <1>4, <3>1, <3>2
  <2>4. CASE Prune(c)
    <3> DEFINE stale == {x \in Paths : disk[x] \in {"good", "bad"} /\ (x[2] = Here => x[1] \notin Referenced)}
               fields == [Ended("prune") EXCEPT !.pc = "prune", !.stale = stale]
    <3>1. stale \in SUBSET Paths /\ Begins(c, fields)
      BY <2>4 DEF Prune
    <3> HIDE DEF stale
    <3>2. fields \in Cmds /\ fields.pc = "prune" /\ fields.kind = "prune"
      BY <2>1, <3>1, FieldTyped DEF Ended, Pcs
    <3> HIDE DEF fields
    <3> QED
      BY <1>4, <3>1, <3>2
  <2> QED
    BY <1>5, <2>2, <2>3, <2>4 DEF Install, Update
\* A step of a fetch, or of prune, or one that ends a command otherwise.
<1>6. ASSUME NEW pc, Goto(c, pc), Fetches(c) PROVE (Unregisters(c))'
  BY <1>1, <1>3, <1>6, GotoFields DEF TypeOK, Fetches, SameHand
<1>7. ASSUME NEW how, Ends(c, how), how \notin {"remove", "unregistered"} PROVE (Unregisters(c))'
  BY <1>1, <1>3, <1>7 DEF Ends, Ended, TypeOK
<1>8. CASE MoveAside(c)
  <2>1. Fetches(c)
    BY <1>1, <1>8 DEF InHand, MoveAside, Fetching
  <2>2. CASE cmd' = [cmd EXCEPT ![c].pc = "extract", ![c].aside = disk[At(Target(c))] # "none"]
    BY <1>1, <1>3, <2>1, <2>2 DEF TypeOK, Cmds, Fetches
  <2> QED
    BY <1>7, <1>8, <2>2 DEF MoveAside
<1>9. CASE Extract(c) \/ Load(c) \/ Clear(c) \/ Commit(c)
  <2>1. Fetches(c)
    BY <1>1, <1>9 DEF InHand, Extract, Load, Clear, Commit, Fetching
  <2> QED
    BY <1>6, <1>7, <1>9, <2>1 DEF Extract, Load, Clear, Commit
<1>10. CASE Restore(c) \/ Crash(c)
  BY <1>7, <1>10 DEF Restore, Crash
<1>11. CASE ReadPrevious(c) \/ ReadDoc(c)
  <2>1. cmd'[c].kind = cmd[c].kind /\ cmd'[c].pc \in {"doc", "write"} /\ cmd[c].pc # "idle"
    BY <1>1, <1>11 DEF ReadPrevious, ReadDoc, TypeOK, Cmds
  <2>2. cmd[c].kind # "unregistered"
    BY <1>1, <1>11 DEF InHand, ReadPrevious, ReadDoc, Fetching, Registering, Fetches
  <2> QED
    BY <1>3, <2>1, <2>2
<1>12. CASE WriteDoc(c)
  <2>1. /\ cmd[c].layer \in Layers /\ cmd[c].plugin \in Plugins /\ cmd[c].pc = "write"
        /\ cmd[c].doc = lock[cmd[c].layer]
        /\ cmd[c].previous = lock[cmd[c].layer][cmd[c].plugin]
        /\ Fetches(c) \/ cmd[c].kind = "remove"
    BY <1>1, <1>12 DEF InHand, StillSo, Replaces, WriteDoc, Registering
  <2>2. CASE Fetches(c) \/ Ends(c, "failed")
    BY <1>6, <1>7, <1>12, <2>2 DEF WriteDoc
  <2>3. CASE /\ cmd[c].kind = "remove" /\ Goto(c, "sweep")
             /\ lock' = [lock EXCEPT ![cmd[c].layer] = Changed(c)]
    <3>1. cmd'[c].pc = "sweep" /\ SameHand(c) /\ cmd'[c].previous = cmd[c].previous
      BY <1>1, <2>3, GotoFields DEF TypeOK
    <3>2. Same(c) /\ UNCHANGED <<before, disk>>
      BY <1>1, <1>12, <2>1, <2>3 DEF Undo, Fetches, WriteDoc, History
    <3>3. lock' = [lock EXCEPT ![cmd[c].layer][cmd[c].plugin] = Missing]
      BY <2>1, <2>3 DEF Changed
    <3>4. before'[c].lock = lock /\ before'[c].disk = disk'
      BY <3>2 DEF Same
    <3>5. cmd'[c].layer = cmd[c].layer /\ cmd'[c].plugin = cmd[c].plugin /\ cmd'[c].kind = "remove"
      BY <2>3, <3>1 DEF SameHand
    <3> QED
      BY <2>1, <3>1, <3>3, <3>4, <3>5 DEF Unregisters, OnlyUnregistered
  <2> QED
    BY <1>12, <2>1, <2>2, <2>3 DEF WriteDoc, Fetches
<1>13. CASE Sweep(c)
  <2>1. Fetches(c) \/ cmd[c].kind = "remove"
    BY <1>1, <1>13 DEF InHand, Sweep, Registering
  <2>2. CASE Fetches(c)
    BY <1>6, <1>7, <1>13, <2>2 DEF Sweep, Unswept, Fetches
  <2>3. CASE cmd[c].kind = "remove"
    <3>1. /\ cmd[c].layer \in Layers /\ cmd[c].plugin \in Plugins
          /\ cmd[c].previous = before[c].lock[cmd[c].layer][cmd[c].plugin]
          /\ lock = [before[c].lock EXCEPT ![cmd[c].layer][cmd[c].plugin] = Missing]
          /\ disk = before[c].disk
          /\ UNCHANGED <<lock, disk, before, backup>>
      BY <1>13, <2>3 DEF Unregisters, Sweep, Files, History
    <3>2. CASE cmd[c].previous.owned /\ Goto(c, "delete")
      <4>1. cmd'[c].pc = "delete" /\ SameHand(c) /\ cmd'[c].previous = cmd[c].previous
        BY <1>1, <3>2, GotoFields DEF TypeOK
      <4> QED
        BY <2>3, <3>1, <3>2, <4>1 DEF Unregisters, OnlyUnregistered, SameHand
    <3>3. CASE cmd[c].previous.owned /\ Ends(c, "unregistered")
      <4>1. cmd'[c].pc = "idle"
        BY <1>1, <3>3, EndsInv DEF TypeOK, Kinds
      <4>2. OnlyUnregistered'
        BY <3>1, <3>3 DEF OnlyUnregistered
      <4> QED
        BY <4>1, <4>2 DEF Unregisters
    <3> QED
      BY <1>7, <1>13, <2>3, <3>2, <3>3 DEF Sweep, Unswept
  <2> QED
    BY <2>1, <2>2, <2>3
<1>14. CASE Delete(c)
  <2>1. Fetches(c) \/ cmd[c].kind = "remove"
    BY <1>1, <1>14 DEF InHand, Delete, Registering
  <2>2. CASE Fetches(c) \/ Ends(c, "done")
    BY <1>7, <1>14, <2>2 DEF Delete, Unswept, Fetches
  <2>3. CASE cmd[c].kind = "remove" /\ Ends(c, "unregistered")
    <3>1. /\ cmd[c].layer \in Layers /\ cmd[c].plugin \in Plugins
          /\ cmd[c].previous = before[c].lock[cmd[c].layer][cmd[c].plugin]
          /\ lock = [before[c].lock EXCEPT ![cmd[c].layer][cmd[c].plugin] = Missing]
          /\ disk = before[c].disk /\ cmd[c].previous.owned
          /\ UNCHANGED <<lock, before, backup>> /\ Previous(c) \notin Referenced
      BY <1>1, <1>14, <2>3 DEF Unregisters, Delete, StillSo
    <3>2. \A x \in Paths : disk'[x] # disk[x] => x = At(Previous(c))
      BY <1>1, <1>14 DEF Delete, Removed, NotRemoved, Goes, Sticks, TypeOK
    <3>3. (Referenced)' = Referenced
      BY <1>14 DEF Delete, Referenced, NamedBy
    <3>4. At(Previous(c)) = At(<<cmd[c].plugin, before[c].lock[cmd[c].layer][cmd[c].plugin].release>>)
      BY <3>1 DEF Previous
    <3>5. At(Previous(c))[1] = Previous(c)
      BY DEF At
    <3>6. \A x \in Paths : disk'[x] # before'[c].disk[x] =>
             x = At(<<cmd[c].plugin, before'[c].lock[cmd[c].layer][cmd[c].plugin].release>>)
             /\ x[1] \notin (Referenced)'
      BY <3>1, <3>2, <3>3, <3>4, <3>5
    <3>7. OnlyUnregistered'
      <4> DEFINE l == cmd[c].layer
                 p == cmd[c].plugin
      <4>1. l \in Layers /\ p \in Plugins /\ before'[c].lock[l][p].owned
        BY <3>1
      <4>2. lock' = [before'[c].lock EXCEPT ![l][p] = Missing]
        BY <3>1
      <4> HIDE DEF l, p
      <4> QED
        BY <3>6, <4>1, <4>2 DEF OnlyUnregistered, l, p
    <3>8. cmd'[c].pc = "idle"
      BY <1>1, <2>3, EndsInv DEF TypeOK, Kinds
    <3> QED
      BY <3>7, <3>8 DEF Unregisters
  <2> QED
    BY <1>14, <2>1, <2>2, <2>3 DEF Delete, Unswept, Fetches
<1>15. CASE PruneOne(c)
  <2>1. cmd[c].pc = "prune" /\ cmd[c].kind \in {"prune", "unpruned"}
    BY <1>1, <1>15 DEF InHand, PruneOne
  <2>2. CASE \E how \in {"done", "unpruned"} : Ends(c, how)
    BY <1>7, <2>2
  <2>3. ASSUME NEW x, \/ cmd' = [cmd EXCEPT ![c].stale = @ \ {x}]
                      \/ cmd' = [cmd EXCEPT ![c].stale = @ \ {x}, ![c].kind = "unpruned"]
        PROVE  (Unregisters(c))'
    <3>1. cmd'[c].kind \in {"prune", "unpruned"}
      BY <1>1, <2>1, <2>3 DEF TypeOK, Cmds
    <3> QED
      BY <1>3, <3>1
  <2> QED
    BY <1>15, <2>1, <2>2, <2>3 DEF PruneOne
<1> QED
  BY <1>2, <1>5, <1>8, <1>9, <1>10, <1>11, <1>12, <1>13, <1>14, <1>15 DEF Next

\* A command that runs alone is gone without a trace when it fails, unless the
\* copies it had moved about do not go where they should; a remove that fails
\* only when it deletes has dropped its own entry, and touched no directory that
\* anything still names; and commands that meet no trouble leave only libraries
\* that are named, or were there by hand, however many ran
\* (manage.rs install_into, restore, rollback, remove_one, prune).
THEOREM AloneIsTidy ==
  ASSUME NEW c, Commands = {c}
  PROVE  Spec => []CommandsTidy
<1>1. Init => AloneInv /\ TidyInv /\ Unregisters(c)
  <2> SUFFICES ASSUME Init PROVE AloneInv /\ TidyInv /\ Unregisters(c)
    OBVIOUS
  <2>1. \A x \in Commands : cmd[x] = Ended("none")
    BY DEF Init
  <2> QED
    BY <2>1, AloneStart, TidyStart DEF Unregisters, OnlyUnregistered, Ended
<1>2. AloneInv /\ TidyInv /\ Unregisters(c) /\ [Next]_vars => AloneInv' /\ TidyInv' /\ (Unregisters(c))'
  BY AloneStep, TidyStep, UnregistersStep
<1>3. TidyInv /\ Unregisters(c) => CommandsTidy
  <2> SUFFICES ASSUME TidyInv, Unregisters(c) PROVE CommandsTidy
    OBVIOUS
  <2>1. Undo(c) /\ Peaceful(c)
    BY TidyGives
  <2>2. FailureUndone
    BY <2>1 DEF FailureUndone, Undo, Same
  <2>3. NothingLeft
    BY <2>1 DEF NothingLeft, Quiet, Peaceful, Belongs, Stays, Building
  <2> QED
    BY <2>2, <2>3 DEF CommandsTidy, Unregisters
<1> QED
  BY <1>1, <1>2, <1>3, PTL DEF Spec
==============================================================================
