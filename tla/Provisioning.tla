----------------------------- MODULE Provisioning -----------------------------
(***************************************************************************)
(* bddkit plugin install, update, remove and prune (plugin::manage,        *)
(* ::install, ::lock), file operation by file operation.  Each command is  *)
(* a process of its own; nothing but the files is shared, and a command    *)
(* may fail at any of its steps, or die there.  The layers are those that  *)
(* share one data directory (user, user.local).                            *)
(***************************************************************************)
EXTENDS Naturals, FiniteSets

CONSTANTS Layers, Plugins, Releases,
          Commands,       \* processes
          CommandLimit,   \* bound: commands run
          TroubleLimit    \* bound: failed file operations and crashes

ASSUME ProvisioningAssumption ==
  /\ Releases \subseteq Nat \ {0} /\ 1 \in Releases /\ CommandLimit \in Nat /\ TroubleLimit \in Nat

VARIABLES lock,      \* lock[l][p]: the entry of p in the file of l
          backup,    \* libraries named by the .before-upgrade copies
          disk,      \* what stands at each path under <data>/plugins: a library,
                      \* one this host does not load, an empty directory, nothing
          cmd,       \* per process: the command it runs
          commands, trouble,
          before,    \* history, per process: the store its command found
          wounded    \* history: named libraries a crash, or a copy that would
                     \* not go back, has taken away

vars == <<lock, backup, disk, cmd, commands, trouble, before, wounded>>

Dirs == Plugins \X Releases
\* <repo>/<version>, or beside it <version>.replaced-<pid>
Here == 0
Paths == Dirs \X ({Here} \cup 1..CommandLimit)
At(d) == <<d, Here>>
Aside(d, c) == <<d, cmd[c].pid>>

Missing == [release |-> 0, owned |-> FALSE]
\* owned: written by install, with a `source`; otherwise by hand.
Entry(release, owned) == [release |-> release, owned |-> owned]
NoPlugin == CHOOSE p \in Plugins : TRUE
Ended(how) ==
  [pc |-> "idle", pid |-> 0, kind |-> how, layer |-> 1, plugin |-> NoPlugin, release |-> 0,
   aside |-> FALSE, previous |-> Missing, doc |-> [p \in Plugins |-> Missing], stale |-> {}]

Init ==
  /\ lock \in [Layers -> [Plugins -> {Missing} \cup {Entry(1, o) : o \in BOOLEAN}]]
  /\ backup \in SUBSET (Plugins \X {1})
  /\ disk = [x \in Paths |-> IF x[1][2] = 1 /\ x[2] = Here THEN "good" ELSE "none"]
  /\ cmd = [c \in Commands |-> Ended("none")]
  /\ commands = 0 /\ trouble = 0
  /\ before = [c \in Commands |-> [lock |-> lock, disk |-> disk]]
  /\ wounded = {}

Target(c) == <<cmd[c].plugin, cmd[c].release>>
Previous(c) == <<cmd[c].plugin, cmd[c].previous.release>>

NamedBy(file) == {d \in Dirs : file[d[1]].release = d[2]}
\* referenced_paths: of every lock file and every backup.
Referenced == (UNION {NamedBy(lock[l]) : l \in Layers}) \cup backup

Goto(c, pc) == cmd' = [cmd EXCEPT ![c].pc = pc]
Ends(c, how) == cmd' = [cmd EXCEPT ![c] = Ended(how)]
\* A file operation fails: the bound on trouble counts it.
Fault == trouble < TroubleLimit /\ trouble' = trouble + 1
Files == <<lock, backup, disk>>
\* remove_dir_all: the directory goes; one that will not may have lost its
\* library first; one that is not there is an error too.
Goes(x) == disk' = [disk EXCEPT ![x] = "none"] /\ UNCHANGED trouble
Sticks(x) == Fault /\ disk[x] # "none" /\ disk' \in {disk, [disk EXCEPT ![x] = "empty"]}
Removed(x) == disk[x] # "none" /\ Goes(x)
NotRemoved(x) == Sticks(x) \/ (disk[x] = "none" /\ UNCHANGED <<disk, trouble>>)
History == <<commands, before, wounded>>

------------------------------------------------------------------------------
\* Beginning a command

Begins(c, fields) ==
  /\ cmd[c].pc = "idle" /\ commands < CommandLimit /\ commands' = commands + 1
  /\ cmd' = [cmd EXCEPT ![c] = [fields EXCEPT !.pid = commands']]
  /\ before' = [before EXCEPT ![c] = [lock |-> lock, disk |-> disk]]
  /\ UNCHANGED <<lock, backup, disk, trouble, wounded>>

\* install NAME, and what it does for each plugin a suite needs.
Install(c, l, p, r) ==
  Begins(c, [Ended("install") EXCEPT !.pc = "move", !.layer = l, !.plugin = p, !.release = r])

\* update: the entries bddkit installed, at another release than the newest.
Update(c, l, p, r) ==
  /\ lock[l][p].owned /\ lock[l][p].release # r
  /\ Begins(c, [Ended("update") EXCEPT !.pc = "move", !.layer = l, !.plugin = p, !.release = r])

\* remove: from the only file that declares it, or the one --layer names.
Remove(c, l, p) ==
  /\ lock[l][p] # Missing
  /\ Begins(c, [Ended("remove") EXCEPT !.pc = "doc", !.layer = l, !.plugin = p,
                                       !.previous = lock[l][p]])

\* prune lists before it asks: a version directory, or a copy set aside, that
\* nothing names.
Prune(c) ==
  Begins(c, [Ended("prune") EXCEPT !.pc = "prune",
    !.stale = {x \in Paths : disk[x] \in {"good", "bad"} /\ (x[2] = Here => x[1] \notin Referenced)}])

------------------------------------------------------------------------------
\* fetch_into, after a download whose checksum agrees

\* A copy of this very version is moved out of the way.
MoveAside(c) ==
  /\ cmd[c].pc = "move"
  /\ LET here == At(Target(c)) old == disk[here]
     IN  \/ /\ disk' = IF old = "none" THEN disk
                       ELSE [disk EXCEPT ![here] = "none", ![Aside(Target(c), c)] = old]
            /\ cmd' = [cmd EXCEPT ![c].pc = "extract", ![c].aside = old # "none"]
            /\ UNCHANGED trouble
         \/ old # "none" /\ Fault /\ Ends(c, "failed") /\ UNCHANGED disk
  /\ UNCHANGED <<lock, backup, History>>

\* The one library of the archive; it may not be one this host loads.
Extract(c) ==
  /\ cmd[c].pc = "extract"
  /\ \/ /\ \E content \in {"good", "bad"} : disk' = [disk EXCEPT ![At(Target(c))] = content]
        /\ Goto(c, "load") /\ UNCHANGED trouble
     \/ /\ Fault /\ Goto(c, "clear")
        /\ \E rest \in {"none", "empty", "bad"} : disk' = [disk EXCEPT ![At(Target(c))] = rest]
  /\ UNCHANGED <<lock, backup, History>>

Load(c) ==
  /\ cmd[c].pc = "load"
  /\ Goto(c, IF disk[At(Target(c))] = "good" THEN "previous" ELSE "clear")
  /\ UNCHANGED <<Files, trouble, History>>

\* A library at its place, or set aside by a command that still runs.
Safe(commandsNow) ==
  {d \in Dirs : \/ disk[At(d)] = "good"
                \/ \E c \in Commands : /\ commandsNow[c].pc # "idle" /\ commandsNow[c].aside
                                       /\ <<commandsNow[c].plugin, commandsNow[c].release>> = d
                                       /\ disk[Aside(d, c)] = "good"}

\* Slip: what was there before does not come back.
SlipRestore(c) ==
  /\ cmd[c].pc = "clear"
  /\ disk' = [disk EXCEPT ![At(Target(c))] = "none"]
  /\ Ends(c, "failed")
  /\ UNCHANGED <<lock, backup, trouble, History>>

\* restore: the new copy goes, or will not, which is not asked; then the old
\* one comes back, if there is one and it can.
Clear(c) ==
  /\ cmd[c].pc = "clear"
  /\ \/ /\ Goes(At(Target(c)))
        /\ IF cmd[c].aside THEN Goto(c, "restore") ELSE Ends(c, "failed")
     \/ /\ Sticks(At(Target(c)))
        /\ IF cmd[c].aside THEN Goto(c, "restore") ELSE Ends(c, "unrestored")
  /\ UNCHANGED <<lock, backup, History>>

\* A rename does not replace a directory, unless it is empty.
Restore(c) ==
  /\ cmd[c].pc = "restore"
  /\ LET d == Target(c)
     IN  \/ /\ disk[At(d)] \in {"none", "empty"}
            /\ disk' = [disk EXCEPT ![At(d)] = disk[Aside(d, c)], ![Aside(d, c)] = "none"]
            /\ Ends(c, "failed") /\ UNCHANGED <<trouble, wounded>>
         \/ /\ Fault \/ (disk[At(d)] # "none" /\ UNCHANGED trouble)
            /\ Ends(c, "unrestored")
            /\ wounded' = wounded \cup (Safe(cmd) \ Safe(cmd')) /\ UNCHANGED disk
  /\ UNCHANGED <<lock, backup, commands, before>>

------------------------------------------------------------------------------
\* register: the entry is written, and the one it replaces is remembered

ReadPrevious(c) ==
  /\ cmd[c].pc = "previous"
  /\ cmd' = [cmd EXCEPT ![c].pc = "doc", ![c].previous = lock[cmd[c].layer][cmd[c].plugin]]
  /\ UNCHANGED <<Files, trouble, History>>

\* upsert and remove read the whole file, and write it back changed.
ReadDoc(c) ==
  /\ cmd[c].pc = "doc"
  /\ cmd' = [cmd EXCEPT ![c].pc = "write", ![c].doc = lock[cmd[c].layer]]
  /\ UNCHANGED <<Files, trouble, History>>

Changed(c) ==
  [cmd[c].doc EXCEPT ![cmd[c].plugin] =
     IF cmd[c].kind = "remove" THEN Missing ELSE Entry(cmd[c].release, TRUE)]

WriteDoc(c) ==
  /\ cmd[c].pc = "write"
  /\ \/ /\ lock' = [lock EXCEPT ![cmd[c].layer] = Changed(c)]
        /\ Goto(c, IF cmd[c].kind = "remove" THEN "sweep" ELSE "commit")
        /\ UNCHANGED trouble
     \/ /\ Fault /\ UNCHANGED lock
        /\ IF cmd[c].kind = "remove" THEN Ends(c, "failed") ELSE Goto(c, "clear")
  /\ UNCHANGED <<backup, disk, History>>

\* The copy set aside is deleted; whether it went is not asked.
Commit(c) ==
  /\ cmd[c].pc = "commit"
  /\ IF cmd[c].aside
       THEN Goes(Aside(Target(c), c)) \/ Sticks(Aside(Target(c), c))
       ELSE UNCHANGED <<disk, trouble>>
  /\ Goto(c, "sweep")
  /\ UNCHANGED <<lock, backup, History>>

\* Slip: only the release itself decides, not who else names it.
SlipStillNamed(c) == cmd[c].kind # "remove" /\ cmd[c].previous.release = cmd[c].release

StillNamed(c) == Previous(c) \in Referenced

\* What a command comes to whose last deletion will not go: an install or an
\* update warns, a remove fails although the entry is gone.
Unswept(c) == IF cmd[c].kind = "remove" THEN "unregistered" ELSE "done"

\* remove_unreferenced_version: the replaced or removed release goes, if
\* bddkit installed it and nothing names it any more, as far as the lock
\* files can be read.
Sweep(c) ==
  /\ cmd[c].pc = "sweep"
  /\ \/ /\ IF cmd[c].previous.owned /\ ~StillNamed(c) THEN Goto(c, "delete") ELSE Ends(c, "done")
        /\ UNCHANGED trouble
     \/ cmd[c].previous.owned /\ Fault /\ Ends(c, Unswept(c))
  /\ UNCHANGED <<Files, History>>

Delete(c) ==
  /\ cmd[c].pc = "delete"
  /\ \/ Removed(At(Previous(c))) /\ Ends(c, "done")
     \/ NotRemoved(At(Previous(c))) /\ Ends(c, Unswept(c))
  /\ wounded' = wounded \ {Previous(c)}
  /\ UNCHANGED <<lock, backup, commands, before>>

\* After the answer, one directory after the other; one that will not go is
\* reported and does not keep the rest.
PruneOne(c) ==
  /\ cmd[c].pc = "prune"
  /\ \/ /\ cmd[c].stale = {} /\ UNCHANGED <<disk, trouble, wounded>>
        /\ Ends(c, IF cmd[c].kind = "prune" THEN "done" ELSE cmd[c].kind)
     \/ \E x \in cmd[c].stale :
          \/ /\ Removed(x)
             /\ cmd' = [cmd EXCEPT ![c].stale = @ \ {x}]
             /\ wounded' = IF x[2] = Here THEN wounded \ {x[1]} ELSE wounded
          \/ /\ NotRemoved(x) /\ UNCHANGED wounded
             /\ cmd' = [cmd EXCEPT ![c].stale = @ \ {x}, ![c].kind = "unpruned"]
  /\ UNCHANGED <<lock, backup, commands, before>>

\* The process dies where it stands; a library set aside stays aside.
Crash(c) ==
  /\ cmd[c].pc # "idle" /\ Fault
  /\ Ends(c, "crashed")
  /\ wounded' = wounded \cup (Safe(cmd) \ Safe(cmd'))
  /\ UNCHANGED <<Files, commands, before>>

Next ==
  \E c \in Commands :
    \/ \E l \in Layers, p \in Plugins :
         Remove(c, l, p) \/ \E r \in Releases : Install(c, l, p, r) \/ Update(c, l, p, r)
    \/ Prune(c) \/ MoveAside(c) \/ Extract(c) \/ Load(c) \/ Clear(c) \/ Restore(c)
    \/ ReadPrevious(c) \/ ReadDoc(c) \/ WriteDoc(c) \/ Commit(c)
    \/ Sweep(c) \/ Delete(c) \/ PruneOne(c) \/ Crash(c)

Spec == Init /\ [][Next]_vars

------------------------------------------------------------------------------
\* Properties

Quiet == \A c \in Commands : cmd[c].pc = "idle"

\* The commands keep the promise of Shelf, a library counting as there while
\* the command that set it aside can still put it back: nothing is registered
\* that does not load, nothing named is deleted, by install, update, remove or
\* prune.  What a crash in a reinstall takes away is told by `wounded`.
ImplementsShelf ==
  INSTANCE Shelf WITH entries <- [l \in Layers |-> [p \in Plugins |-> lock[l][p].release]],
                      kept <- backup, shelf <- Safe(cmd) \cup wounded
ShelfSpec == ImplementsShelf!Spec

\* An install, an update or a remove that fails leaves the lock files and the
\* libraries as it found them, the copy it had moved aside included, unless
\* the new copy will not go or the old one not come back (manage.rs restore,
\* rollback).  Of a command that runs alone.
FailureUndone ==
  \A c \in Commands :
    cmd[c].kind = "failed" => lock = before[c].lock /\ disk = before[c].disk

\* A remove that fails after all has dropped the one entry, and touched no
\* directory but the one this entry alone named (manage.rs remove_one:
\* "unregistered, but could not finish removing").
OnlyUnregistered ==
  \A c \in Commands : cmd[c].kind = "unregistered" =>
    \E l \in Layers, p \in Plugins :
      /\ before[c].lock[l][p].owned
      /\ lock = [before[c].lock EXCEPT ![l][p] = Missing]
      /\ \A x \in Paths : disk[x] # before[c].disk[x] =>
           x = At(<<p, before[c].lock[l][p].release>>) /\ x[1] \notin Referenced

\* With no trouble on the way nothing is left behind: whatever stands under
\* plugins/ when no command runs is named, or was there under a name written
\* by hand, or in a backup (manage.rs install_into, remove_one).
NothingLeft ==
  (Quiet /\ trouble = 0) =>
    \A x \in Paths : disk[x] # "none" =>
      /\ x[2] = Here
      /\ x[1] \in Referenced \/ x[1][2] = 1

\* What a command leaves behind, whether it fails or not.
CommandsTidy == FailureUndone /\ OnlyUnregistered /\ NothingLeft
==============================================================================
