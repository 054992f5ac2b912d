------------------------------ MODULE Upgrade -------------------------------
(***************************************************************************)
(* `bddkit upgrade` and `bddkit upgrade --rollback` (upgrade.rs): plan,    *)
(* preflight, fetch, backup, switch, and the way back.  Every operation on *)
(* a file is a step; it may fail, and the process may die before it or, in *)
(* a write that is not atomic, in the middle of it.  One bddkit command    *)
(* runs at a time: between two upgrade commands the user runs plugin       *)
(* install, update, remove and prune.                                      *)
(*                                                                         *)
(* A bddkit release is a number; its plugin ABI is given by AbiOf.         *)
(***************************************************************************)
EXTENDS PluginStore

CONSTANTS AbiOf,         \* the plugin ABI of each bddkit release
          Published,     \* the plugin releases that can be downloaded
          CommandLimit,  \* bound: upgrade and rollback commands
          PluginLimit,   \* bound: plugin commands
          TroubleLimit   \* bound: failed file operations and crashes

Releases == DOMAIN AbiOf
ASSUME UpgradeAssumption ==
  /\ Releases \subseteq Nat \ {0} /\ 1 \in Releases
  /\ AbiOf \in [Releases -> Abis]
  /\ Published \subseteq Plugins \X Abis

VARIABLES managed,   \* release of the installed binary
          receipt,   \* install.json: the release it records, or Torn
          kept,      \* previous/bddkit: a release, 0 for no file
          record,    \* previous/pending.json: a Pending, NoRecord or Torn
          cmd,       \* the upgrade command that runs
          saved,     \* history: what was installed when the record was written
          settled,   \* history: no backup has begun and not recorded
          touched,   \* history: layers a plugin command changed, with no backup to undo it
          commands, plugins, trouble

Torn == 0
NoRecord == [from |-> 0, to |-> 0, locks |-> {}]
TornRecord == [NoRecord EXCEPT !.locks = {0}]
HasRecord == record \notin {NoRecord, TornRecord}

binaryVars == <<managed, receipt, kept, record>>
historyVars == <<saved, settled, touched>>
counts == <<commands, plugins, trouble>>
upgradeVars == <<store, binaryVars, cmd, historyVars, counts>>

NoPlugin == CHOOSE p \in Plugins : TRUE

\* No upgrade command runs; the last one ended so.
Ended(how) == [pc |-> "idle", to |-> 0, force |-> FALSE, moves |-> {}, fetches |-> {},
               files |-> {}, todo |-> {}, plugin |-> NoPlugin, aside |-> FALSE,
               created |-> {}, outcome |-> how]
Idle == cmd.pc = "idle"
MovedLayers == {m[1] : m \in cmd.moves}
DirTo(p) == <<p, AbiOf[cmd.to]>>

UpgradeInit ==
  /\ disk = {<<p, AbiOf[1]>> : p \in Plugins}
  /\ lock = [l \in Layers |-> [p \in Plugins |-> AbiOf[1]]]
  /\ backup = [l \in Layers |-> NoFile]
  /\ managed = 1 /\ receipt = 1 /\ kept = 0 /\ record = NoRecord
  /\ cmd = Ended("none")
  /\ saved = [binary |-> 0, lock |-> lock]
  /\ settled = TRUE /\ touched = {}
  /\ commands = 0 /\ plugins = 0 /\ trouble = 0
-----------------------------------------------------------------------------
(* The plugin commands, between two upgrades. *)

\* The lock file of this layer comes back with a rollback.
Undone(l) == HasRecord /\ l \in record.locks /\ backup[l] # NoFile

PluginCommand ==
  /\ Idle /\ plugins < PluginLimit
  /\ plugins' = plugins + 1
  /\ UNCHANGED <<backup, binaryVars, cmd, saved, settled, commands, trouble>>

\* plugin install, plugin update: the release for the ABI of the running
\* binary is fetched and loaded, the entry written, and the directory of the
\* release it replaced goes unless something still names it.
Provision ==
  /\ PluginCommand
  /\ \E l \in Layers, p \in Plugins :
       LET new == AbiOf[managed]
           old == lock[l][p]
       IN  /\ <<p, new>> \in Published /\ old # new
           /\ lock' = Upsert(lock, l, p, new)
           /\ disk' = RemoveUnreferenced(disk \cup {<<p, new>>}, <<p, old>>, lock', backup)
           /\ touched' = touched \cup (IF Undone(l) THEN {} ELSE {l})

\* plugin remove --layer
Remove ==
  /\ PluginCommand
  /\ \E l \in Layers, p \in Plugins :
       /\ lock[l][p] # 0
       /\ lock' = Upsert(lock, l, p, 0)
       /\ disk' = RemoveUnreferenced(disk, <<p, lock[l][p]>>, lock', backup)
       /\ touched' = touched \cup (IF Undone(l) THEN {} ELSE {l})

\* plugin prune --yes
Prune ==
  /\ PluginCommand
  /\ disk' = disk \cap Referenced(lock, backup)
  /\ disk' # disk
  /\ UNCHANGED <<lock, touched>>
-----------------------------------------------------------------------------
(* upgrade: everything up to the switch. *)

\* Slip: only the first lock file of the chain is planned.
OutdatedFirst(to) ==
  {m \in {UserLayer} \X Plugins :
     AbiOf[to] # AbiOf[managed] /\ lock[m[1]][m[2]] \notin {0, AbiOf[to]}}

\* plan_plugins, when the new release speaks another ABI: what moves, and what
\* has no release for it.  An entry already at the release for it stays.
Outdated(to) ==
  {m \in Layers \X Plugins :
     AbiOf[to] # AbiOf[managed] /\ lock[m[1]][m[2]] \notin {0, AbiOf[to]}}

\* plan_needed: plugins the suite needs and no lock file names, into one layer.
Missing(needs) ==
  {UserLayer} \X {p \in needs : \A l \in Layers : lock[l][p] = 0}

Moves(wanted, to) == {m \in wanted : <<m[2], AbiOf[to]>> \in Published}

\* Slip: a version directory is taken over even when a lock file names it.
PreflightBlind(moves, to) == TRUE

\* preflight: no lock file may already name a directory the fetch will replace.
Preflight(moves, to) ==
  \A m \in moves, l \in Layers : lock[l][m[2]] # AbiOf[to]

\* run_inner up to the first change: the receipt is read, the plan made; what
\* is blocked refuses the upgrade unless --force leaves it as it is.
StartUpgrade ==
  /\ Idle /\ commands < CommandLimit /\ receipt # Torn
  /\ \E to \in Releases \ {managed}, force \in BOOLEAN, needs \in SUBSET Plugins :
       LET wanted == Outdated(to) \cup Missing(needs)
           moves == Moves(wanted, to)
       IN  /\ moves = wanted \/ force
           /\ Preflight(moves, to)
           /\ cmd' = [Ended("none") EXCEPT !.pc = IF moves = {} THEN "copy" ELSE "fetch",
                                           !.to = to, !.force = force, !.moves = moves,
                                           !.fetches = {m[2] : m \in moves}]
  /\ commands' = commands + 1
  /\ UNCHANGED <<store, binaryVars, historyVars, plugins, trouble>>

At(pc) == cmd.pc = pc

\* Lock files are taken in the order of the chain.
IsFirst(l) == \A k \in cmd.files : l <= k

Trouble == trouble < TroubleLimit /\ trouble' = trouble + 1
NoTrouble == UNCHANGED trouble
Quiet == UNCHANGED <<lock, backup, binaryVars, historyVars, commands, plugins>>

\* An error before the switch: Cleanup's drop removes what was created.
Abort(dirs) == disk' = dirs \ cmd.created /\ cmd' = Ended("aborted")

\* fetch_into: an existing copy of the version is moved aside.
FetchBegin ==
  /\ At("fetch")
  /\ \E p \in cmd.fetches :
       /\ disk' = disk \ {DirTo(p)}
       /\ cmd' = [cmd EXCEPT !.pc = "extract", !.fetches = @ \ {p}, !.plugin = p,
                             !.aside = DirTo(p) \in disk]
  /\ NoTrouble /\ Quiet

\* The archive is extracted and the old copy deleted, or it comes back.
FetchEnd ==
  /\ At("extract")
  /\ \/ /\ disk' = disk \cup {DirTo(cmd.plugin)}
        /\ cmd' = [cmd EXCEPT !.pc = "check", !.created = @ \cup {DirTo(cmd.plugin)}]
        /\ NoTrouble
     \/ /\ Trouble
        /\ Abort(disk \cup (IF cmd.aside THEN {DirTo(cmd.plugin)} ELSE {}))
  /\ Quiet

\* This version is done with, on to the next one.
NextFetch == [cmd EXCEPT !.plugin = NoPlugin, !.aside = FALSE,
                         !.pc = IF cmd.fetches = {} THEN "copy" ELSE "fetch"]

\* check_with_staged: the new binary loads the plugin, or refuses it.
CheckStaged ==
  /\ At("check")
  /\ \/ cmd' = NextFetch /\ UNCHANGED disk
     \/ ~cmd.force /\ Abort(disk)
     \/ /\ cmd.force
        /\ disk' = disk \ {DirTo(cmd.plugin)}
        /\ cmd' = [NextFetch EXCEPT !.moves = {m \in @ : m[2] # cmd.plugin},
                                    !.created = @ \ {DirTo(cmd.plugin)}]
  /\ NoTrouble /\ Quiet
-----------------------------------------------------------------------------
(* backup *)

\* The copies are made under .new names, which nothing reads but the renames.
Copy ==
  /\ At("copy")
  /\ \/ cmd' = [cmd EXCEPT !.pc = "keep"] /\ UNCHANGED disk /\ NoTrouble
     \/ Trouble /\ Abort(disk)
  /\ Quiet

KeepBinary ==
  /\ At("keep")
  /\ \/ /\ kept' = managed /\ settled' = FALSE
        /\ cmd' = [cmd EXCEPT !.pc = "keepLock", !.files = MovedLayers]
        /\ UNCHANGED disk /\ NoTrouble
     \/ Trouble /\ Abort(disk) /\ UNCHANGED <<kept, settled>>
  /\ UNCHANGED <<lock, backup, managed, receipt, record, saved, touched, commands, plugins>>

KeepLock ==
  /\ At("keepLock")
  /\ \E l \in cmd.files :
       /\ IsFirst(l)
       /\ \/ /\ backup' = [backup EXCEPT ![l] = lock[l]]
             /\ cmd' = [cmd EXCEPT !.files = @ \ {l}]
             /\ UNCHANGED disk /\ NoTrouble
          \/ Trouble /\ Abort(disk) /\ UNCHANGED backup
  /\ UNCHANGED <<lock, binaryVars, historyVars, commands, plugins>>

\* Slip: every backup of the older upgrade goes, a fresh one of the same lock
\* file included.
DropEvery ==
  /\ At("keepLock") /\ cmd.files = {}
  /\ backup' = [l \in Layers |-> IF HasRecord /\ l \in record.locks THEN NoFile ELSE backup[l]]
  /\ cmd' = [cmd EXCEPT !.pc = "record"]
  /\ UNCHANGED <<lock, disk, binaryVars, historyVars, counts>>

\* Backups only the older upgrade made are dropped.
DropOld ==
  /\ At("keepLock") /\ cmd.files = {}
  /\ backup' = [l \in Layers |-> IF HasRecord /\ l \in record.locks \ MovedLayers
                                 THEN NoFile ELSE backup[l]]
  /\ cmd' = [cmd EXCEPT !.pc = "record"]
  /\ UNCHANGED <<lock, disk, binaryVars, historyVars, counts>>

\* write_json truncates and writes: a failure may leave half a file.
WriteRecord ==
  /\ At("record")
  /\ \/ /\ record' = [from |-> managed, to |-> cmd.to, locks |-> MovedLayers]
        /\ saved' = [binary |-> managed, lock |-> lock]
        /\ settled' = TRUE /\ touched' = {}
        /\ cmd' = [cmd EXCEPT !.pc = "swap"]
        /\ UNCHANGED disk /\ NoTrouble
     \/ /\ Trouble /\ Abort(disk)
        /\ record' \in {record, TornRecord}
        /\ UNCHANGED historyVars
  /\ UNCHANGED <<lock, backup, managed, receipt, kept, commands, plugins>>
-----------------------------------------------------------------------------
(* switch *)

Halfway == Trouble /\ cmd' = Ended("halfway")

Swap ==
  /\ At("swap")
  /\ \/ /\ managed' = cmd.to
        /\ cmd' = [cmd EXCEPT !.pc = "lock", !.todo = cmd.moves]
        /\ NoTrouble
     \/ Halfway /\ UNCHANGED managed
  /\ UNCHANGED <<store, receipt, kept, record, historyVars, commands, plugins>>

\* Every lock file is replaced by a rename, one entry after the other.
MoveEntries ==
  /\ At("lock")
  /\ \/ \E m \in cmd.todo :
          /\ lock' = Upsert(lock, m[1], m[2], AbiOf[cmd.to])
          /\ cmd' = [cmd EXCEPT !.todo = @ \ {m}]
          /\ NoTrouble
     \/ cmd.todo # {} /\ Halfway /\ UNCHANGED lock
     \/ /\ cmd.todo = {} /\ cmd' = [cmd EXCEPT !.pc = "receipt"]
        /\ UNCHANGED lock /\ NoTrouble
  /\ UNCHANGED <<disk, backup, binaryVars, historyVars, commands, plugins>>

WriteReceipt ==
  /\ At("receipt")
  /\ \/ receipt' = cmd.to /\ cmd' = Ended("upgraded") /\ NoTrouble
     \/ receipt' \in {receipt, Torn} /\ Halfway
  /\ UNCHANGED <<store, managed, kept, record, historyVars, commands, plugins>>
-----------------------------------------------------------------------------
(* rollback *)

\* The receipt and the record are read, the kept binary put back.
StartRollback ==
  /\ Idle /\ commands < CommandLimit /\ receipt # Torn
  /\ HasRecord /\ kept # 0
  /\ managed' = kept
  /\ cmd' = [Ended("none") EXCEPT !.pc = "unlock", !.files = record.locks]
  /\ commands' = commands + 1
  /\ UNCHANGED <<store, receipt, kept, record, historyVars, plugins, trouble>>

Unfinished == Trouble /\ cmd' = Ended("unfinished")

\* Slip: a rename that fails for whatever reason counts as already restored.
RestoreForgiving ==
  /\ At("unlock")
  /\ \E l \in cmd.files :
       /\ IsFirst(l)
       /\ \/ /\ lock' = IF backup[l] = NoFile THEN lock ELSE [lock EXCEPT ![l] = backup[l]]
             /\ backup' = [backup EXCEPT ![l] = NoFile]
             /\ NoTrouble
          \/ Trouble /\ UNCHANGED <<lock, backup>>
       /\ cmd' = [cmd EXCEPT !.files = @ \ {l}]
  /\ UNCHANGED <<disk, binaryVars, historyVars, commands, plugins>>

\* The backup is renamed over the lock file; one that is gone was restored by
\* an earlier attempt.
RestoreLock ==
  /\ At("unlock")
  /\ \E l \in cmd.files :
       /\ IsFirst(l)
       /\ \/ /\ lock' = IF backup[l] = NoFile THEN lock ELSE [lock EXCEPT ![l] = backup[l]]
             /\ backup' = [backup EXCEPT ![l] = NoFile]
             /\ cmd' = [cmd EXCEPT !.files = @ \ {l}]
             /\ NoTrouble
          \/ Unfinished /\ UNCHANGED <<lock, backup>>
  /\ UNCHANGED <<disk, binaryVars, historyVars, commands, plugins>>

RestoreReceipt ==
  /\ At("unlock") /\ cmd.files = {}
  /\ \/ /\ receipt' = record.from
        /\ cmd' = [cmd EXCEPT !.pc = "forget"] /\ NoTrouble
     \/ receipt' \in {receipt, Torn} /\ Unfinished
  /\ UNCHANGED <<store, managed, kept, record, historyVars, commands, plugins>>

\* remove_dir_all(previous), whose failure is ignored: any part may remain.
Forget ==
  /\ At("forget")
  /\ \/ kept' = 0 /\ record' = NoRecord /\ NoTrouble
     \/ /\ Trouble
        /\ \/ UNCHANGED <<kept, record>>
           \/ kept' = 0 /\ UNCHANGED record
           \/ record' = NoRecord /\ UNCHANGED kept
  /\ cmd' = Ended("rolledBack")
  /\ UNCHANGED <<store, managed, receipt, historyVars, commands, plugins>>

\* The process dies: nothing is dropped, and a file that was being written may
\* be left in half.
Crash ==
  /\ ~Idle /\ Trouble
  /\ cmd' = Ended("crashed")
  /\ \/ UNCHANGED <<receipt, record>>
     \/ At("record") /\ record' = TornRecord /\ UNCHANGED receipt
     \/ /\ At("receipt") \/ (At("unlock") /\ cmd.files = {})
        /\ receipt' = Torn /\ UNCHANGED record
  /\ UNCHANGED <<store, managed, kept, historyVars, commands, plugins>>

PluginStep == Provision \/ Remove \/ Prune

BeforeSwitch ==
  \/ StartUpgrade \/ FetchBegin \/ FetchEnd \/ CheckStaged
  \/ Copy \/ KeepBinary \/ KeepLock \/ DropOld \/ WriteRecord

Switch == Swap \/ MoveEntries \/ WriteReceipt
Rollback == StartRollback \/ RestoreLock \/ RestoreReceipt \/ Forget

UpgradeNext == PluginStep \/ BeforeSwitch \/ Switch \/ Rollback \/ Crash
UpgradeSpec == UpgradeInit /\ [][UpgradeNext]_upgradeVars
-----------------------------------------------------------------------------
Pcs == {"idle", "fetch", "extract", "check", "copy", "keep", "keepLock", "record",
        "swap", "lock", "receipt", "unlock", "forget"}
Records == [from : Releases, to : Releases, locks : SUBSET Layers]

Outcomes == {"none", "aborted", "halfway", "upgraded", "unfinished", "rolledBack", "crashed"}
Commands ==
  [pc : Pcs, to : Releases \cup {0}, force : BOOLEAN, moves : SUBSET (Layers \X Plugins),
   fetches : SUBSET Plugins, files : SUBSET Layers, todo : SUBSET (Layers \X Plugins),
   plugin : Plugins, aside : BOOLEAN, created : SUBSET Dirs, outcome : Outcomes]

UpgradeTypeOK ==
  /\ StoreTypeOK
  /\ managed \in Releases /\ receipt \in Releases \cup {Torn} /\ kept \in Releases \cup {0}
  /\ record \in {NoRecord, TornRecord} \cup Records
  /\ cmd \in Commands
  /\ saved \in [binary : Releases \cup {0}, lock : [Layers -> LockFiles]]
  /\ settled \in BOOLEAN /\ touched \subseteq Layers

\* A rollback that returns Ok, after a backup that was completed, leaves the
\* binary and every lock file as they were when that upgrade made its backup:
\* however often it was interrupted and retried, and whatever plugin commands
\* ran in between (but for one that ran after its lock file was restored).
RestoredAsSaved ==
  /\ managed = saved.binary
  /\ \A l \in Layers \ touched : lock[l] = saved.lock[l]

RollbackRestores ==
  [][Forget /\ settled /\ HasRecord => RestoredAsSaved']_upgradeVars

\* As long as the record stands, each layer's lock file is either still backed
\* up as it was or restored already: a retry can always finish the job.
RetryCanFinish ==
  settled /\ HasRecord =>
    /\ kept \in {0, saved.binary}
    /\ \A l \in record.locks \ touched :
         backup[l] = saved.lock[l] \/ (backup[l] = NoFile /\ lock[l] = saved.lock[l])

\* No command deletes the version directory that a lock file names.
LivePluginsStay ==
  [][\A l \in Layers, p \in Plugins :
       lock[l][p] # 0 /\ lock'[l][p] = lock[l][p] /\ <<p, lock[l][p]>> \in disk
         => <<p, lock[l][p]>> \in disk']_upgradeVars

\* plugin update, remove and prune leave every release that a rollback would
\* bring back.
PluginCommandsKeepBackups ==
  [][PluginStep => \A l \in Layers : Named(backup[l]) \cap disk \subseteq disk']_upgradeVars

\* A release that something may still ask for stays: what a lock file names
\* under every command, what a backup names under the plugin commands.
NeededReleasesStay == LivePluginsStay /\ PluginCommandsKeepBackups

\* An upgrade to another ABI that returns Ok without --force has moved every
\* entry: all together.
UpgradeMovesAll ==
  [][WriteReceipt /\ cmd'.outcome = "upgraded" /\ ~cmd.force /\ HasRecord
       /\ AbiOf[record.from] # AbiOf[cmd.to]
     => \A l \in Layers, p \in Plugins : lock[l][p] \in {0, AbiOf[managed]}]_upgradeVars

\* The plugin versions a rollback would bring back are on disk: nothing is
\* deleted, so that --rollback can restore it all.
BackupsOnDisk ==
  Idle /\ HasRecord /\ settled =>
    \A l \in record.locks : Named(backup[l]) \subseteq disk

=============================================================================
