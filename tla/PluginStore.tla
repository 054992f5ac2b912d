---------------------------- MODULE PluginStore -----------------------------
(***************************************************************************)
(* What bddkit keeps on disk about plugins, shared by the plugin commands  *)
(* (plugin::manage, plugin::lock) and by `bddkit upgrade`: the version     *)
(* directories <data>/plugins/<repo>/<version>/, the lock file of every    *)
(* layer, and the .before-upgrade copy of a lock file.                     *)
(*                                                                         *)
(* The layers are those that share one data directory (user, user.local).  *)
(* A release of a plugin is named by the plugin ABI it is built for.       *)
(***************************************************************************)
EXTENDS Naturals

CONSTANTS Layers,    \* numbered in the order of Context::targets
          UserLayer, \* the one a plugin the suite needs is installed into
          Plugins,
          Abis       \* the plugin ABIs there are releases for

ASSUME StoreAssumption ==
  /\ Layers \subseteq Nat \ {0} /\ UserLayer \in Layers
  /\ Plugins # {}
  /\ Abis \subseteq Nat \ {0}

VARIABLES disk,    \* version directories that hold a library: <<plugin, release>>
          lock,    \* lock[l][p]: the release the entry of p names, 0 for no entry
          backup   \* backup[l]: the copy upgrade made of lock[l], or NoFile

store == <<disk, lock, backup>>

NoFile == [p \in {} |-> 0]
LockFiles == [Plugins -> Abis \cup {0}]
Dirs == Plugins \X Abis

StoreTypeOK ==
  /\ disk \subseteq Dirs
  /\ lock \in [Layers -> LockFiles]
  /\ backup \in [Layers -> LockFiles \cup {NoFile}]

Named(file) == {<<p, file[p]>> : p \in {q \in DOMAIN file : file[q] # 0}}

\* Slip: only the lock files count as still in use, not their backups.
ReferencedByLocks(locks, backups) == UNION {Named(locks[l]) : l \in Layers}

\* referenced_paths: what any lock file, or any backup of one, points at.
Referenced(locks, backups) ==
  UNION {Named(locks[l]) \cup Named(backups[l]) : l \in Layers}

\* lock::upsert: the entry of one plugin, the others kept.
Upsert(locks, l, p, release) == [locks EXCEPT ![l][p] = release]

\* remove_unreferenced_version, called with the lock files already written.
RemoveUnreferenced(dirs, d, locks, backups) ==
  IF d \in Referenced(locks, backups) THEN dirs ELSE dirs \ {d}
=============================================================================
