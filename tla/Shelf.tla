-------------------------------- MODULE Shelf ---------------------------------
(***************************************************************************)
(* What the plugin commands promise to whoever loads a plugin: an entry is *)
(* made only for a library that is there and loads, and a library stays as *)
(* long as a lock file, or a backup a rollback would restore, names it.    *)
(***************************************************************************)
EXTENDS Naturals

CONSTANTS Layers, Plugins, Releases

VARIABLES entries,   \* entries[l][p]: the release the entry of p names, 0 for none
          kept,      \* libraries the backups of lock files name
          shelf      \* libraries that are there and load

Named == {d \in Plugins \X Releases : \E l \in Layers : entries[l][d[1]] = d[2]}

Init == Named \cup kept \subseteq shelf

Bring == \E d \in Plugins \X Releases : shelf' = shelf \cup {d} /\ UNCHANGED <<entries, kept>>

Register ==
  \E l \in Layers, d \in shelf :
    entries' = [entries EXCEPT ![l][d[1]] = d[2]] /\ UNCHANGED <<shelf, kept>>

Drop ==
  \E l \in Layers, p \in Plugins :
    entries' = [entries EXCEPT ![l][p] = 0] /\ UNCHANGED <<shelf, kept>>

Discard ==
  \E d \in shelf : /\ d \notin Named \cup kept
                   /\ shelf' = shelf \ {d} /\ UNCHANGED <<entries, kept>>

Spec == Init /\ [][Bring \/ Register \/ Drop \/ Discard]_<<entries, kept, shelf>>
==============================================================================
