------------------------------ MODULE EventLog ------------------------------
(***************************************************************************)
(* What the --events stream promises its reader, without the channel, the  *)
(* writer thread and its batches: what is on disk is always a prefix of    *)
(* what was emitted, it only grows, and it ends with run_finished.         *)
(***************************************************************************)
EXTENDS Naturals, Sequences, SequencesExt

CONSTANT IsTerminator(_)
VARIABLES emitted,   \* every event, in the order the emitters won the channel
          disk       \* the events whose lines a reader can see

vars == <<emitted, disk>>

Init == emitted = <<>> /\ disk = <<>>

Emit == /\ Len(emitted') = Len(emitted) + 1
        /\ IsPrefix(emitted, emitted')
        /\ UNCHANGED disk

Closed(s) == Len(s) > 0 /\ IsTerminator(Last(s))

Flush == /\ ~Closed(disk)
         /\ IsPrefix(disk, disk')
         /\ IsPrefix(disk', emitted)
         /\ \A i \in DOMAIN disk' : IsTerminator(disk'[i]) => i = Len(disk')
         /\ UNCHANGED emitted

Next == Emit \/ Flush

Spec == Init /\ [][Next]_vars
=============================================================================
