------------------------- MODULE MCLifecycleJournal -------------------------
(***************************************************************************)
(* LifecycleJournal in three setups: backups and append faults; graves,    *)
(* compaction and readers; every fault beside both.  The constants are     *)
(* the bounds of all.                                                      *)
(***************************************************************************)
EXTENDS LifecycleJournal

VARIABLE setup

Backups == INSTANCE LifecycleJournal WITH
  Grave <- {}, Retention <- FALSE, Faults <- {"append"}, Reading <- FALSE
Entries == INSTANCE LifecycleJournal WITH
  Version <- {1}, Faults <- {"commit"}, MaxBackups <- 1
Faulty == INSTANCE LifecycleJournal WITH
  Version <- {1}, MaxBackups <- 2, Reading <- FALSE

\* Where panes are not the point there is one.
OnePane == writer'.op = "checkpoint" => writer'.panes[2] = 0

SetupInit == setup \in {"backups", "entries", "faults"} /\ Init
SetupNext ==
  /\ \/ setup = "backups" /\ Backups!Next
     \/ setup = "entries" /\ Entries!Next /\ OnePane
     \/ setup = "faults" /\ Faulty!Next /\ OnePane
  /\ UNCHANGED setup
SetupSpec == SetupInit /\ [][SetupNext]_<<vars, setup>>

WholeSpec == Init /\ setup = "whole" /\ [][Next /\ UNCHANGED setup]_<<vars, setup>>

-----------------------------------------------------------------------------
(* What the documentation says and the code does not do.                   *)

(* "Pane deaths and revivals live in the same journal and are retained     *)
(* indefinitely": without retention no acknowledged death is missing.      *)
DeathsRetained == said.dead \subseteq Graves

(* "a compact checkpoint names the pane records that form the current      *)
(* backup": once a backup is acknowledged the file names its panes.        *)
CurrentBackupNamed ==
  alive /\ writer.op = "free" /\ said.tried[cur] = said.point[cur]
    => disk[cur].checkpoint = said.point[cur]

(* "A grave can be revived once": a read finds the mark of every grave     *)
(* that was revived before it began.                                       *)
ReaderSeesRevivals ==
  ReadDone =>
    \A g \in reader.revived :
      (\E x \in Generation : g \in reader.got[x].graves) =>
      (\E x \in Generation : g \in reader.got[x].revivals)

(* "use a pending older generation when one exists, otherwise the current  *)
(* generation's latest checkpoint": a manual restore without a pending     *)
(* generation restores the current generation or nothing.                  *)
ManualSourceIsCurrent ==
  alive /\ LatestCheckpoint(disk, cur, FALSE, TRUE) = 0
    => LatestCheckpoint(disk, cur, TRUE, FALSE) \in {0, cur}

=============================================================================
