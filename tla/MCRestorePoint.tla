--------------------------- MODULE MCRestorePoint ---------------------------
(***************************************************************************)
(* RestorePoint in three setups: two sessions, also resumed by hand; three *)
(* tmux generations with deaths, revives and a crash of the daemon; and    *)
(* passes that are refused.  The constants are the bounds of all.          *)
(***************************************************************************)
EXTENDS RestorePoint

VARIABLE setup

Single == INSTANCE RestorePoint WITH
  Generation <- {1, 2}, Grave <- {}, MayRefuse <- FALSE, MaxCrashes <- 0
Several == INSTANCE RestorePoint WITH Version <- {1}, MayRefuse <- FALSE
Refused == INSTANCE RestorePoint WITH
  Generation <- {1, 2}, Version <- {1}, MaxCrashes <- 0

SetupInit == setup \in {"single", "several", "refused"} /\ Init
SetupNext ==
  /\ \/ setup = "single" /\ Single!Next
     \/ setup = "several" /\ Several!Next
     \/ setup = "refused" /\ Refused!Next
  /\ UNCHANGED setup
SetupSpec == SetupInit /\ [][SetupNext]_<<vars, setup>>

WholeSpec == Init /\ setup = "whole" /\ [][Next /\ UNCHANGED setup]_<<vars, setup>>

-----------------------------------------------------------------------------
(* What the documentation says and the code does not do.                   *)

(* "slopctl restore resolves it by bringing the panes back": a restore     *)
(* point is used up only by a pass that went through it or by a backup.    *)
PointsWalked == resolved \subseteq settled

(* "With auto_restore on, slopd restores when it has to create its tmux    *)
(* session from scratch"; "on an ordinary daemon restart the tmux session  *)
(* still exists, so slopd recovers live panes from tmux": a start-up       *)
(* restore runs only where the session had to be created.                  *)
RestoresIntoFreshSession ==
  daemon = "starting" /\ pc[Main] # "idle" => ~existed

=============================================================================
