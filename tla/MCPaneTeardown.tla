--------------------------- MODULE MCPaneTeardown ---------------------------
(***************************************************************************)
(* PaneTeardown in three setups: two passes on two adopted panes, two      *)
(* passes and a kill on one, and one pass beside a launch and hooks, under *)
(* fairness.  The constants are those of all.                              *)
(***************************************************************************)
EXTENDS PaneTeardown

VARIABLE setup

One == CHOOSE c \in Reconciler : TRUE

\* Two adopted panes: what holds of p1 holds of the other by symmetry.
Adopted == INSTANCE PaneTeardown WITH Recovered <- Pane
Race == INSTANCE PaneTeardown WITH Recovered <- Pane, Killer <- {}, HookTask <- {}
Kills == INSTANCE PaneTeardown WITH HookTask <- {}
Lone == INSTANCE PaneTeardown WITH
  Reconciler <- {One}, Killer <- {}, ServerMayDie <- FALSE

SetupInit ==
  \/ setup = "race" /\ Adopted!Init
  \/ setup \in {"kill", "lone"} /\ Init
SetupNext ==
  /\ \/ setup = "race" /\ Race!Next
     \/ setup = "kill" /\ Kills!Next /\ UNCHANGED run
     \/ setup = "lone" /\ Lone!Next
  /\ UNCHANGED setup

\* FairSpec, of the lone pass.
SetupSpec ==
  /\ SetupInit /\ [][SetupNext]_<<vars, setup>>
  /\ WF_vars(setup = "lone" /\ Lone!Reconcile(One))
  /\ SF_vars(setup = "lone" /\ Lone!FullList(One))
  /\ \A p \in Pane : SF_vars(setup = "lone" /\ Lone!FindGone(One, p))

WholeSpec == Init /\ setup = "whole" /\ [][Next /\ UNCHANGED setup]_<<vars, setup>>
FairWholeSpec == WholeSpec /\ Fairness

\* DeathsGetRecorded, of the lone pass.
LoneDeathsGetRecorded ==
  \A p \in Pane :
    (setup = "lone" /\ p \in managed /\ tmux[p] \in {"dead", "gone"})
      ~> (graves[p] # {} \/ (server = "no_session" /\ tmux[p] = "dead"))

-----------------------------------------------------------------------------
(* What the documentation says and the code does not do.                   *)

(* "Every teardown path (explicit kill, process exit, external removal,    *)
(* lost server) routes through here so the death is described exactly      *)
(* once": no pane has two death records.                                   *)
DeathRecordedOnce ==
  \A p \in Pane : \A g, h \in graves[p] : g = h

(* "we return `true` to err on the side of keeping the pane managed", so   *)
(* as not to disown a live pane for good: a pane whose Run handler has     *)
(* answered, that lives and that nobody killed is managed.                 *)
LivePanesStayManaged ==
  \A p \in Pane :
    run[p] = "done" /\ tmux[p] = "live" /\ (\A k \in Killer : kpane[k] # p)
      => p \in managed

(* "`server_gone`: the whole tmux server/session was gone - every managed  *)
(* pane died at once": a lost server ends in death records.                *)
LostServerIsReported ==
  \A p \in Pane : (server = "down" /\ p \in managed) ~> (graves[p] # {})

(* "cancel the transcript tail, drop from both maps ... so internal state  *)
(* stays consistent regardless of which death path fired": once a pane's   *)
(* death is recorded and every task is done with it, it has no state left. *)
NoStateAfterDeath ==
  \A p \in Pane :
    /\ graves[p] # {}
    /\ run[p] = "done"
    /\ \A h \in HookTask : hpane[h] # p
    => identity[p] = "none"

=============================================================================
