---------------------------- MODULE PaneTeardown ----------------------------
(***************************************************************************)
(* How slopd notices, claims and records the death of a pane.              *)
(*                                                                         *)
(* The daemon keeps two shared maps: managed_panes (the panes it answers   *)
(* for) and panes (the in-memory state of each pane, whose identity        *)
(* snapshot a death is described from).  Several tasks take panes out of   *)
(* them concurrently: reconcile passes (the periodic one and one for every *)
(* tmux hook request), kill requests and lease expiry (both through        *)
(* kill_managed_pane).  Run handlers and agent hooks put panes in.  Each   *)
(* task awaits tmux between its reads and its writes, so every await is a  *)
(* step boundary here.                                                     *)
(*                                                                         *)
(* A pane id stands for one pane of one tmux server: ids that a restarted  *)
(* server hands out again are not modelled.                                *)
(***************************************************************************)

CONSTANTS
  Pane,        \* pane ids tmux can hand out
  Recovered,   \* panes adopted by load_managed_panes at daemon start
  Reconciler,  \* tasks that run reconcile_panes, again and again
  Killer,      \* tasks that run kill_managed_pane once
  HookTask,    \* connection tasks that serve agent hooks
  ServerMayDie, \* whether the tmux server process can disappear
  NoPane       \* no pane

ASSUME ActorsAssumption ==
  /\ Recovered \subseteq Pane
  /\ NoPane \notin Pane
  /\ Reconciler \cap Killer = {}
  /\ ServerMayDie \in BOOLEAN

VARIABLES
  server,    \* "up", "no_session" (server answers, slopd session missing), "down"
  tmux,      \* what tmux holds for a pane; "dead" is the remain-on-exit husk
  marked,    \* the panes whose @slopd_managed option is set
  managed,   \* ManagedPanes
  identity,  \* PaneMap: no entry, a default PaneState, or a seeded identity
  run,       \* progress of the Run handler that creates the pane
  graves,    \* death records, by pane
  rpc, rpane, listed, husks, todo, blind,   \* reconcile_panes, by task
  kpc, kpane,                               \* kill_managed_pane, by task
  hpc, hpane                                \* agent hook handler, by task

tmuxVars == <<server, tmux, marked>>
recVars  == <<rpc, rpane, listed, husks, todo, blind>>
killVars == <<kpc, kpane>>
hookVars == <<hpc, hpane>>
vars == <<tmuxVars, managed, identity, run, graves, recVars, killVars, hookVars>>

Actor == Reconciler \cup Killer

Cause == {"self_exit", "vanished", "server_gone", "deliberate_kill"}

Grave == [by : Actor, cause : Cause, identity : {"none", "bare", "seeded"}]

(* show-options and list-panes -a answer for a pane: alive or a husk.      *)
Exists(p) == tmux[p] \in {"live", "dead"}

-----------------------------------------------------------------------------
Init ==
  /\ server = "up"
  /\ tmux = [p \in Pane |-> IF p \in Recovered THEN "live" ELSE "absent"]
  /\ marked = Recovered
  /\ managed = Recovered
  /\ identity = [p \in Pane |-> IF p \in Recovered THEN "seeded" ELSE "none"]
  /\ run = [p \in Pane |-> IF p \in Recovered THEN "done" ELSE "none"]
  /\ graves = [p \in Pane |-> {}]
  /\ rpc = [c \in Reconciler |-> "idle"]
  /\ rpane = [c \in Reconciler |-> NoPane]
  /\ listed = [c \in Reconciler |-> {}]
  /\ husks = [c \in Reconciler |-> {}]
  /\ todo = [c \in Reconciler |-> {}]
  /\ blind = [c \in Reconciler |-> FALSE]
  /\ kpc = [k \in Killer |-> "idle"]
  /\ kpane = [k \in Killer |-> NoPane]
  /\ hpc = [h \in HookTask |-> "idle"]
  /\ hpane = [h \in HookTask |-> NoPane]

-----------------------------------------------------------------------------
(* tmux and the agents.                                                     *)

Exit(p) ==
  /\ tmux[p] = "live"
  /\ tmux' = [tmux EXCEPT ![p] = "dead"]
  /\ UNCHANGED <<server, marked, managed, identity, run, graves,
                 recVars, killVars, hookVars>>

ExternalKill(p) ==
  /\ Exists(p)
  /\ tmux' = [tmux EXCEPT ![p] = "gone"]
  /\ UNCHANGED <<server, marked, managed, identity, run, graves,
                 recVars, killVars, hookVars>>

(* The session disappears while the server lives; a pane the user moved to *)
(* another session outlives it.                                            *)
SessionKilled ==
  /\ server = "up"
  /\ server' = "no_session"
  /\ \E lost \in SUBSET {p \in Pane : Exists(p)} :
       tmux' = [p \in Pane |-> IF p \in lost THEN "gone" ELSE tmux[p]]
  /\ UNCHANGED <<marked, managed, identity, run, graves,
                 recVars, killVars, hookVars>>

ServerDies ==
  /\ ServerMayDie
  /\ server # "down"
  /\ server' = "down"
  /\ tmux' = [p \in Pane |-> IF Exists(p) THEN "gone" ELSE tmux[p]]
  /\ UNCHANGED <<marked, managed, identity, run, graves,
                 recVars, killVars, hookVars>>

-----------------------------------------------------------------------------
(* The Run handler, one per pane.  spawn_pane recreates a missing session. *)

Spawn(p) ==
  /\ run[p] = "none"
  /\ run' = [run EXCEPT ![p] = "spawned"]
  /\ tmux' = [tmux EXCEPT ![p] = "live"]
  /\ server' = "up"
  /\ UNCHANGED <<marked, managed, identity, graves,
                 recVars, killVars, hookVars>>

(* PaneMap::get_or_insert *)
Touched(p) == IF identity[p] = "none" THEN "bare" ELSE identity[p]

RegisterBeforeState(p) ==
  /\ run[p] = "spawned"
  /\ run' = [run EXCEPT ![p] = "registered"]
  /\ managed' = managed \cup {p}
  /\ UNCHANGED <<tmuxVars, identity, graves, recVars, killVars, hookVars>>

Register(p) ==
  /\ run[p] = "spawned"
  /\ run' = [run EXCEPT ![p] = "registered"]
  /\ identity' = [identity EXCEPT ![p] = Touched(p)]
  /\ managed' = managed \cup {p}
  /\ UNCHANGED <<tmuxVars, graves, recVars, killVars, hookVars>>

Mark(p) ==
  /\ run[p] = "registered"
  /\ run' = [run EXCEPT ![p] = "marked"]
  /\ marked' = IF Exists(p) THEN marked \cup {p} ELSE marked
  /\ UNCHANGED <<server, tmux, managed, identity, graves,
                 recVars, killVars, hookVars>>

Seed(p) ==
  /\ run[p] = "marked"
  /\ run' = [run EXCEPT ![p] = "done"]
  /\ identity' = [identity EXCEPT ![p] = "seeded"]
  /\ UNCHANGED <<tmuxVars, managed, graves, recVars, killVars, hookVars>>

-----------------------------------------------------------------------------
(* reconcile_panes.  A list-panes error other than a missing server or     *)
(* session returns at once and changes nothing: it is a stuttering step.   *)

(* A successful listing may miss a pane that lives outside the session.    *)
List(c) ==
  /\ rpc[c] = "idle"
  /\ IF server = "up"
       THEN \E seen \in SUBSET {p \in Pane : Exists(p)} :
              /\ listed' = [listed EXCEPT ![c] = seen]
              /\ husks' = [husks EXCEPT ![c] = {p \in seen : tmux[p] = "dead"}]
              /\ blind' = [blind EXCEPT ![c] = FALSE]
       ELSE /\ listed' = [listed EXCEPT ![c] = {}]
            /\ husks' = [husks EXCEPT ![c] = {}]
            /\ blind' = [blind EXCEPT ![c] = TRUE]
  /\ rpc' = [rpc EXCEPT ![c] = "listed"]
  /\ UNCHANGED <<tmuxVars, managed, identity, run, graves, rpane, todo,
                 killVars, hookVars>>

(* The panes a pass looks at: managed ones listed dead or not listed.      *)
Suspects(c) == {p \in managed : p \in husks[c] \/ p \notin listed[c]}

Snapshot(c) ==
  /\ rpc[c] = "listed"
  /\ rpc' = [rpc EXCEPT ![c] = "walk"]
  /\ todo' = [todo EXCEPT ![c] = Suspects(c)]
  /\ UNCHANGED <<tmuxVars, managed, identity, run, graves, rpane, listed,
                 husks, blind, killVars, hookVars>>

ClaimDeadUnchecked(c, p) ==
  /\ rpc[c] = "walk"
  /\ p \in todo[c] \cap husks[c]
  /\ todo' = [todo EXCEPT ![c] = @ \ {p}]
  /\ managed' = managed \ {p}
  /\ rpc' = [rpc EXCEPT ![c] = "capture"]
  /\ rpane' = [rpane EXCEPT ![c] = p]
  /\ UNCHANGED <<tmuxVars, identity, run, graves, listed, husks, blind,
                 killVars, hookVars>>

ClaimDead(c, p) ==
  /\ rpc[c] = "walk"
  /\ p \in todo[c] \cap husks[c]
  /\ todo' = [todo EXCEPT ![c] = @ \ {p}]
  /\ managed' = managed \ {p}
  /\ IF p \in managed
       THEN /\ rpc' = [rpc EXCEPT ![c] = "capture"]
            /\ rpane' = [rpane EXCEPT ![c] = p]
       ELSE UNCHANGED <<rpc, rpane>>
  /\ UNCHANGED <<tmuxVars, identity, run, graves, listed, husks, blind,
                 killVars, hookVars>>

(* panes.remove and record_pane_death: the record takes the identity that  *)
(* was in the map.                                                         *)
Bury(p, actor, why) ==
  /\ graves' = [graves EXCEPT ![p] =
       @ \cup {[by |-> actor, cause |-> why, identity |-> identity[p]]}]
  /\ identity' = [identity EXCEPT ![p] = "none"]

RecordDead(c) ==
  /\ rpc[c] = "capture"
  /\ Bury(rpane[c], c, "self_exit")
  /\ rpc' = [rpc EXCEPT ![c] = "husk"]
  /\ UNCHANGED <<tmuxVars, managed, run, rpane, listed, husks, todo, blind,
                 killVars, hookVars>>

KilledInTmux(p) == [tmux EXCEPT ![p] = IF Exists(p) THEN "gone" ELSE @]

ClearHusk(c) ==
  /\ rpc[c] = "husk"
  /\ tmux' = KilledInTmux(rpane[c])
  /\ rpc' = [rpc EXCEPT ![c] = "walk"]
  /\ rpane' = [rpane EXCEPT ![c] = NoPane]
  /\ UNCHANGED <<server, marked, managed, identity, run, graves, listed,
                 husks, todo, blind, killVars, hookVars>>

SaysGoneUnverified(p) == TRUE
SaysGoneOfHusks(p) == server # "down" /\ ~(tmux[p] = "live" /\ p \in marked)
SaysGoneIfAnswered(p) == server # "down" /\ Exists(p) /\ p \notin marked

(* pane_is_still_alive can say no only when tmux answers about the pane;   *)
(* an unreachable server and every other error keep the pane.              *)
SaysGone(p) == server # "down" /\ ~(Exists(p) /\ p \in marked)

KeepPane(c, p) ==
  /\ rpc[c] = "walk"
  /\ todo[c] \cap husks[c] = {}
  /\ p \in todo[c]
  /\ todo' = [todo EXCEPT ![c] = @ \ {p}]
  /\ UNCHANGED <<tmuxVars, managed, identity, run, graves, rpc, rpane,
                 listed, husks, blind, killVars, hookVars>>

FindGone(c, p) ==
  /\ rpc[c] = "walk"
  /\ todo[c] \cap husks[c] = {}
  /\ p \in todo[c]
  /\ SaysGone(p)
  /\ todo' = [todo EXCEPT ![c] = @ \ {p}]
  /\ rpc' = [rpc EXCEPT ![c] = "vanish"]
  /\ rpane' = [rpane EXCEPT ![c] = p]
  /\ UNCHANGED <<tmuxVars, managed, identity, run, graves, listed, husks,
                 blind, killVars, hookVars>>

ClaimVanishedUnchecked(c) ==
  /\ rpc[c] = "vanish"
  /\ managed' = managed \ {rpane[c]}
  /\ rpc' = [rpc EXCEPT ![c] = "bury"]
  /\ UNCHANGED <<tmuxVars, identity, run, graves, rpane, listed, husks, todo,
                 blind, killVars, hookVars>>

ClaimVanished(c) ==
  /\ rpc[c] = "vanish"
  /\ managed' = managed \ {rpane[c]}
  /\ IF rpane[c] \in managed
       THEN /\ rpc' = [rpc EXCEPT ![c] = "bury"]
            /\ UNCHANGED rpane
       ELSE /\ rpc' = [rpc EXCEPT ![c] = "walk"]
            /\ rpane' = [rpane EXCEPT ![c] = NoPane]
  /\ UNCHANGED <<tmuxVars, identity, run, graves, listed, husks, todo, blind,
                 killVars, hookVars>>

RecordVanished(c) ==
  /\ rpc[c] = "bury"
  /\ Bury(rpane[c], c, IF blind[c] THEN "server_gone" ELSE "vanished")
  /\ rpc' = [rpc EXCEPT ![c] = "walk"]
  /\ rpane' = [rpane EXCEPT ![c] = NoPane]
  /\ UNCHANGED <<tmuxVars, managed, run, listed, husks, todo, blind,
                 killVars, hookVars>>

FinishPass(c) ==
  /\ rpc[c] = "walk"
  /\ todo[c] = {}
  /\ rpc' = [rpc EXCEPT ![c] = "idle"]
  /\ listed' = [listed EXCEPT ![c] = {}]
  /\ husks' = [husks EXCEPT ![c] = {}]
  /\ blind' = [blind EXCEPT ![c] = FALSE]
  /\ UNCHANGED <<tmuxVars, managed, identity, run, graves, rpane, todo,
                 killVars, hookVars>>

-----------------------------------------------------------------------------
(* kill_managed_pane, for a kill request and for an expired lease.         *)

KillAdmit(k, p) ==
  /\ kpc[k] = "idle"
  /\ p \in managed
  /\ kpc' = [kpc EXCEPT ![k] = "reparent"]
  /\ kpane' = [kpane EXCEPT ![k] = p]
  /\ UNCHANGED <<tmuxVars, managed, identity, run, graves, recVars, hookVars>>

(* The result of the removal is not looked at.                             *)
KillRemove(k) ==
  /\ kpc[k] = "reparent"
  /\ managed' = managed \ {kpane[k]}
  /\ kpc' = [kpc EXCEPT ![k] = "kill"]
  /\ UNCHANGED <<tmuxVars, identity, run, graves, recVars, kpane, hookVars>>

KillTmux(k) ==
  /\ kpc[k] = "kill"
  /\ tmux' = KilledInTmux(kpane[k])
  /\ kpc' = [kpc EXCEPT ![k] = "bury"]
  /\ UNCHANGED <<server, marked, managed, identity, run, graves, recVars,
                 kpane, hookVars>>

(* The tmux client cannot be started: the error is returned right there.   *)
KillTmuxFails(k) ==
  /\ kpc[k] = "kill"
  /\ kpc' = [kpc EXCEPT ![k] = "done"]
  /\ UNCHANGED <<tmuxVars, managed, identity, run, graves, recVars, kpane,
                 hookVars>>

KillRecord(k) ==
  /\ kpc[k] = "bury"
  /\ Bury(kpane[k], k, "deliberate_kill")
  /\ kpc' = [kpc EXCEPT ![k] = "done"]
  /\ UNCHANGED <<tmuxVars, managed, run, recVars, kpane, hookVars>>

-----------------------------------------------------------------------------
(* An agent hook: admitted by the managed check, then get_or_insert.       *)

HookAdmit(h, p) ==
  /\ hpc[h] = "idle"
  /\ p \in managed
  /\ hpc' = [hpc EXCEPT ![h] = "admitted"]
  /\ hpane' = [hpane EXCEPT ![h] = p]
  /\ UNCHANGED <<tmuxVars, managed, identity, run, graves, recVars, killVars>>

HookTouch(h) ==
  /\ hpc[h] = "admitted"
  /\ identity' = [identity EXCEPT ![hpane[h]] = Touched(hpane[h])]
  /\ hpc' = [hpc EXCEPT ![h] = "idle"]
  /\ hpane' = [hpane EXCEPT ![h] = NoPane]
  /\ UNCHANGED <<tmuxVars, managed, run, graves, recVars, killVars>>

-----------------------------------------------------------------------------
Environment ==
  \/ \E p \in Pane : Exit(p) \/ ExternalKill(p)
  \/ SessionKilled
  \/ ServerDies

RunHandler(p) == Spawn(p) \/ Register(p) \/ Mark(p) \/ Seed(p)

Reconcile(c) ==
  \/ List(c) \/ Snapshot(c) \/ RecordDead(c) \/ ClearHusk(c)
  \/ ClaimVanished(c) \/ RecordVanished(c) \/ FinishPass(c)
  \/ \E p \in Pane : ClaimDead(c, p) \/ KeepPane(c, p) \/ FindGone(c, p)

Kill(k) ==
  \/ \E p \in Pane : KillAdmit(k, p)
  \/ KillRemove(k) \/ KillTmux(k) \/ KillTmuxFails(k) \/ KillRecord(k)

Hook(h) == HookTouch(h) \/ \E p \in Pane : HookAdmit(h, p)

Next ==
  \/ Environment
  \/ \E p \in Pane : RunHandler(p)
  \/ \E c \in Reconciler : Reconcile(c)
  \/ \E k \in Killer : Kill(k)
  \/ \E h \in HookTask : Hook(h)

Spec == Init /\ [][Next]_vars

FullList(c) == List(c) /\ listed'[c] = {p \in Pane : Exists(p)}

(* A reconcile pass never stops half way and another one always follows    *)
(* (the loop ticks every two seconds); a pane does not stay out of slopd's *)
(* session for ever, so listings that miss one do not go on for ever, and  *)
(* neither do unusable answers about a pane that is gone.                  *)
Fairness ==
  \A c \in Reconciler :
    /\ WF_vars(Reconcile(c))
    /\ SF_vars(FullList(c))
    /\ \A p \in Pane : SF_vars(FindGone(c, p))
FairSpec == Spec /\ Fairness

-----------------------------------------------------------------------------
(* Properties.                                                             *)

(* The type of every variable.                                             *)
TypeOK ==
  /\ server \in {"up", "no_session", "down"}
  /\ tmux \in [Pane -> {"absent", "live", "dead", "gone"}]
  /\ marked \subseteq Pane
  /\ managed \subseteq Pane
  /\ identity \in [Pane -> {"none", "bare", "seeded"}]
  /\ run \in [Pane -> {"none", "spawned", "registered", "marked", "done"}]
  /\ graves \in [Pane -> SUBSET Grave]
  /\ rpc \in [Reconciler ->
        {"idle", "listed", "walk", "capture", "husk", "vanish", "bury"}]
  /\ rpane \in [Reconciler -> Pane \cup {NoPane}]
  /\ listed \in [Reconciler -> SUBSET Pane]
  /\ husks \in [Reconciler -> SUBSET Pane]
  /\ todo \in [Reconciler -> SUBSET Pane]
  /\ blind \in [Reconciler -> BOOLEAN]
  /\ kpc \in [Killer -> {"idle", "reparent", "kill", "bury", "done"}]
  /\ kpane \in [Killer -> Pane \cup {NoPane}]
  /\ hpc \in [HookTask -> {"idle", "admitted"}]
  /\ hpane \in [HookTask -> Pane \cup {NoPane}]
  /\ \A c \in Reconciler :
       rpc[c] \in {"capture", "husk", "vanish", "bury"} => rpane[c] \in Pane
  /\ \A k \in Killer : kpc[k] # "idle" => kpane[k] \in Pane
  /\ \A h \in HookTask : hpc[h] = "admitted" => hpane[h] \in Pane

(* However many reconcile passes overlap, and whatever kills run beside    *)
(* them, at most one pass records the death of a pane: the removal from    *)
(* managed_panes is the claim, and whoever loses it leaves the pane alone. *)
ReconcilersRecordOnce ==
  \A p \in Pane : \A g, h \in graves[p] :
    g.by \in Reconciler /\ h.by \in Reconciler => g = h

(* Every pane the daemon answers for has an in-memory state: none of the   *)
(* teardown paths drops the state of a pane another task has just put in   *)
(* managed_panes, or that is still there.                                  *)
ManagedPanesHaveState == \A p \in managed : identity[p] # "none"

(* A pane adopted at start is not disowned while it lives, however many    *)
(* listings miss it, unless somebody asked slopd to kill it.               *)
RecoveredPanesKept ==
  \A p \in Recovered :
    tmux[p] = "live" /\ (\A k \in Killer : kpane[k] # p) => p \in managed

(* The death of a pane that nobody asked slopd to kill is never recorded   *)
(* without its identity snapshot: the pass that claimed it still finds it. *)
RecordsDescribeThePane ==
  \A p \in Pane : \A g \in graves[p] :
    (\A k \in Killer : kpane[k] # p) => g.identity # "none"

(* What a reconcile pass records of an adopted pane is what happened to it *)
(* by then, although the pass decides on a listing that is out of date: a  *)
(* pane recorded as vanished, or as lost with the server, is gone from     *)
(* tmux, and one recorded as a self exit has ended.                        *)
RecordedDeathsAreReal ==
  \A p \in Recovered : \A g \in graves[p] :
    /\ g.cause \in {"vanished", "server_gone"} => tmux[p] = "gone"
    /\ g.cause = "self_exit" => tmux[p] \in {"dead", "gone"}

(* Every managed pane that died or was removed from tmux gets a death      *)
(* record in the end.  The exception is a husk the user had moved out of   *)
(* slopd's session while that session is missing: no listing shows it dead *)
(* and pane_is_still_alive finds its options.                              *)
DeathsGetRecorded ==
  \A p \in Pane :
    (p \in managed /\ tmux[p] \in {"dead", "gone"})
      ~> (graves[p] # {} \/ (server = "no_session" /\ tmux[p] = "dead"))

=============================================================================
