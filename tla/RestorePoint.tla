---------------------------- MODULE RestorePoint ----------------------------
(***************************************************************************)
(* Backup, restore and revive: how agent sessions survive the loss of the  *)
(* tmux server, and how the daemon keeps from running one session twice.   *)
(*                                                                         *)
(* The journal is JournalStore, whose operations happen at once; here a    *)
(* restore point maps the pane ids of its time to agent sessions.  The     *)
(* main task (start-up restore, periodic backup) and the tasks of client   *)
(* requests await tmux between their steps and interleave.  Which pane of  *)
(* a manifest is restored first is left open.                              *)
(***************************************************************************)
EXTENDS JournalStore

CONSTANTS
  Request,     \* connection tasks
  Main,        \* the main task
  AutoRestore, \* [backup] auto_restore
  MayRefuse,   \* whether identifying the tmux generation can fail
  MayRebind,   \* whether users resume sessions in panes during a restore
  MaxCrashes   \* bound on crashes of the daemon alone

ASSUME RestoreAssumption ==
  /\ Main \notin Request
  /\ {AutoRestore, MayRefuse, MayRebind} \subseteq BOOLEAN
  /\ MaxCrashes \in Nat
  /\ 1 \in Generation /\ Generation \subseteq Nat \ {0}
  /\ 0 \notin Pane \cup Version

Task == Request \cup {Main}
Session == Version

VARIABLES
  tmux,      \* the incarnation of the tmux session
  session,   \* whether that session exists
  agent,     \* the agent session each tmux pane runs, 0 for no pane
  known,     \* panes that list_panes shows with their session id
  born,      \* sessions that were ever started
  graved,    \* the session of each grave
  daemon,    \* "down", "starting", "up"
  existed,   \* whether the daemon found the tmux session at its start
  pending,   \* pending_restore: the generation it came from, or 0
  pc,        \* where each task stands
  aim,       \* the generation it restores, or the grave it revives
  plan,      \* the manifest: what is left to restore, or what to back up
  seen,      \* seen_sessions
  spawned,   \* the pane just spawned, 0 before the first one
  settled,   \* generations walked to the end, or given up by a backup
  refused,   \* generations whose restore pass ended before it began
  revivals,  \* how often each grave was revived
  crashes

tmuxVars == <<tmux, session, agent, known, born, graved>>
daemonVars == <<daemon, existed, pending>>
taskVars == <<pc, aim, plan, seen, spawned>>
pastVars == <<settled, refused, revivals>>
vars == <<storeVars, tmuxVars, daemonVars, taskVars, pastVars, crashes>>

Init ==
  /\ StoreInit
  /\ tmux = 1
  /\ session = FALSE
  /\ agent = NoPoint
  /\ known = {}
  /\ born = {}
  /\ graved = [g \in Grave |-> 0]
  /\ daemon = "down"
  /\ existed = FALSE
  /\ pending = 0
  /\ pc = [t \in Task |-> "idle"]
  /\ aim = [t \in Task |-> 0]
  /\ plan = [t \in Task |-> NoPoint]
  /\ seen = [t \in Task |-> {}]
  /\ spawned = [t \in Task |-> 0]
  /\ settled = {}
  /\ refused = {}
  /\ revivals = [g \in Grave |-> 0]
  /\ crashes = 0

Up == daemon = "up"

Go(t, step) == pc' = [pc EXCEPT ![t] = step]

Proceed(t, step) == Go(t, step) /\ UNCHANGED <<aim, plan, seen, spawned>>

Finish(t) ==
  /\ Go(t, "idle")
  /\ aim' = [aim EXCEPT ![t] = 0]
  /\ plan' = [plan EXCEPT ![t] = NoPoint]
  /\ seen' = [seen EXCEPT ![t] = {}]
  /\ spawned' = [spawned EXCEPT ![t] = 0]

(* refresh_lifecycle_generation: the journal follows the tmux session.     *)
Refresh == IF now = tmux THEN UNCHANGED storeVars ELSE OpenGeneration(tmux)

(* What list_panes finds running.                                          *)
Running == {agent[p] : p \in known}

Listed == [p \in Pane |-> IF p \in known THEN agent[p] ELSE 0]

-----------------------------------------------------------------------------
(* tmux, the users and the agents.                                         *)

(* A user's run, with a session of its own.                                *)
Run(p, s) ==
  /\ Up
  /\ agent[p] = 0
  /\ s \notin born
  /\ agent' = [agent EXCEPT ![p] = s]
  /\ known' = known \cup {p}
  /\ born' = born \cup {s}
  /\ session' = TRUE
  /\ Refresh
  /\ UNCHANGED <<tmux, graved, daemonVars, taskVars, pastVars, crashes>>

(* An in-pane resume replaces the session id that a pane has recorded.     *)
Restoring == \E t \in Task : pc[t] \in {"find", "revive", "respawn", "retag",
                                       "list", "spawn", "tag"}

Rebind(p, s) ==
  /\ Up
  /\ Restoring => MayRebind
  /\ p \in known
  /\ s \in born \ {agent[p]}
  /\ agent' = [agent EXCEPT ![p] = s]
  /\ UNCHANGED <<storeVars, tmux, session, known, born, graved, daemonVars,
                 taskVars, pastVars, crashes>>

(* A pane dies and is recorded as g.                                       *)
Die(p, g) ==
  /\ Up
  /\ p \in known
  /\ Bury(g)
  /\ \A h \in Grave : graved[h] # 0 => h < g
  /\ graved' = [graved EXCEPT ![g] = agent[p]]
  /\ agent' = [agent EXCEPT ![p] = 0]
  /\ known' = known \ {p}
  /\ UNCHANGED <<tmux, session, born, daemonVars, taskVars, pastVars, crashes>>

TmuxLost ==
  /\ tmux + 1 \in Generation
  /\ tmux' = tmux + 1
  /\ session' = FALSE
  /\ agent' = NoPoint
  /\ known' = {}

Stopped ==
  /\ daemon' = "down"
  /\ pending' = 0
  /\ pc' = [t \in Task |-> "idle"]
  /\ aim' = [t \in Task |-> 0]
  /\ plan' = [t \in Task |-> NoPoint]
  /\ seen' = [t \in Task |-> {}]
  /\ spawned' = [t \in Task |-> 0]
  /\ UNCHANGED existed

(* The tmux server goes, the daemon stays.                                 *)
TmuxCrash ==
  /\ Up
  /\ TmuxLost
  /\ UNCHANGED <<storeVars, born, graved, daemonVars, taskVars, pastVars,
                 crashes>>

Reboot ==
  /\ TmuxLost
  /\ Stopped
  /\ UNCHANGED <<storeVars, born, graved, pastVars, crashes>>

Crash ==
  /\ daemon # "down"
  /\ crashes < MaxCrashes
  /\ crashes' = crashes + 1
  /\ Stopped
  /\ UNCHANGED <<storeVars, tmuxVars, pastVars>>

-----------------------------------------------------------------------------
(* main, before it serves requests.                                        *)

Start ==
  /\ daemon = "down"
  /\ daemon' = "starting"
  /\ existed' = session
  /\ session' = TRUE
  /\ Refresh
  /\ UNCHANGED <<tmux, agent, known, born, graved, pending, taskVars,
                 pastVars, crashes>>

Starting == daemon = "starting" /\ pc[Main] = "idle"

StartWithoutPoint ==
  /\ Starting
  /\ Pending = 0
  /\ daemon' = "up"
  /\ UNCHANGED <<storeVars, tmuxVars, existed, pending, taskVars, pastVars,
                 crashes>>

(* auto_restore is off, or an executable is missing.                       *)
StartPending ==
  /\ Starting
  /\ Pending # 0
  /\ pending' = Pending
  /\ daemon' = "up"
  /\ UNCHANGED <<storeVars, tmuxVars, existed, taskVars, pastVars, crashes>>

StartRestoreResolved ==
  /\ Starting
  /\ Pending # 0
  /\ AutoRestore
  /\ MarkResolved(Pending)
  /\ Go(Main, "list")
  /\ aim' = [aim EXCEPT ![Main] = Pending]
  /\ plan' = [plan EXCEPT ![Main] = point[Pending]]
  /\ UNCHANGED <<tmuxVars, daemonVars, seen, spawned, pastVars, crashes>>

StartRestore ==
  /\ Starting
  /\ Pending # 0
  /\ AutoRestore
  /\ Go(Main, "list")
  /\ aim' = [aim EXCEPT ![Main] = Pending]
  /\ plan' = [plan EXCEPT ![Main] = point[Pending]]
  /\ UNCHANGED <<storeVars, tmuxVars, daemonVars, seen, spawned, pastVars,
                 crashes>>

-----------------------------------------------------------------------------
(* The Restore and Revive requests.                                        *)

Source == IF pending # 0 THEN pending ELSE ManualSource

Restore(t) ==
  /\ Up
  /\ pc[t] = "idle"
  /\ Source # 0
  /\ Go(t, "list")
  /\ aim' = [aim EXCEPT ![t] = Source]
  /\ plan' = [plan EXCEPT ![t] = point[Source]]
  /\ UNCHANGED <<storeVars, tmuxVars, daemonVars, seen, spawned, pastVars,
                 crashes>>

(* select_grave, after refresh_or_recreate_lifecycle_generation.           *)
ReviveAny(t, g) ==
  /\ Up
  /\ pc[t] = "idle"
  /\ g \in dead
  /\ Refresh
  /\ session' = TRUE
  /\ Go(t, "find")
  /\ aim' = [aim EXCEPT ![t] = g]
  /\ UNCHANGED <<tmux, agent, known, born, graved, daemonVars, plan, seen,
                 spawned, pastVars, crashes>>

Revive(t, g) ==
  /\ Up
  /\ pc[t] = "idle"
  /\ g \in dead \ revived
  /\ Refresh
  /\ session' = TRUE
  /\ Go(t, "find")
  /\ aim' = [aim EXCEPT ![t] = g]
  /\ UNCHANGED <<tmux, agent, known, born, graved, daemonVars, plan, seen,
                 spawned, pastVars, crashes>>

(* A session that runs is taken as the revival; else its pane is restored. *)
ReviveFind(t) ==
  /\ pc[t] = "find"
  /\ IF graved[aim[t]] \in Running
       THEN Go(t, "record") /\ UNCHANGED plan
       ELSE /\ Go(t, "revive")
            /\ plan' = [plan EXCEPT ![t] = [p \in Pane |->
                 IF p = Newest(Pane) THEN graved[aim[t]] ELSE 0]]
  /\ UNCHANGED <<storeVars, tmuxVars, daemonVars, aim, seen, spawned,
                 pastVars, crashes>>

-----------------------------------------------------------------------------
(* restore_panes, for start-up, Restore and Revive.                        *)

Walk == [list |-> "spawn", revive |-> "respawn"]
Tag == [spawn |-> "tag", respawn |-> "retag"]
Back == [tag |-> "spawn", retag |-> "respawn"]

RestoreBlindly(t) ==
  /\ pc[t] \in {"list", "revive"}
  /\ Refresh
  /\ session' = TRUE
  /\ seen' = [seen EXCEPT ![t] = {}]
  /\ spawned' = [spawned EXCEPT ![t] = 0]
  /\ Go(t, Walk[pc[t]])
  /\ UNCHANGED <<tmux, agent, known, born, graved, daemonVars, aim, plan,
                 pastVars, crashes>>

RestoreList(t) ==
  /\ pc[t] \in {"list", "revive"}
  /\ Refresh
  /\ session' = TRUE
  /\ seen' = [seen EXCEPT ![t] = Running]
  /\ spawned' = [spawned EXCEPT ![t] = 0]
  /\ Go(t, Walk[pc[t]])
  /\ UNCHANGED <<tmux, agent, known, born, graved, daemonVars, aim, plan,
                 pastVars, crashes>>

(* The generation cannot be identified: nothing is restored.               *)
RestoreRefused(t) ==
  /\ MayRefuse
  /\ pc[t] \in {"list", "revive"}
  /\ IF pc[t] = "list"
       THEN refused' = refused \cup {aim[t]} /\ Proceed(t, "resolve")
       ELSE Finish(t) /\ UNCHANGED refused
  /\ UNCHANGED <<storeVars, tmuxVars, daemonVars, settled, revivals, crashes>>

(* The entry of old is passed over: its session is running or was restored *)
(* in this pass, or it cannot be spawned.                                  *)
RestoreSkip(t, old) ==
  /\ pc[t] \in {"spawn", "respawn"}
  /\ plan[t][old] # 0
  /\ plan' = [plan EXCEPT ![t][old] = 0]
  /\ seen' = [seen EXCEPT ![t] = @ \cup {plan[t][old]}]
  /\ UNCHANGED <<storeVars, tmuxVars, daemonVars, pc, aim, spawned, pastVars,
                 crashes>>

RestoreSpawn(t, old, p) ==
  /\ pc[t] \in {"spawn", "respawn"}
  /\ plan[t][old] \notin seen[t] \cup {0}
  /\ agent[p] = 0
  /\ agent' = [agent EXCEPT ![p] = plan[t][old]]
  /\ session' = TRUE
  /\ plan' = [plan EXCEPT ![t][old] = 0]
  /\ seen' = [seen EXCEPT ![t] = @ \cup {plan[t][old]}]
  /\ spawned' = [spawned EXCEPT ![t] = p]
  /\ Go(t, Tag[pc[t]])
  /\ UNCHANGED <<storeVars, tmux, known, born, graved, daemonVars, aim,
                 pastVars, crashes>>

(* managed_panes and the pane's options: from here on a listing shows it.  *)
RestoreTag(t) ==
  /\ pc[t] \in {"tag", "retag"}
  /\ known' = IF agent[spawned[t]] # 0 THEN known \cup {spawned[t]} ELSE known
  /\ Proceed(t, Back[pc[t]])
  /\ UNCHANGED <<storeVars, tmux, session, agent, born, graved, daemonVars,
                 pastVars, crashes>>

RestoreWalked(t) ==
  /\ pc[t] = "spawn"
  /\ plan[t] = NoPoint
  /\ settled' = settled \cup {aim[t]}
  /\ Proceed(t, "resolve")
  /\ UNCHANGED <<storeVars, tmuxVars, daemonVars, refused, revivals, crashes>>

(* resolve_restore; a restore of the running generation resolves nothing.  *)
RestoreResolve(t) ==
  /\ pc[t] = "resolve"
  /\ IF aim[t] = now THEN UNCHANGED storeVars ELSE MarkResolved(aim[t])
  /\ IF t = Main THEN daemon' = "up" /\ UNCHANGED pending
                 ELSE pending' = 0 /\ UNCHANGED daemon
  /\ Finish(t)
  /\ UNCHANGED <<tmuxVars, existed, pastVars, crashes>>

ReviveWalked(t) ==
  /\ pc[t] = "respawn"
  /\ plan[t] = NoPoint
  /\ IF spawned[t] # 0 /\ graved[aim[t]] \in Running
       THEN Proceed(t, "record")
       ELSE Finish(t)
  /\ UNCHANGED <<storeVars, tmuxVars, daemonVars, pastVars, crashes>>

ReviveRecord(t) ==
  /\ pc[t] = "record"
  /\ MarkRevived(aim[t])
  /\ revivals' = [revivals EXCEPT ![aim[t]] = @ + 1]
  /\ Finish(t)
  /\ UNCHANGED <<tmuxVars, daemonVars, settled, refused, crashes>>

-----------------------------------------------------------------------------
(* backup_panes: list, refresh the generation, write.  The last backup of  *)
(* a clean shutdown is a periodic one with a crash after it.               *)

BackupListAlways(t) ==
  /\ Up
  /\ pc[t] = "idle"
  /\ Go(t, "refresh")
  /\ plan' = [plan EXCEPT ![t] = Listed]
  /\ UNCHANGED <<storeVars, tmuxVars, daemonVars, aim, seen, spawned,
                 pastVars, crashes>>

(* The periodic backup is suspended while a restore is pending.            *)
BackupList(t) ==
  /\ Up
  /\ pc[t] = "idle"
  /\ t = Main => pending = 0
  /\ Go(t, "refresh")
  /\ plan' = [plan EXCEPT ![t] = Listed]
  /\ UNCHANGED <<storeVars, tmuxVars, daemonVars, aim, seen, spawned,
                 pastVars, crashes>>

(* Without a tmux session there is no generation and no backup.            *)
BackupRefresh(t) ==
  /\ pc[t] = "refresh"
  /\ IF session THEN Refresh /\ Proceed(t, "write")
                ELSE Finish(t) /\ UNCHANGED storeVars
  /\ UNCHANGED <<tmuxVars, daemonVars, pastVars, crashes>>

BackupWrite(t) ==
  /\ pc[t] = "write"
  /\ IF plan[t] = point[now] THEN UNCHANGED storeVars ELSE SetPoint(plan[t])
  /\ IF t = Main THEN Finish(t) ELSE Proceed(t, "choose")
  /\ UNCHANGED <<tmuxVars, daemonVars, pastVars, crashes>>

(* An explicit backup chooses the live set over the pending point.         *)
BackupChoose(t) ==
  /\ pc[t] = "choose"
  /\ IF pending = 0 THEN UNCHANGED storeVars ELSE MarkResolved(pending)
  /\ settled' = settled \cup ({pending} \ {0})
  /\ pending' = 0
  /\ Finish(t)
  /\ UNCHANGED <<tmuxVars, daemon, existed, refused, revivals, crashes>>

-----------------------------------------------------------------------------
RestorePanes(t) ==
  \/ RestoreList(t) \/ RestoreRefused(t) \/ RestoreTag(t)
  \/ RestoreWalked(t) \/ RestoreResolve(t)
  \/ \E old \in Pane : RestoreSkip(t, old) \/ \E p \in Pane : RestoreSpawn(t, old, p)

Backup(t) ==
  BackupList(t) \/ BackupRefresh(t) \/ BackupWrite(t) \/ BackupChoose(t)

Ask(t) ==
  \/ Restore(t)
  \/ \E g \in Grave : Revive(t, g)
  \/ ReviveFind(t) \/ ReviveWalked(t) \/ ReviveRecord(t)

Next ==
  \/ \E p \in Pane, s \in Session : Run(p, s) \/ Rebind(p, s)
  \/ \E p \in Pane, g \in Grave : Die(p, g)
  \/ TmuxCrash \/ Reboot \/ Crash
  \/ Start \/ StartWithoutPoint \/ StartPending \/ StartRestore
  \/ \E t \in Task : RestorePanes(t) \/ Backup(t)
  \/ \E t \in Request : Ask(t)

Spec == Init /\ [][Next]_vars

-----------------------------------------------------------------------------
(* Properties.                                                             *)

Reviving(t) == pc[t] \in {"find", "revive", "respawn", "retag", "record"}

(* The types, that the listed panes run something, that the restore points *)
(* are of generations that came before, and what the steps of a task need. *)
TypeOK ==
  /\ tmux \in Generation
  /\ now \in {0} \cup Generation
  /\ point \in [Generation -> Points]
  /\ taken \subseteq {g \in Generation : g <= now}
  /\ agent \in [Pane -> {0} \cup Session]
  /\ known \subseteq {p \in Pane : agent[p] # 0}
  /\ born \subseteq Session
  /\ graved \in [Grave -> {0} \cup Session]
  /\ daemon \in {"down", "starting", "up"}
  /\ pending \in {0} \cup Generation
  /\ pc \in [Task -> {"idle", "list", "spawn", "tag", "resolve", "find",
                      "revive", "respawn", "retag", "record", "refresh",
                      "write", "choose"}]
  /\ aim \in [Task -> {0} \cup Generation \cup Grave]
  /\ plan \in [Task -> Points]
  /\ seen \in [Task -> SUBSET Session]
  /\ spawned \in [Task -> {0} \cup Pane]
  /\ \A t \in Task : pc[t] \in {"tag", "retag"} => spawned[t] # 0
  /\ \A t \in Task : Reviving(t) => aim[t] \in Grave

(* "Restore never starts two agents on one backend session": as long as    *)
(* requests do not overlap and nobody resumes a session by hand during a   *)
(* pass, no pane comes to run a session that a listed pane runs, through   *)
(* deaths, losses of the server and crashes of the daemon.  (A pane that a *)
(* crash left without its session id is not listed, and nothing keeps a    *)
(* later restore from starting it again.)                                  *)
SpawnsAreNew ==
  [][\A p \in Pane : agent[p] = 0 /\ agent'[p] # 0 => agent'[p] \notin Running]_vars

(* A restore point is used up only by a pass that went through all of it,  *)
(* by an explicit backup, or by a pass that was refused before it began;   *)
(* a crash half way leaves it pending.                                     *)
PointsSettled == resolved \subseteq settled \cup refused

(* No grave is revived twice, not even when the daemon dies between the    *)
(* spawn and the record and the user asks again.                           *)
GraveRevivedOnce == \A g \in Grave : revivals[g] <= 1

(* While a restore is pending, nothing but an explicit backup's write      *)
(* changes what the next reboot would offer to restore: "automatic         *)
(* activity cannot resolve or supersede the user's older recovery choice". *)
RebootOffers ==
  Newest({g \in taken : g \notin resolved /\ point[g] # NoPoint})

RecoveryChoiceKept ==
  [][pending # 0 /\ pending' = pending /\ (\A t \in Request : pc[t] # "write")
       => RebootOffers' = RebootOffers /\ point' = point]_vars

=============================================================================
