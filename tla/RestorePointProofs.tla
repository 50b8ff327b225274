------------------------- MODULE RestorePointProofs -------------------------
(***************************************************************************)
(* For any number of requests, panes, generations and crashes: automatic   *)
(* activity leaves the pending restore point alone, and a restore point is *)
(* used up only after a whole pass, an explicit backup or a refused pass.  *)
(* With one request at a time, no grave is revived twice and no session is *)
(* started while it runs.                                                  *)
(***************************************************************************)
EXTENDS RestorePoint, WellFoundedInduction, TLAPS

(* A task that is about to resolve a point has walked through all of it,   *)
(* or was refused.                                                         *)
SettleInv ==
  /\ pc = [t \in Task |-> pc[t]]
  /\ aim = [t \in Task |-> aim[t]]
  /\ resolved \subseteq settled \cup refused
  /\ \A t \in Task : pc[t] = "resolve" => aim[t] \in settled \cup refused

LEMMA SettleInit == Init => SettleInv
  BY DEF Init, StoreInit, SettleInv

(* The steps of restore_panes, of any task.                                *)
LEMMA SettleRestorePanes ==
  ASSUME NEW t \in Task, SettleInv, RestorePanes(t)
  PROVE  SettleInv'
<1> USE DEF SettleInv, storeVars, tmuxVars, daemonVars, pastVars, Go, Proceed
<1>1. CASE RestoreList(t)
  <2>1. pc' = [pc EXCEPT ![t] = Walk[pc[t]]] /\ UNCHANGED <<aim, settled, refused>>
    BY <1>1 DEF RestoreList
  <2>2. resolved' = resolved
    BY <1>1 DEF RestoreList, Refresh, OpenGeneration
  <2>3. Walk[pc[t]] # "resolve"
    BY <1>1 DEF RestoreList, Walk
  <2> QED BY <2>1, <2>2, <2>3
<1>2. CASE RestoreRefused(t)
  <2>1. CASE pc[t] = "list"
    <3>1. /\ pc' = [pc EXCEPT ![t] = "resolve"]
          /\ refused' = refused \cup {aim[t]}
          /\ UNCHANGED <<aim, resolved, settled>>
      BY <1>2, <2>1 DEF RestoreRefused
    <3> QED BY <3>1
  <2>2. CASE pc[t] # "list"
    <3>1. /\ pc' = [pc EXCEPT ![t] = "idle"]
          /\ aim' = [aim EXCEPT ![t] = 0]
          /\ UNCHANGED <<resolved, settled, refused>>
      BY <1>2, <2>2 DEF RestoreRefused, Finish
    <3> QED BY <3>1
  <2> QED BY <2>1, <2>2
<1>3. CASE RestoreTag(t)
  <2>1. Back[pc[t]] # "resolve"
    BY <1>3 DEF RestoreTag, Back
  <2> QED BY <1>3, <2>1 DEF RestoreTag
<1>4. CASE RestoreWalked(t)
  BY <1>4 DEF RestoreWalked
<1>5. CASE RestoreResolve(t)
  <2>1. resolved' \subseteq resolved \cup {aim[t]} /\ UNCHANGED <<settled, refused>>
    BY <1>5 DEF RestoreResolve, MarkResolved
  <2>2. aim[t] \in settled \cup refused
    BY <1>5 DEF RestoreResolve
  <2>3. /\ pc' = [pc EXCEPT ![t] = "idle"]
        /\ aim' = [aim EXCEPT ![t] = 0]
    BY <1>5 DEF RestoreResolve, Finish
  <2> QED BY <2>1, <2>2, <2>3
<1>6. ASSUME NEW old \in Pane, RestoreSkip(t, old)
      PROVE  SettleInv'
  BY <1>6 DEF RestoreSkip
<1>7. ASSUME NEW old \in Pane, NEW p \in Pane, RestoreSpawn(t, old, p)
      PROVE  SettleInv'
  <2>1. Tag[pc[t]] # "resolve"
    BY <1>7 DEF RestoreSpawn, Tag
  <2> QED BY <1>7, <2>1 DEF RestoreSpawn
<1> QED
  BY <1>1, <1>2, <1>3, <1>4, <1>5, <1>6, <1>7 DEF RestorePanes

(* The steps of a backup, of any task.                                     *)
LEMMA SettleBackup ==
  ASSUME NEW t \in Task, SettleInv, Backup(t)
  PROVE  SettleInv'
<1> USE DEF SettleInv, storeVars, tmuxVars, daemonVars, pastVars, Go, Proceed,
            Finish
<1>1. CASE BackupList(t)
  BY <1>1 DEF BackupList
<1>2. CASE BackupRefresh(t)
  <2>1. resolved' = resolved
    BY <1>2 DEF BackupRefresh, Refresh, OpenGeneration
  <2>2. UNCHANGED <<settled, refused>>
    BY <1>2 DEF BackupRefresh
  <2>3. CASE session
    BY <1>2, <2>1, <2>2, <2>3 DEF BackupRefresh
  <2>4. CASE ~session
    BY <1>2, <2>1, <2>2, <2>4 DEF BackupRefresh
  <2> QED BY <2>3, <2>4
<1>3. CASE BackupWrite(t)
  <2>1. resolved' = resolved
    BY <1>3 DEF BackupWrite, SetPoint
  <2>2. UNCHANGED <<settled, refused>>
    BY <1>3 DEF BackupWrite
  <2>3. CASE t = Main
    BY <1>3, <2>1, <2>2, <2>3 DEF BackupWrite
  <2>4. CASE t # Main
    BY <1>3, <2>1, <2>2, <2>4 DEF BackupWrite
  <2> QED BY <2>3, <2>4
<1>4. CASE BackupChoose(t)
  <2>1. resolved' \subseteq resolved \cup ({pending} \ {0})
    BY <1>4 DEF BackupChoose, MarkResolved
  <2>2. settled' = settled \cup ({pending} \ {0}) /\ UNCHANGED refused
    BY <1>4 DEF BackupChoose
  <2>3. /\ pc' = [pc EXCEPT ![t] = "idle"]
        /\ aim' = [aim EXCEPT ![t] = 0]
    BY <1>4 DEF BackupChoose
  <2> QED BY <2>1, <2>2, <2>3
<1> QED
  BY <1>1, <1>2, <1>3, <1>4 DEF Backup

(* The steps of the Restore and Revive requests outside restore_panes.     *)
LEMMA SettleAsk ==
  ASSUME NEW t \in Request, SettleInv, Ask(t)
  PROVE  SettleInv'
<1> USE DEF SettleInv, storeVars, tmuxVars, daemonVars, pastVars, Go, Proceed
<1>t. t \in Task
  BY DEF Task
<1>1. CASE Restore(t)
  BY <1>1, <1>t DEF Restore
<1>2. ASSUME NEW g \in Grave, Revive(t, g)
      PROVE  SettleInv'
  <2>1. resolved' = resolved
    BY <1>2 DEF Revive, Refresh, OpenGeneration
  <2> QED BY <1>2, <1>t, <2>1 DEF Revive
<1>3. CASE ReviveFind(t)
  <2>1. UNCHANGED <<aim, resolved, settled, refused>>
    BY <1>3 DEF ReviveFind
  <2>2. PICK step \in {"record", "revive"} : pc' = [pc EXCEPT ![t] = step]
    BY <1>3 DEF ReviveFind
  <2> QED BY <2>1, <2>2, <1>t
<1>4. CASE ReviveWalked(t)
  <2>1. UNCHANGED <<resolved, settled, refused>>
    BY <1>4 DEF ReviveWalked
  <2>2. CASE Proceed(t, "record")
    BY <2>1, <2>2, <1>t
  <2>3. CASE Finish(t)
    BY <2>1, <2>3, <1>t DEF Finish
  <2> QED BY <1>4, <2>2, <2>3 DEF ReviveWalked
<1>5. CASE ReviveRecord(t)
  <2>1. UNCHANGED <<resolved, settled, refused>>
    BY <1>5 DEF ReviveRecord, MarkRevived
  <2> QED BY <1>5, <1>t, <2>1 DEF ReviveRecord, Finish
<1> QED
  BY <1>1, <1>2, <1>3, <1>4, <1>5 DEF Ask

(* tmux, the agents, the start of the daemon and its end.                  *)
LEMMA SettleRest ==
  ASSUME SettleInv,
         \/ \E p \in Pane, s \in Session : Run(p, s) \/ Rebind(p, s)
         \/ \E p \in Pane, g \in Grave : Die(p, g)
         \/ TmuxCrash \/ Reboot \/ Crash
         \/ Start \/ StartWithoutPoint \/ StartPending \/ StartRestore
  PROVE  SettleInv'
<1> USE DEF SettleInv, storeVars, tmuxVars, daemonVars, taskVars, pastVars
<1>m. Main \in Task
  BY DEF Task
<1>1. ASSUME NEW p \in Pane, NEW s \in Session, Run(p, s)
      PROVE  SettleInv'
  BY <1>1 DEF Run, Refresh, OpenGeneration
<1>2. ASSUME NEW p \in Pane, NEW s \in Session, Rebind(p, s)
      PROVE  SettleInv'
  BY <1>2 DEF Rebind
<1>3. ASSUME NEW p \in Pane, NEW g \in Grave, Die(p, g)
      PROVE  SettleInv'
  BY <1>3 DEF Die, Bury
<1>4. CASE TmuxCrash
  BY <1>4 DEF TmuxCrash
<1>5. CASE Reboot
  BY <1>5 DEF Reboot, Stopped
<1>6. CASE Crash
  BY <1>6 DEF Crash, Stopped
<1>7. CASE Start
  BY <1>7 DEF Start, Refresh, OpenGeneration
<1>8. CASE StartWithoutPoint
  BY <1>8 DEF StartWithoutPoint
<1>9. CASE StartPending
  BY <1>9 DEF StartPending
<1>10. CASE StartRestore
  BY <1>10, <1>m DEF StartRestore, Go
<1> QED
  BY <1>1, <1>2, <1>3, <1>4, <1>5, <1>6, <1>7, <1>8, <1>9, <1>10

(* No step of the system breaks it.                                        *)
LEMMA SettleStep ==
  ASSUME SettleInv, [Next]_vars
  PROVE  SettleInv'
<1>1. CASE UNCHANGED vars
  BY <1>1 DEF vars, storeVars, taskVars, pastVars, SettleInv
<1>2. ASSUME NEW t \in Task, RestorePanes(t) \/ Backup(t)
      PROVE  SettleInv'
  BY <1>2, SettleRestorePanes, SettleBackup
<1>3. ASSUME NEW t \in Request, Ask(t)
      PROVE  SettleInv'
  BY <1>3, SettleAsk
<1> QED
  BY <1>1, <1>2, <1>3, SettleRest DEF Next

(* A restore point is marked resolved only after a restore walked through  *)
(* all of it, an explicit backup replaced it, or restore_panes gave up     *)
(* because the tmux generation could not be identified: neither a crash in *)
(* the middle of restore_panes nor another task's request uses it up       *)
(* early.                                                                  *)
THEOREM PointsAreSettled == Spec => []PointsSettled
<1>1. SettleInv /\ [Next]_vars => SettleInv'
  BY SettleStep
<1>2. SettleInv => PointsSettled
  BY DEF SettleInv, PointsSettled
<1> QED
  BY <1>1, <1>2, SettleInit, PTL DEF Spec

-----------------------------------------------------------------------------
(* While a restore is pending the main task is idle: it neither restores   *)
(* nor backs up.                                                           *)
ChoiceInv ==
  /\ pc = [t \in Task |-> pc[t]]
  /\ daemon # "up" => pending = 0
  /\ pending # 0 => pc[Main] = "idle"

Offer == <<point, taken, resolved>>

LEMMA ChoiceInit == Init => ChoiceInv
  BY DEF Init, ChoiceInv

(* What one task's step does to pending, to the tasks and to what the next *)
(* reboot would offer.                                                     *)
LEMMA TaskStep ==
  ASSUME NEW t \in Task, ChoiceInv,
         RestorePanes(t) \/ Backup(t) \/ (t \in Request /\ Ask(t))
  PROVE  /\ pc' = [u \in Task |-> pc'[u]]
         /\ \A u \in Task \ {t} : pc'[u] = pc[u]
         /\ pending' \in {pending, 0}
         /\ daemon' \in {daemon, "up"}
         /\ t = Main => pending = 0
         /\ pending' # pending \/ pending = 0 \/ pc[t] = "write" \/ UNCHANGED Offer
<1> USE DEF ChoiceInv, Offer, storeVars, tmuxVars, daemonVars, pastVars, Go,
            Proceed, Finish
<1>1. CASE RestoreList(t)
  BY <1>1 DEF RestoreList, Refresh, OpenGeneration
<1>2. CASE RestoreRefused(t)
  BY <1>2 DEF RestoreRefused
<1>3. CASE RestoreTag(t)
  BY <1>3 DEF RestoreTag
<1>4. CASE RestoreWalked(t)
  BY <1>4 DEF RestoreWalked
<1>5. CASE RestoreResolve(t)
  BY <1>5 DEF RestoreResolve
<1>6. ASSUME NEW old \in Pane, RestoreSkip(t, old)
      PROVE  /\ UNCHANGED <<pc, pending, daemon, Offer>>
             /\ t = Main => pending = 0
  BY <1>6 DEF RestoreSkip
<1>7. ASSUME NEW old \in Pane, NEW p \in Pane, RestoreSpawn(t, old, p)
      PROVE  /\ UNCHANGED <<pending, daemon, Offer>>
             /\ pc' = [pc EXCEPT ![t] = Tag[pc[t]]]
             /\ t = Main => pending = 0
  BY <1>7 DEF RestoreSpawn
<1>8. CASE BackupList(t)
  BY <1>8 DEF BackupList
<1>9. CASE BackupRefresh(t)
  BY <1>9 DEF BackupRefresh, Refresh, OpenGeneration
<1>10. CASE BackupWrite(t)
  BY <1>10 DEF BackupWrite
<1>11. CASE BackupChoose(t)
  BY <1>11 DEF BackupChoose
<1>12. ASSUME t \in Request, Ask(t)
       PROVE  /\ pc' = [u \in Task |-> pc'[u]]
              /\ \A u \in Task \ {t} : pc'[u] = pc[u]
              /\ UNCHANGED <<pending, daemon, Offer>>
  <2>1. CASE Restore(t)
    BY <2>1 DEF Restore
  <2>2. ASSUME NEW g \in Grave, Revive(t, g)
        PROVE  /\ UNCHANGED <<pending, daemon, Offer>>
               /\ pc' = [pc EXCEPT ![t] = "find"]
    BY <2>2 DEF Revive, Refresh, OpenGeneration
  <2>3. CASE ReviveFind(t)
    BY <2>3 DEF ReviveFind
  <2>4. CASE ReviveWalked(t)
    BY <2>4 DEF ReviveWalked
  <2>5. CASE ReviveRecord(t)
    BY <2>5 DEF ReviveRecord, MarkRevived
  <2> QED BY <1>12, <2>1, <2>2, <2>3, <2>4, <2>5 DEF Ask
<1>13. t \in Request => t # Main
  BY RestoreAssumption
<1> QED
  BY <1>1, <1>2, <1>3, <1>4, <1>5, <1>6, <1>7, <1>8, <1>9, <1>10, <1>11, <1>12,
     <1>13
  DEF RestorePanes, Backup

(* No step of the system breaks it, and none changes the offer.            *)
LEMMA ChoiceStep ==
  ASSUME ChoiceInv, [Next]_vars
  PROVE  /\ ChoiceInv'
         /\ pending # 0 /\ pending' = pending
              /\ (\A t \in Request : pc[t] # "write")
              => UNCHANGED Offer
<1> DEFINE Kept == pending # 0 /\ pending' = pending
                     /\ (\A t \in Request : pc[t] # "write") => UNCHANGED Offer
<1> SUFFICES ChoiceInv' /\ Kept
  OBVIOUS
<1>m. Main \in Task
  BY DEF Task
<1>1. CASE UNCHANGED vars
  BY <1>1 DEF vars, storeVars, taskVars, daemonVars, ChoiceInv, Offer
<1>2. ASSUME NEW t \in Task, RestorePanes(t) \/ Backup(t) \/ (t \in Request /\ Ask(t))
      PROVE  ChoiceInv' /\ Kept
  <2>1. /\ pc' = [u \in Task |-> pc'[u]]
        /\ \A u \in Task \ {t} : pc'[u] = pc[u]
        /\ pending' \in {pending, 0}
        /\ daemon' \in {daemon, "up"}
        /\ t = Main => pending = 0
        /\ \/ pending' # pending \/ pending = 0 \/ pc[t] = "write"
           \/ UNCHANGED Offer
    BY <1>2, TaskStep
  <2>2. ChoiceInv'
    BY <2>1, <1>m DEF ChoiceInv
  <2>3. Kept
    BY <2>1 DEF Task
  <2> QED BY <2>2, <2>3
<1>3. ASSUME \/ \E p \in Pane, s \in Session : Run(p, s) \/ Rebind(p, s)
             \/ \E p \in Pane, g \in Grave : Die(p, g)
             \/ TmuxCrash
      PROVE  UNCHANGED <<pc, daemon, pending, Offer>>
  <2> USE DEF storeVars, daemonVars, taskVars, Offer
  <2>1. ASSUME NEW p \in Pane, NEW s \in Session, Run(p, s)
        PROVE  UNCHANGED <<pc, daemon, pending, Offer>>
    BY <2>1 DEF Run, Refresh, OpenGeneration
  <2>2. ASSUME NEW p \in Pane, NEW s \in Session, Rebind(p, s)
        PROVE  UNCHANGED <<pc, daemon, pending, Offer>>
    BY <2>2 DEF Rebind
  <2>3. ASSUME NEW p \in Pane, NEW g \in Grave, Die(p, g)
        PROVE  UNCHANGED <<pc, daemon, pending, Offer>>
    BY <2>3 DEF Die, Bury
  <2>4. CASE TmuxCrash
    BY <2>4 DEF TmuxCrash
  <2> QED BY <1>3, <2>1, <2>2, <2>3, <2>4
<1>4. ASSUME Reboot \/ Crash
      PROVE  pending' = 0 /\ pc' = [t \in Task |-> "idle"]
  BY <1>4 DEF Reboot, Crash, Stopped
<1>5. ASSUME Start \/ StartWithoutPoint \/ StartPending \/ StartRestore
      PROVE  ChoiceInv' /\ Kept
  <2> USE DEF ChoiceInv, storeVars, tmuxVars, daemonVars, taskVars, Starting
  <2>1. daemon # "up" /\ pending = 0
    BY <1>5 DEF Start, StartWithoutPoint, StartPending, StartRestore
  <2>2. Kept
    BY <2>1
  <2>3. CASE Start
    BY <2>1, <2>3 DEF Start
  <2>4. CASE StartWithoutPoint
    BY <2>1, <2>4 DEF StartWithoutPoint
  <2>5. CASE StartPending
    BY <2>1, <2>5 DEF StartPending
  <2>6. CASE StartRestore
    BY <2>1, <2>6, <1>m DEF StartRestore, Go
  <2> QED BY <1>5, <2>2, <2>3, <2>4, <2>5, <2>6
<1> HIDE DEF Kept
<1>6. CASE \E t \in Task : RestorePanes(t) \/ Backup(t)
  BY <1>2, <1>6
<1>7. CASE \E t \in Request : Ask(t)
  BY <1>2, <1>7 DEF Task
<1> USE DEF Kept
<1>8. CASE UNCHANGED <<pc, daemon, pending, Offer>>
  BY <1>8 DEF ChoiceInv
<1>9. CASE pending' = 0 /\ pc' = [t \in Task |-> "idle"]
  BY <1>9 DEF ChoiceInv
<1> QED
  BY <1>1, <1>3, <1>4, <1>5, <1>6, <1>7, <1>8, <1>9 DEF Next

(* While a restore is pending, only an explicit backup's write changes     *)
(* what the next reboot would offer: the periodic backup, a restore, the   *)
(* deaths of panes and the loss of the tmux server leave it alone.         *)
THEOREM ChoiceIsKept == Spec => RecoveryChoiceKept
<1> DEFINE Kept == pending # 0 /\ pending' = pending
                     /\ (\A t \in Request : pc[t] # "write")
                     => RebootOffers' = RebootOffers /\ point' = point
<1>1. ChoiceInv /\ [Next]_vars => ChoiceInv' /\ Kept
  <2> SUFFICES ASSUME ChoiceInv, [Next]_vars
               PROVE  ChoiceInv' /\ Kept
    OBVIOUS
  <2>1. UNCHANGED Offer => RebootOffers' = RebootOffers /\ point' = point
    BY DEF Offer, RebootOffers, NoPoint
  <2> QED BY <2>1, ChoiceStep
<1> QED
  BY <1>1, ChoiceInit, PTL DEF Spec, RecoveryChoiceKept

-----------------------------------------------------------------------------
(* Type correctness.                                                       *)

LEMMA LessThan == \A i, j \in Nat : i < j => <<i, j>> \in OpToRel(<, Nat)
BY Zenon DEF OpToRel

(* Of the generations up to the running one, there is a newest.            *)
LEMMA NewestExists ==
  ASSUME NEW n \in Nat, NEW gens \in SUBSET (0..n), gens # {}
  PROVE  Newest(gens) \in gens
<1> DEFINE Ages == {n - g : g \in gens}
<1>1. \A g \in gens : g \in 0..n /\ n - g \in Nat
  OBVIOUS
<1>2. Ages \subseteq Nat /\ Ages # {}
  BY <1>1
<1>3. PICK age \in Ages : \A a \in Ages : ~(<<a, age>> \in OpToRel(<, Nat))
  <2> HIDE DEF Ages
  <2> QED BY <1>2, NatLessThanWellFounded, WFMin, Zenon
<1>4. PICK g \in gens : age = n - g
  BY <1>3
<1>5. \A h \in gens : h <= g
  <2> SUFFICES ASSUME NEW h \in gens PROVE h <= g
    OBVIOUS
  <2>1. n - h \in Ages /\ n - h \in Nat /\ n - g \in Nat
    OBVIOUS
  <2>2. ~(<<n - h, n - g>> \in OpToRel(<, Nat))
    BY <1>3, <1>4, <2>1, Zenon
  <2>3. ~(n - h < n - g)
    BY <2>1, <2>2, LessThan, Zenon
  <2> QED BY <2>1, <2>3
<1> QED
  BY <1>5 DEF Newest

LEMMA Constants ==
  /\ Main \notin Request
  /\ 1 \in Generation
  /\ Generation \subseteq Nat
  /\ 0 \notin Generation
  /\ 0 \notin Pane
  /\ 0 \notin Session
BY RestoreAssumption DEF RestoreAssumption, Session

(* A pending generation, and the source of an explicit restore, exist.     *)
LEMMA SourceType ==
  ASSUME TypeOK
  PROVE  /\ Pending \in {0} \cup Generation
         /\ Source \in {0} \cup Generation
<1> DEFINE Left == {g \in taken : g # now /\ g \notin resolved /\ point[g] # NoPoint}
<1>1. now \in Nat /\ taken \subseteq 0..now /\ taken \subseteq Generation
  BY Constants DEF TypeOK
<1>2. Left \subseteq taken /\ Pending = Newest(Left)
  BY DEF Pending
<1> HIDE DEF Left
<1>3. Pending \in {0} \cup Generation
  <2>1. CASE Left = {}
    BY <1>2, <2>1 DEF Newest
  <2>2. CASE Left # {}
    BY <1>1, <1>2, <2>2, NewestExists
  <2> QED BY <2>1, <2>2
<1>4. Newest(taken) \in {0} \cup Generation
  <2>1. CASE taken = {}
    BY <2>1 DEF Newest
  <2>2. CASE taken # {}
    BY <1>1, <2>2, NewestExists
  <2> QED BY <2>1, <2>2
<1> QED
  BY <1>3, <1>4 DEF Source, ManualSource, TypeOK

LEMMA TypeInit == Init => TypeOK
<1> SUFFICES ASSUME Init PROVE TypeOK
  OBVIOUS
<1>1. NoPoint \in Points
  BY DEF NoPoint, Points
<1> QED
  BY <1>1, Constants DEF Init, StoreInit, TypeOK, Reviving, NoPoint

(* A refresh moves the journal to the running generation.                  *)
LEMMA RefreshType ==
  ASSUME TypeOK, Refresh
  PROVE  /\ now' \in {0} \cup Generation
         /\ point' \in [Generation -> Points]
         /\ taken' \subseteq {g \in Generation : g <= now'}
<1>1. now' \in Generation /\ now \in Nat /\ now' \in Nat /\ now <= now'
  BY Constants DEF TypeOK, Refresh, OpenGeneration, storeVars
<1>2. UNCHANGED <<point, taken>>
  BY DEF Refresh, OpenGeneration, storeVars
<1>3. ASSUME NEW g \in taken PROVE g \in Generation /\ g \in Nat /\ g <= now
  BY Constants DEF TypeOK
<1>4. ASSUME NEW g \in taken PROVE g \in Generation /\ g <= now'
  BY <1>1, <1>3
<1> QED
  BY <1>1, <1>2, <1>4 DEF TypeOK

(* What a step leaves of a task that it ends.                              *)
LEMMA FinishType ==
  ASSUME TypeOK, NEW t \in Task, Finish(t)
  PROVE  /\ pc' \in [Task -> {"idle", "list", "spawn", "tag", "resolve", "find",
                              "revive", "respawn", "retag", "record", "refresh",
                              "write", "choose"}]
         /\ aim' \in [Task -> {0} \cup Generation \cup Grave]
         /\ plan' \in [Task -> Points]
         /\ seen' \in [Task -> SUBSET Session]
         /\ spawned' \in [Task -> {0} \cup Pane]
         /\ \A u \in Task : pc'[u] \in {"tag", "retag"} => spawned'[u] # 0
         /\ \A u \in Task : Reviving(u)' => aim'[u] \in Grave
<1>1. NoPoint \in Points
  BY DEF NoPoint, Points
<1> QED
  BY <1>1 DEF TypeOK, Finish, Go, Reviving

LEMMA TypeRestorePanes ==
  ASSUME NEW t \in Task, TypeOK, RestorePanes(t)
  PROVE  TypeOK'
<1> USE Constants DEF TypeOK, Reviving, tmuxVars, daemonVars, Go, Proceed
<1>1. CASE RestoreList(t)
  <2>1. Refresh
    BY <1>1 DEF RestoreList
  <2>2. /\ now' \in {0} \cup Generation
        /\ point' \in [Generation -> Points]
        /\ taken' \subseteq {g \in Generation : g <= now'}
    BY <2>1, RefreshType
  <2>3. Running \subseteq Session
    BY DEF Running
  <2>4. Walk[pc[t]] = "spawn" \/ (Walk[pc[t]] = "respawn" /\ pc[t] = "revive")
    BY <1>1 DEF RestoreList, Walk
  <2> QED BY <1>1, <2>2, <2>3, <2>4 DEF RestoreList
<1>2. CASE RestoreRefused(t)
  <2>1. UNCHANGED <<storeVars, tmuxVars, daemonVars>>
    BY <1>2 DEF RestoreRefused
  <2>2. CASE Finish(t)
    <3> HIDE DEF Go
    <3> QED BY <2>1, <2>2, FinishType DEF storeVars
  <2>3. CASE Proceed(t, "resolve")
    BY <2>1, <2>3 DEF storeVars
  <2> QED BY <1>2, <2>2, <2>3 DEF RestoreRefused
<1>3. CASE RestoreTag(t)
  <2>1. Back[pc[t]] = "spawn" \/ (Back[pc[t]] = "respawn" /\ pc[t] = "retag")
    BY <1>3 DEF RestoreTag, Back
  <2>2. known' \subseteq {p \in Pane : agent[p] # 0}
    BY <1>3 DEF RestoreTag
  <2> QED BY <1>3, <2>1, <2>2 DEF RestoreTag, storeVars
<1>4. CASE RestoreWalked(t)
  BY <1>4 DEF RestoreWalked, storeVars
<1>5. CASE RestoreResolve(t)
  <2>1. Finish(t) /\ UNCHANGED <<tmuxVars, existed, now, point, taken>>
    BY <1>5 DEF RestoreResolve, MarkResolved, storeVars
  <2>2. daemon' \in {daemon, "up"} /\ pending' \in {pending, 0}
    BY <1>5 DEF RestoreResolve
  <2> QED BY <2>1, <2>2, FinishType
<1>6. ASSUME NEW old \in Pane, RestoreSkip(t, old)
      PROVE  TypeOK'
  <2>1. plan[t] \in [Pane -> {0} \cup Session]
    BY DEF Points, Session
  <2> QED BY <1>6, <2>1 DEF RestoreSkip, storeVars, Points, Session
<1>7. ASSUME NEW old \in Pane, NEW p \in Pane, RestoreSpawn(t, old, p)
      PROVE  TypeOK'
  <2>1. plan[t] \in [Pane -> {0} \cup Session]
    BY DEF Points, Session
  <2>2. Tag[pc[t]] = "tag" \/ (Tag[pc[t]] = "retag" /\ pc[t] = "respawn")
    BY <1>7 DEF RestoreSpawn, Tag
  <2> QED BY <1>7, <2>1, <2>2 DEF RestoreSpawn, storeVars, Points, Session
<1> QED
  BY <1>1, <1>2, <1>3, <1>4, <1>5, <1>6, <1>7 DEF RestorePanes

LEMMA TypeBackup ==
  ASSUME NEW t \in Task, TypeOK, Backup(t)
  PROVE  TypeOK'
<1> USE Constants DEF TypeOK, Reviving, tmuxVars, daemonVars, Go, Proceed
<1>1. CASE BackupList(t)
  <2>1. Listed \in Points
    BY DEF Listed, Points, Session
  <2> QED BY <1>1, <2>1 DEF BackupList, storeVars
<1>2. CASE BackupRefresh(t)
  <2>1. UNCHANGED <<tmuxVars, daemonVars>>
    BY <1>2 DEF BackupRefresh
  <2>2. CASE session
    <3>1. Refresh /\ Proceed(t, "write")
      BY <1>2, <2>2 DEF BackupRefresh
    <3>2. /\ now' \in {0} \cup Generation
          /\ point' \in [Generation -> Points]
          /\ taken' \subseteq {g \in Generation : g <= now'}
      BY <3>1, RefreshType
    <3> QED BY <2>1, <3>1, <3>2
  <2>3. CASE ~session
    <3>1. Finish(t) /\ UNCHANGED storeVars
      BY <1>2, <2>3 DEF BackupRefresh
    <3> QED BY <2>1, <3>1, FinishType DEF storeVars
  <2> QED BY <2>2, <2>3
<1>3. CASE BackupWrite(t)
  <2>1. UNCHANGED <<tmuxVars, daemonVars, now>>
    BY <1>3 DEF BackupWrite, SetPoint, storeVars
  <2>2. point' \in [Generation -> Points] /\ taken' \subseteq {g \in Generation : g <= now'}
    <3>1. CASE SetPoint(plan[t])
      <4>1. now \in Generation /\ now \in Nat /\ plan[t] \in Points
        BY <3>1 DEF SetPoint
      <4> QED BY <3>1, <4>1 DEF SetPoint
    <3>2. CASE UNCHANGED storeVars
      BY <3>2 DEF storeVars
    <3> QED BY <1>3, <3>1, <3>2 DEF BackupWrite
  <2>3. CASE t = Main
    BY <1>3, <2>1, <2>2, <2>3, FinishType DEF BackupWrite
  <2>4. CASE t # Main
    BY <1>3, <2>1, <2>2, <2>4 DEF BackupWrite
  <2> QED BY <2>3, <2>4
<1>4. CASE BackupChoose(t)
  <2>1. Finish(t) /\ UNCHANGED <<tmuxVars, daemon, now, point, taken>> /\ pending' = 0
    BY <1>4 DEF BackupChoose, MarkResolved, storeVars
  <2> QED BY <2>1, FinishType
<1> QED
  BY <1>1, <1>2, <1>3, <1>4 DEF Backup

LEMMA TypeAsk ==
  ASSUME NEW t \in Request, TypeOK, Ask(t)
  PROVE  TypeOK'
<1> USE Constants DEF TypeOK, Reviving, tmuxVars, daemonVars, Go, Proceed
<1>t. t \in Task
  BY DEF Task
<1>1. CASE Restore(t)
  <2>1. Source \in Generation /\ point[Source] \in Points
    BY <1>1, SourceType DEF Restore
  <2> QED BY <1>1, <1>t, <2>1 DEF Restore, storeVars
<1>2. ASSUME NEW g \in Grave, Revive(t, g)
      PROVE  TypeOK'
  <2>1. Refresh
    BY <1>2 DEF Revive
  <2>2. /\ now' \in {0} \cup Generation
        /\ point' \in [Generation -> Points]
        /\ taken' \subseteq {h \in Generation : h <= now'}
    BY <2>1, RefreshType
  <2> QED BY <1>2, <1>t, <2>2 DEF Revive
<1>3. CASE ReviveFind(t)
  <2>1. PICK step \in {"record", "revive"} : pc' = [pc EXCEPT ![t] = step]
    BY <1>3 DEF ReviveFind
  <2>2. plan' \in [Task -> Points]
    BY <1>3, <1>t DEF ReviveFind, Points, Session
  <2> QED BY <1>3, <1>t, <2>1, <2>2 DEF ReviveFind, storeVars
<1>4. CASE ReviveWalked(t)
  <2>1. CASE Proceed(t, "record")
    BY <1>4, <1>t, <2>1 DEF ReviveWalked, storeVars
  <2>2. CASE Finish(t)
    BY <1>4, <1>t, <2>2, FinishType DEF ReviveWalked, storeVars
  <2> QED BY <1>4, <2>1, <2>2 DEF ReviveWalked
<1>5. CASE ReviveRecord(t)
  BY <1>5, <1>t, FinishType DEF ReviveRecord, MarkRevived
<1> QED
  BY <1>1, <1>2, <1>3, <1>4, <1>5 DEF Ask

LEMMA TypeRest ==
  ASSUME TypeOK,
         \/ \E p \in Pane, s \in Session : Run(p, s) \/ Rebind(p, s)
         \/ \E p \in Pane, g \in Grave : Die(p, g)
         \/ TmuxCrash \/ Reboot \/ Crash
         \/ Start \/ StartWithoutPoint \/ StartPending \/ StartRestore
  PROVE  TypeOK'
<1> USE Constants DEF TypeOK, Reviving, daemonVars, taskVars
<1>n. NoPoint \in Points /\ Main \in Task
  BY DEF NoPoint, Points, Task
<1>r. Refresh => /\ now' \in {0} \cup Generation
                 /\ point' \in [Generation -> Points]
                 /\ taken' \subseteq {h \in Generation : h <= now'}
  BY RefreshType
<1>1. ASSUME NEW p \in Pane, NEW s \in Session, Run(p, s)
      PROVE  TypeOK'
  BY <1>1, <1>r DEF Run
<1>2. ASSUME NEW p \in Pane, NEW s \in Session, Rebind(p, s)
      PROVE  TypeOK'
  BY <1>2 DEF Rebind, storeVars
<1>3. ASSUME NEW p \in Pane, NEW g \in Grave, Die(p, g)
      PROVE  TypeOK'
  BY <1>3 DEF Die, Bury
<1>4. CASE TmuxCrash
  BY <1>4 DEF TmuxCrash, TmuxLost, storeVars, NoPoint
<1>5. CASE Reboot
  BY <1>5, <1>n DEF Reboot, TmuxLost, Stopped, storeVars, NoPoint
<1>6. CASE Crash
  BY <1>6, <1>n DEF Crash, Stopped, storeVars, tmuxVars
<1>7. CASE Start
  BY <1>7, <1>r DEF Start
<1>8. CASE StartWithoutPoint
  BY <1>8 DEF StartWithoutPoint, storeVars, tmuxVars
<1>9. CASE StartPending
  BY <1>9, SourceType DEF StartPending, storeVars, tmuxVars
<1>10. CASE StartRestore
  <2>1. Pending \in Generation /\ point[Pending] \in Points
    BY <1>10, SourceType DEF StartRestore
  <2> QED BY <1>10, <1>n, <2>1 DEF StartRestore, Go, storeVars, tmuxVars
<1> QED
  BY <1>1, <1>2, <1>3, <1>4, <1>5, <1>6, <1>7, <1>8, <1>9, <1>10

LEMMA TypeStep == TypeOK /\ [Next]_vars => TypeOK'
<1> SUFFICES ASSUME TypeOK, [Next]_vars PROVE TypeOK'
  OBVIOUS
<1>1. CASE UNCHANGED vars
  BY <1>1 DEF TypeOK, Reviving, vars, storeVars, tmuxVars, daemonVars, taskVars
<1>2. ASSUME NEW t \in Task, RestorePanes(t) \/ Backup(t)
      PROVE  TypeOK'
  BY <1>2, TypeRestorePanes, TypeBackup
<1>3. ASSUME NEW t \in Request, Ask(t)
      PROVE  TypeOK'
  BY <1>3, TypeAsk
<1> QED
  BY <1>1, <1>2, <1>3, TypeRest DEF Next

(* The variables keep their types; the restore points are of generations   *)
(* up to the running one, so that a pending one is always found.           *)
THEOREM TypeCorrect == Spec => []TypeOK
BY TypeInit, TypeStep, PTL DEF Spec

-----------------------------------------------------------------------------
(* One request at a time: no two passes overlap.                           *)

Alone == \A q, r \in Request : q = r

(* The main task restores only while the daemon starts and never revives;  *)
(* until it is up, no request is under way.                                *)
Roles ==
  /\ pc[Main] \in {"list", "spawn", "tag", "resolve"} => daemon = "starting"
  /\ ~Reviving(Main)
  /\ daemon # "up" => \A r \in Request : pc[r] = "idle"

(* An idle task of a daemon that is not up takes none of these steps.      *)
LEMMA IdleUntilUp ==
  ASSUME NEW t \in Task,
         RestorePanes(t) \/ Backup(t) \/ (t \in Request /\ Ask(t))
  PROVE  pc[t] # "idle" \/ daemon = "up"
<1>1. RestorePanes(t) => pc[t] # "idle"
  BY DEF RestorePanes, RestoreList, RestoreRefused, RestoreTag, RestoreWalked,
         RestoreResolve, RestoreSkip, RestoreSpawn
<1>2. Backup(t) => pc[t] # "idle" \/ daemon = "up"
  BY DEF Backup, BackupList, BackupRefresh, BackupWrite, BackupChoose, Up
<1>3. Ask(t) => pc[t] # "idle" \/ daemon = "up"
  BY DEF Ask, Restore, Revive, ReviveFind, ReviveWalked, ReviveRecord, Up
<1> QED
  BY <1>1, <1>2, <1>3

LEMMA RolesMain ==
  ASSUME TypeOK, Roles, RestorePanes(Main) \/ Backup(Main)
  PROVE  /\ pc'[Main] \in {"list", "spawn", "tag", "resolve"} => daemon' = "starting"
         /\ ~Reviving(Main)'
<1> USE Constants DEF Roles, Reviving, tmuxVars, daemonVars, Go, Proceed, Finish
<1>m. Main \in Task /\ pc = [t \in Task |-> pc[t]]
  BY DEF Task, TypeOK
<1>1. CASE RestoreList(Main)
  <2>1. pc[Main] = "list" /\ Walk["list"] = "spawn"
    BY <1>1 DEF RestoreList, Walk
  <2> QED BY <1>1, <1>m, <2>1 DEF RestoreList
<1>2. CASE RestoreRefused(Main)
  BY <1>2, <1>m DEF RestoreRefused
<1>3. CASE RestoreTag(Main)
  <2>1. pc[Main] = "tag" /\ Back["tag"] = "spawn"
    BY <1>3 DEF RestoreTag, Back
  <2> QED BY <1>3, <1>m, <2>1 DEF RestoreTag
<1>4. CASE RestoreWalked(Main)
  BY <1>4, <1>m DEF RestoreWalked
<1>5. CASE RestoreResolve(Main)
  BY <1>5, <1>m DEF RestoreResolve
<1>6. ASSUME NEW old \in Pane, RestoreSkip(Main, old)
      PROVE  UNCHANGED <<pc, daemon>>
  BY <1>6 DEF RestoreSkip
<1>7. ASSUME NEW old \in Pane, NEW p \in Pane, RestoreSpawn(Main, old, p)
      PROVE  pc[Main] = "spawn" /\ pc'[Main] = "tag" /\ UNCHANGED daemon
  <2>1. pc[Main] = "spawn" /\ Tag["spawn"] = "tag"
    BY <1>7 DEF RestoreSpawn, Tag
  <2> QED BY <1>7, <1>m, <2>1 DEF RestoreSpawn
<1>8. CASE Backup(Main)
  <2>1. CASE BackupList(Main)
    BY <2>1, <1>m DEF BackupList
  <2>2. CASE BackupRefresh(Main)
    BY <2>2, <1>m DEF BackupRefresh
  <2>3. CASE BackupWrite(Main)
    BY <2>3, <1>m DEF BackupWrite
  <2>4. CASE BackupChoose(Main)
    BY <2>4, <1>m DEF BackupChoose
  <2> QED BY <1>8, <2>1, <2>2, <2>3, <2>4 DEF Backup
<1> QED
  BY <1>1, <1>2, <1>3, <1>4, <1>5, <1>6, <1>7, <1>8 DEF RestorePanes

LEMMA RolesStep ==
  ASSUME TypeOK, ChoiceInv, Roles, [Next]_vars
  PROVE  Roles'
<1> USE Constants DEF Roles, Reviving
<1>m. Main \in Task /\ Request \subseteq Task /\ Task \ {Main} = Request
  BY DEF Task
<1>1. CASE UNCHANGED vars
  BY <1>1 DEF vars, daemonVars, taskVars
<1>2. ASSUME NEW t \in Task, RestorePanes(t) \/ Backup(t) \/ (t \in Request /\ Ask(t))
      PROVE  Roles'
  <2>1. /\ \A u \in Task \ {t} : pc'[u] = pc[u]
        /\ daemon' \in {daemon, "up"}
    BY <1>2, TaskStep
  <2>2. CASE t = Main
    <3>1. RestorePanes(Main) \/ Backup(Main)
      BY <1>2, <2>2
    <3> HIDE DEF Roles, Reviving
    <3>2. /\ pc'[Main] \in {"list", "spawn", "tag", "resolve"} => daemon' = "starting"
          /\ ~Reviving(Main)'
      BY <3>1, RolesMain
    <3> QED BY <2>1, <2>2, <3>2, <1>m DEF Roles
  <2>3. CASE t # Main
    <3>1. daemon = "up"
      BY <1>2, <2>3, <1>m, IdleUntilUp
    <3>2. pc'[Main] = pc[Main] /\ daemon' = "up"
      BY <2>1, <2>3, <3>1, <1>m
    <3> QED BY <3>1, <3>2
  <2> QED BY <2>2, <2>3
<1>3. ASSUME \/ \E p \in Pane, s \in Session : Run(p, s) \/ Rebind(p, s)
             \/ \E p \in Pane, g \in Grave : Die(p, g)
             \/ TmuxCrash
      PROVE  Roles'
  BY <1>3 DEF Run, Rebind, Die, TmuxCrash, daemonVars, taskVars
<1>4. ASSUME Reboot \/ Crash
      PROVE  Roles'
  BY <1>4, <1>m DEF Reboot, Crash, Stopped
<1>5. CASE Start \/ StartWithoutPoint \/ StartPending
  BY <1>5 DEF Start, StartWithoutPoint, StartPending, Starting, taskVars
<1>6. CASE StartRestore
  <2>1. pc' = [pc EXCEPT ![Main] = "list"] /\ daemon = "starting" /\ daemon' = daemon
    BY <1>6 DEF StartRestore, Starting, Go, daemonVars
  <2>2. pc'[Main] = "list" /\ \A r \in Request : pc'[r] = pc[r]
    BY <2>1, <1>m DEF TypeOK
  <2> QED BY <2>1, <2>2
<1>7. CASE \E t \in Task : RestorePanes(t) \/ Backup(t)
  BY <1>2, <1>7
<1>8. CASE \E t \in Request : Ask(t)
  BY <1>2, <1>8, <1>m
<1> QED
  BY <1>1, <1>3, <1>4, <1>5, <1>6, <1>7, <1>8 DEF Next

(* The request that revives a grave is the only one to, and its grave is   *)
(* not revived yet.                                                        *)
ReviveInv ==
  /\ TypeOK
  /\ ChoiceInv
  /\ Roles
  /\ revivals = [g \in Grave |-> IF g \in revived THEN 1 ELSE 0]
  /\ \A t \in Request : Reviving(t) => aim[t] \notin revived

LEMMA ReviveStep ==
  ASSUME Alone, ReviveInv, [Next]_vars
  PROVE  ReviveInv'
<1> DEFINE Once == revivals = [g \in Grave |-> IF g \in revived THEN 1 ELSE 0]
           Unrevived == \A t \in Request : Reviving(t) => aim[t] \notin revived
<1> SUFFICES Once' /\ Unrevived'
  BY TypeStep, ChoiceStep, RolesStep DEF ReviveInv
<1>0. TypeOK /\ Roles /\ Once /\ Unrevived
  BY DEF ReviveInv
<1> USE Constants DEF Reviving, Go, Proceed, storeVars, daemonVars, tmuxVars, taskVars, pastVars
<1>m. /\ Main \in Task /\ Request \subseteq Task /\ Task = Request \cup {Main}
      /\ pc = [t \in Task |-> pc[t]] /\ aim = [t \in Task |-> aim[t]]
  BY <1>0 DEF Task, TypeOK
<1>r. Refresh => UNCHANGED revived
  BY DEF Refresh, OpenGeneration
<1>1. CASE UNCHANGED vars
  BY <1>0, <1>1 DEF vars
<1>2. ASSUME NEW t \in Task, RestorePanes(t)
      PROVE  Once' /\ Unrevived'
  <2>1. UNCHANGED <<revived, revivals>>
    BY <1>2, <1>r DEF RestorePanes, RestoreList, RestoreRefused, RestoreTag, RestoreWalked,
                RestoreResolve, MarkResolved, RestoreSkip, RestoreSpawn
  <2>2. \A u \in Task : Reviving(u)' => Reviving(u) /\ aim'[u] = aim[u]
    <3>1. CASE RestoreList(t)
      BY <3>1, <1>m DEF RestoreList, Walk
    <3>2. CASE RestoreRefused(t)
      BY <3>2, <1>m DEF RestoreRefused, Finish
    <3>3. CASE RestoreTag(t)
      BY <3>3, <1>m DEF RestoreTag, Back
    <3>4. CASE RestoreWalked(t)
      BY <3>4, <1>m DEF RestoreWalked
    <3>5. CASE RestoreResolve(t)
      BY <3>5, <1>m DEF RestoreResolve, Finish
    <3>6. ASSUME NEW old \in Pane, RestoreSkip(t, old) PROVE UNCHANGED <<pc, aim>>
      BY <3>6 DEF RestoreSkip
    <3>7. ASSUME NEW old \in Pane, NEW p \in Pane, RestoreSpawn(t, old, p)
          PROVE  \A u \in Task : Reviving(u)' => Reviving(u) /\ aim'[u] = aim[u]
      BY <3>7, <1>m DEF RestoreSpawn, Tag
    <3> QED BY <1>2, <3>1, <3>2, <3>3, <3>4, <3>5, <3>6, <3>7 DEF RestorePanes
  <2> QED BY <1>0, <1>m, <2>1, <2>2
<1>3. ASSUME NEW t \in Task, Backup(t)
      PROVE  Once' /\ Unrevived'
  <2>1. UNCHANGED <<revived, revivals>>
    BY <1>3, <1>r DEF Backup, BackupList, BackupRefresh, BackupWrite, SetPoint, BackupChoose,
                      MarkResolved
  <2>2. \A u \in Task : Reviving(u)' => Reviving(u) /\ aim'[u] = aim[u]
    BY <1>3, <1>m DEF Backup, BackupList, BackupRefresh, BackupWrite, BackupChoose, Finish
  <2> QED BY <1>0, <1>m, <2>1, <2>2
<1>4. ASSUME NEW t \in Request, Ask(t)
      PROVE  Once' /\ Unrevived'
  <2>1. CASE Restore(t)
    BY <2>1, <1>0, <1>m DEF Restore
  <2>2. ASSUME NEW g \in Grave, Revive(t, g)
        PROVE  Once' /\ Unrevived'
    <3>1. g \notin revived /\ UNCHANGED <<revived, revivals>>
      BY <2>2, <1>r DEF Revive
    <3>2. pc' = [pc EXCEPT ![t] = "find"] /\ aim' = [aim EXCEPT ![t] = g]
      BY <2>2 DEF Revive
    <3> QED BY <1>0, <1>m, <3>1, <3>2
  <2>3. CASE ReviveFind(t)
    <3>1. UNCHANGED <<revived, revivals, aim>>
      BY <2>3 DEF ReviveFind
    <3>2. \A u \in Task : Reviving(u)' => Reviving(u)
      BY <2>3, <1>m DEF ReviveFind
    <3> QED BY <1>0, <1>m, <3>1, <3>2
  <2>4. CASE ReviveWalked(t)
    <3>1. UNCHANGED <<revived, revivals>>
      BY <2>4 DEF ReviveWalked
    <3>2. \A u \in Task : Reviving(u)' => Reviving(u) /\ aim'[u] = aim[u]
      BY <2>4, <1>m DEF ReviveWalked, Finish
    <3> QED BY <1>0, <1>m, <3>1, <3>2
  <2>5. CASE ReviveRecord(t)
    <3>1. aim[t] \in Grave \ revived
      BY <2>5, <1>0, <1>m DEF ReviveRecord, TypeOK
    <3>2. revived' = revived \cup {aim[t]} /\ revivals' = [revivals EXCEPT ![aim[t]] = @ + 1]
      BY <2>5 DEF ReviveRecord, MarkRevived
    <3>3. Once'
      BY <1>0, <3>1, <3>2
    <3>4. \A u \in Request : u = t /\ pc'[u] = "idle"
      BY <2>5, <1>m DEF ReviveRecord, Finish, Alone
    <3> QED BY <3>3, <3>4
  <2> QED BY <1>4, <2>1, <2>2, <2>3, <2>4, <2>5 DEF Ask
<1>5. ASSUME \/ \E p \in Pane, s \in Session : Run(p, s) \/ Rebind(p, s)
             \/ \E p \in Pane, g \in Grave : Die(p, g)
             \/ TmuxCrash \/ Start \/ StartWithoutPoint \/ StartPending
      PROVE  UNCHANGED <<revived, revivals, pc, aim>>
  BY <1>5, <1>r DEF Run, Rebind, Die, Bury, TmuxCrash, Start, StartWithoutPoint, StartPending
<1>6. ASSUME Reboot \/ Crash \/ StartRestore
      PROVE  /\ UNCHANGED <<revived, revivals>>
             /\ \A u \in Request : Reviving(u)' => Reviving(u) /\ aim'[u] = aim[u]
  BY <1>6, <1>m DEF Reboot, Crash, Stopped, StartRestore
<1> QED
  BY <1>0, <1>1, <1>2, <1>3, <1>4, <1>5, <1>6 DEF Next

(* A client that asks for a revive again, also after a crash between the   *)
(* spawn and the record, revives each grave once.                          *)
THEOREM RevivedOnce == Alone => (Spec => []GraveRevivedOnce)
<1>1. ASSUME Alone PROVE Spec => []GraveRevivedOnce
  <2>1. Init => ReviveInv
    BY TypeInit, ChoiceInit, Constants
    DEF Init, StoreInit, ReviveInv, Roles, Reviving, Task
  <2>2. ReviveInv /\ [Next]_vars => ReviveInv'
    BY <1>1, ReviveStep
  <2>3. ReviveInv => GraveRevivedOnce
    BY DEF ReviveInv, GraveRevivedOnce
  <2> QED
    BY <2>1, <2>2, <2>3, PTL DEF Spec
<1> QED
  BY <1>1

-----------------------------------------------------------------------------
(* No pass starts a session that runs.                                     *)

(* Whatever is recorded of a session, it was started once.                 *)
Recorded ==
  /\ \A p \in Pane : agent[p] \in born \cup {0}
  /\ \A g \in Generation, p \in Pane : point[g][p] \in born \cup {0}
  /\ \A g \in Grave : graved[g] \in born \cup {0}
  /\ \A t \in Task, p \in Pane : plan[t][p] \in born \cup {0}

Walking(t) == pc[t] \in {"spawn", "tag", "respawn", "retag"}

(* What a pass has still to restore does not run, and neither does the     *)
(* pane that it is about to tag, unless the pass knows of it.              *)
Fresh ==
  /\ \A t \in Task : Walking(t) =>
       \A old \in Pane, p \in known : agent[p] = plan[t][old] => plan[t][old] \in seen[t]
  /\ \A t \in Task : pc[t] \in {"tag", "retag"} =>
       \A old \in Pane : agent[spawned[t]] = plan[t][old] => plan[t][old] \in seen[t] \cup {0}

SpawnInv == TypeOK /\ ChoiceInv /\ Roles /\ Recorded /\ Fresh

LEMMA RecordedStep ==
  ASSUME TypeOK, Recorded, [Next]_vars
  PROVE  Recorded'
<1> USE Constants DEF Recorded, Go, Proceed, storeVars, daemonVars, tmuxVars, taskVars
<1>p. /\ plan = [t \in Task |-> [p \in Pane |-> plan[t][p]]]
      /\ point = [g \in Generation |-> [p \in Pane |-> point[g][p]]]
      /\ agent = [p \in Pane |-> agent[p]]
      /\ graved = [g \in Grave |-> graved[g]]
      /\ Main \in Task /\ Request \subseteq Task
  BY DEF TypeOK, Points, Task
<1>n. \A p \in Pane : NoPoint[p] = 0
  BY DEF NoPoint
<1>r. Refresh => UNCHANGED point
  BY DEF Refresh, OpenGeneration
<1>f. ASSUME NEW t \in Task, Finish(t)
      PROVE  \A u \in Task, p \in Pane : plan'[u][p] \in {plan[u][p], 0}
  <2>1. plan' = [plan EXCEPT ![t] = NoPoint]
    BY <1>f DEF Finish
  <2> QED BY <2>1, <1>p, <1>n
<1>1. CASE UNCHANGED vars
  BY <1>1 DEF vars
<1>2. ASSUME NEW t \in Task, RestorePanes(t)
      PROVE  Recorded'
  <2>1. CASE RestoreList(t)
    BY <2>1, <1>r DEF RestoreList
  <2>2. CASE RestoreRefused(t)
    BY <2>2, <1>f DEF RestoreRefused
  <2>3. CASE RestoreTag(t) \/ RestoreWalked(t)
    BY <2>3 DEF RestoreTag, RestoreWalked
  <2>4. CASE RestoreResolve(t)
    BY <2>4, <1>f DEF RestoreResolve, MarkResolved
  <2>5. ASSUME NEW old \in Pane, RestoreSkip(t, old) PROVE Recorded'
    <3>1. plan' = [plan EXCEPT ![t][old] = 0] /\ UNCHANGED <<agent, point, graved, born>>
      BY <2>5 DEF RestoreSkip
    <3>2. \A u \in Task, p \in Pane : plan'[u][p] \in {plan[u][p], 0}
      BY <3>1, <1>p
    <3> QED BY <3>1, <3>2
  <2>6. ASSUME NEW old \in Pane, NEW p \in Pane, RestoreSpawn(t, old, p) PROVE Recorded'
    <3>1. /\ plan' = [plan EXCEPT ![t][old] = 0] /\ UNCHANGED <<point, graved, born>>
          /\ agent' = [agent EXCEPT ![p] = plan[t][old]]
      BY <2>6 DEF RestoreSpawn
    <3>2. \A u \in Task, q \in Pane : plan'[u][q] \in {plan[u][q], 0}
      BY <3>1, <1>p
    <3>3. \A q \in Pane : agent'[q] \in {agent[q], plan[t][old]}
      BY <3>1, <1>p
    <3> QED BY <3>1, <3>2, <3>3
  <2> QED BY <1>2, <2>1, <2>2, <2>3, <2>4, <2>5, <2>6 DEF RestorePanes
<1>3. ASSUME NEW t \in Task, Backup(t)
      PROVE  Recorded'
  <2>1. CASE BackupList(t)
    <3>1. \A p \in Pane : Listed[p] \in {agent[p], 0}
      BY DEF Listed
    <3>2. plan' = [plan EXCEPT ![t] = Listed] /\ UNCHANGED <<agent, point, graved, born>>
      BY <2>1 DEF BackupList
    <3> QED BY <3>1, <3>2, <1>p
  <2>2. CASE BackupRefresh(t)
    BY <2>2, <1>f, <1>r DEF BackupRefresh
  <2>3. CASE BackupWrite(t)
    <3>1. \A g \in Generation, p \in Pane : point'[g][p] \in {point[g][p], plan[t][p]}
      BY <2>3, <1>p DEF BackupWrite, SetPoint
    <3>2. \A u \in Task, p \in Pane : plan'[u][p] \in {plan[u][p], 0}
      BY <2>3, <1>f DEF BackupWrite
    <3> QED BY <2>3, <3>1, <3>2 DEF BackupWrite
  <2>4. CASE BackupChoose(t)
    BY <2>4, <1>f DEF BackupChoose, MarkResolved
  <2> QED BY <1>3, <2>1, <2>2, <2>3, <2>4 DEF Backup
<1>4. ASSUME NEW t \in Request, Ask(t)
      PROVE  Recorded'
  <2>t. t \in Task
    BY <1>p
  <2>1. CASE Restore(t)
    <3>1. Source \in Generation /\ plan' = [plan EXCEPT ![t] = point[Source]]
          /\ UNCHANGED <<agent, point, graved, born>>
      BY <2>1, SourceType DEF Restore
    <3>2. \A u \in Task, p \in Pane : plan'[u][p] \in {plan[u][p], point[Source][p]}
      BY <3>1, <2>t, <1>p
    <3> QED BY <3>1, <3>2
  <2>2. ASSUME NEW g \in Grave, Revive(t, g) PROVE Recorded'
    BY <2>2, <1>r DEF Revive
  <2>3. CASE ReviveFind(t)
    <3>1. aim[t] \in Grave
      BY <2>3, <2>t DEF ReviveFind, TypeOK, Reviving
    <3>2. \A u \in Task, p \in Pane : plan'[u][p] \in {plan[u][p], graved[aim[t]], 0}
      BY <2>3, <2>t, <1>p DEF ReviveFind
    <3> QED BY <2>3, <3>1, <3>2 DEF ReviveFind
  <2>4. CASE ReviveWalked(t)
    BY <2>4, <1>f, <2>t DEF ReviveWalked
  <2>5. CASE ReviveRecord(t)
    BY <2>5, <1>f, <2>t DEF ReviveRecord, MarkRevived
  <2> QED BY <1>4, <2>1, <2>2, <2>3, <2>4, <2>5 DEF Ask
<1>5. ASSUME NEW p \in Pane, NEW s \in Session, Run(p, s)
      PROVE  Recorded'
  <2>1. /\ born' = born \cup {s} /\ UNCHANGED <<point, graved, plan>>
        /\ agent' = [agent EXCEPT ![p] = s]
    BY <1>5, <1>r DEF Run
  <2> QED BY <2>1, <1>p
<1>6. ASSUME NEW p \in Pane, NEW s \in Session, Rebind(p, s)
      PROVE  Recorded'
  BY <1>6, <1>p DEF Rebind
<1>7. ASSUME NEW p \in Pane, NEW g \in Grave, Die(p, g)
      PROVE  Recorded'
  <2>1. /\ graved' = [graved EXCEPT ![g] = agent[p]] /\ agent' = [agent EXCEPT ![p] = 0]
        /\ UNCHANGED <<point, plan, born>>
    BY <1>7 DEF Die, Bury
  <2> QED BY <2>1, <1>p
<1>8. CASE TmuxCrash
  BY <1>8, <1>n DEF TmuxCrash, TmuxLost
<1>9. CASE Reboot
  BY <1>9, <1>n DEF Reboot, TmuxLost, Stopped
<1>10. CASE Crash
  BY <1>10, <1>n DEF Crash, Stopped
<1>11. CASE Start \/ StartWithoutPoint \/ StartPending
  BY <1>11, <1>r DEF Start, StartWithoutPoint, StartPending
<1>12. CASE StartRestore
  <2>1. Pending \in Generation /\ plan' = [plan EXCEPT ![Main] = point[Pending]]
        /\ UNCHANGED <<agent, point, graved, born>>
    BY <1>12, SourceType DEF StartRestore
  <2>2. \A u \in Task, p \in Pane : plan'[u][p] \in {plan[u][p], point[Pending][p]}
    BY <2>1, <1>p
  <2> QED BY <2>1, <2>2
<1> QED
  BY <1>1, <1>2, <1>3, <1>4, <1>5, <1>6, <1>7, <1>8, <1>9, <1>10, <1>11, <1>12 DEF Next

LEMMA OneWalks ==
  ASSUME Alone, Roles
  PROVE  \A t, u \in Task : Walking(t) /\ Walking(u) => t = u
<1>1. Walking(Main) => \A r \in Request : ~Walking(r)
  BY DEF Roles, Reviving, Walking
<1> QED
  BY <1>1 DEF Alone, Task

(* What leaves the passes as they are: panes that go, and steps of a task  *)
(* that walks through nothing.                                             *)
LEMMA FreshKept ==
  ASSUME TypeOK, Fresh,
         \A u \in Task : Walking(u)' =>
           /\ pc'[u] = pc[u]
           /\ plan'[u] = plan[u] /\ seen'[u] = seen[u] /\ spawned'[u] = spawned[u],
         known' \subseteq known,
         \A p \in Pane : agent'[p] \in {agent[p], 0} /\ (p \in known' => agent'[p] = agent[p])
  PROVE  Fresh'
<1>1. ASSUME NEW t \in Task, Walking(t)', NEW old \in Pane, NEW p \in known',
             agent'[p] = plan'[t][old]
      PROVE  plan'[t][old] \in seen'[t]
  <2>1. p \in known /\ p \in Pane /\ Walking(t)
    BY <1>1 DEF TypeOK, Walking
  <2>2. agent'[p] = agent[p] /\ plan'[t] = plan[t] /\ seen'[t] = seen[t]
    BY <1>1, <2>1
  <2> QED BY <1>1, <2>1, <2>2 DEF Fresh
<1>2. ASSUME NEW t \in Task, pc'[t] \in {"tag", "retag"}, NEW old \in Pane,
             agent'[spawned'[t]] = plan'[t][old]
      PROVE  plan'[t][old] \in seen'[t] \cup {0}
  <2>1. /\ pc'[t] = pc[t]
        /\ plan'[t] = plan[t] /\ seen'[t] = seen[t] /\ spawned'[t] = spawned[t]
    BY <1>2 DEF Walking
  <2>2. spawned[t] \in Pane
    BY <1>2, <2>1 DEF TypeOK
  <2>3. agent'[spawned[t]] \in {agent[spawned[t]], 0}
    BY <2>2
  <2> QED BY <1>2, <2>1, <2>3 DEF Fresh
<1> QED
  BY <1>1, <1>2 DEF Fresh

(* The steps of a pass.                                                    *)
LEMMA FreshWalk ==
  ASSUME Alone, SpawnInv, NEW t \in Task, RestorePanes(t)
  PROVE  Fresh'
<1>0. TypeOK /\ Roles /\ Recorded /\ Fresh /\ \A u, v \in Task : Walking(u) /\ Walking(v) => u = v
  BY OneWalks DEF SpawnInv
<1> USE Constants DEF Go, Proceed, tmuxVars
<1>p. /\ plan = [u \in Task |-> [p \in Pane |-> plan[u][p]]]
      /\ agent = [p \in Pane |-> agent[p]]
      /\ known \subseteq {p \in Pane : agent[p] # 0}
      /\ pc = [u \in Task |-> pc[u]]
      /\ seen = [u \in Task |-> seen[u]]
      /\ spawned = [u \in Task |-> spawned[u]]
  BY <1>0 DEF TypeOK, Points
<1>1. CASE RestoreList(t)
  <2>1. /\ pc' = [pc EXCEPT ![t] = Walk[pc[t]]] /\ Walk[pc[t]] \in {"spawn", "respawn"}
        /\ seen' = [seen EXCEPT ![t] = Running]
        /\ spawned' = [spawned EXCEPT ![t] = 0]
        /\ UNCHANGED <<agent, known, plan>>
    BY <1>1 DEF RestoreList, Walk
  <2>2. \A p \in known : agent[p] \in Running
    BY DEF Running
  <2> QED BY <1>0, <1>p, <2>1, <2>2 DEF Fresh, Walking
<1>2. CASE RestoreRefused(t) \/ RestoreWalked(t) \/ RestoreResolve(t)
  <2>1. UNCHANGED <<agent, known>> /\ ~Walking(t)'
    BY <1>2, <1>p DEF RestoreRefused, RestoreWalked, RestoreResolve, Finish, Walking
  <2>2. \A u \in Task \ {t} : /\ pc'[u] = pc[u] /\ plan'[u] = plan[u]
                               /\ seen'[u] = seen[u] /\ spawned'[u] = spawned[u]
    BY <1>2, <1>p DEF RestoreRefused, RestoreWalked, RestoreResolve, Finish
  <2> QED BY <1>0, <2>1, <2>2, FreshKept
<1>3. CASE RestoreTag(t)
  <2>1. /\ pc' = [pc EXCEPT ![t] = Back[pc[t]]] /\ Back[pc[t]] \in {"spawn", "respawn"}
        /\ UNCHANGED <<agent, plan, seen, spawned>> /\ pc[t] \in {"tag", "retag"}
        /\ known' \subseteq known \cup {spawned[t]}
        /\ spawned[t] \in known' \ known => agent[spawned[t]] # 0
    BY <1>3 DEF RestoreTag, Back
  <2>2. Walking(t)
    BY <2>1 DEF Walking
  <2>3. \A u \in Task : Walking(u)' => u = t
    BY <1>0, <1>p, <2>1, <2>2 DEF Walking
  <2>4. ASSUME NEW old \in Pane, NEW p \in known', agent[p] = plan[t][old]
        PROVE  plan[t][old] \in seen[t]
    <3>1. CASE p \in known
      BY <1>0, <2>2, <2>4, <3>1 DEF Fresh
    <3>2. CASE p \notin known
      BY <1>0, <2>1, <2>4, <3>2 DEF Fresh
    <3> QED BY <3>1, <3>2
  <2>5. pc'[t] \notin {"tag", "retag"}
    BY <1>p, <2>1
  <2> QED BY <2>1, <2>3, <2>4, <2>5 DEF Fresh, Walking
<1>4. ASSUME NEW old \in Pane, RestoreSkip(t, old)
      PROVE  Fresh'
  <2>1. /\ plan' = [plan EXCEPT ![t][old] = 0]
        /\ seen' = [seen EXCEPT ![t] = @ \cup {plan[t][old]}]
        /\ UNCHANGED <<agent, known, pc, spawned>>
    BY <1>4 DEF RestoreSkip
  <2>2. \A u \in Task, q \in Pane : plan'[u][q] \in {plan[u][q], 0} /\ seen[u] \subseteq seen'[u]
    BY <1>p, <2>1
  <2>3. \A u \in Task : Walking(u)' <=> Walking(u)
    BY <2>1 DEF Walking
  <2>4. ASSUME NEW u \in Task, Walking(u), NEW q \in Pane, NEW k \in known, agent[k] = plan'[u][q]
        PROVE  plan'[u][q] \in seen'[u]
    <3>1. k \in Pane /\ plan'[u][q] = plan[u][q]
      BY <1>p, <2>2, <2>4
    <3>2. plan[u][q] \in seen[u]
      BY <1>0, <2>4, <3>1 DEF Fresh
    <3> QED BY <2>2, <3>1, <3>2
  <2>5. ASSUME NEW u \in Task, pc[u] \in {"tag", "retag"}, NEW q \in Pane,
               agent[spawned[u]] = plan'[u][q]
        PROVE  plan'[u][q] \in seen'[u] \cup {0}
    BY <1>0, <2>2, <2>5 DEF Fresh
  <2> QED BY <2>1, <2>3, <2>4, <2>5 DEF Fresh
<1>5. ASSUME NEW old \in Pane, NEW p \in Pane, RestoreSpawn(t, old, p)
      PROVE  Fresh'
  <2>1. /\ Walking(t) /\ agent[p] = 0
        /\ plan' = [plan EXCEPT ![t][old] = 0]
        /\ seen' = [seen EXCEPT ![t] = @ \cup {plan[t][old]}]
        /\ spawned' = [spawned EXCEPT ![t] = p]
        /\ agent' = [agent EXCEPT ![p] = plan[t][old]]
        /\ pc' = [pc EXCEPT ![t] = Tag[pc[t]]]
        /\ UNCHANGED known
    BY <1>5 DEF RestoreSpawn, Walking
  <2>2. \A u \in Task : Walking(u)' => u = t
    BY <1>0, <1>p, <2>1 DEF Walking
  <2>3. /\ \A q \in Pane : plan'[t][q] \in {plan[t][q], 0}
        /\ seen'[t] = seen[t] \cup {plan[t][old]}
        /\ \A q \in known : agent'[q] = agent[q] /\ agent[q] # 0
        /\ spawned'[t] = p /\ agent'[p] = plan[t][old]
    BY <1>p, <2>1
  <2>4. \A q \in Pane, k \in known : agent[k] = plan[t][q] => plan[t][q] \in seen[t]
    BY <1>0, <2>1 DEF Fresh
  <2>5. \A q \in Pane, k \in known' : agent'[k] = plan'[t][q] => plan'[t][q] \in seen'[t]
    BY <2>1, <2>3, <2>4
  <2>6. \A q \in Pane : agent'[spawned'[t]] = plan'[t][q] => plan'[t][q] \in seen'[t] \cup {0}
    BY <2>3
  <2> QED BY <2>2, <2>5, <2>6 DEF Fresh, Walking
<1> QED
  BY <1>1, <1>2, <1>3, <1>4, <1>5 DEF RestorePanes

LEMMA FreshStep ==
  ASSUME Alone, ~MayRebind, SpawnInv, [Next]_vars
  PROVE  Fresh'
<1>0. TypeOK /\ Recorded /\ Fresh
  BY DEF SpawnInv
<1> USE Constants DEF Go, Proceed, tmuxVars, taskVars
<1>p. /\ agent = [p \in Pane |-> agent[p]] /\ known \subseteq Pane
      /\ pc = [u \in Task |-> pc[u]]
      /\ plan = [u \in Task |-> plan[u]]
      /\ seen = [u \in Task |-> seen[u]]
      /\ spawned = [u \in Task |-> spawned[u]]
      /\ Main \in Task /\ Request \subseteq Task
  BY <1>0 DEF TypeOK, Task
<1> DEFINE Passes ==
      \A u \in Task : Walking(u)' =>
        /\ pc'[u] = pc[u]
        /\ plan'[u] = plan[u] /\ seen'[u] = seen[u] /\ spawned'[u] = spawned[u]
<1>1. CASE UNCHANGED vars
  BY <1>0, <1>1 DEF vars, Fresh, Walking
<1>2. ASSUME NEW t \in Task, Backup(t) \/ (t \in Request /\ Ask(t))
      PROVE  Fresh'
  <2>1. CASE Backup(t)
    <3>1. UNCHANGED <<agent, known>>
      BY <2>1 DEF Backup, BackupList, BackupRefresh, BackupWrite, BackupChoose
    <3>2. Passes
      BY <2>1, <1>p DEF Backup, BackupList, BackupRefresh, BackupWrite, BackupChoose, Finish, Walking
    <3> QED BY <1>0, <3>1, <3>2, FreshKept
  <2>2. CASE t \in Request /\ Ask(t)
    <3>1. UNCHANGED <<agent, known>>
      BY <2>2 DEF Ask, Restore, Revive, ReviveFind, ReviveWalked, ReviveRecord
    <3>2. Passes
      BY <2>2, <1>p DEF Ask, Restore, Revive, ReviveFind, ReviveWalked, ReviveRecord, Finish, Walking
    <3> QED BY <1>0, <3>1, <3>2, FreshKept
  <2> QED BY <1>2, <2>1, <2>2
<1>3. ASSUME NEW p \in Pane, NEW s \in Session, Run(p, s)
      PROVE  Fresh'
  <2>1. /\ agent' = [agent EXCEPT ![p] = s] /\ known' = known \cup {p}
        /\ s \notin born \cup {0} /\ agent[p] = 0
        /\ UNCHANGED <<pc, plan, seen, spawned>>
    BY <1>3 DEF Run
  <2>2. \A u \in Task, q \in Pane : plan[u][q] # s
    BY <1>0, <2>1 DEF Recorded
  <2>3. \A q \in Pane : agent'[q] = IF q = p THEN s ELSE agent[q]
    BY <1>p, <2>1
  <2>4. \A u \in Task : Walking(u)' <=> Walking(u)
    BY <2>1 DEF Walking
  <2>5. \A u \in Task : pc[u] \in {"tag", "retag"} => spawned[u] \in Pane
    BY <1>0 DEF TypeOK
  <2>6. ASSUME NEW u \in Task, Walking(u), NEW q \in Pane, NEW k \in known', agent'[k] = plan[u][q]
        PROVE  plan[u][q] \in seen[u]
    <3>1. k # p /\ k \in known /\ agent'[k] = agent[k]
      BY <1>p, <2>1, <2>2, <2>3, <2>6
    <3> QED BY <1>0, <2>6, <3>1 DEF Fresh
  <2>7. ASSUME NEW u \in Task, pc[u] \in {"tag", "retag"}, NEW q \in Pane,
               agent'[spawned[u]] = plan[u][q]
        PROVE  plan[u][q] \in seen[u] \cup {0}
    <3>1. spawned[u] # p /\ agent'[spawned[u]] = agent[spawned[u]]
      BY <2>2, <2>3, <2>5, <2>7
    <3> QED BY <1>0, <2>7, <3>1 DEF Fresh
  <2> QED BY <2>1, <2>4, <2>6, <2>7 DEF Fresh
<1>4. ASSUME NEW p \in Pane, NEW s \in Session, Rebind(p, s)
      PROVE  Fresh'
  <2>1. UNCHANGED pc /\ \A u \in Task : ~Walking(u)
    BY <1>4 DEF Rebind, Restoring, Walking
  <2> QED BY <2>1 DEF Fresh, Walking
<1>5. ASSUME \/ \E p \in Pane, g \in Grave : Die(p, g)
             \/ TmuxCrash \/ Reboot
      PROVE  Fresh'
  <2>1. Passes
    BY <1>5, <1>p DEF Die, TmuxCrash, Reboot, Stopped, Walking
  <2>2. /\ known' \subseteq known
        /\ \A p \in Pane : agent'[p] \in {agent[p], 0} /\ (p \in known' => agent'[p] = agent[p])
    BY <1>5, <1>p DEF Die, TmuxCrash, Reboot, TmuxLost, NoPoint
  <2> QED BY <1>0, <2>1, <2>2, FreshKept
<1>6. CASE Crash \/ Start \/ StartWithoutPoint \/ StartPending \/ StartRestore
  <2>1. Passes
    BY <1>6, <1>p DEF Crash, Stopped, Start, StartWithoutPoint, StartPending, StartRestore, Walking
  <2>2. UNCHANGED <<agent, known>>
    BY <1>6 DEF Crash, Start, StartWithoutPoint, StartPending, StartRestore
  <2> QED BY <1>0, <2>1, <2>2, FreshKept
<1>7. CASE \E t \in Task : RestorePanes(t) \/ Backup(t)
  BY <1>2, <1>7, FreshWalk
<1>8. CASE \E t \in Request : Ask(t)
  BY <1>2, <1>8, <1>p
<1> QED
  BY <1>1, <1>3, <1>4, <1>5, <1>6, <1>7, <1>8 DEF Next

(* With one request at a time, and no session resumed by hand while a pass *)
(* is under way, nothing that starts a session starts one that a listed    *)
(* pane runs: not after deaths and revivals, losses of the tmux server, or *)
(* crashes of the daemon in the middle of a pass.                          *)
THEOREM SpawnsNew == Alone /\ ~MayRebind => (Spec => SpawnsAreNew)
<1> DEFINE New == \A p \in Pane : agent[p] = 0 /\ agent'[p] # 0 => agent'[p] \notin Running
<1>1. ASSUME Alone, ~MayRebind PROVE Spec => SpawnsAreNew
  <2>1. Init => SpawnInv
    BY TypeInit, ChoiceInit, Constants
    DEF Init, StoreInit, SpawnInv, Roles, Reviving, Recorded, Fresh, Walking, NoPoint, Task
  <2>2. SpawnInv /\ [Next]_vars => SpawnInv'
    BY <1>1, TypeStep, ChoiceStep, RolesStep, RecordedStep, FreshStep DEF SpawnInv
  <2>3. SpawnInv /\ [Next]_vars => New
    <3> SUFFICES ASSUME SpawnInv, [Next]_vars, NEW p \in Pane, agent[p] = 0, agent'[p] # 0
                 PROVE  agent'[p] \notin Running
      OBVIOUS
    <3>0. /\ agent = [q \in Pane |-> agent[q]] /\ known \subseteq {q \in Pane : agent[q] # 0}
          /\ Recorded /\ Fresh
      BY DEF SpawnInv, TypeOK
    <3>1. ASSUME NEW t \in Task, NEW old \in Pane, NEW q \in Pane, RestoreSpawn(t, old, q)
          PROVE  agent'[p] \notin Running
      <4>1. Walking(t) /\ agent' = [agent EXCEPT ![q] = plan[t][old]] /\ plan[t][old] \notin seen[t]
        BY <3>1 DEF RestoreSpawn, Walking
      <4>2. agent'[p] = plan[t][old]
        BY <3>0, <4>1
      <4> QED BY <3>0, <4>1, <4>2 DEF Fresh, Running
    <3>2. ASSUME NEW q \in Pane, NEW s \in Session, Run(q, s)
          PROVE  agent'[p] \notin Running
      <4>1. agent'[p] = s /\ s \notin born /\ s # 0
        BY <3>0, <3>2, Constants DEF Run
      <4> QED BY <3>0, <4>1 DEF Recorded, Running
    <3>3. ~(UNCHANGED agent)
      OBVIOUS
    <3>4. ASSUME NEW q \in Pane, NEW s \in Session, Rebind(q, s) PROVE FALSE
      BY <3>0, <3>4 DEF Rebind
    <3>5. ASSUME \/ \E q \in Pane, g \in Grave : Die(q, g)
                 \/ TmuxCrash \/ Reboot
          PROVE  FALSE
      BY <3>0, <3>5 DEF Die, TmuxCrash, Reboot, TmuxLost, NoPoint
    <3>6. ASSUME Crash \/ Start \/ StartWithoutPoint \/ StartPending \/ StartRestore \/ UNCHANGED vars
          PROVE  UNCHANGED agent
      BY <3>6 DEF Crash, Start, StartWithoutPoint, StartPending, StartRestore, vars, tmuxVars
    <3>7. ASSUME NEW t \in Task, RestorePanes(t) \/ Backup(t) \/ Ask(t)
          PROVE  UNCHANGED agent \/ \E old, q \in Pane : RestoreSpawn(t, old, q)
      BY <3>7 DEF RestorePanes, RestoreList, RestoreRefused, RestoreTag, RestoreWalked,
                  RestoreResolve, RestoreSkip, Backup, BackupList, BackupRefresh, BackupWrite,
                  BackupChoose, Ask, Restore, Revive, ReviveFind, ReviveWalked, ReviveRecord,
                  tmuxVars
    <3> QED
      BY <3>1, <3>2, <3>3, <3>4, <3>5, <3>6, <3>7 DEF Next, Task
  <2> QED
    BY <2>1, <2>2, <2>3, PTL DEF Spec, SpawnsAreNew
<1> QED
  BY <1>1

=============================================================================
