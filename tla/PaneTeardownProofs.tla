------------------------- MODULE PaneTeardownProofs -------------------------
(* Proofs of the safety properties of PaneTeardown, for any number of      *)
(* panes, reconcile passes, kills and hooks.                               *)
EXTENDS PaneTeardown, TLAPS

(* TypeOK is preserved by every step of the daemon and of tmux.            *)
LEMMA TypeOKStep == TypeOK /\ [Next]_vars => TypeOK'
<1> SUFFICES ASSUME TypeOK, [Next]_vars
             PROVE  TypeOK'
  OBVIOUS
<1> USE ActorsAssumption
    DEF TypeOK, Actor, Cause, Grave, vars, tmuxVars, recVars, killVars,
        hookVars
<1>1. CASE UNCHANGED vars
  BY <1>1
<1>2. ASSUME NEW p \in Pane, Exit(p) \/ ExternalKill(p)
      PROVE  TypeOK'
  BY <1>2 DEF Exit, ExternalKill
<1>3. CASE SessionKilled
  BY <1>3 DEF SessionKilled
<1>4. CASE ServerDies
  BY <1>4 DEF ServerDies
<1>5. ASSUME NEW p \in Pane, RunHandler(p)
      PROVE  TypeOK'
  <2>1. CASE Spawn(p)
    BY <2>1 DEF Spawn
  <2>2. CASE Register(p)
    BY <2>2 DEF Register, Touched
  <2>3. CASE Mark(p)
    BY <2>3 DEF Mark
  <2>4. CASE Seed(p)
    BY <2>4 DEF Seed
  <2> QED BY <1>5, <2>1, <2>2, <2>3, <2>4 DEF RunHandler
<1>6. ASSUME NEW c \in Reconciler, Reconcile(c)
      PROVE  TypeOK'
  <2>1. CASE List(c)
    <3>1. \E seen, dead \in SUBSET Pane, b \in BOOLEAN :
            /\ listed' = [listed EXCEPT ![c] = seen]
            /\ husks' = [husks EXCEPT ![c] = dead]
            /\ blind' = [blind EXCEPT ![c] = b]
      <4>1. CASE server = "up"
        <5>1. PICK seen \in SUBSET {p \in Pane : Exists(p)} :
                /\ listed' = [listed EXCEPT ![c] = seen]
                /\ husks' = [husks EXCEPT ![c] =
                               {p \in seen : tmux[p] = "dead"}]
                /\ blind' = [blind EXCEPT ![c] = FALSE]
          BY <2>1, <4>1 DEF List
        <5>2. {p \in seen : tmux[p] = "dead"} \in SUBSET Pane
          OBVIOUS
        <5> QED BY <5>1, <5>2
      <4>2. CASE server # "up"
        BY <2>1, <4>2 DEF List
      <4> QED BY <4>1, <4>2
    <3>2. PICK seen, dead \in SUBSET Pane, b \in BOOLEAN :
            /\ listed' = [listed EXCEPT ![c] = seen]
            /\ husks' = [husks EXCEPT ![c] = dead]
            /\ blind' = [blind EXCEPT ![c] = b]
      BY <3>1
    <3>3. /\ rpc' = [rpc EXCEPT ![c] = "listed"]
          /\ UNCHANGED <<tmuxVars, managed, identity, run, graves, rpane,
                         todo, killVars, hookVars>>
      BY <2>1 DEF List
    <3> QED BY <3>2, <3>3
  <2>2. CASE Snapshot(c)
    BY <2>2 DEF Snapshot, Suspects
  <2>3. CASE RecordDead(c)
    BY <2>3 DEF RecordDead, Bury
  <2>4. CASE ClearHusk(c)
    BY <2>4 DEF ClearHusk, KilledInTmux
  <2>5. CASE ClaimVanished(c)
    BY <2>5 DEF ClaimVanished
  <2>6. CASE RecordVanished(c)
    BY <2>6 DEF RecordVanished, Bury
  <2>7. CASE FinishPass(c)
    BY <2>7 DEF FinishPass
  <2>8. ASSUME NEW p \in Pane, ClaimDead(c, p)
        PROVE  TypeOK'
    BY <2>8 DEF ClaimDead
  <2>9. ASSUME NEW p \in Pane, KeepPane(c, p)
        PROVE  TypeOK'
    BY <2>9 DEF KeepPane
  <2>10. ASSUME NEW p \in Pane, FindGone(c, p)
         PROVE  TypeOK'
    BY <2>10 DEF FindGone
  <2> QED
    BY <1>6, <2>1, <2>2, <2>3, <2>4, <2>5, <2>6, <2>7, <2>8, <2>9, <2>10
       DEF Reconcile
<1>7. ASSUME NEW k \in Killer, Kill(k)
      PROVE  TypeOK'
  <2>1. ASSUME NEW p \in Pane, KillAdmit(k, p)
        PROVE  TypeOK'
    BY <2>1 DEF KillAdmit
  <2>2. CASE KillRemove(k)
    BY <2>2 DEF KillRemove
  <2>3. CASE KillTmux(k)
    BY <2>3 DEF KillTmux, KilledInTmux
  <2>4. CASE KillTmuxFails(k)
    BY <2>4 DEF KillTmuxFails
  <2>5. CASE KillRecord(k)
    BY <2>5 DEF KillRecord, Bury
  <2> QED BY <1>7, <2>1, <2>2, <2>3, <2>4, <2>5 DEF Kill
<1>8. ASSUME NEW h \in HookTask, Hook(h)
      PROVE  TypeOK'
  <2>1. CASE HookTouch(h)
    BY <2>1 DEF HookTouch, Touched
  <2>2. ASSUME NEW p \in Pane, HookAdmit(h, p)
        PROVE  TypeOK'
    BY <2>2 DEF HookAdmit
  <2> QED BY <1>8, <2>1, <2>2 DEF Hook
<1> QED
  BY <1>1, <1>2, <1>3, <1>4, <1>5, <1>6, <1>7, <1>8 DEF Next, Environment

(* Every variable of the teardown protocol keeps its type.                 *)
THEOREM TypeCorrect == Spec => []TypeOK
<1>1. Init => TypeOK
  BY ActorsAssumption DEF Init, TypeOK
<1> QED BY <1>1, TypeOKStep, PTL DEF Spec

-----------------------------------------------------------------------------
(* What makes the removal from managed_panes a claim.                      *)

(* The Run handler inserts a pane once.                                    *)
Entered(p) == run[p] \in {"registered", "marked", "done"}

(* Out of managed_panes for good.                                          *)
Left(p) == Entered(p) /\ p \notin managed

Claims(c, p) == rpc[c] \in {"capture", "bury"} /\ rpane[c] = p

Reconciled(p) == \E g \in graves[p] : g.by \in Reconciler

(* A pass that holds a claim, a kill past its removal and a record of a    *)
(* pass each know that their pane has left managed_panes for good; a claim *)
(* is held by one pass and precedes its record.                            *)
ClaimInv ==
  /\ \A p \in managed : Entered(p) /\ identity[p] # "none"
  /\ \A c \in Reconciler, p \in Pane :
       Claims(c, p) => Left(p) /\ ~Reconciled(p)
  /\ \A c, d \in Reconciler, p \in Pane :
       Claims(c, p) /\ Claims(d, p) => c = d
  /\ \A p \in Pane : Reconciled(p) => Left(p)
  /\ \A k \in Killer :
       /\ kpc[k] = "reparent" => Entered(kpane[k])
       /\ kpc[k] \in {"kill", "bury"} => Left(kpane[k])
  /\ ReconcilersRecordOnce

(* ClaimInv is preserved by every step.                                    *)
LEMMA ClaimStep == TypeOK /\ ClaimInv /\ [Next]_vars => ClaimInv'
<1> SUFFICES ASSUME TypeOK, ClaimInv, [Next]_vars
             PROVE  ClaimInv'
  OBVIOUS
<1> USE ActorsAssumption
    DEF ClaimInv, Entered, Left, Claims, Reconciled, ReconcilersRecordOnce,
        vars, tmuxVars, recVars, killVars, hookVars
<1>1. CASE UNCHANGED vars
  BY <1>1
<1>2. CASE Environment
  <2>1. UNCHANGED <<managed, identity, run, graves, recVars, killVars>>
    BY <1>2 DEF Environment, Exit, ExternalKill, SessionKilled, ServerDies
  <2> QED BY <2>1
<1>5. ASSUME NEW p \in Pane, RunHandler(p)
      PROVE  ClaimInv'
  <2>1. CASE Spawn(p)
    BY <2>1 DEF Spawn, TypeOK
  <2>2. CASE Register(p)
    BY <2>2 DEF Register, Touched, TypeOK
  <2>3. CASE Mark(p)
    BY <2>3 DEF Mark, TypeOK
  <2>4. CASE Seed(p)
    BY <2>4 DEF Seed, TypeOK
  <2> QED BY <1>5, <2>1, <2>2, <2>3, <2>4 DEF RunHandler
<1>6. ASSUME NEW c \in Reconciler, Reconcile(c)
      PROVE  ClaimInv'
  <2>1. CASE List(c)
    BY <2>1 DEF List, TypeOK
  <2>2. CASE Snapshot(c)
    BY <2>2 DEF Snapshot, TypeOK
  <2>3. CASE RecordDead(c)
    BY <2>3 DEF RecordDead, Bury, TypeOK
  <2>4. CASE ClearHusk(c)
    BY <2>4 DEF ClearHusk, TypeOK
  <2>5. CASE ClaimVanished(c)
    <3>1. CASE rpane[c] \in managed
      BY <2>5, <3>1 DEF ClaimVanished, TypeOK
    <3>2. CASE rpane[c] \notin managed
      <4>1. /\ UNCHANGED <<managed, identity, run, graves, kpc, kpane>>
            /\ rpc' = [rpc EXCEPT ![c] = "walk"]
            /\ rpane' = [rpane EXCEPT ![c] = NoPane]
        BY <2>5, <3>2 DEF ClaimVanished
      <4> QED BY <4>1 DEF TypeOK
    <3> QED BY <3>1, <3>2
  <2>6. CASE RecordVanished(c)
    BY <2>6 DEF RecordVanished, Bury, TypeOK
  <2>7. CASE FinishPass(c)
    BY <2>7 DEF FinishPass, TypeOK
  <2>8. ASSUME NEW p \in Pane, ClaimDead(c, p)
        PROVE  ClaimInv'
    BY <2>8 DEF ClaimDead, TypeOK
  <2>9. ASSUME NEW p \in Pane, KeepPane(c, p)
        PROVE  ClaimInv'
    BY <2>9 DEF KeepPane, TypeOK
  <2>10. ASSUME NEW p \in Pane, FindGone(c, p)
         PROVE  ClaimInv'
    BY <2>10 DEF FindGone, TypeOK
  <2> QED
    BY <1>6, <2>1, <2>2, <2>3, <2>4, <2>5, <2>6, <2>7, <2>8, <2>9, <2>10
       DEF Reconcile
<1>7. ASSUME NEW k \in Killer, Kill(k)
      PROVE  ClaimInv'
  <2>1. ASSUME NEW p \in Pane, KillAdmit(k, p)
        PROVE  ClaimInv'
    BY <2>1 DEF KillAdmit, TypeOK
  <2>2. CASE KillRemove(k)
    BY <2>2 DEF KillRemove, TypeOK
  <2>3. CASE KillTmux(k)
    BY <2>3 DEF KillTmux, TypeOK
  <2>4. CASE KillTmuxFails(k)
    BY <2>4 DEF KillTmuxFails, TypeOK
  <2>5. CASE KillRecord(k)
    BY <2>5 DEF KillRecord, Bury, TypeOK
  <2> QED BY <1>7, <2>1, <2>2, <2>3, <2>4, <2>5 DEF Kill
<1>8. ASSUME NEW h \in HookTask, Hook(h)
      PROVE  ClaimInv'
  <2>1. CASE HookTouch(h)
    BY <2>1 DEF HookTouch, Touched, TypeOK
  <2>2. ASSUME NEW p \in Pane, HookAdmit(h, p)
        PROVE  ClaimInv'
    BY <2>2 DEF HookAdmit
  <2> QED BY <1>8, <2>1, <2>2 DEF Hook
<1> QED
  BY <1>1, <1>2, <1>5, <1>6, <1>7, <1>8 DEF Next

(* The claim protocol's invariant.                                         *)
LEMMA ClaimInvariant == Spec => [](TypeOK /\ ClaimInv)
<1>1. Init => ClaimInv
  BY ActorsAssumption
     DEF Init, ClaimInv, Entered, Left, Claims, Reconciled,
         ReconcilersRecordOnce
<1>2. Init => TypeOK
  BY ActorsAssumption DEF Init, TypeOK
<1> QED BY <1>1, <1>2, TypeOKStep, ClaimStep, PTL DEF Spec

(* A pane's death is recorded by at most one reconcile pass.               *)
THEOREM RecordOnce == Spec => []ReconcilersRecordOnce
<1>1. ClaimInv => ReconcilersRecordOnce
  BY DEF ClaimInv
<1> QED BY <1>1, ClaimInvariant, PTL

(* Every managed pane has its in-memory state.                             *)
THEOREM HaveState == Spec => []ManagedPanesHaveState
<1>1. ClaimInv => ManagedPanesHaveState
  BY DEF ClaimInv, ManagedPanesHaveState
<1> QED BY <1>1, ClaimInvariant, PTL

-----------------------------------------------------------------------------
(* Why an adopted pane is never disowned on a stale listing.               *)

Ended(p) == tmux[p] \in {"dead", "gone"}

(* What a pass knows of an adopted pane stays true although tmux and the   *)
(* other tasks go on between its awaits: a listed husk has ended, and so   *)
(* has the pane a pass holds a claim on; a pane about to be claimed as     *)
(* vanished, or claimed as such, is gone.                                  *)
AdoptedInv ==
  \A p \in Recovered :
    /\ p \in marked
    /\ run[p] = "done"
    /\ tmux[p] # "absent"
    /\ \A c \in Reconciler :
         /\ p \in husks[c] => Ended(p)
         /\ rpc[c] \in {"capture", "husk"} /\ rpane[c] = p => Ended(p)
         /\ rpc[c] \in {"vanish", "bury"} /\ rpane[c] = p => tmux[p] = "gone"
    /\ \/ tmux[p] # "live"
       \/ \E k \in Killer : kpane[k] = p /\ kpc[k] # "idle"
       \/ p \in managed
    /\ \A g \in graves[p] :
         /\ g.cause \in {"vanished", "server_gone"} => tmux[p] = "gone"
         /\ g.cause = "self_exit" => Ended(p)

(* AdoptedInv is preserved by every step.                                  *)
LEMMA AdoptedStep == TypeOK /\ AdoptedInv /\ [Next]_vars => AdoptedInv'
<1> SUFFICES ASSUME TypeOK, AdoptedInv, [Next]_vars
             PROVE  AdoptedInv'
  OBVIOUS
<1> USE ActorsAssumption
    DEF AdoptedInv, Ended, vars, tmuxVars, recVars, killVars, hookVars
<1>1. CASE UNCHANGED vars
  BY <1>1
<1>2. ASSUME NEW p \in Pane, Exit(p) \/ ExternalKill(p)
      PROVE  AdoptedInv'
  BY <1>2 DEF Exit, ExternalKill, Exists, TypeOK
<1>3. CASE SessionKilled
  BY <1>3 DEF SessionKilled, Exists, TypeOK
<1>4. CASE ServerDies
  BY <1>4 DEF ServerDies, Exists, TypeOK
<1>5. ASSUME NEW p \in Pane, RunHandler(p)
      PROVE  AdoptedInv'
  BY <1>5 DEF RunHandler, Spawn, Register, Mark, Seed, TypeOK
<1>6. ASSUME NEW c \in Reconciler, Reconcile(c)
      PROVE  AdoptedInv'
  <2>1. CASE List(c)
    <3>1. \A p \in Recovered : p \in husks'[c] => tmux[p] = "dead"
      BY <2>1 DEF List, TypeOK
    <3>2. /\ \A d \in Reconciler : d # c => husks'[d] = husks[d]
          /\ rpc' = [rpc EXCEPT ![c] = "listed"]
          /\ UNCHANGED <<tmuxVars, managed, run, graves, rpane, killVars>>
      BY <2>1 DEF List, TypeOK
    <3> QED BY <3>1, <3>2 DEF TypeOK
  <2>2. CASE Snapshot(c)
    BY <2>2 DEF Snapshot, TypeOK
  <2>3. CASE RecordDead(c)
    BY <2>3 DEF RecordDead, Bury, TypeOK
  <2>4. CASE ClearHusk(c)
    BY <2>4 DEF ClearHusk, KilledInTmux, Exists, TypeOK
  <2>5. CASE ClaimVanished(c)
    <3>1. /\ \/ rpc' = [rpc EXCEPT ![c] = "bury"] /\ rpane' = rpane
             \/ /\ rpc' = [rpc EXCEPT ![c] = "walk"]
                /\ rpane' = [rpane EXCEPT ![c] = NoPane]
          /\ rpc[c] = "vanish"
          /\ managed' = managed \ {rpane[c]}
          /\ UNCHANGED <<tmuxVars, run, graves, husks, killVars>>
      BY <2>5 DEF ClaimVanished
    <3>2. \A p \in Recovered : p = rpane[c] => tmux[p] = "gone"
      BY <3>1
    <3> QED BY <3>1, <3>2 DEF TypeOK
  <2>6. CASE RecordVanished(c)
    BY <2>6 DEF RecordVanished, Bury, TypeOK
  <2>7. CASE FinishPass(c)
    BY <2>7 DEF FinishPass, TypeOK
  <2>8. ASSUME NEW p \in Pane, ClaimDead(c, p)
        PROVE  AdoptedInv'
    BY <2>8 DEF ClaimDead, TypeOK
  <2>9. ASSUME NEW p \in Pane, KeepPane(c, p)
        PROVE  AdoptedInv'
    BY <2>9 DEF KeepPane, TypeOK
  <2>10. ASSUME NEW p \in Pane, FindGone(c, p)
         PROVE  AdoptedInv'
    BY <2>10 DEF FindGone, SaysGone, Exists, TypeOK
  <2> QED
    BY <1>6, <2>1, <2>2, <2>3, <2>4, <2>5, <2>6, <2>7, <2>8, <2>9, <2>10
       DEF Reconcile
<1>7. ASSUME NEW k \in Killer, Kill(k)
      PROVE  AdoptedInv'
  <2>1. ASSUME NEW p \in Pane, KillAdmit(k, p)
        PROVE  AdoptedInv'
    BY <2>1 DEF KillAdmit, TypeOK
  <2>2. CASE KillRemove(k)
    BY <2>2 DEF KillRemove, TypeOK
  <2>3. CASE KillTmux(k)
    BY <2>3 DEF KillTmux, KilledInTmux, Exists, TypeOK
  <2>4. CASE KillTmuxFails(k)
    BY <2>4 DEF KillTmuxFails, TypeOK
  <2>5. CASE KillRecord(k)
    BY <2>5 DEF KillRecord, Bury, TypeOK
  <2> QED BY <1>7, <2>1, <2>2, <2>3, <2>4, <2>5 DEF Kill
<1>8. ASSUME NEW h \in HookTask, Hook(h)
      PROVE  AdoptedInv'
  BY <1>8 DEF Hook, HookTouch, HookAdmit, TypeOK
<1> QED
  BY <1>1, <1>2, <1>3, <1>4, <1>5, <1>6, <1>7, <1>8 DEF Next, Environment

(* The invariant of the adopted panes.                                     *)
LEMMA AdoptedInvariant == Spec => []AdoptedInv
<1>1. Init => AdoptedInv
  BY ActorsAssumption DEF Init, AdoptedInv, Ended
<1> QED BY <1>1, TypeCorrect, AdoptedStep, PTL DEF Spec

(* A pane adopted at start is managed as long as it lives and nobody asks  *)
(* for its death.                                                          *)
THEOREM AdoptedPanesKept == Spec => []RecoveredPanesKept
<1>1. AdoptedInv => RecoveredPanesKept
  BY DEF AdoptedInv, RecoveredPanesKept
<1> QED BY <1>1, AdoptedInvariant, PTL

(* A death that a pass records of an adopted pane has happened.            *)
THEOREM AdoptedDeathsReal == Spec => []RecordedDeathsAreReal
<1>1. AdoptedInv => RecordedDeathsAreReal
  BY DEF AdoptedInv, RecordedDeathsAreReal, Ended
<1> QED BY <1>1, AdoptedInvariant, PTL

-----------------------------------------------------------------------------
(* Why a death that only passes record comes with the pane's identity.     *)

Unwanted(p) == \A k \in Killer : kpc[k] = "idle" \/ kpane[k] # p

(* While nobody asked for the death of a pane, the pass that holds the     *)
(* claim on it is the only task that takes its state out of the map.       *)
DescribedInv ==
  \A p \in Pane :
    Unwanted(p) =>
      /\ \A c \in Reconciler : Claims(c, p) => identity[p] # "none"
      /\ \A g \in graves[p] : g.identity # "none"

(* DescribedInv is preserved by every step.                                *)
LEMMA DescribedStep ==
  TypeOK /\ ClaimInv /\ DescribedInv /\ [Next]_vars => DescribedInv'
<1> SUFFICES ASSUME TypeOK, ClaimInv, DescribedInv, [Next]_vars,
                    NEW p \in Pane, Unwanted(p)'
             PROVE  /\ \A c \in Reconciler : Claims(c, p)' => identity'[p] # "none"
                    /\ \A g \in graves'[p] : g.identity # "none"
  BY DEF DescribedInv
<1> USE ActorsAssumption DEF Unwanted, Claims, vars, tmuxVars, recVars, killVars, hookVars
<1> DEFINE Described == /\ \A c \in Reconciler : Claims(c, p) => identity[p] # "none"
                        /\ \A g \in graves[p] : g.identity # "none"
<1>1. Unwanted(p) => Described
  BY DEF DescribedInv
<1>2. CASE UNCHANGED vars
  BY <1>1, <1>2
<1>3. CASE Environment
  BY <1>1, <1>3 DEF Environment, Exit, ExternalKill, SessionKilled, ServerDies
<1>4. ASSUME NEW q \in Pane, RunHandler(q) PROVE Described'
  BY <1>1, <1>4 DEF RunHandler, Spawn, Register, Mark, Seed, Touched, TypeOK
<1>5. ASSUME NEW c \in Reconciler, Reconcile(c) PROVE Described'
  <2>0. Described
    BY <1>1, <1>5 DEF Reconcile, List, Snapshot, RecordDead, ClearHusk, ClaimVanished,
       RecordVanished, FinishPass, ClaimDead, KeepPane, FindGone
  <2>1. CASE List(c) \/ Snapshot(c) \/ FinishPass(c) \/ ClearHusk(c)
    BY <2>0, <2>1 DEF List, Snapshot, FinishPass, ClearHusk, TypeOK
  <2>2. CASE RecordDead(c) \/ RecordVanished(c)
    <3>1. CASE rpane[c] = p
      <4>1. Claims(c, p)
        BY <2>2, <3>1 DEF RecordDead, RecordVanished
      <4>2. \A d \in Reconciler : Claims(d, p) => d = c
        BY <4>1 DEF ClaimInv
      <4>3. \A d \in Reconciler : ~Claims(d, p)'
        BY <2>2, <3>1, <4>2 DEF RecordDead, RecordVanished, TypeOK
      <4>4. \A g \in graves'[p] : g \in graves[p] \/ g.identity = identity[p]
        BY <2>2, <3>1 DEF RecordDead, RecordVanished, Bury, TypeOK
      <4> QED BY <2>0, <4>1, <4>3, <4>4
    <3>2. CASE rpane[c] # p
      BY <2>0, <2>2, <3>2 DEF RecordDead, RecordVanished, Bury, TypeOK
    <3> QED BY <3>1, <3>2
  <2>3. CASE ClaimVanished(c)
    <3>1. graves' = graves /\ identity' = identity
      BY <2>3 DEF ClaimVanished
    <3>2. \A d \in Reconciler : Claims(d, p)' => Claims(d, p) \/ p \in managed
      BY <2>3 DEF ClaimVanished, TypeOK
    <3> QED BY <2>0, <3>1, <3>2 DEF ClaimInv
  <2>4. ASSUME NEW q \in Pane, ClaimDead(c, q) PROVE Described'
    <3>1. graves' = graves /\ identity' = identity
      BY <2>4 DEF ClaimDead
    <3>2. \A d \in Reconciler : Claims(d, p)' => Claims(d, p) \/ p \in managed
      BY <2>4 DEF ClaimDead, TypeOK
    <3> QED BY <2>0, <3>1, <3>2 DEF ClaimInv
  <2>5. ASSUME NEW q \in Pane, KeepPane(c, q) \/ FindGone(c, q) PROVE Described'
    BY <2>0, <2>5 DEF KeepPane, FindGone, TypeOK
  <2> QED BY <1>5, <2>1, <2>2, <2>3, <2>4, <2>5 DEF Reconcile
<1>6. ASSUME NEW k \in Killer, Kill(k) PROVE Described'
  <2>1. ASSUME NEW q \in Pane, KillAdmit(k, q) PROVE Described'
    BY <1>1, <2>1 DEF KillAdmit, TypeOK
  <2>2. CASE KillRemove(k) \/ KillTmux(k) \/ KillTmuxFails(k)
    BY <1>1, <2>2 DEF KillRemove, KillTmux, KillTmuxFails, TypeOK
  <2>3. CASE KillRecord(k)
    BY <1>1, <2>3 DEF KillRecord, Bury, TypeOK
  <2> QED BY <1>6, <2>1, <2>2, <2>3 DEF Kill
<1>7. ASSUME NEW h \in HookTask, Hook(h) PROVE Described'
  BY <1>1, <1>7 DEF Hook, HookTouch, HookAdmit, Touched, TypeOK
<1> QED BY <1>2, <1>3, <1>4, <1>5, <1>6, <1>7 DEF Next

(* The record of a death that nobody asked slopd for has the identity of   *)
(* the pane.                                                               *)
THEOREM DeathsDescribed == Spec => []RecordsDescribeThePane
<1>1. Init => DescribedInv
  BY ActorsAssumption DEF Init, DescribedInv, Claims
<1>2. DescribedInv => RecordsDescribeThePane
  BY DEF DescribedInv, RecordsDescribeThePane, Unwanted
<1> QED BY <1>1, <1>2, DescribedStep, ClaimInvariant, PTL DEF Spec

=============================================================================
