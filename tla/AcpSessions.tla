----------------------------- MODULE AcpSessions -----------------------------
(***************************************************************************)
(* The logical sessions of the ACP adapter and the panes of the daemon     *)
(* they live in.  A session outlives its pane: a pane is evicted, closed   *)
(* or dies, and the session is revived from its grave or resumed from its  *)
(* native session (its conversation); a restarted adapter rebuilds its     *)
(* sessions from the tags of panes and graves.                             *)
(*                                                                         *)
(* Operations that create or remove panes hold session_creation, one at a  *)
(* time; turns and the deaths of panes go on meanwhile.  The recency of    *)
(* sessions is left out: any inactive session may be the victim of an      *)
(* eviction.  AcpTurns has what happens inside a turn.                     *)
(***************************************************************************)
EXTENDS Naturals, Sequences, FiniteSets, SequencesExt

CONSTANTS
  MaxSessions,  \* bound on ids: fresh uuids, and the ids given to panes without one
  MaxPanes,     \* bound on the panes the daemon starts
  None,
  MaxLive,      \* --max-sessions
  Bounds,       \* on ends of the adapter, on troubles (panes that die by themselves,
                \* failing calls and graves revived by somebody else) and on turns
  SlowRevive    \* whether a revived pane may come up after ready_timeout

ASSUME SessionsAssumption ==
  /\ {MaxSessions, MaxPanes, MaxLive} \subseteq Nat \ {0}
  /\ Bounds \subseteq [crashes : Nat, troubles : Nat, prompts : Nat]
  /\ SlowRevive \in BOOLEAN

Session == 1..MaxSessions
Pane == 1..MaxPanes

ASSUME NoneAssumption == None \notin Session \cup Pane

VARIABLES
  panes,     \* the daemon's panes, their tags and native session
  graves,    \* the graves, oldest first; None where one was revived
  sessions,  \* Adapter.sessions
  turns,     \* session/prompt of each session
  stale,     \* the pane a prompt of the session found stale and clears away
  op,        \* the operation that holds session_creation
  mode,      \* whether the adapter serves requests
  maint,     \* whether the maintenance task lives
  primed,    \* conversations that were given the system prompt
  prompted,  \* conversations with an accepted prompt
  deleted,   \* sessions deleted
  strayed,   \* those with another pane up when they were deleted
  left       \* what is left of each bound

daemonVars == <<panes, graves>>
turnVars == <<turns, stale>>
ghostVars == <<primed, prompted, deleted, strayed>>
vars == <<daemonVars, sessions, turnVars, op, mode, maint, ghostVars, left>>

NoPane == [st |-> "new", tags |-> {}, session |-> None, convo |-> None, bound |-> FALSE]
Absent == [st |-> "absent", pane |-> None, grave |-> None, native |-> None,
           delivered |-> FALSE, prompt |-> FALSE, turn |-> FALSE]
NoTurn == [pc |-> "none", pane |-> None, framed |-> FALSE, cancelled |-> FALSE, again |-> FALSE]
Idle == [kind |-> "none", s |-> None, pc |-> "idle", pane |-> None, victim |-> None,
         native |-> None, grave |-> None, resumed |-> FALSE, todo |-> {}, again |-> FALSE]
NoStale == [pc |-> "none", pane |-> None]

Up(p) == p # None /\ panes[p].st = "up"
Known == {s \in Session : sessions[s] # Absent}
Resident == {s \in Session : sessions[s].pane # None}
Residents == {sessions[s].pane : s \in Resident}
Inactive == {s \in Resident : ~sessions[s].turn}
InScope == {p \in Pane : Up(p) /\ "acp" \in panes[p].tags}
Whole(p) == "resumable" \in panes[p].tags /\ panes[p].bound
FreshPanes == {p \in Pane : panes[p].st = "new"}
FirstOf(S) == CHOOSE x \in S : \A y \in S : x <= y      \* ids are used in order
\* Ids never used: of no session, pane or grave.
FreshIds == {s \in Session : /\ sessions[s] = Absent /\ s \notin deleted /\ turns[s] = NoTurn
                             /\ \A p \in Pane : panes[p].session # s}

-----------------------------------------------------------------------------
(* The daemon's side of a call.  Killing a pane buries it with its tags.   *)

Bury(p) == /\ panes' = [panes EXCEPT ![p].st = "gone"]
           /\ graves' = Append(graves, p)
\* kill_pane: an error when the pane is gone already.
Kill(p) == IF Up(p) THEN Bury(p) ELSE UNCHANGED daemonVars
Take(what) == left[what] > 0 /\ left' = [left EXCEPT ![what] = @ - 1]
Start(q, new) == panes' = [panes EXCEPT ![q] = new]
\* scoped_graves, capture_latest_grave: the latest of the session's graves.
GravesOf(s) == {i \in DOMAIN graves : /\ graves[i] # None /\ panes[graves[i]].session = s
                                      /\ "acp" \in panes[graves[i]].tags}
LatestGrave(s) == graves[CHOOSE i \in GravesOf(s) : \A j \in GravesOf(s) : j <= i]

PaneDies(p) ==
  /\ Up(p) /\ Take("troubles") /\ Bury(p)
  /\ UNCHANGED <<sessions, turnVars, op, mode, maint, ghostVars>>

\* The agent reports its native session: as it starts, or (Codex) with its
\* first prompt.
Bind(p) ==
  /\ Up(p) /\ ~panes[p].bound /\ (op.pane = p \/ panes[p].convo \in prompted)
  /\ panes' = [panes EXCEPT ![p].bound = TRUE]
  /\ UNCHANGED <<graves, sessions, turnVars, op, mode, maint, ghostVars, left>>

Revived(g) == [panes[g] EXCEPT !.st = "up"]

\* slopctl revive, of a session the adapter knows: another one is unseen until
\* the next sweep.
SomebodyRevives(g, q) ==
  /\ mode = "serving" /\ g \in Range(graves) /\ panes[g].bound /\ FreshPanes # {} /\ q = FirstOf(FreshPanes)
  /\ "deleted" \notin panes[g].tags /\ panes[g].session \in Known
  /\ Take("troubles")
  /\ Start(q, Revived(g)) /\ graves' = ReplaceAll(graves, g, None)
  /\ UNCHANGED <<sessions, turnVars, op, mode, maint, ghostVars>>

-----------------------------------------------------------------------------
(* Turns, as far as sessions see them.                                     *)

\* sessions'[s] with the pane gone: mark_pane_gone, reconcile_live_sessions.
PaneGone(e) == [e EXCEPT !.pane = None, !.delivered = @ /\ e.native # None]
MarkGone(s, p) ==
  sessions' = IF sessions[s] # Absent /\ sessions[s].pane = p
              THEN [sessions EXCEPT ![s] = PaneGone(@)] ELSE sessions

\* send_prompt succeeds: the conversation has the prompt.
TurnSends(s) ==
  LET t == turns[s] c == panes[t.pane].convo IN
  /\ t.pc = "sending" /\ Up(t.pane)
  /\ turns' = [turns EXCEPT ![s].pc = "accepted"]
  /\ prompted' = prompted \cup {c}
  /\ primed' = IF t.framed THEN primed \cup {c} ELSE primed
  /\ UNCHANGED <<daemonVars, sessions, stale, op, mode, maint, deleted, strayed, left>>

\* mark_session_resumable
TurnMarks(s) ==
  LET p == turns[s].pane e == sessions[s] IN
  /\ turns[s].pc = "accepted"
  /\ turns' = [turns EXCEPT ![s].pc = "running"]
  /\ panes' = IF Up(p) THEN [panes EXCEPT ![p].tags = @ \cup {"resumable"}] ELSE panes
  /\ sessions' = IF e = Absent THEN sessions
                 ELSE [sessions EXCEPT ![s].delivered = TRUE,
                         ![s].native = IF Up(p) /\ panes[p].bound /\ e.pane = p
                                       THEN panes[p].convo ELSE @]
  /\ UNCHANGED <<graves, stale, op, mode, maint, ghostVars, left>>

\* PaneDestroyed, or a SessionEnd of an agent that goes on (a new native
\* session in the same pane): the turn reports the pane as ended.
TurnLosesPane(s) ==
  /\ turns[s].pc = "running"
  /\ Up(turns[s].pane) => Take("troubles")
  /\ ~Up(turns[s].pane) => UNCHANGED left
  /\ MarkGone(s, turns[s].pane)
  /\ turns' = [turns EXCEPT ![s].pc = "ended"]
  /\ UNCHANGED <<daemonVars, stale, op, mode, maint, ghostVars>>

\* Stop, ready, a failure, the timeout, or the cancellation.
TurnEnds(s) ==
  /\ turns[s].pc = "running"
  /\ turns' = [turns EXCEPT ![s].pc = "ended"]
  /\ UNCHANGED <<daemonVars, sessions, stale, op, mode, maint, ghostVars, left>>

\* The send is cancelled or fails: the prompt may have arrived all the same.
TurnFails(s) ==
  LET t == turns[s] c == panes[t.pane].convo IN
  /\ t.pc = "sending"
  /\ t.cancelled => UNCHANGED left
  /\ ~t.cancelled => Take("troubles")
  /\ \E arrived \in {FALSE, Up(t.pane)} :
       primed' = IF t.framed /\ arrived THEN primed \cup {c} ELSE primed
  /\ turns' = [turns EXCEPT ![s].pc = "failed"]
  /\ UNCHANGED <<daemonVars, sessions, stale, op, mode, maint, prompted, deleted, strayed>>

\* "is not managed by slopd": stale_pane_prompt_error
TurnFindsStale(s) ==
  /\ turns[s].pc = "sending" /\ ~Up(turns[s].pane)
  /\ turns' = [turns EXCEPT ![s].pc = "stale"]
  /\ UNCHANGED <<daemonVars, sessions, stale, op, mode, maint, ghostVars, left>>

\* active_turn = None
Release(s, accepted) ==
  sessions' = IF sessions[s].turn
              THEN [sessions EXCEPT ![s].turn = FALSE,
                      ![s].delivered = @ \/ (turns[s].framed /\ accepted)]
              ELSE sessions

TurnReleases(s) ==
  /\ turns[s].pc \in {"ended", "failed"}
  /\ Release(s, turns[s].pc = "ended")
  /\ turns' = [turns EXCEPT ![s] = NoTurn]
  /\ UNCHANGED <<daemonVars, stale, op, mode, maint, ghostVars, left>>

TurnReleasesStale(s) ==
  /\ turns[s].pc = "stale" /\ stale[s] = NoStale
  /\ Release(s, FALSE)
  /\ turns' = [turns EXCEPT ![s] = NoTurn]
  /\ stale' = IF turns[s].again THEN stale
              ELSE [stale EXCEPT ![s] = [pc |-> "kill", pane |-> turns[s].pane]]
  /\ UNCHANGED <<daemonVars, op, mode, maint, ghostVars, left>>

\* The prompt clears the stale pane away; then it starts over, once.
StaleKills(s) ==
  /\ stale[s].pc = "kill"
  /\ Kill(stale[s].pane)
  /\ stale' = [stale EXCEPT ![s].pc = "forget"]
  /\ UNCHANGED <<sessions, turns, op, mode, maint, ghostVars, left>>

\* capture_latest_grave
Captured(e, s) ==
  IF e = Absent \/ GravesOf(s) = {} THEN e
  ELSE LET g == LatestGrave(s) IN
       [e EXCEPT !.grave = g, !.native = IF panes[g].bound THEN panes[g].convo ELSE @]
CaptureGrave(s) == sessions' = [sessions EXCEPT ![s] = Captured(@, s)]

\* mark_pane_gone, then capture_latest_grave
PaneToGrave(s, p) == sessions' = [sessions EXCEPT ![s] =
                       Captured(IF @ # Absent /\ @.pane = p THEN PaneGone(@) ELSE @, s)]

StaleForgetsPane(s) ==
  /\ stale[s].pc = "forget"
  /\ PaneToGrave(s, stale[s].pane)
  /\ stale' = [stale EXCEPT ![s].pc = "again"]
  /\ UNCHANGED <<daemonVars, turns, op, mode, maint, ghostVars, left>>

-----------------------------------------------------------------------------
(* The operations.  Each begins by taking session_creation and frees it    *)
(* with its answer.                                                        *)

Goto(pc) == op' = [op EXCEPT !.pc = pc]
\* An error of recover_sessions ends the adapter; the next one starts over.
Answer == op' = IF mode = "recovering" THEN [Idle EXCEPT !.kind = "recover", !.pc = "rebuild"]
                ELSE Idle
Free == op.pc = "idle" /\ mode = "serving"
Cancelled(s) == [turns EXCEPT ![s].cancelled = @ \/ turns[s] # NoTurn]

New(s) ==
  /\ Free /\ FreshIds # {} /\ s = FirstOf(FreshIds)
  /\ op' = [Idle EXCEPT !.kind = "new", !.s = s, !.pc = "room"]
  /\ UNCHANGED <<daemonVars, sessions, turnVars, mode, maint, ghostVars, left>>

\* Of a session whose pane is up it changes nothing.
Resume(s) ==
  /\ Free /\ s \in Known /\ ~Up(sessions[s].pane)
  /\ op' = [Idle EXCEPT !.kind = "resume", !.s = s, !.pc = "resident"]
  /\ UNCHANGED <<daemonVars, sessions, turnVars, mode, maint, ghostVars, left>>

Prompt(s) ==
  /\ Free /\ s \in Known /\ turns[s] = NoTurn /\ stale[s].pc # "again"
  /\ Take("prompts")
  /\ op' = [Idle EXCEPT !.kind = "prompt", !.s = s, !.pc = "resident"]
  /\ UNCHANGED <<daemonVars, sessions, turnVars, mode, maint, ghostVars>>

PromptAgain(s) ==
  /\ Free /\ stale[s].pc = "again" /\ turns[s] = NoTurn
  /\ stale' = [stale EXCEPT ![s] = NoStale]
  /\ op' = IF s \in Known
           THEN [Idle EXCEPT !.kind = "prompt", !.s = s, !.pc = "resident", !.again = TRUE]
           ELSE op
  /\ UNCHANGED <<daemonVars, sessions, turns, mode, maint, ghostVars, left>>

Delete(s) ==
  /\ Free /\ s \in Known
  /\ turns' = Cancelled(s)
  /\ op' = [Idle EXCEPT !.kind = "delete", !.s = s, !.pc = "resident"]
  /\ UNCHANGED <<daemonVars, sessions, stale, mode, maint, ghostVars, left>>

Close(s) ==
  /\ Free /\ s \in Resident
  /\ turns' = Cancelled(s)
  /\ op' = [Idle EXCEPT !.kind = "close", !.s = s, !.pc = "close", !.pane = sessions[s].pane]
  /\ UNCHANGED <<daemonVars, sessions, stale, mode, maint, ghostVars, left>>

Sweep ==
  /\ Free /\ maint
  /\ op' = [Idle EXCEPT !.kind = "sweep", !.pc = "list"]
  /\ UNCHANGED <<daemonVars, sessions, turnVars, mode, maint, ghostVars, left>>

-----------------------------------------------------------------------------
(* ensure_session_resident, make_live_pane_room, evict_session             *)

\* ps, then reconcile_live_sessions: a session whose pane is not listed
\* loses it and its turn is cancelled.
Dead == {s \in Resident : ~Up(sessions[s].pane)}
Reconciled ==
  [s \in Session |->
     IF s \in Dead THEN PaneGone(sessions[s])
     ELSE IF s \in Resident /\ panes[sessions[s].pane].bound
          THEN [sessions[s] EXCEPT !.native = panes[sessions[s].pane].convo]
          ELSE sessions[s]]
Reconcile ==
  /\ sessions' = Reconciled
  /\ turns' = [s \in Session |-> [turns[s] EXCEPT !.cancelled = @ \/ (s \in Dead /\ sessions[s].turn)]]

EnsureResident ==
  LET known == IF sessions[op.s].pane # None THEN Reconciled ELSE sessions
      e == known[op.s]
  IN
  /\ op.pc = "resident"
  /\ IF sessions[op.s].pane # None THEN Reconcile ELSE UNCHANGED <<sessions, turns>>
  /\ op' = IF e.pane # None THEN (IF op.kind = "resume" THEN Idle ELSE [op EXCEPT !.pc = "use"])
           ELSE IF e.turn THEN Idle     \* "still releasing its previous pane"
           ELSE [op EXCEPT !.pc = "room", !.native = e.native, !.grave = e.grave]
  /\ UNCHANGED <<daemonVars, stale, mode, maint, ghostVars, left>>

\* evict_lru_inactive: "every pane has an active turn" is an error.
Evict(victims) ==
  \/ \E v \in victims : op' = [op EXCEPT !.victim = v, !.pc = "take"]
  \/ victims = {} /\ Answer

MakeRoom ==
  LET live == Resident \ Dead IN
  /\ op.pc = "room"
  /\ Reconcile
  /\ IF Cardinality(live) < MaxLive THEN Goto("start")
     ELSE Evict(live \cap Inactive)
  /\ UNCHANGED <<daemonVars, stale, mode, maint, ghostVars, left>>

\* The maintenance task ends with a panic, a request is never answered.
Panic == Answer /\ maint' = (maint /\ op.kind # "sweep")

TakeVictim ==
  LET e == sessions[op.victim] IN
  /\ op.pc = "take"
  /\ IF e.turn THEN Answer /\ UNCHANGED <<sessions, maint>>
     ELSE IF e.pane = None THEN Panic /\ UNCHANGED sessions
     ELSE /\ sessions' = [sessions EXCEPT ![op.victim].pane = None]
          /\ op' = [op EXCEPT !.pane = e.pane, !.pc = "evict"]
          /\ UNCHANGED maint
  /\ UNCHANGED <<daemonVars, turnVars, mode, ghostVars, left>>

EvictPane ==
  /\ op.pc = "evict"
  /\ Kill(op.pane)
  /\ Goto("bury")
  /\ UNCHANGED <<sessions, turnVars, mode, maint, ghostVars, left>>

\* The kill fails and the pane is still listed.
EvictFails ==
  /\ op.pc = "evict" /\ Up(op.pane) /\ Take("troubles")
  /\ sessions' = IF sessions[op.victim].pane = None
                 THEN [sessions EXCEPT ![op.victim].pane = op.pane] ELSE sessions
  /\ Answer
  /\ UNCHANGED <<daemonVars, turnVars, mode, maint, ghostVars>>

BuryVictim ==
  /\ op.pc = "bury"
  /\ CaptureGrave(op.victim)
  /\ op' = [op EXCEPT !.victim = None, !.pane = None,
                      !.pc = CASE op.kind = "sweep" -> "adopt" [] op.kind = "recover" -> "clear"
                             [] OTHER -> "start"]
  /\ UNCHANGED <<daemonVars, turnVars, mode, maint, ghostVars, left>>

-----------------------------------------------------------------------------
(* revive_pane, start_pane, tag_session_pane                               *)

\* Started q: not of any session until it is installed.
StartedPane(q, resumed) == op' = [op EXCEPT !.pane = q, !.resumed = resumed, !.pc = "tag"]

RevivePane(q) ==
  LET g == op.grave IN
  /\ op.pc = "start" /\ g # None /\ g \in Range(graves) /\ panes[g].bound /\ FreshPanes # {} /\ q = FirstOf(FreshPanes)
  /\ Start(q, Revived(g)) /\ graves' = ReplaceAll(graves, g, None)
  /\ \/ StartedPane(q, TRUE)
     \/ SlowRevive /\ op' = [op EXCEPT !.grave = None]
  /\ UNCHANGED <<sessions, turnVars, mode, maint, ghostVars, left>>

\* Revived by somebody else already, without a native session, or an error.
ReviveFails ==
  /\ op.pc = "start" /\ op.grave # None
  /\ IF op.grave \in Range(graves) /\ panes[op.grave].bound /\ FreshPanes # {} THEN Take("troubles") ELSE UNCHANGED left
  /\ op' = [op EXCEPT !.grave = None]
  /\ UNCHANGED <<daemonVars, sessions, turnVars, mode, maint, ghostVars>>

\* run and wait_until_live; start_pane tags the pane "acp" at its end.
RunPane(q) ==
  LET c == IF op.native = None THEN q ELSE op.native IN
  /\ op.pc = "start" /\ op.grave = None /\ FreshPanes # {} /\ q = FirstOf(FreshPanes)
  /\ Start(q, [NoPane EXCEPT !.st = "up", !.convo = c])
  /\ op' = [op EXCEPT !.pane = q, !.resumed = (op.native # None), !.pc = "live"]
  /\ UNCHANGED <<graves, sessions, turnVars, mode, maint, ghostVars, left>>

RunFails ==
  /\ op.pc = "start" /\ op.grave = None
  /\ FreshPanes # {} => Take("troubles")
  /\ FreshPanes = {} => UNCHANGED left
  /\ Answer
  /\ UNCHANGED <<daemonVars, sessions, turnVars, mode, maint, ghostVars>>

PaneLive ==
  /\ op.pc = "live"
  /\ IF Up(op.pane)
     THEN panes' = [panes EXCEPT ![op.pane].tags = @ \cup {"acp"}] /\ Goto("tag")
     ELSE UNCHANGED panes /\ Answer
  /\ UNCHANGED <<graves, sessions, turnVars, mode, maint, ghostVars, left>>

TagSession ==
  /\ op.pc = "tag"
  /\ IF Up(op.pane)
     THEN panes' = [panes EXCEPT ![op.pane].tags = @ \cup {"acp"}, ![op.pane].session = op.s]
          /\ Goto("mark")
     ELSE UNCHANGED panes /\ Answer
  /\ UNCHANGED <<graves, sessions, turnVars, mode, maint, ghostVars, left>>

\* The last of the tags, and attach_lease.
TagResumable ==
  /\ op.pc = "mark"
  /\ IF Up(op.pane)
     THEN panes' = [panes EXCEPT ![op.pane].tags =
                      IF op.resumed THEN @ \cup {"resumable"} ELSE @ \ {"resumable"}]
          /\ Goto("install")
     ELSE UNCHANGED panes /\ Answer
  /\ UNCHANGED <<graves, sessions, turnVars, mode, maint, ghostVars, left>>

\* A call of tag_session_pane fails: the pane is killed.
TagFails ==
  /\ op.pc \in {"live", "tag", "mark"} /\ op.kind \notin {"sweep", "recover"}
  /\ Take("troubles")
  /\ Kill(op.pane)
  /\ Answer
  /\ UNCHANGED <<sessions, turnVars, mode, maint, ghostVars>>

Install ==
  LET p == op.pane e == sessions[op.s] IN
  /\ op.pc = "install"
  /\ sessions' = [sessions EXCEPT ![op.s] =
       IF op.kind = "new"
       THEN [Absent EXCEPT !.st = "known", !.pane = p, !.prompt = TRUE,
                           !.native = IF panes[p].bound THEN panes[p].convo ELSE None]
       ELSE [e EXCEPT !.pane = p, !.grave = None,
                      !.native = IF panes[p].bound THEN panes[p].convo ELSE op.native,
                      !.delivered = @ /\ op.resumed]]
  /\ IF op.kind \in {"new", "resume"} THEN Answer
     ELSE op' = [Idle EXCEPT !.kind = op.kind, !.s = op.s, !.again = op.again, !.pc = "use"]
  /\ UNCHANGED <<daemonVars, turnVars, mode, maint, ghostVars, left>>

-----------------------------------------------------------------------------
(* What an operation does with its resident session.                       *)

BeginTurn ==
  LET e == sessions[op.s] IN
  /\ op.pc = "use" /\ op.kind = "prompt"
  /\ Answer
  /\ IF e.turn \/ e.pane = None THEN UNCHANGED <<sessions, turns>>
     ELSE /\ sessions' = [sessions EXCEPT ![op.s].turn = TRUE]
          /\ turns' = [turns EXCEPT ![op.s] = [NoTurn EXCEPT
               !.pc = "sending", !.pane = e.pane, !.again = op.again,
               !.framed = ~e.delivered /\ e.prompt]]
  /\ UNCHANGED <<daemonVars, stale, mode, maint, ghostVars, left>>

UseDeleted ==
  LET p == sessions[op.s].pane IN
  /\ op.pc = "use" /\ op.kind = "delete"
  /\ IF p = None THEN Panic
     ELSE op' = [op EXCEPT !.pane = p, !.pc = "tombstone"] /\ UNCHANGED maint
  /\ UNCHANGED <<daemonVars, sessions, turnVars, mode, ghostVars, left>>

Strays(s) == {p \in Pane : Up(p) /\ panes[p].session = s /\ p # sessions[s].pane}

TombstoneUnmarked ==
  /\ op.pc = "tombstone"
  /\ IF Up(op.pane) THEN Goto("erase") ELSE Answer
  /\ strayed' = IF Strays(op.s) = {} THEN strayed ELSE strayed \cup {op.s}
  /\ UNCHANGED <<panes, graves, sessions, turnVars, mode, maint, primed, prompted, deleted, left>>

Tombstone ==
  /\ op.pc = "tombstone"
  /\ IF Up(op.pane)
     THEN panes' = [panes EXCEPT ![op.pane].tags = @ \cup {"deleted"}] /\ Goto("erase")
     ELSE UNCHANGED panes /\ Answer
  /\ strayed' = IF Strays(op.s) = {} THEN strayed ELSE strayed \cup {op.s}
  /\ UNCHANGED <<graves, sessions, turnVars, mode, maint, primed, prompted, deleted, left>>

\* The session goes once its pane is killed; an error of the kill keeps it.
ErasePane ==
  /\ op.pc = "erase"
  /\ Kill(op.pane)
  /\ sessions' = IF Up(op.pane) THEN [sessions EXCEPT ![op.s] = Absent] ELSE sessions
  /\ deleted' = IF Up(op.pane) THEN deleted \cup {op.s} ELSE deleted
  /\ strayed' = IF Strays(op.s) = {} THEN strayed ELSE strayed \cup {op.s}
  /\ Answer
  /\ UNCHANGED <<turnVars, mode, maint, primed, prompted, left>>

\* capture_native_session, then the kill.
ClosePane ==
  LET p == op.pane IN
  /\ op.pc = "close"
  /\ sessions' = IF Up(p) /\ panes[p].bound /\ sessions[op.s].pane = p
                 THEN [sessions EXCEPT ![op.s].native = panes[p].convo] ELSE sessions
  /\ IF Up(p) THEN Goto("gone") ELSE Answer
  /\ Kill(p)
  /\ UNCHANGED <<turnVars, mode, maint, ghostVars, left>>

CloseForgetsPane ==
  /\ op.pc = "gone"
  /\ PaneToGrave(op.s, op.pane)
  /\ Answer
  /\ UNCHANGED <<daemonVars, turnVars, mode, maint, ghostVars, left>>

-----------------------------------------------------------------------------
(* reconcile_sessions: what is in scope and of no session is adopted or    *)
(* discarded, then panes beyond the limit (or idle) are evicted.           *)

SweepListsAll ==
  /\ op.pc = "list"
  /\ Reconcile
  /\ op' = [op EXCEPT !.pc = "adopt", !.todo = InScope]
  /\ UNCHANGED <<daemonVars, stale, mode, maint, ghostVars, left>>

SweepLists ==
  /\ op.pc = "list"
  /\ Reconcile
  /\ op' = [op EXCEPT !.pc = "adopt",
                      !.todo = InScope \ {sessions[s].pane : s \in Resident \ Dead}]
  /\ UNCHANGED <<daemonVars, stale, mode, maint, ghostVars, left>>

Done(p) == op' = [op EXCEPT !.todo = @ \ {p}]

\* Unidentifiable, or a duplicate of a resident session.
SweepDiscards(p) ==
  /\ op.pc = "adopt" /\ p \in op.todo
  /\ \/ panes[p].session = None
     \/ Whole(p) /\ sessions[panes[p].session].pane # None
  /\ Kill(p) /\ Done(p)
  /\ UNCHANGED <<sessions, turnVars, mode, maint, ghostVars, left>>

\* Incomplete: its tags go before it does, so that its grave is of no session.
SweepStrips(p) ==
  /\ op.pc = "adopt" /\ p \in op.todo /\ panes[p].session # None /\ ~Whole(p)
  /\ panes' = IF Up(p) THEN [panes EXCEPT ![p].tags = @ \ {"acp", "resumable"}, ![p].session = None]
              ELSE panes
  /\ op' = [op EXCEPT !.pane = p, !.pc = "strip"]
  /\ UNCHANGED <<graves, sessions, turnVars, mode, maint, ghostVars, left>>

KillStripped ==
  /\ op.pc = "strip"
  /\ Kill(op.pane)
  /\ op' = [op EXCEPT !.todo = @ \ {op.pane}, !.pane = None, !.pc = "adopt"]
  /\ UNCHANGED <<sessions, turnVars, mode, maint, ghostVars, left>>

Recovered(p) == [Absent EXCEPT !.st = "known", !.pane = p, !.delivered = TRUE,
                               !.native = panes[p].convo]

SweepAdopts(p) ==
  LET s == panes[p].session IN
  /\ op.pc = "adopt" /\ p \in op.todo /\ s # None /\ Whole(p) /\ sessions[s].pane = None
  /\ sessions' = [sessions EXCEPT ![s] =
       IF @ = Absent THEN Recovered(p)
       ELSE [@ EXCEPT !.pane = p, !.grave = None, !.native = panes[p].convo]]
  /\ op' = [op EXCEPT !.pane = p, !.pc = "lease"]
  /\ UNCHANGED <<daemonVars, turnVars, mode, maint, ghostVars, left>>

\* tag_session_pane of an adopted pane: an error ends the pass.
LeaseAdopted ==
  /\ op.pc = "lease"
  /\ IF Up(op.pane)
     THEN op' = [op EXCEPT !.todo = @ \ {op.pane}, !.pane = None, !.pc = "adopt"]
     ELSE Answer
  /\ UNCHANGED <<daemonVars, sessions, turnVars, mode, maint, ghostVars, left>>

\* trim_recovered_panes, and the idle timeout, which may evict any inactive one.
Trimming == op.pc \in {"adopt", "clear"} /\ op.todo = {}

Trim ==
  /\ Trimming
  /\ \/ Cardinality(Resident) > MaxLive /\ Evict(Inactive) /\ UNCHANGED mode
     \/ Cardinality(Resident) <= MaxLive /\ op' = Idle /\ mode' = "serving"
  /\ UNCHANGED <<daemonVars, sessions, turnVars, maint, ghostVars, left>>

IdleTimeout ==
  /\ Trimming /\ op.kind = "sweep" /\ Inactive # {}
  /\ Evict(Inactive)
  /\ UNCHANGED <<daemonVars, sessions, turnVars, mode, maint, ghostVars, left>>

-----------------------------------------------------------------------------
(* The adapter ends and another one takes over: recover_sessions           *)

\* Abruptly, or orderly: shutdown waits for session_creation, and the
\* policy "close" kills the panes of its sessions.
\* (An id is left for a pane that was not yet tagged with one.)
Crash ==
  /\ Take("crashes")
  /\ {p \in InScope : panes[p].session = None} # {} => FreshIds # {}
  /\ sessions' = [s \in Session |-> Absent]
  /\ turns' = [s \in Session |-> NoTurn]
  /\ stale' = [s \in Session |-> NoStale]
  /\ op' = [Idle EXCEPT !.kind = "recover", !.pc = "rebuild"]
  /\ mode' = "recovering" /\ maint' = TRUE
  /\ UNCHANGED <<daemonVars, ghostVars>>

ShutdownCloses ==
  /\ Free
  /\ Take("crashes")
  /\ LET closed == {p \in Residents : Up(p)} IN
     /\ panes' = [p \in Pane |-> IF p \in closed THEN [panes[p] EXCEPT !.st = "gone"] ELSE panes[p]]
     /\ graves' = graves \o SetToSeq(closed)
  /\ sessions' = [s \in Session |-> Absent]
  /\ turns' = [s \in Session |-> NoTurn]
  /\ stale' = [s \in Session |-> NoStale]
  /\ op' = [Idle EXCEPT !.kind = "recover", !.pc = "rebuild"]
  /\ mode' = "recovering" /\ maint' = TRUE
  /\ UNCHANGED ghostVars

FromNoGrave(s) == Absent

FromGrave(s) ==
  LET g == LatestGrave(s) IN
  IF GravesOf(s) # {} /\ "deleted" \notin panes[g].tags /\ Whole(g)
  THEN [Absent EXCEPT !.st = "known", !.grave = g, !.native = panes[g].convo, !.delivered = TRUE]
  ELSE Absent

\* Graves first, live panes over them; of two panes the later listed stays.
\* A pane without a session id is given one.
Complete(p) == /\ "deleted" \notin panes[p].tags
               /\ panes[p].session # None => "resumable" \in panes[p].tags
               /\ panes[p].session = None => panes[p].bound

Rebuild ==
  /\ op.pc = "rebuild"
  /\ LET whole == {p \in InScope : Complete(p)}
         legacy == {p \in whole : panes[p].session = None}
     IN \E id \in [legacy -> FreshIds] :
        LET idOf(p) == IF p \in legacy THEN id[p] ELSE panes[p].session
        IN /\ IsInjective(id)
           /\ \E chosen \in [{idOf(p) : p \in whole} -> whole] :
                /\ \A s \in DOMAIN chosen : idOf(chosen[s]) = s
                /\ sessions' = [s \in Session |->
                     IF s \in DOMAIN chosen THEN Recovered(chosen[s]) ELSE FromGrave(s)]
           /\ panes' = [p \in Pane |-> IF p \in legacy
                          THEN [panes[p] EXCEPT !.session = id[p], !.tags = @ \cup {"resumable"}]
                          ELSE panes[p]]
           /\ op' = [op EXCEPT !.pc = "clear", !.todo = InScope \ whole]
  /\ UNCHANGED <<graves, turnVars, mode, maint, ghostVars, left>>

\* A deleted pane keeps its tags: they are its tombstone.
ClearIncomplete(p) ==
  /\ op.pc = "clear" /\ p \in op.todo
  /\ panes' = IF ~Up(p) THEN panes
              ELSE [panes EXCEPT ![p].st = "gone",
                      ![p].tags = IF "deleted" \in @ THEN @ ELSE @ \ {"acp", "resumable"},
                      ![p].session = IF "deleted" \in panes[p].tags THEN @ ELSE None]
  /\ graves' = IF Up(p) THEN Append(graves, p) ELSE graves
  /\ Done(p)
  /\ UNCHANGED <<sessions, turnVars, mode, maint, ghostVars, left>>

-----------------------------------------------------------------------------
Init ==
  /\ panes = [p \in Pane |-> NoPane]
  /\ graves = <<>>
  /\ sessions = [s \in Session |-> Absent]
  /\ turns = [s \in Session |-> NoTurn]
  /\ stale = [s \in Session |-> NoStale]
  /\ op = Idle /\ mode = "serving" /\ maint = TRUE
  /\ primed = {} /\ prompted = {} /\ deleted = {} /\ strayed = {}
  /\ left \in Bounds

Turn(s) == \/ TurnSends(s) \/ TurnMarks(s) \/ TurnLosesPane(s) \/ TurnEnds(s) \/ TurnFails(s)
           \/ TurnFindsStale(s) \/ TurnReleases(s) \/ TurnReleasesStale(s)
Clearing(s) == StaleKills(s) \/ StaleForgetsPane(s)
Request(s) == New(s) \/ Resume(s) \/ Prompt(s) \/ Delete(s) \/ Close(s)

\* The steps of the operation that holds session_creation.
Work ==
  \/ EnsureResident \/ MakeRoom \/ TakeVictim \/ EvictPane
  \/ EvictFails \/ BuryVictim \/ ReviveFails \/ RunFails \/ PaneLive \/ TagSession
  \/ TagResumable \/ TagFails \/ Install \/ BeginTurn \/ UseDeleted
  \/ Tombstone \/ ErasePane  \/ ClosePane
  \/ CloseForgetsPane \/ SweepLists \/ KillStripped \/ LeaseAdopted \/ Trim
  \/ IdleTimeout \/ Rebuild
  \/ \E p \in Pane : \/ RevivePane(p) \/ RunPane(p) \/ SweepDiscards(p) \/ SweepStrips(p)
                     \/ SweepAdopts(p) \/ ClearIncomplete(p)

Next ==
  \/ Work \/ Sweep \/ Crash \/ ShutdownCloses
  \/ \E s \in Session : Request(s) \/ PromptAgain(s) \/ Turn(s) \/ Clearing(s)
  \/ \E p \in Pane : PaneDies(p) \/ Bind(p)
  \/ \E g, q \in Pane : SomebodyRevives(g, q)

Spec == Init /\ [][Next]_vars

\* Tasks of the adapter go on, turns end (turn_timeout), the maintenance
\* task ticks, and session_creation is granted in the order of requests.
Fairness ==
  /\ WF_vars(Work) /\ SF_vars(Sweep)
  /\ \A s \in Session : WF_vars(Turn(s)) /\ WF_vars(Clearing(s)) /\ SF_vars(PromptAgain(s))

FairSpec == Spec /\ Fairness

-----------------------------------------------------------------------------
PaneIds == Pane \cup {None}
SessionIds == Session \cup {None}
Panes == [st : {"new", "up", "gone"}, tags : SUBSET {"acp", "resumable", "deleted"},
          session : SessionIds, convo : PaneIds, bound : BOOLEAN]
Entries == [st : {"absent", "known"}, pane : PaneIds, grave : PaneIds, native : PaneIds,
            delivered : BOOLEAN, prompt : BOOLEAN, turn : BOOLEAN]
Turns == [pc : {"none", "sending", "accepted", "running", "ended", "failed", "stale"},
          pane : PaneIds, framed : BOOLEAN, cancelled : BOOLEAN, again : BOOLEAN]
Stales == [pc : {"none", "kill", "forget", "again"}, pane : PaneIds]
OpKind == {"none", "new", "resume", "prompt", "delete", "close", "sweep", "recover"}
OpStep == {"idle", "resident", "room", "take", "evict", "bury", "start", "live", "tag", "mark",
           "install", "use", "tombstone", "erase", "close", "gone", "list", "adopt", "strip",
           "lease", "rebuild", "clear"}
Ops == [kind : OpKind, s : SessionIds, pc : OpStep, pane : PaneIds, victim : SessionIds,
        native : PaneIds, grave : PaneIds, resumed : BOOLEAN, todo : SUBSET Pane,
        again : BOOLEAN]

TypeOK ==
  /\ panes \in [Pane -> Panes]
  /\ graves \in Seq(PaneIds)
  /\ \A g \in Range(graves) \ {None} : panes[g].st = "gone"
  /\ sessions \in [Session -> Entries]
  /\ turns \in [Session -> Turns] /\ stale \in [Session -> Stales]
  /\ op \in Ops /\ mode \in {"serving", "recovering"} /\ maint \in BOOLEAN
  /\ deleted \subseteq Session /\ strayed \subseteq Session

\* readme.md:1604, "Active turns are never selected for eviction": whatever
\* the adapter does to other panes and sessions, the pane of a turn that
\* nobody cancelled goes only by itself.
TurnsUndisturbed ==
  [][\A s \in Session :
       /\ turns[s].pc \in {"sending", "accepted", "running"} /\ ~turns[s].cancelled
       /\ Up(turns[s].pane) /\ panes'[turns[s].pane].st = "gone"
       => PaneDies(turns[s].pane) \/ ShutdownCloses]_vars

\* readme.md:1568: a session that was deleted does not come back, through
\* restarts of the adapter, its older graves and sweeps, unless another
\* pane of it was up when it was deleted.
DeletedStaysDeleted == \A s \in deleted \ strayed : sessions[s] = Absent

\* readme.md:1583-1590: an adapter that serves has every session that a
\* live pane, or the latest of its graves, can bring back.
Recoverable(p) ==
  /\ "acp" \in panes[p].tags /\ Whole(p) /\ panes[p].session # None
  /\ \/ Up(p)
     \/ p \in Range(graves) /\ p = LatestGrave(panes[p].session)
Tombstones == {panes[p].session : p \in {q \in Pane : "deleted" \in panes[q].tags}}
NothingLost ==
  Free => \A p \in Pane : Recoverable(p) => panes[p].session \in Known \cup Tombstones

\* A second pane of a session (a grave that somebody else revived, a
\* SessionEnd whose pane went on) goes in the end.
StraysDiscarded ==
  \A s \in Session : Strays(s) # {} ~> Strays(s) = {} \/ ~maint
=============================================================================
