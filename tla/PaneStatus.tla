----------------------------- MODULE PaneStatus -----------------------------
(***************************************************************************)
(* The published state of one pane whose agent calls hooks: Claude, Codex  *)
(* or Grok.  Hook handlers and transcript tailers compute it concurrently; *)
(* one function writes it, mirrors it in two tmux options and announces    *)
(* it.  Hooks count as they come, a transcript record only when the state  *)
(* it was reduced from still stands.                                       *)
(*                                                                         *)
(* The agent runs one turn at a time, with parallel tools, and waits for   *)
(* its hooks; a tailer reads what the agent writes as late as it likes.    *)
(***************************************************************************)
EXTENDS Naturals, Sequences, FiniteSets

CONSTANTS
  Backends,      \* the backends the pane may have
  Hook,          \* hook handlers that can run at once
  MaxTurns,      \* bound on turns
  MaxTools,      \* bound on tools that run at once
  MaxUses,       \* bound on tools used in all
  MaxChanges,    \* bound on restarts of the daemon and "/clear"s, together
  MayFail,       \* whether turns may fail
  MayInterrupt,  \* whether turns may be interrupted
  HastyLocal,    \* whether a local command of Grok may outrun the tailer
  ClearsBusy,    \* whether a session may be replaced in the middle of a turn
  Free           \* nobody holds state_update_mutex

Session == 1..(1 + MaxChanges)
Tailer == 1..(1 + MaxChanges)
Writer == Hook \cup Tailer
Turn == 0..MaxTurns

ASSUME StatusAssumption ==
  /\ Backends \subseteq {"Claude", "Codex", "Grok"}
  /\ {MaxTurns, MaxTools, MaxUses, MaxChanges} \subseteq Nat
  /\ {MayFail, MayInterrupt, HastyLocal, ClearsBusy} \subseteq BOOLEAN
  /\ Hook \cap Tailer = {} /\ Free \notin Writer

VARIABLES
  backend,    \* the pane's backend
  agent,      \* the agent: its phase, session, turn and running tools
  file,       \* the transcript of each session
  job,        \* what each hook handler and each tailer is writing
  tail,       \* each tailer: session, place in the file, live boundary, cancelled
  tailing,    \* transcript_path: the session whose file is tailed
  bound,      \* identity.session_id
  mem,        \* detailed_state
  option,     \* @slopd_state and @slopd_detailed_state
  told,       \* the last StateChange and DetailedStateChange
  lock,       \* the holder of state_update_mutex
  active,     \* grok_active_prompt_id, 0 for none
  unbound,    \* grok_unbound_prompt_active
  scheduled,  \* retries scheduled for each turn
  blurred,    \* a restart or a cancelled tailer wrote last, and no hook since
  restarts

agentVars == <<agent, file>>
cellVars == <<mem, option, told, lock>>
grokVars == <<active, unbound>>
vars == <<backend, agentVars, job, tail, tailing, bound, cellVars, grokVars,
          scheduled, blurred, restarts>>

-----------------------------------------------------------------------------
(* The reducer.                                                            *)

Busy == {"busy", "tool", "compact"}
State == {"booting", "ready", "ask"} \cup Busy

Simple(s) == IF s \in Busy THEN "busy" ELSE s

HookState ==
  [SessionStart |-> "ready", UserPromptSubmit |-> "busy", Stop |-> "ready",
   StopFailure |-> "ready", StopCancelled |-> "ready", PreToolUse |-> "tool",
   PostToolUse |-> "busy", PermissionRequest |-> "ask",
   PermissionDenied |-> "busy", PreCompact |-> "compact", IdlePrompt |-> "ready"]

Event == DOMAIN HookState
Terminal == {"Stop", "StopFailure", "StopCancelled"}

\* A record that tells nothing of the state leaves it: None.
None == "none"

CodexState ==
  [started |-> "busy", call |-> "tool", output |-> "busy", complete |-> "ready",
   failed |-> "ready", aborted |-> "ready"]

CodexRecord(cur, r) == IF cur = "ask" THEN None ELSE CodexState[r.kind]

ClaudeRecord(cur, r) ==
  CASE r.kind \in Event -> HookState[r.kind]          \* progress: a hook, again
    [] r.kind = "duration" -> "ready"
    [] r.kind = "user" /\ cur = "ask" -> "ready"
    [] OTHER -> None

\* turn_completed counts for the active prompt, or for a local command.
GrokRecord(r) ==
  IF \/ active # 0 /\ r.turn = active
     \/ active = 0 /\ unbound /\ r.kind # "cancelled"
  THEN "ready" ELSE None

RecordState(cur, r) ==
  CASE backend = "Codex" -> CodexRecord(cur, r)
    [] backend = "Claude" -> ClaudeRecord(cur, r)
    [] OTHER -> GrokRecord(r)

-----------------------------------------------------------------------------
Idle == [pc |-> "idle", ev |-> None, sess |-> 0, turn |-> 0, home |-> TRUE,
         cur |-> None, new |-> None]
NoTail == [sess |-> 0, pos |-> 0, edge |-> 0, off |-> TRUE]

Init ==
  /\ backend \in Backends
  /\ agent = [phase |-> "off", sess |-> 1, turn |-> 0, tools |-> 0, uses |-> 0]
  /\ file = [s \in Session |-> <<>>]
  /\ job = [w \in Writer |-> Idle]
  /\ tail = [t \in Tailer |-> NoTail]
  /\ tailing = 0 /\ bound = 0
  /\ mem = "booting"
  /\ option = [simple |-> "booting", detailed |-> "booting"]
  /\ told = option
  /\ lock = Free
  /\ active = 0 /\ unbound = FALSE
  /\ scheduled = [n \in Turn |-> 0]
  /\ blurred = FALSE
  /\ restarts = 0

-----------------------------------------------------------------------------
(* The agent.                                                              *)

Own == {h \in Hook : job[h].pc # "idle" /\ job[h].home /\ job[h].sess # 0}
ToolHooks == {h \in Own : job[h].ev \in {"PreToolUse", "PostToolUse"}}

Fire(h, e, s, n, home) ==
  /\ job[h].pc = "idle"
  /\ job' = [job EXCEPT ![h] = [pc |-> "bind", ev |-> e, sess |-> s, turn |-> n,
                                home |-> home, cur |-> None, new |-> None]]

FireOwn(e) == \E h \in Hook : Fire(h, e, agent'.sess, agent'.turn, TRUE)

Write(kind) ==
  file' = [file EXCEPT ![agent.sess] =
                         Append(@, [kind |-> kind, turn |-> agent'.turn])]

\* What each backend writes; "" is no record.
WriteAs(codex, claude, grok) ==
  LET kind == CASE backend = "Codex" -> codex [] backend = "Claude" -> claude
                [] OTHER -> grok
  IN  IF kind = "" THEN UNCHANGED file ELSE Write(kind)

daemonVars == <<backend, tail, tailing, bound, cellVars, grokVars, scheduled,
                blurred, restarts>>

Start ==
  /\ agent.phase = "off"
  /\ agent' = [agent EXCEPT !.phase = "idle"]
  /\ FireOwn("SessionStart")
  /\ UNCHANGED <<file, daemonVars>>

Submit ==
  /\ agent.phase = "idle" /\ Own = {} /\ agent.turn < MaxTurns
  /\ agent' = [agent EXCEPT !.phase = "work", !.turn = @ + 1]
  /\ FireOwn("UserPromptSubmit")
  /\ WriteAs("started", "", "")
  /\ UNCHANGED daemonVars

HasRecord(t) == tail[t].sess # 0 /\ tail[t].pos < Len(file[tail[t].sess])

\* No handler is at work and no record is unread.
Quiet ==
  /\ \A w \in Writer : job[w].pc = "idle"
  /\ \A t \in Tailer : ~HasRecord(t)

\* A local command of Grok fires no UserPromptSubmit and has no prompt id.
LocalCommand ==
  /\ backend = "Grok" /\ (HastyLocal \/ Quiet)
  /\ agent.phase = "idle" /\ Own = {} /\ agent.turn < MaxTurns
  /\ agent' = [agent EXCEPT !.phase = "local", !.turn = @ + 1]
  /\ FireOwn("PreCompact")
  /\ UNCHANGED <<file, daemonVars>>

LocalDone ==
  /\ agent.phase = "local" /\ Own = {}
  /\ agent' = [agent EXCEPT !.phase = "idle"]
  /\ Write("completed")
  /\ UNCHANGED <<job, daemonVars>>

UseTool ==
  /\ agent.phase = "work" /\ Own = ToolHooks /\ agent.tools < MaxTools
  /\ agent.uses < MaxUses
  /\ agent' = [agent EXCEPT !.tools = @ + 1, !.uses = @ + 1]
  /\ FireOwn("PreToolUse")
  /\ WriteAs("call", "PreToolUse", "")
  /\ UNCHANGED daemonVars

ToolDone ==
  /\ agent.phase = "work" /\ Own = ToolHooks /\ agent.tools > 0
  /\ agent' = [agent EXCEPT !.tools = @ - 1]
  /\ FireOwn("PostToolUse")
  /\ WriteAs("output", "PostToolUse", "")
  /\ UNCHANGED daemonVars

Ask ==
  /\ agent.phase = "work" /\ Own = {} /\ agent.tools = 1
  /\ agent' = [agent EXCEPT !.phase = "ask"]
  /\ FireOwn("PermissionRequest")
  /\ UNCHANGED <<file, daemonVars>>

Grant ==
  /\ agent.phase = "ask" /\ Own = {}
  /\ agent' = [agent EXCEPT !.phase = "work"]
  /\ UNCHANGED <<file, job, daemonVars>>

Deny ==
  /\ agent.phase = "ask" /\ Own = {}
  /\ agent' = [agent EXCEPT !.phase = "work", !.tools = 0]
  /\ FireOwn("PermissionDenied")
  /\ UNCHANGED <<file, daemonVars>>

\* An interrupted Claude fires no hook before its idle notice, a minute
\* later; Grok may omit its own.
Interrupt ==
  /\ MayInterrupt
  /\ agent.phase \in {"work", "ask"} /\ Own = {}
  /\ agent' = [agent EXCEPT !.phase = IF backend = "Claude" THEN "waiting" ELSE "idle",
                            !.tools = 0]
  /\ WriteAs("aborted", "user", "cancelled")
  /\ CASE backend = "Codex" -> FireOwn("Stop")
       [] backend = "Claude" -> UNCHANGED job
       [] OTHER -> FireOwn("StopCancelled") \/ UNCHANGED job
  /\ UNCHANGED daemonVars

IdleNotice ==
  /\ agent.phase = "waiting" /\ Quiet
  /\ agent' = [agent EXCEPT !.phase = "idle"]
  /\ FireOwn("IdlePrompt")
  /\ UNCHANGED <<file, daemonVars>>

Finish ==
  /\ agent.phase = "work" /\ Own = {} /\ agent.tools = 0
  /\ agent' = [agent EXCEPT !.phase = "idle"]
  /\ FireOwn("Stop")
  /\ WriteAs("complete", "duration", "completed")
  /\ UNCHANGED daemonVars

\* Codex fires no hook for a failed turn.
Fail ==
  /\ MayFail
  /\ agent.phase = "work" /\ Own = {} /\ agent.tools = 0
  /\ agent' = [agent EXCEPT !.phase = IF backend = "Claude" THEN "waiting" ELSE "idle"]
  /\ WriteAs("failed", "", "completed")
  /\ IF backend = "Codex" THEN UNCHANGED job ELSE FireOwn("StopFailure")
  /\ UNCHANGED daemonVars

Clear ==
  /\ Own = {} /\ backend # "Grok"
  /\ \/ agent.phase = "idle"
     \/ ClearsBusy /\ agent.phase = "work"
  /\ agent.sess - 1 + restarts < MaxChanges
  /\ agent' = [agent EXCEPT !.phase = "idle", !.sess = @ + 1, !.tools = 0]
  /\ FireOwn("SessionStart")
  /\ UNCHANGED <<file, daemonVars>>

\* A helper session inside the agent's process, once the pane's is bound, or
\* a pane of the same id in another tmux server.
Stranger ==
  /\ agent.phase = "work"
  /\ \A h \in Hook : job[h].sess # 0 \/ job[h].pc = "idle"
  /\ \E h \in Hook :
       \/ Fire(h, "Stop", 0, 0, FALSE)
       \/ backend = "Codex" /\ bound # 0 /\ Fire(h, "Stop", 0, 0, TRUE)
  /\ UNCHANGED <<agentVars, daemonVars>>

Agent ==
  \/ Start \/ Submit \/ LocalCommand \/ LocalDone \/ UseTool \/ ToolDone
  \/ Ask \/ Grant \/ Deny \/ Interrupt \/ IdleNotice \/ Finish \/ Fail
  \/ Clear \/ Stranger

-----------------------------------------------------------------------------
(* Tailers.                                                                *)

\* The new tailer replays the whole file; what it finds there is not live.
FollowWith(old, s) ==
  LET t == CHOOSE x \in Tailer : old[x].sess = 0
      cut == [x \in Tailer |-> [old[x] EXCEPT !.off = TRUE]]
  IN  [cut EXCEPT ![t] = [sess |-> s, pos |-> 0, edge |-> Len(file[s]), off |-> FALSE]]

NextRecord(t) == file[tail[t].sess][tail[t].pos + 1]

IsLiveAlways(t) == TRUE

IsLive(t) == tail[t].pos >= tail[t].edge

(* A cancelled tailer looks at its token at the end of the file only.      *)
ReadRecord(t) ==
  LET r == NextRecord(t)
      new == RecordState(mem, r)
  IN
  /\ job[t].pc = "idle" /\ HasRecord(t)
  /\ tail' = [tail EXCEPT ![t].pos = @ + 1]
  /\ scheduled' = IF r.kind = "failed" /\ IsLive(t)
                  THEN [scheduled EXCEPT ![r.turn] = @ + 1] ELSE scheduled
  /\ job' = IF new = None THEN job
            ELSE [job EXCEPT ![t] = [Idle EXCEPT !.pc = "lock", !.cur = mem, !.new = new,
                                       !.turn = IF active = 0 THEN 0 ELSE r.turn]]
  /\ UNCHANGED <<backend, agentVars, tailing, bound, cellVars, grokVars, blurred, restarts>>

-----------------------------------------------------------------------------
(* Hook handlers.                                                          *)

Foreign(h) ==
  \/ ~job[h].home
  \/ /\ backend = "Codex"
     /\ bound # 0 /\ job[h].sess # bound /\ job[h].ev # "SessionStart"

End(w) == [job EXCEPT ![w] = Idle]
Goto(w, pc) == [job EXCEPT ![w].pc = pc]

Ignore(h) ==
  /\ job[h].pc = "bind" /\ Foreign(h)
  /\ job' = End(h)
  /\ UNCHANGED <<backend, agentVars, tail, tailing, bound, cellVars, grokVars,
                 scheduled, blurred, restarts>>

(* Under session_binding_mutex.                                            *)
Bind(h) ==
  /\ job[h].pc = "bind" /\ ~Foreign(h)
  /\ job' = Goto(h, "react")
  /\ tailing' = job[h].sess
  /\ tail' = IF job[h].sess = tailing THEN tail ELSE FollowWith(tail, job[h].sess)
  /\ bound' = IF job[h].ev = "SessionStart" THEN job[h].sess ELSE bound
  /\ UNCHANGED <<backend, agentVars, cellVars, grokVars, scheduled, blurred, restarts>>

StaleTerminal(h) ==
  /\ backend = "Grok" /\ job[h].ev \in Terminal
  /\ active # 0 /\ active # job[h].turn

(* The effects of an event, and the state it asks for.                     *)
React(h) ==
  LET e == job[h].ev
      n == job[h].turn
  IN
  /\ job[h].pc = "react"
  /\ active' = CASE backend = "Grok" /\ e = "UserPromptSubmit" -> n
                 [] backend = "Grok" /\ e = "PreCompact" -> 0
                 [] OTHER -> active
  /\ unbound' = CASE backend = "Grok" /\ e = "UserPromptSubmit" -> FALSE
                  [] backend = "Grok" /\ e = "PreCompact" -> TRUE
                  [] OTHER -> unbound
  /\ scheduled' = IF e = "StopFailure" /\ ~StaleTerminal(h)
                  THEN [scheduled EXCEPT ![n] = @ + 1] ELSE scheduled
  /\ blurred' = (blurred /\ e \in {"PreToolUse", "PostToolUse", "PermissionRequest",
                                   "PermissionDenied"})
  /\ job' = IF StaleTerminal(h) THEN End(h)
            ELSE [job EXCEPT ![h].pc = "lock", ![h].cur = mem, ![h].new = HookState[e]]
  /\ UNCHANGED <<backend, agentVars, tail, tailing, bound, cellVars, restarts>>

-----------------------------------------------------------------------------
(* set_pane_detailed_state_inner.                                          *)

\* A terminal record of Grok, checked again when it gets the lock.
TurnStands(t) ==
  IF job[t].turn # 0 THEN active = job[t].turn ELSE active = 0 /\ unbound

Guarded(w) == w \in Tailer /\ backend = "Grok"

StaleNever(w) == FALSE

Stale(w) == w \in Tailer /\ mem # job[w].cur

AcceptUnlocked(w) ==
  /\ job[w].pc = "lock"
  /\ ~Stale(w) /\ (Guarded(w) => TurnStands(w))
  /\ lock' = w
  /\ mem' = job[w].new
  /\ job' = Goto(w, "simple")
  /\ active' = IF Guarded(w) THEN 0 ELSE active
  /\ unbound' = IF Guarded(w) THEN FALSE ELSE unbound
  /\ blurred' = (blurred \/ (w \in Tailer /\ tail[w].off))
  /\ UNCHANGED <<backend, agentVars, tail, tailing, bound, option, told, scheduled, restarts>>

Accept(w) ==
  /\ job[w].pc = "lock" /\ lock = Free
  /\ ~Stale(w) /\ (Guarded(w) => TurnStands(w))
  /\ lock' = w
  /\ mem' = job[w].new
  /\ job' = Goto(w, "simple")
  /\ active' = IF Guarded(w) THEN 0 ELSE active
  /\ unbound' = IF Guarded(w) THEN FALSE ELSE unbound
  /\ blurred' = (blurred \/ (w \in Tailer /\ tail[w].off))
  /\ UNCHANGED <<backend, agentVars, tail, tailing, bound, option, told, scheduled, restarts>>

\* The guard of Grok lets go of the prompt before the state is compared.
Reject(w) ==
  /\ job[w].pc = "lock" /\ lock = Free
  /\ Stale(w) \/ (Guarded(w) /\ ~TurnStands(w))
  /\ job' = End(w)
  /\ active' = IF Guarded(w) /\ TurnStands(w) THEN 0 ELSE active
  /\ unbound' = IF Guarded(w) /\ TurnStands(w) THEN FALSE ELSE unbound
  /\ UNCHANGED <<backend, agentVars, tail, tailing, bound, cellVars, scheduled,
                 blurred, restarts>>

MirrorSimple(w) ==
  /\ job[w].pc = "simple"
  /\ option' = [option EXCEPT !.simple = Simple(job[w].new)]
  /\ job' = Goto(w, "detailed")
  /\ UNCHANGED <<backend, agentVars, tail, tailing, bound, mem, told, lock, grokVars,
                 scheduled, blurred, restarts>>

MirrorDetailed(w) ==
  /\ job[w].pc = "detailed"
  /\ option' = [option EXCEPT !.detailed = job[w].new]
  /\ job' = Goto(w, "tell")
  /\ UNCHANGED <<backend, agentVars, tail, tailing, bound, mem, told, lock, grokVars,
                 scheduled, blurred, restarts>>

\* A StateChange only when the state it was reduced from had another name.
Tell(w) ==
  /\ job[w].pc = "tell"
  /\ told' = [simple |-> IF Simple(job[w].cur) # Simple(job[w].new)
                         THEN Simple(job[w].new) ELSE told.simple,
              detailed |-> job[w].new]
  /\ lock' = Free
  /\ job' = End(w)
  /\ IF /\ w \in Hook /\ backend = "Grok" /\ job[w].ev \in Terminal
        /\ job[w].turn = active
     THEN active' = 0 /\ unbound' = FALSE
     ELSE UNCHANGED grokVars
  /\ UNCHANGED <<backend, agentVars, tail, tailing, bound, mem, option, scheduled,
                 blurred, restarts>>

-----------------------------------------------------------------------------
(* The daemon restarts: handlers and tailers are gone, the transcript's    *)
(* records are replayed from booting_up, else the tmux option stands.      *)

Replayed ==
  LET f == file[tailing]
      at[i \in 0..Len(f)] ==
        IF i = 0 THEN "booting"
        ELSE LET s == RecordState(at[i - 1], f[i]) IN IF s = None THEN at[i - 1] ELSE s
  IN  at[Len(f)]

Recovered ==
  IF backend = "Grok" \/ tailing = 0 THEN option.detailed
  ELSE IF Replayed = "booting" THEN option.detailed ELSE Replayed

\* What a restart may blur: Codex keeps a lost hook in its transcript, but
\* no dialog; Claude keeps less; Grok forgets its active prompt.
Blurs ==
  CASE backend = "Codex" -> agent.phase = "ask" \/ \E h \in Own : job[h].ev = "SessionStart"
    [] backend = "Grok" -> agent.phase # "idle" \/ ~Quiet
    [] OTHER -> TRUE

Restart ==
  /\ agent.sess - 1 + restarts < MaxChanges
  /\ agent.phase # "off"
  /\ restarts' = restarts + 1
  /\ job' = [w \in Writer |-> Idle]
  /\ mem' = Recovered
  /\ option' = [simple |-> Simple(Recovered), detailed |-> Recovered]
  /\ told' = option'
  /\ lock' = Free
  /\ tail' = LET none == [t \in Tailer |-> NoTail]
             IN  IF tailing = 0 THEN none ELSE FollowWith(none, tailing)
  /\ active' = 0 /\ unbound' = FALSE
  /\ blurred' = (blurred \/ Blurs)
  /\ UNCHANGED <<backend, agentVars, tailing, bound, scheduled>>

Handle(h) == Ignore(h) \/ Bind(h) \/ React(h)

Publish(w) ==
  Accept(w) \/ Reject(w) \/ MirrorSimple(w) \/ MirrorDetailed(w) \/ Tell(w)

\* Nothing is left to do once the agent has used up its turns.
Rest ==
  /\ agent.phase = "idle" /\ agent.turn = MaxTurns
  /\ UNCHANGED vars

Next ==
  \/ Agent
  \/ \E h \in Hook : Handle(h)
  \/ \E t \in Tailer : ReadRecord(t)
  \/ \E w \in Writer : Publish(w)
  \/ Restart
  \/ Rest

Spec == Init /\ [][Next]_vars

-----------------------------------------------------------------------------
(* Correctness.                                                            *)

TypeOK ==
  /\ backend \in Backends
  /\ agent \in [phase : {"off", "idle", "work", "local", "ask", "waiting"},
                sess : Session, turn : Turn, tools : 0..MaxTools, uses : 0..MaxUses]
  /\ job \in [Writer -> [pc : {"idle", "bind", "react", "lock", "simple", "detailed", "tell"},
                         ev : Event \cup {None}, sess : Session \cup {0}, turn : Turn,
                         home : BOOLEAN, cur : State \cup {None}, new : State \cup {None}]]
  /\ tail \in [Tailer -> [sess : Session \cup {0}, pos : Nat, edge : Nat, off : BOOLEAN]]
  /\ {tailing, bound} \subseteq Session \cup {0}
  /\ mem \in State
  /\ lock \in Writer \cup {Free}
  /\ active \in Turn /\ {unbound, blurred} \subseteq BOOLEAN
  /\ scheduled \in [Turn -> Nat]
  /\ restarts \in 0..MaxChanges

(* Once every hook is answered and every record read, whatever the order   *)
(* in which they were applied, the state is the agent's: ready when it is  *)
(* idle; not ready while it works and "ask" while it waits at a dialog,    *)
(* except with Claude, whose turn_duration record may end the next turn    *)
(* (set_pane_detailed_state_inner 515, tail_transcript 1738).               *)
StatusMatchesAgent ==
  Quiet /\ ~blurred =>
    /\ agent.phase = "idle" => mem = "ready"
    /\ backend # "Claude" =>
         /\ agent.phase \in {"work", "local"} => mem # "ready"
         /\ agent.phase = "ask" => mem = "ask"

(* Between two writers the tmux options and the last DetailedStateChange   *)
(* are those of the state in memory, so a restart recovers it (528, 553).  *)
MirrorsAgree ==
  lock = Free => /\ option = [simple |-> Simple(mem), detailed |-> mem]
                 /\ told.detailed = mem

(* A failed turn gets one retry, though a restarted or rebound tailer      *)
(* replays the record of its failure (live_boundary, 1765).                *)
RetriedOnce == \A n \in Turn : scheduled[n] <= 1
=============================================================================
