----------------------------- MODULE PaneBinding -----------------------------
(***************************************************************************)
(* Which agent session a pane is bound to.  A pane is launched by a Run,   *)
(* by a Fork of another pane or by a restore; its agent names its session  *)
(* in hooks that may come before the pane is registered; the binding lives *)
(* in memory and in tmux options, from which a new daemon takes it over.   *)
(*                                                                         *)
(* A Claude that forks reports the session it copies until its first turn; *)
(* the daemon pins the id it minted.  Codex names its session no sooner    *)
(* than its first prompt.  OpenCode calls no hooks.                        *)
(***************************************************************************)
EXTENDS Naturals, FiniteSets, FiniteSetsExt

CONSTANTS
  Backends,     \* the backends to launch
  Kinds,        \* the ways to launch
  MaxPanes,     \* bound on panes
  MaxRuns,      \* bound on panes that exist when one is launched but by a fork
  MaxSessions,  \* bound on sessions
  MaxPrompts,   \* bound on prompts of one pane
  MaxRestarts,  \* bound on restarts of the daemon
  Task,         \* launches that can run at once
  Hook,         \* hook handlers that can run at once
  Trouble,      \* what may go wrong outside: see Troubles
  Free          \* nobody holds session_binding_mutex

\* earlyHelper: a helper of Codex calls a hook before its pane is bound;
\* splitFork: the daemon restarts before a fork of Claude had its first turn;
\* clearedFork: "/clear" in a pane with a pinned session;
\* hastyClear: "/clear" while the pane is being launched;
\* cutLaunch: the daemon restarts when a pane is marked and not yet attached.
Troubles == {"earlyHelper", "splitFork", "clearedFork", "hastyClear", "cutLaunch"}

Pane == 1..MaxPanes
Session == 1..MaxSessions
None == 0
Stored == 1                    \* a session from before
Other == MaxSessions + 1       \* the session of a helper or a subagent
Named == Session \cup {None, Other}
Hooked == {"Claude", "Codex", "Grok"}

ASSUME BindingAssumption ==
  /\ Backends \subseteq Hooked \cup {"OpenCode", "OpenCode2"}
  /\ Kinds \subseteq {"fresh", "resume", "continue", "resumeFork", "fork", "restore"}
  /\ {MaxPanes, MaxSessions} \subseteq Nat \ {0}
  /\ {MaxRuns, MaxPrompts, MaxRestarts} \subseteq Nat
  /\ Trouble \subseteq Troubles
  /\ Task \cap Hook = {} /\ Free \notin Task \cup Hook

VARIABLES
  backend,   \* the backend of the panes
  minted,    \* sessions that exist
  agent,     \* each pane's agent
  option,    \* each pane's tmux options
  state,     \* each pane's PaneState
  managed,   \* managed_panes
  mutex,     \* who holds each pane's session_binding_mutex
  task,      \* the Run, Fork and restore tasks
  job,       \* the hook handlers
  deaf,      \* panes whose SessionStart was lost
  restarts

agentVars == <<backend, minted, agent>>
vars == <<agentVars, option, state, managed, mutex, task, job, deaf, restarts>>

-----------------------------------------------------------------------------
NoAgent == [live |-> FALSE, sess |-> None, report |-> None, ran |-> {},
            told |-> FALSE, prompts |-> 0]
NoOption == [managed |-> FALSE, sess |-> None, path |-> None, backend |-> "Claude"]
Unbound(b) == [bound |-> FALSE, backend |-> b]
Runtime(b) == [bound |-> TRUE, backend |-> b]
NoState == [sess |-> None, pin |-> None, path |-> None, runtime |-> Unbound("Claude")]
NoTask == [pc |-> "idle", kind |-> "fresh", pane |-> None, src |-> None,
           target |-> None, known |-> None, verify |-> FALSE]
NoJob == [pc |-> "idle", pane |-> None, ev |-> "Prompt", sess |-> None, file |-> None,
          heard |-> FALSE]

Init ==
  /\ backend \in Backends
  /\ minted = 1
  /\ agent = [p \in Pane |-> NoAgent]
  /\ option = [p \in Pane |-> NoOption]
  /\ state = [p \in Pane |-> NoState]
  /\ managed = {}
  /\ mutex = [p \in Pane |-> Free]
  /\ task = [t \in Task |-> NoTask]
  /\ job = [h \in Hook |-> NoJob]
  /\ deaf = {}
  /\ restarts = 0

-----------------------------------------------------------------------------
(* What a launch knows of its session beforehand.                          *)

Goto(t, pc) == [task EXCEPT ![t].pc = pc]
Launching(p) == \E t \in Task : task[t].pane = p /\ task[t].pc # "idle"

\* The id a Run knows: the pin of a fork, the id of Grok, the target of Codex.
Knows(kind) ==
  CASE backend = "Claude" -> kind = "fork"
    [] backend = "Codex" -> kind \in {"resume", "fork"}
    [] backend = "Grok" -> kind # "continue"
    [] OTHER -> FALSE

Pins(kind) == backend \in {"Claude", "Grok"} /\ Knows(kind)

\* The session a Run asks for: "resumeFork" has no target of its own.
Mints(kind) == kind \in {"fresh", "resumeFork"}
Target(kind) == IF Mints(kind) THEN minted + 1 ELSE Stored

Unused == {p \in Pane : ~agent[p].live}

RunAdmit(t, kind) ==
  /\ task[t].pc = "idle" /\ kind \in Kinds \ {"fork"}
  /\ Cardinality(Pane \ Unused) <= MaxRuns
  /\ kind \in {"continue", "resumeFork"} => backend = "Grok"
  /\ Target(kind) \in Session
  /\ minted' = IF Mints(kind) THEN minted + 1 ELSE minted
  /\ task' = [task EXCEPT ![t] =
       [NoTask EXCEPT !.pc = "spawn", !.kind = kind, !.target = Target(kind),
                      !.known = IF Knows(kind) THEN Target(kind) ELSE None]]
  /\ UNCHANGED <<backend, agent, option, state, managed, mutex, job, deaf, restarts>>

-----------------------------------------------------------------------------
(* Fork.                                                                   *)

others == <<backend, agent, managed, job, deaf, restarts>>

\* The pane is listed before its binding is locked.
ForkAdmit(t, p) ==
  /\ task[t].pc = "idle" /\ "fork" \in Kinds /\ p \in managed
  /\ task' = [task EXCEPT ![t] =
       [NoTask EXCEPT !.pc = "lock", !.kind = "fork", !.src = p, !.target = option[p].sess]]
  /\ UNCHANGED <<others, minted, option, state, mutex>>

\* Codex names the thread of a caller inside the pane when nothing is bound.
ForkLock(t) ==
  LET p == task[t].src
      bound == IF state[p].sess # None THEN state[p].sess ELSE task[t].target
  IN
  /\ task[t].pc = "lock" /\ mutex[p] = Free
  /\ \E caller \in {None, agent[p].sess, Other} :
       LET verify == bound = None /\ backend = "Codex" /\ caller # None
           source == IF verify THEN caller ELSE bound
       IN  IF source = None
           THEN task' = [task EXCEPT ![t] = NoTask] /\ UNCHANGED mutex
           ELSE /\ task' = [task EXCEPT ![t].pc = "copy", ![t].target = source,
                                        ![t].verify = verify]
                /\ mutex' = [mutex EXCEPT ![p] = t]
  /\ UNCHANGED <<others, minted, option, state>>

ForkFails(t) ==
  /\ task[t].pc \in {"copy", "keep"} /\ backend \notin {"Claude", "Grok"}
  /\ task' = [task EXCEPT ![t] = NoTask]
  /\ mutex' = [mutex EXCEPT ![task[t].src] = Free]
  /\ UNCHANGED <<others, minted, option, state>>

\* The task goes on to its spawn with the id of the copy.
ForkTo(t) ==
  /\ task[t].pc = "copy" /\ minted < MaxSessions
  /\ minted' = minted + 1
  /\ IF task[t].verify
     THEN /\ task' = [task EXCEPT ![t].pc = "keep", ![t].known = minted + 1]
          /\ UNCHANGED mutex
     ELSE /\ task' = [task EXCEPT ![t].pc = "spawn", ![t].target = minted + 1,
                        ![t].known = IF Knows("fork") THEN minted + 1 ELSE None]
          /\ mutex' = [mutex EXCEPT ![task[t].src] = Free]
  /\ UNCHANGED <<others, option, state>>

\* The id is minted here; the agent copies the session when it starts.
ForkByAgent(t) == backend \in {"Claude", "Grok"} /\ ForkTo(t)

ForkByServer(t) == backend \notin Hooked /\ ForkTo(t)

\* A process of its own copies; it refuses a thread that is not top-level.
ForkByCodex(t) ==
  /\ backend = "Codex" /\ (task[t].verify => task[t].target # Other)
  /\ ForkTo(t)

\* The identity of the caller is kept for the source pane.
ForkKeep(t) ==
  LET p == task[t].src IN
  /\ task[t].pc = "keep"
  /\ option' = [option EXCEPT ![p].sess = task[t].target]
  /\ state' = [state EXCEPT ![p].sess = task[t].target]
  /\ task' = [task EXCEPT ![t].pc = "spawn", ![t].target = task[t].known]
  /\ mutex' = [mutex EXCEPT ![p] = Free]
  /\ UNCHANGED <<others, minted>>

-----------------------------------------------------------------------------
(* The spawn, and what follows it.                                         *)

\* What the launched agent runs, and what a fork of Claude reports.
Spawned(t) ==
  LET target == task[t].target
      runs == CASE backend = "OpenCode" /\ task[t].kind = "fresh" -> None
                [] task[t].kind = "resumeFork" -> Other
                [] OTHER -> target
  IN  [live |-> TRUE, sess |-> runs,
       report |-> IF backend = "Claude" /\ task[t].kind = "fork"
                  THEN agent[task[t].src].sess ELSE runs,
       ran |-> {runs}, told |-> FALSE, prompts |-> 0]

(* spawn_pane.  OpenCode 2 is given its session here, fresh or not.        *)
Spawn(t) ==
  /\ task[t].pc = "spawn" /\ Unused # {}
  /\ LET p == Min(Unused) IN
       /\ agent' = [agent EXCEPT ![p] = Spawned(t)]
       /\ option' = [option EXCEPT ![p].sess =
                       IF backend = "OpenCode2" THEN task[t].target ELSE None]
       /\ task' = [task EXCEPT ![t].pane = p,
                     ![t].pc = IF task[t].kind = "restore" THEN "resume" ELSE "know"]
  /\ UNCHANGED <<backend, minted, state, managed, mutex, job, deaf, restarts>>

SpawnFails(t) ==
  /\ task[t].pc = "spawn"
  /\ task' = [task EXCEPT ![t] = NoTask]
  /\ UNCHANGED <<agentVars, option, state, managed, mutex, job, deaf, restarts>>

unspawned == <<agentVars, mutex, deaf, restarts>>

(* A Run pins and writes down the session it knows.                        *)
PersistKnown(t) ==
  LET p == task[t].pane IN
  /\ task[t].pc = "know"
  /\ state' = [state EXCEPT ![p].pin = IF Pins(task[t].kind) THEN task[t].known ELSE None]
  /\ option' = [option EXCEPT ![p].sess = IF task[t].known = None THEN @ ELSE task[t].known]
  /\ task' = Goto(t, "register")
  /\ UNCHANGED <<unspawned, managed, job>>

(* A restore has its backend attach the pane first.                        *)
Resume(t, b) ==
  /\ task[t].pc = "resume" /\ backend = b
  /\ option' = [option EXCEPT ![task[t].pane].backend = b]
  /\ task' = Goto(t, "register")
  /\ UNCHANGED <<unspawned, managed, job>>

ResumeClaude(t) ==
  /\ Resume(t, "Claude")
  /\ state' = [state EXCEPT ![task[t].pane].runtime = Runtime("Claude")]

ResumeCodex(t) ==
  /\ Resume(t, "Codex")
  /\ state' = [state EXCEPT ![task[t].pane].runtime = Runtime("Codex")]

ResumeGrok(t) ==
  /\ Resume(t, "Grok")
  /\ state' = [state EXCEPT ![task[t].pane].runtime = Runtime("Grok"),
                            ![task[t].pane].sess = task[t].target]

\* The driver has the session, the identity of the pane has not.
ResumeOpenCode(t) ==
  /\ Resume(t, "OpenCode") \/ Resume(t, "OpenCode2")
  /\ state' = [state EXCEPT ![task[t].pane].runtime = Runtime(backend)]

RestoreBackend(t) ==
  ResumeClaude(t) \/ ResumeCodex(t) \/ ResumeGrok(t) \/ ResumeOpenCode(t)

\* Defect: the backend is known when the agent is attached, not before.
MarkBackendLater(p) == state

MarkBackend(p) ==
  [state EXCEPT ![p].runtime = IF @.bound THEN @ ELSE Unbound(backend)]

\* Hook handlers that wait for a registration are woken.
Notified ==
  [h \in Hook |-> IF job[h].pc \in {"check", "park", "wait"} THEN [job[h] EXCEPT !.heard = TRUE]
                  ELSE job[h]]

Register(t) ==
  /\ task[t].pc = "register"
  /\ state' = IF task[t].kind = "restore" THEN state ELSE MarkBackend(task[t].pane)
  /\ managed' = managed \cup {task[t].pane}
  /\ job' = Notified
  /\ task' = Goto(t, "mark")
  /\ UNCHANGED <<unspawned, option>>

Mark(t) ==
  /\ task[t].pc = "mark"
  /\ option' = [option EXCEPT ![task[t].pane].managed = TRUE]
  /\ task' = Goto(t, IF task[t].kind = "restore" THEN "persist" ELSE "seed")
  /\ UNCHANGED <<unspawned, state, managed, job>>

PersistRestored(t) ==
  /\ task[t].pc = "persist"
  /\ option' = [option EXCEPT ![task[t].pane].sess = task[t].target]
  /\ task' = [task EXCEPT ![t] = NoTask]
  /\ UNCHANGED <<unspawned, state, managed, job>>

Seed(t) ==
  LET p == task[t].pane IN
  /\ task[t].pc = "seed"
  /\ state' = [state EXCEPT ![p].sess = IF task[t].known = None THEN @ ELSE task[t].known]
  /\ task' = Goto(t, IF backend = "Claude" THEN "runtime" ELSE "attach")
  /\ UNCHANGED <<unspawned, option, managed, job>>

(* @slopd_backend, and for OpenCode the session: the one asked for, one    *)
(* that its server creates, or none in time.                               *)
Attach(t) ==
  LET p == task[t].pane IN
  /\ task[t].pc = "attach"
  /\ option' = [option EXCEPT ![p].backend = backend]
  /\ \/ /\ backend \in Hooked
        /\ state' = [state EXCEPT ![p].sess = IF backend = "Grok" /\ task[t].known # None
                                              THEN task[t].known ELSE @]
        /\ UNCHANGED agent
     \/ /\ backend \notin Hooked
        /\ state' = [state EXCEPT ![p].sess = task[t].target]
        /\ agent' = [agent EXCEPT ![p].sess = task[t].target,
                                  ![p].ran = @ \cup {task[t].target}]
     \/ /\ backend = "OpenCode" /\ task[t].kind = "fresh"
        /\ UNCHANGED <<state, agent>>
  /\ task' = Goto(t, "runtime")
  /\ UNCHANGED <<backend, minted, mutex, deaf, restarts, managed, job>>

AttachRuntime(t) ==
  LET p == task[t].pane IN
  /\ task[t].pc = "runtime"
  /\ option' = IF backend \in {"Claude", "Codex"} \/ state[p].sess = None THEN option
               ELSE [option EXCEPT ![p].sess = state[p].sess]
  /\ state' = [state EXCEPT ![p].runtime =
                 IF backend = "Codex" /\ @.bound THEN @ ELSE Runtime(backend)]
  /\ task' = [task EXCEPT ![t] = NoTask]
  /\ UNCHANGED <<unspawned, managed, job>>

Launch(t) ==
  \/ \E kind \in Kinds : RunAdmit(t, kind)
  \/ \E p \in Pane : ForkAdmit(t, p)
  \/ ForkLock(t) \/ ForkFails(t) \/ ForkKeep(t)
  \/ ForkByAgent(t) \/ ForkByServer(t) \/ ForkByCodex(t)
  \/ Spawn(t) \/ SpawnFails(t) \/ PersistKnown(t) \/ RestoreBackend(t) \/ Register(t)
  \/ Mark(t) \/ PersistRestored(t) \/ Seed(t) \/ Attach(t) \/ AttachRuntime(t)

-----------------------------------------------------------------------------
(* Agents.                                                                 *)

Pending(p) == {h \in Hook : job[h].pane = p /\ job[h].pc # "idle"}

Call(p, ev, s, f) ==
  \E h \in Hook :
    /\ job[h].pc = "idle"
    /\ job' = [job EXCEPT ![h] = [NoJob EXCEPT !.pc = "admit", !.pane = p, !.ev = ev,
                                                !.sess = s, !.file = f]]

outside == <<backend, option, state, managed, mutex, task, deaf, restarts>>

Announce(p) ==
  /\ agent[p].live /\ backend \in Hooked /\ ~agent[p].told /\ Pending(p) = {}
  /\ backend = "Codex" => agent[p].prompts < MaxPrompts
  /\ agent' = [agent EXCEPT ![p].told = TRUE]
  /\ Call(p, "SessionStart", agent[p].report, agent[p].report)
  /\ UNCHANGED <<outside, minted>>

\* From its first turn on a fork of Claude reports itself.
Prompt(p) ==
  /\ agent[p].told /\ Pending(p) = {} /\ agent[p].prompts < MaxPrompts
  /\ agent' = [agent EXCEPT ![p].prompts = @ + 1, ![p].report = agent[p].sess]
  /\ Call(p, "Prompt", agent[p].report, agent[p].report)
  /\ UNCHANGED <<outside, minted>>

\* Claude announces the new session at once, Codex at the next prompt.
Clear(p) ==
  /\ agent[p].told /\ Pending(p) = {} /\ minted < MaxSessions /\ backend # "Grok"
  /\ "hastyClear" \in Trouble \/ ~Launching(p)
  /\ "clearedFork" \in Trouble \/ state[p].pin = None
  /\ minted' = minted + 1
  /\ agent' = [agent EXCEPT ![p].sess = minted + 1, ![p].report = minted + 1,
                            ![p].ran = @ \cup {minted + 1}, ![p].told = FALSE]
  /\ UNCHANGED <<outside, job>>

\* A helper inside Codex has no transcript; a subagent names its own.
Inner(p) ==
  /\ backend = "Codex" /\ agent[p].live
  /\ \/ /\ "earlyHelper" \in Trouble \/ state[p].sess # None
        /\ Call(p, "SessionStart", Other, None) \/ Call(p, "Prompt", Other, None)
     \/ agent[p].told /\ Pending(p) = {} /\ Call(p, "SubagentStart", agent[p].sess, Other)
  /\ UNCHANGED <<outside, minted, agent>>

Agent(p) == Announce(p) \/ Prompt(p) \/ Clear(p) \/ Inner(p)

-----------------------------------------------------------------------------
(* Hook handlers.                                                          *)

Step(h, pc) == [job EXCEPT ![h].pc = pc]
Done(h) == [job EXCEPT ![h] = NoJob]
Lost(h) == IF job[h].ev = "SessionStart" /\ job[h].sess # Other THEN {job[h].pane} ELSE {}
unhandled == <<agentVars, managed, task, restarts>>

Admit(h) ==
  /\ job[h].pc = "admit"
  /\ job' = Step(h, IF job[h].pane \in managed THEN "lock" ELSE "arm")
  /\ UNCHANGED <<unhandled, option, state, mutex, deaf>>

\* The wake-up is subscribed to before the set is looked at.
Arm(h) ==
  /\ job[h].pc = "arm"
  /\ job' = [job EXCEPT ![h].pc = "check", ![h].heard = FALSE]
  /\ UNCHANGED <<unhandled, option, state, mutex, deaf>>

Check(h) ==
  /\ job[h].pc = "check"
  /\ job' = Step(h, IF job[h].pane \in managed THEN "lock" ELSE "park")
  /\ UNCHANGED <<unhandled, option, state, mutex, deaf>>

\* Defect: the wake-up is subscribed to when the wait begins.
ParkLate(h) ==
  /\ job[h].pc = "park"
  /\ job' = [job EXCEPT ![h].pc = "wait", ![h].heard = FALSE]
  /\ UNCHANGED <<unhandled, option, state, mutex, deaf>>

Park(h) ==
  /\ job[h].pc = "park" /\ job' = Step(h, "wait")
  /\ UNCHANGED <<unhandled, option, state, mutex, deaf>>

Wake(h) ==
  /\ job[h].pc = "wait" /\ job[h].heard
  /\ job' = Step(h, "arm")
  /\ UNCHANGED <<unhandled, option, state, mutex, deaf>>

\* After two seconds.
WaitOver(h) ==
  /\ job[h].pc = "wait"
  /\ IF job[h].pane \in managed
     THEN job' = Step(h, "lock") /\ UNCHANGED deaf
     ELSE job' = Done(h) /\ deaf' = deaf \cup Lost(h)
  /\ UNCHANGED <<unhandled, option, state, mutex>>

\* hook_transcript_path.
PathOf(h) ==
  IF state[job[h].pane].runtime.backend = "Codex" /\ job[h].ev = "SubagentStart"
  THEN None ELSE job[h].file

\* hook_belongs_to_bound_session.
Foreign(h) ==
  LET s == state[job[h].pane] IN
  \/ s.runtime.backend \notin Hooked
  \/ /\ s.runtime.backend = "Codex" /\ s.sess # None /\ job[h].sess # s.sess
     /\ ~(job[h].ev = "SessionStart" /\ PathOf(h) # None)

Lock(h) ==
  /\ job[h].pc = "lock" /\ mutex[job[h].pane] = Free
  /\ IF Foreign(h)
     THEN job' = Done(h) /\ deaf' = deaf \cup Lost(h) /\ UNCHANGED mutex
     ELSE /\ job' = Step(h, "path")
          /\ mutex' = [mutex EXCEPT ![job[h].pane] = h]
          /\ UNCHANGED deaf
  /\ UNCHANGED <<unhandled, option, state>>

(* The pin corrects the path that a fork of Claude reports.                *)
Corrected(h) ==
  LET s == state[job[h].pane] IN
  IF s.runtime.backend = "Claude" /\ s.pin # None THEN s.pin ELSE PathOf(h)

TakePath(h) ==
  LET p == job[h].pane IN
  /\ job[h].pc = "path"
  /\ IF PathOf(h) = None THEN UNCHANGED <<option, state>>
     ELSE /\ option' = [option EXCEPT ![p].path = Corrected(h)]
          /\ state' = [state EXCEPT ![p].path = Corrected(h)]
  /\ IF job[h].ev = "SessionStart"
     THEN job' = Step(h, "start") /\ UNCHANGED mutex
     ELSE job' = Done(h) /\ mutex' = [mutex EXCEPT ![p] = Free]
  /\ UNCHANGED <<unhandled, deaf>>

\* Defect: the payload is taken even from a fork.
BoundAsReported(s, h) == job[h].sess

\* What SessionStart binds the pane to: the pin before the payload.
Bound(s, h) ==
  IF s.runtime.backend \in {"Claude", "Grok"} /\ s.pin # None THEN s.pin ELSE job[h].sess

Bind(h) ==
  LET p == job[h].pane
      s == state[p]
  IN
  /\ job[h].pc = "start"
  /\ state' = [state EXCEPT ![p].sess = Bound(s, h),
                            ![p].runtime = IF s.runtime.backend = "Grok" THEN @
                                           ELSE Runtime(@.backend)]
  /\ deaf' = deaf \ {p}
  /\ job' = Step(h, "persist")
  /\ UNCHANGED <<unhandled, option, mutex>>

\* Defect: the session that was reported is written, not the one bound.
PersistBoundReported(h) ==
  LET p == job[h].pane IN
  /\ job[h].pc = "persist"
  /\ option' = [option EXCEPT ![p].sess = job[h].sess]
  /\ mutex' = [mutex EXCEPT ![p] = Free]
  /\ job' = Done(h)
  /\ UNCHANGED <<unhandled, state, deaf>>

PersistBound(h) ==
  LET p == job[h].pane IN
  /\ job[h].pc = "persist"
  /\ option' = [option EXCEPT ![p].sess = Bound(state[p], h)]
  /\ mutex' = [mutex EXCEPT ![p] = Free]
  /\ job' = Done(h)
  /\ UNCHANGED <<unhandled, state, deaf>>

Handle(h) ==
  \/ Admit(h) \/ Arm(h) \/ Check(h) \/ Park(h) \/ Wake(h) \/ Lock(h)
  \/ TakePath(h) \/ Bind(h) \/ PersistBound(h)

-----------------------------------------------------------------------------
\* ps fills in what the memory does not know.
PsRefresh(p) ==
  /\ p \in managed /\ state[p].sess = None /\ option[p].sess # None
  /\ state' = [state EXCEPT ![p].sess = option[p].sess]
  /\ UNCHANGED <<agentVars, option, managed, mutex, task, job, deaf, restarts>>

Silent(p) == agent[p].live /\ agent[p].report # agent[p].sess

\* A pane of Claude or Codex needs nothing to be driven.
RecoverHooked(o) == Runtime(o.backend)

\* Grok and OpenCode are attached to a session, or not at all.
RecoverGrok(o) == IF o.sess = None THEN Unbound(o.backend) ELSE Runtime("Grok")
RecoverOpenCode(o) == IF o.sess = None THEN Unbound(o.backend) ELSE Runtime(o.backend)

Recover(p) ==
  LET o == option[p] IN
  [sess |-> o.sess, pin |-> None, path |-> o.path,
   runtime |-> CASE o.backend \in {"Claude", "Codex"} -> RecoverHooked(o)
                 [] o.backend = "Grok" -> RecoverGrok(o)
                 [] OTHER -> RecoverOpenCode(o)]

Restart ==
  /\ restarts < MaxRestarts
  /\ "splitFork" \in Trouble \/ \A p \in Pane : ~Silent(p)
  /\ "cutLaunch" \in Trouble \/ \A p \in Pane : ~(option[p].managed /\ Launching(p))
  /\ restarts' = restarts + 1
  /\ managed' = {p \in Pane : option[p].managed}
  /\ state' = [p \in Pane |-> IF option[p].managed THEN Recover(p) ELSE NoState]
  /\ mutex' = [p \in Pane |-> Free]
  /\ deaf' = deaf \cup (UNION {Lost(h) : h \in Hook})
                  \cup {p \in Pane : Launching(p)}
  /\ task' = [t \in Task |-> NoTask]
  /\ job' = [h \in Hook |-> NoJob]
  /\ UNCHANGED <<agentVars, option>>

Next ==
  \/ \E t \in Task : Launch(t)
  \/ \E p \in Pane : Agent(p) \/ PsRefresh(p)
  \/ \E h \in Hook : Handle(h) \/ WaitOver(h)
  \/ Restart

Spec == Init /\ [][Next]_vars

(* Handlers go on when they can; nothing is assumed of agents, launches,   *)
(* timeouts or restarts, but that a launch past its spawn goes on.         *)
FairSpec ==
  /\ Spec
  /\ \A h \in Hook : WF_vars(Handle(h))
  /\ \A t \in Task : WF_vars(Launch(t) /\ task[t].pc # "idle")

-----------------------------------------------------------------------------
(* Correctness.                                                            *)

Runtimes == [bound : BOOLEAN, backend : Backends \cup {"Claude"}]
LaunchStep == {"know", "resume", "register", "mark", "persist", "seed", "attach", "runtime"}
TaskStep == {"idle", "lock", "copy", "keep", "spawn"} \cup LaunchStep
JobStep == {"idle", "admit", "arm", "check", "park", "wait", "lock", "path", "start", "persist"}
HookEvent == {"SessionStart", "Prompt", "SubagentStart"}

Agents == [live : BOOLEAN, sess : Named, report : Named, ran : SUBSET Named,
           told : BOOLEAN, prompts : 0..MaxPrompts]
Options == [managed : BOOLEAN, sess : Named, path : Named, backend : Backends \cup {"Claude"}]
States == [sess : Named, pin : Named, path : Named, runtime : Runtimes]
Tasks == [pc : TaskStep, kind : Kinds \cup {"fresh"}, pane : Pane \cup {None},
          src : Pane \cup {None}, target : Named, known : Named, verify : BOOLEAN]
Jobs == [pc : JobStep, pane : Pane \cup {None}, ev : HookEvent, sess : Named,
         file : Named, heard : BOOLEAN]

TypeOK ==
  /\ backend \in Backends /\ minted \in Session
  /\ agent \in [Pane -> Agents]
  /\ option \in [Pane -> Options]
  /\ state \in [Pane -> States]
  /\ managed \subseteq Pane /\ deaf \subseteq Pane
  /\ mutex \in [Pane -> Task \cup Hook \cup {Free}]
  /\ task \in [Task -> Tasks]
  /\ job \in [Hook -> Jobs]
  /\ restarts \in 0..MaxRestarts

\* Nothing is under way at the pane.
Settled(p) == p \in managed /\ ~Launching(p) /\ Pending(p) = {} /\ mutex[p] = Free

(* Whatever hooks come in whatever order, a pane is bound only to sessions *)
(* that its own agent has run: a fork never to the session it copies, a    *)
(* Codex never to a helper (5050, 5867-5888).                              *)
BoundToItsAgent ==
  \A p \in managed :
    /\ state[p].sess # None => state[p].sess \in agent[p].ran
    /\ option[p].sess # None => option[p].sess \in agent[p].ran

(* When nothing is under way, a pane whose agent has named its session,    *)
(* and was heard, is bound to the session the agent runs now, tails its    *)
(* transcript, and is driven as its backend: the order in which the launch *)
(* and the hooks reached the pane does not matter (6386-6399, 5785-5902).  *)
BindingFollowsAgent ==
  \A p \in Pane \ deaf : Settled(p) /\ agent[p].told =>
    /\ state[p].sess = agent[p].sess
    /\ state[p].path = agent[p].sess
    /\ state[p].runtime.backend = backend

(* Between two writers the tmux option names the session bound in memory,  *)
(* so that a restart does not change a binding (2548, 5894, 6467).         *)
BindingIsDurable ==
  \A p \in managed : mutex[p] = Free /\ ~Launching(p) /\ state[p].sess # None =>
    option[p].sess = state[p].sess

Unheard == {"arm", "check", "park", "wait"}

(* A hook that came before its pane was registered goes on as soon as the  *)
(* pane is: no wake-up is missed between the look and the wait (5744).     *)
HooksAreHeard ==
  \A h \in Hook :
    job[h].pc \in Unheard /\ job[h].pane \in managed
      ~> job[h].pc \notin Unheard
=============================================================================
