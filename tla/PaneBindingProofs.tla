------------------------- MODULE PaneBindingProofs -------------------------
(* Proofs about PaneBinding, for any number of panes, launches, hook       *)
(* handlers, sessions and restarts.                                        *)
EXTENDS PaneBinding, WellFoundedInduction, TLAPS

-----------------------------------------------------------------------------
(* The surroundings that the theorems suppose.                             *)

\* A helper of Codex waits until its pane is bound, the daemon restarts
\* neither before the first turn of a fork nor in the middle of a marked
\* launch, and a resume forks no session.
Orderly ==
  /\ {"earlyHelper", "splitFork", "cutLaunch"} \cap Trouble = {}
  /\ "resumeFork" \notin Kinds

\* Nor does a user clear a pane that is being launched.
Patient == Orderly /\ "hastyClear" \notin Trouble

\* Nor a pane whose session is pinned.
Gentle == Patient /\ "clearedFork" \notin Trouble

-----------------------------------------------------------------------------
(* A pane knows only sessions of its agent.                                *)

At(t, pcs) == task[t].pc \in pcs
Own(p) == agent[p].ran \cup {None}
Forking == {"lock", "copy", "keep"}
Unlisted == {"know", "resume", "register"}

\* The fork of a Claude is pinned to its copy, or will be before it is heard.
Pinned(p) ==
  /\ backend = "Claude"
  /\ \/ state[p].pin # None
     \/ \E t \in Task : At(t, {"know"}) /\ task[t].pane = p /\ task[t].kind = "fork"

\* A pane that no agent has used knows nothing.
Unborn(p) ==
  ~agent[p].live =>
    /\ agent[p] = NoAgent /\ state[p] = NoState /\ option[p] = NoOption
    /\ p \notin managed

Reports(p) ==
  /\ agent[p].live => /\ agent[p].sess \in agent[p].ran
                      /\ agent[p].report \in agent[p].ran \/ Pinned(p)
  /\ Other \notin agent[p].ran
  /\ backend # "OpenCode" => None \notin agent[p].ran

Bindings(p) ==
  state[p].pin \in Own(p) /\ state[p].sess \in Own(p) /\ option[p].sess \in Own(p)

AgentSane(p) == Unborn(p) /\ Reports(p) /\ Bindings(p)

RuntimeSane(p) ==
  /\ p \in managed \/ state[p].runtime.bound => state[p].runtime.backend = backend
  /\ option[p].backend \in {"Claude", backend}
  /\ option[p].managed =>
       \/ option[p].backend = backend
       \/ \E t \in Task : At(t, {"seed", "attach"}) /\ task[t].pane = p

ForkSane(t) ==
  /\ task[t].kind = "fork" /\ task[t].src \in managed
  /\ At(t, {"copy", "keep"}) /\ task[t].verify => backend = "Codex"
  /\ At(t, {"copy"}) /\ task[t].verify =>
       task[t].target \in agent[task[t].src].ran \cup {Other}
  /\ At(t, {"keep"}) =>
       /\ task[t].verify /\ task[t].target \in agent[task[t].src].ran
       /\ task[t].known \in Session

Aims(t) ==
  /\ task[t].target \in Session
  /\ task[t].known = IF Knows(task[t].kind) THEN task[t].target ELSE None

LaunchSane(t) ==
  LET p == task[t].pane IN
  /\ agent[p].live
  /\ (backend = "OpenCode" /\ task[t].kind = "fresh") \/ task[t].target \in agent[p].ran
  /\ At(t, {"know"}) => state[p].pin = None
  /\ At(t, Unlisted) => p \notin managed /\ ~option[p].managed
  /\ ~At(t, Unlisted) => p \in managed
  /\ At(t, {"resume", "persist"}) => task[t].kind = "restore"
  /\ At(t, {"know", "seed", "attach", "runtime"}) => task[t].kind # "restore"
  /\ At(t, {"register"}) /\ task[t].kind = "restore" => state[p].runtime.backend = backend
  /\ (At(t, {"register", "mark"}) /\ task[t].kind = "restore") \/ At(t, {"runtime"}) =>
       option[p].backend = backend

TaskSane(t) ==
  /\ task[t].kind # "resumeFork"
  /\ At(t, Forking) => ForkSane(t)
  /\ At(t, LaunchStep \cup {"spawn"}) => Aims(t)
  /\ At(t, LaunchStep) => LaunchSane(t)
  /\ \A u \in Task : task[t].pane # None /\ task[t].pane = task[u].pane => t = u

Holding == {"path", "start", "persist"}

JobSane(h) ==
  LET p == job[h].pane IN
  /\ agent[p].live
  /\ \/ job[h].sess \in agent[p].ran
     \/ Pinned(p)
     \/ /\ backend = "Codex" /\ job[h].sess = Other /\ job[h].file = None
        /\ state[p].sess # None /\ job[h].pc \notin Holding
  /\ job[h].pc \in Holding \cup {"lock"} => p \in managed
  /\ job[h].pc \in {"start", "persist"} => job[h].ev = "SessionStart"

Sane ==
  /\ \A p \in Pane : AgentSane(p) /\ RuntimeSane(p)
  /\ \A t \in Task : TaskSane(t)
  /\ \A h \in Hook : job[h].pc # "idle" => JobSane(h)

-----------------------------------------------------------------------------
(* The option names what the memory names.                                 *)

\* A hook handler from its Lock to its end, and a fork of Codex that looks
\* for the session of its caller, hold the binding of their pane.
Held(p) ==
  /\ \A h \in Hook : job[h].pc \in Holding /\ job[h].pane = p =>
       mutex[p] = h /\ backend \in Hooked
  /\ \A t \in Task : At(t, {"copy", "keep"}) /\ task[t].src = p => mutex[p] = t

\* The agent of a pane that is being launched has run one session.
Steady(t) ==
  LET p == task[t].pane IN
  At(t, LaunchStep) =>
    /\ agent[p].ran \subseteq {None, agent[p].sess}
    /\ backend = "OpenCode" /\ task[t].kind = "fresh" =>
         agent[p].sess = None \/ At(t, {"runtime"})

\* A launch that knows its session has written it down before it binds it.
WrittenDown(t) ==
  At(t, {"register", "mark", "seed"}) /\ task[t].kind # "restore" /\ task[t].known # None =>
    option[task[t].pane].sess # None

Writing(p) == \E h \in Hook : job[h].pc = "persist" /\ job[h].pane = p

Durable(p) ==
  \/ Writing(p)
  \/ state[p].sess = None
  \/ option[p].sess = state[p].sess
  \/ Launching(p) /\ backend \notin {"Claude", "Codex"}

Unheld(p) == p \notin managed /\ backend \in {"Claude", "Codex"} => state[p].sess = None

\* What a handler is about to write is what it bound.
StillBound(h) ==
  job[h].pc = "persist" => state[job[h].pane].sess = Bound(state[job[h].pane], h)

Kempt ==
  /\ \A p \in Pane : Held(p) /\ Unheld(p) /\ (p \in managed => Durable(p))
  /\ \A t \in Task : Steady(t) /\ WrittenDown(t)
  /\ \A h \in Hook : StillBound(h)

-----------------------------------------------------------------------------
(* The binding follows the agent.                                          *)

\* A hook in which the agent names its own session.
OwnCall(h) == job[h].pc # "idle" /\ job[h].file # None /\ job[h].ev # "SubagentStart"

\* The agent has announced its session, and the handler is not done.
Announcing(p, done) ==
  \E h \in Hook : /\ job[h].pane = p /\ job[h].pc \notin {"idle"} \cup done
                  /\ job[h].ev = "SessionStart" /\ job[h].file # None

Speaks(p) ==
  /\ agent[p].report # Other
  /\ agent[p].live /\ backend \in Hooked => agent[p].report # None
  /\ agent[p].told => backend \in Hooked
  /\ backend \in Hooked => agent[p].report = agent[p].sess \/ Pinned(p)
  /\ state[p].pin \in {None, agent[p].sess}

Marked(p) ==
  /\ option[p].managed => p \in managed
  /\ p \in managed \/ Launching(p) => option[p].path = state[p].path

Spoken(h) ==
  LET p == job[h].pane IN
  /\ job[h].file = None => job[h].sess = Other /\ backend = "Codex"
  /\ job[h].ev = "SubagentStart" => backend = "Codex"
  /\ OwnCall(h) => /\ agent[p].told
                   /\ job[h].sess = job[h].file /\ job[h].sess # Other
                   /\ job[h].sess = agent[p].report \/ Pinned(p)
  /\ job[h].pc \in {"start", "persist"} => state[p].path = agent[p].sess

Heeded(p) == p \notin deaf /\ (p \in managed \/ Launching(p)) /\ agent[p].told

Followed(p) ==
  Heeded(p) =>
    /\ state[p].sess = agent[p].sess \/ Announcing(p, {"persist"})
    /\ state[p].path = agent[p].sess \/ Announcing(p, {"start", "persist"})

\* A fork of Codex keeps the session of its caller, and the source of a fork
\* is alive when the copy is spawned.
Asked(t) ==
  LET p == task[t].src IN
  /\ At(t, {"copy", "keep"}) /\ task[t].verify /\ Heeded(p) =>
       task[t].target \in {agent[p].sess, Other} \/ Announcing(p, {"persist"})
  /\ At(t, {"spawn"}) /\ task[t].kind = "fork" => agent[p].live

Following ==
  /\ \A p \in Pane : Speaks(p) /\ Marked(p) /\ Followed(p)
  /\ \A h \in Hook : job[h].pc # "idle" => Spoken(h)
  /\ \A t \in Task : Asked(t)

-----------------------------------------------------------------------------
(* What the actions do, field by field.                                    *)

\* What the proofs use of the assumption on the constants.
LEMMA Constants ==
  /\ Pane \subseteq Nat /\ None \notin Pane /\ Stored \in Session
  /\ Session \subseteq Named /\ None \in Named /\ Other \in Named
  /\ None \notin Session /\ Other \notin Session /\ Other # None
  /\ minted \in Session /\ minted < MaxSessions => minted + 1 \in Session
  /\ \A t \in Task, h \in Hook : t # h /\ t # Free /\ h # Free
BY BindingAssumption DEF Pane, Session, Named, None, Stored, Other

\* Where launches and hooks stand.
Placed ==
  /\ \A t \in Task : /\ task[t].pane # None <=> At(t, LaunchStep)
                     /\ At(t, Forking) => task[t].src \in Pane
                     /\ At(t, {"spawn"}) /\ task[t].kind = "fork" => task[t].src \in Pane
  /\ \A h \in Hook : IF job[h].pc = "idle" THEN job[h].ev = "Prompt" ELSE job[h].pane \in Pane

Typed == TypeOK /\ Placed

OtherTasks(t) == \A u \in Task \ {t} : task'[u] = task[u]
OtherJobs(h) == \A g \in Hook \ {h} : job'[g] = job[g]
OtherStates(p) == \A q \in Pane \ {p} : state'[q] = state[q]
OtherOptions(p) == \A q \in Pane \ {p} : option'[q] = option[q]
OtherAgents(p) == \A q \in Pane \ {p} : agent'[q] = agent[q]

TaskGoes(t, pc) ==
  /\ OtherTasks(t) /\ task'[t].pc = pc
  /\ task'[t].pane = task[t].pane /\ task'[t].kind = task[t].kind
  /\ task'[t].src = task[t].src /\ task'[t].target = task[t].target
  /\ task'[t].known = task[t].known /\ task'[t].verify = task[t].verify

TaskEnds(t) == OtherTasks(t) /\ task'[t].pc = "idle" /\ task'[t] = NoTask

JobGoes(h, pc) ==
  /\ OtherJobs(h) /\ job'[h].pc = pc
  /\ job'[h].pane = job[h].pane /\ job'[h].ev = job[h].ev
  /\ job'[h].sess = job[h].sess /\ job'[h].file = job[h].file

JobEnds(h) == OtherJobs(h) /\ job'[h].pc = "idle" /\ job'[h] = NoJob

Names(p, s) ==
  /\ OtherStates(p) /\ state'[p].sess = s /\ state'[p].pin = state[p].pin
  /\ state'[p].path = state[p].path /\ state'[p].runtime = state[p].runtime

Drives(p, r) ==
  /\ OtherStates(p) /\ state'[p].runtime = r /\ state'[p].pin = state[p].pin
  /\ state'[p].path = state[p].path /\ state'[p].sess = state[p].sess

Writes(p, s) ==
  /\ OtherOptions(p) /\ option'[p].sess = s /\ option'[p].managed = option[p].managed
  /\ option'[p].path = option[p].path /\ option'[p].backend = option[p].backend

\* An edit of one field of one pane, launch or handler stays in the type.
LEMMA StateEdits ==
  ASSUME NEW f \in [Pane -> States], NEW p \in Pane
  PROVE  /\ \A n \in Named : /\ [f EXCEPT ![p].sess = n] \in [Pane -> States]
                             /\ [f EXCEPT ![p].pin = n] \in [Pane -> States]
                             /\ [f EXCEPT ![p].path = n] \in [Pane -> States]
         /\ \A r \in Runtimes : [f EXCEPT ![p].runtime = r] \in [Pane -> States]
BY DEF States

LEMMA OptionEdits ==
  ASSUME NEW f \in [Pane -> Options], NEW p \in Pane
  PROVE  /\ \A n \in Named : /\ [f EXCEPT ![p].sess = n] \in [Pane -> Options]
                             /\ [f EXCEPT ![p].path = n] \in [Pane -> Options]
         /\ \A b \in Backends \cup {"Claude"} : [f EXCEPT ![p].backend = b] \in [Pane -> Options]
         /\ [f EXCEPT ![p].managed = TRUE] \in [Pane -> Options]
BY DEF Options

LEMMA AgentEdits ==
  ASSUME NEW f \in [Pane -> Agents], NEW p \in Pane
  PROVE  /\ \A n \in Named : /\ [f EXCEPT ![p].sess = n] \in [Pane -> Agents]
                             /\ [f EXCEPT ![p].report = n] \in [Pane -> Agents]
         /\ \A r \in SUBSET Named : [f EXCEPT ![p].ran = r] \in [Pane -> Agents]
         /\ \A b \in BOOLEAN : [f EXCEPT ![p].told = b] \in [Pane -> Agents]
         /\ \A k \in 0..MaxPrompts : [f EXCEPT ![p].prompts = k] \in [Pane -> Agents]
BY DEF Agents

LEMMA TaskEdits ==
  ASSUME NEW f \in [Task -> Tasks], NEW t \in Task
  PROVE  /\ \A pc \in TaskStep : [f EXCEPT ![t].pc = pc] \in [Task -> Tasks]
         /\ \A p \in Pane : [f EXCEPT ![t].pane = p] \in [Task -> Tasks]
         /\ \A n \in Named : /\ [f EXCEPT ![t].target = n] \in [Task -> Tasks]
                             /\ [f EXCEPT ![t].known = n] \in [Task -> Tasks]
         /\ \A b \in BOOLEAN : [f EXCEPT ![t].verify = b] \in [Task -> Tasks]
         /\ [f EXCEPT ![t] = NoTask] \in [Task -> Tasks]
<1>1. NoTask \in Tasks
  BY Constants DEF NoTask, Tasks, TaskStep
<1> QED BY <1>1 DEF Tasks

LEMMA JobEdits ==
  ASSUME NEW f \in [Hook -> Jobs], NEW h \in Hook
  PROVE  /\ \A pc \in JobStep : [f EXCEPT ![h].pc = pc] \in [Hook -> Jobs]
         /\ \A b \in BOOLEAN : [f EXCEPT ![h].heard = b] \in [Hook -> Jobs]
         /\ [f EXCEPT ![h] = NoJob] \in [Hook -> Jobs]
<1>1. NoJob \in Jobs
  BY Constants DEF NoJob, Jobs, JobStep, HookEvent
<1> QED BY <1>1 DEF Jobs

\* The values that an edit puts in are of the field's type.
LEMMA Values ==
  ASSUME TypeOK
  PROVE  /\ \A t \in Task : /\ task[t].target \in Named /\ task[t].known \in Named
                            /\ task[t].pane \in Pane \cup {None} /\ task[t] \in Tasks
         /\ \A p \in Pane : /\ state[p].sess \in Named /\ state[p].pin \in Named
                            /\ state[p].runtime \in Runtimes /\ agent[p].sess \in Named
                            /\ agent[p].report \in Named /\ agent[p].ran \in SUBSET Named
                            /\ option[p].sess \in Named /\ option[p].path \in Named
                            /\ option[p].backend \in Backends \cup {"Claude"}
                            /\ agent[p].prompts \in 0..MaxPrompts
         /\ \A h \in Hook : job[h].sess \in Named /\ job[h].file \in Named
         /\ {Runtime(backend), Unbound(backend)} \subseteq Runtimes
BY DEF TypeOK, Tasks, States, Agents, Options, Jobs, Runtimes, Runtime, Unbound

\* A launch that has spawned names its pane.
LEMMA PaneOf ==
  ASSUME Typed
  PROVE  /\ \A t \in Task : At(t, LaunchStep) => task[t].pane \in Pane
         /\ \A t \in Task : At(t, Forking) => task[t].src \in Pane
         /\ \A t \in Task : At(t, {"spawn"}) /\ task[t].kind = "fork" => task[t].src \in Pane
         /\ \A h \in Hook : job[h].pc # "idle" => job[h].pane \in Pane
BY Values DEF Typed, Placed

-----------------------------------------------------------------------------
(* Launches.                                                               *)

\* What RunAdmit does.
LEMMA RunAdmitEffect ==
  ASSUME TypeOK, NEW t \in Task, NEW kind \in Kinds, RunAdmit(t, kind)
  PROVE  /\ UNCHANGED <<backend, agent, option, state, managed, mutex, job, deaf, restarts>>
         /\ OtherTasks(t) /\ task[t].pc = "idle" /\ task'[t].pc = "spawn"
         /\ task'[t].kind = kind /\ kind \in Kinds \ {"fork"} /\ task'[t].pane = None
         /\ task'[t].target = Target(kind) /\ task'[t].target \in Session
         /\ task'[t].known = IF Knows(kind) THEN task'[t].target ELSE None
         /\ kind \in {"continue", "resumeFork"} => backend = "Grok"
         /\ TypeOK'
<1> DEFINE k == IF Knows(kind) THEN Target(kind) ELSE None
           r == [NoTask EXCEPT !.pc = "spawn", !.kind = kind, !.target = Target(kind), !.known = k]
<1>1. task' = [task EXCEPT ![t] = r] /\ Target(kind) \in Session
  BY DEF RunAdmit
<1>2. k \in Named
  BY <1>1, Constants
<1> HIDE DEF k
<1>3. /\ r.pc = "spawn" /\ r.kind = kind /\ r.target = Target(kind) /\ r.known = k
      /\ r.pane = None
  BY DEF NoTask
<1>4. r \in Tasks
  <2>1. \A a \in Tasks : [a EXCEPT !.pc = "spawn"] \in Tasks
    BY DEF Tasks, TaskStep
  <2>2. \A a \in Tasks : [a EXCEPT !.kind = kind] \in Tasks
    BY DEF Tasks
  <2>3. \A a \in Tasks : [a EXCEPT !.target = Target(kind)] \in Tasks
    BY <1>1, Constants DEF Tasks
  <2>4. \A a \in Tasks : [a EXCEPT !.known = k] \in Tasks
    BY <1>2 DEF Tasks
  <2>5. NoTask \in Tasks
    BY Constants DEF NoTask, Tasks, TaskStep
  <2> QED BY <2>1, <2>2, <2>3, <2>4, <2>5
<1> HIDE DEF r
<1>5. task \in [Task -> Tasks] /\ task' \in [Task -> Tasks]
  BY <1>1, <1>4 DEF TypeOK
<1>6. minted' \in Session
  BY <1>1 DEF RunAdmit, TypeOK, Target
<1>7. OtherTasks(t) /\ task'[t] = r
  BY <1>1, <1>5 DEF OtherTasks
<1>8. TypeOK'
  BY <1>5, <1>6 DEF TypeOK, RunAdmit
<1> QED BY <1>1, <1>3, <1>7, <1>8 DEF RunAdmit, k

\* What ForkAdmit does.
LEMMA ForkAdmitEffect ==
  ASSUME TypeOK, NEW t \in Task, NEW p \in Pane, ForkAdmit(t, p)
  PROVE  /\ UNCHANGED <<backend, minted, agent, option, state, managed, mutex, job, deaf, restarts>>
         /\ OtherTasks(t) /\ task[t].pc = "idle" /\ task'[t].pc = "lock"
         /\ task'[t].kind = "fork" /\ task'[t].pane = None /\ p \in managed
         /\ task'[t].src = p /\ task'[t].target = option[p].sess /\ task'[t].known = None
         /\ TypeOK'
<1> DEFINE r == [NoTask EXCEPT !.pc = "lock", !.kind = "fork", !.src = p,
                               !.target = option[p].sess]
<1>1. task' = [task EXCEPT ![t] = r] /\ "fork" \in Kinds /\ option[p].sess \in Named
  BY Values DEF ForkAdmit
<1>3. /\ r.pc = "lock" /\ r.kind = "fork" /\ r.target = option[p].sess /\ r.known = None
      /\ r.pane = None /\ r.src = p
  BY DEF NoTask
<1>4. r \in Tasks
  <2>1. \A a \in Tasks : [a EXCEPT !.pc = "lock"] \in Tasks
    BY DEF Tasks, TaskStep
  <2>2. \A a \in Tasks : [a EXCEPT !.kind = "fork"] \in Tasks
    BY <1>1 DEF Tasks
  <2>3. \A a \in Tasks : [a EXCEPT !.target = option[p].sess] \in Tasks
    BY <1>1 DEF Tasks
  <2>4. \A a \in Tasks : [a EXCEPT !.src = p] \in Tasks
    BY DEF Tasks
  <2>5. NoTask \in Tasks
    BY Constants DEF NoTask, Tasks, TaskStep
  <2> QED BY <2>1, <2>2, <2>3, <2>4, <2>5
<1> HIDE DEF r
<1>5. task \in [Task -> Tasks] /\ task' \in [Task -> Tasks]
  BY <1>1, <1>4 DEF TypeOK
<1>7. OtherTasks(t) /\ task'[t] = r
  BY <1>1, <1>5 DEF OtherTasks
<1>8. TypeOK'
  BY <1>5 DEF TypeOK, ForkAdmit, others
<1> QED BY <1>1, <1>3, <1>7, <1>8 DEF ForkAdmit, others

\* What ForkLock does.
LEMMA ForkLockEffect ==
  ASSUME Typed, NEW t \in Task, ForkLock(t)
  PROVE  /\ UNCHANGED <<backend, minted, agent, option, state, managed, job, deaf, restarts>>
         /\ task[t].pc = "lock" /\ task[t].src \in Pane /\ mutex[task[t].src] = Free
         /\ \/ TaskEnds(t) /\ UNCHANGED mutex
            \/ /\ OtherTasks(t) /\ task'[t].pc = "copy" /\ task'[t].pane = task[t].pane
               /\ task'[t].kind = task[t].kind /\ task'[t].src = task[t].src
               /\ task'[t].known = task[t].known /\ task'[t].target # None
               /\ mutex' = [mutex EXCEPT ![task[t].src] = t]
               /\ task'[t].verify =>
                    /\ backend = "Codex" /\ state[task[t].src].sess = None
                    /\ task'[t].target \in {agent[task[t].src].sess, Other}
         /\ TypeOK'
<1> DEFINE p == task[t].src
<1>1. p \in Pane /\ TypeOK
  BY PaneOf DEF Typed, ForkLock, At, Forking
<1>2. CASE task' = [task EXCEPT ![t] = NoTask] /\ UNCHANGED mutex
  <2>1. task' \in [Task -> Tasks]
    BY <1>1, <1>2, Constants, TaskEdits DEF TypeOK, TaskStep
  <2>2. TaskEnds(t)
    BY <1>1, <1>2 DEF TypeOK, TaskEnds, OtherTasks, NoTask
  <2> QED BY <1>1, <1>2, <2>1, <2>2 DEF ForkLock, others, TypeOK
<1> DEFINE bound == IF state[p].sess # None THEN state[p].sess ELSE task[t].target
           verify(c) == bound = None /\ backend = "Codex" /\ c # None
           source(c) == IF verify(c) THEN c ELSE bound
<1>3. PICK c \in {None, agent[p].sess, Other} :
        \/ source(c) = None /\ task' = [task EXCEPT ![t] = NoTask] /\ UNCHANGED mutex
        \/ /\ source(c) # None
           /\ task' = [task EXCEPT ![t].pc = "copy", ![t].target = source(c),
                                   ![t].verify = verify(c)]
           /\ mutex' = [mutex EXCEPT ![p] = t]
  BY DEF ForkLock
<1>4. source(c) \in Named /\ verify(c) \in BOOLEAN
  BY <1>1, Constants, Values
<1>5. verify(c) => /\ backend = "Codex" /\ state[p].sess = None
                   /\ source(c) \in {agent[p].sess, Other}
  OBVIOUS
<1> HIDE DEF source, verify
<1>6. ASSUME source(c) # None,
             task' = [task EXCEPT ![t].pc = "copy", ![t].target = source(c),
                                  ![t].verify = verify(c)],
             mutex' = [mutex EXCEPT ![p] = t]
      PROVE  /\ TypeOK'
             /\ OtherTasks(t) /\ task'[t].pc = "copy" /\ task'[t].pane = task[t].pane
             /\ task'[t].kind = task[t].kind /\ task'[t].src = task[t].src
             /\ task'[t].known = task[t].known /\ task'[t].target = source(c)
             /\ task'[t].verify = verify(c)
  <2>2. task' \in [Task -> Tasks]
    <3> DEFINE a == [task EXCEPT ![t].pc = "copy"]
               b == [a EXCEPT ![t].target = source(c)]
    <3>1. a \in [Task -> Tasks]
      BY <1>1, TaskEdits DEF TypeOK, TaskStep
    <3>2. b \in [Task -> Tasks]
      BY <1>4, <3>1, TaskEdits
    <3>3. [b EXCEPT ![t].verify = verify(c)] \in [Task -> Tasks]
      BY <1>4, <3>2, TaskEdits
    <3> QED BY <1>6, <3>3
  <2>3. mutex' \in [Pane -> Task \cup Hook \cup {Free}]
    BY <1>1, <1>6 DEF TypeOK
  <2>4. TypeOK'
    BY <1>1, <2>2, <2>3 DEF ForkLock, others, TypeOK
  <2> QED BY <1>1, <1>6, <2>4 DEF OtherTasks, TypeOK, Tasks
<1> QED BY <1>1, <1>2, <1>3, <1>5, <1>6 DEF ForkLock, others

\* What ForkFails does.
LEMMA ForkFailsEffect ==
  ASSUME Typed, NEW t \in Task, ForkFails(t)
  PROVE  /\ UNCHANGED <<backend, minted, agent, option, state, managed, job, deaf, restarts>>
         /\ task[t].pc \in {"copy", "keep"} /\ TaskEnds(t) /\ task[t].src \in Pane
         /\ mutex' = [mutex EXCEPT ![task[t].src] = Free]
         /\ TypeOK'
<1>1. task[t].src \in Pane /\ TypeOK
  BY PaneOf DEF Typed, ForkFails, At, Forking
<1>2. task' \in [Task -> Tasks]
  BY <1>1, Constants, TaskEdits DEF ForkFails, TypeOK, TaskStep
<1> QED BY <1>1, <1>2 DEF ForkFails, others, TypeOK, TaskEnds, OtherTasks, NoTask

\* What ForkTo does.
LEMMA ForkToEffect ==
  ASSUME Typed, NEW t \in Task, ForkTo(t)
  PROVE  /\ UNCHANGED <<backend, agent, option, state, managed, job, deaf, restarts>>
         /\ OtherTasks(t) /\ task[t].pc = "copy" /\ task[t].src \in Pane
         /\ task'[t].pane = task[t].pane /\ task'[t].kind = task[t].kind
         /\ task'[t].src = task[t].src /\ task'[t].verify = task[t].verify
         /\ \/ /\ task[t].verify /\ task'[t].pc = "keep" /\ UNCHANGED mutex
               /\ task'[t].target = task[t].target /\ task'[t].known \in Session
            \/ /\ ~task[t].verify /\ task'[t].pc = "spawn" /\ task'[t].target \in Session
               /\ task'[t].known = IF Knows("fork") THEN task'[t].target ELSE None
               /\ mutex' = [mutex EXCEPT ![task[t].src] = Free]
         /\ TypeOK'
<1>1. task[t].src \in Pane /\ TypeOK
  BY PaneOf DEF Typed, ForkTo, At, Forking
<1>2. minted' = minted + 1 /\ minted' \in Session /\ minted' \in Named
  BY <1>1, Constants DEF ForkTo, TypeOK
<1>3. /\ task \in [Task -> Tasks] /\ task[t] \in Tasks
      /\ mutex \in [Pane -> Task \cup Hook \cup {Free}]
  BY <1>1 DEF TypeOK
<1>4. CASE task[t].verify
  <2>1. task' = [task EXCEPT ![t].pc = "keep", ![t].known = minted'] /\ UNCHANGED mutex
    BY <1>2, <1>4 DEF ForkTo
  <2>2. task' \in [Task -> Tasks]
    <3> DEFINE a == [task EXCEPT ![t].pc = "keep"]
    <3>1. a \in [Task -> Tasks]
      BY <1>3, TaskEdits DEF TaskStep
    <3>2. [a EXCEPT ![t].known = minted'] \in [Task -> Tasks]
      BY <1>2, <3>1, TaskEdits
    <3> QED BY <2>1, <3>2
  <2>3. /\ OtherTasks(t) /\ task'[t].pc = "keep"
        /\ task'[t].pane = task[t].pane /\ task'[t].kind = task[t].kind
        /\ task'[t].src = task[t].src /\ task'[t].verify = task[t].verify
        /\ task'[t].target = task[t].target /\ task'[t].known = minted'
    BY <1>3, <2>1 DEF OtherTasks, Tasks
  <2>4. TypeOK'
    BY <1>1, <1>2, <2>1, <2>2 DEF ForkTo, others, TypeOK
  <2> QED BY <1>1, <1>2, <1>4, <2>1, <2>3, <2>4 DEF ForkTo, others
<1>5. CASE ~task[t].verify
  <2> DEFINE k == IF Knows("fork") THEN minted' ELSE None
  <2>1. /\ task' = [task EXCEPT ![t].pc = "spawn", ![t].target = minted', ![t].known = k]
        /\ mutex' = [mutex EXCEPT ![task[t].src] = Free]
    BY <1>2, <1>5 DEF ForkTo
  <2>k. k \in Named
    BY <1>2, Constants
  <2> HIDE DEF k
  <2>2. task' \in [Task -> Tasks]
    <3> DEFINE a == [task EXCEPT ![t].pc = "spawn"]
               b == [a EXCEPT ![t].target = minted']
    <3>1. a \in [Task -> Tasks]
      BY <1>3, TaskEdits DEF TaskStep
    <3>2. b \in [Task -> Tasks]
      BY <1>2, <3>1, TaskEdits
    <3>3. [b EXCEPT ![t].known = k] \in [Task -> Tasks]
      BY <2>k, <3>2, TaskEdits
    <3> QED BY <2>1, <3>3
  <2>3. /\ OtherTasks(t) /\ task'[t].pc = "spawn"
        /\ task'[t].pane = task[t].pane /\ task'[t].kind = task[t].kind
        /\ task'[t].src = task[t].src /\ task'[t].verify = task[t].verify
        /\ task'[t].target = minted' /\ task'[t].known = k
    BY <1>3, <2>1 DEF OtherTasks, Tasks
  <2>4. TypeOK'
    BY <1>1, <1>2, <1>3, <2>1, <2>2 DEF ForkTo, others, TypeOK
  <2> QED BY <1>1, <1>2, <1>5, <2>1, <2>3, <2>4 DEF ForkTo, others, k
<1> QED BY <1>1, <1>4, <1>5

\* What ForkKeep does.
LEMMA ForkKeepEffect ==
  ASSUME Typed, NEW t \in Task, ForkKeep(t)
  PROVE  /\ UNCHANGED <<backend, minted, agent, managed, job, deaf, restarts>>
         /\ OtherTasks(t) /\ task[t].pc = "keep" /\ task[t].src \in Pane
         /\ task'[t].pc = "spawn" /\ task'[t].pane = task[t].pane
         /\ task'[t].kind = task[t].kind /\ task'[t].src = task[t].src
         /\ task'[t].target = task[t].known /\ task'[t].known = task[t].known
         /\ Names(task[t].src, task[t].target) /\ Writes(task[t].src, task[t].target)
         /\ mutex' = [mutex EXCEPT ![task[t].src] = Free]
         /\ TypeOK'
<1>1. task[t].src \in Pane /\ TypeOK
  BY PaneOf DEF Typed, ForkKeep, At, Forking
<1>2. /\ task[t].target \in Named /\ task[t].known \in Named /\ task[t] \in Tasks
      /\ task \in [Task -> Tasks] /\ state \in [Pane -> States] /\ option \in [Pane -> Options]
  BY <1>1, Values DEF TypeOK
<1>3. state' \in [Pane -> States] /\ option' \in [Pane -> Options]
  BY <1>1, <1>2, StateEdits, OptionEdits DEF ForkKeep
<1>t. task' \in [Task -> Tasks]
  <2> DEFINE a == [task EXCEPT ![t].pc = "spawn"]
  <2>1. a \in [Task -> Tasks]
    BY <1>2, TaskEdits DEF TaskStep
  <2>2. [a EXCEPT ![t].target = task[t].known] \in [Task -> Tasks]
    BY <1>2, <2>1, TaskEdits
  <2> QED BY <2>2 DEF ForkKeep
<1>4. TypeOK'
  BY <1>1, <1>3, <1>t DEF ForkKeep, others, TypeOK
<1>5. Names(task[t].src, task[t].target) /\ Writes(task[t].src, task[t].target)
  BY <1>1, <1>2 DEF ForkKeep, Names, Writes, OtherStates, OtherOptions, States, Options
<1> QED BY <1>1, <1>2, <1>4, <1>5 DEF ForkKeep, others, OtherTasks, Tasks

\* The order of the pane ids is the one of the naturals.
LEMMA LessThan == \A i, j \in Nat : i < j => <<i, j>> \in OpToRel(<, Nat)
BY Zenon DEF OpToRel

(* A spawn takes the lowest pane that no agent has used.                   *)
LEMMA LowestUnused ==
  ASSUME Unused # {}
  PROVE  Min(Unused) \in Unused
<1>1. Unused \subseteq Nat
  BY Constants DEF Unused
<1>2. PICK p \in Unused : \A q \in Unused : ~(<<q, p>> \in OpToRel(<, Nat))
  <2> HIDE DEF Unused
  <2> QED BY <1>1, NatLessThanWellFounded, WFMin, Zenon
<1>3. \A q \in Unused : p =< q
  <2> SUFFICES ASSUME NEW q \in Unused PROVE p =< q
    OBVIOUS
  <2>1. p \in Nat /\ q \in Nat
    BY <1>1
  <2>2. ~(q < p)
    BY <1>2, <2>1, LessThan
  <2> QED BY <2>1, <2>2
<1> QED BY <1>3 DEF Min

\* What Spawn does.
LEMMA SpawnEffect ==
  ASSUME Typed, NEW t \in Task, Spawn(t)
  PROVE  \E p \in Pane :
         /\ UNCHANGED <<backend, minted, state, managed, mutex, job, deaf, restarts>>
         /\ OtherTasks(t) /\ task[t].pc = "spawn" /\ task'[t].pane = p
         /\ task'[t].pc = IF task[t].kind = "restore" THEN "resume" ELSE "know"
         /\ task'[t].kind = task[t].kind /\ task'[t].src = task[t].src
         /\ task'[t].target = task[t].target /\ task'[t].known = task[t].known
         /\ task'[t].verify = task[t].verify
         /\ Writes(p, IF backend = "OpenCode2" THEN task[t].target ELSE None)
         /\ OtherAgents(p) /\ ~agent[p].live /\ agent'[p].live
         /\ agent'[p].ran = {agent'[p].sess} /\ ~agent'[p].told
         /\ agent'[p].sess = CASE backend = "OpenCode" /\ task[t].kind = "fresh" -> None
                               [] task[t].kind = "resumeFork" -> Other
                               [] OTHER -> task[t].target
         /\ agent'[p].report = IF backend = "Claude" /\ task[t].kind = "fork"
                               THEN agent[task[t].src].sess ELSE agent'[p].sess
         /\ TypeOK'
<1> DEFINE p == Min(Unused)
           target == task[t].target
           runs == CASE backend = "OpenCode" /\ task[t].kind = "fresh" -> None
                     [] task[t].kind = "resumeFork" -> Other
                     [] OTHER -> target
           report == IF backend = "Claude" /\ task[t].kind = "fork"
                     THEN agent[task[t].src].sess ELSE runs
           fresh == IF backend = "OpenCode2" THEN target ELSE None
           pc == IF task[t].kind = "restore" THEN "resume" ELSE "know"
<1>1. p \in Pane /\ ~agent[p].live /\ TypeOK /\ task[t].pc = "spawn"
  BY LowestUnused DEF Spawn, Unused, Typed
<1>2. /\ target \in Named /\ pc \in TaskStep /\ runs \in Named /\ fresh \in Named
      /\ task[t].kind = "fork" => agent[task[t].src].sess \in Named
  BY <1>1, Values, Constants, PaneOf DEF TaskStep, LaunchStep, At
<1>3. report \in Named
  BY <1>2
<1>4. Spawned(t) = [live |-> TRUE, sess |-> runs, report |-> report, ran |-> {runs},
                    told |-> FALSE, prompts |-> 0]
  BY DEF Spawned
<1>5. /\ agent' = [agent EXCEPT ![p] = Spawned(t)]
      /\ option' = [option EXCEPT ![p].sess = fresh]
      /\ task' = [task EXCEPT ![t].pane = p, ![t].pc = pc]
  BY DEF Spawn
<1> HIDE DEF p, target, runs, report, fresh, pc
<1>6. Spawned(t) \in Agents
  BY <1>2, <1>3, <1>4, BindingAssumption DEF Agents
<1>7. agent' \in [Pane -> Agents] /\ option' \in [Pane -> Options]
  BY <1>1, <1>2, <1>5, <1>6, OptionEdits DEF TypeOK
<1>8. task' \in [Task -> Tasks]
  <2> DEFINE a == [task EXCEPT ![t].pane = p]
  <2>1. a \in [Task -> Tasks]
    BY <1>1, TaskEdits DEF TypeOK
  <2>2. [a EXCEPT ![t].pc = pc] \in [Task -> Tasks]
    BY <1>2, <2>1, TaskEdits
  <2> QED BY <1>5, <2>2
<1>9. TypeOK'
  BY <1>1, <1>7, <1>8 DEF Spawn, TypeOK
<1>10. /\ OtherTasks(t) /\ task'[t].pane = p /\ task'[t].pc = pc
       /\ task'[t].kind = task[t].kind /\ task'[t].src = task[t].src
       /\ task'[t].target = task[t].target /\ task'[t].known = task[t].known
       /\ task'[t].verify = task[t].verify
  BY <1>1, <1>5 DEF OtherTasks, TypeOK, Tasks
<1>11. Writes(p, fresh)
  BY <1>1, <1>5 DEF Writes, OtherOptions, TypeOK, Options
<1>12. OtherAgents(p) /\ agent'[p] = Spawned(t)
  BY <1>1, <1>5 DEF OtherAgents, TypeOK
<1> QED BY <1>1, <1>4, <1>9, <1>10, <1>11, <1>12
   DEF Spawn, p, target, runs, report, fresh, pc

\* What SpawnFails does.
LEMMA SpawnFailsEffect ==
  ASSUME TypeOK, NEW t \in Task, SpawnFails(t)
  PROVE  /\ UNCHANGED <<backend, minted, agent, option, state, managed, mutex, job, deaf, restarts>>
         /\ task[t].pc = "spawn" /\ TaskEnds(t) /\ TypeOK'
<1>2. task' \in [Task -> Tasks]
  BY TaskEdits DEF SpawnFails, TypeOK
<1> QED BY <1>2 DEF SpawnFails, agentVars, TypeOK, TaskEnds, OtherTasks, NoTask

\* What every step of a launch has in common.
LEMMA GotoEffect ==
  ASSUME Typed, NEW t \in Task, At(t, LaunchStep), NEW pc \in TaskStep, task' = Goto(t, pc)
  PROVE  TaskGoes(t, pc) /\ task' \in [Task -> Tasks] /\ task[t].pane \in Pane
<1>1. task \in [Task -> Tasks] /\ task' = [task EXCEPT ![t].pc = pc]
  BY DEF Goto, Typed, TypeOK
<1>2. task' \in [Task -> Tasks]
  BY <1>1, TaskEdits
<1>3. TaskGoes(t, pc)
  BY <1>1 DEF TaskGoes, OtherTasks, Tasks
<1> QED BY <1>2, <1>3, PaneOf

\* What PersistKnown does.
LEMMA PersistKnownEffect ==
  ASSUME Typed, NEW t \in Task, PersistKnown(t)
  PROVE  LET p == task[t].pane IN
         /\ UNCHANGED <<backend, minted, agent, managed, mutex, job, deaf, restarts>>
         /\ p \in Pane /\ task[t].pc = "know" /\ TaskGoes(t, "register")
         /\ OtherStates(p) /\ state'[p].sess = state[p].sess /\ state'[p].path = state[p].path
         /\ state'[p].runtime = state[p].runtime
         /\ state'[p].pin = IF Pins(task[t].kind) THEN task[t].known ELSE None
         /\ Writes(p, IF task[t].known = None THEN option[p].sess ELSE task[t].known)
         /\ TypeOK'
<1> DEFINE p == task[t].pane
           pin == IF Pins(task[t].kind) THEN task[t].known ELSE None
           sess == IF task[t].known = None THEN option[p].sess ELSE task[t].known
<1>1. task[t].pc = "know" /\ TaskGoes(t, "register") /\ task' \in [Task -> Tasks] /\ p \in Pane
  BY GotoEffect DEF PersistKnown, At, LaunchStep, TaskStep
<1>2. TypeOK /\ pin \in Named /\ sess \in Named
  BY <1>1, Values, Constants DEF Typed
<1>3. /\ state' = [state EXCEPT ![p].pin = pin]
      /\ option' = [option EXCEPT ![p].sess = sess]
  BY DEF PersistKnown
<1> HIDE DEF pin, sess, p
<1>4. state' \in [Pane -> States] /\ option' \in [Pane -> Options]
  BY <1>1, <1>2, <1>3, StateEdits, OptionEdits DEF TypeOK
<1>5. /\ OtherStates(p) /\ state'[p].sess = state[p].sess /\ state'[p].path = state[p].path
      /\ state'[p].runtime = state[p].runtime /\ state'[p].pin = pin /\ Writes(p, sess)
  BY <1>1, <1>2, <1>3 DEF OtherStates, OtherOptions, Writes, TypeOK, States, Options
<1>6. TypeOK'
  BY <1>1, <1>2, <1>4 DEF PersistKnown, unspawned, agentVars, TypeOK
<1> QED BY <1>1, <1>5, <1>6 DEF PersistKnown, unspawned, agentVars, pin, sess, p

\* What RestoreBackend does.
LEMMA RestoreBackendEffect ==
  ASSUME Typed, NEW t \in Task, RestoreBackend(t)
  PROVE  LET p == task[t].pane IN
         /\ UNCHANGED <<backend, minted, agent, managed, mutex, job, deaf, restarts>>
         /\ p \in Pane /\ task[t].pc = "resume" /\ TaskGoes(t, "register")
         /\ OtherStates(p) /\ state'[p].pin = state[p].pin /\ state'[p].path = state[p].path
         /\ state'[p].runtime = Runtime(backend)
         /\ state'[p].sess = IF backend = "Grok" THEN task[t].target ELSE state[p].sess
         /\ OtherOptions(p) /\ option'[p].backend = backend
         /\ option'[p].sess = option[p].sess /\ option'[p].path = option[p].path
         /\ option'[p].managed = option[p].managed
         /\ TypeOK'
<1> DEFINE p == task[t].pane
<1>1. Resume(t, backend)
  BY DEF RestoreBackend, ResumeClaude, ResumeCodex, ResumeGrok, ResumeOpenCode, Resume
<1>2. task[t].pc = "resume" /\ TaskGoes(t, "register") /\ task' \in [Task -> Tasks] /\ p \in Pane
  BY <1>1, GotoEffect DEF Resume, At, LaunchStep, TaskStep
<1>3. /\ TypeOK /\ task[t].target \in Named /\ Runtime(backend) \in Runtimes
      /\ backend \in Backends \cup {"Claude"}
  BY Values DEF Typed, TypeOK
<1>4. option' = [option EXCEPT ![p].backend = backend]
  BY <1>1 DEF Resume
<1>5. \/ backend # "Grok" /\ state' = [state EXCEPT ![p].runtime = Runtime(backend)]
      \/ /\ backend = "Grok"
         /\ state' = [state EXCEPT ![p].runtime = Runtime(backend), ![p].sess = task[t].target]
  BY <1>1 DEF RestoreBackend, ResumeClaude, ResumeCodex, ResumeGrok, ResumeOpenCode, Resume
<1> HIDE DEF p
<1>6. option' \in [Pane -> Options]
  BY <1>2, <1>3, <1>4, OptionEdits DEF TypeOK
<1>s. state' \in [Pane -> States]
  <2> DEFINE a == [state EXCEPT ![p].runtime = Runtime(backend)]
  <2>1. a \in [Pane -> States]
    BY <1>2, <1>3, StateEdits DEF TypeOK
  <2>2. [a EXCEPT ![p].sess = task[t].target] \in [Pane -> States]
    BY <1>2, <1>3, <2>1, StateEdits
  <2> QED BY <1>5, <2>1, <2>2
<1>7. /\ OtherStates(p) /\ state'[p].pin = state[p].pin /\ state'[p].path = state[p].path
      /\ state'[p].runtime = Runtime(backend)
      /\ state'[p].sess = IF backend = "Grok" THEN task[t].target ELSE state[p].sess
  BY <1>2, <1>3, <1>5 DEF OtherStates, TypeOK, States
<1>8. /\ OtherOptions(p) /\ option'[p].backend = backend
      /\ option'[p].sess = option[p].sess /\ option'[p].path = option[p].path
      /\ option'[p].managed = option[p].managed
  BY <1>2, <1>3, <1>4 DEF OtherOptions, TypeOK, Options
<1>9. TypeOK'
  BY <1>1, <1>2, <1>3, <1>6, <1>s DEF Resume, unspawned, agentVars, TypeOK
<1> QED BY <1>1, <1>2, <1>7, <1>8, <1>9 DEF Resume, unspawned, agentVars, p

\* What Register does.
LEMMA RegisterEffect ==
  ASSUME Typed, NEW t \in Task, Register(t)
  PROVE  LET p == task[t].pane IN
         /\ UNCHANGED <<backend, minted, agent, option, mutex, deaf, restarts>>
         /\ p \in Pane /\ task[t].pc = "register" /\ TaskGoes(t, "mark")
         /\ OtherStates(p) /\ state'[p].sess = state[p].sess /\ state'[p].pin = state[p].pin
         /\ state'[p].path = state[p].path
         /\ task[t].kind = "restore" => state'[p].runtime = state[p].runtime
         /\ task[t].kind # "restore" /\ ~state[p].runtime.bound =>
              state'[p].runtime = Unbound(backend)
         /\ state[p].runtime.bound => state'[p].runtime = state[p].runtime
         /\ managed' = managed \cup {p}
         /\ \A h \in Hook : /\ job'[h].pc = job[h].pc /\ job'[h].pane = job[h].pane
                            /\ job'[h].ev = job[h].ev /\ job'[h].sess = job[h].sess
                            /\ job'[h].file = job[h].file
         /\ TypeOK'
<1> DEFINE p == task[t].pane
           r == IF state[p].runtime.bound THEN state[p].runtime ELSE Unbound(backend)
<1>1. task[t].pc = "register" /\ TaskGoes(t, "mark") /\ task' \in [Task -> Tasks] /\ p \in Pane
  BY GotoEffect DEF Register, At, LaunchStep, TaskStep
<1>2. TypeOK /\ r \in Runtimes
  BY <1>1, Values DEF Typed
<1>3. \/ task[t].kind = "restore" /\ state' = state
      \/ task[t].kind # "restore" /\ state' = [state EXCEPT ![p].runtime = r]
  BY DEF Register, MarkBackend
<1>4. job' \in [Hook -> Jobs]
  BY <1>2 DEF Register, Notified, TypeOK, Jobs
<1>5. \A h \in Hook : /\ job'[h].pc = job[h].pc /\ job'[h].pane = job[h].pane
                      /\ job'[h].ev = job[h].ev /\ job'[h].sess = job[h].sess
                      /\ job'[h].file = job[h].file
  BY <1>2 DEF Register, Notified, TypeOK, Jobs
<1> HIDE DEF p, r
<1>6. state' \in [Pane -> States]
  BY <1>1, <1>2, <1>3, StateEdits DEF TypeOK
<1>7. /\ OtherStates(p) /\ state'[p].sess = state[p].sess /\ state'[p].pin = state[p].pin
      /\ state'[p].path = state[p].path
      /\ task[t].kind = "restore" => state'[p].runtime = state[p].runtime
      /\ task[t].kind # "restore" => state'[p].runtime = r
  BY <1>1, <1>2, <1>3 DEF OtherStates, TypeOK, States
<1>8. managed' = managed \cup {p}
  BY DEF Register, p
<1>9. TypeOK'
  BY <1>1, <1>2, <1>4, <1>6, <1>8 DEF Register, unspawned, agentVars, TypeOK
<1> QED BY <1>1, <1>5, <1>7, <1>8, <1>9 DEF Register, unspawned, agentVars, p, r

\* What Mark does.
LEMMA MarkEffect ==
  ASSUME Typed, NEW t \in Task, Mark(t)
  PROVE  LET p == task[t].pane IN
         /\ UNCHANGED <<backend, minted, agent, state, managed, mutex, job, deaf, restarts>>
         /\ p \in Pane /\ task[t].pc = "mark"
         /\ TaskGoes(t, IF task[t].kind = "restore" THEN "persist" ELSE "seed")
         /\ OtherOptions(p) /\ option'[p].managed /\ option'[p].sess = option[p].sess
         /\ option'[p].path = option[p].path /\ option'[p].backend = option[p].backend
         /\ TypeOK'
<1> DEFINE p == task[t].pane
           pc == IF task[t].kind = "restore" THEN "persist" ELSE "seed"
<1>1. task[t].pc = "mark" /\ TaskGoes(t, pc) /\ task' \in [Task -> Tasks] /\ p \in Pane
  BY GotoEffect DEF Mark, At, LaunchStep, TaskStep
<1>2. TypeOK
  BY DEF Typed
<1>3. option' = [option EXCEPT ![p].managed = TRUE]
  BY DEF Mark
<1> HIDE DEF p, pc
<1>4. option' \in [Pane -> Options]
  BY <1>1, <1>2, <1>3, OptionEdits DEF TypeOK
<1>5. /\ OtherOptions(p) /\ option'[p].managed /\ option'[p].sess = option[p].sess
      /\ option'[p].path = option[p].path /\ option'[p].backend = option[p].backend
  BY <1>1, <1>2, <1>3 DEF OtherOptions, TypeOK, Options
<1>6. TypeOK'
  BY <1>1, <1>2, <1>4 DEF Mark, unspawned, agentVars, TypeOK
<1> QED BY <1>1, <1>5, <1>6 DEF Mark, unspawned, agentVars, p, pc

\* What PersistRestored does.
LEMMA PersistRestoredEffect ==
  ASSUME Typed, NEW t \in Task, PersistRestored(t)
  PROVE  LET p == task[t].pane IN
         /\ UNCHANGED <<backend, minted, agent, state, managed, mutex, job, deaf, restarts>>
         /\ p \in Pane /\ task[t].pc = "persist" /\ TaskEnds(t)
         /\ Writes(p, task[t].target) /\ TypeOK'
<1> DEFINE p == task[t].pane
<1>1. task[t].pc = "persist" /\ p \in Pane /\ TypeOK /\ task[t].target \in Named
  BY PaneOf, Values DEF PersistRestored, At, LaunchStep, Typed
<1>2. option' = [option EXCEPT ![p].sess = task[t].target] /\ task' = [task EXCEPT ![t] = NoTask]
  BY DEF PersistRestored
<1> HIDE DEF p
<1>3. option' \in [Pane -> Options] /\ task' \in [Task -> Tasks]
  BY <1>1, <1>2, OptionEdits, TaskEdits DEF TypeOK
<1>4. Writes(p, task[t].target)
  BY <1>1, <1>2 DEF Writes, OtherOptions, TypeOK, Options
<1>5. TaskEnds(t)
  BY <1>1, <1>2 DEF TypeOK, TaskEnds, OtherTasks, NoTask
<1>6. TypeOK'
  BY <1>1, <1>3 DEF PersistRestored, unspawned, agentVars, TypeOK
<1> QED BY <1>1, <1>4, <1>5, <1>6 DEF PersistRestored, unspawned, agentVars, p

\* What Seed does.
LEMMA SeedEffect ==
  ASSUME Typed, NEW t \in Task, Seed(t)
  PROVE  LET p == task[t].pane IN
         /\ UNCHANGED <<backend, minted, agent, option, managed, mutex, job, deaf, restarts>>
         /\ p \in Pane /\ task[t].pc = "seed"
         /\ TaskGoes(t, IF backend = "Claude" THEN "runtime" ELSE "attach")
         /\ Names(p, IF task[t].known = None THEN state[p].sess ELSE task[t].known)
         /\ TypeOK'
<1> DEFINE p == task[t].pane
           pc == IF backend = "Claude" THEN "runtime" ELSE "attach"
           sess == IF task[t].known = None THEN state[p].sess ELSE task[t].known
<1>1. task[t].pc = "seed" /\ TaskGoes(t, pc) /\ task' \in [Task -> Tasks] /\ p \in Pane
  BY GotoEffect DEF Seed, At, LaunchStep, TaskStep
<1>2. TypeOK /\ sess \in Named
  BY <1>1, Values DEF Typed
<1>3. state' = [state EXCEPT ![p].sess = sess]
  BY DEF Seed
<1> HIDE DEF p, pc, sess
<1>4. state' \in [Pane -> States]
  BY <1>1, <1>2, <1>3, StateEdits DEF TypeOK
<1>5. Names(p, sess)
  BY <1>1, <1>2, <1>3 DEF Names, OtherStates, TypeOK, States
<1>6. TypeOK'
  BY <1>1, <1>2, <1>4 DEF Seed, unspawned, agentVars, TypeOK
<1> QED BY <1>1, <1>5, <1>6 DEF Seed, unspawned, agentVars, p, pc, sess

\* What Attach does.
LEMMA AttachEffect ==
  ASSUME Typed, NEW t \in Task, Attach(t)
  PROVE  LET p == task[t].pane IN
         /\ UNCHANGED <<backend, minted, managed, mutex, job, deaf, restarts>>
         /\ p \in Pane /\ task[t].pc = "attach" /\ TaskGoes(t, "runtime")
         /\ OtherOptions(p) /\ option'[p].backend = backend
         /\ option'[p].sess = option[p].sess /\ option'[p].path = option[p].path
         /\ option'[p].managed = option[p].managed
         /\ \/ /\ backend \in Hooked /\ UNCHANGED agent
               /\ Names(p, IF backend = "Grok" /\ task[t].known # None
                           THEN task[t].known ELSE state[p].sess)
            \/ /\ backend \notin Hooked /\ Names(p, task[t].target)
               /\ OtherAgents(p) /\ agent'[p].sess = task[t].target
               /\ agent'[p].ran = agent[p].ran \cup {task[t].target}
               /\ agent'[p].live = agent[p].live /\ agent'[p].told = agent[p].told
               /\ agent'[p].report = agent[p].report
            \/ /\ backend = "OpenCode" /\ task[t].kind = "fresh"
               /\ UNCHANGED <<state, agent>>
         /\ TypeOK'
<1> DEFINE p == task[t].pane
           sess == IF backend = "Grok" /\ task[t].known # None THEN task[t].known ELSE state[p].sess
           target == task[t].target
           ran == agent[p].ran \cup {target}
<1>1. task[t].pc = "attach" /\ TaskGoes(t, "runtime") /\ task' \in [Task -> Tasks] /\ p \in Pane
  BY GotoEffect DEF Attach, At, LaunchStep, TaskStep
<1>2. /\ TypeOK /\ sess \in Named /\ target \in Named /\ ran \in SUBSET Named
      /\ backend \in Backends \cup {"Claude"}
  BY <1>1, Values DEF Typed, TypeOK
<1>3. option' = [option EXCEPT ![p].backend = backend]
  BY DEF Attach
<1>4. \/ /\ backend \in Hooked /\ state' = [state EXCEPT ![p].sess = sess] /\ UNCHANGED agent
      \/ /\ backend \notin Hooked /\ state' = [state EXCEPT ![p].sess = target]
         /\ agent' = [agent EXCEPT ![p].sess = target, ![p].ran = @ \cup {target}]
      \/ backend = "OpenCode" /\ task[t].kind = "fresh" /\ UNCHANGED <<state, agent>>
  BY DEF Attach
<1>5. [agent EXCEPT ![p].sess = target, ![p].ran = @ \cup {target}]
        = [agent EXCEPT ![p].sess = target, ![p].ran = ran]
  BY <1>1, <1>2 DEF TypeOK, Agents
<1> HIDE DEF p, sess, target, ran
<1>6. option' \in [Pane -> Options]
  BY <1>1, <1>2, <1>3, OptionEdits DEF TypeOK
<1>s. state' \in [Pane -> States]
  <2>1. state \in [Pane -> States]
    BY <1>2 DEF TypeOK
  <2>2. /\ [state EXCEPT ![p].sess = sess] \in [Pane -> States]
        /\ [state EXCEPT ![p].sess = target] \in [Pane -> States]
    BY <1>1, <1>2, <2>1, StateEdits
  <2> QED BY <1>4, <2>1, <2>2
<1>7. agent' \in [Pane -> Agents]
  <2> DEFINE a == [agent EXCEPT ![p].sess = target]
  <2>1. a \in [Pane -> Agents]
    BY <1>1, <1>2, AgentEdits DEF TypeOK
  <2>2. [a EXCEPT ![p].ran = ran] \in [Pane -> Agents]
    BY <1>1, <1>2, <2>1, AgentEdits
  <2> QED BY <1>2, <1>4, <1>5, <2>2 DEF TypeOK
<1>8. /\ OtherOptions(p) /\ option'[p].backend = backend
      /\ option'[p].sess = option[p].sess /\ option'[p].path = option[p].path
      /\ option'[p].managed = option[p].managed
  BY <1>1, <1>2, <1>3 DEF OtherOptions, TypeOK, Options
<1>9. /\ state' = [state EXCEPT ![p].sess = sess] => Names(p, sess)
      /\ state' = [state EXCEPT ![p].sess = target] => Names(p, target)
  BY <1>1, <1>2 DEF Names, OtherStates, TypeOK, States
<1>10. agent' = [agent EXCEPT ![p].sess = target, ![p].ran = ran] =>
         /\ OtherAgents(p) /\ agent'[p].sess = target /\ agent'[p].ran = ran
         /\ agent'[p].live = agent[p].live /\ agent'[p].told = agent[p].told
         /\ agent'[p].report = agent[p].report
  BY <1>1, <1>2 DEF OtherAgents, TypeOK, Agents
<1>11. TypeOK'
  BY <1>1, <1>2, <1>6, <1>s, <1>7 DEF Attach, TypeOK
<1> QED BY <1>1, <1>4, <1>5, <1>8, <1>9, <1>10, <1>11 DEF Attach, p, sess, target, ran

\* What AttachRuntime does.
LEMMA AttachRuntimeEffect ==
  ASSUME Typed, NEW t \in Task, AttachRuntime(t)
  PROVE  LET p == task[t].pane IN
         /\ UNCHANGED <<backend, minted, agent, managed, mutex, job, deaf, restarts>>
         /\ p \in Pane /\ task[t].pc = "runtime" /\ TaskEnds(t)
         /\ Writes(p, IF backend \in {"Claude", "Codex"} \/ state[p].sess = None
                      THEN option[p].sess ELSE state[p].sess)
         /\ \E r \in {state[p].runtime, Runtime(backend)} : Drives(p, r)
         /\ TypeOK'
<1> DEFINE p == task[t].pane
           sess == IF backend \in {"Claude", "Codex"} \/ state[p].sess = None
                   THEN option[p].sess ELSE state[p].sess
           r == IF backend = "Codex" /\ state[p].runtime.bound THEN state[p].runtime
                ELSE Runtime(backend)
<1>1. task[t].pc = "runtime" /\ p \in Pane /\ TypeOK
  BY PaneOf DEF AttachRuntime, At, LaunchStep, Typed
<1>2. r \in Runtimes /\ state[p].sess \in Named
  BY <1>1, Values
<1>3. /\ state' = [state EXCEPT ![p].runtime = r]
      /\ task' = [task EXCEPT ![t] = NoTask]
      /\ \/ option' = option /\ sess = option[p].sess
         \/ option' = [option EXCEPT ![p].sess = state[p].sess] /\ sess = state[p].sess
  BY DEF AttachRuntime
<1> HIDE DEF p, sess, r
<1>4. /\ state' \in [Pane -> States] /\ option' \in [Pane -> Options]
      /\ task' \in [Task -> Tasks]
  <2>1. state' \in [Pane -> States]
    BY <1>1, <1>2, <1>3, StateEdits DEF TypeOK
  <2>2. option' \in [Pane -> Options]
    <3>1. option \in [Pane -> Options]
      BY <1>1 DEF TypeOK
    <3>2. [option EXCEPT ![p].sess = state[p].sess] \in [Pane -> Options]
      BY <1>1, <1>2, <3>1, OptionEdits
    <3> QED BY <1>3, <3>1, <3>2
  <2>3. task' \in [Task -> Tasks]
    BY <1>1, <1>3, TaskEdits DEF TypeOK
  <2> QED BY <2>1, <2>2, <2>3
<1>5. Writes(p, sess)
  BY <1>1, <1>3 DEF Writes, OtherOptions, TypeOK, Options
<1>6. Drives(p, r)
  BY <1>1, <1>3 DEF Drives, OtherStates, TypeOK, States
<1>7. TaskEnds(t)
  BY <1>1, <1>3 DEF TypeOK, TaskEnds, OtherTasks, NoTask
<1>8. TypeOK'
  BY <1>1, <1>4 DEF AttachRuntime, unspawned, agentVars, TypeOK
<1> QED BY <1>1, <1>5, <1>6, <1>7, <1>8 DEF AttachRuntime, unspawned, agentVars, p, sess, r

-----------------------------------------------------------------------------
(* Agents and hooks.                                                       *)

\* The agent calls a hook: an idle handler takes it.
LEMMA CallEffect ==
  ASSUME TypeOK, NEW p \in Pane, NEW ev \in HookEvent, NEW s \in Named, NEW f \in Named,
         Call(p, ev, s, f)
  PROVE  /\ \E h \in Hook : /\ OtherJobs(h) /\ job[h].pc = "idle" /\ job'[h].pc = "admit"
                            /\ job'[h].pane = p /\ job'[h].ev = ev /\ job'[h].sess = s
                            /\ job'[h].file = f
         /\ job' \in [Hook -> Jobs]
<1>1. PICK h \in Hook :
        /\ job[h].pc = "idle"
        /\ job' = [job EXCEPT ![h] = [NoJob EXCEPT !.pc = "admit", !.pane = p, !.ev = ev,
                                                   !.sess = s, !.file = f]]
  BY DEF Call
<1> DEFINE r == [NoJob EXCEPT !.pc = "admit", !.pane = p, !.ev = ev, !.sess = s, !.file = f]
<1>2. r.pc = "admit" /\ r.pane = p /\ r.ev = ev /\ r.sess = s /\ r.file = f
  BY DEF NoJob
<1>3. r \in Jobs
  <2>1. \A a \in Jobs : [a EXCEPT !.pc = "admit"] \in Jobs
    BY DEF Jobs, JobStep
  <2>2. \A a \in Jobs : [a EXCEPT !.pane = p] \in Jobs
    BY DEF Jobs
  <2>3. \A a \in Jobs : [a EXCEPT !.ev = ev] \in Jobs
    BY DEF Jobs
  <2>4. \A a \in Jobs : [a EXCEPT !.sess = s] \in Jobs
    BY DEF Jobs
  <2>5. \A a \in Jobs : [a EXCEPT !.file = f] \in Jobs
    BY DEF Jobs
  <2>6. NoJob \in Jobs
    BY Constants DEF NoJob, Jobs, JobStep, HookEvent
  <2> QED BY <2>1, <2>2, <2>3, <2>4, <2>5, <2>6
<1>4. job' = [job EXCEPT ![h] = r]
  BY <1>1
<1> HIDE DEF r
<1>5. job' \in [Hook -> Jobs] /\ OtherJobs(h) /\ job'[h] = r
  BY <1>3, <1>4 DEF TypeOK, OtherJobs
<1> QED BY <1>1, <1>2, <1>5

\* What Announce does.
LEMMA AnnounceEffect ==
  ASSUME TypeOK, NEW p \in Pane, Announce(p)
  PROVE  /\ UNCHANGED <<backend, minted, option, state, managed, mutex, task, deaf, restarts>>
         /\ agent[p].live /\ backend \in Hooked /\ ~agent[p].told /\ Pending(p) = {}
         /\ OtherAgents(p) /\ agent'[p].live /\ agent'[p].told
         /\ agent'[p].sess = agent[p].sess /\ agent'[p].report = agent[p].report
         /\ agent'[p].ran = agent[p].ran
         /\ \E h \in Hook : /\ OtherJobs(h) /\ job[h].pc = "idle" /\ job'[h].pc = "admit"
                            /\ job'[h].pane = p /\ job'[h].ev = "SessionStart"
                            /\ job'[h].sess = agent[p].report /\ job'[h].file = agent[p].report
         /\ TypeOK'
<1>1. agent[p].report \in Named /\ Call(p, "SessionStart", agent[p].report, agent[p].report)
  BY Values DEF Announce
<1>2. agent' \in [Pane -> Agents]
  BY AgentEdits DEF Announce, TypeOK
<1>3. /\ OtherAgents(p) /\ agent'[p].live = agent[p].live /\ agent'[p].told
      /\ agent'[p].sess = agent[p].sess /\ agent'[p].report = agent[p].report
      /\ agent'[p].ran = agent[p].ran
  BY DEF Announce, OtherAgents, TypeOK, Agents
<1>4. TypeOK'
  BY <1>1, <1>2, CallEffect DEF Announce, outside, TypeOK, HookEvent
<1>5. UNCHANGED <<backend, minted, option, state, managed, mutex, task, deaf, restarts>>
  BY DEF Announce, outside
<1> QED BY <1>1, <1>3, <1>4, <1>5, CallEffect DEF Announce, HookEvent

\* What Prompt does.
LEMMA PromptEffect ==
  ASSUME TypeOK, NEW p \in Pane, Prompt(p)
  PROVE  /\ UNCHANGED <<backend, minted, option, state, managed, mutex, task, deaf, restarts>>
         /\ agent[p].told /\ Pending(p) = {}
         /\ OtherAgents(p) /\ agent'[p].live = agent[p].live /\ agent'[p].told
         /\ agent'[p].sess = agent[p].sess /\ agent'[p].report = agent[p].sess
         /\ agent'[p].ran = agent[p].ran
         /\ \E h \in Hook : /\ OtherJobs(h) /\ job[h].pc = "idle" /\ job'[h].pc = "admit"
                            /\ job'[h].pane = p /\ job'[h].ev = "Prompt"
                            /\ job'[h].sess = agent[p].report /\ job'[h].file = agent[p].report
         /\ TypeOK'
<1>1. /\ agent[p].report \in Named /\ agent[p].sess \in Named
      /\ Call(p, "Prompt", agent[p].report, agent[p].report)
  BY Values DEF Prompt
<1>2. agent' = [agent EXCEPT ![p].prompts = agent[p].prompts + 1, ![p].report = agent[p].sess]
  BY DEF Prompt, TypeOK, Agents
<1>3. agent[p].prompts + 1 \in 0..MaxPrompts
  BY Values, BindingAssumption DEF Prompt
<1>4. agent' \in [Pane -> Agents]
  <2> DEFINE a == [agent EXCEPT ![p].prompts = agent[p].prompts + 1]
  <2>1. a \in [Pane -> Agents]
    BY <1>3, AgentEdits DEF TypeOK
  <2>2. [a EXCEPT ![p].report = agent[p].sess] \in [Pane -> Agents]
    BY <1>1, <2>1, AgentEdits
  <2> QED BY <1>2, <2>2
<1>5. /\ OtherAgents(p) /\ agent'[p].live = agent[p].live /\ agent'[p].told = agent[p].told
      /\ agent'[p].sess = agent[p].sess /\ agent'[p].report = agent[p].sess
      /\ agent'[p].ran = agent[p].ran
  BY <1>2 DEF OtherAgents, TypeOK, Agents
<1>6. TypeOK'
  BY <1>1, <1>4, CallEffect DEF Prompt, outside, TypeOK, HookEvent
<1>7. UNCHANGED <<backend, minted, option, state, managed, mutex, task, deaf, restarts>>
  BY DEF Prompt, outside
<1>8. \E h \in Hook : /\ OtherJobs(h) /\ job[h].pc = "idle" /\ job'[h].pc = "admit"
                        /\ job'[h].pane = p /\ job'[h].ev = "Prompt"
                        /\ job'[h].sess = agent[p].report /\ job'[h].file = agent[p].report
  BY <1>1, CallEffect DEF HookEvent
<1> QED BY <1>5, <1>6, <1>7, <1>8 DEF Prompt

\* What Clear does.
LEMMA ClearEffect ==
  ASSUME TypeOK, NEW p \in Pane, Clear(p)
  PROVE  /\ UNCHANGED <<backend, option, state, managed, mutex, task, job, deaf, restarts>>
         /\ agent[p].told /\ Pending(p) = {}
         /\ "hastyClear" \in Trouble \/ ~Launching(p)
         /\ "clearedFork" \in Trouble \/ state[p].pin = None
         /\ \E s \in Session :
              /\ OtherAgents(p) /\ agent'[p].live = agent[p].live /\ ~agent'[p].told
              /\ agent'[p].sess = s /\ agent'[p].report = s /\ agent'[p].ran = agent[p].ran \cup {s}
         /\ TypeOK'
<1> DEFINE s == minted + 1
           ran == agent[p].ran \cup {s}
<1>1. s \in Session /\ s \in Named /\ ran \in SUBSET Named
  BY Constants, Values DEF Clear, TypeOK
<1>2. agent' = [agent EXCEPT ![p].sess = s, ![p].report = s, ![p].ran = ran, ![p].told = FALSE]
  BY DEF Clear, TypeOK, Agents
<1>3. minted' = s
  BY DEF Clear
<1> HIDE DEF s, ran
<1>4. agent' \in [Pane -> Agents]
  <2> DEFINE a == [agent EXCEPT ![p].sess = s]
             b == [a EXCEPT ![p].report = s]
             c == [b EXCEPT ![p].ran = ran]
  <2>1. a \in [Pane -> Agents]
    BY <1>1, AgentEdits DEF TypeOK
  <2>2. b \in [Pane -> Agents]
    BY <1>1, <2>1, AgentEdits
  <2>3. c \in [Pane -> Agents]
    BY <1>1, <2>2, AgentEdits
  <2>4. [c EXCEPT ![p].told = FALSE] \in [Pane -> Agents]
    BY <2>3, AgentEdits
  <2> QED BY <1>2, <2>4
<1>5. /\ OtherAgents(p) /\ agent'[p].live = agent[p].live /\ ~agent'[p].told
      /\ agent'[p].sess = s /\ agent'[p].report = s /\ agent'[p].ran = ran
  BY <1>2 DEF OtherAgents, TypeOK, Agents
<1>6. TypeOK'
  BY <1>1, <1>3, <1>4 DEF Clear, outside, TypeOK
<1> QED BY <1>1, <1>5, <1>6 DEF Clear, outside, ran

\* What Inner does.
LEMMA InnerEffect ==
  ASSUME TypeOK, NEW p \in Pane, Inner(p)
  PROVE  /\ UNCHANGED <<backend, minted, agent, option, state, managed, mutex, task, deaf, restarts>>
         /\ agent[p].live /\ backend = "Codex"
         /\ \E h \in Hook :
              /\ OtherJobs(h) /\ job[h].pc = "idle" /\ job'[h].pc = "admit" /\ job'[h].pane = p
              /\ \/ /\ "earlyHelper" \in Trouble \/ state[p].sess # None
                    /\ job'[h].sess = Other /\ job'[h].file = None
                 \/ /\ job'[h].ev = "SubagentStart" /\ job'[h].sess = agent[p].sess
                    /\ job'[h].file = Other /\ Pending(p) = {}
         /\ TypeOK'
<1>1. agent[p].sess \in Named /\ Other \in Named /\ None \in Named
  BY Values, Constants
<1>2. job' \in [Hook -> Jobs]
  BY <1>1, CallEffect DEF Inner, HookEvent
<1>3. UNCHANGED <<backend, minted, agent, option, state, managed, mutex, task, deaf, restarts>>
  BY DEF Inner, outside
<1>4. TypeOK'
  BY <1>2, <1>3 DEF TypeOK
<1>5. CASE /\ "earlyHelper" \in Trouble \/ state[p].sess # None
           /\ Call(p, "SessionStart", Other, None) \/ Call(p, "Prompt", Other, None)
  <2>1. \E h \in Hook :
              /\ OtherJobs(h) /\ job[h].pc = "idle" /\ job'[h].pc = "admit" /\ job'[h].pane = p
              /\ job'[h].sess = Other /\ job'[h].file = None
    BY <1>1, <1>5, CallEffect DEF HookEvent
  <2> QED BY <1>3, <1>4, <1>5, <2>1 DEF Inner
<1>6. CASE Pending(p) = {} /\ Call(p, "SubagentStart", agent[p].sess, Other)
  <2>1. \E h \in Hook :
              /\ OtherJobs(h) /\ job[h].pc = "idle" /\ job'[h].pc = "admit" /\ job'[h].pane = p
              /\ job'[h].ev = "SubagentStart" /\ job'[h].sess = agent[p].sess
              /\ job'[h].file = Other
    BY <1>1, <1>6, CallEffect DEF HookEvent
  <2> QED BY <1>3, <1>4, <1>6, <2>1 DEF Inner
<1> QED BY <1>5, <1>6 DEF Inner

\* A handler goes on, or ends.
LEMMA StepEffect ==
  ASSUME Typed, NEW h \in Hook, job[h].pc # "idle"
  PROVE  /\ \A pc \in JobStep : job' = Step(h, pc) =>
              JobGoes(h, pc) /\ job' \in [Hook -> Jobs]
         /\ \A pc \in JobStep : job' = [job EXCEPT ![h].pc = pc, ![h].heard = FALSE] =>
              JobGoes(h, pc) /\ job' \in [Hook -> Jobs]
         /\ job' = Done(h) => JobEnds(h) /\ job' \in [Hook -> Jobs]
         /\ job[h].pane \in Pane /\ Lost(h) \subseteq Pane
<1>1. job \in [Hook -> Jobs] /\ job[h] \in Jobs
  BY DEF Typed, TypeOK
<1>2. ASSUME NEW pc \in JobStep, job' = Step(h, pc)
      PROVE  JobGoes(h, pc) /\ job' \in [Hook -> Jobs]
  <2>1. job' \in [Hook -> Jobs]
    BY <1>1, <1>2, JobEdits DEF Step
  <2> QED BY <1>1, <1>2, <2>1 DEF Step, JobGoes, OtherJobs, Jobs
<1>3. ASSUME NEW pc \in JobStep, job' = [job EXCEPT ![h].pc = pc, ![h].heard = FALSE]
      PROVE  JobGoes(h, pc) /\ job' \in [Hook -> Jobs]
  <2> DEFINE a == [job EXCEPT ![h].pc = pc]
  <2>1. a \in [Hook -> Jobs]
    BY <1>1, JobEdits
  <2>2. [a EXCEPT ![h].heard = FALSE] \in [Hook -> Jobs]
    BY <2>1, JobEdits
  <2>3. JobGoes(h, pc)
    BY <1>1, <1>3 DEF JobGoes, OtherJobs, Jobs
  <2> QED BY <1>3, <2>2, <2>3
<1>4. ASSUME job' = Done(h)
      PROVE  JobEnds(h) /\ job' \in [Hook -> Jobs]
  <2>1. job' \in [Hook -> Jobs]
    BY <1>1, <1>4, JobEdits DEF Done
  <2> QED BY <1>1, <1>4, <2>1 DEF Done, JobEnds, OtherJobs, NoJob
<1>5. job[h].pane \in Pane /\ Lost(h) \subseteq Pane
  BY PaneOf DEF Lost
<1> QED BY <1>2, <1>3, <1>4, <1>5

\* A handler before its lock.
LEMMA WaitEffect ==
  ASSUME Typed, NEW h \in Hook, Admit(h) \/ Arm(h) \/ Check(h) \/ Park(h) \/ Wake(h)
  PROVE  /\ UNCHANGED <<backend, minted, agent, option, state, managed, mutex, task, deaf, restarts>>
         /\ job[h].pc \in {"admit", "arm", "check", "park", "wait"}
         /\ \E pc \in {"arm", "check", "park", "wait", "lock"} :
              JobGoes(h, pc) /\ (pc = "lock" => job[h].pane \in managed)
         /\ TypeOK'
<1>1. /\ job[h].pc \in {"admit", "arm", "check", "park", "wait"}
      /\ UNCHANGED <<backend, minted, agent, option, state, managed, mutex, task, deaf, restarts>>
  BY DEF Admit, Arm, Check, Park, Wake, unhandled, agentVars
<1>2. \E pc \in {"arm", "check", "park", "wait", "lock"} :
        /\ \/ job' = Step(h, pc)
           \/ job' = [job EXCEPT ![h].pc = pc, ![h].heard = FALSE]
        /\ pc = "lock" => job[h].pane \in managed
  BY DEF Admit, Arm, Check, Park, Wake
<1>3. /\ job' \in [Hook -> Jobs]
      /\ \E pc \in {"arm", "check", "park", "wait", "lock"} :
           JobGoes(h, pc) /\ (pc = "lock" => job[h].pane \in managed)
  BY <1>1, <1>2, StepEffect DEF JobStep
<1> QED BY <1>1, <1>3 DEF Typed, TypeOK

\* What WaitOver does.
LEMMA WaitOverEffect ==
  ASSUME Typed, NEW h \in Hook, WaitOver(h)
  PROVE  /\ UNCHANGED <<backend, minted, agent, option, state, managed, mutex, task, restarts>>
         /\ job[h].pc = "wait"
         /\ \/ JobGoes(h, "lock") /\ job[h].pane \in managed /\ UNCHANGED deaf
            \/ JobEnds(h) /\ deaf' = deaf \cup Lost(h)
         /\ TypeOK'
<1>1. /\ job[h].pc = "wait"
      /\ UNCHANGED <<backend, minted, agent, option, state, managed, mutex, task, restarts>>
  BY DEF WaitOver, unhandled, agentVars
<1>2. /\ \/ JobGoes(h, "lock") /\ job[h].pane \in managed /\ UNCHANGED deaf
         \/ JobEnds(h) /\ deaf' = deaf \cup Lost(h)
      /\ job' \in [Hook -> Jobs]
  BY <1>1, StepEffect DEF WaitOver, JobStep
<1> QED BY <1>1, <1>2, StepEffect DEF Typed, TypeOK

\* What Lock does.
LEMMA LockEffect ==
  ASSUME Typed, NEW h \in Hook, Lock(h)
  PROVE  /\ UNCHANGED <<backend, minted, agent, option, state, managed, task, restarts>>
         /\ job[h].pc = "lock" /\ job[h].pane \in Pane /\ mutex[job[h].pane] = Free
         /\ \/ Foreign(h) /\ JobEnds(h) /\ UNCHANGED mutex /\ deaf' = deaf \cup Lost(h)
            \/ /\ ~Foreign(h) /\ JobGoes(h, "path") /\ UNCHANGED deaf
               /\ mutex' = [mutex EXCEPT ![job[h].pane] = h]
         /\ TypeOK'
<1>1. /\ job[h].pc = "lock"
      /\ UNCHANGED <<backend, minted, agent, option, state, managed, task, restarts>>
  BY DEF Lock, unhandled, agentVars
<1>2. /\ \/ Foreign(h) /\ JobEnds(h) /\ UNCHANGED mutex /\ deaf' = deaf \cup Lost(h)
         \/ /\ ~Foreign(h) /\ JobGoes(h, "path") /\ UNCHANGED deaf
            /\ mutex' = [mutex EXCEPT ![job[h].pane] = h]
      /\ job' \in [Hook -> Jobs]
  BY <1>1, StepEffect DEF Lock, JobStep
<1>3. job[h].pane \in Pane /\ mutex[job[h].pane] = Free
  BY <1>1, StepEffect DEF Lock
<1>4. mutex' \in [Pane -> Task \cup Hook \cup {Free}] /\ deaf' \subseteq Pane
  BY <1>1, <1>2, <1>3, StepEffect DEF Typed, TypeOK
<1> QED BY <1>1, <1>2, <1>3, <1>4 DEF Typed, TypeOK

\* What TakePath does.
LEMMA TakePathEffect ==
  ASSUME Typed, NEW h \in Hook, TakePath(h)
  PROVE  LET p == job[h].pane IN
         /\ UNCHANGED <<backend, minted, agent, managed, task, deaf, restarts>>
         /\ job[h].pc = "path" /\ p \in Pane
         /\ OtherStates(p) /\ OtherOptions(p)
         /\ state'[p].sess = state[p].sess /\ state'[p].pin = state[p].pin
         /\ state'[p].runtime = state[p].runtime
         /\ option'[p].sess = option[p].sess /\ option'[p].managed = option[p].managed
         /\ option'[p].backend = option[p].backend
         /\ \/ PathOf(h) = None /\ UNCHANGED <<option, state>>
            \/ PathOf(h) # None /\ state'[p].path = Corrected(h) /\ option'[p].path = Corrected(h)
         /\ \/ job[h].ev = "SessionStart" /\ JobGoes(h, "start") /\ UNCHANGED mutex
            \/ /\ job[h].ev # "SessionStart" /\ JobEnds(h)
               /\ mutex' = [mutex EXCEPT ![p] = Free]
         /\ TypeOK'
<1> DEFINE p == job[h].pane
<1>1. job[h].pc = "path" /\ p \in Pane /\ TypeOK
  BY PaneOf DEF TakePath, Typed
<1>2. Corrected(h) \in Named /\ state \in [Pane -> States] /\ option \in [Pane -> Options]
  <2>1. state[p].pin \in Named /\ job[h].file \in Named /\ None \in Named
    BY <1>1, Values, Constants
  <2> QED BY <1>1, <2>1 DEF Corrected, PathOf, TypeOK
<1>3. \/ PathOf(h) = None /\ UNCHANGED <<option, state>>
      \/ /\ PathOf(h) # None
         /\ option' = [option EXCEPT ![p].path = Corrected(h)]
         /\ state' = [state EXCEPT ![p].path = Corrected(h)]
  BY DEF TakePath
<1>4. \/ job[h].ev = "SessionStart" /\ JobGoes(h, "start") /\ UNCHANGED mutex
      \/ job[h].ev # "SessionStart" /\ JobEnds(h) /\ mutex' = [mutex EXCEPT ![p] = Free]
  BY <1>1, StepEffect DEF TakePath, JobStep
<1>5. job' \in [Hook -> Jobs]
  BY <1>1, StepEffect DEF TakePath, JobStep
<1>6. mutex' \in [Pane -> Task \cup Hook \cup {Free}]
  BY <1>1, <1>4 DEF TypeOK
<1> HIDE DEF p
<1>7. /\ [option EXCEPT ![p].path = Corrected(h)] \in [Pane -> Options]
      /\ [state EXCEPT ![p].path = Corrected(h)] \in [Pane -> States]
  BY <1>1, <1>2, StateEdits, OptionEdits
<1>8. state' \in [Pane -> States] /\ option' \in [Pane -> Options]
  BY <1>2, <1>3, <1>7
<1>9. TypeOK'
  BY <1>1, <1>5, <1>6, <1>8 DEF TakePath, unhandled, agentVars, TypeOK
<1>10. /\ OtherStates(p)
       /\ state'[p].sess = state[p].sess /\ state'[p].pin = state[p].pin
       /\ state'[p].runtime = state[p].runtime
       /\ PathOf(h) # None => state'[p].path = Corrected(h)
  BY <1>1, <1>2, <1>3 DEF OtherStates, States
<1>11. /\ OtherOptions(p)
       /\ option'[p].sess = option[p].sess /\ option'[p].managed = option[p].managed
       /\ option'[p].backend = option[p].backend
       /\ PathOf(h) # None => option'[p].path = Corrected(h)
  BY <1>1, <1>2, <1>3 DEF OtherOptions, Options
<1> QED BY <1>1, <1>3, <1>4, <1>9, <1>10, <1>11 DEF TakePath, unhandled, agentVars, p

\* What Bind does.
LEMMA BindEffect ==
  ASSUME Typed, NEW h \in Hook, Bind(h)
  PROVE  LET p == job[h].pane IN
         /\ UNCHANGED <<backend, minted, agent, option, managed, mutex, task, restarts>>
         /\ job[h].pc = "start" /\ p \in Pane /\ JobGoes(h, "persist") /\ deaf' = deaf \ {p}
         /\ OtherStates(p) /\ state'[p].sess = Bound(state[p], h)
         /\ state'[p].pin = state[p].pin /\ state'[p].path = state[p].path
         /\ state'[p].runtime.backend = state[p].runtime.backend
         /\ TypeOK'
<1> DEFINE p == job[h].pane
           sess == Bound(state[p], h)
           r == IF state[p].runtime.backend = "Grok" THEN state[p].runtime
                ELSE Runtime(state[p].runtime.backend)
<1>1. /\ job[h].pc = "start" /\ p \in Pane /\ TypeOK
      /\ JobGoes(h, "persist") /\ job' \in [Hook -> Jobs]
  BY StepEffect DEF Bind, JobStep, Typed
<1>2. state[p].pin \in Named /\ job[h].sess \in Named /\ state[p].runtime \in Runtimes
  BY <1>1, Values
<1>3. sess \in Named /\ r \in Runtimes /\ r.backend = state[p].runtime.backend
  BY <1>2 DEF Bound, Runtimes, Runtime
<1>4. state \in [Pane -> States] /\ state[p] \in States
  BY <1>1 DEF TypeOK
<1>5. state' = [state EXCEPT ![p].sess = sess, ![p].runtime = r]
  BY <1>1, <1>4 DEF Bind, States
<1> HIDE DEF p, sess, r
<1>6. state' \in [Pane -> States]
  <2> DEFINE a == [state EXCEPT ![p].sess = sess]
  <2>1. a \in [Pane -> States]
    BY <1>1, <1>3, <1>4, StateEdits
  <2>2. [a EXCEPT ![p].runtime = r] \in [Pane -> States]
    BY <1>1, <1>3, <2>1, StateEdits
  <2> QED BY <1>5, <2>2
<1>7. /\ OtherStates(p) /\ state'[p].sess = sess /\ state'[p].pin = state[p].pin
      /\ state'[p].path = state[p].path /\ state'[p].runtime = r
  BY <1>1, <1>4, <1>5 DEF OtherStates, States
<1>8. deaf' = deaf \ {p}
  BY DEF Bind, p
<1>9. TypeOK'
  BY <1>1, <1>6, <1>8 DEF Bind, unhandled, agentVars, TypeOK
<1> QED BY <1>1, <1>3, <1>7, <1>8, <1>9 DEF Bind, unhandled, agentVars, p, sess

\* What PersistBound does.
LEMMA PersistBoundEffect ==
  ASSUME Typed, NEW h \in Hook, PersistBound(h)
  PROVE  LET p == job[h].pane IN
         /\ UNCHANGED <<backend, minted, agent, state, managed, task, deaf, restarts>>
         /\ job[h].pc = "persist" /\ p \in Pane /\ JobEnds(h)
         /\ Writes(p, Bound(state[p], h)) /\ mutex' = [mutex EXCEPT ![p] = Free]
         /\ TypeOK'
<1> DEFINE p == job[h].pane
           sess == Bound(state[p], h)
<1>1. /\ job[h].pc = "persist" /\ p \in Pane /\ TypeOK
      /\ JobEnds(h) /\ job' \in [Hook -> Jobs]
  BY StepEffect DEF PersistBound, Typed
<1>2. sess \in Named
  BY <1>1, Values DEF Bound
<1>3. /\ option' = [option EXCEPT ![p].sess = sess] /\ mutex' = [mutex EXCEPT ![p] = Free]
      /\ option \in [Pane -> Options]
  BY <1>1 DEF PersistBound, TypeOK
<1> HIDE DEF p, sess
<1>4. option' \in [Pane -> Options] /\ mutex' \in [Pane -> Task \cup Hook \cup {Free}]
  BY <1>1, <1>2, <1>3, OptionEdits DEF TypeOK
<1>5. Writes(p, sess)
  BY <1>1, <1>3 DEF Writes, OtherOptions, Options
<1>6. TypeOK'
  BY <1>1, <1>4 DEF PersistBound, unhandled, agentVars, TypeOK
<1> QED BY <1>1, <1>3, <1>5, <1>6 DEF PersistBound, unhandled, agentVars, p, sess

\* What PsRefresh does.
LEMMA PsRefreshEffect ==
  ASSUME TypeOK, NEW p \in Pane, PsRefresh(p)
  PROVE  /\ UNCHANGED <<backend, minted, agent, option, managed, mutex, task, job, deaf, restarts>>
         /\ p \in managed /\ state[p].sess = None /\ option[p].sess # None
         /\ Names(p, option[p].sess) /\ TypeOK'
<1>1. option[p].sess \in Named /\ state \in [Pane -> States]
  BY Values DEF TypeOK
<1>2. state' \in [Pane -> States]
  BY <1>1, StateEdits DEF PsRefresh
<1>3. Names(p, option[p].sess)
  BY <1>1 DEF PsRefresh, Names, OtherStates, States
<1> QED BY <1>2, <1>3 DEF PsRefresh, agentVars, TypeOK

\* What Restart does.
LEMMA RestartEffect ==
  ASSUME Typed, Restart
  PROVE  /\ UNCHANGED <<backend, minted, agent, option>>
         /\ "splitFork" \in Trouble \/ \A p \in Pane : ~Silent(p)
         /\ "cutLaunch" \in Trouble \/ \A p \in Pane : ~(option[p].managed /\ Launching(p))
         /\ managed' = {p \in Pane : option[p].managed}
         /\ \A p \in Pane : /\ ~option[p].managed => state'[p] = NoState
                            /\ option[p].managed =>
                                 /\ state'[p].sess = option[p].sess /\ state'[p].pin = None
                                 /\ state'[p].path = option[p].path
                                 /\ state'[p].runtime.backend = option[p].backend
                            /\ mutex'[p] = Free
         /\ \A t \in Task : task'[t] = NoTask
         /\ \A h \in Hook : job'[h] = NoJob /\ Lost(h) \subseteq deaf'
         /\ deaf \subseteq deaf' /\ {p \in Pane : Launching(p)} \subseteq deaf'
         /\ TypeOK'
<1>1. TypeOK /\ \A h \in Hook : job[h].pc # "idle" => Lost(h) \subseteq Pane
  BY StepEffect DEF Typed
<1>2. NoTask \in Tasks /\ NoJob \in Jobs /\ NoState \in States
  BY Constants
     DEF NoTask, Tasks, TaskStep, NoJob, Jobs, JobStep, HookEvent, NoState, States,
                   Runtimes, Unbound
<1>3. ASSUME NEW p \in Pane
      PROVE  /\ Recover(p) \in States /\ Recover(p).sess = option[p].sess
             /\ Recover(p).pin = None /\ Recover(p).path = option[p].path
             /\ Recover(p).runtime.backend = option[p].backend
  <2> DEFINE r == CASE option[p].backend \in {"Claude", "Codex"} -> RecoverHooked(option[p])
                    [] option[p].backend = "Grok" -> RecoverGrok(option[p])
                    [] OTHER -> RecoverOpenCode(option[p])
  <2>1. r \in Runtimes /\ r.backend = option[p].backend
    BY <1>1, Values
       DEF RecoverHooked, RecoverGrok, RecoverOpenCode, Runtime, Unbound, Runtimes
  <2>2. Recover(p) = [sess |-> option[p].sess, pin |-> None, path |-> option[p].path,
                      runtime |-> r]
    BY DEF Recover
  <2> HIDE DEF r
  <2>3. option[p].sess \in Named /\ option[p].path \in Named /\ None \in Named
    BY <1>1, Values, Constants
  <2> QED BY <2>1, <2>2, <2>3 DEF States
<1>4. state' \in [Pane -> States]
  BY <1>2, <1>3 DEF Restart
<1>5. ASSUME NEW p \in Pane
      PROVE  /\ ~option[p].managed => state'[p] = NoState
             /\ option[p].managed => state'[p] = Recover(p)
             /\ mutex'[p] = Free
  BY <1>5 DEF Restart
<1>6. ASSUME NEW h \in Hook
      PROVE  Lost(h) \subseteq Pane
  <2>1. job[h].pc = "idle" => Lost(h) = {}
    BY DEF Lost, Typed, Placed
  <2> QED BY <1>1, <2>1
<1> DEFINE lost == UNION {Lost(h) : h \in Hook}
           cut == {p \in Pane : Launching(p)}
<1>7. deaf' = deaf \cup lost \cup cut
  BY DEF Restart
<1>8. /\ lost \subseteq Pane /\ cut \subseteq Pane
      /\ \A h \in Hook : Lost(h) \subseteq lost
  BY <1>6
<1> HIDE DEF lost
<1>11. /\ \A t \in Task : task'[t] = NoTask
       /\ \A h \in Hook : job'[h] = NoJob
  BY DEF Restart
<1>9. /\ task' \in [Task -> Tasks] /\ job' \in [Hook -> Jobs] /\ restarts' \in 0..MaxRestarts
      /\ mutex' \in [Pane -> Task \cup Hook \cup {Free}] /\ managed' \subseteq Pane
  BY <1>1, <1>2, BindingAssumption DEF Restart, TypeOK
<1>10. TypeOK'
  BY <1>1, <1>4, <1>7, <1>8, <1>9 DEF Restart, agentVars, TypeOK
<1> QED BY <1>3, <1>5, <1>7, <1>8, <1>10, <1>11 DEF Restart, agentVars

-----------------------------------------------------------------------------
(* BoundToItsAgent: the steps, part of the invariant by part of it.        *)

\* A launch has a pane exactly from its spawn to its end.
LEMMA PlacedStep ==
  ASSUME Typed, [Next]_vars
  PROVE  Typed'
<1>1. ASSUME NEW t \in Task, NEW kind \in Kinds, RunAdmit(t, kind)
      PROVE  Typed'
  BY <1>1, RunAdmitEffect, Constants
     DEF Typed, Placed, At, LaunchStep, Forking, TaskGoes, TaskEnds, OtherTasks, JobGoes,
         JobEnds, OtherJobs, NoTask, NoJob
<1>2. ASSUME NEW t \in Task, NEW p \in Pane, ForkAdmit(t, p)
      PROVE  Typed'
  BY <1>2, ForkAdmitEffect, Constants
     DEF Typed, Placed, At, LaunchStep, Forking, TaskGoes, TaskEnds, OtherTasks, JobGoes,
         JobEnds, OtherJobs, NoTask, NoJob
<1>3. ASSUME NEW t \in Task, ForkLock(t)
      PROVE  Typed'
  BY <1>3, ForkLockEffect, Constants
     DEF Typed, Placed, At, LaunchStep, Forking, TaskGoes, TaskEnds, OtherTasks, JobGoes,
         JobEnds, OtherJobs, NoTask, NoJob
<1>4. ASSUME NEW t \in Task, ForkFails(t)
      PROVE  Typed'
  BY <1>4, ForkFailsEffect, Constants
     DEF Typed, Placed, At, LaunchStep, Forking, TaskGoes, TaskEnds, OtherTasks, JobGoes,
         JobEnds, OtherJobs, NoTask, NoJob
<1>5. ASSUME NEW t \in Task, ForkTo(t), (task[t].verify /\ backend = "Codex" => task[t].target # Other)
      PROVE  Typed'
  BY <1>5, ForkToEffect, Constants
     DEF Typed, Placed, At, LaunchStep, Forking, TaskGoes, TaskEnds, OtherTasks, JobGoes,
         JobEnds, OtherJobs, NoTask, NoJob
<1>6. ASSUME NEW t \in Task, ForkKeep(t)
      PROVE  Typed'
  BY <1>6, ForkKeepEffect, Constants
     DEF Typed, Placed, At, LaunchStep, Forking, TaskGoes, TaskEnds, OtherTasks, JobGoes,
         JobEnds, OtherJobs, NoTask, NoJob
<1>7. ASSUME NEW t \in Task, Spawn(t)
      PROVE  Typed'
  BY <1>7, SpawnEffect, Constants
     DEF Typed, Placed, At, LaunchStep, Forking, TaskGoes, TaskEnds, OtherTasks, JobGoes,
         JobEnds, OtherJobs, NoTask, NoJob
<1>8. ASSUME NEW t \in Task, SpawnFails(t)
      PROVE  Typed'
  BY <1>8, SpawnFailsEffect, Constants
     DEF Typed, Placed, At, LaunchStep, Forking, TaskGoes, TaskEnds, OtherTasks, JobGoes,
         JobEnds, OtherJobs, NoTask, NoJob
<1>9. ASSUME NEW t \in Task, PersistKnown(t)
      PROVE  Typed'
  BY <1>9, PersistKnownEffect, Constants
     DEF Typed, Placed, At, LaunchStep, Forking, TaskGoes, TaskEnds, OtherTasks, JobGoes,
         JobEnds, OtherJobs, NoTask, NoJob
<1>10. ASSUME NEW t \in Task, RestoreBackend(t)
       PROVE  Typed'
  BY <1>10, RestoreBackendEffect, Constants
     DEF Typed, Placed, At, LaunchStep, Forking, TaskGoes, TaskEnds, OtherTasks, JobGoes,
         JobEnds, OtherJobs, NoTask, NoJob
<1>11. ASSUME NEW t \in Task, Register(t)
       PROVE  Typed'
  BY <1>11, RegisterEffect, Constants
     DEF Typed, Placed, At, LaunchStep, Forking, TaskGoes, TaskEnds, OtherTasks, JobGoes,
         JobEnds, OtherJobs, NoTask, NoJob
<1>12. ASSUME NEW t \in Task, Mark(t)
       PROVE  Typed'
  BY <1>12, MarkEffect, Constants
     DEF Typed, Placed, At, LaunchStep, Forking, TaskGoes, TaskEnds, OtherTasks, JobGoes,
         JobEnds, OtherJobs, NoTask, NoJob
<1>13. ASSUME NEW t \in Task, PersistRestored(t)
       PROVE  Typed'
  BY <1>13, PersistRestoredEffect, Constants
     DEF Typed, Placed, At, LaunchStep, Forking, TaskGoes, TaskEnds, OtherTasks, JobGoes,
         JobEnds, OtherJobs, NoTask, NoJob
<1>14. ASSUME NEW t \in Task, Seed(t)
       PROVE  Typed'
  BY <1>14, SeedEffect, Constants
     DEF Typed, Placed, At, LaunchStep, Forking, TaskGoes, TaskEnds, OtherTasks, JobGoes,
         JobEnds, OtherJobs, NoTask, NoJob
<1>15. ASSUME NEW t \in Task, Attach(t)
       PROVE  Typed'
  BY <1>15, AttachEffect, Constants
     DEF Typed, Placed, At, LaunchStep, Forking, TaskGoes, TaskEnds, OtherTasks, JobGoes,
         JobEnds, OtherJobs, NoTask, NoJob
<1>16. ASSUME NEW t \in Task, AttachRuntime(t)
       PROVE  Typed'
  BY <1>16, AttachRuntimeEffect, Constants
     DEF Typed, Placed, At, LaunchStep, Forking, TaskGoes, TaskEnds, OtherTasks, JobGoes,
         JobEnds, OtherJobs, NoTask, NoJob
<1>17. ASSUME NEW p \in Pane, Announce(p)
       PROVE  Typed'
  BY <1>17, AnnounceEffect, Constants
     DEF Typed, Placed, At, LaunchStep, Forking, TaskGoes, TaskEnds, OtherTasks, JobGoes,
         JobEnds, OtherJobs, NoTask, NoJob
<1>18. ASSUME NEW p \in Pane, Prompt(p)
       PROVE  Typed'
  BY <1>18, PromptEffect, Constants
     DEF Typed, Placed, At, LaunchStep, Forking, TaskGoes, TaskEnds, OtherTasks, JobGoes,
         JobEnds, OtherJobs, NoTask, NoJob
<1>19. ASSUME NEW p \in Pane, Clear(p)
       PROVE  Typed'
  BY <1>19, ClearEffect, Constants
     DEF Typed, Placed, At, LaunchStep, Forking, TaskGoes, TaskEnds, OtherTasks, JobGoes,
         JobEnds, OtherJobs, NoTask, NoJob
<1>20. ASSUME NEW p \in Pane, Inner(p)
       PROVE  Typed'
  BY <1>20, InnerEffect, Constants
     DEF Typed, Placed, At, LaunchStep, Forking, TaskGoes, TaskEnds, OtherTasks, JobGoes,
         JobEnds, OtherJobs, NoTask, NoJob
<1>21. ASSUME NEW h \in Hook, Admit(h) \/ Arm(h) \/ Check(h) \/ Park(h) \/ Wake(h)
       PROVE  Typed'
  BY <1>21, WaitEffect, Constants
     DEF Typed, Placed, At, LaunchStep, Forking, TaskGoes, TaskEnds, OtherTasks, JobGoes,
         JobEnds, OtherJobs, NoTask, NoJob
<1>22. ASSUME NEW h \in Hook, WaitOver(h)
       PROVE  Typed'
  BY <1>22, WaitOverEffect, Constants
     DEF Typed, Placed, At, LaunchStep, Forking, TaskGoes, TaskEnds, OtherTasks, JobGoes,
         JobEnds, OtherJobs, NoTask, NoJob
<1>23. ASSUME NEW h \in Hook, Lock(h)
       PROVE  Typed'
  BY <1>23, LockEffect, Constants
     DEF Typed, Placed, At, LaunchStep, Forking, TaskGoes, TaskEnds, OtherTasks, JobGoes,
         JobEnds, OtherJobs, NoTask, NoJob
<1>24. ASSUME NEW h \in Hook, TakePath(h)
       PROVE  Typed'
  BY <1>24, TakePathEffect, Constants
     DEF Typed, Placed, At, LaunchStep, Forking, TaskGoes, TaskEnds, OtherTasks, JobGoes,
         JobEnds, OtherJobs, NoTask, NoJob
<1>25. ASSUME NEW h \in Hook, Bind(h)
       PROVE  Typed'
  BY <1>25, BindEffect, Constants
     DEF Typed, Placed, At, LaunchStep, Forking, TaskGoes, TaskEnds, OtherTasks, JobGoes,
         JobEnds, OtherJobs, NoTask, NoJob
<1>26. ASSUME NEW h \in Hook, PersistBound(h)
       PROVE  Typed'
  BY <1>26, PersistBoundEffect, Constants
     DEF Typed, Placed, At, LaunchStep, Forking, TaskGoes, TaskEnds, OtherTasks, JobGoes,
         JobEnds, OtherJobs, NoTask, NoJob
<1>27. ASSUME NEW p \in Pane, PsRefresh(p)
       PROVE  Typed'
  BY <1>27, PsRefreshEffect, Constants
     DEF Typed, Placed, At, LaunchStep, Forking, TaskGoes, TaskEnds, OtherTasks, JobGoes,
         JobEnds, OtherJobs, NoTask, NoJob
<1>28. ASSUME Restart PROVE Typed'
  BY <1>28, RestartEffect, Constants
     DEF Typed, Placed, At, LaunchStep, Forking, TaskGoes, TaskEnds, OtherTasks, JobGoes,
         JobEnds, OtherJobs, NoTask, NoJob
<1>29. ASSUME UNCHANGED vars PROVE Typed'
  BY <1>29, Constants
     DEF Typed, Placed, At, LaunchStep, Forking, TaskGoes, TaskEnds, OtherTasks, JobGoes,
         JobEnds, OtherJobs, NoTask, NoJob, TypeOK, vars, agentVars
<1>30. ASSUME NEW t \in Task, Launch(t) PROVE Typed'
  <2>1. ForkByAgent(t) \/ ForkByServer(t) \/ ForkByCodex(t) =>
          ForkTo(t) /\ (task[t].verify /\ backend = "Codex" => task[t].target # Other)
    BY DEF ForkByAgent, ForkByServer, ForkByCodex, Hooked
  <2> QED BY <1>1, <1>2, <1>3, <1>4, <1>5, <1>6, <1>7, <1>8, <1>9,
             <1>10, <1>11, <1>12, <1>13, <1>14, <1>15, <1>16, <1>30, <2>1 DEF Launch
<1>31. ASSUME NEW p \in Pane, Agent(p) PROVE Typed'
  BY <1>17, <1>18, <1>19, <1>20, <1>31 DEF Agent
<1>32. ASSUME NEW h \in Hook, Handle(h) PROVE Typed'
  BY <1>21, <1>23, <1>24, <1>25, <1>26, <1>32 DEF Handle
<1> QED BY <1>22, <1>27, <1>28, <1>29, <1>30, <1>31, <1>32 DEF Next

\* No step touches a pane before its agent is started.
LEMMA UnbornStep ==
  ASSUME Typed, Sane, [Next]_vars
  PROVE  \A q \in Pane : Unborn(q)'
<1>a. \A q \in Pane : Unborn(q)
  BY DEF Sane, AgentSane
<1>b. \A t \in Task : /\ At(t, LaunchStep) => LaunchSane(t)
                      /\ At(t, Forking) => task[t].src \in managed
  BY DEF Sane, TaskSane, ForkSane
<1>c. \A h \in Hook : job[h].pc # "idle" => agent[job[h].pane].live
  BY DEF Sane, JobSane
<1>1. ASSUME NEW t \in Task, NEW kind \in Kinds, RunAdmit(t, kind)
      PROVE  \A q \in Pane : Unborn(q)'
  BY <1>1, RunAdmitEffect, <1>a, <1>b, <1>c, Constants
     DEF Unborn, Typed, OtherStates, OtherOptions, OtherAgents, Names, Drives, Writes
<1>2. ASSUME NEW t \in Task, NEW p \in Pane, ForkAdmit(t, p)
      PROVE  \A q \in Pane : Unborn(q)'
  BY <1>2, ForkAdmitEffect, <1>a, <1>b, <1>c, Constants
     DEF Unborn, Typed, OtherStates, OtherOptions, OtherAgents, Names, Drives, Writes
<1>3. ASSUME NEW t \in Task, ForkLock(t)
      PROVE  \A q \in Pane : Unborn(q)'
  BY <1>3, ForkLockEffect, <1>a, <1>b, <1>c, Constants
     DEF Unborn, Typed, OtherStates, OtherOptions, OtherAgents, Names, Drives, Writes
<1>4. ASSUME NEW t \in Task, ForkFails(t)
      PROVE  \A q \in Pane : Unborn(q)'
  BY <1>4, ForkFailsEffect, <1>a, <1>b, <1>c, Constants
     DEF Unborn, Typed, OtherStates, OtherOptions, OtherAgents, Names, Drives, Writes
<1>5. ASSUME NEW t \in Task, ForkTo(t), (task[t].verify /\ backend = "Codex" => task[t].target # Other)
      PROVE  \A q \in Pane : Unborn(q)'
  BY <1>5, ForkToEffect, <1>a, <1>b, <1>c, Constants
     DEF Unborn, Typed, OtherStates, OtherOptions, OtherAgents, Names, Drives, Writes
<1>6. ASSUME NEW t \in Task, ForkKeep(t)
      PROVE  \A q \in Pane : Unborn(q)'
  BY <1>6, ForkKeepEffect, <1>a, <1>b, <1>c, Constants
     DEF Unborn, Typed, OtherStates, OtherOptions, OtherAgents, Names, Drives, Writes,
         Forking, At
<1>7. ASSUME NEW t \in Task, Spawn(t)
      PROVE  \A q \in Pane : Unborn(q)'
  BY <1>7, SpawnEffect, <1>a, <1>b, <1>c, Constants
     DEF Unborn, Typed, OtherStates, OtherOptions, OtherAgents, Names, Drives, Writes
<1>8. ASSUME NEW t \in Task, SpawnFails(t)
      PROVE  \A q \in Pane : Unborn(q)'
  BY <1>8, SpawnFailsEffect, <1>a, <1>b, <1>c, Constants
     DEF Unborn, Typed, OtherStates, OtherOptions, OtherAgents, Names, Drives, Writes
<1>9. ASSUME NEW t \in Task, PersistKnown(t)
      PROVE  \A q \in Pane : Unborn(q)'
  BY <1>9, PersistKnownEffect, <1>a, <1>b, <1>c, Constants
     DEF Unborn, Typed, OtherStates, OtherOptions, OtherAgents, Names, Drives, Writes,
         LaunchSane, LaunchStep, At
<1>10. ASSUME NEW t \in Task, RestoreBackend(t)
       PROVE  \A q \in Pane : Unborn(q)'
  BY <1>10, RestoreBackendEffect, <1>a, <1>b, <1>c, Constants
     DEF Unborn, Typed, OtherStates, OtherOptions, OtherAgents, Names, Drives, Writes,
         LaunchSane, LaunchStep, At
<1>11. ASSUME NEW t \in Task, Register(t)
       PROVE  \A q \in Pane : Unborn(q)'
  BY <1>11, RegisterEffect, <1>a, <1>b, <1>c, Constants
     DEF Unborn, Typed, OtherStates, OtherOptions, OtherAgents, Names, Drives, Writes,
         LaunchSane, LaunchStep, At
<1>12. ASSUME NEW t \in Task, Mark(t)
       PROVE  \A q \in Pane : Unborn(q)'
  BY <1>12, MarkEffect, <1>a, <1>b, <1>c, Constants
     DEF Unborn, Typed, OtherStates, OtherOptions, OtherAgents, Names, Drives, Writes,
         LaunchSane, LaunchStep, At
<1>13. ASSUME NEW t \in Task, PersistRestored(t)
       PROVE  \A q \in Pane : Unborn(q)'
  <2>1. agent[task[t].pane].live
    BY <1>13, <1>b, PersistRestoredEffect DEF LaunchSane, LaunchStep, At
  <2> QED BY <1>13, <1>a, <2>1, PersistRestoredEffect DEF Unborn, OtherOptions, Writes
<1>14. ASSUME NEW t \in Task, Seed(t)
       PROVE  \A q \in Pane : Unborn(q)'
  BY <1>14, SeedEffect, <1>a, <1>b, <1>c, Constants
     DEF Unborn, Typed, OtherStates, OtherOptions, OtherAgents, Names, Drives, Writes,
         LaunchSane, LaunchStep, At
<1>15. ASSUME NEW t \in Task, Attach(t)
       PROVE  \A q \in Pane : Unborn(q)'
  BY <1>15, AttachEffect, <1>a, <1>b, <1>c, Constants
     DEF Unborn, Typed, OtherStates, OtherOptions, OtherAgents, Names, Drives, Writes,
         LaunchSane, LaunchStep, At
<1>16. ASSUME NEW t \in Task, AttachRuntime(t)
       PROVE  \A q \in Pane : Unborn(q)'
  BY <1>16, AttachRuntimeEffect, <1>a, <1>b, <1>c, Constants
     DEF Unborn, Typed, OtherStates, OtherOptions, OtherAgents, Names, Drives, Writes,
         LaunchSane, LaunchStep, At
<1>17. ASSUME NEW p \in Pane, Announce(p)
       PROVE  \A q \in Pane : Unborn(q)'
  BY <1>17, AnnounceEffect, <1>a, <1>b, <1>c, Constants
     DEF Unborn, Typed, OtherStates, OtherOptions, OtherAgents, Names, Drives, Writes
<1>18. ASSUME NEW p \in Pane, Prompt(p)
       PROVE  \A q \in Pane : Unborn(q)'
  <2>1. agent[p].live
    BY <1>18, <1>a, PromptEffect DEF Unborn, NoAgent, Typed
  <2> QED BY <1>18, <1>a, <2>1, PromptEffect DEF Unborn, OtherAgents, Typed
<1>19. ASSUME NEW p \in Pane, Clear(p)
       PROVE  \A q \in Pane : Unborn(q)'
  <2>1. agent[p].live
    BY <1>19, <1>a, ClearEffect DEF Unborn, NoAgent, Typed
  <2> QED BY <1>19, <1>a, <2>1, ClearEffect DEF Unborn, OtherAgents, Typed
<1>20. ASSUME NEW p \in Pane, Inner(p)
       PROVE  \A q \in Pane : Unborn(q)'
  <2> QED BY <1>20, <1>a, InnerEffect DEF Unborn, Typed
<1>21. ASSUME NEW h \in Hook, Admit(h) \/ Arm(h) \/ Check(h) \/ Park(h) \/ Wake(h)
       PROVE  \A q \in Pane : Unborn(q)'
  BY <1>21, WaitEffect, <1>a, <1>b, <1>c, Constants
     DEF Unborn, Typed, OtherStates, OtherOptions, OtherAgents, Names, Drives, Writes
<1>22. ASSUME NEW h \in Hook, WaitOver(h)
       PROVE  \A q \in Pane : Unborn(q)'
  BY <1>22, WaitOverEffect, <1>a, <1>b, <1>c, Constants
     DEF Unborn, Typed, OtherStates, OtherOptions, OtherAgents, Names, Drives, Writes
<1>23. ASSUME NEW h \in Hook, Lock(h)
       PROVE  \A q \in Pane : Unborn(q)'
  BY <1>23, LockEffect, <1>a, <1>b, <1>c, Constants
     DEF Unborn, Typed, OtherStates, OtherOptions, OtherAgents, Names, Drives, Writes
<1>24. ASSUME NEW h \in Hook, TakePath(h)
       PROVE  \A q \in Pane : Unborn(q)'
  BY <1>24, TakePathEffect, <1>a, <1>b, <1>c, Constants
     DEF Unborn, Typed, OtherStates, OtherOptions, OtherAgents, Names, Drives, Writes
<1>25. ASSUME NEW h \in Hook, Bind(h)
       PROVE  \A q \in Pane : Unborn(q)'
  <2>1. agent[job[h].pane].live
    BY <1>25, <1>c, BindEffect
  <2> QED BY <1>25, <1>a, <2>1, BindEffect DEF Unborn, OtherStates
<1>26. ASSUME NEW h \in Hook, PersistBound(h)
       PROVE  \A q \in Pane : Unborn(q)'
  BY <1>26, PersistBoundEffect, <1>a, <1>b, <1>c, Constants
     DEF Unborn, Typed, OtherStates, OtherOptions, OtherAgents, Names, Drives, Writes
<1>27. ASSUME NEW p \in Pane, PsRefresh(p)
       PROVE  \A q \in Pane : Unborn(q)'
  <2>1. agent[p].live
    BY <1>27, <1>a, PsRefreshEffect DEF Unborn, Typed
  <2> QED BY <1>27, <1>a, <2>1, PsRefreshEffect DEF Unborn, OtherStates, Names, Typed
<1>28. ASSUME Restart PROVE \A q \in Pane : Unborn(q)'
  <2>1. \A q \in Pane : ~agent[q].live => ~option[q].managed
    BY <1>a DEF Unborn, NoOption
  <2> QED BY <1>28, <1>a, <2>1, RestartEffect DEF Unborn
<1>29. ASSUME UNCHANGED vars PROVE \A q \in Pane : Unborn(q)'
  BY <1>29, <1>a, <1>b, <1>c, Constants
     DEF Unborn, Typed, OtherStates, OtherOptions, OtherAgents, Names, Drives, Writes,
         vars, agentVars
<1>30. ASSUME NEW t \in Task, Launch(t) PROVE \A q \in Pane : Unborn(q)'
  <2>1. ForkByAgent(t) \/ ForkByServer(t) \/ ForkByCodex(t) =>
          ForkTo(t) /\ (task[t].verify /\ backend = "Codex" => task[t].target # Other)
    BY DEF ForkByAgent, ForkByServer, ForkByCodex, Hooked
  <2> QED BY <1>1, <1>2, <1>3, <1>4, <1>5, <1>6, <1>7, <1>8, <1>9,
             <1>10, <1>11, <1>12, <1>13, <1>14, <1>15, <1>16, <1>30, <2>1 DEF Launch
<1>31. ASSUME NEW p \in Pane, Agent(p) PROVE \A q \in Pane : Unborn(q)'
  BY <1>17, <1>18, <1>19, <1>20, <1>31 DEF Agent
<1>32. ASSUME NEW h \in Hook, Handle(h) PROVE \A q \in Pane : Unborn(q)'
  BY <1>21, <1>23, <1>24, <1>25, <1>26, <1>32 DEF Handle
<1> QED BY <1>22, <1>27, <1>28, <1>29, <1>30, <1>31, <1>32 DEF Next

\* Agents name sessions they run, or a copy to which their pane is pinned.
LEMMA ReportsStep ==
  ASSUME Typed, Orderly, Sane, [Next]_vars
  PROVE  \A q \in Pane : Reports(q)'
<1>a. \A q \in Pane : Reports(q)
  BY DEF Sane, AgentSane
<1>b. \A t \in Task : At(t, LaunchStep \cup {"spawn"}) => Aims(t) /\ task[t].kind # "resumeFork"
  BY DEF Sane, TaskSane
<1>1. ASSUME NEW t \in Task, NEW kind \in Kinds, RunAdmit(t, kind)
      PROVE  \A q \in Pane : Reports(q)'
  BY <1>1, RunAdmitEffect, <1>a, <1>b, Constants
     DEF Reports, Pinned, At, Typed, OtherStates, OtherOptions, OtherAgents, Names, Drives,
         Writes, TaskGoes, TaskEnds, OtherTasks, NoTask
<1>2. ASSUME NEW t \in Task, NEW p \in Pane, ForkAdmit(t, p)
      PROVE  \A q \in Pane : Reports(q)'
  BY <1>2, ForkAdmitEffect, <1>a, <1>b, Constants
     DEF Reports, Pinned, At, Typed, OtherStates, OtherOptions, OtherAgents, Names, Drives,
         Writes, TaskGoes, TaskEnds, OtherTasks, NoTask
<1>3. ASSUME NEW t \in Task, ForkLock(t)
      PROVE  \A q \in Pane : Reports(q)'
  BY <1>3, ForkLockEffect, <1>a, <1>b, Constants
     DEF Reports, Pinned, At, Typed, OtherStates, OtherOptions, OtherAgents, Names, Drives,
         Writes, TaskGoes, TaskEnds, OtherTasks, NoTask
<1>4. ASSUME NEW t \in Task, ForkFails(t)
      PROVE  \A q \in Pane : Reports(q)'
  BY <1>4, ForkFailsEffect, <1>a, <1>b, Constants
     DEF Reports, Pinned, At, Typed, OtherStates, OtherOptions, OtherAgents, Names, Drives,
         Writes, TaskGoes, TaskEnds, OtherTasks, NoTask
<1>5. ASSUME NEW t \in Task, ForkTo(t), (task[t].verify /\ backend = "Codex" => task[t].target # Other)
      PROVE  \A q \in Pane : Reports(q)'
  <2> QED BY <1>5, <1>a, ForkToEffect DEF Reports, Pinned, At, OtherTasks
<1>6. ASSUME NEW t \in Task, ForkKeep(t)
      PROVE  \A q \in Pane : Reports(q)'
  BY <1>6, ForkKeepEffect, <1>a, <1>b, Constants
     DEF Reports, Pinned, At, Typed, OtherStates, OtherOptions, OtherAgents, Names, Drives,
         Writes, TaskGoes, TaskEnds, OtherTasks, NoTask
<1>7. ASSUME NEW t \in Task, Spawn(t)
      PROVE  \A q \in Pane : Reports(q)'
  <2>1. PICK p \in Pane :
          /\ UNCHANGED <<backend, state>>
          /\ OtherTasks(t) /\ task[t].pc = "spawn" /\ task'[t].pane = p
          /\ task'[t].pc = IF task[t].kind = "restore" THEN "resume" ELSE "know"
          /\ task'[t].kind = task[t].kind
          /\ OtherAgents(p) /\ agent'[p].ran = {agent'[p].sess}
          /\ agent'[p].sess = CASE backend = "OpenCode" /\ task[t].kind = "fresh" -> None
                                [] task[t].kind = "resumeFork" -> Other
                                [] OTHER -> task[t].target
          /\ ~(backend = "Claude" /\ task[t].kind = "fork") =>
               agent'[p].report = agent'[p].sess
    BY <1>7, SpawnEffect
  <2>2. task[t].target \in Session /\ task[t].kind # "resumeFork"
    BY <1>b, <2>1 DEF At, Aims
  <2>3. agent'[p].sess # Other /\ (backend # "OpenCode" => agent'[p].sess # None)
    BY <2>1, <2>2, Constants
  <2>4. backend = "Claude" /\ task[t].kind = "fork" => Pinned(p)'
    BY <2>1 DEF Pinned, At
  <2>5. Reports(p)'
    BY <2>1, <2>3, <2>4 DEF Reports
  <2>6. ASSUME NEW q \in Pane, q # p PROVE Reports(q)'
    <3>1. Pinned(q) => Pinned(q)'
      BY <2>1, <2>6 DEF Pinned, At, OtherTasks
    <3> QED BY <1>a, <2>1, <2>6, <3>1 DEF Reports, OtherAgents
  <2> QED BY <2>5, <2>6
<1>8. ASSUME NEW t \in Task, SpawnFails(t)
      PROVE  \A q \in Pane : Reports(q)'
  BY <1>8, SpawnFailsEffect, <1>a, <1>b, Constants
     DEF Reports, Pinned, At, Typed, OtherStates, OtherOptions, OtherAgents, Names, Drives,
         Writes, TaskGoes, TaskEnds, OtherTasks, NoTask
<1>9. ASSUME NEW t \in Task, PersistKnown(t)
      PROVE  \A q \in Pane : Reports(q)'
  <2>0. state[task[t].pane].pin = None
    BY <1>9, PersistKnownEffect DEF Sane, TaskSane, LaunchSane, At, LaunchStep
  <2>1. task[t].kind = "fork" /\ backend = "Claude" =>
          Pins(task[t].kind) /\ task[t].known # None
    BY <1>9, <1>b, PersistKnownEffect, Constants DEF At, LaunchStep, Aims, Knows, Pins
  <2>2. ASSUME NEW q \in Pane PROVE Pinned(q) => Pinned(q)' \/ agent[q].report \in agent[q].ran
    BY <1>9, <2>0, <2>1, PersistKnownEffect
       DEF Pinned, At, TaskGoes, OtherTasks, OtherStates
  <2> QED BY <1>9, <1>a, <2>2, PersistKnownEffect DEF Reports
<1>10. ASSUME NEW t \in Task, RestoreBackend(t)
       PROVE  \A q \in Pane : Reports(q)'
  BY <1>10, RestoreBackendEffect, <1>a, <1>b, Constants
     DEF Reports, Pinned, At, Typed, OtherStates, OtherOptions, OtherAgents, Names, Drives,
         Writes, TaskGoes, TaskEnds, OtherTasks, NoTask
<1>11. ASSUME NEW t \in Task, Register(t)
       PROVE  \A q \in Pane : Reports(q)'
  BY <1>11, RegisterEffect, <1>a, <1>b, Constants
     DEF Reports, Pinned, At, Typed, OtherStates, OtherOptions, OtherAgents, Names, Drives,
         Writes, TaskGoes, TaskEnds, OtherTasks, NoTask
<1>12. ASSUME NEW t \in Task, Mark(t)
       PROVE  \A q \in Pane : Reports(q)'
  BY <1>12, MarkEffect, <1>a, <1>b, Constants
     DEF Reports, Pinned, At, Typed, OtherStates, OtherOptions, OtherAgents, Names, Drives,
         Writes, TaskGoes, TaskEnds, OtherTasks, NoTask
<1>13. ASSUME NEW t \in Task, PersistRestored(t)
       PROVE  \A q \in Pane : Reports(q)'
  BY <1>13, PersistRestoredEffect, <1>a, <1>b, Constants
     DEF Reports, Pinned, At, Typed, OtherStates, OtherOptions, OtherAgents, Names, Drives,
         Writes, TaskGoes, TaskEnds, OtherTasks, NoTask
<1>14. ASSUME NEW t \in Task, Seed(t)
       PROVE  \A q \in Pane : Reports(q)'
  BY <1>14, SeedEffect, <1>a, <1>b, Constants
     DEF Reports, Pinned, At, Typed, OtherStates, OtherOptions, OtherAgents, Names, Drives,
         Writes, TaskGoes, TaskEnds, OtherTasks, NoTask
<1>15. ASSUME NEW t \in Task, Attach(t)
       PROVE  \A q \in Pane : Reports(q)'
  <2>1. \A q \in Pane : Pinned(q) => Pinned(q)'
    BY <1>15, AttachEffect DEF Pinned, At, TaskGoes, OtherTasks, Names, OtherStates
  <2>2. task[t].target \in Session
    BY <1>15, <1>b, AttachEffect DEF Aims, At, LaunchStep
  <2> QED BY <1>15, <1>a, <2>1, <2>2, AttachEffect, Constants DEF Reports, OtherAgents
<1>16. ASSUME NEW t \in Task, AttachRuntime(t)
       PROVE  \A q \in Pane : Reports(q)'
  BY <1>16, AttachRuntimeEffect, <1>a, <1>b, Constants
     DEF Reports, Pinned, At, Typed, OtherStates, OtherOptions, OtherAgents, Names, Drives,
         Writes, TaskGoes, TaskEnds, OtherTasks, NoTask
<1>17. ASSUME NEW p \in Pane, Announce(p)
       PROVE  \A q \in Pane : Reports(q)'
  BY <1>17, AnnounceEffect, <1>a, <1>b, Constants
     DEF Reports, Pinned, At, Typed, OtherStates, OtherOptions, OtherAgents, Names, Drives,
         Writes, TaskGoes, TaskEnds, OtherTasks, NoTask
<1>18. ASSUME NEW p \in Pane, Prompt(p)
       PROVE  \A q \in Pane : Reports(q)'
  BY <1>18, PromptEffect, <1>a, <1>b, Constants
     DEF Reports, Pinned, At, Typed, OtherStates, OtherOptions, OtherAgents, Names, Drives,
         Writes, TaskGoes, TaskEnds, OtherTasks, NoTask
<1>19. ASSUME NEW p \in Pane, Clear(p)
       PROVE  \A q \in Pane : Reports(q)'
  <2>1. \A q \in Pane : Pinned(q) => Pinned(q)'
    BY <1>19, ClearEffect DEF Pinned, At, Typed
  <2> QED BY <1>19, <1>a, <2>1, ClearEffect, Constants DEF Reports, OtherAgents, Typed
<1>20. ASSUME NEW p \in Pane, Inner(p)
       PROVE  \A q \in Pane : Reports(q)'
  BY <1>20, InnerEffect, <1>a, <1>b, Constants
     DEF Reports, Pinned, At, Typed, OtherStates, OtherOptions, OtherAgents, Names, Drives,
         Writes, TaskGoes, TaskEnds, OtherTasks, NoTask
<1>21. ASSUME NEW h \in Hook, Admit(h) \/ Arm(h) \/ Check(h) \/ Park(h) \/ Wake(h)
       PROVE  \A q \in Pane : Reports(q)'
  <2>1. UNCHANGED <<backend, agent, state, task>>
    BY <1>21, WaitEffect
  <2> QED BY <1>a, <2>1 DEF Reports, Pinned, At
<1>22. ASSUME NEW h \in Hook, WaitOver(h)
       PROVE  \A q \in Pane : Reports(q)'
  <2>1. UNCHANGED <<backend, agent, state, task>>
    BY <1>22, WaitOverEffect
  <2> QED BY <1>a, <2>1 DEF Reports, Pinned, At
<1>23. ASSUME NEW h \in Hook, Lock(h)
       PROVE  \A q \in Pane : Reports(q)'
  <2>1. UNCHANGED <<backend, agent, state, task>>
    BY <1>23, LockEffect
  <2> QED BY <1>a, <2>1 DEF Reports, Pinned, At
<1>24. ASSUME NEW h \in Hook, TakePath(h)
       PROVE  \A q \in Pane : Reports(q)'
  BY <1>24, TakePathEffect, <1>a, <1>b, Constants
     DEF Reports, Pinned, At, Typed, OtherStates, OtherOptions, OtherAgents, Names, Drives,
         Writes, TaskGoes, TaskEnds, OtherTasks, NoTask
<1>25. ASSUME NEW h \in Hook, Bind(h)
       PROVE  \A q \in Pane : Reports(q)'
  <2>1. PICK p \in Pane : p = job[h].pane
    BY <1>25, BindEffect
  <2>2. OtherStates(p) /\ state'[p].pin = state[p].pin /\ UNCHANGED <<backend, agent, task>>
    BY <1>25, <2>1, BindEffect
  <2>3. \A q \in Pane : state'[q].pin = state[q].pin
    BY <2>2 DEF OtherStates
  <2>4. \A q \in Pane : Pinned(q) => Pinned(q)'
    BY <2>2, <2>3 DEF Pinned, At
  <2> QED BY <1>a, <2>2, <2>4 DEF Reports
<1>26. ASSUME NEW h \in Hook, PersistBound(h)
       PROVE  \A q \in Pane : Reports(q)'
  <2>1. UNCHANGED <<backend, agent, state, task>>
    BY <1>26, PersistBoundEffect
  <2> QED BY <1>a, <2>1 DEF Reports, Pinned, At
<1>27. ASSUME NEW p \in Pane, PsRefresh(p)
       PROVE  \A q \in Pane : Reports(q)'
  <2>1. \A q \in Pane : Pinned(q) => Pinned(q)'
    BY <1>27, PsRefreshEffect DEF Pinned, At, Typed, Names, OtherStates
  <2> QED BY <1>27, <1>a, <2>1, PsRefreshEffect DEF Reports, Typed
<1>28. ASSUME Restart PROVE \A q \in Pane : Reports(q)'
  <2>1. \A q \in Pane : agent[q].live => agent[q].report = agent[q].sess
    BY <1>28, RestartEffect DEF Silent, Orderly
  <2> QED BY <1>28, <1>a, <2>1, RestartEffect DEF Reports
<1>29. ASSUME UNCHANGED vars PROVE \A q \in Pane : Reports(q)'
  BY <1>29, <1>a, <1>b, Constants
     DEF Reports, Pinned, At, Typed, OtherStates, OtherOptions, OtherAgents, Names, Drives,
         Writes, TaskGoes, TaskEnds, OtherTasks, NoTask, vars, agentVars
<1>30. ASSUME NEW t \in Task, Launch(t) PROVE \A q \in Pane : Reports(q)'
  <2>1. ForkByAgent(t) \/ ForkByServer(t) \/ ForkByCodex(t) =>
          ForkTo(t) /\ (task[t].verify /\ backend = "Codex" => task[t].target # Other)
    BY DEF ForkByAgent, ForkByServer, ForkByCodex, Hooked
  <2> QED BY <1>1, <1>2, <1>3, <1>4, <1>5, <1>6, <1>7, <1>8, <1>9,
             <1>10, <1>11, <1>12, <1>13, <1>14, <1>15, <1>16, <1>30, <2>1 DEF Launch
<1>31. ASSUME NEW p \in Pane, Agent(p) PROVE \A q \in Pane : Reports(q)'
  BY <1>17, <1>18, <1>19, <1>20, <1>31 DEF Agent
<1>32. ASSUME NEW h \in Hook, Handle(h) PROVE \A q \in Pane : Reports(q)'
  BY <1>21, <1>23, <1>24, <1>25, <1>26, <1>32 DEF Handle
<1> QED BY <1>22, <1>27, <1>28, <1>29, <1>30, <1>31, <1>32 DEF Next

\* What state and option name is a session the agent runs.
LEMMA BindingsStep ==
  ASSUME Typed, Orderly, Sane, [Next]_vars
  PROVE  \A q \in Pane : Bindings(q)'
<1>a. \A q \in Pane : Bindings(q) /\ Reports(q)
  BY DEF Sane, AgentSane
<1>b. \A t \in Task : /\ At(t, LaunchStep) => Aims(t) /\ LaunchSane(t)
                      /\ At(t, {"keep"}) => task[t].target \in agent[task[t].src].ran
  BY DEF Sane, TaskSane, ForkSane, At, Forking
<1>c. \A q \in Pane : Unborn(q)
  BY DEF Sane, AgentSane
<1>1. ASSUME NEW t \in Task, NEW kind \in Kinds, RunAdmit(t, kind)
      PROVE  \A q \in Pane : Bindings(q)'
  BY <1>1, RunAdmitEffect, <1>a, <1>b, Constants
     DEF Bindings, Own, Typed, OtherStates, OtherOptions, OtherAgents, Names, Drives, Writes
<1>2. ASSUME NEW t \in Task, NEW p \in Pane, ForkAdmit(t, p)
      PROVE  \A q \in Pane : Bindings(q)'
  BY <1>2, ForkAdmitEffect, <1>a, <1>b, Constants
     DEF Bindings, Own, Typed, OtherStates, OtherOptions, OtherAgents, Names, Drives, Writes
<1>3. ASSUME NEW t \in Task, ForkLock(t)
      PROVE  \A q \in Pane : Bindings(q)'
  BY <1>3, ForkLockEffect, <1>a, <1>b, Constants
     DEF Bindings, Own, Typed, OtherStates, OtherOptions, OtherAgents, Names, Drives, Writes
<1>4. ASSUME NEW t \in Task, ForkFails(t)
      PROVE  \A q \in Pane : Bindings(q)'
  BY <1>4, ForkFailsEffect, <1>a, <1>b, Constants
     DEF Bindings, Own, Typed, OtherStates, OtherOptions, OtherAgents, Names, Drives, Writes
<1>5. ASSUME NEW t \in Task, ForkTo(t), (task[t].verify /\ backend = "Codex" => task[t].target # Other)
      PROVE  \A q \in Pane : Bindings(q)'
  BY <1>5, ForkToEffect, <1>a, <1>b, Constants
     DEF Bindings, Own, Typed, OtherStates, OtherOptions, OtherAgents, Names, Drives, Writes
<1>6. ASSUME NEW t \in Task, ForkKeep(t)
      PROVE  \A q \in Pane : Bindings(q)'
  BY <1>6, ForkKeepEffect, <1>a, <1>b, Constants
     DEF Bindings, Own, Typed, OtherStates, OtherOptions, OtherAgents, Names, Drives,
         Writes, At
<1>7. ASSUME NEW t \in Task, Spawn(t)
      PROVE  \A q \in Pane : Bindings(q)'
  <2>1. PICK p \in Pane :
          /\ UNCHANGED state /\ task[t].pc = "spawn" /\ ~agent[p].live
          /\ Writes(p, IF backend = "OpenCode2" THEN task[t].target ELSE None)
          /\ OtherAgents(p) /\ agent'[p].ran = {agent'[p].sess}
          /\ agent'[p].sess = CASE backend = "OpenCode" /\ task[t].kind = "fresh" -> None
                                [] task[t].kind = "resumeFork" -> Other
                                [] OTHER -> task[t].target
    BY <1>7, SpawnEffect
  <2>2. state[p].pin = None /\ state[p].sess = None
    BY <1>c, <2>1 DEF Unborn, NoState
  <2>3. task[t].kind # "resumeFork"
    BY DEF Sane, TaskSane
  <2>4. option'[p].sess \in {None, agent'[p].sess}
    BY <2>1, <2>3 DEF Writes
  <2>5. Bindings(p)'
    BY <2>1, <2>2, <2>4 DEF Bindings, Own
  <2> QED BY <1>a, <2>1, <2>5 DEF Bindings, Own, Writes, OtherOptions, OtherAgents
<1>8. ASSUME NEW t \in Task, SpawnFails(t)
      PROVE  \A q \in Pane : Bindings(q)'
  BY <1>8, SpawnFailsEffect, <1>a, <1>b, Constants
     DEF Bindings, Own, Typed, OtherStates, OtherOptions, OtherAgents, Names, Drives, Writes
<1>9. ASSUME NEW t \in Task, PersistKnown(t)
      PROVE  \A q \in Pane : Bindings(q)'
  BY <1>9, PersistKnownEffect, <1>a, <1>b, Constants
     DEF Bindings, Own, Typed, OtherStates, OtherOptions, OtherAgents, Names, Drives,
         Writes, Aims, Knows, Pins, LaunchSane, LaunchStep, At
<1>10. ASSUME NEW t \in Task, RestoreBackend(t)
       PROVE  \A q \in Pane : Bindings(q)'
  BY <1>10, RestoreBackendEffect, <1>a, <1>b, Constants
     DEF Bindings, Own, Typed, OtherStates, OtherOptions, OtherAgents, Names, Drives,
         Writes, Aims, Knows, Pins, LaunchSane, LaunchStep, At
<1>11. ASSUME NEW t \in Task, Register(t)
       PROVE  \A q \in Pane : Bindings(q)'
  BY <1>11, RegisterEffect, <1>a, <1>b, Constants
     DEF Bindings, Own, Typed, OtherStates, OtherOptions, OtherAgents, Names, Drives, Writes
<1>12. ASSUME NEW t \in Task, Mark(t)
       PROVE  \A q \in Pane : Bindings(q)'
  BY <1>12, MarkEffect, <1>a, <1>b, Constants
     DEF Bindings, Own, Typed, OtherStates, OtherOptions, OtherAgents, Names, Drives, Writes
<1>13. ASSUME NEW t \in Task, PersistRestored(t)
       PROVE  \A q \in Pane : Bindings(q)'
  BY <1>13, PersistRestoredEffect, <1>a, <1>b, Constants
     DEF Bindings, Own, Typed, OtherStates, OtherOptions, OtherAgents, Names, Drives,
         Writes, Aims, Knows, Pins, LaunchSane, LaunchStep, At
<1>14. ASSUME NEW t \in Task, Seed(t)
       PROVE  \A q \in Pane : Bindings(q)'
  BY <1>14, SeedEffect, <1>a, <1>b, Constants
     DEF Bindings, Own, Typed, OtherStates, OtherOptions, OtherAgents, Names, Drives,
         Writes, Aims, Knows, Pins, LaunchSane, LaunchStep, At
<1>15. ASSUME NEW t \in Task, Attach(t)
       PROVE  \A q \in Pane : Bindings(q)'
  <2>0. PICK p \in Pane : p = task[t].pane
    BY <1>15, AttachEffect
  <2>1. task[t].known # None => task[t].known \in agent[p].ran
    BY <2>0, <1>15, <1>b, AttachEffect DEF Aims, Knows, LaunchSane, LaunchStep, At
  <2>2. /\ agent[p].ran \subseteq agent'[p].ran /\ state'[p].pin = state[p].pin
        /\ state'[p].sess \in {state[p].sess, task[t].known} \/ state'[p].sess \in agent'[p].ran
        /\ \A q \in Pane \ {p} : state'[q] = state[q] /\ agent'[q].ran = agent[q].ran
        /\ \A q \in Pane : option'[q].sess = option[q].sess
    BY <2>0, <1>15, AttachEffect DEF Names, OtherStates, OtherAgents, OtherOptions
  <2>3. Bindings(p)'
    BY <1>a, <1>15, <2>1, <2>2, AttachEffect DEF Bindings, Own
  <2> QED BY <1>a, <2>2, <2>3 DEF Bindings, Own
<1>16. ASSUME NEW t \in Task, AttachRuntime(t)
       PROVE  \A q \in Pane : Bindings(q)'
  BY <1>16, AttachRuntimeEffect, <1>a, <1>b, Constants
     DEF Bindings, Own, Typed, OtherStates, OtherOptions, OtherAgents, Names, Drives,
         Writes, Aims, Knows, Pins, LaunchSane, LaunchStep, At
<1>17. ASSUME NEW p \in Pane, Announce(p)
       PROVE  \A q \in Pane : Bindings(q)'
  BY <1>17, AnnounceEffect, <1>a, <1>b, Constants
     DEF Bindings, Own, Typed, OtherStates, OtherOptions, OtherAgents, Names, Drives, Writes
<1>18. ASSUME NEW p \in Pane, Prompt(p)
       PROVE  \A q \in Pane : Bindings(q)'
  BY <1>18, PromptEffect, <1>a, <1>b, Constants
     DEF Bindings, Own, Typed, OtherStates, OtherOptions, OtherAgents, Names, Drives, Writes
<1>19. ASSUME NEW p \in Pane, Clear(p)
       PROVE  \A q \in Pane : Bindings(q)'
  BY <1>19, ClearEffect, <1>a, <1>b, Constants
     DEF Bindings, Own, Typed, OtherStates, OtherOptions, OtherAgents, Names, Drives, Writes
<1>20. ASSUME NEW p \in Pane, Inner(p)
       PROVE  \A q \in Pane : Bindings(q)'
  BY <1>20, InnerEffect, <1>a, <1>b, Constants
     DEF Bindings, Own, Typed, OtherStates, OtherOptions, OtherAgents, Names, Drives, Writes
<1>21. ASSUME NEW h \in Hook, Admit(h) \/ Arm(h) \/ Check(h) \/ Park(h) \/ Wake(h)
       PROVE  \A q \in Pane : Bindings(q)'
  BY <1>21, WaitEffect, <1>a, <1>b, Constants
     DEF Bindings, Own, Typed, OtherStates, OtherOptions, OtherAgents, Names, Drives, Writes
<1>22. ASSUME NEW h \in Hook, WaitOver(h)
       PROVE  \A q \in Pane : Bindings(q)'
  BY <1>22, WaitOverEffect, <1>a, <1>b, Constants
     DEF Bindings, Own, Typed, OtherStates, OtherOptions, OtherAgents, Names, Drives, Writes
<1>23. ASSUME NEW h \in Hook, Lock(h)
       PROVE  \A q \in Pane : Bindings(q)'
  BY <1>23, LockEffect, <1>a, <1>b, Constants
     DEF Bindings, Own, Typed, OtherStates, OtherOptions, OtherAgents, Names, Drives, Writes
<1>24. ASSUME NEW h \in Hook, TakePath(h)
       PROVE  \A q \in Pane : Bindings(q)'
  BY <1>24, TakePathEffect, <1>a, <1>b, Constants
     DEF Bindings, Own, Typed, OtherStates, OtherOptions, OtherAgents, Names, Drives, Writes
<1>25. ASSUME NEW h \in Hook, Bind(h)
       PROVE  \A q \in Pane : Bindings(q)'
  <2> DEFINE p == job[h].pane
  <2>1. job[h].sess \in agent[p].ran \/ Pinned(p)
    BY <1>25, BindEffect DEF Sane, JobSane, Holding
  <2>2. p \in managed /\ state[p].runtime.backend = backend
    BY <1>25, BindEffect DEF Sane, JobSane, Holding, RuntimeSane
  <2>3. \A t \in Task : At(t, {"know"}) => task[t].pane # p
    BY <1>b, <2>2 DEF LaunchSane, At, LaunchStep, Unlisted
  <2>4. Bound(state[p], h) \in Own(p)
    BY <1>a, <1>25, <2>1, <2>2, <2>3, BindEffect DEF Bound, Pinned, Bindings, Own
  <2> QED BY <1>25, <1>a, <2>4, BindEffect DEF Bindings, Own, OtherStates
<1>26. ASSUME NEW h \in Hook, PersistBound(h)
       PROVE  \A q \in Pane : Bindings(q)'
  <2> DEFINE p == job[h].pane
  <2>1. job[h].sess \in agent[p].ran \/ Pinned(p)
    BY <1>26, PersistBoundEffect DEF Sane, JobSane, Holding
  <2>2. p \in managed /\ state[p].runtime.backend = backend
    BY <1>26, PersistBoundEffect DEF Sane, JobSane, Holding, RuntimeSane
  <2>3. \A t \in Task : At(t, {"know"}) => task[t].pane # p
    BY <1>b, <2>2 DEF LaunchSane, At, LaunchStep, Unlisted
  <2>4. Bound(state[p], h) \in Own(p)
    BY <1>a, <1>26, <2>1, <2>2, <2>3, PersistBoundEffect DEF Bound, Pinned, Bindings, Own
  <2> QED BY <1>26, <1>a, <2>4, PersistBoundEffect DEF Bindings, Own, Writes, OtherOptions
<1>27. ASSUME NEW p \in Pane, PsRefresh(p)
       PROVE  \A q \in Pane : Bindings(q)'
  <2> QED BY <1>27, <1>a, PsRefreshEffect DEF Bindings, Own, Typed, Names, OtherStates
<1>28. ASSUME Restart PROVE \A q \in Pane : Bindings(q)'
  <2> QED BY <1>28, <1>a, RestartEffect DEF Bindings, Own, NoState
<1>29. ASSUME UNCHANGED vars PROVE \A q \in Pane : Bindings(q)'
  BY <1>29, <1>a, <1>b, Constants
     DEF Bindings, Own, Typed, OtherStates, OtherOptions, OtherAgents, Names, Drives,
         Writes, vars, agentVars
<1>30. ASSUME NEW t \in Task, Launch(t) PROVE \A q \in Pane : Bindings(q)'
  <2>1. ForkByAgent(t) \/ ForkByServer(t) \/ ForkByCodex(t) =>
          ForkTo(t) /\ (task[t].verify /\ backend = "Codex" => task[t].target # Other)
    BY DEF ForkByAgent, ForkByServer, ForkByCodex, Hooked
  <2> QED BY <1>1, <1>2, <1>3, <1>4, <1>5, <1>6, <1>7, <1>8, <1>9,
             <1>10, <1>11, <1>12, <1>13, <1>14, <1>15, <1>16, <1>30, <2>1 DEF Launch
<1>31. ASSUME NEW p \in Pane, Agent(p) PROVE \A q \in Pane : Bindings(q)'
  BY <1>17, <1>18, <1>19, <1>20, <1>31 DEF Agent
<1>32. ASSUME NEW h \in Hook, Handle(h) PROVE \A q \in Pane : Bindings(q)'
  BY <1>21, <1>23, <1>24, <1>25, <1>26, <1>32 DEF Handle
<1> QED BY <1>22, <1>27, <1>28, <1>29, <1>30, <1>31, <1>32 DEF Next

\* What a step other than a restart leaves to everybody.
Kept(q) ==
  /\ agent[q].live => agent'[q].live
  /\ agent[q].ran \subseteq agent'[q].ran
  /\ q \in managed => q \in managed'
  /\ Pinned(q) => Pinned(q)'
  /\ backend = "Codex" /\ state[q].sess # None => state'[q].sess # None

\* What it leaves to the launches of other panes.
Untouched(q) ==
  /\ agent[q].live => agent'[q].live
  /\ agent[q].ran \subseteq agent'[q].ran
  /\ q \in managed' <=> q \in managed
  /\ state'[q].pin = state[q].pin /\ state'[q].runtime.backend = state[q].runtime.backend
  /\ option'[q].managed = option[q].managed /\ option'[q].backend = option[q].backend

\* Agents, pins and registrations outlive all but a restart.
LEMMA KeepStep ==
  ASSUME Typed, Sane, [Next]_vars, UNCHANGED restarts
  PROVE  \A q \in Pane : Kept(q)
<1>a. \A u \in Task : /\ At(u, LaunchStep \cup {"spawn"}) => Aims(u)
                      /\ At(u, {"know"}) => state[task[u].pane].pin = None
                      /\ At(u, {"keep"}) => task[u].target \in agent[task[u].src].ran
  BY DEF Sane, TaskSane, LaunchSane, LaunchStep, At, Forking, ForkSane
<1>b. \A h \in Hook : job[h].pc = "start" =>
        job[h].sess \in agent[job[h].pane].ran \/ Pinned(job[h].pane)
  BY DEF Sane, JobSane, Holding
<1>c. \A q \in Pane : Reports(q) /\ (~agent[q].live => agent[q].ran = {})
  BY DEF Sane, AgentSane, Unborn, NoAgent
<1>1. ASSUME NEW t \in Task, NEW kind \in Kinds, RunAdmit(t, kind)
      PROVE  \A q \in Pane : Kept(q)
  BY <1>1, RunAdmitEffect, <1>a
     DEF Kept, Pinned, At, Typed, OtherStates, OtherOptions, OtherAgents, Names, Drives,
         Writes, TaskGoes, TaskEnds, OtherTasks, NoTask
<1>2. ASSUME NEW t \in Task, NEW p \in Pane, ForkAdmit(t, p)
      PROVE  \A q \in Pane : Kept(q)
  BY <1>2, ForkAdmitEffect, <1>a
     DEF Kept, Pinned, At, Typed, OtherStates, OtherOptions, OtherAgents, Names, Drives,
         Writes, TaskGoes, TaskEnds, OtherTasks, NoTask
<1>3. ASSUME NEW t \in Task, ForkLock(t)
      PROVE  \A q \in Pane : Kept(q)
  BY <1>3, ForkLockEffect, <1>a
     DEF Kept, Pinned, At, Typed, OtherStates, OtherOptions, OtherAgents, Names, Drives,
         Writes, TaskGoes, TaskEnds, OtherTasks, NoTask
<1>4. ASSUME NEW t \in Task, ForkFails(t)
      PROVE  \A q \in Pane : Kept(q)
  BY <1>4, ForkFailsEffect, <1>a
     DEF Kept, Pinned, At, Typed, OtherStates, OtherOptions, OtherAgents, Names, Drives,
         Writes, TaskGoes, TaskEnds, OtherTasks, NoTask
<1>5. ASSUME NEW t \in Task, ForkTo(t), (task[t].verify /\ backend = "Codex" => task[t].target # Other)
      PROVE  \A q \in Pane : Kept(q)
  <2> QED BY <1>5, ForkToEffect DEF Kept, Pinned, At, OtherTasks
<1>6. ASSUME NEW t \in Task, ForkKeep(t)
      PROVE  \A q \in Pane : Kept(q)
  <2>1. backend = "Codex" => task[t].target # None
    BY <1>6, <1>a, <1>c, ForkKeepEffect DEF At, Reports
  <2> QED BY <1>6, <2>1, ForkKeepEffect DEF Kept, Pinned, At, OtherTasks, OtherStates, Names
<1>7. ASSUME NEW t \in Task, Spawn(t)
      PROVE  \A q \in Pane : Kept(q)
  <2>1. PICK p \in Pane :
          /\ UNCHANGED <<backend, state, managed>> /\ task[t].pc = "spawn"
          /\ OtherTasks(t) /\ OtherAgents(p) /\ ~agent[p].live /\ agent'[p].live
    BY <1>7, SpawnEffect
  <2> QED BY <1>c, <2>1 DEF Kept, Pinned, At, OtherTasks, OtherAgents
<1>8. ASSUME NEW t \in Task, SpawnFails(t)
      PROVE  \A q \in Pane : Kept(q)
  BY <1>8, SpawnFailsEffect, <1>a
     DEF Kept, Pinned, At, Typed, OtherStates, OtherOptions, OtherAgents, Names, Drives,
         Writes, TaskGoes, TaskEnds, OtherTasks, NoTask
<1>9. ASSUME NEW t \in Task, PersistKnown(t)
      PROVE  \A q \in Pane : Kept(q)
  <2>1. task[t].kind = "fork" /\ backend = "Claude" =>
          Pins(task[t].kind) /\ task[t].known # None
    BY <1>9, <1>a, PersistKnownEffect, Constants DEF At, LaunchStep, Aims, Knows, Pins
  <2>2. \A q \in Pane : Pinned(q) => Pinned(q)'
    BY <1>9, <1>a, <2>1, PersistKnownEffect
       DEF Pinned, At, TaskGoes, OtherTasks, OtherStates
  <2> QED BY <1>9, <2>2, PersistKnownEffect DEF Kept, OtherStates
<1>10. ASSUME NEW t \in Task, RestoreBackend(t)
       PROVE  \A q \in Pane : Kept(q)
  BY <1>10, RestoreBackendEffect, <1>a
     DEF Kept, Pinned, At, Typed, OtherStates, OtherOptions, OtherAgents, Names, Drives,
         Writes, TaskGoes, TaskEnds, OtherTasks, NoTask
<1>11. ASSUME NEW t \in Task, Register(t)
       PROVE  \A q \in Pane : Kept(q)
  BY <1>11, RegisterEffect, <1>a
     DEF Kept, Pinned, At, Typed, OtherStates, OtherOptions, OtherAgents, Names, Drives,
         Writes, TaskGoes, TaskEnds, OtherTasks, NoTask
<1>12. ASSUME NEW t \in Task, Mark(t)
       PROVE  \A q \in Pane : Kept(q)
  BY <1>12, MarkEffect, <1>a
     DEF Kept, Pinned, At, Typed, OtherStates, OtherOptions, OtherAgents, Names, Drives,
         Writes, TaskGoes, TaskEnds, OtherTasks, NoTask
<1>13. ASSUME NEW t \in Task, PersistRestored(t)
       PROVE  \A q \in Pane : Kept(q)
  BY <1>13, PersistRestoredEffect, <1>a
     DEF Kept, Pinned, At, Typed, OtherStates, OtherOptions, OtherAgents, Names, Drives,
         Writes, TaskGoes, TaskEnds, OtherTasks, NoTask
<1>14. ASSUME NEW t \in Task, Seed(t)
       PROVE  \A q \in Pane : Kept(q)
  <2> QED BY <1>14, SeedEffect
     DEF Kept, Pinned, At, TaskGoes, OtherTasks, OtherStates, Names
<1>15. ASSUME NEW t \in Task, Attach(t)
       PROVE  \A q \in Pane : Kept(q)
  <2>1. \A q \in Pane : Pinned(q) => Pinned(q)'
    BY <1>15, AttachEffect DEF Pinned, At, TaskGoes, OtherTasks, Names, OtherStates
  <2> QED BY <1>15, <2>1, AttachEffect DEF Kept, OtherAgents, OtherStates, Names, Hooked
<1>16. ASSUME NEW t \in Task, AttachRuntime(t)
       PROVE  \A q \in Pane : Kept(q)
  BY <1>16, AttachRuntimeEffect, <1>a
     DEF Kept, Pinned, At, Typed, OtherStates, OtherOptions, OtherAgents, Names, Drives,
         Writes, TaskGoes, TaskEnds, OtherTasks, NoTask
<1>17. ASSUME NEW p \in Pane, Announce(p)
       PROVE  \A q \in Pane : Kept(q)
  <2>1. \A q \in Pane : Pinned(q) => Pinned(q)'
    BY <1>17, AnnounceEffect DEF Pinned, At, Typed, OtherStates, Names
  <2> QED BY <1>17, <2>1, AnnounceEffect DEF Kept, OtherAgents, OtherStates, Names, Typed
<1>18. ASSUME NEW p \in Pane, Prompt(p)
       PROVE  \A q \in Pane : Kept(q)
  <2>1. \A q \in Pane : Pinned(q) => Pinned(q)'
    BY <1>18, PromptEffect DEF Pinned, At, Typed, OtherStates, Names
  <2> QED BY <1>18, <2>1, PromptEffect DEF Kept, OtherAgents, OtherStates, Names, Typed
<1>19. ASSUME NEW p \in Pane, Clear(p)
       PROVE  \A q \in Pane : Kept(q)
  <2>1. \A q \in Pane : Pinned(q) => Pinned(q)'
    BY <1>19, ClearEffect DEF Pinned, At, Typed, OtherStates, Names
  <2> QED BY <1>19, <2>1, ClearEffect DEF Kept, OtherAgents, OtherStates, Names, Typed
<1>20. ASSUME NEW p \in Pane, Inner(p)
       PROVE  \A q \in Pane : Kept(q)
  <2> QED BY <1>20, InnerEffect DEF Kept, Pinned, At, Typed
<1>21. ASSUME NEW h \in Hook, Admit(h) \/ Arm(h) \/ Check(h) \/ Park(h) \/ Wake(h)
       PROVE  \A q \in Pane : Kept(q)
  BY <1>21, WaitEffect, <1>a
     DEF Kept, Pinned, At, Typed, OtherStates, OtherOptions, OtherAgents, Names, Drives,
         Writes, TaskGoes, TaskEnds, OtherTasks, NoTask
<1>22. ASSUME NEW h \in Hook, WaitOver(h)
       PROVE  \A q \in Pane : Kept(q)
  BY <1>22, WaitOverEffect, <1>a
     DEF Kept, Pinned, At, Typed, OtherStates, OtherOptions, OtherAgents, Names, Drives,
         Writes, TaskGoes, TaskEnds, OtherTasks, NoTask
<1>23. ASSUME NEW h \in Hook, Lock(h)
       PROVE  \A q \in Pane : Kept(q)
  BY <1>23, LockEffect, <1>a
     DEF Kept, Pinned, At, Typed, OtherStates, OtherOptions, OtherAgents, Names, Drives,
         Writes, TaskGoes, TaskEnds, OtherTasks, NoTask
<1>24. ASSUME NEW h \in Hook, TakePath(h)
       PROVE  \A q \in Pane : Kept(q)
  BY <1>24, TakePathEffect, <1>a
     DEF Kept, Pinned, At, Typed, OtherStates, OtherOptions, OtherAgents, Names, Drives,
         Writes, TaskGoes, TaskEnds, OtherTasks, NoTask
<1>25. ASSUME NEW h \in Hook, Bind(h)
       PROVE  \A q \in Pane : Kept(q)
  <2>1. backend = "Codex" => job[h].sess # None
    BY <1>25, <1>b, <1>c, BindEffect DEF Pinned, Reports
  <2>2. \A q \in Pane : Pinned(q) => Pinned(q)'
    BY <1>25, BindEffect DEF Pinned, At, OtherStates
  <2>3. backend = "Codex" => Bound(state[job[h].pane], h) # None
    BY <2>1 DEF Bound
  <2> QED BY <1>25, <2>2, <2>3, BindEffect DEF Kept, OtherStates
<1>26. ASSUME NEW h \in Hook, PersistBound(h)
       PROVE  \A q \in Pane : Kept(q)
  BY <1>26, PersistBoundEffect, <1>a
     DEF Kept, Pinned, At, Typed, OtherStates, OtherOptions, OtherAgents, Names, Drives,
         Writes, TaskGoes, TaskEnds, OtherTasks, NoTask
<1>27. ASSUME NEW p \in Pane, PsRefresh(p)
       PROVE  \A q \in Pane : Kept(q)
  <2>1. \A q \in Pane : Pinned(q) => Pinned(q)'
    BY <1>27, PsRefreshEffect DEF Pinned, At, Typed, OtherStates, Names
  <2> QED BY <1>27, <2>1, PsRefreshEffect DEF Kept, OtherAgents, OtherStates, Names, Typed
<1>28. ASSUME Restart PROVE \A q \in Pane : Kept(q)
  <2> QED BY <1>28 DEF Restart, Typed, TypeOK
<1>29. ASSUME UNCHANGED vars PROVE \A q \in Pane : Kept(q)
  BY <1>29, <1>a
     DEF Kept, Pinned, At, Typed, OtherStates, OtherOptions, OtherAgents, Names, Drives,
         Writes, TaskGoes, TaskEnds, OtherTasks, NoTask, vars, agentVars
<1>30. ASSUME NEW t \in Task, Launch(t) PROVE \A q \in Pane : Kept(q)
  <2>1. ForkByAgent(t) \/ ForkByServer(t) \/ ForkByCodex(t) =>
          ForkTo(t) /\ (task[t].verify /\ backend = "Codex" => task[t].target # Other)
    BY DEF ForkByAgent, ForkByServer, ForkByCodex, Hooked
  <2> QED BY <1>1, <1>2, <1>3, <1>4, <1>5, <1>6, <1>7, <1>8, <1>9,
             <1>10, <1>11, <1>12, <1>13, <1>14, <1>15, <1>16, <1>30, <2>1 DEF Launch
<1>31. ASSUME NEW p \in Pane, Agent(p) PROVE \A q \in Pane : Kept(q)
  BY <1>17, <1>18, <1>19, <1>20, <1>31 DEF Agent
<1>32. ASSUME NEW h \in Hook, Handle(h) PROVE \A q \in Pane : Kept(q)
  BY <1>21, <1>23, <1>24, <1>25, <1>26, <1>32 DEF Handle
<1> QED BY <1>22, <1>27, <1>28, <1>29, <1>30, <1>31, <1>32 DEF Next

\* The runtime and the recorded backend of a pane are the backend of its agent.
LEMMA RuntimesStep ==
  ASSUME Typed, Orderly, Sane, [Next]_vars
  PROVE  \A q \in Pane : RuntimeSane(q)'
<1>a. \A q \in Pane : RuntimeSane(q)
  BY DEF Sane
<1>b. \A t \in Task : At(t, LaunchStep) => LaunchSane(t)
  BY DEF Sane, TaskSane
<1>c. \A h \in Hook : job[h].pc \in Holding => job[h].pane \in managed
  BY DEF Sane, JobSane, Holding
<1>1. ASSUME NEW t \in Task, NEW kind \in Kinds, RunAdmit(t, kind)
      PROVE  \A q \in Pane : RuntimeSane(q)'
  BY <1>1, RunAdmitEffect, <1>a, <1>b, <1>c, Constants
     DEF RuntimeSane, At, Typed, Unbound, Runtime, OtherStates, OtherOptions, OtherAgents,
         Names, Drives, Writes, TaskGoes, TaskEnds, OtherTasks, NoTask
<1>2. ASSUME NEW t \in Task, NEW p \in Pane, ForkAdmit(t, p)
      PROVE  \A q \in Pane : RuntimeSane(q)'
  <2> QED BY <1>2, <1>a, ForkAdmitEffect DEF RuntimeSane, At, OtherTasks, Typed
<1>3. ASSUME NEW t \in Task, ForkLock(t)
      PROVE  \A q \in Pane : RuntimeSane(q)'
  BY <1>3, ForkLockEffect, <1>a, <1>b, <1>c, Constants
     DEF RuntimeSane, At, Typed, Unbound, Runtime, OtherStates, OtherOptions, OtherAgents,
         Names, Drives, Writes, TaskGoes, TaskEnds, OtherTasks, NoTask
<1>4. ASSUME NEW t \in Task, ForkFails(t)
      PROVE  \A q \in Pane : RuntimeSane(q)'
  BY <1>4, ForkFailsEffect, <1>a, <1>b, <1>c, Constants
     DEF RuntimeSane, At, Typed, Unbound, Runtime, OtherStates, OtherOptions, OtherAgents,
         Names, Drives, Writes, TaskGoes, TaskEnds, OtherTasks, NoTask
<1>5. ASSUME NEW t \in Task, ForkTo(t), (task[t].verify /\ backend = "Codex" => task[t].target # Other)
      PROVE  \A q \in Pane : RuntimeSane(q)'
  <2> QED BY <1>5, <1>a, ForkToEffect DEF RuntimeSane, At, OtherTasks
<1>6. ASSUME NEW t \in Task, ForkKeep(t)
      PROVE  \A q \in Pane : RuntimeSane(q)'
  BY <1>6, ForkKeepEffect, <1>a, <1>b, <1>c, Constants
     DEF RuntimeSane, At, Typed, Unbound, Runtime, OtherStates, OtherOptions, OtherAgents,
         Names, Drives, Writes, TaskGoes, TaskEnds, OtherTasks, NoTask
<1>7. ASSUME NEW t \in Task, Spawn(t)
      PROVE  \A q \in Pane : RuntimeSane(q)'
  BY <1>7, SpawnEffect, <1>a, <1>b, <1>c, Constants
     DEF RuntimeSane, At, Typed, Unbound, Runtime, OtherStates, OtherOptions, OtherAgents,
         Names, Drives, Writes, TaskGoes, TaskEnds, OtherTasks, NoTask
<1>8. ASSUME NEW t \in Task, SpawnFails(t)
      PROVE  \A q \in Pane : RuntimeSane(q)'
  <2> QED BY <1>8, <1>a, SpawnFailsEffect DEF RuntimeSane, At, OtherTasks, TaskEnds, Typed
<1>9. ASSUME NEW t \in Task, PersistKnown(t)
      PROVE  \A q \in Pane : RuntimeSane(q)'
  BY <1>9, PersistKnownEffect, <1>a, <1>b, <1>c, Constants
     DEF RuntimeSane, At, Typed, Unbound, Runtime, OtherStates, OtherOptions, OtherAgents,
         Names, Drives, Writes, TaskGoes, TaskEnds, OtherTasks, NoTask, LaunchSane,
         LaunchStep, Unlisted
<1>10. ASSUME NEW t \in Task, RestoreBackend(t)
       PROVE  \A q \in Pane : RuntimeSane(q)'
  <2> QED BY <1>10, <1>a, RestoreBackendEffect
         DEF RuntimeSane, At, OtherTasks, TaskGoes, Runtime, OtherStates, OtherOptions
<1>11. ASSUME NEW t \in Task, Register(t)
       PROVE  \A q \in Pane : RuntimeSane(q)'
  BY <1>11, RegisterEffect, <1>a, <1>b, <1>c, Constants
     DEF RuntimeSane, At, Typed, Unbound, Runtime, OtherStates, OtherOptions, OtherAgents,
         Names, Drives, Writes, TaskGoes, TaskEnds, OtherTasks, NoTask, LaunchSane,
         LaunchStep, Unlisted
<1>12. ASSUME NEW t \in Task, Mark(t)
       PROVE  \A q \in Pane : RuntimeSane(q)'
  BY <1>12, MarkEffect, <1>a, <1>b, <1>c, Constants
     DEF RuntimeSane, At, Typed, Unbound, Runtime, OtherStates, OtherOptions, OtherAgents,
         Names, Drives, Writes, TaskGoes, TaskEnds, OtherTasks, NoTask, LaunchSane,
         LaunchStep, Unlisted
<1>13. ASSUME NEW t \in Task, PersistRestored(t)
       PROVE  \A q \in Pane : RuntimeSane(q)'
  BY <1>13, PersistRestoredEffect, <1>a, <1>b, <1>c, Constants
     DEF RuntimeSane, At, Typed, Unbound, Runtime, OtherStates, OtherOptions, OtherAgents,
         Names, Drives, Writes, TaskGoes, TaskEnds, OtherTasks, NoTask, LaunchSane,
         LaunchStep, Unlisted
<1>14. ASSUME NEW t \in Task, Seed(t)
       PROVE  \A q \in Pane : RuntimeSane(q)'
  BY <1>14, SeedEffect, <1>a, <1>b, <1>c, Constants
     DEF RuntimeSane, At, Typed, Unbound, Runtime, OtherStates, OtherOptions, OtherAgents,
         Names, Drives, Writes, TaskGoes, TaskEnds, OtherTasks, NoTask, LaunchSane,
         LaunchStep, Unlisted
<1>15. ASSUME NEW t \in Task, Attach(t)
       PROVE  \A q \in Pane : RuntimeSane(q)'
  BY <1>15, AttachEffect, <1>a, <1>b, <1>c, Constants
     DEF RuntimeSane, At, Typed, Unbound, Runtime, OtherStates, OtherOptions, OtherAgents,
         Names, Drives, Writes, TaskGoes, TaskEnds, OtherTasks, NoTask, LaunchSane,
         LaunchStep, Unlisted
<1>16. ASSUME NEW t \in Task, AttachRuntime(t)
       PROVE  \A q \in Pane : RuntimeSane(q)'
  BY <1>16, AttachRuntimeEffect, <1>a, <1>b, <1>c, Constants
     DEF RuntimeSane, At, Typed, Unbound, Runtime, OtherStates, OtherOptions, OtherAgents,
         Names, Drives, Writes, TaskGoes, TaskEnds, OtherTasks, NoTask, LaunchSane,
         LaunchStep, Unlisted
<1>17. ASSUME NEW p \in Pane, Announce(p)
       PROVE  \A q \in Pane : RuntimeSane(q)'
  BY <1>17, AnnounceEffect, <1>a, <1>b, <1>c, Constants
     DEF RuntimeSane, At, Typed, Unbound, Runtime, OtherStates, OtherOptions, OtherAgents,
         Names, Drives, Writes, TaskGoes, TaskEnds, OtherTasks, NoTask
<1>18. ASSUME NEW p \in Pane, Prompt(p)
       PROVE  \A q \in Pane : RuntimeSane(q)'
  <2> QED BY <1>18, <1>a, PromptEffect DEF RuntimeSane, At, Typed
<1>19. ASSUME NEW p \in Pane, Clear(p)
       PROVE  \A q \in Pane : RuntimeSane(q)'
  BY <1>19, ClearEffect, <1>a, <1>b, <1>c, Constants
     DEF RuntimeSane, At, Typed, Unbound, Runtime, OtherStates, OtherOptions, OtherAgents,
         Names, Drives, Writes, TaskGoes, TaskEnds, OtherTasks, NoTask
<1>20. ASSUME NEW p \in Pane, Inner(p)
       PROVE  \A q \in Pane : RuntimeSane(q)'
  BY <1>20, InnerEffect, <1>a, <1>b, <1>c, Constants
     DEF RuntimeSane, At, Typed, Unbound, Runtime, OtherStates, OtherOptions, OtherAgents,
         Names, Drives, Writes, TaskGoes, TaskEnds, OtherTasks, NoTask
<1>21. ASSUME NEW h \in Hook, Admit(h) \/ Arm(h) \/ Check(h) \/ Park(h) \/ Wake(h)
       PROVE  \A q \in Pane : RuntimeSane(q)'
  BY <1>21, WaitEffect, <1>a, <1>b, <1>c, Constants
     DEF RuntimeSane, At, Typed, Unbound, Runtime, OtherStates, OtherOptions, OtherAgents,
         Names, Drives, Writes, TaskGoes, TaskEnds, OtherTasks, NoTask
<1>22. ASSUME NEW h \in Hook, WaitOver(h)
       PROVE  \A q \in Pane : RuntimeSane(q)'
  BY <1>22, WaitOverEffect, <1>a, <1>b, <1>c, Constants
     DEF RuntimeSane, At, Typed, Unbound, Runtime, OtherStates, OtherOptions, OtherAgents,
         Names, Drives, Writes, TaskGoes, TaskEnds, OtherTasks, NoTask
<1>23. ASSUME NEW h \in Hook, Lock(h)
       PROVE  \A q \in Pane : RuntimeSane(q)'
  BY <1>23, LockEffect, <1>a, <1>b, <1>c, Constants
     DEF RuntimeSane, At, Typed, Unbound, Runtime, OtherStates, OtherOptions, OtherAgents,
         Names, Drives, Writes, TaskGoes, TaskEnds, OtherTasks, NoTask
<1>24. ASSUME NEW h \in Hook, TakePath(h)
       PROVE  \A q \in Pane : RuntimeSane(q)'
  BY <1>24, TakePathEffect, <1>a, <1>b, <1>c, Constants
     DEF RuntimeSane, At, Typed, Unbound, Runtime, OtherStates, OtherOptions, OtherAgents,
         Names, Drives, Writes, TaskGoes, TaskEnds, OtherTasks, NoTask
<1>25. ASSUME NEW h \in Hook, Bind(h)
       PROVE  \A q \in Pane : RuntimeSane(q)'
  BY <1>25, BindEffect, <1>a, <1>b, <1>c, Constants
     DEF RuntimeSane, At, Typed, Unbound, Runtime, OtherStates, OtherOptions, OtherAgents,
         Names, Drives, Writes, TaskGoes, TaskEnds, OtherTasks, NoTask, Holding
<1>26. ASSUME NEW h \in Hook, PersistBound(h)
       PROVE  \A q \in Pane : RuntimeSane(q)'
  BY <1>26, PersistBoundEffect, <1>a, <1>b, <1>c, Constants
     DEF RuntimeSane, At, Typed, Unbound, Runtime, OtherStates, OtherOptions, OtherAgents,
         Names, Drives, Writes, TaskGoes, TaskEnds, OtherTasks, NoTask
<1>27. ASSUME NEW p \in Pane, PsRefresh(p)
       PROVE  \A q \in Pane : RuntimeSane(q)'
  BY <1>27, PsRefreshEffect, <1>a, <1>b, <1>c, Constants
     DEF RuntimeSane, At, Typed, Unbound, Runtime, OtherStates, OtherOptions, OtherAgents,
         Names, Drives, Writes, TaskGoes, TaskEnds, OtherTasks, NoTask
<1>28. ASSUME Restart PROVE \A q \in Pane : RuntimeSane(q)'
  BY <1>28, RestartEffect, <1>a, <1>b, <1>c, Constants
     DEF RuntimeSane, At, Typed, Unbound, Runtime, OtherStates, OtherOptions, OtherAgents,
         Names, Drives, Writes, TaskGoes, TaskEnds, OtherTasks, NoTask, Orderly, Launching,
         At, NoState, Unbound
<1>29. ASSUME UNCHANGED vars PROVE \A q \in Pane : RuntimeSane(q)'
  BY <1>29, <1>a, <1>b, <1>c, Constants
     DEF RuntimeSane, At, Typed, Unbound, Runtime, OtherStates, OtherOptions, OtherAgents,
         Names, Drives, Writes, TaskGoes, TaskEnds, OtherTasks, NoTask, vars, agentVars
<1>30. ASSUME NEW t \in Task, Launch(t) PROVE \A q \in Pane : RuntimeSane(q)'
  <2>1. ForkByAgent(t) \/ ForkByServer(t) \/ ForkByCodex(t) =>
          ForkTo(t) /\ (task[t].verify /\ backend = "Codex" => task[t].target # Other)
    BY DEF ForkByAgent, ForkByServer, ForkByCodex, Hooked
  <2> QED BY <1>1, <1>2, <1>3, <1>4, <1>5, <1>6, <1>7, <1>8, <1>9,
             <1>10, <1>11, <1>12, <1>13, <1>14, <1>15, <1>16, <1>30, <2>1 DEF Launch
<1>31. ASSUME NEW p \in Pane, Agent(p) PROVE \A q \in Pane : RuntimeSane(q)'
  BY <1>17, <1>18, <1>19, <1>20, <1>31 DEF Agent
<1>32. ASSUME NEW h \in Hook, Handle(h) PROVE \A q \in Pane : RuntimeSane(q)'
  BY <1>21, <1>23, <1>24, <1>25, <1>26, <1>32 DEF Handle
<1> QED BY <1>22, <1>27, <1>28, <1>29, <1>30, <1>31, <1>32 DEF Next

\* A fork stays sane when its source, and what that has run, stays.
LEMMA ForksKept ==
  ASSUME Typed, Sane, UNCHANGED backend, \A q \in Pane : Kept(q),
         NEW t \in Task, OtherTasks(t), At(t, Forking)' => ForkSane(t)'
  PROVE  (\A u \in Task : At(u, Forking) => ForkSane(u))'
<1> SUFFICES ASSUME NEW u \in Task, u # t, At(u, Forking)' PROVE ForkSane(u)'
  OBVIOUS
<1>1. task'[u] = task[u]
  BY DEF OtherTasks
<1>2. At(u, Forking) /\ ForkSane(u)
  BY <1>1 DEF At, Sane, TaskSane
<1>3. task[u].src \in Pane
  BY <1>2 DEF Typed, Placed
<1> QED BY <1>1, <1>2, <1>3 DEF ForkSane, At, Kept

\* A fork that a step leaves alone stays sane.
LEMMA ForksLeft ==
  ASSUME Typed, Sane, UNCHANGED <<backend, task>>, \A q \in Pane : Kept(q)
  PROVE  (\A u \in Task : At(u, Forking) => ForkSane(u))'
<1> SUFFICES ASSUME NEW u \in Task, At(u, Forking)' PROVE ForkSane(u)'
  OBVIOUS
<1>1. At(u, Forking) /\ ForkSane(u)
  BY DEF At, Sane, TaskSane
<1>2. task[u].src \in Pane
  BY <1>1 DEF Typed, Placed
<1> QED BY <1>1, <1>2 DEF ForkSane, At, Kept

\* A fork copies a session of its source, or one it will not keep.
LEMMA ForksStep ==
  ASSUME Typed, Orderly, Sane, [Next]_vars
  PROVE  (\A u \in Task : At(u, Forking) => ForkSane(u))'
<1>a. \A u \in Task : At(u, Forking) => ForkSane(u)
  BY DEF Sane, TaskSane
<1>b. \A q \in Pane : Reports(q)
  BY DEF Sane, AgentSane
<1>c. UNCHANGED restarts => \A q \in Pane : Kept(q)
  BY KeepStep
<1>1. ASSUME NEW t \in Task, NEW kind \in Kinds, RunAdmit(t, kind)
      PROVE  (\A u \in Task : At(u, Forking) => ForkSane(u))'
  <2>1. OtherTasks(t) /\ UNCHANGED backend
    BY <1>1, RunAdmitEffect DEF Typed, TaskGoes, TaskEnds
  <2>2. At(t, Forking)' => ForkSane(t)'
    BY <1>1, <1>a, RunAdmitEffect
       DEF ForkSane, At, Forking, TaskGoes, TaskEnds, NoTask, Typed
  <2>3. \A q \in Pane : Kept(q)
    BY <1>1, <1>c, RunAdmitEffect DEF Typed
  <2> QED BY <2>1, <2>2, <2>3, ForksKept
<1>2. ASSUME NEW t \in Task, NEW p \in Pane, ForkAdmit(t, p)
      PROVE  (\A u \in Task : At(u, Forking) => ForkSane(u))'
  <2>1. OtherTasks(t) /\ UNCHANGED backend
    BY <1>2, ForkAdmitEffect DEF Typed, TaskGoes, TaskEnds
  <2>2. At(t, Forking)' => ForkSane(t)'
    BY <1>2, <1>a, ForkAdmitEffect, <1>c
       DEF ForkSane, At, Forking, TaskGoes, TaskEnds, NoTask, Typed
  <2>3. \A q \in Pane : Kept(q)
    BY <1>2, <1>c, ForkAdmitEffect DEF Typed
  <2> QED BY <2>1, <2>2, <2>3, ForksKept
<1>3. ASSUME NEW t \in Task, ForkLock(t)
      PROVE  (\A u \in Task : At(u, Forking) => ForkSane(u))'
  <2>0. agent[task[t].src].live
    BY <1>3, <1>a, ForkLockEffect DEF Sane, AgentSane, Unborn, ForkSane, At, Forking
  <2>1. OtherTasks(t) /\ UNCHANGED backend
    BY <1>3, ForkLockEffect DEF Typed, TaskGoes, TaskEnds
  <2>2. At(t, Forking)' => ForkSane(t)'
    BY <1>3, <1>a, ForkLockEffect, <1>b, <2>0, Constants
       DEF ForkSane, At, Forking, TaskGoes, TaskEnds, NoTask, Typed, Reports
  <2>3. \A q \in Pane : Kept(q)
    BY <1>3, <1>c, ForkLockEffect DEF Typed
  <2> QED BY <2>1, <2>2, <2>3, ForksKept
<1>4. ASSUME NEW t \in Task, ForkFails(t)
      PROVE  (\A u \in Task : At(u, Forking) => ForkSane(u))'
  <2>1. OtherTasks(t) /\ UNCHANGED backend
    BY <1>4, ForkFailsEffect DEF Typed, TaskGoes, TaskEnds
  <2>2. At(t, Forking)' => ForkSane(t)'
    BY <1>4, <1>a, ForkFailsEffect
       DEF ForkSane, At, Forking, TaskGoes, TaskEnds, NoTask, Typed
  <2>3. \A q \in Pane : Kept(q)
    BY <1>4, <1>c, ForkFailsEffect DEF Typed
  <2> QED BY <2>1, <2>2, <2>3, ForksKept
<1>5. ASSUME NEW t \in Task, ForkTo(t), (task[t].verify /\ backend = "Codex" => task[t].target # Other)
      PROVE  (\A u \in Task : At(u, Forking) => ForkSane(u))'
  <2>1. OtherTasks(t) /\ UNCHANGED backend
    BY <1>5, ForkToEffect DEF Typed, TaskGoes, TaskEnds
  <2>2. At(t, Forking)' => ForkSane(t)'
    BY <1>5, <1>a, ForkToEffect DEF ForkSane, At, Forking, TaskGoes, TaskEnds, NoTask, Typed
  <2>3. \A q \in Pane : Kept(q)
    BY <1>5, <1>c, ForkToEffect DEF Typed
  <2> QED BY <2>1, <2>2, <2>3, ForksKept
<1>6. ASSUME NEW t \in Task, ForkKeep(t)
      PROVE  (\A u \in Task : At(u, Forking) => ForkSane(u))'
  <2>1. OtherTasks(t) /\ UNCHANGED backend
    BY <1>6, ForkKeepEffect DEF Typed, TaskGoes, TaskEnds
  <2>2. At(t, Forking)' => ForkSane(t)'
    BY <1>6, <1>a, ForkKeepEffect
       DEF ForkSane, At, Forking, TaskGoes, TaskEnds, NoTask, Typed
  <2>3. \A q \in Pane : Kept(q)
    BY <1>6, <1>c, ForkKeepEffect DEF Typed
  <2> QED BY <2>1, <2>2, <2>3, ForksKept
<1>7. ASSUME NEW t \in Task, Spawn(t)
      PROVE  (\A u \in Task : At(u, Forking) => ForkSane(u))'
  <2>1. OtherTasks(t) /\ UNCHANGED backend
    BY <1>7, SpawnEffect DEF Typed, TaskGoes, TaskEnds
  <2>2. At(t, Forking)' => ForkSane(t)'
    BY <1>7, <1>a, SpawnEffect DEF ForkSane, At, Forking, TaskGoes, TaskEnds, NoTask, Typed
  <2>3. \A q \in Pane : Kept(q)
    BY <1>7, <1>c, SpawnEffect DEF Typed
  <2> QED BY <2>1, <2>2, <2>3, ForksKept
<1>8. ASSUME NEW t \in Task, SpawnFails(t)
      PROVE  (\A u \in Task : At(u, Forking) => ForkSane(u))'
  <2>1. OtherTasks(t) /\ UNCHANGED backend
    BY <1>8, SpawnFailsEffect DEF Typed, TaskGoes, TaskEnds
  <2>2. At(t, Forking)' => ForkSane(t)'
    BY <1>8, <1>a, SpawnFailsEffect
       DEF ForkSane, At, Forking, TaskGoes, TaskEnds, NoTask, Typed
  <2>3. \A q \in Pane : Kept(q)
    BY <1>8, <1>c, SpawnFailsEffect DEF Typed
  <2> QED BY <2>1, <2>2, <2>3, ForksKept
<1>9. ASSUME NEW t \in Task, PersistKnown(t)
      PROVE  (\A u \in Task : At(u, Forking) => ForkSane(u))'
  <2>1. OtherTasks(t) /\ UNCHANGED backend
    BY <1>9, PersistKnownEffect DEF Typed, TaskGoes, TaskEnds
  <2>2. At(t, Forking)' => ForkSane(t)'
    BY <1>9, <1>a, PersistKnownEffect
       DEF ForkSane, At, Forking, TaskGoes, TaskEnds, NoTask, Typed
  <2>3. \A q \in Pane : Kept(q)
    BY <1>9, <1>c, PersistKnownEffect DEF Typed
  <2> QED BY <2>1, <2>2, <2>3, ForksKept
<1>10. ASSUME NEW t \in Task, RestoreBackend(t)
       PROVE  (\A u \in Task : At(u, Forking) => ForkSane(u))'
  <2>1. OtherTasks(t) /\ UNCHANGED backend
    BY <1>10, RestoreBackendEffect DEF Typed, TaskGoes, TaskEnds
  <2>2. At(t, Forking)' => ForkSane(t)'
    BY <1>10, <1>a, RestoreBackendEffect
       DEF ForkSane, At, Forking, TaskGoes, TaskEnds, NoTask, Typed
  <2>3. \A q \in Pane : Kept(q)
    BY <1>10, <1>c, RestoreBackendEffect DEF Typed
  <2> QED BY <2>1, <2>2, <2>3, ForksKept
<1>11. ASSUME NEW t \in Task, Register(t)
       PROVE  (\A u \in Task : At(u, Forking) => ForkSane(u))'
  <2>1. OtherTasks(t) /\ UNCHANGED backend
    BY <1>11, RegisterEffect DEF Typed, TaskGoes, TaskEnds
  <2>2. At(t, Forking)' => ForkSane(t)'
    BY <1>11, <1>a, RegisterEffect
       DEF ForkSane, At, Forking, TaskGoes, TaskEnds, NoTask, Typed
  <2>3. \A q \in Pane : Kept(q)
    BY <1>11, <1>c, RegisterEffect DEF Typed
  <2> QED BY <2>1, <2>2, <2>3, ForksKept
<1>12. ASSUME NEW t \in Task, Mark(t)
       PROVE  (\A u \in Task : At(u, Forking) => ForkSane(u))'
  <2>1. OtherTasks(t) /\ UNCHANGED backend
    BY <1>12, MarkEffect DEF Typed, TaskGoes, TaskEnds
  <2>2. At(t, Forking)' => ForkSane(t)'
    BY <1>12, <1>a, MarkEffect DEF ForkSane, At, Forking, TaskGoes, TaskEnds, NoTask, Typed
  <2>3. \A q \in Pane : Kept(q)
    BY <1>12, <1>c, MarkEffect DEF Typed
  <2> QED BY <2>1, <2>2, <2>3, ForksKept
<1>13. ASSUME NEW t \in Task, PersistRestored(t)
       PROVE  (\A u \in Task : At(u, Forking) => ForkSane(u))'
  <2>1. OtherTasks(t) /\ UNCHANGED backend
    BY <1>13, PersistRestoredEffect DEF Typed, TaskGoes, TaskEnds
  <2>2. At(t, Forking)' => ForkSane(t)'
    BY <1>13, <1>a, PersistRestoredEffect
       DEF ForkSane, At, Forking, TaskGoes, TaskEnds, NoTask, Typed
  <2>3. \A q \in Pane : Kept(q)
    BY <1>13, <1>c, PersistRestoredEffect DEF Typed
  <2> QED BY <2>1, <2>2, <2>3, ForksKept
<1>14. ASSUME NEW t \in Task, Seed(t)
       PROVE  (\A u \in Task : At(u, Forking) => ForkSane(u))'
  <2>1. OtherTasks(t) /\ UNCHANGED backend
    BY <1>14, SeedEffect DEF Typed, TaskGoes, TaskEnds
  <2>2. At(t, Forking)' => ForkSane(t)'
    BY <1>14, <1>a, SeedEffect DEF ForkSane, At, Forking, TaskGoes, TaskEnds, NoTask, Typed
  <2>3. \A q \in Pane : Kept(q)
    BY <1>14, <1>c, SeedEffect DEF Typed
  <2> QED BY <2>1, <2>2, <2>3, ForksKept
<1>15. ASSUME NEW t \in Task, Attach(t)
       PROVE  (\A u \in Task : At(u, Forking) => ForkSane(u))'
  <2>1. OtherTasks(t) /\ UNCHANGED backend
    BY <1>15, AttachEffect DEF Typed, TaskGoes, TaskEnds
  <2>2. At(t, Forking)' => ForkSane(t)'
    BY <1>15, <1>a, AttachEffect
       DEF ForkSane, At, Forking, TaskGoes, TaskEnds, NoTask, Typed
  <2>3. \A q \in Pane : Kept(q)
    BY <1>15, <1>c, AttachEffect DEF Typed
  <2> QED BY <2>1, <2>2, <2>3, ForksKept
<1>16. ASSUME NEW t \in Task, AttachRuntime(t)
       PROVE  (\A u \in Task : At(u, Forking) => ForkSane(u))'
  <2>1. OtherTasks(t) /\ UNCHANGED backend
    BY <1>16, AttachRuntimeEffect DEF Typed, TaskGoes, TaskEnds
  <2>2. At(t, Forking)' => ForkSane(t)'
    BY <1>16, <1>a, AttachRuntimeEffect
       DEF ForkSane, At, Forking, TaskGoes, TaskEnds, NoTask, Typed
  <2>3. \A q \in Pane : Kept(q)
    BY <1>16, <1>c, AttachRuntimeEffect DEF Typed
  <2> QED BY <2>1, <2>2, <2>3, ForksKept
<1>17. ASSUME NEW p \in Pane, Announce(p)
       PROVE  (\A u \in Task : At(u, Forking) => ForkSane(u))'
  <2>1. UNCHANGED <<backend, task>> /\ (\A q \in Pane : Kept(q))
    BY <1>17, <1>c, AnnounceEffect DEF Typed
  <2> QED BY <2>1, ForksLeft
<1>18. ASSUME NEW p \in Pane, Prompt(p)
       PROVE  (\A u \in Task : At(u, Forking) => ForkSane(u))'
  <2>1. UNCHANGED <<backend, task>> /\ (\A q \in Pane : Kept(q))
    BY <1>18, <1>c, PromptEffect DEF Typed
  <2> QED BY <2>1, ForksLeft
<1>19. ASSUME NEW p \in Pane, Clear(p)
       PROVE  (\A u \in Task : At(u, Forking) => ForkSane(u))'
  <2>1. UNCHANGED <<backend, task>> /\ (\A q \in Pane : Kept(q))
    BY <1>19, <1>c, ClearEffect DEF Typed
  <2> QED BY <2>1, ForksLeft
<1>20. ASSUME NEW p \in Pane, Inner(p)
       PROVE  (\A u \in Task : At(u, Forking) => ForkSane(u))'
  <2>1. UNCHANGED <<backend, task>> /\ (\A q \in Pane : Kept(q))
    BY <1>20, <1>c, InnerEffect DEF Typed
  <2> QED BY <2>1, ForksLeft
<1>21. ASSUME NEW h \in Hook, Admit(h) \/ Arm(h) \/ Check(h) \/ Park(h) \/ Wake(h)
       PROVE  (\A u \in Task : At(u, Forking) => ForkSane(u))'
  <2>1. UNCHANGED <<backend, task>> /\ (\A q \in Pane : Kept(q))
    BY <1>21, <1>c, WaitEffect DEF Typed
  <2> QED BY <2>1, ForksLeft
<1>22. ASSUME NEW h \in Hook, WaitOver(h)
       PROVE  (\A u \in Task : At(u, Forking) => ForkSane(u))'
  <2>1. UNCHANGED <<backend, task>> /\ (\A q \in Pane : Kept(q))
    BY <1>22, <1>c, WaitOverEffect DEF Typed
  <2> QED BY <2>1, ForksLeft
<1>23. ASSUME NEW h \in Hook, Lock(h)
       PROVE  (\A u \in Task : At(u, Forking) => ForkSane(u))'
  <2>1. UNCHANGED <<backend, task>> /\ (\A q \in Pane : Kept(q))
    BY <1>23, <1>c, LockEffect DEF Typed
  <2> QED BY <2>1, ForksLeft
<1>24. ASSUME NEW h \in Hook, TakePath(h)
       PROVE  (\A u \in Task : At(u, Forking) => ForkSane(u))'
  <2>1. UNCHANGED <<backend, task>> /\ (\A q \in Pane : Kept(q))
    BY <1>24, <1>c, TakePathEffect DEF Typed
  <2> QED BY <2>1, ForksLeft
<1>25. ASSUME NEW h \in Hook, Bind(h)
       PROVE  (\A u \in Task : At(u, Forking) => ForkSane(u))'
  <2>1. UNCHANGED <<backend, task>> /\ (\A q \in Pane : Kept(q))
    BY <1>25, <1>c, BindEffect DEF Typed
  <2> QED BY <2>1, ForksLeft
<1>26. ASSUME NEW h \in Hook, PersistBound(h)
       PROVE  (\A u \in Task : At(u, Forking) => ForkSane(u))'
  <2>1. UNCHANGED <<backend, task>> /\ (\A q \in Pane : Kept(q))
    BY <1>26, <1>c, PersistBoundEffect DEF Typed
  <2> QED BY <2>1, ForksLeft
<1>27. ASSUME NEW p \in Pane, PsRefresh(p)
       PROVE  (\A u \in Task : At(u, Forking) => ForkSane(u))'
  <2>1. UNCHANGED <<backend, task>> /\ (\A q \in Pane : Kept(q))
    BY <1>27, <1>c, PsRefreshEffect DEF Typed
  <2> QED BY <2>1, ForksLeft
<1>28. ASSUME Restart PROVE (\A u \in Task : At(u, Forking) => ForkSane(u))'
  <2> QED BY <1>28, RestartEffect DEF At, Forking, NoTask
<1>29. ASSUME UNCHANGED vars PROVE (\A u \in Task : At(u, Forking) => ForkSane(u))'
  <2> QED BY <1>29, <1>a DEF vars, agentVars, ForkSane, At
<1>30. ASSUME NEW t \in Task, Launch(t) PROVE (\A u \in Task : At(u, Forking) => ForkSane(u))'
  <2>1. ForkByAgent(t) \/ ForkByServer(t) \/ ForkByCodex(t) =>
          ForkTo(t) /\ (task[t].verify /\ backend = "Codex" => task[t].target # Other)
    BY DEF ForkByAgent, ForkByServer, ForkByCodex, Hooked
  <2> QED BY <1>1, <1>2, <1>3, <1>4, <1>5, <1>6, <1>7, <1>8, <1>9,
             <1>10, <1>11, <1>12, <1>13, <1>14, <1>15, <1>16, <1>30, <2>1 DEF Launch
<1>31. ASSUME NEW p \in Pane, Agent(p) PROVE (\A u \in Task : At(u, Forking) => ForkSane(u))'
  BY <1>17, <1>18, <1>19, <1>20, <1>31 DEF Agent
<1>32. ASSUME NEW h \in Hook, Handle(h) PROVE (\A u \in Task : At(u, Forking) => ForkSane(u))'
  BY <1>21, <1>23, <1>24, <1>25, <1>26, <1>32 DEF Handle
<1> QED BY <1>22, <1>27, <1>28, <1>29, <1>30, <1>31, <1>32 DEF Next

\* A launch knows what it aims at.
LEMMA AimsStep ==
  ASSUME Typed, Orderly, Sane, [Next]_vars
  PROVE  (\A u \in Task : At(u, LaunchStep \cup {"spawn"}) => Aims(u))'
<1>a. \A u \in Task : At(u, LaunchStep \cup {"spawn"}) => Aims(u)
  BY DEF Sane, TaskSane
<1>b. \A u \in Task : At(u, Forking) => ForkSane(u)
  BY DEF Sane, TaskSane
<1>1. ASSUME NEW t \in Task, NEW kind \in Kinds, RunAdmit(t, kind)
      PROVE  (\A u \in Task : At(u, LaunchStep \cup {"spawn"}) => Aims(u))'
  BY <1>1, RunAdmitEffect, <1>a, <1>b, Constants
     DEF Aims, Knows, At, LaunchStep, Typed, TaskGoes, TaskEnds, OtherTasks, NoTask
<1>2. ASSUME NEW t \in Task, NEW p \in Pane, ForkAdmit(t, p)
      PROVE  (\A u \in Task : At(u, LaunchStep \cup {"spawn"}) => Aims(u))'
  BY <1>2, ForkAdmitEffect, <1>a, <1>b, Constants
     DEF Aims, Knows, At, LaunchStep, Typed, TaskGoes, TaskEnds, OtherTasks, NoTask
<1>3. ASSUME NEW t \in Task, ForkLock(t)
      PROVE  (\A u \in Task : At(u, LaunchStep \cup {"spawn"}) => Aims(u))'
  BY <1>3, ForkLockEffect, <1>a, <1>b, Constants
     DEF Aims, Knows, At, LaunchStep, Typed, TaskGoes, TaskEnds, OtherTasks, NoTask
<1>4. ASSUME NEW t \in Task, ForkFails(t)
      PROVE  (\A u \in Task : At(u, LaunchStep \cup {"spawn"}) => Aims(u))'
  BY <1>4, ForkFailsEffect, <1>a, <1>b, Constants
     DEF Aims, Knows, At, LaunchStep, Typed, TaskGoes, TaskEnds, OtherTasks, NoTask
<1>5. ASSUME NEW t \in Task, ForkTo(t), (task[t].verify /\ backend = "Codex" => task[t].target # Other)
      PROVE  (\A u \in Task : At(u, LaunchStep \cup {"spawn"}) => Aims(u))'
  BY <1>5, ForkToEffect, <1>a, <1>b, Constants
     DEF Aims, Knows, At, LaunchStep, Typed, TaskGoes, TaskEnds, OtherTasks, NoTask,
         ForkSane, Forking
<1>6. ASSUME NEW t \in Task, ForkKeep(t)
      PROVE  (\A u \in Task : At(u, LaunchStep \cup {"spawn"}) => Aims(u))'
  BY <1>6, ForkKeepEffect, <1>a, <1>b, Constants
     DEF Aims, Knows, At, LaunchStep, Typed, TaskGoes, TaskEnds, OtherTasks, NoTask,
         ForkSane, Forking
<1>7. ASSUME NEW t \in Task, Spawn(t)
      PROVE  (\A u \in Task : At(u, LaunchStep \cup {"spawn"}) => Aims(u))'
  BY <1>7, SpawnEffect, <1>a, <1>b, Constants
     DEF Aims, Knows, At, LaunchStep, Typed, TaskGoes, TaskEnds, OtherTasks, NoTask
<1>8. ASSUME NEW t \in Task, SpawnFails(t)
      PROVE  (\A u \in Task : At(u, LaunchStep \cup {"spawn"}) => Aims(u))'
  BY <1>8, SpawnFailsEffect, <1>a, <1>b, Constants
     DEF Aims, Knows, At, LaunchStep, Typed, TaskGoes, TaskEnds, OtherTasks, NoTask
<1>9. ASSUME NEW t \in Task, PersistKnown(t)
      PROVE  (\A u \in Task : At(u, LaunchStep \cup {"spawn"}) => Aims(u))'
  BY <1>9, PersistKnownEffect, <1>a, <1>b, Constants
     DEF Aims, Knows, At, LaunchStep, Typed, TaskGoes, TaskEnds, OtherTasks, NoTask
<1>10. ASSUME NEW t \in Task, RestoreBackend(t)
       PROVE  (\A u \in Task : At(u, LaunchStep \cup {"spawn"}) => Aims(u))'
  BY <1>10, RestoreBackendEffect, <1>a, <1>b, Constants
     DEF Aims, Knows, At, LaunchStep, Typed, TaskGoes, TaskEnds, OtherTasks, NoTask
<1>11. ASSUME NEW t \in Task, Register(t)
       PROVE  (\A u \in Task : At(u, LaunchStep \cup {"spawn"}) => Aims(u))'
  BY <1>11, RegisterEffect, <1>a, <1>b, Constants
     DEF Aims, Knows, At, LaunchStep, Typed, TaskGoes, TaskEnds, OtherTasks, NoTask
<1>12. ASSUME NEW t \in Task, Mark(t)
       PROVE  (\A u \in Task : At(u, LaunchStep \cup {"spawn"}) => Aims(u))'
  BY <1>12, MarkEffect, <1>a, <1>b, Constants
     DEF Aims, Knows, At, LaunchStep, Typed, TaskGoes, TaskEnds, OtherTasks, NoTask
<1>13. ASSUME NEW t \in Task, PersistRestored(t)
       PROVE  (\A u \in Task : At(u, LaunchStep \cup {"spawn"}) => Aims(u))'
  BY <1>13, PersistRestoredEffect, <1>a, <1>b, Constants
     DEF Aims, Knows, At, LaunchStep, Typed, TaskGoes, TaskEnds, OtherTasks, NoTask
<1>14. ASSUME NEW t \in Task, Seed(t)
       PROVE  (\A u \in Task : At(u, LaunchStep \cup {"spawn"}) => Aims(u))'
  BY <1>14, SeedEffect, <1>a, <1>b, Constants
     DEF Aims, Knows, At, LaunchStep, Typed, TaskGoes, TaskEnds, OtherTasks, NoTask
<1>15. ASSUME NEW t \in Task, Attach(t)
       PROVE  (\A u \in Task : At(u, LaunchStep \cup {"spawn"}) => Aims(u))'
  BY <1>15, AttachEffect, <1>a, <1>b, Constants
     DEF Aims, Knows, At, LaunchStep, Typed, TaskGoes, TaskEnds, OtherTasks, NoTask
<1>16. ASSUME NEW t \in Task, AttachRuntime(t)
       PROVE  (\A u \in Task : At(u, LaunchStep \cup {"spawn"}) => Aims(u))'
  BY <1>16, AttachRuntimeEffect, <1>a, <1>b, Constants
     DEF Aims, Knows, At, LaunchStep, Typed, TaskGoes, TaskEnds, OtherTasks, NoTask
<1>17. ASSUME NEW p \in Pane, Announce(p)
       PROVE  (\A u \in Task : At(u, LaunchStep \cup {"spawn"}) => Aims(u))'
  BY <1>17, AnnounceEffect, <1>a, <1>b, Constants
     DEF Aims, Knows, At, LaunchStep, Typed, TaskGoes, TaskEnds, OtherTasks, NoTask
<1>18. ASSUME NEW p \in Pane, Prompt(p)
       PROVE  (\A u \in Task : At(u, LaunchStep \cup {"spawn"}) => Aims(u))'
  BY <1>18, PromptEffect, <1>a, <1>b, Constants
     DEF Aims, Knows, At, LaunchStep, Typed, TaskGoes, TaskEnds, OtherTasks, NoTask
<1>19. ASSUME NEW p \in Pane, Clear(p)
       PROVE  (\A u \in Task : At(u, LaunchStep \cup {"spawn"}) => Aims(u))'
  BY <1>19, ClearEffect, <1>a, <1>b, Constants
     DEF Aims, Knows, At, LaunchStep, Typed, TaskGoes, TaskEnds, OtherTasks, NoTask
<1>20. ASSUME NEW p \in Pane, Inner(p)
       PROVE  (\A u \in Task : At(u, LaunchStep \cup {"spawn"}) => Aims(u))'
  BY <1>20, InnerEffect, <1>a, <1>b, Constants
     DEF Aims, Knows, At, LaunchStep, Typed, TaskGoes, TaskEnds, OtherTasks, NoTask
<1>21. ASSUME NEW h \in Hook, Admit(h) \/ Arm(h) \/ Check(h) \/ Park(h) \/ Wake(h)
       PROVE  (\A u \in Task : At(u, LaunchStep \cup {"spawn"}) => Aims(u))'
  BY <1>21, WaitEffect, <1>a, <1>b, Constants
     DEF Aims, Knows, At, LaunchStep, Typed, TaskGoes, TaskEnds, OtherTasks, NoTask
<1>22. ASSUME NEW h \in Hook, WaitOver(h)
       PROVE  (\A u \in Task : At(u, LaunchStep \cup {"spawn"}) => Aims(u))'
  BY <1>22, WaitOverEffect, <1>a, <1>b, Constants
     DEF Aims, Knows, At, LaunchStep, Typed, TaskGoes, TaskEnds, OtherTasks, NoTask
<1>23. ASSUME NEW h \in Hook, Lock(h)
       PROVE  (\A u \in Task : At(u, LaunchStep \cup {"spawn"}) => Aims(u))'
  BY <1>23, LockEffect, <1>a, <1>b, Constants
     DEF Aims, Knows, At, LaunchStep, Typed, TaskGoes, TaskEnds, OtherTasks, NoTask
<1>24. ASSUME NEW h \in Hook, TakePath(h)
       PROVE  (\A u \in Task : At(u, LaunchStep \cup {"spawn"}) => Aims(u))'
  BY <1>24, TakePathEffect, <1>a, <1>b, Constants
     DEF Aims, Knows, At, LaunchStep, Typed, TaskGoes, TaskEnds, OtherTasks, NoTask
<1>25. ASSUME NEW h \in Hook, Bind(h)
       PROVE  (\A u \in Task : At(u, LaunchStep \cup {"spawn"}) => Aims(u))'
  BY <1>25, BindEffect, <1>a, <1>b, Constants
     DEF Aims, Knows, At, LaunchStep, Typed, TaskGoes, TaskEnds, OtherTasks, NoTask
<1>26. ASSUME NEW h \in Hook, PersistBound(h)
       PROVE  (\A u \in Task : At(u, LaunchStep \cup {"spawn"}) => Aims(u))'
  BY <1>26, PersistBoundEffect, <1>a, <1>b, Constants
     DEF Aims, Knows, At, LaunchStep, Typed, TaskGoes, TaskEnds, OtherTasks, NoTask
<1>27. ASSUME NEW p \in Pane, PsRefresh(p)
       PROVE  (\A u \in Task : At(u, LaunchStep \cup {"spawn"}) => Aims(u))'
  BY <1>27, PsRefreshEffect, <1>a, <1>b, Constants
     DEF Aims, Knows, At, LaunchStep, Typed, TaskGoes, TaskEnds, OtherTasks, NoTask
<1>28. ASSUME Restart PROVE (\A u \in Task : At(u, LaunchStep \cup {"spawn"}) => Aims(u))'
  BY <1>28, RestartEffect, <1>a, <1>b, Constants
     DEF Aims, Knows, At, LaunchStep, Typed, TaskGoes, TaskEnds, OtherTasks, NoTask
<1>29. ASSUME UNCHANGED vars PROVE (\A u \in Task : At(u, LaunchStep \cup {"spawn"}) => Aims(u))'
  BY <1>29, <1>a, <1>b, Constants
     DEF Aims, Knows, At, LaunchStep, Typed, TaskGoes, TaskEnds, OtherTasks, NoTask, vars,
         agentVars
<1>30. ASSUME NEW t \in Task, Launch(t) PROVE (\A u \in Task : At(u, LaunchStep \cup {"spawn"}) => Aims(u))'
  <2>1. ForkByAgent(t) \/ ForkByServer(t) \/ ForkByCodex(t) =>
          ForkTo(t) /\ (task[t].verify /\ backend = "Codex" => task[t].target # Other)
    BY DEF ForkByAgent, ForkByServer, ForkByCodex, Hooked
  <2> QED BY <1>1, <1>2, <1>3, <1>4, <1>5, <1>6, <1>7, <1>8, <1>9,
             <1>10, <1>11, <1>12, <1>13, <1>14, <1>15, <1>16, <1>30, <2>1 DEF Launch
<1>31. ASSUME NEW p \in Pane, Agent(p) PROVE (\A u \in Task : At(u, LaunchStep \cup {"spawn"}) => Aims(u))'
  BY <1>17, <1>18, <1>19, <1>20, <1>31 DEF Agent
<1>32. ASSUME NEW h \in Hook, Handle(h) PROVE (\A u \in Task : At(u, LaunchStep \cup {"spawn"}) => Aims(u))'
  BY <1>21, <1>23, <1>24, <1>25, <1>26, <1>32 DEF Handle
<1> QED BY <1>22, <1>27, <1>28, <1>29, <1>30, <1>31, <1>32 DEF Next

\* No two launches have one pane.
LEMMA AloneStep ==
  ASSUME Typed, Orderly, Sane, [Next]_vars
  PROVE  \A u \in Task : /\ task'[u].kind # "resumeFork"
                        /\ \A v \in Task : task'[v].pane # None /\ task'[v].pane = task'[u].pane => v = u
<1>a. \A t, u \in Task : task[t].pane # None /\ task[t].pane = task[u].pane => t = u
  BY DEF Sane, TaskSane
<1>b. \A u \in Task : /\ task[u].pane # None => agent[task[u].pane].live
                      /\ task[u].kind # "resumeFork"
  BY DEF Sane, TaskSane, LaunchSane, Typed, Placed
<1>1. ASSUME NEW t \in Task, NEW kind \in Kinds, RunAdmit(t, kind)
      PROVE  \A u \in Task : /\ task'[u].kind # "resumeFork"
                        /\ \A v \in Task : task'[v].pane # None /\ task'[v].pane = task'[u].pane => v = u
  BY <1>1, RunAdmitEffect, <1>a, <1>b, Constants
     DEF Typed, TaskGoes, TaskEnds, OtherTasks, NoTask, Orderly
<1>2. ASSUME NEW t \in Task, NEW p \in Pane, ForkAdmit(t, p)
      PROVE  \A u \in Task : /\ task'[u].kind # "resumeFork"
                        /\ \A v \in Task : task'[v].pane # None /\ task'[v].pane = task'[u].pane => v = u
  BY <1>2, ForkAdmitEffect, <1>a, <1>b, Constants
     DEF Typed, TaskGoes, TaskEnds, OtherTasks, NoTask
<1>3. ASSUME NEW t \in Task, ForkLock(t)
      PROVE  \A u \in Task : /\ task'[u].kind # "resumeFork"
                        /\ \A v \in Task : task'[v].pane # None /\ task'[v].pane = task'[u].pane => v = u
  BY <1>3, ForkLockEffect, <1>a, <1>b, Constants
     DEF Typed, TaskGoes, TaskEnds, OtherTasks, NoTask
<1>4. ASSUME NEW t \in Task, ForkFails(t)
      PROVE  \A u \in Task : /\ task'[u].kind # "resumeFork"
                        /\ \A v \in Task : task'[v].pane # None /\ task'[v].pane = task'[u].pane => v = u
  BY <1>4, ForkFailsEffect, <1>a, <1>b, Constants
     DEF Typed, TaskGoes, TaskEnds, OtherTasks, NoTask
<1>5. ASSUME NEW t \in Task, ForkTo(t), (task[t].verify /\ backend = "Codex" => task[t].target # Other)
      PROVE  \A u \in Task : /\ task'[u].kind # "resumeFork"
                        /\ \A v \in Task : task'[v].pane # None /\ task'[v].pane = task'[u].pane => v = u
  BY <1>5, ForkToEffect, <1>a, <1>b, Constants
     DEF Typed, TaskGoes, TaskEnds, OtherTasks, NoTask
<1>6. ASSUME NEW t \in Task, ForkKeep(t)
      PROVE  \A u \in Task : /\ task'[u].kind # "resumeFork"
                        /\ \A v \in Task : task'[v].pane # None /\ task'[v].pane = task'[u].pane => v = u
  BY <1>6, ForkKeepEffect, <1>a, <1>b, Constants
     DEF Typed, TaskGoes, TaskEnds, OtherTasks, NoTask
<1>7. ASSUME NEW t \in Task, Spawn(t)
      PROVE  \A u \in Task : /\ task'[u].kind # "resumeFork"
                        /\ \A v \in Task : task'[v].pane # None /\ task'[v].pane = task'[u].pane => v = u
  BY <1>7, SpawnEffect, <1>a, <1>b, Constants
     DEF Typed, TaskGoes, TaskEnds, OtherTasks, NoTask
<1>8. ASSUME NEW t \in Task, SpawnFails(t)
      PROVE  \A u \in Task : /\ task'[u].kind # "resumeFork"
                        /\ \A v \in Task : task'[v].pane # None /\ task'[v].pane = task'[u].pane => v = u
  BY <1>8, SpawnFailsEffect, <1>a, <1>b, Constants
     DEF Typed, TaskGoes, TaskEnds, OtherTasks, NoTask
<1>9. ASSUME NEW t \in Task, PersistKnown(t)
      PROVE  \A u \in Task : /\ task'[u].kind # "resumeFork"
                        /\ \A v \in Task : task'[v].pane # None /\ task'[v].pane = task'[u].pane => v = u
  BY <1>9, PersistKnownEffect, <1>a, <1>b, Constants
     DEF Typed, TaskGoes, TaskEnds, OtherTasks, NoTask
<1>10. ASSUME NEW t \in Task, RestoreBackend(t)
       PROVE  \A u \in Task : /\ task'[u].kind # "resumeFork"
                        /\ \A v \in Task : task'[v].pane # None /\ task'[v].pane = task'[u].pane => v = u
  BY <1>10, RestoreBackendEffect, <1>a, <1>b, Constants
     DEF Typed, TaskGoes, TaskEnds, OtherTasks, NoTask
<1>11. ASSUME NEW t \in Task, Register(t)
       PROVE  \A u \in Task : /\ task'[u].kind # "resumeFork"
                        /\ \A v \in Task : task'[v].pane # None /\ task'[v].pane = task'[u].pane => v = u
  BY <1>11, RegisterEffect, <1>a, <1>b, Constants
     DEF Typed, TaskGoes, TaskEnds, OtherTasks, NoTask
<1>12. ASSUME NEW t \in Task, Mark(t)
       PROVE  \A u \in Task : /\ task'[u].kind # "resumeFork"
                        /\ \A v \in Task : task'[v].pane # None /\ task'[v].pane = task'[u].pane => v = u
  BY <1>12, MarkEffect, <1>a, <1>b, Constants
     DEF Typed, TaskGoes, TaskEnds, OtherTasks, NoTask
<1>13. ASSUME NEW t \in Task, PersistRestored(t)
       PROVE  \A u \in Task : /\ task'[u].kind # "resumeFork"
                        /\ \A v \in Task : task'[v].pane # None /\ task'[v].pane = task'[u].pane => v = u
  BY <1>13, PersistRestoredEffect, <1>a, <1>b, Constants
     DEF Typed, TaskGoes, TaskEnds, OtherTasks, NoTask
<1>14. ASSUME NEW t \in Task, Seed(t)
       PROVE  \A u \in Task : /\ task'[u].kind # "resumeFork"
                        /\ \A v \in Task : task'[v].pane # None /\ task'[v].pane = task'[u].pane => v = u
  BY <1>14, SeedEffect, <1>a, <1>b, Constants
     DEF Typed, TaskGoes, TaskEnds, OtherTasks, NoTask
<1>15. ASSUME NEW t \in Task, Attach(t)
       PROVE  \A u \in Task : /\ task'[u].kind # "resumeFork"
                        /\ \A v \in Task : task'[v].pane # None /\ task'[v].pane = task'[u].pane => v = u
  BY <1>15, AttachEffect, <1>a, <1>b, Constants
     DEF Typed, TaskGoes, TaskEnds, OtherTasks, NoTask
<1>16. ASSUME NEW t \in Task, AttachRuntime(t)
       PROVE  \A u \in Task : /\ task'[u].kind # "resumeFork"
                        /\ \A v \in Task : task'[v].pane # None /\ task'[v].pane = task'[u].pane => v = u
  BY <1>16, AttachRuntimeEffect, <1>a, <1>b, Constants
     DEF Typed, TaskGoes, TaskEnds, OtherTasks, NoTask
<1>17. ASSUME NEW p \in Pane, Announce(p)
       PROVE  \A u \in Task : /\ task'[u].kind # "resumeFork"
                        /\ \A v \in Task : task'[v].pane # None /\ task'[v].pane = task'[u].pane => v = u
  BY <1>17, AnnounceEffect, <1>a, <1>b, Constants
     DEF Typed, TaskGoes, TaskEnds, OtherTasks, NoTask
<1>18. ASSUME NEW p \in Pane, Prompt(p)
       PROVE  \A u \in Task : /\ task'[u].kind # "resumeFork"
                        /\ \A v \in Task : task'[v].pane # None /\ task'[v].pane = task'[u].pane => v = u
  BY <1>18, PromptEffect, <1>a, <1>b, Constants
     DEF Typed, TaskGoes, TaskEnds, OtherTasks, NoTask
<1>19. ASSUME NEW p \in Pane, Clear(p)
       PROVE  \A u \in Task : /\ task'[u].kind # "resumeFork"
                        /\ \A v \in Task : task'[v].pane # None /\ task'[v].pane = task'[u].pane => v = u
  BY <1>19, ClearEffect, <1>a, <1>b, Constants
     DEF Typed, TaskGoes, TaskEnds, OtherTasks, NoTask
<1>20. ASSUME NEW p \in Pane, Inner(p)
       PROVE  \A u \in Task : /\ task'[u].kind # "resumeFork"
                        /\ \A v \in Task : task'[v].pane # None /\ task'[v].pane = task'[u].pane => v = u
  BY <1>20, InnerEffect, <1>a, <1>b, Constants
     DEF Typed, TaskGoes, TaskEnds, OtherTasks, NoTask
<1>21. ASSUME NEW h \in Hook, Admit(h) \/ Arm(h) \/ Check(h) \/ Park(h) \/ Wake(h)
       PROVE  \A u \in Task : /\ task'[u].kind # "resumeFork"
                        /\ \A v \in Task : task'[v].pane # None /\ task'[v].pane = task'[u].pane => v = u
  BY <1>21, WaitEffect, <1>a, <1>b, Constants
     DEF Typed, TaskGoes, TaskEnds, OtherTasks, NoTask
<1>22. ASSUME NEW h \in Hook, WaitOver(h)
       PROVE  \A u \in Task : /\ task'[u].kind # "resumeFork"
                        /\ \A v \in Task : task'[v].pane # None /\ task'[v].pane = task'[u].pane => v = u
  BY <1>22, WaitOverEffect, <1>a, <1>b, Constants
     DEF Typed, TaskGoes, TaskEnds, OtherTasks, NoTask
<1>23. ASSUME NEW h \in Hook, Lock(h)
       PROVE  \A u \in Task : /\ task'[u].kind # "resumeFork"
                        /\ \A v \in Task : task'[v].pane # None /\ task'[v].pane = task'[u].pane => v = u
  BY <1>23, LockEffect, <1>a, <1>b, Constants
     DEF Typed, TaskGoes, TaskEnds, OtherTasks, NoTask
<1>24. ASSUME NEW h \in Hook, TakePath(h)
       PROVE  \A u \in Task : /\ task'[u].kind # "resumeFork"
                        /\ \A v \in Task : task'[v].pane # None /\ task'[v].pane = task'[u].pane => v = u
  BY <1>24, TakePathEffect, <1>a, <1>b, Constants
     DEF Typed, TaskGoes, TaskEnds, OtherTasks, NoTask
<1>25. ASSUME NEW h \in Hook, Bind(h)
       PROVE  \A u \in Task : /\ task'[u].kind # "resumeFork"
                        /\ \A v \in Task : task'[v].pane # None /\ task'[v].pane = task'[u].pane => v = u
  BY <1>25, BindEffect, <1>a, <1>b, Constants
     DEF Typed, TaskGoes, TaskEnds, OtherTasks, NoTask
<1>26. ASSUME NEW h \in Hook, PersistBound(h)
       PROVE  \A u \in Task : /\ task'[u].kind # "resumeFork"
                        /\ \A v \in Task : task'[v].pane # None /\ task'[v].pane = task'[u].pane => v = u
  BY <1>26, PersistBoundEffect, <1>a, <1>b, Constants
     DEF Typed, TaskGoes, TaskEnds, OtherTasks, NoTask
<1>27. ASSUME NEW p \in Pane, PsRefresh(p)
       PROVE  \A u \in Task : /\ task'[u].kind # "resumeFork"
                        /\ \A v \in Task : task'[v].pane # None /\ task'[v].pane = task'[u].pane => v = u
  BY <1>27, PsRefreshEffect, <1>a, <1>b, Constants
     DEF Typed, TaskGoes, TaskEnds, OtherTasks, NoTask
<1>28. ASSUME Restart PROVE \A u \in Task : /\ task'[u].kind # "resumeFork"
                        /\ \A v \in Task : task'[v].pane # None /\ task'[v].pane = task'[u].pane => v = u
  BY <1>28, RestartEffect, <1>a, <1>b, Constants
     DEF Typed, TaskGoes, TaskEnds, OtherTasks, NoTask
<1>29. ASSUME UNCHANGED vars PROVE \A u \in Task : /\ task'[u].kind # "resumeFork"
                        /\ \A v \in Task : task'[v].pane # None /\ task'[v].pane = task'[u].pane => v = u
  BY <1>29, <1>a, <1>b, Constants
     DEF Typed, TaskGoes, TaskEnds, OtherTasks, NoTask, vars, agentVars
<1>30. ASSUME NEW t \in Task, Launch(t) PROVE \A u \in Task : /\ task'[u].kind # "resumeFork"
                        /\ \A v \in Task : task'[v].pane # None /\ task'[v].pane = task'[u].pane => v = u
  <2>1. ForkByAgent(t) \/ ForkByServer(t) \/ ForkByCodex(t) =>
          ForkTo(t) /\ (task[t].verify /\ backend = "Codex" => task[t].target # Other)
    BY DEF ForkByAgent, ForkByServer, ForkByCodex, Hooked
  <2> QED BY <1>1, <1>2, <1>3, <1>4, <1>5, <1>6, <1>7, <1>8, <1>9,
             <1>10, <1>11, <1>12, <1>13, <1>14, <1>15, <1>16, <1>30, <2>1 DEF Launch
<1>31. ASSUME NEW p \in Pane, Agent(p) PROVE \A u \in Task : /\ task'[u].kind # "resumeFork"
                        /\ \A v \in Task : task'[v].pane # None /\ task'[v].pane = task'[u].pane => v = u
  BY <1>17, <1>18, <1>19, <1>20, <1>31 DEF Agent
<1>32. ASSUME NEW h \in Hook, Handle(h) PROVE \A u \in Task : /\ task'[u].kind # "resumeFork"
                        /\ \A v \in Task : task'[v].pane # None /\ task'[v].pane = task'[u].pane => v = u
  BY <1>21, <1>23, <1>24, <1>25, <1>26, <1>32 DEF Handle
<1> QED BY <1>22, <1>27, <1>28, <1>29, <1>30, <1>31, <1>32 DEF Next

\* A launch stays sane when its pane, agent and registration stay.
LEMMA LaunchesKept ==
  ASSUME Typed, Sane, UNCHANGED backend, NEW t \in Task, OtherTasks(t),
         \A q \in Pane : q # task[t].pane => Untouched(q),
         At(t, LaunchStep)' => LaunchSane(t)'
  PROVE  (\A u \in Task : At(u, LaunchStep) => LaunchSane(u))'
<1> SUFFICES ASSUME NEW u \in Task, u # t, At(u, LaunchStep)' PROVE LaunchSane(u)'
  OBVIOUS
<1>1. task'[u] = task[u]
  BY DEF OtherTasks
<1>2. At(u, LaunchStep) /\ LaunchSane(u)
  BY <1>1 DEF At, Sane, TaskSane
<1>3. PICK p \in Pane : p = task[u].pane
  BY <1>2, PaneOf
<1>4. p # task[t].pane
  BY <1>3, Constants DEF Sane, TaskSane
<1> QED BY <1>1, <1>2, <1>3, <1>4 DEF LaunchSane, At, Untouched

\* A launch that a step leaves alone stays sane.
LEMMA LaunchesLeft ==
  ASSUME Typed, Sane, UNCHANGED <<backend, task>>, \A q \in Pane : Untouched(q)
  PROVE  (\A u \in Task : At(u, LaunchStep) => LaunchSane(u))'
<1> SUFFICES ASSUME NEW u \in Task, At(u, LaunchStep)' PROVE LaunchSane(u)'
  OBVIOUS
<1>1. At(u, LaunchStep) /\ LaunchSane(u)
  BY DEF At, Sane, TaskSane
<1>2. PICK p \in Pane : p = task[u].pane
  BY <1>1, PaneOf
<1> QED BY <1>1, <1>2 DEF LaunchSane, At, Untouched

\* A launch runs the session it aims at in a pane it has not yet given up.
LEMMA LaunchesStep ==
  ASSUME Typed, Orderly, Sane, [Next]_vars
  PROVE  (\A u \in Task : At(u, LaunchStep) => LaunchSane(u))'
<1>a. \A u \in Task : At(u, LaunchStep) => LaunchSane(u)
  BY DEF Sane, TaskSane
<1>b. \A q \in Pane : RuntimeSane(q) /\ Unborn(q)
  BY DEF Sane, AgentSane
<1>c. \A h \in Hook : job[h].pc \in Holding => job[h].pane \in managed
  BY DEF Sane, JobSane, Holding
<1>1. ASSUME NEW t \in Task, NEW kind \in Kinds, RunAdmit(t, kind)
      PROVE  (\A u \in Task : At(u, LaunchStep) => LaunchSane(u))'
  <2>1. OtherTasks(t) /\ UNCHANGED backend
    BY <1>1, RunAdmitEffect DEF Typed, TaskGoes, TaskEnds
  <2>2. At(t, LaunchStep)' => LaunchSane(t)'
    BY <1>1, RunAdmitEffect DEF At, LaunchStep, TaskEnds, NoTask, Typed
  <2>3. \A q \in Pane : q # task[t].pane => Untouched(q)
    BY <1>1, RunAdmitEffect
       DEF Typed, Untouched, OtherStates, OtherOptions, OtherAgents, Names, Writes, Drives
  <2> QED BY <2>1, <2>2, <2>3, LaunchesKept
<1>2. ASSUME NEW t \in Task, NEW p \in Pane, ForkAdmit(t, p)
      PROVE  (\A u \in Task : At(u, LaunchStep) => LaunchSane(u))'
  <2>1. OtherTasks(t) /\ UNCHANGED backend
    BY <1>2, ForkAdmitEffect DEF Typed, TaskGoes, TaskEnds
  <2>2. At(t, LaunchStep)' => LaunchSane(t)'
    BY <1>2, ForkAdmitEffect DEF At, LaunchStep, TaskEnds, NoTask, Typed
  <2>3. \A q \in Pane : q # task[t].pane => Untouched(q)
    BY <1>2, ForkAdmitEffect
       DEF Typed, Untouched, OtherStates, OtherOptions, OtherAgents, Names, Writes, Drives
  <2> QED BY <2>1, <2>2, <2>3, LaunchesKept
<1>3. ASSUME NEW t \in Task, ForkLock(t)
      PROVE  (\A u \in Task : At(u, LaunchStep) => LaunchSane(u))'
  <2>1. OtherTasks(t) /\ UNCHANGED backend
    BY <1>3, ForkLockEffect DEF Typed, TaskGoes, TaskEnds
  <2>2. At(t, LaunchStep)' => LaunchSane(t)'
    BY <1>3, ForkLockEffect DEF At, LaunchStep, TaskEnds, NoTask, Typed
  <2>3. \A q \in Pane : q # task[t].pane => Untouched(q)
    BY <1>3, ForkLockEffect
       DEF Typed, Untouched, OtherStates, OtherOptions, OtherAgents, Names, Writes, Drives
  <2> QED BY <2>1, <2>2, <2>3, LaunchesKept
<1>4. ASSUME NEW t \in Task, ForkFails(t)
      PROVE  (\A u \in Task : At(u, LaunchStep) => LaunchSane(u))'
  <2>1. OtherTasks(t) /\ UNCHANGED backend
    BY <1>4, ForkFailsEffect DEF Typed, TaskGoes, TaskEnds
  <2>2. At(t, LaunchStep)' => LaunchSane(t)'
    BY <1>4, ForkFailsEffect DEF At, LaunchStep, TaskEnds, NoTask, Typed
  <2>3. \A q \in Pane : q # task[t].pane => Untouched(q)
    BY <1>4, ForkFailsEffect
       DEF Typed, Untouched, OtherStates, OtherOptions, OtherAgents, Names, Writes, Drives
  <2> QED BY <2>1, <2>2, <2>3, LaunchesKept
<1>5. ASSUME NEW t \in Task, ForkTo(t), (task[t].verify /\ backend = "Codex" => task[t].target # Other)
      PROVE  (\A u \in Task : At(u, LaunchStep) => LaunchSane(u))'
  <2>1. OtherTasks(t) /\ UNCHANGED backend
    BY <1>5, ForkToEffect DEF Typed, TaskGoes, TaskEnds
  <2>2. At(t, LaunchStep)' => LaunchSane(t)'
    BY <1>5, ForkToEffect DEF At, LaunchStep, TaskEnds, NoTask, Typed
  <2>3. \A q \in Pane : q # task[t].pane => Untouched(q)
    BY <1>5, ForkToEffect
       DEF Typed, Untouched, OtherStates, OtherOptions, OtherAgents, Names, Writes, Drives
  <2> QED BY <2>1, <2>2, <2>3, LaunchesKept
<1>6. ASSUME NEW t \in Task, ForkKeep(t)
      PROVE  (\A u \in Task : At(u, LaunchStep) => LaunchSane(u))'
  <2>1. OtherTasks(t) /\ UNCHANGED backend
    BY <1>6, ForkKeepEffect DEF Typed, TaskGoes, TaskEnds
  <2>2. At(t, LaunchStep)' => LaunchSane(t)'
    BY <1>6, ForkKeepEffect DEF At, LaunchStep, TaskEnds, NoTask, Typed
  <2>3. \A q \in Pane : q # task[t].pane => Untouched(q)
    BY <1>6, ForkKeepEffect
       DEF Typed, Untouched, OtherStates, OtherOptions, OtherAgents, Names, Writes, Drives
  <2> QED BY <2>1, <2>2, <2>3, LaunchesKept
<1>7. ASSUME NEW t \in Task, Spawn(t)
      PROVE  (\A u \in Task : At(u, LaunchStep) => LaunchSane(u))'
  <2>1. PICK p \in Pane :
          /\ UNCHANGED <<backend, state, managed>> /\ OtherTasks(t) /\ task[t].pc = "spawn"
          /\ task'[t].pane = p /\ task'[t].kind = task[t].kind
          /\ task'[t].target = task[t].target
          /\ task'[t].pc = IF task[t].kind = "restore" THEN "resume" ELSE "know"
          /\ Writes(p, IF backend = "OpenCode2" THEN task[t].target ELSE None)
          /\ OtherAgents(p) /\ ~agent[p].live /\ agent'[p].live
          /\ agent'[p].ran = {agent'[p].sess}
          /\ agent'[p].sess = CASE backend = "OpenCode" /\ task[t].kind = "fresh" -> None
                                [] task[t].kind = "resumeFork" -> Other
                                [] OTHER -> task[t].target
    BY <1>7, SpawnEffect
  <2>2. /\ agent[p] = NoAgent /\ state[p] = NoState /\ option[p] = NoOption /\ p \notin managed
        /\ task[t].kind # "resumeFork"
    BY <1>b, <2>1 DEF Unborn, Sane, TaskSane
  <2>3. LaunchSane(t)'
    <3>1. /\ agent'[p].live
          /\ (backend = "OpenCode" /\ task[t].kind = "fresh") \/ task[t].target \in agent'[p].ran
      BY <2>1, <2>2
    <3>2. state'[p].pin = None /\ ~option'[p].managed /\ p \notin managed'
      BY <2>1, <2>2 DEF NoState, NoOption, Writes
    <3> QED BY <2>1, <3>1, <3>2 DEF LaunchSane, At, Unlisted
  <2>4. \A q \in Pane : Untouched(q)
    BY <2>1, <2>2 DEF Untouched, OtherAgents, OtherOptions, Writes, NoAgent
  <2> QED BY <2>1, <2>3, <2>4, LaunchesKept
<1>8. ASSUME NEW t \in Task, SpawnFails(t)
      PROVE  (\A u \in Task : At(u, LaunchStep) => LaunchSane(u))'
  <2>1. OtherTasks(t) /\ UNCHANGED backend
    BY <1>8, SpawnFailsEffect DEF Typed, TaskGoes, TaskEnds
  <2>2. At(t, LaunchStep)' => LaunchSane(t)'
    BY <1>8, SpawnFailsEffect DEF At, LaunchStep, TaskEnds, NoTask, Typed
  <2>3. \A q \in Pane : q # task[t].pane => Untouched(q)
    BY <1>8, SpawnFailsEffect
       DEF Typed, Untouched, OtherStates, OtherOptions, OtherAgents, Names, Writes, Drives
  <2> QED BY <2>1, <2>2, <2>3, LaunchesKept
<1>9. ASSUME NEW t \in Task, PersistKnown(t)
      PROVE  (\A u \in Task : At(u, LaunchStep) => LaunchSane(u))'
  <2>1. OtherTasks(t) /\ UNCHANGED backend
    BY <1>9, PersistKnownEffect DEF Typed, TaskGoes, TaskEnds
  <2>2. At(t, LaunchStep)' => LaunchSane(t)'
    BY <1>9, <1>a, <1>b, Constants, PersistKnownEffect
       DEF LaunchSane, At, LaunchStep, Unlisted, TaskGoes, Names, Writes, Unbound, Runtime
  <2>3. \A q \in Pane : q # task[t].pane => Untouched(q)
    BY <1>9, PersistKnownEffect
       DEF Typed, Untouched, OtherStates, OtherOptions, OtherAgents, Names, Writes, Drives
  <2> QED BY <2>1, <2>2, <2>3, LaunchesKept
<1>10. ASSUME NEW t \in Task, RestoreBackend(t)
       PROVE  (\A u \in Task : At(u, LaunchStep) => LaunchSane(u))'
  <2>1. OtherTasks(t) /\ UNCHANGED backend
    BY <1>10, RestoreBackendEffect DEF Typed, TaskGoes, TaskEnds
  <2>2. At(t, LaunchStep)' => LaunchSane(t)'
    BY <1>10, <1>a, <1>b, Constants, RestoreBackendEffect
       DEF LaunchSane, At, LaunchStep, Unlisted, TaskGoes, Names, Writes, Unbound, Runtime
  <2>3. \A q \in Pane : q # task[t].pane => Untouched(q)
    BY <1>10, RestoreBackendEffect
       DEF Typed, Untouched, OtherStates, OtherOptions, OtherAgents, Names, Writes, Drives
  <2> QED BY <2>1, <2>2, <2>3, LaunchesKept
<1>11. ASSUME NEW t \in Task, Register(t)
       PROVE  (\A u \in Task : At(u, LaunchStep) => LaunchSane(u))'
  <2>1. OtherTasks(t) /\ UNCHANGED backend
    BY <1>11, RegisterEffect DEF Typed, TaskGoes, TaskEnds
  <2>2. At(t, LaunchStep)' => LaunchSane(t)'
    BY <1>11, <1>a, <1>b, Constants, RegisterEffect
       DEF LaunchSane, At, LaunchStep, Unlisted, TaskGoes, Names, Writes, Unbound, Runtime
  <2>3. \A q \in Pane : q # task[t].pane => Untouched(q)
    BY <1>11, RegisterEffect
       DEF Typed, Untouched, OtherStates, OtherOptions, OtherAgents, Names, Writes, Drives
  <2> QED BY <2>1, <2>2, <2>3, LaunchesKept
<1>12. ASSUME NEW t \in Task, Mark(t)
       PROVE  (\A u \in Task : At(u, LaunchStep) => LaunchSane(u))'
  <2>1. OtherTasks(t) /\ UNCHANGED backend
    BY <1>12, MarkEffect DEF Typed, TaskGoes, TaskEnds
  <2>2. At(t, LaunchStep)' => LaunchSane(t)'
    BY <1>12, <1>a, <1>b, Constants, MarkEffect
       DEF LaunchSane, At, LaunchStep, Unlisted, TaskGoes, Names, Writes, Unbound, Runtime
  <2>3. \A q \in Pane : q # task[t].pane => Untouched(q)
    BY <1>12, MarkEffect
       DEF Typed, Untouched, OtherStates, OtherOptions, OtherAgents, Names, Writes, Drives
  <2> QED BY <2>1, <2>2, <2>3, LaunchesKept
<1>13. ASSUME NEW t \in Task, PersistRestored(t)
       PROVE  (\A u \in Task : At(u, LaunchStep) => LaunchSane(u))'
  <2>1. OtherTasks(t) /\ UNCHANGED backend
    BY <1>13, PersistRestoredEffect DEF Typed, TaskGoes, TaskEnds
  <2>2. At(t, LaunchStep)' => LaunchSane(t)'
    BY <1>13, PersistRestoredEffect DEF At, LaunchStep, TaskEnds, NoTask
  <2>3. \A q \in Pane : q # task[t].pane => Untouched(q)
    BY <1>13, PersistRestoredEffect
       DEF Typed, Untouched, OtherStates, OtherOptions, OtherAgents, Names, Writes, Drives
  <2> QED BY <2>1, <2>2, <2>3, LaunchesKept
<1>14. ASSUME NEW t \in Task, Seed(t)
       PROVE  (\A u \in Task : At(u, LaunchStep) => LaunchSane(u))'
  <2>1. OtherTasks(t) /\ UNCHANGED backend
    BY <1>14, SeedEffect DEF Typed, TaskGoes, TaskEnds
  <2>a. PICK p \in Pane : p = task[t].pane
    BY <1>14, SeedEffect
  <2>b. /\ task'[t].pane = p /\ task'[t].kind = task[t].kind /\ task'[t].target = task[t].target
        /\ task'[t].pc = IF backend = "Claude" THEN "runtime" ELSE "attach"
        /\ task[t].pc = "seed" /\ UNCHANGED <<backend, agent, option, managed>>
    BY <1>14, <2>a, SeedEffect DEF TaskGoes
  <2>c. /\ agent[p].live /\ p \in managed /\ task[t].kind # "restore"
        /\ (backend = "OpenCode" /\ task[t].kind = "fresh") \/ task[t].target \in agent[p].ran
    BY <1>a, <2>a, <2>b DEF LaunchSane, At, LaunchStep, Unlisted
  <2>d. backend = "Claude" => option[p].backend = backend
    BY <1>b DEF RuntimeSane
  <2>2. At(t, LaunchStep)' => LaunchSane(t)'
    BY <2>b, <2>c, <2>d DEF LaunchSane, At, LaunchStep, Unlisted
  <2>3. \A q \in Pane : q # task[t].pane => Untouched(q)
    BY <1>14, SeedEffect
       DEF Typed, Untouched, OtherStates, OtherOptions, OtherAgents, Names, Writes, Drives
  <2> QED BY <2>1, <2>2, <2>3, LaunchesKept
<1>15. ASSUME NEW t \in Task, Attach(t)
       PROVE  (\A u \in Task : At(u, LaunchStep) => LaunchSane(u))'
  <2>1. OtherTasks(t) /\ UNCHANGED backend
    BY <1>15, AttachEffect DEF Typed, TaskGoes, TaskEnds
  <2>a. PICK p \in Pane : p = task[t].pane
    BY <1>15, AttachEffect
  <2>b. /\ task'[t].pane = p /\ task'[t].kind = task[t].kind /\ task'[t].target = task[t].target
        /\ task'[t].pc = "runtime" /\ task[t].pc = "attach" /\ UNCHANGED <<backend, managed>>
        /\ agent[p].live => agent'[p].live
        /\ agent[p].ran \subseteq agent'[p].ran
        /\ option'[p].backend = backend
    BY <1>15, <2>a, AttachEffect DEF TaskGoes
  <2>c. /\ agent[p].live /\ p \in managed /\ task[t].kind # "restore"
        /\ (backend = "OpenCode" /\ task[t].kind = "fresh") \/ task[t].target \in agent[p].ran
    BY <1>a, <2>a, <2>b DEF LaunchSane, At, LaunchStep, Unlisted
  <2>2. At(t, LaunchStep)' => LaunchSane(t)'
    BY <2>b, <2>c DEF LaunchSane, At, LaunchStep, Unlisted
  <2>3. \A q \in Pane : q # task[t].pane => Untouched(q)
    BY <1>15, AttachEffect
       DEF Typed, Untouched, OtherStates, OtherOptions, OtherAgents, Names, Writes, Drives
  <2> QED BY <2>1, <2>2, <2>3, LaunchesKept
<1>16. ASSUME NEW t \in Task, AttachRuntime(t)
       PROVE  (\A u \in Task : At(u, LaunchStep) => LaunchSane(u))'
  <2>1. OtherTasks(t) /\ UNCHANGED backend
    BY <1>16, AttachRuntimeEffect DEF Typed, TaskGoes, TaskEnds
  <2>2. At(t, LaunchStep)' => LaunchSane(t)'
    BY <1>16, AttachRuntimeEffect DEF At, LaunchStep, TaskEnds, NoTask
  <2>3. \A q \in Pane : q # task[t].pane => Untouched(q)
    BY <1>16, AttachRuntimeEffect
       DEF Typed, Untouched, OtherStates, OtherOptions, OtherAgents, Names, Writes, Drives
  <2> QED BY <2>1, <2>2, <2>3, LaunchesKept
<1>17. ASSUME NEW p \in Pane, Announce(p)
       PROVE  (\A u \in Task : At(u, LaunchStep) => LaunchSane(u))'
  <2>1. UNCHANGED <<backend, task>> /\ (\A q \in Pane : Untouched(q))
    BY <1>17, AnnounceEffect
       DEF Typed, Untouched, OtherStates, OtherOptions, OtherAgents, Names, Writes
  <2> QED BY <2>1, LaunchesLeft
<1>18. ASSUME NEW p \in Pane, Prompt(p)
       PROVE  (\A u \in Task : At(u, LaunchStep) => LaunchSane(u))'
  <2>1. UNCHANGED <<backend, task>> /\ (\A q \in Pane : Untouched(q))
    BY <1>18, PromptEffect
       DEF Typed, Untouched, OtherStates, OtherOptions, OtherAgents, Names, Writes
  <2> QED BY <2>1, LaunchesLeft
<1>19. ASSUME NEW p \in Pane, Clear(p)
       PROVE  (\A u \in Task : At(u, LaunchStep) => LaunchSane(u))'
  <2>1. UNCHANGED <<backend, task>> /\ (\A q \in Pane : Untouched(q))
    BY <1>19, ClearEffect
       DEF Typed, Untouched, OtherStates, OtherOptions, OtherAgents, Names, Writes
  <2> QED BY <2>1, LaunchesLeft
<1>20. ASSUME NEW p \in Pane, Inner(p)
       PROVE  (\A u \in Task : At(u, LaunchStep) => LaunchSane(u))'
  <2>1. UNCHANGED <<backend, task>> /\ (\A q \in Pane : Untouched(q))
    BY <1>20, InnerEffect
       DEF Typed, Untouched, OtherStates, OtherOptions, OtherAgents, Names, Writes
  <2> QED BY <2>1, LaunchesLeft
<1>21. ASSUME NEW h \in Hook, Admit(h) \/ Arm(h) \/ Check(h) \/ Park(h) \/ Wake(h)
       PROVE  (\A u \in Task : At(u, LaunchStep) => LaunchSane(u))'
  <2>1. UNCHANGED <<backend, task>> /\ (\A q \in Pane : Untouched(q))
    BY <1>21, WaitEffect
       DEF Typed, Untouched, OtherStates, OtherOptions, OtherAgents, Names, Writes
  <2> QED BY <2>1, LaunchesLeft
<1>22. ASSUME NEW h \in Hook, WaitOver(h)
       PROVE  (\A u \in Task : At(u, LaunchStep) => LaunchSane(u))'
  <2>1. UNCHANGED <<backend, task>> /\ (\A q \in Pane : Untouched(q))
    BY <1>22, WaitOverEffect
       DEF Typed, Untouched, OtherStates, OtherOptions, OtherAgents, Names, Writes
  <2> QED BY <2>1, LaunchesLeft
<1>23. ASSUME NEW h \in Hook, Lock(h)
       PROVE  (\A u \in Task : At(u, LaunchStep) => LaunchSane(u))'
  <2>1. UNCHANGED <<backend, task>> /\ (\A q \in Pane : Untouched(q))
    BY <1>23, LockEffect
       DEF Typed, Untouched, OtherStates, OtherOptions, OtherAgents, Names, Writes
  <2> QED BY <2>1, LaunchesLeft
<1>24. ASSUME NEW h \in Hook, TakePath(h)
       PROVE  (\A u \in Task : At(u, LaunchStep) => LaunchSane(u))'
  <2>1. UNCHANGED <<backend, task>> /\ (\A q \in Pane : Untouched(q))
    BY <1>24, TakePathEffect
       DEF Typed, Untouched, OtherStates, OtherOptions, OtherAgents, Names, Writes
  <2> QED BY <2>1, LaunchesLeft
<1>25. ASSUME NEW h \in Hook, Bind(h)
       PROVE  (\A u \in Task : At(u, LaunchStep) => LaunchSane(u))'
  <2>1. UNCHANGED <<backend, task>> /\ (\A q \in Pane : Untouched(q))
    BY <1>25, BindEffect
       DEF Typed, Untouched, OtherStates, OtherOptions, OtherAgents, Names, Writes
  <2> QED BY <2>1, LaunchesLeft
<1>26. ASSUME NEW h \in Hook, PersistBound(h)
       PROVE  (\A u \in Task : At(u, LaunchStep) => LaunchSane(u))'
  <2>1. UNCHANGED <<backend, task>> /\ (\A q \in Pane : Untouched(q))
    BY <1>26, PersistBoundEffect
       DEF Typed, Untouched, OtherStates, OtherOptions, OtherAgents, Names, Writes
  <2> QED BY <2>1, LaunchesLeft
<1>27. ASSUME NEW p \in Pane, PsRefresh(p)
       PROVE  (\A u \in Task : At(u, LaunchStep) => LaunchSane(u))'
  <2>1. UNCHANGED <<backend, task>> /\ (\A q \in Pane : Untouched(q))
    BY <1>27, PsRefreshEffect
       DEF Typed, Untouched, OtherStates, OtherOptions, OtherAgents, Names, Writes
  <2> QED BY <2>1, LaunchesLeft
<1>28. ASSUME Restart PROVE (\A u \in Task : At(u, LaunchStep) => LaunchSane(u))'
  <2> QED BY <1>28, RestartEffect DEF At, LaunchStep, NoTask
<1>29. ASSUME UNCHANGED vars PROVE (\A u \in Task : At(u, LaunchStep) => LaunchSane(u))'
  <2>1. UNCHANGED <<backend, task>> /\ (\A q \in Pane : Untouched(q))
    BY <1>29 DEF vars, agentVars, Untouched
  <2> QED BY <2>1, LaunchesLeft
<1>30. ASSUME NEW t \in Task, Launch(t) PROVE (\A u \in Task : At(u, LaunchStep) => LaunchSane(u))'
  <2>1. ForkByAgent(t) \/ ForkByServer(t) \/ ForkByCodex(t) =>
          ForkTo(t) /\ (task[t].verify /\ backend = "Codex" => task[t].target # Other)
    BY DEF ForkByAgent, ForkByServer, ForkByCodex, Hooked
  <2> QED BY <1>1, <1>2, <1>3, <1>4, <1>5, <1>6, <1>7, <1>8, <1>9,
             <1>10, <1>11, <1>12, <1>13, <1>14, <1>15, <1>16, <1>30, <2>1 DEF Launch
<1>31. ASSUME NEW p \in Pane, Agent(p) PROVE (\A u \in Task : At(u, LaunchStep) => LaunchSane(u))'
  BY <1>17, <1>18, <1>19, <1>20, <1>31 DEF Agent
<1>32. ASSUME NEW h \in Hook, Handle(h) PROVE (\A u \in Task : At(u, LaunchStep) => LaunchSane(u))'
  BY <1>21, <1>23, <1>24, <1>25, <1>26, <1>32 DEF Handle
<1> QED BY <1>22, <1>27, <1>28, <1>29, <1>30, <1>31, <1>32 DEF Next

\* A handler stays sane while its pane stays registered and bound.
LEMMA JobKept ==
  ASSUME Typed, UNCHANGED backend, \A q \in Pane : Kept(q),
         NEW g \in Hook, job[g].pc # "idle", JobSane(g),
         job'[g].pane = job[g].pane, job'[g].ev = job[g].ev, job'[g].sess = job[g].sess,
         job'[g].file = job[g].file, job'[g].pc = job[g].pc
  PROVE  JobSane(g)'
<1>1. PICK p \in Pane : p = job[g].pane
  BY PaneOf
<1>2. Kept(p)
  BY <1>1
<1>3. Pinned(p) => Pinned(p)'
  BY <1>2 DEF Kept
<1>4. /\ agent'[p].live /\ agent[p].ran \subseteq agent'[p].ran
      /\ p \in managed => p \in managed'
      /\ backend = "Codex" /\ state[p].sess # None => state'[p].sess # None
  BY <1>1, <1>2 DEF Kept, JobSane
<1> QED BY <1>1, <1>3, <1>4 DEF JobSane

\* So do all handlers.
LEMMA JobsKept ==
  ASSUME Typed, Sane, UNCHANGED backend, \A q \in Pane : Kept(q),
         NEW h \in Hook, OtherJobs(h), job'[h].pc # "idle" => JobSane(h)'
  PROVE  (\A g \in Hook : job[g].pc # "idle" => JobSane(g))'
<1> SUFFICES ASSUME NEW g \in Hook, g # h, job'[g].pc # "idle" PROVE JobSane(g)'
  OBVIOUS
<1>1. job'[g] = job[g] /\ JobSane(g)
  BY DEF OtherJobs, Sane
<1> QED BY <1>1, JobKept

\* And those that a step leaves alone.
LEMMA JobsLeft ==
  ASSUME Typed, Sane, UNCHANGED <<backend, job>>, \A q \in Pane : Kept(q)
  PROVE  (\A g \in Hook : job[g].pc # "idle" => JobSane(g))'
BY JobKept DEF Sane

\* What a handler carries is a session of its agent.
LEMMA JobsStep ==
  ASSUME Typed, Orderly, Sane, [Next]_vars
  PROVE  (\A g \in Hook : job[g].pc # "idle" => JobSane(g))'
<1>a. \A g \in Hook : job[g].pc # "idle" => JobSane(g)
  BY DEF Sane
<1>b. \A q \in Pane : Reports(q) /\ Unborn(q) /\ Bindings(q) /\ RuntimeSane(q)
  BY DEF Sane, AgentSane
<1>c. UNCHANGED restarts => \A q \in Pane : Kept(q)
  BY KeepStep
<1>1. ASSUME NEW t \in Task, NEW kind \in Kinds, RunAdmit(t, kind)
      PROVE  (\A g \in Hook : job[g].pc # "idle" => JobSane(g))'
  <2>1. UNCHANGED <<backend, job>> /\ (\A q \in Pane : Kept(q))
    BY <1>1, <1>c, RunAdmitEffect DEF Typed
  <2> QED BY <2>1, JobsLeft
<1>2. ASSUME NEW t \in Task, NEW p \in Pane, ForkAdmit(t, p)
      PROVE  (\A g \in Hook : job[g].pc # "idle" => JobSane(g))'
  <2>1. UNCHANGED <<backend, job>> /\ (\A q \in Pane : Kept(q))
    BY <1>2, <1>c, ForkAdmitEffect DEF Typed
  <2> QED BY <2>1, JobsLeft
<1>3. ASSUME NEW t \in Task, ForkLock(t)
      PROVE  (\A g \in Hook : job[g].pc # "idle" => JobSane(g))'
  <2>1. UNCHANGED <<backend, job>> /\ (\A q \in Pane : Kept(q))
    BY <1>3, <1>c, ForkLockEffect DEF Typed
  <2> QED BY <2>1, JobsLeft
<1>4. ASSUME NEW t \in Task, ForkFails(t)
      PROVE  (\A g \in Hook : job[g].pc # "idle" => JobSane(g))'
  <2>1. UNCHANGED <<backend, job>> /\ (\A q \in Pane : Kept(q))
    BY <1>4, <1>c, ForkFailsEffect DEF Typed
  <2> QED BY <2>1, JobsLeft
<1>5. ASSUME NEW t \in Task, ForkTo(t), (task[t].verify /\ backend = "Codex" => task[t].target # Other)
      PROVE  (\A g \in Hook : job[g].pc # "idle" => JobSane(g))'
  <2>1. UNCHANGED <<backend, job>> /\ (\A q \in Pane : Kept(q))
    BY <1>5, <1>c, ForkToEffect DEF Typed
  <2> QED BY <2>1, JobsLeft
<1>6. ASSUME NEW t \in Task, ForkKeep(t)
      PROVE  (\A g \in Hook : job[g].pc # "idle" => JobSane(g))'
  <2>1. UNCHANGED <<backend, job>> /\ (\A q \in Pane : Kept(q))
    BY <1>6, <1>c, ForkKeepEffect DEF Typed
  <2> QED BY <2>1, JobsLeft
<1>7. ASSUME NEW t \in Task, Spawn(t)
      PROVE  (\A g \in Hook : job[g].pc # "idle" => JobSane(g))'
  <2>1. UNCHANGED <<backend, job>> /\ (\A q \in Pane : Kept(q))
    BY <1>7, <1>c, SpawnEffect DEF Typed
  <2> QED BY <2>1, JobsLeft
<1>8. ASSUME NEW t \in Task, SpawnFails(t)
      PROVE  (\A g \in Hook : job[g].pc # "idle" => JobSane(g))'
  <2>1. UNCHANGED <<backend, job>> /\ (\A q \in Pane : Kept(q))
    BY <1>8, <1>c, SpawnFailsEffect DEF Typed
  <2> QED BY <2>1, JobsLeft
<1>9. ASSUME NEW t \in Task, PersistKnown(t)
      PROVE  (\A g \in Hook : job[g].pc # "idle" => JobSane(g))'
  <2>1. UNCHANGED <<backend, job>> /\ (\A q \in Pane : Kept(q))
    BY <1>9, <1>c, PersistKnownEffect DEF Typed
  <2> QED BY <2>1, JobsLeft
<1>10. ASSUME NEW t \in Task, RestoreBackend(t)
       PROVE  (\A g \in Hook : job[g].pc # "idle" => JobSane(g))'
  <2>1. UNCHANGED <<backend, job>> /\ (\A q \in Pane : Kept(q))
    BY <1>10, <1>c, RestoreBackendEffect DEF Typed
  <2> QED BY <2>1, JobsLeft
<1>11. ASSUME NEW t \in Task, Register(t)
       PROVE  (\A g \in Hook : job[g].pc # "idle" => JobSane(g))'
  <2>1. UNCHANGED backend /\ (\A q \in Pane : Kept(q))
    BY <1>11, <1>c, RegisterEffect
  <2> QED BY <1>11, <1>a, <2>1, RegisterEffect, JobKept
<1>12. ASSUME NEW t \in Task, Mark(t)
       PROVE  (\A g \in Hook : job[g].pc # "idle" => JobSane(g))'
  <2>1. UNCHANGED <<backend, job>> /\ (\A q \in Pane : Kept(q))
    BY <1>12, <1>c, MarkEffect DEF Typed
  <2> QED BY <2>1, JobsLeft
<1>13. ASSUME NEW t \in Task, PersistRestored(t)
       PROVE  (\A g \in Hook : job[g].pc # "idle" => JobSane(g))'
  <2>1. UNCHANGED <<backend, job>> /\ (\A q \in Pane : Kept(q))
    BY <1>13, <1>c, PersistRestoredEffect DEF Typed
  <2> QED BY <2>1, JobsLeft
<1>14. ASSUME NEW t \in Task, Seed(t)
       PROVE  (\A g \in Hook : job[g].pc # "idle" => JobSane(g))'
  <2>1. UNCHANGED <<backend, job>> /\ (\A q \in Pane : Kept(q))
    BY <1>14, <1>c, SeedEffect DEF Typed
  <2> QED BY <2>1, JobsLeft
<1>15. ASSUME NEW t \in Task, Attach(t)
       PROVE  (\A g \in Hook : job[g].pc # "idle" => JobSane(g))'
  <2>1. UNCHANGED <<backend, job>> /\ (\A q \in Pane : Kept(q))
    BY <1>15, <1>c, AttachEffect DEF Typed
  <2> QED BY <2>1, JobsLeft
<1>16. ASSUME NEW t \in Task, AttachRuntime(t)
       PROVE  (\A g \in Hook : job[g].pc # "idle" => JobSane(g))'
  <2>1. UNCHANGED <<backend, job>> /\ (\A q \in Pane : Kept(q))
    BY <1>16, <1>c, AttachRuntimeEffect DEF Typed
  <2> QED BY <2>1, JobsLeft
<1>17. ASSUME NEW p \in Pane, Announce(p)
       PROVE  (\A g \in Hook : job[g].pc # "idle" => JobSane(g))'
  <2>1. agent[p].live /\ UNCHANGED backend /\ (\A q \in Pane : Kept(q))
    BY <1>17, <1>b, <1>c, AnnounceEffect DEF Typed, Unborn, NoAgent
  <2>2. PICK h \in Hook :
          /\ OtherJobs(h) /\ job'[h].pc = "admit" /\ job'[h].pane = p
          /\ job'[h].sess = agent[p].report
    BY <1>17, AnnounceEffect DEF Typed
  <2>3. agent[p].report \in agent[p].ran \/ Pinned(p)
    BY <1>b, <2>1 DEF Reports
  <2>4. JobSane(h)'
    BY <2>1, <2>2, <2>3 DEF JobSane, Kept, Holding
  <2> QED BY <2>1, <2>2, <2>4, JobsKept
<1>18. ASSUME NEW p \in Pane, Prompt(p)
       PROVE  (\A g \in Hook : job[g].pc # "idle" => JobSane(g))'
  <2>1. agent[p].live /\ UNCHANGED backend /\ (\A q \in Pane : Kept(q))
    BY <1>18, <1>b, <1>c, PromptEffect DEF Typed, Unborn, NoAgent
  <2>2. PICK h \in Hook :
          /\ OtherJobs(h) /\ job'[h].pc = "admit" /\ job'[h].pane = p
          /\ job'[h].sess = agent[p].report
    BY <1>18, PromptEffect DEF Typed
  <2>3. agent[p].report \in agent[p].ran \/ Pinned(p)
    BY <1>b, <2>1 DEF Reports
  <2>4. JobSane(h)'
    BY <2>1, <2>2, <2>3 DEF JobSane, Kept, Holding
  <2> QED BY <2>1, <2>2, <2>4, JobsKept
<1>19. ASSUME NEW p \in Pane, Clear(p)
       PROVE  (\A g \in Hook : job[g].pc # "idle" => JobSane(g))'
  <2>1. UNCHANGED <<backend, job>> /\ (\A q \in Pane : Kept(q))
    BY <1>19, <1>c, ClearEffect DEF Typed
  <2> QED BY <2>1, JobsLeft
<1>20. ASSUME NEW p \in Pane, Inner(p)
       PROVE  (\A g \in Hook : job[g].pc # "idle" => JobSane(g))'
  <2>1. agent[p].live /\ backend = "Codex" /\ UNCHANGED <<backend, state, agent, managed>>
    BY <1>20, InnerEffect DEF Typed
  <2>2. \A q \in Pane : Kept(q)
    BY <1>20, <1>c, InnerEffect DEF Typed
  <2>3. PICK h \in Hook :
          /\ OtherJobs(h) /\ job'[h].pc = "admit" /\ job'[h].pane = p
          /\ \/ /\ "earlyHelper" \in Trouble \/ state[p].sess # None
                /\ job'[h].sess = Other /\ job'[h].file = None
             \/ job'[h].sess = agent[p].sess
    BY <1>20, InnerEffect DEF Typed
  <2>4. agent[p].sess \in agent[p].ran
    BY <1>b, <2>1 DEF Reports
  <2>5. JobSane(h)'
    BY <2>1, <2>3, <2>4 DEF JobSane, Holding, Orderly
  <2> QED BY <2>1, <2>2, <2>3, <2>5, JobsKept
<1>21. ASSUME NEW h \in Hook, Admit(h) \/ Arm(h) \/ Check(h) \/ Park(h) \/ Wake(h)
       PROVE  (\A g \in Hook : job[g].pc # "idle" => JobSane(g))'
  <2>1. OtherJobs(h) /\ UNCHANGED backend
    BY <1>21, WaitEffect DEF JobGoes, JobEnds
  <2>2. \A q \in Pane : Kept(q)
    BY <1>21, <1>c, WaitEffect
  <2>p. PICK q \in Pane : q = job[h].pane
    BY <1>21, PaneOf, WaitEffect
  <2>4. Pinned(q) => Pinned(q)'
    BY <2>2 DEF Kept
  <2>3. JobSane(h)'
    BY <1>21, <1>a, <2>2, <2>4, <2>p, WaitEffect DEF JobSane, JobGoes, Holding
  <2> QED BY <2>1, <2>2, <2>3, JobsKept
<1>22. ASSUME NEW h \in Hook, WaitOver(h)
       PROVE  (\A g \in Hook : job[g].pc # "idle" => JobSane(g))'
  <2>1. OtherJobs(h) /\ UNCHANGED backend
    BY <1>22, WaitOverEffect DEF JobGoes, JobEnds
  <2>2. \A q \in Pane : Kept(q)
    BY <1>22, <1>c, WaitOverEffect
  <2>p. PICK q \in Pane : q = job[h].pane
    BY <1>22, PaneOf, WaitOverEffect
  <2>4. Pinned(q) => Pinned(q)'
    BY <2>2 DEF Kept
  <2>3. job'[h].pc # "idle" => JobSane(h)'
    BY <1>22, <1>a, <2>2, <2>4, <2>p, WaitOverEffect DEF JobSane, JobGoes, JobEnds, Holding
  <2> QED BY <2>1, <2>2, <2>3, JobsKept
<1>23. ASSUME NEW h \in Hook, Lock(h)
       PROVE  (\A g \in Hook : job[g].pc # "idle" => JobSane(g))'
  <2>1. OtherJobs(h) /\ UNCHANGED backend
    BY <1>23, LockEffect DEF JobGoes, JobEnds
  <2>2. \A q \in Pane : Kept(q)
    BY <1>23, <1>c, LockEffect
  <2>p. PICK q \in Pane : q = job[h].pane
    BY <1>23, PaneOf, LockEffect
  <2>4. Pinned(q) => Pinned(q)'
    BY <2>2 DEF Kept
  <2>5. job[h].sess \in agent[job[h].pane].ran \/ Pinned(job[h].pane) \/ Foreign(h)
    <3>1. PICK p \in Pane : p = job[h].pane
      BY <1>23, LockEffect
    <3>2. p \in managed /\ state[p].runtime.backend = backend
      BY <1>23, <1>a, <1>b, <3>1, LockEffect DEF JobSane, Holding, RuntimeSane
    <3>3. CASE /\ backend = "Codex" /\ job[h].sess = Other /\ job[h].file = None
               /\ state[p].sess # None
      <4>1. state[p].sess # Other
        BY <1>b, <3>3, Constants DEF Bindings, Own, Reports
      <4>2. PathOf(h) = None
        BY <3>3 DEF PathOf
      <4> QED BY <3>1, <3>2, <3>3, <4>1, <4>2 DEF Foreign
    <3> QED BY <1>23, <1>a, <3>1, <3>3, LockEffect DEF JobSane
  <2>3. job'[h].pc # "idle" => JobSane(h)'
    <3>1. PICK p \in Pane : p = job[h].pane
      BY <1>23, LockEffect
    <3>2. p \in managed /\ agent[p].live
      BY <1>23, <1>a, <3>1, LockEffect DEF JobSane, Holding
    <3>3. SUFFICES ASSUME job'[h].pc # "idle" PROVE JobSane(h)'
      OBVIOUS
    <3>4. /\ ~Foreign(h) /\ UNCHANGED <<agent, managed>>
          /\ job'[h].pc = "path" /\ job'[h].pane = p /\ job'[h].sess = job[h].sess
      BY <1>23, <3>1, <3>3, LockEffect DEF JobGoes, JobEnds
    <3> QED BY <2>4, <2>5, <2>p, <3>1, <3>2, <3>4 DEF JobSane
  <2> QED BY <2>1, <2>2, <2>3, JobsKept
<1>24. ASSUME NEW h \in Hook, TakePath(h)
       PROVE  (\A g \in Hook : job[g].pc # "idle" => JobSane(g))'
  <2>1. OtherJobs(h) /\ UNCHANGED backend
    BY <1>24, TakePathEffect DEF JobGoes, JobEnds
  <2>2. \A q \in Pane : Kept(q)
    BY <1>24, <1>c, TakePathEffect
  <2>p. PICK q \in Pane : q = job[h].pane
    BY <1>24, PaneOf, TakePathEffect
  <2>4. Pinned(q) => Pinned(q)'
    BY <2>2 DEF Kept
  <2>3. job'[h].pc # "idle" => JobSane(h)'
    BY <1>24, <1>a, <2>2, <2>4, <2>p, TakePathEffect DEF JobSane, JobGoes, JobEnds, Holding
  <2> QED BY <2>1, <2>2, <2>3, JobsKept
<1>25. ASSUME NEW h \in Hook, Bind(h)
       PROVE  (\A g \in Hook : job[g].pc # "idle" => JobSane(g))'
  <2>1. OtherJobs(h) /\ UNCHANGED backend
    BY <1>25, BindEffect DEF JobGoes, JobEnds
  <2>2. \A q \in Pane : Kept(q)
    BY <1>25, <1>c, BindEffect
  <2>p. PICK q \in Pane : q = job[h].pane
    BY <1>25, PaneOf, BindEffect
  <2>4. Pinned(q) => Pinned(q)'
    BY <2>2 DEF Kept
  <2>3. JobSane(h)'
    BY <1>25, <1>a, <2>2, <2>4, <2>p, BindEffect DEF JobSane, JobGoes, Holding
  <2> QED BY <2>1, <2>2, <2>3, JobsKept
<1>26. ASSUME NEW h \in Hook, PersistBound(h)
       PROVE  (\A g \in Hook : job[g].pc # "idle" => JobSane(g))'
  <2>1. OtherJobs(h) /\ UNCHANGED backend
    BY <1>26, PersistBoundEffect DEF JobGoes, JobEnds
  <2>2. \A q \in Pane : Kept(q)
    BY <1>26, <1>c, PersistBoundEffect
  <2>3. job'[h].pc = "idle"
    BY <1>26, PersistBoundEffect DEF JobEnds
  <2> QED BY <2>1, <2>2, <2>3, JobsKept
<1>27. ASSUME NEW p \in Pane, PsRefresh(p)
       PROVE  (\A g \in Hook : job[g].pc # "idle" => JobSane(g))'
  <2>1. UNCHANGED <<backend, job>> /\ (\A q \in Pane : Kept(q))
    BY <1>27, <1>c, PsRefreshEffect DEF Typed
  <2> QED BY <2>1, JobsLeft
<1>28. ASSUME Restart PROVE (\A g \in Hook : job[g].pc # "idle" => JobSane(g))'
  <2> QED BY <1>28, RestartEffect DEF NoJob
<1>29. ASSUME UNCHANGED vars PROVE (\A g \in Hook : job[g].pc # "idle" => JobSane(g))'
  <2>1. UNCHANGED <<backend, job>> /\ (\A q \in Pane : Kept(q))
    BY <1>29, <1>c DEF vars, agentVars
  <2> QED BY <2>1, JobsLeft
<1>30. ASSUME NEW t \in Task, Launch(t) PROVE (\A g \in Hook : job[g].pc # "idle" => JobSane(g))'
  <2>1. ForkByAgent(t) \/ ForkByServer(t) \/ ForkByCodex(t) =>
          ForkTo(t) /\ (task[t].verify /\ backend = "Codex" => task[t].target # Other)
    BY DEF ForkByAgent, ForkByServer, ForkByCodex, Hooked
  <2> QED BY <1>1, <1>2, <1>3, <1>4, <1>5, <1>6, <1>7, <1>8, <1>9,
             <1>10, <1>11, <1>12, <1>13, <1>14, <1>15, <1>16, <1>30, <2>1 DEF Launch
<1>31. ASSUME NEW p \in Pane, Agent(p) PROVE (\A g \in Hook : job[g].pc # "idle" => JobSane(g))'
  BY <1>17, <1>18, <1>19, <1>20, <1>31 DEF Agent
<1>32. ASSUME NEW h \in Hook, Handle(h) PROVE (\A g \in Hook : job[g].pc # "idle" => JobSane(g))'
  BY <1>21, <1>23, <1>24, <1>25, <1>26, <1>32 DEF Handle
<1> QED BY <1>22, <1>27, <1>28, <1>29, <1>30, <1>31, <1>32 DEF Next

\* Initially everything has its type.
LEMMA TypedInit == Init => Typed
<1> SUFFICES ASSUME Init PROVE Typed
  OBVIOUS
<1>1. NoAgent \in Agents /\ NoOption \in Options /\ Unbound("Claude") \in Runtimes
  BY Constants, BindingAssumption
     DEF NoAgent, Agents, NoOption, Options, Unbound, Runtimes, Pane, Session
<1>2. NoState \in States
  BY <1>1, Constants DEF NoState, States
<1>3. NoTask \in Tasks /\ NoJob \in Jobs
  BY Constants DEF NoTask, Tasks, TaskStep, NoJob, Jobs, JobStep, HookEvent
<1>4. 1 \in Session /\ 0 \in 0..MaxRestarts
  BY BindingAssumption DEF Session
<1>5. TypeOK
  BY <1>1, <1>2, <1>3, <1>4, Constants DEF Init, TypeOK
<1>6. Placed
  BY Constants DEF Init, Placed, At, NoTask, NoJob, LaunchStep, Forking
<1> QED BY <1>5, <1>6 DEF Typed

\* Initially panes are unborn, launches and handlers idle.
LEMMA SaneInit == Init => Typed /\ Sane
<1> SUFFICES ASSUME Init PROVE Typed /\ Sane
  OBVIOUS
<1>1. Typed
  BY TypedInit
<1>2. \A p \in Pane : AgentSane(p) /\ RuntimeSane(p)
  BY Constants
     DEF Init, AgentSane, Unborn, Reports, Bindings, Own, RuntimeSane, NoAgent, NoState,
                   NoOption, Unbound
<1>3. \A t \in Task : TaskSane(t)
  BY DEF Init, TaskSane, At, NoTask, Forking, LaunchStep
<1>4. \A h \in Hook : job[h].pc = "idle"
  BY DEF Init, NoJob
<1> QED BY <1>1, <1>2, <1>3, <1>4 DEF Sane

\* Every step preserves what BoundToItsAgent rests on.
LEMMA SaneStep ==
  ASSUME Typed, Orderly, Sane, [Next]_vars
  PROVE  Typed' /\ Sane'
<1>1. Typed'
  BY PlacedStep
<1>2. \A p \in Pane : AgentSane(p)' /\ RuntimeSane(p)'
  BY UnbornStep, ReportsStep, BindingsStep, RuntimesStep DEF AgentSane
<1>3. \A t \in Task : TaskSane(t)'
  BY ForksStep, AimsStep, LaunchesStep, AloneStep DEF TaskSane
<1>4. \A h \in Hook : (job[h].pc # "idle" => JobSane(h))'
  BY JobsStep
<1> QED BY <1>1, <1>2, <1>3, <1>4 DEF Sane

\* The state of panes, launches and hook handlers has its type, and a launch has
\* a pane exactly from its spawn on.
THEOREM TypeCorrect == Spec => []TypeOK
<1>1. Init => Typed
  BY TypedInit
<1>2. Typed /\ [Next]_vars => Typed'
  BY PlacedStep
<1>3. Typed => TypeOK
  BY DEF Typed
<1> QED BY <1>1, <1>2, <1>3, PTL DEF Spec

\* The first inductive invariant.
LEMMA SaneAlways ==
  ASSUME Orderly
  PROVE  Spec => [](Typed /\ Sane)
<1>1. Init => Typed /\ Sane
  BY SaneInit
<1>2. Typed /\ Sane /\ [Next]_vars => (Typed /\ Sane)'
  BY SaneStep
<1> QED BY <1>1, <1>2, PTL DEF Spec

\* Whatever launches, forks, hooks and restarts interleave, a pane is bound, in
\* memory and in its option, to a session that its own agent has run, and a
\* managed pane to its agent's backend (set_claude_session, persist_session).
THEOREM BoundsOwn ==
  ASSUME Orderly
  PROVE  Spec => []BoundToItsAgent
<1>1. Typed /\ Sane => BoundToItsAgent
  BY DEF Typed, TypeOK, Sane, AgentSane, Bindings, Own, BoundToItsAgent
<1> QED BY <1>1, SaneAlways, PTL

-----------------------------------------------------------------------------
(* BindingIsDurable: the steps.                                            *)

\* Who is between lock and end holds the lock.
LEMMA HeldStep ==
  ASSUME Typed, Patient, Sane, Kempt, [Next]_vars
  PROVE  \A q \in Pane : Held(q)'
<1>a. \A q \in Pane : Held(q)
  BY DEF Kempt
<1>b. mutex \in [Pane -> Task \cup Hook \cup {Free}]
  BY DEF Typed, TypeOK
<1>c. \A q \in Pane : RuntimeSane(q)
  BY DEF Sane
<1>d. \A h \in Hook : job[h].pc = "lock" => job[h].pane \in managed
  BY DEF Sane, JobSane
<1>1. ASSUME NEW t \in Task, NEW kind \in Kinds, RunAdmit(t, kind)
      PROVE  \A q \in Pane : Held(q)'
  BY <1>1, RunAdmitEffect, <1>a, <1>b, <1>c, <1>d, Constants
     DEF Held, Holding, At, Typed, TaskGoes, TaskEnds, OtherTasks, NoTask, JobGoes,
         JobEnds, OtherJobs, NoJob
<1>2. ASSUME NEW t \in Task, NEW p \in Pane, ForkAdmit(t, p)
      PROVE  \A q \in Pane : Held(q)'
  BY <1>2, ForkAdmitEffect, <1>a, <1>b, <1>c, <1>d, Constants
     DEF Held, Holding, At, Typed, TaskGoes, TaskEnds, OtherTasks, NoTask, JobGoes,
         JobEnds, OtherJobs, NoJob
<1>3. ASSUME NEW t \in Task, ForkLock(t)
      PROVE  \A q \in Pane : Held(q)'
  <2>1. PICK p \in Pane : p = task[t].src /\ mutex[p] = Free
    BY <1>3, ForkLockEffect
  <2>2. \A h \in Hook : job[h].pc \in Holding => job[h].pane # p
    BY <1>a, <2>1, Constants DEF Held
  <2>3. \A u \in Task : At(u, {"copy", "keep"}) => task[u].src # p
    <3>1. \A u \in Task : At(u, {"copy", "keep"}) /\ task[u].src = p => mutex[p] = u
      BY <1>a DEF Held
    <3> QED BY <2>1, <3>1, BindingAssumption
  <2>4. CASE TaskEnds(t) /\ UNCHANGED mutex
    BY <1>3, <1>a, <2>4, ForkLockEffect DEF Held, At, TaskEnds, OtherTasks
  <2>5. CASE ~(TaskEnds(t) /\ UNCHANGED mutex)
    <3>1. /\ OtherTasks(t) /\ task'[t].pc = "copy" /\ task'[t].src = p
          /\ UNCHANGED <<job, backend>> /\ mutex' = [mutex EXCEPT ![p] = t]
      BY <1>3, <2>1, <2>5, ForkLockEffect
    <3>2. Held(p)'
      BY <1>b, <2>2, <2>3, <3>1 DEF Held, At, OtherTasks
    <3>3. ASSUME NEW q \in Pane, q # p PROVE Held(q)'
      BY <1>a, <1>b, <3>1, <3>3 DEF Held, At, OtherTasks
    <3> QED BY <3>2, <3>3
  <2> QED BY <2>4, <2>5
<1>4. ASSUME NEW t \in Task, ForkFails(t)
      PROVE  \A q \in Pane : Held(q)'
  BY <1>4, ForkFailsEffect, <1>a, <1>b, <1>c, <1>d, Constants
     DEF Held, Holding, At, Typed, TaskGoes, TaskEnds, OtherTasks, NoTask, JobGoes,
         JobEnds, OtherJobs, NoJob
<1>5. ASSUME NEW t \in Task, ForkTo(t), (task[t].verify /\ backend = "Codex" => task[t].target # Other)
      PROVE  \A q \in Pane : Held(q)'
  BY <1>5, ForkToEffect, <1>a, <1>b, <1>c, <1>d, Constants
     DEF Held, Holding, At, Typed, TaskGoes, TaskEnds, OtherTasks, NoTask, JobGoes,
         JobEnds, OtherJobs, NoJob
<1>6. ASSUME NEW t \in Task, ForkKeep(t)
      PROVE  \A q \in Pane : Held(q)'
  BY <1>6, ForkKeepEffect, <1>a, <1>b, <1>c, <1>d, Constants
     DEF Held, Holding, At, Typed, TaskGoes, TaskEnds, OtherTasks, NoTask, JobGoes,
         JobEnds, OtherJobs, NoJob
<1>7. ASSUME NEW t \in Task, Spawn(t)
      PROVE  \A q \in Pane : Held(q)'
  BY <1>7, SpawnEffect, <1>a, <1>b, <1>c, <1>d, Constants
     DEF Held, Holding, At, Typed, TaskGoes, TaskEnds, OtherTasks, NoTask, JobGoes,
         JobEnds, OtherJobs, NoJob
<1>8. ASSUME NEW t \in Task, SpawnFails(t)
      PROVE  \A q \in Pane : Held(q)'
  <2> QED BY <1>8, <1>a, SpawnFailsEffect DEF Held, At, TaskEnds, OtherTasks, Typed
<1>9. ASSUME NEW t \in Task, PersistKnown(t)
      PROVE  \A q \in Pane : Held(q)'
  BY <1>9, PersistKnownEffect, <1>a, <1>b, <1>c, <1>d, Constants
     DEF Held, Holding, At, Typed, TaskGoes, TaskEnds, OtherTasks, NoTask, JobGoes,
         JobEnds, OtherJobs, NoJob
<1>10. ASSUME NEW t \in Task, RestoreBackend(t)
       PROVE  \A q \in Pane : Held(q)'
  BY <1>10, RestoreBackendEffect, <1>a, <1>b, <1>c, <1>d, Constants
     DEF Held, Holding, At, Typed, TaskGoes, TaskEnds, OtherTasks, NoTask, JobGoes,
         JobEnds, OtherJobs, NoJob
<1>11. ASSUME NEW t \in Task, Register(t)
       PROVE  \A q \in Pane : Held(q)'
  <2>1. /\ UNCHANGED <<backend, mutex>> /\ TaskGoes(t, "mark")
        /\ \A h \in Hook : job'[h].pc = job[h].pc /\ job'[h].pane = job[h].pane
    BY <1>11, RegisterEffect
  <2>2. \A u \in Task : At(u, {"copy", "keep"})' => At(u, {"copy", "keep"}) /\ task'[u].src = task[u].src
    BY <2>1 DEF TaskGoes, OtherTasks, At
  <2> QED BY <1>a, <2>1, <2>2 DEF Held
<1>12. ASSUME NEW t \in Task, Mark(t)
       PROVE  \A q \in Pane : Held(q)'
  <2> QED BY <1>12, <1>a, MarkEffect DEF Held, At, TaskGoes, OtherTasks
<1>13. ASSUME NEW t \in Task, PersistRestored(t)
       PROVE  \A q \in Pane : Held(q)'
  BY <1>13, PersistRestoredEffect, <1>a, <1>b, <1>c, <1>d, Constants
     DEF Held, Holding, At, Typed, TaskGoes, TaskEnds, OtherTasks, NoTask, JobGoes,
         JobEnds, OtherJobs, NoJob
<1>14. ASSUME NEW t \in Task, Seed(t)
       PROVE  \A q \in Pane : Held(q)'
  BY <1>14, SeedEffect, <1>a, <1>b, <1>c, <1>d, Constants
     DEF Held, Holding, At, Typed, TaskGoes, TaskEnds, OtherTasks, NoTask, JobGoes,
         JobEnds, OtherJobs, NoJob
<1>15. ASSUME NEW t \in Task, Attach(t)
       PROVE  \A q \in Pane : Held(q)'
  BY <1>15, AttachEffect, <1>a, <1>b, <1>c, <1>d, Constants
     DEF Held, Holding, At, Typed, TaskGoes, TaskEnds, OtherTasks, NoTask, JobGoes,
         JobEnds, OtherJobs, NoJob
<1>16. ASSUME NEW t \in Task, AttachRuntime(t)
       PROVE  \A q \in Pane : Held(q)'
  BY <1>16, AttachRuntimeEffect, <1>a, <1>b, <1>c, <1>d, Constants
     DEF Held, Holding, At, Typed, TaskGoes, TaskEnds, OtherTasks, NoTask, JobGoes,
         JobEnds, OtherJobs, NoJob
<1>17. ASSUME NEW p \in Pane, Announce(p)
       PROVE  \A q \in Pane : Held(q)'
  BY <1>17, AnnounceEffect, <1>a, <1>b, <1>c, <1>d, Constants
     DEF Held, Holding, At, Typed, TaskGoes, TaskEnds, OtherTasks, NoTask, JobGoes,
         JobEnds, OtherJobs, NoJob
<1>18. ASSUME NEW p \in Pane, Prompt(p)
       PROVE  \A q \in Pane : Held(q)'
  BY <1>18, PromptEffect, <1>a, <1>b, <1>c, <1>d, Constants
     DEF Held, Holding, At, Typed, TaskGoes, TaskEnds, OtherTasks, NoTask, JobGoes,
         JobEnds, OtherJobs, NoJob
<1>19. ASSUME NEW p \in Pane, Clear(p)
       PROVE  \A q \in Pane : Held(q)'
  BY <1>19, ClearEffect, <1>a, <1>b, <1>c, <1>d, Constants
     DEF Held, Holding, At, Typed, TaskGoes, TaskEnds, OtherTasks, NoTask, JobGoes,
         JobEnds, OtherJobs, NoJob
<1>20. ASSUME NEW p \in Pane, Inner(p)
       PROVE  \A q \in Pane : Held(q)'
  <2>1. PICK h \in Hook : OtherJobs(h) /\ job'[h].pc = "admit"
    BY <1>20, InnerEffect DEF Typed
  <2>2. UNCHANGED <<backend, mutex, task>>
    BY <1>20, InnerEffect DEF Typed
  <2> QED BY <1>a, <2>1, <2>2 DEF Held, Holding, At, OtherJobs
<1>21. ASSUME NEW h \in Hook, Admit(h) \/ Arm(h) \/ Check(h) \/ Park(h) \/ Wake(h)
       PROVE  \A q \in Pane : Held(q)'
  BY <1>21, WaitEffect, <1>a, <1>b, <1>c, <1>d, Constants
     DEF Held, Holding, At, Typed, TaskGoes, TaskEnds, OtherTasks, NoTask, JobGoes,
         JobEnds, OtherJobs, NoJob
<1>22. ASSUME NEW h \in Hook, WaitOver(h)
       PROVE  \A q \in Pane : Held(q)'
  BY <1>22, WaitOverEffect, <1>a, <1>b, <1>c, <1>d, Constants
     DEF Held, Holding, At, Typed, TaskGoes, TaskEnds, OtherTasks, NoTask, JobGoes,
         JobEnds, OtherJobs, NoJob
<1>23. ASSUME NEW h \in Hook, Lock(h)
       PROVE  \A q \in Pane : Held(q)'
  <2>1. PICK p \in Pane : p = job[h].pane /\ mutex[p] = Free
    BY <1>23, LockEffect
  <2>2. \A g \in Hook : job[g].pc \in Holding => job[g].pane # p
    <3>1. \A g \in Hook : job[g].pc \in Holding /\ job[g].pane = p => mutex[p] = g
      BY <1>a DEF Held
    <3> QED BY <2>1, <3>1, BindingAssumption
  <2>3. \A u \in Task : At(u, {"copy", "keep"}) => task[u].src # p
    <3>1. \A u \in Task : At(u, {"copy", "keep"}) /\ task[u].src = p => mutex[p] = u
      BY <1>a DEF Held
    <3> QED BY <2>1, <3>1, BindingAssumption
  <2>4. CASE Foreign(h)
    BY <1>23, <1>a, <2>4, LockEffect DEF Held, Holding, At, JobEnds, OtherJobs
  <2>5. CASE ~Foreign(h)
    <3>1. /\ OtherJobs(h) /\ job'[h].pc = "path" /\ job'[h].pane = p
          /\ UNCHANGED <<task, backend>> /\ mutex' = [mutex EXCEPT ![p] = h]
      BY <1>23, <2>1, <2>5, LockEffect DEF JobGoes
    <3>2. backend \in Hooked
      BY <1>23, <1>c, <1>d, <2>1, <2>5, LockEffect DEF Foreign, RuntimeSane
    <3>3. Held(p)'
      BY <1>b, <2>2, <2>3, <3>1, <3>2 DEF Held, At, OtherJobs
    <3>4. ASSUME NEW q \in Pane, q # p PROVE Held(q)'
      BY <1>a, <1>b, <3>1, <3>4 DEF Held, At, OtherJobs
    <3> QED BY <3>3, <3>4
  <2> QED BY <2>4, <2>5
<1>24. ASSUME NEW h \in Hook, TakePath(h)
       PROVE  \A q \in Pane : Held(q)'
  <2>1. PICK p \in Pane : p = job[h].pane /\ job[h].pc = "path"
    BY <1>24, TakePathEffect
  <2>2. UNCHANGED <<backend, task>>
    BY <1>24, TakePathEffect
  <2>3. CASE job[h].ev = "SessionStart"
    <3>1. JobGoes(h, "start") /\ UNCHANGED mutex
      BY <1>24, <2>3, TakePathEffect
    <3> QED BY <1>a, <2>1, <2>2, <3>1 DEF Held, Holding, At, JobGoes, OtherJobs
  <2>4. CASE job[h].ev # "SessionStart"
    <3>1. JobEnds(h) /\ mutex' = [mutex EXCEPT ![p] = Free]
      BY <1>24, <2>1, <2>4, TakePathEffect
    <3>2. \A g \in Hook : job[g].pc \in Holding /\ job[g].pane = p => g = h
      BY <1>a, <2>1 DEF Held, Holding
    <3>3. \A u \in Task : At(u, {"copy", "keep"}) => task[u].src # p
      BY <1>a, <2>1, Constants DEF Held, Holding
    <3>4. Held(p)'
      BY <2>2, <3>1, <3>2, <3>3 DEF Held, Holding, At, JobEnds, OtherJobs
    <3>5. ASSUME NEW q \in Pane, q # p PROVE Held(q)'
      BY <1>a, <1>b, <2>2, <3>1, <3>5 DEF Held, Holding, At, JobEnds, OtherJobs
    <3> QED BY <3>4, <3>5
  <2> QED BY <2>3, <2>4
<1>25. ASSUME NEW h \in Hook, Bind(h)
       PROVE  \A q \in Pane : Held(q)'
  BY <1>25, BindEffect, <1>a, <1>b, <1>c, <1>d, Constants
     DEF Held, Holding, At, Typed, TaskGoes, TaskEnds, OtherTasks, NoTask, JobGoes,
         JobEnds, OtherJobs, NoJob
<1>26. ASSUME NEW h \in Hook, PersistBound(h)
       PROVE  \A q \in Pane : Held(q)'
  BY <1>26, PersistBoundEffect, <1>a, <1>b, <1>c, <1>d, Constants
     DEF Held, Holding, At, Typed, TaskGoes, TaskEnds, OtherTasks, NoTask, JobGoes,
         JobEnds, OtherJobs, NoJob
<1>27. ASSUME NEW p \in Pane, PsRefresh(p)
       PROVE  \A q \in Pane : Held(q)'
  BY <1>27, PsRefreshEffect, <1>a, <1>b, <1>c, <1>d, Constants
     DEF Held, Holding, At, Typed, TaskGoes, TaskEnds, OtherTasks, NoTask, JobGoes,
         JobEnds, OtherJobs, NoJob
<1>28. ASSUME Restart PROVE \A q \in Pane : Held(q)'
  BY <1>28, RestartEffect, <1>a, <1>b, <1>c, <1>d, Constants
     DEF Held, Holding, At, Typed, TaskGoes, TaskEnds, OtherTasks, NoTask, JobGoes,
         JobEnds, OtherJobs, NoJob, Holding, At, NoTask, NoJob
<1>29. ASSUME UNCHANGED vars PROVE \A q \in Pane : Held(q)'
  BY <1>29, <1>a, <1>b, <1>c, <1>d, Constants
     DEF Held, Holding, At, Typed, TaskGoes, TaskEnds, OtherTasks, NoTask, JobGoes,
         JobEnds, OtherJobs, NoJob, vars, agentVars
<1>30. ASSUME NEW t \in Task, Launch(t) PROVE \A q \in Pane : Held(q)'
  <2>1. ForkByAgent(t) \/ ForkByServer(t) \/ ForkByCodex(t) =>
          ForkTo(t) /\ (task[t].verify /\ backend = "Codex" => task[t].target # Other)
    BY DEF ForkByAgent, ForkByServer, ForkByCodex, Hooked
  <2> QED BY <1>1, <1>2, <1>3, <1>4, <1>5, <1>6, <1>7, <1>8, <1>9,
             <1>10, <1>11, <1>12, <1>13, <1>14, <1>15, <1>16, <1>30, <2>1 DEF Launch
<1>31. ASSUME NEW p \in Pane, Agent(p) PROVE \A q \in Pane : Held(q)'
  BY <1>17, <1>18, <1>19, <1>20, <1>31 DEF Agent
<1>32. ASSUME NEW h \in Hook, Handle(h) PROVE \A q \in Pane : Held(q)'
  BY <1>21, <1>23, <1>24, <1>25, <1>26, <1>32 DEF Handle
<1> QED BY <1>22, <1>27, <1>28, <1>29, <1>30, <1>31, <1>32 DEF Next

\* An agent whose pane is being launched runs one session.
LEMMA SteadyStep ==
  ASSUME Typed, Patient, Sane, Kempt, [Next]_vars
  PROVE  \A u \in Task : Steady(u)'
<1>a. \A u \in Task : Steady(u)
  BY DEF Kempt
<1>b. \A u \in Task : /\ At(u, LaunchStep) => LaunchSane(u)
                      /\ At(u, LaunchStep \cup {"spawn"}) => task[u].kind # "resumeFork"
  BY DEF Sane, TaskSane
<1>c. \A t, u \in Task : task[t].pane # None /\ task[t].pane = task[u].pane => t = u
  BY DEF Sane, TaskSane
<1>d. \A u \in Task : task[u].pane # None <=> At(u, LaunchStep)
  BY DEF Typed, Placed
<1>1. ASSUME NEW t \in Task, NEW kind \in Kinds, RunAdmit(t, kind)
      PROVE  \A u \in Task : Steady(u)'
  BY <1>1, RunAdmitEffect, <1>a, <1>b, <1>c, <1>d, Constants
     DEF Steady, LaunchStep, At, Typed, OtherAgents, TaskGoes, TaskEnds, OtherTasks, NoTask
<1>2. ASSUME NEW t \in Task, NEW p \in Pane, ForkAdmit(t, p)
      PROVE  \A u \in Task : Steady(u)'
  BY <1>2, ForkAdmitEffect, <1>a, <1>b, <1>c, <1>d, Constants
     DEF Steady, LaunchStep, At, Typed, OtherAgents, TaskGoes, TaskEnds, OtherTasks, NoTask
<1>3. ASSUME NEW t \in Task, ForkLock(t)
      PROVE  \A u \in Task : Steady(u)'
  BY <1>3, ForkLockEffect, <1>a, <1>b, <1>c, <1>d, Constants
     DEF Steady, LaunchStep, At, Typed, OtherAgents, TaskGoes, TaskEnds, OtherTasks, NoTask
<1>4. ASSUME NEW t \in Task, ForkFails(t)
      PROVE  \A u \in Task : Steady(u)'
  BY <1>4, ForkFailsEffect, <1>a, <1>b, <1>c, <1>d, Constants
     DEF Steady, LaunchStep, At, Typed, OtherAgents, TaskGoes, TaskEnds, OtherTasks, NoTask
<1>5. ASSUME NEW t \in Task, ForkTo(t), (task[t].verify /\ backend = "Codex" => task[t].target # Other)
      PROVE  \A u \in Task : Steady(u)'
  BY <1>5, ForkToEffect, <1>a, <1>b, <1>c, <1>d, Constants
     DEF Steady, LaunchStep, At, Typed, OtherAgents, TaskGoes, TaskEnds, OtherTasks, NoTask
<1>6. ASSUME NEW t \in Task, ForkKeep(t)
      PROVE  \A u \in Task : Steady(u)'
  BY <1>6, ForkKeepEffect, <1>a, <1>b, <1>c, <1>d, Constants
     DEF Steady, LaunchStep, At, Typed, OtherAgents, TaskGoes, TaskEnds, OtherTasks, NoTask
<1>7. ASSUME NEW t \in Task, Spawn(t)
      PROVE  \A u \in Task : Steady(u)'
  <2>1. PICK p \in Pane :
          /\ UNCHANGED backend /\ OtherTasks(t) /\ task'[t].pane = p
          /\ task'[t].kind = task[t].kind /\ OtherAgents(p) /\ ~agent[p].live
          /\ agent'[p].ran = {agent'[p].sess}
          /\ backend = "OpenCode" /\ task[t].kind = "fresh" => agent'[p].sess = None
    BY <1>7, SpawnEffect
  <2>2. Steady(t)'
    BY <2>1 DEF Steady
  <2>3. ASSUME NEW u \in Task, u # t, At(u, LaunchStep)' PROVE Steady(u)'
    <3>1. task'[u] = task[u] /\ At(u, LaunchStep) /\ Steady(u)
      BY <1>a, <2>1, <2>3 DEF At, OtherTasks
    <3>2. PICK q \in Pane : q = task[u].pane
      BY <3>1, PaneOf
    <3>3. q # p
      BY <1>b, <2>1, <3>1, <3>2 DEF LaunchSane
    <3> QED BY <2>1, <3>1, <3>2, <3>3 DEF Steady, At, OtherAgents
  <2> QED BY <2>2, <2>3 DEF Steady
<1>8. ASSUME NEW t \in Task, SpawnFails(t)
      PROVE  \A u \in Task : Steady(u)'
  BY <1>8, SpawnFailsEffect, <1>a, <1>b, <1>c, <1>d, Constants
     DEF Steady, LaunchStep, At, Typed, OtherAgents, TaskGoes, TaskEnds, OtherTasks, NoTask
<1>9. ASSUME NEW t \in Task, PersistKnown(t)
      PROVE  \A u \in Task : Steady(u)'
  BY <1>9, PersistKnownEffect, <1>a, <1>b, <1>c, <1>d, Constants
     DEF Steady, LaunchStep, At, Typed, OtherAgents, TaskGoes, TaskEnds, OtherTasks, NoTask
<1>10. ASSUME NEW t \in Task, RestoreBackend(t)
       PROVE  \A u \in Task : Steady(u)'
  BY <1>10, RestoreBackendEffect, <1>a, <1>b, <1>c, <1>d, Constants
     DEF Steady, LaunchStep, At, Typed, OtherAgents, TaskGoes, TaskEnds, OtherTasks, NoTask
<1>11. ASSUME NEW t \in Task, Register(t)
       PROVE  \A u \in Task : Steady(u)'
  BY <1>11, RegisterEffect, <1>a, <1>b, <1>c, <1>d, Constants
     DEF Steady, LaunchStep, At, Typed, OtherAgents, TaskGoes, TaskEnds, OtherTasks, NoTask
<1>12. ASSUME NEW t \in Task, Mark(t)
       PROVE  \A u \in Task : Steady(u)'
  BY <1>12, MarkEffect, <1>a, <1>b, <1>c, <1>d, Constants
     DEF Steady, LaunchStep, At, Typed, OtherAgents, TaskGoes, TaskEnds, OtherTasks, NoTask
<1>13. ASSUME NEW t \in Task, PersistRestored(t)
       PROVE  \A u \in Task : Steady(u)'
  BY <1>13, PersistRestoredEffect, <1>a, <1>b, <1>c, <1>d, Constants
     DEF Steady, LaunchStep, At, Typed, OtherAgents, TaskGoes, TaskEnds, OtherTasks, NoTask
<1>14. ASSUME NEW t \in Task, Seed(t)
       PROVE  \A u \in Task : Steady(u)'
  BY <1>14, SeedEffect, <1>a, <1>b, <1>c, <1>d, Constants
     DEF Steady, LaunchStep, At, Typed, OtherAgents, TaskGoes, TaskEnds, OtherTasks, NoTask
<1>15. ASSUME NEW t \in Task, Attach(t)
       PROVE  \A u \in Task : Steady(u)'
  <2>1. PICK p \in Pane : p = task[t].pane
    BY <1>15, AttachEffect
  <2>2. /\ UNCHANGED backend /\ OtherTasks(t) /\ OtherAgents(p)
        /\ task[t].pc = "attach" /\ task'[t].pc = "runtime"
        /\ task'[t].pane = p /\ task'[t].kind = task[t].kind
        /\ \/ agent'[p].sess = agent[p].sess /\ agent'[p].ran = agent[p].ran
           \/ /\ agent'[p].sess = task[t].target
              /\ agent'[p].ran = agent[p].ran \cup {task[t].target}
    BY <1>15, <2>1, AttachEffect DEF TaskGoes, OtherAgents
  <2>3. /\ agent[p].ran \subseteq {None, agent[p].sess}
        /\ backend = "OpenCode" /\ task[t].kind = "fresh" => agent[p].sess = None
        /\ (backend = "OpenCode" /\ task[t].kind = "fresh") \/ task[t].target \in agent[p].ran
    BY <1>a, <1>b, <2>1, <2>2 DEF Steady, At, LaunchStep, LaunchSane
  <2>4. task[t].target \in Session
    BY <2>2 DEF Sane, TaskSane, Aims, At, LaunchStep
  <2>5. agent'[p].ran \subseteq {None, agent'[p].sess}
    BY <2>2, <2>3, <2>4, Constants
  <2>6. Steady(t)'
    BY <2>2, <2>5 DEF Steady, At
  <2>7. ASSUME NEW u \in Task, u # t, At(u, LaunchStep)' PROVE Steady(u)'
    <3>1. task'[u] = task[u] /\ At(u, LaunchStep) /\ Steady(u)
      BY <1>a, <2>2, <2>7 DEF At, OtherTasks
    <3>2. PICK q \in Pane : q = task[u].pane /\ q # p
      BY <1>c, <2>1, <2>7, <3>1, PaneOf, Constants
    <3> QED BY <2>2, <3>1, <3>2 DEF Steady, At, OtherAgents
  <2> QED BY <2>6, <2>7 DEF Steady
<1>16. ASSUME NEW t \in Task, AttachRuntime(t)
       PROVE  \A u \in Task : Steady(u)'
  BY <1>16, AttachRuntimeEffect, <1>a, <1>b, <1>c, <1>d, Constants
     DEF Steady, LaunchStep, At, Typed, OtherAgents, TaskGoes, TaskEnds, OtherTasks, NoTask
<1>17. ASSUME NEW p \in Pane, Announce(p)
       PROVE  \A u \in Task : Steady(u)'
  <2>1. /\ UNCHANGED <<backend, task>>
        /\ \A q \in Pane : agent'[q].sess = agent[q].sess /\ agent'[q].ran = agent[q].ran
    BY <1>17, AnnounceEffect DEF OtherAgents, Typed
  <2> QED BY <1>a, <2>1, PaneOf DEF Steady, At
<1>18. ASSUME NEW p \in Pane, Prompt(p)
       PROVE  \A u \in Task : Steady(u)'
  <2>1. /\ UNCHANGED <<backend, task>>
        /\ \A q \in Pane : agent'[q].sess = agent[q].sess /\ agent'[q].ran = agent[q].ran
    BY <1>18, PromptEffect DEF OtherAgents, Typed
  <2> QED BY <1>a, <2>1, PaneOf DEF Steady, At
<1>19. ASSUME NEW p \in Pane, Clear(p)
       PROVE  \A u \in Task : Steady(u)'
  <2>1. UNCHANGED <<backend, task>> /\ OtherAgents(p) /\ ~Launching(p)
    BY <1>19, ClearEffect DEF OtherAgents, Typed, Patient
  <2>2. ASSUME NEW u \in Task, At(u, LaunchStep)' PROVE Steady(u)'
    <3>1. At(u, LaunchStep) /\ Steady(u)
      BY <1>a, <2>1, <2>2 DEF At
    <3>2. PICK q \in Pane : q = task[u].pane /\ q # p
      BY <2>1, <3>1, PaneOf DEF Launching, At, LaunchStep
    <3> QED BY <2>1, <3>1, <3>2 DEF Steady, At, OtherAgents
  <2> QED BY <2>2 DEF Steady
<1>20. ASSUME NEW p \in Pane, Inner(p)
       PROVE  \A u \in Task : Steady(u)'
  BY <1>20, InnerEffect, <1>a, <1>b, <1>c, <1>d, Constants
     DEF Steady, LaunchStep, At, Typed, OtherAgents, TaskGoes, TaskEnds, OtherTasks, NoTask
<1>21. ASSUME NEW h \in Hook, Admit(h) \/ Arm(h) \/ Check(h) \/ Park(h) \/ Wake(h)
       PROVE  \A u \in Task : Steady(u)'
  BY <1>21, WaitEffect, <1>a, <1>b, <1>c, <1>d, Constants
     DEF Steady, LaunchStep, At, Typed, OtherAgents, TaskGoes, TaskEnds, OtherTasks, NoTask
<1>22. ASSUME NEW h \in Hook, WaitOver(h)
       PROVE  \A u \in Task : Steady(u)'
  BY <1>22, WaitOverEffect, <1>a, <1>b, <1>c, <1>d, Constants
     DEF Steady, LaunchStep, At, Typed, OtherAgents, TaskGoes, TaskEnds, OtherTasks, NoTask
<1>23. ASSUME NEW h \in Hook, Lock(h)
       PROVE  \A u \in Task : Steady(u)'
  BY <1>23, LockEffect, <1>a, <1>b, <1>c, <1>d, Constants
     DEF Steady, LaunchStep, At, Typed, OtherAgents, TaskGoes, TaskEnds, OtherTasks, NoTask
<1>24. ASSUME NEW h \in Hook, TakePath(h)
       PROVE  \A u \in Task : Steady(u)'
  BY <1>24, TakePathEffect, <1>a, <1>b, <1>c, <1>d, Constants
     DEF Steady, LaunchStep, At, Typed, OtherAgents, TaskGoes, TaskEnds, OtherTasks, NoTask
<1>25. ASSUME NEW h \in Hook, Bind(h)
       PROVE  \A u \in Task : Steady(u)'
  BY <1>25, BindEffect, <1>a, <1>b, <1>c, <1>d, Constants
     DEF Steady, LaunchStep, At, Typed, OtherAgents, TaskGoes, TaskEnds, OtherTasks, NoTask
<1>26. ASSUME NEW h \in Hook, PersistBound(h)
       PROVE  \A u \in Task : Steady(u)'
  BY <1>26, PersistBoundEffect, <1>a, <1>b, <1>c, <1>d, Constants
     DEF Steady, LaunchStep, At, Typed, OtherAgents, TaskGoes, TaskEnds, OtherTasks, NoTask
<1>27. ASSUME NEW p \in Pane, PsRefresh(p)
       PROVE  \A u \in Task : Steady(u)'
  BY <1>27, PsRefreshEffect, <1>a, <1>b, <1>c, <1>d, Constants
     DEF Steady, LaunchStep, At, Typed, OtherAgents, TaskGoes, TaskEnds, OtherTasks, NoTask
<1>28. ASSUME Restart PROVE \A u \in Task : Steady(u)'
  BY <1>28, RestartEffect, <1>a, <1>b, <1>c, <1>d, Constants
     DEF Steady, LaunchStep, At, Typed, OtherAgents, TaskGoes, TaskEnds, OtherTasks, NoTask
<1>29. ASSUME UNCHANGED vars PROVE \A u \in Task : Steady(u)'
  BY <1>29, <1>a, <1>b, <1>c, <1>d, Constants
     DEF Steady, LaunchStep, At, Typed, OtherAgents, TaskGoes, TaskEnds, OtherTasks,
         NoTask, vars, agentVars
<1>30. ASSUME NEW t \in Task, Launch(t) PROVE \A u \in Task : Steady(u)'
  <2>1. ForkByAgent(t) \/ ForkByServer(t) \/ ForkByCodex(t) =>
          ForkTo(t) /\ (task[t].verify /\ backend = "Codex" => task[t].target # Other)
    BY DEF ForkByAgent, ForkByServer, ForkByCodex, Hooked
  <2> QED BY <1>1, <1>2, <1>3, <1>4, <1>5, <1>6, <1>7, <1>8, <1>9,
             <1>10, <1>11, <1>12, <1>13, <1>14, <1>15, <1>16, <1>30, <2>1 DEF Launch
<1>31. ASSUME NEW p \in Pane, Agent(p) PROVE \A u \in Task : Steady(u)'
  BY <1>17, <1>18, <1>19, <1>20, <1>31 DEF Agent
<1>32. ASSUME NEW h \in Hook, Handle(h) PROVE \A u \in Task : Steady(u)'
  BY <1>21, <1>23, <1>24, <1>25, <1>26, <1>32 DEF Handle
<1> QED BY <1>22, <1>27, <1>28, <1>29, <1>30, <1>31, <1>32 DEF Next

\* What the handlers bind is the session of an agent.
LEMMA BoundNames ==
  ASSUME Typed, Sane, Kempt, NEW h \in Hook, job[h].pc \in {"start", "persist"},
         NEW p \in Pane, p = job[h].pane
  PROVE  /\ Bound(state[p], h) \in agent[p].ran /\ Bound(state[p], h) # None
         /\ p \in managed /\ state[p].runtime.backend = backend /\ mutex[p] = h
         /\ backend \in Hooked /\ None \notin agent[p].ran
<1>1. /\ p \in managed /\ (job[h].sess \in agent[p].ran \/ Pinned(p))
      /\ mutex[p] = h /\ backend \in Hooked
  BY DEF Sane, JobSane, Kempt, Held, Holding
<1>2. state[p].runtime.backend = backend
  BY <1>1 DEF Sane, RuntimeSane
<1>3. \A t \in Task : At(t, {"know"}) => task[t].pane # p
  BY <1>1 DEF Sane, TaskSane, LaunchSane, At, LaunchStep, Unlisted
<1>4. None \notin agent[p].ran /\ state[p].pin \in Own(p)
  BY <1>1 DEF Sane, AgentSane, Reports, Bindings, Hooked
<1> QED BY <1>1, <1>2, <1>3, <1>4 DEF Bound, Pinned, Own

\* Who asks to keep the session of a caller is right about it.
LEMMA KeepNames ==
  ASSUME Typed, Sane, NEW t \in Task, At(t, {"keep"})
  PROVE  /\ task[t].src \in Pane /\ task[t].src \in managed /\ backend = "Codex"
         /\ task[t].target \in agent[task[t].src].ran /\ task[t].target # None
         /\ None \notin agent[task[t].src].ran
<1>1. ForkSane(t) /\ task[t].src \in Pane
  BY DEF Sane, TaskSane, At, Forking, Typed, Placed
<1>2. None \notin agent[task[t].src].ran \/ backend # "Codex"
  BY <1>1 DEF Sane, AgentSane, Reports
<1> QED BY <1>1, <1>2 DEF ForkSane, At

\* What a launch of a pane knows, but of a fresh OpenCode, its agent runs.
LEMMA LaunchNames ==
  ASSUME Typed, Sane, Kempt, NEW t \in Task, At(t, LaunchStep),
         NEW p \in Pane, p = task[t].pane
  PROVE  /\ task[t].target \in Session /\ agent[p].live
         /\ task[t].known \in {None, task[t].target}
         /\ backend # "OpenCode" =>
              task[t].target = agent[p].sess /\ agent[p].ran = {agent[p].sess}
         /\ task[t].known # None \/ At(t, {"persist"}) => task[t].target = agent[p].sess
         /\ {state[p].sess, option[p].sess, state[p].pin} \subseteq {None, agent[p].sess}
<1>1. Aims(t) /\ LaunchSane(t) /\ task[t].target \in Session
  BY DEF Sane, TaskSane, Aims, At
<1>2. agent[p].ran \subseteq {None, agent[p].sess}
  BY DEF Kempt, Steady
<1>3. task[t].target \in agent[p].ran => task[t].target = agent[p].sess
  BY <1>1, <1>2, Constants
<1>4. task[t].known # None \/ At(t, {"persist"}) =>
        ~(backend = "OpenCode" /\ task[t].kind = "fresh")
  BY <1>1 DEF Aims, Knows, LaunchSane, At
<1>5. backend # "OpenCode" => None \notin agent[p].ran
  BY DEF Sane, AgentSane, Reports
<1>6. Bindings(p)
  BY DEF Sane, AgentSane
<1>7. {state[p].sess, option[p].sess, state[p].pin} \subseteq {None, agent[p].sess}
  BY <1>2, <1>6 DEF Bindings, Own
<1>8. task[t].target \in agent[p].ran \/ (backend = "OpenCode" /\ task[t].kind = "fresh")
  BY <1>1 DEF LaunchSane
<1>9. backend # "OpenCode" => agent[p].ran = {agent[p].sess}
  BY <1>2, <1>5, <1>8
<1>10. agent[p].live /\ task[t].known \in {None, task[t].target}
  BY <1>1 DEF LaunchSane, Aims
<1> QED BY <1>1, <1>3, <1>4, <1>7, <1>8, <1>9, <1>10

\* A launch at another pane.
LEMMA WrittenElsewhere ==
  ASSUME Typed, Sane, Kempt, NEW u \in Task, WrittenDown(u), task'[u] = task[u],
         NEW p, \A q \in Pane : q # p => option'[q].sess = option[q].sess,
         task[u].pane # p
  PROVE  WrittenDown(u)'
BY PaneOf DEF WrittenDown, At, LaunchStep

\* A launch writes its session down before it binds it.
LEMMA WrittenStep ==
  ASSUME Typed, Patient, Sane, Kempt, [Next]_vars
  PROVE  \A u \in Task : WrittenDown(u)'
<1>a. \A u \in Task : WrittenDown(u)
  BY DEF Kempt
<1>b. \A t, u \in Task : task[t].pane # None /\ task[t].pane = task[u].pane => t = u
  BY DEF Sane, TaskSane
<1>c. \A u \in Task : /\ task[u].pane # None <=> At(u, LaunchStep)
                      /\ At(u, LaunchStep) => task[u].pane \in Pane
  BY PaneOf DEF Typed, Placed
<1>d. \A u \in Task : At(u, LaunchStep) => agent[task[u].pane].live
  BY DEF Sane, TaskSane, LaunchSane
<1>1. ASSUME NEW t \in Task, NEW kind \in Kinds, RunAdmit(t, kind)
      PROVE  \A u \in Task : WrittenDown(u)'
  BY <1>1, RunAdmitEffect, <1>a, <1>c, Constants
     DEF WrittenDown, LaunchStep, At, Typed, OtherOptions, TaskGoes, TaskEnds, OtherTasks,
         NoTask
<1>2. ASSUME NEW t \in Task, NEW p \in Pane, ForkAdmit(t, p)
      PROVE  \A u \in Task : WrittenDown(u)'
  BY <1>2, ForkAdmitEffect, <1>a, <1>c, Constants
     DEF WrittenDown, LaunchStep, At, Typed, OtherOptions, TaskGoes, TaskEnds, OtherTasks,
         NoTask
<1>3. ASSUME NEW t \in Task, ForkLock(t)
      PROVE  \A u \in Task : WrittenDown(u)'
  BY <1>3, ForkLockEffect, <1>a, <1>c, Constants
     DEF WrittenDown, LaunchStep, At, Typed, OtherOptions, TaskGoes, TaskEnds, OtherTasks,
         NoTask
<1>4. ASSUME NEW t \in Task, ForkFails(t)
      PROVE  \A u \in Task : WrittenDown(u)'
  BY <1>4, ForkFailsEffect, <1>a, <1>c, Constants
     DEF WrittenDown, LaunchStep, At, Typed, OtherOptions, TaskGoes, TaskEnds, OtherTasks,
         NoTask
<1>5. ASSUME NEW t \in Task, ForkTo(t), (task[t].verify /\ backend = "Codex" => task[t].target # Other)
      PROVE  \A u \in Task : WrittenDown(u)'
  BY <1>5, ForkToEffect, <1>a, <1>c, Constants
     DEF WrittenDown, LaunchStep, At, Typed, OtherOptions, TaskGoes, TaskEnds, OtherTasks,
         NoTask
<1>6. ASSUME NEW t \in Task, ForkKeep(t)
      PROVE  \A u \in Task : WrittenDown(u)'
  <2>1. OtherTasks(t) /\ task'[t].pc = "spawn" /\ Writes(task[t].src, task[t].target)
    BY <1>6, ForkKeepEffect
  <2>2. task[t].target # None
    BY <1>6, KeepNames, ForkKeepEffect DEF At
  <2> QED BY <1>a, <1>c, <2>1, <2>2
     DEF WrittenDown, At, LaunchStep, OtherTasks, Writes, OtherOptions
<1>7. ASSUME NEW t \in Task, Spawn(t)
      PROVE  \A u \in Task : WrittenDown(u)'
  <2>1. PICK p \in Pane :
          /\ OtherTasks(t) /\ ~agent[p].live /\ OtherOptions(p)
          /\ task'[t].pc \in {"resume", "know"}
    BY <1>7, SpawnEffect DEF Writes
  <2> QED BY <1>a, <1>c, <1>d, <2>1
     DEF WrittenDown, At, LaunchStep, OtherTasks, OtherOptions
<1>8. ASSUME NEW t \in Task, SpawnFails(t)
      PROVE  \A u \in Task : WrittenDown(u)'
  BY <1>8, SpawnFailsEffect, <1>a, <1>c, Constants
     DEF WrittenDown, LaunchStep, At, Typed, OtherOptions, TaskGoes, TaskEnds, OtherTasks,
         NoTask
<1>9. ASSUME NEW t \in Task, PersistKnown(t)
      PROVE  \A u \in Task : WrittenDown(u)'
  <2>1. PICK p \in Pane : p = task[t].pane
    BY <1>9, PersistKnownEffect
  <2>2. /\ TaskGoes(t, "register") /\ OtherOptions(p)
        /\ task[t].known # None => option'[p].sess # None
    BY <1>9, <2>1, PersistKnownEffect DEF Writes
  <2>3. WrittenDown(t)'
    BY <2>1, <2>2 DEF WrittenDown, At, TaskGoes
  <2>4. task[t].pane # None /\ OtherTasks(t)
    BY <2>1, <2>2, Constants DEF TaskGoes
  <2>5. ASSUME NEW u \in Task, u # t PROVE WrittenDown(u)'
    <3>1. task'[u] = task[u] /\ WrittenDown(u) /\ task[u].pane # p
      BY <1>a, <1>b, <2>1, <2>4, <2>5 DEF OtherTasks
    <3>2. \A q \in Pane : q # p => option'[q].sess = option[q].sess
      BY <2>2 DEF OtherOptions
    <3> QED BY <3>1, <3>2, WrittenElsewhere
  <2> QED BY <2>3, <2>5
<1>10. ASSUME NEW t \in Task, RestoreBackend(t)
       PROVE  \A u \in Task : WrittenDown(u)'
  <2>1. PICK p \in Pane : p = task[t].pane /\ task[t].pc = "resume"
    BY <1>10, RestoreBackendEffect
  <2>2. TaskGoes(t, "register") /\ (\A q \in Pane : option'[q].sess = option[q].sess)
    BY <1>10, <2>1, RestoreBackendEffect DEF OtherOptions
  <2>3. task[t].kind = "restore"
    BY <2>1 DEF Sane, TaskSane, LaunchSane, At, LaunchStep
  <2> QED BY <1>a, <1>c, <2>1, <2>2, <2>3
     DEF WrittenDown, At, LaunchStep, TaskGoes, OtherTasks
<1>11. ASSUME NEW t \in Task, Register(t)
       PROVE  \A u \in Task : WrittenDown(u)'
  BY <1>11, RegisterEffect, <1>a, <1>c, Constants
     DEF WrittenDown, LaunchStep, At, Typed, OtherOptions, TaskGoes, TaskEnds, OtherTasks,
         NoTask
<1>12. ASSUME NEW t \in Task, Mark(t)
       PROVE  \A u \in Task : WrittenDown(u)'
  <2>1. PICK p \in Pane : p = task[t].pane
    BY <1>12, MarkEffect
  <2>2. /\ OtherOptions(p) /\ option'[p].sess = option[p].sess /\ task[t].pc = "mark"
        /\ TaskGoes(t, IF task[t].kind = "restore" THEN "persist" ELSE "seed")
    BY <1>12, <2>1, MarkEffect
  <2>3. \A q \in Pane : option'[q].sess = option[q].sess
    BY <2>2 DEF OtherOptions
  <2>4. ASSUME NEW u \in Task, At(u, {"register", "mark", "seed"})'
        PROVE  /\ At(u, {"register", "mark", "seed"}) /\ task'[u].kind = task[u].kind
               /\ task'[u].known = task[u].known /\ task'[u].pane = task[u].pane
    BY <2>2, <2>4 DEF TaskGoes, OtherTasks, At
  <2>5. ASSUME NEW u \in Task, At(u, {"register", "mark", "seed"}) PROVE task[u].pane \in Pane
    BY <1>c, <2>5 DEF At, LaunchStep
  <2> QED BY <1>a, <2>3, <2>4, <2>5 DEF WrittenDown
<1>13. ASSUME NEW t \in Task, PersistRestored(t)
       PROVE  \A u \in Task : WrittenDown(u)'
  <2>1. PICK p \in Pane : p = task[t].pane
    BY <1>13, PersistRestoredEffect
  <2>2. TaskEnds(t) /\ OtherOptions(p)
    BY <1>13, <2>1, PersistRestoredEffect DEF Writes
  <2>3. WrittenDown(t)'
    BY <2>1, <2>2 DEF WrittenDown, At, TaskEnds
  <2>4. task[t].pane # None /\ OtherTasks(t)
    BY <2>1, <2>2, Constants DEF TaskEnds
  <2>5. ASSUME NEW u \in Task, u # t PROVE WrittenDown(u)'
    <3>1. task'[u] = task[u] /\ WrittenDown(u) /\ task[u].pane # p
      BY <1>a, <1>b, <2>1, <2>4, <2>5 DEF OtherTasks
    <3>2. \A q \in Pane : q # p => option'[q].sess = option[q].sess
      BY <2>2 DEF OtherOptions
    <3> QED BY <3>1, <3>2, WrittenElsewhere
  <2> QED BY <2>3, <2>5
<1>14. ASSUME NEW t \in Task, Seed(t)
       PROVE  \A u \in Task : WrittenDown(u)'
  BY <1>14, SeedEffect, <1>a, <1>c, Constants
     DEF WrittenDown, LaunchStep, At, Typed, OtherOptions, TaskGoes, TaskEnds, OtherTasks,
         NoTask
<1>15. ASSUME NEW t \in Task, Attach(t)
       PROVE  \A u \in Task : WrittenDown(u)'
  BY <1>15, AttachEffect, <1>a, <1>c, Constants
     DEF WrittenDown, LaunchStep, At, Typed, OtherOptions, TaskGoes, TaskEnds, OtherTasks,
         NoTask
<1>16. ASSUME NEW t \in Task, AttachRuntime(t)
       PROVE  \A u \in Task : WrittenDown(u)'
  <2>1. PICK p \in Pane : p = task[t].pane
    BY <1>16, AttachRuntimeEffect
  <2>2. TaskEnds(t) /\ OtherOptions(p)
    BY <1>16, <2>1, AttachRuntimeEffect DEF Writes
  <2>3. WrittenDown(t)'
    BY <2>1, <2>2 DEF WrittenDown, At, TaskEnds
  <2>4. task[t].pane # None /\ OtherTasks(t)
    BY <2>1, <2>2, Constants DEF TaskEnds
  <2>5. ASSUME NEW u \in Task, u # t PROVE WrittenDown(u)'
    <3>1. task'[u] = task[u] /\ WrittenDown(u) /\ task[u].pane # p
      BY <1>a, <1>b, <2>1, <2>4, <2>5 DEF OtherTasks
    <3>2. \A q \in Pane : q # p => option'[q].sess = option[q].sess
      BY <2>2 DEF OtherOptions
    <3> QED BY <3>1, <3>2, WrittenElsewhere
  <2> QED BY <2>3, <2>5
<1>17. ASSUME NEW p \in Pane, Announce(p)
       PROVE  \A u \in Task : WrittenDown(u)'
  BY <1>17, AnnounceEffect, <1>a, <1>c, Constants
     DEF WrittenDown, LaunchStep, At, Typed, OtherOptions, TaskGoes, TaskEnds, OtherTasks,
         NoTask
<1>18. ASSUME NEW p \in Pane, Prompt(p)
       PROVE  \A u \in Task : WrittenDown(u)'
  BY <1>18, PromptEffect, <1>a, <1>c, Constants
     DEF WrittenDown, LaunchStep, At, Typed, OtherOptions, TaskGoes, TaskEnds, OtherTasks,
         NoTask
<1>19. ASSUME NEW p \in Pane, Clear(p)
       PROVE  \A u \in Task : WrittenDown(u)'
  BY <1>19, ClearEffect, <1>a, <1>c, Constants
     DEF WrittenDown, LaunchStep, At, Typed, OtherOptions, TaskGoes, TaskEnds, OtherTasks,
         NoTask
<1>20. ASSUME NEW p \in Pane, Inner(p)
       PROVE  \A u \in Task : WrittenDown(u)'
  BY <1>20, InnerEffect, <1>a, <1>c, Constants
     DEF WrittenDown, LaunchStep, At, Typed, OtherOptions, TaskGoes, TaskEnds, OtherTasks,
         NoTask
<1>21. ASSUME NEW h \in Hook, Admit(h) \/ Arm(h) \/ Check(h) \/ Park(h) \/ Wake(h)
       PROVE  \A u \in Task : WrittenDown(u)'
  BY <1>21, WaitEffect, <1>a, <1>c, Constants
     DEF WrittenDown, LaunchStep, At, Typed, OtherOptions, TaskGoes, TaskEnds, OtherTasks,
         NoTask
<1>22. ASSUME NEW h \in Hook, WaitOver(h)
       PROVE  \A u \in Task : WrittenDown(u)'
  BY <1>22, WaitOverEffect, <1>a, <1>c, Constants
     DEF WrittenDown, LaunchStep, At, Typed, OtherOptions, TaskGoes, TaskEnds, OtherTasks,
         NoTask
<1>23. ASSUME NEW h \in Hook, Lock(h)
       PROVE  \A u \in Task : WrittenDown(u)'
  BY <1>23, LockEffect, <1>a, <1>c, Constants
     DEF WrittenDown, LaunchStep, At, Typed, OtherOptions, TaskGoes, TaskEnds, OtherTasks,
         NoTask
<1>24. ASSUME NEW h \in Hook, TakePath(h)
       PROVE  \A u \in Task : WrittenDown(u)'
  <2>1. UNCHANGED task /\ (\A q \in Pane : option'[q].sess = option[q].sess)
    BY <1>24, TakePathEffect DEF OtherOptions
  <2> QED BY <1>a, <1>c, <2>1 DEF WrittenDown, At, LaunchStep
<1>25. ASSUME NEW h \in Hook, Bind(h)
       PROVE  \A u \in Task : WrittenDown(u)'
  BY <1>25, BindEffect, <1>a, <1>c, Constants
     DEF WrittenDown, LaunchStep, At, Typed, OtherOptions, TaskGoes, TaskEnds, OtherTasks,
         NoTask
<1>26. ASSUME NEW h \in Hook, PersistBound(h)
       PROVE  \A u \in Task : WrittenDown(u)'
  <2>1. PICK p \in Pane : p = job[h].pane
    BY <1>26, PersistBoundEffect
  <2>2. UNCHANGED task /\ Writes(p, Bound(state[p], h))
    BY <1>26, <2>1, PersistBoundEffect
  <2>3. Bound(state[p], h) # None
    BY <1>26, <2>1, BoundNames, PersistBoundEffect
  <2> QED BY <1>a, <1>c, <2>2, <2>3 DEF WrittenDown, At, LaunchStep, Writes, OtherOptions
<1>27. ASSUME NEW p \in Pane, PsRefresh(p)
       PROVE  \A u \in Task : WrittenDown(u)'
  BY <1>27, PsRefreshEffect, <1>a, <1>c, Constants
     DEF WrittenDown, LaunchStep, At, Typed, OtherOptions, TaskGoes, TaskEnds, OtherTasks,
         NoTask
<1>28. ASSUME Restart PROVE \A u \in Task : WrittenDown(u)'
  BY <1>28, RestartEffect, <1>a, <1>c, Constants
     DEF WrittenDown, LaunchStep, At, Typed, OtherOptions, TaskGoes, TaskEnds, OtherTasks,
         NoTask
<1>29. ASSUME UNCHANGED vars PROVE \A u \in Task : WrittenDown(u)'
  BY <1>29, <1>a, <1>c, Constants
     DEF WrittenDown, LaunchStep, At, Typed, OtherOptions, TaskGoes, TaskEnds, OtherTasks,
         NoTask, vars, agentVars
<1>30. ASSUME NEW t \in Task, Launch(t) PROVE \A u \in Task : WrittenDown(u)'
  <2>1. ForkByAgent(t) \/ ForkByServer(t) \/ ForkByCodex(t) =>
          ForkTo(t) /\ (task[t].verify /\ backend = "Codex" => task[t].target # Other)
    BY DEF ForkByAgent, ForkByServer, ForkByCodex, Hooked
  <2> QED BY <1>1, <1>2, <1>3, <1>4, <1>5, <1>6, <1>7, <1>8, <1>9,
             <1>10, <1>11, <1>12, <1>13, <1>14, <1>15, <1>16, <1>30, <2>1 DEF Launch
<1>31. ASSUME NEW p \in Pane, Agent(p) PROVE \A u \in Task : WrittenDown(u)'
  BY <1>17, <1>18, <1>19, <1>20, <1>31 DEF Agent
<1>32. ASSUME NEW h \in Hook, Handle(h) PROVE \A u \in Task : WrittenDown(u)'
  BY <1>21, <1>23, <1>24, <1>25, <1>26, <1>32 DEF Handle
<1> QED BY <1>22, <1>27, <1>28, <1>29, <1>30, <1>31, <1>32 DEF Next

\* A binding stays durable while neither side changes.
LEMMA DurableKept ==
  ASSUME NEW q, q \in managed => Durable(q), Unheld(q), UNCHANGED backend,
         q \in managed' <=> q \in managed,
         state'[q].sess = state[q].sess, option'[q].sess = option[q].sess,
         Launching(q) => Launching(q)', Writing(q) => Writing(q)'
  PROVE  (q \in managed => Durable(q))' /\ Unheld(q)'
BY DEF Durable, Unheld

\* Outside of the locks the option names what the state names.
LEMMA DurableStep ==
  ASSUME Typed, Patient, Sane, Kempt, [Next]_vars
  PROVE  \A q \in Pane : (q \in managed => Durable(q))' /\ Unheld(q)'
<1>a. \A q \in Pane : (q \in managed => Durable(q)) /\ Unheld(q)
  BY DEF Kempt
<1>b. \A u \in Task : task[u].pane # None <=> At(u, LaunchStep)
  BY DEF Typed, Placed
<1>1. ASSUME NEW t \in Task, NEW kind \in Kinds, RunAdmit(t, kind)
      PROVE  \A q \in Pane : (q \in managed => Durable(q))' /\ Unheld(q)'
  <2>1. /\ UNCHANGED <<backend, state, managed, job>>
        /\ \A q \in Pane : option'[q].sess = option[q].sess
    BY <1>1, RunAdmitEffect DEF Typed, OtherOptions
  <2>2. \A q \in Pane : (Launching(q) => Launching(q)') /\ (Writing(q) => Writing(q)')
    BY <1>1, <1>b, <2>1, RunAdmitEffect, Constants
       DEF Typed, Launching, Writing, At, LaunchStep, TaskGoes, TaskEnds, OtherTasks, NoTask
  <2> QED BY <1>a, <2>1, <2>2, DurableKept
<1>2. ASSUME NEW t \in Task, NEW p \in Pane, ForkAdmit(t, p)
      PROVE  \A q \in Pane : (q \in managed => Durable(q))' /\ Unheld(q)'
  <2>1. /\ UNCHANGED <<backend, state, managed, job>>
        /\ \A q \in Pane : option'[q].sess = option[q].sess
    BY <1>2, ForkAdmitEffect DEF Typed, OtherOptions
  <2>2. \A q \in Pane : (Launching(q) => Launching(q)') /\ (Writing(q) => Writing(q)')
    BY <1>2, <1>b, <2>1, ForkAdmitEffect, Constants
       DEF Typed, Launching, Writing, At, LaunchStep, TaskGoes, TaskEnds, OtherTasks, NoTask
  <2> QED BY <1>a, <2>1, <2>2, DurableKept
<1>3. ASSUME NEW t \in Task, ForkLock(t)
      PROVE  \A q \in Pane : (q \in managed => Durable(q))' /\ Unheld(q)'
  <2>1. /\ UNCHANGED <<backend, state, managed, job>>
        /\ \A q \in Pane : option'[q].sess = option[q].sess
    BY <1>3, ForkLockEffect DEF Typed, OtherOptions
  <2>2. \A q \in Pane : (Launching(q) => Launching(q)') /\ (Writing(q) => Writing(q)')
    BY <1>3, <1>b, <2>1, ForkLockEffect, Constants
       DEF Typed, Launching, Writing, At, LaunchStep, TaskGoes, TaskEnds, OtherTasks, NoTask
  <2> QED BY <1>a, <2>1, <2>2, DurableKept
<1>4. ASSUME NEW t \in Task, ForkFails(t)
      PROVE  \A q \in Pane : (q \in managed => Durable(q))' /\ Unheld(q)'
  <2>1. /\ UNCHANGED <<backend, state, managed, job>>
        /\ \A q \in Pane : option'[q].sess = option[q].sess
    BY <1>4, ForkFailsEffect DEF Typed, OtherOptions
  <2>2. \A q \in Pane : (Launching(q) => Launching(q)') /\ (Writing(q) => Writing(q)')
    BY <1>4, <1>b, <2>1, ForkFailsEffect, Constants
       DEF Typed, Launching, Writing, At, LaunchStep, TaskGoes, TaskEnds, OtherTasks, NoTask
  <2> QED BY <1>a, <2>1, <2>2, DurableKept
<1>5. ASSUME NEW t \in Task, ForkTo(t), (task[t].verify /\ backend = "Codex" => task[t].target # Other)
      PROVE  \A q \in Pane : (q \in managed => Durable(q))' /\ Unheld(q)'
  <2>1. /\ UNCHANGED <<backend, state, managed, job>>
        /\ \A q \in Pane : option'[q].sess = option[q].sess
    BY <1>5, ForkToEffect DEF Typed, OtherOptions
  <2>2. \A q \in Pane : (Launching(q) => Launching(q)') /\ (Writing(q) => Writing(q)')
    BY <1>5, <1>b, <2>1, ForkToEffect, Constants
       DEF Typed, Launching, Writing, At, LaunchStep, TaskGoes, TaskEnds, OtherTasks, NoTask
  <2> QED BY <1>a, <2>1, <2>2, DurableKept
<1>6. ASSUME NEW t \in Task, ForkKeep(t)
      PROVE  \A q \in Pane : (q \in managed => Durable(q))' /\ Unheld(q)'
  <2>1. PICK p \in Pane : p = task[t].src
    BY <1>6, ForkKeepEffect
  <2>2. p \in managed /\ UNCHANGED <<backend, managed, job>> /\ OtherTasks(t)
        /\ task[t].pc = "keep" /\ Names(p, task[t].target) /\ Writes(p, task[t].target)
    BY <1>6, <2>1, KeepNames, ForkKeepEffect DEF At
  <2>3. \A q \in Pane : (Launching(q) => Launching(q)') /\ (Writing(q) => Writing(q)')
    BY <1>b, <2>2, Constants DEF Launching, Writing, At, LaunchStep, OtherTasks
  <2>4. (p \in managed => Durable(p))' /\ Unheld(p)'
    BY <2>2 DEF Durable, Unheld, Names, Writes
  <2>5. ASSUME NEW q \in Pane, q # p
        PROVE  (q \in managed => Durable(q))' /\ Unheld(q)'
    BY <1>a, <2>2, <2>3, <2>5, DurableKept DEF Names, Writes, OtherStates, OtherOptions
  <2> QED BY <2>4, <2>5
<1>7. ASSUME NEW t \in Task, Spawn(t)
      PROVE  \A q \in Pane : (q \in managed => Durable(q))' /\ Unheld(q)'
  <2>1. PICK p \in Pane :
          /\ UNCHANGED <<backend, state, managed, job>> /\ OtherTasks(t)
          /\ task[t].pc = "spawn" /\ ~agent[p].live /\ OtherOptions(p)
    BY <1>7, SpawnEffect DEF Writes
  <2>2. \A q \in Pane : (Launching(q) => Launching(q)') /\ (Writing(q) => Writing(q)')
    BY <1>b, <2>1, Constants DEF Launching, Writing, At, LaunchStep, OtherTasks
  <2>3. p \notin managed
    BY <2>1 DEF Sane, AgentSane, Unborn
  <2>4. (p \in managed => Durable(p))' /\ Unheld(p)'
    BY <1>a, <2>1, <2>3 DEF Unheld
  <2>5. ASSUME NEW q \in Pane, q # p
        PROVE  (q \in managed => Durable(q))' /\ Unheld(q)'
    BY <1>a, <2>1, <2>2, <2>5, DurableKept DEF OtherOptions
  <2> QED BY <2>4, <2>5
<1>8. ASSUME NEW t \in Task, SpawnFails(t)
      PROVE  \A q \in Pane : (q \in managed => Durable(q))' /\ Unheld(q)'
  <2>1. /\ UNCHANGED <<backend, state, managed, job>>
        /\ \A q \in Pane : option'[q].sess = option[q].sess
    BY <1>8, SpawnFailsEffect DEF Typed, OtherOptions
  <2>2. \A q \in Pane : (Launching(q) => Launching(q)') /\ (Writing(q) => Writing(q)')
    BY <1>8, <1>b, <2>1, SpawnFailsEffect, Constants
       DEF Typed, Launching, Writing, At, LaunchStep, TaskGoes, TaskEnds, OtherTasks, NoTask
  <2> QED BY <1>a, <2>1, <2>2, DurableKept
<1>9. ASSUME NEW t \in Task, PersistKnown(t)
      PROVE  \A q \in Pane : (q \in managed => Durable(q))' /\ Unheld(q)'
  <2>1. PICK p \in Pane : p = task[t].pane
    BY <1>9, PersistKnownEffect
  <2>2. At(t, LaunchStep) /\ UNCHANGED <<backend, job>>
    BY <1>9, PersistKnownEffect DEF At, LaunchStep
  <2>3. \A q \in Pane : q # p =>
          /\ q \in managed' <=> q \in managed
          /\ state'[q].sess = state[q].sess /\ option'[q].sess = option[q].sess
    BY <1>9, <2>1, PersistKnownEffect DEF OtherStates, OtherOptions, Names, Writes, Drives
  <2>4. \A q \in Pane : /\ q # p \/ ~At(t, {"persist", "runtime"}) => (Launching(q) => Launching(q)')
                        /\ Writing(q) => Writing(q)'
    BY <1>9, <2>1, <2>2, PersistKnownEffect, Constants
       DEF Launching, Writing, At, TaskGoes, TaskEnds, OtherTasks, NoTask
  <2>a. p \notin managed
    BY <1>9, <2>1, <2>2, PersistKnownEffect DEF Sane, TaskSane, LaunchSane, At, Unlisted
  <2>5. (p \in managed => Durable(p))' /\ Unheld(p)'
    BY <1>9, <1>a, <2>1, <2>a, PersistKnownEffect DEF Unheld
  <2>6. ASSUME NEW q \in Pane, q # p
        PROVE  (q \in managed => Durable(q))' /\ Unheld(q)'
    BY <1>a, <2>2, <2>3, <2>4, <2>6, DurableKept
  <2> QED BY <2>5, <2>6
<1>10. ASSUME NEW t \in Task, RestoreBackend(t)
       PROVE  \A q \in Pane : (q \in managed => Durable(q))' /\ Unheld(q)'
  <2>1. PICK p \in Pane : p = task[t].pane
    BY <1>10, RestoreBackendEffect
  <2>2. At(t, LaunchStep) /\ UNCHANGED <<backend, job>>
    BY <1>10, RestoreBackendEffect DEF At, LaunchStep
  <2>3. \A q \in Pane : q # p =>
          /\ q \in managed' <=> q \in managed
          /\ state'[q].sess = state[q].sess /\ option'[q].sess = option[q].sess
    BY <1>10, <2>1, RestoreBackendEffect
       DEF OtherStates, OtherOptions, Names, Writes, Drives
  <2>4. \A q \in Pane : /\ q # p \/ ~At(t, {"persist", "runtime"}) => (Launching(q) => Launching(q)')
                        /\ Writing(q) => Writing(q)'
    BY <1>10, <2>1, <2>2, RestoreBackendEffect, Constants
       DEF Launching, Writing, At, TaskGoes, TaskEnds, OtherTasks, NoTask
  <2>a. p \notin managed
    BY <1>10, <2>1, <2>2, RestoreBackendEffect DEF Sane, TaskSane, LaunchSane, At, Unlisted
  <2>5. (p \in managed => Durable(p))' /\ Unheld(p)'
    BY <1>10, <1>a, <2>1, <2>a, RestoreBackendEffect DEF Unheld
  <2>6. ASSUME NEW q \in Pane, q # p
        PROVE  (q \in managed => Durable(q))' /\ Unheld(q)'
    BY <1>a, <2>2, <2>3, <2>4, <2>6, DurableKept
  <2> QED BY <2>5, <2>6
<1>11. ASSUME NEW t \in Task, Register(t)
       PROVE  \A q \in Pane : (q \in managed => Durable(q))' /\ Unheld(q)'
  <2>1. PICK p \in Pane : p = task[t].pane
    BY <1>11, RegisterEffect
  <2>2. At(t, LaunchStep) /\ UNCHANGED backend
    BY <1>11, RegisterEffect DEF At, LaunchStep
  <2>3. \A q \in Pane : q # p =>
          /\ q \in managed' <=> q \in managed
          /\ state'[q].sess = state[q].sess /\ option'[q].sess = option[q].sess
    BY <1>11, <2>1, RegisterEffect DEF OtherStates, OtherOptions, Names, Writes, Drives
  <2>4. \A q \in Pane : /\ q # p \/ ~At(t, {"persist", "runtime"}) => (Launching(q) => Launching(q)')
                        /\ Writing(q) => Writing(q)'
    BY <1>11, <2>1, <2>2, RegisterEffect, Constants
       DEF Launching, Writing, At, TaskGoes, TaskEnds, OtherTasks, NoTask
  <2>a. p \notin managed
    BY <1>11, <2>1, <2>2, RegisterEffect DEF Sane, TaskSane, LaunchSane, At, Unlisted
  <2>b. Launching(p)' /\ p \in managed' /\ state'[p].sess = state[p].sess
    BY <1>11, <2>1, RegisterEffect DEF Launching, TaskGoes
  <2>5. (p \in managed => Durable(p))' /\ Unheld(p)'
    BY <1>a, <2>2, <2>a, <2>b DEF Unheld, Durable
  <2>6. ASSUME NEW q \in Pane, q # p
        PROVE  (q \in managed => Durable(q))' /\ Unheld(q)'
    BY <1>a, <2>2, <2>3, <2>4, <2>6, DurableKept
  <2> QED BY <2>5, <2>6
<1>12. ASSUME NEW t \in Task, Mark(t)
       PROVE  \A q \in Pane : (q \in managed => Durable(q))' /\ Unheld(q)'
  <2>1. /\ UNCHANGED <<backend, state, managed, job>>
        /\ \A q \in Pane : option'[q].sess = option[q].sess
    BY <1>12, MarkEffect DEF Typed, OtherOptions
  <2>2. \A q \in Pane : (Launching(q) => Launching(q)') /\ (Writing(q) => Writing(q)')
    BY <1>12, <1>b, <2>1, MarkEffect, Constants
       DEF Typed, Launching, Writing, At, LaunchStep, TaskGoes, TaskEnds, OtherTasks, NoTask
  <2> QED BY <1>a, <2>1, <2>2, DurableKept
<1>13. ASSUME NEW t \in Task, PersistRestored(t)
       PROVE  \A q \in Pane : (q \in managed => Durable(q))' /\ Unheld(q)'
  <2>1. PICK p \in Pane : p = task[t].pane
    BY <1>13, PersistRestoredEffect
  <2>2. At(t, LaunchStep) /\ UNCHANGED <<backend, job>>
    BY <1>13, PersistRestoredEffect DEF At, LaunchStep
  <2>3. \A q \in Pane : q # p =>
          /\ q \in managed' <=> q \in managed
          /\ state'[q].sess = state[q].sess /\ option'[q].sess = option[q].sess
    BY <1>13, <2>1, PersistRestoredEffect
       DEF OtherStates, OtherOptions, Names, Writes, Drives
  <2>4. \A q \in Pane : /\ q # p \/ ~At(t, {"persist", "runtime"}) => (Launching(q) => Launching(q)')
                        /\ Writing(q) => Writing(q)'
    BY <1>13, <2>1, <2>2, PersistRestoredEffect, Constants
       DEF Launching, Writing, At, TaskGoes, TaskEnds, OtherTasks, NoTask
  <2>a. /\ task[t].target = agent[p].sess
        /\ state[p].sess \in {None, agent[p].sess}
    BY <1>13, <2>1, <2>2, LaunchNames, PersistRestoredEffect DEF At
  <2>b. p \in managed
    BY <1>13, <2>1, <2>2, PersistRestoredEffect DEF Sane, TaskSane, LaunchSane, At, Unlisted
  <2>c. /\ option'[p].sess = task[t].target /\ UNCHANGED <<state, managed>>
    BY <1>13, <2>1, PersistRestoredEffect DEF Writes
  <2>5. (p \in managed => Durable(p))' /\ Unheld(p)'
    BY <2>a, <2>b, <2>c DEF Durable, Unheld
  <2>6. ASSUME NEW q \in Pane, q # p
        PROVE  (q \in managed => Durable(q))' /\ Unheld(q)'
    BY <1>a, <2>2, <2>3, <2>4, <2>6, DurableKept
  <2> QED BY <2>5, <2>6
<1>14. ASSUME NEW t \in Task, Seed(t)
       PROVE  \A q \in Pane : (q \in managed => Durable(q))' /\ Unheld(q)'
  <2>1. PICK p \in Pane : p = task[t].pane
    BY <1>14, SeedEffect
  <2>2. At(t, LaunchStep) /\ UNCHANGED <<backend, job>>
    BY <1>14, SeedEffect DEF At, LaunchStep
  <2>3. \A q \in Pane : q # p =>
          /\ q \in managed' <=> q \in managed
          /\ state'[q].sess = state[q].sess /\ option'[q].sess = option[q].sess
    BY <1>14, <2>1, SeedEffect DEF OtherStates, OtherOptions, Names, Writes, Drives
  <2>4. \A q \in Pane : /\ q # p \/ ~At(t, {"persist", "runtime"}) => (Launching(q) => Launching(q)')
                        /\ Writing(q) => Writing(q)'
    BY <1>14, <2>1, <2>2, SeedEffect, Constants
       DEF Launching, Writing, At, TaskGoes, TaskEnds, OtherTasks, NoTask
  <2>a. p \in managed /\ task[t].kind # "restore"
    BY <1>14, <2>1, <2>2, SeedEffect DEF Sane, TaskSane, LaunchSane, At, Unlisted
  <2>b. /\ Names(p, IF task[t].known = None THEN state[p].sess ELSE task[t].known)
        /\ UNCHANGED <<option, managed>>
    BY <1>14, <2>1, SeedEffect
  <2>c. task[t].known # None => option[p].sess = task[t].known
    <3>1. task[t].known # None => option[p].sess # None
      BY <1>14, <2>1, <2>a, SeedEffect DEF Kempt, WrittenDown, At
    <3> QED BY <2>1, <2>2, <3>1, LaunchNames
  <2>d. (Launching(p) => Launching(p)') /\ (Writing(p) => Writing(p)')
    BY <1>14, <2>4, SeedEffect DEF At
  <2>5. (p \in managed => Durable(p))' /\ Unheld(p)'
    BY <1>a, <2>2, <2>a, <2>b, <2>c, <2>d DEF Durable, Unheld, Names
  <2>6. ASSUME NEW q \in Pane, q # p
        PROVE  (q \in managed => Durable(q))' /\ Unheld(q)'
    BY <1>a, <2>2, <2>3, <2>4, <2>6, DurableKept
  <2> QED BY <2>5, <2>6
<1>15. ASSUME NEW t \in Task, Attach(t)
       PROVE  \A q \in Pane : (q \in managed => Durable(q))' /\ Unheld(q)'
  <2>1. PICK p \in Pane : p = task[t].pane
    BY <1>15, AttachEffect
  <2>2. At(t, LaunchStep) /\ UNCHANGED <<backend, job>>
    BY <1>15, AttachEffect DEF At, LaunchStep
  <2>3. \A q \in Pane : q # p =>
          /\ q \in managed' <=> q \in managed
          /\ state'[q].sess = state[q].sess /\ option'[q].sess = option[q].sess
    BY <1>15, <2>1, AttachEffect DEF OtherStates, OtherOptions, Names, Writes, Drives
  <2>4. \A q \in Pane : /\ q # p \/ ~At(t, {"persist", "runtime"}) => (Launching(q) => Launching(q)')
                        /\ Writing(q) => Writing(q)'
    BY <1>15, <2>1, <2>2, AttachEffect, Constants
       DEF Launching, Writing, At, TaskGoes, TaskEnds, OtherTasks, NoTask
  <2>a. p \in managed /\ UNCHANGED managed
    BY <1>15, <2>1, <2>2, AttachEffect DEF Sane, TaskSane, LaunchSane, At, Unlisted
  <2>b. /\ option'[p].sess = option[p].sess
        /\ backend \in {"Claude", "Codex"} => state'[p].sess = state[p].sess
    BY <1>15, <2>1, AttachEffect DEF Names, Hooked
  <2>c. Launching(p)' /\ (Writing(p) => Writing(p)')
    BY <1>15, <2>1, <2>4, AttachEffect DEF Launching, TaskGoes
  <2>5. (p \in managed => Durable(p))' /\ Unheld(p)'
    BY <1>a, <2>2, <2>a, <2>b, <2>c DEF Durable, Unheld
  <2>6. ASSUME NEW q \in Pane, q # p
        PROVE  (q \in managed => Durable(q))' /\ Unheld(q)'
    BY <1>a, <2>2, <2>3, <2>4, <2>6, DurableKept
  <2> QED BY <2>5, <2>6
<1>16. ASSUME NEW t \in Task, AttachRuntime(t)
       PROVE  \A q \in Pane : (q \in managed => Durable(q))' /\ Unheld(q)'
  <2>1. PICK p \in Pane : p = task[t].pane
    BY <1>16, AttachRuntimeEffect
  <2>2. At(t, LaunchStep) /\ UNCHANGED <<backend, job>>
    BY <1>16, AttachRuntimeEffect DEF At, LaunchStep
  <2>3. \A q \in Pane : q # p =>
          /\ q \in managed' <=> q \in managed
          /\ state'[q].sess = state[q].sess /\ option'[q].sess = option[q].sess
    BY <1>16, <2>1, AttachRuntimeEffect DEF OtherStates, OtherOptions, Names, Writes, Drives
  <2>4. \A q \in Pane : /\ q # p \/ ~At(t, {"persist", "runtime"}) => (Launching(q) => Launching(q)')
                        /\ Writing(q) => Writing(q)'
    BY <1>16, <2>1, <2>2, AttachRuntimeEffect, Constants
       DEF Launching, Writing, At, TaskGoes, TaskEnds, OtherTasks, NoTask
  <2>a. p \in managed /\ UNCHANGED managed
    BY <1>16, <2>1, <2>2, AttachRuntimeEffect DEF Sane, TaskSane, LaunchSane, At, Unlisted
  <2>b. /\ Writes(p, IF backend \in {"Claude", "Codex"} \/ state[p].sess = None
                     THEN option[p].sess ELSE state[p].sess)
        /\ state'[p].sess = state[p].sess
    BY <1>16, <2>1, AttachRuntimeEffect DEF Drives
  <2>5. (p \in managed => Durable(p))' /\ Unheld(p)'
    BY <1>a, <2>2, <2>4, <2>a, <2>b DEF Durable, Unheld, Writes
  <2>6. ASSUME NEW q \in Pane, q # p
        PROVE  (q \in managed => Durable(q))' /\ Unheld(q)'
    BY <1>a, <2>2, <2>3, <2>4, <2>6, DurableKept
  <2> QED BY <2>5, <2>6
<1>17. ASSUME NEW p \in Pane, Announce(p)
       PROVE  \A q \in Pane : (q \in managed => Durable(q))' /\ Unheld(q)'
  <2>1. /\ UNCHANGED <<backend, managed, task>>
        /\ \A q \in Pane : option'[q].sess = option[q].sess /\ state'[q].sess = state[q].sess
    BY <1>17, AnnounceEffect DEF Typed, OtherOptions, OtherStates
  <2>2. \A q \in Pane : (Launching(q) => Launching(q)') /\ (Writing(q) => Writing(q)')
    BY <1>17, <2>1, AnnounceEffect
       DEF Typed, Launching, Writing, JobGoes, JobEnds, OtherJobs
  <2> QED BY <1>a, <2>1, <2>2, DurableKept
<1>18. ASSUME NEW p \in Pane, Prompt(p)
       PROVE  \A q \in Pane : (q \in managed => Durable(q))' /\ Unheld(q)'
  <2>1. /\ UNCHANGED <<backend, managed, task>>
        /\ \A q \in Pane : option'[q].sess = option[q].sess /\ state'[q].sess = state[q].sess
    BY <1>18, PromptEffect DEF Typed, OtherOptions, OtherStates
  <2>2. \A q \in Pane : (Launching(q) => Launching(q)') /\ (Writing(q) => Writing(q)')
    BY <1>18, <2>1, PromptEffect DEF Typed, Launching, Writing, JobGoes, JobEnds, OtherJobs
  <2> QED BY <1>a, <2>1, <2>2, DurableKept
<1>19. ASSUME NEW p \in Pane, Clear(p)
       PROVE  \A q \in Pane : (q \in managed => Durable(q))' /\ Unheld(q)'
  <2>1. /\ UNCHANGED <<backend, managed, task>>
        /\ \A q \in Pane : option'[q].sess = option[q].sess /\ state'[q].sess = state[q].sess
    BY <1>19, ClearEffect DEF Typed, OtherOptions, OtherStates
  <2>2. \A q \in Pane : (Launching(q) => Launching(q)') /\ (Writing(q) => Writing(q)')
    BY <1>19, <2>1, ClearEffect DEF Typed, Launching, Writing, JobGoes, JobEnds, OtherJobs
  <2> QED BY <1>a, <2>1, <2>2, DurableKept
<1>20. ASSUME NEW p \in Pane, Inner(p)
       PROVE  \A q \in Pane : (q \in managed => Durable(q))' /\ Unheld(q)'
  <2>1. /\ UNCHANGED <<backend, managed, task>>
        /\ \A q \in Pane : option'[q].sess = option[q].sess /\ state'[q].sess = state[q].sess
    BY <1>20, InnerEffect DEF Typed, OtherOptions, OtherStates
  <2>2. \A q \in Pane : (Launching(q) => Launching(q)') /\ (Writing(q) => Writing(q)')
    BY <1>20, <2>1, InnerEffect DEF Typed, Launching, Writing, JobGoes, JobEnds, OtherJobs
  <2> QED BY <1>a, <2>1, <2>2, DurableKept
<1>21. ASSUME NEW h \in Hook, Admit(h) \/ Arm(h) \/ Check(h) \/ Park(h) \/ Wake(h)
       PROVE  \A q \in Pane : (q \in managed => Durable(q))' /\ Unheld(q)'
  <2>1. /\ UNCHANGED <<backend, managed, task>>
        /\ \A q \in Pane : option'[q].sess = option[q].sess /\ state'[q].sess = state[q].sess
    BY <1>21, WaitEffect DEF Typed, OtherOptions, OtherStates
  <2>2. \A q \in Pane : (Launching(q) => Launching(q)') /\ (Writing(q) => Writing(q)')
    BY <1>21, <2>1, WaitEffect DEF Typed, Launching, Writing, JobGoes, JobEnds, OtherJobs
  <2> QED BY <1>a, <2>1, <2>2, DurableKept
<1>22. ASSUME NEW h \in Hook, WaitOver(h)
       PROVE  \A q \in Pane : (q \in managed => Durable(q))' /\ Unheld(q)'
  <2>1. /\ UNCHANGED <<backend, managed, task>>
        /\ \A q \in Pane : option'[q].sess = option[q].sess /\ state'[q].sess = state[q].sess
    BY <1>22, WaitOverEffect DEF Typed, OtherOptions, OtherStates
  <2>2. \A q \in Pane : (Launching(q) => Launching(q)') /\ (Writing(q) => Writing(q)')
    BY <1>22, <2>1, WaitOverEffect
       DEF Typed, Launching, Writing, JobGoes, JobEnds, OtherJobs
  <2> QED BY <1>a, <2>1, <2>2, DurableKept
<1>23. ASSUME NEW h \in Hook, Lock(h)
       PROVE  \A q \in Pane : (q \in managed => Durable(q))' /\ Unheld(q)'
  <2>1. /\ UNCHANGED <<backend, managed, task>>
        /\ \A q \in Pane : option'[q].sess = option[q].sess /\ state'[q].sess = state[q].sess
    BY <1>23, LockEffect DEF Typed, OtherOptions, OtherStates
  <2>2. \A q \in Pane : (Launching(q) => Launching(q)') /\ (Writing(q) => Writing(q)')
    BY <1>23, <2>1, LockEffect DEF Typed, Launching, Writing, JobGoes, JobEnds, OtherJobs
  <2> QED BY <1>a, <2>1, <2>2, DurableKept
<1>24. ASSUME NEW h \in Hook, TakePath(h)
       PROVE  \A q \in Pane : (q \in managed => Durable(q))' /\ Unheld(q)'
  <2>1. /\ UNCHANGED <<backend, managed, task>>
        /\ \A q \in Pane : option'[q].sess = option[q].sess /\ state'[q].sess = state[q].sess
    BY <1>24, TakePathEffect DEF Typed, OtherOptions, OtherStates
  <2>2. \A q \in Pane : (Launching(q) => Launching(q)') /\ (Writing(q) => Writing(q)')
    BY <1>24, <2>1, TakePathEffect
       DEF Typed, Launching, Writing, JobGoes, JobEnds, OtherJobs
  <2> QED BY <1>a, <2>1, <2>2, DurableKept
<1>25. ASSUME NEW h \in Hook, Bind(h)
       PROVE  \A q \in Pane : (q \in managed => Durable(q))' /\ Unheld(q)'
  <2>1. PICK p \in Pane : p = job[h].pane
    BY <1>25, BindEffect
  <2>2. /\ UNCHANGED <<backend, managed, task, option>> /\ OtherStates(p)
        /\ JobGoes(h, "persist") /\ p \in managed /\ job[h].pc = "start"
    BY <1>25, <2>1, BoundNames, BindEffect
  <2>3. \A q \in Pane : (Launching(q) => Launching(q)') /\ (Writing(q) => Writing(q)')
    BY <2>2 DEF Launching, Writing, JobGoes, OtherJobs
  <2>4. Writing(p)' /\ p \in managed'
    BY <2>1, <2>2 DEF Writing, JobGoes
  <2>5. (p \in managed => Durable(p))' /\ Unheld(p)'
    BY <2>4 DEF Durable, Unheld
  <2>6. ASSUME NEW q \in Pane, q # p
        PROVE  (q \in managed => Durable(q))' /\ Unheld(q)'
    BY <1>a, <2>2, <2>3, <2>6, DurableKept DEF OtherStates
  <2> QED BY <2>5, <2>6
<1>26. ASSUME NEW h \in Hook, PersistBound(h)
       PROVE  \A q \in Pane : (q \in managed => Durable(q))' /\ Unheld(q)'
  <2>1. PICK p \in Pane : p = job[h].pane
    BY <1>26, PersistBoundEffect
  <2>2. /\ UNCHANGED <<backend, managed, task, state>> /\ Writes(p, Bound(state[p], h))
        /\ JobEnds(h) /\ p \in managed /\ job[h].pc = "persist"
    BY <1>26, <2>1, BoundNames, PersistBoundEffect
  <2>3. \A q \in Pane : q # p => (Launching(q) => Launching(q)') /\ (Writing(q) => Writing(q)')
    BY <2>1, <2>2 DEF Launching, Writing, JobEnds, OtherJobs
  <2>4. state[p].sess = Bound(state[p], h)
    BY <2>1, <2>2 DEF Kempt, StillBound
  <2>5. (p \in managed => Durable(p))' /\ Unheld(p)'
    BY <2>2, <2>4 DEF Durable, Unheld, Writes
  <2>6. ASSUME NEW q \in Pane, q # p
        PROVE  (q \in managed => Durable(q))' /\ Unheld(q)'
    BY <1>a, <2>2, <2>3, <2>6, DurableKept DEF OtherOptions, Writes
  <2> QED BY <2>5, <2>6
<1>27. ASSUME NEW p \in Pane, PsRefresh(p)
       PROVE  \A q \in Pane : (q \in managed => Durable(q))' /\ Unheld(q)'
  <2>1. /\ UNCHANGED <<backend, managed, task, job, option>> /\ p \in managed
        /\ Names(p, option[p].sess)
    BY <1>27, PsRefreshEffect DEF Typed
  <2>2. \A q \in Pane : (Launching(q) => Launching(q)') /\ (Writing(q) => Writing(q)')
    BY <2>1 DEF Launching, Writing
  <2>3. (p \in managed => Durable(p))' /\ Unheld(p)'
    BY <2>1 DEF Durable, Unheld, Names
  <2>4. ASSUME NEW q \in Pane, q # p
        PROVE  (q \in managed => Durable(q))' /\ Unheld(q)'
    BY <1>a, <2>1, <2>2, <2>4, DurableKept DEF Names, OtherStates
  <2> QED BY <2>3, <2>4
<1>28. ASSUME Restart PROVE \A q \in Pane : (q \in managed => Durable(q))' /\ Unheld(q)'
  <2> QED BY <1>28, RestartEffect DEF Durable, Unheld, NoState
<1>29. ASSUME UNCHANGED vars PROVE \A q \in Pane : (q \in managed => Durable(q))' /\ Unheld(q)'
  <2>1. \A q \in Pane : (Launching(q) => Launching(q)') /\ (Writing(q) => Writing(q)')
    BY <1>29 DEF vars, agentVars, Launching, Writing
  <2> QED BY <1>29, <1>a, <2>1, DurableKept DEF vars, agentVars
<1>30. ASSUME NEW t \in Task, Launch(t) PROVE \A q \in Pane : (q \in managed => Durable(q))' /\ Unheld(q)'
  <2>1. ForkByAgent(t) \/ ForkByServer(t) \/ ForkByCodex(t) =>
          ForkTo(t) /\ (task[t].verify /\ backend = "Codex" => task[t].target # Other)
    BY DEF ForkByAgent, ForkByServer, ForkByCodex, Hooked
  <2> QED BY <1>1, <1>2, <1>3, <1>4, <1>5, <1>6, <1>7, <1>8, <1>9,
             <1>10, <1>11, <1>12, <1>13, <1>14, <1>15, <1>16, <1>30, <2>1 DEF Launch
<1>31. ASSUME NEW p \in Pane, Agent(p) PROVE \A q \in Pane : (q \in managed => Durable(q))' /\ Unheld(q)'
  BY <1>17, <1>18, <1>19, <1>20, <1>31 DEF Agent
<1>32. ASSUME NEW h \in Hook, Handle(h) PROVE \A q \in Pane : (q \in managed => Durable(q))' /\ Unheld(q)'
  BY <1>21, <1>23, <1>24, <1>25, <1>26, <1>32 DEF Handle
<1> QED BY <1>22, <1>27, <1>28, <1>29, <1>30, <1>31, <1>32 DEF Next

\* A handler goes on, and its pane keeps the pin and the binding.
LEMMA StillKept ==
  ASSUME Typed, Sane, Kempt, UNCHANGED backend, NEW h \in Hook, job[h].pc = "persist",
         NEW p \in Pane, p = job[h].pane,
         job'[h].pane = p, job'[h].pc = "persist", job'[h].sess = job[h].sess,
         state'[p].sess = state[p].sess, state'[p].pin = state[p].pin,
         state'[p].runtime.backend = state[p].runtime.backend
  PROVE  StillBound(h)'
<1>1. state[p].sess = Bound(state[p], h)
  BY DEF Kempt, StillBound
<1> QED BY <1>1 DEF StillBound, Bound

\* What a handler is about to write is still bound when it writes.
LEMMA StillStep ==
  ASSUME Typed, Patient, Sane, Kempt, [Next]_vars
  PROVE  \A g \in Hook : StillBound(g)'
<1>a. \A g \in Hook : StillBound(g)
  BY DEF Kempt
<1>b. \A g \in Hook : job[g].pc = "persist" =>
        /\ job[g].pane \in Pane /\ job[g].pane \in managed /\ mutex[job[g].pane] = g
        /\ state[job[g].pane].sess # None
        /\ state[job[g].pane].sess \in agent[job[g].pane].ran
  BY <1>a, BoundNames, PaneOf DEF StillBound
<1>1. ASSUME NEW t \in Task, NEW kind \in Kinds, RunAdmit(t, kind)
      PROVE  \A g \in Hook : StillBound(g)'
  <2> SUFFICES ASSUME NEW g \in Hook, job'[g].pc = "persist" PROVE StillBound(g)'
    BY DEF StillBound
  <2>1. /\ UNCHANGED backend /\ job[g].pc = "persist"
        /\ job'[g].pane = job[g].pane /\ job'[g].sess = job[g].sess
    BY <1>1, RunAdmitEffect DEF Typed, JobGoes, JobEnds, OtherJobs
  <2>2. PICK q \in Pane : q = job[g].pane
    BY <1>b, <2>1
  <2>3. /\ state'[q].sess = state[q].sess /\ state'[q].pin = state[q].pin
        /\ state'[q].runtime.backend = state[q].runtime.backend
    BY <1>1, RunAdmitEffect DEF Typed, OtherStates
  <2> QED BY <2>1, <2>2, <2>3, StillKept
<1>2. ASSUME NEW t \in Task, NEW p \in Pane, ForkAdmit(t, p)
      PROVE  \A g \in Hook : StillBound(g)'
  <2> SUFFICES ASSUME NEW g \in Hook, job'[g].pc = "persist" PROVE StillBound(g)'
    BY DEF StillBound
  <2>1. /\ UNCHANGED backend /\ job[g].pc = "persist"
        /\ job'[g].pane = job[g].pane /\ job'[g].sess = job[g].sess
    BY <1>2, ForkAdmitEffect DEF Typed, JobGoes, JobEnds, OtherJobs
  <2>2. PICK q \in Pane : q = job[g].pane
    BY <1>b, <2>1
  <2>3. /\ state'[q].sess = state[q].sess /\ state'[q].pin = state[q].pin
        /\ state'[q].runtime.backend = state[q].runtime.backend
    BY <1>2, ForkAdmitEffect DEF Typed, OtherStates
  <2> QED BY <2>1, <2>2, <2>3, StillKept
<1>3. ASSUME NEW t \in Task, ForkLock(t)
      PROVE  \A g \in Hook : StillBound(g)'
  <2> SUFFICES ASSUME NEW g \in Hook, job'[g].pc = "persist" PROVE StillBound(g)'
    BY DEF StillBound
  <2>1. /\ UNCHANGED backend /\ job[g].pc = "persist"
        /\ job'[g].pane = job[g].pane /\ job'[g].sess = job[g].sess
    BY <1>3, ForkLockEffect DEF Typed, JobGoes, JobEnds, OtherJobs
  <2>2. PICK q \in Pane : q = job[g].pane
    BY <1>b, <2>1
  <2>3. /\ state'[q].sess = state[q].sess /\ state'[q].pin = state[q].pin
        /\ state'[q].runtime.backend = state[q].runtime.backend
    BY <1>3, ForkLockEffect DEF Typed, OtherStates
  <2> QED BY <2>1, <2>2, <2>3, StillKept
<1>4. ASSUME NEW t \in Task, ForkFails(t)
      PROVE  \A g \in Hook : StillBound(g)'
  <2> SUFFICES ASSUME NEW g \in Hook, job'[g].pc = "persist" PROVE StillBound(g)'
    BY DEF StillBound
  <2>1. /\ UNCHANGED backend /\ job[g].pc = "persist"
        /\ job'[g].pane = job[g].pane /\ job'[g].sess = job[g].sess
    BY <1>4, ForkFailsEffect DEF Typed, JobGoes, JobEnds, OtherJobs
  <2>2. PICK q \in Pane : q = job[g].pane
    BY <1>b, <2>1
  <2>3. /\ state'[q].sess = state[q].sess /\ state'[q].pin = state[q].pin
        /\ state'[q].runtime.backend = state[q].runtime.backend
    BY <1>4, ForkFailsEffect DEF Typed, OtherStates
  <2> QED BY <2>1, <2>2, <2>3, StillKept
<1>5. ASSUME NEW t \in Task, ForkTo(t), (task[t].verify /\ backend = "Codex" => task[t].target # Other)
      PROVE  \A g \in Hook : StillBound(g)'
  <2> SUFFICES ASSUME NEW g \in Hook, job'[g].pc = "persist" PROVE StillBound(g)'
    BY DEF StillBound
  <2>1. /\ UNCHANGED backend /\ job[g].pc = "persist"
        /\ job'[g].pane = job[g].pane /\ job'[g].sess = job[g].sess
    BY <1>5, ForkToEffect DEF Typed, JobGoes, JobEnds, OtherJobs
  <2>2. PICK q \in Pane : q = job[g].pane
    BY <1>b, <2>1
  <2>3. /\ state'[q].sess = state[q].sess /\ state'[q].pin = state[q].pin
        /\ state'[q].runtime.backend = state[q].runtime.backend
    BY <1>5, ForkToEffect DEF Typed, OtherStates
  <2> QED BY <2>1, <2>2, <2>3, StillKept
<1>6. ASSUME NEW t \in Task, ForkKeep(t)
      PROVE  \A g \in Hook : StillBound(g)'
  <2> SUFFICES ASSUME NEW g \in Hook, job'[g].pc = "persist" PROVE StillBound(g)'
    BY DEF StillBound
  <2>1. UNCHANGED <<backend, job>>
    BY <1>6, ForkKeepEffect DEF Typed
  <2>2. PICK q \in Pane : q = job[g].pane /\ job[g].pc = "persist"
    BY <1>b, <2>1
  <2>a. q # task[t].src
    BY <1>6, <1>b, <2>2, ForkKeepEffect, Constants DEF Kempt, Held, At
  <2>3. /\ state'[q].sess = state[q].sess /\ state'[q].pin = state[q].pin
        /\ state'[q].runtime.backend = state[q].runtime.backend
    BY <1>6, <2>a, ForkKeepEffect DEF Names, OtherStates
  <2> QED BY <2>1, <2>2, <2>3, StillKept
<1>7. ASSUME NEW t \in Task, Spawn(t)
      PROVE  \A g \in Hook : StillBound(g)'
  <2> SUFFICES ASSUME NEW g \in Hook, job'[g].pc = "persist" PROVE StillBound(g)'
    BY DEF StillBound
  <2>1. UNCHANGED <<backend, job>>
    BY <1>7, SpawnEffect DEF Typed
  <2>2. PICK q \in Pane : q = job[g].pane /\ job[g].pc = "persist"
    BY <1>b, <2>1
  <2>3. /\ state'[q].sess = state[q].sess /\ state'[q].pin = state[q].pin
        /\ state'[q].runtime.backend = state[q].runtime.backend
    BY <1>7, SpawnEffect
  <2> QED BY <2>1, <2>2, <2>3, StillKept
<1>8. ASSUME NEW t \in Task, SpawnFails(t)
      PROVE  \A g \in Hook : StillBound(g)'
  <2> SUFFICES ASSUME NEW g \in Hook, job'[g].pc = "persist" PROVE StillBound(g)'
    BY DEF StillBound
  <2>1. /\ UNCHANGED backend /\ job[g].pc = "persist"
        /\ job'[g].pane = job[g].pane /\ job'[g].sess = job[g].sess
    BY <1>8, SpawnFailsEffect DEF Typed, JobGoes, JobEnds, OtherJobs
  <2>2. PICK q \in Pane : q = job[g].pane
    BY <1>b, <2>1
  <2>3. /\ state'[q].sess = state[q].sess /\ state'[q].pin = state[q].pin
        /\ state'[q].runtime.backend = state[q].runtime.backend
    BY <1>8, SpawnFailsEffect DEF Typed, OtherStates
  <2> QED BY <2>1, <2>2, <2>3, StillKept
<1>9. ASSUME NEW t \in Task, PersistKnown(t)
      PROVE  \A g \in Hook : StillBound(g)'
  <2> SUFFICES ASSUME NEW g \in Hook, job'[g].pc = "persist" PROVE StillBound(g)'
    BY DEF StillBound
  <2>1. UNCHANGED <<backend, job>>
    BY <1>9, PersistKnownEffect DEF Typed
  <2>2. PICK q \in Pane : q = job[g].pane /\ job[g].pc = "persist"
    BY <1>b, <2>1
  <2>a. q # task[t].pane
    BY <1>9, <1>b, <2>2, PersistKnownEffect
       DEF Sane, TaskSane, LaunchSane, At, LaunchStep, Unlisted
  <2>3. /\ state'[q].sess = state[q].sess /\ state'[q].pin = state[q].pin
        /\ state'[q].runtime.backend = state[q].runtime.backend
    BY <1>9, <2>a, PersistKnownEffect DEF OtherStates
  <2> QED BY <2>1, <2>2, <2>3, StillKept
<1>10. ASSUME NEW t \in Task, RestoreBackend(t)
       PROVE  \A g \in Hook : StillBound(g)'
  <2> SUFFICES ASSUME NEW g \in Hook, job'[g].pc = "persist" PROVE StillBound(g)'
    BY DEF StillBound
  <2>1. UNCHANGED <<backend, job>>
    BY <1>10, RestoreBackendEffect DEF Typed
  <2>2. PICK q \in Pane : q = job[g].pane /\ job[g].pc = "persist"
    BY <1>b, <2>1
  <2>a. q # task[t].pane
    BY <1>10, <1>b, <2>2, RestoreBackendEffect
       DEF Sane, TaskSane, LaunchSane, At, LaunchStep, Unlisted
  <2>3. /\ state'[q].sess = state[q].sess /\ state'[q].pin = state[q].pin
        /\ state'[q].runtime.backend = state[q].runtime.backend
    BY <1>10, <2>a, RestoreBackendEffect DEF OtherStates
  <2> QED BY <2>1, <2>2, <2>3, StillKept
<1>11. ASSUME NEW t \in Task, Register(t)
       PROVE  \A g \in Hook : StillBound(g)'
  <2> SUFFICES ASSUME NEW g \in Hook, job'[g].pc = "persist" PROVE StillBound(g)'
    BY DEF StillBound
  <2>1. /\ UNCHANGED backend /\ job[g].pc = "persist"
        /\ job'[g].pane = job[g].pane /\ job'[g].sess = job[g].sess
    BY <1>11, RegisterEffect DEF Typed, JobGoes, JobEnds, OtherJobs
  <2>2. PICK q \in Pane : q = job[g].pane
    BY <1>b, <2>1
  <2>a. q # task[t].pane
    BY <1>11, <1>b, <2>1, <2>2, RegisterEffect
       DEF Sane, TaskSane, LaunchSane, At, LaunchStep, Unlisted
  <2>3. /\ state'[q].sess = state[q].sess /\ state'[q].pin = state[q].pin
        /\ state'[q].runtime.backend = state[q].runtime.backend
    BY <1>11, RegisterEffect, <2>a, <2>2 DEF Typed, OtherStates
  <2> QED BY <2>1, <2>2, <2>3, StillKept
<1>12. ASSUME NEW t \in Task, Mark(t)
       PROVE  \A g \in Hook : StillBound(g)'
  <2> SUFFICES ASSUME NEW g \in Hook, job'[g].pc = "persist" PROVE StillBound(g)'
    BY DEF StillBound
  <2>1. /\ UNCHANGED backend /\ job[g].pc = "persist"
        /\ job'[g].pane = job[g].pane /\ job'[g].sess = job[g].sess
    BY <1>12, MarkEffect DEF Typed, JobGoes, JobEnds, OtherJobs
  <2>2. PICK q \in Pane : q = job[g].pane
    BY <1>b, <2>1
  <2>3. /\ state'[q].sess = state[q].sess /\ state'[q].pin = state[q].pin
        /\ state'[q].runtime.backend = state[q].runtime.backend
    BY <1>12, MarkEffect DEF Typed, OtherStates
  <2> QED BY <2>1, <2>2, <2>3, StillKept
<1>13. ASSUME NEW t \in Task, PersistRestored(t)
       PROVE  \A g \in Hook : StillBound(g)'
  <2> SUFFICES ASSUME NEW g \in Hook, job'[g].pc = "persist" PROVE StillBound(g)'
    BY DEF StillBound
  <2>1. /\ UNCHANGED backend /\ job[g].pc = "persist"
        /\ job'[g].pane = job[g].pane /\ job'[g].sess = job[g].sess
    BY <1>13, PersistRestoredEffect DEF Typed, JobGoes, JobEnds, OtherJobs
  <2>2. PICK q \in Pane : q = job[g].pane
    BY <1>b, <2>1
  <2>3. /\ state'[q].sess = state[q].sess /\ state'[q].pin = state[q].pin
        /\ state'[q].runtime.backend = state[q].runtime.backend
    BY <1>13, PersistRestoredEffect DEF Typed, OtherStates
  <2> QED BY <2>1, <2>2, <2>3, StillKept
<1>14. ASSUME NEW t \in Task, Seed(t)
       PROVE  \A g \in Hook : StillBound(g)'
  <2> SUFFICES ASSUME NEW g \in Hook, job'[g].pc = "persist" PROVE StillBound(g)'
    BY DEF StillBound
  <2>1. UNCHANGED <<backend, job>>
    BY <1>14, SeedEffect DEF Typed
  <2>2. PICK q \in Pane : q = job[g].pane /\ job[g].pc = "persist"
    BY <1>b, <2>1
  <2>a. ASSUME q = task[t].pane, task[t].known # None PROVE state[q].sess = task[t].known
    <3>1. At(t, LaunchStep)
      BY <1>14, SeedEffect DEF At, LaunchStep
    <3>2. /\ state[q].sess \in {None, agent[q].sess} /\ task[t].target = agent[q].sess
          /\ task[t].known = task[t].target
      BY <2>2, <2>a, <3>1, LaunchNames
    <3> QED BY <1>b, <2>2, <3>2
  <2>3. /\ state'[q].sess = state[q].sess /\ state'[q].pin = state[q].pin
        /\ state'[q].runtime.backend = state[q].runtime.backend
    BY <1>14, <2>a, SeedEffect DEF Names, OtherStates
  <2> QED BY <2>1, <2>2, <2>3, StillKept
<1>15. ASSUME NEW t \in Task, Attach(t)
       PROVE  \A g \in Hook : StillBound(g)'
  <2> SUFFICES ASSUME NEW g \in Hook, job'[g].pc = "persist" PROVE StillBound(g)'
    BY DEF StillBound
  <2>1. UNCHANGED <<backend, job>>
    BY <1>15, AttachEffect DEF Typed
  <2>2. PICK q \in Pane : q = job[g].pane /\ job[g].pc = "persist"
    BY <1>b, <2>1
  <2>a. ASSUME q = task[t].pane
        PROVE  /\ backend \in Hooked
               /\ task[t].known # None => state[q].sess = task[t].known
    <3>1. At(t, LaunchStep)
      BY <1>15, AttachEffect DEF At, LaunchStep
    <3>2. /\ state[q].sess \in {None, agent[q].sess}
          /\ task[t].known # None => /\ task[t].target = agent[q].sess
                                     /\ task[t].known = task[t].target
      BY <2>2, <2>a, <3>1, LaunchNames
    <3> QED BY <1>b, <2>2, <3>2, BoundNames
  <2>3. /\ state'[q].sess = state[q].sess /\ state'[q].pin = state[q].pin
        /\ state'[q].runtime.backend = state[q].runtime.backend
    <3>1. CASE q = task[t].pane
      <4>1. \E s \in {state[q].sess, task[t].known} : Names(q, s) /\ (s = None => s = state[q].sess)
        BY <1>15, <2>a, <3>1, AttachEffect DEF Hooked
      <4> QED BY <2>a, <3>1, <4>1 DEF Names
    <3>2. CASE q # task[t].pane
      BY <1>15, <3>2, AttachEffect DEF Names, OtherStates
    <3> QED BY <3>1, <3>2
  <2> QED BY <2>1, <2>2, <2>3, StillKept
<1>16. ASSUME NEW t \in Task, AttachRuntime(t)
       PROVE  \A g \in Hook : StillBound(g)'
  <2> SUFFICES ASSUME NEW g \in Hook, job'[g].pc = "persist" PROVE StillBound(g)'
    BY DEF StillBound
  <2>1. UNCHANGED <<backend, job>>
    BY <1>16, AttachRuntimeEffect DEF Typed
  <2>2. PICK q \in Pane : q = job[g].pane /\ job[g].pc = "persist"
    BY <1>b, <2>1
  <2>a. state[q].runtime.backend = backend
    BY <1>b, <2>2 DEF Sane, RuntimeSane
  <2>3. /\ state'[q].sess = state[q].sess /\ state'[q].pin = state[q].pin
        /\ state'[q].runtime.backend = state[q].runtime.backend
    BY <1>16, <2>a, AttachRuntimeEffect DEF Drives, OtherStates, Runtime
  <2> QED BY <2>1, <2>2, <2>3, StillKept
<1>17. ASSUME NEW p \in Pane, Announce(p)
       PROVE  \A g \in Hook : StillBound(g)'
  <2> SUFFICES ASSUME NEW g \in Hook, job'[g].pc = "persist" PROVE StillBound(g)'
    BY DEF StillBound
  <2>1. /\ UNCHANGED backend /\ job[g].pc = "persist"
        /\ job'[g].pane = job[g].pane /\ job'[g].sess = job[g].sess
    BY <1>17, AnnounceEffect DEF Typed, JobGoes, JobEnds, OtherJobs
  <2>2. PICK q \in Pane : q = job[g].pane
    BY <1>b, <2>1
  <2>3. /\ state'[q].sess = state[q].sess /\ state'[q].pin = state[q].pin
        /\ state'[q].runtime.backend = state[q].runtime.backend
    BY <1>17, AnnounceEffect DEF Typed, OtherStates
  <2> QED BY <2>1, <2>2, <2>3, StillKept
<1>18. ASSUME NEW p \in Pane, Prompt(p)
       PROVE  \A g \in Hook : StillBound(g)'
  <2> SUFFICES ASSUME NEW g \in Hook, job'[g].pc = "persist" PROVE StillBound(g)'
    BY DEF StillBound
  <2>1. /\ UNCHANGED backend /\ job[g].pc = "persist"
        /\ job'[g].pane = job[g].pane /\ job'[g].sess = job[g].sess
    BY <1>18, PromptEffect DEF Typed, JobGoes, JobEnds, OtherJobs
  <2>2. PICK q \in Pane : q = job[g].pane
    BY <1>b, <2>1
  <2>3. /\ state'[q].sess = state[q].sess /\ state'[q].pin = state[q].pin
        /\ state'[q].runtime.backend = state[q].runtime.backend
    BY <1>18, PromptEffect DEF Typed, OtherStates
  <2> QED BY <2>1, <2>2, <2>3, StillKept
<1>19. ASSUME NEW p \in Pane, Clear(p)
       PROVE  \A g \in Hook : StillBound(g)'
  <2> SUFFICES ASSUME NEW g \in Hook, job'[g].pc = "persist" PROVE StillBound(g)'
    BY DEF StillBound
  <2>1. /\ UNCHANGED backend /\ job[g].pc = "persist"
        /\ job'[g].pane = job[g].pane /\ job'[g].sess = job[g].sess
    BY <1>19, ClearEffect DEF Typed, JobGoes, JobEnds, OtherJobs
  <2>2. PICK q \in Pane : q = job[g].pane
    BY <1>b, <2>1
  <2>3. /\ state'[q].sess = state[q].sess /\ state'[q].pin = state[q].pin
        /\ state'[q].runtime.backend = state[q].runtime.backend
    BY <1>19, ClearEffect DEF Typed, OtherStates
  <2> QED BY <2>1, <2>2, <2>3, StillKept
<1>20. ASSUME NEW p \in Pane, Inner(p)
       PROVE  \A g \in Hook : StillBound(g)'
  <2> SUFFICES ASSUME NEW g \in Hook, job'[g].pc = "persist" PROVE StillBound(g)'
    BY DEF StillBound
  <2>1. /\ UNCHANGED backend /\ job[g].pc = "persist"
        /\ job'[g].pane = job[g].pane /\ job'[g].sess = job[g].sess
    BY <1>20, InnerEffect DEF Typed, JobGoes, JobEnds, OtherJobs
  <2>2. PICK q \in Pane : q = job[g].pane
    BY <1>b, <2>1
  <2>3. /\ state'[q].sess = state[q].sess /\ state'[q].pin = state[q].pin
        /\ state'[q].runtime.backend = state[q].runtime.backend
    BY <1>20, InnerEffect DEF Typed, OtherStates
  <2> QED BY <2>1, <2>2, <2>3, StillKept
<1>21. ASSUME NEW h \in Hook, Admit(h) \/ Arm(h) \/ Check(h) \/ Park(h) \/ Wake(h)
       PROVE  \A g \in Hook : StillBound(g)'
  <2> SUFFICES ASSUME NEW g \in Hook, job'[g].pc = "persist" PROVE StillBound(g)'
    BY DEF StillBound
  <2>1. /\ UNCHANGED backend /\ job[g].pc = "persist"
        /\ job'[g].pane = job[g].pane /\ job'[g].sess = job[g].sess
    BY <1>21, WaitEffect DEF Typed, JobGoes, JobEnds, OtherJobs
  <2>2. PICK q \in Pane : q = job[g].pane
    BY <1>b, <2>1
  <2>3. /\ state'[q].sess = state[q].sess /\ state'[q].pin = state[q].pin
        /\ state'[q].runtime.backend = state[q].runtime.backend
    BY <1>21, WaitEffect DEF Typed, OtherStates
  <2> QED BY <2>1, <2>2, <2>3, StillKept
<1>22. ASSUME NEW h \in Hook, WaitOver(h)
       PROVE  \A g \in Hook : StillBound(g)'
  <2> SUFFICES ASSUME NEW g \in Hook, job'[g].pc = "persist" PROVE StillBound(g)'
    BY DEF StillBound
  <2>1. /\ UNCHANGED backend /\ job[g].pc = "persist"
        /\ job'[g].pane = job[g].pane /\ job'[g].sess = job[g].sess
    BY <1>22, WaitOverEffect DEF Typed, JobGoes, JobEnds, OtherJobs
  <2>2. PICK q \in Pane : q = job[g].pane
    BY <1>b, <2>1
  <2>3. /\ state'[q].sess = state[q].sess /\ state'[q].pin = state[q].pin
        /\ state'[q].runtime.backend = state[q].runtime.backend
    BY <1>22, WaitOverEffect DEF Typed, OtherStates
  <2> QED BY <2>1, <2>2, <2>3, StillKept
<1>23. ASSUME NEW h \in Hook, Lock(h)
       PROVE  \A g \in Hook : StillBound(g)'
  <2> SUFFICES ASSUME NEW g \in Hook, job'[g].pc = "persist" PROVE StillBound(g)'
    BY DEF StillBound
  <2>1. /\ UNCHANGED backend /\ job[g].pc = "persist"
        /\ job'[g].pane = job[g].pane /\ job'[g].sess = job[g].sess
    BY <1>23, LockEffect DEF Typed, JobGoes, JobEnds, OtherJobs
  <2>2. PICK q \in Pane : q = job[g].pane
    BY <1>b, <2>1
  <2>3. /\ state'[q].sess = state[q].sess /\ state'[q].pin = state[q].pin
        /\ state'[q].runtime.backend = state[q].runtime.backend
    BY <1>23, LockEffect DEF Typed, OtherStates
  <2> QED BY <2>1, <2>2, <2>3, StillKept
<1>24. ASSUME NEW h \in Hook, TakePath(h)
       PROVE  \A g \in Hook : StillBound(g)'
  <2> SUFFICES ASSUME NEW g \in Hook, job'[g].pc = "persist" PROVE StillBound(g)'
    BY DEF StillBound
  <2>1. /\ UNCHANGED backend /\ job[g].pc = "persist"
        /\ job'[g].pane = job[g].pane /\ job'[g].sess = job[g].sess
    BY <1>24, TakePathEffect DEF Typed, JobGoes, JobEnds, OtherJobs
  <2>2. PICK q \in Pane : q = job[g].pane
    BY <1>b, <2>1
  <2>3. /\ state'[q].sess = state[q].sess /\ state'[q].pin = state[q].pin
        /\ state'[q].runtime.backend = state[q].runtime.backend
    BY <1>24, TakePathEffect DEF Typed, OtherStates
  <2> QED BY <2>1, <2>2, <2>3, StillKept
<1>25. ASSUME NEW h \in Hook, Bind(h)
       PROVE  \A g \in Hook : StillBound(g)'
  <2>1. PICK p \in Pane : p = job[h].pane
    BY <1>25, BindEffect
  <2>2. /\ UNCHANGED <<backend, mutex>> /\ job[h].pc = "start" /\ JobGoes(h, "persist")
        /\ OtherStates(p) /\ state'[p].sess = Bound(state[p], h)
        /\ state'[p].pin = state[p].pin
        /\ state'[p].runtime.backend = state[p].runtime.backend
    BY <1>25, <2>1, BindEffect
  <2>3. StillBound(h)'
    BY <2>1, <2>2 DEF StillBound, Bound, JobGoes
  <2>4. ASSUME NEW g \in Hook, g # h, job'[g].pc = "persist" PROVE StillBound(g)'
    <3>1. job'[g] = job[g]
      BY <2>2, <2>4 DEF JobGoes, OtherJobs
    <3>2. PICK q \in Pane : q = job[g].pane /\ q # p
      BY <1>b, <2>1, <2>2, <2>4, <3>1, BoundNames
    <3> QED BY <2>2, <2>4, <3>1, <3>2, StillKept DEF OtherStates
  <2> QED BY <2>3, <2>4 DEF StillBound
<1>26. ASSUME NEW h \in Hook, PersistBound(h)
       PROVE  \A g \in Hook : StillBound(g)'
  <2>1. JobEnds(h) /\ UNCHANGED <<backend, state>>
    BY <1>26, PersistBoundEffect
  <2>2. ASSUME NEW g \in Hook, job'[g].pc = "persist" PROVE StillBound(g)'
    <3>1. job'[g] = job[g]
      BY <2>1, <2>2 DEF JobEnds, OtherJobs
    <3>2. job[g].pane \in Pane
      BY <1>b, <2>2, <3>1
    <3> QED BY <2>1, <2>2, <3>1, <3>2, StillKept
  <2> QED BY <2>2 DEF StillBound
<1>27. ASSUME NEW p \in Pane, PsRefresh(p)
       PROVE  \A g \in Hook : StillBound(g)'
  <2> SUFFICES ASSUME NEW g \in Hook, job'[g].pc = "persist" PROVE StillBound(g)'
    BY DEF StillBound
  <2>1. UNCHANGED <<backend, job>>
    BY <1>27, PsRefreshEffect DEF Typed
  <2>2. PICK q \in Pane : q = job[g].pane /\ job[g].pc = "persist"
    BY <1>b, <2>1
  <2>a. q # p
    BY <1>27, <1>b, <2>2, PsRefreshEffect DEF Typed
  <2>3. /\ state'[q].sess = state[q].sess /\ state'[q].pin = state[q].pin
        /\ state'[q].runtime.backend = state[q].runtime.backend
    BY <1>27, <2>a, PsRefreshEffect DEF Typed, Names, OtherStates
  <2> QED BY <2>1, <2>2, <2>3, StillKept
<1>28. ASSUME Restart PROVE \A g \in Hook : StillBound(g)'
  <2> QED BY <1>28, RestartEffect DEF StillBound, NoJob
<1>29. ASSUME UNCHANGED vars PROVE \A g \in Hook : StillBound(g)'
  <2> QED BY <1>29, <1>a DEF vars, agentVars, StillBound, Bound
<1>30. ASSUME NEW t \in Task, Launch(t) PROVE \A g \in Hook : StillBound(g)'
  <2>1. ForkByAgent(t) \/ ForkByServer(t) \/ ForkByCodex(t) =>
          ForkTo(t) /\ (task[t].verify /\ backend = "Codex" => task[t].target # Other)
    BY DEF ForkByAgent, ForkByServer, ForkByCodex, Hooked
  <2> QED BY <1>1, <1>2, <1>3, <1>4, <1>5, <1>6, <1>7, <1>8, <1>9,
             <1>10, <1>11, <1>12, <1>13, <1>14, <1>15, <1>16, <1>30, <2>1 DEF Launch
<1>31. ASSUME NEW p \in Pane, Agent(p) PROVE \A g \in Hook : StillBound(g)'
  BY <1>17, <1>18, <1>19, <1>20, <1>31 DEF Agent
<1>32. ASSUME NEW h \in Hook, Handle(h) PROVE \A g \in Hook : StillBound(g)'
  BY <1>21, <1>23, <1>24, <1>25, <1>26, <1>32 DEF Handle
<1> QED BY <1>22, <1>27, <1>28, <1>29, <1>30, <1>31, <1>32 DEF Next

\* Initially nothing is bound, locked or written.
LEMMA KemptInit == Init => Kempt
<1> SUFFICES ASSUME Init PROVE Kempt
  OBVIOUS
<1>1. \A h \in Hook : job[h].pc = "idle"
  BY DEF Init, NoJob
<1>2. \A t \in Task : task[t].pc = "idle"
  BY DEF Init, NoTask
<1>3. \A p \in Pane : state[p].sess = None
  BY DEF Init, NoState
<1> QED BY <1>1, <1>2, <1>3
        DEF Kempt, Held, Unheld, Durable, Steady, WrittenDown, StillBound, Holding, At, LaunchStep

\* Every step preserves what BindingIsDurable rests on.
LEMMA KemptStep ==
  ASSUME Typed, Patient, Sane, Kempt, [Next]_vars
  PROVE  Kempt'
<1>1. \A p \in Pane : Held(p)' /\ Unheld(p)' /\ (p \in managed => Durable(p))'
  BY HeldStep, DurableStep
<1>2. \A t \in Task : Steady(t)' /\ WrittenDown(t)'
  BY SteadyStep, WrittenStep
<1>3. \A h \in Hook : StillBound(h)'
  BY StillStep
<1> QED BY <1>1, <1>2, <1>3 DEF Kempt

\* The second inductive invariant.
LEMMA KemptAlways ==
  ASSUME Patient
  PROVE  Spec => [](Typed /\ Sane /\ Kempt)
<1>1. Init => Typed /\ Sane /\ Kempt
  BY SaneInit, KemptInit
<1>2. Orderly
  BY DEF Patient
<1>3. Typed /\ Sane /\ Kempt /\ [Next]_vars => (Typed /\ Sane /\ Kempt)'
  BY <1>2, SaneStep, KemptStep
<1> QED BY <1>1, <1>3, PTL DEF Spec

\* The session a pane is bound to is the one its tmux option names, whenever no
\* handler or launch is in between: a restart of the daemon finds the binding
\* (persist_session, after the lock of the pane's binding).
THEOREM OptionsDurable ==
  ASSUME Patient
  PROVE  Spec => []BindingIsDurable
<1>1. Typed /\ Sane /\ Kempt => BindingIsDurable
  <2> SUFFICES ASSUME Typed, Sane, Kempt, NEW p \in Pane, p \in managed, mutex[p] = Free,
                      ~Launching(p), state[p].sess # None
               PROVE  option[p].sess = state[p].sess
    BY DEF BindingIsDurable, Typed, TypeOK
  <2>1. ~Writing(p)
    <3>1. \A h \in Hook : job[h].pc \in Holding /\ job[h].pane = p => mutex[p] = h
      BY DEF Kempt, Held
    <3> QED BY <3>1, BindingAssumption DEF Writing, Holding
  <2> QED BY <2>1 DEF Kempt, Durable
<1> QED BY <1>1, KemptAlways, PTL

-----------------------------------------------------------------------------
(* BindingFollowsAgent: the steps.                                         *)

\* The agents of a backend with hooks run sessions.
LEMMA AgentNames ==
  ASSUME Typed, Sane, NEW p \in Pane
  PROVE  /\ agent[p].sess # Other
         /\ agent[p].live /\ backend \in Hooked => agent[p].sess # None
         /\ ~agent[p].live => /\ agent[p] = NoAgent /\ state[p] = NoState
                              /\ option[p] = NoOption /\ p \notin managed
<1>1. Unborn(p) /\ Reports(p)
  BY DEF Sane, AgentSane
<1>2. ~agent[p].live => agent[p].sess = None
  BY <1>1 DEF Unborn, NoAgent
<1> QED BY <1>1, <1>2, Constants DEF Unborn, Reports, Hooked

\* The agents go on naming their own session, or the copy they are pinned to.
LEMMA SpeaksStep ==
  ASSUME Typed, Gentle, Sane, Kempt, Following, [Next]_vars
  PROVE  \A q \in Pane : Speaks(q)'
<1>a. \A q \in Pane : Speaks(q)
  BY DEF Following
<1>b. UNCHANGED restarts => \A q \in Pane : Pinned(q) => Pinned(q)'
  BY KeepStep DEF Kept
<1>1. ASSUME NEW t \in Task, NEW kind \in Kinds, RunAdmit(t, kind)
      PROVE  \A q \in Pane : Speaks(q)'
  <2>1. /\ UNCHANGED <<backend, agent>>
        /\ \A q \in Pane : state'[q].pin = state[q].pin
    BY <1>1, RunAdmitEffect DEF Typed, OtherStates, Names, Drives
  <2>2. \A q \in Pane : Pinned(q) => Pinned(q)'
    BY <1>1, <1>b, RunAdmitEffect DEF Typed
  <2> QED BY <1>a, <2>1, <2>2 DEF Speaks
<1>2. ASSUME NEW t \in Task, NEW p \in Pane, ForkAdmit(t, p)
      PROVE  \A q \in Pane : Speaks(q)'
  <2>1. /\ UNCHANGED <<backend, agent>>
        /\ \A q \in Pane : state'[q].pin = state[q].pin
    BY <1>2, ForkAdmitEffect DEF Typed, OtherStates, Names, Drives
  <2>2. \A q \in Pane : Pinned(q) => Pinned(q)'
    BY <1>2, <1>b, ForkAdmitEffect DEF Typed
  <2> QED BY <1>a, <2>1, <2>2 DEF Speaks
<1>3. ASSUME NEW t \in Task, ForkLock(t)
      PROVE  \A q \in Pane : Speaks(q)'
  <2>1. /\ UNCHANGED <<backend, agent>>
        /\ \A q \in Pane : state'[q].pin = state[q].pin
    BY <1>3, ForkLockEffect DEF Typed, OtherStates, Names, Drives
  <2>2. \A q \in Pane : Pinned(q) => Pinned(q)'
    BY <1>3, <1>b, ForkLockEffect DEF Typed
  <2> QED BY <1>a, <2>1, <2>2 DEF Speaks
<1>4. ASSUME NEW t \in Task, ForkFails(t)
      PROVE  \A q \in Pane : Speaks(q)'
  <2>1. /\ UNCHANGED <<backend, agent>>
        /\ \A q \in Pane : state'[q].pin = state[q].pin
    BY <1>4, ForkFailsEffect DEF Typed, OtherStates, Names, Drives
  <2>2. \A q \in Pane : Pinned(q) => Pinned(q)'
    BY <1>4, <1>b, ForkFailsEffect DEF Typed
  <2> QED BY <1>a, <2>1, <2>2 DEF Speaks
<1>5. ASSUME NEW t \in Task, ForkTo(t), (task[t].verify /\ backend = "Codex" => task[t].target # Other)
      PROVE  \A q \in Pane : Speaks(q)'
  <2>1. /\ UNCHANGED <<backend, agent>>
        /\ \A q \in Pane : state'[q].pin = state[q].pin
    BY <1>5, ForkToEffect DEF Typed, OtherStates, Names, Drives
  <2>2. \A q \in Pane : Pinned(q) => Pinned(q)'
    BY <1>5, <1>b, ForkToEffect DEF Typed
  <2> QED BY <1>a, <2>1, <2>2 DEF Speaks
<1>6. ASSUME NEW t \in Task, ForkKeep(t)
      PROVE  \A q \in Pane : Speaks(q)'
  <2>1. /\ UNCHANGED <<backend, agent>>
        /\ \A q \in Pane : state'[q].pin = state[q].pin
    BY <1>6, ForkKeepEffect DEF Typed, OtherStates, Names, Drives
  <2>2. \A q \in Pane : Pinned(q) => Pinned(q)'
    BY <1>6, <1>b, ForkKeepEffect DEF Typed
  <2> QED BY <1>a, <2>1, <2>2 DEF Speaks
<1>7. ASSUME NEW t \in Task, Spawn(t)
      PROVE  \A q \in Pane : Speaks(q)'
  <2>1. PICK p \in Pane :
          /\ UNCHANGED <<backend, state>> /\ OtherTasks(t) /\ task[t].pc = "spawn"
          /\ task'[t].pane = p /\ task'[t].kind = task[t].kind
          /\ task'[t].pc = IF task[t].kind = "restore" THEN "resume" ELSE "know"
          /\ OtherAgents(p) /\ ~agent[p].live /\ ~agent'[p].told
          /\ agent'[p].sess = CASE backend = "OpenCode" /\ task[t].kind = "fresh" -> None
                                [] task[t].kind = "resumeFork" -> Other
                                [] OTHER -> task[t].target
          /\ agent'[p].report = IF backend = "Claude" /\ task[t].kind = "fork"
                                THEN agent[task[t].src].sess ELSE agent'[p].sess
    BY <1>7, SpawnEffect
  <2>2. /\ task[t].target \in Session /\ task[t].kind # "resumeFork"
        /\ task[t].kind = "fork" => task[t].src \in Pane
    BY <2>1, PaneOf DEF Sane, TaskSane, Aims, At
  <2>3. agent'[p].report # Other /\ (backend \in Hooked => agent'[p].report # None)
    <3>1. task[t].kind = "fork" => agent[task[t].src].live
      BY <2>1 DEF Following, Asked, At
    <3> QED BY <2>1, <2>2, <3>1, AgentNames, Constants DEF Hooked
  <2>4. backend = "Claude" /\ task[t].kind = "fork" => Pinned(p)'
    BY <2>1 DEF Pinned, At
  <2>5. state[p].pin = None
    BY <2>1, AgentNames DEF NoState
  <2>6. Speaks(p)'
    BY <2>1, <2>3, <2>4, <2>5 DEF Speaks
  <2>7. \A q \in Pane : Pinned(q) => Pinned(q)'
    BY <1>7, <1>b, SpawnEffect
  <2> QED BY <1>a, <2>1, <2>6, <2>7 DEF Speaks, OtherAgents
<1>8. ASSUME NEW t \in Task, SpawnFails(t)
      PROVE  \A q \in Pane : Speaks(q)'
  <2>1. /\ UNCHANGED <<backend, agent>>
        /\ \A q \in Pane : state'[q].pin = state[q].pin
    BY <1>8, SpawnFailsEffect DEF Typed, OtherStates, Names, Drives
  <2>2. \A q \in Pane : Pinned(q) => Pinned(q)'
    BY <1>8, <1>b, SpawnFailsEffect DEF Typed
  <2> QED BY <1>a, <2>1, <2>2 DEF Speaks
<1>9. ASSUME NEW t \in Task, PersistKnown(t)
      PROVE  \A q \in Pane : Speaks(q)'
  <2>1. PICK p \in Pane : p = task[t].pane /\ At(t, LaunchStep)
    BY <1>9, PersistKnownEffect DEF At, LaunchStep
  <2>2. UNCHANGED <<backend, agent>> /\ OtherStates(p)
        /\ state'[p].pin \in {None, task[t].known}
    BY <1>9, <2>1, PersistKnownEffect
  <2>3. task[t].known \in {None, agent[p].sess}
    BY <2>1, LaunchNames
  <2>4. \A q \in Pane : Pinned(q) => Pinned(q)'
    BY <1>9, <1>b, PersistKnownEffect
  <2> QED BY <1>a, <2>2, <2>3, <2>4 DEF Speaks, OtherStates
<1>10. ASSUME NEW t \in Task, RestoreBackend(t)
       PROVE  \A q \in Pane : Speaks(q)'
  <2>1. /\ UNCHANGED <<backend, agent>>
        /\ \A q \in Pane : state'[q].pin = state[q].pin
    BY <1>10, RestoreBackendEffect DEF Typed, OtherStates, Names, Drives
  <2>2. \A q \in Pane : Pinned(q) => Pinned(q)'
    BY <1>10, <1>b, RestoreBackendEffect DEF Typed
  <2> QED BY <1>a, <2>1, <2>2 DEF Speaks
<1>11. ASSUME NEW t \in Task, Register(t)
       PROVE  \A q \in Pane : Speaks(q)'
  <2>1. /\ UNCHANGED <<backend, agent>>
        /\ \A q \in Pane : state'[q].pin = state[q].pin
    BY <1>11, RegisterEffect DEF Typed, OtherStates, Names, Drives
  <2>2. \A q \in Pane : Pinned(q) => Pinned(q)'
    BY <1>11, <1>b, RegisterEffect DEF Typed
  <2> QED BY <1>a, <2>1, <2>2 DEF Speaks
<1>12. ASSUME NEW t \in Task, Mark(t)
       PROVE  \A q \in Pane : Speaks(q)'
  <2>1. /\ UNCHANGED <<backend, agent>>
        /\ \A q \in Pane : state'[q].pin = state[q].pin
    BY <1>12, MarkEffect DEF Typed, OtherStates, Names, Drives
  <2>2. \A q \in Pane : Pinned(q) => Pinned(q)'
    BY <1>12, <1>b, MarkEffect DEF Typed
  <2> QED BY <1>a, <2>1, <2>2 DEF Speaks
<1>13. ASSUME NEW t \in Task, PersistRestored(t)
       PROVE  \A q \in Pane : Speaks(q)'
  <2>1. /\ UNCHANGED <<backend, agent>>
        /\ \A q \in Pane : state'[q].pin = state[q].pin
    BY <1>13, PersistRestoredEffect DEF Typed, OtherStates, Names, Drives
  <2>2. \A q \in Pane : Pinned(q) => Pinned(q)'
    BY <1>13, <1>b, PersistRestoredEffect DEF Typed
  <2> QED BY <1>a, <2>1, <2>2 DEF Speaks
<1>14. ASSUME NEW t \in Task, Seed(t)
       PROVE  \A q \in Pane : Speaks(q)'
  <2>1. /\ UNCHANGED <<backend, agent>>
        /\ \A q \in Pane : state'[q].pin = state[q].pin
    BY <1>14, SeedEffect DEF Typed, OtherStates, Names, Drives
  <2>2. \A q \in Pane : Pinned(q) => Pinned(q)'
    BY <1>14, <1>b, SeedEffect DEF Typed
  <2> QED BY <1>a, <2>1, <2>2 DEF Speaks
<1>15. ASSUME NEW t \in Task, Attach(t)
       PROVE  \A q \in Pane : Speaks(q)'
  <2>1. PICK p \in Pane : p = task[t].pane /\ At(t, LaunchStep) /\ task[t].pc = "attach"
    BY <1>15, AttachEffect DEF At, LaunchStep
  <2>2. /\ UNCHANGED backend /\ (\A q \in Pane : state'[q].pin = state[q].pin)
        /\ OtherAgents(p) /\ agent'[p].told = agent[p].told /\ agent'[p].report = agent[p].report
        /\ agent'[p].live = agent[p].live
        /\ \/ agent'[p].sess = agent[p].sess
           \/ backend \notin Hooked /\ agent'[p].sess = task[t].target
    BY <1>15, <2>1, AttachEffect DEF Names, OtherStates, OtherAgents
  <2>3. state[p].pin \in {None, task[t].target} \/ agent'[p].sess = agent[p].sess
    <3>1. /\ agent[p].ran \subseteq {None, agent[p].sess} /\ state[p].pin \in Own(p)
          /\ backend = "OpenCode" /\ task[t].kind = "fresh" => agent[p].sess = None
          /\ (backend = "OpenCode" /\ task[t].kind = "fresh") \/ task[t].target \in agent[p].ran
          /\ task[t].target \in Session
      BY <2>1
         DEF Kempt, Steady, Sane, AgentSane, Bindings, TaskSane, LaunchSane, Aims, At,
             LaunchStep
    <3> QED BY <3>1, Constants DEF Own
  <2>4. \A q \in Pane : Pinned(q) => Pinned(q)'
    BY <1>15, <1>b, AttachEffect
  <2> QED BY <1>a, <2>2, <2>3, <2>4 DEF Speaks, OtherAgents
<1>16. ASSUME NEW t \in Task, AttachRuntime(t)
       PROVE  \A q \in Pane : Speaks(q)'
  <2>1. /\ UNCHANGED <<backend, agent>>
        /\ \A q \in Pane : state'[q].pin = state[q].pin
    BY <1>16, AttachRuntimeEffect DEF Typed, OtherStates, Names, Drives
  <2>2. \A q \in Pane : Pinned(q) => Pinned(q)'
    BY <1>16, <1>b, AttachRuntimeEffect DEF Typed
  <2> QED BY <1>a, <2>1, <2>2 DEF Speaks
<1>17. ASSUME NEW p \in Pane, Announce(p)
       PROVE  \A q \in Pane : Speaks(q)'
  <2>1. /\ UNCHANGED <<backend, state>> /\ OtherAgents(p) /\ agent'[p].sess = agent[p].sess
        /\ agent'[p].report \in {agent[p].report, agent[p].sess} /\ backend \in Hooked
        /\ agent[p].live
    BY <1>17, <1>a, AnnounceEffect DEF Typed, Speaks
  <2>2. \A q \in Pane : Pinned(q) => Pinned(q)'
    BY <1>17, <1>b, AnnounceEffect DEF Typed
  <2> QED BY <1>a, <2>1, <2>2, AgentNames DEF Speaks, OtherAgents
<1>18. ASSUME NEW p \in Pane, Prompt(p)
       PROVE  \A q \in Pane : Speaks(q)'
  <2>1. /\ UNCHANGED <<backend, state>> /\ OtherAgents(p) /\ agent'[p].sess = agent[p].sess
        /\ agent'[p].report \in {agent[p].report, agent[p].sess} /\ backend \in Hooked
        /\ agent'[p].live = agent[p].live
    BY <1>18, <1>a, PromptEffect DEF Typed, Speaks
  <2>2. \A q \in Pane : Pinned(q) => Pinned(q)'
    BY <1>18, <1>b, PromptEffect DEF Typed
  <2> QED BY <1>a, <2>1, <2>2, AgentNames DEF Speaks, OtherAgents
<1>19. ASSUME NEW p \in Pane, Clear(p)
       PROVE  \A q \in Pane : Speaks(q)'
  <2>1. PICK n \in Session :
          /\ UNCHANGED <<backend, state>> /\ OtherAgents(p) /\ agent'[p].sess = n
          /\ agent'[p].report = n /\ ~agent'[p].told
    BY <1>19, ClearEffect DEF Typed
  <2>2. state[p].pin = None
    BY <1>19, ClearEffect DEF Typed, Gentle
  <2>3. \A q \in Pane : Pinned(q) => Pinned(q)'
    BY <1>19, <1>b, ClearEffect DEF Typed
  <2> QED BY <1>a, <2>1, <2>2, <2>3, Constants DEF Speaks, OtherAgents
<1>20. ASSUME NEW p \in Pane, Inner(p)
       PROVE  \A q \in Pane : Speaks(q)'
  <2>1. /\ UNCHANGED <<backend, agent>>
        /\ \A q \in Pane : state'[q].pin = state[q].pin
    BY <1>20, InnerEffect DEF Typed, OtherStates, Names, Drives
  <2>2. \A q \in Pane : Pinned(q) => Pinned(q)'
    BY <1>20, <1>b, InnerEffect DEF Typed
  <2> QED BY <1>a, <2>1, <2>2 DEF Speaks
<1>21. ASSUME NEW h \in Hook, Admit(h) \/ Arm(h) \/ Check(h) \/ Park(h) \/ Wake(h)
       PROVE  \A q \in Pane : Speaks(q)'
  <2>1. /\ UNCHANGED <<backend, agent>>
        /\ \A q \in Pane : state'[q].pin = state[q].pin
    BY <1>21, WaitEffect DEF Typed, OtherStates, Names, Drives
  <2>2. \A q \in Pane : Pinned(q) => Pinned(q)'
    BY <1>21, <1>b, WaitEffect DEF Typed
  <2> QED BY <1>a, <2>1, <2>2 DEF Speaks
<1>22. ASSUME NEW h \in Hook, WaitOver(h)
       PROVE  \A q \in Pane : Speaks(q)'
  <2>1. /\ UNCHANGED <<backend, agent>>
        /\ \A q \in Pane : state'[q].pin = state[q].pin
    BY <1>22, WaitOverEffect DEF Typed, OtherStates, Names, Drives
  <2>2. \A q \in Pane : Pinned(q) => Pinned(q)'
    BY <1>22, <1>b, WaitOverEffect DEF Typed
  <2> QED BY <1>a, <2>1, <2>2 DEF Speaks
<1>23. ASSUME NEW h \in Hook, Lock(h)
       PROVE  \A q \in Pane : Speaks(q)'
  <2>1. /\ UNCHANGED <<backend, agent>>
        /\ \A q \in Pane : state'[q].pin = state[q].pin
    BY <1>23, LockEffect DEF Typed, OtherStates, Names, Drives
  <2>2. \A q \in Pane : Pinned(q) => Pinned(q)'
    BY <1>23, <1>b, LockEffect DEF Typed
  <2> QED BY <1>a, <2>1, <2>2 DEF Speaks
<1>24. ASSUME NEW h \in Hook, TakePath(h)
       PROVE  \A q \in Pane : Speaks(q)'
  <2>1. /\ UNCHANGED <<backend, agent>>
        /\ \A q \in Pane : state'[q].pin = state[q].pin
    BY <1>24, TakePathEffect DEF Typed, OtherStates, Names, Drives
  <2>2. \A q \in Pane : Pinned(q) => Pinned(q)'
    BY <1>24, <1>b, TakePathEffect DEF Typed
  <2> QED BY <1>a, <2>1, <2>2 DEF Speaks
<1>25. ASSUME NEW h \in Hook, Bind(h)
       PROVE  \A q \in Pane : Speaks(q)'
  <2>1. /\ UNCHANGED <<backend, agent>>
        /\ \A q \in Pane : state'[q].pin = state[q].pin
    BY <1>25, BindEffect DEF Typed, OtherStates, Names, Drives
  <2>2. \A q \in Pane : Pinned(q) => Pinned(q)'
    BY <1>25, <1>b, BindEffect DEF Typed
  <2> QED BY <1>a, <2>1, <2>2 DEF Speaks
<1>26. ASSUME NEW h \in Hook, PersistBound(h)
       PROVE  \A q \in Pane : Speaks(q)'
  <2>1. /\ UNCHANGED <<backend, agent>>
        /\ \A q \in Pane : state'[q].pin = state[q].pin
    BY <1>26, PersistBoundEffect DEF Typed, OtherStates, Names, Drives
  <2>2. \A q \in Pane : Pinned(q) => Pinned(q)'
    BY <1>26, <1>b, PersistBoundEffect DEF Typed
  <2> QED BY <1>a, <2>1, <2>2 DEF Speaks
<1>27. ASSUME NEW p \in Pane, PsRefresh(p)
       PROVE  \A q \in Pane : Speaks(q)'
  <2>1. /\ UNCHANGED <<backend, agent>>
        /\ \A q \in Pane : state'[q].pin = state[q].pin
    BY <1>27, PsRefreshEffect DEF Typed, OtherStates, Names, Drives
  <2>2. \A q \in Pane : Pinned(q) => Pinned(q)'
    BY <1>27, <1>b, PsRefreshEffect DEF Typed
  <2> QED BY <1>a, <2>1, <2>2 DEF Speaks
<1>28. ASSUME Restart PROVE \A q \in Pane : Speaks(q)'
  <2>1. \A q \in Pane : agent[q].live => agent[q].report = agent[q].sess
    BY <1>28, RestartEffect DEF Silent, Gentle, Patient, Orderly
  <2>2. \A q \in Pane : ~agent[q].live => agent[q].report = agent[q].sess
    BY AgentNames DEF NoAgent
  <2>3. UNCHANGED <<backend, agent>> /\ (\A q \in Pane : state'[q].pin = None)
    BY <1>28, RestartEffect DEF NoState
  <2> QED BY <1>a, <2>1, <2>2, <2>3 DEF Speaks
<1>29. ASSUME UNCHANGED vars PROVE \A q \in Pane : Speaks(q)'
  <2>1. \A q \in Pane : Pinned(q) => Pinned(q)'
    BY <1>29, <1>b DEF vars
  <2> QED BY <1>29, <1>a, <2>1 DEF vars, agentVars, Speaks
<1>30. ASSUME NEW t \in Task, Launch(t) PROVE \A q \in Pane : Speaks(q)'
  <2>1. ForkByAgent(t) \/ ForkByServer(t) \/ ForkByCodex(t) =>
          ForkTo(t) /\ (task[t].verify /\ backend = "Codex" => task[t].target # Other)
    BY DEF ForkByAgent, ForkByServer, ForkByCodex, Hooked
  <2> QED BY <1>1, <1>2, <1>3, <1>4, <1>5, <1>6, <1>7, <1>8, <1>9,
             <1>10, <1>11, <1>12, <1>13, <1>14, <1>15, <1>16, <1>30, <2>1 DEF Launch
<1>31. ASSUME NEW p \in Pane, Agent(p) PROVE \A q \in Pane : Speaks(q)'
  BY <1>17, <1>18, <1>19, <1>20, <1>31 DEF Agent
<1>32. ASSUME NEW h \in Hook, Handle(h) PROVE \A q \in Pane : Speaks(q)'
  BY <1>21, <1>23, <1>24, <1>25, <1>26, <1>32 DEF Handle
<1> QED BY <1>22, <1>27, <1>28, <1>29, <1>30, <1>31, <1>32 DEF Next

\* A registered pane is marked, and its path written down, once launched.
LEMMA MarkedStep ==
  ASSUME Typed, Gentle, Sane, Kempt, Following, [Next]_vars
  PROVE  \A q \in Pane : Marked(q)'
<1>a. \A q \in Pane : Marked(q)
  BY DEF Following
<1>b. \A u \in Task : /\ task[u].pane # None <=> At(u, LaunchStep)
                      /\ At(u, {"mark"}) => task[u].pane \in managed
  BY DEF Typed, Placed, Sane, TaskSane, LaunchSane, At, LaunchStep, Unlisted
<1>1. ASSUME NEW t \in Task, NEW kind \in Kinds, RunAdmit(t, kind)
      PROVE  \A q \in Pane : Marked(q)'
  <2>1. /\ UNCHANGED managed
        /\ \A q \in Pane : /\ option'[q].managed = option[q].managed
                           /\ option'[q].path = option[q].path
                           /\ state'[q].path = state[q].path
    BY <1>1, RunAdmitEffect DEF Typed, OtherStates, OtherOptions, Names, Drives, Writes
  <2>2. \A q \in Pane : Launching(q)' => Launching(q)
    BY <1>1, <1>b, RunAdmitEffect, Constants
       DEF Typed, Launching, At, LaunchStep, TaskGoes, TaskEnds, OtherTasks, NoTask
  <2> QED BY <1>a, <2>1, <2>2 DEF Marked
<1>2. ASSUME NEW t \in Task, NEW p \in Pane, ForkAdmit(t, p)
      PROVE  \A q \in Pane : Marked(q)'
  <2>1. /\ UNCHANGED managed
        /\ \A q \in Pane : /\ option'[q].managed = option[q].managed
                           /\ option'[q].path = option[q].path
                           /\ state'[q].path = state[q].path
    BY <1>2, ForkAdmitEffect DEF Typed, OtherStates, OtherOptions, Names, Drives, Writes
  <2>2. \A q \in Pane : Launching(q)' => Launching(q)
    BY <1>2, <1>b, ForkAdmitEffect, Constants
       DEF Typed, Launching, At, LaunchStep, TaskGoes, TaskEnds, OtherTasks, NoTask
  <2> QED BY <1>a, <2>1, <2>2 DEF Marked
<1>3. ASSUME NEW t \in Task, ForkLock(t)
      PROVE  \A q \in Pane : Marked(q)'
  <2>1. /\ UNCHANGED managed
        /\ \A q \in Pane : /\ option'[q].managed = option[q].managed
                           /\ option'[q].path = option[q].path
                           /\ state'[q].path = state[q].path
    BY <1>3, ForkLockEffect DEF Typed, OtherStates, OtherOptions, Names, Drives, Writes
  <2>2. \A q \in Pane : Launching(q)' => Launching(q)
    BY <1>3, <1>b, ForkLockEffect, Constants
       DEF Typed, Launching, At, LaunchStep, TaskGoes, TaskEnds, OtherTasks, NoTask
  <2> QED BY <1>a, <2>1, <2>2 DEF Marked
<1>4. ASSUME NEW t \in Task, ForkFails(t)
      PROVE  \A q \in Pane : Marked(q)'
  <2>1. /\ UNCHANGED managed
        /\ \A q \in Pane : /\ option'[q].managed = option[q].managed
                           /\ option'[q].path = option[q].path
                           /\ state'[q].path = state[q].path
    BY <1>4, ForkFailsEffect DEF Typed, OtherStates, OtherOptions, Names, Drives, Writes
  <2>2. \A q \in Pane : Launching(q)' => Launching(q)
    BY <1>4, <1>b, ForkFailsEffect, Constants
       DEF Typed, Launching, At, LaunchStep, TaskGoes, TaskEnds, OtherTasks, NoTask
  <2> QED BY <1>a, <2>1, <2>2 DEF Marked
<1>5. ASSUME NEW t \in Task, ForkTo(t), (task[t].verify /\ backend = "Codex" => task[t].target # Other)
      PROVE  \A q \in Pane : Marked(q)'
  <2>1. /\ UNCHANGED managed
        /\ \A q \in Pane : /\ option'[q].managed = option[q].managed
                           /\ option'[q].path = option[q].path
                           /\ state'[q].path = state[q].path
    BY <1>5, ForkToEffect DEF Typed, OtherStates, OtherOptions, Names, Drives, Writes
  <2>2. \A q \in Pane : Launching(q)' => Launching(q)
    BY <1>5, <1>b, ForkToEffect, Constants
       DEF Typed, Launching, At, LaunchStep, TaskGoes, TaskEnds, OtherTasks, NoTask
  <2> QED BY <1>a, <2>1, <2>2 DEF Marked
<1>6. ASSUME NEW t \in Task, ForkKeep(t)
      PROVE  \A q \in Pane : Marked(q)'
  <2>1. /\ UNCHANGED managed
        /\ \A q \in Pane : /\ option'[q].managed = option[q].managed
                           /\ option'[q].path = option[q].path
                           /\ state'[q].path = state[q].path
    BY <1>6, ForkKeepEffect DEF Typed, OtherStates, OtherOptions, Names, Drives, Writes
  <2>2. \A q \in Pane : Launching(q)' => Launching(q)
    BY <1>6, <1>b, ForkKeepEffect, Constants
       DEF Typed, Launching, At, LaunchStep, TaskGoes, TaskEnds, OtherTasks, NoTask
  <2> QED BY <1>a, <2>1, <2>2 DEF Marked
<1>7. ASSUME NEW t \in Task, Spawn(t)
      PROVE  \A q \in Pane : Marked(q)'
  <2>1. PICK p \in Pane :
          /\ UNCHANGED <<state, managed>> /\ OtherTasks(t) /\ task'[t].pane = p
          /\ ~agent[p].live /\ OtherOptions(p)
          /\ option'[p].path = option[p].path /\ option'[p].managed = option[p].managed
    BY <1>7, SpawnEffect DEF Writes
  <2>2. Marked(p)'
    BY <2>1, AgentNames DEF Marked, NoOption, NoState
  <2>3. \A q \in Pane : q # p => (Launching(q)' => Launching(q))
    BY <2>1 DEF Launching, OtherTasks
  <2> QED BY <1>a, <2>1, <2>2, <2>3 DEF Marked, OtherOptions
<1>8. ASSUME NEW t \in Task, SpawnFails(t)
      PROVE  \A q \in Pane : Marked(q)'
  <2>1. /\ UNCHANGED managed
        /\ \A q \in Pane : /\ option'[q].managed = option[q].managed
                           /\ option'[q].path = option[q].path
                           /\ state'[q].path = state[q].path
    BY <1>8, SpawnFailsEffect DEF Typed, OtherStates, OtherOptions, Names, Drives, Writes
  <2>2. \A q \in Pane : Launching(q)' => Launching(q)
    BY <1>8, <1>b, SpawnFailsEffect, Constants
       DEF Typed, Launching, At, LaunchStep, TaskGoes, TaskEnds, OtherTasks, NoTask
  <2> QED BY <1>a, <2>1, <2>2 DEF Marked
<1>9. ASSUME NEW t \in Task, PersistKnown(t)
      PROVE  \A q \in Pane : Marked(q)'
  <2>1. /\ UNCHANGED managed
        /\ \A q \in Pane : /\ option'[q].managed = option[q].managed
                           /\ option'[q].path = option[q].path
                           /\ state'[q].path = state[q].path
    BY <1>9, PersistKnownEffect DEF Typed, OtherStates, OtherOptions, Names, Drives, Writes
  <2>2. \A q \in Pane : Launching(q)' => Launching(q)
    BY <1>9, <1>b, PersistKnownEffect, Constants
       DEF Typed, Launching, At, LaunchStep, TaskGoes, TaskEnds, OtherTasks, NoTask
  <2> QED BY <1>a, <2>1, <2>2 DEF Marked
<1>10. ASSUME NEW t \in Task, RestoreBackend(t)
       PROVE  \A q \in Pane : Marked(q)'
  <2>1. /\ UNCHANGED managed
        /\ \A q \in Pane : /\ option'[q].managed = option[q].managed
                           /\ option'[q].path = option[q].path
                           /\ state'[q].path = state[q].path
    BY <1>10, RestoreBackendEffect
       DEF Typed, OtherStates, OtherOptions, Names, Drives, Writes
  <2>2. \A q \in Pane : Launching(q)' => Launching(q)
    BY <1>10, <1>b, RestoreBackendEffect, Constants
       DEF Typed, Launching, At, LaunchStep, TaskGoes, TaskEnds, OtherTasks, NoTask
  <2> QED BY <1>a, <2>1, <2>2 DEF Marked
<1>11. ASSUME NEW t \in Task, Register(t)
       PROVE  \A q \in Pane : Marked(q)'
  <2>1. PICK p \in Pane : p = task[t].pane /\ task[t].pc = "register"
    BY <1>11, RegisterEffect
  <2>2. /\ UNCHANGED option /\ managed' = managed \cup {p}
        /\ \A q \in Pane : state'[q].path = state[q].path
    BY <1>11, <2>1, RegisterEffect DEF OtherStates
  <2>3. Launching(p) /\ (\A q \in Pane : Launching(q)' => Launching(q))
    BY <1>11, <2>1, RegisterEffect DEF Launching, TaskGoes, OtherTasks
  <2> QED BY <1>a, <2>2, <2>3 DEF Marked
<1>12. ASSUME NEW t \in Task, Mark(t)
       PROVE  \A q \in Pane : Marked(q)'
  <2>1. PICK p \in Pane : p = task[t].pane /\ task[t].pc = "mark"
    BY <1>12, MarkEffect
  <2>2. /\ UNCHANGED <<state, managed>> /\ OtherOptions(p) /\ option'[p].path = option[p].path
    BY <1>12, <2>1, MarkEffect
  <2>3. p \in managed /\ (\A q \in Pane : Launching(q)' => Launching(q))
    BY <1>12, <1>b, <2>1, MarkEffect DEF Launching, TaskGoes, OtherTasks, At
  <2> QED BY <1>a, <2>2, <2>3 DEF Marked, OtherOptions
<1>13. ASSUME NEW t \in Task, PersistRestored(t)
       PROVE  \A q \in Pane : Marked(q)'
  <2>1. /\ UNCHANGED managed
        /\ \A q \in Pane : /\ option'[q].managed = option[q].managed
                           /\ option'[q].path = option[q].path
                           /\ state'[q].path = state[q].path
    BY <1>13, PersistRestoredEffect
       DEF Typed, OtherStates, OtherOptions, Names, Drives, Writes
  <2>2. \A q \in Pane : Launching(q)' => Launching(q)
    BY <1>13, <1>b, PersistRestoredEffect, Constants
       DEF Typed, Launching, At, LaunchStep, TaskGoes, TaskEnds, OtherTasks, NoTask
  <2> QED BY <1>a, <2>1, <2>2 DEF Marked
<1>14. ASSUME NEW t \in Task, Seed(t)
       PROVE  \A q \in Pane : Marked(q)'
  <2>1. /\ UNCHANGED managed
        /\ \A q \in Pane : /\ option'[q].managed = option[q].managed
                           /\ option'[q].path = option[q].path
                           /\ state'[q].path = state[q].path
    BY <1>14, SeedEffect DEF Typed, OtherStates, OtherOptions, Names, Drives, Writes
  <2>2. \A q \in Pane : Launching(q)' => Launching(q)
    BY <1>14, <1>b, SeedEffect, Constants
       DEF Typed, Launching, At, LaunchStep, TaskGoes, TaskEnds, OtherTasks, NoTask
  <2> QED BY <1>a, <2>1, <2>2 DEF Marked
<1>15. ASSUME NEW t \in Task, Attach(t)
       PROVE  \A q \in Pane : Marked(q)'
  <2>1. /\ UNCHANGED managed
        /\ \A q \in Pane : /\ option'[q].managed = option[q].managed
                           /\ option'[q].path = option[q].path
                           /\ state'[q].path = state[q].path
    BY <1>15, AttachEffect DEF Typed, OtherStates, OtherOptions, Names, Drives, Writes
  <2>2. \A q \in Pane : Launching(q)' => Launching(q)
    BY <1>15, <1>b, AttachEffect, Constants
       DEF Typed, Launching, At, LaunchStep, TaskGoes, TaskEnds, OtherTasks, NoTask
  <2> QED BY <1>a, <2>1, <2>2 DEF Marked
<1>16. ASSUME NEW t \in Task, AttachRuntime(t)
       PROVE  \A q \in Pane : Marked(q)'
  <2>1. /\ UNCHANGED managed
        /\ \A q \in Pane : /\ option'[q].managed = option[q].managed
                           /\ option'[q].path = option[q].path
                           /\ state'[q].path = state[q].path
    BY <1>16, AttachRuntimeEffect
       DEF Typed, OtherStates, OtherOptions, Names, Drives, Writes
  <2>2. \A q \in Pane : Launching(q)' => Launching(q)
    BY <1>16, <1>b, AttachRuntimeEffect, Constants
       DEF Typed, Launching, At, LaunchStep, TaskGoes, TaskEnds, OtherTasks, NoTask
  <2> QED BY <1>a, <2>1, <2>2 DEF Marked
<1>17. ASSUME NEW p \in Pane, Announce(p)
       PROVE  \A q \in Pane : Marked(q)'
  <2>1. /\ UNCHANGED managed
        /\ \A q \in Pane : /\ option'[q].managed = option[q].managed
                           /\ option'[q].path = option[q].path
                           /\ state'[q].path = state[q].path
    BY <1>17, AnnounceEffect DEF Typed, OtherStates, OtherOptions, Names, Drives, Writes
  <2>2. \A q \in Pane : Launching(q)' => Launching(q)
    BY <1>17, <1>b, AnnounceEffect, Constants
       DEF Typed, Launching, At, LaunchStep, TaskGoes, TaskEnds, OtherTasks, NoTask
  <2> QED BY <1>a, <2>1, <2>2 DEF Marked
<1>18. ASSUME NEW p \in Pane, Prompt(p)
       PROVE  \A q \in Pane : Marked(q)'
  <2>1. /\ UNCHANGED managed
        /\ \A q \in Pane : /\ option'[q].managed = option[q].managed
                           /\ option'[q].path = option[q].path
                           /\ state'[q].path = state[q].path
    BY <1>18, PromptEffect DEF Typed, OtherStates, OtherOptions, Names, Drives, Writes
  <2>2. \A q \in Pane : Launching(q)' => Launching(q)
    BY <1>18, <1>b, PromptEffect, Constants
       DEF Typed, Launching, At, LaunchStep, TaskGoes, TaskEnds, OtherTasks, NoTask
  <2> QED BY <1>a, <2>1, <2>2 DEF Marked
<1>19. ASSUME NEW p \in Pane, Clear(p)
       PROVE  \A q \in Pane : Marked(q)'
  <2>1. /\ UNCHANGED managed
        /\ \A q \in Pane : /\ option'[q].managed = option[q].managed
                           /\ option'[q].path = option[q].path
                           /\ state'[q].path = state[q].path
    BY <1>19, ClearEffect DEF Typed, OtherStates, OtherOptions, Names, Drives, Writes
  <2>2. \A q \in Pane : Launching(q)' => Launching(q)
    BY <1>19, <1>b, ClearEffect, Constants
       DEF Typed, Launching, At, LaunchStep, TaskGoes, TaskEnds, OtherTasks, NoTask
  <2> QED BY <1>a, <2>1, <2>2 DEF Marked
<1>20. ASSUME NEW p \in Pane, Inner(p)
       PROVE  \A q \in Pane : Marked(q)'
  <2>1. /\ UNCHANGED managed
        /\ \A q \in Pane : /\ option'[q].managed = option[q].managed
                           /\ option'[q].path = option[q].path
                           /\ state'[q].path = state[q].path
    BY <1>20, InnerEffect DEF Typed, OtherStates, OtherOptions, Names, Drives, Writes
  <2>2. \A q \in Pane : Launching(q)' => Launching(q)
    BY <1>20, <1>b, InnerEffect, Constants
       DEF Typed, Launching, At, LaunchStep, TaskGoes, TaskEnds, OtherTasks, NoTask
  <2> QED BY <1>a, <2>1, <2>2 DEF Marked
<1>21. ASSUME NEW h \in Hook, Admit(h) \/ Arm(h) \/ Check(h) \/ Park(h) \/ Wake(h)
       PROVE  \A q \in Pane : Marked(q)'
  <2>1. /\ UNCHANGED managed
        /\ \A q \in Pane : /\ option'[q].managed = option[q].managed
                           /\ option'[q].path = option[q].path
                           /\ state'[q].path = state[q].path
    BY <1>21, WaitEffect DEF Typed, OtherStates, OtherOptions, Names, Drives, Writes
  <2>2. \A q \in Pane : Launching(q)' => Launching(q)
    BY <1>21, <1>b, WaitEffect, Constants
       DEF Typed, Launching, At, LaunchStep, TaskGoes, TaskEnds, OtherTasks, NoTask
  <2> QED BY <1>a, <2>1, <2>2 DEF Marked
<1>22. ASSUME NEW h \in Hook, WaitOver(h)
       PROVE  \A q \in Pane : Marked(q)'
  <2>1. /\ UNCHANGED managed
        /\ \A q \in Pane : /\ option'[q].managed = option[q].managed
                           /\ option'[q].path = option[q].path
                           /\ state'[q].path = state[q].path
    BY <1>22, WaitOverEffect DEF Typed, OtherStates, OtherOptions, Names, Drives, Writes
  <2>2. \A q \in Pane : Launching(q)' => Launching(q)
    BY <1>22, <1>b, WaitOverEffect, Constants
       DEF Typed, Launching, At, LaunchStep, TaskGoes, TaskEnds, OtherTasks, NoTask
  <2> QED BY <1>a, <2>1, <2>2 DEF Marked
<1>23. ASSUME NEW h \in Hook, Lock(h)
       PROVE  \A q \in Pane : Marked(q)'
  <2>1. /\ UNCHANGED managed
        /\ \A q \in Pane : /\ option'[q].managed = option[q].managed
                           /\ option'[q].path = option[q].path
                           /\ state'[q].path = state[q].path
    BY <1>23, LockEffect DEF Typed, OtherStates, OtherOptions, Names, Drives, Writes
  <2>2. \A q \in Pane : Launching(q)' => Launching(q)
    BY <1>23, <1>b, LockEffect, Constants
       DEF Typed, Launching, At, LaunchStep, TaskGoes, TaskEnds, OtherTasks, NoTask
  <2> QED BY <1>a, <2>1, <2>2 DEF Marked
<1>24. ASSUME NEW h \in Hook, TakePath(h)
       PROVE  \A q \in Pane : Marked(q)'
  <2>1. PICK p \in Pane : p = job[h].pane
    BY <1>24, TakePathEffect
  <2>2. /\ UNCHANGED <<managed, task>> /\ OtherStates(p) /\ OtherOptions(p)
        /\ option'[p].managed = option[p].managed
        /\ \/ UNCHANGED <<option, state>>
           \/ state'[p].path = option'[p].path
    BY <1>24, <2>1, TakePathEffect
  <2>3. \A q \in Pane : Launching(q)' => Launching(q)
    BY <2>2 DEF Launching
  <2> QED BY <1>a, <2>2, <2>3 DEF Marked, OtherStates, OtherOptions
<1>25. ASSUME NEW h \in Hook, Bind(h)
       PROVE  \A q \in Pane : Marked(q)'
  <2>1. /\ UNCHANGED managed
        /\ \A q \in Pane : /\ option'[q].managed = option[q].managed
                           /\ option'[q].path = option[q].path
                           /\ state'[q].path = state[q].path
    BY <1>25, BindEffect DEF Typed, OtherStates, OtherOptions, Names, Drives, Writes
  <2>2. \A q \in Pane : Launching(q)' => Launching(q)
    BY <1>25, <1>b, BindEffect, Constants
       DEF Typed, Launching, At, LaunchStep, TaskGoes, TaskEnds, OtherTasks, NoTask
  <2> QED BY <1>a, <2>1, <2>2 DEF Marked
<1>26. ASSUME NEW h \in Hook, PersistBound(h)
       PROVE  \A q \in Pane : Marked(q)'
  <2>1. /\ UNCHANGED managed
        /\ \A q \in Pane : /\ option'[q].managed = option[q].managed
                           /\ option'[q].path = option[q].path
                           /\ state'[q].path = state[q].path
    BY <1>26, PersistBoundEffect DEF Typed, OtherStates, OtherOptions, Names, Drives, Writes
  <2>2. \A q \in Pane : Launching(q)' => Launching(q)
    BY <1>26, <1>b, PersistBoundEffect, Constants
       DEF Typed, Launching, At, LaunchStep, TaskGoes, TaskEnds, OtherTasks, NoTask
  <2> QED BY <1>a, <2>1, <2>2 DEF Marked
<1>27. ASSUME NEW p \in Pane, PsRefresh(p)
       PROVE  \A q \in Pane : Marked(q)'
  <2>1. /\ UNCHANGED managed
        /\ \A q \in Pane : /\ option'[q].managed = option[q].managed
                           /\ option'[q].path = option[q].path
                           /\ state'[q].path = state[q].path
    BY <1>27, PsRefreshEffect DEF Typed, OtherStates, OtherOptions, Names, Drives, Writes
  <2>2. \A q \in Pane : Launching(q)' => Launching(q)
    BY <1>27, <1>b, PsRefreshEffect, Constants
       DEF Typed, Launching, At, LaunchStep, TaskGoes, TaskEnds, OtherTasks, NoTask
  <2> QED BY <1>a, <2>1, <2>2 DEF Marked
<1>28. ASSUME Restart PROVE \A q \in Pane : Marked(q)'
  <2>1. \A q \in Pane : ~Launching(q)'
    BY <1>28, RestartEffect DEF Launching, NoTask
  <2> QED BY <1>28, <2>1, RestartEffect DEF Marked
<1>29. ASSUME UNCHANGED vars PROVE \A q \in Pane : Marked(q)'
  <2> QED BY <1>29, <1>a DEF vars, agentVars, Marked, Launching
<1>30. ASSUME NEW t \in Task, Launch(t) PROVE \A q \in Pane : Marked(q)'
  <2>1. ForkByAgent(t) \/ ForkByServer(t) \/ ForkByCodex(t) =>
          ForkTo(t) /\ (task[t].verify /\ backend = "Codex" => task[t].target # Other)
    BY DEF ForkByAgent, ForkByServer, ForkByCodex, Hooked
  <2> QED BY <1>1, <1>2, <1>3, <1>4, <1>5, <1>6, <1>7, <1>8, <1>9,
             <1>10, <1>11, <1>12, <1>13, <1>14, <1>15, <1>16, <1>30, <2>1 DEF Launch
<1>31. ASSUME NEW p \in Pane, Agent(p) PROVE \A q \in Pane : Marked(q)'
  BY <1>17, <1>18, <1>19, <1>20, <1>31 DEF Agent
<1>32. ASSUME NEW h \in Hook, Handle(h) PROVE \A q \in Pane : Marked(q)'
  BY <1>21, <1>23, <1>24, <1>25, <1>26, <1>32 DEF Handle
<1> QED BY <1>22, <1>27, <1>28, <1>29, <1>30, <1>31, <1>32 DEF Next

\* A SessionStart that holds its pane is the agent's own, and the path and
\* the binding that come of a held hook are the ones of the agent.
LEMMA OwnHold ==
  ASSUME Typed, Sane, Kempt, Following, NEW h \in Hook, job[h].pc \in Holding,
         NEW p \in Pane, p = job[h].pane
  PROVE  /\ p \in managed /\ state[p].runtime.backend = backend /\ mutex[p] = h
         /\ backend \in Hooked /\ agent[p].live
         /\ job[h].ev = "SessionStart" =>
              OwnCall(h) /\ job[h].sess # Other /\ PathOf(h) # None
         /\ PathOf(h) # None => Corrected(h) = agent[p].sess
         /\ OwnCall(h) => Bound(state[p], h) = agent[p].sess
<1>1. /\ p \in managed /\ mutex[p] = h /\ backend \in Hooked /\ agent[p].live
      /\ job[h].sess \in agent[p].ran \/ Pinned(p)
  BY DEF Sane, JobSane, Kempt, Held, Holding
<1>2. state[p].runtime.backend = backend
  BY <1>1 DEF Sane, RuntimeSane
<1>3. \A t \in Task : At(t, {"know"}) => task[t].pane # p
  BY <1>1 DEF Sane, TaskSane, LaunchSane, At, LaunchStep, Unlisted
<1>4. Pinned(p) => backend = "Claude" /\ state[p].pin # None
  BY <1>3 DEF Pinned
<1>5. Spoken(h) /\ Speaks(p) /\ Other \notin agent[p].ran
  BY DEF Following, Holding, Sane, AgentSane, Reports
<1>6. job[h].file # None \/ backend # "Codex"
  BY <1>1, <1>4, <1>5 DEF Spoken
<1>7. job[h].file # None
  BY <1>5, <1>6 DEF Spoken
<1>8. job[h].ev = "SessionStart" =>
        OwnCall(h) /\ job[h].sess # Other /\ PathOf(h) # None
  BY <1>5, <1>7 DEF Spoken, OwnCall, Holding, PathOf
<1>9. OwnCall(h) => /\ job[h].sess = job[h].file
                    /\ job[h].sess = agent[p].sess \/ Pinned(p)
  BY <1>1, <1>5 DEF Spoken, Speaks
<1>10. state[p].pin # None => state[p].pin = agent[p].sess
  BY <1>5 DEF Speaks
<1>11. PathOf(h) # None => OwnCall(h) /\ PathOf(h) = job[h].file
  BY <1>2, <1>5 DEF PathOf, OwnCall, Spoken, Holding
<1>12. PathOf(h) # None => Corrected(h) = agent[p].sess
  BY <1>2, <1>4, <1>9, <1>10, <1>11 DEF Corrected
<1>13. OwnCall(h) => Bound(state[p], h) = agent[p].sess
  BY <1>2, <1>4, <1>9, <1>10 DEF Bound
<1> QED BY <1>1, <1>2, <1>8, <1>12, <1>13

\* What a handler says stays true while its agent and pane stay.
LEMMA SpokenKept ==
  ASSUME Typed, Sane, Following, UNCHANGED backend, \A q \in Pane : Pinned(q) => Pinned(q)',
         NEW h \in Hook, job[h].pc # "idle",
         job'[h].pc # "idle", job'[h].pane = job[h].pane, job'[h].ev = job[h].ev,
         job'[h].sess = job[h].sess, job'[h].file = job[h].file,
         NEW p \in Pane, p = job[h].pane,
         agent[p].told => agent'[p].told, agent'[p].report = agent[p].report,
         job'[h].pc \in {"start", "persist"} => state'[p].path = agent'[p].sess
  PROVE  Spoken(h)'
<1>1. Spoken(h) /\ (Pinned(p) => Pinned(p)')
  BY DEF Following
<1> QED BY <1>1 DEF Spoken, OwnCall

\* A handler says what its agent said, until the agent has gone on.
LEMMA SpokenStep ==
  ASSUME Typed, Gentle, Sane, Kempt, Following, [Next]_vars
  PROVE  \A g \in Hook : (job[g].pc # "idle" => Spoken(g))'
<1>a. \A g \in Hook : job[g].pc # "idle" => Spoken(g) /\ job[g].pane \in Pane
  BY PaneOf DEF Following
<1>b. UNCHANGED restarts => \A q \in Pane : Pinned(q) => Pinned(q)'
  BY KeepStep DEF Kept
<1>c. \A g \in Hook : job[g].pc # "idle" => agent[job[g].pane].live
  BY DEF Sane, JobSane
<1>1. ASSUME NEW t \in Task, NEW kind \in Kinds, RunAdmit(t, kind)
      PROVE  \A g \in Hook : (job[g].pc # "idle" => Spoken(g))'
  <2>1. UNCHANGED <<backend, job>> /\ (\A q \in Pane : Pinned(q) => Pinned(q)')
    BY <1>1, <1>b, RunAdmitEffect DEF Typed
  <2> SUFFICES ASSUME NEW g \in Hook, job'[g].pc # "idle" PROVE Spoken(g)'
    OBVIOUS
  <2>2. PICK q \in Pane : q = job[g].pane /\ job[g].pc # "idle"
    BY <1>a, <2>1
  <2>3. /\ agent[q].told => agent'[q].told
        /\ agent'[q].report = agent[q].report /\ agent'[q].sess = agent[q].sess
    BY <1>1, RunAdmitEffect DEF Typed
  <2>4. job'[g].pc \in {"start", "persist"} => state'[q].path = agent'[q].sess
    BY <1>a, <2>1, <2>2, <2>3, <1>1, RunAdmitEffect
       DEF Typed, Spoken, OtherStates, Names, Drives
  <2> QED BY <2>1, <2>2, <2>3, <2>4, SpokenKept
<1>2. ASSUME NEW t \in Task, NEW p \in Pane, ForkAdmit(t, p)
      PROVE  \A g \in Hook : (job[g].pc # "idle" => Spoken(g))'
  <2>1. UNCHANGED <<backend, job>> /\ (\A q \in Pane : Pinned(q) => Pinned(q)')
    BY <1>2, <1>b, ForkAdmitEffect DEF Typed
  <2> SUFFICES ASSUME NEW g \in Hook, job'[g].pc # "idle" PROVE Spoken(g)'
    OBVIOUS
  <2>2. PICK q \in Pane : q = job[g].pane /\ job[g].pc # "idle"
    BY <1>a, <2>1
  <2>3. /\ agent[q].told => agent'[q].told
        /\ agent'[q].report = agent[q].report /\ agent'[q].sess = agent[q].sess
    BY <1>2, ForkAdmitEffect DEF Typed
  <2>4. job'[g].pc \in {"start", "persist"} => state'[q].path = agent'[q].sess
    BY <1>a, <2>1, <2>2, <2>3, <1>2, ForkAdmitEffect
       DEF Typed, Spoken, OtherStates, Names, Drives
  <2> QED BY <2>1, <2>2, <2>3, <2>4, SpokenKept
<1>3. ASSUME NEW t \in Task, ForkLock(t)
      PROVE  \A g \in Hook : (job[g].pc # "idle" => Spoken(g))'
  <2>1. UNCHANGED <<backend, job>> /\ (\A q \in Pane : Pinned(q) => Pinned(q)')
    BY <1>3, <1>b, ForkLockEffect DEF Typed
  <2> SUFFICES ASSUME NEW g \in Hook, job'[g].pc # "idle" PROVE Spoken(g)'
    OBVIOUS
  <2>2. PICK q \in Pane : q = job[g].pane /\ job[g].pc # "idle"
    BY <1>a, <2>1
  <2>3. /\ agent[q].told => agent'[q].told
        /\ agent'[q].report = agent[q].report /\ agent'[q].sess = agent[q].sess
    BY <1>3, ForkLockEffect DEF Typed
  <2>4. job'[g].pc \in {"start", "persist"} => state'[q].path = agent'[q].sess
    BY <1>a, <2>1, <2>2, <2>3, <1>3, ForkLockEffect
       DEF Typed, Spoken, OtherStates, Names, Drives
  <2> QED BY <2>1, <2>2, <2>3, <2>4, SpokenKept
<1>4. ASSUME NEW t \in Task, ForkFails(t)
      PROVE  \A g \in Hook : (job[g].pc # "idle" => Spoken(g))'
  <2>1. UNCHANGED <<backend, job>> /\ (\A q \in Pane : Pinned(q) => Pinned(q)')
    BY <1>4, <1>b, ForkFailsEffect DEF Typed
  <2> SUFFICES ASSUME NEW g \in Hook, job'[g].pc # "idle" PROVE Spoken(g)'
    OBVIOUS
  <2>2. PICK q \in Pane : q = job[g].pane /\ job[g].pc # "idle"
    BY <1>a, <2>1
  <2>3. /\ agent[q].told => agent'[q].told
        /\ agent'[q].report = agent[q].report /\ agent'[q].sess = agent[q].sess
    BY <1>4, ForkFailsEffect DEF Typed
  <2>4. job'[g].pc \in {"start", "persist"} => state'[q].path = agent'[q].sess
    BY <1>a, <2>1, <2>2, <2>3, <1>4, ForkFailsEffect
       DEF Typed, Spoken, OtherStates, Names, Drives
  <2> QED BY <2>1, <2>2, <2>3, <2>4, SpokenKept
<1>5. ASSUME NEW t \in Task, ForkTo(t), (task[t].verify /\ backend = "Codex" => task[t].target # Other)
      PROVE  \A g \in Hook : (job[g].pc # "idle" => Spoken(g))'
  <2>1. UNCHANGED <<backend, job>> /\ (\A q \in Pane : Pinned(q) => Pinned(q)')
    BY <1>5, <1>b, ForkToEffect DEF Typed
  <2> SUFFICES ASSUME NEW g \in Hook, job'[g].pc # "idle" PROVE Spoken(g)'
    OBVIOUS
  <2>2. PICK q \in Pane : q = job[g].pane /\ job[g].pc # "idle"
    BY <1>a, <2>1
  <2>3. /\ agent[q].told => agent'[q].told
        /\ agent'[q].report = agent[q].report /\ agent'[q].sess = agent[q].sess
    BY <1>5, ForkToEffect DEF Typed
  <2>4. job'[g].pc \in {"start", "persist"} => state'[q].path = agent'[q].sess
    BY <1>a, <2>1, <2>2, <2>3, <1>5, ForkToEffect
       DEF Typed, Spoken, OtherStates, Names, Drives
  <2> QED BY <2>1, <2>2, <2>3, <2>4, SpokenKept
<1>6. ASSUME NEW t \in Task, ForkKeep(t)
      PROVE  \A g \in Hook : (job[g].pc # "idle" => Spoken(g))'
  <2>1. UNCHANGED <<backend, job>> /\ (\A q \in Pane : Pinned(q) => Pinned(q)')
    BY <1>6, <1>b, ForkKeepEffect DEF Typed
  <2> SUFFICES ASSUME NEW g \in Hook, job'[g].pc # "idle" PROVE Spoken(g)'
    OBVIOUS
  <2>2. PICK q \in Pane : q = job[g].pane /\ job[g].pc # "idle"
    BY <1>a, <2>1
  <2>3. /\ agent[q].told => agent'[q].told
        /\ agent'[q].report = agent[q].report /\ agent'[q].sess = agent[q].sess
    BY <1>6, ForkKeepEffect DEF Typed
  <2>4. job'[g].pc \in {"start", "persist"} => state'[q].path = agent'[q].sess
    BY <1>a, <2>1, <2>2, <2>3, <1>6, ForkKeepEffect
       DEF Typed, Spoken, OtherStates, Names, Drives
  <2> QED BY <2>1, <2>2, <2>3, <2>4, SpokenKept
<1>7. ASSUME NEW t \in Task, Spawn(t)
      PROVE  \A g \in Hook : (job[g].pc # "idle" => Spoken(g))'
  <2>1. UNCHANGED <<backend, job>> /\ (\A q \in Pane : Pinned(q) => Pinned(q)')
    BY <1>7, <1>b, SpawnEffect DEF Typed
  <2> SUFFICES ASSUME NEW g \in Hook, job'[g].pc # "idle" PROVE Spoken(g)'
    OBVIOUS
  <2>2. PICK q \in Pane : q = job[g].pane /\ job[g].pc # "idle"
    BY <1>a, <2>1
  <2>a. PICK p \in Pane : UNCHANGED state /\ OtherAgents(p) /\ ~agent[p].live
    BY <1>7, SpawnEffect
  <2>3. /\ agent[q].told => agent'[q].told
        /\ agent'[q].report = agent[q].report /\ agent'[q].sess = agent[q].sess
    BY <1>c, <2>2, <2>a DEF OtherAgents
  <2>4. job'[g].pc \in {"start", "persist"} => state'[q].path = agent'[q].sess
    BY <1>a, <2>1, <2>2, <2>3, <2>a DEF Spoken
  <2> QED BY <2>1, <2>2, <2>3, <2>4, SpokenKept
<1>8. ASSUME NEW t \in Task, SpawnFails(t)
      PROVE  \A g \in Hook : (job[g].pc # "idle" => Spoken(g))'
  <2>1. UNCHANGED <<backend, job>> /\ (\A q \in Pane : Pinned(q) => Pinned(q)')
    BY <1>8, <1>b, SpawnFailsEffect DEF Typed
  <2> SUFFICES ASSUME NEW g \in Hook, job'[g].pc # "idle" PROVE Spoken(g)'
    OBVIOUS
  <2>2. PICK q \in Pane : q = job[g].pane /\ job[g].pc # "idle"
    BY <1>a, <2>1
  <2>3. /\ agent[q].told => agent'[q].told
        /\ agent'[q].report = agent[q].report /\ agent'[q].sess = agent[q].sess
    BY <1>8, SpawnFailsEffect DEF Typed
  <2>4. job'[g].pc \in {"start", "persist"} => state'[q].path = agent'[q].sess
    BY <1>a, <2>1, <2>2, <2>3, <1>8, SpawnFailsEffect
       DEF Typed, Spoken, OtherStates, Names, Drives
  <2> QED BY <2>1, <2>2, <2>3, <2>4, SpokenKept
<1>9. ASSUME NEW t \in Task, PersistKnown(t)
      PROVE  \A g \in Hook : (job[g].pc # "idle" => Spoken(g))'
  <2>1. UNCHANGED <<backend, job>> /\ (\A q \in Pane : Pinned(q) => Pinned(q)')
    BY <1>9, <1>b, PersistKnownEffect DEF Typed
  <2> SUFFICES ASSUME NEW g \in Hook, job'[g].pc # "idle" PROVE Spoken(g)'
    OBVIOUS
  <2>2. PICK q \in Pane : q = job[g].pane /\ job[g].pc # "idle"
    BY <1>a, <2>1
  <2>3. /\ agent[q].told => agent'[q].told
        /\ agent'[q].report = agent[q].report /\ agent'[q].sess = agent[q].sess
    BY <1>9, PersistKnownEffect DEF Typed
  <2>4. job'[g].pc \in {"start", "persist"} => state'[q].path = agent'[q].sess
    BY <1>a, <2>1, <2>2, <2>3, <1>9, PersistKnownEffect
       DEF Typed, Spoken, OtherStates, Names, Drives
  <2> QED BY <2>1, <2>2, <2>3, <2>4, SpokenKept
<1>10. ASSUME NEW t \in Task, RestoreBackend(t)
       PROVE  \A g \in Hook : (job[g].pc # "idle" => Spoken(g))'
  <2>1. UNCHANGED <<backend, job>> /\ (\A q \in Pane : Pinned(q) => Pinned(q)')
    BY <1>10, <1>b, RestoreBackendEffect DEF Typed
  <2> SUFFICES ASSUME NEW g \in Hook, job'[g].pc # "idle" PROVE Spoken(g)'
    OBVIOUS
  <2>2. PICK q \in Pane : q = job[g].pane /\ job[g].pc # "idle"
    BY <1>a, <2>1
  <2>3. /\ agent[q].told => agent'[q].told
        /\ agent'[q].report = agent[q].report /\ agent'[q].sess = agent[q].sess
    BY <1>10, RestoreBackendEffect DEF Typed
  <2>4. job'[g].pc \in {"start", "persist"} => state'[q].path = agent'[q].sess
    BY <1>a, <2>1, <2>2, <2>3, <1>10, RestoreBackendEffect
       DEF Typed, Spoken, OtherStates, Names, Drives
  <2> QED BY <2>1, <2>2, <2>3, <2>4, SpokenKept
<1>11. ASSUME NEW t \in Task, Register(t)
       PROVE  \A g \in Hook : (job[g].pc # "idle" => Spoken(g))'
  <2>1. UNCHANGED backend /\ (\A q \in Pane : Pinned(q) => Pinned(q)')
    BY <1>11, <1>b, RegisterEffect DEF Typed
  <2> SUFFICES ASSUME NEW g \in Hook, job'[g].pc # "idle" PROVE Spoken(g)'
    OBVIOUS
  <2>2. PICK q \in Pane : q = job[g].pane /\ job'[g].pc = job[g].pc /\ job[g].pc # "idle"
    BY <1>11, <1>a, RegisterEffect
  <2>3. /\ agent[q].told => agent'[q].told
        /\ agent'[q].report = agent[q].report /\ agent'[q].sess = agent[q].sess
    BY <1>11, RegisterEffect
  <2>4. job'[g].pc \in {"start", "persist"} => state'[q].path = agent'[q].sess
    BY <1>a, <2>1, <2>2, <2>3, <1>11, RegisterEffect DEF Spoken, OtherStates
  <2>5. /\ job'[g].pane = job[g].pane /\ job'[g].ev = job[g].ev
        /\ job'[g].sess = job[g].sess /\ job'[g].file = job[g].file
    BY <1>11, RegisterEffect
  <2> QED BY <2>1, <2>2, <2>3, <2>4, <2>5, SpokenKept
<1>12. ASSUME NEW t \in Task, Mark(t)
       PROVE  \A g \in Hook : (job[g].pc # "idle" => Spoken(g))'
  <2>1. UNCHANGED <<backend, job>> /\ (\A q \in Pane : Pinned(q) => Pinned(q)')
    BY <1>12, <1>b, MarkEffect DEF Typed
  <2> SUFFICES ASSUME NEW g \in Hook, job'[g].pc # "idle" PROVE Spoken(g)'
    OBVIOUS
  <2>2. PICK q \in Pane : q = job[g].pane /\ job[g].pc # "idle"
    BY <1>a, <2>1
  <2>3. /\ agent[q].told => agent'[q].told
        /\ agent'[q].report = agent[q].report /\ agent'[q].sess = agent[q].sess
    BY <1>12, MarkEffect DEF Typed
  <2>4. job'[g].pc \in {"start", "persist"} => state'[q].path = agent'[q].sess
    BY <1>a, <2>1, <2>2, <2>3, <1>12, MarkEffect
       DEF Typed, Spoken, OtherStates, Names, Drives
  <2> QED BY <2>1, <2>2, <2>3, <2>4, SpokenKept
<1>13. ASSUME NEW t \in Task, PersistRestored(t)
       PROVE  \A g \in Hook : (job[g].pc # "idle" => Spoken(g))'
  <2>1. UNCHANGED <<backend, job>> /\ (\A q \in Pane : Pinned(q) => Pinned(q)')
    BY <1>13, <1>b, PersistRestoredEffect DEF Typed
  <2> SUFFICES ASSUME NEW g \in Hook, job'[g].pc # "idle" PROVE Spoken(g)'
    OBVIOUS
  <2>2. PICK q \in Pane : q = job[g].pane /\ job[g].pc # "idle"
    BY <1>a, <2>1
  <2>3. /\ agent[q].told => agent'[q].told
        /\ agent'[q].report = agent[q].report /\ agent'[q].sess = agent[q].sess
    BY <1>13, PersistRestoredEffect DEF Typed
  <2>4. job'[g].pc \in {"start", "persist"} => state'[q].path = agent'[q].sess
    BY <1>a, <2>1, <2>2, <2>3, <1>13, PersistRestoredEffect
       DEF Typed, Spoken, OtherStates, Names, Drives
  <2> QED BY <2>1, <2>2, <2>3, <2>4, SpokenKept
<1>14. ASSUME NEW t \in Task, Seed(t)
       PROVE  \A g \in Hook : (job[g].pc # "idle" => Spoken(g))'
  <2>1. UNCHANGED <<backend, job>> /\ (\A q \in Pane : Pinned(q) => Pinned(q)')
    BY <1>14, <1>b, SeedEffect DEF Typed
  <2> SUFFICES ASSUME NEW g \in Hook, job'[g].pc # "idle" PROVE Spoken(g)'
    OBVIOUS
  <2>2. PICK q \in Pane : q = job[g].pane /\ job[g].pc # "idle"
    BY <1>a, <2>1
  <2>3. /\ agent[q].told => agent'[q].told
        /\ agent'[q].report = agent[q].report /\ agent'[q].sess = agent[q].sess
    BY <1>14, SeedEffect DEF Typed
  <2>4. job'[g].pc \in {"start", "persist"} => state'[q].path = agent'[q].sess
    BY <1>a, <2>1, <2>2, <2>3, <1>14, SeedEffect
       DEF Typed, Spoken, OtherStates, Names, Drives
  <2> QED BY <2>1, <2>2, <2>3, <2>4, SpokenKept
<1>15. ASSUME NEW t \in Task, Attach(t)
       PROVE  \A g \in Hook : (job[g].pc # "idle" => Spoken(g))'
  <2>1. UNCHANGED <<backend, job>> /\ (\A q \in Pane : Pinned(q) => Pinned(q)')
    BY <1>15, <1>b, AttachEffect DEF Typed
  <2> SUFFICES ASSUME NEW g \in Hook, job'[g].pc # "idle" PROVE Spoken(g)'
    OBVIOUS
  <2>2. PICK q \in Pane : q = job[g].pane /\ job[g].pc # "idle"
    BY <1>a, <2>1
  <2>a. PICK p \in Pane : p = task[t].pane
    BY <1>15, AttachEffect
  <2>b. \A r \in Pane : /\ agent'[r].told = agent[r].told /\ agent'[r].report = agent[r].report
                        /\ state'[r].path = state[r].path
                        /\ backend \in Hooked => agent'[r].sess = agent[r].sess
    BY <1>15, <2>a, AttachEffect DEF OtherAgents, OtherStates, Names
  <2>3. /\ agent[q].told => agent'[q].told
        /\ agent'[q].report = agent[q].report
    BY <2>b
  <2>4. job'[g].pc \in {"start", "persist"} => state'[q].path = agent'[q].sess
    BY <1>a, <2>1, <2>2, <2>b, BoundNames DEF Spoken
  <2> QED BY <2>1, <2>2, <2>3, <2>4, SpokenKept
<1>16. ASSUME NEW t \in Task, AttachRuntime(t)
       PROVE  \A g \in Hook : (job[g].pc # "idle" => Spoken(g))'
  <2>1. UNCHANGED <<backend, job>> /\ (\A q \in Pane : Pinned(q) => Pinned(q)')
    BY <1>16, <1>b, AttachRuntimeEffect DEF Typed
  <2> SUFFICES ASSUME NEW g \in Hook, job'[g].pc # "idle" PROVE Spoken(g)'
    OBVIOUS
  <2>2. PICK q \in Pane : q = job[g].pane /\ job[g].pc # "idle"
    BY <1>a, <2>1
  <2>3. /\ agent[q].told => agent'[q].told
        /\ agent'[q].report = agent[q].report /\ agent'[q].sess = agent[q].sess
    BY <1>16, AttachRuntimeEffect DEF Typed
  <2>4. job'[g].pc \in {"start", "persist"} => state'[q].path = agent'[q].sess
    BY <1>a, <2>1, <2>2, <2>3, <1>16, AttachRuntimeEffect
       DEF Typed, Spoken, OtherStates, Names, Drives
  <2> QED BY <2>1, <2>2, <2>3, <2>4, SpokenKept
<1>17. ASSUME NEW p \in Pane, Announce(p)
       PROVE  \A g \in Hook : (job[g].pc # "idle" => Spoken(g))'
  <2>1. UNCHANGED <<backend, state>> /\ (\A q \in Pane : Pinned(q) => Pinned(q)')
    BY <1>17, <1>b, AnnounceEffect DEF Typed
  <2>2. PICK h \in Hook :
          /\ OtherJobs(h) /\ job'[h].pc = "admit" /\ job'[h].pane = p
          /\ job'[h].ev = "SessionStart"
          /\ job'[h].sess = agent[p].report /\ job'[h].file = agent[p].report
    BY <1>17, AnnounceEffect DEF Typed
  <2>3. /\ OtherAgents(p) /\ agent'[p].told /\ agent'[p].sess = agent[p].sess
        /\ agent'[p].report = agent[p].report /\ agent[p].live /\ backend \in Hooked
    BY <1>17, AnnounceEffect DEF Typed
  <2>4. agent[p].report # Other /\ agent[p].report # None
    BY <2>3, AgentNames DEF Following, Speaks
  <2>8. Spoken(h)'
    BY <2>1, <2>2, <2>3, <2>4 DEF Spoken, OwnCall
  <2>9. ASSUME NEW g \in Hook, g # h, job'[g].pc # "idle" PROVE Spoken(g)'
    <3>1. job'[g] = job[g]
      BY <2>2, <2>9 DEF OtherJobs
    <3>2. PICK q \in Pane : q = job[g].pane /\ job[g].pc # "idle"
      BY <1>a, <2>9, <3>1
    <3>3. /\ agent[q].told => agent'[q].told
          /\ agent'[q].report = agent[q].report /\ agent'[q].sess = agent[q].sess
      BY <2>3, <3>2 DEF OtherAgents
    <3>4. job'[g].pc \in {"start", "persist"} => state'[q].path = agent'[q].sess
      BY <1>a, <2>1, <3>1, <3>2, <3>3 DEF Spoken
    <3> QED BY <2>1, <2>9, <3>1, <3>2, <3>3, <3>4, SpokenKept
  <2> QED BY <2>8, <2>9
<1>18. ASSUME NEW p \in Pane, Prompt(p)
       PROVE  \A g \in Hook : (job[g].pc # "idle" => Spoken(g))'
  <2>1. UNCHANGED <<backend, state>> /\ (\A q \in Pane : Pinned(q) => Pinned(q)')
    BY <1>18, <1>b, PromptEffect DEF Typed
  <2>2. PICK h \in Hook :
          /\ OtherJobs(h) /\ job'[h].pc = "admit" /\ job'[h].pane = p
          /\ job'[h].ev = "Prompt"
          /\ job'[h].sess = agent[p].report /\ job'[h].file = agent[p].report
    BY <1>18, PromptEffect DEF Typed
  <2>3. /\ OtherAgents(p) /\ agent'[p].told /\ agent'[p].sess = agent[p].sess
        /\ agent'[p].report = agent[p].sess /\ agent[p].told /\ Pending(p) = {}
    BY <1>18, PromptEffect DEF Typed
  <2>a. agent[p].live
    BY <2>3, AgentNames DEF NoAgent
  <2>4. /\ agent[p].report # Other /\ agent[p].report # None
        /\ agent[p].report = agent[p].sess \/ Pinned(p)
    BY <2>3, <2>a DEF Following, Speaks
  <2>8. Spoken(h)'
    BY <2>1, <2>2, <2>3, <2>4 DEF Spoken, OwnCall
  <2>9. ASSUME NEW g \in Hook, g # h, job'[g].pc # "idle" PROVE Spoken(g)'
    <3>1. job'[g] = job[g]
      BY <2>2, <2>9 DEF OtherJobs
    <3>2. PICK q \in Pane : q = job[g].pane /\ job[g].pc # "idle"
      BY <1>a, <2>9, <3>1
    <3>3. /\ agent[q].told => agent'[q].told
          /\ agent'[q].report = agent[q].report /\ agent'[q].sess = agent[q].sess
      BY <2>3, <3>2 DEF OtherAgents, Pending
    <3>4. job'[g].pc \in {"start", "persist"} => state'[q].path = agent'[q].sess
      BY <1>a, <2>1, <3>1, <3>2, <3>3 DEF Spoken
    <3> QED BY <2>1, <2>9, <3>1, <3>2, <3>3, <3>4, SpokenKept
  <2> QED BY <2>8, <2>9
<1>19. ASSUME NEW p \in Pane, Clear(p)
       PROVE  \A g \in Hook : (job[g].pc # "idle" => Spoken(g))'
  <2>1. UNCHANGED <<backend, job>> /\ (\A q \in Pane : Pinned(q) => Pinned(q)')
    BY <1>19, <1>b, ClearEffect DEF Typed
  <2> SUFFICES ASSUME NEW g \in Hook, job'[g].pc # "idle" PROVE Spoken(g)'
    OBVIOUS
  <2>2. PICK q \in Pane : q = job[g].pane /\ job[g].pc # "idle"
    BY <1>a, <2>1
  <2>a. q # p /\ UNCHANGED state /\ OtherAgents(p)
    BY <1>19, <2>2, ClearEffect DEF Typed, Pending
  <2>3. /\ agent[q].told => agent'[q].told
        /\ agent'[q].report = agent[q].report /\ agent'[q].sess = agent[q].sess
    BY <2>a DEF OtherAgents
  <2>4. job'[g].pc \in {"start", "persist"} => state'[q].path = agent'[q].sess
    BY <1>a, <2>1, <2>2, <2>3, <2>a DEF Spoken
  <2> QED BY <2>1, <2>2, <2>3, <2>4, SpokenKept
<1>20. ASSUME NEW p \in Pane, Inner(p)
       PROVE  \A g \in Hook : (job[g].pc # "idle" => Spoken(g))'
  <2>1. UNCHANGED <<backend, state>> /\ (\A q \in Pane : Pinned(q) => Pinned(q)')
    BY <1>20, <1>b, InnerEffect DEF Typed
  <2>2. PICK h \in Hook :
          /\ OtherJobs(h) /\ job'[h].pc = "admit" /\ job'[h].pane = p
          /\ \/ job'[h].sess = Other /\ job'[h].file = None
             \/ job'[h].ev = "SubagentStart" /\ job'[h].sess = agent[p].sess /\ job'[h].file = Other
    BY <1>20, InnerEffect DEF Typed
  <2>3. UNCHANGED agent /\ backend = "Codex"
    BY <1>20, InnerEffect DEF Typed
  <2>8. Spoken(h)'
    BY <2>1, <2>2, <2>3, Constants DEF Spoken, OwnCall
  <2>9. ASSUME NEW g \in Hook, g # h, job'[g].pc # "idle" PROVE Spoken(g)'
    <3>1. job'[g] = job[g]
      BY <2>2, <2>9 DEF OtherJobs
    <3>2. PICK q \in Pane : q = job[g].pane /\ job[g].pc # "idle"
      BY <1>a, <2>9, <3>1
    <3>3. /\ agent[q].told => agent'[q].told
          /\ agent'[q].report = agent[q].report /\ agent'[q].sess = agent[q].sess
      BY <2>3, <3>2 DEF OtherAgents
    <3>4. job'[g].pc \in {"start", "persist"} => state'[q].path = agent'[q].sess
      BY <1>a, <2>1, <3>1, <3>2, <3>3 DEF Spoken
    <3> QED BY <2>1, <2>9, <3>1, <3>2, <3>3, <3>4, SpokenKept
  <2> QED BY <2>8, <2>9
<1>21. ASSUME NEW h \in Hook, Admit(h) \/ Arm(h) \/ Check(h) \/ Park(h) \/ Wake(h)
       PROVE  \A g \in Hook : (job[g].pc # "idle" => Spoken(g))'
  <2>1. UNCHANGED <<backend, agent>> /\ (\A q \in Pane : Pinned(q) => Pinned(q)')
    BY <1>21, <1>b, WaitEffect
  <2> SUFFICES ASSUME NEW g \in Hook, job'[g].pc # "idle" PROVE Spoken(g)'
    OBVIOUS
  <2>2. PICK q \in Pane : q = job[g].pane /\ job[g].pc # "idle"
    BY <1>21, <1>a, WaitEffect DEF JobGoes, JobEnds, OtherJobs
  <2>3. /\ job'[g].pane = job[g].pane /\ job'[g].ev = job[g].ev
        /\ job'[g].sess = job[g].sess /\ job'[g].file = job[g].file
    BY <1>21, WaitEffect DEF JobGoes, JobEnds, OtherJobs
  <2>4. job'[g].pc \in {"start", "persist"} => state'[q].path = agent'[q].sess
    BY <1>21, <1>a, <2>1, <2>2, WaitEffect
       DEF Spoken, JobGoes, JobEnds, OtherJobs, OtherStates
  <2> QED BY <2>1, <2>2, <2>3, <2>4, SpokenKept
<1>22. ASSUME NEW h \in Hook, WaitOver(h)
       PROVE  \A g \in Hook : (job[g].pc # "idle" => Spoken(g))'
  <2>1. UNCHANGED <<backend, agent>> /\ (\A q \in Pane : Pinned(q) => Pinned(q)')
    BY <1>22, <1>b, WaitOverEffect
  <2> SUFFICES ASSUME NEW g \in Hook, job'[g].pc # "idle" PROVE Spoken(g)'
    OBVIOUS
  <2>2. PICK q \in Pane : q = job[g].pane /\ job[g].pc # "idle"
    BY <1>22, <1>a, WaitOverEffect DEF JobGoes, JobEnds, OtherJobs
  <2>3. /\ job'[g].pane = job[g].pane /\ job'[g].ev = job[g].ev
        /\ job'[g].sess = job[g].sess /\ job'[g].file = job[g].file
    BY <1>22, WaitOverEffect DEF JobGoes, JobEnds, OtherJobs
  <2>4. job'[g].pc \in {"start", "persist"} => state'[q].path = agent'[q].sess
    BY <1>22, <1>a, <2>1, <2>2, WaitOverEffect
       DEF Spoken, JobGoes, JobEnds, OtherJobs, OtherStates
  <2> QED BY <2>1, <2>2, <2>3, <2>4, SpokenKept
<1>23. ASSUME NEW h \in Hook, Lock(h)
       PROVE  \A g \in Hook : (job[g].pc # "idle" => Spoken(g))'
  <2>1. UNCHANGED <<backend, agent>> /\ (\A q \in Pane : Pinned(q) => Pinned(q)')
    BY <1>23, <1>b, LockEffect
  <2> SUFFICES ASSUME NEW g \in Hook, job'[g].pc # "idle" PROVE Spoken(g)'
    OBVIOUS
  <2>2. PICK q \in Pane : q = job[g].pane /\ job[g].pc # "idle"
    BY <1>23, <1>a, LockEffect DEF JobGoes, JobEnds, OtherJobs
  <2>3. /\ job'[g].pane = job[g].pane /\ job'[g].ev = job[g].ev
        /\ job'[g].sess = job[g].sess /\ job'[g].file = job[g].file
    BY <1>23, LockEffect DEF JobGoes, JobEnds, OtherJobs
  <2>4. job'[g].pc \in {"start", "persist"} => state'[q].path = agent'[q].sess
    BY <1>23, <1>a, <2>1, <2>2, LockEffect
       DEF Spoken, JobGoes, JobEnds, OtherJobs, OtherStates
  <2> QED BY <2>1, <2>2, <2>3, <2>4, SpokenKept
<1>24. ASSUME NEW h \in Hook, TakePath(h)
       PROVE  \A g \in Hook : (job[g].pc # "idle" => Spoken(g))'
  <2>1. UNCHANGED <<backend, agent>> /\ (\A q \in Pane : Pinned(q) => Pinned(q)')
    BY <1>24, <1>b, TakePathEffect
  <2> SUFFICES ASSUME NEW g \in Hook, job'[g].pc # "idle" PROVE Spoken(g)'
    OBVIOUS
  <2>2. PICK q \in Pane : q = job[g].pane /\ job[g].pc # "idle"
    BY <1>24, <1>a, TakePathEffect DEF JobGoes, JobEnds, OtherJobs
  <2>3. /\ job'[g].pane = job[g].pane /\ job'[g].ev = job[g].ev
        /\ job'[g].sess = job[g].sess /\ job'[g].file = job[g].file
    BY <1>24, TakePathEffect DEF JobGoes, JobEnds, OtherJobs
  <2>a. job[h].pane \in Pane /\ job[h].pc = "path"
    BY <1>24, TakePathEffect
  <2>4. ASSUME job'[g].pc \in {"start", "persist"} PROVE state'[q].path = agent'[q].sess
    <3>1. CASE g = h
      <4>1. job[h].ev = "SessionStart"
        BY <1>24, <2>4, <3>1, TakePathEffect DEF JobEnds
      <4>2. PathOf(h) # None /\ Corrected(h) = agent[q].sess
        BY <2>2, <2>a, <3>1, <4>1, OwnHold DEF Holding
      <4> QED BY <1>24, <2>1, <2>2, <3>1, <4>2, TakePathEffect
    <3>2. CASE g # h
      <4>1. job'[g] = job[g]
        BY <1>24, <3>2, TakePathEffect DEF JobGoes, JobEnds, OtherJobs
      <4>2. mutex[q] = g /\ mutex[job[h].pane] = h
        BY <2>2, <2>4, <2>a, <4>1, OwnHold DEF Holding
      <4>3. state'[q] = state[q]
        BY <1>24, <3>2, <4>2, TakePathEffect DEF OtherStates
      <4> QED BY <1>a, <2>1, <2>2, <2>4, <4>1, <4>3 DEF Spoken
    <3> QED BY <3>1, <3>2
  <2> QED BY <2>1, <2>2, <2>3, <2>4, SpokenKept
<1>25. ASSUME NEW h \in Hook, Bind(h)
       PROVE  \A g \in Hook : (job[g].pc # "idle" => Spoken(g))'
  <2>1. UNCHANGED <<backend, agent>> /\ (\A q \in Pane : Pinned(q) => Pinned(q)')
    BY <1>25, <1>b, BindEffect
  <2> SUFFICES ASSUME NEW g \in Hook, job'[g].pc # "idle" PROVE Spoken(g)'
    OBVIOUS
  <2>2. PICK q \in Pane : q = job[g].pane /\ job[g].pc # "idle"
    BY <1>25, <1>a, BindEffect DEF JobGoes, JobEnds, OtherJobs
  <2>3. /\ job'[g].pane = job[g].pane /\ job'[g].ev = job[g].ev
        /\ job'[g].sess = job[g].sess /\ job'[g].file = job[g].file
    BY <1>25, BindEffect DEF JobGoes, JobEnds, OtherJobs
  <2>4. job'[g].pc \in {"start", "persist"} => state'[q].path = agent'[q].sess
    BY <1>25, <1>a, <2>1, <2>2, BindEffect
       DEF Spoken, JobGoes, JobEnds, OtherJobs, OtherStates
  <2> QED BY <2>1, <2>2, <2>3, <2>4, SpokenKept
<1>26. ASSUME NEW h \in Hook, PersistBound(h)
       PROVE  \A g \in Hook : (job[g].pc # "idle" => Spoken(g))'
  <2>1. UNCHANGED <<backend, agent>> /\ (\A q \in Pane : Pinned(q) => Pinned(q)')
    BY <1>26, <1>b, PersistBoundEffect
  <2> SUFFICES ASSUME NEW g \in Hook, job'[g].pc # "idle" PROVE Spoken(g)'
    OBVIOUS
  <2>2. PICK q \in Pane : q = job[g].pane /\ job[g].pc # "idle"
    BY <1>26, <1>a, PersistBoundEffect DEF JobGoes, JobEnds, OtherJobs
  <2>3. /\ job'[g].pane = job[g].pane /\ job'[g].ev = job[g].ev
        /\ job'[g].sess = job[g].sess /\ job'[g].file = job[g].file
    BY <1>26, PersistBoundEffect DEF JobGoes, JobEnds, OtherJobs
  <2>4. job'[g].pc \in {"start", "persist"} => state'[q].path = agent'[q].sess
    BY <1>26, <1>a, <2>1, <2>2, PersistBoundEffect
       DEF Spoken, JobGoes, JobEnds, OtherJobs, OtherStates
  <2> QED BY <2>1, <2>2, <2>3, <2>4, SpokenKept
<1>27. ASSUME NEW p \in Pane, PsRefresh(p)
       PROVE  \A g \in Hook : (job[g].pc # "idle" => Spoken(g))'
  <2>1. UNCHANGED <<backend, job>> /\ (\A q \in Pane : Pinned(q) => Pinned(q)')
    BY <1>27, <1>b, PsRefreshEffect DEF Typed
  <2> SUFFICES ASSUME NEW g \in Hook, job'[g].pc # "idle" PROVE Spoken(g)'
    OBVIOUS
  <2>2. PICK q \in Pane : q = job[g].pane /\ job[g].pc # "idle"
    BY <1>a, <2>1
  <2>3. /\ agent[q].told => agent'[q].told
        /\ agent'[q].report = agent[q].report /\ agent'[q].sess = agent[q].sess
    BY <1>27, PsRefreshEffect DEF Typed
  <2>4. job'[g].pc \in {"start", "persist"} => state'[q].path = agent'[q].sess
    BY <1>a, <2>1, <2>2, <2>3, <1>27, PsRefreshEffect
       DEF Typed, Spoken, OtherStates, Names, Drives
  <2> QED BY <2>1, <2>2, <2>3, <2>4, SpokenKept
<1>28. ASSUME Restart PROVE \A g \in Hook : (job[g].pc # "idle" => Spoken(g))'
  <2> QED BY <1>28, RestartEffect DEF NoJob
<1>29. ASSUME UNCHANGED vars PROVE \A g \in Hook : (job[g].pc # "idle" => Spoken(g))'
  <2> QED BY <1>29, <1>a DEF vars, agentVars, Spoken, OwnCall, Pinned, At
<1>30. ASSUME NEW t \in Task, Launch(t) PROVE \A g \in Hook : (job[g].pc # "idle" => Spoken(g))'
  <2>1. ForkByAgent(t) \/ ForkByServer(t) \/ ForkByCodex(t) =>
          ForkTo(t) /\ (task[t].verify /\ backend = "Codex" => task[t].target # Other)
    BY DEF ForkByAgent, ForkByServer, ForkByCodex, Hooked
  <2> QED BY <1>1, <1>2, <1>3, <1>4, <1>5, <1>6, <1>7, <1>8, <1>9,
             <1>10, <1>11, <1>12, <1>13, <1>14, <1>15, <1>16, <1>30, <2>1 DEF Launch
<1>31. ASSUME NEW p \in Pane, Agent(p) PROVE \A g \in Hook : (job[g].pc # "idle" => Spoken(g))'
  BY <1>17, <1>18, <1>19, <1>20, <1>31 DEF Agent
<1>32. ASSUME NEW h \in Hook, Handle(h) PROVE \A g \in Hook : (job[g].pc # "idle" => Spoken(g))'
  BY <1>21, <1>23, <1>24, <1>25, <1>26, <1>32 DEF Handle
<1> QED BY <1>22, <1>27, <1>28, <1>29, <1>30, <1>31, <1>32 DEF Next

\* Who is heeded after a step was heeded before it, or has just announced
\* its session; and no announcement was lost.
Undisturbed(q) ==
  Heeded(q)' =>
    \/ Announcing(q, {"start", "persist"})'
    \/ /\ Heeded(q) /\ agent'[q].sess = agent[q].sess
       /\ Announcing(q, {"persist"}) => Announcing(q, {"persist"})'
       /\ Announcing(q, {"start", "persist"}) => Announcing(q, {"start", "persist"})'

\* An agent that is announcing was not yet told about.
LEMMA EarlyAnnounced ==
  ASSUME NEW q, Announcing(q, {"start", "persist"})
  PROVE  Announcing(q, {"persist"})
BY DEF Announcing

\* The binding follows while neither agent nor binding changes.
LEMMA FollowedKept ==
  ASSUME NEW q, Followed(q), Undisturbed(q),
         Heeded(q) /\ Heeded(q)' /\ state[q].sess = agent[q].sess => state'[q].sess = agent[q].sess,
         Heeded(q) /\ Heeded(q)' /\ state[q].path = agent[q].sess => state'[q].path = agent[q].sess
  PROVE  Followed(q)'
<1>1. Announcing(q, {"start", "persist"})' => Announcing(q, {"persist"})'
  BY DEF Announcing
<1> QED BY <1>1 DEF Followed, Undisturbed

\* A fork goes on asking about the agent it was asked of.
LEMMA AskedKept ==
  ASSUME Typed, NEW u \in Task, Asked(u), At(u, {"copy", "keep"})' => Undisturbed(task[u].src),
         task'[u].src = task[u].src, task'[u].target = task[u].target,
         task'[u].verify = task[u].verify, task'[u].kind = task[u].kind,
         At(u, {"copy", "keep"})' => At(u, {"copy", "keep"}),
         At(u, {"spawn"})' => At(u, {"spawn"}),
         \A q \in Pane : agent[q].live => agent'[q].live
  PROVE  Asked(u)'
<1>1. PICK p : p = task[u].src
  OBVIOUS
<1>2. At(u, {"copy", "keep"})' /\ task'[u].verify /\ Heeded(p)' =>
        task'[u].target \in {agent'[p].sess, Other} \/ Announcing(p, {"persist"})'
  <2>1. Announcing(p, {"start", "persist"})' => Announcing(p, {"persist"})'
    BY DEF Announcing
  <2> QED BY <1>1, <2>1 DEF Asked, Undisturbed
<1>3. At(u, {"spawn"})' /\ task'[u].kind = "fork" => agent'[p].live
  BY <1>1, PaneOf DEF Asked, At
<1> QED BY <1>1, <1>2, <1>3 DEF Asked

\* A step that moves no launch among those that Asked is about.
LEMMA FollowKept ==
  ASSUME Typed, Following, \A q \in Pane : Undisturbed(q),
         \A q \in Pane : agent[q].live => agent'[q].live,
         \A q \in Pane : Heeded(q) /\ Heeded(q)' =>
           /\ state[q].sess = agent[q].sess => state'[q].sess = agent[q].sess
           /\ state[q].path = agent[q].sess => state'[q].path = agent[q].sess,
         \A u \in Task : At(u, Forking \cup {"spawn"})' => task'[u] = task[u]
  PROVE  (\A q \in Pane : Followed(q)') /\ (\A u \in Task : Asked(u)')
<1>1. \A q \in Pane : Followed(q)'
  BY FollowedKept DEF Following
<1>2. ASSUME NEW u \in Task PROVE Asked(u)'
  <2>1. CASE At(u, Forking \cup {"spawn"})'
    <3>1. task'[u] = task[u] /\ Asked(u)
      BY <2>1 DEF Following
    <3>2. At(u, {"copy", "keep"})' => Undisturbed(task[u].src)
      BY <3>1, PaneOf DEF At, Forking
    <3> QED BY <3>1, <3>2, AskedKept DEF At
  <2>2. CASE ~At(u, Forking \cup {"spawn"})'
    BY <2>2 DEF Asked, At, Forking
  <2> QED BY <2>1, <2>2
<1> QED BY <1>1, <1>2

\* The binding follows the agent, and forks copy what lives.
LEMMA FollowStep ==
  ASSUME Typed, Gentle, Sane, Kempt, Following, [Next]_vars
  PROVE  (\A q \in Pane : Followed(q)') /\ (\A u \in Task : Asked(u)')
<1>a. \A q \in Pane : Followed(q)
  BY DEF Following
<1>b. \A u \in Task : Asked(u) /\ (task[u].pane # None <=> At(u, LaunchStep))
  BY DEF Following, Typed, Placed
<1>c. \A q \in Pane : agent[q].told => backend \in Hooked
  BY DEF Following, Speaks
<1>d. UNCHANGED restarts => \A q \in Pane : agent[q].live => agent'[q].live
  BY KeepStep DEF Kept
<1>e. \A h \in Hook : job[h].pc # "idle" => Spoken(h) /\ job[h].pane \in Pane
  BY PaneOf DEF Following
<1>1. ASSUME NEW t \in Task, NEW kind \in Kinds, RunAdmit(t, kind)
      PROVE  (\A q \in Pane : Followed(q)') /\ (\A u \in Task : Asked(u)')
  <2>1. /\ UNCHANGED <<job, deaf, managed>>
        /\ \A q \in Pane : agent'[q].sess = agent[q].sess /\ agent'[q].told = agent[q].told
    BY <1>1, RunAdmitEffect DEF Typed
  <2>2. \A q \in Pane : Launching(q)' => Launching(q)
    BY <1>1, <1>b, RunAdmitEffect, Constants
       DEF Launching, At, LaunchStep, TaskGoes, TaskEnds, OtherTasks, NoTask, Typed
  <2>3. \A q \in Pane : Undisturbed(q)
    BY <2>1, <2>2 DEF Undisturbed, Heeded, Announcing
  <2>4. \A q \in Pane : agent[q].live => agent'[q].live
    BY <1>1, <1>d, RunAdmitEffect DEF Typed
  <2>5. \A q \in Pane : state'[q].sess = state[q].sess /\ state'[q].path = state[q].path
    BY <1>1, RunAdmitEffect DEF Typed, OtherStates, Names, Drives
  <2>6. \A q \in Pane : Followed(q)'
    BY <1>a, <2>3, <2>5, FollowedKept
  <2>7. Asked(t)'
    BY <1>1, RunAdmitEffect DEF Typed, Asked, At
  <2>8. ASSUME NEW u \in Task, u # t PROVE Asked(u)'
    <3>1. task'[u] = task[u] /\ Asked(u)
      BY <1>1, <1>b, <2>8, RunAdmitEffect DEF Typed, OtherTasks, TaskEnds
    <3>2. At(u, {"copy", "keep"})' => Undisturbed(task[u].src)
      BY <2>3, <3>1, PaneOf DEF At, Forking
    <3> QED BY <2>4, <3>1, <3>2, AskedKept DEF At
  <2> QED BY <2>6, <2>7, <2>8
<1>2. ASSUME NEW t \in Task, NEW p \in Pane, ForkAdmit(t, p)
      PROVE  (\A q \in Pane : Followed(q)') /\ (\A u \in Task : Asked(u)')
  <2>1. /\ UNCHANGED <<job, deaf, managed>>
        /\ \A q \in Pane : agent'[q].sess = agent[q].sess /\ agent'[q].told = agent[q].told
    BY <1>2, ForkAdmitEffect DEF Typed
  <2>2. \A q \in Pane : Launching(q)' => Launching(q)
    BY <1>2, <1>b, ForkAdmitEffect, Constants
       DEF Launching, At, LaunchStep, TaskGoes, TaskEnds, OtherTasks, NoTask, Typed
  <2>3. \A q \in Pane : Undisturbed(q)
    BY <2>1, <2>2 DEF Undisturbed, Heeded, Announcing
  <2>4. \A q \in Pane : agent[q].live => agent'[q].live
    BY <1>2, <1>d, ForkAdmitEffect DEF Typed
  <2>5. \A q \in Pane : state'[q].sess = state[q].sess /\ state'[q].path = state[q].path
    BY <1>2, ForkAdmitEffect DEF Typed, OtherStates, Names, Drives
  <2>6. \A q \in Pane : Followed(q)'
    BY <1>a, <2>3, <2>5, FollowedKept
  <2>7. Asked(t)'
    BY <1>2, ForkAdmitEffect DEF Typed, Asked, At
  <2>8. ASSUME NEW u \in Task, u # t PROVE Asked(u)'
    <3>1. task'[u] = task[u] /\ Asked(u)
      BY <1>2, <1>b, <2>8, ForkAdmitEffect DEF Typed, OtherTasks, TaskEnds
    <3>2. At(u, {"copy", "keep"})' => Undisturbed(task[u].src)
      BY <2>3, <3>1, PaneOf DEF At, Forking
    <3> QED BY <2>4, <3>1, <3>2, AskedKept DEF At
  <2> QED BY <2>6, <2>7, <2>8
<1>3. ASSUME NEW t \in Task, ForkLock(t)
      PROVE  (\A q \in Pane : Followed(q)') /\ (\A u \in Task : Asked(u)')
  <2>1. /\ UNCHANGED <<job, deaf, managed>>
        /\ \A q \in Pane : agent'[q].sess = agent[q].sess /\ agent'[q].told = agent[q].told
    BY <1>3, ForkLockEffect
  <2>2. \A q \in Pane : Launching(q)' => Launching(q)
    BY <1>3, <1>b, ForkLockEffect, Constants
       DEF Launching, At, LaunchStep, TaskGoes, TaskEnds, OtherTasks, NoTask
  <2>3. \A q \in Pane : Undisturbed(q)
    BY <2>1, <2>2 DEF Undisturbed, Heeded, Announcing
  <2>4. \A q \in Pane : agent[q].live => agent'[q].live
    BY <1>3, <1>d, ForkLockEffect
  <2>5. \A q \in Pane : state'[q].sess = state[q].sess /\ state'[q].path = state[q].path
    BY <1>3, ForkLockEffect DEF Typed, OtherStates, Names, Drives
  <2>6. \A q \in Pane : Followed(q)'
    BY <1>a, <2>3, <2>5, FollowedKept
  <2>7. Asked(t)'
    <3>1. PICK p \in Pane : p = task[t].src
      BY <1>3, ForkLockEffect
    <3>2. CASE TaskEnds(t)
      BY <3>2 DEF TaskEnds, Asked, At
    <3>3. CASE ~TaskEnds(t)
      BY <1>3, <2>1, <3>1, <3>3, ForkLockEffect DEF Asked, At
    <3> QED BY <3>2, <3>3
  <2>8. ASSUME NEW u \in Task, u # t PROVE Asked(u)'
    <3>1. task'[u] = task[u] /\ Asked(u)
      BY <1>3, <1>b, <2>8, ForkLockEffect DEF Typed, OtherTasks, TaskEnds
    <3>2. At(u, {"copy", "keep"})' => Undisturbed(task[u].src)
      BY <2>3, <3>1, PaneOf DEF At, Forking
    <3> QED BY <2>4, <3>1, <3>2, AskedKept DEF At
  <2> QED BY <2>6, <2>7, <2>8
<1>4. ASSUME NEW t \in Task, ForkFails(t)
      PROVE  (\A q \in Pane : Followed(q)') /\ (\A u \in Task : Asked(u)')
  <2>1. /\ UNCHANGED <<job, deaf, managed>>
        /\ \A q \in Pane : agent'[q].sess = agent[q].sess /\ agent'[q].told = agent[q].told
    BY <1>4, ForkFailsEffect
  <2>2. \A q \in Pane : Launching(q)' => Launching(q)
    BY <1>4, <1>b, ForkFailsEffect, Constants
       DEF Launching, At, LaunchStep, TaskGoes, TaskEnds, OtherTasks, NoTask
  <2>3. \A q \in Pane : Undisturbed(q)
    BY <2>1, <2>2 DEF Undisturbed, Heeded, Announcing
  <2>4. \A q \in Pane : agent[q].live => agent'[q].live
    BY <1>4, <1>d, ForkFailsEffect
  <2>5. \A q \in Pane : state'[q].sess = state[q].sess /\ state'[q].path = state[q].path
    BY <1>4, ForkFailsEffect DEF Typed, OtherStates, Names, Drives
  <2>6. \A u \in Task : At(u, Forking \cup {"spawn"})' => task'[u] = task[u]
    BY <1>4, ForkFailsEffect DEF Typed, At, Forking, TaskGoes, TaskEnds, OtherTasks, NoTask
  <2> QED BY <2>3, <2>4, <2>5, <2>6, FollowKept
<1>5. ASSUME NEW t \in Task, ForkTo(t), (task[t].verify /\ backend = "Codex" => task[t].target # Other)
      PROVE  (\A q \in Pane : Followed(q)') /\ (\A u \in Task : Asked(u)')
  <2>1. /\ UNCHANGED <<job, deaf, managed>>
        /\ \A q \in Pane : agent'[q].sess = agent[q].sess /\ agent'[q].told = agent[q].told
    BY <1>5, ForkToEffect
  <2>2. \A q \in Pane : Launching(q)' => Launching(q)
    BY <1>5, <1>b, ForkToEffect, Constants
       DEF Launching, At, LaunchStep, TaskGoes, TaskEnds, OtherTasks, NoTask
  <2>3. \A q \in Pane : Undisturbed(q)
    BY <2>1, <2>2 DEF Undisturbed, Heeded, Announcing
  <2>4. \A q \in Pane : agent[q].live => agent'[q].live
    BY <1>5, <1>d, ForkToEffect
  <2>5. \A q \in Pane : state'[q].sess = state[q].sess /\ state'[q].path = state[q].path
    BY <1>5, ForkToEffect DEF Typed, OtherStates, Names, Drives
  <2>6. \A q \in Pane : Followed(q)'
    BY <1>a, <2>3, <2>5, FollowedKept
  <2>7. Asked(t)'
    <3>1. PICK p \in Pane : p = task[t].src /\ task'[t].src = p /\ task[t].pc = "copy"
      BY <1>5, ForkToEffect
    <3>2. p \in managed
      BY <3>1 DEF Sane, TaskSane, ForkSane, At, Forking
    <3>3. agent'[p].live
      BY <2>4, <3>2, AgentNames
    <3>4. /\ task'[t].verify = task[t].verify
          /\ task'[t].pc = "spawn" \/ task'[t].target = task[t].target
      BY <1>5, ForkToEffect
    <3>5. Announcing(p, {"start", "persist"})' => Announcing(p, {"persist"})'
      BY DEF Announcing
    <3>6. task'[t].pc \in {"copy", "keep"} /\ task'[t].verify /\ Heeded(p)' =>
            task'[t].target \in {agent'[p].sess, Other} \/ Announcing(p, {"persist"})'
      BY <1>b, <2>3, <3>1, <3>4, <3>5 DEF Asked, At, Undisturbed
    <3> QED BY <3>1, <3>3, <3>6 DEF Asked, At
  <2>8. ASSUME NEW u \in Task, u # t PROVE Asked(u)'
    <3>1. task'[u] = task[u] /\ Asked(u)
      BY <1>5, <1>b, <2>8, ForkToEffect DEF Typed, OtherTasks, TaskEnds
    <3>2. At(u, {"copy", "keep"})' => Undisturbed(task[u].src)
      BY <2>3, <3>1, PaneOf DEF At, Forking
    <3> QED BY <2>4, <3>1, <3>2, AskedKept DEF At
  <2> QED BY <2>6, <2>7, <2>8
<1>6. ASSUME NEW t \in Task, ForkKeep(t)
      PROVE  (\A q \in Pane : Followed(q)') /\ (\A u \in Task : Asked(u)')
  <2>1. UNCHANGED <<backend, agent, job, deaf, managed>> /\ OtherTasks(t)
    BY <1>6, ForkKeepEffect
  <2>2. PICK p \in Pane : p = task[t].src /\ task'[t].src = p
    BY <1>6, ForkKeepEffect
  <2>3. /\ task[t].pc = "keep" /\ task'[t].pc = "spawn" /\ Names(p, task[t].target)
        /\ task'[t].pane = task[t].pane
    BY <1>6, <2>2, ForkKeepEffect
  <2>4. \A q \in Pane : Launching(q)' => Launching(q)
    BY <1>b, <2>1, <2>3, Constants DEF Launching, OtherTasks, At, LaunchStep
  <2>5. \A q \in Pane : Undisturbed(q)
    BY <2>1, <2>4 DEF Undisturbed, Heeded, Announcing
  <2>6. task[t].target # Other /\ task[t].verify /\ p \in managed
    BY <2>2, <2>3, KeepNames DEF At, Sane, TaskSane, ForkSane, Forking, AgentSane, Reports
  <2>7. Heeded(p) => task[t].target = agent[p].sess \/ Announcing(p, {"persist"})
    BY <1>b, <2>2, <2>3, <2>6 DEF Asked, At
  <2>8. Followed(p)'
    <3>1. Heeded(p)' => Heeded(p)
      BY <2>1, <2>4 DEF Heeded
    <3>2. Announcing(p, {"persist"}) => Announcing(p, {"persist"})'
      BY <2>1 DEF Announcing
    <3>3. Announcing(p, {"start", "persist"}) => Announcing(p, {"start", "persist"})'
      BY <2>1 DEF Announcing
    <3> QED BY <1>a, <2>1, <2>3, <2>7, <3>1, <3>2, <3>3 DEF Followed, Names
  <2>9. ASSUME NEW q \in Pane, q # p PROVE Followed(q)'
    BY <1>a, <2>3, <2>5, <2>9, FollowedKept DEF Names, OtherStates
  <2>10. Asked(t)'
    <3>1. agent'[p].live
      BY <2>1, <2>6, AgentNames
    <3> QED BY <2>2, <2>3, <3>1 DEF Asked, At
  <2>11. ASSUME NEW u \in Task, u # t PROVE Asked(u)'
    <3>1. task'[u] = task[u] /\ Asked(u)
      BY <1>b, <2>1, <2>11 DEF OtherTasks
    <3>2. At(u, {"copy", "keep"})' => Undisturbed(task[u].src)
      BY <2>5, <3>1, PaneOf DEF At, Forking
    <3> QED BY <2>1, <3>1, <3>2, AskedKept DEF At
  <2> QED BY <2>8, <2>9, <2>10, <2>11
<1>7. ASSUME NEW t \in Task, Spawn(t)
      PROVE  (\A q \in Pane : Followed(q)') /\ (\A u \in Task : Asked(u)')
  <2>1. PICK p \in Pane :
          /\ UNCHANGED <<state, managed, job, deaf>> /\ OtherTasks(t) /\ task'[t].pane = p
          /\ task'[t].pc \in {"resume", "know"}
          /\ OtherAgents(p) /\ ~agent'[p].told
    BY <1>7, SpawnEffect
  <2>2. \A q \in Pane : q # p => (Launching(q)' => Launching(q))
    BY <2>1 DEF Launching, OtherTasks
  <2>3. \A q \in Pane : Undisturbed(q)
    BY <2>1, <2>2 DEF Undisturbed, Heeded, Announcing, OtherAgents
  <2>4. \A q \in Pane : agent[q].live => agent'[q].live
    BY <1>7, <1>d, SpawnEffect
  <2>5. \A u \in Task : At(u, Forking \cup {"spawn"})' => task'[u] = task[u]
    BY <2>1 DEF At, Forking, OtherTasks
  <2> QED BY <2>1, <2>3, <2>4, <2>5, FollowKept
<1>8. ASSUME NEW t \in Task, SpawnFails(t)
      PROVE  (\A q \in Pane : Followed(q)') /\ (\A u \in Task : Asked(u)')
  <2>1. /\ UNCHANGED <<job, deaf, managed>>
        /\ \A q \in Pane : agent'[q].sess = agent[q].sess /\ agent'[q].told = agent[q].told
    BY <1>8, SpawnFailsEffect DEF Typed
  <2>2. \A q \in Pane : Launching(q)' => Launching(q)
    BY <1>8, <1>b, SpawnFailsEffect, Constants
       DEF Launching, At, LaunchStep, TaskGoes, TaskEnds, OtherTasks, NoTask, Typed
  <2>3. \A q \in Pane : Undisturbed(q)
    BY <2>1, <2>2 DEF Undisturbed, Heeded, Announcing
  <2>4. \A q \in Pane : agent[q].live => agent'[q].live
    BY <1>8, <1>d, SpawnFailsEffect DEF Typed
  <2>5. \A q \in Pane : state'[q].sess = state[q].sess /\ state'[q].path = state[q].path
    BY <1>8, SpawnFailsEffect DEF Typed, OtherStates, Names, Drives
  <2>6. \A u \in Task : At(u, Forking \cup {"spawn"})' => task'[u] = task[u]
    BY <1>8, SpawnFailsEffect DEF Typed, At, Forking, TaskGoes, TaskEnds, OtherTasks, NoTask
  <2> QED BY <2>3, <2>4, <2>5, <2>6, FollowKept
<1>9. ASSUME NEW t \in Task, PersistKnown(t)
      PROVE  (\A q \in Pane : Followed(q)') /\ (\A u \in Task : Asked(u)')
  <2>1. /\ UNCHANGED <<job, deaf, managed>>
        /\ \A q \in Pane : agent'[q].sess = agent[q].sess /\ agent'[q].told = agent[q].told
    BY <1>9, PersistKnownEffect
  <2>2. \A q \in Pane : Launching(q)' => Launching(q)
    BY <1>9, <1>b, PersistKnownEffect, Constants
       DEF Launching, At, LaunchStep, TaskGoes, TaskEnds, OtherTasks, NoTask
  <2>3. \A q \in Pane : Undisturbed(q)
    BY <2>1, <2>2 DEF Undisturbed, Heeded, Announcing
  <2>4. \A q \in Pane : agent[q].live => agent'[q].live
    BY <1>9, <1>d, PersistKnownEffect
  <2>5. \A q \in Pane : state'[q].sess = state[q].sess /\ state'[q].path = state[q].path
    BY <1>9, PersistKnownEffect DEF Typed, OtherStates, Names, Drives
  <2>6. \A u \in Task : At(u, Forking \cup {"spawn"})' => task'[u] = task[u]
    BY <1>9, PersistKnownEffect
       DEF Typed, At, Forking, TaskGoes, TaskEnds, OtherTasks, NoTask
  <2> QED BY <2>3, <2>4, <2>5, <2>6, FollowKept
<1>10. ASSUME NEW t \in Task, RestoreBackend(t)
       PROVE  (\A q \in Pane : Followed(q)') /\ (\A u \in Task : Asked(u)')
  <2>1. /\ UNCHANGED <<job, deaf, managed>>
        /\ \A q \in Pane : agent'[q].sess = agent[q].sess /\ agent'[q].told = agent[q].told
    BY <1>10, RestoreBackendEffect
  <2>2. \A q \in Pane : Launching(q)' => Launching(q)
    BY <1>10, <1>b, RestoreBackendEffect, Constants
       DEF Launching, At, LaunchStep, TaskGoes, TaskEnds, OtherTasks, NoTask
  <2>3. \A q \in Pane : Undisturbed(q)
    BY <2>1, <2>2 DEF Undisturbed, Heeded, Announcing
  <2>4. \A q \in Pane : agent[q].live => agent'[q].live
    BY <1>10, <1>d, RestoreBackendEffect
  <2>a. PICK p \in Pane : p = task[t].pane /\ At(t, LaunchStep)
    BY <1>10, RestoreBackendEffect DEF At, LaunchStep
  <2>b. backend # "OpenCode" => task[t].target = agent[p].sess
    BY <2>a, LaunchNames
  <2>5. \A q \in Pane : /\ state[q].sess = agent[q].sess => state'[q].sess = agent[q].sess
                        /\ state'[q].path = state[q].path
    BY <1>10, <2>a, <2>b, RestoreBackendEffect DEF OtherStates
  <2>6. \A u \in Task : At(u, Forking \cup {"spawn"})' => task'[u] = task[u]
    BY <1>10, RestoreBackendEffect
       DEF Typed, At, Forking, TaskGoes, TaskEnds, OtherTasks, NoTask
  <2> QED BY <2>3, <2>4, <2>5, <2>6, FollowKept
<1>11. ASSUME NEW t \in Task, Register(t)
       PROVE  (\A q \in Pane : Followed(q)') /\ (\A u \in Task : Asked(u)')
  <2>1. PICK p \in Pane : p = task[t].pane /\ task[t].pc = "register"
    BY <1>11, RegisterEffect
  <2>2. /\ UNCHANGED <<agent, deaf>> /\ managed' = managed \cup {p} /\ TaskGoes(t, "mark")
        /\ \A q \in Pane : state'[q].sess = state[q].sess /\ state'[q].path = state[q].path
        /\ \A h \in Hook : /\ job'[h].pc = job[h].pc /\ job'[h].pane = job[h].pane
                           /\ job'[h].ev = job[h].ev /\ job'[h].file = job[h].file
    BY <1>11, <2>1, RegisterEffect DEF OtherStates
  <2>3. Launching(p) /\ (\A q \in Pane : Launching(q)' => Launching(q))
    BY <2>1, <2>2 DEF Launching, TaskGoes, OtherTasks
  <2>4. \A q \in Pane : Undisturbed(q)
    BY <2>2, <2>3 DEF Undisturbed, Heeded, Announcing
  <2>5. \A u \in Task : At(u, Forking \cup {"spawn"})' => task'[u] = task[u]
    BY <2>2 DEF At, Forking, TaskGoes, OtherTasks
  <2> QED BY <2>2, <2>4, <2>5, FollowKept
<1>12. ASSUME NEW t \in Task, Mark(t)
       PROVE  (\A q \in Pane : Followed(q)') /\ (\A u \in Task : Asked(u)')
  <2>1. /\ UNCHANGED <<job, deaf, managed>>
        /\ \A q \in Pane : agent'[q].sess = agent[q].sess /\ agent'[q].told = agent[q].told
    BY <1>12, MarkEffect
  <2>2. \A q \in Pane : Launching(q)' => Launching(q)
    BY <1>12, <1>b, MarkEffect, Constants
       DEF Launching, At, LaunchStep, TaskGoes, TaskEnds, OtherTasks, NoTask
  <2>3. \A q \in Pane : Undisturbed(q)
    BY <2>1, <2>2 DEF Undisturbed, Heeded, Announcing
  <2>4. \A q \in Pane : agent[q].live => agent'[q].live
    BY <1>12, <1>d, MarkEffect
  <2>5. \A q \in Pane : state'[q].sess = state[q].sess /\ state'[q].path = state[q].path
    BY <1>12, MarkEffect DEF Typed, OtherStates, Names, Drives
  <2>6. \A u \in Task : At(u, Forking \cup {"spawn"})' => task'[u] = task[u]
    BY <1>12, MarkEffect DEF Typed, At, Forking, TaskGoes, TaskEnds, OtherTasks, NoTask
  <2> QED BY <2>3, <2>4, <2>5, <2>6, FollowKept
<1>13. ASSUME NEW t \in Task, PersistRestored(t)
       PROVE  (\A q \in Pane : Followed(q)') /\ (\A u \in Task : Asked(u)')
  <2>1. /\ UNCHANGED <<job, deaf, managed>>
        /\ \A q \in Pane : agent'[q].sess = agent[q].sess /\ agent'[q].told = agent[q].told
    BY <1>13, PersistRestoredEffect
  <2>2. \A q \in Pane : Launching(q)' => Launching(q)
    BY <1>13, <1>b, PersistRestoredEffect, Constants
       DEF Launching, At, LaunchStep, TaskGoes, TaskEnds, OtherTasks, NoTask
  <2>3. \A q \in Pane : Undisturbed(q)
    BY <2>1, <2>2 DEF Undisturbed, Heeded, Announcing
  <2>4. \A q \in Pane : agent[q].live => agent'[q].live
    BY <1>13, <1>d, PersistRestoredEffect
  <2>5. \A q \in Pane : state'[q].sess = state[q].sess /\ state'[q].path = state[q].path
    BY <1>13, PersistRestoredEffect DEF Typed, OtherStates, Names, Drives
  <2>6. \A u \in Task : At(u, Forking \cup {"spawn"})' => task'[u] = task[u]
    BY <1>13, PersistRestoredEffect
       DEF Typed, At, Forking, TaskGoes, TaskEnds, OtherTasks, NoTask
  <2> QED BY <2>3, <2>4, <2>5, <2>6, FollowKept
<1>14. ASSUME NEW t \in Task, Seed(t)
       PROVE  (\A q \in Pane : Followed(q)') /\ (\A u \in Task : Asked(u)')
  <2>1. /\ UNCHANGED <<job, deaf, managed>>
        /\ \A q \in Pane : agent'[q].sess = agent[q].sess /\ agent'[q].told = agent[q].told
    BY <1>14, SeedEffect
  <2>2. \A q \in Pane : Launching(q)' => Launching(q)
    BY <1>14, <1>b, SeedEffect, Constants
       DEF Launching, At, LaunchStep, TaskGoes, TaskEnds, OtherTasks, NoTask
  <2>3. \A q \in Pane : Undisturbed(q)
    BY <2>1, <2>2 DEF Undisturbed, Heeded, Announcing
  <2>4. \A q \in Pane : agent[q].live => agent'[q].live
    BY <1>14, <1>d, SeedEffect
  <2>a. PICK p \in Pane : p = task[t].pane /\ At(t, LaunchStep)
    BY <1>14, SeedEffect DEF At, LaunchStep
  <2>b. task[t].known \in {None, agent[p].sess}
    BY <2>a, LaunchNames
  <2>5. \A q \in Pane : /\ state[q].sess = agent[q].sess => state'[q].sess = agent[q].sess
                        /\ state'[q].path = state[q].path
    BY <1>14, <2>a, <2>b, SeedEffect DEF OtherStates, Names
  <2>6. \A u \in Task : At(u, Forking \cup {"spawn"})' => task'[u] = task[u]
    BY <1>14, SeedEffect DEF Typed, At, Forking, TaskGoes, TaskEnds, OtherTasks, NoTask
  <2> QED BY <2>3, <2>4, <2>5, <2>6, FollowKept
<1>15. ASSUME NEW t \in Task, Attach(t)
       PROVE  (\A q \in Pane : Followed(q)') /\ (\A u \in Task : Asked(u)')
  <2>1. PICK p \in Pane : p = task[t].pane /\ At(t, LaunchStep)
    BY <1>15, AttachEffect DEF At, LaunchStep
  <2>2. /\ UNCHANGED <<backend, job, deaf, managed>> /\ TaskGoes(t, "runtime")
        /\ \A q \in Pane : /\ agent'[q].told = agent[q].told /\ state'[q].path = state[q].path
                           /\ backend \in Hooked => agent'[q].sess = agent[q].sess
        /\ OtherStates(p)
        /\ backend \in Hooked => state'[p].sess = IF backend = "Grok" /\ task[t].known # None
                                                  THEN task[t].known ELSE state[p].sess
    BY <1>15, <2>1, AttachEffect DEF Names, OtherStates, OtherAgents, Hooked
  <2>3. task[t].known \in {None, agent[p].sess}
    BY <2>1, LaunchNames
  <2>4. \A q \in Pane : Launching(q)' => Launching(q)
    BY <2>1, <2>2 DEF Launching, TaskGoes, OtherTasks, At, LaunchStep
  <2>5. \A q \in Pane : Undisturbed(q)
    BY <1>c, <2>2, <2>4 DEF Undisturbed, Heeded, Announcing
  <2>6. \A q \in Pane : agent[q].live => agent'[q].live
    BY <1>15, <1>d, AttachEffect
  <2>7. \A q \in Pane : Heeded(q) =>
          /\ state[q].sess = agent[q].sess => state'[q].sess = agent[q].sess
          /\ state'[q].path = state[q].path
    BY <1>c, <2>2, <2>3 DEF Heeded, OtherStates
  <2>8. \A u \in Task : At(u, Forking \cup {"spawn"})' => task'[u] = task[u]
    BY <2>2 DEF At, Forking, TaskGoes, OtherTasks
  <2> QED BY <2>5, <2>6, <2>7, <2>8, FollowKept
<1>16. ASSUME NEW t \in Task, AttachRuntime(t)
       PROVE  (\A q \in Pane : Followed(q)') /\ (\A u \in Task : Asked(u)')
  <2>1. /\ UNCHANGED <<job, deaf, managed>>
        /\ \A q \in Pane : agent'[q].sess = agent[q].sess /\ agent'[q].told = agent[q].told
    BY <1>16, AttachRuntimeEffect
  <2>2. \A q \in Pane : Launching(q)' => Launching(q)
    BY <1>16, <1>b, AttachRuntimeEffect, Constants
       DEF Launching, At, LaunchStep, TaskGoes, TaskEnds, OtherTasks, NoTask
  <2>3. \A q \in Pane : Undisturbed(q)
    BY <2>1, <2>2 DEF Undisturbed, Heeded, Announcing
  <2>4. \A q \in Pane : agent[q].live => agent'[q].live
    BY <1>16, <1>d, AttachRuntimeEffect
  <2>5. \A q \in Pane : state'[q].sess = state[q].sess /\ state'[q].path = state[q].path
    BY <1>16, AttachRuntimeEffect DEF Typed, OtherStates, Names, Drives
  <2>6. \A u \in Task : At(u, Forking \cup {"spawn"})' => task'[u] = task[u]
    BY <1>16, AttachRuntimeEffect
       DEF Typed, At, Forking, TaskGoes, TaskEnds, OtherTasks, NoTask
  <2> QED BY <2>3, <2>4, <2>5, <2>6, FollowKept
<1>17. ASSUME NEW p \in Pane, Announce(p)
       PROVE  (\A q \in Pane : Followed(q)') /\ (\A u \in Task : Asked(u)')
  <2>1. UNCHANGED <<state, managed, task, deaf>>
    BY <1>17, AnnounceEffect DEF Typed
  <2>2. PICK h \in Hook : OtherJobs(h) /\ job[h].pc = "idle"
    BY <1>17, AnnounceEffect DEF Typed
  <2>a. \A q \in Pane : /\ Announcing(q, {"persist"}) => Announcing(q, {"persist"})'
                        /\ Announcing(q, {"start", "persist"}) => Announcing(q, {"start", "persist"})'
    BY <2>2 DEF Announcing, OtherJobs
  <2>b. \A q \in Pane : Launching(q)' => Launching(q)
    BY <2>1 DEF Launching
  <2>c. OtherAgents(p) /\ Announcing(p, {"start", "persist"})'
    <3>1. PICK g \in Hook : /\ job'[g].pc = "admit" /\ job'[g].pane = p
                            /\ job'[g].ev = "SessionStart" /\ job'[g].file = agent[p].report
      BY <1>17, AnnounceEffect DEF Typed
    <3>2. agent[p].report # None
      BY <1>17, AnnounceEffect DEF Typed, Following, Speaks
    <3>3. OtherAgents(p)
      BY <1>17, AnnounceEffect DEF Typed
    <3> QED BY <3>1, <3>2, <3>3 DEF Announcing
  <2>3. \A q \in Pane : Undisturbed(q)
    BY <2>1, <2>a, <2>b, <2>c DEF Undisturbed, Heeded, OtherAgents
  <2>4. \A q \in Pane : agent[q].live => agent'[q].live
    BY <1>17, <1>d, AnnounceEffect DEF Typed
  <2> QED BY <2>1, <2>3, <2>4, FollowKept
<1>18. ASSUME NEW p \in Pane, Prompt(p)
       PROVE  (\A q \in Pane : Followed(q)') /\ (\A u \in Task : Asked(u)')
  <2>1. UNCHANGED <<state, managed, task, deaf>>
    BY <1>18, PromptEffect DEF Typed
  <2>2. PICK h \in Hook : OtherJobs(h) /\ job[h].pc = "idle"
    BY <1>18, PromptEffect DEF Typed
  <2>a. \A q \in Pane : /\ Announcing(q, {"persist"}) => Announcing(q, {"persist"})'
                        /\ Announcing(q, {"start", "persist"}) => Announcing(q, {"start", "persist"})'
    BY <2>2 DEF Announcing, OtherJobs
  <2>b. \A q \in Pane : Launching(q)' => Launching(q)
    BY <2>1 DEF Launching
  <2>c. OtherAgents(p) /\ agent'[p].sess = agent[p].sess /\ agent[p].told
    BY <1>18, PromptEffect DEF Typed
  <2>3. \A q \in Pane : Undisturbed(q)
    BY <2>1, <2>a, <2>b, <2>c DEF Undisturbed, Heeded, OtherAgents
  <2>4. \A q \in Pane : agent[q].live => agent'[q].live
    BY <1>18, <1>d, PromptEffect DEF Typed
  <2> QED BY <2>1, <2>3, <2>4, FollowKept
<1>19. ASSUME NEW p \in Pane, Clear(p)
       PROVE  (\A q \in Pane : Followed(q)') /\ (\A u \in Task : Asked(u)')
  <2>1. UNCHANGED <<state, managed, task, deaf>>
    BY <1>19, ClearEffect DEF Typed
  <2>2. UNCHANGED job /\ OtherAgents(p) /\ ~agent'[p].told
    BY <1>19, ClearEffect DEF Typed
  <2>3. \A q \in Pane : Undisturbed(q)
    BY <2>1, <2>2 DEF Undisturbed, Heeded, OtherAgents, Announcing, Launching
  <2>4. \A q \in Pane : agent[q].live => agent'[q].live
    BY <1>19, <1>d, ClearEffect DEF Typed
  <2> QED BY <2>1, <2>3, <2>4, FollowKept
<1>20. ASSUME NEW p \in Pane, Inner(p)
       PROVE  (\A q \in Pane : Followed(q)') /\ (\A u \in Task : Asked(u)')
  <2>1. UNCHANGED <<state, managed, task, deaf>>
    BY <1>20, InnerEffect DEF Typed
  <2>2. PICK h \in Hook : OtherJobs(h) /\ job[h].pc = "idle"
    BY <1>20, InnerEffect DEF Typed
  <2>a. \A q \in Pane : /\ Announcing(q, {"persist"}) => Announcing(q, {"persist"})'
                        /\ Announcing(q, {"start", "persist"}) => Announcing(q, {"start", "persist"})'
    BY <2>2 DEF Announcing, OtherJobs
  <2>b. \A q \in Pane : Launching(q)' => Launching(q)
    BY <2>1 DEF Launching
  <2>c. UNCHANGED agent
    BY <1>20, InnerEffect DEF Typed
  <2>3. \A q \in Pane : Undisturbed(q)
    BY <2>1, <2>a, <2>b, <2>c DEF Undisturbed, Heeded
  <2>4. \A q \in Pane : agent[q].live => agent'[q].live
    BY <1>20, <1>d, InnerEffect DEF Typed
  <2> QED BY <2>1, <2>3, <2>4, FollowKept
<1>21. ASSUME NEW h \in Hook, Admit(h) \/ Arm(h) \/ Check(h) \/ Park(h) \/ Wake(h)
       PROVE  (\A q \in Pane : Followed(q)') /\ (\A u \in Task : Asked(u)')
  <2>1. UNCHANGED <<agent, state, managed, task, deaf>>
    BY <1>21, WaitEffect
  <2>2. PICK pc \in {"arm", "check", "park", "wait", "lock"} : JobGoes(h, pc)
    BY <1>21, WaitEffect
  <2>3. \A q \in Pane : Undisturbed(q)
    BY <2>1, <2>2 DEF Undisturbed, Heeded, Launching, Announcing, JobGoes, OtherJobs
  <2> QED BY <2>1, <2>3, FollowKept
<1>22. ASSUME NEW h \in Hook, WaitOver(h)
       PROVE  (\A q \in Pane : Followed(q)') /\ (\A u \in Task : Asked(u)')
  <2>1. UNCHANGED <<agent, state, managed, task>>
    BY <1>22, WaitOverEffect
  <2>2. /\ job[h].pc = "wait"
        /\ \/ JobGoes(h, "lock") /\ UNCHANGED deaf
           \/ JobEnds(h) /\ deaf' = deaf \cup Lost(h)
    BY <1>22, WaitOverEffect
  <2>3. \A q \in Pane : Heeded(q)' =>
          /\ Heeded(q)
          /\ Announcing(q, {"persist"}) => Announcing(q, {"persist"})'
          /\ Announcing(q, {"start", "persist"}) => Announcing(q, {"start", "persist"})'
    <3> SUFFICES ASSUME NEW q \in Pane, Heeded(q)'
                 PROVE  /\ Heeded(q)
                        /\ Announcing(q, {"persist"}) => Announcing(q, {"persist"})'
                        /\ Announcing(q, {"start", "persist"}) =>
                             Announcing(q, {"start", "persist"})'
      OBVIOUS
    <3>1. Heeded(q)
      BY <2>1, <2>2 DEF Heeded, Launching
    <3>2. CASE JobEnds(h) /\ deaf' = deaf \cup Lost(h)
      <4>1. job[h].pane = q => ~(job[h].ev = "SessionStart" /\ job[h].file # None)
        BY <1>e, <2>2, <3>2 DEF Spoken, OwnCall, Lost, Heeded
      <4> QED BY <3>1, <3>2, <4>1 DEF Announcing, JobEnds, OtherJobs
    <3>3. CASE JobGoes(h, "lock") \/ JobGoes(h, "path")
      BY <3>1, <3>3 DEF Announcing, JobGoes, OtherJobs
    <3> QED BY <2>2, <3>2, <3>3
  <2>4. \A q \in Pane : Undisturbed(q)
    BY <2>1, <2>3 DEF Undisturbed
  <2> QED BY <2>1, <2>4, FollowKept
<1>23. ASSUME NEW h \in Hook, Lock(h)
       PROVE  (\A q \in Pane : Followed(q)') /\ (\A u \in Task : Asked(u)')
  <2>1. UNCHANGED <<agent, state, managed, task>>
    BY <1>23, LockEffect
  <2>2. /\ job[h].pc = "lock"
        /\ \/ JobGoes(h, "path") /\ UNCHANGED deaf
           \/ JobEnds(h) /\ deaf' = deaf \cup Lost(h)
    BY <1>23, LockEffect
  <2>3. \A q \in Pane : Heeded(q)' =>
          /\ Heeded(q)
          /\ Announcing(q, {"persist"}) => Announcing(q, {"persist"})'
          /\ Announcing(q, {"start", "persist"}) => Announcing(q, {"start", "persist"})'
    <3> SUFFICES ASSUME NEW q \in Pane, Heeded(q)'
                 PROVE  /\ Heeded(q)
                        /\ Announcing(q, {"persist"}) => Announcing(q, {"persist"})'
                        /\ Announcing(q, {"start", "persist"}) =>
                             Announcing(q, {"start", "persist"})'
      OBVIOUS
    <3>1. Heeded(q)
      BY <2>1, <2>2 DEF Heeded, Launching
    <3>2. CASE JobEnds(h) /\ deaf' = deaf \cup Lost(h)
      <4>1. job[h].pane = q => ~(job[h].ev = "SessionStart" /\ job[h].file # None)
        BY <1>e, <2>2, <3>2 DEF Spoken, OwnCall, Lost, Heeded
      <4> QED BY <3>1, <3>2, <4>1 DEF Announcing, JobEnds, OtherJobs
    <3>3. CASE JobGoes(h, "lock") \/ JobGoes(h, "path")
      BY <3>1, <3>3 DEF Announcing, JobGoes, OtherJobs
    <3> QED BY <2>2, <3>2, <3>3
  <2>4. \A q \in Pane : Undisturbed(q)
    BY <2>1, <2>3 DEF Undisturbed
  <2> QED BY <2>1, <2>4, FollowKept
<1>24. ASSUME NEW h \in Hook, TakePath(h)
       PROVE  (\A q \in Pane : Followed(q)') /\ (\A u \in Task : Asked(u)')
  <2>1. PICK p \in Pane : p = job[h].pane /\ job[h].pc = "path"
    BY <1>24, TakePathEffect
  <2>2. /\ UNCHANGED <<agent, managed, task, deaf>> /\ OtherStates(p)
        /\ state'[p].sess = state[p].sess
        /\ PathOf(h) # None => state'[p].path = Corrected(h)
        /\ PathOf(h) = None => state'[p].path = state[p].path
        /\ \/ job[h].ev = "SessionStart" /\ JobGoes(h, "start")
           \/ job[h].ev # "SessionStart" /\ JobEnds(h)
    BY <1>24, <2>1, TakePathEffect
  <2>3. /\ PathOf(h) # None => state'[p].path = agent[p].sess
        /\ job[h].ev = "SessionStart" => PathOf(h) # None
    BY <2>1, <2>2, OwnHold DEF Holding
  <2>4. \A q \in Pane : Heeded(q)' => Heeded(q)
    BY <2>2 DEF Heeded, Launching
  <2>5. \A q \in Pane : Announcing(q, {"persist"}) => Announcing(q, {"persist"})'
    BY <2>1, <2>2 DEF Announcing, JobGoes, JobEnds, OtherJobs
  <2>6. \A q \in Pane : Announcing(q, {"start", "persist"}) =>
          Announcing(q, {"start", "persist"})' \/ (q = p /\ state'[p].path = agent[p].sess)
    BY <2>1, <2>2, <2>3 DEF Announcing, JobGoes, JobEnds, OtherJobs
  <2>7. ASSUME NEW q \in Pane PROVE Followed(q)'
    <3>1. state'[q].sess = state[q].sess
      BY <2>2 DEF OtherStates
    <3>2. state[q].path = agent[q].sess => state'[q].path = agent[q].sess
      BY <2>2, <2>3 DEF OtherStates
    <3> QED BY <1>a, <2>2, <2>4, <2>5, <2>6, <3>1, <3>2 DEF Followed
  <2>8. \A u \in Task : Asked(u)'
    BY <1>b, <2>2, <2>4, <2>5, PaneOf DEF Asked, At, Forking
  <2> QED BY <2>7, <2>8
<1>25. ASSUME NEW h \in Hook, Bind(h)
       PROVE  (\A q \in Pane : Followed(q)') /\ (\A u \in Task : Asked(u)')
  <2>1. PICK p \in Pane : p = job[h].pane /\ job[h].pc = "start"
    BY <1>25, BindEffect
  <2>2. /\ UNCHANGED <<agent, managed, task, mutex>> /\ OtherStates(p) /\ deaf' = deaf \ {p}
        /\ state'[p].sess = Bound(state[p], h) /\ state'[p].path = state[p].path
        /\ JobGoes(h, "persist")
    BY <1>25, <2>1, BindEffect
  <2>3. job[h].ev = "SessionStart" /\ mutex[p] = h
    BY <2>1, OwnHold DEF Sane, JobSane, Holding
  <2>4. state'[p].sess = agent[p].sess
    BY <2>1, <2>2, <2>3, OwnHold DEF Holding
  <2>5. state'[p].path = agent[p].sess
    BY <1>e, <2>1, <2>2 DEF Spoken
  <2>6. Followed(p)'
    BY <2>2, <2>4, <2>5 DEF Followed
  <2>7. \A q \in Pane : q # p => Undisturbed(q)
    BY <2>1, <2>2 DEF Undisturbed, Heeded, Launching, Announcing, JobGoes, OtherJobs
  <2>8. ASSUME NEW q \in Pane, q # p PROVE Followed(q)'
    BY <1>a, <2>2, <2>7, <2>8, FollowedKept DEF OtherStates
  <2>9. ASSUME NEW u \in Task PROVE Asked(u)'
    <3>1. At(u, {"copy", "keep"}) => task[u].src # p
      <4>1. At(u, {"copy", "keep"}) /\ task[u].src = p => mutex[p] = u
        BY DEF Kempt, Held
      <4> QED BY <2>3, <4>1, Constants
    <3>2. At(u, {"copy", "keep"})' => Undisturbed(task[u].src)
      BY <2>2, <2>7, <3>1, PaneOf DEF At, Forking
    <3> QED BY <1>b, <2>2, <3>2, AskedKept DEF At
  <2> QED BY <2>6, <2>8, <2>9
<1>26. ASSUME NEW h \in Hook, PersistBound(h)
       PROVE  (\A q \in Pane : Followed(q)') /\ (\A u \in Task : Asked(u)')
  <2>1. UNCHANGED <<agent, state, managed, task, deaf>> /\ job[h].pc = "persist" /\ JobEnds(h)
    BY <1>26, PersistBoundEffect
  <2>2. \A q \in Pane : Undisturbed(q)
    BY <2>1 DEF Undisturbed, Heeded, Launching, Announcing, JobEnds, OtherJobs
  <2> QED BY <2>1, <2>2, FollowKept
<1>27. ASSUME NEW p \in Pane, PsRefresh(p)
       PROVE  (\A q \in Pane : Followed(q)') /\ (\A u \in Task : Asked(u)')
  <2>1. /\ UNCHANGED <<agent, managed, task, deaf, job>> /\ Names(p, option[p].sess)
        /\ state[p].sess = None
    BY <1>27, PsRefreshEffect DEF Typed
  <2>2. \A q \in Pane : Undisturbed(q)
    BY <2>1 DEF Undisturbed, Heeded, Launching, Announcing
  <2>3. Heeded(p) => agent[p].sess # None
    BY <1>c, AgentNames DEF Heeded, NoAgent
  <2>4. \A q \in Pane : Heeded(q) =>
          /\ state[q].sess = agent[q].sess => state'[q].sess = agent[q].sess
          /\ state'[q].path = state[q].path
    BY <2>1, <2>3 DEF Names, OtherStates
  <2> QED BY <2>1, <2>2, <2>4, FollowKept
<1>28. ASSUME Restart PROVE (\A q \in Pane : Followed(q)') /\ (\A u \in Task : Asked(u)')
  <2>1. /\ UNCHANGED <<agent, option>> /\ (\A u \in Task : task'[u] = NoTask)
        /\ managed' = {q \in Pane : option[q].managed} /\ deaf \subseteq deaf'
        /\ \A h \in Hook : Lost(h) \subseteq deaf'
    BY <1>28, RestartEffect
  <2>2. \A u \in Task : Asked(u)'
    BY <2>1 DEF Asked, At, NoTask
  <2>3. ASSUME NEW q \in Pane, Heeded(q)'
        PROVE  state'[q].sess = agent[q].sess /\ state'[q].path = agent[q].sess
    <3>1. option[q].managed
      BY <2>1, <2>3 DEF Heeded, Launching, NoTask
    <3>2. ~Launching(q) /\ q \in managed
      BY <1>28, <3>1, RestartEffect DEF Gentle, Patient, Orderly, Following, Marked
    <3>3. Heeded(q)
      BY <2>1, <2>3, <3>2 DEF Heeded
    <3>4. \A h \in Hook : job[h].pc # "idle" /\ job[h].pane = q =>
            ~(job[h].ev = "SessionStart" /\ job[h].file # None)
      BY <1>e, <2>1, <2>3 DEF Spoken, OwnCall, Lost, Heeded
    <3>5. ~Announcing(q, {"persist"}) /\ ~Announcing(q, {"start", "persist"})
      BY <3>4 DEF Announcing
    <3>6. state[q].sess = agent[q].sess /\ state[q].path = agent[q].sess
      BY <1>a, <3>3, <3>5 DEF Followed
    <3>7. ~Writing(q)
      <4> SUFFICES ASSUME NEW h \in Hook, job[h].pc = "persist", job[h].pane = q PROVE FALSE
        BY DEF Writing
      <4>1. job[h].ev = "SessionStart"
        BY DEF Sane, JobSane
      <4>2. OwnCall(h)
        BY <4>1, OwnHold DEF Holding
      <4> QED BY <3>4, <4>1, <4>2 DEF OwnCall
    <3>8. agent[q].sess # None
      BY <1>c, <3>3, AgentNames DEF Heeded, NoAgent
    <3>9. option[q].sess = state[q].sess
      BY <3>2, <3>6, <3>7, <3>8 DEF Kempt, Durable
    <3>10. option[q].path = state[q].path
      BY <3>2 DEF Following, Marked
    <3> QED BY <1>28, <3>1, <3>6, <3>9, <3>10, RestartEffect
  <2> QED BY <2>1, <2>2, <2>3 DEF Followed
<1>29. ASSUME UNCHANGED vars PROVE (\A q \in Pane : Followed(q)') /\ (\A u \in Task : Asked(u)')
  <2>1. UNCHANGED <<agent, state, managed, task, deaf, job>>
    BY <1>29 DEF vars, agentVars
  <2>2. \A q \in Pane : Undisturbed(q)
    BY <2>1 DEF Undisturbed, Heeded, Launching, Announcing
  <2> QED BY <2>1, <2>2, FollowKept
<1>30. ASSUME NEW t \in Task, Launch(t) PROVE (\A q \in Pane : Followed(q)') /\ (\A u \in Task : Asked(u)')
  <2>1. ForkByAgent(t) \/ ForkByServer(t) \/ ForkByCodex(t) =>
          ForkTo(t) /\ (task[t].verify /\ backend = "Codex" => task[t].target # Other)
    BY DEF ForkByAgent, ForkByServer, ForkByCodex, Hooked
  <2> QED BY <1>1, <1>2, <1>3, <1>4, <1>5, <1>6, <1>7, <1>8, <1>9,
             <1>10, <1>11, <1>12, <1>13, <1>14, <1>15, <1>16, <1>30, <2>1 DEF Launch
<1>31. ASSUME NEW p \in Pane, Agent(p) PROVE (\A q \in Pane : Followed(q)') /\ (\A u \in Task : Asked(u)')
  BY <1>17, <1>18, <1>19, <1>20, <1>31 DEF Agent
<1>32. ASSUME NEW h \in Hook, Handle(h) PROVE (\A q \in Pane : Followed(q)') /\ (\A u \in Task : Asked(u)')
  BY <1>21, <1>23, <1>24, <1>25, <1>26, <1>32 DEF Handle
<1> QED BY <1>22, <1>27, <1>28, <1>29, <1>30, <1>31, <1>32 DEF Next

\* Initially nobody speaks.
LEMMA FollowingInit == Init => Following
<1> SUFFICES ASSUME Init PROVE Following
  OBVIOUS
<1>1. \A h \in Hook : job[h].pc = "idle"
  BY DEF Init, NoJob
<1>2. \A t \in Task : task[t].pc = "idle"
  BY DEF Init, NoTask
<1>3. \A p \in Pane : agent[p] = NoAgent /\ state[p] = NoState /\ option[p] = NoOption
  BY DEF Init
<1>4. \A p \in Pane : Speaks(p) /\ Marked(p) /\ Followed(p)
  BY <1>3, Constants DEF Speaks, Marked, Followed, Heeded, NoAgent, NoState, NoOption
<1> QED BY <1>1, <1>2, <1>4 DEF Following, Asked, At

\* The third inductive invariant.
LEMMA FollowingAlways ==
  ASSUME Gentle
  PROVE  Spec => [](Typed /\ Sane /\ Kempt /\ Following)
<1>1. Init => Typed /\ Sane /\ Kempt /\ Following
  BY SaneInit, KemptInit, FollowingInit
<1>2. Patient /\ Orderly
  BY DEF Gentle, Patient
<1>3. Typed /\ Sane /\ Kempt /\ Following /\ [Next]_vars => Following'
  BY SpeaksStep, MarkedStep, SpokenStep, FollowStep DEF Following
<1>4. Typed /\ Sane /\ Kempt /\ Following /\ [Next]_vars => (Typed /\ Sane /\ Kempt /\ Following)'
  BY <1>2, <1>3, SaneStep, KemptStep
<1> QED BY <1>1, <1>4, PTL DEF Spec

\* Once a hook of the agent was heeded and is done, the pane is bound to the
\* session that the agent is in, and to its transcript.
THEOREM BindingsFollow ==
  ASSUME Gentle
  PROVE  Spec => []BindingFollowsAgent
<1>1. Typed /\ Sane /\ Kempt /\ Following => BindingFollowsAgent
  <2> SUFFICES ASSUME Typed, Sane, Kempt, Following, NEW p \in Pane \ deaf,
                      Settled(p), agent[p].told
               PROVE  /\ state[p].sess = agent[p].sess /\ state[p].path = agent[p].sess
                      /\ state[p].runtime.backend = backend
    BY DEF BindingFollowsAgent
  <2>1. ~Announcing(p, {"persist"}) /\ ~Announcing(p, {"start", "persist"})
    BY DEF Settled, Pending, Announcing
  <2>2. Heeded(p)
    BY DEF Settled, Heeded
  <2>3. state[p].runtime.backend = backend
    BY DEF Settled, Sane, RuntimeSane
  <2> QED BY <2>1, <2>2, <2>3 DEF Following, Followed
<1> QED BY <1>1, FollowingAlways, PTL

=============================================================================
