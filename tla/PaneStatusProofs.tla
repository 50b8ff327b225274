-------------------------- MODULE PaneStatusProofs --------------------------
(* Proofs about PaneStatus, for any number of hook handlers, turns, tools  *)
(* and restarts: between two writers the mirrors are those of the state,   *)
(* and a failed turn is retried once.                                      *)
(*                                                                         *)
(* The state a restart replays from the transcript is the value of a       *)
(* recursive function: nothing here says which state it is.                *)
EXTENDS PaneStatus, FiniteSetTheorems, SequenceTheorems, TLAPS

-----------------------------------------------------------------------------
(* Types.                                                                  *)

Kind == {"started", "call", "output", "complete", "failed", "aborted",
         "PreToolUse", "PostToolUse", "user", "duration", "cancelled",
         "completed"}

Record == [kind : Kind, turn : Turn]

JobStep == {"idle", "bind", "react", "lock", "simple", "detailed", "tell"}

Shaped(j) ==
  /\ j = [pc |-> j.pc, ev |-> j.ev, sess |-> j.sess, turn |-> j.turn,
          home |-> j.home, cur |-> j.cur, new |-> j.new]
  /\ j.pc \in JobStep
  /\ j.ev \in Event \cup {None}
  /\ j.turn \in Turn
  /\ j.sess \in Session \cup {0}

Phase == {"off", "idle", "work", "local", "ask", "waiting"}

Agents == [phase : Phase, sess : Session, turn : Turn, tools : 0..MaxTools,
           uses : 0..MaxUses]

AgentOK == agent \in Agents

JobsOK == DOMAIN job = Writer /\ (\A w \in Writer : Shaped(job[w]))

FilesOK == file \in [Session -> Seq(Record)]

TailsOK ==
  /\ tail \in [Tailer -> [sess : Session \cup {0}, pos : Nat, edge : Nat, off : BOOLEAN]]
  /\ {tailing, bound} \subseteq Session \cup {0}

CountsOK == scheduled \in [Turn -> Nat] /\ restarts \in Nat /\ active \in Turn

Typed == AgentOK /\ JobsOK /\ FilesOK /\ TailsOK /\ CountsOK

-----------------------------------------------------------------------------
(* Who writes.                                                             *)

Writing == {"simple", "detailed", "tell"}

\* The holder of the lock, and nobody else, is in the middle of a write.
OneWriter == \A w \in Writer : job[w].pc \in Writing <=> lock = w

\* How far the mirrors have come.
Mirrored ==
  /\ option = [simple |-> option.simple, detailed |-> option.detailed]
  /\ lock \in Writer \cup {Free}
  /\ \A w \in Writer :
       /\ job[w].pc \in Writing => mem = job[w].new
       /\ job[w].pc \in {"detailed", "tell"} => option.simple = Simple(mem)
       /\ job[w].pc = "tell" => option.detailed = mem
  /\ MirrorsAgree

-----------------------------------------------------------------------------
(* What can still schedule a retry of turn n: a hook, an unread record.    *)

Failing(h, n) ==
  job[h].pc \in {"bind", "react"} /\ job[h].ev = "StopFailure" /\ job[h].turn = n

Recorded(s, i, n) ==
  i \in 1..Len(file[s]) /\ file[s][i].kind = "failed" /\ file[s][i].turn = n

Due(t, i, n) ==
  /\ tail[t].sess # 0 /\ Recorded(tail[t].sess, i, n)
  /\ tail[t].pos < i /\ tail[t].edge < i

\* The agent may still fail the turn.
Open(n) == n > agent.turn \/ (n = agent.turn /\ agent.phase \in {"work", "ask"})

\* A Codex turn fails in the transcript, another's by a hook.
FailuresByBackend ==
  /\ backend = "Codex" => \A h \in Hook, n \in Turn : ~Failing(h, n)
  /\ backend # "Codex" => \A s \in Session, n \in Turn, i \in Nat : ~Recorded(s, i, n)

NotYet ==
  \A n \in Turn : Open(n) =>
    /\ scheduled[n] = 0
    /\ \A h \in Hook : ~Failing(h, n)
    /\ \A s \in Session, i \in Nat : ~Recorded(s, i, n)

FailsOnce ==
  \A n \in Turn :
    /\ \A h, k \in Hook : Failing(h, n) /\ Failing(k, n) => h = k
    /\ \A s, u \in Session, i, j \in Nat :
         Recorded(s, i, n) /\ Recorded(u, j, n) => s = u /\ i = j

\* Once the retry is scheduled, nothing is left that would schedule it.
Spent ==
  \A n \in Turn :
    /\ scheduled[n] <= 1
    /\ scheduled[n] = 1 => /\ \A h \in Hook : ~Failing(h, n)
                           /\ \A t \in Tailer, i \in Nat : ~Due(t, i, n)

(* The pane's sessions follow each other, and each has one tailer at most. *)
SessionsInOrder ==
  /\ tailing <= agent.sess
  /\ \A t \in Tailer : tail[t].sess <= tailing
  /\ \A t, u \in Tailer : tail[t].sess = tail[u].sess /\ tail[t].sess # 0 => t = u

CallsInOrder ==
  \A h \in Hook : job[h].pc # "idle" =>
    /\ job[h].sess \in {0, agent.sess}
    /\ ~job[h].home => job[h].sess = 0
    /\ job[h].pc = "bind" /\ job[h].sess = 0 /\ job[h].home =>
         backend = "Codex" /\ bound # 0 /\ job[h].ev # "SessionStart"

-----------------------------------------------------------------------------
(* Editing the records.                                                    *)

LEMMA Constants ==
  /\ MaxTurns \in Nat /\ MaxChanges \in Nat /\ MaxTools \in Nat /\ MaxUses \in Nat
  /\ Hook \cap Tailer = {} /\ Free \notin Writer
  /\ Hook \subseteq Writer /\ Tailer \subseteq Writer
  /\ 1 \in Session /\ 1 \in Tailer /\ 0 \in Turn
BY StatusAssumption DEF Writer, Session, Tailer, Turn

LEMMA IdleShaped == Shaped(Idle) /\ Idle.pc = "idle" /\ Idle.sess = 0
BY Constants DEF Shaped, Idle, JobStep, None

\* A handler that starts.
LEMMA FireEffect ==
  ASSUME JobsOK, NEW h \in Hook, NEW e \in Event, NEW s, NEW n \in Turn, NEW home,
         s \in Session \cup {0}, Fire(h, e, s, n, home)
  PROVE  /\ job[h].pc = "idle"
         /\ job' = [job EXCEPT ![h] = job'[h]]
         /\ Shaped(job'[h])
         /\ job'[h].pc = "bind" /\ job'[h].ev = e /\ job'[h].sess = s
         /\ job'[h].turn = n /\ job'[h].home = home
<1> DEFINE r == [pc |-> "bind", ev |-> e, sess |-> s, turn |-> n, home |-> home,
                 cur |-> None, new |-> None]
<1>1. Shaped(r) /\ r.pc = "bind" /\ r.ev = e /\ r.sess = s /\ r.turn = n /\ r.home = home
  BY DEF Shaped, JobStep
<1>2. job' = [job EXCEPT ![h] = r] /\ job[h].pc = "idle"
  BY DEF Fire
<1> HIDE DEF r
<1>3. job'[h] = r
  BY <1>2, Constants DEF JobsOK
<1> QED BY <1>1, <1>2, <1>3

\* A writer that takes a step, or ends.
LEMMA GotoEffect ==
  ASSUME JobsOK, NEW w \in Writer, NEW pc \in JobStep, job' = Goto(w, pc)
  PROVE  /\ Shaped(job'[w])
         /\ job'[w].pc = pc /\ job'[w].ev = job[w].ev /\ job'[w].sess = job[w].sess
         /\ job'[w].turn = job[w].turn /\ job'[w].home = job[w].home
         /\ job'[w].cur = job[w].cur /\ job'[w].new = job[w].new
         /\ \A x \in Writer \ {w} : job'[x] = job[x]
         /\ DOMAIN job' = Writer
<1>1. job'[w] = [job[w] EXCEPT !.pc = pc]
  BY DEF Goto, JobsOK
<1>2. Shaped(job[w])
  BY DEF JobsOK
<1>3. \A x \in Writer \ {w} : job'[x] = job[x]
  BY DEF Goto, JobsOK
<1>4. DOMAIN job' = Writer
  BY DEF Goto, JobsOK
<1> QED BY <1>1, <1>2, <1>3, <1>4 DEF Shaped

LEMMA EndEffect ==
  ASSUME JobsOK, NEW w \in Writer, job' = End(w)
  PROVE  /\ job'[w] = Idle
         /\ \A x \in Writer \ {w} : job'[x] = job[x]
         /\ DOMAIN job' = Writer
BY DEF End, JobsOK

\* What reading a record, or a hook's reaction, leaves to be written.
LEMMA QueueEffect ==
  ASSUME JobsOK, NEW w \in Writer, NEW j, NEW new, NEW n \in Turn,
         \/ j = [Idle EXCEPT !.pc = "lock", !.cur = mem, !.new = new, !.turn = n]
         \/ j = [job[w] EXCEPT !.pc = "lock", !.cur = mem, !.new = new],
         job' = [job EXCEPT ![w] = j]
  PROVE  /\ Shaped(job'[w]) /\ job'[w].pc = "lock"
         /\ job'[w].sess \in {0, job[w].sess}
         /\ job'[w].home \in {TRUE, job[w].home}
         /\ (job'[w].sess # job[w].sess \/ job'[w].home # job[w].home)
              => j = [Idle EXCEPT !.pc = "lock", !.cur = mem, !.new = new, !.turn = n]
         /\ \A x \in Writer \ {w} : job'[x] = job[x]
         /\ DOMAIN job' = Writer
<1>1. job'[w] = j /\ (\A x \in Writer \ {w} : job'[x] = job[x]) /\ DOMAIN job' = Writer
  BY DEF JobsOK
<1>2. CASE j = [Idle EXCEPT !.pc = "lock", !.cur = mem, !.new = new, !.turn = n]
  <2>1. j = [pc |-> "lock", ev |-> None, sess |-> 0, turn |-> n, home |-> TRUE,
             cur |-> mem, new |-> new]
    BY <1>2 DEF Idle
  <2>2. /\ Shaped(j) /\ j.pc = "lock" /\ j.sess = 0 /\ j.home = TRUE
    BY ONLY <2>1, n \in Turn DEF Shaped, JobStep
  <2> QED BY <1>1, <1>2, <2>2
<1>3. CASE j = [job[w] EXCEPT !.pc = "lock", !.cur = mem, !.new = new]
  <2>1. Shaped(job[w])
    BY DEF JobsOK
  <2>2. j = [pc |-> "lock", ev |-> job[w].ev, sess |-> job[w].sess, turn |-> job[w].turn,
             home |-> job[w].home, cur |-> mem, new |-> new]
    BY <1>3, <2>1 DEF Shaped
  <2> QED BY <1>1, <1>3, <2>1, <2>2 DEF Shaped, JobStep
<1> QED BY <1>2, <1>3

-----------------------------------------------------------------------------
(* What the agent does to the rest: it calls a hook, or none, and writes a *)
(* record, or none.                                                        *)

StrangerCalls ==
  \E h \in Hook :
    \/ Fire(h, "Stop", 0, 0, FALSE)
    \/ backend = "Codex" /\ bound # 0 /\ Fire(h, "Stop", 0, 0, TRUE)

\* A step that fails no turn.
Quietly ==
  /\ AgentOK' /\ UNCHANGED daemonVars
  /\ \/ job' = job
     \/ \E e \in Event \ {"StopFailure"} : FireOwn(e)
     \/ StrangerCalls
  /\ UNCHANGED file \/ \E k \in Kind \ {"failed"} : Write(k)
  /\ \A n \in Turn : Open(n)' => Open(n)
  /\ \/ agent'.sess = agent.sess
     \/ Own = {} /\ agent'.sess = agent.sess + 1

LEMMA WriteAsEffect ==
  ASSUME NEW K, NEW a \in K \cup {""}, NEW b \in K \cup {""}, NEW c \in K \cup {""},
         WriteAs(a, b, c)
  PROVE  UNCHANGED file \/ \E k \in K : Write(k)
BY DEF WriteAs

LEMMA EditAgent ==
  ASSUME NEW a \in Agents, NEW p \in Phase, NEW s \in Session, NEW n \in Turn,
         NEW k \in 0..MaxTools, NEW u \in 0..MaxUses
  PROVE  /\ [a EXCEPT !.phase = p, !.turn = n] \in Agents
         /\ [a EXCEPT !.tools = k, !.uses = u] \in Agents
         /\ [a EXCEPT !.phase = p, !.tools = k] \in Agents
         /\ [a EXCEPT !.phase = p, !.sess = s, !.tools = k] \in Agents
         /\ [a EXCEPT !.phase = p] \in Agents
         /\ [a EXCEPT !.tools = k] \in Agents
<1>1. \A b \in Agents : [b EXCEPT !.phase = p] \in Agents
  BY DEF Agents
<1>2. \A b \in Agents : [b EXCEPT !.turn = n] \in Agents
  BY DEF Agents
<1>3. \A b \in Agents : [b EXCEPT !.tools = k] \in Agents
  BY DEF Agents
<1>4. \A b \in Agents : [b EXCEPT !.uses = u] \in Agents
  BY DEF Agents
<1>5. \A b \in Agents : [b EXCEPT !.sess = s] \in Agents
  BY DEF Agents
<1>6. [a EXCEPT !.phase = p, !.turn = n] \in Agents
  BY <1>1, <1>2
<1>7. [a EXCEPT !.tools = k, !.uses = u] \in Agents
  BY <1>3, <1>4
<1>8. [a EXCEPT !.phase = p, !.tools = k] \in Agents
  BY <1>1, <1>3
<1>9. [a EXCEPT !.phase = p, !.sess = s, !.tools = k] \in Agents
  BY <1>1, <1>3, <1>5
<1> QED BY <1>1, <1>3, <1>6, <1>7, <1>8, <1>9

LEMMA AgentQuietly ==
  ASSUME Typed, Agent, ~Fail
  PROVE  Quietly
<1>0. /\ agent \in Agents /\ agent.phase \in Phase
      /\ agent.sess \in Session /\ agent.sess \in Nat
      /\ agent.turn \in Turn /\ agent.turn \in Nat
      /\ agent.tools \in 0..MaxTools /\ agent.uses \in 0..MaxUses
      /\ restarts \in Nat
  BY Constants DEF Typed, AgentOK, CountsOK, Agents, Session, Turn
<1> USE Constants DEF AgentOK, Session, Turn, Open
<1>1. CASE Start
  <2>1. agent' = [agent EXCEPT !.phase = "idle"]
    BY <1>1 DEF Start
  <2>3. agent' \in Agents
    BY <1>0, <2>1, EditAgent DEF Phase
  <2>4. agent'.turn = agent.turn /\ agent'.sess = agent.sess /\ agent'.phase = "idle"
    BY <1>0, <2>1 DEF Agents
  <2>5. UNCHANGED daemonVars /\ FireOwn("SessionStart") /\ UNCHANGED file /\ agent.phase = "off"
    BY <1>1 DEF Start
  <2> QED BY <1>0, <2>3, <2>4, <2>5 DEF Quietly, Event, HookState
<1>2. CASE Submit
  <2>1. agent' = [agent EXCEPT !.phase = "work", !.turn = agent.turn + 1]
    BY <1>2 DEF Submit
  <2>0. agent.turn < MaxTurns
    BY <1>2 DEF Submit
  <2>2. agent.turn + 1 \in Turn
    BY <1>0, <2>0
  <2>3. agent' \in Agents
    BY <1>0, <2>1, <2>2, EditAgent DEF Phase
  <2>4. agent'.turn = agent.turn + 1 /\ agent'.sess = agent.sess
    BY <1>0, <2>1 DEF Agents
  <2>5. UNCHANGED daemonVars /\ FireOwn("UserPromptSubmit")
    BY <1>2 DEF Submit
  <2>6. UNCHANGED file \/ \E k \in Kind \ {"failed"} : Write(k)
    BY <1>2, WriteAsEffect DEF Submit, Kind
  <2> QED BY <1>0, <2>3, <2>4, <2>5, <2>6 DEF Quietly, Event, HookState
<1>3. CASE LocalCommand
  <2>1. agent' = [agent EXCEPT !.phase = "local", !.turn = agent.turn + 1]
    BY <1>3 DEF LocalCommand
  <2>2. agent.turn + 1 \in Turn
    BY <1>3, <1>0 DEF LocalCommand
  <2>3. agent' \in Agents
    BY <1>0, <2>1, <2>2, EditAgent DEF Phase
  <2>4. agent'.turn = agent.turn + 1 /\ agent'.sess = agent.sess
    BY <1>0, <2>1 DEF Agents
  <2>5. UNCHANGED daemonVars /\ FireOwn("PreCompact") /\ UNCHANGED file
    BY <1>3 DEF LocalCommand
  <2> QED BY <1>0, <2>3, <2>4, <2>5 DEF Quietly, Event, HookState
<1>4. CASE LocalDone
  <2>1. agent' = [agent EXCEPT !.phase = "idle"]
    BY <1>4 DEF LocalDone
  <2>3. agent' \in Agents
    BY <1>0, <2>1, EditAgent DEF Phase
  <2>4. agent'.turn = agent.turn /\ agent'.sess = agent.sess /\ agent'.phase = "idle"
    BY <1>0, <2>1 DEF Agents
  <2>5. UNCHANGED daemonVars /\ job' = job /\ Write("completed")
    BY <1>4 DEF LocalDone
  <2> QED BY <1>0, <2>3, <2>4, <2>5 DEF Quietly, Event, HookState, Kind
<1>5. CASE UseTool
  <2>1. agent' = [agent EXCEPT !.tools = agent.tools + 1, !.uses = agent.uses + 1]
    BY <1>5 DEF UseTool
  <2>2. agent.tools + 1 \in 0..MaxTools /\ agent.uses + 1 \in 0..MaxUses
    <3>1. agent.tools < MaxTools /\ agent.uses < MaxUses
      BY <1>5 DEF UseTool
    <3> QED BY <1>0, <3>1
  <2>3. agent' \in Agents
    BY <1>0, <2>1, <2>2, EditAgent DEF Phase
  <2>4. agent'.turn = agent.turn /\ agent'.sess = agent.sess /\ agent'.phase = agent.phase
    BY <1>0, <2>1 DEF Agents
  <2>5. UNCHANGED daemonVars /\ FireOwn("PreToolUse")
    BY <1>5 DEF UseTool
  <2>6. UNCHANGED file \/ \E k \in Kind \ {"failed"} : Write(k)
    BY <1>5, WriteAsEffect DEF UseTool, Kind
  <2> QED BY <1>0, <2>3, <2>4, <2>5, <2>6 DEF Quietly, Event, HookState
<1>6. CASE ToolDone
  <2>1. agent' = [agent EXCEPT !.tools = agent.tools - 1]
    BY <1>6 DEF ToolDone
  <2>2. agent.tools - 1 \in 0..MaxTools
    <3>1. agent.tools > 0
      BY <1>6 DEF ToolDone
    <3> QED BY <1>0, <3>1
  <2>3. agent' \in Agents
    BY <1>0, <2>1, <2>2, EditAgent DEF Phase
  <2>4. agent'.turn = agent.turn /\ agent'.sess = agent.sess /\ agent'.phase = agent.phase
    BY <1>0, <2>1 DEF Agents
  <2>5. UNCHANGED daemonVars /\ FireOwn("PostToolUse")
    BY <1>6 DEF ToolDone
  <2>6. UNCHANGED file \/ \E k \in Kind \ {"failed"} : Write(k)
    BY <1>6, WriteAsEffect DEF ToolDone, Kind
  <2> QED BY <1>0, <2>3, <2>4, <2>5, <2>6 DEF Quietly, Event, HookState
<1>7. CASE Ask
  <2>1. agent' = [agent EXCEPT !.phase = "ask"]
    BY <1>7 DEF Ask
  <2>3. agent' \in Agents
    BY <1>0, <2>1, EditAgent DEF Phase
  <2>4. agent'.turn = agent.turn /\ agent'.sess = agent.sess
    BY <1>0, <2>1 DEF Agents
  <2>5. UNCHANGED daemonVars /\ FireOwn("PermissionRequest") /\ UNCHANGED file /\ agent.phase = "work"
    BY <1>7 DEF Ask
  <2> QED BY <1>0, <2>3, <2>4, <2>5 DEF Quietly, Event, HookState
<1>8. CASE Grant
  <2>1. agent' = [agent EXCEPT !.phase = "work"]
    BY <1>8 DEF Grant
  <2>3. agent' \in Agents
    BY <1>0, <2>1, EditAgent DEF Phase
  <2>4. agent'.turn = agent.turn /\ agent'.sess = agent.sess
    BY <1>0, <2>1 DEF Agents
  <2>5. UNCHANGED daemonVars /\ job' = job /\ UNCHANGED file /\ agent.phase = "ask"
    BY <1>8 DEF Grant
  <2> QED BY <1>0, <2>3, <2>4, <2>5 DEF Quietly, Event, HookState
<1>9. CASE Deny
  <2>1. agent' = [agent EXCEPT !.phase = "work", !.tools = 0]
    BY <1>9 DEF Deny
  <2>2. 0 \in 0..MaxTools
    BY <1>9, <1>0 DEF Deny
  <2>3. agent' \in Agents
    BY <1>0, <2>1, <2>2, EditAgent DEF Phase
  <2>4. agent'.turn = agent.turn /\ agent'.sess = agent.sess
    BY <1>0, <2>1 DEF Agents
  <2>5. UNCHANGED daemonVars /\ FireOwn("PermissionDenied") /\ UNCHANGED file /\ agent.phase = "ask"
    BY <1>9 DEF Deny
  <2> QED BY <1>0, <2>3, <2>4, <2>5 DEF Quietly, Event, HookState
<1>10. CASE Interrupt
  <2>1. agent' = [agent EXCEPT !.phase = IF backend = "Claude" THEN "waiting" ELSE "idle",
                               !.tools = 0]
    BY <1>10 DEF Interrupt
  <2>2. 0 \in 0..MaxTools
    BY <1>10, <1>0 DEF Interrupt
  <2>3. agent' \in Agents
    BY <1>0, <2>1, <2>2, EditAgent DEF Phase
  <2>4. agent'.turn = agent.turn /\ agent'.sess = agent.sess
    BY <1>0, <2>1 DEF Agents
  <2>5. UNCHANGED daemonVars /\ agent.phase \in {"work", "ask"}
    BY <1>10 DEF Interrupt
  <2>7. job' = job \/ FireOwn("Stop") \/ FireOwn("StopCancelled")
    BY <1>10 DEF Interrupt
  <2>6. UNCHANGED file \/ \E k \in Kind \ {"failed"} : Write(k)
    BY <1>10, WriteAsEffect DEF Interrupt, Kind
  <2> QED BY <1>0, <2>3, <2>4, <2>5, <2>7, <2>6 DEF Quietly, Event, HookState
<1>11. CASE IdleNotice
  <2>1. agent' = [agent EXCEPT !.phase = "idle"]
    BY <1>11 DEF IdleNotice
  <2>3. agent' \in Agents
    BY <1>0, <2>1, EditAgent DEF Phase
  <2>4. agent'.turn = agent.turn /\ agent'.sess = agent.sess /\ agent'.phase = "idle"
    BY <1>0, <2>1 DEF Agents
  <2>5. UNCHANGED daemonVars /\ FireOwn("IdlePrompt") /\ UNCHANGED file
    BY <1>11 DEF IdleNotice
  <2> QED BY <1>0, <2>3, <2>4, <2>5 DEF Quietly, Event, HookState
<1>12. CASE Finish
  <2>1. agent' = [agent EXCEPT !.phase = "idle"]
    BY <1>12 DEF Finish
  <2>3. agent' \in Agents
    BY <1>0, <2>1, EditAgent DEF Phase
  <2>4. agent'.turn = agent.turn /\ agent'.sess = agent.sess /\ agent'.phase = "idle"
    BY <1>0, <2>1 DEF Agents
  <2>5. UNCHANGED daemonVars /\ FireOwn("Stop")
    BY <1>12 DEF Finish
  <2>6. UNCHANGED file \/ \E k \in Kind \ {"failed"} : Write(k)
    BY <1>12, WriteAsEffect DEF Finish, Kind
  <2> QED BY <1>0, <2>3, <2>4, <2>5, <2>6 DEF Quietly, Event, HookState
<1>13. CASE Clear
  <2>1. agent' = [agent EXCEPT !.phase = "idle", !.sess = agent.sess + 1, !.tools = 0]
    BY <1>13 DEF Clear
  <2>2. agent.sess + 1 \in Session /\ 0 \in 0..MaxTools
    BY <1>13, <1>0 DEF Clear
  <2>3. agent' \in Agents
    BY <1>0, <2>1, <2>2, EditAgent DEF Phase
  <2>4. agent'.turn = agent.turn /\ agent'.sess = agent.sess + 1 /\ agent'.phase = "idle"
    BY <1>0, <2>1 DEF Agents
  <2>5. UNCHANGED daemonVars /\ FireOwn("SessionStart") /\ UNCHANGED file /\ Own = {}
    BY <1>13 DEF Clear
  <2> QED BY <1>0, <2>3, <2>4, <2>5 DEF Quietly, Event, HookState
<1>14. CASE Stranger
  <2>1. UNCHANGED <<agentVars, daemonVars>> /\ StrangerCalls
    BY <1>14 DEF Stranger, StrangerCalls
  <2> QED BY <1>0, <2>1 DEF Quietly, agentVars
<1> QED
  BY <1>1, <1>2, <1>3, <1>4, <1>5, <1>6, <1>7, <1>8, <1>9, <1>10, <1>11, <1>12,
     <1>13, <1>14 DEF Agent

LEMMA FailEffect ==
  ASSUME Typed, Fail
  PROVE  /\ AgentOK' /\ UNCHANGED daemonVars
         /\ agent.phase = "work" /\ agent'.phase \in {"waiting", "idle"}
         /\ agent'.turn = agent.turn /\ agent'.sess = agent.sess
         /\ IF backend = "Codex"
            THEN job' = job /\ Write("failed")
            ELSE FireOwn("StopFailure") /\ (UNCHANGED file \/ Write("completed"))
<1>1. agent \in Agents
  BY DEF Typed, AgentOK
<1>2. agent' = [agent EXCEPT !.phase = IF backend = "Claude" THEN "waiting" ELSE "idle"]
  BY DEF Fail
<1>3. agent' \in Agents
  <2>1. (IF backend = "Claude" THEN "waiting" ELSE "idle") \in Phase
    BY DEF Phase
  <2>2. \A q \in Phase : [agent EXCEPT !.phase = q] \in Agents
    BY <1>1 DEF Agents
  <2> QED BY <1>2, <2>1, <2>2
<1>4. /\ agent'.phase \in {"waiting", "idle"}
      /\ agent'.turn = agent.turn /\ agent'.sess = agent.sess
  BY <1>1, <1>2 DEF Agents
<1>5. UNCHANGED daemonVars /\ agent.phase = "work"
  BY DEF Fail
<1>6. IF backend = "Codex"
      THEN job' = job /\ Write("failed")
      ELSE FireOwn("StopFailure") /\ (UNCHANGED file \/ Write("completed"))
  BY DEF Fail, WriteAs
<1> QED BY <1>3, <1>4, <1>5, <1>6 DEF AgentOK

-----------------------------------------------------------------------------
(* Types are kept.                                                         *)

LEMMA FireOwnJobs ==
  ASSUME Typed, AgentOK', NEW e \in Event, FireOwn(e)
  PROVE  /\ JobsOK'
         /\ \E h \in Hook :
              /\ job[h].pc = "idle" /\ job'[h].pc = "bind" /\ job'[h].ev = e
              /\ job'[h].sess = agent'.sess /\ job'[h].turn = agent'.turn
              /\ job'[h].home = TRUE
              /\ \A x \in Writer \ {h} : job'[x] = job[x]
<1>1. PICK h \in Hook : Fire(h, e, agent'.sess, agent'.turn, TRUE)
  BY DEF FireOwn
<1>2. agent'.sess \in Session /\ agent'.turn \in Turn
  BY DEF AgentOK, Agents
<1>3. /\ job[h].pc = "idle" /\ job' = [job EXCEPT ![h] = job'[h]]
      /\ Shaped(job'[h]) /\ job'[h].pc = "bind" /\ job'[h].ev = e
      /\ job'[h].sess = agent'.sess /\ job'[h].turn = agent'.turn /\ job'[h].home = TRUE
  BY <1>1, <1>2, FireEffect DEF Typed
<1>4. DOMAIN job' = Writer /\ \A x \in Writer \ {h} : job'[x] = job[x]
  BY <1>3 DEF Typed, JobsOK
<1>5. \A x \in Writer : Shaped(job'[x])
  BY <1>3, <1>4 DEF Typed, JobsOK
<1> QED BY <1>3, <1>4, <1>5 DEF JobsOK

LEMMA StrangerJobs ==
  ASSUME Typed, StrangerCalls
  PROVE  /\ JobsOK'
         /\ \E h \in Hook :
              /\ job[h].pc = "idle" /\ job'[h].pc = "bind" /\ job'[h].ev = "Stop"
              /\ job'[h].sess = 0
              /\ job'[h].home => backend = "Codex" /\ bound # 0
              /\ \A x \in Writer \ {h} : job'[x] = job[x]
<1>1. PICK h \in Hook, b \in BOOLEAN :
        Fire(h, "Stop", 0, 0, b) /\ (b => backend = "Codex" /\ bound # 0)
  BY DEF StrangerCalls
<1>2. "Stop" \in Event /\ 0 \in Session \cup {0} /\ 0 \in Turn
  BY Constants DEF Event, HookState
<1>3. /\ job[h].pc = "idle" /\ job' = [job EXCEPT ![h] = job'[h]]
      /\ Shaped(job'[h]) /\ job'[h].pc = "bind" /\ job'[h].ev = "Stop"
      /\ job'[h].sess = 0 /\ job'[h].home = b
  BY <1>1, <1>2, FireEffect DEF Typed
<1>4. DOMAIN job' = Writer /\ \A x \in Writer \ {h} : job'[x] = job[x]
  BY <1>3 DEF Typed, JobsOK
<1>5. \A x \in Writer : Shaped(job'[x])
  BY <1>3, <1>4 DEF Typed, JobsOK
<1> QED BY <1>1, <1>3, <1>4, <1>5 DEF JobsOK

LEMMA WriteFile ==
  ASSUME Typed, AgentOK', NEW k \in Kind, Write(k)
  PROVE  /\ FilesOK'
         /\ \A s \in Session \ {agent.sess} : file'[s] = file[s]
         /\ Len(file'[agent.sess]) = Len(file[agent.sess]) + 1
         /\ Len(file[agent.sess]) \in Nat
         /\ \A i \in 1..Len(file[agent.sess]) : file'[agent.sess][i] = file[agent.sess][i]
         /\ LET r == file'[agent.sess][Len(file[agent.sess]) + 1]
            IN  r.kind = k /\ r.turn = agent'.turn
<1> DEFINE r == [kind |-> k, turn |-> agent'.turn]
           f == file[agent.sess]
<1>1. r \in Record /\ r.kind = k /\ r.turn = agent'.turn
  BY DEF Record, AgentOK, Agents
<1>2. agent.sess \in Session /\ f \in Seq(Record)
  BY DEF Typed, AgentOK, Agents, FilesOK
<1>3. file' = [file EXCEPT ![agent.sess] = Append(f, r)]
  BY DEF Write
<1> HIDE DEF r, f
<1>4. /\ Append(f, r) \in Seq(Record) /\ Len(Append(f, r)) = Len(f) + 1
      /\ \A i \in 1..Len(f) : Append(f, r)[i] = f[i]
      /\ Append(f, r)[Len(f) + 1] = r /\ Len(f) \in Nat
  BY <1>1, <1>2, AppendProperties, LenProperties
<1>5. file'[agent.sess] = Append(f, r) /\ \A s \in Session \ {agent.sess} : file'[s] = file[s]
  BY <1>2, <1>3 DEF Typed, FilesOK
<1>6. FilesOK'
  BY <1>3, <1>4 DEF Typed, FilesOK
<1> QED BY <1>1, <1>4, <1>5, <1>6 DEF f

LEMMA AgentTyped ==
  ASSUME Typed, Agent
  PROVE  Typed'
<1>1. AgentOK' /\ UNCHANGED daemonVars
  BY AgentQuietly, FailEffect DEF Quietly
<1>2. JobsOK'
  <2>1. \/ job' = job \/ (\E e \in Event : FireOwn(e)) \/ StrangerCalls
    <3>1. "StopFailure" \in Event
      BY DEF Event, HookState
    <3> QED BY <3>1, AgentQuietly, FailEffect DEF Quietly
  <2> QED BY <1>1, <2>1, FireOwnJobs, StrangerJobs DEF Typed, JobsOK
<1>3. FilesOK'
  <2>1. UNCHANGED file \/ \E k \in Kind : Write(k)
    <3>1. "failed" \in Kind /\ "completed" \in Kind
      BY DEF Kind
    <3> QED BY <3>1, AgentQuietly, FailEffect DEF Quietly
  <2> QED BY <1>1, <2>1, WriteFile DEF Typed, FilesOK
<1>4. TailsOK' /\ CountsOK'
  BY <1>1 DEF daemonVars, grokVars, Typed, TailsOK, CountsOK
<1> QED BY <1>1, <1>2, <1>3, <1>4 DEF Typed

\* A step that touches one writer keeps the others' shape.
LEMMA OneJob ==
  ASSUME JobsOK, NEW w \in Writer, Shaped(job'[w]), DOMAIN job' = Writer,
         \A x \in Writer \ {w} : job'[x] = job[x]
  PROVE  JobsOK'
<1>1. \A x \in Writer : Shaped(job'[x])
  BY DEF JobsOK
<1> QED BY <1>1 DEF JobsOK

\* The record a tailer reads next.
LEMMA NextRecordTyped ==
  ASSUME Typed, NEW t \in Tailer, HasRecord(t)
  PROVE  /\ tail[t].sess \in Session /\ tail[t].sess # 0
         /\ tail[t].pos \in Nat /\ tail[t].edge \in Nat
         /\ tail[t].pos + 1 \in 1..Len(file[tail[t].sess])
         /\ NextRecord(t) \in Record
         /\ NextRecord(t).turn \in Turn
<1>1. /\ tail[t].sess \in Session /\ tail[t].pos \in Nat /\ tail[t].edge \in Nat
      /\ tail[t].sess # 0 /\ tail[t].pos < Len(file[tail[t].sess])
  BY DEF Typed, TailsOK, HasRecord
<1>2. file[tail[t].sess] \in Seq(Record)
  BY <1>1 DEF Typed, FilesOK
<1>3. Len(file[tail[t].sess]) \in Nat
  BY <1>2, LenProperties
<1>4. tail[t].pos + 1 \in 1..Len(file[tail[t].sess])
  BY <1>1, <1>3
<1>5. NextRecord(t) \in Record
  BY <1>2, <1>4, ElementOfSeq DEF NextRecord
<1> QED BY <1>1, <1>4, <1>5 DEF Record

\* Reading moves one tailer and leaves something to write, or nothing.
LEMMA ReadEffect ==
  ASSUME Typed, NEW t \in Tailer, ReadRecord(t)
  PROVE  /\ Typed'
         /\ job[t].pc = "idle" /\ job'[t].pc \in {"idle", "lock"}
         /\ \A x \in Writer \ {t} : job'[x] = job[x]
         /\ tail'[t].pos = tail[t].pos + 1 /\ tail'[t].sess = tail[t].sess
         /\ tail'[t].edge = tail[t].edge
         /\ \A u \in Tailer \ {t} : tail'[u] = tail[u]
         /\ IF NextRecord(t).kind = "failed" /\ IsLive(t)
            THEN scheduled' = [scheduled EXCEPT ![NextRecord(t).turn] = @ + 1]
            ELSE scheduled' = scheduled
<1> DEFINE n == IF active = 0 THEN 0 ELSE NextRecord(t).turn
           new == RecordState(mem, NextRecord(t))
<1>1. /\ job[t].pc = "idle" /\ HasRecord(t)
      /\ tail' = [tail EXCEPT ![t].pos = @ + 1]
      /\ IF NextRecord(t).kind = "failed" /\ IsLive(t)
         THEN scheduled' = [scheduled EXCEPT ![NextRecord(t).turn] = @ + 1]
         ELSE scheduled' = scheduled
      /\ \/ job' = job
         \/ job' = [job EXCEPT ![t] = [Idle EXCEPT !.pc = "lock", !.cur = mem,
                                                   !.new = new, !.turn = n]]
      /\ UNCHANGED <<backend, agentVars, tailing, bound, cellVars, grokVars, blurred, restarts>>
  BY DEF ReadRecord
<1>2. /\ NextRecord(t).turn \in Turn /\ tail[t].pos \in Nat
  BY <1>1, NextRecordTyped
<1>3. n \in Turn
  BY <1>2, Constants
<1> HIDE DEF n, new
<1>4. t \in Writer
  BY Constants
<1>5. /\ JobsOK' /\ job'[t].pc \in {"idle", "lock"}
      /\ \A x \in Writer \ {t} : job'[x] = job[x]
  <2>1. CASE job' = job
    BY <1>1, <2>1 DEF Typed, JobsOK
  <2>2. CASE job' = [job EXCEPT ![t] = [Idle EXCEPT !.pc = "lock", !.cur = mem,
                                                    !.new = new, !.turn = n]]
    <3> DEFINE j == [Idle EXCEPT !.pc = "lock", !.cur = mem, !.new = new, !.turn = n]
    <3>1. j = [Idle EXCEPT !.pc = "lock", !.cur = mem, !.new = new, !.turn = n]
      OBVIOUS
    <3>2. job' = [job EXCEPT ![t] = j]
      BY <2>2
    <3> HIDE DEF j
    <3>3. /\ Shaped(job'[t]) /\ job'[t].pc = "lock" /\ DOMAIN job' = Writer
          /\ \A x \in Writer \ {t} : job'[x] = job[x]
      BY <1>3, <1>4, <3>1, <3>2, QueueEffect DEF Typed
    <3> QED BY <1>4, <3>3, OneJob DEF Typed
  <2> QED BY <1>1, <2>1, <2>2
<1>6. /\ tail'[t].pos = tail[t].pos + 1 /\ tail'[t].sess = tail[t].sess
      /\ tail'[t].edge = tail[t].edge
      /\ \A u \in Tailer \ {t} : tail'[u] = tail[u]
  BY <1>1 DEF Typed, TailsOK
<1>7. TailsOK'
  BY <1>1, <1>2 DEF Typed, TailsOK
<1>8. CountsOK'
  BY <1>1, <1>2 DEF Typed, CountsOK, grokVars
<1>9. AgentOK' /\ FilesOK'
  BY <1>1 DEF Typed, AgentOK, FilesOK, agentVars
<1> QED BY <1>1, <1>5, <1>6, <1>7, <1>8, <1>9 DEF Typed

\* A new tailer starts at the top of its file, and nothing there is live.
LEMMA FollowEffect ==
  ASSUME FilesOK, NEW old \in [Tailer -> [sess : Session \cup {0}, pos : Nat, edge : Nat,
                                          off : BOOLEAN]],
         NEW s \in Session
  PROVE  /\ FollowWith(old, s) \in [Tailer -> [sess : Session \cup {0}, pos : Nat, edge : Nat,
                                               off : BOOLEAN]]
         /\ \A t \in Tailer :
              \/ /\ FollowWith(old, s)[t].sess = old[t].sess
                 /\ FollowWith(old, s)[t].pos = old[t].pos
                 /\ FollowWith(old, s)[t].edge = old[t].edge
              \/ FollowWith(old, s)[t].sess = s /\ FollowWith(old, s)[t].edge = Len(file[s])
         /\ \A t, u \in Tailer : t # u =>
              \/ FollowWith(old, s)[t].sess = old[t].sess
              \/ FollowWith(old, s)[u].sess = old[u].sess
<1> DEFINE x == CHOOSE y \in Tailer : old[y].sess = 0
           cut == [y \in Tailer |-> [old[y] EXCEPT !.off = TRUE]]
           new == [sess |-> s, pos |-> 0, edge |-> Len(file[s]), off |-> FALSE]
           T == [sess : Session \cup {0}, pos : Nat, edge : Nat, off : BOOLEAN]
<1>1. FollowWith(old, s) = [cut EXCEPT ![x] = new]
  BY DEF FollowWith
<1>2. Len(file[s]) \in Nat
  BY LenProperties DEF FilesOK
<1>3. new \in T /\ new.sess = s /\ new.edge = Len(file[s])
  BY <1>2
<1>4. /\ cut \in [Tailer -> T]
      /\ \A t \in Tailer : cut[t].sess = old[t].sess /\ cut[t].pos = old[t].pos
                           /\ cut[t].edge = old[t].edge
  OBVIOUS
<1> HIDE DEF x, cut, new
<1>5. [cut EXCEPT ![x] = new] \in [Tailer -> T]
  BY <1>3, <1>4
<1>6. \A t \in Tailer : [cut EXCEPT ![x] = new][t] = IF t = x THEN new ELSE cut[t]
  BY <1>4
<1> HIDE DEF T
<1>7. \A t \in Tailer :
        \/ /\ [cut EXCEPT ![x] = new][t].sess = old[t].sess
           /\ [cut EXCEPT ![x] = new][t].pos = old[t].pos
           /\ [cut EXCEPT ![x] = new][t].edge = old[t].edge
        \/ /\ [cut EXCEPT ![x] = new][t].sess = s
           /\ [cut EXCEPT ![x] = new][t].edge = Len(file[s])
  BY <1>3, <1>4, <1>6
<1>8. \A t, u \in Tailer : t # u =>
        \/ [cut EXCEPT ![x] = new][t].sess = old[t].sess
        \/ [cut EXCEPT ![x] = new][u].sess = old[u].sess
  BY <1>4, <1>6
<1> QED BY <1>1, <1>5, <1>7, <1>8 DEF T

LEMMA IgnoreEffect ==
  ASSUME Typed, NEW h \in Hook, Ignore(h)
  PROVE  /\ Typed'
         /\ job[h].pc = "bind" /\ job'[h].pc = "idle"
         /\ \A x \in Writer \ {h} : job'[x] = job[x]
<1>1. h \in Writer /\ job[h].pc = "bind" /\ job' = End(h)
  BY Constants DEF Ignore
<1>2. job'[h] = Idle /\ DOMAIN job' = Writer /\ \A x \in Writer \ {h} : job'[x] = job[x]
  BY <1>1, EndEffect DEF Typed
<1>3. JobsOK'
  BY <1>1, <1>2, OneJob, IdleShaped DEF Typed
<1>4. AgentOK' /\ FilesOK' /\ TailsOK' /\ CountsOK'
  BY DEF Ignore, Typed, AgentOK, FilesOK, TailsOK, CountsOK, agentVars, grokVars
<1> QED BY <1>1, <1>2, <1>3, <1>4, IdleShaped DEF Typed

\* Only a call of the pane's own session binds.
LEMMA BindEffect ==
  ASSUME Typed, CallsInOrder, NEW h \in Hook, Bind(h)
  PROVE  /\ Typed'
         /\ job[h].pc = "bind" /\ job'[h].pc = "react" /\ job'[h].ev = job[h].ev
         /\ job'[h].sess = job[h].sess /\ job'[h].home = job[h].home
         /\ job'[h].turn = job[h].turn
         /\ \A x \in Writer \ {h} : job'[x] = job[x]
         /\ job[h].sess = agent.sess /\ agent.sess \in Session
         /\ tailing' = agent.sess /\ bound' \in {bound, agent.sess}
         /\ tail' = IF agent.sess = tailing THEN tail ELSE FollowWith(tail, agent.sess)
<1>1. /\ h \in Writer /\ job[h].pc = "bind" /\ ~Foreign(h) /\ job' = Goto(h, "react")
      /\ tailing' = job[h].sess
      /\ tail' = IF job[h].sess = tailing THEN tail ELSE FollowWith(tail, job[h].sess)
      /\ bound' \in {bound, job[h].sess}
  BY Constants DEF Bind
<1>2. agent.sess \in Session
  BY DEF Typed, AgentOK, Agents
<1>3. job[h].sess = agent.sess
  <2>1. job[h].home
    BY <1>1 DEF Foreign
  <2>2. SUFFICES ASSUME job[h].sess = 0 PROVE FALSE
    BY <1>1, <2>1 DEF CallsInOrder
  <2>3. backend = "Codex" /\ bound # 0 /\ job[h].ev # "SessionStart"
    BY <1>1, <2>1, <2>2 DEF CallsInOrder
  <2> QED BY <1>1, <2>2, <2>3 DEF Foreign
<1>4. /\ Shaped(job'[h]) /\ DOMAIN job' = Writer /\ \A x \in Writer \ {h} : job'[x] = job[x]
      /\ job'[h].pc = "react" /\ job'[h].ev = job[h].ev /\ job'[h].sess = job[h].sess
      /\ job'[h].home = job[h].home /\ job'[h].turn = job[h].turn
  <2>1. "react" \in JobStep
    BY DEF JobStep
  <2> QED BY <1>1, <2>1, GotoEffect DEF Typed
<1>5. JobsOK'
  BY <1>1, <1>4, OneJob DEF Typed
<1>6. TailsOK'
  <2>1. tail' \in [Tailer -> [sess : Session \cup {0}, pos : Nat, edge : Nat, off : BOOLEAN]]
    BY <1>1, <1>2, <1>3, FollowEffect DEF Typed, TailsOK
  <2>2. {tailing', bound'} \subseteq Session \cup {0}
    BY <1>1, <1>2, <1>3 DEF Typed, TailsOK
  <2> QED BY <2>1, <2>2 DEF TailsOK
<1>7. AgentOK' /\ FilesOK' /\ CountsOK'
  BY DEF Bind, Typed, AgentOK, FilesOK, CountsOK, agentVars, grokVars
<1> QED BY <1>1, <1>2, <1>3, <1>4, <1>5, <1>6, <1>7 DEF Typed

\* The reaction schedules the retry of a failed turn, unless it is stale.
LEMMA ReactEffect ==
  ASSUME Typed, NEW h \in Hook, React(h)
  PROVE  /\ Typed'
         /\ job[h].pc = "react" /\ job'[h].pc \in {"idle", "lock"}
         /\ job'[h].pc # "idle" => job'[h].sess = job[h].sess /\ job'[h].home = job[h].home
         /\ \A x \in Writer \ {h} : job'[x] = job[x]
         /\ \/ scheduled' = scheduled
            \/ /\ job[h].ev = "StopFailure"
               /\ scheduled' = [scheduled EXCEPT ![job[h].turn] = @ + 1]
<1>1. /\ h \in Writer /\ job[h].pc = "react"
      /\ \/ job' = End(h)
         \/ job' = [job EXCEPT ![h].pc = "lock", ![h].cur = mem, ![h].new = HookState[job[h].ev]]
      /\ \/ scheduled' = scheduled
         \/ /\ job[h].ev = "StopFailure"
            /\ scheduled' = [scheduled EXCEPT ![job[h].turn] = @ + 1]
      /\ active' \in {job[h].turn, 0, active}
      /\ UNCHANGED <<backend, agentVars, tail, tailing, bound, cellVars, restarts>>
  BY Constants DEF React
<1>2. job[h].turn \in Turn
  BY <1>1 DEF Typed, JobsOK, Shaped
<1>3. /\ JobsOK' /\ job'[h].pc \in {"idle", "lock"}
      /\ job'[h].pc # "idle" => job'[h].sess = job[h].sess /\ job'[h].home = job[h].home
      /\ \A x \in Writer \ {h} : job'[x] = job[x]
  <2>1. CASE job' = End(h)
    <3>1. job'[h] = Idle /\ DOMAIN job' = Writer /\ \A x \in Writer \ {h} : job'[x] = job[x]
      BY <1>1, <2>1, EndEffect DEF Typed
    <3> QED BY <1>1, <3>1, OneJob, IdleShaped DEF Typed
  <2>2. CASE job' = [job EXCEPT ![h].pc = "lock", ![h].cur = mem,
                                ![h].new = HookState[job[h].ev]]
    <3> DEFINE new == HookState[job[h].ev]
               j == [job[h] EXCEPT !.pc = "lock", !.cur = mem, !.new = new]
    <3>1. job' = [job EXCEPT ![h] = j]
      BY <1>1, <2>2 DEF Typed, JobsOK
    <3>2. j = [job[h] EXCEPT !.pc = "lock", !.cur = mem, !.new = new]
      OBVIOUS
    <3>3. j.sess = job[h].sess /\ j.home = job[h].home
      <4>1. Shaped(job[h])
        BY <1>1 DEF Typed, JobsOK
      <4> HIDE DEF new
      <4> QED BY <4>1 DEF Shaped
    <3> HIDE DEF j, new
    <3>4. /\ Shaped(job'[h]) /\ job'[h].pc = "lock" /\ DOMAIN job' = Writer
          /\ \A x \in Writer \ {h} : job'[x] = job[x]
      BY <1>1, <3>1, <3>2, Constants, QueueEffect DEF Typed
    <3>5. job'[h] = j
      BY <1>1, <3>1 DEF Typed, JobsOK
    <3> QED BY <1>1, <3>3, <3>4, <3>5, OneJob DEF Typed
  <2> QED BY <1>1, <2>1, <2>2
<1>4. CountsOK'
  BY <1>1, <1>2, Constants DEF Typed, CountsOK
<1>5. AgentOK' /\ FilesOK' /\ TailsOK'
  BY <1>1 DEF Typed, AgentOK, FilesOK, TailsOK, agentVars
<1> QED BY <1>1, <1>3, <1>4, <1>5 DEF Typed

Publishing == {"lock", "simple", "detailed", "tell"}

\* Publishing touches neither the agent nor the tailers nor the retries.
LEMMA PublishEffect ==
  ASSUME Typed, NEW w \in Writer, Publish(w)
  PROVE  /\ Typed'
         /\ job[w].pc \in Publishing
         /\ job'[w].pc \in Publishing \cup {"idle"}
         /\ job'[w].pc # "idle" => job'[w].sess = job[w].sess /\ job'[w].home = job[w].home
         /\ \A x \in Writer \ {w} : job'[x] = job[x]
         /\ UNCHANGED <<backend, agentVars, tail, tailing, bound, scheduled, restarts>>
<1>1. UNCHANGED <<backend, agentVars, tail, tailing, bound, scheduled, restarts>>
  BY DEF Publish, Accept, Reject, MirrorSimple, MirrorDetailed, Tell, cellVars
<1>2. job[w].pc \in Publishing
  BY DEF Publish, Accept, Reject, MirrorSimple, MirrorDetailed, Tell, Publishing
<1>3. job' = End(w) \/ \E pc \in {"simple", "detailed", "tell"} : job' = Goto(w, pc)
  BY DEF Publish, Accept, Reject, MirrorSimple, MirrorDetailed, Tell
<1>4. active' \in {0, active}
  BY DEF Publish, Accept, Reject, MirrorSimple, MirrorDetailed, Tell, grokVars
<1>5. /\ JobsOK' /\ job'[w].pc \in Publishing \cup {"idle"}
      /\ job'[w].pc # "idle" => job'[w].sess = job[w].sess /\ job'[w].home = job[w].home
      /\ \A x \in Writer \ {w} : job'[x] = job[x]
  <2>1. CASE job' = End(w)
    <3>1. job'[w] = Idle /\ DOMAIN job' = Writer /\ \A x \in Writer \ {w} : job'[x] = job[x]
      BY <2>1, EndEffect DEF Typed
    <3> QED BY <3>1, OneJob, IdleShaped DEF Typed
  <2>2. ASSUME NEW pc \in {"simple", "detailed", "tell"}, job' = Goto(w, pc)
        PROVE  /\ JobsOK' /\ job'[w].pc \in Publishing \cup {"idle"}
               /\ job'[w].sess = job[w].sess /\ job'[w].home = job[w].home
               /\ \A x \in Writer \ {w} : job'[x] = job[x]
    <3>1. pc \in JobStep /\ pc \in Publishing
      BY DEF JobStep, Publishing
    <3>2. /\ Shaped(job'[w]) /\ DOMAIN job' = Writer /\ \A x \in Writer \ {w} : job'[x] = job[x]
          /\ job'[w].pc = pc /\ job'[w].sess = job[w].sess /\ job'[w].home = job[w].home
      BY <2>2, <3>1, GotoEffect DEF Typed
    <3> QED BY <3>1, <3>2, OneJob DEF Typed
  <2> QED BY <1>3, <2>1, <2>2
<1>6. CountsOK'
  BY <1>1, <1>4, Constants DEF Typed, CountsOK
<1>7. AgentOK' /\ FilesOK' /\ TailsOK'
  BY <1>1 DEF Typed, AgentOK, FilesOK, TailsOK, agentVars
<1> QED BY <1>1, <1>2, <1>5, <1>6, <1>7 DEF Typed

\* A restart ends every writer and every tailer.
LEMMA RestartEffect ==
  ASSUME Typed, Restart
  PROVE  /\ Typed'
         /\ \A w \in Writer : job'[w].pc = "idle"
         /\ \A t \in Tailer :
              \/ tail'[t].sess = 0
              \/ tail'[t].sess = tailing /\ tail'[t].edge = Len(file[tailing])
         /\ \A t, u \in Tailer : t # u => tail'[t].sess = 0 \/ tail'[u].sess = 0
         /\ UNCHANGED <<backend, agentVars, tailing, bound, scheduled>>
         /\ lock' = Free /\ option' = [simple |-> Simple(mem'), detailed |-> mem']
         /\ told' = option'
<1> DEFINE none == [t \in Tailer |-> NoTail]
           T == [sess : Session \cup {0}, pos : Nat, edge : Nat, off : BOOLEAN]
<1>1. /\ job' = [w \in Writer |-> Idle]
      /\ tail' = IF tailing = 0 THEN none ELSE FollowWith(none, tailing)
      /\ active' = 0 /\ restarts' = restarts + 1
      /\ UNCHANGED <<backend, agentVars, tailing, bound, scheduled>>
      /\ lock' = Free /\ option' = [simple |-> Simple(mem'), detailed |-> mem']
      /\ told' = option'
  BY DEF Restart
<1>2. none \in [Tailer -> T] /\ \A t \in Tailer : none[t].sess = 0
  BY DEF NoTail
<1> HIDE DEF none
<1>3. /\ tail' \in [Tailer -> T]
      /\ \A t \in Tailer :
              \/ tail'[t].sess = 0
              \/ tail'[t].sess = tailing /\ tail'[t].edge = Len(file[tailing])
      /\ \A t, u \in Tailer : t # u => tail'[t].sess = 0 \/ tail'[u].sess = 0
  <2>1. CASE tailing = 0
    BY <1>1, <1>2, <2>1
  <2>2. CASE tailing # 0
    <3>1. tailing \in Session /\ FilesOK
      BY <2>2 DEF Typed, TailsOK
    <3>2. tail' = FollowWith(none, tailing)
      BY <1>1, <2>2
    <3>3. /\ tail' \in [Tailer -> T]
          /\ \A t \in Tailer :
               \/ tail'[t].sess = none[t].sess
               \/ tail'[t].sess = tailing /\ tail'[t].edge = Len(file[tailing])
          /\ \A t, u \in Tailer : t # u => \/ tail'[t].sess = none[t].sess
                                           \/ tail'[u].sess = none[u].sess
      <4> DEFINE new == FollowWith(none, tailing)
      <4>1. new \in [Tailer -> T]
        BY <1>2, <3>1, FollowEffect
      <4>2. \A t \in Tailer :
               \/ new[t].sess = none[t].sess
               \/ new[t].sess = tailing /\ new[t].edge = Len(file[tailing])
        BY <1>2, <3>1, FollowEffect
      <4>3. \A t, u \in Tailer : t # u => \/ new[t].sess = none[t].sess
                                          \/ new[u].sess = none[u].sess
        BY <1>2, <3>1, FollowEffect, Zenon
      <4> QED BY <3>2, <4>1, <4>2, <4>3
    <3> QED BY <1>2, <3>3
  <2> QED BY <2>1, <2>2
<1>4. JobsOK' /\ \A w \in Writer : job'[w].pc = "idle"
  BY <1>1, IdleShaped DEF JobsOK
<1>5. CountsOK'
  BY <1>1, Constants DEF Typed, CountsOK
<1>6. AgentOK' /\ FilesOK' /\ TailsOK'
  BY <1>1, <1>3 DEF Typed, AgentOK, FilesOK, TailsOK, agentVars
<1> QED BY <1>1, <1>3, <1>4, <1>5, <1>6 DEF Typed

-----------------------------------------------------------------------------
(* One writer at a time, and what the mirrors hold.                        *)

Mirrors == OneWriter /\ Mirrored

\* Who leaves the cell alone and is not in the middle of a write, before or
\* after.
LEMMA MirrorsElsewhere ==
  ASSUME Typed, Typed', Mirrors, UNCHANGED cellVars, NEW w \in Writer,
         job[w].pc \notin Writing, job'[w].pc \notin Writing,
         \A x \in Writer \ {w} : job'[x] = job[x]
  PROVE  Mirrors'
<1>1. UNCHANGED <<mem, option, told, lock>>
  BY DEF cellVars
<1>2. OneWriter'
  BY <1>1 DEF Mirrors, OneWriter
<1>3. \A x \in Writer :
        /\ job'[x].pc \in Writing => mem' = job'[x].new
        /\ job'[x].pc \in {"detailed", "tell"} => option'.simple = Simple(mem')
        /\ job'[x].pc = "tell" => option'.detailed = mem'
  BY <1>1 DEF Mirrors, Mirrored, Writing
<1>4. MirrorsAgree'
  BY <1>1 DEF Mirrors, Mirrored, MirrorsAgree
<1> QED BY <1>1, <1>2, <1>3, <1>4 DEF Mirrors, Mirrored

LEMMA MirrorsPublish ==
  ASSUME Typed, Mirrors, NEW w \in Writer, Publish(w)
  PROVE  Mirrors'
<1> USE DEF Mirrors, Mirrored, OneWriter, Writing, MirrorsAgree
<1>0. Free \notin Writer /\ {"lock", "simple", "detailed", "tell"} \subseteq JobStep
  BY Constants DEF JobStep
<1>1. CASE Accept(w)
  <2>1. /\ job[w].pc = "lock" /\ lock = Free /\ lock' = w /\ mem' = job[w].new
        /\ job' = Goto(w, "simple") /\ UNCHANGED <<option, told>>
    BY <1>1 DEF Accept
  <2>2. /\ job'[w].pc = "simple" /\ job'[w].new = job[w].new
        /\ \A x \in Writer \ {w} : job'[x] = job[x]
    BY <1>0, <2>1, GotoEffect DEF Typed
  <2> QED BY <1>0, <2>1, <2>2
<1>2. CASE Reject(w)
  <2>1. job[w].pc = "lock" /\ job' = End(w) /\ UNCHANGED <<mem, option, told, lock>>
    BY <1>2 DEF Reject, cellVars
  <2>2. job'[w].pc = "idle" /\ \A x \in Writer \ {w} : job'[x] = job[x]
    BY <2>1, EndEffect, IdleShaped DEF Typed
  <2> QED BY <2>1, <2>2
<1>3. CASE MirrorSimple(w)
  <2>1. /\ job[w].pc = "simple" /\ UNCHANGED <<mem, told, lock>>
        /\ option' = [option EXCEPT !.simple = Simple(job[w].new)]
        /\ job' = Goto(w, "detailed")
    BY <1>3 DEF MirrorSimple
  <2>2. /\ job'[w].pc = "detailed" /\ job'[w].new = job[w].new
        /\ \A x \in Writer \ {w} : job'[x] = job[x]
    BY <1>0, <2>1, GotoEffect DEF Typed
  <2>3. /\ option' = [simple |-> Simple(mem'), detailed |-> option.detailed]
    BY <2>1
  <2> QED BY <1>0, <2>1, <2>2, <2>3
<1>4. CASE MirrorDetailed(w)
  <2>1. /\ job[w].pc = "detailed" /\ UNCHANGED <<mem, told, lock>>
        /\ option' = [option EXCEPT !.detailed = job[w].new]
        /\ job' = Goto(w, "tell")
    BY <1>4 DEF MirrorDetailed
  <2>2. /\ job'[w].pc = "tell" /\ job'[w].new = job[w].new
        /\ \A x \in Writer \ {w} : job'[x] = job[x]
    BY <1>0, <2>1, GotoEffect DEF Typed
  <2>3. /\ option' = [simple |-> option.simple, detailed |-> mem']
    BY <2>1
  <2> QED BY <1>0, <2>1, <2>2, <2>3
<1>5. CASE Tell(w)
  <2>1. /\ job[w].pc = "tell" /\ UNCHANGED <<mem, option>> /\ lock' = Free
        /\ told'.detailed = job[w].new
        /\ job' = End(w)
    BY <1>5 DEF Tell
  <2>2. job'[w].pc = "idle" /\ \A x \in Writer \ {w} : job'[x] = job[x]
    BY <2>1, EndEffect, IdleShaped DEF Typed
  <2>3. option = [simple |-> Simple(mem), detailed |-> mem] /\ mem = job[w].new
    BY <2>1
  <2>4. lock = w
    BY <2>1
  <2> QED BY <1>0, <2>1, <2>2, <2>3, <2>4
<1> QED BY <1>1, <1>2, <1>3, <1>4, <1>5 DEF Publish

LEMMA MirrorsStep ==
  ASSUME Typed, Typed', CallsInOrder, Mirrors, [Next]_vars
  PROVE  Mirrors'
<1>0. Hook \subseteq Writer /\ Tailer \subseteq Writer /\ Free \notin Writer
  BY Constants
<1>1. CASE Agent
  <2>1. UNCHANGED cellVars
    BY <1>1, AgentQuietly, FailEffect DEF Quietly, daemonVars
  <2>2. \/ job' = job
        \/ \E h \in Hook : /\ job[h].pc = "idle" /\ job'[h].pc = "bind"
                           /\ \A x \in Writer \ {h} : job'[x] = job[x]
    <3>1. "StopFailure" \in Event
      BY DEF Event, HookState
    <3>2. job' = job \/ (\E e \in Event : FireOwn(e)) \/ StrangerCalls
      BY <1>1, <3>1, AgentQuietly, FailEffect DEF Quietly
    <3>3. AgentOK'
      BY DEF Typed
    <3> QED BY <3>2, <3>3, FireOwnJobs, StrangerJobs
  <2>3. CASE job' = job
    BY <2>1, <2>3 DEF Mirrors, Mirrored, OneWriter, MirrorsAgree, cellVars
  <2>4. CASE \E h \in Hook : /\ job[h].pc = "idle" /\ job'[h].pc = "bind"
                             /\ \A x \in Writer \ {h} : job'[x] = job[x]
    BY <1>0, <2>1, <2>4, MirrorsElsewhere DEF Writing
  <2> QED BY <2>2, <2>3, <2>4
<1>2. ASSUME NEW h \in Hook, Handle(h)
      PROVE  Mirrors'
  <2>1. UNCHANGED cellVars
    BY <1>2 DEF Handle, Ignore, Bind, React
  <2>2. /\ job[h].pc \notin Writing /\ job'[h].pc \notin Writing
        /\ \A x \in Writer \ {h} : job'[x] = job[x]
    BY <1>2, IgnoreEffect, BindEffect, ReactEffect DEF Handle, Writing
  <2> QED BY <1>0, <2>1, <2>2, MirrorsElsewhere
<1>3. ASSUME NEW t \in Tailer, ReadRecord(t)
      PROVE  Mirrors'
  <2>1. UNCHANGED cellVars
    BY <1>3 DEF ReadRecord
  <2>2. /\ job[t].pc \notin Writing /\ job'[t].pc \notin Writing
        /\ \A x \in Writer \ {t} : job'[x] = job[x]
    BY <1>3, ReadEffect DEF Writing
  <2> QED BY <1>0, <2>1, <2>2, MirrorsElsewhere
<1>4. ASSUME NEW w \in Writer, Publish(w)
      PROVE  Mirrors'
  BY <1>4, MirrorsPublish
<1>5. CASE Restart
  <2>1. /\ \A w \in Writer : job'[w].pc = "idle"
        /\ lock' = Free /\ option' = [simple |-> Simple(mem'), detailed |-> mem']
        /\ told' = option'
    BY <1>5, RestartEffect
  <2> QED BY <1>0, <2>1 DEF Mirrors, Mirrored, OneWriter, MirrorsAgree, Writing
<1>6. CASE UNCHANGED vars
  BY <1>6 DEF vars, cellVars, Mirrors, Mirrored, OneWriter, MirrorsAgree
<1> QED BY <1>1, <1>2, <1>3, <1>4, <1>5, <1>6 DEF Next, Rest

-----------------------------------------------------------------------------
(* The calls and the tailers follow the agent's sessions.                  *)

LEMMA CallsStep ==
  ASSUME Typed, CallsInOrder, [Next]_vars
  PROVE  CallsInOrder'
<1> USE DEF CallsInOrder
<1>0. Hook \subseteq Writer /\ Hook \cap Tailer = {}
  BY Constants
<1>1. CASE Agent
  <2>0. AgentOK' /\ UNCHANGED <<backend, bound>> /\ agent'.sess \in Session /\ 0 \notin Session
    BY <1>1, AgentQuietly, FailEffect DEF Quietly, daemonVars, AgentOK, Agents, Session
  <2>1. \A h \in Hook : job[h].pc # "idle" => job[h].sess \in {0, agent'.sess}
    <3>1. CASE agent'.sess = agent.sess
      BY <3>1
    <3>2. CASE Own = {}
      BY <3>2 DEF Own
    <3> QED BY <1>1, <3>1, <3>2, AgentQuietly, FailEffect DEF Quietly
  <2>2. CASE job' = job
    BY <2>0, <2>1, <2>2
  <2>3. ASSUME NEW e \in Event, FireOwn(e)
        PROVE  CallsInOrder'
    <3>1. PICK h \in Hook :
            /\ job[h].pc = "idle" /\ job'[h].pc = "bind" /\ job'[h].ev = e
            /\ job'[h].sess = agent'.sess /\ job'[h].turn = agent'.turn
            /\ job'[h].home = TRUE
            /\ \A x \in Writer \ {h} : job'[x] = job[x]
      BY <2>0, <2>3, FireOwnJobs, Zenon
    <3> QED BY <1>0, <2>0, <2>1, <3>1
  <2>4. CASE StrangerCalls
    <3>1. PICK h \in Hook :
            /\ job'[h].pc = "bind" /\ job'[h].ev = "Stop" /\ job'[h].sess = 0
            /\ job'[h].home => backend = "Codex" /\ bound # 0
            /\ \A x \in Writer \ {h} : job'[x] = job[x]
      BY <2>4, StrangerJobs
    <3> QED BY <1>0, <2>0, <2>1, <3>1
  <2>5. job' = job \/ (\E e \in Event : FireOwn(e)) \/ StrangerCalls
    <3>1. "StopFailure" \in Event
      BY DEF Event, HookState
    <3> QED BY <1>1, <3>1, AgentQuietly, FailEffect DEF Quietly
  <2> QED BY <2>2, <2>3, <2>4, <2>5
<1>2. ASSUME NEW h \in Hook, Handle(h)
      PROVE  CallsInOrder'
  <2>1. CASE Ignore(h)
    <3>1. UNCHANGED <<agent, backend, bound>>
      BY <2>1 DEF Ignore, agentVars
    <3> QED BY <1>0, <2>1, <3>1, IgnoreEffect
  <2>2. CASE Bind(h)
    <3>1. UNCHANGED <<agent, backend>>
      BY <2>2 DEF Bind, agentVars
    <3>2. /\ agent.sess # 0
          /\ bound' \in {bound, agent.sess} /\ job'[h].pc = "react"
          /\ job'[h].sess = job[h].sess /\ job'[h].home = job[h].home
          /\ job[h].pc = "bind"
          /\ \A x \in Writer \ {h} : job'[x] = job[x]
      BY <2>2, BindEffect DEF Session
    <3> QED BY <1>0, <3>1, <3>2
  <2>3. CASE React(h)
    <3>1. UNCHANGED <<agent, backend, bound>>
      BY <2>3 DEF React, agentVars
    <3> QED BY <1>0, <2>3, <3>1, ReactEffect
  <2> QED BY <1>2, <2>1, <2>2, <2>3 DEF Handle
<1>3. ASSUME NEW t \in Tailer, ReadRecord(t)
      PROVE  CallsInOrder'
  <2>1. UNCHANGED <<agent, backend, bound>>
    BY <1>3 DEF ReadRecord, agentVars
  <2>2. \A h \in Hook : job'[h] = job[h]
    BY <1>0, <1>3, ReadEffect
  <2> QED BY <2>1, <2>2
<1>4. ASSUME NEW w \in Writer, Publish(w)
      PROVE  CallsInOrder'
  <2>1. /\ UNCHANGED <<agent, backend, bound>>
        /\ job[w].pc # "idle" /\ job'[w].pc # "bind"
        /\ job'[w].pc # "idle" => job'[w].sess = job[w].sess /\ job'[w].home = job[w].home
        /\ \A x \in Writer \ {w} : job'[x] = job[x]
    BY <1>4, PublishEffect DEF agentVars, Publishing
  <2> QED BY <1>0, <2>1
<1>5. CASE Restart
  BY <1>0, <1>5, RestartEffect
<1>6. CASE UNCHANGED vars
  BY <1>6 DEF vars, agentVars
<1> QED BY <1>1, <1>2, <1>3, <1>4, <1>5, <1>6 DEF Next, Rest

LEMMA SessionsStep ==
  ASSUME Typed, CallsInOrder, SessionsInOrder, [Next]_vars
  PROVE  SessionsInOrder'
<1> USE DEF SessionsInOrder
<1>0. /\ agent.sess \in Nat /\ agent.sess \in Session /\ tailing \in Nat
      /\ \A t \in Tailer : tail[t].sess \in Nat
  BY Constants DEF Typed, AgentOK, Agents, TailsOK, Session
<1>1. CASE Agent
  <2>1. /\ UNCHANGED <<tail, tailing>>
        /\ agent'.sess = agent.sess \/ agent'.sess = agent.sess + 1
    BY <1>1, AgentQuietly, FailEffect DEF Quietly, daemonVars
  <2> QED BY <1>0, <2>1
<1>2. ASSUME NEW h \in Hook, Handle(h)
      PROVE  SessionsInOrder'
  <2>1. CASE Ignore(h) \/ React(h)
    BY <2>1 DEF Ignore, React, agentVars
  <2>2. CASE Bind(h)
    <3>1. UNCHANGED agent
      BY <2>2 DEF Bind, agentVars
    <3>2. /\ tailing' = agent.sess
          /\ tail' = IF agent.sess = tailing THEN tail ELSE FollowWith(tail, agent.sess)
      BY <2>2, BindEffect
    <3>3. CASE agent.sess = tailing
      BY <3>1, <3>2, <3>3
    <3>4. CASE agent.sess # tailing
      <4>1. /\ \A t \in Tailer : tail'[t].sess = tail[t].sess \/ tail'[t].sess = agent.sess
            /\ \A t, u \in Tailer : t # u => \/ tail'[t].sess = tail[t].sess
                                             \/ tail'[u].sess = tail[u].sess
        <5> DEFINE new == FollowWith(tail, agent.sess)
        <5>1. \A t \in Tailer : new[t].sess = tail[t].sess \/ new[t].sess = agent.sess
          BY <1>0, FollowEffect DEF Typed, TailsOK
        <5>2. \A t, u \in Tailer : t # u => \/ new[t].sess = tail[t].sess
                                            \/ new[u].sess = tail[u].sess
          BY <1>0, FollowEffect, Zenon DEF Typed, TailsOK
        <5> QED BY <3>2, <3>4, <5>1, <5>2
      <4>2. \A t \in Tailer : tail[t].sess < agent.sess
        BY <1>0, <3>4
      <4>3. \A t \in Tailer : tail'[t].sess <= agent.sess
        BY <1>0, <4>1, <4>2
      <4>4. ASSUME NEW t \in Tailer, NEW u \in Tailer, tail'[t].sess = tail'[u].sess,
                   tail'[t].sess # 0, t # u
            PROVE  FALSE
        BY <1>0, <4>1, <4>2, <4>4
      <4> QED BY <1>0, <3>1, <3>2, <4>3, <4>4
    <3> QED BY <3>3, <3>4
  <2> QED BY <1>2, <2>1, <2>2 DEF Handle
<1>3. ASSUME NEW t \in Tailer, ReadRecord(t)
      PROVE  SessionsInOrder'
  <2>1. UNCHANGED <<agent, tailing>>
    BY <1>3 DEF ReadRecord, agentVars
  <2>2. \A u \in Tailer : tail'[u].sess = tail[u].sess
    BY <1>3, ReadEffect
  <2> QED BY <2>1, <2>2
<1>4. ASSUME NEW w \in Writer, Publish(w)
      PROVE  SessionsInOrder'
  BY <1>4, PublishEffect DEF agentVars
<1>5. CASE Restart
  <2>1. UNCHANGED <<agent, tailing>>
    BY <1>5, RestartEffect DEF agentVars
  <2>2. \A t \in Tailer : tail'[t].sess = 0 \/ tail'[t].sess = tailing
    BY <1>5, RestartEffect
  <2>3. \A t, u \in Tailer : t # u => tail'[t].sess = 0 \/ tail'[u].sess = 0
    BY <1>5, RestartEffect
  <2> QED BY <1>0, <2>1, <2>2, <2>3
<1>6. CASE UNCHANGED vars
  BY <1>6 DEF vars, agentVars
<1> QED BY <1>1, <1>2, <1>3, <1>4, <1>5, <1>6 DEF Next, Rest

-----------------------------------------------------------------------------
(* A failed turn is retried once.                                          *)

Retries == FailuresByBackend /\ NotYet /\ FailsOnce /\ Spent

\* Fewer calls, records and live tailers, and no turn opened again.
LEMMA RetriesShrink ==
  ASSUME Retries, UNCHANGED <<backend, scheduled>>,
         \A n \in Turn : Open(n)' => Open(n),
         \A h \in Hook, n \in Turn : Failing(h, n)' => Failing(h, n),
         \A s \in Session, i \in Nat, n \in Turn : Recorded(s, i, n)' => Recorded(s, i, n),
         \A t \in Tailer, i \in Nat, n \in Turn : Due(t, i, n)' => Due(t, i, n)
  PROVE  Retries'
<1>1. FailuresByBackend'
  BY DEF Retries, FailuresByBackend
<1>2. NotYet'
  BY DEF Retries, NotYet
<1>3. FailsOnce'
  BY DEF Retries, FailsOnce
<1>4. Spent'
  BY DEF Retries, Spent
<1> QED BY <1>1, <1>2, <1>3, <1>4 DEF Retries

\* A record of another kind is due for nobody.
LEMMA OtherRecord ==
  ASSUME Typed, AgentOK', UNCHANGED tail, NEW k \in Kind \ {"failed"}, Write(k)
  PROVE  /\ \A s \in Session, i \in Nat, n \in Turn : Recorded(s, i, n)' => Recorded(s, i, n)
         /\ \A t \in Tailer, i \in Nat, n \in Turn : Due(t, i, n)' => Due(t, i, n)
<1> DEFINE m == Len(file[agent.sess])
<1>0. k \in Kind /\ k # "failed"
  OBVIOUS
<1>1. /\ \A s \in Session \ {agent.sess} : file'[s] = file[s]
      /\ Len(file'[agent.sess]) = m + 1 /\ m \in Nat
      /\ \A i \in 1..m : file'[agent.sess][i] = file[agent.sess][i]
      /\ file'[agent.sess][m + 1].kind = k
  BY <1>0, WriteFile
<1> HIDE DEF m
<1>2. ASSUME NEW s \in Session, NEW i \in Nat, NEW n \in Turn, Recorded(s, i, n)'
      PROVE  Recorded(s, i, n)
  <2>1. CASE s # agent.sess
    BY <1>1, <1>2, <2>1 DEF Recorded
  <2>2. CASE s = agent.sess
    <3>1. i \in 1..(m + 1) /\ file'[s][i].kind = "failed" /\ file'[s][i].turn = n
      BY <1>1, <1>2, <2>2 DEF Recorded
    <3>2. i # m + 1
      BY <1>0, <1>1, <2>2, <3>1
    <3>3. i \in 1..m
      BY <1>1, <3>1, <3>2
    <3> QED BY <1>1, <2>2, <3>1, <3>3 DEF Recorded, m
  <2> QED BY <2>1, <2>2
<1>3. ASSUME NEW t \in Tailer, NEW i \in Nat, NEW n \in Turn, Due(t, i, n)'
      PROVE  Due(t, i, n)
  <2>1. /\ tail[t].sess # 0 /\ tail[t].pos < i /\ tail[t].edge < i
        /\ Recorded(tail[t].sess, i, n)'
    BY <1>3 DEF Due, Recorded
  <2>2. tail[t].sess \in Session
    BY <2>1 DEF Typed, TailsOK
  <2> QED BY <1>2, <2>1, <2>2 DEF Due
<1> QED BY <1>2, <1>3

LEMMA RetriesQuietly ==
  ASSUME Typed, Retries, Quietly
  PROVE  Retries'
<1>1. /\ AgentOK' /\ UNCHANGED <<backend, scheduled, tail>>
      /\ \A n \in Turn : Open(n)' => Open(n)
  BY DEF Quietly, daemonVars
<1>2. \A h \in Hook, n \in Turn : Failing(h, n)' => Failing(h, n)
  <2>0. Hook \subseteq Writer
    BY Constants
  <2>1. CASE job' = job
    BY <2>1 DEF Failing
  <2>2. ASSUME NEW e \in Event \ {"StopFailure"}, FireOwn(e)
        PROVE  \A h \in Hook, n \in Turn : Failing(h, n)' => Failing(h, n)
    <3>1. PICK h \in Hook :
            /\ job[h].pc = "idle" /\ job'[h].pc = "bind" /\ job'[h].ev = e
            /\ job'[h].sess = agent'.sess /\ job'[h].turn = agent'.turn
            /\ job'[h].home = TRUE
            /\ \A x \in Writer \ {h} : job'[x] = job[x]
      BY <1>1, <2>2, FireOwnJobs, Zenon
    <3> QED BY <2>0, <2>2, <3>1 DEF Failing
  <2>3. CASE StrangerCalls
    <3>1. PICK h \in Hook : /\ job'[h].ev = "Stop"
                            /\ \A x \in Writer \ {h} : job'[x] = job[x]
      BY <2>3, StrangerJobs
    <3> QED BY <2>0, <3>1 DEF Failing
  <2> QED BY <2>1, <2>2, <2>3 DEF Quietly
<1>3. CASE UNCHANGED file
  <2>1. /\ \A s \in Session, i \in Nat, n \in Turn : Recorded(s, i, n)' => Recorded(s, i, n)
        /\ \A t \in Tailer, i \in Nat, n \in Turn : Due(t, i, n)' => Due(t, i, n)
    BY <1>1, <1>3 DEF Recorded, Due
  <2> QED BY <1>1, <1>2, <2>1, RetriesShrink
<1>4. ASSUME NEW k \in Kind \ {"failed"}, Write(k)
      PROVE  Retries'
  <2>1. /\ \A s \in Session, i \in Nat, n \in Turn : Recorded(s, i, n)' => Recorded(s, i, n)
        /\ \A t \in Tailer, i \in Nat, n \in Turn : Due(t, i, n)' => Due(t, i, n)
    BY <1>1, <1>4, OtherRecord
  <2> QED BY <1>1, <1>2, <2>1, RetriesShrink
<1> QED BY <1>3, <1>4 DEF Quietly

\* A turn that fails was open: nothing counted for it yet.
LEMMA RetriesFail ==
  ASSUME Typed, Retries, Fail
  PROVE  Retries'
<1> DEFINE c == agent.turn
<1>0. Hook \subseteq Writer
  BY Constants
<1>1. /\ AgentOK' /\ UNCHANGED <<backend, scheduled, tail>> /\ agent.phase = "work"
      /\ agent'.phase \notin {"work", "ask"}
      /\ agent'.turn = c /\ agent'.sess = agent.sess
  BY FailEffect DEF daemonVars
<1>2. c \in Turn /\ c \in Nat /\ Open(c) /\ agent.sess \in Session
  BY <1>1 DEF Typed, AgentOK, Agents, Turn, Open
<1>3. /\ scheduled[c] = 0
      /\ \A h \in Hook : ~Failing(h, c)
      /\ \A s \in Session, i \in Nat : ~Recorded(s, i, c)
  BY <1>2 DEF Retries, NotYet
<1>4. \A n \in Turn : Open(n)' => Open(n) /\ n # c
  BY <1>1, <1>2 DEF Open, Turn
<1>5. CASE backend # "Codex"
  <2>1. FireOwn("StopFailure") /\ (UNCHANGED file \/ Write("completed"))
    BY <1>5, FailEffect
  <2>2. /\ \A s \in Session, i \in Nat, n \in Turn : Recorded(s, i, n)' => Recorded(s, i, n)
        /\ \A t \in Tailer, i \in Nat, n \in Turn : Due(t, i, n)' => Due(t, i, n)
    <3>1. CASE UNCHANGED file
      BY <1>1, <3>1 DEF Recorded, Due
    <3>2. CASE Write("completed")
      BY <1>1, <3>2, OtherRecord DEF Kind
    <3> QED BY <2>1, <3>1, <3>2
  <2>3. "StopFailure" \in Event
    BY DEF Event, HookState
  <2>4. PICK h \in Hook :
          /\ job[h].pc = "idle" /\ job'[h].pc = "bind" /\ job'[h].ev = "StopFailure"
          /\ job'[h].sess = agent'.sess /\ job'[h].turn = agent'.turn
          /\ job'[h].home = TRUE
          /\ \A x \in Writer \ {h} : job'[x] = job[x]
    BY <1>1, <2>1, <2>3, FireOwnJobs, Zenon
  <2>5. \A k \in Hook, n \in Turn : Failing(k, n)' => (Failing(k, n) \/ (k = h /\ n = c))
    BY <1>0, <1>1, <2>4 DEF Failing
  <2>6. FailuresByBackend'
    BY <1>1, <1>5, <2>2 DEF Retries, FailuresByBackend
  <2>7. NotYet'
    BY <1>1, <1>4, <2>2, <2>5 DEF Retries, NotYet
  <2>8. FailsOnce'
    BY <1>3, <2>2, <2>5 DEF Retries, FailsOnce
  <2>9. Spent'
    <3>1. ASSUME NEW n \in Turn
          PROVE  /\ scheduled[n] <= 1
                 /\ scheduled[n] = 1 => /\ \A k \in Hook : ~Failing(k, n)'
                                        /\ \A t \in Tailer, i \in Nat : ~Due(t, i, n)'
      <4>1. /\ scheduled[n] <= 1
            /\ scheduled[n] = 1 => /\ \A k \in Hook : ~Failing(k, n)
                                   /\ \A t \in Tailer, i \in Nat : ~Due(t, i, n)
        BY DEF Retries, Spent
      <4> QED BY <1>3, <2>2, <2>5, <4>1
    <3> QED BY <1>1, <3>1 DEF Spent
  <2> QED BY <2>6, <2>7, <2>8, <2>9 DEF Retries
<1>6. CASE backend = "Codex"
  <2> DEFINE m == Len(file[agent.sess])
  <2>1. UNCHANGED job /\ Write("failed")
    BY <1>6, FailEffect
  <2>2. "failed" \in Kind
    BY DEF Kind
  <2>3. /\ \A s \in Session \ {agent.sess} : file'[s] = file[s]
        /\ Len(file'[agent.sess]) = m + 1 /\ m \in Nat
        /\ \A i \in 1..m : file'[agent.sess][i] = file[agent.sess][i]
        /\ file'[agent.sess][m + 1].turn = c
    BY <1>1, <2>1, <2>2, WriteFile
  <2> HIDE DEF m
  <2>4. ASSUME NEW s \in Session, NEW i \in Nat, NEW n \in Turn, Recorded(s, i, n)'
        PROVE  Recorded(s, i, n) \/ (s = agent.sess /\ i = m + 1 /\ n = c)
    <3>1. CASE s # agent.sess
      BY <2>3, <2>4, <3>1 DEF Recorded
    <3>2. CASE s = agent.sess
      <4>1. i \in 1..(m + 1) /\ file'[s][i].kind = "failed" /\ file'[s][i].turn = n
        BY <2>3, <2>4, <3>2 DEF Recorded
      <4>2. CASE i = m + 1
        BY <2>3, <3>2, <4>1, <4>2
      <4>3. CASE i # m + 1
        <5>1. i \in 1..m
          BY <2>3, <4>1, <4>3
        <5> QED BY <2>3, <3>2, <4>1, <5>1 DEF Recorded, m
      <4> QED BY <4>2, <4>3
    <3> QED BY <3>1, <3>2
  <2>5. \A t \in Tailer, i \in Nat, n \in Turn : Due(t, i, n)' => Due(t, i, n) \/ n = c
    <3>1. SUFFICES ASSUME NEW t \in Tailer, NEW i \in Nat, NEW n \in Turn, Due(t, i, n)'
                   PROVE  Due(t, i, n) \/ n = c
      OBVIOUS
    <3>2. tail[t].sess # 0 /\ tail[t].pos < i /\ tail[t].edge < i
      BY <1>1, <3>1 DEF Due
    <3>3. PICK s \in Session : s = tail[t].sess
      BY <3>2 DEF Typed, TailsOK
    <3>4. Recorded(s, i, n)'
      BY <1>1, <3>1, <3>3 DEF Due, Recorded
    <3>5. Recorded(s, i, n) \/ n = c
      BY <2>4, <3>4
    <3> QED BY <3>2, <3>3, <3>5 DEF Due
  <2>6. \A k \in Hook, n \in Turn : Failing(k, n)' => Failing(k, n)
    BY <2>1 DEF Failing
  <2>7. FailuresByBackend'
    BY <1>1, <1>6, <2>6 DEF Retries, FailuresByBackend
  <2>8. NotYet'
    BY <1>1, <1>4, <2>4, <2>6 DEF Retries, NotYet
  <2>9. FailsOnce'
    <3>1. ASSUME NEW n \in Turn, NEW s \in Session, NEW u \in Session,
                 NEW i \in Nat, NEW j \in Nat, Recorded(s, i, n)', Recorded(u, j, n)'
          PROVE  s = u /\ i = j
      <4>1. CASE n = c
        BY <1>3, <2>4, <3>1, <4>1
      <4>2. CASE n # c
        BY <2>4, <3>1, <4>2 DEF Retries, FailsOnce
      <4> QED BY <4>1, <4>2
    <3>2. ASSUME NEW n \in Turn, NEW h \in Hook, NEW k \in Hook, Failing(h, n)', Failing(k, n)'
          PROVE  h = k
      BY <2>6, <3>2 DEF Retries, FailsOnce
    <3> QED BY <3>1, <3>2 DEF FailsOnce
  <2>10. Spent'
    <3>1. ASSUME NEW n \in Turn
          PROVE  /\ scheduled[n] <= 1
                 /\ scheduled[n] = 1 => /\ \A k \in Hook : ~Failing(k, n)'
                                        /\ \A t \in Tailer, i \in Nat : ~Due(t, i, n)'
      <4>1. /\ scheduled[n] <= 1
            /\ scheduled[n] = 1 => /\ \A k \in Hook : ~Failing(k, n)
                                   /\ \A t \in Tailer, i \in Nat : ~Due(t, i, n)
        BY DEF Retries, Spent
      <4> QED BY <1>3, <2>5, <2>6, <4>1
    <3> QED BY <1>1, <3>1 DEF Spent
  <2> QED BY <2>7, <2>8, <2>9, <2>10 DEF Retries
<1> QED BY <1>5, <1>6

\* Reading the record of a failure spends it: it is nobody else's.
LEMMA RetriesRead ==
  ASSUME Typed, Retries, SessionsInOrder, NEW t \in Tailer, ReadRecord(t)
  PROVE  Retries'
<1> DEFINE r == NextRecord(t)
           p == tail[t].pos + 1
<1>0. Hook \subseteq Writer /\ Hook \cap Tailer = {}
  BY Constants
<1>1. UNCHANGED <<backend, agent, file>>
  BY DEF ReadRecord, agentVars
<1>2. /\ \A h \in Hook : job'[h] = job[h]
      /\ tail'[t].pos = p /\ tail'[t].sess = tail[t].sess /\ tail'[t].edge = tail[t].edge
      /\ \A u \in Tailer \ {t} : tail'[u] = tail[u]
      /\ IF r.kind = "failed" /\ IsLive(t)
         THEN scheduled' = [scheduled EXCEPT ![r.turn] = @ + 1]
         ELSE scheduled' = scheduled
  BY <1>0, ReadEffect
<1>3. /\ tail[t].sess \in Session /\ tail[t].sess # 0 /\ tail[t].pos \in Nat
      /\ tail[t].edge \in Nat
      /\ p \in 1..Len(file[tail[t].sess]) /\ r.turn \in Turn
      /\ r = file[tail[t].sess][p] /\ p \in Nat
  <2>1. HasRecord(t)
    BY DEF ReadRecord
  <2> QED BY <2>1, NextRecordTyped DEF NextRecord
<1> HIDE DEF r
<1>4. /\ \A n \in Turn : Open(n)' => Open(n)
      /\ \A h \in Hook, n \in Turn : Failing(h, n)' => Failing(h, n)
      /\ \A s \in Session, i \in Nat, n \in Turn : Recorded(s, i, n)' => Recorded(s, i, n)
  BY <1>1, <1>2 DEF Open, Failing, Recorded
<1>5. \A u \in Tailer, i \in Nat, n \in Turn :
        Due(u, i, n)' => Due(u, i, n) /\ (u # t \/ i # p)
  <2>1. SUFFICES ASSUME NEW u \in Tailer, NEW i \in Nat, NEW n \in Turn, Due(u, i, n)'
                 PROVE  Due(u, i, n) /\ (u # t \/ i # p)
    OBVIOUS
  <2>2. CASE u # t
    BY <1>1, <1>2, <2>1, <2>2 DEF Due, Recorded
  <2>3. CASE u = t
    <3>1. /\ tail[t].sess # 0 /\ Recorded(tail[t].sess, i, n)
          /\ p < i /\ tail[t].edge < i
      BY <1>1, <1>2, <2>1, <2>3 DEF Due, Recorded
    <3> QED BY <1>3, <2>3, <3>1 DEF Due
  <2> QED BY <2>2, <2>3
<1>6. CASE scheduled' = scheduled
  BY <1>1, <1>4, <1>5, <1>6, RetriesShrink
<1>7. CASE r.kind = "failed" /\ IsLive(t) /\ scheduled' = [scheduled EXCEPT ![r.turn] = @ + 1]
  <2>0. PICK c \in Turn, q \in Nat : c = r.turn /\ q = p
    BY <1>3
  <2>1. Recorded(tail[t].sess, q, c) /\ Due(t, q, c)
    BY <1>3, <1>7, <2>0 DEF Recorded, Due, IsLive
  <2>2. scheduled \in [Turn -> Nat]
    BY DEF Typed, CountsOK
  <2>3. scheduled[c] = 0 /\ ~Open(c)
    <3>1. scheduled[c] # 1 /\ scheduled[c] <= 1 /\ scheduled[c] \in Nat
      BY <1>3, <2>1, <2>2 DEF Retries, Spent
    <3>2. ~Open(c)
      BY <1>3, <2>1 DEF Retries, NotYet
    <3> QED BY <3>1, <3>2
  <2>4. /\ scheduled'[c] = 1
        /\ \A n \in Turn \ {c} : scheduled'[n] = scheduled[n]
    BY <1>7, <2>0, <2>2, <2>3
  <2>5. backend = "Codex"
    BY <1>3, <2>1 DEF Retries, FailuresByBackend
  <2>6. \A h \in Hook : ~Failing(h, c)
    BY <1>3, <2>5 DEF Retries, FailuresByBackend
  <2>7. \A u \in Tailer, i \in Nat : ~Due(u, i, c)'
    <3>1. SUFFICES ASSUME NEW u \in Tailer, NEW i \in Nat, Due(u, i, c)'
                   PROVE  FALSE
      BY <1>1
    <3>2. Due(u, i, c) /\ (u # t \/ i # q)
      BY <1>5, <2>0, <3>1
    <3>3. tail[u].sess \in Session /\ Recorded(tail[u].sess, i, c)
      BY <3>2 DEF Due, Typed, TailsOK
    <3>4. tail[u].sess = tail[t].sess /\ i = q
      BY <1>3, <2>1, <3>3 DEF Retries, FailsOnce
    <3> QED BY <1>3, <3>2, <3>4 DEF SessionsInOrder
  <2>8. FailuresByBackend'
    BY <1>1, <1>4 DEF Retries, FailuresByBackend
  <2>9. NotYet'
    BY <1>3, <1>4, <2>3, <2>4 DEF Retries, NotYet
  <2>10. FailsOnce'
    BY <1>4 DEF Retries, FailsOnce
  <2>11. Spent'
    <3>1. ASSUME NEW n \in Turn
          PROVE  /\ scheduled'[n] <= 1
                 /\ scheduled'[n] = 1 => /\ \A k \in Hook : ~Failing(k, n)'
                                         /\ \A u \in Tailer, i \in Nat : ~Due(u, i, n)'
      <4>1. CASE n = c
        BY <1>4, <2>4, <2>6, <2>7, <4>1
      <4>2. CASE n # c
        BY <1>4, <1>5, <2>4, <4>2 DEF Retries, Spent
      <4> QED BY <4>1, <4>2
    <3> QED BY <3>1 DEF Spent
  <2> QED BY <2>8, <2>9, <2>10, <2>11 DEF Retries
<1> QED BY <1>2, <1>6, <1>7

\* The reaction spends the call.
LEMMA RetriesReact ==
  ASSUME Typed, Retries, NEW h \in Hook, React(h)
  PROVE  Retries'
<1>0. Hook \subseteq Writer
  BY Constants
<1>1. UNCHANGED <<backend, agent, file, tail>>
  BY DEF React, agentVars
<1>2. /\ job[h].pc = "react" /\ job'[h].pc \in {"idle", "lock"}
      /\ \A x \in Writer \ {h} : job'[x] = job[x]
      /\ \/ scheduled' = scheduled
         \/ /\ job[h].ev = "StopFailure"
            /\ scheduled' = [scheduled EXCEPT ![job[h].turn] = @ + 1]
  BY ReactEffect
<1>3. \A k \in Hook, n \in Turn : Failing(k, n)' => Failing(k, n) /\ k # h
  BY <1>0, <1>2 DEF Failing
<1>4. /\ \A n \in Turn : Open(n)' => Open(n)
      /\ \A s \in Session, i \in Nat, n \in Turn : Recorded(s, i, n)' => Recorded(s, i, n)
      /\ \A t \in Tailer, i \in Nat, n \in Turn : Due(t, i, n)' => Due(t, i, n)
  BY <1>1 DEF Open, Recorded, Due
<1>5. CASE scheduled' = scheduled
  BY <1>1, <1>3, <1>4, <1>5, RetriesShrink
<1>6. CASE job[h].ev = "StopFailure" /\ scheduled' = [scheduled EXCEPT ![job[h].turn] = @ + 1]
  <2>1. PICK c \in Turn : c = job[h].turn
    BY <1>0 DEF Typed, JobsOK, Shaped
  <2>2. Failing(h, c)
    BY <1>2, <1>6, <2>1 DEF Failing
  <2>3. scheduled \in [Turn -> Nat]
    BY DEF Typed, CountsOK
  <2>4. scheduled[c] = 0 /\ ~Open(c)
    <3>1. scheduled[c] # 1 /\ scheduled[c] <= 1 /\ scheduled[c] \in Nat
      BY <2>2, <2>3 DEF Retries, Spent
    <3>2. ~Open(c)
      BY <2>2 DEF Retries, NotYet
    <3> QED BY <3>1, <3>2
  <2>5. /\ scheduled'[c] = 1
        /\ \A n \in Turn \ {c} : scheduled'[n] = scheduled[n]
    BY <1>6, <2>1, <2>3, <2>4
  <2>6. \A k \in Hook : ~Failing(k, c)'
    BY <1>3, <2>2 DEF Retries, FailsOnce
  <2>7. \A t \in Tailer, i \in Nat : ~Due(t, i, c)'
    <3>1. SUFFICES ASSUME NEW t \in Tailer, NEW i \in Nat, Due(t, i, c)
                   PROVE  FALSE
      BY <1>4
    <3>2. tail[t].sess \in Session /\ Recorded(tail[t].sess, i, c)
      BY <3>1 DEF Due, Typed, TailsOK
    <3> QED BY <2>2, <3>2 DEF Retries, FailuresByBackend
  <2>8. FailuresByBackend'
    BY <1>1, <1>3, <1>4 DEF Retries, FailuresByBackend
  <2>9. NotYet'
    BY <1>3, <1>4, <2>4, <2>5 DEF Retries, NotYet
  <2>10. FailsOnce'
    BY <1>3, <1>4 DEF Retries, FailsOnce
  <2>11. Spent'
    <3>1. ASSUME NEW n \in Turn
          PROVE  /\ scheduled'[n] <= 1
                 /\ scheduled'[n] = 1 => /\ \A k \in Hook : ~Failing(k, n)'
                                         /\ \A u \in Tailer, i \in Nat : ~Due(u, i, n)'
      <4>1. CASE n = c
        BY <2>5, <2>6, <2>7, <4>1
      <4>2. CASE n # c
        BY <1>3, <1>4, <2>5, <4>2 DEF Retries, Spent
      <4> QED BY <4>1, <4>2
    <3> QED BY <3>1 DEF Spent
  <2> QED BY <2>8, <2>9, <2>10, <2>11 DEF Retries
<1> QED BY <1>2, <1>5, <1>6

LEMMA RetriesBind ==
  ASSUME Typed, Retries, CallsInOrder, NEW h \in Hook, Bind(h)
  PROVE  Retries'
<1>0. Hook \subseteq Writer
  BY Constants
<1>1. UNCHANGED <<backend, agent, file, scheduled>>
  BY DEF Bind, agentVars
<1>2. /\ job[h].pc = "bind" /\ job'[h].ev = job[h].ev /\ job'[h].turn = job[h].turn
      /\ \A x \in Writer \ {h} : job'[x] = job[x]
      /\ agent.sess \in Session
      /\ tail' = IF agent.sess = tailing THEN tail ELSE FollowWith(tail, agent.sess)
  BY BindEffect
<1>3. \A k \in Hook, n \in Turn : Failing(k, n)' => Failing(k, n)
  BY <1>0, <1>2 DEF Failing
<1>4. /\ \A n \in Turn : Open(n)' => Open(n)
      /\ \A s \in Session, i \in Nat, n \in Turn : Recorded(s, i, n)' => Recorded(s, i, n)
  BY <1>1 DEF Open, Recorded
<1>5. \A t \in Tailer :
        \/ tail'[t].sess = tail[t].sess /\ tail'[t].pos = tail[t].pos
           /\ tail'[t].edge = tail[t].edge
        \/ tail'[t].sess = agent.sess /\ tail'[t].edge = Len(file[agent.sess])
  <2>1. CASE agent.sess = tailing
    BY <1>2, <2>1
  <2>2. CASE agent.sess # tailing
    <3> DEFINE new == FollowWith(tail, agent.sess)
    <3>1. \A t \in Tailer :
            \/ /\ new[t].sess = tail[t].sess
               /\ new[t].pos = tail[t].pos
               /\ new[t].edge = tail[t].edge
            \/ new[t].sess = agent.sess /\ new[t].edge = Len(file[agent.sess])
      BY <1>2, FollowEffect, Zenon DEF Typed, TailsOK
    <3> QED BY <1>2, <2>2, <3>1
  <2> QED BY <2>1, <2>2
<1>6. ASSUME NEW t \in Tailer, NEW i \in Nat, NEW n \in Turn, Due(t, i, n)'
      PROVE  Due(t, i, n)
  <2>1. CASE tail'[t].sess = tail[t].sess /\ tail'[t].pos = tail[t].pos
             /\ tail'[t].edge = tail[t].edge
    BY <1>1, <1>6, <2>1 DEF Due, Recorded
  <2>2. CASE tail'[t].sess = agent.sess /\ tail'[t].edge = Len(file[agent.sess])
    <3>1. i \in 1..Len(file[agent.sess]) /\ Len(file[agent.sess]) < i
      BY <1>1, <1>6, <2>2 DEF Due, Recorded
    <3>2. Len(file[agent.sess]) \in Nat
      BY <1>2, LenProperties DEF Typed, FilesOK
    <3> QED BY <3>1, <3>2
  <2> QED BY <1>5, <2>1, <2>2
<1> QED BY <1>1, <1>3, <1>4, <1>6, RetriesShrink

LEMMA RetriesRestart ==
  ASSUME Typed, Retries, Restart
  PROVE  Retries'
<1>0. Hook \subseteq Writer
  BY Constants
<1>1. /\ UNCHANGED <<backend, agent, file, scheduled, tailing>>
      /\ \A w \in Writer : job'[w].pc = "idle"
      /\ \A t \in Tailer :
           \/ tail'[t].sess = 0
           \/ tail'[t].sess = tailing /\ tail'[t].edge = Len(file[tailing])
  BY RestartEffect DEF agentVars
<1>2. /\ \A n \in Turn : Open(n)' => Open(n)
      /\ \A s \in Session, i \in Nat, n \in Turn : Recorded(s, i, n)' => Recorded(s, i, n)
      /\ \A k \in Hook, n \in Turn : Failing(k, n)' => Failing(k, n)
  BY <1>0, <1>1 DEF Open, Recorded, Failing
<1>3. ASSUME NEW t \in Tailer, NEW i \in Nat, NEW n \in Turn, Due(t, i, n)'
      PROVE  Due(t, i, n)
  <2>1. tailing \in Session /\ i \in 1..Len(file[tailing]) /\ Len(file[tailing]) < i
    BY <1>1, <1>3 DEF Due, Recorded, Typed, TailsOK
  <2>2. Len(file[tailing]) \in Nat
    BY <2>1, LenProperties DEF Typed, FilesOK
  <2> QED BY <2>1, <2>2
<1> QED BY <1>1, <1>2, <1>3, RetriesShrink

LEMMA RetriesStep ==
  ASSUME Typed, Retries, CallsInOrder, SessionsInOrder, [Next]_vars
  PROVE  Retries'
<1>0. Hook \subseteq Writer /\ Hook \cap Tailer = {}
  BY Constants
<1>1. CASE Agent
  BY <1>1, AgentQuietly, RetriesQuietly, RetriesFail
<1>2. ASSUME NEW h \in Hook, Handle(h)
      PROVE  Retries'
  <2>1. CASE Ignore(h)
    <3>1. UNCHANGED <<backend, agent, file, tail, scheduled>>
      BY <2>1 DEF Ignore, agentVars
    <3>2. job'[h].pc = "idle" /\ \A x \in Writer \ {h} : job'[x] = job[x]
      BY <2>1, IgnoreEffect
    <3>3. /\ \A n \in Turn : Open(n)' => Open(n)
          /\ \A k \in Hook, n \in Turn : Failing(k, n)' => Failing(k, n)
          /\ \A s \in Session, i \in Nat, n \in Turn : Recorded(s, i, n)' => Recorded(s, i, n)
          /\ \A t \in Tailer, i \in Nat, n \in Turn : Due(t, i, n)' => Due(t, i, n)
      BY <1>0, <3>1, <3>2 DEF Open, Failing, Recorded, Due
    <3> QED BY <3>1, <3>3, RetriesShrink
  <2> QED BY <1>2, <2>1, RetriesBind, RetriesReact DEF Handle
<1>3. ASSUME NEW t \in Tailer, ReadRecord(t)
      PROVE  Retries'
  BY <1>3, RetriesRead
<1>4. ASSUME NEW w \in Writer, Publish(w)
      PROVE  Retries'
  <2>1. /\ UNCHANGED <<backend, agent, file, tail, scheduled>>
        /\ job'[w].pc \notin {"bind", "react"}
        /\ \A x \in Writer \ {w} : job'[x] = job[x]
    BY <1>4, PublishEffect DEF agentVars, Publishing
  <2>2. /\ \A n \in Turn : Open(n)' => Open(n)
        /\ \A k \in Hook, n \in Turn : Failing(k, n)' => Failing(k, n)
        /\ \A s \in Session, i \in Nat, n \in Turn : Recorded(s, i, n)' => Recorded(s, i, n)
        /\ \A t \in Tailer, i \in Nat, n \in Turn : Due(t, i, n)' => Due(t, i, n)
    BY <1>0, <2>1 DEF Open, Failing, Recorded, Due
  <2> QED BY <2>1, <2>2, RetriesShrink
<1>5. CASE Restart
  BY <1>5, RetriesRestart
<1>6. CASE UNCHANGED vars
  <2>1. /\ UNCHANGED <<backend, scheduled>>
        /\ \A n \in Turn : Open(n)' => Open(n)
        /\ \A k \in Hook, n \in Turn : Failing(k, n)' => Failing(k, n)
        /\ \A s \in Session, i \in Nat, n \in Turn : Recorded(s, i, n)' => Recorded(s, i, n)
        /\ \A t \in Tailer, i \in Nat, n \in Turn : Due(t, i, n)' => Due(t, i, n)
    BY <1>6 DEF vars, agentVars, Open, Failing, Recorded, Due
  <2> QED BY <2>1, RetriesShrink
<1> QED BY <1>1, <1>2, <1>3, <1>4, <1>5, <1>6 DEF Next, Rest

-----------------------------------------------------------------------------
(* The invariant, and what it says.                                        *)

StatusInv == Typed /\ Mirrors /\ CallsInOrder /\ SessionsInOrder /\ Retries

LEMMA TypedStep ==
  ASSUME Typed, CallsInOrder, [Next]_vars
  PROVE  Typed'
<1>1. CASE UNCHANGED vars
  BY <1>1 DEF vars, agentVars, grokVars, Typed, AgentOK, JobsOK, FilesOK, TailsOK, CountsOK
<1> QED
  BY <1>1, AgentTyped, IgnoreEffect, BindEffect, ReactEffect, ReadEffect, PublishEffect,
     RestartEffect DEF Next, Handle, Rest

LEMMA StatusInit == Init => StatusInv
<1> SUFFICES ASSUME Init PROVE StatusInv
  OBVIOUS
<1> USE Constants
<1>1. JobsOK /\ \A w \in Writer : job[w].pc = "idle"
  BY IdleShaped DEF Init, JobsOK
<1>2. AgentOK /\ TailsOK /\ CountsOK
  BY DEF Init, AgentOK, Agents, Phase, TailsOK, NoTail, CountsOK, Session
<1>3. FilesOK /\ \A s \in Session : Len(file[s]) = 0
  BY EmptySeq DEF Init, FilesOK
<1>4. Mirrors
  BY <1>1 DEF Init, Mirrors, OneWriter, Mirrored, MirrorsAgree, Writing, Simple, Busy
<1>5. CallsInOrder
  BY <1>1 DEF CallsInOrder
<1>6. SessionsInOrder
  BY DEF Init, SessionsInOrder, NoTail
<1>7. Retries
  <2>1. \A h \in Hook, n \in Turn : ~Failing(h, n)
    BY <1>1 DEF Failing
  <2>2. \A s \in Session, i \in Nat, n \in Turn : ~Recorded(s, i, n)
    BY <1>3 DEF Recorded
  <2>3. \A n \in Turn : scheduled[n] = 0
    BY DEF Init
  <2> QED
    BY <2>1, <2>2, <2>3 DEF Retries, FailuresByBackend, NotYet, FailsOnce, Spent
<1> QED BY <1>1, <1>2, <1>3, <1>4, <1>5, <1>6, <1>7 DEF StatusInv, Typed

LEMMA StatusStep == StatusInv /\ [Next]_vars => StatusInv'
BY TypedStep, MirrorsStep, CallsStep, SessionsStep, RetriesStep DEF StatusInv

\* Between two writers the tmux options and the last DetailedStateChange name
\* the state in memory (set_pane_detailed_state_inner 528, 553), whatever hook
\* handlers, tailers and restarts come between.
THEOREM MirrorsTrue == Spec => []MirrorsAgree
<1>1. StatusInv => MirrorsAgree
  BY DEF StatusInv, Mirrors, Mirrored
<1> QED BY <1>1, StatusInit, StatusStep, PTL DEF Spec

\* A failed turn is retried at most once, though a new tailer replays the
\* record of its failure and a hook may tell it too (live_boundary, 1765).
THEOREM RetriesOnce == Spec => []RetriedOnce
<1>1. StatusInv => RetriedOnce
  BY DEF StatusInv, Retries, Spent, RetriedOnce
<1> QED BY <1>1, StatusInit, StatusStep, PTL DEF Spec
=============================================================================
