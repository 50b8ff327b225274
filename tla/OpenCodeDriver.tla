--------------------------- MODULE OpenCodeDriver ---------------------------
(***************************************************************************)
(* One OpenCode pane and the driver that follows it: a reader of the       *)
(* server's events and a backstop that polls every three seconds.  Both    *)
(* decide, over HTTP, which session the pane is bound to and what its      *)
(* state is, while prompts are sent through the TUI, sessions are forked   *)
(* and failed prompts are retried.                                         *)
(*                                                                         *)
(* The server runs turns and subagents; the TUI shows one of its sessions  *)
(* and tells nobody which.  Events that are published while no reader is   *)
(* connected are lost.                                                     *)
(***************************************************************************)
EXTENDS Naturals, Sequences, FiniteSets

CONSTANTS
  Roots, Kids, Copies,  \* the sessions a user starts, subagents, forks
  Home,                 \* the session the pane was started with
  None,                 \* no session, no prompt
  Versions,             \* the major versions of OpenCode the pane may run
  MaxAttempts,          \* max_retry_attempts
  Budgets,              \* how often each thing may happen, and all of them together
  Hasty,                \* whether a prompt may be sent before the events of the last are read
  Overlap               \* whether a follow may begin before the other's option is written

Session == Roots \cup Kids \cup Copies
Prompt == UNION {1..b.send : b \in Budgets}
Typed == 0                           \* a prompt typed by hand
Actor == {"sse", "poll"}

ASSUME OpenCodeAssumption ==
  /\ Home \in Roots /\ None \notin Session
  /\ Roots \cap (Kids \cup Copies) = {} /\ Kids \cap Copies = {}
  /\ Versions \subseteq {1, 2} /\ MaxAttempts \in Nat
  /\ Budgets \subseteq [{"send", "type", "pick", "select", "part", "fail", "kid", "fork", "gap",
                  "crash", "all"} -> Nat]
  /\ {Hasty, Overlap} \subseteq BOOLEAN

VARIABLES
  version,
  (* the server and its TUI *)
  work,       \* what each session does
  asked,      \* the prompts of each session's turn
  parent,     \* of each subagent, None until it is created
  shown,      \* the session the TUI shows
  seen,       \* the sessions it has shown
  queue,      \* events on their way to the reader
  linked,     \* whether the reader is connected
  (* the daemon *)
  binding,    \* OpencodeState.session_id
  option,     \* @slopd_session_id
  state,      \* detailed_state
  subagents,  \* the live subagents
  young,      \* those of them in SUBAGENT_PRUNE_GRACE
  last, pending,   \* last_prompt, pending_prompt
  retry,      \* retry_state: the attempt and the failure it is for
  tasks,      \* retries that sleep or are about to be sent
  job,        \* what the reader and the backstop are doing
  send,       \* the prompt that holds type_mutex
  fork,       \* the request that holds the lock on forks
  forks,      \* forks that are known
  left        \* what is left of the budget

serverVars == <<work, asked, parent, shown, seen>>
wireVars == <<queue, linked>>
bindVars == <<binding, option>>
viewVars == <<state, subagents, young>>
retryVars == <<last, pending, retry, tasks>>
forkVars == <<fork, forks>>
vars == <<version, serverVars, wireVars, bindVars, viewVars, retryVars, job, send, forkVars, left>>

NoRetry == [n |-> 0, id |-> 0]
NoEvent == [kind |-> "none", sess |-> None, val |-> None]
Event(k, s, v) == [kind |-> k, sess |-> s, val |-> v]
NoJob == [pc |-> "idle", from |-> None, cand |-> None, ev |-> NoEvent, snap |-> {}, status |-> "none"]
Working == {"busy", "tool"}

Spend(what) ==
  /\ left[what] > 0 /\ left.all > 0
  /\ left' = [left EXCEPT ![what] = @ - 1, !.all = @ - 1]
Emit(es) == queue' = IF linked THEN queue \o es ELSE queue

Init ==
  /\ version \in Versions
  /\ work = [s \in Session |-> "idle"] /\ asked = [s \in Session |-> {}]
  /\ parent = [k \in Kids \cup Copies |-> None]
  /\ shown = Home /\ seen = {Home}
  /\ queue = <<>> /\ linked = FALSE
  /\ binding = Home /\ option = Home
  /\ state = "booting" /\ subagents = {} /\ young = {}
  /\ last = None /\ pending = None /\ retry = NoRetry /\ tasks = {}
  /\ job = [a \in Actor |-> NoJob]
  /\ send = None /\ fork = None /\ forks = {}
  /\ left \in Budgets

-----------------------------------------------------------------------------
(* The server.                                                             *)

Agent == UNCHANGED <<version, linked, bindVars, viewVars, retryVars, job, forkVars>>

\* A user message: of a turn that it starts, or of the one that runs.
TakePrompt(s, p) ==
  IF work[s] = "idle"
  THEN LET es == <<Event("user", s, p), Event("status", s, "busy")>> IN
       /\ work' = [work EXCEPT ![s] = "busy"]
       /\ asked' = [asked EXCEPT ![s] = {p}]
       /\ Emit(IF version = 1 THEN <<es[2], es[1]>> ELSE es)
  ELSE /\ asked' = [asked EXCEPT ![s] = @ \cup {p}]
       /\ Emit(<<Event("user", s, p)>>) /\ UNCHANGED work

TypeByHand ==
  /\ Spend("type") /\ TakePrompt(shown, Typed)
  /\ Agent /\ UNCHANGED <<parent, shown, seen, send>>

\* The user goes to another session: no event tells.
Pick(s) ==
  /\ s \in Roots \cup {c \in Copies : parent[c] # None} /\ s # shown
  /\ Spend("pick") /\ shown' = s /\ seen' = seen \cup {s}
  /\ Agent /\ UNCHANGED <<work, asked, parent, queue, send>>

\* A command to the TUI, which is an event of its own: of a client of the
\* server, or of the daemon, which repeats it after the start while the pane
\* is bound as it was started.  There is none in V2.
Select(s) ==
  /\ version = 1 /\ s \in Roots /\ Spend("select")
  /\ s = Home => binding = Home
  /\ shown' = s /\ seen' = seen \cup {s} /\ Emit(<<Event("select", s, None)>>)
  /\ Agent /\ UNCHANGED <<work, asked, parent, send>>

Progress(s) ==
  /\ Spend("part")
  /\ \/ work[s] = "busy" /\ \E w \in {"tool", "ask"} : work' = [work EXCEPT ![s] = w]
     \/ work[s] \in {"tool", "ask"} /\ work' = [work EXCEPT ![s] = "busy"]
  /\ Emit(<<Event("part", s, work'[s])>>)
  /\ Agent /\ UNCHANGED <<asked, parent, shown, seen, send>>

\* A turn ends well, or is interrupted: /abort has the same event.
Finish(s) ==
  /\ work[s] # "idle"
  /\ work' = [work EXCEPT ![s] = "idle"] /\ Emit(<<Event("idle", s, None)>>)
  /\ Agent /\ UNCHANGED <<asked, parent, shown, seen, send, left>>

Fail(s) ==
  /\ work[s] # "idle" /\ Spend("fail")
  /\ work' = [work EXCEPT ![s] = "idle"] /\ Emit(<<Event("error", s, asked[s])>>)
  /\ Agent /\ UNCHANGED <<asked, parent, shown, seen, send>>

Spawn(s, k) ==
  /\ work[s] = "busy" /\ s \notin Kids /\ parent[k] = None /\ Spend("kid")
  /\ parent' = [parent EXCEPT ![k] = s] /\ work' = [work EXCEPT ![k] = "busy"]
  /\ Emit(<<Event("created", k, s), Event("status", k, "busy")>>)
  /\ Agent /\ UNCHANGED <<asked, shown, seen, send>>

\* A subagent waits for a rate limit: nothing ends it.
Wedge(k) ==
  /\ work[k] \in Working /\ work' = [work EXCEPT ![k] = "wedged"]
  /\ Agent /\ UNCHANGED <<asked, parent, shown, seen, queue, send, left>>

-----------------------------------------------------------------------------
(* Forks: fork_session holds its lock from before the request until the    *)
(* copy is known.  V1 publishes the messages it copies, V2 the parent.      *)

ForkPost(f) ==
  /\ fork = None /\ parent[f] = None
  /\ Spend("fork") /\ fork' = f
  /\ UNCHANGED <<version, serverVars, wireVars, bindVars, viewVars, retryVars, job, send, forks>>

ForkCopy ==
  /\ fork # None /\ parent[fork] = None
  /\ parent' = [parent EXCEPT ![fork] = binding]
  /\ Emit(IF version = 1 THEN <<Event("user", fork, Typed)>> ELSE <<Event("created", fork, binding)>>)
  /\ UNCHANGED <<version, work, asked, shown, seen, linked, bindVars, viewVars, retryVars,
                 job, send, forkVars, left>>

ForkKnown ==
  /\ fork # None /\ parent[fork] # None
  /\ forks' = forks \cup {fork} /\ fork' = None
  /\ UNCHANGED <<version, serverVars, wireVars, bindVars, viewVars, retryVars, job, send, left>>

-----------------------------------------------------------------------------
(* Which session: active_session and follow_opencode_session.              *)

\* Defect: activity counts wherever it is, in a fork as well.
ActiveAnywhere(from, activity) ==
  LET busy == {s \in Session : work[s] # "idle"}
      tops == ((busy \cup ({activity} \ {None})) \ {from}) \ Kids
  IN IF from \notin busy /\ Cardinality(tops) = 1 THEN CHOOSE s \in tops : TRUE ELSE None

\* The one session at the top that is active, if the bound one is idle.
Active(from, activity) ==
  LET busy == {s \in Session : work[s] # "idle"}
      hint == IF activity \in forks \cup {None} THEN {} ELSE {activity}
      tops == ((busy \cup hint) \ {from}) \ Kids
  IN IF from \notin busy /\ Cardinality(tops) = 1 THEN CHOOSE s \in tops : TRUE ELSE None

Goto(a, pc) == job' = [job EXCEPT ![a].pc = pc]

Other(a) == CHOOSE b \in Actor : b # a
FollowFree(a) == Overlap \/ job[Other(a)].pc \notin {"write", "selected"}

After(a) == IF a = "sse" THEN "route" ELSE "kids"

\* The request, which waits for the lock on forks.
Asks(a, activity, e) ==
  LET cand == Active(binding, activity) job0 == [NoJob EXCEPT !.ev = e] IN
  /\ fork = None
  /\ job' = [job EXCEPT ![a] = IF cand = None THEN [job0 EXCEPT !.pc = After(a)]
                              ELSE [job0 EXCEPT !.pc = "answer", !.from = binding, !.cand = cand]]

FollowTo(expected, s) ==
  IF binding = expected /\ s # expected
  THEN /\ binding' = s /\ last' = None /\ retry' = NoRetry /\ subagents' = {} /\ young' = {}
  ELSE UNCHANGED <<binding, last, retry, subagents, young>>

Answer(a) ==
  /\ job[a].pc = "answer"
  /\ IF binding = job[a].from
     THEN FollowFree(a) /\ FollowTo(job[a].from, job[a].cand) /\ Goto(a, "write")
     ELSE /\ job' = [job EXCEPT ![a] = [NoJob EXCEPT !.pc = After(a), !.ev = job[a].ev]]
          /\ UNCHANGED <<binding, last, retry, subagents, young>>
  /\ UNCHANGED <<version, serverVars, wireVars, option, state, pending, tasks, send, forkVars, left>>

WriteOption(a) ==
  /\ job[a].pc \in {"write", "selected"}
  /\ option' = job[a].cand
  /\ job' = [job EXCEPT ![a] = [NoJob EXCEPT !.pc = IF job[a].pc = "write" THEN After(a) ELSE "query",
                                            !.ev = job[a].ev]]
  /\ UNCHANGED <<version, serverVars, wireVars, binding, viewVars, retryVars, send, forkVars, left>>

-----------------------------------------------------------------------------
(* What it does: reconcile_opencode_status.                                *)

\* V1's map knows "busy" only; V2 asks for open questions and running tools.
Status(s) ==
  CASE work[s] = "idle" -> "ready"
    [] version = 2 /\ work[s] \in {"tool", "ask"} -> work[s]
    [] OTHER -> "busy"

Query(a) ==
  /\ job[a].pc = "query"
  /\ job' = [job EXCEPT ![a].pc = "status", ![a].from = binding, ![a].ev = NoEvent,
                        ![a].status = Status(binding)]
  /\ UNCHANGED <<version, serverVars, wireVars, bindVars, viewVars, retryVars, send, forkVars, left>>

\* The answer counts if the binding has not changed.
SetStatus(a) ==
  /\ job[a].pc = "status"
  /\ state' = IF binding = job[a].from THEN job[a].status ELSE state
  /\ job' = [job EXCEPT ![a] = NoJob]
  /\ UNCHANGED <<version, serverVars, wireVars, bindVars, subagents, young, retryVars, send,
                 forkVars, left>>

-----------------------------------------------------------------------------
(* The backstop.                                                           *)

Tick ==
  /\ job["poll"].pc = "idle"
  /\ \/ state = "booting" /\ Goto("poll", "query")
     \/ Asks("poll", None, NoEvent)
  /\ UNCHANGED <<version, serverVars, wireVars, bindVars, viewVars, retryVars, send, forkVars, left>>

AskKids ==
  /\ job["poll"].pc = "kids"
  /\ job' = [job EXCEPT !["poll"].pc = "prune",
                        !["poll"].snap = {k \in Kids : work[k] \in Working}]
  /\ UNCHANGED <<version, serverVars, wireVars, bindVars, viewVars, retryVars, send, forkVars, left>>

\* Defect: only events end a subagent.
PruneNone ==
  /\ job["poll"].pc = "prune"
  /\ state' = IF subagents = {} THEN state ELSE "subagent"
  /\ job' = [job EXCEPT !["poll"] = [NoJob EXCEPT !.pc = IF subagents = {} THEN "query" ELSE "idle"]]
  /\ UNCHANGED <<version, serverVars, wireVars, bindVars, subagents, young, retryVars, send,
                 forkVars, left>>

\* reconcile_opencode_subagents
Prune ==
  LET kept == subagents \cap (job["poll"].snap \cup young) IN
  /\ job["poll"].pc = "prune"
  /\ subagents' = kept
  /\ state' = IF kept = {} THEN state ELSE "subagent"
  /\ job' = [job EXCEPT !["poll"] = [NoJob EXCEPT !.pc = IF kept = {} THEN "query" ELSE "idle"]]
  /\ UNCHANGED <<version, serverVars, wireVars, bindVars, young, retryVars, send, forkVars, left>>

GraceEnds ==
  /\ young # {} /\ young' = {}
  /\ UNCHANGED <<version, serverVars, wireVars, bindVars, state, subagents, retryVars, job,
                 send, forkVars, left>>

-----------------------------------------------------------------------------
(* The reader.                                                             *)

Connect ==
  /\ ~linked /\ linked' = TRUE
  /\ UNCHANGED <<version, serverVars, queue, bindVars, viewVars, retryVars, job, send, forkVars, left>>

Gap ==
  /\ linked /\ Spend("gap") /\ linked' = FALSE /\ queue' = <<>>
  /\ UNCHANGED <<version, serverVars, bindVars, viewVars, retryVars, job, send, forkVars>>

\* Activity of a session that is not the bound one is looked into first.
Unfamiliar(e) ==
  e.sess # binding /\ e.kind \in {"user", "status"}

Read ==
  LET e == Head(queue) IN
  /\ job["sse"].pc = "idle" /\ queue # <<>> /\ queue' = Tail(queue)
  /\ IF Unfamiliar(e)
     THEN Asks("sse", e.sess, e)
     ELSE job' = [job EXCEPT !["sse"] = [NoJob EXCEPT !.pc = "route", !.ev = e]]
  /\ UNCHANGED <<version, serverVars, linked, bindVars, viewVars, retryVars, send, forkVars, left>>

ReadSelect ==
  LET e == job["sse"].ev IN
  /\ job["sse"].pc = "route" /\ e.kind = "select"
  /\ IF e.sess = binding
     THEN job' = [job EXCEPT !["sse"] = NoJob] /\ UNCHANGED <<binding, last, retry, subagents, young>>
     ELSE /\ FollowFree("sse") /\ FollowTo(binding, e.sess)
          /\ job' = [job EXCEPT !["sse"].pc = "selected", !["sse"].cand = e.sess]
  /\ UNCHANGED <<version, serverVars, wireVars, option, state, pending, tasks, send, forkVars, left>>

\* event_to_detailed
Shows(e) ==
  CASE e.kind \in {"idle", "error"} -> "ready"
    [] e.kind \in {"status", "part"} -> e.val
    [] e.kind = "user" -> "busy"
    [] OTHER -> None

\* schedule_opencode_auto_continue: the failed turn's prompts are kept beside.
Schedule(e) ==
  LET n == retry.n + 1
      task == [n |-> n, id |-> left.fail, sess |-> binding, prompt |-> last, failed |-> e.val,
               home |-> e.sess, due |-> FALSE]
  IN IF last = None THEN UNCHANGED <<retry, tasks>>
     ELSE IF n > MaxAttempts THEN retry' = NoRetry /\ UNCHANGED tasks
     ELSE retry' = [n |-> n, id |-> task.id] /\ tasks' = tasks \cup {task}

OfMain(e) ==
  CASE e.kind = "idle" -> retry' = NoRetry /\ pending' = None /\ UNCHANGED <<last, tasks>>
    [] e.kind = "error" -> pending' = None /\ Schedule(e) /\ UNCHANGED last
    [] e.kind = "user" /\ pending # None ->
         last' = pending /\ pending' = None /\ UNCHANGED <<retry, tasks>>
    [] OTHER -> UNCHANGED retryVars

\* One event: subagents first, then hooks and retries, then the state.
Route ==
  LET e == job["sse"].ev
      born == e.kind = "created" /\ e.val = binding
      known == IF born THEN subagents \cup {e.sess} ELSE subagents
      kids == IF e.kind \in {"idle", "error"} THEN known \ {e.sess} ELSE known
      main == e.sess = binding
      shows == IF kids # {} THEN "subagent" ELSE IF main THEN Shows(e) ELSE None
  IN
  /\ job["sse"].pc = "route" /\ e.kind # "select"
  /\ job' = [job EXCEPT !["sse"] = NoJob]
  /\ IF main \/ e.sess \in known
     THEN /\ subagents' = kids
          /\ young' = IF born THEN young \cup {e.sess} ELSE young \cap kids
          /\ IF main THEN OfMain(e) ELSE UNCHANGED retryVars
          /\ state' = IF shows = None THEN state ELSE shows
     ELSE UNCHANGED <<viewVars, retryVars>>
  /\ UNCHANGED <<version, serverVars, wireVars, bindVars, send, forkVars, left>>

-----------------------------------------------------------------------------
(* Prompts and retries.                                                    *)

\* What the last prompt led to has been read.
Calm ==
  /\ \A i \in DOMAIN queue : queue[i].kind \notin {"user", "error"}
  /\ job["sse"].ev.kind \notin {"user", "error"}
  /\ \A t \in tasks : ~t.due

\* Defect: the prompt is the last one before the server has taken it.
SendStartsEagerly ==
  /\ send = None /\ state \notin {"booting", "ask"} /\ (Hasty \/ Calm)
  /\ Spend("send") /\ send' = left.send
  /\ last' = left.send /\ pending' = left.send /\ retry' = NoRetry
  /\ UNCHANGED <<version, serverVars, wireVars, bindVars, viewVars, tasks, job, forkVars>>

SendStarts ==
  /\ send = None /\ state \notin {"booting", "ask"} /\ (Hasty \/ Calm)
  /\ Spend("send") /\ send' = left.send
  /\ last' = None /\ pending' = left.send /\ retry' = NoRetry
  /\ UNCHANGED <<version, serverVars, wireVars, bindVars, viewVars, tasks, job, forkVars>>

\* Enter is a message to the session that is shown, or a command of the TUI.
SendEnters ==
  /\ send # None /\ send' = None
  /\ TakePrompt(shown, send) \/ UNCHANGED <<work, asked, queue>>
  /\ UNCHANGED <<version, parent, shown, seen, linked, bindVars, viewVars, retryVars, job, forkVars, left>>

SendFails ==
  /\ send # None /\ send' = None /\ pending' = None
  /\ UNCHANGED <<version, serverVars, wireVars, bindVars, viewVars, last, retry, tasks, job, forkVars, left>>

Wake(t) ==
  /\ ~t.due
  /\ tasks' = (tasks \ {t}) \cup
       (IF retry = [n |-> t.n, id |-> t.id] THEN {[t EXCEPT !.due = TRUE]} ELSE {})
  /\ UNCHANGED <<version, serverVars, wireVars, bindVars, viewVars, last, pending, retry, job,
                 send, forkVars, left>>

Resend(t) ==
  /\ t.due /\ tasks' = tasks \ {t} /\ TakePrompt(t.sess, t.prompt)
  /\ UNCHANGED <<version, parent, shown, seen, linked, bindVars, viewVars, last, pending, retry,
                 job, send, forkVars, left>>

\* slopd starts again: what it knows is what the pane's options say.
Restart ==
  /\ fork = None /\ Spend("crash")
  /\ linked' = FALSE /\ queue' = <<>> /\ binding' = option
  /\ subagents' = {} /\ young' = {}
  /\ last' = None /\ pending' = None /\ retry' = NoRetry /\ tasks' = {}
  /\ job' = [job EXCEPT !["sse"] = NoJob, !["poll"] = [NoJob EXCEPT !.pc = "query"]]
  /\ send' = None /\ forks' = {}
  /\ UNCHANGED <<version, serverVars, option, state, fork>>

-----------------------------------------------------------------------------
ServerActs ==
  \/ TypeByHand
  \/ \E s \in Session : Pick(s) \/ Select(s) \/ Progress(s) \/ Finish(s) \/ Fail(s)
  \/ \E s \in Session, k \in Kids : Spawn(s, k)
  \/ \E k \in Kids : Wedge(k)
  \/ \E f \in Copies : ForkPost(f)
  \/ ForkCopy

Reader == Answer("sse") \/ WriteOption("sse") \/ Query("sse") \/ SetStatus("sse")
            \/ Read \/ ReadSelect \/ Route
Backstop == Tick \/ Answer("poll") \/ WriteOption("poll") \/ AskKids \/ Prune
            \/ Query("poll") \/ SetStatus("poll")
Retries == \E t \in tasks : Wake(t) \/ Resend(t)

Next ==
  \/ ServerActs \/ Reader \/ Backstop \/ Retries
  \/ Connect \/ Gap \/ GraceEnds \/ ForkKnown
  \/ SendStarts \/ SendEnters \/ SendFails \/ Restart

Spec == Init /\ [][Next]_vars

\* The tasks run, the server answers, the 3 s of grace end.
Fairness ==
  /\ WF_vars(Reader) /\ WF_vars(Backstop) /\ WF_vars(Retries) /\ WF_vars(Connect)
  /\ WF_vars(GraceEnds) /\ WF_vars(ForkCopy \/ ForkKnown) /\ WF_vars(SendEnters \/ SendFails)
FairSpec == Spec /\ Fairness

-----------------------------------------------------------------------------
(* Properties.                                                             *)

TypeOK ==
  /\ work \in [Session -> {"idle", "busy", "tool", "ask", "wedged"}]
  /\ {binding, option, shown} \subseteq Roots \cup Copies
  /\ state \in {"booting", "ready", "busy", "tool", "ask", "subagent"}
  /\ young \subseteq subagents /\ subagents \subseteq Kids \cup Copies
  /\ {last, pending, send} \subseteq Prompt \cup {None}
  /\ \A t \in tasks : t.prompt \in Prompt /\ t.n \in 1..MaxAttempts
  /\ forks \cup ({fork} \ {None}) \subseteq Copies

\* The pane is bound, in memory and on disk, to a session that its TUI has
\* shown: never to a subagent, and never to a fork made for another pane,
\* whose copied messages look like activity (opencode.rs:377, :211).
BindingWasShown == {binding, option} \cup {t.sess : t \in tasks} \subseteq seen

\* A retry repeats a prompt of the turn that failed, in the session in which
\* it failed, whatever was sent, followed and lost since (main.rs:1650).
RetriesRepeatFailed == \A t \in tasks : t.prompt \in t.failed /\ t.sess = t.home

\* When the server rests, the pane comes to show what its session does, and
\* no subagent that ended or waits for a rate limit (main.rs:1160-1236).
Settled ==
  /\ \A k \in subagents : work[k] \in Working
  /\ state = IF subagents # {} THEN "subagent" ELSE Status(binding)

\* The session that is shown works, and no other.
OnlyShownWorks == \A s \in Roots \cup Copies : work[s] = "idle" <=> s # shown

\* Whatever events were lost and whatever stale answer was written last: the
\* shown state is right in the end, the option names the bound session
\* (main.rs:1068; not with Overlap), and a pane whose shown session works on
\* is bound to it, though navigation has no event (main.rs:1108).
PaneConverges ==
  /\ <>[](Settled /\ option = binding)
  /\ <>[]OnlyShownWorks => <>[](binding = shown)
=============================================================================
