------------------------------ MODULE AcpTurns ------------------------------
(***************************************************************************)
(* One turn after another of a session of the ACP adapter: what the agent  *)
(* and the daemon publish, how a turn reads it from two subscriptions that *)
(* run independently, how it ends, and steering while it is in flight.     *)
(*                                                                         *)
(* The quiet window of drain_transcript (300 ms) is taken as long enough:  *)
(* it does not pass while a record is on its way.                          *)
(***************************************************************************)
EXTENDS Integers, Sequences, Functions

CONSTANTS
  Backends,     \* which of "claude" and "codex"
  MaxPrompts,   \* bound on session/prompt requests
  MaxAnswers,   \* bound on the answers of an attempt
  Bounds,       \* what a run may have: retries is max_retry_attempts, steers the
                \* bound on steering requests, troubles that on cancellations,
                \* timeouts, failing sends, interrupts at the terminal and
                \* deaths of the pane, together
  Hasty,        \* whether the client prompts again before an agent that was
                \* interrupted has stopped
  Zombies,      \* whether a prompt or steering text that was given up may still
                \* reach the agent, and steering come while it is not busy
  Skewed        \* whether Codex may answer before the turn has read the stale
                \* states of its start

ASSUME TurnsAssumption ==
  /\ Backends \subseteq {"claude", "codex"}
  /\ {MaxPrompts, MaxAnswers} \subseteq Nat
  /\ Bounds \subseteq [retries : Nat, steers : Nat, troubles : Nat]
  /\ {Hasty, Zombies, Skewed} \subseteq BOOLEAN

Prompts == 1..MaxPrompts
History == 0                  \* the turn of what was there before a resume
Nobody == -1

VARIABLES
  backend,
  agent,     \* what it does, for which prompt, and the texts waiting for it
  shown,     \* the state of the pane, as published
  stateQ,    \* state and hook events not yet read by the turn
  recordQ,   \* transcript records not yet read by the turn
  turn,      \* run_turn and what follows it in session_prompt
  pending,   \* pending_resume_history
  steer,     \* _session/steering
  given,     \* updates sent to the client during each prompt
  wrote,     \* answers the agent wrote for each prompt
  ended,     \* how the agent ended each prompt
  reply,     \* the answer to each prompt
  left       \* what is left of the bounds

agentVars == <<agent, shown, wrote, ended>>
queueVars == <<stateQ, recordQ>>
vars == <<backend, agentVars, queueVars, turn, pending, steer, given, reply, left>>

NoTurn == [pc |-> "none", k |-> 0, busy |-> FALSE, answer |-> FALSE, retry |-> FALSE,
           cancel |-> FALSE, done |-> FALSE, accepted |-> FALSE, gated |-> FALSE,
           echoed |-> FALSE, buffer |-> <<>>, result |-> "none"]
NoSteer == [pc |-> "none", k |-> 0]

Record(kind, k, n) == [kind |-> kind, k |-> k, n |-> n]
Event(e) == [type |-> e, retry |-> FALSE]
\* The turn reads what is published after it subscribed.
Subscribed == turn.pc \in {"send", "run", "drain"}
Publish(es) == stateQ' = IF Subscribed THEN stateQ \o es ELSE stateQ
Write(rs) == recordQ' = IF Subscribed THEN recordQ \o rs ELSE recordQ
\* StateChange, only when the state differs.
Show(s) == IF shown = s THEN <<>> ELSE <<Event(s)>>
Trouble == left.troubles > 0 /\ left' = [left EXCEPT !.troubles = @ - 1]
External == UNCHANGED <<backend, turn, pending, steer, given, reply>>

-----------------------------------------------------------------------------
(* The agent in its pane.                                                  *)

\* The prompt is submitted.  A Codex agent learns its session only now: its
\* SessionStart shows the pane as ready again, and a resumed one replays its
\* history, in which the same prompt may occur.
AgentTakes ==
  LET k == Head(agent.inbox) first == backend = "codex" /\ ~agent.started IN
  /\ agent.pc = "ready" /\ agent.inbox # <<>>
  /\ agent' = [agent EXCEPT !.pc = "busy", !.k = k, !.inbox = Tail(@), !.started = TRUE,
                            !.answers = 0, !.tries = 0]
  /\ Publish(Show("busy") \o (IF first THEN <<Event("ready")>> ELSE <<>>))
  /\ shown' = IF first THEN "ready" ELSE "busy"
  /\ \E same \in BOOLEAN :
       Write((IF first /\ agent.resumed
              THEN <<Record("user", IF same THEN k ELSE History, 0), Record("answer", History, 1)>>
              ELSE <<>>) \o <<Record("user", k, 0)>>)
  /\ External /\ UNCHANGED <<wrote, ended, left>>

Answers(n) == [agent EXCEPT !.answers = @ + n]

AgentAnswers ==
  /\ agent.pc = "busy" /\ agent.answers < MaxAnswers
  /\ backend = "codex" /\ turn.pc \in {"send", "run"} => Skewed \/ stateQ = <<>>
  /\ agent' = Answers(1)
  /\ wrote' = IF agent.k \in Prompts THEN [wrote EXCEPT ![agent.k] = @ + 1] ELSE wrote
  /\ Write(<<Record("answer", agent.k, IF agent.k \in Prompts THEN wrote[agent.k] + 1 ELSE 1)>>)
  /\ Publish(Show("busy")) /\ shown' = "busy"
  /\ External /\ UNCHANGED <<ended, left>>

Ends(how) == ended' = IF agent.k \in Prompts THEN [ended EXCEPT ![agent.k] = how] ELSE ended

\* The state goes before the hook (main.rs:5967-6038); a last record of the
\* transcript may be written after both.
AgentStops ==
  /\ agent.pc = "busy"
  /\ Ends("ok")
  /\ Publish(Show("ready") \o <<Event("Stop")>>) /\ shown' = "ready"
  /\ \E late \in BOOLEAN :
       /\ late => agent.answers < MaxAnswers
       /\ agent' = [agent EXCEPT !.pc = IF late THEN "late" ELSE "ready"]
  /\ External /\ UNCHANGED <<recordQ, wrote, left>>

AgentWritesLate ==
  /\ agent.pc = "late"
  /\ agent' = [agent EXCEPT !.pc = "ready"]
  /\ wrote' = IF agent.k \in Prompts THEN [wrote EXCEPT ![agent.k] = @ + 1] ELSE wrote
  /\ Write(<<Record("answer", agent.k, IF agent.k \in Prompts THEN wrote[agent.k] + 1 ELSE 1)>>)
  /\ External /\ UNCHANGED <<shown, stateQ, ended, left>>

\* "Publish the outcome first so consumers do not mistake that Ready edge
\* for successful completion" (main.rs:5952).
Failure(retry) == <<[type |-> "StopFailure", retry |-> retry]>>
FailureLast(retry) == Show("ready") \o Failure(retry)

FailureFirst(retry) == Failure(retry) \o Show("ready")

AgentFails ==
  LET retry == agent.tries < left.retries IN
  /\ agent.pc = "busy"
  /\ Ends("failed")
  /\ Publish(FailureFirst(retry)) /\ shown' = "ready"
  /\ agent' = [agent EXCEPT !.pc = IF retry THEN "failed" ELSE "ready", !.tries = @ + 1]
  /\ External /\ UNCHANGED <<recordQ, wrote, left>>

\* The daemon's auto-continue is submitted.
AgentContinues ==
  /\ agent.pc = "failed"
  /\ agent' = [agent EXCEPT !.pc = "busy", !.answers = 0]
  /\ Ends("none")
  /\ Publish(Show("busy")) /\ shown' = "busy"
  /\ External /\ UNCHANGED <<recordQ, wrote, left>>

\* Interrupted: the transcript tells, no hook does.
AgentStopsShort ==
  /\ agent.pc = "interrupted"
  /\ Ends("interrupted")
  /\ Publish(Show("ready")) /\ shown' = "ready"
  /\ agent' = [agent EXCEPT !.pc = "ready"]
  /\ External /\ UNCHANGED <<recordQ, wrote, left>>

Interrupted == [agent EXCEPT !.pc = IF @ \in {"busy", "failed"} THEN "interrupted" ELSE @]

UserInterrupts ==
  /\ agent.pc = "busy" /\ Trouble
  /\ agent' = Interrupted
  /\ External /\ UNCHANGED <<shown, queueVars, wrote, ended>>

PaneEnds ==
  /\ agent.pc # "gone" /\ Trouble
  /\ agent' = [agent EXCEPT !.pc = "gone", !.inbox = <<>>]
  /\ Publish(<<Event("PaneDestroyed")>>)
  /\ External /\ UNCHANGED <<shown, recordQ, wrote, ended>>

-----------------------------------------------------------------------------
(* session_prompt and run_turn.                                            *)

Settled == agent.pc \in {"ready", "gone"} /\ agent.inbox = <<>>

\* Subscribing precedes sending, so nothing of the prompt goes by unread.
Prompt ==
  /\ turn.pc = "none" /\ left.prompts > 0 /\ agent.pc # "gone"
  /\ Settled \/ Hasty
  /\ left' = [left EXCEPT !.prompts = @ - 1]
  /\ turn' = [NoTurn EXCEPT !.pc = "send", !.k = MaxPrompts - left.prompts + 1,
                            !.gated = backend = "codex" /\ pending]
  /\ pending' = FALSE
  /\ UNCHANGED <<backend, agentVars, queueVars, steer, given, reply>>

\* The daemon types the prompt.
PromptTyped ==
  /\ turn.pc = "send" /\ agent.k # turn.k /\ turn.k \notin Range(agent.inbox)
  /\ agent.pc # "gone"
  /\ agent' = [agent EXCEPT !.inbox = Append(@, turn.k)]
  /\ UNCHANGED <<backend, shown, wrote, ended, queueVars, turn, pending, steer, given, reply, left>>

\* send_prompt returns once the agent has taken the prompt.
PromptSent ==
  /\ turn.pc = "send" /\ agent.k = turn.k
  /\ turn' = [turn EXCEPT !.pc = "run", !.accepted = TRUE]
  /\ UNCHANGED <<backend, agentVars, queueVars, pending, steer, given, reply, left>>

ResultAlone(t, r) == [t EXCEPT !.pc = "over", !.result = r]

\* The result of run_turn; session_prompt marks the turn as done.
Result(t, r) == [t EXCEPT !.pc = "over", !.done = TRUE, !.result = r]
\* What was typed and not yet taken stays with the agent, or is cleared.
Unsent == IF Zombies THEN agent
          ELSE [agent EXCEPT !.inbox = <<>>]

SendFails ==
  /\ turn.pc = "send"
  /\ IF agent.pc = "gone" THEN UNCHANGED left ELSE Trouble
  /\ agent' = IF agent.k = turn.k THEN Interrupted ELSE Unsent
  /\ turn' = Result(turn, "error")
  /\ UNCHANGED <<backend, shown, wrote, ended, queueVars, pending, steer, given, reply>>

\* session/cancel
Cancel ==
  /\ turn.pc \in {"send", "run"} /\ ~turn.cancel /\ Trouble
  /\ turn' = [turn EXCEPT !.cancel = TRUE]
  /\ UNCHANGED <<backend, agentVars, queueVars, pending, steer, given, reply>>

\* The branch of the cancellation, or turn_timeout: the pane is interrupted.
Interrupts(r) ==
  /\ agent' = IF agent.k = turn.k THEN Interrupted ELSE Unsent
  /\ turn' = Result(turn, r)
  /\ UNCHANGED <<backend, shown, wrote, ended, queueVars, pending, steer, given, reply>>

TurnCancelled ==
  /\ turn.pc \in {"send", "run"} /\ turn.cancel
  /\ Interrupts("cancelled") /\ UNCHANGED left

TurnTimesOut ==
  /\ turn.pc \in {"send", "run"} /\ Trouble
  /\ Interrupts("error")

\* TurnTranscriptGate::accepts, emit_record_updates
Gated(t, r) ==
  IF r.kind = "user" /\ r.k = t.k THEN [t EXCEPT !.echoed = TRUE, !.buffer = <<>>]
  ELSE IF t.echoed /\ r.kind = "answer" THEN [t EXCEPT !.buffer = Append(@, r)] ELSE t
Heard(t, r) == IF t.gated THEN Gated(t, r) ELSE [t EXCEPT !.answer = @ \/ r.kind = "answer"]
Updates(rs) == given' = [given EXCEPT ![turn.k] = @ \o rs]

ReadRecord ==
  /\ turn.pc \in {"run", "drain"} /\ recordQ # <<>>
  /\ turn' = Heard(turn, Head(recordQ))
  /\ IF turn.gated \/ Head(recordQ).kind # "answer"
       THEN UNCHANGED given ELSE Updates(<<Head(recordQ)>>)
  /\ recordQ' = Tail(recordQ)
  /\ UNCHANGED <<backend, agentVars, stateQ, pending, steer, reply, left>>

ReadyCompletes == IF backend = "codex" THEN turn.answer ELSE turn.busy \/ turn.answer

\* The turn after an event of its state subscription.
Handled(e) ==
  CASE e.type = "busy" -> [turn EXCEPT !.busy = TRUE, !.retry = FALSE]
    [] e.type = "ready" -> IF ~turn.retry /\ ReadyCompletes THEN [turn EXCEPT !.pc = "drain"] ELSE turn
    [] e.type = "Stop" -> [turn EXCEPT !.pc = "drain"]
    [] e.type = "StopFailure" -> IF e.retry THEN [turn EXCEPT !.retry = TRUE] ELSE Result(turn, "failed")
    [] e.type = "PaneDestroyed" -> Result(turn, "ended")

ReadState ==
  /\ turn.pc = "run" /\ stateQ # <<>>
  /\ turn' = Handled(Head(stateQ))
  /\ stateQ' = Tail(stateQ)
  /\ UNCHANGED <<backend, agentVars, recordQ, pending, steer, given, reply, left>>

CompleteAtOnce ==
  /\ turn.pc = "drain"
  /\ Updates(turn.buffer)
  /\ turn' = Result(turn, "end_turn")
  /\ UNCHANGED <<backend, agentVars, queueVars, pending, steer, reply, left>>

\* complete_turn: the quiet window passed.
Complete ==
  /\ turn.pc = "drain" /\ recordQ = <<>> /\ agent.pc # "late"
  /\ Updates(turn.buffer)
  /\ turn' = Result(turn, "end_turn")
  /\ UNCHANGED <<backend, agentVars, queueVars, pending, steer, reply, left>>

ReleaseAtOnce ==
  /\ turn.pc = "over"
  /\ reply' = [reply EXCEPT ![turn.k] = Append(@, turn.result)]
  /\ pending' = (pending \/ (turn.gated /\ ~turn.accepted))
  /\ turn' = NoTurn /\ stateQ' = <<>> /\ recordQ' = <<>>
  /\ UNCHANGED <<backend, agentVars, steer, given, left>>

\* The steering permit is acquired, active_turn cleared, the request answered.
Release ==
  /\ turn.pc = "over" /\ steer.pc = "none"
  /\ reply' = [reply EXCEPT ![turn.k] = Append(@, turn.result)]
  /\ pending' = (pending \/ (turn.gated /\ ~turn.accepted))
  /\ turn' = NoTurn /\ stateQ' = <<>> /\ recordQ' = <<>>
  /\ UNCHANGED <<backend, agentVars, steer, given, left>>

-----------------------------------------------------------------------------
(* Steering: the text goes into the pane of the turn in flight.            *)

Steer ==
  /\ turn.pc # "none" /\ steer.pc = "none" /\ left.steers > 0
  /\ left' = [left EXCEPT !.steers = @ - 1]
  /\ steer' = [pc |-> "send", k |-> turn.k]
  /\ UNCHANGED <<backend, agentVars, queueVars, turn, pending, given, reply>>

\* The text joins what the agent does, or is left for later: then it is a
\* turn of its own.
SteerArrives ==
  /\ steer.pc = "send" /\ agent.pc # "gone"
  /\ agent.pc # "busy" => Zombies
  /\ agent' = IF agent.pc = "busy" THEN agent ELSE [agent EXCEPT !.inbox = Append(@, Nobody)]
  /\ \E confirmed \in BOOLEAN : steer' = [steer EXCEPT !.pc = IF confirmed THEN "none" ELSE "doubt"]
  /\ UNCHANGED <<backend, shown, wrote, ended, queueVars, turn, pending, given, reply, left>>

\* The send fails, or timed out in the daemon: then only the transcript may
\* confirm it.
SteerFails ==
  /\ steer.pc = "send"
  /\ \E doubt \in BOOLEAN : steer' = [steer EXCEPT !.pc = IF doubt THEN "doubt" ELSE "none"]
  /\ UNCHANGED <<backend, agentVars, queueVars, turn, pending, given, reply, left>>

SteerSeen ==
  /\ steer.pc = "doubt"
  /\ steer' = NoSteer
  /\ UNCHANGED <<backend, agentVars, queueVars, turn, pending, given, reply, left>>

\* done.cancelled: the turn is over.
SteerGivenUp ==
  /\ steer.pc # "none" /\ turn.done
  /\ steer' = NoSteer
  /\ UNCHANGED <<backend, agentVars, queueVars, turn, pending, given, reply, left>>

-----------------------------------------------------------------------------
Init ==
  /\ backend \in Backends
  /\ \E resumed \in BOOLEAN :
       /\ agent = [pc |-> "ready", k |-> 0, inbox |-> <<>>, started |-> FALSE, resumed |-> resumed,
                   answers |-> 0, tries |-> 0]
       /\ pending = (resumed /\ backend = "codex")
  /\ shown = "ready" /\ stateQ = <<>> /\ recordQ = <<>>
  /\ turn = NoTurn /\ steer = NoSteer
  /\ given = [k \in Prompts |-> <<>>] /\ reply = [k \in Prompts |-> <<>>]
  /\ wrote = [k \in Prompts |-> 0] /\ ended = [k \in Prompts |-> "none"]
  /\ \E b \in Bounds : left = [prompts |-> MaxPrompts, retries |-> b.retries,
                              steers |-> b.steers, troubles |-> b.troubles]

Agent == \/ AgentTakes \/ AgentAnswers \/ AgentStops \/ AgentWritesLate \/ AgentFails
         \/ AgentContinues \/ AgentStopsShort
Turn == PromptTyped \/ PromptSent \/ ReadRecord \/ ReadState \/ TurnCancelled \/ Complete \/ Release
Steering == SteerArrives \/ SteerFails \/ SteerGivenUp

Next == \/ Agent \/ UserInterrupts \/ PaneEnds \/ Prompt \/ Turn \/ SendFails \/ Cancel
        \/ TurnTimesOut \/ Steer \/ Steering \/ SteerSeen

Spec == Init /\ [][Next]_vars

\* The agent works on, tasks of the adapter run; neither a timeout nor the
\* text of a steering in the transcript is counted on.
Fairness == WF_vars(Agent) /\ WF_vars(Turn) /\ WF_vars(ReadState) /\ WF_vars(Steering)
            /\ WF_vars(SendFails /\ agent.pc = "gone")
FairSpec == Spec /\ Fairness

-----------------------------------------------------------------------------
StateEvent == [type : {"busy", "ready", "Stop", "StopFailure", "PaneDestroyed"}, retry : BOOLEAN]
TranscriptRecord == [kind : {"user", "answer"}, k : Int, n : Nat]
Outcome == {"end_turn", "cancelled", "error", "failed", "ended"}

TurnAgrees(t) ==
  /\ t.done = (t.pc = "over") /\ (t.pc = "over" => t.result # "none")
  /\ t.pc # "none" => t.k \in Prompts

TypeOK ==
  /\ backend \in Backends
  /\ agent \in [pc : {"ready", "busy", "late", "failed", "interrupted", "gone"}, k : Int,
                inbox : Seq(Int), started : BOOLEAN, resumed : BOOLEAN, answers : Nat, tries : Nat]
  /\ shown \in {"ready", "busy"}
  /\ stateQ \in Seq(StateEvent) /\ recordQ \in Seq(TranscriptRecord)
  /\ turn \in [pc : {"none", "send", "run", "drain", "over"}, k : {0} \cup Prompts,
               busy : BOOLEAN, answer : BOOLEAN, retry : BOOLEAN, cancel : BOOLEAN,
               done : BOOLEAN, accepted : BOOLEAN, gated : BOOLEAN, echoed : BOOLEAN,
               buffer : Seq(TranscriptRecord), result : {"none"} \cup Outcome]
  /\ TurnAgrees(turn)
  /\ pending \in BOOLEAN
  /\ steer \in [pc : {"none", "send", "doubt"}, k : {0} \cup Prompts]
  /\ given \in [Prompts -> Seq(TranscriptRecord)]
  /\ wrote \in [Prompts -> Nat]
  /\ ended \in [Prompts -> {"none", "ok", "failed", "interrupted"}]
  /\ reply \in [Prompts -> Seq(Outcome)]
  /\ left \in [prompts : 0..MaxPrompts, retries : Nat, steers : Nat, troubles : Nat]

\* state_ready_completes, the publication order of StopFailure: a turn is
\* answered as ended, or as failed, only when that is how the agent ended
\* it for good.
OutcomesAreTrue ==
  \A k \in Prompts :
    /\ "end_turn" \in Range(reply[k]) => ended[k] \in {"ok", "interrupted"}
    /\ "failed" \in Range(reply[k]) => ended[k] = "failed"

\* TurnTranscriptGate: the client gets, during a prompt, answers to that
\* prompt only: no replayed history, nothing of the turn before.
AnswersBelong == \A k \in Prompts : \A i \in DOMAIN given[k] : given[k][i].k = k

\* drain_transcript: a turn that ended normally has told the client every
\* answer, once and in order.
AnswersComplete ==
  \A k \in Prompts : reply[k] = <<"end_turn">> /\ ended[k] = "ok" =>
    [i \in DOMAIN given[k] |-> given[k][i].n] = [i \in 1..wrote[k] |-> i]

\* What the client was told during a prompt.
AnswersDelivered == AnswersBelong /\ AnswersComplete

\* turn_releases the permit: no steering text is on its way when the next
\* prompt starts.
SteersEndWithTurn == steer.pc # "none" => turn.k = steer.k

\* Every prompt is answered, once, even when turn_timeout never comes; only
\* a Codex turn that was interrupted may wait for it: no hook ends it, and its
\* ready does not count unless an answer was read before (adapter.rs:2172).
PromptsAnswered ==
  \A k \in Prompts :
    turn.k = k ~> Len(reply[k]) = 1 \/ (backend = "codex" /\ ended[k] = "interrupted")
=============================================================================
