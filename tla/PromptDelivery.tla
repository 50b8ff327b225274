--------------------------- MODULE PromptDelivery ---------------------------
(***************************************************************************)
(* How a prompt gets into the terminal of one Claude or Codex pane: the    *)
(* Send requests, the retries that answer a failed turn with "continue",   *)
(* a person at the terminal, and the hooks that tell slopd what the agent  *)
(* accepted.  All of them share one input box; only the clear-and-type of  *)
(* a Send holds the pane's type_mutex.                                     *)
(*                                                                         *)
(* The agent runs one turn at a time, waits for each hook to be answered,  *)
(* queues what is entered while it works, and may take an Enter for a      *)
(* newline.                                                                *)
(***************************************************************************)
EXTENDS Naturals, Sequences, FiniteSets

CONSTANTS
  Sender,       \* Send requests: each sends a prompt of its own
  Continue,     \* the prompt of a retry
  User,         \* what the person at the terminal types
  Nobody,       \* holds no lock
  Settles,      \* settle_before_enter: Codex and Grok
  MaxAttempts,  \* max_retry_attempts
  MaxFailures,  \* bound on failed turns, each with its retry task
  MaxQueue,     \* bound on what the agent queues
  MaxDraft,     \* bound on what the person leaves in the input box
  MayFail,      \* whether a Send may reach its deadline, or tmux refuse keys
  MaySwallow,   \* whether an Enter may be taken for a newline
  MayBeLate,    \* whether a hook may come after the ten seconds of a retry
  MayAsk,       \* whether the agent opens permission dialogs
  MayTakeOver   \* whether the person submits prompts that compete with others

ASSUME DeliveryAssumption ==
  /\ {Continue, User, Nobody} \cap Sender = {}
  /\ Continue # User /\ Continue # Nobody /\ User # Nobody
  /\ {Settles, MayFail, MaySwallow, MayBeLate, MayAsk, MayTakeOver}
       \subseteq BOOLEAN
  /\ {MaxAttempts, MaxFailures, MaxQueue, MaxDraft} \subseteq Nat
  /\ Sender \cap (1..MaxFailures) = {}

Retry == 1..MaxFailures

VARIABLES
  box,        \* the input box: the texts typed since it was empty
  inbox,      \* what was entered and waits for its turn
  turn,       \* the agent: idle, working, at a dialog, or in a hook
  running,    \* the text of the turn
  state,      \* detailed_state of the pane
  mutex,      \* the holder of type_mutex
  pc,         \* where each Send stands
  reply,      \* its latest answer
  task,       \* where each retry task stands
  retry,      \* retry_state: attempt_count, and the task for next_send_at
  expecting,  \* expecting_auto_continue
  heard,      \* who prompt_submitted has woken
  landed,     \* Sends whose prompt was entered, alone
  overtaken,  \* retries that had typed nothing when another prompt started
  streak,     \* turns of "continue" since the last success or other prompt
  meddled     \* whether a Send or a retry pressed Enter on a dialog

agentVars == <<box, inbox, turn, running>>
sendVars == <<mutex, pc, reply>>
retryVars == <<task, retry, expecting>>
pastVars == <<landed, overtaken, streak, meddled>>
vars == <<agentVars, state, sendVars, retryVars, heard, pastVars>>

NoRetry == [attempt |-> 0, at |-> 0]

Init ==
  /\ box = <<>>
  /\ inbox = <<>>
  /\ turn = "boot"
  /\ running = <<>>
  /\ state = "booting"
  /\ mutex = Nobody
  /\ pc = [s \in Sender |-> "idle"]
  /\ reply = [s \in Sender |-> "none"]
  /\ task = [i \in Retry |-> "none"]
  /\ retry = NoRetry
  /\ expecting = FALSE
  /\ heard = {}
  /\ landed = {}
  /\ overtaken = {}
  /\ streak = 0
  /\ meddled = FALSE

-----------------------------------------------------------------------------
(* The keys, as the agent's terminal takes them.                           *)

Dialog == turn = "dialog"

(* C-u empties the box, literal keys and pastes add to it; a dialog takes  *)
(* neither.                                                                *)
ClearBox == box' = IF Dialog THEN box ELSE <<>>
TypeText(text) == box' = IF Dialog THEN box ELSE Append(box, text)

EnterAccepted ==
  /\ ~Dialog
  /\ box # <<>>
  /\ Len(inbox) < MaxQueue
  /\ inbox' = Append(inbox, box)
  /\ box' = <<>>
  /\ landed' = landed \cup {s \in Sender : box = <<s>>}
  /\ UNCHANGED turn

EnterIgnored ==
  /\ ~Dialog
  /\ MaySwallow \/ box = <<>> \/ Len(inbox) = MaxQueue
  /\ UNCHANGED <<inbox, box, landed, turn>>

EnterAnswers ==
  /\ Dialog
  /\ turn' = "answered"
  /\ UNCHANGED <<inbox, box, landed>>

PressEnter == EnterAccepted \/ EnterIgnored \/ EnterAnswers

(* Escape ends the turn, and no hook tells.                                *)
PressEscape ==
  IF turn \in {"work", "dialog"} THEN turn' = "idle" ELSE UNCHANGED turn

-----------------------------------------------------------------------------
(* The Send request.                                                       *)

Go(s, step) == pc' = [pc EXCEPT ![s] = step]

Answer(s, r) == Go(s, "idle") /\ reply' = [reply EXCEPT ![s] = r]

Send(s, interrupt) ==
  /\ pc[s] = "idle"
  /\ Go(s, IF interrupt THEN "escape" ELSE "check")
  /\ reply' = [reply EXCEPT ![s] = "none"]
  /\ landed' = landed \ {s}
  /\ heard' = heard \ {s}
  /\ UNCHANGED <<agentVars, state, mutex, retryVars, overtaken, streak, meddled>>

Escape(s) ==
  /\ pc[s] = "escape"
  /\ mutex = Nobody
  /\ PressEscape
  /\ Go(s, "check")
  /\ UNCHANGED <<box, inbox, running, state, mutex, reply, retryVars, heard,
                 pastVars>>

Sendable(s) ==
  /\ pc[s] = "check"
  /\ state \notin {"booting", "awaiting"}
  /\ Go(s, "lock")
  /\ UNCHANGED <<agentVars, state, mutex, reply, retryVars, heard, pastVars>>

Refused(s) ==
  /\ pc[s] = "check"
  /\ state = "awaiting"
  /\ Answer(s, "error")
  /\ UNCHANGED <<agentVars, state, mutex, retryVars, heard, pastVars>>

NeverReady(s) ==
  /\ MayFail
  /\ pc[s] = "check"
  /\ state = "booting"
  /\ Answer(s, "error")
  /\ UNCHANGED <<agentVars, state, mutex, retryVars, heard, pastVars>>

ClearUnlocked(s) ==
  /\ pc[s] = "lock"
  /\ ClearBox
  /\ Go(s, "type")
  /\ UNCHANGED <<inbox, turn, running, state, mutex, reply, retryVars, heard,
                 pastVars>>

Clear(s) ==
  /\ pc[s] = "lock"
  /\ mutex = Nobody
  /\ mutex' = s
  /\ ClearBox
  /\ Go(s, "type")
  /\ UNCHANGED <<inbox, turn, running, state, reply, retryVars, heard, pastVars>>

Type(s) ==
  /\ pc[s] = "type"
  /\ TypeText(s)
  /\ mutex' = Nobody
  /\ Go(s, "arm")
  /\ UNCHANGED <<inbox, turn, running, state, reply, retryVars, heard, pastVars>>

(* A new waiter on prompt_submitted for each Enter.                        *)
Arm(s) ==
  /\ pc[s] = "arm"
  /\ heard' = heard \ {s}
  /\ Go(s, "enter")
  /\ UNCHANGED <<agentVars, state, mutex, reply, retryVars, pastVars>>

Enter(s) ==
  /\ pc[s] = "enter"
  /\ PressEnter
  /\ meddled' = (meddled \/ Dialog)
  /\ Go(s, "wait")
  /\ UNCHANGED <<running, state, mutex, reply, retryVars, heard, overtaken,
                 streak>>

Sent(s) ==
  /\ pc[s] = "wait"
  /\ s \in heard
  /\ Answer(s, "sent")
  /\ UNCHANGED <<agentVars, state, mutex, retryVars, heard, pastVars>>

Again(s) ==
  /\ pc[s] = "wait"
  /\ s \notin heard
  /\ Go(s, "arm")
  /\ UNCHANGED <<agentVars, state, mutex, reply, retryVars, heard, pastVars>>

TimedOutRestarts(s) ==
  /\ MayFail
  /\ pc[s] = "wait"
  /\ Go(s, "arm")
  /\ UNCHANGED <<agentVars, state, mutex, reply, retryVars, heard, pastVars>>

TimedOut(s) ==
  /\ MayFail
  /\ pc[s] = "wait"
  /\ Answer(s, "error")
  /\ UNCHANGED <<agentVars, state, mutex, retryVars, heard, pastVars>>

(* tmux does not take the keys.                                            *)
KeysFail(s) ==
  /\ MayFail
  /\ pc[s] \in {"escape", "lock", "type", "enter"}
  /\ mutex \in {Nobody, s} \/ pc[s] = "enter"
  /\ mutex' = IF mutex = s THEN Nobody ELSE mutex
  /\ Answer(s, "error")
  /\ UNCHANGED <<agentVars, state, retryVars, heard, pastVars>>

-----------------------------------------------------------------------------
(* schedule_auto_continue and submit_auto_continue.                        *)

(* The retry for the next failure, unless the attempts are used up.        *)
Schedule ==
  LET i == Cardinality({j \in Retry : task[j] # "none"}) + 1 IN
  /\ i \in Retry
  /\ IF retry.attempt + 1 > MaxAttempts
       THEN retry' = NoRetry /\ task' = [task EXCEPT ![i] = "done"]
       ELSE /\ retry' = [attempt |-> retry.attempt + 1, at |-> i]
            /\ task' = [task EXCEPT ![i] = "sleep"]

Wake(i) ==
  /\ task[i] = "sleep"
  /\ IF retry.at = i
       THEN /\ expecting' = TRUE
            /\ task' = [task EXCEPT ![i] = IF Settles THEN "clear" ELSE "type"]
       ELSE task' = [task EXCEPT ![i] = "done"] /\ UNCHANGED expecting
  /\ UNCHANGED <<agentVars, state, sendVars, retry, heard, pastVars>>

RetryClear(i) ==
  /\ task[i] = "clear"
  /\ ClearBox
  /\ task' = [task EXCEPT ![i] = "type"]
  /\ UNCHANGED <<inbox, turn, running, state, sendVars, retry, expecting, heard,
                 pastVars>>

RetryType(i) ==
  /\ task[i] = "type"
  /\ TypeText(Continue)
  /\ task' = [task EXCEPT ![i] = "enter"]
  /\ UNCHANGED <<inbox, turn, running, state, sendVars, retry, expecting, heard,
                 pastVars>>

RetryEnter(i) ==
  /\ task[i] = "enter"
  /\ PressEnter
  /\ meddled' = (meddled \/ Dialog)
  /\ task' = [task EXCEPT ![i] = "wait"]
  /\ UNCHANGED <<running, state, sendVars, retry, expecting, heard, overtaken,
                 streak>>

Retried(i) ==
  /\ task[i] = "wait"
  /\ i \in heard
  /\ task' = [task EXCEPT ![i] = "done"]
  /\ UNCHANGED <<agentVars, state, sendVars, retry, expecting, heard, pastVars>>

(* tmux does not take the keys, or no submission in ten seconds.           *)
RetryFails(i) ==
  /\ task[i] \in {"clear", "type", "enter", "wait"}
  /\ task[i] = "wait" =>
       /\ i \notin heard
       /\ MayBeLate \/ (inbox = <<>> /\ turn # "submit")
  /\ task' = [task EXCEPT ![i] = "done"]
  /\ expecting' = FALSE
  /\ retry' = NoRetry
  /\ UNCHANGED <<agentVars, state, sendVars, heard, pastVars>>

-----------------------------------------------------------------------------
(* The agent, and the Hook request that each of its events makes.          *)

Boot ==
  /\ turn = "boot"
  /\ turn' = "idle"
  /\ state' = "ready"
  /\ UNCHANGED <<box, inbox, running, sendVars, retryVars, heard, pastVars>>

StartTurn ==
  /\ turn = "idle"
  /\ inbox # <<>>
  /\ turn' = "submit"
  /\ running' = Head(inbox)
  /\ inbox' = Tail(inbox)
  /\ UNCHANGED <<box, state, sendVars, retryVars, heard, pastVars>>

Waiting ==
  {s \in Sender : pc[s] \in {"enter", "wait"}}
    \cup {i \in Retry : task[i] \in {"clear", "type", "enter", "wait"}}

Untyped == {i \in Retry : task[i] \in {"sleep", "clear", "type"}}

(* What a started turn says of the prompts before it.                      *)
Overtake ==
  IF running = <<Continue>>
    THEN streak' = streak + 1 /\ UNCHANGED overtaken
    ELSE streak' = 0 /\ overtaken' = overtaken \cup Untyped

HookUserPromptSubmitResets ==
  /\ turn = "submit"
  /\ turn' = "work"
  /\ state' = "busy"
  /\ heard' = heard \cup Waiting
  /\ expecting' = FALSE
  /\ retry' = NoRetry
  /\ Overtake
  /\ UNCHANGED <<box, inbox, running, sendVars, task, landed, meddled>>

HookUserPromptSubmit ==
  /\ turn = "submit"
  /\ turn' = "work"
  /\ state' = "busy"
  /\ heard' = heard \cup Waiting
  /\ expecting' = FALSE
  /\ retry' = IF expecting THEN retry ELSE NoRetry
  /\ Overtake
  /\ UNCHANGED <<box, inbox, running, sendVars, task, landed, meddled>>

HookStop ==
  /\ turn = "work"
  /\ turn' = "idle"
  /\ state' = "ready"
  /\ retry' = NoRetry
  /\ streak' = 0
  /\ UNCHANGED <<box, inbox, running, sendVars, task, expecting, heard, landed,
                 overtaken, meddled>>

HookStopFailure ==
  /\ turn = "work"
  /\ turn' = "idle"
  /\ state' = "ready"
  /\ Schedule
  /\ UNCHANGED <<box, inbox, running, sendVars, expecting, heard, pastVars>>

HookPermissionRequest ==
  /\ MayAsk
  /\ turn = "work"
  /\ turn' = "dialog"
  /\ state' = "awaiting"
  /\ UNCHANGED <<box, inbox, running, sendVars, retryVars, heard, pastVars>>

HookPostToolUse ==
  /\ turn = "answered"
  /\ turn' = "work"
  /\ state' = "busy"
  /\ UNCHANGED <<box, inbox, running, sendVars, retryVars, heard, pastVars>>

(* The transcript record of an interrupted dialog, or the idle_prompt      *)
(* notification.                                                           *)
NoticeIdle ==
  /\ turn = "idle"
  /\ state \in {"busy", "awaiting"}
  /\ state' = "ready"
  /\ UNCHANGED <<agentVars, sendVars, retryVars, heard, pastVars>>

(* The person at the terminal.                                             *)
UserTypes ==
  /\ turn # "boot"
  /\ Len(box) < MaxDraft
  /\ TypeText(User)
  /\ UNCHANGED <<inbox, turn, running, state, sendVars, retryVars, heard, pastVars>>

(* No turn and no retry is under way.                                      *)
Calm ==
  /\ turn = "idle"
  /\ inbox = <<>>
  /\ \A i \in Retry : task[i] \in {"none", "done"}

(* What is entered by hand is theirs, whatever was in the box.             *)
UserEnters ==
  /\ turn # "boot"
  /\ MaxDraft > 0
  /\ ~Dialog
  /\ MayTakeOver \/ Calm
  /\ Len(inbox) < MaxQueue
  /\ inbox' = Append(inbox, Append(box, User))
  /\ box' = <<>>
  /\ UNCHANGED <<turn, running, state, sendVars, retryVars, heard, pastVars>>

UserAnswers ==
  /\ EnterAnswers
  /\ UNCHANGED <<running, state, sendVars, retryVars, heard, overtaken, streak,
                 meddled>>

-----------------------------------------------------------------------------
SendStep(s) ==
  \/ Escape(s) \/ Sendable(s) \/ Refused(s) \/ NeverReady(s)
  \/ Clear(s) \/ Type(s) \/ Arm(s) \/ Enter(s)
  \/ Sent(s) \/ Again(s) \/ TimedOut(s)

RetryStep(i) ==
  Wake(i) \/ RetryClear(i) \/ RetryType(i) \/ RetryEnter(i) \/ Retried(i) \/ RetryFails(i)

Hook ==
  \/ Boot \/ HookUserPromptSubmit \/ HookStop \/ HookStopFailure
  \/ HookPermissionRequest \/ HookPostToolUse \/ NoticeIdle

Next ==
  \/ \E s \in Sender : SendStep(s) \/ KeysFail(s)
  \/ \E s \in Sender, interrupt \in BOOLEAN : Send(s, interrupt)
  \/ \E i \in Retry : RetryStep(i)
  \/ Hook \/ StartTurn \/ UserTypes \/ UserEnters \/ UserAnswers

Spec == Init /\ [][Next]_vars

(* A Send goes on while it can, and its deadline comes.  Nothing is        *)
(* assumed of the agent, which may never boot and never accept a prompt.   *)
Deadline(s) == NeverReady(s) \/ TimedOut(s)

FairSpec ==
  Spec /\ \A s \in Sender :
            /\ WF_vars(SendStep(s))
            /\ SF_vars(Escape(s)) /\ SF_vars(Clear(s)) /\ SF_vars(Deadline(s))

-----------------------------------------------------------------------------
(* Properties.                                                             *)

(* The types, and that the lock is held exactly by a Send that has cleared *)
(* the box and not typed yet.                                              *)
TypeOK ==
  /\ box \in Seq(Sender \cup {Continue, User})
  /\ inbox \in Seq(Seq(Sender \cup {Continue, User}))
  /\ turn \in {"boot", "idle", "submit", "work", "dialog", "answered"}
  /\ running \in Seq(Sender \cup {Continue, User})
  /\ state \in {"booting", "ready", "busy", "awaiting"}
  /\ pc \in [Sender -> {"idle", "escape", "check", "lock", "type", "arm", "enter", "wait"}]
  /\ \A s \in Sender : mutex = s <=> pc[s] = "type"
  /\ mutex \in Sender \cup {Nobody}
  /\ reply \in [Sender -> {"none", "sent", "error"}]
  /\ task \in [Retry -> {"none", "sleep", "clear", "type", "enter", "wait", "done"}]
  /\ retry \in [attempt : 0..MaxAttempts, at : {0} \cup Retry]
  /\ expecting \in BOOLEAN
  /\ heard \subseteq Sender \cup Retry
  /\ landed \subseteq Sender
  /\ overtaken \subseteq Retry
  /\ streak \in Nat
  /\ meddled \in BOOLEAN

(* Concurrent Sends do not interleave their keys: with nobody else at the  *)
(* input box, a Send's prompt reaches the agent as it is, and not run      *)
(* together with another's or behind a leftover.                           *)
SubmittedVerbatim ==
  \A text \in {running} \cup {inbox[k] : k \in 1..Len(inbox)} :
    \A i \in 1..Len(text) : text[i] \in Sender => Len(text) = 1

(* "send confirms prompt submission": a Send that answers Sent has had its *)
(* prompt entered.                                                         *)
SentWasSubmitted == \A s \in Sender : reply[s] = "sent" => s \in landed

(* "max_retry_attempts consecutive failures are reached: slopd gives up":  *)
(* when nobody takes over, no more than that many turns of "continue" run  *)
(* between two prompts of others or successes.  It depends on telling the  *)
(* hook of a retry, which keeps the attempts, from that of a new prompt.   *)
RetriesBounded == streak <= MaxAttempts

(* Every Send is answered, although the agent may never boot, never take   *)
(* the prompt and stay at a dialog, and although other Sends keep coming.  *)
SendsAreAnswered == \A s \in Sender : pc[s] # "idle" ~> pc[s] = "idle"

=============================================================================
