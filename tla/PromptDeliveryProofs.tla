------------------------ MODULE PromptDeliveryProofs ------------------------
(***************************************************************************)
(* For any number of concurrent Sends: type_mutex is held exactly between  *)
(* the clear and the typing of a Send, and, with nobody else at the input  *)
(* box, what the agent is given is one prompt at a time.  For any number   *)
(* of failures: the retries of failed turns stop at the limit.             *)
(***************************************************************************)
EXTENDS PromptDelivery, FiniteSetTheorems, SequenceTheorems, TLAPS

LEMMA Constants ==
  /\ Nobody \notin Sender
  /\ Continue # User
  /\ MaxAttempts \in Nat
  /\ MaxFailures \in Nat
  /\ Settles \in BOOLEAN
BY DeliveryAssumption DEF DeliveryAssumption

-----------------------------------------------------------------------------
(* Type correctness.                                                       *)

LEMMA NoRetryType == NoRetry \in [attempt : 0..MaxAttempts, at : {0} \cup Retry]
BY Constants DEF NoRetry

(* What an Enter leaves: the box empty or as it was.                       *)
LEMMA EnterType ==
  ASSUME TypeOK, PressEnter
  PROVE  /\ box' \in Seq(Sender \cup {Continue, User})
         /\ inbox' \in Seq(Seq(Sender \cup {Continue, User}))
         /\ turn' \in {turn, "answered"}
         /\ landed' \subseteq Sender
<1> USE DEF TypeOK
<1>1. CASE EnterAccepted
  BY <1>1 DEF EnterAccepted
<1>2. CASE EnterIgnored
  BY <1>2 DEF EnterIgnored
<1>3. CASE EnterAnswers
  BY <1>3 DEF EnterAnswers
<1> QED
  BY <1>1, <1>2, <1>3 DEF PressEnter

LEMMA TypeInit == Init => TypeOK
<1> SUFFICES ASSUME Init PROVE TypeOK
  OBVIOUS
<1>1. retry \in [attempt : 0..MaxAttempts, at : {0} \cup Retry]
  BY NoRetryType DEF Init
<1>2. \A s \in Sender : mutex = s <=> pc[s] = "type"
  BY Constants DEF Init
<1>3. /\ box \in Seq(Sender \cup {Continue, User})
      /\ inbox \in Seq(Seq(Sender \cup {Continue, User}))
      /\ running \in Seq(Sender \cup {Continue, User})
  BY DEF Init
<1>4. /\ pc \in [Sender -> {"idle", "escape", "check", "lock", "type", "arm", "enter", "wait"}]
      /\ reply \in [Sender -> {"none", "sent", "error"}]
      /\ task \in [Retry -> {"none", "sleep", "clear", "type", "enter", "wait", "done"}]
  BY DEF Init
<1> QED
  BY <1>1, <1>2, <1>3, <1>4 DEF Init, TypeOK

(* A Send's own steps keep the types and the lock.                         *)
LEMMA TypeSend ==
  ASSUME TypeOK,
         NEW s \in Sender,
         SendStep(s) \/ KeysFail(s) \/ \E i \in BOOLEAN : Send(s, i)
  PROVE  TypeOK'
<1> USE Constants DEF TypeOK
<1>1. CASE \E i \in BOOLEAN : Send(s, i)
  BY <1>1 DEF Send, Go, agentVars, retryVars
<1>2. CASE Escape(s)
  BY <1>2 DEF Escape, PressEscape, Go, retryVars, pastVars
<1>3. CASE Sendable(s)
  BY <1>3 DEF Sendable, Go, agentVars, retryVars, pastVars
<1>4. CASE Refused(s) \/ NeverReady(s) \/ Sent(s) \/ TimedOut(s)
  <2>1. CASE Refused(s)
    BY <2>1 DEF Refused, Answer, Go, agentVars, retryVars, pastVars
  <2>2. CASE NeverReady(s)
    BY <2>2 DEF NeverReady, Answer, Go, agentVars, retryVars, pastVars
  <2>3. CASE Sent(s)
    BY <2>3 DEF Sent, Answer, Go, agentVars, retryVars, pastVars
  <2>4. CASE TimedOut(s)
    BY <2>4 DEF TimedOut, Answer, Go, agentVars, retryVars, pastVars
  <2> QED
    BY <1>4, <2>1, <2>2, <2>3, <2>4
<1>5. CASE Clear(s)
  BY <1>5 DEF Clear, ClearBox, Go, retryVars, pastVars
<1>6. CASE Type(s)
  BY <1>6 DEF Type, TypeText, Go, retryVars, pastVars
<1>7. CASE Arm(s) \/ Again(s)
  BY <1>7 DEF Arm, Again, Go, agentVars, retryVars, pastVars
<1>8. CASE Enter(s)
  BY <1>8, EnterType DEF Enter, Dialog, Go, retryVars
<1>9. CASE KeysFail(s)
  BY <1>9 DEF KeysFail, Answer, Go, agentVars, retryVars, pastVars
<1> QED
  BY <1>1, <1>2, <1>3, <1>4, <1>5, <1>6, <1>7, <1>8, <1>9 DEF SendStep

(* So do the steps of a retry task.                                        *)
LEMMA TypeRetry ==
  ASSUME TypeOK, NEW i \in Retry, RetryStep(i)
  PROVE  TypeOK'
<1> USE Constants DEF TypeOK
<1>1. CASE Wake(i)
  BY <1>1 DEF Wake, agentVars, sendVars, pastVars
<1>2. CASE RetryClear(i)
  BY <1>2 DEF RetryClear, ClearBox, sendVars, pastVars
<1>3. CASE RetryType(i)
  BY <1>3 DEF RetryType, TypeText, sendVars, pastVars
<1>4. CASE RetryEnter(i)
  BY <1>4, EnterType DEF RetryEnter, Dialog, sendVars
<1>5. CASE Retried(i)
  BY <1>5 DEF Retried, agentVars, sendVars, pastVars
<1>6. CASE RetryFails(i)
  BY <1>6, NoRetryType DEF RetryFails, agentVars, sendVars, pastVars
<1> QED
  BY <1>1, <1>2, <1>3, <1>4, <1>5, <1>6 DEF RetryStep

(* So do the hooks, the agent and the person at the terminal.              *)
LEMMA TypeAgent ==
  ASSUME TypeOK, Hook \/ StartTurn \/ UserTypes \/ UserEnters \/ UserAnswers
  PROVE  TypeOK'
<1> USE Constants DEF TypeOK
<1>1. CASE Boot
  BY <1>1 DEF Boot, sendVars, retryVars, pastVars
<1>2. CASE StartTurn
  BY <1>2 DEF StartTurn, sendVars, retryVars, pastVars
<1>3. CASE HookUserPromptSubmit
  <2>1. retry' \in [attempt : 0..MaxAttempts, at : {0} \cup Retry]
    BY <1>3, NoRetryType DEF HookUserPromptSubmit
  <2>2. heard' \subseteq Sender \cup Retry
    BY <1>3 DEF HookUserPromptSubmit, Waiting
  <2>3. streak' \in Nat /\ overtaken' \subseteq Retry
    BY <1>3 DEF HookUserPromptSubmit, Overtake, Untyped
  <2> QED
    BY <1>3, <2>1, <2>2, <2>3 DEF HookUserPromptSubmit, sendVars
<1>4. CASE HookStop
  BY <1>4, NoRetryType DEF HookStop, sendVars
<1>5. CASE HookStopFailure
  <2> DEFINE i == Cardinality({j \in Retry : task[j] # "none"}) + 1
  <2>1. /\ i \in Retry
        /\ IF retry.attempt + 1 > MaxAttempts
             THEN retry' = NoRetry /\ task' = [task EXCEPT ![i] = "done"]
             ELSE /\ retry' = [attempt |-> retry.attempt + 1, at |-> i]
                  /\ task' = [task EXCEPT ![i] = "sleep"]
    BY <1>5 DEF HookStopFailure, Schedule
  <2> HIDE DEF i
  <2>2. retry' \in [attempt : 0..MaxAttempts, at : {0} \cup Retry]
    BY <2>1, NoRetryType
  <2>3. task' \in [Retry -> {"none", "sleep", "clear", "type", "enter", "wait", "done"}]
    BY <2>1
  <2> QED
    BY <1>5, <2>2, <2>3 DEF HookStopFailure, sendVars, pastVars
<1>6. CASE HookPermissionRequest \/ HookPostToolUse
  BY <1>6 DEF HookPermissionRequest, HookPostToolUse, sendVars, retryVars, pastVars
<1>7. CASE NoticeIdle
  BY <1>7 DEF NoticeIdle, agentVars, sendVars, retryVars, pastVars
<1>8. CASE UserTypes
  BY <1>8 DEF UserTypes, TypeText, sendVars, retryVars, pastVars
<1>9. CASE UserEnters
  BY <1>9 DEF UserEnters, sendVars, retryVars, pastVars
<1>10. CASE UserAnswers
  BY <1>10 DEF UserAnswers, EnterAnswers, sendVars, retryVars
<1> QED
  BY <1>1, <1>2, <1>3, <1>4, <1>5, <1>6, <1>7, <1>8, <1>9, <1>10 DEF Hook

LEMMA TypeStep == TypeOK /\ [Next]_vars => TypeOK'
<1> SUFFICES ASSUME TypeOK, [Next]_vars PROVE TypeOK'
  OBVIOUS
<1>1. CASE UNCHANGED vars
  BY <1>1 DEF TypeOK, vars, agentVars, sendVars, retryVars, pastVars
<1>2. CASE Next
  BY <1>2, TypeSend, TypeRetry, TypeAgent DEF Next
<1> QED
  BY <1>1, <1>2

(* The types of the delivery, and that the holder of type_mutex is the one *)
(* Send between its clear and its typing, whatever fails.                  *)
THEOREM TypeCorrect == Spec => []TypeOK
BY TypeInit, TypeStep, PTL DEF Spec

-----------------------------------------------------------------------------
(* Prompts are submitted verbatim.                                         *)

(* Nobody but the Sends types, and the agent opens no dialog.              *)
SendsOnly == MaxFailures = 0 /\ MaxDraft = 0 /\ MayAsk = FALSE

(* What the agent has taken is one text.                                   *)
TakenAlone ==
  Len(running) <= 1 /\ \A k \in 1..Len(inbox) : Len(inbox[k]) <= 1

(* The box of a Send that has cleared it stays empty until it types.       *)
VerbatimInv ==
  /\ TypeOK
  /\ turn \notin {"dialog", "answered"}
  /\ Len(box) <= 1
  /\ \A s \in Sender : pc[s] = "type" => box = <<>>
  /\ TakenAlone

LEMMA VerbatimInit == Init => VerbatimInv
BY TypeInit DEF Init, VerbatimInv, TakenAlone

(* The steps of a Send: only the holder of the lock fills the box.         *)
LEMMA VerbatimSend ==
  ASSUME VerbatimInv, TypeOK',
         NEW s \in Sender,
         SendStep(s) \/ KeysFail(s) \/ \E i \in BOOLEAN : Send(s, i)
  PROVE  VerbatimInv'
<1> USE Constants DEF VerbatimInv, TypeOK, TakenAlone
<1>1. CASE \E i \in BOOLEAN : Send(s, i)
  BY <1>1 DEF Send, Go, agentVars, retryVars
<1>2. CASE Escape(s)
  BY <1>2 DEF Escape, PressEscape, Go, retryVars, pastVars
<1>3. CASE Sendable(s)
  BY <1>3 DEF Sendable, Go, agentVars, retryVars, pastVars
<1>4. CASE Refused(s) \/ NeverReady(s) \/ Sent(s) \/ TimedOut(s)
  <2>1. CASE Refused(s)
    BY <2>1 DEF Refused, Answer, Go, agentVars, retryVars, pastVars
  <2>2. CASE NeverReady(s)
    BY <2>2 DEF NeverReady, Answer, Go, agentVars, retryVars, pastVars
  <2>3. CASE Sent(s)
    BY <2>3 DEF Sent, Answer, Go, agentVars, retryVars, pastVars
  <2>4. CASE TimedOut(s)
    BY <2>4 DEF TimedOut, Answer, Go, agentVars, retryVars, pastVars
  <2> QED
    BY <1>4, <2>1, <2>2, <2>3, <2>4
<1>5. CASE Clear(s)
  BY <1>5 DEF Clear, ClearBox, Dialog, Go, retryVars, pastVars
<1>6. CASE Type(s)
  BY <1>6 DEF Type, TypeText, Dialog, Go, retryVars, pastVars
<1>7. CASE Arm(s) \/ Again(s)
  BY <1>7 DEF Arm, Again, Go, agentVars, retryVars, pastVars
<1>8. CASE Enter(s)
  <2>1. UNCHANGED <<turn, running>> /\ \A t \in Sender : pc'[t] = "type" => pc[t] = "type"
    BY <1>8 DEF Enter, PressEnter, EnterAccepted, EnterIgnored, EnterAnswers, Dialog, Go
  <2>2. CASE EnterAccepted
    <3>1. Len(box') <= 1 /\ \A t \in Sender : pc'[t] = "type" => box' = <<>>
      BY <2>2 DEF EnterAccepted
    <3>2. inbox' = Append(inbox, box) /\ box \in Seq(Sender \cup {Continue, User})
      BY <2>2 DEF EnterAccepted
    <3>3. \A k \in 1..Len(inbox') : inbox'[k] = box \/ \E j \in 1..Len(inbox) : inbox'[k] = inbox[j]
      BY <3>2
    <3>4. \A k \in 1..Len(inbox) : Len(inbox[k]) <= 1
      OBVIOUS
    <3>5. ASSUME NEW k \in 1..Len(inbox') PROVE Len(inbox'[k]) <= 1
      <4>1. CASE inbox'[k] = box
        <5>1. Len(box) <= 1
          OBVIOUS
        <5> QED
          BY ONLY <4>1, <5>1
      <4>2. CASE \E j \in 1..Len(inbox) : inbox'[k] = inbox[j]
        <5>1. PICK j \in 1..Len(inbox) : inbox'[k] = inbox[j]
          BY ONLY <4>2
        <5>2. Len(inbox[j]) <= 1
          BY ONLY <3>4, <5>1
        <5> QED
          BY ONLY <5>1, <5>2
      <4> QED
        BY ONLY <3>3, <4>1, <4>2
    <3>6. Len(running') <= 1
      BY <2>1
    <3> QED
      BY <2>1, <3>1, <3>5, <3>6
  <2>3. CASE EnterIgnored
    BY <2>1, <2>3 DEF EnterIgnored
  <2> QED
    BY <1>8, <2>2, <2>3 DEF Enter, PressEnter, EnterAnswers, Dialog
<1>9. CASE KeysFail(s)
  BY <1>9 DEF KeysFail, Answer, Go, agentVars, retryVars, pastVars
<1> QED
  BY <1>1, <1>2, <1>3, <1>4, <1>5, <1>6, <1>7, <1>8, <1>9 DEF SendStep

(* Nobody else touches the box.                                            *)
LEMMA VerbatimAgent ==
  ASSUME SendsOnly, VerbatimInv, TypeOK',
         Hook \/ StartTurn \/ UserTypes \/ UserEnters \/ UserAnswers
  PROVE  VerbatimInv'
<1> USE Constants DEF VerbatimInv, TypeOK, TakenAlone
<1>1. CASE StartTurn
  <2>1. /\ running' = inbox[1]
        /\ \A k \in 1..Len(inbox') : k + 1 \in 1..Len(inbox) /\ inbox'[k] = inbox[k + 1]
        /\ 1 \in 1..Len(inbox)
    BY <1>1 DEF StartTurn
  <2>2. TakenAlone
    OBVIOUS
  <2> HIDE DEF TypeOK, VerbatimInv
  <2>3. Len(running') <= 1
    BY <2>1, <2>2
  <2>4. ASSUME NEW k \in 1..Len(inbox') PROVE Len(inbox'[k]) <= 1
    <3>1. k + 1 \in 1..Len(inbox) /\ inbox'[k] = inbox[k + 1]
      BY <2>1, <2>4
    <3> QED
      BY <2>2, <3>1
  <2>5. TakenAlone'
    BY <2>3, <2>4
  <2> HIDE DEF TakenAlone
  <2> QED
    BY <1>1, <2>5 DEF StartTurn, sendVars, VerbatimInv
<1>2. CASE Boot \/ NoticeIdle
  <2>1. CASE Boot
    BY <2>1 DEF Boot, agentVars, sendVars, retryVars, pastVars
  <2>2. CASE NoticeIdle
    BY <2>2 DEF NoticeIdle, agentVars, sendVars, retryVars, pastVars
  <2> QED
    BY <1>2, <2>1, <2>2
<1>3. CASE HookUserPromptSubmit
  <2>1. UNCHANGED <<box, inbox, running, pc>> /\ turn' = "work"
    BY <1>3 DEF HookUserPromptSubmit, sendVars
  <2> QED
    BY <2>1
<1>4. CASE HookStop \/ HookStopFailure
  BY <1>4 DEF HookStop, HookStopFailure, sendVars, pastVars
<1>5. ~(HookPermissionRequest \/ HookPostToolUse)
  BY DEF SendsOnly, HookPermissionRequest, HookPostToolUse
<1>6. ~(UserTypes \/ UserEnters \/ UserAnswers)
  BY DEF SendsOnly, UserTypes, UserEnters, UserAnswers, EnterAnswers, Dialog
<1> QED
  BY <1>1, <1>2, <1>3, <1>4, <1>5, <1>6 DEF Hook

LEMMA VerbatimStep ==
  ASSUME SendsOnly
  PROVE  VerbatimInv /\ [Next]_vars => VerbatimInv'
<1> SUFFICES ASSUME VerbatimInv, [Next]_vars PROVE VerbatimInv'
  OBVIOUS
<1>1. TypeOK'
  BY TypeStep DEF VerbatimInv
<1>2. CASE UNCHANGED vars
  BY <1>2 DEF VerbatimInv, TypeOK, TakenAlone, vars, agentVars, sendVars, retryVars,
              pastVars
<1>3. CASE Next
  <2>1. Retry = {}
    BY DEF SendsOnly, Retry
  <2> QED
    BY <1>1, <1>3, <2>1, VerbatimSend, VerbatimAgent DEF Next
<1> QED
  BY <1>2, <1>3

(* Concurrent Sends do not run their prompts together, and a prompt never  *)
(* follows what an earlier Send left in the box: between the clear and the *)
(* typing of a Send, type_mutex keeps the others out.                      *)
THEOREM Verbatim == SendsOnly => (Spec => []SubmittedVerbatim)
<1>1. ASSUME SendsOnly PROVE Spec => []SubmittedVerbatim
  <2>1. VerbatimInv /\ [Next]_vars => VerbatimInv'
    BY <1>1, VerbatimStep
  <2>2. VerbatimInv => SubmittedVerbatim
    <3> SUFFICES ASSUME VerbatimInv,
                        NEW text \in {running} \cup {inbox[k] : k \in 1..Len(inbox)},
                        NEW i \in 1..Len(text)
                 PROVE  Len(text) = 1
      BY DEF SubmittedVerbatim
    <3>1. text \in Seq(Sender \cup {Continue, User}) /\ Len(text) <= 1
      BY DEF VerbatimInv, TypeOK, TakenAlone
    <3> QED
      BY <3>1
  <2> QED
    BY <2>1, <2>2, VerbatimInit, PTL DEF Spec
<1> QED
  BY <1>1

-----------------------------------------------------------------------------
(* Retries give up.                                                        *)

(* No Send competes with the retries, nobody takes over while one is under *)
(* way, and the hook of a prompt comes within the ten seconds of a retry.  *)
RetriesOnly == Sender = {} /\ ~MayTakeOver /\ ~MayBeLate

(* A retry that may still make the agent run "continue".                   *)
Live(i) == task[i] \in {"sleep", "clear", "type", "enter"} \/ (task[i] = "wait" /\ i \notin heard)

(* "continue" was entered and the agent has not told of it yet.            *)
Promised ==
  \/ inbox # <<>> /\ Head(inbox) = <<Continue>>
  \/ turn = "submit" /\ running = <<Continue>>

(* At most one retry is live, the one retry_state was made for; it has an  *)
(* attempt of its own, and until its prompt is accepted the agent does     *)
(* nothing else.                                                           *)
LiveRetry ==
  \A i \in Retry : Live(i) =>
    /\ retry.at = i
    /\ streak < retry.attempt
    /\ task[i] # "sleep" => expecting
    /\ turn = "idle" \/ (turn = "submit" /\ task[i] = "wait")
    /\ task[i] # "wait" => inbox = <<>>

RetryInv ==
  /\ TypeOK
  /\ \E k \in 0..MaxFailures : \A j \in Retry : task[j] # "none" <=> j <= k
  /\ \A i \in Retry : i \in heard => task[i] \in {"wait", "done"}
  /\ inbox # <<>> => turn = "idle" /\ Len(inbox) = 1
  /\ LiveRetry
  /\ Promised => \E i \in Retry : Live(i) /\ task[i] = "wait"
  /\ turn \in {"work", "dialog", "answered"} => streak <= retry.attempt
  /\ streak <= MaxAttempts

LEMMA RetryInit == Init => RetryInv
<1> SUFFICES ASSUME Init PROVE RetryInv
  OBVIOUS
<1>1. \A j \in Retry : task[j] = "none" /\ ~(j <= 0)
  BY Constants DEF Init, Retry
<1> QED
  BY <1>1, Constants, TypeInit DEF Init, RetryInv, LiveRetry, Live, Promised

(* The steps of a retry.                                                   *)
LEMMA RetryInvRetry ==
  ASSUME RetriesOnly, RetryInv, TypeOK', NEW i \in Retry, RetryStep(i)
  PROVE  RetryInv'
<1> USE Constants DEF RetryInv, LiveRetry, Live, Promised, RetriesOnly
<1>0. /\ task \in [Retry -> {"none", "sleep", "clear", "type", "enter", "wait", "done"}]
      /\ retry \in [attempt : 0..MaxAttempts, at : {0} \cup Retry]
      /\ streak \in Nat
      /\ 0 \notin Retry
  BY DEF TypeOK, Retry
<1>1. CASE Wake(i)
  BY <1>0, <1>1 DEF Wake, agentVars, sendVars, pastVars
<1>2. CASE RetryClear(i)
  BY <1>0, <1>2 DEF RetryClear, sendVars, pastVars
<1>3. CASE RetryType(i)
  BY <1>0, <1>3 DEF RetryType, sendVars, pastVars
<1>4. CASE RetryEnter(i)
  <2>1. Live(i) /\ turn = "idle" /\ inbox = <<>> /\ expecting
    BY <1>4 DEF RetryEnter
  <2>2. \/ inbox' = <<box>>
        \/ inbox' = inbox
    BY <1>4, <2>1 DEF RetryEnter, PressEnter, EnterAccepted, EnterIgnored, EnterAnswers, Dialog
  <2>3. /\ task' = [task EXCEPT ![i] = "wait"]
        /\ UNCHANGED <<running, retry, expecting, heard, streak, turn>>
    BY <1>4, <2>1 DEF RetryEnter, PressEnter, EnterAccepted, EnterIgnored, EnterAnswers, Dialog
  <2>4. Live(i)' /\ task'[i] = "wait"
    BY <1>0, <1>4, <2>3 DEF RetryEnter
  <2>5. LiveRetry'
    BY <1>0, <2>1, <2>3
  <2>6. \E k \in 0..MaxFailures : \A j \in Retry : task'[j] # "none" <=> j <= k
    BY <1>0, <1>4, <2>3 DEF RetryEnter
  <2>7. inbox' # <<>> => turn' = "idle" /\ Len(inbox') = 1
    BY <2>1, <2>2, <2>3
  <2> QED
    BY <1>0, <2>1, <2>3, <2>4, <2>5, <2>6, <2>7
<1>5. CASE Retried(i)
  BY <1>0, <1>5 DEF Retried, agentVars, sendVars, pastVars
<1>6. CASE RetryFails(i)
  <2>1. Live(i) /\ retry.at = i /\ turn = "idle" /\ inbox = <<>>
    BY <1>6 DEF RetryFails
  <2>2. \A j \in Retry : Live(j) => j = i
    BY <2>1
  <2>3. \A j \in Retry : ~Live(j)'
    BY <1>0, <1>6, <2>2 DEF RetryFails, sendVars, pastVars
  <2>4. ~Promised'
    BY <1>6, <2>1 DEF RetryFails, agentVars, sendVars, pastVars
  <2> QED
    BY <1>0, <1>6, <2>1, <2>3, <2>4 DEF RetryFails, agentVars, sendVars, pastVars
<1> QED
  BY <1>1, <1>2, <1>3, <1>4, <1>5, <1>6 DEF RetryStep

(* A failed turn schedules at most one more.                               *)
LEMMA RetryInvFailure ==
  ASSUME RetriesOnly, RetryInv, TypeOK', HookStopFailure
  PROVE  RetryInv'
<1> USE Constants DEF RetryInv
<1>0. /\ task \in [Retry -> {"none", "sleep", "clear", "type", "enter", "wait", "done"}]
      /\ retry \in [attempt : 0..MaxAttempts, at : {0} \cup Retry]
      /\ streak \in Nat
      /\ Retry = 1..MaxFailures
  BY DEF TypeOK, Retry
<1>1. /\ turn = "work" /\ turn' = "idle"
      /\ UNCHANGED <<box, inbox, running, expecting, heard, streak>>
      /\ Schedule
  BY DEF HookStopFailure, pastVars
<1>2. inbox = <<>> /\ streak <= retry.attempt /\ \A j \in Retry : ~Live(j)
  BY <1>1 DEF LiveRetry
<1>3. PICK k \in 0..MaxFailures : \A j \in Retry : task[j] # "none" <=> j <= k
  OBVIOUS
<1>4. {j \in Retry : task[j] # "none"} = 1..k
  BY <1>0, <1>3
<1>5. Cardinality({j \in Retry : task[j] # "none"}) + 1 = k + 1
  <2>1. Cardinality(1..k) = k
    BY FS_Interval
  <2> QED
    BY <1>4, <2>1
<1>6. /\ k + 1 \in Retry
      /\ IF retry.attempt + 1 > MaxAttempts
           THEN retry' = NoRetry /\ task' = [task EXCEPT ![k + 1] = "done"]
           ELSE /\ retry' = [attempt |-> retry.attempt + 1, at |-> k + 1]
                /\ task' = [task EXCEPT ![k + 1] = "sleep"]
  BY <1>1, <1>5 DEF Schedule
<1>7. PICK step \in {"done", "sleep"} :
        /\ task' = [task EXCEPT ![k + 1] = step]
        /\ step = "sleep" => retry' = [attempt |-> retry.attempt + 1, at |-> k + 1]
  BY <1>6
<1>8. k + 1 \in 0..MaxFailures /\ \A j \in Retry : task'[j] # "none" <=> j <= k + 1
  <2>1. k + 1 \in 0..MaxFailures
    BY <1>0, <1>6
  <2>2. ASSUME NEW j \in Retry PROVE task'[j] # "none" <=> j <= k + 1
    <3>1. CASE j = k + 1
      BY <1>0, <1>7, <3>1
    <3>2. CASE j # k + 1
      <4>1. j <= k + 1 <=> j <= k
        BY <1>0, <3>2
      <4> QED
        BY <1>0, <1>3, <1>7, <3>2, <4>1
    <3> QED
      BY <3>1, <3>2
  <2> QED
    BY <2>1, <2>2
<1>9. \A j \in Retry : j \in heard' => task'[j] \in {"wait", "done"}
  <2>1. task[k + 1] = "none"
    <3>1. ~(k + 1 <= k)
      OBVIOUS
    <3> QED
      BY <1>3, <1>6, <3>1
  <2>2. k + 1 \notin heard
    BY <1>6, <2>1
  <2> QED
    BY <1>0, <1>1, <1>7, <2>2
<1>10. \A j \in Retry : Live(j)' => j = k + 1 /\ task'[j] = "sleep"
  BY <1>0, <1>1, <1>2, <1>7 DEF Live
<1>11. step = "sleep" => streak' < retry'.attempt /\ retry'.at = k + 1
  BY <1>0, <1>1, <1>2, <1>7
<1>12. LiveRetry'
  BY <1>0, <1>1, <1>2, <1>7, <1>10, <1>11 DEF LiveRetry
<1>13. ~Promised'
  BY <1>1, <1>2 DEF Promised
<1> QED
  BY <1>1, <1>2, <1>8, <1>9, <1>12, <1>13

(* The agent accepts a prompt.                                             *)
LEMMA RetryInvSubmit ==
  ASSUME RetriesOnly, RetryInv, TypeOK', HookUserPromptSubmit
  PROVE  RetryInv'
<1> USE Constants DEF RetryInv
<1>0. /\ task \in [Retry -> {"none", "sleep", "clear", "type", "enter", "wait", "done"}]
      /\ retry \in [attempt : 0..MaxAttempts, at : {0} \cup Retry]
      /\ streak \in Nat
  BY DEF TypeOK
<1>1. /\ turn = "submit" /\ turn' = "work"
      /\ heard' = heard \cup Waiting
      /\ retry' = IF expecting THEN retry ELSE NoRetry
      /\ UNCHANGED <<inbox, running, task>>
      /\ Overtake
  BY DEF HookUserPromptSubmit
<1>2. inbox = <<>>
  BY <1>1
<1>3. \A j \in Retry : Live(j) => task[j] = "wait"
  BY <1>1 DEF LiveRetry
<1>4. \A j \in Retry : j \in Waiting => task[j] = "wait"
  BY <1>3 DEF Waiting, RetriesOnly, Live
<1>5. \A j \in Retry : ~Live(j)'
  BY <1>0, <1>1, <1>3 DEF Live, Waiting
<1>6. \A j \in Retry : j \in heard' => task'[j] \in {"wait", "done"}
  BY <1>1, <1>4
<1>7. streak' <= retry'.attempt /\ streak' <= MaxAttempts
  <2>1. CASE running = <<Continue>>
    <3>1. PICK j \in Retry : Live(j) /\ task[j] = "wait"
      BY <1>1, <2>1 DEF Promised
    <3>2. streak < retry.attempt /\ expecting
      BY <3>1 DEF LiveRetry
    <3>3. streak' = streak + 1 /\ retry' = retry
      BY <1>1, <2>1, <3>2 DEF Overtake
    <3> QED
      BY <1>0, <3>2, <3>3
  <2>2. CASE running # <<Continue>>
    <3>1. streak' = 0
      BY <1>1, <2>2 DEF Overtake
    <3>2. retry'.attempt \in 0..MaxAttempts
      BY DEF TypeOK
    <3> QED
      BY <3>1, <3>2
  <2> QED
    BY <2>1, <2>2
<1>8. ~Promised'
  BY <1>1, <1>2 DEF Promised
<1> QED
  BY <1>1, <1>2, <1>5, <1>6, <1>7, <1>8 DEF LiveRetry

(* The agent, its other hooks and the person at the terminal.              *)
LEMMA OneMessage ==
  ASSUME NEW S, NEW queue \in Seq(S), Len(queue) = 1
  PROVE  Tail(queue) = <<>>
<1>1. Len(Tail(queue)) = 0 /\ Tail(queue) \in Seq(S)
  OBVIOUS
<1> QED
  BY <1>1, EmptySeq

LEMMA RetryInvAgent ==
  ASSUME RetriesOnly, RetryInv, TypeOK',
         \/ Boot \/ HookStop \/ HookPermissionRequest \/ HookPostToolUse \/ NoticeIdle
         \/ StartTurn \/ UserTypes \/ UserEnters \/ UserAnswers
  PROVE  RetryInv'
<1> USE Constants DEF RetryInv, LiveRetry, Live, Promised, RetriesOnly
<1>0. /\ task \in [Retry -> {"none", "sleep", "clear", "type", "enter", "wait", "done"}]
      /\ retry \in [attempt : 0..MaxAttempts, at : {0} \cup Retry]
      /\ streak \in Nat
      /\ inbox \in Seq(Seq(Sender \cup {Continue, User}))
  BY DEF TypeOK
<1>1. CASE Boot \/ NoticeIdle
  BY <1>0, <1>1 DEF Boot, NoticeIdle, agentVars, sendVars, retryVars, pastVars
<1>2. CASE HookStop
  BY <1>0, <1>2 DEF HookStop, NoRetry, sendVars
<1>3. CASE HookPermissionRequest \/ HookPostToolUse
  BY <1>0, <1>3 DEF HookPermissionRequest, HookPostToolUse, sendVars, retryVars, pastVars
<1>4. CASE StartTurn
  <2>0. running' = Head(inbox) /\ inbox' = Tail(inbox) /\ turn = "idle" /\ turn' = "submit"
        /\ inbox # <<>> /\ Len(inbox) = 1
    BY <1>4 DEF StartTurn
  <2>1. inbox' = <<>> /\ running' = Head(inbox) /\ turn = "idle" /\ turn' = "submit"
        /\ inbox # <<>>
    BY ONLY <1>0, <2>0, OneMessage
  <2>2. UNCHANGED <<task, retry, expecting, heard, streak>>
    BY <1>4 DEF StartTurn, retryVars, pastVars
  <2>3. \A i \in Retry : Live(i) => task[i] = "wait"
    BY <2>1
  <2> QED
    BY <1>0, <2>1, <2>2, <2>3
<1>5. CASE UserTypes
  BY <1>0, <1>5 DEF UserTypes, sendVars, retryVars, pastVars
<1>6. CASE UserEnters
  <2>0. Calm /\ inbox' = Append(inbox, Append(box, User)) /\ inbox = <<>>
    BY <1>6 DEF UserEnters, Calm
  <2>1. Calm /\ inbox' = <<Append(box, User)>>
    <3>1. ASSUME NEW text PROVE Append(<<>>, text) = <<text>>
      BY ONLY TRUE
    <3> QED
      BY <2>0, <3>1
  <2>2. Head(inbox') # <<Continue>>
    <3>1. box \in Seq(Sender \cup {Continue, User})
      BY DEF TypeOK
    <3>2. Append(box, User)[Len(box) + 1] = User /\ Len(Append(box, User)) = Len(box) + 1
      BY <3>1
    <3>3. ASSUME Append(box, User) = <<Continue>> PROVE FALSE
      <4>1. Len(box) + 1 = 1
        BY <3>2, <3>3
      <4>2. Append(box, User)[1] = User
        BY <3>2, <4>1
      <4> QED
        BY <3>3, <4>2
    <3> QED
      BY <2>1, <3>3
  <2>3. UNCHANGED <<turn, running, task, retry, expecting, heard, streak>>
    BY <1>6 DEF UserEnters, retryVars, pastVars
  <2>4. \A i \in Retry : ~Live(i)
    <3>1. \A i \in Retry : task[i] \in {"none", "done"}
      BY <2>1 DEF Calm
    <3> QED
      BY <3>1
  <2> QED
    BY <1>0, <2>1, <2>2, <2>3, <2>4 DEF Calm
<1>7. CASE UserAnswers
  BY <1>0, <1>7 DEF UserAnswers, EnterAnswers, Dialog, sendVars, retryVars
<1> QED
  BY <1>1, <1>2, <1>3, <1>4, <1>5, <1>6, <1>7

LEMMA RetryInvStep ==
  ASSUME RetriesOnly
  PROVE  RetryInv /\ [Next]_vars => RetryInv'
<1> SUFFICES ASSUME RetryInv, [Next]_vars PROVE RetryInv'
  OBVIOUS
<1>1. TypeOK'
  BY TypeStep DEF RetryInv
<1>2. CASE UNCHANGED vars
  BY <1>1, <1>2 DEF RetryInv, LiveRetry, Live, Promised, vars, agentVars, sendVars, retryVars,
                    pastVars
<1>3. CASE Next
  BY <1>1, <1>3, RetryInvRetry, RetryInvFailure, RetryInvSubmit, RetryInvAgent
     DEF Next, Hook, RetriesOnly
<1> QED
  BY <1>2, <1>3

(* However turns fail, however Enters are swallowed and dialogs answered,  *)
(* no more than max_retry_attempts turns of "continue" run between two     *)
(* prompts of others or successes.                                         *)
THEOREM GivesUp == RetriesOnly => (Spec => []RetriesBounded)
<1>1. ASSUME RetriesOnly PROVE Spec => []RetriesBounded
  <2>1. RetryInv /\ [Next]_vars => RetryInv'
    BY <1>1, RetryInvStep
  <2>2. RetryInv => RetriesBounded
    BY DEF RetryInv, RetriesBounded
  <2> QED
    BY <2>1, <2>2, RetryInit, PTL DEF Spec
<1> QED
  BY <1>1

=============================================================================
