--------------------------- MODULE AcpTurnsProofs ---------------------------
(***************************************************************************)
(* For any number of prompts, answers, retries, steering requests and      *)
(* troubles: no steering outlives its turn, a turn is answered with the    *)
(* outcome that the agent's work really had, and what the client is told   *)
(* during a prompt is every answer to it, in order, and nothing else.      *)
(***************************************************************************)
EXTENDS AcpTurns, SequenceTheorems, TLAPS

LEMMA Constants ==
  /\ MaxPrompts \in Nat /\ MaxAnswers \in Nat
  /\ Prompts = 1..MaxPrompts /\ Prompts \subseteq Int /\ 0 \notin Prompts
  /\ Backends \subseteq {"claude", "codex"}
  /\ \A b \in Bounds : b.retries \in Nat /\ b.steers \in Nat /\ b.troubles \in Nat
BY TurnsAssumption DEF TurnsAssumption, Prompts

-----------------------------------------------------------------------------
(* Type correctness.                                                       *)

AgentType ==
  [pc : {"ready", "busy", "late", "failed", "interrupted", "gone"}, k : Int,
   inbox : Seq(Int), started : BOOLEAN, resumed : BOOLEAN, answers : Nat, tries : Nat]
TurnType ==
  [pc : {"none", "send", "run", "drain", "over"}, k : {0} \cup Prompts,
   busy : BOOLEAN, answer : BOOLEAN, retry : BOOLEAN, cancel : BOOLEAN,
   done : BOOLEAN, accepted : BOOLEAN, gated : BOOLEAN, echoed : BOOLEAN,
   buffer : Seq(TranscriptRecord), result : {"none"} \cup Outcome]

LEMMA Publishing ==
  ASSUME TypeOK, NEW es \in Seq(StateEvent), Publish(es)
  PROVE  stateQ' \in Seq(StateEvent)
BY DEF TypeOK, Publish

LEMMA Writing ==
  ASSUME TypeOK, NEW rs \in Seq(TranscriptRecord), Write(rs)
  PROVE  recordQ' \in Seq(TranscriptRecord)
BY DEF TypeOK, Write

LEMMA Events ==
  /\ \A e \in {"busy", "ready", "Stop", "StopFailure", "PaneDestroyed"} : Event(e) \in StateEvent
  /\ \A s \in {"busy", "ready"} : Show(s) \in Seq(StateEvent)
  /\ \A retry \in BOOLEAN : [type |-> "StopFailure", retry |-> retry] \in StateEvent
<1>1. \A e \in {"busy", "ready", "Stop", "StopFailure", "PaneDestroyed"}, retry \in BOOLEAN :
        [type |-> e, retry |-> retry] \in StateEvent
  BY DEF StateEvent
<1>2. \A e \in {"busy", "ready", "Stop", "StopFailure", "PaneDestroyed"} : Event(e) \in StateEvent
  BY <1>1 DEF Event
<1>3. \A s \in {"busy", "ready"} : Show(s) \in Seq(StateEvent)
  BY <1>2 DEF Show
<1> QED
  BY <1>1, <1>2, <1>3

(* A record of the transcript that the agent writes.                       *)
LEMMA Records ==
  ASSUME NEW kind \in {"user", "answer"}, NEW k \in Int, NEW n \in Nat
  PROVE  Record(kind, k, n) \in TranscriptRecord
BY DEF Record, TranscriptRecord

LEMMA AgentEdits ==
  ASSUME NEW a \in AgentType
  PROVE  /\ \A n \in Nat : [a EXCEPT !.answers = n] \in AgentType
         /\ \A s \in {"ready", "busy", "late", "failed", "interrupted", "gone"}, n \in Nat :
              [a EXCEPT !.pc = s, !.tries = n] \in AgentType
         /\ [a EXCEPT !.pc = "gone", !.inbox = <<>>] \in AgentType
         /\ a.answers + 1 \in Nat /\ a.tries + 1 \in Nat
<1>1. a.answers + 1 \in Nat /\ a.tries + 1 \in Nat /\ <<>> \in Seq(Int)
  BY DEF AgentType
<1>2. \A n \in Nat : [a EXCEPT !.answers = n] \in AgentType
  BY DEF AgentType
<1>3. \A s \in {"ready", "busy", "late", "failed", "interrupted", "gone"}, n \in Nat :
        [a EXCEPT !.pc = s, !.tries = n] \in AgentType
  BY DEF AgentType
<1>4. [a EXCEPT !.pc = "gone", !.inbox = <<>>] \in AgentType
  BY <1>1 DEF AgentType
<1> QED
  BY <1>1, <1>2, <1>3, <1>4

LeftType == [prompts : 0..MaxPrompts, retries : Nat, steers : Nat, troubles : Nat]

LEMMA LeftEdits ==
  ASSUME NEW l \in LeftType
  PROVE  /\ l.prompts > 0 => [l EXCEPT !.prompts = @ - 1] \in LeftType
         /\ l.steers > 0 => [l EXCEPT !.steers = @ - 1] \in LeftType
         /\ l.troubles > 0 => [l EXCEPT !.troubles = @ - 1] \in LeftType
<1>1. /\ l.prompts > 0 => l.prompts - 1 \in 0..MaxPrompts
      /\ l.steers > 0 => l.steers - 1 \in Nat
      /\ l.troubles > 0 => l.troubles - 1 \in Nat
  BY Constants DEF LeftType
<1>2. \A n \in 0..MaxPrompts : [l EXCEPT !.prompts = n] \in LeftType
  BY DEF LeftType
<1>3. \A n \in Nat : [l EXCEPT !.steers = n] \in LeftType /\ [l EXCEPT !.troubles = n] \in LeftType
  BY DEF LeftType
<1> QED
  BY <1>1, <1>2, <1>3

LEMMA TypeAgent ==
  ASSUME TypeOK, Agent \/ UserInterrupts \/ PaneEnds
  PROVE  TypeOK'
<1>a. agent \in AgentType /\ turn \in TurnType
  BY DEF TypeOK, AgentType, TurnType, LeftType
<1>e. UNCHANGED <<backend, turn, pending, steer, given, reply>> => 
        /\ backend' \in Backends /\ turn' \in TurnType
        /\ TurnAgrees(turn')
        /\ pending' \in BOOLEAN
        /\ steer' \in [pc : {"none", "send", "doubt"}, k : {0} \cup Prompts]
        /\ given' \in [Prompts -> Seq(TranscriptRecord)]
        /\ reply' \in [Prompts -> Seq(Outcome)]
  BY DEF TypeOK, TurnType, TurnAgrees
<1>f. /\ shown \in {"ready", "busy"}
      /\ wrote \in [Prompts -> Nat]
      /\ ended \in [Prompts -> {"none", "ok", "failed", "interrupted"}]
      /\ left \in LeftType
      /\ stateQ \in Seq(StateEvent) /\ recordQ \in Seq(TranscriptRecord)
  BY DEF TypeOK, LeftType
<1>1. CASE AgentTakes
  <2>1. Head(agent.inbox) \in Int /\ Tail(agent.inbox) \in Seq(Int)
    BY <1>1, <1>a DEF AgentTakes, AgentType
  <2>2. agent' \in AgentType
    BY <1>1, <1>a, <2>1 DEF AgentTakes, AgentType
  <2>3. stateQ' \in Seq(StateEvent)
    <3>1. PICK first \in BOOLEAN :
            Publish(Show("busy") \o (IF first THEN <<Event("ready")>> ELSE <<>>))
      BY <1>1 DEF AgentTakes
    <3>2. Show("busy") \in Seq(StateEvent) /\ <<Event("ready")>> \in Seq(StateEvent)
      BY Events
    <3>3. Show("busy") \o (IF first THEN <<Event("ready")>> ELSE <<>>) \in Seq(StateEvent)
      BY <3>2
    <3> QED BY <3>1, <3>3, Publishing
  <2>4. recordQ' \in Seq(TranscriptRecord)
    <3> DEFINE k == Head(agent.inbox)
    <3>1. PICK first \in BOOLEAN, same \in BOOLEAN :
            Write((IF first THEN <<Record("user", IF same THEN k ELSE History, 0),
                                   Record("answer", History, 1)>> ELSE <<>>)
                    \o <<Record("user", k, 0)>>)
      BY <1>1 DEF AgentTakes
    <3>2. \A j \in Int : /\ Record("user", j, 0) \in TranscriptRecord
                         /\ Record("answer", j, 1) \in TranscriptRecord
      BY Records
    <3>3. k \in Int /\ History \in Int
      BY <2>1 DEF History
    <3> HIDE DEF k
    <3>4. \A j \in Int : /\ <<Record("user", k, 0)>> \in Seq(TranscriptRecord)
                         /\ <<Record("user", j, 0), Record("answer", History, 1)>> \in Seq(TranscriptRecord)
      BY <3>2, <3>3
    <3>5. (IF first THEN <<Record("user", IF same THEN k ELSE History, 0),
                           Record("answer", History, 1)>> ELSE <<>>)
            \o <<Record("user", k, 0)>> \in Seq(TranscriptRecord)
      BY <3>3, <3>4
    <3> QED BY <3>1, <3>5, Writing
  <2> QED BY <1>1, <1>e, <1>f, <2>2, <2>3, <2>4 DEF AgentTakes, External, TypeOK, AgentType, TurnType, LeftType
<1>2. CASE AgentAnswers
  <2>1. agent' \in AgentType
    <3>1. agent' = [agent EXCEPT !.answers = @ + 1]
      BY <1>2 DEF AgentAnswers, Answers
    <3> QED BY ONLY <3>1, <1>a, AgentEdits
  <2>2. stateQ' \in Seq(StateEvent)
    BY <1>2, Events, Publishing DEF AgentAnswers
  <2>3. wrote' \in [Prompts -> Nat]
    BY <1>2, <1>f DEF AgentAnswers
  <2>4. recordQ' \in Seq(TranscriptRecord)
    <3>1. Record("answer", agent.k, IF agent.k \in Prompts THEN wrote[agent.k] + 1 ELSE 1) \in TranscriptRecord
      <4>1. agent.k \in Int /\ (IF agent.k \in Prompts THEN wrote[agent.k] + 1 ELSE 1) \in Nat
        BY <1>a, <1>f DEF AgentType
      <4> QED BY <4>1, Records
    <3>2. <<Record("answer", agent.k, IF agent.k \in Prompts THEN wrote[agent.k] + 1 ELSE 1)>>
            \in Seq(TranscriptRecord)
      BY <3>1
    <3> QED BY <1>2, <3>2, Writing DEF AgentAnswers
  <2> QED BY <1>2, <1>e, <1>f, <2>1, <2>2, <2>3, <2>4 DEF AgentAnswers, External, TypeOK, AgentType, TurnType, LeftType
<1>3. CASE AgentStops
  <2>1. agent' \in AgentType
    BY <1>3, <1>a DEF AgentStops, AgentType
  <2>2. stateQ' \in Seq(StateEvent)
    <3>1. Show("ready") \o <<Event("Stop")>> \in Seq(StateEvent)
      BY Events
    <3> QED BY <1>3, <3>1, Publishing DEF AgentStops
  <2>3. ended' \in [Prompts -> {"none", "ok", "failed", "interrupted"}]
    BY <1>3, <1>f DEF AgentStops, Ends
  <2> QED BY <1>3, <1>e, <1>f, <2>1, <2>2, <2>3 DEF AgentStops, External, TypeOK, AgentType, TurnType, LeftType
<1>4. CASE AgentWritesLate
  <2>1. agent' \in AgentType
    BY <1>4, <1>a DEF AgentWritesLate, AgentType
  <2>3. wrote' \in [Prompts -> Nat]
    BY <1>4, <1>f DEF AgentWritesLate
  <2>4. recordQ' \in Seq(TranscriptRecord)
    <3>1. Record("answer", agent.k, IF agent.k \in Prompts THEN wrote[agent.k] + 1 ELSE 1) \in TranscriptRecord
      <4>1. agent.k \in Int /\ (IF agent.k \in Prompts THEN wrote[agent.k] + 1 ELSE 1) \in Nat
        BY <1>a, <1>f DEF AgentType
      <4> QED BY <4>1, Records
    <3>2. <<Record("answer", agent.k, IF agent.k \in Prompts THEN wrote[agent.k] + 1 ELSE 1)>>
            \in Seq(TranscriptRecord)
      BY <3>1
    <3> QED BY <1>4, <3>2, Writing DEF AgentWritesLate
  <2> QED BY <1>4, <1>e, <1>f, <2>1, <2>3, <2>4 DEF AgentWritesLate, External, TypeOK, AgentType, TurnType, LeftType
<1>5. CASE AgentFails
  <2>1. agent' \in AgentType
    <3>1. PICK s \in {"failed", "ready"} : agent' = [agent EXCEPT !.pc = s, !.tries = @ + 1]
      BY <1>5 DEF AgentFails
    <3> QED BY ONLY <3>1, <1>a, AgentEdits
  <2>2. stateQ' \in Seq(StateEvent)
    <3>1. (agent.tries < left.retries) \in BOOLEAN
      OBVIOUS
    <3>2. ASSUME NEW retry \in BOOLEAN PROVE FailureFirst(retry) \in Seq(StateEvent)
      <4>1. [type |-> "StopFailure", retry |-> retry] \in StateEvent
        BY Events
      <4>2. Failure(retry) \in Seq(StateEvent)
        BY <4>1 DEF Failure
      <4> QED BY <4>2, Events DEF FailureFirst
    <3>3. PICK retry \in BOOLEAN : Publish(FailureFirst(retry))
      BY <1>5, <3>1 DEF AgentFails
    <3> QED BY <3>2, <3>3, Publishing
  <2>3. ended' \in [Prompts -> {"none", "ok", "failed", "interrupted"}]
    BY <1>5, <1>f DEF AgentFails, Ends
  <2> QED BY <1>5, <1>e, <1>f, <2>1, <2>2, <2>3 DEF AgentFails, External, TypeOK, AgentType, TurnType, LeftType
<1>6. CASE AgentContinues
  <2>1. agent' \in AgentType
    BY <1>6, <1>a DEF AgentContinues, AgentType
  <2>2. stateQ' \in Seq(StateEvent)
    BY <1>6, Events, Publishing DEF AgentContinues
  <2>3. ended' \in [Prompts -> {"none", "ok", "failed", "interrupted"}]
    BY <1>6, <1>f DEF AgentContinues, Ends
  <2> QED BY <1>6, <1>e, <1>f, <2>1, <2>2, <2>3 DEF AgentContinues, External, TypeOK, AgentType, TurnType, LeftType
<1>7. CASE AgentStopsShort
  <2>1. agent' \in AgentType
    BY <1>7, <1>a DEF AgentStopsShort, AgentType
  <2>2. stateQ' \in Seq(StateEvent)
    BY <1>7, Events, Publishing DEF AgentStopsShort
  <2>3. ended' \in [Prompts -> {"none", "ok", "failed", "interrupted"}]
    BY <1>7, <1>f DEF AgentStopsShort, Ends
  <2> QED BY <1>7, <1>e, <1>f, <2>1, <2>2, <2>3 DEF AgentStopsShort, External, TypeOK, AgentType, TurnType, LeftType
<1>8. CASE UserInterrupts
  <2>1. agent' \in AgentType
    BY <1>8, <1>a DEF UserInterrupts, Interrupted, AgentType
  <2>2. left' \in LeftType
    BY <1>8, <1>f, LeftEdits DEF UserInterrupts, Trouble
  <2> QED BY <1>8, <1>e, <1>f, <2>1, <2>2 DEF UserInterrupts, External, queueVars, TypeOK, AgentType, TurnType, LeftType
<1>9. CASE PaneEnds
  <2>1. agent' \in AgentType
    <3>1. agent' = [agent EXCEPT !.pc = "gone", !.inbox = <<>>]
      BY <1>9 DEF PaneEnds
    <3> QED BY ONLY <3>1, <1>a, AgentEdits
  <2>2. stateQ' \in Seq(StateEvent)
    <3>1. <<Event("PaneDestroyed")>> \in Seq(StateEvent)
      BY Events
    <3> QED BY <1>9, <3>1, Publishing DEF PaneEnds
  <2>3. left' \in LeftType
    BY <1>9, <1>f, LeftEdits DEF PaneEnds, Trouble
  <2> QED BY <1>9, <1>e, <1>f, <2>1, <2>2, <2>3 DEF PaneEnds, External, TypeOK, AgentType, TurnType, LeftType
<1> QED
  BY <1>1, <1>2, <1>3, <1>4, <1>5, <1>6, <1>7, <1>8, <1>9 DEF Agent

LEMMA TurnEdits ==
  ASSUME NEW t \in TurnType
  PROVE  /\ \A r \in Outcome : Result(t, r) \in TurnType /\ Result(t, r).done
                               /\ Result(t, r).pc = "over" /\ Result(t, r).k = t.k
                               /\ Result(t, r).result = r
         /\ \A r \in TranscriptRecord : /\ Heard(t, r) \in TurnType
                                        /\ Heard(t, r).pc = t.pc /\ Heard(t, r).done = t.done
                                        /\ Heard(t, r).k = t.k
<1>1. \A r \in Outcome : Result(t, r) \in TurnType /\ Result(t, r).done
                         /\ Result(t, r).pc = "over" /\ Result(t, r).k = t.k
                         /\ Result(t, r).result = r
  BY DEF Result, TurnType
<1>2. ASSUME NEW r \in TranscriptRecord
      PROVE  /\ Heard(t, r) \in TurnType
             /\ Heard(t, r).pc = t.pc /\ Heard(t, r).done = t.done
             /\ Heard(t, r).k = t.k
  <2>1. <<>> \in Seq(TranscriptRecord) /\ Append(t.buffer, r) \in Seq(TranscriptRecord)
    BY DEF TurnType
  <2>2. \A b \in Seq(TranscriptRecord) : /\ [t EXCEPT !.buffer = b] \in TurnType
                                         /\ [t EXCEPT !.echoed = TRUE, !.buffer = b] \in TurnType
    BY DEF TurnType
  <2>3. (t.answer \/ r.kind = "answer") \in BOOLEAN
    BY DEF TurnType
  <2>4. \A b \in BOOLEAN : [t EXCEPT !.answer = b] \in TurnType
    BY DEF TurnType
  <2>5. \/ Heard(t, r) = [t EXCEPT !.echoed = TRUE, !.buffer = <<>>]
        \/ Heard(t, r) = [t EXCEPT !.buffer = Append(t.buffer, r)]
        \/ Heard(t, r) = t
        \/ Heard(t, r) = [t EXCEPT !.answer = t.answer \/ r.kind = "answer"]
    BY DEF Heard, Gated
  <2>6. Heard(t, r) \in TurnType
    BY <2>1, <2>2, <2>3, <2>4, <2>5
  <2> QED BY <2>5, <2>6 DEF TurnType
<1> QED
  BY <1>1, <1>2

LEMMA AgentInterrupted ==
  ASSUME NEW a \in AgentType, a = agent
  PROVE  Interrupted \in AgentType /\ Unsent \in AgentType
<1>1. <<>> \in Seq(Int)
  OBVIOUS
<1> QED
  BY <1>1 DEF Interrupted, Unsent, AgentType

LEMMA TypeTurn ==
  ASSUME TypeOK, \/ Prompt \/ Turn \/ SendFails \/ Cancel \/ TurnTimesOut
                 \/ Steer \/ Steering \/ SteerSeen
  PROVE  TypeOK'
<1>a. /\ agent \in AgentType /\ turn \in TurnType /\ left \in LeftType
      /\ turn.done = (turn.pc = "over") /\ (turn.pc # "none" => turn.k \in Prompts)
      /\ turn.pc = "over" => turn.result # "none"
  BY DEF TypeOK, TurnAgrees, AgentType, TurnType, LeftType
<1>b. /\ given \in [Prompts -> Seq(TranscriptRecord)]
      /\ reply \in [Prompts -> Seq(Outcome)]
      /\ steer \in [pc : {"none", "send", "doubt"}, k : {0} \cup Prompts]
      /\ pending \in BOOLEAN
      /\ stateQ \in Seq(StateEvent) /\ recordQ \in Seq(TranscriptRecord)
  BY DEF TypeOK
<1>c. ASSUME turn' \in TurnType, TurnAgrees(turn'),
             agent' \in AgentType, left' \in LeftType,
             given' \in [Prompts -> Seq(TranscriptRecord)],
             reply' \in [Prompts -> Seq(Outcome)],
             steer' \in [pc : {"none", "send", "doubt"}, k : {0} \cup Prompts],
             pending' \in BOOLEAN,
             stateQ' \in Seq(StateEvent), recordQ' \in Seq(TranscriptRecord),
             UNCHANGED <<backend, shown, wrote, ended>>
      PROVE  TypeOK'
  BY <1>c DEF TypeOK, AgentType, TurnType, LeftType
<1> DEFINE Turned == turn' \in TurnType /\ TurnAgrees(turn')
<1>d. ASSUME NEW r \in Outcome, turn' = Result(turn, r), turn.pc # "none"
      PROVE  Turned
  <2>1. Result(turn, r) \in TurnType /\ Result(turn, r).done /\ Result(turn, r).pc = "over"
        /\ Result(turn, r).k = turn.k /\ Result(turn, r).result = r
    BY <1>a, TurnEdits
  <2>2. r # "none"
    BY DEF Outcome
  <2> QED BY <1>a, <1>d, <2>1, <2>2 DEF TurnAgrees
<1> USE DEF TurnAgrees
<1>n. NoTurn \in TurnType /\ NoTurn.pc = "none" /\ ~NoTurn.done
  <2>1. <<>> \in Seq(TranscriptRecord)
    OBVIOUS
  <2> QED BY <2>1 DEF NoTurn, TurnType, Outcome
<1>s. NoSteer \in [pc : {"none", "send", "doubt"}, k : {0} \cup Prompts]
  BY DEF NoSteer
<1>1. CASE Prompt
  <2>1. MaxPrompts - left.prompts + 1 \in Prompts
    BY <1>1, <1>a, Constants DEF Prompt, LeftType
  <2>2. left' \in LeftType
    BY <1>1, <1>a, LeftEdits DEF Prompt
  <2>3. Turned
    <3>1. PICK g \in BOOLEAN : turn' = [NoTurn EXCEPT !.pc = "send", !.k = MaxPrompts - left.prompts + 1, !.gated = g]
      BY <1>1, <1>b DEF Prompt
    <3> QED BY <1>n, <2>1, <3>1 DEF TurnType
  <2> QED BY <1>1, <1>a, <1>b, <1>c, <2>2, <2>3 DEF Prompt, agentVars, queueVars
<1>2. CASE PromptTyped
  <2>1. agent' \in AgentType
    <3>1. Append(agent.inbox, turn.k) \in Seq(Int)
      BY <1>a, Constants DEF AgentType, TurnType
    <3> QED BY <1>2, <1>a, <3>1 DEF PromptTyped, AgentType
  <2> QED BY <1>2, <1>a, <1>b, <1>c, <2>1 DEF PromptTyped, queueVars
<1>3. CASE PromptSent
  <2>1. Turned
    BY <1>3, <1>a DEF PromptSent, TurnType
  <2> QED BY <1>3, <1>a, <1>b, <1>c, <2>1 DEF PromptSent, agentVars, queueVars
<1>4. CASE SendFails
  <2>1. agent' \in AgentType
    BY <1>4, <1>a, AgentInterrupted DEF SendFails
  <2>2. Turned
    <3>1. turn' = Result(turn, "error") /\ "error" \in Outcome /\ turn.pc = "send"
      BY <1>4 DEF SendFails, Outcome
    <3> QED BY <1>d, <3>1
  <2>3. left' \in LeftType
    BY <1>4, <1>a, LeftEdits DEF SendFails, Trouble
  <2> QED BY <1>4, <1>a, <1>b, <1>c, <2>1, <2>2, <2>3 DEF SendFails, queueVars
<1>5. CASE Cancel
  <2>1. Turned
    BY <1>5, <1>a DEF Cancel, TurnType
  <2>2. left' \in LeftType
    BY <1>5, <1>a, LeftEdits DEF Cancel, Trouble
  <2> QED BY <1>5, <1>a, <1>b, <1>c, <2>1, <2>2 DEF Cancel, agentVars, queueVars
<1>6. ASSUME TurnCancelled \/ TurnTimesOut
      PROVE  TypeOK'
  <2>1. PICK r \in Outcome : Interrupts(r) /\ turn.pc \in {"send", "run"}
    BY <1>6 DEF TurnCancelled, TurnTimesOut, Outcome
  <2>2. agent' \in AgentType
    BY <2>1, <1>a, AgentInterrupted DEF Interrupts
  <2>3. Turned
    BY <1>d, <2>1 DEF Interrupts
  <2>4. left' \in LeftType
    BY <1>6, <1>a, LeftEdits DEF TurnCancelled, TurnTimesOut, Trouble
  <2> QED BY <1>a, <1>b, <1>c, <2>1, <2>2, <2>3, <2>4 DEF Interrupts, queueVars
<1>7. CASE ReadRecord
  <2>1. /\ Head(recordQ) \in TranscriptRecord /\ Tail(recordQ) \in Seq(TranscriptRecord)
        /\ turn.k \in Prompts
    BY <1>7, <1>a, <1>b DEF ReadRecord
  <2>2. Turned
    BY <1>7, <1>a, <2>1, TurnEdits DEF ReadRecord
  <2>3. given' \in [Prompts -> Seq(TranscriptRecord)]
    <3>1. CASE UNCHANGED given
      BY <1>b, <3>1
    <3>2. CASE Updates(<<Head(recordQ)>>)
      <4>1. given[turn.k] \o <<Head(recordQ)>> \in Seq(TranscriptRecord)
        BY <1>b, <2>1
      <4> QED BY <1>b, <2>1, <3>2, <4>1 DEF Updates
    <3> QED BY <1>7, <3>1, <3>2 DEF ReadRecord
  <2> QED BY <1>7, <1>a, <1>b, <1>c, <2>1, <2>2, <2>3 DEF ReadRecord, agentVars
<1>8. CASE ReadState
  <2>1. Head(stateQ) \in StateEvent /\ Tail(stateQ) \in Seq(StateEvent) /\ turn.k \in Prompts
    BY <1>8, <1>a, <1>b DEF ReadState
  <2>2. Turned
    <3>1. \/ \E b, c \in BOOLEAN : turn' = [turn EXCEPT !.busy = b, !.retry = c]
          \/ \E c \in BOOLEAN : turn' = [turn EXCEPT !.retry = c]
          \/ turn' = [turn EXCEPT !.pc = "drain"]
          \/ turn' = turn
          \/ turn' = Result(turn, "failed")
          \/ turn' = Result(turn, "ended")
      <4>1. turn' = Handled(Head(stateQ))
        BY <1>8 DEF ReadState
      <4> QED BY <2>1, <4>1 DEF Handled, StateEvent
    <3>2. "failed" \in Outcome /\ "ended" \in Outcome /\ "none" \notin Outcome
      BY DEF Outcome
    <3>3. turn.pc = "run" /\ ~turn.done
      BY <1>8, <1>a DEF ReadState
    <3>4. CASE turn' = Result(turn, "failed") \/ turn' = Result(turn, "ended")
      BY <1>d, <3>2, <3>3, <3>4
    <3>5. CASE \/ \E b, c \in BOOLEAN : turn' = [turn EXCEPT !.busy = b, !.retry = c]
               \/ \E c \in BOOLEAN : turn' = [turn EXCEPT !.retry = c]
               \/ turn' = [turn EXCEPT !.pc = "drain"]
               \/ turn' = turn
      BY <1>a, <2>1, <3>3, <3>5 DEF TurnType
    <3> QED BY <3>1, <3>4, <3>5
  <2> QED BY <1>8, <1>a, <1>b, <1>c, <2>1, <2>2 DEF ReadState, agentVars
<1>9. CASE Complete
  <2>1. turn.k \in Prompts /\ turn.buffer \in Seq(TranscriptRecord)
    BY <1>9, <1>a DEF Complete, TurnType
  <2>2. given' \in [Prompts -> Seq(TranscriptRecord)]
    BY <1>9, <1>b, <2>1 DEF Complete, Updates
  <2>3. Turned
    BY <1>9, <1>a, <2>1, TurnEdits DEF Complete, Outcome
  <2> QED BY <1>9, <1>a, <1>b, <1>c, <2>2, <2>3 DEF Complete, agentVars, queueVars
<1>10. CASE Release
  <2>1. turn.result \in Outcome /\ turn.k \in Prompts
    BY <1>10, <1>a DEF Release, TurnType
  <2>2. reply' \in [Prompts -> Seq(Outcome)]
    BY <1>10, <1>b, <2>1 DEF Release
  <2>3. <<>> \in Seq(StateEvent) /\ <<>> \in Seq(TranscriptRecord)
    OBVIOUS
  <2>4. pending' \in BOOLEAN /\ turn' = NoTurn /\ stateQ' = <<>> /\ recordQ' = <<>>
    BY <1>10, <1>a, <1>b DEF Release, TurnType
  <2>5. TurnAgrees(NoTurn)
    BY DEF NoTurn
  <2>6. UNCHANGED <<backend, agent, shown, wrote, ended, steer, given, left>>
    BY <1>10 DEF Release, agentVars
  <2> QED BY <1>a, <1>b, <1>c, <1>n, <2>2, <2>3, <2>4, <2>5, <2>6
<1>11. CASE Steer
  <2>1. left' \in LeftType
    BY <1>11, <1>a, LeftEdits DEF Steer
  <2>2. steer' \in [pc : {"none", "send", "doubt"}, k : {0} \cup Prompts]
    BY <1>11, <1>a DEF Steer
  <2> QED BY <1>11, <1>a, <1>b, <1>c, <2>1, <2>2 DEF Steer, agentVars, queueVars
<1>12. CASE SteerArrives
  <2>1. agent' \in AgentType
    <3>1. Append(agent.inbox, Nobody) \in Seq(Int)
      BY <1>a DEF AgentType, Nobody
    <3> QED BY <1>12, <1>a, <3>1 DEF SteerArrives, AgentType
  <2>2. steer' \in [pc : {"none", "send", "doubt"}, k : {0} \cup Prompts]
    BY <1>12, <1>b DEF SteerArrives
  <2> QED BY <1>12, <1>a, <1>b, <1>c, <2>1, <2>2 DEF SteerArrives, queueVars
<1>13. CASE SteerFails \/ SteerGivenUp \/ SteerSeen
  <2>1. steer' \in [pc : {"none", "send", "doubt"}, k : {0} \cup Prompts]
    BY <1>13, <1>b, <1>s DEF SteerFails, SteerGivenUp, SteerSeen
  <2> QED BY <1>13, <1>a, <1>b, <1>c, <2>1 DEF SteerFails, SteerGivenUp, SteerSeen, agentVars, queueVars
<1> QED
  BY <1>1, <1>2, <1>3, <1>4, <1>5, <1>6, <1>7, <1>8, <1>9, <1>10, <1>11, <1>12, <1>13
  DEF Turn, Steering

LEMMA TypeInit == Init => TypeOK
<1> SUFFICES ASSUME Init PROVE TypeOK
  OBVIOUS
<1>1. agent \in AgentType
  <2>1. <<>> \in Seq(Int)
    OBVIOUS
  <2> QED BY <2>1 DEF Init, AgentType
<1>2. turn \in TurnType /\ TurnAgrees(turn)
  <2>1. <<>> \in Seq(TranscriptRecord)
    OBVIOUS
  <2> QED BY <2>1 DEF Init, NoTurn, TurnType, TurnAgrees, Outcome
<1>3. left \in LeftType
  BY Constants DEF Init, LeftType
<1>4. /\ backend \in Backends /\ shown \in {"ready", "busy"}
      /\ stateQ \in Seq(StateEvent) /\ recordQ \in Seq(TranscriptRecord)
      /\ pending \in BOOLEAN
      /\ steer \in [pc : {"none", "send", "doubt"}, k : {0} \cup Prompts]
  BY DEF Init, NoSteer
<1>5. /\ given \in [Prompts -> Seq(TranscriptRecord)]
      /\ wrote \in [Prompts -> Nat]
      /\ ended \in [Prompts -> {"none", "ok", "failed", "interrupted"}]
      /\ reply \in [Prompts -> Seq(Outcome)]
  BY DEF Init
<1> QED
  BY <1>1, <1>2, <1>3, <1>4, <1>5 DEF TypeOK, AgentType, TurnType, LeftType

LEMMA TypeStep == TypeOK /\ [Next]_vars => TypeOK'
<1> SUFFICES ASSUME TypeOK, [Next]_vars PROVE TypeOK'
  OBVIOUS
<1>1. CASE Next
  BY <1>1, TypeAgent, TypeTurn DEF Next
<1>2. CASE UNCHANGED vars
  BY <1>2 DEF vars, agentVars, queueVars, TypeOK, TurnAgrees
<1> QED
  BY <1>1, <1>2

(* Every variable has its type, for every value of the constants.          *)
THEOREM TypeCorrect == Spec => []TypeOK
<1> QED
  BY TypeInit, TypeStep, PTL DEF Spec

-----------------------------------------------------------------------------
(* Steering.                                                               *)

SteerInv == steer.pc # "none" => turn.k = steer.k /\ turn.pc # "none"

LEMMA SteerStep == TypeOK /\ SteerInv /\ [Next]_vars => SteerInv'
<1> SUFFICES ASSUME TypeOK, SteerInv, [Next]_vars PROVE SteerInv'
  OBVIOUS
<1>a. turn \in TurnType /\ steer \in [pc : {"none", "send", "doubt"}, k : {0} \cup Prompts]
  BY DEF TypeOK, TurnType
<1>b. ASSUME UNCHANGED steer, turn'.k = turn.k, turn.pc # "none" => turn'.pc # "none"
      PROVE  SteerInv'
  BY <1>b DEF SteerInv
<1>c. \A r \in Outcome : Result(turn, r).pc # "none" /\ Result(turn, r).k = turn.k
  BY <1>a, TurnEdits
<1>1. CASE Agent \/ UserInterrupts \/ PaneEnds \/ PromptTyped \/ UNCHANGED vars
  BY <1>1, <1>b DEF Agent, AgentTakes, AgentAnswers, AgentStops, AgentWritesLate, AgentFails,
     AgentContinues, AgentStopsShort, UserInterrupts, PaneEnds, External, PromptTyped, vars
<1>2. CASE Prompt
  BY <1>2 DEF Prompt, SteerInv
<1>3. CASE PromptSent \/ Cancel
  BY <1>3, <1>a, <1>b DEF PromptSent, Cancel, TurnType
<1>4. CASE SendFails \/ TurnCancelled \/ TurnTimesOut \/ Complete
  <2>1. PICK r \in Outcome : turn' = Result(turn, r) /\ UNCHANGED steer
    BY <1>4 DEF SendFails, TurnCancelled, TurnTimesOut, Interrupts, Complete, Outcome
  <2> QED BY <1>b, <1>c, <2>1
<1>5. CASE ReadRecord
  <2>1. Head(recordQ) \in TranscriptRecord
    BY <1>5 DEF ReadRecord, TypeOK
  <2>2. turn' = Heard(turn, Head(recordQ)) /\ UNCHANGED steer
    BY <1>5 DEF ReadRecord
  <2> QED BY <1>a, <1>b, <2>1, <2>2, TurnEdits
<1>6. CASE ReadState
  <2>1. Head(stateQ) \in StateEvent
    BY <1>6 DEF ReadState, TypeOK
  <2>2. turn' = Handled(Head(stateQ)) /\ UNCHANGED steer /\ turn.pc = "run"
    BY <1>6 DEF ReadState
  <2>3. turn'.k = turn.k /\ turn'.pc # "none"
    BY <1>a, <2>1, <2>2 DEF Handled, Result, StateEvent, TurnType
  <2> QED BY <1>b, <2>2, <2>3
<1>7. CASE Release
  BY <1>7 DEF Release, SteerInv
<1>8. CASE Steer
  BY <1>8 DEF Steer, SteerInv
<1>9. CASE SteerArrives \/ SteerFails
  <2>1. steer.pc # "none" /\ steer'.k = steer.k /\ UNCHANGED turn
    BY <1>9, <1>a DEF SteerArrives, SteerFails
  <2> QED BY <2>1 DEF SteerInv
<1>10. CASE SteerSeen \/ SteerGivenUp
  BY <1>10 DEF SteerSeen, SteerGivenUp, NoSteer, SteerInv
<1> QED
  BY <1>1, <1>2, <1>3, <1>4, <1>5, <1>6, <1>7, <1>8, <1>9, <1>10 DEF Next, Turn, Steering

(* No steering text is on its way when a turn other than the one it was    *)
(* sent for runs, however often prompts, steerings and failures interleave *)
(* (the permit of adapter.rs that Release waits for).                      *)
THEOREM SteersEnd == Spec => []SteersEndWithTurn
<1>1. Init => SteerInv
  BY DEF Init, SteerInv, NoSteer
<1>2. SteerInv => SteersEndWithTurn
  BY DEF SteerInv, SteersEndWithTurn
<1> QED
  BY <1>1, <1>2, TypeCorrect, SteerStep, PTL DEF Spec

-----------------------------------------------------------------------------
(* Outcomes.  Adapter and client behave: no prompt before the agent has    *)
(* stopped, no given up text that comes late, and Codex answers only after *)
(* the turn has read the stale states of its start.                        *)

Careful == ~Hasty /\ ~Zombies /\ ~Skewed

Running == turn.pc \in {"send", "run"}
Taken == agent.k = turn.k /\ agent.inbox = <<>>
Final == Taken /\ agent.pc \in {"ready", "late", "gone"}
Untaken ==
  /\ turn.pc = "send" /\ agent.k # turn.k /\ agent.pc \in {"ready", "gone"}
  /\ agent.inbox \in {<<>>, <<turn.k>>}
  /\ \A i \in DOMAIN stateQ : stateQ[i].type = "PaneDestroyed"
  /\ recordQ = <<>> /\ ~turn.answer /\ ~turn.accepted

Asked == MaxPrompts - left.prompts

\* Where the prompt of the turn is, and what the agent works on.
Place ==
  /\ Running => Untaken \/ Taken
  /\ turn.pc = "run" => Taken
  /\ ~Running => agent.inbox = <<>>
  /\ turn.pc = "none" => stateQ = <<>> /\ recordQ = <<>>
  /\ turn.pc # "none" => turn.k = Asked /\ ~pending
  /\ agent.k \in 0..Asked
  /\ agent.pc \in {"busy", "failed", "interrupted", "late"} => agent.k # 0
  /\ agent.pc = "late" => ended[agent.k] = "ok"
  /\ agent.k # 0 => agent.started
  /\ backend = "codex" /\ agent.resumed /\ ~agent.started =>
       pending \/ (turn.pc # "none" /\ turn.gated /\ ~turn.accepted)

\* A ready that says nothing: it follows a failure that is retried, or it
\* precedes the answers of a Codex agent.
Covered(i) == (i = 1 /\ turn.retry) \/ (i > 1 /\ stateQ[i - 1].type = "StopFailure")
Unanswered ==
  /\ backend = "codex" /\ ~turn.answer
  /\ turn.gated \/ \A j \in DOMAIN recordQ : recordQ[j].kind # "answer"

Good == Final /\ ended[turn.k] \in {"ok", "interrupted"}
Bad == Final /\ ended[turn.k] = "failed"

EventTrue(i) ==
  /\ stateQ[i].type = "ready" => Covered(i) \/ Unanswered \/ Good
  /\ stateQ[i].type = "Stop" => Good
  /\ stateQ[i].type = "StopFailure" => stateQ[i].retry \/ Bad

EventsTrue == Running => \A i \in 1..Len(stateQ) : EventTrue(i)

Decided ==
  /\ turn.pc = "drain" => Good
  /\ turn.pc = "over" /\ turn.result = "end_turn" => Good
  /\ turn.pc = "over" /\ turn.result = "failed" => Bad

Replied(k, how) == how \in Range(reply[k])
Closed(k) == agent.k = k => agent.pc \in {"ready", "late", "gone"}

Answered ==
  \A k \in Prompts :
    /\ \A how \in Outcome : Replied(k, how) => k <= Asked /\ (turn.pc # "none" => k # turn.k)
    /\ Replied(k, "end_turn") => Closed(k) /\ ended[k] \in {"ok", "interrupted"}
    /\ Replied(k, "failed") => Closed(k) /\ ended[k] = "failed"

OutcomeInv == TypeOK /\ Place /\ EventsTrue /\ Decided /\ Answered

LEMMA TypeFacts ==
  ASSUME TypeOK
  PROVE  /\ agent \in AgentType /\ turn \in TurnType /\ left \in LeftType
         /\ stateQ \in Seq(StateEvent) /\ recordQ \in Seq(TranscriptRecord)
         /\ ended \in [Prompts -> {"none", "ok", "failed", "interrupted"}]
         /\ reply \in [Prompts -> Seq(Outcome)] /\ pending \in BOOLEAN
         /\ wrote \in [Prompts -> Nat]
         /\ turn.pc # "none" => turn.k \in Prompts
         /\ Asked \in 0..MaxPrompts
<1>1. left \in LeftType
  BY DEF TypeOK, LeftType
<1>2. Asked \in 0..MaxPrompts
  BY <1>1, Constants DEF LeftType, Asked
<1> QED
  BY <1>1, <1>2 DEF TypeOK, TurnAgrees, AgentType, TurnType

(* A finished agent with nothing to do stays finished.                     *)
LEMMA FinalStays ==
  ASSUME TypeOK, Careful, Next, Final, turn.pc # "none", turn'.k = turn.k
  PROVE  Final' /\ UNCHANGED ended
<1>a. agent \in AgentType /\ agent.inbox = <<>> /\ agent.k = turn.k
      /\ agent.pc \in {"ready", "late", "gone"}
  BY TypeFacts DEF Final, Taken
<1>1. ASSUME UNCHANGED <<agent, ended>> PROVE Final' /\ UNCHANGED ended
  BY <1>1 DEF Final, Taken
<1>2. CASE AgentWritesLate \/ PaneEnds
  BY <1>2, <1>a DEF AgentWritesLate, PaneEnds, External, Final, Taken, AgentType
<1>3. CASE SendFails \/ TurnCancelled \/ TurnTimesOut
  <2>1. agent' = agent /\ UNCHANGED ended
    BY <1>3, <1>a DEF SendFails, TurnCancelled, TurnTimesOut, Interrupts, Interrupted, AgentType
  <2> QED BY <1>1, <2>1
<1>4. CASE \/ Prompt \/ PromptSent \/ Cancel \/ ReadRecord \/ ReadState \/ Complete \/ Release
           \/ Steer \/ SteerFails \/ SteerSeen \/ SteerGivenUp
  BY <1>1, <1>4 DEF Prompt, PromptSent, Cancel, ReadRecord, ReadState, Complete, Release, Steer,
     SteerFails, SteerSeen, SteerGivenUp, agentVars
<1>5. ASSUME \/ AgentTakes \/ AgentAnswers \/ AgentStops \/ AgentFails \/ AgentContinues
             \/ AgentStopsShort \/ UserInterrupts \/ PromptTyped \/ SteerArrives
      PROVE  FALSE
  BY <1>5, <1>a DEF AgentTakes, AgentAnswers, AgentStops, AgentFails, AgentContinues, Careful,
     AgentStopsShort, UserInterrupts, PromptTyped, SteerArrives
<1> QED
  BY <1>2, <1>3, <1>4, <1>5 DEF Next, Agent, Turn, Steering

(* Events that are published follow those that were.                       *)
LEMMA Published ==
  ASSUME TypeOK, NEW es \in Seq(StateEvent), Publish(es), Running
  PROVE  /\ Len(stateQ') = Len(stateQ) + Len(es) /\ Len(stateQ) \in Nat /\ Len(es) \in Nat
         /\ \A i \in 1..Len(stateQ') :
              /\ i <= Len(stateQ) => i \in 1..Len(stateQ) /\ stateQ'[i] = stateQ[i]
              /\ i > Len(stateQ) =>
                   i - Len(stateQ) \in 1..Len(es) /\ stateQ'[i] = es[i - Len(stateQ)]
<1>1. stateQ \in Seq(StateEvent) /\ stateQ' = stateQ \o es
  BY TypeFacts DEF Publish, Subscribed, Running
<1> QED
  BY <1>1

LEMMA PlaceAgent ==
  ASSUME OutcomeInv, Careful, Agent \/ UserInterrupts \/ PaneEnds
  PROVE  Place'
<1>a. /\ agent \in AgentType /\ turn \in TurnType /\ stateQ \in Seq(StateEvent) /\ Place
      /\ ended \in [Prompts -> {"none", "ok", "failed", "interrupted"}]
      /\ Asked \in 0..MaxPrompts /\ (turn.pc # "none" => turn.k \in Prompts)
      /\ Prompts = 1..MaxPrompts /\ MaxPrompts \in Nat
      /\ UNCHANGED <<backend, turn, pending>> /\ TypeOK
  BY TypeFacts, Constants DEF OutcomeInv, Agent, AgentTakes, AgentAnswers, AgentStops,
     AgentWritesLate, AgentFails, AgentContinues, AgentStopsShort, UserInterrupts, PaneEnds, External
<1>b. Asked' = Asked
  BY <1>a, TypeFacts DEF Agent, AgentTakes, AgentAnswers, AgentStops, AgentWritesLate, AgentFails,
     AgentContinues, AgentStopsShort, UserInterrupts, PaneEnds, Trouble, Asked, LeftType
<1>c. turn.pc = "none" => UNCHANGED <<stateQ, recordQ>>
  BY DEF Agent, AgentTakes, AgentAnswers, AgentStops, AgentWritesLate, AgentFails,
     AgentContinues, AgentStopsShort, UserInterrupts, PaneEnds, Publish, Write, Subscribed, queueVars
<1>d. ASSUME agent' \in AgentType, agent'.k = agent.k, agent'.inbox = agent.inbox,
             agent'.started = agent.started, agent'.resumed = agent.resumed, Taken,
             agent'.pc = "late" => ended'[agent.k] = "ok",
             agent'.pc \in {"busy", "failed", "interrupted", "late"} => agent.k # 0
      PROVE  Place'
  BY <1>a, <1>b, <1>c, <1>d DEF Place, Taken, Running
<1>e. agent.pc \in {"busy", "failed", "interrupted", "late"} => agent.k # 0
  BY <1>a DEF Place
<1>1. CASE AgentTakes
  <2>1. turn.pc = "send" /\ agent.inbox = <<turn.k>> /\ Untaken
    BY <1>a, <1>1 DEF AgentTakes, Place, Untaken, Taken, Running, TurnType
  <2>2. Head(agent.inbox) = turn.k /\ Tail(agent.inbox) = <<>>
    BY <2>1
  <2>3. /\ agent'.k = turn.k /\ agent'.inbox = <<>> /\ agent'.pc = "busy" /\ agent'.started
        /\ agent'.resumed = agent.resumed
    BY <1>1, <1>a, <2>2 DEF AgentTakes, AgentType
  <2> QED BY <1>a, <1>b, <2>1, <2>3 DEF Place, Taken, Running
<1>2. CASE PaneEnds
  <2>1. /\ agent'.pc = "gone" /\ agent'.k = agent.k /\ agent'.inbox = <<>>
        /\ agent'.started = agent.started /\ agent'.resumed = agent.resumed
    BY <1>2, <1>a DEF PaneEnds, AgentType
  <2>2. Taken => Taken'
    BY <1>a, <2>1 DEF Taken
  <2>3. Running /\ Untaken => Untaken'
    <3>1. SUFFICES ASSUME Running, Untaken PROVE Untaken'
      OBVIOUS
    <3>2. \A i \in DOMAIN stateQ' : stateQ'[i].type = "PaneDestroyed"
      <4>1. <<Event("PaneDestroyed")>> \in Seq(StateEvent)
        BY Events
      <4>2. stateQ' = stateQ \o <<Event("PaneDestroyed")>>
        BY <1>2, <3>1 DEF PaneEnds, Publish, Subscribed, Running
      <4>3. Event("PaneDestroyed").type = "PaneDestroyed"
        BY DEF Event
      <4> QED BY <1>a, <3>1, <4>1, <4>2, <4>3 DEF Untaken
    <3> QED BY <1>2, <1>a, <2>1, <3>1, <3>2 DEF PaneEnds, Untaken
  <2> QED BY <1>a, <1>b, <1>c, <2>1, <2>2, <2>3 DEF Place, Running
<1>3. CASE UserInterrupts
  <2>1. agent' = [agent EXCEPT !.pc = "interrupted"] /\ agent.pc = "busy"
    BY <1>3 DEF UserInterrupts, Interrupted
  <2>2. CASE Taken
    BY <1>a, <1>d, <1>e, <2>1, <2>2 DEF AgentType
  <2>3. CASE ~Taken
    <3>1. ~Running /\ ~Running' /\ agent.inbox = <<>>
      BY <1>a, <2>1, <2>3 DEF Place, Untaken, Running
    <3> QED BY <1>a, <1>b, <1>c, <1>e, <2>1, <3>1 DEF Place, Running, AgentType
  <2> QED BY <2>2, <2>3
<1>4. ASSUME \/ AgentAnswers \/ AgentStops \/ AgentWritesLate \/ AgentFails \/ AgentContinues
             \/ AgentStopsShort
      PROVE  Place'
  <2>1. /\ agent.pc \in {"busy", "failed", "interrupted", "late"}
        /\ agent'.k = agent.k /\ agent'.inbox = agent.inbox
        /\ agent'.started = agent.started /\ agent'.resumed = agent.resumed
        /\ agent'.pc \in {"ready", "busy", "late", "failed"}
    BY <1>4, <1>a DEF AgentAnswers, Answers, AgentStops, AgentWritesLate, AgentFails,
       AgentContinues, AgentStopsShort, AgentType
  <2>2. agent.k \in Prompts
    BY <1>a, <1>e, <2>1 DEF Place
  <2>3. agent'.pc = "late" => ended'[agent.k] = "ok"
    BY <1>4, <1>a, <2>1, <2>2 DEF AgentAnswers, Answers, AgentStops, AgentWritesLate, AgentFails,
       AgentContinues, AgentStopsShort, AgentType, Ends
  <2>4. Running => Taken
    BY <1>a, <2>1 DEF Place, Untaken
  <2> QED BY <1>a, <1>b, <1>c, <1>e, <2>1, <2>3, <2>4 DEF Place, Taken, Running
<1> QED
  BY <1>1, <1>2, <1>3, <1>4 DEF Agent

LEMMA PlaceTurn ==
  ASSUME OutcomeInv, Careful,
         \/ Prompt \/ Turn \/ SendFails \/ Cancel \/ TurnTimesOut
         \/ Steer \/ Steering \/ SteerSeen
  PROVE  Place'
<1>a. /\ agent \in AgentType /\ turn \in TurnType /\ Place /\ TypeOK
      /\ stateQ \in Seq(StateEvent) /\ recordQ \in Seq(TranscriptRecord)
      /\ Asked \in 0..MaxPrompts /\ (turn.pc # "none" => turn.k \in Prompts)
      /\ Prompts = 1..MaxPrompts /\ MaxPrompts \in Nat /\ left \in LeftType
  BY TypeFacts, Constants DEF OutcomeInv
<1>b. ASSUME \/ PromptTyped \/ PromptSent \/ ReadRecord \/ ReadState \/ TurnCancelled
             \/ Complete \/ Release \/ SendFails \/ Cancel \/ TurnTimesOut \/ Steer
             \/ SteerArrives \/ SteerFails \/ SteerGivenUp \/ SteerSeen
      PROVE  Asked' = Asked
  BY <1>a, <1>b DEF PromptTyped, PromptSent, ReadRecord, ReadState, TurnCancelled, Interrupts,
     Complete, Release, SendFails, Cancel, TurnTimesOut, Steer, SteerArrives,
     SteerFails, SteerGivenUp, SteerSeen, Trouble, Asked, LeftType, agentVars
<1>1. CASE Prompt
  <2>1. Asked' = Asked + 1 /\ turn'.k = Asked + 1
    BY <1>1, <1>a DEF Prompt, Asked, LeftType, NoTurn
  <2>2. /\ turn'.pc = "send" /\ ~turn'.answer /\ ~turn'.accepted
        /\ turn'.gated = (backend = "codex" /\ pending)
    BY <1>1 DEF Prompt, NoTurn
  <2>3. /\ agent.pc \in {"ready", "gone"} /\ agent.inbox = <<>> /\ UNCHANGED <<agent, ended, backend>>
        /\ ~pending' /\ turn.pc = "none" /\ UNCHANGED <<stateQ, recordQ>>
    BY <1>1 DEF Prompt, Settled, Careful, agentVars, queueVars
  <2>4. stateQ' = <<>> /\ recordQ' = <<>> /\ agent.k # turn'.k /\ agent.k \in 0..Asked'
    BY <1>a, <2>1, <2>3 DEF Place
  <2>5. Untaken'
    BY <2>2, <2>3, <2>4 DEF Untaken
  <2>6. turn'.k = Asked'
    BY <2>1
  <2> QED BY <1>a, <2>2, <2>3, <2>4, <2>5, <2>6 DEF Place, Running
<1>2. CASE PromptTyped
  <2>1. Untaken /\ turn.pc = "send"
    BY <1>2, <1>a DEF PromptTyped, Place, Taken, Running
  <2>2. agent.inbox = <<>>
    <3>1. turn.k \in Range(<<turn.k>>)
      BY DEF Range
    <3> QED BY <1>2, <2>1, <3>1 DEF PromptTyped, Untaken
  <2>3. /\ agent'.inbox = <<turn.k>> /\ agent'.k = agent.k /\ agent'.pc = agent.pc
        /\ agent'.started = agent.started /\ agent'.resumed = agent.resumed
    BY <1>2, <1>a, <2>2 DEF PromptTyped, AgentType
  <2>4. Untaken'
    BY <1>2, <2>1, <2>3 DEF PromptTyped, Untaken, queueVars
  <2> QED BY <1>2, <1>a, <1>b, <2>1, <2>3, <2>4 DEF PromptTyped, Place, Running, queueVars
<1>3. CASE PromptSent
  <2>1. Taken /\ Taken' /\ turn'.pc = "run" /\ turn'.k = turn.k /\ turn'.gated = turn.gated
    BY <1>3, <1>a DEF PromptSent, Place, Untaken, Taken, Running, TurnType, agentVars
  <2>2. agent.started
    BY <1>a, <2>1, <1>3 DEF Place, Taken, PromptSent
  <2> QED BY <1>3, <1>a, <1>b, <2>1, <2>2 DEF PromptSent, Place, Running, agentVars, queueVars
<1>4. CASE SendFails \/ TurnCancelled \/ TurnTimesOut
  <2>1. /\ turn'.pc = "over" /\ turn'.k = turn.k /\ turn'.gated = turn.gated
        /\ turn'.accepted = turn.accepted /\ Running
    BY <1>4, <1>a DEF SendFails, TurnCancelled, TurnTimesOut, Interrupts, Result, TurnType, Running
  <2>2. agent' = IF agent.k = turn.k THEN Interrupted ELSE Unsent
    BY <1>4 DEF SendFails, TurnCancelled, TurnTimesOut, Interrupts
  <2>3. /\ agent'.inbox = <<>> /\ agent'.k = agent.k
        /\ agent'.started = agent.started /\ agent'.resumed = agent.resumed
        /\ agent'.pc \in {agent.pc, "interrupted"}
        /\ agent'.pc # agent.pc => agent.pc \in {"busy", "failed"}
    BY <1>a, <2>1, <2>2 DEF Interrupted, Unsent, Careful, Place, Untaken, Taken, AgentType
  <2>4. UNCHANGED <<backend, pending, ended>>
    BY <1>4 DEF SendFails, TurnCancelled, TurnTimesOut, Interrupts
  <2> QED BY <1>a, <1>b, <2>1, <2>3, <2>4, <1>4
          DEF Place, Running, SendFails, TurnCancelled, TurnTimesOut
<1>5. ASSUME UNCHANGED <<agent, ended, backend, pending, turn, stateQ, recordQ>>, Asked' = Asked
      PROVE  Place'
  BY <1>a, <1>b, <1>5 DEF Place, Running, Taken, Untaken
<1>6. CASE Steer \/ Steering \/ SteerSeen
  <2>1. agent' = agent
    BY <1>6, <1>a DEF Steer, Steering, SteerArrives, SteerFails, SteerGivenUp, SteerSeen,
       agentVars, Careful
  <2>2. Asked' = Asked
    BY <1>b, <1>6 DEF Steering
  <2> QED BY <1>5, <1>6, <2>1, <2>2 DEF Steer, Steering, SteerArrives, SteerFails, SteerGivenUp,
          SteerSeen, agentVars, queueVars
<1>7. CASE Cancel
  BY <1>7, <1>a, <1>b DEF Cancel, agentVars, queueVars, Place, Running, Taken, Untaken, TurnType
<1>8. CASE ReadRecord
  <2>1. Head(recordQ) \in TranscriptRecord /\ recordQ # <<>>
    BY <1>8, <1>a DEF ReadRecord
  <2>2. /\ turn'.pc = turn.pc /\ turn'.k = turn.k /\ turn'.gated = turn.gated
        /\ turn'.accepted = turn.accepted
    BY <1>8, <1>a, <2>1 DEF ReadRecord, Heard, Gated, TurnType
  <2>3. Running => Taken
    BY <1>a, <2>1 DEF Place, Untaken
  <2> QED BY <1>8, <1>a, <1>b, <2>2, <2>3 DEF ReadRecord, agentVars, Place, Running, Taken
<1>9. CASE ReadState
  <2>1. Head(stateQ) \in StateEvent
    BY <1>8, <1>9, <1>a DEF ReadState
  <2>2. /\ turn'.pc \in {"run", "drain", "over"} /\ turn'.k = turn.k /\ turn'.gated = turn.gated
        /\ turn'.accepted = turn.accepted
    <3>1. turn' = Handled(Head(stateQ)) /\ turn.pc = "run"
      BY <1>9 DEF ReadState
    <3> QED BY <1>a, <2>1, <3>1 DEF Handled, Result, StateEvent, TurnType
  <2>3. Taken
    BY <1>9, <1>a DEF ReadState, Place
  <2> QED BY <1>9, <1>a, <1>b, <2>2, <2>3 DEF ReadState, agentVars, Place, Running, Taken
<1>10. CASE Complete
  BY <1>10, <1>a, <1>b DEF Complete, Result, agentVars, queueVars, Place, Running, TurnType
<1>11. CASE Release
  <2>1. turn'.pc = "none" /\ pending' = (pending \/ (turn.gated /\ ~turn.accepted))
    BY <1>11 DEF Release, NoTurn
  <2> QED BY <1>11, <1>a, <1>b, <2>1 DEF Release, agentVars, Place, Running
<1> QED
  BY <1>1, <1>2, <1>3, <1>4, <1>6, <1>7, <1>8, <1>9, <1>10, <1>11 DEF Turn

\* Places behind the l events that are waiting, of the one or two that come.
LEMMA Places ==
  ASSUME NEW l \in Nat, NEW e \in 1..2, NEW i \in 1..(l + e)
  PROVE  /\ i <= l \/ i = l + 1 \/ i = l + 2
         /\ i = l + 2 => /\ i - 1 \in 1..(l + e) /\ i - 1 > l /\ (i - 1) - l = 1
                         /\ i > l /\ i - l = 2 /\ i > 1 /\ e = 2
OBVIOUS

(* What an event says stays true when the agent goes on.                   *)
LEMMA EventsAgent ==
  ASSUME OutcomeInv, Careful, Place', Agent \/ UserInterrupts \/ PaneEnds
  PROVE  EventsTrue'
<1> SUFFICES ASSUME Running PROVE \A i \in 1..Len(stateQ') : EventTrue(i)'
  BY DEF EventsTrue, Running, Agent, AgentTakes, AgentAnswers, AgentStops, AgentWritesLate,
     AgentFails, AgentContinues, AgentStopsShort, UserInterrupts, PaneEnds, External
<1>a. /\ agent \in AgentType /\ turn \in TurnType /\ Place /\ TypeOK
      /\ stateQ \in Seq(StateEvent) /\ recordQ \in Seq(TranscriptRecord)
      /\ ended \in [Prompts -> {"none", "ok", "failed", "interrupted"}]
      /\ turn.k \in Prompts /\ EventsTrue /\ Subscribed
      /\ UNCHANGED <<backend, turn>>
  BY TypeFacts DEF OutcomeInv, Running, Subscribed, Agent, AgentTakes, AgentAnswers, AgentStops,
     AgentWritesLate, AgentFails, AgentContinues, AgentStopsShort, UserInterrupts, PaneEnds, External
<1>g. (Good => Good') /\ (Bad => Bad')
  <2>1. Next /\ turn.pc # "none" /\ turn'.k = turn.k
    BY <1>a DEF Next, Running
  <2> QED BY <1>a, <2>1, FinalStays DEF Good, Bad
<1> DEFINE StaysTrue == stateQ = <<>> \/ (Unanswered => Unanswered' \/ Good')
\* The events that are waiting: what covered one covers it.
<1>o. ASSUME NEW es \in Seq(StateEvent), Publish(es), NEW i \in 1..Len(stateQ), StaysTrue
      PROVE  EventTrue(i)'
  <2>1. Len(stateQ) \in Nat /\ Len(es) \in Nat /\ Len(stateQ') = Len(stateQ) + Len(es)
    BY <1>a, <1>o, Published
  <2>2. i \in 1..Len(stateQ') /\ i <= Len(stateQ) /\ stateQ'[i] = stateQ[i]
    BY <1>a, <1>o, <2>1, Published
  <2>3. Covered(i) => Covered(i)'
    <3>1. i > 1 => i - 1 \in 1..Len(stateQ') /\ i - 1 <= Len(stateQ)
      BY <2>1, <2>2
    <3>2. i > 1 => stateQ'[i - 1] = stateQ[i - 1]
      BY <1>a, <1>o, <3>1, Published
    <3> QED BY <1>a, <3>2 DEF Covered
  <2> QED BY <1>a, <1>g, <1>o, <2>2, <2>3 DEF EventTrue, EventsTrue
<1>n. ASSUME NEW es \in Seq(StateEvent), Publish(es), StaysTrue,
             \A i \in Nat : \A j \in 1..Len(es) : stateQ'[i] = es[j] => EventTrue(i)'
      PROVE  \A i \in 1..Len(stateQ') : EventTrue(i)'
  <2> SUFFICES ASSUME NEW i \in 1..Len(stateQ') PROVE EventTrue(i)'
    OBVIOUS
  <2>1. Len(stateQ) \in Nat /\ Len(es) \in Nat /\ Len(stateQ') = Len(stateQ) + Len(es)
    BY <1>a, <1>n, Published
  <2>2. CASE i <= Len(stateQ)
    BY <1>n, <1>o, <2>1, <2>2
  <2>3. CASE i > Len(stateQ)
    <3>1. i - Len(stateQ) \in 1..Len(es) /\ stateQ'[i] = es[i - Len(stateQ)]
      BY <1>a, <1>n, <2>3, Published
    <3>2. i \in Nat
      BY <2>1
    <3> QED BY <1>n, <3>1, <3>2
  <2> QED BY <2>1, <2>2, <2>3
\* Events that say nothing of an outcome.
<1>p. ASSUME NEW s \in {"busy", "PaneDestroyed"}, NEW es \in {<<>>, <<Event(s)>>}, Publish(es),
             StaysTrue
      PROVE  \A i \in 1..Len(stateQ') : EventTrue(i)'
  <2>1. es \in Seq(StateEvent)
    <3>1. Event(s) \in StateEvent
      BY Events
    <3>2. <<>> \in Seq(StateEvent) /\ <<Event(s)>> \in Seq(StateEvent)
      BY <3>1
    <3> QED BY <1>p, <3>2
  <2>2. \A j \in 1..Len(es) : es[j].type = s
    BY <1>p DEF Event
  <2>3. \A i \in Nat : \A j \in 1..Len(es) : stateQ'[i] = es[j] => EventTrue(i)'
    BY <2>2 DEF EventTrue
  <2> QED BY <1>n, <1>p, <2>1, <2>3
<1>s. \A s \in {"busy", "ready"} : Show(s) \in {<<>>, <<Event(s)>>}
  BY DEF Show
<1>u. UNCHANGED recordQ => (Unanswered => Unanswered')
  BY <1>a DEF Unanswered
<1>1. CASE AgentTakes
  <2> DEFINE k == Head(agent.inbox)
             first == backend = "codex" /\ ~agent.started
             es == Show("busy") \o (IF first THEN <<Event("ready")>> ELSE <<>>)
  <2>1. Untaken /\ agent.inbox # <<>>
    BY <1>1, <1>a DEF AgentTakes, Place, Taken, Untaken
  <2>2. backend = "codex" => Unanswered'
    <3>1. PICK same \in BOOLEAN :
            Write((IF first /\ agent.resumed
                   THEN <<Record("user", IF same THEN k ELSE History, 0), Record("answer", History, 1)>>
                   ELSE <<>>) \o <<Record("user", k, 0)>>)
      BY <1>1 DEF AgentTakes
    <3>2. first /\ agent.resumed => turn.gated
      BY <1>a DEF Place, Running
    <3>3. CASE first /\ agent.resumed
      BY <1>a, <2>1, <3>2, <3>3 DEF Unanswered, Untaken
    <3>4. CASE ~(first /\ agent.resumed)
      <4>1. recordQ' = <<>> \o (<<>> \o <<Record("user", k, 0)>>)
        BY <1>a, <2>1, <3>1, <3>4 DEF Write, Untaken
      <4>2. Record("user", k, 0).kind = "user"
        BY DEF Record
      <4>3. recordQ' = <<Record("user", k, 0)>>
        BY <4>1
      <4>4. \A j \in DOMAIN recordQ' : recordQ'[j].kind # "answer"
        BY <4>2, <4>3
      <4> QED BY <1>a, <2>1, <4>4 DEF Unanswered, Untaken
    <3> QED BY <3>3, <3>4
  <2>3. es \in Seq(StateEvent) /\ Publish(es)
    <3>1. Show("busy") \in Seq(StateEvent) /\ <<Event("ready")>> \in Seq(StateEvent)
      BY Events
    <3>2. Publish(es)
      BY <1>1 DEF AgentTakes
    <3> QED BY <3>1, <3>2
  <2>4. \A j \in 1..Len(es) : es[j].type = "busy" \/ (es[j].type = "ready" /\ backend = "codex")
    BY <1>s DEF Event
  <2>5. \A i \in Nat : \A j \in 1..Len(es) : stateQ'[i] = es[j] => EventTrue(i)'
    BY <2>2, <2>4 DEF EventTrue
  <2>6. StaysTrue
    BY <2>2 DEF Unanswered
  <2> HIDE DEF es
  <2> QED BY <1>n, <2>3, <2>5, <2>6
<1>2. CASE AgentAnswers
  <2>1. Publish(Show("busy"))
    BY <1>2 DEF AgentAnswers
  <2>2. backend = "codex" => stateQ = <<>>
    BY <1>2 DEF AgentAnswers, Careful, Running
  <2>3. StaysTrue
    BY <2>2 DEF Unanswered
  <2> QED BY <1>p, <1>s, <2>1, <2>3
<1>3. CASE AgentStops
  <2> DEFINE es == Show("ready") \o <<Event("Stop")>>
  <2>1. agent.pc = "busy" /\ Taken
    BY <1>3, <1>a DEF AgentStops, Place, Untaken
  <2>2. Good'
    BY <1>3, <1>a, <2>1 DEF AgentStops, Ends, Good, Final, Taken, AgentType
  <2>3. es \in Seq(StateEvent) /\ Publish(es)
    BY <1>3, Events DEF AgentStops
  <2>4. \A j \in 1..Len(es) : es[j].type \in {"ready", "Stop"}
    BY <1>s DEF Event
  <2>5. \A i \in Nat : \A j \in 1..Len(es) : stateQ'[i] = es[j] => EventTrue(i)'
    BY <2>2, <2>4 DEF EventTrue
  <2> HIDE DEF es
  <2> QED BY <1>n, <2>2, <2>3, <2>5
<1>4. CASE AgentWritesLate
  <2>1. agent.pc = "late" /\ Taken /\ ended[agent.k] = "ok"
    BY <1>4, <1>a DEF AgentWritesLate, Place, Untaken
  <2>2. Good
    BY <2>1 DEF Good, Final, Taken
  <2>3. Publish(<<>>)
    BY <1>4, <1>a DEF AgentWritesLate, Publish
  <2> QED BY <1>g, <1>p, <2>2, <2>3
<1>5. CASE AgentFails
  <2>1. agent.pc = "busy" /\ Taken
    BY <1>5, <1>a DEF AgentFails, Place, Untaken
  <2>2. PICK retry \in BOOLEAN :
          /\ Publish(FailureFirst(retry))
          /\ agent' = [agent EXCEPT !.pc = IF retry THEN "failed" ELSE "ready", !.tries = @ + 1]
    <3>1. (agent.tries < left.retries) \in BOOLEAN
      OBVIOUS
    <3> QED BY <1>5, <3>1 DEF AgentFails
  <2>3. ~retry => Bad'
    BY <1>5, <1>a, <2>1, <2>2 DEF AgentFails, Ends, Bad, Final, Taken, AgentType
  <2> DEFINE es == FailureFirst(retry)
  <2>4. Failure(retry) \in Seq(StateEvent)
    <3>1. [type |-> "StopFailure", retry |-> retry] \in StateEvent
      BY Events
    <3> QED BY <3>1 DEF Failure
  <2>5. es \in Seq(StateEvent)
    BY <2>4, Events DEF FailureFirst
  <2>6. /\ Len(es) \in 1..2 /\ es[1] = [type |-> "StopFailure", retry |-> retry]
        /\ Len(es) = 2 => es[2] = Event("ready")
    <3>1. es = <<[type |-> "StopFailure", retry |-> retry]>> \o Show("ready")
      BY DEF FailureFirst, Failure
    <3>2. CASE Show("ready") = <<>>
      BY <3>1, <3>2
    <3>3. CASE Show("ready") = <<Event("ready")>>
      BY <3>1, <3>3
    <3> QED BY <1>s, <3>2, <3>3
  <2>7. UNCHANGED recordQ
    BY <1>5 DEF AgentFails
  <2> HIDE DEF es
  <2>8. ASSUME NEW i \in 1..Len(stateQ') PROVE EventTrue(i)'
    <3>1. Len(stateQ) \in Nat /\ Len(stateQ') = Len(stateQ) + Len(es)
      BY <1>a, <2>2, <2>5, Published DEF es
    <3>5. Len(es) \in 1..2 /\ i \in 1..(Len(stateQ) + Len(es))
      BY <2>6, <2>8, <3>1
    <3>2. CASE i <= Len(stateQ)
      BY <1>o, <1>u, <2>2, <2>5, <2>7, <3>1, <3>2 DEF es
    <3>3. CASE i = Len(stateQ) + 1
      <4>1. i - Len(stateQ) = 1
        BY <3>1, <3>3
      <4>2. stateQ'[i] = es[1]
        BY <1>a, <2>2, <2>5, <3>1, <3>3, <4>1, Published DEF es
      <4> QED BY <2>3, <2>6, <4>2 DEF EventTrue
    <3>4. CASE i = Len(stateQ) + 2
      <4>1. /\ i - 1 \in 1..Len(stateQ') /\ i - 1 > Len(stateQ) /\ (i - 1) - Len(stateQ) = 1
            /\ i > Len(stateQ) /\ i - Len(stateQ) = 2 /\ i > 1 /\ Len(es) = 2
        BY <3>1, <3>4, <3>5, Places
      <4>2. /\ \A n \in 1..Len(stateQ') : n > Len(stateQ) => stateQ'[n] = es[n - Len(stateQ)]
        BY <1>a, <2>2, <2>5, Published DEF es
      <4>4. stateQ'[i - 1] = es[1] /\ stateQ'[i] = es[2]
        BY <4>1, <4>2
      <4>3. Covered(i)'
        BY <2>6, <4>1, <4>4 DEF Covered
      <4> QED BY <2>6, <4>1, <4>3, <4>4 DEF EventTrue, Event
    <3> QED BY <3>1, <3>2, <3>3, <3>4, <3>5, Places
  <2> QED BY <2>8
<1>6. CASE AgentContinues
  <2>1. Publish(Show("busy")) /\ UNCHANGED recordQ
    BY <1>6 DEF AgentContinues
  <2> QED BY <1>p, <1>s, <1>u, <2>1
<1>7. CASE AgentStopsShort
  <2>1. agent.pc = "interrupted" /\ Taken
    BY <1>7, <1>a DEF AgentStopsShort, Place, Untaken
  <2>2. Good'
    BY <1>7, <1>a, <2>1 DEF AgentStopsShort, Ends, Good, Final, Taken, AgentType
  <2>3. Show("ready") \in Seq(StateEvent) /\ Publish(Show("ready"))
    BY <1>7, Events DEF AgentStopsShort
  <2>4. \A j \in 1..Len(Show("ready")) : Show("ready")[j].type = "ready"
    BY <1>s DEF Event
  <2>5. \A i \in Nat : \A j \in 1..Len(Show("ready")) :
          stateQ'[i] = Show("ready")[j] => EventTrue(i)'
    BY <2>2, <2>4 DEF EventTrue
  <2> QED BY <1>n, <2>2, <2>3, <2>5
<1>8. CASE UserInterrupts
  <2>1. Publish(<<>>) /\ UNCHANGED recordQ
    BY <1>8, <1>a DEF UserInterrupts, Publish, queueVars
  <2> QED BY <1>p, <1>u, <2>1
<1>9. CASE PaneEnds
  <2>1. Publish(<<Event("PaneDestroyed")>>) /\ UNCHANGED recordQ
    BY <1>9 DEF PaneEnds
  <2> QED BY <1>p, <1>u, <2>1
<1> QED
  BY <1>1, <1>2, <1>3, <1>4, <1>5, <1>6, <1>7, <1>8, <1>9 DEF Agent

LEMMA EventsTurn ==
  ASSUME OutcomeInv, Careful,
         \/ Prompt \/ Turn \/ SendFails \/ Cancel \/ TurnTimesOut
         \/ Steer \/ Steering \/ SteerSeen
  PROVE  EventsTrue'
<1> SUFFICES ASSUME Running' PROVE \A i \in 1..Len(stateQ') : EventTrue(i)'
  BY DEF EventsTrue
<1>a. /\ agent \in AgentType /\ turn \in TurnType /\ Place /\ TypeOK
      /\ stateQ \in Seq(StateEvent) /\ recordQ \in Seq(TranscriptRecord)
      /\ EventsTrue
  BY TypeFacts DEF OutcomeInv
<1>t. Next
  BY DEF Next
<1>g. ASSUME turn.pc # "none", turn'.k = turn.k PROVE (Good => Good') /\ (Bad => Bad')
  BY <1>a, <1>g, <1>t, FinalStays DEF Good, Bad
\* The queue of events is as it was.
<1>k. ASSUME Running, UNCHANGED <<backend, stateQ>>, turn'.k = turn.k, turn'.retry = turn.retry,
             Unanswered => Unanswered'
      PROVE  \A i \in 1..Len(stateQ') : EventTrue(i)'
  <2>1. ASSUME NEW i \in 1..Len(stateQ) PROVE EventTrue(i) => EventTrue(i)'
    <3>1. (Good => Good') /\ (Bad => Bad')
      BY <1>g, <1>k DEF Running
    <3> QED BY <1>k, <3>1 DEF EventTrue, Covered
  <2> QED BY <1>a, <1>k, <2>1 DEF EventsTrue
<1>1. CASE Prompt
  <2>1. stateQ' = <<>>
    BY <1>1, <1>a DEF Prompt, queueVars, Place
  <2> QED BY <2>1
<1>2. CASE PromptTyped
  BY <1>2, <1>k DEF PromptTyped, queueVars, Running, Unanswered
<1>3. CASE PromptSent \/ Cancel
  <2>1. /\ turn'.k = turn.k /\ turn'.retry = turn.retry /\ turn'.answer = turn.answer
        /\ turn'.gated = turn.gated /\ Running
    BY <1>3, <1>a DEF PromptSent, Cancel, TurnType, Running
  <2> QED BY <1>3, <1>k, <2>1 DEF PromptSent, Cancel, queueVars, Unanswered
<1>4. CASE SendFails \/ TurnCancelled \/ TurnTimesOut \/ Complete \/ Release
  <2>1. turn' = NoTurn \/ \E r \in Outcome : turn' = Result(turn, r)
    BY <1>4 DEF SendFails, TurnCancelled, TurnTimesOut, Interrupts, Complete, Release, Outcome
  <2>2. turn'.pc \in {"none", "over"}
    BY <1>a, <2>1, TurnEdits DEF NoTurn
  <2> QED BY <2>2 DEF Running
<1>5. CASE ReadRecord
  <2>1. Head(recordQ) \in TranscriptRecord /\ recordQ # <<>> /\ turn' = Heard(turn, Head(recordQ))
        /\ recordQ' = Tail(recordQ)
    BY <1>5, <1>a DEF ReadRecord
  <2>2. /\ turn'.pc = turn.pc /\ turn'.k = turn.k /\ turn'.retry = turn.retry
        /\ turn'.gated = turn.gated
        /\ turn'.answer => turn.answer \/ (~turn.gated /\ Head(recordQ).kind = "answer")
    BY <1>a, <2>1 DEF Heard, Gated, TurnType
  <2>3. \A j \in DOMAIN recordQ' : j + 1 \in DOMAIN recordQ /\ recordQ'[j] = recordQ[j + 1]
    BY <1>a, <2>1
  <2>4. 1 \in DOMAIN recordQ /\ Head(recordQ) = recordQ[1]
    BY <1>a, <2>1
  <2>5. Unanswered => Unanswered'
    BY <1>5, <2>2, <2>3, <2>4 DEF ReadRecord, Unanswered
  <2> QED BY <1>5, <1>k, <2>2, <2>5 DEF ReadRecord, Running
<1>6. CASE ReadState
  <2>1. /\ Head(stateQ) \in StateEvent /\ stateQ # <<>> /\ turn' = Handled(Head(stateQ))
        /\ stateQ' = Tail(stateQ) /\ turn.pc = "run" /\ UNCHANGED <<recordQ, backend>>
    BY <1>6, <1>a DEF ReadState
  <2>2. 1 \in 1..Len(stateQ) /\ Head(stateQ) = stateQ[1] /\ Len(stateQ') = Len(stateQ) - 1
        /\ Len(stateQ) \in Nat
    BY <1>a, <2>1
  <2>3. /\ turn'.k = turn.k /\ turn'.answer = turn.answer /\ turn'.gated = turn.gated
        /\ stateQ[1].type = "StopFailure" => turn'.retry
    BY <1>a, <2>1, <2>2 DEF Handled, Result, StateEvent, TurnType, Running
  <2>4. Unanswered => Unanswered'
    BY <2>1, <2>3 DEF Unanswered
  <2>5. (Good => Good') /\ (Bad => Bad')
    BY <1>g, <2>1, <2>3
  <2>6. ASSUME NEW i \in 1..Len(stateQ') PROVE EventTrue(i)'
    <3>1. /\ i + 1 \in 1..Len(stateQ) /\ stateQ'[i] = stateQ[i + 1] /\ i + 1 > 1 /\ (i + 1) - 1 = i
          /\ i # 1 => i > 1 /\ i - 1 \in 1..Len(stateQ') /\ stateQ'[i - 1] = stateQ[i]
      <4>1. i \in Nat /\ i >= 1 /\ i <= Len(stateQ) - 1
        BY <2>2, <2>6
      <4>2. i # 1 => i > 1 /\ i - 1 \in 1..Len(stateQ')
        BY <2>2, <4>1
      <4>3. \A j \in 1..Len(stateQ') : stateQ'[j] = stateQ[j + 1]
        BY <1>a, <2>1
      <4>4. i # 1 => stateQ'[i - 1] = stateQ[(i - 1) + 1] /\ (i - 1) + 1 = i
        BY <4>1, <4>2, <4>3
      <4>5. i + 1 \in 1..Len(stateQ) /\ i + 1 > 1 /\ (i + 1) - 1 = i
        BY <2>2, <4>1
      <4> QED BY <2>6, <4>2, <4>3, <4>4, <4>5
    <3>2. Covered(i + 1) => Covered(i)'
      <4>1. CASE i = 1
        BY <2>3, <3>1, <4>1 DEF Covered
      <4>2. CASE i # 1
        BY <3>1, <4>2 DEF Covered
      <4> QED BY <4>1, <4>2
    <3>3. EventTrue(i + 1)
      BY <1>a, <2>1, <3>1 DEF EventsTrue, Running
    <3> QED BY <2>4, <2>5, <3>1, <3>2, <3>3 DEF EventTrue
  <2> QED BY <2>6
<1>7. CASE Steer \/ Steering \/ SteerSeen
  <2>1. UNCHANGED <<backend, stateQ, recordQ, turn>>
    BY <1>7 DEF Steer, Steering, SteerArrives, SteerFails, SteerGivenUp, SteerSeen, queueVars
  <2> QED BY <1>k, <2>1 DEF Running, Unanswered
<1> QED
  BY <1>1, <1>2, <1>3, <1>4, <1>5, <1>6, <1>7 DEF Turn

(* The turn drains or is over with an outcome: it read an event that says  *)
(* so.                                                                     *)
LEMMA DecidedStep ==
  ASSUME OutcomeInv, Careful, Next
  PROVE  Decided'
<1>a. /\ agent \in AgentType /\ turn \in TurnType /\ Place /\ TypeOK
      /\ stateQ \in Seq(StateEvent) /\ recordQ \in Seq(TranscriptRecord)
      /\ EventsTrue /\ Decided
  BY TypeFacts DEF OutcomeInv
<1>g. ASSUME turn.pc # "none", turn'.k = turn.k PROVE (Good => Good') /\ (Bad => Bad')
  BY <1>a, <1>g, FinalStays DEF Good, Bad
<1>k. ASSUME turn'.pc = turn.pc, turn'.k = turn.k, turn'.result = turn.result PROVE Decided'
  <2>1. turn.pc # "none" => (Good => Good') /\ (Bad => Bad')
    BY <1>g, <1>k
  <2> QED BY <1>a, <1>k, <2>1 DEF Decided
<1>1. CASE Agent \/ UserInterrupts \/ PaneEnds \/ PromptTyped \/ Steer \/ Steering \/ SteerSeen
  <2>1. UNCHANGED turn
    BY <1>1 DEF Agent, AgentTakes, AgentAnswers, AgentStops, AgentWritesLate, AgentFails,
       AgentContinues, AgentStopsShort, UserInterrupts, PaneEnds, External, PromptTyped,
       Steer, Steering, SteerArrives, SteerFails, SteerGivenUp, SteerSeen
  <2> QED BY <1>k, <2>1
<1>2. CASE Prompt \/ Release
  <2>1. turn'.pc \in {"none", "send"}
    <3>1. CASE Prompt
      BY <3>1 DEF Prompt, NoTurn
    <3>2. CASE Release
      BY <3>2 DEF Release, NoTurn
    <3> QED BY <1>2, <3>1, <3>2
  <2> QED BY <2>1 DEF Decided
<1>3. CASE PromptSent
  BY <1>3, <1>a DEF PromptSent, TurnType, Decided
<1>4. CASE SendFails \/ TurnCancelled \/ TurnTimesOut
  <2>1. PICK r \in {"error", "cancelled"} : turn' = Result(turn, r)
    BY <1>4 DEF SendFails, TurnCancelled, TurnTimesOut, Interrupts
  <2>2. turn'.pc = "over" /\ turn'.result = r
    BY <1>a, <2>1 DEF Result, TurnType
  <2> QED BY <2>2 DEF Decided
<1>5. CASE Cancel
  BY <1>5, <1>k, <1>a DEF Cancel, TurnType
<1>6. CASE ReadRecord
  <2>1. Head(recordQ) \in TranscriptRecord /\ turn' = Heard(turn, Head(recordQ))
    BY <1>6, <1>a DEF ReadRecord
  <2> QED BY <1>k, <1>a, <2>1 DEF Heard, Gated, TurnType
<1>7. CASE Complete
  <2>1. Good /\ turn.pc = "drain" /\ turn' = Result(turn, "end_turn")
    BY <1>7, <1>a DEF Complete, Decided
  <2>2. turn'.k = turn.k /\ turn'.pc = "over" /\ turn'.result = "end_turn"
    BY <1>a, <2>1 DEF Result, TurnType
  <2> QED BY <1>g, <2>1, <2>2 DEF Decided
<1>8. CASE ReadState
  <2>1. /\ Head(stateQ) \in StateEvent /\ stateQ # <<>> /\ turn' = Handled(Head(stateQ))
        /\ turn.pc = "run"
    BY <1>8, <1>a DEF ReadState
  <2>2. 1 \in 1..Len(stateQ) /\ Head(stateQ) = stateQ[1]
    BY <1>a, <2>1
  <2>3. EventTrue(1)
    BY <1>a, <2>1, <2>2 DEF EventsTrue, Running
  <2>4. /\ turn'.k = turn.k
        /\ turn'.pc = "drain" => \/ stateQ[1].type = "Stop"
                                 \/ stateQ[1].type = "ready" /\ ~turn.retry /\ ReadyCompletes
        /\ turn'.pc = "over" => \/ turn'.result = "ended"
                                \/ /\ turn'.result = "failed" /\ stateQ[1].type = "StopFailure"
                                   /\ ~stateQ[1].retry
    BY <1>a, <2>1, <2>2 DEF Handled, Result, StateEvent, TurnType
  <2>5. /\ turn'.pc = "drain" => Good
        /\ turn'.pc = "over" => turn'.result = "ended" \/ (turn'.result = "failed" /\ Bad)
    BY <2>3, <2>4 DEF EventTrue, Covered, Unanswered, ReadyCompletes
  <2>6. (Good => Good') /\ (Bad => Bad')
    BY <1>g, <2>1, <2>4
  <2> QED BY <2>5, <2>6 DEF Decided
<1> QED
  BY <1>1, <1>2, <1>3, <1>4, <1>5, <1>6, <1>7, <1>8 DEF Next, Turn

LEMMA RangeAppend ==
  ASSUME NEW S, NEW s \in Seq(S), NEW x \in S, NEW y
  PROVE  y \in Range(Append(s, x)) <=> y \in Range(s) \/ y = x
<1>1. /\ Len(Append(s, x)) = Len(s) + 1 /\ Len(s) \in Nat
      /\ \A i \in 1..Len(s) : Append(s, x)[i] = s[i]
      /\ Append(s, x)[Len(s) + 1] = x
      /\ DOMAIN Append(s, x) = 1..(Len(s) + 1) /\ DOMAIN s = 1..Len(s)
  OBVIOUS
<1>2. y \in Range(Append(s, x)) <=> \E i \in 1..(Len(s) + 1) : Append(s, x)[i] = y
  BY <1>1 DEF Range
<1>3. y \in Range(s) <=> \E i \in 1..Len(s) : s[i] = y
  BY <1>1 DEF Range
<1>4. \A n \in Nat : \A i \in 1..(n + 1) : i \in 1..n \/ i = n + 1
  OBVIOUS
<1>5. \A n \in Nat : n + 1 \in 1..(n + 1) /\ \A i \in 1..n : i \in 1..(n + 1)
  OBVIOUS
<1> QED
  BY <1>1, <1>2, <1>3, <1>4, <1>5

LEMMA AnsweredStep ==
  ASSUME OutcomeInv, Careful, Next
  PROVE  Answered'
<1>a. /\ agent \in AgentType /\ turn \in TurnType /\ Place /\ TypeOK
      /\ Asked \in 0..MaxPrompts /\ MaxPrompts \in Nat /\ Prompts = 1..MaxPrompts
      /\ Answered /\ Decided /\ left \in LeftType
      /\ ended \in [Prompts -> {"none", "ok", "failed", "interrupted"}]
      /\ reply \in [Prompts -> Seq(Outcome)]
      /\ turn.pc # "none" => turn.k \in Prompts
  BY TypeFacts, Constants DEF OutcomeInv
\* What was answered before keeps its outcome: the agent works on a later prompt.
<1>b. ASSUME NEW k \in Prompts, turn.pc # "none" => k # turn.k, Closed(k)
      PROVE  Closed(k)' /\ ended'[k] = ended[k]
  <2>1. CASE AgentTakes
    <3>1. turn.pc = "send" /\ agent.inbox = <<turn.k>>
      BY <1>a, <2>1 DEF AgentTakes, Place, Untaken, Taken, Running, TurnType
    <3>2. agent'.k = turn.k
      BY <1>a, <2>1, <3>1 DEF AgentTakes, AgentType
    <3> QED BY <1>b, <2>1, <3>1, <3>2 DEF Closed, AgentTakes
  <2>2. CASE agent.k # k /\ ~AgentTakes
    <3>1. agent'.k = agent.k
      BY <1>a, <2>2 DEF Next, Agent, AgentAnswers, Answers, AgentStops, AgentWritesLate, AgentFails,
         AgentContinues, AgentStopsShort, UserInterrupts, PaneEnds, Interrupted, Prompt, Turn,
         PromptTyped, PromptSent, ReadRecord, ReadState, TurnCancelled, Interrupts, Complete,
         Release, SendFails, Cancel, TurnTimesOut, Steer, Steering, SteerArrives, SteerFails,
         SteerGivenUp, SteerSeen, Unsent, agentVars, AgentType
    <3>2. ended'[k] = ended[k]
      BY <1>a, <2>2 DEF Next, Agent, AgentAnswers, Answers, AgentStops, AgentWritesLate, AgentFails,
         AgentContinues, AgentStopsShort, UserInterrupts, PaneEnds, Interrupted, Prompt, Turn,
         PromptTyped, PromptSent, ReadRecord, ReadState, TurnCancelled, Interrupts, Complete,
         Release, SendFails, Cancel, TurnTimesOut, Steer, Steering, SteerArrives, SteerFails,
         SteerGivenUp, SteerSeen, agentVars, Ends
    <3> QED BY <2>2, <3>1, <3>2 DEF Closed
  <2>3. CASE agent.k = k /\ ~AgentTakes
    <3>1. agent.pc \in {"ready", "late", "gone"}
      BY <1>b, <2>3 DEF Closed
    <3>2. UNCHANGED ended
      BY <2>3, <3>1 DEF Next, Agent, AgentAnswers, AgentStops, AgentWritesLate, AgentFails,
         AgentContinues, AgentStopsShort, UserInterrupts, PaneEnds, External, Prompt, Turn,
         PromptTyped, PromptSent, ReadRecord, ReadState, TurnCancelled, Interrupts, Complete,
         Release, SendFails, Cancel, TurnTimesOut, Steer, Steering, SteerArrives, SteerFails,
         SteerGivenUp, SteerSeen, agentVars
    <3>3. agent'.pc \in {"ready", "late", "gone"}
      BY <1>a, <2>3, <3>1 DEF Next, Agent, AgentAnswers, Answers, AgentStops, AgentWritesLate, AgentFails,
         AgentContinues, AgentStopsShort, UserInterrupts, PaneEnds, Interrupted, Prompt, Turn,
         PromptTyped, PromptSent, ReadRecord, ReadState, TurnCancelled, Interrupts, Complete,
         Release, SendFails, Cancel, TurnTimesOut, Steer, Steering, SteerArrives, SteerFails,
         SteerGivenUp, SteerSeen, Unsent, agentVars, AgentType
    <3> QED BY <3>2, <3>3 DEF Closed
  <2> QED BY <2>1, <2>2, <2>3
<1>1. CASE Prompt
  <2>1. Asked' = Asked + 1 /\ turn'.k = Asked + 1 /\ UNCHANGED <<agent, ended, reply>> /\ turn.pc = "none"
    BY <1>1, <1>a DEF Prompt, Asked, LeftType, NoTurn, agentVars
  <2> QED BY <1>a, <2>1 DEF Answered, Replied, Closed
<1>2. CASE Release
  <2>1. /\ reply' = [reply EXCEPT ![turn.k] = Append(@, turn.result)]
        /\ turn'.pc = "none" /\ UNCHANGED <<agent, ended, left>> /\ turn.pc = "over"
    BY <1>2 DEF Release, NoTurn, agentVars
  <2>2. turn.result \in Outcome /\ turn.k \in Prompts /\ turn.k = Asked
    BY <1>a, <2>1 DEF TypeOK, TurnAgrees, TurnType, Place
  <2>3. \A k \in Prompts : \A how \in Outcome :
          Replied(k, how)' => Replied(k, how) \/ (k = turn.k /\ how = turn.result)
    BY <1>a, <2>1, <2>2, RangeAppend DEF Replied
  <2>4. "end_turn" \in Outcome /\ "failed" \in Outcome
    BY DEF Outcome
  <2>5. Asked' = Asked
    BY <2>1 DEF Asked
  <2>6. /\ turn.result = "end_turn" => Good
        /\ turn.result = "failed" => Bad
    BY <1>a, <2>1 DEF Decided
  <2>7. \A k \in Prompts : Closed(k)' = Closed(k)
    BY <2>1 DEF Closed
  <2> QED BY <1>a, <2>1, <2>2, <2>3, <2>4, <2>5, <2>6, <2>7 DEF Answered, Good, Bad, Final, Taken, Closed
<1>3. ASSUME ~Prompt, ~Release
      PROVE  Answered'
  <2>1. UNCHANGED reply
    BY <1>3 DEF Next, Agent, AgentTakes, AgentAnswers, AgentStops, AgentWritesLate, AgentFails,
       AgentContinues, AgentStopsShort, UserInterrupts, PaneEnds, External, Turn,
       PromptTyped, PromptSent, ReadRecord, ReadState, TurnCancelled, Interrupts, Complete,
       SendFails, Cancel, TurnTimesOut, Steer, Steering, SteerArrives, SteerFails,
       SteerGivenUp, SteerSeen
  <2>2. Asked' = Asked
    BY <1>3, <1>a DEF Next, Agent, AgentTakes, AgentAnswers, AgentStops, AgentWritesLate, AgentFails,
       AgentContinues, AgentStopsShort, UserInterrupts, PaneEnds, External, Turn,
       PromptTyped, PromptSent, ReadRecord, ReadState, TurnCancelled, Interrupts, Complete,
       SendFails, Cancel, TurnTimesOut, Steer, Steering, SteerArrives, SteerFails,
       SteerGivenUp, SteerSeen, Trouble, Asked, LeftType
  <2>3. turn'.pc # "none" => turn.pc # "none" /\ turn'.k = turn.k
    <3>1. CASE ReadRecord
      <4>1. Head(recordQ) \in TranscriptRecord /\ turn' = Heard(turn, Head(recordQ)) /\ turn.pc # "none"
        BY <3>1, TypeFacts, <1>a DEF ReadRecord
      <4> QED BY <1>a, <4>1, TurnEdits
    <3>2. CASE ReadState
      <4>1. Head(stateQ) \in StateEvent /\ turn' = Handled(Head(stateQ)) /\ turn.pc # "none"
        BY <3>2, TypeFacts, <1>a DEF ReadState
      <4> QED BY <1>a, <4>1 DEF Handled, Result, TurnType, StateEvent
    <3>3. CASE ~ReadRecord /\ ~ReadState
      BY <1>3, <1>a, <3>3 DEF Next, Agent, AgentTakes, AgentAnswers, AgentStops, AgentWritesLate,
         AgentFails, AgentContinues, AgentStopsShort, UserInterrupts, PaneEnds, External, Turn,
         PromptTyped, PromptSent, TurnCancelled, Interrupts, Complete, Result,
         SendFails, Cancel, TurnTimesOut, Steer, Steering, SteerArrives, SteerFails,
         SteerGivenUp, SteerSeen, TurnType
    <3> QED BY <3>1, <3>2, <3>3
  <2>4. "end_turn" \in Outcome /\ "failed" \in Outcome
    BY DEF Outcome
  <2>5. ASSUME NEW k \in Prompts, NEW how \in {"end_turn", "failed"}, Replied(k, how)
        PROVE  Closed(k)' /\ ended'[k] = ended[k]
    BY <1>a, <1>b, <2>4, <2>5 DEF Answered
  <2>6. \A k \in Prompts : \A how \in Outcome : Replied(k, how)' = Replied(k, how)
    BY <2>1 DEF Replied
  <2> QED BY <1>a, <2>2, <2>3, <2>4, <2>5, <2>6 DEF Answered
<1> QED
  BY <1>1, <1>2, <1>3

LEMMA OutcomeStep ==
  ASSUME Careful, OutcomeInv, [Next]_vars
  PROVE  OutcomeInv'
<1>1. CASE Agent \/ UserInterrupts \/ PaneEnds
  <2>1. Next
    BY <1>1 DEF Next
  <2>2. TypeOK' /\ Place' /\ Decided' /\ Answered'
    BY <1>1, <2>1, TypeAgent, PlaceAgent, DecidedStep, AnsweredStep DEF OutcomeInv
  <2> QED BY <1>1, <2>2, EventsAgent DEF OutcomeInv
<1>2. CASE \/ Prompt \/ Turn \/ SendFails \/ Cancel \/ TurnTimesOut
           \/ Steer \/ Steering \/ SteerSeen
  <2>1. Next
    BY <1>2 DEF Next
  <2> QED BY <1>2, <2>1, TypeTurn, PlaceTurn, EventsTurn, DecidedStep, AnsweredStep DEF OutcomeInv
<1>3. CASE UNCHANGED vars
  <2>1. UNCHANGED <<backend, agent, shown, wrote, ended, stateQ, recordQ, turn, pending, reply, left>>
    BY <1>3 DEF vars, agentVars, queueVars
  <2>2. TypeOK'
    BY <1>3, TypeStep DEF OutcomeInv
  <2>3. Place'
    BY <2>1 DEF OutcomeInv, Place, Running, Taken, Untaken, Asked
  <2>4. (Good <=> Good') /\ (Bad <=> Bad') /\ (Unanswered <=> Unanswered')
    BY <2>1 DEF Good, Bad, Final, Taken, Unanswered
  <2>5. Decided'
    BY <2>1, <2>4 DEF OutcomeInv, Decided
  <2>6. \A i : EventTrue(i)' <=> EventTrue(i)
    BY <2>1, <2>4 DEF EventTrue, Covered
  <2>7. EventsTrue'
    BY <2>1, <2>6 DEF OutcomeInv, EventsTrue, Running
  <2>8. Answered'
    BY <2>1 DEF OutcomeInv, Answered, Replied, Closed, Asked
  <2> QED BY <2>2, <2>3, <2>5, <2>7, <2>8 DEF OutcomeInv
<1> QED
  BY <1>1, <1>2, <1>3 DEF Next

LEMMA OutcomeInit == Init => OutcomeInv
<1> SUFFICES ASSUME Init PROVE OutcomeInv
  OBVIOUS
<1>1. TypeOK
  BY TypeInit
<1>2. left.prompts = MaxPrompts /\ Asked = 0
  <2>1. left.prompts = MaxPrompts
    BY DEF Init
  <2> QED BY <2>1, Constants DEF Asked
<1>3. Place
  BY <1>2 DEF Init, Place, NoTurn, Running
<1>4. EventsTrue /\ Decided
  BY DEF Init, NoTurn, EventsTrue, Running, Decided
<1>5. Answered
  <2>1. \A k \in Prompts : Range(reply[k]) = {}
    BY DEF Init, Range
  <2> QED BY <2>1 DEF Answered, Replied
<1> QED
  BY <1>1, <1>3, <1>4, <1>5 DEF OutcomeInv

(* However states, hooks, records, retries, interrupts, cancellations and  *)
(* the death of the pane interleave: session/prompt is answered with       *)
(* end_turn or with the error of a failure only when that is how the agent *)
(* ended that prompt for good (state_ready_completes, StopFailure before   *)
(* the ready of adapter.rs).                                               *)
THEOREM OutcomesTrue == Careful => (Spec => []OutcomesAreTrue)
<1> SUFFICES ASSUME Careful PROVE Spec => []OutcomesAreTrue
  OBVIOUS
<1>1. OutcomeInv /\ [Next]_vars => OutcomeInv'
  BY OutcomeStep
<1>2. OutcomeInv => OutcomesAreTrue
  BY DEF OutcomeInv, Answered, Replied, OutcomesAreTrue
<1> QED
  BY <1>1, <1>2, OutcomeInit, PTL DEF Spec

-----------------------------------------------------------------------------
(* Answers.                                                                *)

Echo(r) == r.kind = "user" /\ r.k = turn.k

\* Whatever waits to be read, or is kept until the turn ends, answers the
\* prompt of the turn, or will be dropped when the echo of the prompt comes.
RecordsBelong ==
  Subscribed =>
    /\ \A j \in DOMAIN recordQ : recordQ[j].kind = "answer" =>
         \/ recordQ[j].k = turn.k
         \/ turn.gated /\ \E e \in DOMAIN recordQ : e > j /\ Echo(recordQ[e])
    /\ \A i \in DOMAIN turn.buffer :
         \/ turn.buffer[i].k = turn.k
         \/ turn.gated /\ \E e \in DOMAIN recordQ : Echo(recordQ[e])

AnswerInv == OutcomeInv /\ RecordsBelong /\ AnswersBelong

LEMMA RecordsStay ==
  ASSUME RecordsBelong, UNCHANGED recordQ, Subscribed' => Subscribed,
         turn'.k = turn.k, turn'.gated = turn.gated, turn'.buffer = turn.buffer
  PROVE  RecordsBelong'
BY DEF RecordsBelong, Echo

(* The agent writes an answer to the prompt of the turn.                   *)
LEMMA AnswerWritten ==
  ASSUME RecordsBelong, recordQ \in Seq(TranscriptRecord), UNCHANGED turn,
         NEW r \in TranscriptRecord, Write(<<r>>), r.kind = "answer", Subscribed => r.k = turn.k
  PROVE  RecordsBelong'
<1> SUFFICES ASSUME Subscribed, Subscribed' PROVE RecordsBelong'
  BY DEF RecordsBelong, Subscribed
<1>1. recordQ' = Append(recordQ, r)
  BY DEF Write
<1>2. /\ Len(recordQ) \in Nat /\ DOMAIN recordQ = 1..Len(recordQ)
      /\ DOMAIN recordQ' = 1..(Len(recordQ) + 1)
      /\ \A j \in 1..Len(recordQ) : recordQ'[j] = recordQ[j]
      /\ recordQ'[Len(recordQ) + 1] = r
  BY <1>1
<1>3. \A n \in Nat : \A j \in 1..(n + 1) : j \in 1..n \/ j = n + 1
  OBVIOUS
<1>4. \A n \in Nat : \A j \in 1..n : j \in 1..(n + 1)
  OBVIOUS
<1>5. \A j \in DOMAIN recordQ : j \in DOMAIN recordQ' /\ recordQ'[j] = recordQ[j]
  BY <1>2, <1>4
<1>6. \A j \in DOMAIN recordQ' : j \in DOMAIN recordQ \/ recordQ'[j] = r
  BY <1>2, <1>3
<1> QED
  BY <1>5, <1>6 DEF RecordsBelong, Echo

LEMMA ThreeRecords ==
  ASSUME NEW a, NEW b, NEW c
  PROVE  <<>> \o (<<a, b>> \o <<c>>) = <<a, b, c>>
<1> DEFINE s == <<a, b>>  t == <<c>>  S == {a, b, c}
<1>1. /\ s \in Seq(S) /\ t \in Seq(S) /\ Len(s) = 2 /\ Len(t) = 1
      /\ s[1] = a /\ s[2] = b /\ t[1] = c /\ <<a, b, c>> \in Seq(S)
  OBVIOUS
<1> HIDE DEF s, t, S
<1>2. /\ s \o t \in Seq(S) /\ Len(s \o t) = 3
      /\ (s \o t)[1] = a /\ (s \o t)[2] = b /\ (s \o t)[3] = c
  <2>1. /\ s \o t \in Seq(S) /\ Len(s \o t) = Len(s) + Len(t)
        /\ \A i \in 1..(Len(s) + Len(t)) :
             (s \o t)[i] = IF i <= Len(s) THEN s[i] ELSE t[i - Len(s)]
    BY <1>1, ConcatProperties
  <2>2. 2 + 1 = 3 /\ 3 - 2 = 1 /\ 1 \in 1..3 /\ 2 \in 1..3 /\ 3 \in 1..3 /\ 1 <= 2 /\ ~(3 <= 2)
    OBVIOUS
  <2> QED BY <1>1, <2>1, <2>2
<1>3. <<>> \o (s \o t) = s \o t
  BY <1>2
<1>4. s \o t = <<a, b, c>>
  <2> DEFINE q == s \o t
  <2>1. q \in Seq(S) /\ Len(q) = 3 /\ q[1] = a /\ q[2] = b /\ q[3] = c
    BY <1>2
  <2> HIDE DEF q
  <2>2. q = <<a, b, c>>
    BY <1>1, <2>1
  <2> QED BY <2>2 DEF q
<1> QED BY <1>3, <1>4 DEF s, t

LEMMA RecordsAgent ==
  ASSUME AnswerInv, Careful, Agent \/ UserInterrupts \/ PaneEnds
  PROVE  RecordsBelong' /\ AnswersBelong'
<1>a. /\ agent \in AgentType /\ turn \in TurnType /\ Place /\ TypeOK
      /\ recordQ \in Seq(TranscriptRecord) /\ wrote \in [Prompts -> Nat]
      /\ RecordsBelong /\ Decided /\ UNCHANGED <<backend, turn, given>>
      /\ turn.pc # "none" => turn.k \in Prompts
  BY TypeFacts DEF AnswerInv, OutcomeInv, Agent, AgentTakes, AgentAnswers, AgentStops,
     AgentWritesLate, AgentFails, AgentContinues, AgentStopsShort, UserInterrupts, PaneEnds, External
<1>b. AnswersBelong'
  BY <1>a DEF AnswerInv, AnswersBelong
<1>c. Subscribed' = Subscribed
  BY <1>a DEF Subscribed
<1>1. CASE AgentTakes
  <2>1. Untaken /\ agent.inbox = <<turn.k>>
    BY <1>1, <1>a DEF AgentTakes, Place, Taken, Untaken, Running
  <2> DEFINE k == Head(agent.inbox)
             first == backend = "codex" /\ ~agent.started
  <2>2. k = turn.k
    BY <2>1
  <2>3. PICK same \in BOOLEAN :
          Write((IF first /\ agent.resumed
                 THEN <<Record("user", IF same THEN k ELSE History, 0), Record("answer", History, 1)>>
                 ELSE <<>>) \o <<Record("user", k, 0)>>)
    BY <1>1 DEF AgentTakes
  <2>4. first /\ agent.resumed => turn.gated
    BY <1>a, <2>1 DEF Place, Running, Untaken
  <2>5. Record("user", k, 0).kind = "user" /\ Record("user", k, 0).k = turn.k
    BY <2>2 DEF Record
  <2> HIDE DEF k, first
  <2>6. Subscribed /\ recordQ = <<>>
    BY <2>1 DEF Untaken, Subscribed
  <2>7. \A j \in DOMAIN recordQ' : recordQ'[j].kind = "answer" =>
          turn.gated /\ \E e \in DOMAIN recordQ' : e > j /\ Echo(recordQ'[e])
    <3>1. CASE first /\ agent.resumed
      <4> DEFINE u == Record("user", IF same THEN k ELSE History, 0)
      <4>0. recordQ' = <<>> \o (<<u, Record("answer", History, 1)>> \o <<Record("user", k, 0)>>)
        BY <2>3, <2>6, <3>1 DEF Write
      <4>2. u.kind = "user"
        BY DEF Record
      <4> HIDE DEF u
      <4>1. recordQ' = <<u, Record("answer", History, 1), Record("user", k, 0)>>
        BY <4>0, ThreeRecords
      <4>3. DOMAIN recordQ' = 1..3 /\ recordQ'[1] = u /\ recordQ'[3] = Record("user", k, 0)
        BY <4>1
      <4>4. \A j \in 1..3 : recordQ'[j].kind = "answer" => 3 > j
        BY <2>5, <4>3
      <4> QED BY <2>4, <2>5, <3>1, <4>3, <4>4 DEF Echo
    <3>2. CASE ~(first /\ agent.resumed)
      <4>0. recordQ' = <<>> \o (<<>> \o <<Record("user", k, 0)>>)
        BY <2>3, <2>6, <3>2 DEF Write
      <4>1. recordQ' = <<Record("user", k, 0)>>
        BY <4>0
      <4> QED BY <2>5, <4>1
    <3> QED BY <3>1, <3>2
  <2>8. \A i \in DOMAIN turn.buffer : turn.buffer[i].k = turn.k
    BY <1>a, <2>6 DEF RecordsBelong
  <2> QED BY <1>a, <1>b, <2>7, <2>8 DEF RecordsBelong, Echo
<1>2. CASE AgentAnswers \/ AgentWritesLate
  <2>1. Subscribed => agent.k = turn.k
    BY <1>2, <1>a DEF AgentAnswers, AgentWritesLate, Place, Untaken, Taken, Running,
       Subscribed, Decided, Good, Final
  <2> DEFINE r == Record("answer", agent.k, IF agent.k \in Prompts THEN wrote[agent.k] + 1 ELSE 1)
  <2>2. r \in TranscriptRecord
    <3>1. agent.k \in Int /\ (IF agent.k \in Prompts THEN wrote[agent.k] + 1 ELSE 1) \in Nat
      BY <1>a DEF AgentType
    <3> QED BY <3>1, Records
  <2>3. r.kind = "answer" /\ r.k = agent.k
    BY DEF Record
  <2>4. Write(<<r>>)
    BY <1>2 DEF AgentAnswers, AgentWritesLate
  <2> HIDE DEF r
  <2> QED BY <1>a, <1>b, <2>1, <2>2, <2>3, <2>4, AnswerWritten
<1>3. ASSUME \/ AgentStops \/ AgentFails \/ AgentContinues \/ AgentStopsShort
             \/ UserInterrupts \/ PaneEnds
      PROVE  RecordsBelong' /\ AnswersBelong'
  <2>1. UNCHANGED recordQ
    BY <1>3 DEF AgentStops, AgentFails, AgentContinues, AgentStopsShort, UserInterrupts, PaneEnds,
       queueVars
  <2> QED BY <1>a, <1>b, <1>c, <2>1, RecordsStay
<1> QED
  BY <1>1, <1>2, <1>3 DEF Agent

LEMMA RecordsTurn ==
  ASSUME AnswerInv, Careful,
         \/ Prompt \/ Turn \/ SendFails \/ Cancel \/ TurnTimesOut
         \/ Steer \/ Steering \/ SteerSeen
  PROVE  RecordsBelong' /\ AnswersBelong'
<1>a. /\ turn \in TurnType /\ Place /\ TypeOK
      /\ recordQ \in Seq(TranscriptRecord) /\ given \in [Prompts -> Seq(TranscriptRecord)]
      /\ RecordsBelong /\ AnswersBelong /\ turn.buffer \in Seq(TranscriptRecord)
      /\ turn.pc # "none" => turn.k \in Prompts
  BY TypeFacts DEF AnswerInv, OutcomeInv, TypeOK, TurnType
<1>b. UNCHANGED given => AnswersBelong'
  BY <1>a DEF AnswersBelong
<1>c. ASSUME NEW rs \in Seq(TranscriptRecord), Updates(rs), turn.k \in Prompts,
             \A i \in DOMAIN rs : rs[i].k = turn.k
      PROVE  AnswersBelong'
  <2> SUFFICES ASSUME NEW k \in Prompts, NEW i \in DOMAIN given'[k] PROVE given'[k][i].k = k
    BY DEF AnswersBelong
  <2>1. CASE k # turn.k
    BY <1>a, <1>c, <2>1 DEF Updates, AnswersBelong
  <2>2. CASE k = turn.k
    <3>1. given'[k] = given[k] \o rs /\ given[k] \in Seq(TranscriptRecord)
      BY <1>a, <1>c, <2>2 DEF Updates
    <3>2. \/ i \in DOMAIN given[k] /\ given'[k][i] = given[k][i]
          \/ \E j \in DOMAIN rs : given'[k][i] = rs[j]
      <4>1. \A s, t \in Seq(TranscriptRecord) : \A n \in DOMAIN (s \o t) :
              \/ n \in DOMAIN s /\ (s \o t)[n] = s[n]
              \/ \E j \in DOMAIN t : (s \o t)[n] = t[j]
        <5> SUFFICES ASSUME NEW s \in Seq(TranscriptRecord), NEW t \in Seq(TranscriptRecord),
                            NEW n \in DOMAIN (s \o t), n \notin DOMAIN s
                     PROVE  \E j \in DOMAIN t : (s \o t)[n] = t[j]
          OBVIOUS
        <5>1. n - Len(s) \in DOMAIN t /\ (s \o t)[n] = t[n - Len(s)]
          OBVIOUS
        <5> QED BY <5>1
      <4> QED BY <1>c, <3>1, <4>1
    <3> QED BY <1>a, <1>c, <2>2, <3>2 DEF AnswersBelong
  <2> QED BY <2>1, <2>2
<1>1. CASE Prompt
  <2>1. recordQ' = <<>> /\ UNCHANGED given
    BY <1>1, <1>a DEF Prompt, Place, queueVars
  <2>2. turn'.buffer = <<>>
    BY <1>1 DEF Prompt, NoTurn
  <2> QED BY <1>b, <2>1, <2>2 DEF RecordsBelong
<1>2. CASE PromptTyped \/ Steer \/ Steering \/ SteerSeen
  <2>1. UNCHANGED <<recordQ, turn, given>>
    BY <1>2 DEF PromptTyped, Steer, Steering, SteerArrives, SteerFails, SteerGivenUp, SteerSeen, queueVars
  <2> QED BY <1>a, <1>b, <2>1, RecordsStay DEF Subscribed
<1>3. CASE PromptSent \/ Cancel
  <2>1. /\ turn'.k = turn.k /\ turn'.gated = turn.gated /\ turn'.buffer = turn.buffer
        /\ turn.pc \in {"send", "run"}
    BY <1>3, <1>a DEF PromptSent, Cancel, TurnType
  <2> QED BY <1>3, <1>a, <1>b, <2>1, RecordsStay DEF PromptSent, Cancel, Subscribed, queueVars
<1>4. CASE SendFails \/ TurnCancelled \/ TurnTimesOut \/ Release
  <2>1. turn' = NoTurn \/ \E r \in Outcome : turn' = Result(turn, r)
    BY <1>4 DEF SendFails, TurnCancelled, TurnTimesOut, Interrupts, Release, Outcome
  <2>2. turn'.pc \in {"none", "over"}
    BY <1>a, <2>1, TurnEdits DEF NoTurn
  <2>3. UNCHANGED given
    BY <1>4 DEF SendFails, TurnCancelled, TurnTimesOut, Interrupts, Release
  <2> QED BY <1>b, <2>2, <2>3 DEF RecordsBelong, Subscribed
<1>5. CASE ReadState
  <2>1. /\ Head(stateQ) \in StateEvent /\ turn' = Handled(Head(stateQ)) /\ turn.pc = "run"
        /\ UNCHANGED <<recordQ, given>>
    BY <1>5, <1>a, TypeFacts DEF ReadState
  <2>2. turn'.k = turn.k /\ turn'.gated = turn.gated /\ turn'.buffer = turn.buffer
    BY <1>a, <2>1 DEF Handled, Result, StateEvent, TurnType
  <2> QED BY <1>a, <1>b, <2>1, <2>2, RecordsStay DEF Subscribed
<1>6. CASE Complete
  <2>1. /\ recordQ = <<>> /\ turn.pc = "drain" /\ Updates(turn.buffer)
        /\ turn' = Result(turn, "end_turn")
    BY <1>6 DEF Complete
  <2>2. \A i \in DOMAIN turn.buffer : turn.buffer[i].k = turn.k
    BY <1>a, <2>1 DEF RecordsBelong, Subscribed
  <2>3. turn'.pc = "over"
    BY <1>a, <2>1, TurnEdits DEF Outcome
  <2> QED BY <1>a, <1>c, <2>1, <2>2, <2>3 DEF RecordsBelong, Subscribed
<1>7. CASE ReadRecord
  <2> DEFINE r == Head(recordQ)
  <2>1. /\ r \in TranscriptRecord /\ recordQ' = Tail(recordQ) /\ turn' = Heard(turn, r)
        /\ turn.pc \in {"run", "drain"} /\ turn.k \in Prompts /\ recordQ # <<>>
    BY <1>7, <1>a DEF ReadRecord
  <2>2. /\ 1 \in DOMAIN recordQ /\ recordQ[1] = r
        /\ \A j \in DOMAIN recordQ' : j + 1 \in DOMAIN recordQ /\ recordQ'[j] = recordQ[j + 1]
        /\ \A e \in DOMAIN recordQ : e > 1 => e - 1 \in DOMAIN recordQ' /\ recordQ'[e - 1] = recordQ[e]
    BY <1>a, <2>1
  <2>3. DOMAIN recordQ \subseteq Nat \ {0} /\ DOMAIN recordQ' \subseteq Nat \ {0}
    BY <1>a, <2>1
  <2>4. /\ turn'.k = turn.k /\ turn'.gated = turn.gated
    BY <1>a, <2>1 DEF Heard, Gated, TurnType
  <2> HIDE DEF r
  <2>5. Subscribed
    BY <2>1 DEF Subscribed
  <2>6. AnswersBelong'
    <3>1. CASE turn.gated \/ r.kind # "answer"
      BY <1>7, <1>b, <3>1 DEF ReadRecord, r
    <3>2. CASE ~turn.gated /\ r.kind = "answer"
      <4>1. r.k = turn.k
        BY <1>a, <2>2, <2>5, <3>2 DEF RecordsBelong
      <4>2. Updates(<<r>>)
        BY <1>7, <3>2 DEF ReadRecord, r
      <4>3. <<r>> \in Seq(TranscriptRecord) /\ \A i \in DOMAIN <<r>> : <<r>>[i] = r
        BY <2>1
      <4> QED BY <1>c, <2>1, <4>1, <4>2, <4>3
    <3> QED BY <3>1, <3>2
  <2>7. ASSUME NEW j \in DOMAIN recordQ', recordQ'[j].kind = "answer"
        PROVE  \/ recordQ'[j].k = turn.k
               \/ turn.gated /\ \E e \in DOMAIN recordQ' : e > j /\ Echo(recordQ'[e])
    <3>1. \/ recordQ[j + 1].k = turn.k
          \/ turn.gated /\ \E e \in DOMAIN recordQ : e > j + 1 /\ Echo(recordQ[e])
      BY <1>a, <2>2, <2>5, <2>7 DEF RecordsBelong
    <3>2. ASSUME NEW e \in DOMAIN recordQ, e > j + 1, Echo(recordQ[e])
          PROVE  e - 1 \in DOMAIN recordQ' /\ e - 1 > j /\ Echo(recordQ'[e - 1])
      <4>1. e > 1 /\ e - 1 > j
        BY <2>3, <2>7, <3>2
      <4> QED BY <2>2, <3>2, <4>1
    <3> QED BY <2>2, <2>7, <3>1, <3>2
  <2>8. ASSUME NEW i \in DOMAIN turn'.buffer
        PROVE  \/ turn'.buffer[i].k = turn.k
               \/ turn.gated /\ \E e \in DOMAIN recordQ' : Echo(recordQ'[e])
    <3>1. CASE turn.gated /\ Echo(r)
      <4>1. turn'.buffer = <<>>
        BY <1>a, <2>1, <3>1 DEF Heard, Gated, Echo, TurnType, r
      <4> QED BY <2>8, <4>1
    <3>2. CASE ~(turn.gated /\ Echo(r))
      <4>1. \/ turn'.buffer = turn.buffer
            \/ turn.gated /\ r.kind = "answer" /\ turn'.buffer = Append(turn.buffer, r)
        BY <1>a, <2>1, <3>2 DEF Heard, Gated, Echo, TurnType, r
      <4>2. ASSUME NEW e \in DOMAIN recordQ, Echo(recordQ[e]), turn.gated
            PROVE  e - 1 \in DOMAIN recordQ' /\ Echo(recordQ'[e - 1])
        <5>1. e # 1
          BY <2>2, <3>2, <4>2
        <5>2. e > 1
          BY <2>3, <5>1
        <5> QED BY <2>2, <4>2, <5>2
      <4>3. ASSUME NEW n \in DOMAIN turn.buffer
            PROVE  \/ turn.buffer[n].k = turn.k
                   \/ turn.gated /\ \E e \in DOMAIN recordQ' : Echo(recordQ'[e])
        BY <1>a, <2>5, <4>2 DEF RecordsBelong
      <4>4. CASE turn.gated /\ r.kind = "answer" /\ turn'.buffer = Append(turn.buffer, r)
        <5>1. \/ i \in DOMAIN turn.buffer /\ turn'.buffer[i] = turn.buffer[i]
              \/ turn'.buffer[i] = r
          BY <1>a, <2>1, <2>8, <4>4
        <5>2. r.k = turn.k \/ \E e \in DOMAIN recordQ : Echo(recordQ[e])
          BY <1>a, <2>2, <2>5, <4>4 DEF RecordsBelong
        <5> QED BY <4>2, <4>3, <4>4, <5>1, <5>2
      <4> QED BY <2>8, <4>1, <4>3, <4>4
    <3> QED BY <3>1, <3>2
  <2> QED BY <2>4, <2>6, <2>7, <2>8 DEF RecordsBelong, Echo
<1> QED
  BY <1>1, <1>2, <1>3, <1>4, <1>5, <1>6, <1>7 DEF Turn

(* What the client is told during a prompt answers that prompt: nothing of *)
(* the history that a resumed agent replays, even when the same prompt     *)
(* occurs in it, and nothing of the turn before (TurnTranscriptGate,       *)
(* emit_record_updates).                                                   *)
THEOREM AnswersOwn == Careful => (Spec => []AnswersBelong)
<1> SUFFICES ASSUME Careful PROVE Spec => []AnswersBelong
  OBVIOUS
<1>1. Init => AnswerInv
  <2> SUFFICES ASSUME Init PROVE AnswerInv
    OBVIOUS
  <2>1. turn.pc = "none" /\ \A k \in Prompts : given[k] = <<>>
    BY DEF Init, NoTurn
  <2> QED BY <2>1, OutcomeInit DEF AnswerInv, RecordsBelong, Subscribed, AnswersBelong
<1>2. AnswerInv /\ [Next]_vars => AnswerInv'
  <2> SUFFICES ASSUME AnswerInv, [Next]_vars PROVE AnswerInv'
    OBVIOUS
  <2>1. OutcomeInv'
    BY OutcomeStep DEF AnswerInv
  <2>2. CASE Next
    BY <2>1, <2>2, RecordsAgent, RecordsTurn DEF Next, AnswerInv
  <2>3. CASE UNCHANGED vars
    <3>1. UNCHANGED <<recordQ, turn, given>>
      BY <2>3 DEF vars, queueVars
    <3> QED BY <2>1, <3>1, RecordsStay DEF AnswerInv, AnswersBelong, Subscribed
  <2> QED BY <2>2, <2>3
<1>3. AnswerInv => AnswersBelong
  BY DEF AnswerInv
<1> QED
  BY <1>1, <1>2, <1>3, PTL DEF Spec

\* An answer that waits to be read and that no echo will drop.
Live(j) ==
  /\ recordQ[j].kind = "answer"
  /\ turn.gated => \A e \in DOMAIN recordQ : Echo(recordQ[e]) => e < j
Echoes == turn.gated /\ \E e \in DOMAIN recordQ : Echo(recordQ[e])

\* What was read so far, and how many answers of it will be kept.
Kept == IF turn.gated THEN turn.buffer ELSE given[turn.k]
Base == IF Echoes THEN 0 ELSE Len(Kept)

\* The live answers are those that follow the kept ones, each once, in order.
Pipeline ==
  Subscribed =>
    /\ IF turn.gated THEN given[turn.k] = <<>> ELSE turn.buffer = <<>>
    /\ agent.k = turn.k /\ turn.gated => turn.echoed \/ Echoes
    /\ agent.k # turn.k => wrote[turn.k] = 0 /\ Kept = <<>>
    /\ ~Echoes => \A i \in DOMAIN Kept : Kept[i].n = i
    /\ Base <= wrote[turn.k]
    /\ \A j \in DOMAIN recordQ : Live(j) => Base < recordQ[j].n /\ recordQ[j].n <= wrote[turn.k]
    /\ \A i, j \in DOMAIN recordQ : Live(i) /\ Live(j) /\ i < j => recordQ[i].n < recordQ[j].n
    /\ \A m \in Nat : Base < m /\ m <= wrote[turn.k] =>
         \E j \in DOMAIN recordQ : Live(j) /\ recordQ[j].n = m

Numbered(s, n) == Len(s) = n /\ \A i \in 1..n : s[i].n = i
Told(k) == (agent.k = k => agent.pc # "late") /\ Numbered(given[k], wrote[k])

Completed ==
  /\ turn.pc = "over" /\ turn.result = "end_turn" => Told(turn.k)
  /\ \A k \in Prompts : Replied(k, "end_turn") => Told(k)
  /\ \A k \in Prompts : k > Asked => wrote[k] = 0 /\ given[k] = <<>>

CompleteInv == OutcomeInv /\ Pipeline /\ Completed

LEMMA CompleteFacts ==
  ASSUME OutcomeInv
  PROVE  /\ agent \in AgentType /\ turn \in TurnType /\ Place /\ TypeOK
         /\ recordQ \in Seq(TranscriptRecord) /\ wrote \in [Prompts -> Nat]
         /\ given \in [Prompts -> Seq(TranscriptRecord)]
         /\ turn.buffer \in Seq(TranscriptRecord)
         /\ turn.pc # "none" => turn.k \in Prompts /\ turn.k = Asked
         /\ turn.pc # "none" => Kept \in Seq(TranscriptRecord)
         /\ DOMAIN recordQ \subseteq Nat /\ Asked \in 0..MaxPrompts
         /\ Subscribed => \/ Untaken
                          \/ agent.k = turn.k /\ agent.inbox = <<>>
         /\ Prompts = 1..MaxPrompts /\ MaxPrompts \in Nat /\ 0 \notin Prompts
<1>1. /\ agent \in AgentType /\ turn \in TurnType /\ Place /\ TypeOK
      /\ recordQ \in Seq(TranscriptRecord) /\ wrote \in [Prompts -> Nat]
      /\ given \in [Prompts -> Seq(TranscriptRecord)] /\ Asked \in 0..MaxPrompts
      /\ turn.pc # "none" => turn.k \in Prompts
      /\ Prompts = 1..MaxPrompts /\ MaxPrompts \in Nat /\ 0 \notin Prompts
  BY TypeFacts, Constants DEF OutcomeInv, TypeOK
<1>2. turn.buffer \in Seq(TranscriptRecord) /\ DOMAIN recordQ \subseteq Nat
  BY <1>1 DEF TurnType
<1>3. turn.pc # "none" => Kept \in Seq(TranscriptRecord)
  BY <1>1, <1>2 DEF Kept
<1>4. Subscribed => Untaken \/ (agent.k = turn.k /\ agent.inbox = <<>>)
  BY <1>1 DEF OutcomeInv, Subscribed, Place, Running, Taken, Decided, Good, Final
<1> QED
  BY <1>1, <1>2, <1>3, <1>4 DEF Place

LEMMA PipelineStays ==
  ASSUME Pipeline, UNCHANGED <<recordQ, wrote, given>>, Subscribed' => Subscribed,
         turn'.k = turn.k, turn'.gated = turn.gated, turn'.buffer = turn.buffer,
         turn'.echoed = turn.echoed, agent'.k = agent.k
  PROVE  Pipeline'
<1> SUFFICES ASSUME Subscribed, Subscribed' PROVE Pipeline'
  BY DEF Pipeline
<1>1. Kept' = Kept /\ (Echoes' <=> Echoes)
  BY DEF Kept, Echoes, Echo
<1>2. Base' = Base /\ \A j : Live(j)' <=> Live(j)
  BY <1>1 DEF Base, Live, Echo
<1> QED
  BY <1>1, <1>2 DEF Pipeline

(* The agent writes the next answer to the prompt of the turn.             *)
LEMMA PipelineWritten ==
  ASSUME OutcomeInv, Pipeline, UNCHANGED <<turn, given>>, agent'.k = agent.k, agent.k \in Prompts,
         agent.k # turn.k => ~Subscribed,
         wrote' = [wrote EXCEPT ![agent.k] = @ + 1],
         Write(<<Record("answer", agent.k, wrote[agent.k] + 1)>>)
  PROVE  Pipeline'
<1> SUFFICES ASSUME Subscribed PROVE Pipeline'
  BY DEF Pipeline, Subscribed
<1> DEFINE w == wrote[turn.k]
           r == Record("answer", agent.k, w + 1)
<1>1. agent.k = turn.k /\ turn.pc # "none"
  BY DEF Subscribed
<1>2. w \in Nat /\ wrote'[turn.k] = w + 1
  BY <1>1, CompleteFacts
<1>3. r.kind = "answer" /\ r.n = w + 1
  BY DEF Record
<1>4. r \in TranscriptRecord
  <2>1. agent.k \in Int
    BY Constants
  <2> QED BY <1>2, <2>1, Records
<1>5. recordQ' = Append(recordQ, r)
  BY <1>1 DEF Write
<1> HIDE DEF r, w
<1>6. /\ Len(recordQ) \in Nat /\ DOMAIN recordQ = 1..Len(recordQ)
      /\ DOMAIN recordQ' = 1..(Len(recordQ) + 1)
      /\ \A j \in 1..Len(recordQ) : recordQ'[j] = recordQ[j]
      /\ recordQ'[Len(recordQ) + 1] = r
  BY <1>4, <1>5, CompleteFacts
<1>p. PICK p \in Nat : p = Len(recordQ) + 1
  BY <1>6
<1>7. \A j \in DOMAIN recordQ' : j \in DOMAIN recordQ \/ j = p
  <2>1. \A n \in Nat : \A j \in 1..(n + 1) : j \in 1..n \/ j = n + 1
    OBVIOUS
  <2> QED BY <1>6, <1>p, <2>1
<1>8. /\ \A j \in DOMAIN recordQ : j \in DOMAIN recordQ' /\ recordQ'[j] = recordQ[j] /\ j < p
      /\ p \in DOMAIN recordQ' /\ recordQ'[p] = r
      /\ \A j \in DOMAIN recordQ : ~(p < j)
      /\ ~(p < p)
  <2>1. \A n \in Nat : /\ n + 1 \in 1..(n + 1)
                       /\ ~(n + 1 < n + 1)
                       /\ \A j \in 1..n : j \in 1..(n + 1) /\ j < n + 1 /\ ~(n + 1 < j)
    OBVIOUS
  <2> QED BY <1>6, <1>p, <2>1
<1>9. Kept' = Kept /\ (Echoes' <=> Echoes)
  <2>1. ~Echo(r)
    BY <1>3 DEF Echo
  <2> QED BY <1>7, <1>8, <2>1 DEF Kept, Echoes, Echo
<1>10. Base' = Base /\ Base \in Nat /\ Base <= w
  <2>1. Len(Kept) \in Nat
    BY <1>1, CompleteFacts
  <2> QED BY <1>9, <2>1 DEF Base, Pipeline, w
<1>11. \A j \in DOMAIN recordQ : Live(j)' <=> Live(j)
  <2>1. ~Echo(r)
    BY <1>3 DEF Echo
  <2> QED BY <1>7, <1>8, <2>1 DEF Live, Echo
<1>12. Live(p)'
  <2>1. ~Echo(r)
    BY <1>3 DEF Echo
  <2> QED BY <1>3, <1>7, <1>8, <2>1 DEF Live, Echo
<1>13. \A j \in DOMAIN recordQ : Live(j) => Base < recordQ[j].n /\ recordQ[j].n <= w /\ recordQ[j].n \in Nat
  <2>1. \A j \in DOMAIN recordQ : recordQ[j].n \in Nat
    <3>1. \A j \in DOMAIN recordQ : recordQ[j] \in TranscriptRecord
      BY CompleteFacts
    <3> QED BY <3>1 DEF TranscriptRecord
  <2> QED BY <2>1 DEF Pipeline, w
<1>14. \A j \in DOMAIN recordQ' : Live(j)' => Base' < recordQ'[j].n /\ recordQ'[j].n <= w + 1
  <2>1. \A n \in Nat : n <= w => n <= w + 1
    BY <1>2
  <2>2. Base < w + 1 /\ w + 1 <= w + 1
    BY <1>2, <1>10
  <2> QED BY <1>3, <1>7, <1>8, <1>10, <1>11, <1>13, <2>1, <2>2
<1>15. \A i, j \in DOMAIN recordQ' : Live(i)' /\ Live(j)' /\ i < j => recordQ'[i].n < recordQ'[j].n
  <2>1. \A n \in Nat : n <= w => n < w + 1
    BY <1>2
  <2>2. \A i, j \in DOMAIN recordQ : Live(i) /\ Live(j) /\ i < j => recordQ[i].n < recordQ[j].n
    BY DEF Pipeline
  <2> QED BY <1>3, <1>7, <1>8, <1>11, <1>13, <2>1, <2>2
<1>16. \A m \in Nat : Base' < m /\ m <= w + 1 => \E j \in DOMAIN recordQ' : Live(j)' /\ recordQ'[j].n = m
  <2> SUFFICES ASSUME NEW m \in Nat, Base' < m, m <= w + 1
               PROVE  \E j \in DOMAIN recordQ' : Live(j)' /\ recordQ'[j].n = m
    OBVIOUS
  <2>1. CASE m = w + 1
    BY <1>3, <1>8, <1>12, <2>1
  <2>2. CASE m # w + 1
    <3>1. m <= w
      BY <1>2, <2>2
    <3>2. PICK j \in DOMAIN recordQ : Live(j) /\ recordQ[j].n = m
      BY <1>10, <3>1 DEF Pipeline, w
    <3> QED BY <1>8, <1>11, <3>2
  <2> QED BY <2>1, <2>2
<1>17. agent.k = turn.k /\ turn.gated => turn.echoed \/ Echoes
  BY DEF Pipeline
<1>18. /\ IF turn.gated THEN given[turn.k] = <<>> ELSE turn.buffer = <<>>
       /\ ~Echoes => \A i \in DOMAIN Kept : Kept[i].n = i
  BY DEF Pipeline
<1>19. Base <= w + 1
  BY <1>2, <1>10
<1> QED
  BY <1>1, <1>2, <1>9, <1>10, <1>14, <1>15, <1>16, <1>17, <1>18, <1>19 DEF Pipeline

(* The turn reads a record: it keeps a live answer, the next in order, and *)
(* an echo drops what was kept.                                            *)
LEMMA PipelineRead ==
  ASSUME OutcomeInv, Pipeline, ReadRecord
  PROVE  Pipeline'
<1> DEFINE r == Head(recordQ)
           w == wrote[turn.k]
<1>a. /\ r \in TranscriptRecord /\ recordQ' = Tail(recordQ) /\ turn' = Heard(turn, r)
      /\ turn.pc \in {"run", "drain"} /\ turn.k \in Prompts /\ recordQ # <<>>
      /\ recordQ \in Seq(TranscriptRecord) /\ UNCHANGED <<agent, wrote>> /\ Subscribed
      /\ turn \in TurnType /\ given \in [Prompts -> Seq(TranscriptRecord)]
      /\ w \in Nat /\ Kept \in Seq(TranscriptRecord) /\ turn.buffer \in Seq(TranscriptRecord)
      /\ agent.k = turn.k
  BY CompleteFacts DEF ReadRecord, agentVars, Subscribed, Untaken
<1>b. /\ 1 \in DOMAIN recordQ /\ recordQ[1] = r
      /\ \A j \in DOMAIN recordQ' : j + 1 \in DOMAIN recordQ /\ recordQ'[j] = recordQ[j + 1] /\ j \in Nat
      /\ \A e \in DOMAIN recordQ : e # 1 => e - 1 \in DOMAIN recordQ' /\ recordQ'[e - 1] = recordQ[e]
      /\ \A e \in DOMAIN recordQ : e \in Nat /\ (e # 1 => 1 < e)
      /\ \A j \in DOMAIN recordQ' : j + 1 # 1
  BY <1>a
<1>n. \A j \in DOMAIN recordQ : recordQ[j].n \in Nat
  <2>1. \A j \in DOMAIN recordQ : recordQ[j] \in TranscriptRecord
    BY <1>a
  <2> QED BY <2>1 DEF TranscriptRecord
<1>c. /\ turn'.k = turn.k /\ turn'.gated = turn.gated
      /\ turn'.pc = turn.pc
  BY <1>a, TurnEdits DEF Heard, Gated, TurnType
<1> HIDE DEF r, w
<1>d. \A j \in DOMAIN recordQ' : Live(j)' <=> Live(j + 1)
  <2> SUFFICES ASSUME NEW j \in DOMAIN recordQ' PROVE Live(j)' <=> Live(j + 1)
    OBVIOUS
  <2>1. (\A e \in DOMAIN recordQ' : Echo(recordQ'[e]) => e < j)
          <=> (\A e \in DOMAIN recordQ : Echo(recordQ[e]) => e < j + 1)
    <3>1. ASSUME \A e \in DOMAIN recordQ' : Echo(recordQ'[e]) => e < j,
                 NEW e \in DOMAIN recordQ, Echo(recordQ[e])
          PROVE  e < j + 1
      <4>1. CASE e = 1
        BY <1>b, <4>1
      <4>2. CASE e # 1
        <5>1. e - 1 \in DOMAIN recordQ' /\ Echo(recordQ'[e - 1])
          BY <1>b, <1>c, <3>1, <4>2 DEF Echo
        <5> QED BY <1>b, <3>1, <5>1
      <4> QED BY <4>1, <4>2
    <3>2. ASSUME \A e \in DOMAIN recordQ : Echo(recordQ[e]) => e < j + 1,
                 NEW e \in DOMAIN recordQ', Echo(recordQ'[e])
          PROVE  e < j
      <4>1. e + 1 \in DOMAIN recordQ /\ Echo(recordQ[e + 1])
        BY <1>b, <1>c, <3>2 DEF Echo
      <4> QED BY <1>b, <3>2, <4>1
    <3> QED BY <3>1, <3>2
  <2>2. recordQ'[j] = recordQ[j + 1]
    BY <1>b
  <2>3. Live(j)' <=> /\ recordQ'[j].kind = "answer"
                     /\ turn.gated => \A e \in DOMAIN recordQ' : Echo(recordQ'[e]) => e < j
    BY <1>c DEF Live, Echo
  <2> QED BY <2>1, <2>2, <2>3 DEF Live
<1>e. Echoes <=> (turn.gated /\ Echo(r)) \/ Echoes'
  <2>1. ASSUME NEW e \in DOMAIN recordQ, Echo(recordQ[e]), e # 1
        PROVE  e - 1 \in DOMAIN recordQ' /\ Echo(recordQ'[e - 1])
    BY <1>b, <1>c, <2>1 DEF Echo
  <2>2. ASSUME NEW e \in DOMAIN recordQ', Echo(recordQ'[e])
        PROVE  e + 1 \in DOMAIN recordQ /\ Echo(recordQ[e + 1])
    BY <1>b, <1>c, <2>2 DEF Echo
  <2>3. Echoes' <=> turn.gated /\ \E e \in DOMAIN recordQ' : Echo(recordQ'[e])
    BY <1>c DEF Echoes, Echo
  <2> QED BY <1>b, <2>1, <2>2, <2>3 DEF Echoes
<1>h. /\ ~turn.gated /\ r.kind = "answer" => given' = [given EXCEPT ![turn.k] = @ \o <<r>>]
      /\ ~turn.gated => turn'.buffer = turn.buffer
      /\ turn.gated \/ r.kind # "answer" => given' = given
      /\ turn.gated /\ Echo(r) => turn'.buffer = <<>> /\ turn'.echoed
      /\ turn.gated /\ ~Echo(r) => /\ turn'.echoed = turn.echoed
                                   /\ turn'.buffer = IF turn.echoed /\ r.kind = "answer"
                                                     THEN Append(turn.buffer, r) ELSE turn.buffer
      /\ Echo(r) => r.kind # "answer"
  <2>1. /\ ~turn.gated /\ r.kind = "answer" => given' = [given EXCEPT ![turn.k] = @ \o <<r>>]
        /\ turn.gated \/ r.kind # "answer" => given' = given
    BY DEF ReadRecord, Updates, r
  <2>2. ~turn.gated => turn'.buffer = turn.buffer
    BY <1>a DEF Heard, TurnType
  <2>3. /\ turn.gated /\ Echo(r) => turn'.buffer = <<>> /\ turn'.echoed
        /\ turn.gated /\ ~Echo(r) => /\ turn'.echoed = turn.echoed
                                     /\ turn'.buffer = IF turn.echoed /\ r.kind = "answer"
                                                       THEN Append(turn.buffer, r) ELSE turn.buffer
    BY <1>a DEF Heard, Gated, Echo, TurnType
  <2> QED BY <2>1, <2>2, <2>3 DEF Echo
<1>i. /\ IF turn.gated THEN given[turn.k] = <<>> ELSE turn.buffer = <<>>
      /\ turn.gated => turn.echoed \/ Echoes
      /\ ~Echoes => \A i \in DOMAIN Kept : Kept[i].n = i
      /\ Base <= w
      /\ \A j \in DOMAIN recordQ : Live(j) => Base < recordQ[j].n /\ recordQ[j].n <= w
      /\ \A i, j \in DOMAIN recordQ : Live(i) /\ Live(j) /\ i < j => recordQ[i].n < recordQ[j].n
      /\ \A m \in Nat : Base < m /\ m <= w => \E j \in DOMAIN recordQ : Live(j) /\ recordQ[j].n = m
  BY <1>a DEF Pipeline, w
<1>j. Base \in Nat
  BY <1>a DEF Base
<1>k. /\ IF turn.gated THEN given'[turn.k] = <<>> ELSE turn'.buffer = <<>>
      /\ turn.gated => turn'.echoed \/ Echoes'
  BY <1>e, <1>h, <1>i
<1>l. \A i, j \in DOMAIN recordQ' : Live(i)' /\ Live(j)' /\ i < j => recordQ'[i].n < recordQ'[j].n
  <2> SUFFICES ASSUME NEW i \in DOMAIN recordQ', NEW j \in DOMAIN recordQ', Live(i)', Live(j)', i < j
               PROVE  recordQ'[i].n < recordQ'[j].n
    OBVIOUS
  <2>1. i + 1 < j + 1
    BY <1>b
  <2> QED BY <1>b, <1>d, <1>i, <2>1
<1>z. ASSUME NEW b \in Nat, Base' = b, b <= w,
             ~Echoes' => \A i \in DOMAIN Kept' : Kept'[i].n = i,
             \A j \in DOMAIN recordQ : j # 1 /\ Live(j) => b < recordQ[j].n,
             \A m \in Nat : b < m /\ m <= w =>
               \E j \in DOMAIN recordQ : j # 1 /\ Live(j) /\ recordQ[j].n = m
      PROVE  Pipeline'
  <2>1. \A j \in DOMAIN recordQ' : Live(j)' => Base' < recordQ'[j].n /\ recordQ'[j].n <= w
    BY <1>b, <1>d, <1>i, <1>z
  <2>2. ASSUME NEW m \in Nat, b < m, m <= w
        PROVE  \E j \in DOMAIN recordQ' : Live(j)' /\ recordQ'[j].n = m
    <3>1. PICK j \in DOMAIN recordQ : j # 1 /\ Live(j) /\ recordQ[j].n = m
      BY <1>z, <2>2
    <3>2. j - 1 \in DOMAIN recordQ' /\ recordQ'[j - 1] = recordQ[j] /\ (j - 1) + 1 = j
      BY <1>b, <3>1
    <3>3. \E i \in DOMAIN recordQ' : i + 1 = j /\ recordQ'[i].n = m
      BY <3>1, <3>2
    <3> QED BY <1>d, <3>1, <3>3
  <2>3. wrote'[turn'.k] = w /\ agent'.k = turn'.k
    BY <1>a, <1>c DEF w
  <2>4. \A m \in Nat : Base' < m /\ m <= w => \E j \in DOMAIN recordQ' : Live(j)' /\ recordQ'[j].n = m
    BY <1>z, <2>2
  <2> QED BY <1>c, <1>k, <1>l, <1>z, <2>1, <2>3, <2>4 DEF Pipeline
<1>1. CASE Live(1)
  <2>1. r.kind = "answer" /\ ~Echoes
    BY <1>b, <1>1 DEF Live, Echoes
  <2>2. ~Echoes' /\ ~Echo(r)
    BY <1>e, <1>h, <2>1
  <2>3. Kept' = Append(Kept, r)
    <3>1. CASE turn.gated
      BY <1>c, <1>h, <1>i, <2>1, <2>2, <3>1 DEF Kept
    <3>2. CASE ~turn.gated
      <4>1. given'[turn.k] = given[turn.k] \o <<r>>
        BY <1>a, <1>h, <2>1, <3>2
      <4>2. given[turn.k] \in Seq(TranscriptRecord) /\ r \in TranscriptRecord
        BY <1>a
      <4>3. given[turn.k] \o <<r>> = Append(given[turn.k], r)
        BY <4>2
      <4> QED BY <1>c, <3>2, <4>1, <4>3 DEF Kept
    <3> QED BY <3>1, <3>2
  <2>4. Base = Len(Kept) /\ Base' = Len(Kept')
    BY <2>1, <2>2 DEF Base
  <2>5. Len(Kept') = Base + 1 /\ Kept'[Base + 1] = r
        /\ \A i \in DOMAIN Kept' : i = Base + 1 \/ (i \in DOMAIN Kept /\ Kept'[i] = Kept[i])
    BY <1>a, <2>3, <2>4
  <2>6. r.n = Base + 1 /\ Base + 1 <= w
    <3>1. r.n \in Nat /\ Base < r.n /\ r.n <= w
      BY <1>b, <1>i, <1>n, <1>1
    <3>2. ASSUME Base + 1 < r.n PROVE FALSE
      <4>1. Base + 1 \in Nat /\ Base < Base + 1 /\ Base + 1 <= w
        BY <1>a, <1>j, <3>1, <3>2 DEF w
      <4>2. PICK j \in DOMAIN recordQ : Live(j) /\ recordQ[j].n = Base + 1
        BY <1>i, <4>1
      <4>3. j # 1
        BY <1>b, <3>1, <3>2, <4>1, <4>2
      <4>4. r.n < recordQ[j].n
        BY <1>b, <1>i, <1>1, <4>2, <4>3
      <4> QED BY <3>1, <3>2, <4>1, <4>2, <4>4
    <3> QED BY <1>a, <1>j, <3>1, <3>2 DEF w
  <2>7. \A j \in DOMAIN recordQ : j # 1 /\ Live(j) => Base + 1 < recordQ[j].n
    BY <1>b, <1>i, <1>1, <2>6
  <2>8. ASSUME NEW m \in Nat, Base + 1 < m, m <= w
        PROVE  \E j \in DOMAIN recordQ : j # 1 /\ Live(j) /\ recordQ[j].n = m
    <3>1. Base < m /\ m # Base + 1
      BY <1>j, <2>8
    <3>2. PICK j \in DOMAIN recordQ : Live(j) /\ recordQ[j].n = m
      BY <1>i, <2>8, <3>1
    <3> QED BY <1>b, <2>6, <3>1, <3>2
  <2>9. \A i \in DOMAIN Kept' : Kept'[i].n = i
    BY <1>i, <2>1, <2>5, <2>6
  <2>10. Base + 1 \in Nat /\ Base' = Base + 1
    BY <1>j, <2>4, <2>5
  <2> QED BY <1>z, <2>6, <2>7, <2>8, <2>9, <2>10
<1>2. CASE ~Live(1)
  <2>1. /\ Echoes => Base = 0
        /\ ~Echoes => Base = Len(Kept)
    BY DEF Base
  <2>2. Echoes' => Base' = 0 /\ Echoes
    BY <1>e DEF Base
  <2>3. CASE turn.gated /\ Echo(r)
    <3>1. Kept' = <<>> /\ Echoes
      BY <1>c, <1>e, <1>h, <2>3 DEF Kept
    <3>2. Base' = 0 /\ Base = 0
      BY <2>1, <2>2, <3>1 DEF Base
    <3> QED BY <1>i, <1>z, <1>2, <3>1, <3>2
  <2>4. CASE ~(turn.gated /\ Echo(r)) /\ Echoes
    <3>1. Echoes' /\ Base' = 0 /\ Base = 0
      BY <1>e, <2>1, <2>2, <2>4
    <3> QED BY <1>i, <1>z, <1>2, <3>1
  <2>5. CASE ~(turn.gated /\ Echo(r)) /\ ~Echoes
    <3>1. ~Echoes'
      BY <1>e, <2>5
    <3>2. r.kind # "answer"
      <4>1. turn.gated => \A e \in DOMAIN recordQ : Echo(recordQ[e]) => e < 1
        BY <2>5 DEF Echoes
      <4> QED BY <1>b, <1>2, <4>1 DEF Live
    <3>3. Kept' = Kept
      BY <1>a, <1>c, <1>h, <2>5, <3>2 DEF Kept, Heard, TurnType
    <3>4. Base' = Base
      BY <2>5, <3>1, <3>3 DEF Base
    <3> QED BY <1>i, <1>j, <1>z, <1>2, <2>5, <3>1, <3>3, <3>4
  <2> QED BY <2>3, <2>4, <2>5
<1> QED
  BY <1>1, <1>2

LEMMA PipelineAgent ==
  ASSUME OutcomeInv, Pipeline, Careful, Agent \/ UserInterrupts \/ PaneEnds
  PROVE  Pipeline'
<1>a. /\ agent \in AgentType /\ turn \in TurnType /\ Place
      /\ recordQ \in Seq(TranscriptRecord) /\ wrote \in [Prompts -> Nat]
      /\ turn.pc # "none" => turn.k \in Prompts
      /\ Asked \in 0..MaxPrompts /\ Prompts = 1..MaxPrompts /\ MaxPrompts \in Nat
      /\ UNCHANGED <<backend, turn, given>>
  BY CompleteFacts DEF Agent, AgentTakes, AgentAnswers, AgentStops, AgentWritesLate, AgentFails,
     AgentContinues, AgentStopsShort, UserInterrupts, PaneEnds, External
<1>c. Subscribed' = Subscribed
  BY <1>a DEF Subscribed
<1>1. CASE AgentTakes
  <2>1. Untaken /\ agent.inbox = <<turn.k>> /\ Subscribed
    BY <1>1, <1>a DEF AgentTakes, Place, Taken, Untaken, Running, Subscribed
  <2> DEFINE k == Head(agent.inbox)
             first == backend = "codex" /\ ~agent.started
  <2>2. k = turn.k /\ agent'.k = turn.k /\ UNCHANGED wrote
    BY <1>1, <1>a, <2>1 DEF AgentTakes, AgentType
  <2>3. PICK same \in BOOLEAN :
          Write((IF first /\ agent.resumed
                 THEN <<Record("user", IF same THEN k ELSE History, 0), Record("answer", History, 1)>>
                 ELSE <<>>) \o <<Record("user", k, 0)>>)
    BY <1>1 DEF AgentTakes
  <2>4. first /\ agent.resumed => turn.gated
    BY <1>a, <2>1 DEF Place, Running, Untaken
  <2>5. Record("user", k, 0).kind = "user" /\ Record("user", k, 0).k = turn.k
    BY <2>2 DEF Record
  <2>6. recordQ = <<>>
    BY <2>1 DEF Untaken
  <2> HIDE DEF k, first
  <2>7. /\ \A j \in DOMAIN recordQ' : recordQ'[j].kind = "answer" =>
             turn.gated /\ \E e \in DOMAIN recordQ' : ~(e < j) /\ Echo(recordQ'[e])
        /\ \E e \in DOMAIN recordQ' : Echo(recordQ'[e])
    <3>1. CASE first /\ agent.resumed
      <4> DEFINE u == Record("user", IF same THEN k ELSE History, 0)
      <4>0. recordQ' = <<>> \o (<<u, Record("answer", History, 1)>> \o <<Record("user", k, 0)>>)
        BY <2>1, <2>3, <2>6, <3>1 DEF Write
      <4> HIDE DEF u
      <4>1. recordQ' = <<u, Record("answer", History, 1), Record("user", k, 0)>>
        BY <4>0, ThreeRecords
      <4>2. DOMAIN recordQ' = 1..3 /\ recordQ'[3] = Record("user", k, 0)
        BY <4>1
      <4>3. 3 \in 1..3 /\ \A j \in 1..3 : ~(3 < j)
        OBVIOUS
      <4> QED BY <2>4, <2>5, <3>1, <4>2, <4>3 DEF Echo
    <3>2. CASE ~(first /\ agent.resumed)
      <4>0. recordQ' = <<>> \o (<<>> \o <<Record("user", k, 0)>>)
        BY <2>1, <2>3, <2>6, <3>2 DEF Write
      <4>1. recordQ' = <<Record("user", k, 0)>>
        BY <4>0
      <4>2. DOMAIN recordQ' = {1} /\ recordQ'[1] = Record("user", k, 0)
        BY <4>1
      <4> QED BY <2>5, <4>2 DEF Echo
    <3> QED BY <3>1, <3>2
  <2>8. \A j \in DOMAIN recordQ' : ~Live(j)'
    BY <1>a, <2>7 DEF Live, Echo
  <2>9. wrote[turn.k] = 0 /\ Kept = <<>> /\ IF turn.gated THEN given[turn.k] = <<>> ELSE turn.buffer = <<>>
    BY <2>1 DEF Pipeline, Untaken
  <2>10. Kept' = <<>> /\ (turn.gated => Echoes')
    BY <1>a, <2>7, <2>9 DEF Kept, Echoes, Echo
  <2>11. Base' = 0
    BY <2>10 DEF Base
  <2>12. \A m \in Nat : ~(0 < m /\ m <= 0)
    OBVIOUS
  <2> QED BY <1>a, <2>2, <2>8, <2>9, <2>10, <2>11, <2>12 DEF Pipeline
<1>2. CASE AgentAnswers \/ AgentWritesLate
  <2>1. agent.pc \in {"busy", "late"} /\ agent'.k = agent.k
    BY <1>2, <1>a DEF AgentAnswers, Answers, AgentWritesLate, AgentType
  <2>2. agent.k \in Prompts
    BY <1>a, <2>1 DEF Place
  <2>3. agent.k # turn.k => ~Subscribed
    BY <2>1, CompleteFacts DEF Untaken
  <2>4. /\ wrote' = [wrote EXCEPT ![agent.k] = @ + 1]
        /\ Write(<<Record("answer", agent.k, wrote[agent.k] + 1)>>)
    BY <1>2, <2>2 DEF AgentAnswers, AgentWritesLate
  <2>5. UNCHANGED <<turn, given>>
    BY <1>a
  <2> QED BY <2>1, <2>2, <2>3, <2>4, <2>5, PipelineWritten
<1>3. ASSUME \/ AgentStops \/ AgentFails \/ AgentContinues \/ AgentStopsShort
             \/ UserInterrupts \/ PaneEnds
      PROVE  Pipeline'
  <2>1. UNCHANGED <<recordQ, wrote>> /\ agent'.k = agent.k
    BY <1>3, <1>a DEF AgentStops, AgentFails, AgentContinues, AgentStopsShort, UserInterrupts,
       PaneEnds, Interrupted, queueVars, AgentType
  <2> QED BY <1>a, <1>c, <2>1, PipelineStays
<1> QED
  BY <1>1, <1>2, <1>3 DEF Agent

LEMMA PipelineTurn ==
  ASSUME CompleteInv, Careful,
         \/ Prompt \/ Turn \/ SendFails \/ Cancel \/ TurnTimesOut
         \/ Steer \/ Steering \/ SteerSeen
  PROVE  Pipeline'
<1>a. /\ OutcomeInv /\ Pipeline /\ Completed
      /\ agent \in AgentType /\ turn \in TurnType /\ Place
      /\ stateQ \in Seq(StateEvent)
      /\ Asked \in 0..MaxPrompts /\ Prompts = 1..MaxPrompts /\ MaxPrompts \in Nat
      /\ left \in LeftType
  BY CompleteFacts, TypeFacts DEF CompleteInv
<1>1. CASE Prompt
  <2>1. turn'.k = Asked + 1 /\ Asked + 1 \in Prompts
    BY <1>1, <1>a DEF Prompt, Asked, LeftType, NoTurn
  <2>2. turn'.buffer = <<>>
    BY <1>1 DEF Prompt, NoTurn
  <2>3. UNCHANGED <<agent, wrote, given>> /\ recordQ' = <<>> /\ agent.k # turn'.k
    BY <1>1, <1>a, <2>1 DEF Prompt, Place, agentVars, queueVars
  <2>4. wrote[turn'.k] = 0 /\ given[turn'.k] = <<>>
    BY <1>a, <2>1 DEF Completed
  <2>5. Kept' = <<>> /\ ~Echoes'
    BY <2>2, <2>3, <2>4 DEF Kept, Echoes
  <2>6. Base' = 0
    BY <2>5 DEF Base
  <2>7. \A m \in Nat : ~(0 < m /\ m <= 0)
    OBVIOUS
  <2> QED BY <2>2, <2>3, <2>4, <2>5, <2>6, <2>7 DEF Pipeline
<1>2. CASE PromptTyped \/ Steer \/ Steering \/ SteerSeen
  <2>1. UNCHANGED <<recordQ, turn, given, wrote>> /\ agent'.k = agent.k
    BY <1>2, <1>a DEF PromptTyped, Steer, Steering, SteerArrives, SteerFails, SteerGivenUp, SteerSeen,
       queueVars, agentVars, AgentType
  <2> QED BY <1>a, <2>1, PipelineStays DEF Subscribed
<1>3. CASE PromptSent \/ Cancel
  <2>1. /\ turn'.k = turn.k /\ turn'.gated = turn.gated /\ turn'.buffer = turn.buffer
        /\ turn'.echoed = turn.echoed /\ turn.pc \in {"send", "run"}
    BY <1>3, <1>a DEF PromptSent, Cancel, TurnType
  <2>2. UNCHANGED <<recordQ, given, wrote, agent>>
    BY <1>3 DEF PromptSent, Cancel, queueVars, agentVars
  <2> QED BY <1>a, <2>1, <2>2, PipelineStays DEF Subscribed
<1>4. CASE SendFails \/ TurnCancelled \/ TurnTimesOut \/ Complete \/ Release
  <2>1. turn' = NoTurn \/ \E r \in Outcome : turn' = Result(turn, r)
    BY <1>4 DEF SendFails, TurnCancelled, TurnTimesOut, Interrupts, Complete, Release, Outcome
  <2>2. turn'.pc \in {"none", "over"}
    BY <1>a, <2>1, TurnEdits DEF NoTurn
  <2> QED BY <2>2 DEF Pipeline, Subscribed
<1>5. CASE ReadState
  <2>1. /\ Head(stateQ) \in StateEvent /\ turn' = Handled(Head(stateQ)) /\ turn.pc = "run"
        /\ UNCHANGED <<recordQ, given, wrote, agent>>
    BY <1>5, <1>a DEF ReadState, agentVars
  <2>2. /\ turn'.k = turn.k /\ turn'.gated = turn.gated /\ turn'.buffer = turn.buffer
        /\ turn'.echoed = turn.echoed
    BY <1>a, <2>1 DEF Handled, Result, StateEvent, TurnType
  <2> QED BY <1>a, <2>1, <2>2, PipelineStays DEF Subscribed
<1>6. CASE ReadRecord
  BY <1>6, <1>a, PipelineRead
<1> QED
  BY <1>1, <1>2, <1>3, <1>4, <1>5, <1>6 DEF Turn

(* What was told of a prompt that ended stays as it is.                    *)
LEMMA ToldStays ==
  ASSUME OutcomeInv, Careful, Next, NEW k \in Prompts, Told(k), Closed(k),
         turn.pc \in {"run", "drain"} => k # turn.k
  PROVE  Told(k)'
<1>a. /\ agent \in AgentType /\ wrote \in [Prompts -> Nat]
      /\ given \in [Prompts -> Seq(TranscriptRecord)]
  BY CompleteFacts
<1>1. agent.k = k => agent.pc \in {"ready", "gone"}
  BY DEF Told, Closed
<1>2. given'[k] = given[k]
  BY <1>a DEF Next, Agent, AgentTakes, AgentAnswers, AgentStops, AgentWritesLate, AgentFails,
     AgentContinues, AgentStopsShort, UserInterrupts, PaneEnds, External, Prompt, Turn,
     PromptTyped, PromptSent, ReadRecord, ReadState, TurnCancelled, Interrupts, Complete,
     Release, SendFails, Cancel, TurnTimesOut, Steer, Steering, SteerArrives, SteerFails,
     SteerGivenUp, SteerSeen, Updates
<1>3. wrote'[k] = wrote[k]
  BY <1>1, <1>a DEF Next, Agent, AgentTakes, AgentAnswers, AgentStops, AgentWritesLate, AgentFails,
     AgentContinues, AgentStopsShort, UserInterrupts, PaneEnds, External, Prompt, Turn,
     PromptTyped, PromptSent, ReadRecord, ReadState, TurnCancelled, Interrupts, Complete,
     Release, SendFails, Cancel, TurnTimesOut, Steer, Steering, SteerArrives, SteerFails,
     SteerGivenUp, SteerSeen, agentVars
<1>4. agent'.k = k => agent'.pc # "late"
  <2>1. CASE AgentTakes
    BY <1>a, <2>1 DEF AgentTakes, AgentType
  <2>2. CASE ~AgentTakes
    <3>1. agent'.k = agent.k
      BY <1>a, <2>2 DEF Next, Agent, AgentAnswers, Answers, AgentStops, AgentWritesLate, AgentFails,
         AgentContinues, AgentStopsShort, UserInterrupts, PaneEnds, Interrupted, Prompt, Turn,
         PromptTyped, PromptSent, ReadRecord, ReadState, TurnCancelled, Interrupts, Complete,
         Release, SendFails, Cancel, TurnTimesOut, Steer, Steering, SteerArrives, SteerFails,
         SteerGivenUp, SteerSeen, Unsent, agentVars, AgentType
    <3>2. agent'.pc = "late" => agent.pc \in {"late", "busy"}
      BY <1>a, <2>2 DEF Next, Agent, AgentAnswers, Answers, AgentStops, AgentWritesLate, AgentFails,
         AgentContinues, AgentStopsShort, UserInterrupts, PaneEnds, Interrupted, Prompt, Turn,
         PromptTyped, PromptSent, ReadRecord, ReadState, TurnCancelled, Interrupts, Complete,
         Release, SendFails, Cancel, TurnTimesOut, Steer, Steering, SteerArrives, SteerFails,
         SteerGivenUp, SteerSeen, Unsent, agentVars, AgentType
    <3> QED BY <1>1, <3>1, <3>2
  <2> QED BY <2>1, <2>2
<1> QED
  BY <1>2, <1>3, <1>4 DEF Told, Numbered

LEMMA CompletedStep ==
  ASSUME CompleteInv, Careful, Next
  PROVE  Completed'
<1>a. /\ OutcomeInv /\ Pipeline /\ Completed /\ TypeOK /\ Decided /\ Answered
      /\ agent \in AgentType /\ turn \in TurnType /\ Place
      /\ given \in [Prompts -> Seq(TranscriptRecord)] /\ wrote \in [Prompts -> Nat]
      /\ reply \in [Prompts -> Seq(Outcome)] /\ stateQ \in Seq(StateEvent)
      /\ Asked \in 0..MaxPrompts /\ Prompts = 1..MaxPrompts /\ MaxPrompts \in Nat
      /\ left \in LeftType
      /\ turn.pc # "none" => turn.k \in Prompts /\ turn.k = Asked
  BY CompleteFacts, TypeFacts DEF CompleteInv, OutcomeInv
<1>b. "end_turn" \in Outcome /\ "failed" \in Outcome
  BY DEF Outcome
\* The turn that completed.
<1>1. turn'.pc = "over" /\ turn'.result = "end_turn" => Told(turn.k)' /\ turn'.k = turn.k
  <2>1. CASE Complete
    <3>1. /\ recordQ = <<>> /\ agent.pc # "late" /\ UNCHANGED <<agent, wrote>>
          /\ given' = [given EXCEPT ![turn.k] = @ \o turn.buffer]
          /\ turn.pc = "drain" /\ turn.k \in Prompts /\ turn.buffer \in Seq(TranscriptRecord)
          /\ turn' = Result(turn, "end_turn")
      BY <1>a, <2>1 DEF Complete, Updates, agentVars, TurnType
    <3>2. ~Echoes /\ Subscribed
      BY <3>1 DEF Echoes, Subscribed
    <3>3. given'[turn.k] = Kept
      <4>1. given'[turn.k] = given[turn.k] \o turn.buffer
        BY <1>a, <3>1
      <4>2. IF turn.gated THEN given[turn.k] = <<>> ELSE turn.buffer = <<>>
        BY <1>a, <3>2 DEF Pipeline
      <4>3. given[turn.k] \in Seq(TranscriptRecord)
        BY <1>a, <3>1
      <4>4. \A s \in Seq(TranscriptRecord) : <<>> \o s = s /\ s \o <<>> = s
        OBVIOUS
      <4> QED BY <3>1, <4>1, <4>2, <4>3, <4>4 DEF Kept
    <3>4. Len(Kept) \in Nat /\ DOMAIN Kept = 1..Len(Kept) /\ wrote[turn.k] \in Nat
      BY <1>a, <3>1 DEF Kept
    <3>5. Len(Kept) = wrote[turn.k]
      <4>1. Base = Len(Kept)
        BY <3>2 DEF Base
      <4>2. Len(Kept) <= wrote[turn.k]
        BY <1>a, <3>2, <4>1 DEF Pipeline
      <4>3. ~(Len(Kept) < wrote[turn.k])
        BY <1>a, <3>1, <3>2, <3>4, <4>1 DEF Pipeline
      <4> QED BY <3>4, <4>2, <4>3
    <3>6. \A i \in 1..Len(Kept) : Kept[i].n = i
      BY <1>a, <3>2, <3>4 DEF Pipeline
    <3>7. turn'.k = turn.k
      BY <1>a, <1>b, <3>1, TurnEdits
    <3>8. /\ (agent'.k = turn.k => agent'.pc # "late")
          /\ Len(given'[turn.k]) = wrote'[turn.k]
          /\ \A i \in 1..wrote'[turn.k] : given'[turn.k][i].n = i
      BY <3>1, <3>3, <3>5, <3>6
    <3> QED BY <3>7, <3>8 DEF Told, Numbered
  <2>2. CASE turn.pc = "over" /\ turn'.pc = "over"
    <3>1. UNCHANGED turn
      BY <1>a, <2>2 DEF Next, Agent, AgentTakes, AgentAnswers, AgentStops, AgentWritesLate, AgentFails,
         AgentContinues, AgentStopsShort, UserInterrupts, PaneEnds, External, Prompt, Turn,
         PromptTyped, PromptSent, ReadRecord, ReadState, TurnCancelled, Complete,
         Release, SendFails, Cancel, TurnTimesOut, Steer, Steering, SteerArrives, SteerFails,
         SteerGivenUp, SteerSeen, NoTurn
    <3>2. turn.result = "end_turn" => Told(turn.k) /\ Closed(turn.k) /\ turn.k \in Prompts
      BY <1>a, <2>2 DEF Completed, Decided, Good, Final, Closed
    <3>3. turn.result = "end_turn" => Told(turn.k)'
      <4> SUFFICES ASSUME turn.result = "end_turn" PROVE Told(turn.k)'
        OBVIOUS
      <4>1. PICK k \in Prompts : k = turn.k
        BY <3>2
      <4>2. Told(k) /\ Closed(k)
        BY <3>2, <4>1
      <4>3. Told(k)'
        BY <1>a, <2>2, <4>2, ToldStays
      <4> QED BY <3>1, <4>1, <4>3 DEF Told
    <3> QED BY <3>1, <3>3
  <2>3. CASE ~Complete /\ turn.pc # "over"
    <3>1. CASE ReadState
      <4>1. Head(stateQ) \in StateEvent /\ turn' = Handled(Head(stateQ)) /\ turn.pc = "run"
        BY <1>a, <3>1 DEF ReadState
      <4> QED BY <1>a, <4>1 DEF Handled, Result, StateEvent, TurnType
    <3>2. CASE ReadRecord
      <4>1. turn' = Heard(turn, Head(recordQ))
        BY <3>2 DEF ReadRecord
      <4> QED BY <1>a, <2>3, <4>1 DEF Heard, Gated, TurnType
    <3>3. CASE SendFails \/ TurnCancelled \/ TurnTimesOut
      <4>1. PICK r \in {"error", "cancelled"} : turn' = Result(turn, r)
        BY <3>3 DEF SendFails, TurnCancelled, TurnTimesOut, Interrupts
      <4>2. turn'.result = r
        BY <1>a, <4>1 DEF Result, TurnType
      <4> QED BY <4>2
    <3>4. CASE Prompt \/ Release
      <4>1. CASE Prompt
        BY <4>1 DEF Prompt, NoTurn
      <4>2. CASE Release
        BY <4>2 DEF Release, NoTurn
      <4> QED BY <3>4, <4>1, <4>2
    <3>5. CASE PromptSent \/ Cancel
      BY <1>a, <2>3, <3>5 DEF PromptSent, Cancel, TurnType
    <3>6. CASE Agent \/ UserInterrupts \/ PaneEnds \/ PromptTyped \/ Steer \/ Steering \/ SteerSeen
      <4>1. UNCHANGED turn
        BY <3>6 DEF Agent, AgentTakes, AgentAnswers, AgentStops, AgentWritesLate, AgentFails,
           AgentContinues, AgentStopsShort, UserInterrupts, PaneEnds, External, PromptTyped,
           Steer, Steering, SteerArrives, SteerFails, SteerGivenUp, SteerSeen
      <4> QED BY <2>3, <4>1
    <3> QED BY <2>3, <3>1, <3>2, <3>3, <3>4, <3>5, <3>6 DEF Next, Turn
  <2> QED BY <2>1, <2>2, <2>3
\* The prompts that were answered.
<1>2. ASSUME NEW k \in Prompts, Replied(k, "end_turn")' PROVE Told(k)'
  <2>1. CASE Replied(k, "end_turn")
    <3>1. Told(k) /\ Closed(k) /\ (turn.pc # "none" => k # turn.k)
      BY <1>a, <1>b, <2>1 DEF Completed, Answered
    <3> QED BY <1>a, <3>1, ToldStays
  <2>2. CASE ~Replied(k, "end_turn")
    <3>1. Release
      BY <1>2, <2>2 DEF Replied, Next, Agent, AgentTakes, AgentAnswers, AgentStops, AgentWritesLate,
         AgentFails, AgentContinues, AgentStopsShort, UserInterrupts, PaneEnds, External, Prompt, Turn,
         PromptTyped, PromptSent, ReadRecord, ReadState, TurnCancelled, Interrupts, Complete,
         SendFails, Cancel, TurnTimesOut, Steer, Steering, SteerArrives, SteerFails,
         SteerGivenUp, SteerSeen
    <3>2. /\ reply' = [reply EXCEPT ![turn.k] = Append(@, turn.result)] /\ turn.pc = "over"
          /\ UNCHANGED <<agent, wrote, given>>
      BY <3>1 DEF Release, agentVars
    <3>3. turn.result \in Outcome /\ turn.k \in Prompts
      BY <1>a, <3>2 DEF TypeOK, TurnAgrees, TurnType
    <3>4. k = turn.k /\ turn.result = "end_turn"
      BY <1>2, <1>a, <2>2, <3>2, <3>3, RangeAppend DEF Replied
    <3>5. Told(k)
      BY <1>a, <3>2, <3>4 DEF Completed
    <3> QED BY <3>2, <3>5 DEF Told
  <2> QED BY <2>1, <2>2
\* The prompts that are still to come.
<1>3. ASSUME NEW k \in Prompts, k > Asked' PROVE wrote'[k] = 0 /\ given'[k] = <<>>
  <2>1. k > Asked
    <3>1. CASE Prompt
      <4>1. Asked' = Asked + 1
        BY <3>1, <1>a DEF Prompt, Asked, LeftType
      <4>2. \A i, n \in Nat : i > n + 1 => i > n
        OBVIOUS
      <4>3. k \in Nat /\ Asked \in Nat
        BY <1>a
      <4> QED BY <1>3, <4>1, <4>2, <4>3
    <3>2. CASE ~Prompt
      <4>1. Asked' = Asked
        BY <3>2, <1>a DEF Next, Agent, AgentTakes, AgentAnswers, AgentStops, AgentWritesLate, AgentFails,
           AgentContinues, AgentStopsShort, UserInterrupts, PaneEnds, External, Turn,
           PromptTyped, PromptSent, ReadRecord, ReadState, TurnCancelled, Interrupts, Complete,
           Release, SendFails, Cancel, TurnTimesOut, Steer, Steering, SteerArrives, SteerFails,
           SteerGivenUp, SteerSeen, Trouble, Asked, LeftType
      <4> QED BY <1>3, <4>1
    <3> QED BY <3>1, <3>2
  <2>2. wrote[k] = 0 /\ given[k] = <<>> /\ k # agent.k /\ (turn.pc # "none" => k # turn.k)
    <3>1. wrote[k] = 0 /\ given[k] = <<>>
      BY <1>a, <2>1 DEF Completed
    <3>2. agent.k \in 0..Asked
      BY <1>a DEF Place
    <3>3. \A n \in Nat : \A i \in 0..n : k > n => k # i
      BY <1>a
    <3>4. Asked \in Nat /\ Asked \in 0..Asked
      BY <1>a
    <3> QED BY <1>a, <2>1, <3>1, <3>2, <3>3, <3>4
  <2>3. given'[k] = given[k]
    BY <1>a, <2>2 DEF Next, Agent, AgentTakes, AgentAnswers, AgentStops, AgentWritesLate, AgentFails,
       AgentContinues, AgentStopsShort, UserInterrupts, PaneEnds, External, Prompt, Turn,
       PromptTyped, PromptSent, ReadRecord, ReadState, TurnCancelled, Interrupts, Complete,
       Release, SendFails, Cancel, TurnTimesOut, Steer, Steering, SteerArrives, SteerFails,
       SteerGivenUp, SteerSeen, Updates
  <2>4. wrote'[k] = wrote[k]
    BY <1>a, <2>2 DEF Next, Agent, AgentTakes, AgentAnswers, AgentStops, AgentWritesLate, AgentFails,
       AgentContinues, AgentStopsShort, UserInterrupts, PaneEnds, External, Prompt, Turn,
       PromptTyped, PromptSent, ReadRecord, ReadState, TurnCancelled, Interrupts, Complete,
       Release, SendFails, Cancel, TurnTimesOut, Steer, Steering, SteerArrives, SteerFails,
       SteerGivenUp, SteerSeen, agentVars
  <2> QED BY <2>2, <2>3, <2>4
<1>4. turn'.pc = "over" /\ turn'.result = "end_turn" => Told(turn.k)' /\ turn'.k = turn.k
  BY <1>1
<1> QED
  BY <1>2, <1>3, <1>4 DEF Completed, Told

(* When a turn ends as it should, the client has been told every answer of *)
(* the prompt, each once and in the order in which the agent wrote them,   *)
(* the last record that the agent writes after its Stop included           *)
(* (drain_transcript), and nothing that does not answer it.                *)
THEOREM AnswersAll == Careful => (Spec => []AnswersDelivered)
<1> SUFFICES ASSUME Careful PROVE Spec => []AnswersDelivered
  OBVIOUS
<1>1. Init => CompleteInv
  <2> SUFFICES ASSUME Init PROVE CompleteInv
    OBVIOUS
  <2>1. OutcomeInv /\ turn.pc = "none"
    BY OutcomeInit DEF Init, NoTurn
  <2>2. \A k \in Prompts : reply[k] = <<>> /\ wrote[k] = 0 /\ given[k] = <<>>
    BY DEF Init
  <2>3. Range(<<>>) = {}
    BY DEF Range
  <2> QED BY <2>1, <2>2, <2>3 DEF CompleteInv, Pipeline, Subscribed, Completed, Replied
<1>2. CompleteInv /\ [Next]_vars => CompleteInv'
  <2> SUFFICES ASSUME CompleteInv, [Next]_vars PROVE CompleteInv'
    OBVIOUS
  <2>1. OutcomeInv /\ OutcomeInv'
    BY OutcomeStep DEF CompleteInv
  <2>2. CASE Next
    <3>1. Pipeline'
      BY <2>2, PipelineAgent, PipelineTurn DEF Next, CompleteInv
    <3>2. Completed'
      BY <2>2, CompletedStep
    <3> QED BY <2>1, <3>1, <3>2 DEF CompleteInv
  <2>3. CASE UNCHANGED vars
    <3>1. UNCHANGED <<agent, recordQ, turn, given, wrote, reply, left>>
      BY <2>3 DEF vars, agentVars, queueVars
    <3>2. Pipeline'
      BY <3>1, PipelineStays DEF CompleteInv, Subscribed
    <3>3. Completed'
      BY <3>1 DEF CompleteInv, Completed, Told, Replied, Asked
    <3> QED BY <2>1, <3>2, <3>3 DEF CompleteInv
  <2> QED BY <2>2, <2>3
<1>3. CompleteInv => AnswersComplete
  <2> SUFFICES ASSUME CompleteInv, NEW k \in Prompts, reply[k] = <<"end_turn">>
               PROVE  [i \in DOMAIN given[k] |-> given[k][i].n] = [i \in 1..wrote[k] |-> i]
    BY DEF AnswersComplete
  <2>1. Replied(k, "end_turn")
    BY DEF Replied, Range
  <2>2. Numbered(given[k], wrote[k]) /\ given[k] \in Seq(TranscriptRecord)
    BY <2>1, CompleteFacts DEF CompleteInv, Completed, Told
  <2>3. DOMAIN given[k] = 1..wrote[k] /\ \A i \in 1..wrote[k] : given[k][i].n = i
    BY <2>2 DEF Numbered
  <2> QED BY <2>3
<1>4. Spec => []AnswersComplete
  BY <1>1, <1>2, <1>3, PTL DEF Spec
<1>5. AnswersBelong /\ AnswersComplete => AnswersDelivered
  BY DEF AnswersDelivered
<1> QED
  BY <1>4, <1>5, AnswersOwn, PTL

=============================================================================
