------------------------------- MODULE Mailbox -------------------------------
(***************************************************************************)
(* The requests that slopd-mcp carries for its clients: a mailbox of       *)
(* entries, and a worker for each that finds or creates an agent, sends    *)
(* the prompt and waits for the reply.  A worker watches the events of its *)
(* pane, and after each reads first the transcript and then the state.     *)
(*                                                                         *)
(* Agents of two kinds: one marks its final answer and writes failures to  *)
(* the transcript (Codex), the other does neither (Claude).                *)
(***************************************************************************)
EXTENDS Naturals, FiniteSets, Sequences, SequencesExt

CONSTANTS
  Request,      \* the calls of clients
  Targets,      \* "automatic", "new", "existing"
  Texts,        \* what they ask
  Interrupts,   \* whether they interrupt
  Parallels,    \* whether a new agent may start beside pending work
  Marks,        \* whether agents mark final answers and failures
  MaxPanes,     \* bound on panes
  MaxTexts,     \* bound on commentary in a turn
  MaxMishaps,   \* bound on prompts people type, failures of turns and deaths
  Limit,        \* MAILBOX_LIMIT
  Trouble,      \* what may go wrong outside: see Troubles
  None

\* again: a prompt is asked again when the first is no more deduplicated;
\* silence: a prompt follows a turn that ended, or was cut off, without a word
\* while the request of that turn still waits;
\* takeover: a prompt comes while a retry is scheduled;
\* lateFailure: the turn before fails while a worker waits to send;
\* tag: slopd does not answer the tagging of a new pane.
Troubles == {"again", "silence", "takeover", "lateFailure", "tag"}

Pane == 1..MaxPanes

ASSUME MailboxAssumption ==
  /\ Targets \subseteq {"automatic", "new", "existing"}
  /\ {Interrupts, Parallels, Marks} \subseteq SUBSET BOOLEAN
  /\ {MaxPanes, Limit} \subseteq Nat \ {0}
  /\ {MaxTexts, MaxMishaps} \subseteq Nat
  /\ Trouble \subseteq Troubles
  /\ None \notin Request \cup Texts

VARIABLES
  marked,   \* what kind the agents are
  pane,     \* panes and their agents
  log,      \* transcripts
  box,      \* Mailbox: requests, the newest last
  entry,    \* MailboxEntry
  spawner,  \* who holds spawn_lock
  worker,   \* start_agent_request and wait_for_mailbox_reply
  queue,    \* each worker's subscription
  mishaps

vars == <<marked, pane, log, box, entry, spawner, worker, queue, mishaps>>

-----------------------------------------------------------------------------
NoPane == [live |-> FALSE, tagged |-> FALSE, st |-> "none", by |-> None,
           turn |-> "none", said |-> 0]
NoEntry == [state |-> "none", pane |-> None, target |-> "new", text |-> None,
            interrupt |-> FALSE, recent |-> TRUE, reply |-> None]
NoSnap == [over |-> TRUE, reply |-> None, complete |-> FALSE, failure |-> "none"]
NoWorker == [pc |-> "idle", cursor |-> 0, snap |-> NoSnap, retry |-> FALSE]

InitWith(panes) ==
  /\ marked \in Marks
  /\ pane = panes
  /\ log = [p \in Pane |-> <<>>]
  /\ box = <<>>
  /\ entry = [r \in Request |-> NoEntry]
  /\ spawner = None
  /\ worker = [r \in Request |-> NoWorker]
  /\ queue = [r \in Request |-> <<>>]
  /\ mishaps = 0

Init == InitWith([p \in Pane |-> NoPane])

-----------------------------------------------------------------------------
(* Agents.                                                                 *)

Subscribed(r) == worker[r].pc \in {"cursor", "send", "read", "ps", "wait"}

(* Events of pane p for those who watch it.  A run of events that only     *)
(* make a worker look again counts once: a look that does not end the wait *)
(* may as well be the next one.                                            *)
Tell(p, events) ==
  queue' = [r \in Request |->
              IF ~(Subscribed(r) /\ entry[r].pane = p) THEN queue[r]
              ELSE IF queue[r] # <<>> /\ Last(queue[r]) = "note" /\ events[1] = "note"
              THEN queue[r] \o Tail(events)
              ELSE queue[r] \o events]

\* The subscription ends with the worker.
Leave(r) == queue' = [queue EXCEPT ![r] = <<>>]

Write(p, rec) == log' = [log EXCEPT ![p] = Append(@, rec)]

\* by: whose turn it is; None for what a person typed.
Rec(kind, p, text) == [kind |-> kind, by |-> pane[p].by, text |-> text]

Mishap == mishaps < MaxMishaps /\ mishaps' = mishaps + 1

others == <<marked, box, entry, spawner, worker>>

Boot(p) ==
  /\ pane[p].st = "boot"
  /\ pane' = [pane EXCEPT ![p].st = "ready"]
  /\ Tell(p, <<"note">>)
  /\ UNCHANGED <<others, log, mishaps>>

\* The hook of a prompt comes before its record.
Begun(p, r) == [pane EXCEPT ![p].st = "busy", ![p].by = r, ![p].turn = "begun", ![p].said = 0]

\* A failure in the transcript is as good as a word.
Failed(p) == log[p] # <<>> /\ log[p][Len(log[p])].kind = "failed"
Silent(p) ==
  /\ pane[p].by # None /\ pane[p].said = 0 /\ ~Failed(p)
  /\ worker[pane[p].by].pc # "done"

MayFollow(p) ==
  /\ "takeover" \in Trouble \/ pane[p].turn \notin {"retry", "again"}
  /\ "silence" \in Trouble \/ ~Silent(p)

Type(p) ==
  /\ pane[p].st = "ready" /\ MayFollow(p)
  /\ Mishap
  /\ pane' = Begun(p, None)
  /\ Tell(p, <<"start">>)
  /\ UNCHANGED <<others, log>>

WritePrompt(p) ==
  /\ pane[p].turn = "begun"
  /\ pane' = [pane EXCEPT ![p].turn = "going"]
  /\ LET r == pane[p].by
     IN  Write(p, Rec("user", p, IF r = None THEN None ELSE entry[r].text))
  /\ Tell(p, <<"note">>)
  /\ UNCHANGED <<others, mishaps>>

Comment(p) ==
  /\ pane[p].turn = "going" /\ pane[p].said < MaxTexts
  /\ pane' = [pane EXCEPT ![p].said = @ + 1]
  /\ Write(p, Rec("text", p, None))
  /\ Tell(p, <<"note">>)
  /\ UNCHANGED <<others, mishaps>>

Conclude(p) ==
  /\ pane[p].turn = "going"
  /\ pane' = [pane EXCEPT ![p].turn = "said", ![p].said = @ + 1]
  /\ Write(p, Rec(IF marked THEN "final" ELSE "text", p, None))
  /\ Tell(p, <<"note">>)
  /\ UNCHANGED <<others, mishaps>>

Stop(p) ==
  /\ pane[p].turn = "said"
  /\ pane' = [pane EXCEPT ![p].turn = "none", ![p].st = "ready"]
  /\ Tell(p, <<"note">>)
  /\ UNCHANGED <<others, log, mishaps>>

\* Somebody waits to send to the pane.
Awaited(p) == \E r \in Request : worker[r].pc \in {"cursor", "send"} /\ entry[r].pane = p

(* A turn fails, and a retry is scheduled or not.  The record of a failure *)
(* that may be retried does not say which until the tailer has read it.    *)
Fail(p) ==
  /\ pane[p].turn = "going"
  /\ "lateFailure" \in Trouble \/ ~Awaited(p)
  /\ Mishap
  /\ IF marked
     THEN /\ pane' = [pane EXCEPT ![p].turn = "failed"]
          /\ \E text \in {"open", "fail"} : Write(p, Rec("failed", p, text))
          /\ UNCHANGED queue
     ELSE \E next \in {"retry", "none"} :
            /\ pane' = [pane EXCEPT ![p].turn = next, ![p].st = "ready"]
            /\ Tell(p, <<"note", IF next = "retry" THEN "retry" ELSE "fail">>)
            /\ UNCHANGED log
  /\ UNCHANGED others

ReadFailure(p) ==
  /\ pane[p].turn = "failed"
  /\ \E next \in {"retry", "none"} :
       /\ next = "retry" => Last(log[p]).text = "open"
       /\ LET known == IF next = "retry" THEN "retry" ELSE "fail" IN
            /\ pane' = [pane EXCEPT ![p].turn = next, ![p].st = "ready"]
            /\ log' = [log EXCEPT ![p] = [@ EXCEPT ![Len(@)].text = known]]
            /\ Tell(p, <<known, "note">>)
  /\ UNCHANGED <<others, mishaps>>

Continue(p) ==
  /\ pane[p].turn = "retry"
  /\ pane' = [pane EXCEPT ![p].turn = "again", ![p].st = "busy"]
  /\ Tell(p, <<"start">>)
  /\ UNCHANGED <<others, log, mishaps>>

WriteContinue(p) ==
  /\ pane[p].turn = "again"
  /\ pane' = [pane EXCEPT ![p].turn = "going"]
  /\ Write(p, Rec("continue", p, None))
  /\ Tell(p, <<"start">>)
  /\ UNCHANGED <<others, mishaps>>

Die(p) ==
  /\ pane[p].live
  /\ Mishap
  /\ pane' = [pane EXCEPT ![p] = [NoPane EXCEPT !.st = "dead"]]
  /\ Tell(p, <<"gone">>)
  /\ UNCHANGED <<others, log>>

Turn(p) ==
  \/ Boot(p) \/ WritePrompt(p) \/ Conclude(p) \/ Stop(p)
  \/ ReadFailure(p) \/ Continue(p) \/ WriteContinue(p)

-----------------------------------------------------------------------------
(* The mailbox.                                                            *)

Goto(r, pc) == [worker EXCEPT ![r].pc = pc]
Done(r) == worker' = [worker EXCEPT ![r] = [NoWorker EXCEPT !.pc = "done"]]
Finish(r, state, reply) == [entry EXCEPT ![r].state = state, ![r].reply = reply]
Newest(S) == CHOOSE i \in S : \A j \in S : j <= i

SameKey(e, f) == e.target = f.target /\ e.text = f.text /\ e.interrupt = f.interrupt
Same(e) == {i \in 1..Len(box) : entry[box[i]].recent /\ SameKey(entry[box[i]], e)}
Unfinished == {i \in 1..Len(box) : entry[box[i]].state = "pending"}

agents == <<marked, pane, log, mishaps>>

\* Mailbox::insert.  The oldest entry makes room, finished or not.
Insert(r, e) ==
  /\ entry' = [entry EXCEPT ![r] = e]
  /\ box' = Append(IF Len(box) >= Limit THEN Tail(box) ELSE box, r)
  /\ worker' = Goto(r, "resolve")

(* A call that was made a moment ago is answered from its entry; a new     *)
(* agent is refused while anything is pending.                             *)
Ask ==
  LET r == CHOOSE r \in Request : entry[r].state = "none" IN
  /\ \E r0 \in Request : entry[r0].state = "none"
  /\ \E target \in Targets, text \in Texts, interrupt \in Interrupts, parallel \in Parallels :
       LET e == [NoEntry EXCEPT !.state = "pending", !.target = target,
                                !.text = text, !.interrupt = interrupt]
       IN
       /\ Same(e) = {}
       /\ target = "new" /\ ~parallel => Unfinished = {}
       /\ "again" \in Trouble \/ text = CHOOSE t \in Texts : \A q \in Request : entry[q].text # t
       /\ Insert(r, e)
  /\ UNCHANGED <<agents, spawner, queue>>

Expire(r) ==
  /\ "again" \in Trouble /\ entry[r].state # "none" /\ entry[r].recent
  /\ entry' = [entry EXCEPT ![r].recent = FALSE]
  /\ UNCHANGED <<agents, box, spawner, worker, queue>>

\* recent_pane_ids: the position of the newest entry that used the pane.
Used(p) ==
  LET at == {i \in 1..Len(box) : entry[box[i]].pane = p}
  IN  IF at = {} THEN 0 ELSE Newest(at)

Best(S) == CHOOSE p \in S : \A q \in S : Used(q) < Used(p) \/ (Used(q) = Used(p) /\ q <= p)

\* preferred_mcp_pane_id and preferred_existing_pane_id.
Owned == {p \in Pane : pane[p].live /\ pane[p].tagged}
Contacted == {p \in Pane : pane[p].live /\ Used(p) > 0}
Preferred(target) ==
  IF target = "existing" /\ Contacted # {} THEN {Best(Contacted)}
  ELSE IF Owned # {} THEN {Best(Owned)} ELSE {}

Previous(r) == {i \in 1..Len(box) : box[i] # r}

\* The entry of a request that finds no agent names the one before it.
NoAgent(r) ==
  entry' = [Finish(r, "failed", None) EXCEPT
              ![r].pane = IF Previous(r) = {} THEN @
                          ELSE IF entry[box[Newest(Previous(r))]].pane = None THEN @
                          ELSE entry[box[Newest(Previous(r))]].pane]

Resolve(r) ==
  /\ worker[r].pc = "resolve"
  /\ LET target == entry[r].target
         found == Preferred(target)
     IN  IF target # "new" /\ found # {}
         THEN /\ entry' = [entry EXCEPT ![r].pane = CHOOSE p \in found : TRUE]
              /\ worker' = Goto(r, "cursor")
         ELSE IF target = "existing"
              THEN NoAgent(r) /\ Done(r)
              ELSE worker' = Goto(r, "lock") /\ UNCHANGED entry
  /\ UNCHANGED <<agents, box, spawner, queue>>

Lock(r) ==
  /\ worker[r].pc = "lock" /\ spawner = None
  /\ spawner' = r
  /\ worker' = Goto(r, IF entry[r].target = "new" THEN "run" ELSE "recheck")
  /\ UNCHANGED <<agents, box, entry, queue>>

RecheckBlind(r) ==
  /\ worker[r].pc = "recheck"
  /\ worker' = Goto(r, "run")
  /\ UNCHANGED <<agents, box, entry, spawner, queue>>

Recheck(r) ==
  /\ worker[r].pc = "recheck"
  /\ LET found == Preferred("automatic") IN
     IF found # {}
     THEN /\ entry' = [entry EXCEPT ![r].pane = CHOOSE p \in found : TRUE]
          /\ worker' = Goto(r, "cursor") /\ spawner' = None
     ELSE IF Previous(r) # {}
          THEN NoAgent(r) /\ Done(r) /\ spawner' = None
          ELSE worker' = Goto(r, "run") /\ UNCHANGED <<entry, spawner>>
  /\ UNCHANGED <<agents, box, queue>>

\* The end of create_agent_pane without a pane.
GiveUp(r) ==
  /\ entry' = Finish(r, "failed", None)
  /\ Done(r)
  /\ spawner' = None

Unmade == {p \in Pane : pane[p].st = "none"}

Run(r) ==
  /\ worker[r].pc = "run"
  /\ \/ /\ Unmade # {}
        /\ LET p == CHOOSE p \in Unmade : \A q \in Unmade : p <= q IN
             /\ pane' = [pane EXCEPT ![p].live = TRUE, ![p].st = "boot"]
             /\ entry' = [entry EXCEPT ![r].pane = p]
        /\ worker' = Goto(r, "tag")
        /\ UNCHANGED spawner
     \/ GiveUp(r) /\ UNCHANGED pane
  /\ UNCHANGED <<marked, log, box, queue, mishaps>>

TagNew(r) ==
  /\ worker[r].pc = "tag"
  /\ \/ /\ pane[entry[r].pane].live
        /\ pane' = [pane EXCEPT ![entry[r].pane].tagged = TRUE]
        /\ worker' = Goto(r, "boot")
        /\ UNCHANGED <<entry, spawner>>
     \/ /\ "tag" \in Trouble \/ ~pane[entry[r].pane].live
        /\ GiveUp(r) /\ UNCHANGED pane
  /\ UNCHANGED <<marked, log, box, queue, mishaps>>

\* wait_pane_ready.
AwaitBoot(r) ==
  /\ worker[r].pc = "boot" /\ pane[entry[r].pane].st # "boot"
  /\ \/ /\ pane[entry[r].pane].live
        /\ worker' = Goto(r, "cursor") /\ spawner' = None
        /\ UNCHANGED entry
     \/ ~pane[entry[r].pane].live /\ GiveUp(r)
  /\ UNCHANGED <<agents, box, queue>>

BootTimeout(r) ==
  /\ worker[r].pc = "boot" /\ pane[entry[r].pane].st = "boot"
  /\ pane' = [pane EXCEPT ![entry[r].pane] = [NoPane EXCEPT !.st = "dead"]]
  /\ Tell(entry[r].pane, <<"gone">>)
  /\ GiveUp(r)
  /\ UNCHANGED <<marked, log, box, mishaps>>

\* slopd does not read the transcript of a pane that is gone.
Seen(r) == IF pane[entry[r].pane].live THEN log[entry[r].pane] ELSE <<>>

Cursor(r) ==
  /\ worker[r].pc = "cursor"
  /\ worker' = [worker EXCEPT ![r].pc = "send", ![r].cursor = Len(Seen(r))]
  /\ UNCHANGED <<agents, box, entry, spawner, queue>>

Send(r) ==
  LET p == entry[r].pane IN
  /\ worker[r].pc = "send"
  /\ \/ pane[p].st = "ready"
     \/ pane[p].st = "busy" /\ entry[r].interrupt /\ pane[p].turn # "failed"
  /\ MayFollow(p)
  /\ pane' = Begun(p, r)
  /\ Tell(p, <<"start">>)
  /\ worker' = Goto(r, "read")
  /\ UNCHANGED <<marked, log, box, entry, spawner, mishaps>>

\* The pane is gone, or not ready in time.
SendFails(r) ==
  /\ worker[r].pc = "send"
  /\ entry' = Finish(r, "failed", None)
  /\ Done(r) /\ Leave(r)
  /\ UNCHANGED <<agents, box, spawner>>

-----------------------------------------------------------------------------
(* The reply.                                                              *)

StartLate(r) ==
  LET seen == Seen(r)
      at == {i \in worker[r].cursor + 2..Len(seen) :
               seen[i].kind = "user" /\ seen[i].text = entry[r].text}
  IN  IF at = {} THEN Len(seen) + 1 ELSE CHOOSE i \in at : \A j \in at : i <= j

\* request_reply_snapshot: the prompt after the cursor.
Start(r) ==
  LET seen == Seen(r)
      at == {i \in worker[r].cursor + 1..Len(seen) :
               seen[i].kind = "user" /\ seen[i].text = entry[r].text}
  IN  IF at = {} THEN Len(seen) + 1 ELSE CHOOSE i \in at : \A j \in at : i <= j

TakeOn(s, rec) ==
  CASE s.over -> s
    [] rec.kind = "failed" -> [s EXCEPT !.failure = rec.text]
    [] rec.kind = "continue" -> [s EXCEPT !.failure = "none"]
    [] rec.kind = "user" -> s
    [] rec.kind = "text" -> [s EXCEPT !.reply = rec]
    [] OTHER -> [s EXCEPT !.reply = rec, !.failure = "none", !.complete = TRUE, !.over = TRUE]

(* reply_snapshot_from, one record at a time: a person's or another        *)
(* request's prompt ends the turn once there is a reply or a failure; the  *)
(* "continue" of a retry does not end a failed one.                        *)
Take(s, rec) ==
  CASE s.over -> s
    [] rec.kind = "failed" -> [s EXCEPT !.failure = rec.text]
    [] rec.kind = "continue" /\ s.failure # "none" -> [s EXCEPT !.failure = "none"]
    [] rec.kind \in {"user", "continue"} ->
         [s EXCEPT !.over = s.reply # None \/ s.failure # "none"]
    [] rec.kind = "text" -> [s EXCEPT !.reply = rec]
    [] OTHER -> [s EXCEPT !.reply = rec, !.failure = "none", !.complete = TRUE, !.over = TRUE]

Snapshot(r) ==
  LET seen == Seen(r)
      first == Start(r)
      read[i \in first..Len(seen)] ==
        IF i = first THEN [NoSnap EXCEPT !.over = FALSE] ELSE Take(read[i - 1], seen[i])
  IN  IF first > Len(seen) THEN NoSnap ELSE [read[Len(seen)] EXCEPT !.over = TRUE]

ReadTranscript(r) ==
  /\ worker[r].pc = "read"
  /\ worker' = [worker EXCEPT ![r].pc = "ps", ![r].snap = Snapshot(r)]
  /\ UNCHANGED <<agents, box, entry, spawner, queue>>

Answered(r, ready) ==
  LET w == worker[r] IN
  /\ w.snap.failure = "none" /\ w.snap.reply # None /\ ~w.retry
  /\ w.snap.complete \/ ready

\* The state is asked for when the transcript has been read.
ReadState(r) ==
  LET p == entry[r].pane
      s == worker[r].snap
  IN
  /\ worker[r].pc = "ps"
  /\ CASE ~pane[p].live \/ s.failure = "fail" ->
            entry' = Finish(r, "failed", None) /\ Done(r) /\ Leave(r)
       [] Answered(r, pane[p].st = "ready") ->
            entry' = Finish(r, "completed", s.reply) /\ Done(r) /\ Leave(r)
       [] OTHER ->
            /\ worker' = [worker EXCEPT ![r].pc = "wait", ![r].snap = NoSnap,
                                        ![r].retry = @ \/ s.failure = "retry"]
            /\ UNCHANGED <<entry, queue>>
  /\ UNCHANGED <<agents, box, spawner>>

\* An event ends the wait, or the transcript is read again.
Hear(r) ==
  /\ worker[r].pc = "wait" /\ queue[r] # <<>>
  /\ LET ev == Head(queue[r]) IN
     IF ev \in {"gone", "fail"}
     THEN entry' = Finish(r, "failed", None) /\ Done(r) /\ Leave(r)
     ELSE /\ queue' = [queue EXCEPT ![r] = Tail(@)]
          /\ worker' = [worker EXCEPT ![r].pc = "ps", ![r].snap = Snapshot(r),
                          ![r].retry = CASE ev = "retry" -> TRUE [] ev = "start" -> FALSE
                                         [] OTHER -> @]
          /\ UNCHANGED entry
  /\ UNCHANGED <<agents, box, spawner>>

Work(r) ==
  \/ Resolve(r) \/ Lock(r) \/ Recheck(r) \/ Run(r) \/ TagNew(r) \/ AwaitBoot(r)
  \/ Cursor(r) \/ Send(r) \/ ReadTranscript(r) \/ ReadState(r) \/ Hear(r)

Next ==
  \/ Ask
  \/ \E r \in Request : Expire(r) \/ Work(r) \/ BootTimeout(r) \/ SendFails(r)
  \/ \E p \in Pane : Turn(p) \/ Type(p) \/ Comment(p) \/ Fail(p) \/ Die(p)

Spec == Init /\ [][Next]_vars

(* Workers go on, and agents with their turns; nothing is assumed of       *)
(* clients, people, failures, deaths and timeouts.                         *)
FairSpec ==
  /\ Spec
  /\ \A r \in Request : WF_vars(Work(r))
  /\ \A p \in Pane : WF_vars(Turn(p))

-----------------------------------------------------------------------------
(* Correctness.                                                            *)

Kinds == {"user", "continue", "text", "final", "failed"}
Recs == [kind : Kinds, by : Request \cup {None}, text : Texts \cup {None, "open", "retry", "fail"}]

TypeOK ==
  /\ marked \in Marks /\ mishaps \in 0..MaxMishaps
  /\ \A p \in Pane : pane[p].by \in Request \cup {None} /\ pane[p].said \in 0..MaxTexts + 1
  /\ \A p \in Pane : \A i \in 1..Len(log[p]) : log[p][i] \in Recs
  /\ Len(box) <= Limit
  /\ spawner \in Request \cup {None}
  /\ \A r \in Request :
       /\ entry[r].pane \in Pane \cup {None}
       /\ entry[r].state = "completed" => entry[r].reply \in Recs
       /\ entry[r].state = "pending" => worker[r].pc \notin {"idle", "done"}

(* A completed request carries what the agent said in its turn for that    *)
(* request, or in a retry of it: never the answer to another prompt, to an *)
(* earlier one or to a person (2113-2183).                                 *)
RepliesBelong ==
  \A r \in Request : entry[r].state = "completed" =>
    entry[r].reply.by = r /\ entry[r].reply.kind \in {"text", "final"}

(* A request that names no agent creates one only when slopd has no pane   *)
(* of the supervisor, however many such requests come at once (755-760).   *)
AgentsOnDemand ==
  [][\A r \in Request :
       worker[r].pc # "tag" /\ worker'[r].pc = "tag" /\ entry[r].target = "automatic"
         => Owned = {}]_vars

(* A request whose prompt was taken comes to its end without the deadline  *)
(* of a day: no event is missed between two reads, and a retry that began  *)
(* is not waited for any more (1496-1548).                                 *)
RequestsFinish ==
  \A r \in Request : worker[r].pc \in {"read", "ps", "wait"} ~> worker[r].pc = "done"
=============================================================================
