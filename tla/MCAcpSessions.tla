---------------------------- MODULE MCAcpSessions ----------------------------
(* AcpSessions on small instances, and what the repository says beyond it. *)
EXTENDS AcpSessions

\* Two of the three.
OfEachTwo == {[crashes |-> 0, troubles |-> 1, prompts |-> 1],
              [crashes |-> 1, troubles |-> 0, prompts |-> 1],
              [crashes |-> 1, troubles |-> 1, prompts |-> 0]}

\* adapter.rs:950, "resident deleted session must have a pane".
DeletedIsResident == op.pc = "use" /\ op.kind = "delete" => sessions[op.s].pane # None

\* adapter.rs:1862, "selected eviction victim must have a pane".
VictimHasPane == op.pc = "take" => sessions[op.victim].pane # None

\* readme.md:1568, "persist a deletion tombstone and remove the logical session".
DeletedIsGone == \A s \in deleted : sessions[s] = Absent

\* readme.md:1595: "A pane that never reached its first accepted prompt is
\* not considered resumable".
ResumableWasPrompted ==
  \A p \in Pane : "resumable" \in panes[p].tags => panes[p].convo \in prompted
\* frame_first_prompt: a conversation with an accepted prompt was given the
\* system prompt.  With one session and two prompts the stale pane of
\* a cancelled prompt is forgotten after the next prompt has got a new pane,
\* and its conversation, which was never prompted, is resumed as one that was.
PromptsAreFramed ==
  \A s \in Session : turns[s].pc = "accepted" /\ sessions[s].prompt
                     => panes[turns[s].pane].convo \in primed

\* readme.md:1583-1586: "At startup, the adapter reconstructs its session
\* catalog from tagged live panes and filtered, paginated slopd graveyard
\* queries" - whatever grave of a session would do.
GravesReconstruct ==
  Free => \A i \in DOMAIN graves :
    LET p == graves[i] IN
    p # None /\ "acp" \in panes[p].tags /\ Whole(p) /\ panes[p].session # None
      => panes[p].session \in Known \cup Tombstones
=============================================================================
