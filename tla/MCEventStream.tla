---------------------------- MODULE MCEventStream ----------------------------
(* EventStream on small instances, and what its comments say beyond it.    *)
EXTENDS EventStream

\* The pane goes to another transcript, or its state comes and goes.
OneRebindingOrReturn == {[files |-> 2, changes |-> 0], [files |-> 1, changes |-> 2]}

\* "Skip transcript records that were already replayed from disk"
\* (main.rs:3994): a record that the stream skips was replayed.  After a
\* rebinding the records at the beginning of the new file are skipped too.
SkipsWereReplayed ==
  \A s \in Client : sub[s].pc = "live" /\ LastN >= MaxRecords =>
    \A i \in DOMAIN sent :
      sent[i].kind = "transcript" /\ i < sub[s].at /\ ~sub[s].lagged
      /\ Replayed(s, sent[i]) => Given(s, sent[i].at) /\ sub[s].file = sent[i].file

\* "skipping transcript records already replayed" (main.rs:4141).
NoRepeats ==
  \A s \in Client : \A i, j \in DOMAIN got[s] : got[s][i] = got[s][j] => i = j
=============================================================================
