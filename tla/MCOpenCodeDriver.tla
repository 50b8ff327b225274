-------------------------- MODULE MCOpenCodeDriver --------------------------
(* OpenCodeDriver on small instances.                                      *)
EXTENDS OpenCodeDriver
BothVersions == {1, 2}
Sending == [send |-> 2, type |-> 0, pick |-> 1, select |-> 1, part |-> 2, fail |-> 2, kid |-> 1,
          fork |-> 1, gap |-> 1, crash |-> 1, all |-> 3]
\* Prompts typed by hand beside them; no turn fails.
Typing == [Sending EXCEPT !.send = 1, !.type = 1, !.part = 1, !.fail = 0, !.all = 2]
Small == {Sending, Typing}
=============================================================================
