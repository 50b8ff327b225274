----------------------------- MODULE MCAcpTurns -----------------------------
(* AcpTurns on small instances.                                            *)
EXTENDS AcpTurns
\* Without retries, without steering, without troubles.
OfEachTwo == {[retries |-> 0, steers |-> 1, troubles |-> 1],
              [retries |-> 1, steers |-> 0, troubles |-> 1],
              [retries |-> 1, steers |-> 1, troubles |-> 0]}
=============================================================================
