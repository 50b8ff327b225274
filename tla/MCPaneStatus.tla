---------------------------- MODULE MCPaneStatus ----------------------------
(* PaneStatus on small instances, and one statement of the documentation   *)
(* that the code does not keep.                                            *)
EXTENDS PaneStatus, TLC

Symmetry == Permutations(Hook)

\* "StateChange fires when the coarse state transitions" (readme.md:1422):
\* once a writer is done, the last one names the state.  A hook that reduced
\* from a state that a record has changed meanwhile announces nothing.
StateChangesTold == lock = Free => told.simple = Simple(mem)
=============================================================================
