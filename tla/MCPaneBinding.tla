---------------------------- MODULE MCPaneBinding ----------------------------
(* PaneBinding on small instances.                                          *)
EXTENDS PaneBinding

=============================================================================
