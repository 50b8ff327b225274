------------------------------ MODULE MCMailbox ------------------------------
(***************************************************************************)
(* Mailbox in two setups: two requests at once, and one whose end is       *)
(* checked under fairness.  The constants are the bounds of both.          *)
(***************************************************************************)
EXTENDS Mailbox

VARIABLE setup

First == CHOOSE r \in Request : TRUE

Pair == INSTANCE Mailbox WITH
  Targets <- {"automatic", "existing"}, Interrupts <- {TRUE}, Marks <- {FALSE},
  MaxTexts <- 0, MaxMishaps <- 1
Lone == INSTANCE Mailbox WITH Request <- {First}, Targets <- {"automatic"}, MaxPanes <- 1

\* The lone request finds an agent.
Agent == [NoPane EXCEPT !.live = TRUE, !.tagged = TRUE, !.st = "ready"]

SetupInit ==
  \/ setup = "pair" /\ Pair!Init
  \/ setup = "lone" /\ InitWith([p \in Pane |-> IF p = 1 THEN Agent ELSE NoPane])
SetupNext ==
  /\ \/ setup = "pair" /\ Pair!Next
     \/ setup = "lone" /\ Lone!Next
  /\ UNCHANGED setup

SetupSpec ==
  /\ SetupInit /\ [][SetupNext]_<<vars, setup>>
  /\ WF_vars(setup = "lone" /\ Lone!Work(First))
  /\ WF_vars(setup = "lone" /\ Lone!Turn(1))

\* RequestsFinish of the lone request.
LoneRequestFinishes ==
  setup = "lone" /\ worker[First].pc \in {"read", "ps", "wait"} ~> worker[First].pc = "done"

-----------------------------------------------------------------------------
(* What the documentation says and the code does not do.                   *)

(* "return a terminal error instead of treating commentary followed by     *)
(* ready as a completed reply" (readme.md:1352-1353): a reply is the last  *)
(* word of a turn that has not failed.  The transcript is read before the  *)
(* state (handler.rs:1502-1524): a word may come, and the turn fail, in    *)
(* between.                                                                *)
CommentaryIsNotAReply ==
  \A r \in Request : entry[r].state = "completed" =>
    LET p == entry[r].pane
    IN  pane[p].by = r /\ entry[r].reply.kind = "text" => pane[p].turn \notin {"failed", "retry"}
=============================================================================
