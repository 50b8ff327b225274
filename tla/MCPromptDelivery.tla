-------------------------- MODULE MCPromptDelivery --------------------------
(***************************************************************************)
(* PromptDelivery in two setups: Sends that compete, and retries alone.    *)
(* The constants are the bounds of both.                                   *)
(***************************************************************************)
EXTENDS PromptDelivery

VARIABLE setup

Sends == INSTANCE PromptDelivery WITH
  Settles <- FALSE, MaxAttempts <- 1, MaxFailures <- 0, MaxQueue <- 1, MaxDraft <- 0,
  MayAsk <- FALSE
Retries == INSTANCE PromptDelivery WITH
  Sender <- {}, MayFail <- FALSE, MayBeLate <- FALSE, MayTakeOver <- FALSE

SetupInit == setup \in {"sends", "retries"} /\ Init
SetupNext ==
  /\ \/ setup = "sends" /\ Sends!Next
     \/ setup = "retries" /\ Retries!Next
  /\ UNCHANGED setup

\* FairSpec, of the Sends.
SetupSpec ==
  /\ SetupInit /\ [][SetupNext]_<<vars, setup>>
  /\ \A s \in Sender :
       /\ WF_vars(setup = "sends" /\ Sends!SendStep(s))
       /\ SF_vars(setup = "sends" /\ Sends!Escape(s))
       /\ SF_vars(setup = "sends" /\ Sends!Clear(s))
       /\ SF_vars(setup = "sends" /\ Sends!Deadline(s))

WholeSpec == Init /\ setup = "whole" /\ [][Next /\ UNCHANGED setup]_<<vars, setup>>

-----------------------------------------------------------------------------
(* What the documentation and comments say and the code does not do.       *)

(* "You submit a prompt yourself: taking over cancels any pending retry":  *)
(* a retry that has typed nothing when another prompt starts never types.  *)
TakeoverCancels == [][\A i \in overtaken : ~(task[i] = "type" /\ task'[i] = "enter")]_vars

(* A pane "at a dialog" is no place for a prompt: no Send and no retry     *)
(* presses Enter on one.                                                   *)
DialogsAreTheUsers == ~meddled

(* Retrying stops when the turn succeeds, the attempts are used up or      *)
(* another prompt is submitted; by nothing else.                           *)
RetryDroppedForCause ==
  [][retry # NoRetry /\ retry' = NoRetry =>
       \/ turn = "work" /\ turn' = "idle"
       \/ turn = "submit" /\ running # <<Continue>>]_vars

=============================================================================
