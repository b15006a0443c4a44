------------------------------- MODULE ToolLoop -------------------------------
(***************************************************************************)
(* What one request to the agent promises, whichever way it is delivered:   *)
(* a bounded loop in which the model asks for tools, ended by exactly one   *)
(* reply or by a failure (module docstring of orchestrator/agent.py).  How  *)
(* the text of a turn arrives, what the prompt holds and what a caller sees *)
(* before the reply are left to Orchestrator.                              *)
(***************************************************************************)
EXTENDS ModelText

CONSTANTS
  Invocations   \* the executed tool calls a reply can list: [call, result]

VARIABLES
  entry,    \* "answer" or "stream": how the request came in
  armed,    \* tools are enabled and there are some
  budget,   \* the number of tool calls allowed
  steps,    \* the tool calls executed so far
  status,   \* "open", "replied" or "failed"
  answer,   \* the text replied
  limit     \* step_limit_reached of the reply

vars == <<entry, armed, budget, steps, status, answer, limit>>

Init ==
  /\ entry \in {"answer", "stream"}
  /\ armed \in BOOLEAN
  /\ budget \in Nat
  /\ ~armed => budget = 0
  /\ steps = <<>>
  /\ status = "open"
  /\ answer = <<>>
  /\ limit = FALSE

(* A tool call within the budget is executed, whatever comes of it. *)
UseTool ==
  /\ status = "open"
  /\ Len(steps) < budget
  /\ \E step \in Invocations : steps' = Append(steps, step)
  /\ UNCHANGED <<entry, armed, budget, status, answer, limit>>

(* A turn within the budget that asks for no tool is the answer. *)
Answer ==
  /\ status = "open"
  /\ Len(steps) < budget
  /\ \E text \in TextsUpTo(MaxNewTokens) : ~AsksForTool(text) /\ answer' = text
  /\ status' = "replied"
  /\ limit' = FALSE
  /\ UNCHANGED <<entry, armed, budget, steps>>

(* With the budget spent, or no tools, the next turn is the answer as it is. *)
(* The reply says that the limit was reached exactly when there were tools; *)
(* a stream with tools and no budget at all is the one case where it does   *)
(* not, which is all that distinguishes the two entries.                   *)
Conclude ==
  /\ status = "open"
  /\ Len(steps) = budget
  /\ answer' \in TextsUpTo(MaxNewTokens)
  /\ status' = "replied"
  /\ limit' = (armed /\ (entry = "stream" => budget > 0))
  /\ UNCHANGED <<entry, armed, budget, steps>>

(* Retrieval or the model raised. *)
Fail ==
  /\ status = "open"
  /\ status' = "failed"
  /\ UNCHANGED <<entry, armed, budget, steps, answer, limit>>

Next == UseTool \/ Answer \/ Conclude \/ Fail

Spec == Init /\ [][Next]_vars
=============================================================================
