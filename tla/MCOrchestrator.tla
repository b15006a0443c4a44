--------------------------- MODULE MCOrchestrator ---------------------------
(***************************************************************************)
(* Orchestrator with one registered tool and three calls a model may write: *)
(* a complete one, one that lacks its argument, and one of a tool that does *)
(* not exist.                                                              *)
(***************************************************************************)
EXTENDS Orchestrator

MCTools == {"query"}
MCRequired == [t \in MCTools |-> {"sql"}]

GoodCall == [name |-> "query", args |-> {"sql"}]
MCToolCalls ==
  {GoodCall, [name |-> "query", args |-> {}], [name |-> "guess", args |-> {}]}

MCOneCall == {GoodCall}

Config(on, n) == [enable_tools |-> on, max_tool_steps |-> n]

\* Tools off, which ignores the budget, a budget of none and one of two calls.
MCSettings == {Config(FALSE, 2), Config(TRUE, 0), Config(TRUE, 2)}

\* A budget of one call.
MCOneStep == {Config(TRUE, 1)}
=============================================================================
