---------------------------- MODULE MCAskStream ----------------------------
(* AskStream with one tool that may be called twice. *)
EXTENDS AskStream

MCTools == {"query"}
MCRequired == [t \in MCTools |-> {"sql"}]
MCToolCalls == {[name |-> "query", args |-> {"sql"}]}
MCSettings == {[enable_tools |-> TRUE, max_tool_steps |-> 2]}
=============================================================================
