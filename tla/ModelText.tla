------------------------------ MODULE ModelText ------------------------------
(***************************************************************************)
(* What a model turn can say, as far as the orchestrator tells turns       *)
(* apart.  A text is a sequence of tokens; joining the chunks of a stream   *)
(* is concatenation.  The tokens:                                          *)
(*                                                                         *)
(*   blank   white space                                                   *)
(*   word    prose without a brace or a double quote                       *)
(*   tick    one back quote; a model writes inline code with it            *)
(*   ticks   two back quotes; with one more they open a fence              *)
(*   object  a balanced JSON object that is not a tool call                *)
(*   call    a balanced JSON object that names a tool and its arguments    *)
(*                                                                         *)
(* An unbalanced brace or quote, which can hide a later object from the    *)
(* scanner of tool_calls.py, is not a token here.                          *)
(***************************************************************************)
EXTENDS Integers, Sequences

CONSTANTS
  Fillers,       \* the kinds of token other than calls a model may write
  ToolCalls,     \* the tool calls a model may write
  MaxNewTokens   \* settings.model_max_new_tokens: no turn is longer

ASSUME ModelTextAssumption ==
  /\ Fillers \subseteq {"blank", "word", "tick", "ticks", "object"}
  /\ MaxNewTokens \in Nat

Token == [kind : Fillers] \cup [kind : {"call"}, call : ToolCalls]

Text == Seq(Token)

(* Every text a turn can produce, and every piece of it a chunk can carry. *)
TextsUpTo(n) == UNION {[1..m -> Token] : m \in 0..n}

(***************************************************************************)
(* parse_tool_call: the first candidate that has the shape of a call, after *)
(* prose, fences and other objects have been skipped.                      *)
(***************************************************************************)
CallsIn(text) == {i \in DOMAIN text : text[i].kind = "call"}

AsksForTool(text) == CallsIn(text) # {}

Requests(text, call) ==
  \E i \in CallsIn(text) : text[i].call = call /\ \A j \in CallsIn(text) : i <= j

(***************************************************************************)
(* text.lstrip() and its test against _TOOL_CALL_OPENERS = ("{", "```").   *)
(***************************************************************************)
Visible(text) == {i \in DOMAIN text : text[i].kind # "blank"}

IsBlank(text) == Visible(text) = {}

First(S) == CHOOSE i \in S : \A j \in S : i <= j

BackQuote(text, i) == i \in DOMAIN text /\ text[i].kind \in {"tick", "ticks"}

OpensAsCall(text) ==
  LET i == First(Visible(text))
  IN  \/ text[i].kind \in {"object", "call"}
      \/ /\ BackQuote(text, i)
         /\ BackQuote(text, i + 1)
         /\ "ticks" \in {text[i].kind, text[i + 1].kind} \/ BackQuote(text, i + 2)
=============================================================================
