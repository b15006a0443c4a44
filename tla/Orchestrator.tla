----------------------------- MODULE Orchestrator -----------------------------
(***************************************************************************)
(* orchestrator/agent.py: one request from retrieval to reply, through      *)
(* either of its two entries.  Orchestrator.answer awaits whole turns and   *)
(* returns the reply; Orchestrator.answer_stream takes a turn chunk by      *)
(* chunk and yields events while it runs.  An action is what the coroutine  *)
(* does between two awaits: nothing else of the request runs inside it, and *)
(* requests share nothing they change.                                     *)
(*                                                                         *)
(* The model is the environment: a turn is any text up to the cap, cut into *)
(* any chunks (stream_or_whole gives a single chunk for a backend that does *)
(* not stream), and any await of it can raise.                             *)
(***************************************************************************)
EXTENDS ModelText, SequencesExt

CONSTANTS
  Tools,      \* the names in the tool registry
  Required,   \* Required[t]: the arguments tool t cannot do without
  Settings    \* the configurations to consider

ASSUME OrchestratorAssumption ==
  /\ Settings \subseteq [enable_tools : BOOLEAN, max_tool_steps : Int]
  /\ DOMAIN Required = Tools

VARIABLES
  settings,    \* the configuration of the process; never changes
  entry,       \* "answer" or "stream"; never changes
  pc,          \* "asked", "turn", "final", "replied" or "failed"
  messages,    \* what the model is shown
  steps,       \* the tool calls executed, in order
  turn,        \* answer_stream's _Turn: its text, and how it is classified
  events,      \* what answer_stream has yielded
  delivered,   \* history: the text of all DeltaEvents, joined
  preambles,   \* history: text forwarded from turns that then ran a tool
  reply        \* the AgentReply

vars == <<settings, entry, pc, messages, steps, turn, events, delivered,
          preambles, reply>>

-----------------------------------------------------------------------------
ToolsOn == settings.enable_tools /\ Tools # {}

Rounds ==
  IF ToolsOn /\ settings.max_tool_steps > 0 THEN settings.max_tool_steps ELSE 0

(* Whether the last turn is asked for with FINALISE and reported as forced. *)
(* answer gets there only with tools on; answer_stream tests its rounds.    *)
Forced == IF entry = "answer" THEN ToolsOn ELSE Rounds > 0

-----------------------------------------------------------------------------
(* Executing a tool: _execute turns every failure into a result.           *)

Results == {"unknown tool", "missing argument", "unsafe sql", "adapter error",
            "output", "truncated output"}

Invocation == [call : ToolCalls, result : Results]

(* Mutant: an exception the guard did not raise escapes _execute. *)
OutcomesEscaping(call) ==
  IF call.name \notin Tools THEN {"unknown tool"}
  ELSE {"unsafe sql", "KeyError", "output", "truncated output"}

Outcomes(call) ==
  IF call.name \notin Tools THEN {"unknown tool"}
  ELSE IF ~ (Required[call.name] \subseteq call.args) THEN {"missing argument"}
  ELSE {"unsafe sql", "adapter error", "output", "truncated output"}

Execute(call) == {[call |-> call, result |-> r] : r \in Outcomes(call)}

Ok(step) == step.result \in {"output", "truncated output"}

-----------------------------------------------------------------------------
(* The prompt. *)

System == [role |-> "system", tools |-> ToolsOn]
Question == [role |-> "user", about |-> "question"]
Finalise == [role |-> "user", about |-> "finalise"]
Assistant(text) == [role |-> "assistant", text |-> text]
Observation(step) == [role |-> "user", observation |-> step]

Message ==
  [role : {"system"}, tools : BOOLEAN]
    \cup [role : {"user"}, about : {"question", "finalise"}]
    \cup [role : {"assistant"}, text : TextsUpTo(MaxNewTokens)]
    \cup [role : {"user"}, observation : Invocation]

-----------------------------------------------------------------------------
(* _Turn: text is held back until its first visible character shows what   *)
(* the turn is.                                                            *)

Turn ==
  [text : TextsUpTo(MaxNewTokens), mode : {"undecided", "prose", "held"}]

FreshTurn == [text |-> <<>>, mode |-> "undecided"]

(* Mutant: the turn is classified again on every chunk. *)
ModeReconsidered(t, text) ==
  IF IsBlank(text) THEN "undecided"
  ELSE IF OpensAsCall(text) THEN "held" ELSE "prose"

Mode(t, text) ==
  IF t.mode # "undecided" THEN t.mode
  ELSE IF IsBlank(text) THEN "undecided"
  ELSE IF OpensAsCall(text) THEN "held" ELSE "prose"

Add(t, chunk) ==
  [text |-> t.text \o chunk, mode |-> Mode(t, t.text \o chunk)]

Forwardable(t, chunk) ==
  IF t.mode = "prose" THEN chunk
  ELSE IF Add(t, chunk).mode = "prose" THEN Add(t, chunk).text
  ELSE <<>>

Withheld(t) == IF t.mode = "held" THEN t.text ELSE <<>>

DeltaEvents(text) ==
  IF text = <<>> THEN <<>> ELSE <<[type |-> "delta", text |-> text]>>
StepEvent(step) == [type |-> "step", step |-> step]
DoneEvent(r) == [type |-> "done", reply |-> r]

-----------------------------------------------------------------------------
AgentReply ==
  [answer : TextsUpTo(MaxNewTokens), steps : Seq(Invocation), limit : BOOLEAN]

Event ==
  [type : {"delta"}, text : Text]
    \cup [type : {"step"}, step : Invocation]
    \cup [type : {"done"}, reply : AgentReply]

NoReply == [answer |-> <<>>, steps |-> <<>>, limit |-> FALSE]

Init ==
  /\ settings \in Settings
  /\ entry \in {"answer", "stream"}
  /\ pc = "asked"
  /\ messages = <<>>
  /\ steps = <<>>
  /\ turn = FreshTurn
  /\ events = <<>>
  /\ delivered = <<>>
  /\ preambles = <<>>
  /\ reply = NoReply

(* Mutant: one tool call too many. *)
StartTurnOffByOne(n, prompt) ==
  /\ turn' = FreshTurn
  /\ IF n <= Rounds
       THEN pc' = "turn" /\ messages' = prompt
       ELSE /\ pc' = "final"
            /\ messages' = IF Forced THEN Append(prompt, Finalise) ELSE prompt

(* The next call of the model, after n tool calls. *)
StartTurn(n, prompt) ==
  /\ turn' = FreshTurn
  /\ IF n < Rounds
       THEN pc' = "turn" /\ messages' = prompt
       ELSE /\ pc' = "final"
            /\ messages' = IF Forced THEN Append(prompt, Finalise) ELSE prompt

Retrieve ==
  /\ pc = "asked"
  /\ StartTurn(0, <<System, Question>>)
  /\ UNCHANGED <<settings, entry, steps, events, delivered, preambles, reply>>

(* The store refuses the query's width, or an await of the model raises.   *)
(* No event says so: the exception leaves the generator.                   *)
Raise ==
  /\ pc \in {"asked", "turn", "final"}
  /\ pc' = "failed"
  /\ UNCHANGED <<settings, entry, messages, steps, turn, events, delivered,
                 preambles, reply>>

(* Mutant: the prompt is extended with an earlier result. *)
RunToolStale(text, step) ==
  /\ steps' = Append(steps, step)
  /\ StartTurn(Len(steps) + 1,
       messages \o <<Assistant(text),
                     Observation(IF steps = <<>> THEN step ELSE steps[1])>>)

RunTool(text, step) ==
  /\ steps' = Append(steps, step)
  /\ StartTurn(Len(steps) + 1, messages \o <<Assistant(text), Observation(step)>>)

Finish(text, limit) ==
  /\ reply' = [answer |-> text, steps |-> steps, limit |-> limit]
  /\ pc' = "replied"

-----------------------------------------------------------------------------
(* Orchestrator.answer *)

GenerateTool ==
  /\ entry = "answer" /\ pc = "turn"
  /\ \E text \in TextsUpTo(MaxNewTokens), call \in ToolCalls :
       /\ Requests(text, call)
       /\ \E step \in Execute(call) : RunTool(text, step)
  /\ UNCHANGED <<settings, entry, events, delivered, preambles, reply>>

GenerateAnswer ==
  /\ entry = "answer" /\ pc = "turn"
  /\ \E text \in TextsUpTo(MaxNewTokens) :
       ~AsksForTool(text) /\ Finish(text, FALSE)
  /\ UNCHANGED <<settings, entry, messages, steps, turn, events, delivered,
                 preambles>>

GenerateFinal ==
  /\ entry = "answer" /\ pc = "final"
  /\ \E text \in TextsUpTo(MaxNewTokens) : Finish(text, Forced)
  /\ UNCHANGED <<settings, entry, messages, steps, turn, events, delivered,
                 preambles>>

-----------------------------------------------------------------------------
(* Orchestrator.answer_stream *)

Chunk ==
  /\ entry = "stream" /\ pc \in {"turn", "final"}
  /\ \E chunk \in TextsUpTo(MaxNewTokens - Len(turn.text)) :
       LET text == Forwardable(turn, chunk)
       IN  /\ turn' = Add(turn, chunk)
           /\ delivered' = delivered \o text
           /\ events' = events \o DeltaEvents(text)
  /\ UNCHANGED <<settings, entry, pc, messages, steps, preambles, reply>>

(* Mutant: only a call that succeeded is announced. *)
StreamToolQuietFailure ==
  /\ entry = "stream" /\ pc = "turn"
  /\ \E call \in ToolCalls : \E step \in Execute(call) :
       /\ Requests(turn.text, call)
       /\ RunTool(turn.text, step)
       /\ events' = IF Ok(step) THEN Append(events, StepEvent(step)) ELSE events
  /\ preambles' = preambles \o (IF turn.mode = "prose" THEN turn.text ELSE <<>>)
  /\ UNCHANGED <<settings, entry, delivered, reply>>

StreamTool ==
  /\ entry = "stream" /\ pc = "turn"
  /\ \E call \in ToolCalls : \E step \in Execute(call) :
       /\ Requests(turn.text, call)
       /\ RunTool(turn.text, step)
       /\ events' = Append(events, StepEvent(step))
  /\ preambles' = preambles \o (IF turn.mode = "prose" THEN turn.text ELSE <<>>)
  /\ UNCHANGED <<settings, entry, delivered, reply>>

(* The turn is the answer: text held back for a call is released, then the *)
(* reply follows.                                                          *)
Release(limit) ==
  /\ Finish(turn.text, limit)
  /\ delivered' = delivered \o Withheld(turn)
  /\ events' = events \o DeltaEvents(Withheld(turn)) \o <<DoneEvent(reply')>>
  /\ UNCHANGED <<settings, entry, messages, steps, turn, preambles>>

(* Mutant: a turn held back as a call is never taken for the answer. *)
StreamAnswerProseOnly ==
  /\ entry = "stream" /\ pc = "turn"
  /\ turn.mode # "held"
  /\ ~AsksForTool(turn.text)
  /\ Release(FALSE)

StreamAnswer ==
  /\ entry = "stream" /\ pc = "turn"
  /\ ~AsksForTool(turn.text)
  /\ Release(FALSE)

StreamFinal ==
  /\ entry = "stream" /\ pc = "final"
  /\ Release(Forced)

-----------------------------------------------------------------------------
Next ==
  \/ Retrieve \/ Raise
  \/ GenerateTool \/ GenerateAnswer \/ GenerateFinal
  \/ Chunk \/ StreamTool \/ StreamAnswer \/ StreamFinal

Spec == Init /\ [][Next]_vars

(* The event loop resumes the request, and a model call ends: every backend *)
(* caps the length of a turn, and an await that does not succeed raises.    *)
(* That an exception comes to the rescue is not assumed.                   *)
FairSpec == Spec /\ WF_vars(Next /\ pc' # "failed")

-----------------------------------------------------------------------------
(* Every variable stays in its domain; in particular no tool outcome is     *)
(* anything but a result, and no turn is longer than the cap.              *)
TypeOK ==
  /\ settings \in Settings
  /\ entry \in {"answer", "stream"}
  /\ pc \in {"asked", "turn", "final", "replied", "failed"}
  /\ messages \in Seq(Message)
  /\ steps \in Seq(Invocation)
  /\ turn \in Turn
  /\ events \in Seq(Event)
  /\ delivered \in Text
  /\ preambles \in Text
  /\ reply \in AgentReply

(* The model is shown each tool call it made right before the result of     *)
(* that very call, in order and with nothing else in between, and it is     *)
(* told to conclude only once its calls are spent (the loops of answer and  *)
(* answer_stream keep messages and steps apart).                           *)
TranscriptRecordsSteps ==
  pc \in {"turn", "final", "replied"} =>
    /\ \A i \in DOMAIN steps :
         LET asked == messages[2 * i + 1]
             told  == messages[2 * i + 2]
         IN  /\ asked.role = "assistant"
             /\ Requests(asked.text, steps[i].call)
             /\ told = Observation(steps[i])
    /\ \/ Len(messages) = 2 * Len(steps) + 2
       \/ /\ Len(messages) = 2 * Len(steps) + 3
          /\ messages[Len(messages)] = Finalise
          /\ Len(steps) = Rounds

(* When a stream ends with a reply, the text it delivered is the answer,    *)
(* preceded only by what was said ahead of tool calls: text held back is    *)
(* released exactly when it was no call, nothing is sent twice, nothing is  *)
(* lost.  A blank answer is the one exception (_Turn.add, _Turn.withheld).  *)
DeliveredThenAnswered ==
  entry = "stream" /\ pc = "replied" =>
    delivered = preambles \o (IF IsBlank(reply.answer) THEN <<>> ELSE reply.answer)

(* The entries of one type, in order. *)
OfType(entries, type) ==
  FlattenSeq([i \in DOMAIN entries |->
                IF entries[i].type = type THEN <<entries[i]>> ELSE <<>>])

(* answer_stream's docstring: StepEvents in the order the tools ran and     *)
(* exactly one DoneEvent, last, carrying the reply with the same steps.     *)
EventsTellReply ==
  entry = "stream" =>
    /\ OfType(events, "step") = [i \in DOMAIN steps |-> StepEvent(steps[i])]
    /\ IF pc = "replied"
         THEN /\ OfType(events, "done") = <<DoneEvent(reply)>>
              /\ Last(events) = DoneEvent(reply)
              /\ reply.steps = steps
         ELSE OfType(events, "done") = <<>>

(* A request comes to an end, whatever the model says. *)
Terminates == <>(pc \in {"replied", "failed"})

(* Both entries are the bounded loop ToolLoop describes. *)
Loop == INSTANCE ToolLoop WITH
          Invocations <- Invocation,
          armed  <- ToolsOn,
          budget <- Rounds,
          status <- IF pc \in {"replied", "failed"} THEN pc ELSE "open",
          answer <- reply.answer,
          limit  <- reply.limit

ImplementsToolLoop == Loop!Spec

-----------------------------------------------------------------------------
(* What the documentation says and the code does not do.                   *)

(* README: "A turn that is a tool call is **not** streamed as text", so the *)
(* text streamed is the answer.  A turn that opens in prose and holds a     *)
(* call further on is streamed, and then run.                              *)
StreamedTextIsAnswer ==
  entry = "stream" /\ pc = "replied" /\ ~IsBlank(reply.answer) =>
    delivered = reply.answer
=============================================================================
