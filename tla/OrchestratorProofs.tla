------------------------- MODULE OrchestratorProofs -------------------------
(***************************************************************************)
(* Proofs about Orchestrator, about AskStream, which puts it behind the     *)
(* endpoint and the page, for any tools, budgets, texts and caps, and about *)
(* ToolCallScan, the scanner in a turn's text, for texts of any length.     *)
(***************************************************************************)
EXTENDS AskStream, ToolCallScan, FlatteningProofs, FiniteSetTheorems

(* A text within a bound is a text no longer than the bound, and back.      *)
LEMMA TextsAreTexts ==
  ASSUME NEW n \in Int, NEW t \in TextsUpTo(n)
  PROVE  t \in Text /\ Len(t) \in Nat /\ Len(t) <= n
  BY DEF TextsUpTo, Text

LEMMA ShortTexts ==
  ASSUME NEW n \in Nat, NEW t \in Text, Len(t) <= n
  PROVE  t \in TextsUpTo(n)
  BY DEF TextsUpTo, Text

LEMMA EmptyText == <<>> \in TextsUpTo(MaxNewTokens) /\ <<>> \in Text
<1>1. <<>> \in Text /\ Len(<<>>) = 0
  BY DEF Text
<1> QED
  BY <1>1, ShortTexts, ModelTextAssumption

LEMMA JoinTexts ==
  ASSUME NEW s \in Text, NEW t \in Text
  PROVE  s \o t \in Text /\ Len(s \o t) = Len(s) + Len(t)
  BY DEF Text

LEMMA JoinIsAssociative ==
  ASSUME NEW s \in Text, NEW t \in Text, NEW u \in Text
  PROVE  (s \o t) \o u = s \o (t \o u)
<1>1. s \in Seq(Token) /\ t \in Seq(Token) /\ u \in Seq(Token)
  BY DEF Text
<1> QED
  BY <1>1, ConcatAssociative

(* White space stays behind visible text: a text that goes on from one that *)
(* is not blank is not blank.                                              *)
LEMMA BlankPrefix ==
  ASSUME NEW s \in Text, NEW t \in Text, IsBlank(s \o t)
  PROVE  IsBlank(s) /\ IsBlank(t)
<1>1. \A i \in DOMAIN s : i \in DOMAIN (s \o t) /\ (s \o t)[i] = s[i]
  BY DEF Text
<1>2. \A i \in DOMAIN t :
        /\ i + Len(s) \in DOMAIN (s \o t)
        /\ (s \o t)[i + Len(s)] = t[i]
  BY DEF Text
<1>3. \A i \in DOMAIN (s \o t) : (s \o t)[i].kind = "blank"
  BY DEF IsBlank, Visible
<1> QED
  BY <1>1, <1>2, <1>3 DEF IsBlank, Visible

(* A chunk that fits keeps the turn a turn, and what is forwarded is text.  *)
LEMMA AddIsTurn ==
  ASSUME NEW t \in Turn, NEW chunk \in TextsUpTo(MaxNewTokens - Len(t.text))
  PROVE  /\ Add(t, chunk) \in Turn
         /\ Forwardable(t, chunk) \in Text
         /\ chunk \in Text
         /\ t.text \in Text
         /\ Withheld(t) \in Text
<1>1. t.text \in Text /\ Len(t.text) \in Nat /\ Len(t.text) <= MaxNewTokens
  BY TextsAreTexts, ModelTextAssumption DEF Turn
<1>2. chunk \in Text /\ Len(chunk) \in Nat /\ Len(chunk) <= MaxNewTokens - Len(t.text)
  BY <1>1, TextsAreTexts, ModelTextAssumption
<1>3. t.text \o chunk \in TextsUpTo(MaxNewTokens)
  <2>1. t.text \o chunk \in Text /\ Len(t.text \o chunk) <= MaxNewTokens
    BY <1>1, <1>2, JoinTexts, ModelTextAssumption
  <2> QED
    BY <2>1, ShortTexts, ModelTextAssumption
<1>4. Mode(t, t.text \o chunk) \in {"undecided", "prose", "held"}
  BY DEF Mode, Turn
<1>5. Add(t, chunk) \in Turn
  BY <1>3, <1>4 DEF Add, Turn
<1> QED
  BY <1>1, <1>2, <1>3, <1>5, EmptyText, JoinTexts DEF Forwardable, Withheld, Add

(* _execute never raises: every call yields an invocation.                 *)
LEMMA ExecuteIsInvocation ==
  ASSUME NEW call \in ToolCalls, NEW step \in Execute(call)
  PROVE  step \in Invocation /\ step.call = call
<1>1. Outcomes(call) \subseteq Results
  BY DEF Outcomes, Results
<1>2. PICK r \in Outcomes(call) : step = [call |-> call, result |-> r]
  BY DEF Execute
<1> QED
  BY <1>1, <1>2 DEF Invocation

LEMMA RoundsIsNat == TypeOK => Rounds \in Nat
  BY OrchestratorAssumption DEF TypeOK, Rounds, ToolsOn

LEMMA ForcedIsBoolean ==
  ASSUME TypeOK
  PROVE  ToolsOn \in BOOLEAN /\ Forced \in BOOLEAN
<1>1. ToolsOn \in BOOLEAN
  BY OrchestratorAssumption DEF TypeOK, ToolsOn
<1>2. (Rounds > 0) \in BOOLEAN
  BY RoundsIsNat
<1> QED
  BY <1>1, <1>2 DEF Forced

LEMMA MessageTypes ==
  ASSUME TypeOK
  PROVE  /\ <<System, Question>> \in Seq(Message)
         /\ Finalise \in Message
         /\ \A text \in TextsUpTo(MaxNewTokens) : Assistant(text) \in Message
         /\ \A step \in Invocation : Observation(step) \in Message
         /\ FreshTurn \in Turn
<1>1. System \in Message
  BY OrchestratorAssumption DEF TypeOK, System, Message, ToolsOn
<1>2. Question \in Message /\ Finalise \in Message
  BY DEF Question, Finalise, Message
<1>3. \A text \in TextsUpTo(MaxNewTokens) : Assistant(text) \in Message
  BY DEF Assistant, Message
<1>4. \A step \in Invocation : Observation(step) \in Message
  BY DEF Observation, Message
<1>5. FreshTurn \in Turn
  BY EmptyText DEF FreshTurn, Turn
<1> QED
  BY <1>1, <1>2, <1>3, <1>4, <1>5

(* The next turn starts with a well-formed prompt, within or at the end of  *)
(* the budget.                                                             *)
LEMMA StartTurnTypes ==
  ASSUME TypeOK, NEW n \in Nat, NEW prompt \in Seq(Message), StartTurn(n, prompt)
  PROVE  /\ pc' \in {"turn", "final"}
         /\ messages' \in Seq(Message)
         /\ turn' \in Turn
  BY MessageTypes DEF StartTurn

LEMMA RunToolTypes ==
  ASSUME TypeOK, NEW text \in TextsUpTo(MaxNewTokens), NEW step \in Invocation,
         RunTool(text, step)
  PROVE  /\ pc' \in {"turn", "final"}
         /\ messages' \in Seq(Message)
         /\ turn' \in Turn
         /\ steps' \in Seq(Invocation)
<1>1. steps \in Seq(Invocation) /\ Len(steps) + 1 \in Nat
  BY DEF TypeOK
<1>2. messages \o <<Assistant(text), Observation(step)>> \in Seq(Message)
  BY MessageTypes DEF TypeOK
<1>3. steps' \in Seq(Invocation)
  BY <1>1 DEF RunTool
<1>4. StartTurn(Len(steps) + 1, messages \o <<Assistant(text), Observation(step)>>)
  BY DEF RunTool
<1> QED
  BY <1>1, <1>2, <1>3, <1>4, StartTurnTypes

LEMMA EventTypes ==
  /\ \A text \in Text : DeltaEvents(text) \in Seq(Event)
  /\ \A step \in Invocation : StepEvent(step) \in Event
  /\ \A r \in AgentReply : DoneEvent(r) \in Event
<1>1. ASSUME NEW text \in Text PROVE DeltaEvents(text) \in Seq(Event)
  <2>1. [type |-> "delta", text |-> text] \in Event
    BY DEF Event
  <2> QED
    BY <2>1 DEF DeltaEvents
<1>2. \A step \in Invocation : StepEvent(step) \in Event
  BY DEF StepEvent, Event
<1>3. \A r \in AgentReply : DoneEvent(r) \in Event
  BY DEF DoneEvent, Event
<1> QED
  BY <1>1, <1>2, <1>3

(* What releasing the turn adds.                                           *)
LEMMA ReleaseTypes ==
  ASSUME TypeOK, NEW limit \in BOOLEAN, Release(limit)
  PROVE  /\ turn.text \in TextsUpTo(MaxNewTokens) /\ Withheld(turn) \in Text
         /\ reply' \in AgentReply /\ DoneEvent(reply') \in Event
         /\ DeltaEvents(Withheld(turn)) \in Seq(Event)
         /\ events' \in Seq(Event)
<1>1. turn.text \in TextsUpTo(MaxNewTokens) /\ Withheld(turn) \in Text
  <2>1. turn.text \in TextsUpTo(MaxNewTokens) /\ turn.text \in Text
    BY TextsAreTexts, ModelTextAssumption DEF TypeOK, Turn
  <2> QED
    BY <2>1, EmptyText DEF Withheld
<1>2. reply' \in AgentReply
  BY <1>1 DEF Release, Finish, TypeOK, AgentReply
<1>3. DoneEvent(reply') \in Event /\ DeltaEvents(Withheld(turn)) \in Seq(Event)
  BY <1>1, <1>2, EventTypes
<1>4. events' = events \o DeltaEvents(Withheld(turn)) \o <<DoneEvent(reply')>>
  BY DEF Release
<1>5. events' \in Seq(Event)
  BY <1>3, <1>4 DEF TypeOK
<1> QED
  BY <1>1, <1>2, <1>3, <1>5

-----------------------------------------------------------------------------
(* Type correctness. *)

LEMMA InitTypeOK ==
  ASSUME Init PROVE TypeOK
<1>1. FreshTurn \in Turn
  BY EmptyText DEF FreshTurn, Turn
<1>2. NoReply \in AgentReply
  BY EmptyText DEF NoReply, AgentReply
<1> QED
  BY <1>1, <1>2, EmptyText DEF Init, TypeOK

LEMMA NextTypeOK ==
  ASSUME TypeOK, [Next]_vars PROVE TypeOK'
<1>1. CASE Retrieve
  <2>1. pc' \in {"turn", "final"} /\ messages' \in Seq(Message) /\ turn' \in Turn
    BY <1>1, StartTurnTypes, MessageTypes DEF Retrieve
  <2> QED
    BY <1>1, <2>1 DEF Retrieve, TypeOK
<1>2. CASE Raise
  BY <1>2 DEF Raise, TypeOK
<1>3. CASE GenerateTool
  <2>1. PICK text \in TextsUpTo(MaxNewTokens), call \in ToolCalls :
          \E step \in Execute(call) : RunTool(text, step)
    BY <1>3 DEF GenerateTool
  <2>2. /\ pc' \in {"turn", "final"} /\ messages' \in Seq(Message)
        /\ turn' \in Turn /\ steps' \in Seq(Invocation)
    BY <2>1, ExecuteIsInvocation, RunToolTypes
  <2> QED
    BY <1>3, <2>2 DEF GenerateTool, TypeOK
<1>4. CASE GenerateAnswer
  BY <1>4 DEF GenerateAnswer, Finish, TypeOK, AgentReply
<1>5. CASE GenerateFinal
  BY <1>5, ForcedIsBoolean DEF GenerateFinal, Finish, TypeOK, AgentReply
<1>6. CASE Chunk
  <2>1. PICK chunk \in TextsUpTo(MaxNewTokens - Len(turn.text)) :
          /\ turn' = Add(turn, chunk)
          /\ delivered' = delivered \o Forwardable(turn, chunk)
          /\ events' = events \o DeltaEvents(Forwardable(turn, chunk))
    BY <1>6 DEF Chunk
  <2>2. turn' \in Turn /\ delivered' \in Text
    BY <2>1, AddIsTurn, JoinTexts DEF TypeOK
  <2>3. events' \in Seq(Event)
    <3>1. Forwardable(turn, chunk) \in Text
      BY AddIsTurn DEF TypeOK
    <3>2. DeltaEvents(Forwardable(turn, chunk)) \in Seq(Event)
      BY <3>1, EventTypes
    <3> QED
      BY <2>1, <3>2 DEF TypeOK
  <2> QED
    BY <1>6, <2>2, <2>3 DEF Chunk, TypeOK
<1>7. CASE StreamTool
  <2>1. PICK call \in ToolCalls : \E step \in Execute(call) :
          RunTool(turn.text, step) /\ events' = Append(events, StepEvent(step))
    BY <1>7 DEF StreamTool
  <2>2. turn.text \in TextsUpTo(MaxNewTokens) /\ turn.text \in Text
    BY TextsAreTexts, ModelTextAssumption DEF TypeOK, Turn
  <2>3. /\ pc' \in {"turn", "final"} /\ messages' \in Seq(Message)
        /\ turn' \in Turn /\ steps' \in Seq(Invocation)
    BY <2>1, <2>2, ExecuteIsInvocation, RunToolTypes
  <2>4. preambles' \in Text
    BY <1>7, <2>2, EmptyText, JoinTexts DEF StreamTool, TypeOK
  <2>5. events' \in Seq(Event)
    BY <2>1, ExecuteIsInvocation, EventTypes DEF TypeOK
  <2> QED
    BY <1>7, <2>3, <2>4, <2>5 DEF StreamTool, TypeOK
<1>8. ASSUME NEW limit \in BOOLEAN, Release(limit), UNCHANGED <<settings, entry>>
      PROVE  TypeOK'
  <2>1. Withheld(turn) \in Text /\ reply' \in AgentReply /\ events' \in Seq(Event)
    BY <1>8, ReleaseTypes
  <2>2. delivered' \in Text
    BY <1>8, <2>1, JoinTexts DEF Release, TypeOK
  <2> QED
    BY <1>8, <2>1, <2>2 DEF Release, Finish, TypeOK
<1>9. CASE StreamAnswer
  BY <1>8, <1>9 DEF StreamAnswer, Release
<1>10. CASE StreamFinal
  BY <1>8, <1>10, ForcedIsBoolean DEF StreamFinal, Release
<1>11. CASE UNCHANGED vars
  BY <1>11 DEF vars, TypeOK
<1> QED
  BY <1>1, <1>2, <1>3, <1>4, <1>5, <1>6, <1>7, <1>9, <1>10, <1>11 DEF Next

(* Every variable stays in its domain, through tool failures, chunked turns *)
(* and the final turn alike (TypeOK of Orchestrator).                      *)
THEOREM TypeCorrect == Spec => []TypeOK
<1> QED
  BY InitTypeOK, NextTypeOK, PTL DEF Spec

-----------------------------------------------------------------------------
(* The strengthening.  Budget places the request against its budget and     *)
(* its prompt against its steps; Account balances what was delivered with   *)
(* the turn in progress, which needs to know how the turn is classified.    *)

Budget ==
  /\ pc = "asked" => steps = <<>> /\ messages = <<>>
  /\ pc = "turn" => Len(steps) < Rounds /\ Len(messages) = 2 * Len(steps) + 2
  /\ pc = "final" => Len(steps) = Rounds

Account ==
  /\ pc = "asked" => delivered = <<>> /\ preambles = <<>>
  /\ turn.mode = "undecided" <=> IsBlank(turn.text)
  /\ entry = "stream" /\ pc \in {"turn", "final"} =>
       delivered = preambles \o (IF turn.mode = "prose" THEN turn.text ELSE <<>>)

IInv == TypeOK /\ Budget /\ TranscriptRecordsSteps /\ Account /\ DeliveredThenAnswered

(* What two requests agree on when only the configuration is compared.      *)
LEMMA ConfigurationKept ==
  ASSUME UNCHANGED <<settings, entry>>
  PROVE  ToolsOn' = ToolsOn /\ Rounds' = Rounds /\ Forced' = Forced
  BY DEF ToolsOn, Rounds, Forced

(* Where a request stands after n tool calls, and what its prompt is then.  *)
LEMMA StartTurnProgress ==
  ASSUME TypeOK, NEW n \in Nat, n <= Rounds,
         NEW prompt \in Seq(Message), StartTurn(n, prompt)
  PROVE  /\ \/ pc' = "turn" /\ n < Rounds /\ messages' = prompt
            \/ /\ pc' = "final" /\ n = Rounds
               /\ messages' = prompt \/ messages' = Append(prompt, Finalise)
         /\ turn' = FreshTurn
  BY RoundsIsNat DEF StartTurn

LEMMA TwoMore ==
  ASSUME NEW S, NEW s \in Seq(S), NEW a \in S, NEW b \in S
  PROVE  LET t == s \o <<a, b>>
         IN  /\ t \in Seq(S) /\ Len(t) = Len(s) + 2
             /\ \A i \in 1..Len(s) : t[i] = s[i]
             /\ t[Len(s) + 1] = a /\ t[Len(s) + 2] = b
OBVIOUS

(* Executing a call extends the transcript by the turn that asked for it    *)
(* and its result, and keeps every earlier pair in place.                  *)
LEMMA RunToolRecords ==
  ASSUME TypeOK, Budget, TranscriptRecordsSteps, pc = "turn",
         NEW text \in TextsUpTo(MaxNewTokens), NEW call \in ToolCalls,
         Requests(text, call), NEW step \in Execute(call), RunTool(text, step),
         UNCHANGED <<settings, entry>>
  PROVE  /\ Budget'
         /\ TranscriptRecordsSteps'
         /\ pc' \in {"turn", "final"}
         /\ turn' = FreshTurn
<1> DEFINE prompt == messages \o <<Assistant(text), Observation(step)>>
<1>1. /\ step \in Invocation /\ step.call = call
      /\ steps \in Seq(Invocation) /\ messages \in Seq(Message)
      /\ Len(steps) \in Nat /\ Len(steps) + 1 \in Nat /\ Len(steps) + 1 <= Rounds
      /\ Len(messages) = 2 * Len(steps) + 2
  BY ExecuteIsInvocation, RoundsIsNat DEF TypeOK, Budget
<1>2. /\ prompt \in Seq(Message)
      /\ Len(prompt) = 2 * (Len(steps) + 1) + 2
      /\ \A i \in 1..Len(messages) : prompt[i] = messages[i]
      /\ prompt[2 * Len(steps) + 3] = Assistant(text)
      /\ prompt[2 * Len(steps) + 4] = Observation(step)
  <2> DEFINE a == Assistant(text)
             b == Observation(step)
             t == messages \o <<a, b>>
  <2>1. a \in Message /\ b \in Message
    BY <1>1, MessageTypes
  <2> HIDE DEF a, b
  <2>2. /\ t \in Seq(Message) /\ Len(t) = Len(messages) + 2
        /\ \A i \in 1..Len(messages) : t[i] = messages[i]
        /\ t[Len(messages) + 1] = a /\ t[Len(messages) + 2] = b
    BY <1>1, <2>1, TwoMore, SMTT(60)
  <2>3. t = prompt
    BY DEF a, b
  <2> HIDE DEF t, prompt
  <2> QED
    BY <1>1, <2>2, <2>3 DEF a, b
<1>3. /\ steps' \in Seq(Invocation)
      /\ Len(steps') = Len(steps) + 1
      /\ \A i \in 1..Len(steps) : steps'[i] = steps[i]
      /\ steps'[Len(steps) + 1] = step
  BY <1>1 DEF RunTool
<1>4. StartTurn(Len(steps) + 1, prompt)
  BY DEF RunTool
<1> HIDE DEF prompt
<1>5. /\ \/ pc' = "turn" /\ Len(steps) + 1 < Rounds /\ messages' = prompt
         \/ /\ pc' = "final" /\ Len(steps) + 1 = Rounds
            /\ messages' = prompt \/ messages' = Append(prompt, Finalise)
      /\ turn' = FreshTurn
  BY <1>1, <1>2, <1>4, StartTurnProgress
<1>6. Rounds' = Rounds
  BY ConfigurationKept
<1>7. /\ \A i \in 1..Len(prompt) : messages'[i] = prompt[i]
      /\ \/ Len(messages') = Len(prompt)
         \/ /\ Len(messages') = Len(prompt) + 1
            /\ messages'[Len(messages')] = Finalise
            /\ pc' = "final"
  BY <1>2, <1>5, MessageTypes
<1>8. Budget'
  BY <1>2, <1>3, <1>5, <1>6 DEF Budget
<1>9. ASSUME NEW i \in DOMAIN steps'
      PROVE  /\ messages'[2 * i + 1].role = "assistant"
             /\ Requests(messages'[2 * i + 1].text, steps'[i].call)
             /\ messages'[2 * i + 2] = Observation(steps'[i])
  <2>1. CASE i <= Len(steps)
    <3>1. i \in DOMAIN steps /\ i \in 1..Len(steps) /\ 2 * i + 1 \in 1..Len(messages) /\ 2 * i + 2 \in 1..Len(messages)
      BY <1>1, <1>3, <2>1
    <3>2. messages'[2 * i + 1] = messages[2 * i + 1] /\ messages'[2 * i + 2] = messages[2 * i + 2]
      <4>1. 2 * i + 1 \in 1..Len(prompt) /\ 2 * i + 2 \in 1..Len(prompt)
        BY <1>1, <1>2, <3>1
      <4>2. /\ prompt[2 * i + 1] = messages[2 * i + 1]
            /\ prompt[2 * i + 2] = messages[2 * i + 2]
        BY <1>2, <3>1
      <4> QED
        BY <1>7, <4>1, <4>2
    <3>3. steps'[i] = steps[i]
      BY <1>3, <3>1
    <3> QED
      BY <3>1, <3>2, <3>3 DEF TranscriptRecordsSteps
  <2>2. CASE i = Len(steps) + 1
    <3>1. /\ 2 * i + 1 = 2 * Len(steps) + 3 /\ 2 * i + 2 = 2 * Len(steps) + 4
          /\ 2 * i + 1 \in 1..Len(prompt) /\ 2 * i + 2 \in 1..Len(prompt)
      BY <1>1, <1>2, <2>2
    <3>2. messages'[2 * i + 1] = Assistant(text) /\ messages'[2 * i + 2] = Observation(step)
      BY <1>2, <1>7, <3>1
    <3>3. steps'[i] = step
      BY <1>3, <2>2
    <3> QED
      BY <1>1, <3>2, <3>3 DEF Assistant
  <2> QED
    BY <1>1, <1>3, <2>1, <2>2
<1>10. TranscriptRecordsSteps'
  BY <1>1, <1>2, <1>3, <1>5, <1>6, <1>7, <1>9 DEF TranscriptRecordsSteps
<1> QED
  BY <1>5, <1>8, <1>10

(* One chunk: what is forwarded is exactly what the balance gains.          *)
LEMMA ChunkBalances ==
  ASSUME TypeOK, Account, entry = "stream", pc \in {"turn", "final"},
         NEW chunk \in TextsUpTo(MaxNewTokens - Len(turn.text)),
         turn' = Add(turn, chunk),
         delivered' = delivered \o Forwardable(turn, chunk),
         UNCHANGED <<settings, entry, pc, preambles, reply>>
  PROVE  Account'
<1> DEFINE text == turn.text \o chunk
<1>1. /\ turn \in Turn /\ preambles \in Text /\ delivered \in Text
      /\ turn.text \in Text /\ chunk \in Text /\ text \in Text
      /\ <<>> \in Text
  BY AddIsTurn, JoinTexts, EmptyText DEF TypeOK
<1>2. turn'.text = text /\ turn'.mode = Mode(turn, text)
  BY DEF Add
<1>3. delivered = preambles \o (IF turn.mode = "prose" THEN turn.text ELSE <<>>)
  BY DEF Account
<1>4. IsBlank(text) => IsBlank(turn.text)
  BY <1>1, BlankPrefix
<1>5. turn.mode = "undecided" <=> IsBlank(turn.text)
  BY DEF Account
<1>6. turn'.mode = "undecided" <=> IsBlank(turn'.text)
  BY <1>2, <1>4, <1>5 DEF Mode
<1>7. delivered' = preambles \o (IF turn'.mode = "prose" THEN turn'.text ELSE <<>>)
  <2>1. CASE turn.mode = "prose"
    <3>1. turn'.mode = "prose" /\ delivered' = (preambles \o turn.text) \o chunk
      BY <1>2, <1>3, <2>1 DEF Mode, Forwardable
    <3>2. preambles \in Text /\ turn.text \in Text /\ chunk \in Text
      BY <1>1
    <3>3. (preambles \o turn.text) \o chunk = preambles \o (turn.text \o chunk)
      BY ONLY <3>2, JoinIsAssociative, Zenon
    <3> QED
      BY <1>2, <3>1, <3>3
  <2>2. CASE turn.mode # "prose" /\ turn'.mode = "prose"
    <3>1. Forwardable(turn, chunk) = text
      BY <1>2, <2>2 DEF Forwardable, Add
    <3>2. delivered = preambles
      BY <1>1, <1>3, <2>2, ConcatEmptySeq DEF Text
    <3> QED
      BY <1>2, <2>2, <3>1, <3>2
  <2>3. CASE turn.mode # "prose" /\ turn'.mode # "prose"
    <3>1. Forwardable(turn, chunk) = <<>>
      BY <1>2, <2>3 DEF Forwardable, Add
    <3> QED
      BY <1>1, <1>3, <2>3, <3>1, ConcatEmptySeq DEF Text
  <2>4. turn'.mode = "prose" \/ turn.mode # "prose"
    BY <1>2 DEF Mode
  <2> QED
    BY <2>1, <2>2, <2>3
<1> QED
  BY <1>6, <1>7 DEF Account

(* The last turn: releasing what was held back leaves the answer delivered. *)
LEMMA ReleaseBalances ==
  ASSUME TypeOK, Account, entry = "stream", pc \in {"turn", "final"},
         NEW limit \in BOOLEAN, Release(limit), UNCHANGED <<settings, entry>>
  PROVE  DeliveredThenAnswered'
<1>1. /\ turn \in Turn /\ preambles \in Text /\ turn.text \in Text
      /\ turn.mode \in {"undecided", "prose", "held"}
  BY TextsAreTexts, ModelTextAssumption DEF TypeOK, Turn
<1>2. /\ delivered = preambles \o (IF turn.mode = "prose" THEN turn.text ELSE <<>>)
      /\ turn.mode = "undecided" <=> IsBlank(turn.text)
  BY DEF Account
<1>3. /\ reply'.answer = turn.text /\ preambles' = preambles
      /\ delivered' = delivered \o Withheld(turn)
  BY DEF Release, Finish
<1>4. preambles \o <<>> = preambles /\ (preambles \o turn.text) \o <<>> = preambles \o turn.text
  BY <1>1, JoinTexts, ConcatEmptySeq DEF Text
<1>5. delivered' = preambles \o (IF IsBlank(turn.text) THEN <<>> ELSE turn.text)
  <2>1. CASE turn.mode = "prose"
    BY <1>2, <1>3, <1>4, <2>1 DEF Withheld
  <2>2. CASE turn.mode = "held"
    BY <1>2, <1>3, <1>4, <2>2 DEF Withheld
  <2>3. CASE turn.mode = "undecided"
    BY <1>2, <1>3, <1>4, <2>3 DEF Withheld
  <2> QED
    BY <1>1, <2>1, <2>2, <2>3
<1> QED
  BY <1>3, <1>5 DEF DeliveredThenAnswered

-----------------------------------------------------------------------------
LEMMA InitIInv ==
  ASSUME Init PROVE IInv
<1>1. TypeOK
  BY InitTypeOK
<1>2. IsBlank(FreshTurn.text)
  BY DEF FreshTurn, IsBlank, Visible
<1> QED
  BY <1>1, <1>2
     DEF Init, IInv, Budget, TranscriptRecordsSteps, Account, DeliveredThenAnswered,
         FreshTurn

LEMMA NextIInv ==
  ASSUME IInv, [Next]_vars PROVE IInv'
<1> USE DEF IInv
<1>1. TypeOK'
  BY NextTypeOK
<1>2. IsBlank(FreshTurn.text) /\ FreshTurn.mode = "undecided" /\ FreshTurn.text = <<>>
  BY DEF FreshTurn, IsBlank, Visible
<1>3. CASE Retrieve
  <2>1. /\ steps = <<>> /\ steps' = <<>> /\ delivered' = <<>> /\ preambles' = <<>>
        /\ UNCHANGED <<settings, entry>>
    BY <1>3 DEF Retrieve, Budget, Account
  <2>2. /\ <<System, Question>> \in Seq(Message)
        /\ Len(<<System, Question>>) = 2
        /\ 0 <= Rounds
    BY MessageTypes, RoundsIsNat
  <2>3. /\ \/ pc' = "turn" /\ 0 < Rounds /\ messages' = <<System, Question>>
           \/ /\ pc' = "final" /\ 0 = Rounds
              /\ \/ messages' = <<System, Question>>
                 \/ messages' = Append(<<System, Question>>, Finalise)
        /\ turn' = FreshTurn
    BY <1>3, <2>2, StartTurnProgress DEF Retrieve
  <2>4. Rounds' = Rounds
    BY <2>1, ConfigurationKept
  <2>5. Budget'
    BY <2>1, <2>2, <2>3, <2>4 DEF Budget
  <2>6. TranscriptRecordsSteps'
    BY <2>1, <2>2, <2>3, <2>4 DEF TranscriptRecordsSteps
  <2>7. Account'
    BY <1>2, <2>1, <2>3 DEF Account
  <2> QED
    BY <1>1, <2>3, <2>5, <2>6, <2>7 DEF DeliveredThenAnswered
<1>4. CASE Raise
  <2>1. pc' = "failed" /\ UNCHANGED <<entry, steps, turn, delivered, preambles, reply>>
    BY <1>4 DEF Raise
  <2> QED
    BY <1>1, <2>1 DEF Budget, TranscriptRecordsSteps, Account, DeliveredThenAnswered
<1>5. CASE GenerateTool
  <2>1. PICK text \in TextsUpTo(MaxNewTokens), call \in ToolCalls :
          /\ Requests(text, call)
          /\ \E step \in Execute(call) : RunTool(text, step)
    BY <1>5 DEF GenerateTool
  <2>2. /\ entry = "answer" /\ pc = "turn"
        /\ UNCHANGED <<settings, entry, delivered, preambles, reply>>
    BY <1>5 DEF GenerateTool
  <2>3. /\ Budget' /\ TranscriptRecordsSteps'
        /\ pc' \in {"turn", "final"} /\ turn' = FreshTurn
    BY <2>1, <2>2, RunToolRecords
  <2> QED
    BY <1>1, <1>2, <2>2, <2>3 DEF Account, DeliveredThenAnswered
<1>6. ASSUME entry = "answer", pc \in {"turn", "final"}, pc' = "replied",
             UNCHANGED <<settings, entry, messages, steps, turn, delivered, preambles>>
      PROVE  IInv'
  <2>1. Rounds' = Rounds
    BY <1>6, ConfigurationKept
  <2> QED
    BY <1>1, <1>6, <2>1 DEF Budget, TranscriptRecordsSteps, Account, DeliveredThenAnswered
<1>7. CASE GenerateAnswer
  BY <1>6, <1>7 DEF GenerateAnswer, Finish
<1>8. CASE GenerateFinal
  BY <1>6, <1>8 DEF GenerateFinal, Finish
<1>9. CASE Chunk
  <2>1. /\ entry = "stream" /\ pc \in {"turn", "final"}
        /\ UNCHANGED <<settings, entry, pc, messages, steps, preambles, reply>>
    BY <1>9 DEF Chunk
  <2>2. PICK chunk \in TextsUpTo(MaxNewTokens - Len(turn.text)) :
          /\ turn' = Add(turn, chunk)
          /\ delivered' = delivered \o Forwardable(turn, chunk)
    BY <1>9 DEF Chunk
  <2>3. Account'
    BY <2>1, <2>2, ChunkBalances
  <2>4. Rounds' = Rounds
    BY <2>1, ConfigurationKept
  <2> QED
    BY <1>1, <2>1, <2>3, <2>4 DEF Budget, TranscriptRecordsSteps, DeliveredThenAnswered
<1>10. CASE StreamTool
  <2>1. /\ entry = "stream" /\ pc = "turn"
        /\ UNCHANGED <<settings, entry, delivered, reply>>
        /\ preambles' = preambles \o (IF turn.mode = "prose" THEN turn.text ELSE <<>>)
    BY <1>10 DEF StreamTool
  <2>2. PICK call \in ToolCalls :
          /\ Requests(turn.text, call)
          /\ \E step \in Execute(call) : RunTool(turn.text, step)
    BY <1>10 DEF StreamTool
  <2>3. turn.text \in TextsUpTo(MaxNewTokens)
    BY DEF TypeOK, Turn
  <2>4. /\ Budget' /\ TranscriptRecordsSteps'
        /\ pc' \in {"turn", "final"} /\ turn' = FreshTurn
    BY <2>1, <2>2, <2>3, RunToolRecords
  <2>5. delivered' = preambles' /\ preambles' \in Text
    BY <1>1, <2>1 DEF Account, TypeOK
  <2>6. delivered' = preambles' \o <<>>
    BY <2>5, ConcatEmptySeq DEF Text
  <2> QED
    BY <1>1, <1>2, <2>1, <2>4, <2>6 DEF Account, DeliveredThenAnswered
<1>11. ASSUME NEW limit \in BOOLEAN, Release(limit), entry = "stream",
              pc \in {"turn", "final"}, UNCHANGED <<settings, entry>>
       PROVE  IInv'
  <2>1. DeliveredThenAnswered'
    BY <1>11, ReleaseBalances
  <2>2. pc' = "replied" /\ UNCHANGED <<messages, steps, turn, preambles>>
    BY <1>11 DEF Release, Finish
  <2>3. Rounds' = Rounds
    BY <1>11, ConfigurationKept
  <2> QED
    BY <1>1, <1>11, <2>1, <2>2, <2>3 DEF Budget, TranscriptRecordsSteps, Account
<1>12. CASE StreamAnswer
  BY <1>11, <1>12 DEF StreamAnswer, Release
<1>13. CASE StreamFinal
  BY <1>11, <1>13, ForcedIsBoolean DEF StreamFinal, Release
<1>14. CASE UNCHANGED vars
  BY <1>1, <1>14 DEF vars, Budget, TranscriptRecordsSteps, Account, DeliveredThenAnswered,
                    Rounds, ToolsOn
<1> QED
  BY <1>3, <1>4, <1>5, <1>7, <1>8, <1>9, <1>10, <1>12, <1>13, <1>14 DEF Next

LEMMA Invariance == Spec => []IInv
<1> QED
  BY InitIInv, NextIInv, PTL DEF Spec

(* The model always sees each of its tool calls next to that call's result, *)
(* and the order to conclude only with the budget spent (the loops of       *)
(* answer and answer_stream).                                              *)
THEOREM TranscriptIsRecord == Spec => []TranscriptRecordsSteps
<1>1. IInv => TranscriptRecordsSteps
  BY DEF IInv
<1> QED
  BY <1>1, Invariance, PTL

(* Whatever way a turn is cut into chunks, a finished stream has delivered  *)
(* what was said ahead of tool calls and then the answer, once and in full. *)
THEOREM StreamIsComplete == Spec => []DeliveredThenAnswered
<1>1. IInv => DeliveredThenAnswered
  BY DEF IInv
<1> QED
  BY <1>1, Invariance, PTL

-----------------------------------------------------------------------------
(* The events.  What OfType keeps of a sequence that grows.                 *)

Keep(S, type) == [e \in S |-> IF e.type = type THEN <<e>> ELSE <<>>]

LEMMA OfTypeKeeps ==
  ASSUME NEW S, NEW s \in Seq(S), NEW type
  PROVE  /\ OfType(s, type) = EachOf(Keep(S, type), s)
         /\ OfType(s, type) \in Seq(S)
         /\ Makes(Keep(S, type), S, S)
<1> DEFINE F == Keep(S, type)
<1>1. Makes(F, S, S)
  <2>1. \A e \in S : (IF e.type = type THEN <<e>> ELSE <<>>) \in Seq(S)
    OBVIOUS
  <2> QED
    BY <2>1 DEF Makes, Keep
<1>2. \A i \in DOMAIN s : F[s[i]] = IF s[i].type = type THEN <<s[i]>> ELSE <<>>
  BY DEF Keep
<1> HIDE DEF F
<1>3. [i \in DOMAIN s |-> F[s[i]]] =
        [i \in DOMAIN s |-> IF s[i].type = type THEN <<s[i]>> ELSE <<>>]
  BY <1>2
<1>4. OfType(s, type) = EachOf(F, s)
  BY <1>3 DEF OfType, EachOf
<1>5. EachOf(F, s) \in Seq(S)
  BY <1>1, EachPieces
<1> QED
  BY <1>1, <1>4, <1>5 DEF F

LEMMA OfTypeEmpty ==
  ASSUME NEW type PROVE OfType(<<>>, type) = <<>>
<1>1. [i \in DOMAIN <<>> |-> IF (<<>>)[i].type = type THEN <<(<<>>)[i]>> ELSE <<>>] = <<>>
  OBVIOUS
<1> QED
  BY <1>1, FlattenEmpty DEF OfType

LEMMA OfTypeConcat ==
  ASSUME NEW S, NEW s \in Seq(S), NEW t \in Seq(S), NEW type
  PROVE  OfType(s \o t, type) = OfType(s, type) \o OfType(t, type)
<1> DEFINE F == Keep(S, type)
           both == s \o t
<1>1. both \in Seq(S)
  OBVIOUS
<1> HIDE DEF F, both
<1>2. /\ OfType(s, type) = EachOf(F, s) /\ OfType(t, type) = EachOf(F, t)
      /\ OfType(both, type) = EachOf(F, both) /\ Makes(F, S, S)
  BY <1>1, OfTypeKeeps DEF F
<1>3. EachOf(F, s \o t) = EachOf(F, s) \o EachOf(F, t)
  BY <1>2, EachConcat
<1> QED
  BY <1>2, <1>3 DEF both

LEMMA OfTypeAppend ==
  ASSUME NEW S, NEW s \in Seq(S), NEW e \in S, NEW type
  PROVE  OfType(Append(s, e), type) =
           IF e.type = type THEN Append(OfType(s, type), e) ELSE OfType(s, type)
<1> DEFINE F == Keep(S, type)
           all == Append(s, e)
           old == OfType(s, type)
<1>1. all \in Seq(S)
  OBVIOUS
<1>2. F[e] = IF e.type = type THEN <<e>> ELSE <<>>
  BY DEF Keep
<1> HIDE DEF F, all, old
<1>3. /\ old = EachOf(F, s) /\ old \in Seq(S)
      /\ OfType(all, type) = EachOf(F, all) /\ Makes(F, S, S)
  BY <1>1, OfTypeKeeps DEF F, old
<1>4. EachOf(F, Append(s, e)) = EachOf(F, s) \o F[e]
  <2>1. \A G : Makes(G, S, S) => EachOf(G, Append(s, e)) = EachOf(G, s) \o G[e]
    BY EachAppend
  <2> QED
    BY <1>3, <2>1
<1>5. OfType(all, type) = old \o F[e]
  BY <1>3, <1>4 DEF all
<1>6. old \o <<e>> = Append(old, e) /\ old \o <<>> = old
  BY <1>3
<1> QED
  BY <1>2, <1>5, <1>6 DEF all, old

(* The text that a sequence of events, or of frames, carries.               *)
DeltaText(entries) ==
  FlattenSeq([i \in DOMAIN entries |->
                IF entries[i].type = "delta" THEN entries[i].text ELSE <<>>])

TextIn(S) == [e \in S |-> IF e.type = "delta" THEN e.text ELSE <<>>]

LEMMA DeltaTextIs ==
  ASSUME NEW S, NEW s \in Seq(S), \A e \in S : e.type = "delta" => e.text \in Text
  PROVE  /\ DeltaText(s) = EachOf(TextIn(S), s)
         /\ DeltaText(s) \in Text
         /\ Makes(TextIn(S), S, Token)
<1> DEFINE F == TextIn(S)
<1>1. Makes(F, S, Token)
  <2>1. <<>> \in Text
    BY EmptyText
  <2>2. \A e \in S : (IF e.type = "delta" THEN e.text ELSE <<>>) \in Text
    BY <2>1
  <2> QED
    BY <2>2 DEF Makes, TextIn, Text
<1>2. \A i \in DOMAIN s : F[s[i]] = IF s[i].type = "delta" THEN s[i].text ELSE <<>>
  BY DEF TextIn
<1> HIDE DEF F
<1>3. [i \in DOMAIN s |-> F[s[i]]] =
        [i \in DOMAIN s |-> IF s[i].type = "delta" THEN s[i].text ELSE <<>>]
  BY <1>2
<1>4. DeltaText(s) = EachOf(F, s)
  BY <1>3 DEF DeltaText, EachOf
<1>5. EachOf(F, s) \in Seq(Token)
  BY <1>1, EachPieces
<1> QED
  BY <1>1, <1>4, <1>5 DEF F, Text

LEMMA DeltaTextAppend ==
  ASSUME NEW S, NEW s \in Seq(S), NEW e \in S,
         \A x \in S : x.type = "delta" => x.text \in Text
  PROVE  DeltaText(Append(s, e)) =
           IF e.type = "delta" THEN DeltaText(s) \o e.text ELSE DeltaText(s)
<1> DEFINE F == TextIn(S)
           all == Append(s, e)
           old == DeltaText(s)
<1>1. all \in Seq(S)
  OBVIOUS
<1>2. F[e] = IF e.type = "delta" THEN e.text ELSE <<>>
  BY DEF TextIn
<1> HIDE DEF F, all, old
<1>3. /\ old = EachOf(F, s) /\ old \in Text
      /\ DeltaText(all) = EachOf(F, all) /\ Makes(F, S, Token)
  BY <1>1, DeltaTextIs DEF F, old
<1>4. EachOf(F, Append(s, e)) = EachOf(F, s) \o F[e]
  <2>1. \A G : Makes(G, S, Token) => EachOf(G, Append(s, e)) = EachOf(G, s) \o G[e]
    BY EachAppend
  <2> QED
    BY <1>3, <2>1
<1>5. DeltaText(all) = old \o F[e]
  BY <1>3, <1>4 DEF all
<1>6. old \o <<>> = old
  BY <1>3 DEF Text
<1> QED
  BY <1>2, <1>5, <1>6 DEF all, old

(* A request that has ended stays as it is.                                 *)
LEMMA EndedIsLast ==
  ASSUME [Next]_vars, pc \in {"replied", "failed"} PROVE UNCHANGED vars
  BY DEF Next, Retrieve, Raise, GenerateTool, GenerateAnswer, GenerateFinal, Chunk,
         StreamTool, StreamAnswer, StreamFinal, vars

(* What one action adds to the events.                                      *)
LEMMA EventsGrow ==
  ASSUME TypeOK, [Next]_vars
  PROVE  \/ /\ pc' # "replied"
            /\ UNCHANGED <<steps, events, delivered>>
         \/ /\ pc' # "replied" /\ UNCHANGED steps
            /\ \E text \in Text : /\ delivered' = delivered \o text
                                  /\ events' = events \o DeltaEvents(text)
         \/ /\ pc' # "replied" /\ UNCHANGED delivered
            /\ \E step \in Invocation : /\ steps' = Append(steps, step)
                                        /\ events' = Append(events, StepEvent(step))
         \/ /\ pc # "replied" /\ pc' = "replied" /\ UNCHANGED steps
            /\ reply' \in AgentReply /\ reply'.steps = steps
            /\ \E text \in Text :
                 /\ delivered' = delivered \o text
                 /\ events' = Append(events \o DeltaEvents(text), DoneEvent(reply'))
         \/ UNCHANGED <<pc, steps, events, delivered, reply>>
         \/ entry = "answer" /\ UNCHANGED <<events, delivered>>
<1>1. CASE Retrieve
  BY <1>1 DEF Retrieve, StartTurn
<1>2. CASE Raise
  BY <1>2 DEF Raise
<1>3. CASE GenerateTool \/ GenerateAnswer \/ GenerateFinal
  BY <1>3 DEF GenerateTool, GenerateAnswer, GenerateFinal
<1>4. CASE Chunk
  <2>1. PICK chunk \in TextsUpTo(MaxNewTokens - Len(turn.text)) :
          /\ delivered' = delivered \o Forwardable(turn, chunk)
          /\ events' = events \o DeltaEvents(Forwardable(turn, chunk))
    BY <1>4 DEF Chunk
  <2>2. Forwardable(turn, chunk) \in Text
    BY AddIsTurn DEF TypeOK
  <2>3. pc' # "replied" /\ UNCHANGED steps
    BY <1>4 DEF Chunk
  <2> QED
    BY <2>1, <2>2, <2>3
<1>5. CASE StreamTool
  <2>1. PICK call \in ToolCalls : \E step \in Execute(call) :
          RunTool(turn.text, step) /\ events' = Append(events, StepEvent(step))
    BY <1>5 DEF StreamTool
  <2>2. PICK step \in Invocation :
          RunTool(turn.text, step) /\ events' = Append(events, StepEvent(step))
    BY <2>1, ExecuteIsInvocation
  <2>3. pc' # "replied" /\ steps' = Append(steps, step) /\ UNCHANGED delivered
    BY <1>5, <2>2 DEF StreamTool, RunTool, StartTurn
  <2> QED
    BY <2>2, <2>3
<1>6. ASSUME NEW limit \in BOOLEAN, Release(limit), pc # "replied"
      PROVE  /\ pc # "replied" /\ pc' = "replied" /\ UNCHANGED steps
             /\ reply' \in AgentReply /\ reply'.steps = steps
             /\ \E text \in Text :
                  /\ delivered' = delivered \o text
                  /\ events' = Append(events \o DeltaEvents(text), DoneEvent(reply'))
  <2>1. /\ Withheld(turn) \in Text /\ reply' \in AgentReply
        /\ DeltaEvents(Withheld(turn)) \in Seq(Event) /\ DoneEvent(reply') \in Event
    BY <1>6, ReleaseTypes
  <2>2. pc' = "replied" /\ UNCHANGED steps /\ reply'.steps = steps
    BY <1>6 DEF Release, Finish
  <2>3. /\ delivered' = delivered \o Withheld(turn)
        /\ events' = events \o DeltaEvents(Withheld(turn)) \o <<DoneEvent(reply')>>
    BY <1>6 DEF Release
  <2>4. \A s \in Seq(Event), e \in Event : s \o <<e>> = Append(s, e)
    OBVIOUS
  <2>5. events \o DeltaEvents(Withheld(turn)) \in Seq(Event)
    BY <2>1 DEF TypeOK
  <2>6. events' = Append(events \o DeltaEvents(Withheld(turn)), DoneEvent(reply'))
    BY <2>1, <2>3, <2>4, <2>5
  <2> QED
    BY <1>6, <2>1, <2>2, <2>3, <2>6
<1>7. CASE StreamAnswer
  <2>1. Release(FALSE) /\ pc # "replied"
    BY <1>7 DEF StreamAnswer
  <2> QED
    BY <1>6, <2>1
<1>8. CASE StreamFinal
  <2>1. Release(Forced) /\ pc # "replied" /\ Forced \in BOOLEAN
    BY <1>8, ForcedIsBoolean DEF StreamFinal
  <2> QED
    BY <1>6, <2>1
<1>9. CASE UNCHANGED vars
  BY <1>9 DEF vars
<1> QED
  BY <1>1, <1>2, <1>3, <1>4, <1>5, <1>7, <1>8, <1>9 DEF Next

LEMMA DeltaEventsAdd ==
  ASSUME NEW s \in Seq(Event), NEW text \in Text
  PROVE  /\ s \o DeltaEvents(text) \in Seq(Event)
         /\ OfType(s \o DeltaEvents(text), "step") = OfType(s, "step")
         /\ OfType(s \o DeltaEvents(text), "done") = OfType(s, "done")
         /\ DeltaText(s \o DeltaEvents(text)) = DeltaText(s) \o text
<1> DEFINE e == [type |-> "delta", text |-> text]
<1>1. e \in Event /\ e.type = "delta" /\ e.text = text
  BY DEF Event
<1>2. \A x \in Event : x.type = "delta" => x.text \in Text
  BY DEF Event
<1>3. DeltaText(s) \in Text
  BY <1>2, DeltaTextIs
<1>4. CASE text = <<>>
  <2>1. s \o DeltaEvents(text) = s
    BY <1>4 DEF DeltaEvents
  <2>2. DeltaText(s) \o text = DeltaText(s)
    BY <1>3, <1>4 DEF Text
  <2> QED
    BY <2>1, <2>2
<1>5. CASE text # <<>>
  <2>1. s \o DeltaEvents(text) = Append(s, e) /\ Append(s, e) \in Seq(Event)
    BY <1>1, <1>5 DEF DeltaEvents
  <2> HIDE DEF e
  <2>2. /\ OfType(Append(s, e), "step") = OfType(s, "step")
        /\ OfType(Append(s, e), "done") = OfType(s, "done")
    BY <1>1, OfTypeAppend
  <2>3. DeltaText(Append(s, e)) = DeltaText(s) \o text
    BY <1>1, <1>2, DeltaTextAppend
  <2> QED
    BY <2>1, <2>2, <2>3
<1> QED
  BY <1>4, <1>5

-----------------------------------------------------------------------------
(* With TypeOK, what the events tell is inductive as it stands; so is the   *)
(* fact that the deltas carry the text delivered.                          *)

EventsInv == TypeOK /\ EventsTellReply /\ DeltaText(events) = delivered

LEMMA InitEventsInv ==
  ASSUME Init PROVE EventsInv
<1>1. TypeOK
  BY InitTypeOK
<1>2. events = <<>> /\ steps = <<>> /\ pc = "asked" /\ delivered = <<>>
  BY DEF Init
<1>3. [i \in DOMAIN steps |-> StepEvent(steps[i])] = <<>>
  BY <1>2
<1>4. OfType(events, "step") = <<>> /\ OfType(events, "done") = <<>>
  BY <1>2, OfTypeEmpty
<1>5. DeltaText(events) = <<>>
  <2>1. [i \in DOMAIN events |->
           IF events[i].type = "delta" THEN events[i].text ELSE <<>>] = <<>>
    BY <1>2
  <2> QED
    BY <2>1, FlattenEmpty DEF DeltaText
<1> QED
  BY <1>1, <1>2, <1>3, <1>4, <1>5 DEF EventsInv, EventsTellReply

LEMMA NextEventsInv ==
  ASSUME EventsInv, [Next]_vars PROVE EventsInv'
<1>1. TypeOK /\ TypeOK' /\ entry' = entry
  BY NextTypeOK DEF EventsInv, TypeOK, Next, Retrieve, Raise, GenerateTool, GenerateAnswer,
       GenerateFinal, Chunk, StreamTool, StreamAnswer, StreamFinal, Release, vars
<1>2. /\ events \in Seq(Event) /\ events' \in Seq(Event) /\ delivered \in Text
      /\ steps \in Seq(Invocation)
      /\ DeltaText(events) = delivered
  BY <1>1 DEF TypeOK, EventsInv
<1>3. \A x \in Event : x.type = "delta" => x.text \in Text
  BY DEF Event
<1>4. entry = "stream" =>
        /\ OfType(events, "step") = [i \in DOMAIN steps |-> StepEvent(steps[i])]
        /\ pc # "replied" => OfType(events, "done") = <<>>
  BY DEF EventsInv, EventsTellReply
<1>5. CASE pc' # "replied" /\ UNCHANGED <<steps, events, delivered>>
  <2>1. entry = "stream" => pc # "replied"
    BY <1>5, EndedIsLast DEF vars
  <2> QED
    BY <1>1, <1>2, <1>4, <1>5, <2>1 DEF EventsInv, EventsTellReply
<1>6. ASSUME pc' # "replied", UNCHANGED steps, NEW text \in Text,
             delivered' = delivered \o text, events' = events \o DeltaEvents(text)
      PROVE  EventsInv'
  <2>1. /\ OfType(events', "step") = OfType(events, "step")
        /\ OfType(events', "done") = OfType(events, "done")
        /\ DeltaText(events') = delivered'
    BY <1>2, <1>6, DeltaEventsAdd
  <2>2. pc # "replied"
    BY <1>6, EndedIsLast DEF vars
  <2> QED
    BY <1>1, <1>4, <1>6, <2>1, <2>2 DEF EventsInv, EventsTellReply
<1>7. ASSUME pc' # "replied", UNCHANGED delivered, NEW step \in Invocation,
             steps' = Append(steps, step), events' = Append(events, StepEvent(step))
      PROVE  EventsInv'
  <2>1. StepEvent(step) \in Event /\ StepEvent(step).type = "step"
    BY EventTypes DEF StepEvent
  <2>2. /\ OfType(events', "step") = Append(OfType(events, "step"), StepEvent(step))
        /\ OfType(events', "done") = OfType(events, "done")
    BY <1>2, <1>7, <2>1, OfTypeAppend
  <2>3. DeltaText(events') = delivered'
    BY <1>2, <1>3, <1>7, <2>1, DeltaTextAppend
  <2>4. [i \in DOMAIN steps' |-> StepEvent(steps'[i])] =
          Append([i \in DOMAIN steps |-> StepEvent(steps[i])], StepEvent(step))
    BY <1>2, <1>7
  <2>5. pc # "replied"
    BY <1>7, EndedIsLast DEF vars
  <2> QED
    BY <1>1, <1>4, <1>7, <2>2, <2>3, <2>4, <2>5 DEF EventsInv, EventsTellReply
<1>8. ASSUME pc # "replied", pc' = "replied", UNCHANGED steps, reply' \in AgentReply,
             reply'.steps = steps, NEW text \in Text,
             delivered' = delivered \o text,
             events' = Append(events \o DeltaEvents(text), DoneEvent(reply'))
      PROVE  EventsInv'
  <2> DEFINE said == events \o DeltaEvents(text)
             done == DoneEvent(reply')
  <2>1. done \in Event /\ done.type = "done"
    BY <1>8, EventTypes DEF DoneEvent
  <2>2. /\ said \in Seq(Event)
        /\ OfType(said, "step") = OfType(events, "step")
        /\ OfType(said, "done") = OfType(events, "done")
        /\ DeltaText(said) = delivered'
    BY <1>2, <1>8, DeltaEventsAdd
  <2>3. events' = Append(said, done)
    BY <1>8
  <2> HIDE DEF said, done
  <2>4. /\ OfType(events', "step") = OfType(events, "step")
        /\ OfType(events', "done") = Append(OfType(events, "done"), done)
        /\ DeltaText(events') = delivered'
    BY <1>3, <2>1, <2>2, <2>3, OfTypeAppend, DeltaTextAppend
  <2>5. Last(events') = done
    BY <2>1, <2>2, <2>3 DEF Last
  <2>6. Append(<<>>, done) = <<done>>
    OBVIOUS
  <2> QED
    BY <1>1, <1>4, <1>8, <2>4, <2>5, <2>6 DEF EventsInv, EventsTellReply, done
<1>9. CASE UNCHANGED <<pc, steps, events, delivered, reply>>
  BY <1>1, <1>9 DEF EventsInv, EventsTellReply
<1>10. CASE entry = "answer" /\ UNCHANGED <<events, delivered>>
  BY <1>1, <1>2, <1>10 DEF EventsInv, EventsTellReply
<1> QED
  BY <1>1, <1>5, <1>6, <1>7, <1>8, <1>9, <1>10, EventsGrow

LEMMA EventsInvariance == Spec => []EventsInv
<1> QED
  BY InitEventsInv, NextEventsInv, PTL DEF Spec

(* However turns are cut into chunks and whatever tools fail, the events    *)
(* announce each tool run once, in order, and one reply, last, with the     *)
(* same steps (answer_stream).                                             *)
THEOREM EventsAreTold == Spec => []EventsTellReply
<1>1. EventsInv => EventsTellReply
  BY DEF EventsInv
<1> QED
  BY <1>1, EventsInvariance, PTL

-----------------------------------------------------------------------------
(* Refinement of ToolLoop. *)

LEMMA SameTexts ==
  /\ Loop!TextsUpTo(MaxNewTokens) = TextsUpTo(MaxNewTokens)
  /\ \A text : Loop!AsksForTool(text) <=> AsksForTool(text)
  BY DEF Loop!TextsUpTo, TextsUpTo, Loop!Token, Token,
         Loop!AsksForTool, AsksForTool, Loop!CallsIn, CallsIn

(* With any budget, none included, /ask and /ask/stream both implement the  *)
(* bounded loop: no call beyond the budget, no answer within it that asks   *)
(* for a tool, one reply, and the limit reported exactly when it forced the *)
(* answer, but by a stream that had no budget to spend.                    *)
THEOREM Implementation == Spec => ImplementsToolLoop
<1> DEFINE Status == IF pc \in {"replied", "failed"} THEN pc ELSE "open"
<1>1. ASSUME Init PROVE Loop!Init
  <2>1. TypeOK
    BY <1>1, InitTypeOK
  <2>2. ToolsOn \in BOOLEAN /\ Rounds \in Nat /\ (~ToolsOn => Rounds = 0)
    BY <2>1, ForcedIsBoolean, RoundsIsNat DEF Rounds
  <2> QED
    BY <1>1, <2>2 DEF Init, Loop!Init, NoReply
<1>2. ASSUME IInv, IInv', [Next]_vars PROVE [Loop!Next]_(Loop!vars)
  <2> USE <1>2
  <2>1. UNCHANGED <<settings, entry>>
    BY DEF Next, Retrieve, Raise, GenerateTool, GenerateAnswer, GenerateFinal, Chunk,
           StreamTool, StreamAnswer, StreamFinal, Release, vars
  <2>2. UNCHANGED <<entry, ToolsOn, Rounds, Forced>>
    BY <2>1, ConfigurationKept
  <2>3. Forced = (ToolsOn /\ (entry = "stream" => Rounds > 0))
    <3>1. entry \in {"answer", "stream"} /\ ToolsOn \in BOOLEAN
      BY ForcedIsBoolean DEF IInv, TypeOK
    <3>2. (Rounds > 0) \in BOOLEAN /\ (Rounds > 0 => ToolsOn)
      BY <3>1, RoundsIsNat DEF IInv, Rounds
    <3> QED
      BY <3>1, <3>2 DEF Forced
  <2>4. pc \in {"turn", "final"} => Len(steps) <= Rounds /\ (pc = "final" => Len(steps) = Rounds)
                                  /\ (pc = "turn" => Len(steps) < Rounds)
    BY RoundsIsNat DEF IInv, Budget, TypeOK
  <2>5. CASE Retrieve
    <3>1. pc = "asked" /\ pc' \in {"turn", "final"} /\ UNCHANGED <<steps, reply>>
      BY <2>5 DEF Retrieve, StartTurn
    <3> QED
      BY <2>2, <3>1 DEF Loop!vars
  <2>6. CASE Raise
    BY <2>2, <2>6 DEF Raise, Loop!Next, Loop!Fail
  <2>7. ASSUME NEW call \in ToolCalls, NEW step \in Execute(call),
               NEW text \in TextsUpTo(MaxNewTokens), RunTool(text, step),
               pc = "turn", UNCHANGED reply
        PROVE  Loop!UseTool
    <3>1. step \in Invocation
      BY <2>7, ExecuteIsInvocation
    <3>2. steps' = Append(steps, step) /\ pc' \in {"turn", "final"}
      BY <2>7 DEF RunTool, StartTurn
    <3> QED
      BY <2>2, <2>4, <2>7, <3>1, <3>2 DEF Loop!UseTool
  <2>8. CASE GenerateTool
    BY <2>7, <2>8 DEF GenerateTool, Loop!Next
  <2>9. CASE StreamTool
    <3>1. turn.text \in TextsUpTo(MaxNewTokens)
      BY DEF IInv, TypeOK, Turn
    <3> QED
      BY <2>7, <2>9, <3>1 DEF StreamTool, Loop!Next
  <2>10. ASSUME NEW text \in TextsUpTo(MaxNewTokens), Finish(text, FALSE),
                ~AsksForTool(text), pc = "turn", UNCHANGED steps
         PROVE  Loop!Answer
    BY <2>2, <2>4, <2>10, SameTexts DEF Finish, Loop!Answer
  <2>11. ASSUME NEW text \in TextsUpTo(MaxNewTokens), Finish(text, Forced),
                pc = "final", UNCHANGED steps
         PROVE  Loop!Conclude
    BY <2>2, <2>3, <2>4, <2>11, SameTexts DEF Finish, Loop!Conclude
  <2>12. CASE GenerateAnswer
    BY <2>10, <2>12 DEF GenerateAnswer, Loop!Next
  <2>13. CASE GenerateFinal
    BY <2>11, <2>13 DEF GenerateFinal, Loop!Next
  <2>14. CASE StreamAnswer
    <3>1. turn.text \in TextsUpTo(MaxNewTokens)
      BY DEF IInv, TypeOK, Turn
    <3> QED
      BY <2>10, <2>14, <3>1 DEF StreamAnswer, Release, Loop!Next
  <2>15. CASE StreamFinal
    <3>1. turn.text \in TextsUpTo(MaxNewTokens)
      BY DEF IInv, TypeOK, Turn
    <3> QED
      BY <2>11, <2>15, <3>1 DEF StreamFinal, Release, Loop!Next
  <2>16. CASE Chunk
    BY <2>2, <2>16 DEF Chunk, Loop!vars
  <2>17. CASE UNCHANGED vars
    BY <2>2, <2>17 DEF vars, Loop!vars
  <2> QED
    BY <2>5, <2>6, <2>8, <2>9, <2>12, <2>13, <2>14, <2>15, <2>16, <2>17 DEF Next
<1> QED
  BY <1>1, <1>2, Invariance, PTL DEF Spec, ImplementsToolLoop, Loop!Spec

-----------------------------------------------------------------------------
(* AskStream: what a page shows as complete, and that the frames agree with *)
(* each other.                                                             *)

(* Frames. *)
Frames(s) == [i \in DOMAIN s |-> Frame(s[i])]

ErrorFrame == [type |-> "error"]

WireFrame == {Frame(e) : e \in Event} \cup {ErrorFrame}

LEMMA FrameKinds ==
  ASSUME NEW e \in Event
  PROVE  /\ e.type \in {"delta", "step", "done"}
         /\ e.type = "delta" => Frame(e) = e /\ e.text \in Text
         /\ e.type = "step" => /\ Frame(e) = [type |-> "step", body |-> StepBody(e.step)]
                               /\ e.step \in Invocation
         /\ e.type = "done" => Frame(e) = [type |-> "done", body |-> ReplyBody(e.reply)]
         /\ Frame(e).type = e.type
<1>1. CASE e \in [type : {"delta"}, text : Text]
  BY <1>1 DEF Frame
<1>2. CASE e \in [type : {"step"}, step : Invocation]
  BY <1>2 DEF Frame
<1>3. CASE e \in [type : {"done"}, reply : AgentReply]
  BY <1>3 DEF Frame
<1> QED
  BY <1>1, <1>2, <1>3 DEF Event

LEMMA WireFrames ==
  ASSUME NEW f \in WireFrame
  PROVE  /\ f.type = "delta" => f.text \in Text
         /\ f.type = "step" => f.body.call \in ToolCalls
<1>1. CASE f = ErrorFrame
  BY <1>1 DEF ErrorFrame
<1>2. ASSUME NEW e \in Event, f = Frame(e)
      PROVE  /\ f.type = "delta" => f.text \in Text
             /\ f.type = "step" => f.body.call \in ToolCalls
  <2>1. CASE e.type = "delta"
    BY <1>2, <2>1, FrameKinds
  <2>2. CASE e.type = "step"
    BY <1>2, <2>2, FrameKinds DEF StepBody, Invocation
  <2>3. CASE e.type = "done"
    BY <1>2, <2>3, FrameKinds
  <2> QED
    BY <2>1, <2>2, <2>3, FrameKinds
<1> QED
  BY <1>1, <1>2 DEF WireFrame

(* Turning events into frames keeps their order and their number.           *)
LEMMA FramesOfType ==
  ASSUME NEW s \in Seq(Event), NEW type
  PROVE  OfType(Frames(s), type) = Frames(OfType(s, type))
<1> DEFINE begin(n) == SubSeq(s, 1, n)
           T == {n \in Nat : n <= Len(s) =>
                   OfType(Frames(begin(n)), type) = Frames(OfType(begin(n), type))}
<1>0. ASSUME NEW b \in Seq(Event), NEW x \in Event
      PROVE  /\ Frames(b) \in Seq(WireFrame) /\ Frame(x) \in WireFrame
             /\ Frames(Append(b, x)) = Append(Frames(b), Frame(x))
  BY DEF Frames, WireFrame
<1>1. 0 \in T
  <2>1. begin(0) = <<>> /\ Frames(<<>>) = <<>>
    BY DEF Frames
  <2> QED
    BY <2>1, OfTypeEmpty
<1>2. ASSUME NEW n \in T PROVE n + 1 \in T
  <2> SUFFICES ASSUME n + 1 <= Len(s)
               PROVE  OfType(Frames(begin(n + 1)), type) =
                        Frames(OfType(begin(n + 1), type))
    OBVIOUS
  <2> DEFINE b == begin(n)
             x == s[n + 1]
  <2>1. /\ b \in Seq(Event) /\ x \in Event /\ begin(n + 1) = Append(b, x)
        /\ OfType(Frames(b), type) = Frames(OfType(b, type))
    OBVIOUS
  <2> HIDE DEF b, x
  <2>2. OfType(Append(b, x), type) =
          IF x.type = type THEN Append(OfType(b, type), x) ELSE OfType(b, type)
    BY <2>1, OfTypeAppend
  <2>3. OfType(Append(Frames(b), Frame(x)), type) =
          IF Frame(x).type = type THEN Append(OfType(Frames(b), type), Frame(x))
          ELSE OfType(Frames(b), type)
    <3>1. Frames(b) \in Seq(WireFrame) /\ Frame(x) \in WireFrame
      BY <1>0, <2>1
    <3> QED
      BY <3>1, OfTypeAppend
  <2>4. Frame(x).type = x.type
    BY <2>1, FrameKinds
  <2>5. OfType(b, type) \in Seq(Event)
    BY <2>1, OfTypeKeeps
  <2>6. Frames(Append(OfType(b, type), x)) = Append(Frames(OfType(b, type)), Frame(x))
    BY <1>0, <2>1, <2>5
  <2>7. Frames(Append(b, x)) = Append(Frames(b), Frame(x))
    BY <1>0, <2>1
  <2> QED
    BY <2>1, <2>2, <2>3, <2>4, <2>6, <2>7
<1>3. Len(s) \in Nat /\ begin(Len(s)) = s
  OBVIOUS
<1>4. T = Nat
  <2>1. T \in SUBSET Nat
    OBVIOUS
  <2> HIDE DEF T
  <2> QED
    BY <1>1, <1>2, <2>1, Induction
<1>5. Len(s) \in T
  BY <1>3, <1>4
<1>6. OfType(Frames(begin(Len(s))), type) = Frames(OfType(begin(Len(s)), type))
  BY <1>3, <1>5
<1> QED
  BY <1>3, <1>6

-----------------------------------------------------------------------------
(* The wire. *)

WireShape ==
  /\ Wire \in Seq(WireFrame)
  /\ Wire = Frames(events) \o (IF pc = "failed" THEN <<ErrorFrame>> ELSE <<>>)
  /\ Frames(events) \in Seq(WireFrame)
  /\ Len(events) \in Nat
  /\ Len(Wire) = IF pc = "failed" THEN Len(events) + 1 ELSE Len(events)
  /\ \A i \in 1..Len(events) : Wire[i] = Frame(events[i])
  /\ pc = "failed" => Wire[Len(events) + 1] = ErrorFrame
  /\ pc # "failed" => Wire = Frames(events)

LEMMA WireIs == TypeOK => WireShape
<1> SUFFICES ASSUME TypeOK PROVE WireShape
  OBVIOUS
<1>1. events \in Seq(Event) /\ ErrorFrame \in WireFrame
  BY DEF TypeOK, WireFrame
<1>2. /\ Frames(events) \in Seq(WireFrame) /\ Len(Frames(events)) = Len(events)
      /\ \A i \in 1..Len(events) : Frames(events)[i] = Frame(events[i])
  BY <1>1 DEF Frames, WireFrame
<1>3. Wire = Frames(events) \o (IF pc = "failed" THEN <<ErrorFrame>> ELSE <<>>)
  BY DEF Wire, Frames, ErrorFrame
<1>4. CASE pc = "failed"
  BY <1>1, <1>2, <1>3, <1>4 DEF WireShape
<1>5. CASE pc # "failed"
  BY <1>1, <1>2, <1>3, <1>5 DEF WireShape
<1> QED
  BY <1>4, <1>5

LEMMA WireOfType ==
  ASSUME TypeOK, NEW type, type # "error"
  PROVE  OfType(Wire, type) = Frames(OfType(events, type))
<1>1. /\ Frames(events) \in Seq(WireFrame) /\ ErrorFrame \in WireFrame
      /\ Wire = Frames(events) \o (IF pc = "failed" THEN <<ErrorFrame>> ELSE <<>>)
      /\ pc # "failed" => Wire = Frames(events)
  BY WireIs DEF WireFrame, WireShape
<1>2. OfType(Frames(events), type) = Frames(OfType(events, type))
  BY FramesOfType DEF TypeOK
<1>3. OfType(Append(Frames(events), ErrorFrame), type) = OfType(Frames(events), type)
  BY <1>1, OfTypeAppend DEF ErrorFrame
<1>4. Frames(events) \o <<ErrorFrame>> = Append(Frames(events), ErrorFrame)
  BY <1>1
<1> QED
  BY <1>1, <1>2, <1>3, <1>4

(* What is on the wire stays there: frames are only added.                  *)
LEMMA WireGrows ==
  ASSUME TypeOK, [Next]_vars
  PROVE  /\ Len(Wire) <= Len(Wire')
         /\ \A i \in 1..Len(Wire) : Wire'[i] = Wire[i]
<1>1. CASE pc = "failed"
  <2>1. UNCHANGED <<pc, events>>
    BY <1>1, EndedIsLast DEF vars
  <2>2. Wire' = Wire
    BY <2>1 DEF Wire
  <2>3. Len(Wire) \in Nat
    BY WireIs DEF WireShape
  <2> QED
    BY <2>2, <2>3
<1>2. CASE pc # "failed"
  <2>1. TypeOK'
    BY NextTypeOK
  <2>2. /\ Len(Wire) = Len(events) /\ Len(events) \in Nat
        /\ \A i \in 1..Len(events) : Wire[i] = Frame(events[i])
    BY <1>2, WireIs DEF WireShape
  <2>3. /\ Len(events') \in Nat
        /\ Len(Wire') = Len(events') \/ Len(Wire') = Len(events') + 1
        /\ \A i \in 1..Len(events') : Wire'[i] = Frame(events'[i])
    <3>1. WireShape'
      BY <2>1, WireIs, PTL
    <3> QED
      BY <3>1 DEF WireShape
  <2>4. /\ Len(events) <= Len(events')
        /\ \A i \in 1..Len(events) : events'[i] = events[i]
    <3>1. events \in Seq(Event)
      BY DEF TypeOK
    <3>2. CASE events' = events
      BY <3>1, <3>2
    <3>3. ASSUME NEW text \in Text, events' = events \o DeltaEvents(text)
          PROVE  Len(events) <= Len(events') /\ \A i \in 1..Len(events) : events'[i] = events[i]
      BY <3>1, <3>3, EventTypes
    <3>4. ASSUME NEW step \in Invocation, events' = Append(events, StepEvent(step))
          PROVE  Len(events) <= Len(events') /\ \A i \in 1..Len(events) : events'[i] = events[i]
      BY <3>1, <3>4, EventTypes
    <3>5. ASSUME NEW text \in Text, reply' \in AgentReply,
                 events' = Append(events \o DeltaEvents(text), DoneEvent(reply'))
          PROVE  Len(events) <= Len(events') /\ \A i \in 1..Len(events) : events'[i] = events[i]
      <4>1. DeltaEvents(text) \in Seq(Event) /\ DoneEvent(reply') \in Event
        BY <3>5, EventTypes
      <4> QED
        BY <3>1, <3>5, <4>1
    <3> QED
      BY <3>2, <3>3, <3>4, <3>5, EventsGrow
  <2> QED
    BY <2>2, <2>3, <2>4
<1> QED
  BY <1>1, <1>2

-----------------------------------------------------------------------------
(* The bubble.  The text shown without the tool lines taken into it is made *)
(* of what was added to it.                                                *)

Names == {call.name : call \in ToolCalls}

Drop(S) == [x \in S |-> IF x.kind = "tools" THEN <<>> ELSE <<x>>]

LEMMA SaidIs ==
  ASSUME NEW S, NEW s \in Seq(S)
  PROVE  /\ Said(s) = EachOf(Drop(S), s)
         /\ Makes(Drop(S), S, S)
<1> DEFINE F == Drop(S)
<1>1. Makes(F, S, S)
  <2>1. \A x \in S : (IF x.kind = "tools" THEN <<>> ELSE <<x>>) \in Seq(S)
    OBVIOUS
  <2> QED
    BY <2>1 DEF Makes, Drop
<1>2. \A i \in DOMAIN s : F[s[i]] = IF s[i].kind = "tools" THEN <<>> ELSE <<s[i]>>
  BY DEF Drop
<1> HIDE DEF F
<1>3. [i \in DOMAIN s |-> F[s[i]]] =
        [i \in DOMAIN s |-> IF s[i].kind = "tools" THEN <<>> ELSE <<s[i]>>]
  BY <1>2
<1>4. Said(s) = EachOf(F, s)
  BY <1>3 DEF Said, EachOf
<1> QED
  BY <1>1, <1>4 DEF F

LEMMA SaidConcat ==
  ASSUME NEW s \in Seq(Shown), NEW t \in Seq(Shown)
  PROVE  Said(s \o t) = Said(s) \o Said(t)
<1> DEFINE F == Drop(Shown)
           both == s \o t
<1>1. both \in Seq(Shown)
  OBVIOUS
<1> HIDE DEF F, both
<1>2. /\ Said(s) = EachOf(F, s) /\ Said(t) = EachOf(F, t)
      /\ Said(both) = EachOf(F, both) /\ Makes(F, Shown, Shown)
  BY <1>1, SaidIs DEF F
<1>3. \A G : Makes(G, Shown, Shown) => EachOf(G, s \o t) = EachOf(G, s) \o EachOf(G, t)
  BY EachConcat
<1> QED
  BY <1>2, <1>3 DEF both

LEMMA SaidAdds ==
  \A s, t \in Seq(Shown) : s \o t \in Seq(Shown) /\ Said(s \o t) = Said(s) \o Said(t)
<1>1. \A s, t \in Seq(Shown) : s \o t \in Seq(Shown)
  OBVIOUS
<1> QED
  BY <1>1, SaidConcat

LEMMA SaidText ==
  ASSUME NEW text \in Text PROVE Said(text) = text /\ text \in Seq(Shown)
<1> DEFINE F == Drop(Token)
<1>1. \A x \in Token : F[x] = <<x>>
  BY ModelTextAssumption DEF Token, Drop
<1>2. text \in Seq(Token)
  BY DEF Text
<1> HIDE DEF F
<1>3. Said(text) = EachOf(F, text) /\ Makes(F, Token, Token)
  BY <1>2, SaidIs DEF F
<1>4. EachOf(F, text) = text
  BY <1>1, <1>2, <1>3, EachItself
<1>5. text \in Seq(Shown)
  <2>1. Token \subseteq Shown
    BY DEF Shown
  <2> QED
    BY <1>2, <2>1
<1> QED
  BY <1>3, <1>4, <1>5

(* The tool line adds nothing that was said.                               *)
LEMMA SaidLabel ==
  ASSUME tools \in Seq(Names)
  PROVE  Said(<<Label>>) = <<>> /\ <<Label>> \in Seq(Shown) /\ Said(<<>>) = <<>>
<1>1. Label \in Shown /\ Label.kind = "tools"
  BY DEF Label, Shown, Names
<1>2. [i \in DOMAIN <<Label>> |->
         IF (<<Label>>)[i].kind = "tools" THEN <<>> ELSE <<(<<Label>>)[i]>>] = << <<>> >>
  BY <1>1
<1>3. FlattenSeq(<< <<>> >>) = <<>>
  <2>1. <<>> \in Seq(Shown)
    OBVIOUS
  <2> QED
    BY <2>1, FlattenOne
<1>4. Said(<<Label>>) = <<>>
  BY <1>2, <1>3 DEF Said
<1>5. [i \in DOMAIN <<>> |->
         IF (<<>>)[i].kind = "tools" THEN <<>> ELSE <<(<<>>)[i]>>] = <<>>
  OBVIOUS
<1> QED
  BY <1>1, <1>4, <1>5, FlattenEmpty DEF Said

-----------------------------------------------------------------------------
(* The strengthening: what the page shows is what the frames it has read    *)
(* carry, and none of those it takes for an answer was an error.           *)

Read == SubSeq(Wire, 1, received)

PageTypes ==
  /\ conn \in {"open", "cut", "closed"}
  /\ received \in 0..Len(Wire)
  /\ bubble \in Seq(Shown)
  /\ line \in {"none", "attached", "detached"}
  /\ tools \in Seq(Names)
  /\ page \in {"waiting", "complete", "error"}

PageAccount ==
  /\ entry = "stream"
  /\ Said(bubble) = DeltaText(Read)
  /\ Len(tools) = Len(OfType(Read, "step"))
  /\ page \in {"waiting", "complete"} => \A i \in 1..received : Wire[i].type # "error"
  /\ page = "complete" => pc \in {"replied", "failed"} /\ received = Len(Wire)

PageInv == EventsInv /\ PageTypes /\ PageAccount

LEMMA InitPageInv ==
  ASSUME StreamInit PROVE PageInv
<1>1. EventsInv /\ entry = "stream"
  BY InitEventsInv DEF StreamInit
<1>2. Wire \in Seq(WireFrame) /\ received = 0 /\ bubble = <<>> /\ tools = <<>>
  BY <1>1, WireIs DEF EventsInv, WireShape, StreamInit
<1>3. PageTypes
  BY <1>2 DEF PageTypes, StreamInit
<1>4. Read = <<>>
  BY <1>2 DEF Read
<1>5. Said(bubble) = <<>>
  BY <1>2, SaidLabel
<1>6. DeltaText(Read) = <<>>
  <2>1. [i \in DOMAIN Read |-> IF Read[i].type = "delta" THEN Read[i].text ELSE <<>>] = <<>>
    BY <1>4
  <2> QED
    BY <2>1, FlattenEmpty DEF DeltaText
<1>7. OfType(Read, "step") = <<>>
  BY <1>4, OfTypeEmpty
<1> QED
  BY <1>1, <1>2, <1>3, <1>5, <1>6, <1>7 DEF PageInv, PageAccount, StreamInit

(* A step of the server leaves the frames already read as they are.         *)
LEMMA ServeKeepsPage ==
  ASSUME PageInv, [Next]_vars, UNCHANGED <<conn, pageVars>>
  PROVE  PageInv'
<1>1. TypeOK /\ EventsInv
  BY DEF PageInv, EventsInv
<1>2. EventsInv' /\ TypeOK' /\ entry' = entry
  BY <1>1, NextEventsInv DEF EventsInv, Next, Retrieve, Raise, GenerateTool, GenerateAnswer,
       GenerateFinal, Chunk, StreamTool, StreamAnswer, StreamFinal, Release, vars
<1>3. WireShape /\ WireShape'
  <2>1. WireShape
    BY <1>1, WireIs
  <2>2. WireShape'
    BY <1>2, WireIs, PTL
  <2> QED
    BY <2>1, <2>2
<1>4. /\ Wire \in Seq(WireFrame) /\ Wire' \in Seq(WireFrame)
      /\ Len(Wire) <= Len(Wire')
      /\ \A i \in 1..Len(Wire) : Wire'[i] = Wire[i]
  BY <1>1, <1>3, WireGrows DEF WireShape
<1>5. received \in 0..Len(Wire) /\ received' = received
  BY DEF PageInv, PageTypes, pageVars
<1>6. Read' = Read /\ \A i \in 1..received : Wire'[i] = Wire[i]
  BY <1>4, <1>5 DEF Read
<1>7. PageTypes'
  BY <1>4, <1>5 DEF PageInv, PageTypes, pageVars
<1>8. page = "complete" => UNCHANGED vars
  BY EndedIsLast DEF PageInv, PageAccount
<1>9. page = "complete" => pc' = pc /\ Wire' = Wire
  BY <1>8 DEF vars, Wire
<1>10. PageAccount'
  BY <1>2, <1>5, <1>6, <1>9 DEF PageInv, PageAccount, pageVars
<1> QED
  BY <1>2, <1>7, <1>10 DEF PageInv

(* Reading a frame.                                                        *)
LEMMA ReadsOne ==
  ASSUME PageInv, NEW type, Reads(type), UNCHANGED vars
  PROVE  /\ Wire' = Wire /\ Wire \in Seq(WireFrame) /\ EventsInv'
         /\ received \in 0..Len(Wire) /\ received' = received + 1
         /\ received' \in 0..Len(Wire') /\ received + 1 \in 1..Len(Wire)
         /\ Wire[received + 1] \in WireFrame /\ Wire[received + 1].type = type
         /\ Read \in Seq(WireFrame) /\ Read' = Append(Read, Wire[received + 1])
         /\ page = "waiting"
<1>1. Wire \in Seq(WireFrame)
  BY WireIs DEF PageInv, EventsInv, WireShape
<1>2. Wire' = Wire
  BY DEF vars, Wire
<1>3. EventsInv'
  BY NextEventsInv DEF PageInv
<1>4. /\ received \in 0..Len(Wire) /\ received < Len(Wire) /\ received' = received + 1
      /\ Wire[received + 1].type = type /\ page = "waiting"
  BY DEF PageInv, PageTypes, Reads
<1>5. /\ SubSeq(Wire, 1, received) \in Seq(WireFrame)
      /\ SubSeq(Wire, 1, received + 1) = Append(SubSeq(Wire, 1, received), Wire[received + 1])
  BY <1>1, <1>4
<1>6. Read' = SubSeq(Wire, 1, received + 1)
  BY <1>2, <1>4 DEF Read
<1> QED
  BY <1>1, <1>2, <1>3, <1>4, <1>5, <1>6 DEF Read

LEMMA FrameDeltas == \A f \in WireFrame : f.type = "delta" => f.text \in Text
  BY WireFrames

LEMMA NextPageInv ==
  ASSUME PageInv, [StreamNext]_streamVars PROVE PageInv'
<1>1. CASE Serve
  BY <1>1, ServeKeepsPage DEF Serve
<1>2. CASE Cut
  <2>1. /\ UNCHANGED vars /\ UNCHANGED <<received, bubble, line, tools>>
        /\ conn' \in {"open", "cut", "closed"}
        /\ page' = page \/ (page' = "error")
    BY <1>2 DEF Cut
  <2>2. EventsInv' /\ Wire' = Wire
    BY <2>1, NextEventsInv DEF PageInv, vars, Wire
  <2>3. Read' = Read
    BY <2>1, <2>2 DEF Read
  <2> QED
    BY <2>1, <2>2, <2>3 DEF PageInv, PageTypes, PageAccount, vars
<1>3. CASE Cancel
  <2>1. UNCHANGED <<vars, pageVars>> /\ conn' = "closed"
    BY <1>3 DEF Cancel
  <2>2. EventsInv' /\ Wire' = Wire
    BY <2>1, NextEventsInv DEF PageInv, vars, Wire
  <2>3. Read' = Read
    BY <2>1, <2>2 DEF Read, pageVars
  <2> QED
    BY <2>1, <2>2, <2>3 DEF PageInv, PageTypes, PageAccount, vars, pageVars
<1>4. CASE ReadDelta
  <2> DEFINE f == Wire[received + 1]
             label == IF line = "attached" THEN <<Label>> ELSE <<>>
  <2>1. /\ Reads("delta") /\ UNCHANGED <<vars, conn, tools, page>>
        /\ bubble' = bubble \o label \o f.text
        /\ line' \in {"none", "attached", "detached"}
    BY <1>4 DEF ReadDelta, PageInv, PageTypes
  <2>2. /\ Wire' = Wire /\ EventsInv' /\ received' = received + 1
        /\ received' \in 0..Len(Wire') /\ received \in 0..Len(Wire)
        /\ f \in WireFrame /\ f.type = "delta"
        /\ Read \in Seq(WireFrame) /\ Read' = Append(Read, f)
        /\ page = "waiting"
    BY <2>1, ReadsOne
  <2>3. f.text \in Text
    BY <2>2, FrameDeltas
  <2>4. /\ bubble \in Seq(Shown) /\ tools \in Seq(Names)
        /\ Said(bubble) = DeltaText(Read) /\ entry = "stream"
        /\ Len(tools) = Len(OfType(Read, "step"))
        /\ \A i \in 1..received : Wire[i].type # "error"
    BY <2>2 DEF PageInv, PageTypes, PageAccount
  <2> HIDE DEF f
  <2>5. label \in Seq(Shown) /\ Said(label) = <<>>
    BY <2>4, SaidLabel
  <2> HIDE DEF label
  <2>6. Said(f.text) = f.text /\ f.text \in Seq(Shown)
    BY <2>3, SaidText
  <2>7. bubble \o label \in Seq(Shown) /\ Said(bubble \o label) = Said(bubble) \o Said(label)
    BY <2>4, <2>5, SaidAdds
  <2>8. DeltaText(Read) \in Text
    BY <2>2, FrameDeltas, DeltaTextIs
  <2>9. Said(bubble) \o <<>> = Said(bubble)
    BY <2>4, <2>8 DEF Text
  <2>10. /\ bubble' \in Seq(Shown)
         /\ Said(bubble') = Said(bubble \o label) \o Said(f.text)
    BY <2>1, <2>6, <2>7, SaidAdds
  <2>11. DeltaText(Append(Read, f)) = DeltaText(Read) \o f.text
    BY <2>2, FrameDeltas, DeltaTextAppend
  <2>12. OfType(Append(Read, f), "step") = OfType(Read, "step")
    BY <2>2, OfTypeAppend
  <2>13. Said(bubble') = DeltaText(Read')
    BY <2>2, <2>4, <2>5, <2>6, <2>7, <2>9, <2>10, <2>11
  <2>14. \A i \in 1..received' : Wire'[i].type # "error"
    BY <2>2, <2>4 DEF f
  <2>15. PageTypes'
    BY <2>1, <2>2, <2>4, <2>10 DEF PageInv, PageTypes
  <2>16. PageAccount'
    BY <2>1, <2>2, <2>4, <2>12, <2>13, <2>14 DEF PageAccount, vars
  <2> QED
    BY <2>2, <2>15, <2>16 DEF PageInv
<1>5. CASE ReadStep
  <2> DEFINE f == Wire[received + 1]
  <2>1. /\ Reads("step") /\ UNCHANGED <<vars, conn, bubble, page>>
        /\ tools' = Append(tools, f.body.call.name)
        /\ line' \in {"none", "attached", "detached"}
    BY <1>5 DEF ReadStep, PageInv, PageTypes
  <2>2. /\ Wire' = Wire /\ EventsInv' /\ received' = received + 1
        /\ received' \in 0..Len(Wire') /\ received \in 0..Len(Wire)
        /\ f \in WireFrame /\ f.type = "step"
        /\ Read \in Seq(WireFrame) /\ Read' = Append(Read, f)
        /\ page = "waiting"
    BY <2>1, ReadsOne
  <2>3. f.body.call.name \in Names
    BY <2>2, WireFrames DEF Names
  <2>4. /\ bubble \in Seq(Shown) /\ tools \in Seq(Names)
        /\ Said(bubble) = DeltaText(Read) /\ entry = "stream"
        /\ Len(tools) = Len(OfType(Read, "step"))
        /\ \A i \in 1..received : Wire[i].type # "error"
    BY <2>2 DEF PageInv, PageTypes, PageAccount
  <2> HIDE DEF f
  <2>5. DeltaText(Append(Read, f)) = DeltaText(Read)
    BY <2>2, FrameDeltas, DeltaTextAppend
  <2>6. OfType(Read, "step") \in Seq(WireFrame)
    BY <2>2, OfTypeKeeps
  <2>7. OfType(Append(Read, f), "step") = Append(OfType(Read, "step"), f)
    BY <2>2, OfTypeAppend
  <2>8. Len(tools') = Len(OfType(Read', "step")) /\ tools' \in Seq(Names)
    BY <2>1, <2>2, <2>3, <2>4, <2>6, <2>7
  <2>9. \A i \in 1..received' : Wire'[i].type # "error"
    BY <2>2, <2>4 DEF f
  <2>10. PageTypes'
    BY <2>1, <2>2, <2>4, <2>8 DEF PageInv, PageTypes
  <2>11. PageAccount'
    BY <2>1, <2>2, <2>4, <2>5, <2>8, <2>9 DEF PageAccount, vars
  <2> QED
    BY <2>2, <2>10, <2>11 DEF PageInv
<1>6. ASSUME NEW type \in {"done", "error"}, Reads(type), UNCHANGED <<vars, conn, bubble, line, tools>>,
             page' = IF type = "error" THEN "error" ELSE page
      PROVE  PageInv'
  <2> DEFINE f == Wire[received + 1]
  <2>1. /\ Wire' = Wire /\ EventsInv' /\ received' = received + 1
        /\ received' \in 0..Len(Wire') /\ received \in 0..Len(Wire)
        /\ f \in WireFrame /\ f.type = type
        /\ Read \in Seq(WireFrame) /\ Read' = Append(Read, f)
        /\ page = "waiting"
    BY <1>6, ReadsOne
  <2>2. /\ Said(bubble) = DeltaText(Read) /\ entry = "stream"
        /\ Len(tools) = Len(OfType(Read, "step"))
        /\ \A i \in 1..received : Wire[i].type # "error"
    BY <2>1 DEF PageInv, PageTypes, PageAccount
  <2> HIDE DEF f
  <2>3. DeltaText(Append(Read, f)) = DeltaText(Read)
    BY <1>6, <2>1, FrameDeltas, DeltaTextAppend
  <2>4. OfType(Append(Read, f), "step") = OfType(Read, "step")
    BY <1>6, <2>1, OfTypeAppend
  <2>5. page' # "error" => \A i \in 1..received' : Wire'[i].type # "error"
    BY <1>6, <2>1, <2>2 DEF f
  <2>6. PageTypes'
    BY <1>6, <2>1 DEF PageInv, PageTypes
  <2>7. PageAccount'
    BY <1>6, <2>1, <2>2, <2>3, <2>4, <2>5 DEF PageAccount, vars
  <2> QED
    BY <2>1, <2>6, <2>7 DEF PageInv
<1>7. CASE ReadDone
  BY <1>6, <1>7 DEF ReadDone
<1>8. CASE ReadError
  BY <1>6, <1>8 DEF ReadError
<1>9. CASE ReadEnd
  <2>1. /\ page = "waiting" /\ pc \in {"replied", "failed"} /\ received = Len(Wire)
        /\ page' = "complete" /\ UNCHANGED <<vars, conn, received, bubble, line, tools>>
    BY <1>9 DEF ReadEnd
  <2>2. EventsInv' /\ Wire' = Wire
    BY <2>1, NextEventsInv DEF PageInv, vars, Wire
  <2>3. Read' = Read
    BY <2>1, <2>2 DEF Read
  <2> QED
    BY <2>1, <2>2, <2>3 DEF PageInv, PageTypes, PageAccount, vars
<1>10. CASE UNCHANGED streamVars
  BY <1>10, ServeKeepsPage DEF streamVars
<1> QED
  BY <1>1, <1>2, <1>3, <1>4, <1>5, <1>7, <1>8, <1>9, <1>10 DEF StreamNext, Page

LEMMA PageInvariance == StreamSpec => []PageInv
<1> QED
  BY InitPageInv, NextPageInv, PTL DEF StreamSpec

-----------------------------------------------------------------------------
LEMMA Cutting ==
  ASSUME NEW S, NEW w \in Seq(S), NEW n \in 0..Len(w)
  PROVE  /\ SubSeq(w, 1, n) \in Seq(S) /\ SubSeq(w, n + 1, Len(w)) \in Seq(S)
         /\ w = SubSeq(w, 1, n) \o SubSeq(w, n + 1, Len(w))
<1> DEFINE a == SubSeq(w, 1, n)
           b == SubSeq(w, n + 1, Len(w))
<1>1. /\ a \in Seq(S) /\ Len(a) = n /\ \A i \in 1..n : a[i] = w[i]
      /\ Len(w) \in Nat /\ n \in Nat /\ n <= Len(w)
  OBVIOUS
<1>2. /\ b \in Seq(S) /\ Len(b) = Len(w) - n
      /\ \A i \in 1..(Len(w) - n) : b[i] = w[n + i]
  OBVIOUS
<1> HIDE DEF a, b
<1>3. a \o b \in Seq(S) /\ Len(a \o b) = Len(w)
  BY <1>1, <1>2
<1>4. ASSUME NEW i \in 1..Len(w) PROVE (a \o b)[i] = w[i]
  <2>1. CASE i <= n
    BY <1>1, <1>2, <2>1
  <2>2. CASE ~(i <= n)
    <3>1. i - n \in 1..(Len(w) - n) /\ n + (i - n) = i
      BY <1>1, <2>2
    <3>2. (a \o b)[i] = b[i - n] /\ b[i - n] = w[n + (i - n)]
      BY <1>1, <1>2, <2>2, <3>1
    <3> QED
      BY <3>1, <3>2
  <2> QED
    BY <2>1, <2>2
<1>5. w = a \o b
  <2> DEFINE both == a \o b
  <2>1. both \in Seq(S) /\ Len(w) = Len(both) /\ \A i \in 1..Len(w) : w[i] = both[i]
    BY <1>3, <1>4
  <2> HIDE DEF both
  <2>2. w = both
    BY <2>1, SeqEqual
  <2> QED
    BY <2>2 DEF both
<1> QED
  BY <1>1, <1>2, <1>5 DEF a, b

(* The tools listed are at most the tools run: a step is listed once.       *)
LEMMA ListedAreRun ==
  ASSUME PageInv PROVE Len(tools) <= Len(steps)
<1>1. /\ Wire \in Seq(WireFrame) /\ received \in 0..Len(Wire)
      /\ events \in Seq(Event) /\ steps \in Seq(Invocation)
  BY WireIs DEF PageInv, EventsInv, PageTypes, WireShape, TypeOK
<1> DEFINE rest == SubSeq(Wire, received + 1, Len(Wire))
<1>2. Read \in Seq(WireFrame) /\ rest \in Seq(WireFrame) /\ Wire = Read \o rest
  BY <1>1, Cutting DEF Read
<1> HIDE DEF rest
<1>3. /\ OfType(Wire, "step") = OfType(Read, "step") \o OfType(rest, "step")
      /\ OfType(Read, "step") \in Seq(WireFrame) /\ OfType(rest, "step") \in Seq(WireFrame)
  <2>1. \A s, t \in Seq(WireFrame) :
          OfType(s \o t, "step") = OfType(s, "step") \o OfType(t, "step")
    BY OfTypeConcat
  <2>2. \A s \in Seq(WireFrame) : OfType(s, "step") \in Seq(WireFrame)
    BY OfTypeKeeps
  <2> QED
    BY <1>2, <2>1, <2>2
<1>4. OfType(Wire, "step") = Frames([i \in DOMAIN steps |-> StepEvent(steps[i])])
  BY WireOfType DEF PageInv, EventsInv, EventsTellReply, PageAccount
<1>5. Len(OfType(Wire, "step")) = Len(steps)
  BY <1>1, <1>4 DEF Frames
<1>6. Len(OfType(Wire, "step")) = Len(OfType(Read, "step")) + Len(OfType(rest, "step"))
  BY <1>3
<1>7. Len(tools) = Len(OfType(Read, "step"))
  BY DEF PageInv, PageAccount
<1> QED
  BY <1>3, <1>5, <1>6, <1>7

(* The page stays within what it can show, and reads only what was sent     *)
(* (PageTypeOK, of the submit handler of index.html).                      *)
THEOREM PageTypeCorrect == StreamSpec => []PageTypeOK
<1>1. PageInv => PageTypeOK
  BY ListedAreRun DEF PageInv, PageTypes, PageTypeOK, EventsInv, Names
<1> QED
  BY <1>1, PageInvariance, PTL

(* An answer shown as complete is a whole one, wherever the connection is   *)
(* cut and whatever raises: the reply was made, every frame of it read, and *)
(* the text shown is the text delivered (frames of api/app.py, the submit   *)
(* handler of index.html).                                                 *)
THEOREM CompleteIsAnswered == StreamSpec => []CompleteMeansAnswered
<1>1. ASSUME PageInv, page = "complete"
      PROVE  pc = "replied" /\ received = Len(Wire) /\ Said(bubble) = delivered
  <2>1. /\ TypeOK /\ WireShape /\ pc \in {"replied", "failed"} /\ received = Len(Wire)
        /\ \A i \in 1..received : Wire[i].type # "error"
        /\ Said(bubble) = DeltaText(Read) /\ DeltaText(events) = delivered
    BY <1>1, WireIs DEF PageInv, EventsInv, PageAccount
  <2>2. pc # "failed"
    BY <2>1 DEF WireShape, ErrorFrame
  <2>3. Wire = Frames(events) /\ Wire \in Seq(WireFrame) /\ events \in Seq(Event)
    BY <2>1, <2>2 DEF WireShape, TypeOK
  <2>4. Read = Wire
    BY <2>1, <2>3 DEF Read
  <2>5. /\ DOMAIN Wire = DOMAIN events
        /\ \A i \in DOMAIN events : Wire[i] = Frame(events[i])
    BY <2>3 DEF Frames
  <2>6. \A i \in DOMAIN events :
          (IF Wire[i].type = "delta" THEN Wire[i].text ELSE <<>>) =
            (IF events[i].type = "delta" THEN events[i].text ELSE <<>>)
    <3> SUFFICES ASSUME NEW i \in DOMAIN events
                 PROVE  (IF Wire[i].type = "delta" THEN Wire[i].text ELSE <<>>) =
                          (IF events[i].type = "delta" THEN events[i].text ELSE <<>>)
      OBVIOUS
    <3>1. events[i] \in Event /\ Wire[i] = Frame(events[i])
      BY <2>3, <2>5
    <3> QED
      BY <3>1, FrameKinds
  <2>7. [i \in DOMAIN Wire |-> IF Wire[i].type = "delta" THEN Wire[i].text ELSE <<>>] =
          [i \in DOMAIN events |-> IF events[i].type = "delta" THEN events[i].text ELSE <<>>]
    BY <2>5, <2>6
  <2>8. DeltaText(Wire) = DeltaText(events)
    BY <2>7 DEF DeltaText
  <2> QED
    BY <2>1, <2>2, <2>4, <2>8
<1>2. PageInv => CompleteMeansAnswered
  BY <1>1 DEF CompleteMeansAnswered
<1> QED
  BY <1>2, PageInvariance, PTL

(* The steps told one by one and those listed with the reply are the same,  *)
(* and none of them carries the message of an adapter's error, which only   *)
(* the model is shown (shareable_result of agent.py, frames of api/app.py). *)
THEOREM StepsAgree == StreamSpec => []StepFramesAgreeWithDone
<1>1. ASSUME PageInv PROVE StepFramesAgreeWithDone
  <2>1. /\ TypeOK /\ steps \in Seq(Invocation) /\ reply \in AgentReply
        /\ OfType(events, "step") = [i \in DOMAIN steps |-> StepEvent(steps[i])]
        /\ IF pc = "replied"
             THEN OfType(events, "done") = <<DoneEvent(reply)>> /\ reply.steps = steps
             ELSE OfType(events, "done") = <<>>
    BY <1>1 DEF PageInv, EventsInv, EventsTellReply, PageAccount, TypeOK
  <2>2. FramesOf("step") = Frames(OfType(events, "step"))
        /\ FramesOf("done") = Frames(OfType(events, "done"))
    BY <2>1, WireOfType DEF FramesOf
  <2>3. /\ DOMAIN FramesOf("step") = DOMAIN steps
        /\ \A i \in DOMAIN steps : FramesOf("step")[i].body = StepBody(steps[i])
    <3>1. \A i \in DOMAIN steps : Frame(StepEvent(steps[i])).body = StepBody(steps[i])
      <4> SUFFICES ASSUME NEW i \in DOMAIN steps
                   PROVE  Frame(StepEvent(steps[i])).body = StepBody(steps[i])
        OBVIOUS
      <4>1. /\ StepEvent(steps[i]) \in Event /\ StepEvent(steps[i]).type = "step"
            /\ StepEvent(steps[i]).step = steps[i]
        BY <2>1, EventTypes DEF StepEvent
      <4>2. Frame(StepEvent(steps[i])) =
              [type |-> "step", body |-> StepBody(StepEvent(steps[i]).step)]
        BY <4>1, FrameKinds
      <4> QED
        BY <4>1, <4>2
    <3> QED
      BY <2>1, <2>2, <3>1 DEF Frames
  <2>4. ASSUME NEW d \in DOMAIN FramesOf("done")
        PROVE  FramesOf("done")[d].body.steps = [i \in DOMAIN steps |-> StepBody(steps[i])]
    <3>1. pc = "replied" /\ d = 1 /\ FramesOf("done")[d] = Frame(DoneEvent(reply))
      BY <2>1, <2>2, <2>4 DEF Frames
    <3>2. Frame(DoneEvent(reply)) = [type |-> "done", body |-> ReplyBody(reply)]
      <4>1. /\ DoneEvent(reply) \in Event /\ DoneEvent(reply).type = "done"
            /\ DoneEvent(reply).reply = reply
        BY <2>1, EventTypes DEF DoneEvent
      <4>2. Frame(DoneEvent(reply)) =
              [type |-> "done", body |-> ReplyBody(DoneEvent(reply).reply)]
        BY <4>1, FrameKinds
      <4> QED
        BY <4>1, <4>2
    <3>3. FramesOf("done")[d].body = ReplyBody(reply)
      BY <3>1, <3>2
    <3>4. ReplyBody(reply).steps = [i \in DOMAIN reply.steps |-> StepBody(reply.steps[i])]
      BY DEF ReplyBody, StepBody
    <3> QED
      BY <2>1, <3>1, <3>3, <3>4
  <2>5. \A i \in DOMAIN steps : StepBody(steps[i]).result # "adapter error"
    BY <2>1 DEF StepBody, Shareable
  <2>6. Len(FramesOf("step")) = Len(steps)
    BY <2>1, <2>2 DEF Frames
  <2>7. ASSUME NEW d \in DOMAIN FramesOf("done")
        PROVE  LET listed == FramesOf("done")[d].body.steps
                   sent   == FramesOf("step")
               IN  /\ Len(listed) = Len(sent)
                   /\ \A i \in DOMAIN listed : /\ listed[i] = sent[i].body
                                               /\ listed[i].result # "adapter error"
    <3> DEFINE listed == FramesOf("done")[d].body.steps
               sent   == FramesOf("step")
    <3>1. listed = [i \in DOMAIN steps |-> StepBody(steps[i])]
      BY <2>4
    <3> HIDE DEF listed
    <3>2. DOMAIN listed = DOMAIN steps /\ Len(listed) = Len(steps)
      BY <2>1, <3>1
    <3>3. \A i \in DOMAIN listed : /\ listed[i] = sent[i].body
                                   /\ listed[i].result # "adapter error"
      BY <2>3, <2>5, <3>1, <3>2
    <3> QED
      BY <2>6, <3>2, <3>3 DEF listed
  <2> QED
    BY <2>7 DEF StepFramesAgreeWithDone
<1> QED
  BY <1>1, PageInvariance, PTL

-----------------------------------------------------------------------------
(* The scanner.  First the grammar of ToolCallScan: what a literal, an       *)
(* object and the rest of a text are, one step of their definitions at a     *)
(* time.                                                                   *)
Past(g, end) == IF end = 0 THEN 0 ELSE g[end + 1]

Closing(g, i) ==
  IF i > Len(characters) THEN 0
  ELSE CASE characters[i] = "close" -> i
         [] characters[i] = "open" -> Past(g, g[i + 1])
         [] characters[i] = "quote" -> Past(g, LiteralEnd(i))
         [] OTHER               -> g[i + 1]

Places == 1 .. Len(characters)
Ahead == 1 .. Len(characters) + 1

(* An end of something that goes on at i: none, or not before i. *)
EndsFrom(i) == {0} \cup (i .. Len(characters))

CharactersAre == characters \in Seq(Character)

LEMMA CharacterFacts ==
  ASSUME CharactersAre
  PROVE  /\ Len(characters) \in Nat
         /\ \A i \in Places : characters[i] \in {"open", "close", "quote", "backslash", "other"}
BY DEF CharactersAre, Places, Character

LEMMA LiteralEnds ==
  ASSUME CharactersAre, NEW i \in Places
  PROVE  /\ LiteralEnd(i) \in EndsFrom(i + 1)
         /\ LiteralEnd(i) # 0 => LiteralEnd(i) \in ClosingQuotes(i)
                                 /\ \A j \in ClosingQuotes(i) : LiteralEnd(i) <= j
         /\ LiteralEnd(i) = 0 => ClosingQuotes(i) = {}
<1>1. Len(characters) \in Nat /\ i \in Nat
  BY CharacterFacts DEF Places
<1>2. ClosingQuotes(i) \in SUBSET (i + 1 .. Len(characters))
  BY DEF ClosingQuotes
<1>3. CASE ClosingQuotes(i) = {}
  BY <1>3 DEF LiteralEnd, EndsFrom
<1>4. CASE ClosingQuotes(i) # {}
  <2> DEFINE T == ClosingQuotes(i)
  <2>1. T \in SUBSET Nat
    BY <1>1, <1>2
  <2> HIDE DEF T
  <2>2. PICK n \in T : \A m \in T : n <= m
    BY <1>4, <2>1, SmallestNumber DEF T
  <2>3. Min(T) \in T /\ \A m \in T : Min(T) <= m
    BY <2>2 DEF Min
  <2>4. LiteralEnd(i) = Min(T)
    BY <1>4 DEF LiteralEnd, T
  <2>5. Min(T) \in i + 1 .. Len(characters)
    BY <1>2, <2>3 DEF T
  <2> QED
    BY <1>1, <1>4, <2>3, <2>4, <2>5 DEF T, EndsFrom
<1> QED
  BY <1>3, <1>4

(* An object ends where it does, or later than it goes on. *)
LEMMA EndsInRange ==
  ASSUME CharactersAre, NEW m \in Ahead, NEW g,
         \A i \in m .. Len(characters) + 1 : g[i] = Closing(g, i)
  PROVE  \A i \in m .. Len(characters) + 1 : g[i] \in EndsFrom(i)
<1> DEFINE L == Len(characters)
           T == {n \in Nat : \A i \in Ahead : i >= m /\ i + n >= L + 1 => g[i] \in EndsFrom(i)}
<1>0. L \in Nat /\ m \in Nat
  BY CharacterFacts DEF Ahead
<1>1. 0 \in T
  <2> SUFFICES ASSUME NEW i \in Ahead, i >= m, i + 0 >= L + 1 PROVE g[i] \in EndsFrom(i)
    OBVIOUS
  <2>1. i = L + 1 /\ i \in m .. L + 1
    BY <1>0 DEF Ahead
  <2>2. g[i] = Closing(g, i) /\ i > L
    BY <1>0, <2>1
  <2> QED
    BY <2>2 DEF Closing, EndsFrom
<1>2. ASSUME NEW n \in T PROVE n + 1 \in T
  <2> SUFFICES ASSUME NEW i \in Ahead, i >= m, i + (n + 1) >= L + 1 PROVE g[i] \in EndsFrom(i)
    OBVIOUS
  <2>0. n \in Nat /\ i \in Nat
    BY DEF Ahead
  <2>1. \A j \in Ahead : j > i => g[j] \in EndsFrom(j)
    <3> SUFFICES ASSUME NEW j \in Ahead, j > i PROVE g[j] \in EndsFrom(j)
      OBVIOUS
    <3>1. j >= m /\ j + n >= L + 1
      BY <1>0, <2>0 DEF Ahead
    <3> QED
      BY <3>1
  <2>2. CASE i = L + 1
    <3>1. g[i] = Closing(g, i) /\ i > L
      BY <1>0, <2>2
    <3> QED
      BY <3>1 DEF Closing, EndsFrom
  <2>3. CASE i # L + 1
    <3>1. i \in Places /\ i \in m .. L + 1 /\ ~(i > L) /\ i + 1 \in Ahead /\ i + 1 > i
      BY <1>0, <2>0, <2>3 DEF Ahead, Places
    <3>2. g[i] = Closing(g, i)
      BY <3>1
    <3>3. g[i + 1] \in EndsFrom(i + 1) /\ LiteralEnd(i) \in EndsFrom(i + 1)
      BY <2>1, <3>1, LiteralEnds
    <3>4. \A e \in EndsFrom(i + 1) : Past(g, e) \in EndsFrom(i)
      <4> SUFFICES ASSUME NEW e \in EndsFrom(i + 1) PROVE Past(g, e) \in EndsFrom(i)
        OBVIOUS
      <4>1. CASE e = 0
        BY <4>1 DEF Past, EndsFrom
      <4>2. CASE e # 0
        <5>1. e + 1 \in Ahead /\ e + 1 > i /\ e \in Nat
          BY <1>0, <2>0, <4>2 DEF EndsFrom, Ahead
        <5>2. g[e + 1] \in EndsFrom(e + 1)
          BY <2>1, <5>1
        <5>3. g[e + 1] \in EndsFrom(i)
          BY <1>0, <2>0, <5>1, <5>2 DEF EndsFrom
        <5> QED
          BY <4>2, <5>3 DEF Past
      <4> QED
        BY <4>1, <4>2
    <3>5. g[i + 1] \in EndsFrom(i) /\ i \in EndsFrom(i)
      BY <1>0, <2>0, <3>1, <3>3 DEF EndsFrom, Places
    <3> QED
      BY <3>1, <3>2, <3>3, <3>4, <3>5 DEF Closing
  <2> QED
    BY <2>2, <2>3
<1>3. T = Nat
  <2>1. T \in SUBSET Nat
    OBVIOUS
  <2> HIDE DEF T
  <2> QED
    BY <1>1, <1>2, <2>1, Induction
<1> SUFFICES ASSUME NEW i \in m .. L + 1 PROVE g[i] \in EndsFrom(i)
  OBVIOUS
<1>4. i \in Ahead /\ i >= m /\ i + L >= L + 1 /\ L \in T
  BY <1>0, <1>3 DEF Ahead
<1> QED
  BY <1>4

LEMMA ClosingsExist ==
  ASSUME CharactersAre
  PROVE  \E g : g = [i \in Ahead |-> Closing(g, i)]
<1> DEFINE L == Len(characters)
           Fits(g, m) == \A i \in m .. L + 1 : g[i] = Closing(g, i)
           T == {n \in Nat : n <= L => \E g : Fits(g, L + 1 - n)}
<1>0. L \in Nat
  BY CharacterFacts
<1>1. 0 \in T
  <2> DEFINE g == [i \in Ahead |-> 0]
  <2>1. ASSUME NEW i \in L + 1 .. L + 1 PROVE g[i] = Closing(g, i)
    <3>1. i > L /\ i \in Ahead
      BY <1>0 DEF Ahead
    <3> QED
      BY <3>1 DEF Closing
  <2>2. Fits(g, L + 1 - 0)
    BY <1>0, <2>1
  <2> QED
    BY <2>2
<1>2. ASSUME NEW n \in T PROVE n + 1 \in T
  <2> SUFFICES ASSUME n + 1 <= L PROVE \E g : Fits(g, L + 1 - (n + 1))
    OBVIOUS
  <2> DEFINE m == L - n
  <2>0. n \in Nat /\ m \in Places /\ m + 1 \in Ahead /\ m + 1 = L + 1 - n /\ m = L + 1 - (n + 1)
    BY <1>0 DEF Places, Ahead
  <2>1. PICK g : Fits(g, m + 1)
    BY <1>0, <2>0
  <2> DEFINE h == [i \in m .. L + 1 |-> IF i = m THEN Closing(g, m) ELSE g[i]]
  <2>2. \A i \in m + 1 .. L + 1 : g[i] \in EndsFrom(i)
    BY <2>0, <2>1, EndsInRange
  <2> HIDE DEF m
  <2>3. \A i \in m + 1 .. L + 1 : h[i] = g[i]
    BY <1>0, <2>0 DEF Places
  <2>4. ASSUME NEW i \in m .. L + 1 PROVE Closing(h, i) = Closing(g, i)
    <3>0. i \in Nat
      BY <1>0, <2>0 DEF Places
    <3>1. CASE i > L
      BY <3>1 DEF Closing
    <3>2. CASE ~(i > L)
      <4>1. i \in Places /\ i + 1 \in m + 1 .. L + 1
        BY <1>0, <2>0, <3>0, <3>2 DEF Places
      <4>2. h[i + 1] = g[i + 1] /\ g[i + 1] \in EndsFrom(i + 1) /\ LiteralEnd(i) \in EndsFrom(i + 1)
        BY <2>2, <2>3, <4>1, LiteralEnds
      <4>3. \A e \in EndsFrom(i + 1) : Past(h, e) = Past(g, e)
        <5> SUFFICES ASSUME NEW e \in EndsFrom(i + 1), e # 0 PROVE h[e + 1] = g[e + 1]
          BY DEF Past
        <5>1. e + 1 \in m + 1 .. L + 1
          BY <1>0, <2>0, <3>0, <4>1 DEF EndsFrom, Places
        <5> QED
          BY <2>3, <5>1
      <4> HIDE DEF h
      <4> QED
        BY <4>2, <4>3 DEF Closing
    <3> QED
      BY <3>1, <3>2
  <2>5. ASSUME NEW i \in m .. L + 1 PROVE h[i] = Closing(g, i)
    <3>1. CASE i = m
      BY <3>1
    <3>2. CASE i # m
      <4>1. i \in m + 1 .. L + 1
        BY <1>0, <2>0, <3>2 DEF Places
      <4> QED
        BY <2>1, <2>3, <4>1
    <3> QED
      BY <3>1, <3>2
  <2> HIDE DEF h
  <2>6. Fits(h, L + 1 - (n + 1))
    BY <2>0, <2>4, <2>5
  <2> QED
    BY <2>6
<1>3. T = Nat
  <2>1. T \in SUBSET Nat
    OBVIOUS
  <2> HIDE DEF T
  <2> QED
    BY <1>1, <1>2, <2>1, Induction
<1>4. PICK f : Fits(f, 1)
  <2>1. L \in T /\ L + 1 - L = 1
    BY <1>0, <1>3
  <2> QED
    BY <1>0, <2>1
<1> DEFINE g == [i \in Ahead |-> f[i]]
<1>5. ASSUME NEW i \in Ahead PROVE Closing(g, i) = f[i]
  <2>1. f[i] = Closing(f, i) /\ 1 \in Ahead
    BY <1>0, <1>4 DEF Ahead
  <2>2. \A k \in Ahead : f[k] \in EndsFrom(k)
    BY <1>4, <2>1, EndsInRange DEF Ahead
  <2>3. CASE i > L
    BY <2>1, <2>3 DEF Closing
  <2>4. CASE ~(i > L)
    <3>1. i \in Places /\ i + 1 \in Ahead /\ i \in Nat
      BY <1>0, <2>4 DEF Places, Ahead
    <3>2. f[i + 1] \in EndsFrom(i + 1) /\ LiteralEnd(i) \in EndsFrom(i + 1) /\ g[i + 1] = f[i + 1]
      BY <2>2, <3>1, LiteralEnds
    <3>3. \A e \in EndsFrom(i + 1) : Past(g, e) = Past(f, e)
      <4> SUFFICES ASSUME NEW e \in EndsFrom(i + 1), e # 0 PROVE g[e + 1] = f[e + 1]
        BY DEF Past
      <4>1. e + 1 \in Ahead
        BY <1>0, <3>1 DEF EndsFrom, Ahead
      <4> QED
        BY <4>1
    <3> HIDE DEF g
    <3> QED
      BY <2>1, <3>2, <3>3 DEF Closing
  <2> QED
    BY <2>3, <2>4
<1>6. g = [i \in Ahead |-> Closing(g, i)]
  <2> HIDE DEF g
  <2> QED
    BY <1>5 DEF g
<1> QED
  BY <1>6

LEMMA ObjectEnds ==
  ASSUME CharactersAre
  PROVE  /\ \A i \in Ahead : ObjectEnd[i] = Closing(ObjectEnd, i)
         /\ \A i \in Ahead : ObjectEnd[i] \in EndsFrom(i)
<1>1. ObjectEnd = [i \in Ahead |-> Closing(ObjectEnd, i)]
  <2> DEFINE P(g) == g = [i \in Ahead |-> Closing(g, i)]
  <2>1. ObjectEnd = CHOOSE g : P(g)
    BY DEF ObjectEnd, Closing, Past, Ahead
  <2>2. \E g : P(g)
    BY ClosingsExist
  <2> QED
    BY <2>1, <2>2
<1>2. \A i \in Ahead : ObjectEnd[i] = Closing(ObjectEnd, i)
  BY <1>1
<1>3. 1 \in Ahead /\ Ahead = 1 .. Len(characters) + 1
  BY CharacterFacts DEF Ahead
<1>4. \A i \in 1 .. Len(characters) + 1 : ObjectEnd[i] \in EndsFrom(i)
  BY <1>2, <1>3, EndsInRange
<1> QED
  BY <1>2, <1>3, <1>4

EndAt(i) ==
  CASE characters[i] = "open"  -> ObjectEnd[i + 1]
    [] characters[i] = "quote" -> LiteralEnd(i)
    [] OTHER                   -> i

RunAt(i) == IF characters[i] = "open" THEN << <<i, EndAt(i)>> >> ELSE <<>>

Rest(g, end) == IF end = 0 THEN <<>> ELSE g[end + 1]

Following(g, i) ==
  IF i > Len(characters) THEN <<>>
  ELSE IF EndAt(i) = 0 THEN <<>> ELSE RunAt(i) \o g[EndAt(i) + 1]

Run == Places \X Places
RunsFrom(i) == {r \in Run : i <= r[2]}

LEMMA EndsAt ==
  ASSUME CharactersAre, NEW i \in Places
  PROVE  /\ EndAt(i) \in EndsFrom(i)
         /\ EndAt(i) # 0 => EndAt(i) \in Places /\ EndAt(i) + 1 \in Ahead /\ EndAt(i) + 1 > i
<1>1. Len(characters) \in Nat /\ i \in Nat /\ i + 1 \in Ahead
  BY CharacterFacts DEF Places, Ahead
<1>2. ObjectEnd[i + 1] \in EndsFrom(i + 1) /\ LiteralEnd(i) \in EndsFrom(i + 1)
  BY <1>1, ObjectEnds, LiteralEnds
<1>3. EndsFrom(i + 1) \subseteq EndsFrom(i) /\ i \in EndsFrom(i)
  BY <1>1 DEF EndsFrom, Places
<1>4. EndAt(i) \in EndsFrom(i)
  BY <1>2, <1>3 DEF EndAt
<1> QED
  BY <1>1, <1>4 DEF EndsFrom, Places, Ahead

LEMMA FollowingsExist ==
  ASSUME CharactersAre
  PROVE  \E g : g = [i \in Ahead |-> Following(g, i)]
<1> DEFINE L == Len(characters)
           Fits(g, m) == \A i \in m .. L + 1 : g[i] = Following(g, i)
           T == {n \in Nat : n <= L => \E g : Fits(g, L + 1 - n)}
<1>0. L \in Nat
  BY CharacterFacts
<1>1. 0 \in T
  <2> DEFINE g == [i \in Ahead |-> <<>>]
  <2>1. ASSUME NEW i \in L + 1 .. L + 1 PROVE g[i] = Following(g, i)
    <3>1. i > L /\ i \in Ahead
      BY <1>0 DEF Ahead
    <3> QED
      BY <3>1 DEF Following
  <2>2. Fits(g, L + 1 - 0)
    BY <1>0, <2>1
  <2> QED
    BY <2>2
<1>2. ASSUME NEW n \in T PROVE n + 1 \in T
  <2> SUFFICES ASSUME n + 1 <= L PROVE \E g : Fits(g, L + 1 - (n + 1))
    OBVIOUS
  <2> DEFINE m == L - n
  <2>0. n \in Nat /\ m \in Places /\ m + 1 \in Ahead /\ m + 1 = L + 1 - n /\ m = L + 1 - (n + 1)
    BY <1>0 DEF Places, Ahead
  <2>1. PICK g : Fits(g, m + 1)
    BY <1>0, <2>0
  <2> DEFINE h == [i \in m .. L + 1 |-> IF i = m THEN Following(g, m) ELSE g[i]]
  <2> HIDE DEF m
  <2>3. \A i \in m + 1 .. L + 1 : h[i] = g[i]
    BY <1>0, <2>0 DEF Places
  <2>4. ASSUME NEW i \in m .. L + 1 PROVE Following(h, i) = Following(g, i)
    <3>0. i \in Nat
      BY <1>0, <2>0 DEF Places
    <3>1. CASE i > L
      BY <3>1 DEF Following
    <3>2. CASE ~(i > L)
      <4>1. i \in Places
        BY <1>0, <2>0, <3>0, <3>2 DEF Places
      <4>2. EndAt(i) # 0 => h[EndAt(i) + 1] = g[EndAt(i) + 1]
        <5> SUFFICES ASSUME EndAt(i) # 0 PROVE h[EndAt(i) + 1] = g[EndAt(i) + 1]
          OBVIOUS
        <5>1. EndAt(i) \in Places /\ EndAt(i) + 1 > i
          BY <4>1, EndsAt
        <5>2. EndAt(i) + 1 \in m + 1 .. L + 1
          BY <1>0, <2>0, <3>0, <5>1 DEF Places
        <5> QED
          BY <2>3, <5>2
      <4> HIDE DEF h
      <4> QED
        BY <4>2 DEF Following
    <3> QED
      BY <3>1, <3>2
  <2>5. ASSUME NEW i \in m .. L + 1 PROVE h[i] = Following(g, i)
    <3>1. CASE i = m
      BY <3>1
    <3>2. CASE i # m
      <4>1. i \in m + 1 .. L + 1
        BY <1>0, <2>0, <3>2 DEF Places
      <4> QED
        BY <2>1, <2>3, <4>1
    <3> QED
      BY <3>1, <3>2
  <2> HIDE DEF h
  <2>6. Fits(h, L + 1 - (n + 1))
    BY <2>0, <2>4, <2>5
  <2> QED
    BY <2>6
<1>3. T = Nat
  <2>1. T \in SUBSET Nat
    OBVIOUS
  <2> HIDE DEF T
  <2> QED
    BY <1>1, <1>2, <2>1, Induction
<1>4. PICK f : Fits(f, 1)
  <2>1. L \in T /\ L + 1 - L = 1
    BY <1>0, <1>3
  <2> QED
    BY <1>0, <2>1
<1> DEFINE g == [i \in Ahead |-> f[i]]
<1>5. ASSUME NEW i \in Ahead PROVE Following(g, i) = f[i]
  <2>1. f[i] = Following(f, i)
    BY <1>0, <1>4 DEF Ahead
  <2>2. CASE i > L
    BY <2>1, <2>2 DEF Following
  <2>3. CASE ~(i > L)
    <3>1. i \in Places
      BY <1>0, <2>3 DEF Places, Ahead
    <3>2. EndAt(i) # 0 => g[EndAt(i) + 1] = f[EndAt(i) + 1]
      BY <3>1, EndsAt
    <3> HIDE DEF g
    <3> QED
      BY <2>1, <3>2 DEF Following
  <2> QED
    BY <2>2, <2>3
<1>6. g = [i \in Ahead |-> Following(g, i)]
  <2> HIDE DEF g
  <2> QED
    BY <1>5 DEF g
<1> QED
  BY <1>6

LEMMA ObjectsFollow ==
  ASSUME CharactersAre
  PROVE  /\ \A i \in Ahead : ObjectsFrom[i] = Following(ObjectsFrom, i)
         /\ \A i \in Ahead : ObjectsFrom[i] \in Seq(RunsFrom(i))
<1> DEFINE L == Len(characters)
           T == {n \in Nat : \A i \in Ahead : i + n >= L + 1 => ObjectsFrom[i] \in Seq(RunsFrom(i))}
<1>0. L \in Nat
  BY CharacterFacts
<1>1. ObjectsFrom = [i \in Ahead |-> Following(ObjectsFrom, i)]
  <2> DEFINE P(g) == g = [i \in Ahead |-> Following(g, i)]
  <2>1. ObjectsFrom = CHOOSE g : P(g)
    BY DEF ObjectsFrom, Following, EndAt, RunAt, Ahead
  <2>2. \E g : P(g)
    BY FollowingsExist
  <2> QED
    BY <2>1, <2>2
<1>2. \A i \in Ahead : ObjectsFrom[i] = Following(ObjectsFrom, i)
  BY <1>1
<1>3. \A i \in Ahead : <<>> \in Seq(RunsFrom(i))
  OBVIOUS
<1>4. 0 \in T
  <2> SUFFICES ASSUME NEW i \in Ahead, i + 0 >= L + 1 PROVE ObjectsFrom[i] \in Seq(RunsFrom(i))
    OBVIOUS
  <2>1. i > L
    BY <1>0 DEF Ahead
  <2>2. ObjectsFrom[i] = <<>>
    BY <1>2, <2>1 DEF Following
  <2> QED
    BY <1>3, <2>2
<1>5. ASSUME NEW n \in T PROVE n + 1 \in T
  <2> SUFFICES ASSUME NEW i \in Ahead, i + (n + 1) >= L + 1 PROVE ObjectsFrom[i] \in Seq(RunsFrom(i))
    OBVIOUS
  <2>0. n \in Nat /\ i \in Nat
    BY DEF Ahead
  <2>1. \A j \in Ahead : j > i => ObjectsFrom[j] \in Seq(RunsFrom(j))
    <3> SUFFICES ASSUME NEW j \in Ahead, j > i PROVE ObjectsFrom[j] \in Seq(RunsFrom(j))
      OBVIOUS
    <3>1. j + n >= L + 1
      BY <1>0, <2>0 DEF Ahead
    <3> QED
      BY <3>1
  <2>2. CASE i > L \/ EndAt(i) = 0
    <3>1. ObjectsFrom[i] = <<>>
      BY <1>2, <2>2 DEF Following
    <3> QED
      BY <1>3, <3>1
  <2>3. CASE ~(i > L) /\ EndAt(i) # 0
    <3>1. i \in Places
      BY <1>0, <2>3 DEF Places, Ahead
    <3>2. EndAt(i) \in EndsFrom(i) /\ EndAt(i) \in Places /\ EndAt(i) + 1 \in Ahead /\ EndAt(i) + 1 > i
      BY <2>3, <3>1, EndsAt
    <3> DEFINE e == EndAt(i)
               t == ObjectsFrom[e + 1]
               S == RunsFrom(i)
    <3>3. ObjectsFrom[i] = RunAt(i) \o t
      BY <1>2, <2>3 DEF Following
    <3>4. t \in Seq(RunsFrom(e + 1))
      BY <2>1, <3>2
    <3>5. e \in Nat /\ i <= e
      BY <1>0, <2>0, <2>3, <3>2 DEF EndsFrom, Places
    <3>6. RunsFrom(e + 1) \subseteq S
      <4> SUFFICES ASSUME NEW r \in RunsFrom(e + 1) PROVE r \in S
        OBVIOUS
      <4>1. r \in Run /\ e + 1 <= r[2] /\ r[2] \in Nat
        BY DEF RunsFrom, Run, Places
      <4> HIDE DEF e
      <4>2. i <= r[2]
        BY <2>0, <3>5, <4>1
      <4> QED
        BY <4>1, <4>2 DEF RunsFrom
    <3>7. t \in Seq(S)
      <4> HIDE DEF t, S, e
      <4> QED
        BY <3>4, <3>6
    <3>8. RunAt(i) \in Seq(S)
      <4>1. <<i, e>> \in Run
        BY <3>1, <3>2 DEF Run
      <4>2. <<i, e>> \in S
        <5> HIDE DEF e
        <5> QED
          BY <3>5, <4>1 DEF RunsFrom
      <4>3. <<>> \in Seq(S) /\ << <<i, e>> >> \in Seq(S)
        <5> HIDE DEF S, e
        <5> QED
          BY <4>2
      <4> QED
        BY <4>3 DEF RunAt
    <3> HIDE DEF t, S, e
    <3>9. RunAt(i) \o t \in Seq(S)
      BY <3>7, <3>8
    <3> QED
      BY <3>3, <3>9 DEF S
  <2> QED
    BY <2>2, <2>3
<1>6. T = Nat
  <2>1. T \in SUBSET Nat
    OBVIOUS
  <2> HIDE DEF T
  <2> QED
    BY <1>4, <1>5, <2>1, Induction
<1>7. ASSUME NEW i \in Ahead PROVE ObjectsFrom[i] \in Seq(RunsFrom(i))
  <2>1. i + L >= L + 1 /\ L \in T
    BY <1>0, <1>6 DEF Ahead
  <2> QED
    BY <2>1
<1> QED
  BY <1>2, <1>7

-----------------------------------------------------------------------------
(* The scanner has passed the opening quote q, but none that may close the  *)
(* literal; the last character was escaping if the backslashes are odd.     *)
Inside(q, p, esc) ==
  /\ q \in Places /\ q < p
  /\ \A j \in ClosingQuotes(q) : p <= j
  /\ esc <=> Cardinality(Backslashes(q, p)) % 2 = 1

(* The end of the innermost object that is open, and what follows if none   *)
(* is.                                                                     *)
Inner(ins, q, p) == IF ins THEN Past(ObjectEnd, LiteralEnd(q)) ELSE ObjectEnd[p]
Outer(ins, q, p) == IF ins THEN Rest(ObjectsFrom, LiteralEnd(q)) ELSE ObjectsFrom[p]

(* The opening braces o of the objects that are open, from the outermost:   *)
(* each goes on where the next one ends, and the last one at inner.         *)
Nest(o, d, st, inner) ==
  /\ Len(o) = d
  /\ d > 0 => o[1] = st /\ ObjectEnd[o[d] + 1] = inner
  /\ \A k \in 1 .. d - 1 : ObjectEnd[o[k] + 1] = Past(ObjectEnd, ObjectEnd[o[k + 1] + 1])

Object(st) ==
  LET end == ObjectEnd[st + 1]
  IN  IF end = 0 THEN <<>> ELSE << <<st, end>> >> \o ObjectsFrom[end + 1]

Pending(d, st, outer) == IF d = 0 THEN outer ELSE Object(st)

(* The objects of the text are those found and those pending. *)
Agrees(p, d, st, ins, esc, found_) ==
  \E q \in Nat, o \in Seq(Places) :
    /\ ins => Inside(q, p, esc)
    /\ Nest(o, d, st, Inner(ins, q, p))
    /\ ObjectsFrom[1] = found_ \o Pending(d, st, Outer(ins, q, p))

Agreement ==
  /\ pos <= Len(characters) + 1 => Agrees(pos, depth, start, inString, escaped, candidates)
  /\ pos = Len(characters) + 2 => ObjectsFrom[1] = candidates /\ found = FirstCall(candidates)

ScanTyped ==
  /\ characters \in BoundedSeq(Character, MaxLength) /\ CharactersAre
  /\ pos \in 1 .. Len(characters) + 2
  /\ depth \in 0 .. Len(characters) /\ depth < pos
  /\ start \in 0 .. Len(characters) /\ start < pos
  /\ depth > 0 => start > 0 /\ characters[start] = "open"
  /\ inString \in BOOLEAN /\ escaped \in BOOLEAN
  /\ escaped => inString
  /\ candidates \in Seq(Run)
  /\ \A i \in DOMAIN candidates : candidates[i][1] < pos /\ candidates[i][2] < pos

LEMMA Parity ==
  ASSUME NEW c \in Nat
  PROVE  /\ c % 2 = 0 <=> ~(c % 2 = 1)
         /\ (c + 1) % 2 = 1 <=> c % 2 = 0
OBVIOUS

LEMMA BackslashesGrow ==
  ASSUME CharactersAre, NEW q \in Nat, NEW p \in Places, q < p
  PROVE  LET c == Cardinality(Backslashes(q, p))
         IN  /\ c \in Nat
             /\ Cardinality(Backslashes(q, p + 1)) =
                  IF characters[p] = "backslash" THEN c + 1 ELSE 0
<1> DEFINE B == Backslashes(q, p)
<1>0. p \in Nat /\ p - 1 \in Int /\ q + 1 \in Int
  BY CharacterFacts DEF Places
<1>1. IsFiniteSet(B) /\ p \notin B
  <2>1. B \in SUBSET (q + 1 .. p - 1)
    BY DEF Backslashes
  <2>2. IsFiniteSet(q + 1 .. p - 1)
    BY <1>0, FS_Interval
  <2>3. p \notin q + 1 .. p - 1
    BY <1>0
  <2> HIDE DEF B
  <2>4. IsFiniteSet(B)
    BY <2>1, <2>2, FS_Subset
  <2> QED
    BY <2>1, <2>3, <2>4
<1>2. CASE characters[p] = "backslash"
  <2>1. Backslashes(q, p + 1) = B \cup {p}
    <3>1. ASSUME NEW k \in Backslashes(q, p + 1), k # p PROVE k \in B
      BY <1>0, <3>1 DEF Backslashes
    <3>2. ASSUME NEW k \in B PROVE k \in Backslashes(q, p + 1)
      BY <1>0, <1>2 DEF Backslashes
    <3>3. p \in Backslashes(q, p + 1)
      BY <1>0, <1>2 DEF Backslashes
    <3> HIDE DEF B
    <3> QED
      BY <3>1, <3>2, <3>3
  <2> HIDE DEF B
  <2>2. Cardinality(B \cup {p}) = Cardinality(B) + 1
    BY <1>1, FS_AddElement
  <2> QED
    BY <1>1, <1>2, <2>1, <2>2, FS_CardinalityType DEF B
<1>3. CASE characters[p] # "backslash"
  <2>1. Backslashes(q, p + 1) = {}
    BY <1>0, <1>3 DEF Backslashes
  <2> HIDE DEF B
  <2> QED
    BY <1>1, <1>3, <2>1, FS_CardinalityType, FS_EmptySet DEF B
<1> QED
  BY <1>2, <1>3

LEMMA LiteralGoesOn ==
  ASSUME CharactersAre, NEW q, NEW p \in Places, NEW esc \in BOOLEAN, Inside(q, p, esc)
  PROVE  /\ characters[p] = "quote" /\ ~esc => LiteralEnd(q) = p
         /\ ~(characters[p] = "quote" /\ ~esc) =>
              Inside(q, p + 1, characters[p] = "backslash" /\ ~esc)
<1> DEFINE c == Cardinality(Backslashes(q, p))
           d == Cardinality(Backslashes(q, p + 1))
<1>0. q \in Places /\ q \in Nat /\ p \in Nat /\ q < p /\ Len(characters) \in Nat
  BY CharacterFacts DEF Places, Inside
<1>1. c \in Nat /\ d = (IF characters[p] = "backslash" THEN c + 1 ELSE 0)
  BY <1>0, BackslashesGrow
<1>2. (esc <=> c % 2 = 1) /\ \A j \in ClosingQuotes(q) : p <= j
  BY DEF Inside
<1>3. p \in ClosingQuotes(q) <=> characters[p] = "quote" /\ c % 2 = 0
  BY <1>0 DEF ClosingQuotes, Places
<1> HIDE DEF c, d
<1>4. c % 2 = 0 <=> ~esc
  BY <1>1, <1>2, Parity
<1>5. ASSUME characters[p] = "quote", ~esc PROVE LiteralEnd(q) = p
  <2>1. p \in ClosingQuotes(q)
    BY <1>3, <1>4, <1>5
  <2>2. LiteralEnd(q) \in ClosingQuotes(q) /\ LiteralEnd(q) <= p
    BY <1>0, <2>1, LiteralEnds
  <2>3. p <= LiteralEnd(q) /\ LiteralEnd(q) \in Nat
    BY <1>0, <1>2, <2>2 DEF ClosingQuotes
  <2> QED
    BY <1>0, <2>2, <2>3
<1>6. ASSUME ~(characters[p] = "quote" /\ ~esc)
      PROVE  Inside(q, p + 1, characters[p] = "backslash" /\ ~esc)
  <2>1. \A j \in ClosingQuotes(q) : p + 1 <= j
    <3> SUFFICES ASSUME NEW j \in ClosingQuotes(q) PROVE p + 1 <= j
      OBVIOUS
    <3>1. p <= j /\ j # p /\ j \in Nat
      BY <1>0, <1>2, <1>3, <1>4, <1>6 DEF ClosingQuotes
    <3> QED
      BY <1>0, <3>1
  <2>2. characters[p] = "backslash" /\ ~esc <=> d % 2 = 1
    <3>1. 0 % 2 = 0
      OBVIOUS
    <3>2. CASE characters[p] = "backslash"
      BY <1>1, <1>4, <3>2, Parity
    <3>3. CASE characters[p] # "backslash"
      BY <1>1, <3>1, <3>3
    <3> QED
      BY <3>2, <3>3
  <2> QED
    BY <1>0, <2>1, <2>2 DEF Inside, d
<1> QED
  BY <1>5, <1>6

LEMMA LiteralOpens ==
  ASSUME CharactersAre, NEW p \in Places
  PROVE  Inside(p, p + 1, FALSE)
<1>1. p \in Nat /\ Len(characters) \in Nat
  BY CharacterFacts DEF Places
<1>2. \A j \in ClosingQuotes(p) : p + 1 <= j
  BY <1>1 DEF ClosingQuotes
<1>3. Backslashes(p, p + 1) = {}
  BY <1>1 DEF Backslashes
<1>4. Cardinality(Backslashes(p, p + 1)) = 0 /\ 0 % 2 = 0
  BY <1>3, FS_EmptySet
<1> QED
  BY <1>1, <1>2, <1>4 DEF Inside

LEMMA LiteralStaysOpen ==
  ASSUME CharactersAre, NEW q, NEW esc, Inside(q, Len(characters) + 1, esc)
  PROVE  LiteralEnd(q) = 0
<1>1. q \in Places /\ Len(characters) \in Nat
  BY CharacterFacts DEF Inside
<1>2. ClosingQuotes(q) = {}
  BY <1>1 DEF Inside, ClosingQuotes
<1> QED
  BY <1>2 DEF LiteralEnd

(* What holds of the end of the innermost object and is handed on outwards  *)
(* holds of the end of each.                                               *)
LEMMA HandedOn ==
  ASSUME CharactersAre, NEW o \in Seq(Places), NEW d \in Nat, d > 0, NEW st, NEW inner,
         Nest(o, d, st, inner),
         NEW S, 0 \in S, inner \in S,
         \A e \in S : e # 0 => ObjectEnd[e + 1] \in S
  PROVE  ObjectEnd[st + 1] \in S
<1> DEFINE E(k) == ObjectEnd[o[k] + 1]
           T == {n \in Nat : n < d => E(d - n) \in S}
<1>1. 0 \in T
  <2>1. d - 0 = d /\ E(d) = inner
    BY DEF Nest
  <2> HIDE DEF E
  <2> QED
    BY <2>1
<1>2. ASSUME NEW n \in T PROVE n + 1 \in T
  <2> SUFFICES ASSUME n + 1 < d PROVE E(d - (n + 1)) \in S
    OBVIOUS
  <2> DEFINE k == d - (n + 1)
  <2>1. k \in 1 .. d - 1 /\ k + 1 = d - n /\ n \in Nat /\ n < d
    OBVIOUS
  <2>2. E(k + 1) \in S
    BY <2>1
  <2> HIDE DEF k
  <2>3. E(k) = Past(ObjectEnd, E(k + 1))
    BY <2>1 DEF Nest
  <2> HIDE DEF E
  <2>4. E(k) \in S
    BY <2>2, <2>3 DEF Past
  <2> QED
    BY <2>4 DEF k
<1>3. T = Nat
  <2>1. T \in SUBSET Nat
    OBVIOUS
  <2> HIDE DEF T
  <2> QED
    BY <1>1, <1>2, <2>1, Induction
<1>4. d - 1 \in T /\ d - 1 < d /\ d - (d - 1) = 1
  <2>1. d - 1 \in Nat
    OBVIOUS
  <2> HIDE DEF T
  <2> QED
    BY <1>3, <2>1
<1>5. E(1) \in S
  <2>1. E(d - (d - 1)) \in S
    BY <1>4
  <2> HIDE DEF E
  <2> QED
    BY <1>4, <2>1
<1> QED
  BY <1>5 DEF Nest

LEMMA CharactersInBound ==
  ASSUME characters \in BoundedSeq(Character, MaxLength)
  PROVE  CharactersAre
<1>1. PICK m \in 0 .. MaxLength : characters \in [1 .. m -> Character]
  BY DEF BoundedSeq, SeqOf
<1>2. m \in Nat
  BY <1>1, ToolCallScanAssumption
<1> QED
  BY <1>1, <1>2 DEF CharactersAre

LEMMA ScanTypedInit == ScanInit => ScanTyped
<1> SUFFICES ASSUME ScanInit PROVE ScanTyped
  OBVIOUS
<1>1. CharactersAre
  BY CharactersInBound DEF ScanInit
<1>2. Len(characters) \in Nat
  BY <1>1, CharacterFacts
<1>3. candidates = <<>> /\ candidates \in Seq(Run) /\ DOMAIN candidates = {}
  BY DEF ScanInit
<1>4. pos = 1 /\ depth = 0 /\ start = 0 /\ inString = FALSE /\ escaped = FALSE
  BY DEF ScanInit
<1>5. /\ pos \in 1 .. Len(characters) + 2
      /\ depth \in 0 .. Len(characters) /\ depth < pos
      /\ start \in 0 .. Len(characters) /\ start < pos /\ ~(depth > 0)
  BY <1>2, <1>4
<1>6. characters \in BoundedSeq(Character, MaxLength)
  BY DEF ScanInit
<1> QED
  BY <1>1, <1>3, <1>4, <1>5, <1>6 DEF ScanTyped

LEMMA GrammarStays ==
  ASSUME UNCHANGED characters
  PROVE  /\ Places' = Places /\ Run' = Run /\ CharactersAre' = CharactersAre
         /\ ObjectEnd' = ObjectEnd /\ ObjectsFrom' = ObjectsFrom
         /\ \A q : LiteralEnd(q)' = LiteralEnd(q) /\ ClosingQuotes(q)' = ClosingQuotes(q)
         /\ \A q, p : Backslashes(q, p)' = Backslashes(q, p)
         /\ \A runs : FirstCall(runs)' = FirstCall(runs)
<1>1. Places' = Places /\ Run' = Run /\ CharactersAre' = CharactersAre
  BY DEF Places, Run, CharactersAre
<1>2. \A q, p : Backslashes(q, p)' = Backslashes(q, p)
  BY DEF Backslashes
<1>3. \A q : ClosingQuotes(q)' = ClosingQuotes(q)
  BY <1>2 DEF ClosingQuotes
<1>4. \A q : LiteralEnd(q)' = LiteralEnd(q)
  BY <1>3 DEF LiteralEnd
<1>5. ObjectEnd' = ObjectEnd
  BY <1>4 DEF ObjectEnd
<1>6. ObjectsFrom' = ObjectsFrom
  BY <1>4, <1>5 DEF ObjectsFrom
<1>7. \A runs : FirstCall(runs)' = FirstCall(runs)
  BY DEF FirstCall, IsCall
<1> QED
  BY <1>1, <1>2, <1>3, <1>4, <1>5, <1>6, <1>7

LEMMA ScanTypedStep == ScanTyped /\ [ScanNext]_scanVars => ScanTyped'
<1> SUFFICES ASSUME ScanTyped, [ScanNext]_scanVars PROVE ScanTyped'
  OBVIOUS
<1> DEFINE L == Len(characters)
<1>1. UNCHANGED characters
  BY DEF ScanNext, scanVars, InLiteral, Quote, Open, Close, Pass, Parse
<1>2. Run' = Run /\ CharactersAre' = CharactersAre
  BY <1>1, GrammarStays
<1>3. L \in Nat /\ pos \in Nat /\ depth \in Nat /\ start \in Nat /\ \A i \in Places : characters[i] \in Character
  BY CharacterFacts DEF ScanTyped, Character
<1>4. ASSUME pos' = pos + 1, UNCHANGED candidates
      PROVE  /\ candidates' \in Seq(Run)'
             /\ \A i \in DOMAIN candidates' : candidates'[i][1] < pos' /\ candidates'[i][2] < pos'
  <2>1. \A i \in DOMAIN candidates : candidates[i] \in Run
    BY DEF ScanTyped
  <2>2. \A i \in DOMAIN candidates : candidates[i][1] \in Nat /\ candidates[i][2] \in Nat
    BY <1>3, <2>1 DEF Run, Places
  <2> QED
    BY <1>2, <1>3, <1>4, <2>2 DEF ScanTyped
<1>5. CASE InLiteral
  <2>1. inString' \in BOOLEAN /\ escaped' \in BOOLEAN /\ (escaped' => inString')
    BY <1>5 DEF InLiteral, EndsLiteral
  <2>2. pos \in 1 .. L /\ pos' = pos + 1 /\ UNCHANGED <<characters, depth, start, candidates>>
    BY <1>3, <1>5 DEF ScanTyped, InLiteral, Look
  <2> QED
    BY <1>1, <1>2, <1>3, <1>4, <2>1, <2>2 DEF ScanTyped
<1>6. CASE Quote
  BY <1>1, <1>2, <1>3, <1>4, <1>6 DEF ScanTyped, Quote, Look
<1>7. CASE Open
  <2>1. pos \in 1 .. L /\ characters[pos] = "open" /\ pos' = pos + 1 /\ depth' = depth + 1
        /\ UNCHANGED <<characters, inString, escaped, candidates>>
        /\ start' = IF depth = 0 THEN pos ELSE start
    BY <1>3, <1>7 DEF Open, Look, ScanTyped
  <2>2. start' \in 0 .. L /\ start' < pos' /\ start' > 0 /\ characters[start'] = "open"
    BY <1>3, <2>1 DEF ScanTyped
  <2> QED
    BY <1>1, <1>2, <1>3, <1>4, <2>1, <2>2 DEF ScanTyped
<1>8. CASE Close
  <2>1. pos \in 1 .. L /\ pos' = pos + 1 /\ depth > 0 /\ depth' = depth - 1
        /\ UNCHANGED <<characters, start, inString, escaped>>
        /\ candidates' = IF depth = 1 THEN Append(candidates, <<start, pos>>) ELSE candidates
    BY <1>3, <1>8 DEF Close, Closes, Look, ScanTyped
  <2>2. CASE depth = 1
    <3> DEFINE run == <<start, pos>>
    <3>1. run \in Run /\ run[1] < pos' /\ run[2] < pos'
      BY <1>3, <2>1 DEF ScanTyped, Run, Places
    <3> HIDE DEF run
    <3>2. candidates \in Seq(Run) /\ Append(candidates, run) \in Seq(Run)
      BY <3>1 DEF ScanTyped
    <3>3. candidates' = Append(candidates, run)
      BY <2>1, <2>2 DEF run
    <3>4. ASSUME NEW i \in DOMAIN candidates' PROVE candidates'[i][1] < pos' /\ candidates'[i][2] < pos'
      <4>1. CASE i = Len(candidates) + 1
        BY <3>1, <3>2, <3>3, <4>1
      <4>2. CASE i # Len(candidates) + 1
        <5>1. i \in DOMAIN candidates /\ candidates'[i] = candidates[i]
          BY <3>2, <3>3, <4>2
        <5>2. candidates[i] \in Run
          BY <3>2, <5>1
        <5>3. candidates[i][1] \in Nat /\ candidates[i][2] \in Nat
          BY <1>3, <5>2 DEF Run, Places
        <5> QED
          BY <1>3, <2>1, <5>1, <5>3 DEF ScanTyped
      <4> QED
        BY <4>1, <4>2
    <3> QED
      BY <1>1, <1>2, <1>3, <2>1, <2>2, <3>2, <3>3, <3>4, SMTT(60) DEF ScanTyped
  <2>3. CASE depth # 1
    BY <1>1, <1>2, <1>3, <1>4, <2>1, <2>3 DEF ScanTyped
  <2> QED
    BY <2>2, <2>3
<1>9. CASE Pass
  BY <1>1, <1>2, <1>3, <1>4, <1>9 DEF ScanTyped, Pass, Look
<1>10. CASE Parse
  BY <1>1, <1>2, <1>3, <1>4, <1>10 DEF ScanTyped, Parse
<1>11. CASE UNCHANGED scanVars
  BY <1>1, <1>2, <1>11 DEF ScanTyped, scanVars
<1> QED
  BY <1>5, <1>6, <1>7, <1>8, <1>9, <1>10, <1>11 DEF ScanNext

(* The scanner is never deeper than it has opened, starts at a brace, and   *)
(* escapes in literals only, for texts of any length.                      *)
THEOREM ScansAreTyped == ScanSpec => []ScanTypeOK
<1>1. ScanTyped => ScanTypeOK
  <2> SUFFICES ASSUME ScanTyped PROVE ScanTypeOK
    OBVIOUS
  <2>1. Len(characters) \in Nat
    BY CharacterFacts DEF ScanTyped
  <2>2. \A i \in DOMAIN candidates : candidates[i] \in Run
    BY DEF ScanTyped
  <2>3. \A i \in DOMAIN candidates : candidates[i] \in (1 .. pos) \X (1 .. pos)
    BY <2>1, <2>2 DEF ScanTyped, Run, Places
  <2> QED
    BY <2>3 DEF ScanTyped, ScanTypeOK
<1>2. ScanSpec => []ScanTyped
  BY ScanTypedInit, ScanTypedStep, PTL DEF ScanSpec
<1> QED
  BY <1>1, <1>2, PTL

-----------------------------------------------------------------------------
(* What the grammar says at one character. *)
LEMMA AtCharacter ==
  ASSUME CharactersAre, NEW p \in Places
  PROVE  /\ p \in Ahead /\ p + 1 \in Ahead /\ p # 0
         /\ characters[p] = "close" => ObjectEnd[p] = p /\ ObjectsFrom[p] = ObjectsFrom[p + 1]
         /\ characters[p] = "open" =>
              ObjectEnd[p] = Past(ObjectEnd, ObjectEnd[p + 1]) /\ ObjectsFrom[p] = Object(p)
         /\ characters[p] = "quote" =>
              /\ ObjectEnd[p] = Past(ObjectEnd, LiteralEnd(p))
              /\ ObjectsFrom[p] = Rest(ObjectsFrom, LiteralEnd(p))
         /\ characters[p] \in {"backslash", "other"} =>
              ObjectEnd[p] = ObjectEnd[p + 1] /\ ObjectsFrom[p] = ObjectsFrom[p + 1]
<1>1. p \in Nat /\ Len(characters) \in Nat /\ p \in Ahead /\ p + 1 \in Ahead /\ p # 0 /\ ~(p > Len(characters))
  BY CharacterFacts DEF Places, Ahead
<1>2. ObjectEnd[p] = Closing(ObjectEnd, p) /\ ObjectsFrom[p] = Following(ObjectsFrom, p)
  BY <1>1, ObjectEnds, ObjectsFollow
<1>3. ASSUME NEW e \in Ahead PROVE <<>> \o ObjectsFrom[e] = ObjectsFrom[e]
  <2>1. ObjectsFrom[e] \in Seq(RunsFrom(e))
    BY ObjectsFollow
  <2> QED
    BY <2>1
<1>4. EndAt(p) # 0 => EndAt(p) + 1 \in Ahead
  BY EndsAt
<1>5. ObjectsFrom[p] = IF EndAt(p) = 0 THEN <<>> ELSE RunAt(p) \o ObjectsFrom[EndAt(p) + 1]
  BY <1>1, <1>2 DEF Following
<1>6. characters[p] # "open" => ObjectsFrom[p] = Rest(ObjectsFrom, EndAt(p))
  <2> SUFFICES ASSUME characters[p] # "open" PROVE ObjectsFrom[p] = Rest(ObjectsFrom, EndAt(p))
    OBVIOUS
  <2>1. RunAt(p) = <<>>
    BY DEF RunAt
  <2>2. EndAt(p) # 0 => RunAt(p) \o ObjectsFrom[EndAt(p) + 1] = ObjectsFrom[EndAt(p) + 1]
    BY <1>3, <1>4, <2>1
  <2> QED
    BY <1>5, <2>2 DEF Rest
<1>7. CASE characters[p] = "close"
  <2>1. EndAt(p) = p /\ ObjectEnd[p] = p
    BY <1>1, <1>2, <1>7 DEF EndAt, Closing
  <2> QED
    BY <1>1, <1>6, <1>7, <2>1 DEF Rest
<1>8. CASE characters[p] = "open"
  <2>1. EndAt(p) = ObjectEnd[p + 1] /\ ObjectEnd[p] = Past(ObjectEnd, ObjectEnd[p + 1])
    BY <1>1, <1>2, <1>8 DEF EndAt, Closing
  <2>2. RunAt(p) = << <<p, ObjectEnd[p + 1]>> >>
    BY <1>8, <2>1 DEF RunAt
  <2>3. ObjectsFrom[p] = Object(p)
    BY <1>5, <2>1, <2>2 DEF Object
  <2> QED
    BY <1>1, <1>8, <2>1, <2>3
<1>9. CASE characters[p] = "quote"
  <2>1. EndAt(p) = LiteralEnd(p) /\ ObjectEnd[p] = Past(ObjectEnd, LiteralEnd(p))
    BY <1>1, <1>2, <1>9 DEF EndAt, Closing
  <2> QED
    BY <1>1, <1>6, <1>9, <2>1
<1>10. CASE characters[p] \in {"backslash", "other"}
  <2>1. EndAt(p) = p /\ ObjectEnd[p] = ObjectEnd[p + 1]
    BY <1>1, <1>2, <1>10 DEF EndAt, Closing
  <2> QED
    BY <1>1, <1>6, <1>10, <2>1 DEF Rest
<1> QED
  BY <1>1, <1>7, <1>8, <1>9, <1>10

LEMMA AgreementNext ==
  ASSUME ScanTyped, UNCHANGED characters, pos' <= Len(characters) + 1, pos' \in Nat,
         Agrees(pos', depth', start', inString', escaped', candidates')
  PROVE  Agreement'
<1>1. /\ Places' = Places /\ ObjectEnd' = ObjectEnd /\ ObjectsFrom' = ObjectsFrom
      /\ \A q : LiteralEnd(q)' = LiteralEnd(q) /\ ClosingQuotes(q)' = ClosingQuotes(q)
      /\ \A q, p : Backslashes(q, p)' = Backslashes(q, p)
  BY GrammarStays
<1>2. Len(characters) \in Nat /\ Len(characters)' = Len(characters)
  BY CharacterFacts DEF ScanTyped
<1>3. PICK q \in Nat, o \in Seq(Places) :
        /\ inString' => Inside(q, pos', escaped')
        /\ Nest(o, depth', start', Inner(inString', q, pos'))
        /\ ObjectsFrom[1] = candidates' \o Pending(depth', start', Outer(inString', q, pos'))
  BY DEF Agrees
<1>4. inString' => Inside(q, pos, escaped)'
  BY <1>1, <1>3 DEF Inside
<1>5. Nest(o, depth, start, Inner(inString, q, pos))'
  BY <1>1, <1>3 DEF Nest, Inner, Past
<1>6. (ObjectsFrom[1] = candidates \o Pending(depth, start, Outer(inString, q, pos)))'
  BY <1>1, <1>3 DEF Pending, Object, Outer, Rest
<1>7. Agrees(pos, depth, start, inString, escaped, candidates)'
  BY <1>1, <1>4, <1>5, <1>6 DEF Agrees
<1> QED
  BY <1>2, <1>7 DEF Agreement

LEMMA AgreementInit == ScanInit => Agreement
<1> SUFFICES ASSUME ScanInit PROVE Agreement
  OBVIOUS
<1>1. ScanTyped /\ CharactersAre
  BY ScanTypedInit DEF ScanTyped
<1>2. Len(characters) \in Nat /\ pos = 1 /\ depth = 0 /\ inString = FALSE /\ candidates = <<>>
  BY <1>1, CharacterFacts DEF ScanInit
<1>3. 1 \in Ahead
  BY <1>2 DEF Ahead
<1>4. ObjectsFrom[1] \in Seq(RunsFrom(1))
  BY <1>1, <1>3, ObjectsFollow
<1>5. <<>> \o ObjectsFrom[1] = ObjectsFrom[1]
  BY <1>4
<1>6. ObjectsFrom[1] = candidates \o Pending(depth, start, Outer(inString, 0, pos))
  BY <1>2, <1>5 DEF Pending, Outer
<1>7. <<>> \in Seq(Places) /\ Nest(<<>>, depth, start, Inner(inString, 0, pos)) /\ 0 \in Nat
  BY <1>2 DEF Nest
<1>8. Agrees(pos, depth, start, inString, escaped, candidates)
  BY <1>2, <1>6, <1>7 DEF Agrees
<1> QED
  BY <1>2, <1>8 DEF Agreement

(* What the scanner is in the middle of. *)
LEMMA Looking ==
  ASSUME ScanTyped, Agreement, NEW expected, Look(expected)
  PROVE  /\ CharactersAre /\ pos \in Places /\ pos \in Nat /\ Len(characters) \in Nat
         /\ pos' = pos + 1 /\ pos' \in Nat /\ pos' <= Len(characters) + 1
         /\ characters[pos] \in expected /\ depth \in Nat
         /\ Agrees(pos, depth, start, inString, escaped, candidates)
<1>1. CharactersAre /\ Len(characters) \in Nat
  BY CharacterFacts DEF ScanTyped
<1> QED
  BY <1>1 DEF ScanTyped, Look, Places, Agreement

LEMMA AgreementInLiteral ==
  ASSUME ScanTyped, Agreement, InLiteral
  PROVE  Agreement'
<1>1. /\ CharactersAre /\ pos \in Places /\ pos \in Nat /\ pos' = pos + 1
      /\ pos' \in Nat /\ pos' <= Len(characters) + 1
      /\ Agrees(pos, depth, start, inString, escaped, candidates)
  BY Looking DEF InLiteral
<1>2. /\ inString /\ UNCHANGED <<characters, depth, start, candidates>> /\ escaped \in BOOLEAN
      /\ inString' = ~(characters[pos] = "quote" /\ ~escaped)
      /\ escaped' = (characters[pos] = "backslash" /\ ~escaped)
  BY DEF InLiteral, EndsLiteral, ScanTyped
<1>3. PICK q \in Nat, o \in Seq(Places) :
        /\ Inside(q, pos, escaped)
        /\ Nest(o, depth, start, Inner(inString, q, pos))
        /\ ObjectsFrom[1] = candidates \o Pending(depth, start, Outer(inString, q, pos))
  BY <1>1, <1>2 DEF Agrees
<1>4. CASE characters[pos] = "quote" /\ ~escaped
  <2>1. LiteralEnd(q) = pos /\ pos # 0
    BY <1>1, <1>2, <1>3, <1>4, LiteralGoesOn, AtCharacter
  <2>2. /\ Inner(inString', q, pos') = Inner(inString, q, pos)
        /\ Outer(inString', q, pos') = Outer(inString, q, pos) /\ ~inString'
    BY <1>1, <1>2, <1>4, <2>1 DEF Inner, Outer, Past, Rest
  <2>3. Agrees(pos', depth', start', inString', escaped', candidates')
    BY <1>2, <1>3, <2>2 DEF Agrees
  <2> QED
    BY <1>1, <1>2, <2>3, AgreementNext
<1>5. CASE ~(characters[pos] = "quote" /\ ~escaped)
  <2>1. Inside(q, pos', escaped')
    BY <1>1, <1>2, <1>3, <1>5, LiteralGoesOn
  <2>2. /\ Inner(inString', q, pos') = Inner(inString, q, pos)
        /\ Outer(inString', q, pos') = Outer(inString, q, pos)
    BY <1>2, <1>5 DEF Inner, Outer
  <2>3. Agrees(pos', depth', start', inString', escaped', candidates')
    BY <1>2, <1>3, <2>1, <2>2 DEF Agrees
  <2> QED
    BY <1>1, <1>2, <2>3, AgreementNext
<1> QED
  BY <1>4, <1>5

LEMMA AgreementQuote ==
  ASSUME ScanTyped, Agreement, Quote
  PROVE  Agreement'
<1>1. /\ CharactersAre /\ pos \in Places /\ pos \in Nat /\ pos' = pos + 1
      /\ pos' \in Nat /\ pos' <= Len(characters) + 1 /\ characters[pos] = "quote"
      /\ Agrees(pos, depth, start, inString, escaped, candidates)
  BY Looking DEF Quote
<1>2. /\ ~inString /\ UNCHANGED <<characters, depth, start, candidates>>
      /\ inString' = TRUE /\ escaped' = FALSE
  BY DEF Quote, ScanTyped
<1>3. PICK q \in Nat, o \in Seq(Places) :
        /\ Nest(o, depth, start, Inner(inString, q, pos))
        /\ ObjectsFrom[1] = candidates \o Pending(depth, start, Outer(inString, q, pos))
  BY <1>1 DEF Agrees
<1>4. Inside(pos, pos', escaped')
  BY <1>1, <1>2, LiteralOpens
<1>5. /\ Inner(inString', pos, pos') = Inner(inString, q, pos)
      /\ Outer(inString', pos, pos') = Outer(inString, q, pos)
  BY <1>1, <1>2, AtCharacter DEF Inner, Outer
<1>6. Agrees(pos', depth', start', inString', escaped', candidates')
  BY <1>1, <1>2, <1>3, <1>4, <1>5 DEF Agrees
<1> QED
  BY <1>1, <1>2, <1>6, AgreementNext

LEMMA NestOpens ==
  ASSUME CharactersAre, NEW p \in Places, characters[p] = "open",
         NEW o \in Seq(Places), NEW d \in Nat, NEW st, Nest(o, d, st, ObjectEnd[p])
  PROVE  Nest(Append(o, p), d + 1, IF d = 0 THEN p ELSE st, ObjectEnd[p + 1])
<1> DEFINE n == Append(o, p)
           E(k) == ObjectEnd[k + 1]
<1>1. Len(o) = d /\ Len(n) = d + 1 /\ n[d + 1] = p /\ \A k \in 1 .. d : n[k] = o[k]
  BY DEF Nest
<1> HIDE DEF n
<1>2. n[1] = IF d = 0 THEN p ELSE st
  BY <1>1 DEF Nest
<1>3. E(n[d + 1]) = ObjectEnd[p + 1]
  BY <1>1
<1>4. ASSUME NEW k \in 1 .. d PROVE E(n[k]) = Past(ObjectEnd, E(n[k + 1]))
  <2>1. CASE k = d
    <3>1. E(o[d]) = ObjectEnd[p]
      BY <2>1 DEF Nest
    <3>2. ObjectEnd[p] = Past(ObjectEnd, ObjectEnd[p + 1])
      BY AtCharacter
    <3> QED
      BY <1>1, <2>1, <3>1, <3>2
  <2>2. CASE k # d
    <3>1. k \in 1 .. d - 1 /\ n[k] = o[k] /\ n[k + 1] = o[k + 1]
      BY <1>1, <2>2
    <3>2. E(o[k]) = Past(ObjectEnd, E(o[k + 1]))
      BY <3>1 DEF Nest
    <3> QED
      BY <3>1, <3>2
  <2> QED
    BY <2>1, <2>2
<1>5. (d + 1) - 1 = d
  OBVIOUS
<1> QED
  BY <1>1, <1>2, <1>3, <1>4, <1>5 DEF Nest, n

LEMMA NestCloses ==
  ASSUME CharactersAre, NEW p \in Places,
         NEW o \in Seq(Places), NEW d \in Nat, d > 0, NEW st, Nest(o, d, st, p)
  PROVE  \E n \in Seq(Places) : Nest(n, d - 1, st, ObjectEnd[p + 1])
<1> DEFINE n == [k \in 1 .. d - 1 |-> o[k]]
           E(k) == ObjectEnd[k + 1]
<1>1. d - 1 \in Nat /\ p # 0 /\ Len(o) = d
  BY DEF Nest, Places
<1>2. \A k \in 1 .. d - 1 : o[k] \in Places
  BY <1>1
<1>3. n \in Seq(Places) /\ Len(n) = d - 1
  BY <1>1, <1>2
<1>4. \A k \in 1 .. d - 1 : n[k] = o[k]
  OBVIOUS
<1> HIDE DEF n
<1>5. ASSUME d - 1 > 0 PROVE n[1] = st /\ E(n[d - 1]) = ObjectEnd[p + 1]
  <2>1. d - 1 \in 1 .. d - 1 /\ 1 \in 1 .. d - 1 /\ (d - 1) + 1 = d
    BY <1>1, <1>5
  <2>2. E(o[d - 1]) = Past(ObjectEnd, E(o[d]))
    BY <2>1 DEF Nest
  <2>3. E(o[d]) = p /\ o[1] = st
    BY DEF Nest
  <2>4. Past(ObjectEnd, p) = ObjectEnd[p + 1]
    BY <1>1 DEF Past
  <2> QED
    BY <1>4, <2>1, <2>2, <2>3, <2>4
<1>6. ASSUME NEW k \in 1 .. (d - 1) - 1 PROVE E(n[k]) = Past(ObjectEnd, E(n[k + 1]))
  <2>1. k \in 1 .. d - 1 /\ k + 1 \in 1 .. d - 1
    BY <1>1
  <2>2. E(o[k]) = Past(ObjectEnd, E(o[k + 1]))
    BY <2>1 DEF Nest
  <2> QED
    BY <1>4, <2>1, <2>2
<1>7. Nest(n, d - 1, st, ObjectEnd[p + 1])
  BY <1>3, <1>5, <1>6 DEF Nest
<1> QED
  BY <1>3, <1>7

LEMMA AgreementOpen ==
  ASSUME ScanTyped, Agreement, Open
  PROVE  Agreement'
<1>1. /\ CharactersAre /\ pos \in Places /\ pos \in Nat /\ pos' = pos + 1
      /\ pos' \in Nat /\ pos' <= Len(characters) + 1 /\ characters[pos] = "open" /\ depth \in Nat
      /\ Agrees(pos, depth, start, inString, escaped, candidates)
  BY Looking DEF Open
<1>2. /\ ~inString /\ ~inString' /\ UNCHANGED <<characters, candidates>>
      /\ start' = (IF depth = 0 THEN pos ELSE start) /\ depth' = depth + 1
  BY DEF Open
<1>3. PICK q \in Nat, o \in Seq(Places) :
        /\ Nest(o, depth, start, Inner(inString, q, pos))
        /\ ObjectsFrom[1] = candidates \o Pending(depth, start, Outer(inString, q, pos))
  BY <1>1 DEF Agrees
<1>4. Inner(inString, q, pos) = ObjectEnd[pos] /\ Inner(inString', q, pos') = ObjectEnd[pos + 1]
  BY <1>1, <1>2 DEF Inner
<1>5. Append(o, pos) \in Seq(Places)
  BY <1>1
<1>6. Nest(Append(o, pos), depth', start', Inner(inString', q, pos'))
  <2>1. Nest(o, depth, start, ObjectEnd[pos])
    BY <1>3, <1>4
  <2>2. Nest(Append(o, pos), depth + 1, IF depth = 0 THEN pos ELSE start, ObjectEnd[pos + 1])
    BY <1>1, <2>1, NestOpens
  <2> QED
    BY <1>2, <1>4, <2>2
<1>7. Pending(depth', start', Outer(inString', q, pos')) = Pending(depth, start, Outer(inString, q, pos))
  <2>1. depth' # 0
    BY <1>1, <1>2
  <2>2. Outer(inString, q, pos) = Object(pos)
    BY <1>1, <1>2, AtCharacter DEF Outer
  <2> QED
    BY <1>2, <2>1, <2>2 DEF Pending
<1>8. Agrees(pos', depth', start', inString', escaped', candidates')
  BY <1>2, <1>3, <1>5, <1>6, <1>7 DEF Agrees
<1> QED
  BY <1>1, <1>2, <1>8, AgreementNext

LEMMA AppendThenConcat ==
  ASSUME NEW S, NEW c \in Seq(S), NEW r \in S, NEW t \in Seq(S)
  PROVE  c \o (<<r>> \o t) = Append(c, r) \o t
<1>1. <<r>> \in Seq(S)
  OBVIOUS
<1>2. c \o <<r>> = Append(c, r)
  OBVIOUS
<1> DEFINE u == <<r>>
<1> HIDE DEF u
<1>3. c \o (u \o t) = (c \o u) \o t
  BY <1>1, ConcatAssociative DEF u
<1> QED
  BY <1>2, <1>3 DEF u

LEMMA AgreementClose ==
  ASSUME ScanTyped, Agreement, Close
  PROVE  Agreement'
<1>1. /\ CharactersAre /\ pos \in Places /\ pos \in Nat /\ pos' = pos + 1
      /\ pos' \in Nat /\ pos' <= Len(characters) + 1 /\ characters[pos] = "close" /\ depth \in Nat
      /\ Agrees(pos, depth, start, inString, escaped, candidates)
  BY Looking DEF Close
<1>2. /\ ~inString /\ ~inString' /\ UNCHANGED <<characters, start>> /\ depth > 0 /\ depth' = depth - 1
      /\ candidates' = IF depth = 1 THEN Append(candidates, <<start, pos>>) ELSE candidates
  BY DEF Close, Closes
<1>3. PICK q \in Nat, o \in Seq(Places) :
        /\ Nest(o, depth, start, Inner(inString, q, pos))
        /\ ObjectsFrom[1] = candidates \o Pending(depth, start, Outer(inString, q, pos))
  BY <1>1 DEF Agrees
<1>4. Inner(inString, q, pos) = pos /\ Inner(inString', q, pos') = ObjectEnd[pos + 1]
  BY <1>1, <1>2, AtCharacter DEF Inner
<1>5. Nest(o, depth, start, pos)
  BY <1>3, <1>4
<1>6. PICK n \in Seq(Places) : Nest(n, depth - 1, start, ObjectEnd[pos + 1])
  BY <1>1, <1>2, <1>5, NestCloses
<1>7. Nest(n, depth', start', Inner(inString', q, pos'))
  BY <1>2, <1>4, <1>6
<1>8. ObjectsFrom[1] = candidates \o Object(start)
  BY <1>1, <1>2, <1>3 DEF Pending
<1>9. ObjectsFrom[1] = candidates' \o Pending(depth', start', Outer(inString', q, pos'))
  <2>1. CASE depth = 1
    <3> DEFINE run == <<start, pos>>
               t == ObjectsFrom[pos + 1]
    <3>1. ObjectEnd[start + 1] = pos /\ pos # 0
      BY <1>1, <1>5, <2>1, AtCharacter DEF Nest
    <3>2. Object(start) = <<run>> \o t
      BY <3>1 DEF Object
    <3>3. Pending(depth', start', Outer(inString', q, pos')) = t
      BY <1>1, <1>2, <2>1 DEF Pending, Outer
    <3>4. pos + 1 \in Ahead /\ Len(characters) \in Nat
      BY <1>1, AtCharacter, CharacterFacts
    <3>5. t \in Seq(Run)
      <4>1. t \in Seq(RunsFrom(pos + 1)) /\ RunsFrom(pos + 1) \subseteq Run
        BY <1>1, <3>4, ObjectsFollow DEF RunsFrom
      <4> HIDE DEF t
      <4> QED
        BY <4>1
    <3>6. run \in Run
      BY <1>1, <1>2, <3>4 DEF Run, Places, ScanTyped
    <3> HIDE DEF run, t
    <3>7. candidates \o (<<run>> \o t) = Append(candidates, run) \o t
      <4>1. candidates \in Seq(Run)
        BY DEF ScanTyped
      <4> QED
        BY <3>5, <3>6, <4>1, AppendThenConcat
    <3>8. candidates' = Append(candidates, run)
      BY <1>2, <2>1 DEF run
    <3> QED
      BY <1>8, <3>2, <3>3, <3>7, <3>8
  <2>2. CASE depth # 1
    <3>1. depth' # 0 /\ candidates' = candidates
      BY <1>1, <1>2, <2>2
    <3> QED
      BY <1>2, <1>8, <3>1 DEF Pending
  <2> QED
    BY <2>1, <2>2
<1>10. Agrees(pos', depth', start', inString', escaped', candidates')
  BY <1>2, <1>7, <1>9 DEF Agrees
<1> QED
  BY <1>1, <1>2, <1>10, AgreementNext

LEMMA AgreementPass ==
  ASSUME ScanTyped, Agreement, Pass
  PROVE  Agreement'
<1>1. /\ CharactersAre /\ pos \in Places /\ pos \in Nat /\ pos' = pos + 1
      /\ pos' \in Nat /\ pos' <= Len(characters) + 1 /\ depth \in Nat
      /\ characters[pos] \in {"close", "other", "backslash"}
      /\ Agrees(pos, depth, start, inString, escaped, candidates)
  BY Looking DEF Pass
<1>2. /\ ~inString /\ ~inString' /\ UNCHANGED <<characters, start, depth, candidates>>
      /\ depth > 0 => characters[pos] # "close"
  BY DEF Pass, Closes
<1>3. PICK q \in Nat, o \in Seq(Places) :
        /\ Nest(o, depth, start, Inner(inString, q, pos))
        /\ ObjectsFrom[1] = candidates \o Pending(depth, start, Outer(inString, q, pos))
  BY <1>1 DEF Agrees
<1>4. Outer(inString', q, pos') = Outer(inString, q, pos)
  BY <1>1, <1>2, AtCharacter DEF Outer
<1>5. depth > 0 => Inner(inString', q, pos') = Inner(inString, q, pos)
  BY <1>1, <1>2, AtCharacter DEF Inner
<1>6. Nest(o, depth', start', Inner(inString', q, pos'))
  BY <1>2, <1>3, <1>5 DEF Nest
<1>7. Agrees(pos', depth', start', inString', escaped', candidates')
  BY <1>2, <1>3, <1>4, <1>6 DEF Agrees
<1> QED
  BY <1>1, <1>2, <1>7, AgreementNext

LEMMA AgreementParse ==
  ASSUME ScanTyped, Agreement, Parse
  PROVE  Agreement'
<1>1. /\ pos = Len(characters) + 1 /\ pos' = pos + 1
      /\ UNCHANGED <<characters, candidates>> /\ found' = FirstCall(candidates)
  BY DEF Parse
<1>2. /\ CharactersAre /\ Len(characters) \in Nat /\ pos \in Ahead /\ pos > Len(characters)
      /\ depth \in Nat /\ Agrees(pos, depth, start, inString, escaped, candidates)
  <2>1. CharactersAre /\ Len(characters) \in Nat
    BY CharacterFacts DEF ScanTyped
  <2> QED
    BY <1>1, <2>1 DEF ScanTyped, Ahead, Agreement
<1>3. PICK q \in Nat, o \in Seq(Places) :
        /\ inString => Inside(q, pos, escaped)
        /\ Nest(o, depth, start, Inner(inString, q, pos))
        /\ ObjectsFrom[1] = candidates \o Pending(depth, start, Outer(inString, q, pos))
  BY <1>2 DEF Agrees
<1>4. inString => LiteralEnd(q) = 0
  BY <1>1, <1>2, <1>3, LiteralStaysOpen
<1>5. ObjectEnd[pos] = 0 /\ ObjectsFrom[pos] = <<>>
  BY <1>2, ObjectEnds, ObjectsFollow DEF Closing, Following
<1>6. Inner(inString, q, pos) = 0 /\ Outer(inString, q, pos) = <<>>
  BY <1>4, <1>5 DEF Inner, Outer, Past, Rest
<1>7. Pending(depth, start, Outer(inString, q, pos)) = <<>>
  <2>1. CASE depth = 0
    BY <1>6, <2>1 DEF Pending
  <2>2. CASE depth # 0
    <3>1. Nest(o, depth, start, 0) /\ depth > 0
      BY <1>2, <1>3, <1>6, <2>2
    <3> DEFINE S == {0}
    <3>2. 0 \in S /\ \A e \in S : e # 0 => ObjectEnd[e + 1] \in S
      OBVIOUS
    <3> HIDE DEF S
    <3>3. ObjectEnd[start + 1] \in S
      BY <1>2, <3>1, <3>2, HandedOn
    <3>4. ObjectEnd[start + 1] = 0
      BY <3>3 DEF S
    <3> QED
      BY <2>2, <3>4 DEF Pending, Object
  <2> QED
    BY <2>1, <2>2
<1>8. ObjectsFrom[1] = candidates
  <2>1. candidates \in Seq(Run)
    BY DEF ScanTyped
  <2>2. candidates \o <<>> = candidates
    BY <2>1
  <2> QED
    BY <1>3, <1>7, <2>2
<1>9. (ObjectsFrom[1] = candidates)'
  BY <1>1, <1>8, GrammarStays
<1>10. (found = FirstCall(candidates))'
  BY <1>1 DEF FirstCall, IsCall
<1>11. ~(pos' <= Len(characters)' + 1)
  BY <1>1, <1>2
<1> QED
  BY <1>9, <1>10, <1>11 DEF Agreement

LEMMA AgreementStutters ==
  ASSUME ScanTyped, Agreement, UNCHANGED scanVars
  PROVE  Agreement'
<1>1. UNCHANGED <<characters, pos, depth, start, inString, escaped, candidates, found>>
  BY DEF scanVars
<1>2. Len(characters) \in Nat /\ pos \in 1 .. Len(characters) + 2
  BY CharacterFacts DEF ScanTyped
<1>3. CASE pos <= Len(characters) + 1
  <2>1. Agrees(pos', depth', start', inString', escaped', candidates')
    BY <1>1, <1>3 DEF Agreement
  <2> QED
    BY <1>1, <1>2, <1>3, <2>1, AgreementNext
<1>4. CASE pos = Len(characters) + 2
  <2>1. (ObjectsFrom[1] = candidates)'
    BY <1>1, <1>4, GrammarStays DEF Agreement
  <2>2. (found = FirstCall(candidates))'
    BY <1>1, <1>4 DEF Agreement, FirstCall, IsCall
  <2>3. ~(pos' <= Len(characters)' + 1)
    BY <1>1, <1>2, <1>4
  <2> QED
    BY <2>1, <2>2, <2>3 DEF Agreement
<1> QED
  BY <1>2, <1>3, <1>4

LEMMA AgreementStep == ScanTyped /\ Agreement /\ [ScanNext]_scanVars => Agreement'
BY AgreementInLiteral, AgreementQuote, AgreementOpen, AgreementClose, AgreementPass,
   AgreementParse, AgreementStutters DEF ScanNext

LEMMA EndsFromLater ==
  ASSUME CharactersAre, NEW p \in Nat, NEW i \in Nat, p <= i
  PROVE  EndsFrom(i) \subseteq EndsFrom(p) /\ RunsFrom(i) \subseteq RunsFrom(p)
<1>1. Len(characters) \in Nat
  BY CharacterFacts
<1>2. ASSUME NEW r \in RunsFrom(i) PROVE r \in RunsFrom(p)
  <2>1. r \in Run /\ i <= r[2] /\ r[2] \in Nat
    BY <1>1 DEF RunsFrom, Run, Places
  <2>2. p <= r[2]
    BY <2>1
  <2> QED
    BY <2>1, <2>2 DEF RunsFrom
<1> QED
  BY <1>1, <1>2 DEF EndsFrom

(* What follows an end from p on lies from p on. *)
LEMMA FromEnd ==
  ASSUME CharactersAre, NEW p \in Ahead, NEW e \in EndsFrom(p)
  PROVE  /\ Past(ObjectEnd, e) \in EndsFrom(p)
         /\ Rest(ObjectsFrom, e) \in Seq(RunsFrom(p))
<1>1. Len(characters) \in Nat /\ p \in Nat
  BY CharacterFacts DEF Ahead
<1>2. CASE e = 0
  <2>1. <<>> \in Seq(RunsFrom(p))
    OBVIOUS
  <2> QED
    BY <1>2, <2>1 DEF Past, Rest, EndsFrom
<1>3. CASE e # 0
  <2>1. e + 1 \in Ahead /\ e + 1 \in Nat /\ p <= e + 1
    BY <1>1, <1>3 DEF EndsFrom, Ahead
  <2>2. ObjectEnd[e + 1] \in EndsFrom(e + 1) /\ ObjectsFrom[e + 1] \in Seq(RunsFrom(e + 1))
    BY <2>1, ObjectEnds, ObjectsFollow
  <2>3. EndsFrom(e + 1) \subseteq EndsFrom(p) /\ RunsFrom(e + 1) \subseteq RunsFrom(p)
    BY <1>1, <2>1, EndsFromLater
  <2> DEFINE t == ObjectsFrom[e + 1]
  <2>4. t \in Seq(RunsFrom(p))
    <3> HIDE DEF t
    <3> QED
      BY <2>2, <2>3 DEF t
  <2> QED
    BY <1>3, <2>2, <2>3, <2>4 DEF Past, Rest
<1> QED
  BY <1>2, <1>3

(* What is pending ends at the character looked at, or later. *)
LEMMA PendingEndsLater ==
  ASSUME CharactersAre, NEW p \in Ahead, NEW d \in Nat, NEW st, d > 0 => st \in Places,
         NEW ins, NEW q, NEW esc, ins => Inside(q, p, esc),
         NEW o \in Seq(Places), Nest(o, d, st, Inner(ins, q, p))
  PROVE  Pending(d, st, Outer(ins, q, p)) \in Seq(RunsFrom(p))
<1>1. Len(characters) \in Nat /\ p \in Nat
  BY CharacterFacts DEF Ahead
<1>2. ins => LiteralEnd(q) \in EndsFrom(p)
  <2> SUFFICES ASSUME ins PROVE LiteralEnd(q) \in EndsFrom(p)
    OBVIOUS
  <2>1. q \in Places /\ \A j \in ClosingQuotes(q) : p <= j
    BY DEF Inside
  <2>2. LiteralEnd(q) \in EndsFrom(q + 1) /\ (LiteralEnd(q) # 0 => p <= LiteralEnd(q))
    BY <2>1, LiteralEnds
  <2>3. q \in Nat
    BY <1>1, <2>1 DEF Places
  <2> QED
    BY <1>1, <2>2, <2>3 DEF EndsFrom
<1>3. Inner(ins, q, p) \in EndsFrom(p) /\ Outer(ins, q, p) \in Seq(RunsFrom(p))
  <2>1. CASE ins
    BY <1>2, <2>1, FromEnd DEF Inner, Outer
  <2>2. CASE ~ins
    BY <2>2, ObjectEnds, ObjectsFollow DEF Inner, Outer
  <2> QED
    BY <2>1, <2>2
<1>4. CASE d = 0
  BY <1>3, <1>4 DEF Pending
<1>5. CASE d # 0
  <2> DEFINE S == EndsFrom(p)
             e == ObjectEnd[st + 1]
             R == RunsFrom(p)
  <2>1. 0 \in S /\ Inner(ins, q, p) \in S
    BY <1>3 DEF EndsFrom
  <2>2. \A x \in S : x # 0 => ObjectEnd[x + 1] \in S
    BY FromEnd DEF Past
  <2>3. e \in S
    <3>1. d > 0
      BY <1>5
    <3> HIDE DEF S
    <3> QED
      BY <2>1, <2>2, <3>1, HandedOn
  <2>4. CASE e = 0
    BY <1>5, <2>4 DEF Pending, Object
  <2>5. CASE e # 0
    <3>1. e \in Places /\ p <= e /\ st \in Places
      BY <1>1, <1>5, <2>3, <2>5 DEF EndsFrom, Places, Ahead
    <3> DEFINE run == <<st, e>>
               t == ObjectsFrom[e + 1]
    <3>2. run \in R
      <4> HIDE DEF e
      <4> QED
        BY <3>1 DEF RunsFrom, Run
    <3>3. t \in Seq(R)
      BY <2>3, <2>5, FromEnd DEF Rest
    <3>4. Pending(d, st, Outer(ins, q, p)) = <<run>> \o t
      BY <1>5, <2>5 DEF Pending, Object
    <3> HIDE DEF run, t, R
    <3>5. <<run>> \o t \in Seq(R)
      BY <3>2, <3>3
    <3> QED
      BY <3>4, <3>5 DEF R
  <2> QED
    BY <2>4, <2>5
<1> QED
  BY <1>4, <1>5

LEMMA CandidatesFollow ==
  ASSUME ScanTyped, Agreement
  PROVE  CandidatesAreObjects
<1> DEFINE all == ObjectsFrom[1]
<1>1. CharactersAre /\ Len(characters) \in Nat /\ pos \in Nat /\ pos <= Len(characters) + 2
      /\ pos >= 1 /\ candidates \in Seq(Run)
  BY CharacterFacts DEF ScanTyped
<1>2. \A i \in DOMAIN candidates : candidates[i][2] < pos
  BY DEF ScanTyped
<1>3. CASE pos <= Len(characters) + 1
  <2>1. PICK q \in Nat, o \in Seq(Places) :
          /\ inString => Inside(q, pos, escaped)
          /\ Nest(o, depth, start, Inner(inString, q, pos))
          /\ all = candidates \o Pending(depth, start, Outer(inString, q, pos))
    <3>1. Agrees(pos, depth, start, inString, escaped, candidates)
      BY <1>3 DEF Agreement
    <3> QED
      BY <3>1 DEF Agrees
  <2> DEFINE t == Pending(depth, start, Outer(inString, q, pos))
  <2>2. pos \in Ahead /\ depth \in Nat /\ (depth > 0 => start \in Places)
    BY <1>1, <1>3 DEF Ahead, Places, ScanTyped
  <2>3. t \in Seq(RunsFrom(pos))
    BY <1>1, <2>1, <2>2, PendingEndsLater
  <2>4. all = candidates \o t
    BY <2>1
  <2> HIDE DEF t, all
  <2>5. t \in Seq(Run) /\ Len(t) \in Nat /\ \A i \in 1 .. Len(t) : t[i][2] >= pos
    <3>1. RunsFrom(pos) \subseteq Run /\ \A r \in RunsFrom(pos) : pos <= r[2] /\ r[2] \in Nat
      BY <1>1 DEF RunsFrom, Run, Places
    <3>2. \A i \in 1 .. Len(t) : t[i] \in RunsFrom(pos)
      BY <2>3
    <3> QED
      BY <1>1, <2>3, <3>1, <3>2
  <2>6. IsPrefix(candidates, all)
    BY <1>1, <2>4, <2>5, IsPrefixOfConcat
  <2>7. /\ DOMAIN candidates = 1 .. Len(candidates) /\ Len(candidates) \in Nat
        /\ DOMAIN all = 1 .. Len(candidates) + Len(t)
        /\ \A i \in 1 .. Len(candidates) + Len(t) :
             all[i] = IF i <= Len(candidates) THEN candidates[i] ELSE t[i - Len(candidates)]
    BY <1>1, <2>4, <2>5, ConcatProperties
  <2>8. ASSUME NEW i \in DOMAIN all PROVE i \in DOMAIN candidates <=> all[i][2] < pos
    <3>1. CASE i <= Len(candidates)
      <4>1. i \in DOMAIN candidates /\ all[i] = candidates[i]
        BY <2>5, <2>7, <3>1
      <4> QED
        BY <1>2, <4>1
    <3>2. CASE ~(i <= Len(candidates))
      <4>1. i \notin DOMAIN candidates /\ i - Len(candidates) \in 1 .. Len(t)
            /\ all[i] = t[i - Len(candidates)]
        BY <2>5, <2>7, <3>2
      <4>2. all[i][2] >= pos
        BY <2>5, <4>1
      <4>3. all[i][2] \in Nat
        <5>1. all[i] \in Run
          BY <2>5, <4>1
        <5> QED
          BY <1>1, <5>1 DEF Run, Places
      <4> QED
        BY <1>1, <4>1, <4>2, <4>3
    <3> QED
      BY <3>1, <3>2
  <2>9. ~(pos = Len(characters) + 2)
    BY <1>1, <1>3
  <2> QED
    BY <2>6, <2>8, <2>9 DEF CandidatesAreObjects, all
<1>4. CASE pos = Len(characters) + 2
  <2>1. all = candidates /\ found = FirstCall(candidates)
    BY <1>4 DEF Agreement
  <2>2. IsPrefix(candidates, candidates)
    <3>1. <<>> \in Seq(Run) /\ candidates \o <<>> = candidates
      BY <1>1
    <3> QED
      BY <1>1, <3>1, IsPrefixOfConcat
  <2> HIDE DEF all
  <2> QED
    BY <1>2, <2>1, <2>2 DEF CandidatesAreObjects, all
<1> QED
  BY <1>1, <1>3, <1>4

(* At every step the scanner has found just the outermost objects of the     *)
(* text that end by then, and in the end the call is the first of all that   *)
(* is one, for texts of any length and any nesting of braces and quotes.    *)
THEOREM CandidatesAreTheObjects == ScanSpec => []CandidatesAreObjects
<1>1. ScanInit => ScanTyped /\ Agreement
  BY ScanTypedInit, AgreementInit
<1>2. ScanTyped /\ Agreement /\ [ScanNext]_scanVars => ScanTyped' /\ Agreement'
  BY ScanTypedStep, AgreementStep
<1>3. ScanTyped /\ Agreement => CandidatesAreObjects
  BY CandidatesFollow
<1> QED
  BY <1>1, <1>2, <1>3, PTL DEF ScanSpec

=============================================================================
