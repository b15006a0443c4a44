------------------------------- MODULE AskStream -------------------------------
(***************************************************************************)
(* POST /ask/stream and the page that reads it.  api/app.py turns each      *)
(* event of answer_stream into a Server-Sent Event frame as it is yielded,  *)
(* and an exception into one error frame; entrypoints/ui/index.html reads   *)
(* the frames into the bubble of the pending answer.                       *)
(*                                                                         *)
(* Frames arrive in order.  The connection can be cut at any time: the page *)
(* then sees its read rejected, and the server cancels the request at its   *)
(* next await.                                                             *)
(***************************************************************************)
EXTENDS Orchestrator

VARIABLES
  conn,      \* "open", "cut", or "closed" once the server has noticed
  received,  \* how many frames the page has read
  bubble,    \* what the pending bubble shows as its text
  line,      \* its tool line: "none", "attached" or "detached"
  tools,     \* the tools listed so far; the line shows them while attached
  page       \* "waiting", "complete" (shown as the answer) or "error"

pageVars == <<received, bubble, line, tools, page>>
streamVars == <<vars, conn, pageVars>>

-----------------------------------------------------------------------------
(* What leaves the process. *)

(* ToolInvocation.shareable_result: the caller of a tool whose adapter      *)
(* failed is told the type of the error only.                              *)
Shareable(step) ==
  IF step.result = "adapter error" THEN "error type" ELSE step.result

(* Mutant: the step frame carries what the model was shown. *)
StepBodyUnfiltered(step) ==
  [call |-> step.call, ok |-> Ok(step), result |-> step.result]

(* A step as the step frame carries it. *)
StepBody(step) ==
  [call |-> step.call, ok |-> Ok(step), result |-> Shareable(step)]

(* A reply as the done frame and the body of /ask carry it. *)
ReplyBody(r) ==
  [answer |-> r.answer,
   steps  |-> [i \in DOMAIN r.steps |->
                 [call |-> r.steps[i].call, ok |-> Ok(r.steps[i]),
                  result |-> Shareable(r.steps[i])]],
   limit  |-> r.limit]

Frame(event) ==
  CASE event.type = "delta" -> event
    [] event.type = "step"  -> [type |-> "step", body |-> StepBody(event.step)]
    [] event.type = "done"  -> [type |-> "done", body |-> ReplyBody(event.reply)]

(* Mutant: a failure just ends the stream. *)
WireWithoutError == [i \in DOMAIN events |-> Frame(events[i])]

Wire ==
  [i \in DOMAIN events |-> Frame(events[i])]
    \o (IF pc = "failed" THEN <<[type |-> "error"]>> ELSE <<>>)

-----------------------------------------------------------------------------
StreamInit ==
  /\ Init
  /\ entry = "stream"
  /\ conn = "open"
  /\ received = 0
  /\ bubble = <<>>
  /\ line = "none"
  /\ tools = <<>>
  /\ page = "waiting"

Serve == conn # "closed" /\ Next /\ UNCHANGED <<conn, pageVars>>

(* Mutant: the page does not notice that its read is rejected. *)
CutUnnoticed ==
  /\ conn = "open"
  /\ conn' = "cut"
  /\ UNCHANGED <<vars, pageVars>>

(* The connection is lost.  The server may go on until it is cancelled.     *)
Cut ==
  /\ conn = "open"
  /\ conn' = "cut"
  /\ page' = IF page = "waiting" THEN "error" ELSE page
  /\ UNCHANGED <<vars, received, bubble, line, tools>>

(* Starlette cancels the request at its next await: no Exception, no frame. *)
Cancel ==
  /\ conn = "cut"
  /\ conn' = "closed"
  /\ UNCHANGED <<vars, pageVars>>

Reads(type) ==
  /\ page = "waiting"
  /\ received < Len(Wire)
  /\ Wire[received + 1].type = type
  /\ received' = received + 1

(* The text of the tool line, as it reads when merged into other text.      *)
Label == [kind |-> "tools", tools |-> tools]

(* What the bubble's text can be made of. *)
Shown ==
  Token \cup [kind : {"tools"}, tools : Seq({call.name : call \in ToolCalls})]

(* pending.textContent += text.  Reading textContent includes the tool      *)
(* line; assigning it replaces every child, the tool line among them.       *)
ReadDelta ==
  /\ Reads("delta")
  /\ bubble' = bubble \o (IF line = "attached" THEN <<Label>> ELSE <<>>)
                      \o Wire[received + 1].text
  /\ line' = IF line = "attached" THEN "detached" ELSE line
  /\ UNCHANGED <<vars, conn, tools, page>>

(* Mutant: a step is listed twice. *)
ReadStepTwice ==
  /\ Reads("step")
  /\ tools' = tools \o <<Wire[received + 1].body.call.name,
                        Wire[received + 1].body.call.name>>
  /\ line' = IF line = "none" THEN "attached" ELSE line
  /\ UNCHANGED <<vars, conn, bubble, page>>

ReadStep ==
  /\ Reads("step")
  /\ tools' = Append(tools, Wire[received + 1].body.call.name)
  /\ line' = IF line = "none" THEN "attached" ELSE line
  /\ UNCHANGED <<vars, conn, bubble, page>>

(* The sources and the limit are noted below the text. *)
ReadDone ==
  /\ Reads("done")
  /\ UNCHANGED <<vars, conn, bubble, line, tools, page>>

ReadError ==
  /\ Reads("error")
  /\ page' = "error"
  /\ UNCHANGED <<vars, conn, bubble, line, tools>>

(* The stream ends: what has been shown stands as the answer. *)
ReadEnd ==
  /\ page = "waiting" /\ conn = "open"
  /\ pc \in {"replied", "failed"}
  /\ received = Len(Wire)
  /\ page' = "complete"
  /\ UNCHANGED <<vars, conn, received, bubble, line, tools>>

Page == ReadDelta \/ ReadStep \/ ReadDone \/ ReadError \/ ReadEnd

StreamNext == Serve \/ Cut \/ Cancel \/ Page

(* The server goes on with a request, and the page reads what has arrived.  *)
StreamSpec ==
  /\ StreamInit /\ [][StreamNext]_streamVars
  /\ WF_streamVars(Serve /\ pc' # "failed") /\ WF_streamVars(Page)

-----------------------------------------------------------------------------
(* A text without the tool lines that were taken into it. *)
Said(text) ==
  FlattenSeq([i \in DOMAIN text |->
                IF text[i].kind = "tools" THEN <<>> ELSE <<text[i]>>])

FramesOf(type) == OfType(Wire, type)

(* The page stays within what it can show, and never reads past the wire.   *)
PageTypeOK ==
  /\ TypeOK
  /\ conn \in {"open", "cut", "closed"}
  /\ received \in 0..Len(Wire)
  /\ bubble \in Seq(Shown)
  /\ line \in {"none", "attached", "detached"}
  /\ tools \in Seq({call.name : call \in ToolCalls})
  /\ Len(tools) <= Len(steps)
  /\ page \in {"waiting", "complete", "error"}

(* The page presents an answer as complete only when the server finished    *)
(* with one, and then shows all of the text the stream delivered, in order: *)
(* no failure, cut or half-read stream passes for an answer (frames() of    *)
(* api/app.py, the submit handler of index.html).                          *)
CompleteMeansAnswered ==
  page = "complete" =>
    /\ pc = "replied"
    /\ received = Len(Wire)
    /\ Said(bubble) = delivered

(* The step frames sent along the way and the steps listed in the done      *)
(* frame are the same, entry for entry; and neither holds what an adapter   *)
(* error says, which only the model is shown.                              *)
StepFramesAgreeWithDone ==
  \A d \in DOMAIN FramesOf("done") :
    LET listed == FramesOf("done")[d].body.steps
        sent   == FramesOf("step")
    IN  /\ Len(listed) = Len(sent)
        /\ \A i \in DOMAIN listed : /\ listed[i] = sent[i].body
                                    /\ listed[i].result # "adapter error"

(* Whatever happens, the page stops waiting. *)
PageSettles == <>(page # "waiting")

-----------------------------------------------------------------------------
(* index.html: the text appended to the bubble "is model output".  A tool   *)
(* line that stands in the bubble is taken into its text by the next delta. *)
BubbleIsModelOutput == Said(bubble) = bubble
=============================================================================
