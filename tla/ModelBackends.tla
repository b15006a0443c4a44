--------------------------- MODULE ModelBackends ---------------------------
(***************************************************************************)
(* How an answer leaves a model: model/*_provider.py, openai_compatible.py, *)
(* hf_inference.py, and the decoding they share, streaming.py.              *)
(*                                                                         *)
(* The transformers backend generates in a thread of its own and fetches    *)
(* the text through a queue, one blocking read at a time, each on a worker  *)
(* of the event loop's executor.  The HTTP backends read the lines of a     *)
(* response over a connection of a pool.  Workers and connections are both  *)
(* limited and given out in the order they were asked for: places, here.    *)
(***************************************************************************)
EXTENDS Naturals, Sequences, FiniteSets, SequencesExt

CONSTANTS
  Requests,    \* the calls of generate and generate_stream
  Capacities,  \* how many workers, or connections, there may be
  MaxChunks    \* bound: the pieces of text, empty ones included, in all

ASSUME ModelBackendsAssumption ==
  /\ IsFiniteSet(Requests)
  /\ Capacities \subseteq Nat
  /\ MaxChunks \in Nat \ {0}

VARIABLES
  backend,     \* DA_MODEL_BACKEND: "transformers" or "http"
  capacity,    \* the number of places
  consumer,    \* consumer[r]: the coroutine that wants the text
  producer,    \* producer[r]: the thread, or the server, that generates it
  queue,       \* queue[r]: what was produced and not read yet
  received,    \* received[r]: the chunks yielded to the caller
  line,        \* the jobs that wait for a place
  busy,        \* the jobs that have one
  produced     \* history: produced[r], the texts put into queue[r] so far

vars == <<backend, capacity, consumer, producer, queue, received, line, busy,
          produced>>

Ended == {"answered", "failed", "cancelled"}
Kinds == {"generate", "next", "join", "stream"}

(* The pieces of a stream: a chunk of text; a chunk without (transformers)   *)
(* or a line without (a keep-alive, a malformed frame); the end; a lost      *)
(* connection.  Words are numbered in the order they were generated.         *)
Piece(kind, words) == [kind |-> kind, words |-> words]
Pieces ==
  {Piece("text", <<n>>) : n \in 1 .. MaxChunks}
    \cup {Piece(kind, <<>>) : kind \in {"text", "stop", "broken"}}

TypeOK ==
  /\ backend \in {"transformers", "http"}
  /\ capacity \in Capacities
  /\ consumer \in [Requests -> {"idle", "waiting", "yielded", "closing",
                                "unwinding"} \cup Ended]
  /\ producer \in [Requests -> {"none", "running", "finishing", "ended", "died"}]
  /\ queue \in [Requests -> Seq(Pieces)]
  /\ received \in [Requests -> Seq(1 .. MaxChunks)]
  /\ produced \in [Requests -> Seq(Seq(1 .. MaxChunks))]
  /\ \A r \in Requests : Len(produced[r]) <= MaxChunks
  /\ line \in Seq([of : Requests, kind : Kinds])
  /\ busy \subseteq [of : Requests, kind : Kinds]
  /\ Cardinality(busy) <= capacity

Init ==
  /\ backend \in {"transformers", "http"}
  /\ capacity \in Capacities
  /\ consumer = [r \in Requests |-> "idle"]
  /\ producer = [r \in Requests |-> "none"]
  /\ queue = [r \in Requests |-> <<>>]
  /\ received = [r \in Requests |-> <<>>]
  /\ line = <<>>
  /\ busy = {}
  /\ produced = [r \in Requests |-> <<>>]

Job(r, kind) == [of |-> r, kind |-> kind]
Becomes(r, state) == consumer' = [consumer EXCEPT ![r] = state]

-----------------------------------------------------------------------------
(* Places. *)

Submit(r, kind) == line' = Append(line, Job(r, kind))

(* The line without r, which has at most one job in it.                     *)
LineWithout(r) == RemoveFirstMatch(line, LAMBDA job : job.of = r)

(* The future of a job that has not begun is cancelled with it.             *)
Withdraw(r) == line' = LineWithout(r)

(* Mutant: one place too many. *)
FreeOffByOne == Cardinality(busy) <= capacity

Free == Cardinality(busy) < capacity

(* A free place takes the job that waited longest; a stream's response       *)
(* begins to arrive, or its status is an error (raise_for_status).           *)
Begin ==
  /\ line # <<>>
  /\ Free
  /\ LET job == Head(line) IN
       /\ line' = Tail(line)
       /\ \/ /\ busy' = busy \cup {job}
             /\ producer' = IF job.kind = "stream"
                            THEN [producer EXCEPT ![job.of] = "running"]
                            ELSE producer
             /\ UNCHANGED consumer
          \/ /\ job.kind = "stream"
             /\ Becomes(job.of, "failed")
             /\ UNCHANGED <<busy, producer>>
  /\ UNCHANGED <<backend, capacity, queue, received, produced>>

(* httpx gives up on the pool after the client's timeout of 120 seconds.     *)
PoolTimeout(r) ==
  /\ backend = "http"
  /\ \E i \in DOMAIN line : line[i].of = r
  /\ Withdraw(r)
  /\ Becomes(r, "failed")
  /\ UNCHANGED <<backend, capacity, producer, queue, received, busy, produced>>

-----------------------------------------------------------------------------
(* generate: one job from beginning to end, in both backends.               *)

Generate(r) ==
  /\ consumer[r] = "idle"
  /\ Submit(r, "generate")
  /\ Becomes(r, "waiting")
  /\ UNCHANGED <<backend, capacity, producer, queue, received, busy, produced>>

(* The text, or an exception; nobody hears of it if the caller was cancelled. *)
Generated(r) ==
  /\ Job(r, "generate") \in busy
  /\ busy' = busy \ {Job(r, "generate")}
  /\ IF consumer[r] = "waiting"
     THEN \/ /\ produced' = [produced EXCEPT ![r] = <<<<1>>>>]
             /\ received' = [received EXCEPT ![r] = <<1>>]
             /\ Becomes(r, "answered")
          \/ Becomes(r, "failed") /\ UNCHANGED <<produced, received>>
     ELSE UNCHANGED <<consumer, produced, received>>
  /\ UNCHANGED <<backend, capacity, producer, queue, line>>

-----------------------------------------------------------------------------
(* generate_stream. *)

(* The prompt is tokenised, which may raise, and the thread started; or the  *)
(* request is sent.                                                         *)
Stream(r) ==
  /\ consumer[r] = "idle"
  /\ \/ /\ backend = "transformers"
        /\ producer' = [producer EXCEPT ![r] = "running"]
        /\ Submit(r, "next")
        /\ Becomes(r, "waiting")
     \/ /\ backend = "transformers"
        /\ Becomes(r, "failed")
        /\ UNCHANGED <<producer, line>>
     \/ /\ backend = "http"
        /\ Submit(r, "stream")
        /\ Becomes(r, "waiting")
        /\ UNCHANGED producer
  /\ UNCHANGED <<backend, capacity, queue, received, busy, produced>>

AllChunks ==
  {c \in Requests \X (1 .. MaxChunks) : c[2] <= Len(produced[c[1]])}

(* A piece of text, or one without any.                                    *)
Produce(r) ==
  /\ producer[r] = "running"
  /\ Cardinality(AllChunks) < MaxChunks
  /\ \E text \in BOOLEAN :
       LET words == IF text THEN <<Len(produced[r]) + 1>> ELSE <<>> IN
       /\ queue' = [queue EXCEPT ![r] = Append(@, Piece("text", words))]
       /\ produced' = [produced EXCEPT ![r] = Append(@, words)]
  /\ UNCHANGED <<backend, capacity, consumer, producer, received, line, busy>>

(* The streamer puts its stop signal, the thread then ends; or the response  *)
(* ends, with or without a [DONE], which decode_sse_delta skips.             *)
Conclude(r) ==
  /\ \/ /\ producer[r] = "running"
        /\ queue' = [queue EXCEPT ![r] = Append(@, Piece("stop", <<>>))]
        /\ producer' = [producer EXCEPT ![r] =
                           IF backend = "http" THEN "ended" ELSE "finishing"]
     \/ /\ producer[r] = "finishing"
        /\ producer' = [producer EXCEPT ![r] = "ended"]
        /\ UNCHANGED queue
  /\ UNCHANGED <<backend, capacity, consumer, received, line, busy, produced>>

(* The thread dies of an exception and puts nothing; the connection breaks,  *)
(* or says nothing until the timeout, and reading it will raise.             *)
Die(r) ==
  /\ producer[r] = "running"
  /\ producer' = [producer EXCEPT ![r] = "died"]
  /\ queue' = IF backend = "http" THEN [queue EXCEPT ![r] = Append(@, Piece("broken", <<>>))]
              ELSE queue
  /\ UNCHANGED <<backend, capacity, consumer, received, line, busy, produced>>

(* Mutant: `if not chunk: break`. *)
IsEndOrEmpty(piece) == piece.words = <<>>

(* What ends the loop: next(streamer, None) is None, no more lines.          *)
IsEnd(piece) == piece.kind = "stop"

(* Mutant: the loop goes on after the end. *)
AfterEndAgain(r) ==
  /\ Submit(r, "next")
  /\ UNCHANGED consumer

(* Mutant: the finally joins nothing. *)
AfterEndNoJoin(r) == Becomes(r, "answered") /\ UNCHANGED line

(* The loop is left: finally, the thread is joined on a worker.              *)
AfterEnd(r) == Becomes(r, "closing") /\ Submit(r, "join")

(* A worker has read a piece for a coroutine that still waits for it: chunks  *)
(* are yielded, empty ones passed over.  What it read for one that was       *)
(* cancelled is lost.                                                       *)
ReadQueue(r) ==
  /\ Job(r, "next") \in busy
  /\ queue[r] # <<>>
  /\ busy' = busy \ {Job(r, "next")}
  /\ queue' = [queue EXCEPT ![r] = Tail(@)]
  /\ LET piece == Head(queue[r]) IN
     \/ /\ consumer[r] # "waiting"
        /\ UNCHANGED <<consumer, line, received>>
     \/ /\ consumer[r] = "waiting" /\ IsEnd(piece)
        /\ AfterEnd(r)
        /\ UNCHANGED received
     \/ /\ consumer[r] = "waiting" /\ ~IsEnd(piece) /\ piece.words = <<>>
        /\ Submit(r, "next")
        /\ UNCHANGED <<consumer, received>>
     \/ /\ consumer[r] = "waiting" /\ ~IsEnd(piece) /\ piece.words # <<>>
        /\ received' = [received EXCEPT ![r] = @ \o piece.words]
        /\ Becomes(r, "yielded")
        /\ UNCHANGED line
  /\ UNCHANGED <<backend, capacity, producer, produced>>

(* Mutant: the response is left open when its lines end. *)
KeepConnection(r) == UNCHANGED busy

(* `async with`: the connection goes back to the pool.                      *)
Release(r) == busy' = busy \ {Job(r, "stream")}

(* iter_chat_stream reads a line: text is yielded, anything else passed      *)
(* over; at the end the response is closed, as it is on an exception.        *)
ReadLine(r) ==
  /\ Job(r, "stream") \in busy
  /\ consumer[r] = "waiting"
  /\ queue[r] # <<>>
  /\ queue' = [queue EXCEPT ![r] = Tail(@)]
  /\ LET piece == Head(queue[r]) IN
     \/ /\ IsEnd(piece)
        /\ Becomes(r, "answered") /\ Release(r)
        /\ UNCHANGED received
     \/ /\ ~IsEnd(piece) /\ piece.kind = "broken"
        /\ Becomes(r, "failed") /\ Release(r)
        /\ UNCHANGED received
     \/ /\ ~IsEnd(piece) /\ piece.kind = "text" /\ piece.words = <<>>
        /\ UNCHANGED <<consumer, busy, received>>
     \/ /\ ~IsEnd(piece) /\ piece.words # <<>>
        /\ received' = [received EXCEPT ![r] = @ \o piece.words]
        /\ Becomes(r, "yielded")
        /\ UNCHANGED busy
  /\ UNCHANGED <<backend, capacity, producer, line, produced>>

(* The caller asks for the next chunk.                                      *)
Resume(r) ==
  /\ consumer[r] = "yielded"
  /\ Becomes(r, "waiting")
  /\ IF backend = "transformers" THEN Submit(r, "next") ELSE UNCHANGED line
  /\ UNCHANGED <<backend, capacity, producer, queue, received, busy, produced>>

(* thread.join has returned: the thread is over, one way or the other.       *)
Joined(r) ==
  /\ Job(r, "join") \in busy
  /\ producer[r] \in {"ended", "died"}
  /\ busy' = busy \ {Job(r, "join")}
  /\ consumer' = IF consumer[r] = "closing" THEN [consumer EXCEPT ![r] = "answered"]
                 ELSE IF consumer[r] = "unwinding"
                 THEN [consumer EXCEPT ![r] = "cancelled"]
                 ELSE consumer
  /\ UNCHANGED <<backend, capacity, producer, queue, received, line, produced>>

-----------------------------------------------------------------------------
(* The request is cancelled at an await, or its generator abandoned at a     *)
(* yield and closed by the event loop.  A job that has begun on a worker     *)
(* goes on; a connection is closed.  A stream of transformers awaits the end *)
(* of its thread first, unless it is cancelled there too.                    *)
Cancel(r) ==
  /\ consumer[r] \in {"waiting", "yielded", "closing", "unwinding"}
  /\ IF producer[r] # "none" /\ backend = "transformers"
          /\ consumer[r] \in {"waiting", "yielded"}
     THEN /\ Becomes(r, "unwinding")
          /\ line' = Append(LineWithout(r), Job(r, "join"))
          /\ UNCHANGED busy
     ELSE /\ Becomes(r, "cancelled")
          /\ Withdraw(r)
          /\ busy' = IF backend = "http" THEN {job \in busy : job.of # r}
                     ELSE busy
  /\ UNCHANGED <<backend, capacity, producer, queue, received, produced>>

Next ==
  \/ Begin
  \/ \E r \in Requests :
       \/ PoolTimeout(r) \/ Generate(r) \/ Generated(r) \/ Stream(r)
       \/ Produce(r) \/ Conclude(r) \/ Die(r)
       \/ ReadQueue(r) \/ ReadLine(r) \/ Resume(r) \/ Joined(r) \/ Cancel(r)

(* Workers and the event loop get on; generation ends, by the cap on new     *)
(* tokens or by an exception; a connection delivers, ends or times out; the  *)
(* caller takes what it is given.  Nothing need be asked for or cancelled.   *)
Spec ==
  /\ Init
  /\ [][Next]_vars
  /\ WF_vars(Begin)
  /\ \A r \in Requests :
       /\ WF_vars(Generated(r))
       /\ WF_vars(Produce(r) \/ Conclude(r) \/ Die(r))
       /\ WF_vars(ReadQueue(r))
       /\ WF_vars(ReadLine(r))
       /\ WF_vars(Resume(r))
       /\ WF_vars(Joined(r))

-----------------------------------------------------------------------------
(* What a caller gets is a beginning of what was generated, in order, with   *)
(* nothing left out but empty chunks; a request that is answered has all of  *)
(* it.  This is the loop of generate_stream and iter_chat_stream, whatever   *)
(* other requests were cancelled or share the workers.                      *)
AnswerIsWhole ==
  \A r \in Requests :
    LET text == FlattenSeq(produced[r]) IN
    /\ IsPrefix(received[r], text)
    /\ consumer[r] = "answered" => received[r] = text

(* An answered request leaves nothing behind: no worker, no connection, no   *)
(* thread that still runs the model.  A cancelled or failed one over HTTP    *)
(* gives its connection back as well.                                       *)
NothingLeftBehind ==
  \A r \in Requests :
    (consumer[r] = "answered" \/ (backend = "http" /\ consumer[r] \in Ended)) =>
      /\ \A job \in busy : job.of # r
      /\ backend = "transformers" => producer[r] \in {"none", "ended"}

(* A reader of the queue of a dead thread waits for ever, on its worker.     *)
Lost ==
  {job \in busy : job.kind = "next" /\ producer[job.of] = "died"
                                    /\ queue[job.of] = <<>>}

(* A request ends, if not by itself then because it is starved: its own      *)
(* thread died, which generate_stream does not notice, or readers of dead    *)
(* threads have taken every worker there is.                                *)
RequestsEnd ==
  \A r \in Requests :
    consumer[r] \in {"waiting", "yielded", "closing", "unwinding"} ~>
      \/ consumer[r] \in Ended
      \/ backend = "transformers" /\ producer[r] = "died"
      \/ backend = "transformers" /\ Cardinality(Lost) = capacity

(* A place that was taken is given back, cancelled requests included, except *)
(* by the reader of a dead thread.                                          *)
PlacesComeBack ==
  \A r \in Requests :
    (\E job \in busy : job.of = r) ~> (\A job \in busy : job.of = r => job \in Lost)
=============================================================================
