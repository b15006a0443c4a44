# hf-data-agent in TLA+

TLA+ models of the data agent under `src/data_agent`, model-checked with TLC
and, where a proof is within reach, proved with TLAPS. Paths below are relative
to the repository.

## The system

| Component | State it keeps | Operations | Behaviour that is hard |
|---|---|---|---|
| Tool-calling loop, `orchestrator/agent.py` | per request: `messages`, `steps`, the streamed turn `_Turn`, the events yielded | `answer`, `answer_stream`, `_execute`, `_finish` | two loops that must agree; classification of a turn from a prefix of it; failures of tools and of the model in the middle of a request |
| Tool call recognition, `orchestrator/tool_calls.py` | none | `parse_tool_call`, `_json_candidates` | balanced objects in text that is only partly JSON |
| Streaming adapters, `model/streaming.py` | none | `stream_or_whole`, SSE decoding | backends that stream and backends that do not |
| HTTP API, `api/app.py` | the lazily built `Runtime`; a request id; an event loop and a pool of threads | `/ask`, `/ask/stream`, `/tool`, `/health` | errors after the status has been sent, disconnects; tools that run on the event loop |
| Web page, `entrypoints/ui/index.html` | the pending bubble, its tool line | `submit`, `frames` | frames split over reads, a cut connection, DOM state read back |
| JSON vector store, `knowledge/store.py` | the file, its `.tmp` sibling, the chunks in memory | `load`, `add`, `clear`, `save`, `search` | crashes while saving, overlapping runs, embedders that changed |
| Ingestion, `knowledge/ingest.py`, `entrypoints/ingest.py`, `airflow/dags` | one run: the sources read so far, the store in memory | rebuild, `--append`, `chunk_text` | a source that fails after others were read; a run that is killed; runs by hand beside scheduled ones |
| Retriever and runtime, `knowledge/retriever.py`, `runtime.py` | the store loaded at start | `retrieve`, `aclose` | the snapshot outlives later publications |
| Qdrant store, `knowledge/store_qdrant.py` | a collection on a server | the same interface | every operation checks and then acts; a rebuild is visible while it runs |
| Embedders, `knowledge/embedder.py` | none | `embed` | the width is all that identifies one |
| Model backends, `model/*.py` | HTTP clients with a pool of connections; a thread and a queue per stream (transformers), read on the workers of the executor | `generate`, `generate_stream` | a producing thread that dies, workers that wait for it, cancellation at every await |
| Connectors, `knowledge/sources/*.py` | cursors, folders visited | `fetch` | paging, throttling, retries, recursion |
| SQL guard and warehouse, `datasources/*.py` | the engine's pool of connections | `guard_select`, `enforce_row_limit`, `query`, `to_markdown` | connections on every way out; two row caps and a LIMIT that may have no effect |
| Tools, `mcp/tools.py`; authentication and bind policy, `api/security.py`, `entrypoints/run_api.py` | none of their own; they work on what the API holds | `call_tool`, `require_token`, `require_safe_binding` | whose mistake a failure was; who gets through, decided at two places |
| MCP servers, `mcp/server.py`, `mcp/auth.py`; Slack, `entrypoints/slack_app.py`; logging and settings | none that changes | one call per request | little |

How they interact: offline, a run of the ingestion reads the connectors, cuts
and embeds their documents and publishes a store. Online, a process (API, MCP
server, Slack bot) loads that store once; each request retrieves from it, goes
through the tool-calling loop, which awaits the model and calls tools, and ends
as a reply, or as a stream of events that the API frames and the page reads.
Requests share only what they do not change; offline and online share the file.

What makes each part correct is in the properties below. The hazards they are
for, each at its line, are in `PROJECT.json`.

## Modules

| Module | Models |
|---|---|
| `ModelText` | the text of a model turn as a sequence of tokens; what `parse_tool_call` and `_Turn` tell texts apart by |
| `ToolLoop` | abstract: a bounded loop of tool calls that ends in one reply or fails |
| `Orchestrator` | one request through `answer` or `answer_stream`; implements `ToolLoop` |
| `AskStream` | `Orchestrator` composed with the frames of `/ask/stream` and the page |
| `Batches` | what a store contains: one batch per reading of a source |
| `KnowledgeBase` | abstract: atomic publications, snapshots served |
| `JsonStore` | sources, ingestion runs, the two file names, serving processes; implements `KnowledgeBase` |
| `QdrantStore` | the same runs and a searching process against a collection on a server, call by call |
| `GoogleDocs` | the walk over the folders of a Drive, interleaved with reading their documents |
| `PagedSources` | the walks over Notion databases and Slack channels, over `request_json` |
| `Chunks` | the windows `chunk_text` cuts a text into; used by `QdrantStore` |
| `ModelBackends` | `generate` and `generate_stream` of the backends: thread, queue and workers, or response and connections |
| `Warehouse` | what the SQL guard decides, what a query returns, what its table says; used by `ToolApi` |
| `ToolApi` | the API process: start, routes, tools, threads, event loop, connections, end |
| `ToolCallScan` | `_json_candidates` character by character, against a grammar |
| `OrchestratorProofs` (with those of `AskStream` and `ToolCallScan`), `JsonStoreProofs`, `QdrantStoreProofs` (with those of `Chunks`), `GoogleDocsProofs`, `PagedSourcesProofs`, `ModelBackendsProofs`, `ToolApiProofs` | the theorems |
| `FlatteningProofs` | lemmas: induction over numbers and sequences; what `FlattenSeq` makes of a sequence that grows, is consumed or is put together from parts without repetitions; prefixes |
| `MCOrchestrator`, `MCAskStream`, `MCJsonStore`, `MCQdrantStore`, `MCGoogleDocs`, `MCPagedSources`, `MCModelBackends`, `MCToolApi`, `MCToolCallScan` | constants for TLC |

### State and actions against the code

**Orchestrator.** `messages`, `steps` and `turn` are the local variables of the
same name; `events` is what the generator has yielded; `reply` is the value of
`_finish`. `delivered` and `preambles` are history variables: the joined text of
the `DeltaEvent`s, and the part of it that belongs to turns which then ran a
tool. An action is what the coroutine does from one await to the next, so that
`StreamTool` is the end of the chunk loop, `parse_tool_call`, `_execute`, the
`StepEvent`, both `messages.append` and the test of the loop that follows.
`Raise` is an exception of the retriever or the model. The tokens of a text are
chosen so that everything `_Turn.add` and `parse_tool_call` distinguish can
happen, in any chunks: leading white space, a fence that arrives in two pieces,
inline code that is not a fence, prose ahead of a call, JSON that is no call.
Token kinds stand for what the scanner does to balanced text; what it does to
stray braces and quotes is in `ToolCallScan`.

**AskStream.** `Wire` is `frames()` of `api/app.py`, derived from the events
and the way the request ended. `received`, `bubble`, `line` and `page` are the
state of `submit()`: the frames consumed, the text content of the pending
bubble, the tool line inside it, and what the user is shown to have happened.
`Cut` is a lost connection; `Cancel` is Starlette cancelling the generator.

**JsonStore.** `files` are inodes, `path` and `tmp` the two names, so that
`os.replace` moves whatever the temporary name leads to by then. A dump is
written in two parts; a file that is not two parts of one dump cannot be loaded.
`run[i]` is the local state of one `ingest()`: `Start` is `build_sources`, which
lets the arguments select any of the sources (`sources`), `build_store` and
`clear`, `Fetch` one source read, embedded and added, `Open`/`WriteHead`/
`WriteTail`/`Replace` are `save()`, and `Abort` is any exception, a full disk or
a kill, at every point. A source that raises is an `Abort` in `fetch`: `ingest`
and `main` catch nothing, and the store in memory goes with the process.
`serving[p]` is the retriever of a process. Contents
are batches: one per source and reading, with the source's edition and the
embedder. An edition 0 has no document, so that stores without a chunk occur.

**QdrantStore.** `collection` is the server's; an action is one call of it, or
the reading and embedding of one source, so that every check is separated from
the act that relies on it: the server may have been changed by another run in
between. `run[i]` is a run of the ingestion, `request[p]` one search of a
process. `alone`, `dropped` and `disturbed` are history: whether a run met no
other, whether another deleted the collection under it, and whether a collection
appeared or vanished in the course of a search. A point is named
by its document and position, so that a later run overwrites it; how many
positions a document has is what `Chunks` says of its length. Every run reads all sources: what a run that
leaves some out does to the points of the others is nothing, or, in a rebuild,
to drop them with the rest. The collection
is visible while it is rebuilt; `KnowledgeBase` does not hold of it, and what is
left of its promises is stated in this module.

**GoogleDocs.** `parent`, `children`, `pending` and `seen` are the state of the
generator `_folders`, `folder` and `docs` that of `_documents_in`; `pc` says which
of the two is running. `ListDocuments` and `ListFolders` receive one page,
`Export` and `TakeFolder` consume one entry. `below` is how folders lie below
each other, any way; `home` is where the documents are, and `Move` changes it at
any time. `reads` counts what `fetch` yielded, `moved` is a history variable.

**PagedSources.** The generators of `notion.py` and `slack.py` call each other
in the middle of a page, so their state is a `stack` of listings, each with what
is left of its last answer. A request ends as `Answered`, `Throttled` or
`Refused`; the rest consumes entries. An answer fixes what it says of its
entries, `Write` goes on beside it: whether a message has a thread can be stale
when it is used. `original` is a history variable, what was there at the start.

**ModelBackends.** `consumer[r]` is the coroutine of one call, `producer[r]` the
thread of `generate_stream`, or the server behind a response; `queue[r]` is the
streamer's queue, or what has arrived on the connection. `asyncio.to_thread`
and the pool of httpx are alike in that they hand out a limited number of places
in order: `line` are the jobs that wait for one, `busy` those that have one.
`ReadQueue` is one `next(iterator)` on a worker, `ReadLine` one line of
`iter_chat_stream`; `Resume` is the caller coming back for more. `Die` is an
exception in the thread, which then puts no end into the queue; `Cancel` can hit
every await, that of `thread.join` in the `finally` included, and withdraws a job
only as long as no worker has begun it. `produced` is history.

**ToolApi** and **Warehouse.** `stage[r]` is how far a request is. Routes and
dependencies that are plain functions take a thread of the pool, so `Authorise`,
`Health` and `ToolRoute` need one that is free; `Think` is the end of an await
of a question, and a tool it asks for has `loop`, the event loop, until it is
over: every action of a coroutine waits for that. `Connect` and `Fetch` are the
two ends of the `with` block of `WarehouseSource.query`. An argument is of the
right type or not, and then false to Python or not, since each tool treats that
in its own way. A host is a loopback address, routable or empty: `IsLoopback` is
what the code takes for a loopback, `Receive` what can then be reached, and they
differ on the empty one. `Warehouse` is operators
only: what the guard lets pass, how many rows come back and what the table tells
of them; a statement is what the guard tells statements apart by.

**ToolCallScan.** The four locals of the scanner and its position are the
variables, a character is a step (`ScanInit`, `ScanNext`). What the objects of a
text are is defined apart from it, by a grammar: where a literal and an object
end (`LiteralEnd`, `ObjectEnd`) and which objects follow a place (`ObjectsFrom`),
as recursive functions of the place.

## Runs

| Run | Shows |
|---|---|
| `orchestrator` | both entries, tools off, a budget of no call or of two, every outcome of a tool, a failure at every await |
| `orchestrator_preamble` | violation: a turn that opens in prose is streamed, its tool call included |
| `ask_stream` | the loop with the wire and the page, and a cut anywhere |
| `ask_stream_bubble` | violation: the page's tool line is merged into the answer |
| `json_store` | three runs, one at a time, a rebuild or an append of any selection of sources each, killed anywhere, and a process that serves |
| `json_store_overlap` | violation: two overlapping runs and a crash leave a half-written store for good |
| `qdrant` | two runs, overlapping or not, killed between any two calls, and a process that searches |
| `google_docs` | folders nested in any way, listings in any pages, a document moved at any time |
| `paged_sources` | deep and cyclic blocks, threads, notices; any pages, throttling, refusals, writers |
| `model_backends` | two calls of either kind, with one or two places, failing, dying or cancelled anywhere |
| `tool_api` | every binding, two requests of every route and origin, tool calls of every kind, failures behind them |
| `tool_call_scan` | every text of up to six characters of the five kinds the scanner knows |

### Properties

*Orchestrator.* `TranscriptRecordsSteps`: what the model is shown is its own
calls, each right before its own result, and the request to conclude only when
the calls are spent. `DeliveredThenAnswered`: a stream that ends in a reply
delivered the text ahead of its tool calls and then the answer, whole and once,
however it was chunked; a blank answer is never delivered, which is the
exception the property names. `EventsTellReply`: step events match the steps,
and the one done event is last. `ImplementsToolLoop`: both entries are the
bounded loop, which says when each of them reports the limit. `Terminates`.

*AskStream.* `CompleteMeansAnswered`: the page takes for an answer only a stream
that ended with one, and has all of it. `StepFramesAgreeWithDone`: the same step
is told alike in both places, neither with the text of an adapter's error.
`PageSettles`: the page does not wait for ever.

*JsonStore.* `PublishedIsWhole`, `RebuildPublishesSources` (a rebuild publishes
each source it was told to read once, by its embedder, no older than the start of
the run), `UnevenOnlyByAppend` (the first chunk's width is enough to judge a store
unless a run with `--append` added to chunks of another width, of a source that
was there or of a new one; nothing in `ingest` keeps such a run from it),
`ImplementsKnowledgeBase`.

*QdrantStore.* `QuietRetrievalSucceeds`: a search in whose course no collection
appears or vanishes ends without an error of the server, and is refused only
when the widths do differ. `RebuildPublishesSources`: a rebuild that meets no
other run leaves the pieces it read and nothing else, whatever was there before,
a collection of another width and the remains of failed runs included.
`NothingLostUnlessDropped`: a run that ends well has stored every piece it read,
unless another one deleted the collection. `PhrasesAreWhole`: after a rebuild that
met no other run, every phrase of at most one character more than the overlap is
whole in a piece that can be found.

*GoogleDocs.* `ReadsEachDocumentOnce`: a walk that ends well has yielded every
document that stayed, once if its folder can be reached, else not at all.
`Ends`, in cycles too.

*PagedSources.* `ReadsWhatWasThere`: the documents yielded are a prefix of what
a recursive definition says of the content at the start, and all of it at the
end. `NoMessageTwice`. `Ends`, with every request throttled and blocks nested in
themselves. The definition leaves out replies to a notice that someone joined:
the code skips the notice before it looks at its thread (slack.py:95), and the
replies, those shown in the channel too, are in no document.

*ModelBackends.* `AnswerIsWhole`: a caller gets a beginning of what was
generated, in order, and all of it when the call ends well, whoever else shares
the workers. Whole means all that was sent: a response that ends early ends like
one that is complete: `[DONE]` is passed over like any frame without text, and
nobody misses it. `NothingLeftBehind`: an
answered call holds no worker, no connection and no running thread, over HTTP a
failed or cancelled one neither. `RequestsEnd` and `PlacesComeBack` name what the
code lacks: a call ends, and its places come back, unless its thread died or the
readers of dead threads have every worker; those never come back, since
`TextIteratorStreamer` is made without a timeout (transformers_provider.py:65).

*ToolApi.* `OnlyWhoMayRuns`: no request reaches the model or a tool without the
token where there is one, nor from elsewhere where there is none and nobody opted
out; the start and the routes see to it together. The property excepts the empty
host, which the code takes for a loopback address and is none. `BlamesTheRightSide`: 4xx for
the caller's mistakes, 500 for failures behind the tool, 200 without either, but
for three exceptions the property names: a `TypeError` of an adapter gives 400, a
wrong type `list_dags` or the guard calls `strip` on gives 500, and
`knowledge_search` may answer a query of any type, as it does with an empty
store. `RowsAreTold`: the note under a table is there exactly when
rows are missing, whichever of the caps took them. `HeldInUseOnly`: threads,
connections and the event loop are held by the tools in progress and by nothing
else. `EveryRequestAnswered`: a request is answered, or some wait that nothing in
the code ends keeps it from that for good, and the property names which: for the
model or the database, its own, that of the question which has the event loop, or
those of all who have threads. So one statement that never ends, asked for by a
question, stops the whole process, `/health` included, and nothing less does.

*ToolCallScan.* `CandidatesAreObjects`: what is found at any time are the
outermost objects that end by then, whatever braces, quotes and backslashes are
around them, and the call is the first that is one.

### Bounds, and why they are enough

- *Turns of up to two tokens* (`MaxNewTokens = 2`). Classification depends on
  the first visible token and, for a fence, on the one that follows; two tokens
  give a blank before visible text, a fence out of two chunks, a call after
  another token. Three back quotes in three tokens need a cap of three; they are
  covered by the proofs, which hold for every cap.
- *A budget of none, or of two calls*, drawn from one that can run, one that lacks its
  argument and one of an unknown tool. The second call is the first one with an
  earlier result to confuse it with.
- *Three runs, one edit of each of two sources*, and any selection of
  the two by each run. A failed run, a run that finds its temporary file, and a
  run that finds its publication; an edit before, during and after each; a source
  the store lacks, appended under another width. Runs do not overlap here, so one
  place to start them from is enough; `json_store_overlap` has two.
- *Qdrant: two runs, two sources, one edit each.* A source is four characters in
  windows of three with an overlap of one, which makes two pieces, so that a run
  can be interrupted inside it; its edit leaves none, so that points can be stale.
  Any problem between runs is one between two of them.
- *Drive: a root that holds a folder, and a third folder; each in any other.*
  Gives trees, shared folders, cycles through the root and beside it, and a
  folder out of reach; two documents, one of which moves.
- *Notion and Slack: six and seven nodes below a root, blocks to depth 1, two
  attempts.* The blocks go one level deeper than is read; pages are of every
  size. What is written during a walk is not bounded but by the nodes.
- *Backends: two calls, one or two places, two chunks, empty ones included.* With
  one place the second call waits behind every job of the first; a dead thread
  starves it; with two both are lost to each other only through their own thread.
- *API: two requests, one thread, one connection, four rows at most, a table of
  two, caps of none, one and three rows.* One of each is where requests collide;
  the caps lie below and above the table's length, the rows on either side of each.
- *Texts of six characters* hold an object inside another, a literal with an
  escaped quote inside an object, and a stray brace or quote ahead of a call.
- No symmetry is used: liveness and refinement are checked in the same runs.
- `CHECK_DEADLOCK FALSE` throughout: a request ends, and bounded runs run out.

### Fairness

`FairSpec` of `Orchestrator` assumes weak fairness of every step but `Raise`: the
event loop resumes a coroutine, and the await of a model ends, with text or an
exception. The HTTP backends have a timeout and every backend a cap on new
tokens. That an exception ever comes is not assumed: it would end a request the
loop itself leaves stuck. The transformers backend can break the assumption: if
the thread that generates dies, its consumer waits on the queue for ever, which
`ModelBackends` shows. A chunk can be empty and changes nothing then; `WF_vars`
does not count such a stutter as a step, which rules out a backend that sends
empty chunks for ever. Nothing forces the model to stop asking for tools; the
budget does.

`StreamSpec` assumes that the server goes on with a request, again without the
help of `Raise`, and that the page reads what has arrived, separately.
Neither is fair to `Cut` or `Cancel`.

`GoogleDocs` and `PagedSources` assume weak fairness of `Fetch`: the run goes on,
and each call ends. The APIs end a listing some time: an empty page with a
cursor changes nothing in `GoogleDocs`, so that `WF_vars` excludes an endless row
of them, and a page that is not the last gets on in `PagedSources`. Movers and
writers are not assumed to do anything, or to stop.

`ModelBackends` assumes it of what runs by itself: a free place takes the next
job, a job of `generate` ends, a thread or a server produces, concludes or dies,
what is in a queue is read, the caller comes back, a join returns. Which of the
three a producer does is left open, and nothing is fair to `Cancel`, `PoolTimeout`
or a new call.

`ToolApi` assumes it of `Goes(r)`, the steps of a received request that the
process brings to an end itself: threads and the event loop run, the requests to
Airflow and Qdrant have timeouts, and so has the wait for a free connection. It
assumes nothing of `Think`, `Connect` and `Fetch`: a statement has no timeout
(warehouse.py:33, 54-57), opening a connection only that of its driver, and a
stream of the transformers backend reads its queue without one.
A model may ask for a tool or answer; that it asks at most once is a bound, and
`Terminates` of `Orchestrator` is why it may be one.

Nothing is assumed fair in `ToolCallScan`, `JsonStore` and `QdrantStore`: a run need not finish.

## Proofs

`tlapm` checks the eight modules to the last leaf. Assumptions are only those named
`...Assumption` in the modules, which TLC evaluates in every run, and the
hypotheses written in a theorem.

`OrchestratorProofs`, for every registry, configuration, text and cap:

- `TypeCorrect`. No outcome of a tool leaves `_execute` but as a result.
- `TranscriptIsRecord` and `StreamIsComplete`. The invariant is `TypeOK`,
  `Budget` (steps never exceed the rounds; a turn that may call a tool has rounds
  left, a final turn has none), `TranscriptRecordsSteps`, `Account` and
  `DeliveredThenAnswered`. `DeliveredThenAnswered` speaks of the end of the
  stream only, so it needs `Account`: at any time what was delivered is the
  preambles followed by the current turn's text if that is prose, and by nothing
  while the turn is undecided or held.
- `Implementation`: `Spec => Loop!Spec`, for every configuration. `ToolLoop` keeps
  the entry, because they differ: with tools on and a budget of zero `answer`
  reports that the limit is reached and `answer_stream` does not.
- `EventsAreTold`. `EventsTellReply` is inductive beside the types, since it
  speaks of the events told so far. `EventsInv` adds that the deltas among them
  join to `delivered`, which the page's proof needs. `OfType` is what a filter
  does, written with `FlattenSeq`; `FlatteningProofs` has what that does to a
  sequence that grows at its end.

`OrchestratorProofs` also has the theorems of `AskStream`, for the same requests,
wherever the connection is cut:

- `PageTypeCorrect`, `CompleteIsAnswered` and `StepsAgree`. The last follows from
  `EventsInv`. The second needs `PageAccount`: the bubble, without the tool lines
  taken into it, is the text of the delta frames read so far, and a page that
  shows success has read every frame and no error among them. What was read is
  then all that was delivered, and `DeliveredThenAnswered` says what that is.

and those of `ToolCallScan`, for texts of any length:

- `ScansAreTyped`, from `ScanTyped`, which adds that places found lie behind the
  one looked at.
- `CandidatesAreTheObjects`. The invariant `Agreement` is an equation: the objects
  of the text are the candidates so far, then those pending. What is pending is
  said by the grammar from where the scanner stands: outside of objects it is
  what follows there, within one it is the outermost open object and what follows
  its end. The scanner keeps a number, the grammar knows the braces that are
  open: `Nest` says that each of them goes on where the next one ends, down to
  the place looked at. Within a literal the place is the opening quote, and
  `Inside` says that no quote before the scanner may close it and that `escaped`
  is the parity of the backslashes before it. At the end of the text whatever is
  open ends nowhere (`HandedOn`), so nothing is pending. That the recursive
  functions of the grammar satisfy their definitions is proved by induction over
  places, from the end of the text (`ObjectEnds`, `ObjectsFollow`).

`JsonStoreProofs`, for any sources, embedders, processes and places, and any
number of runs and edits:

- `TypeCorrect`, with overlapping runs too.
- `AlwaysWhole`, `RebuildIsFresh`, `Implementation`, all under `Exclusive`:
  without it they are false, which is the run `json_store_overlap`. The invariant
  `IInv` adds to the types: at most one run is active; the names lead to
  different files and a run that writes does so through the temporary name; what
  a run has written so far is its own store; what it holds in memory is what it
  kept plus a reading of the sources passed, no older than its start; and nothing
  published is newer than the source or, during a run, than the run's start.
- `EvenUnlessAppended`, under `Exclusive` too, for any selection of sources. A
  store in which a search meets uneven widths holds two batches with chunks of
  different widths (`UnevenHasTwoWidths`); what a run has in memory is what it
  kept followed by a reading of its sources by its one embedder, so one of the two
  lies in what it kept: the run appends, and that chunk was published.

`QdrantStoreProofs`, for any sources, lengths, window, embedders and processes,
and any number of runs that overlap or not:

- `TypeCorrect`. The invariant `Domains` adds to the types that no source is
  older than a run that reads it, and that a run which still clears has read
  nothing.
- `NothingIsLost`, `RebuildIsExact` and `PhrasesAreStored`. The invariant `RInv`
  adds `Undropped` (what a run has stored is there unless the collection was
  deleted under it), `Solitary` (a run that met no other is the only one) and
  `Own` (a rebuild that met no other has cleared what was there and holds just
  what it stored). Phrases follow from the second with `PhraseInOnePiece`, below.
- `RetrievalSucceeds`. The invariant `QInv` says that what a search has found
  out still holds when it acts on it (`StillHolds`), as long as it was not
  disturbed, and that its refusals are right (`Answers`).

`GoogleDocsProofs`, for any folders, nesting, documents and number of moves:

- `TypeCorrect`.
- `EachDocumentOnce`. The invariant adds to the types `Explored` (a folder met is
  pending, being listed, or has all its folders met), `Listed` (the documents of a
  folder that stayed are all listed once its listing is at its end, and no others
  that stayed) and `Counted` (a document that stayed was read once if its folder
  was met and its turn has come, and not before). When the walk is done, `seen`
  is closed under `below` and holds only what
  every closed set holds: it is `Wanted`.

`PagedSourcesProofs`, for anything there is to read, however it nests (cycles
included), however its listings are cut into pages, for any bounds and writers:

- `WalksAreBounded`. The invariant `Typed` adds to the types what a listing that
  is being read knows (`Proper`): what was listed as having nothing nested had
  nothing nested at the start, and a listing that has ended leaves nothing of
  that time out. Both can fail for what is written during the walk, and that
  they cannot for what was there needs that nothing of the start lies below
  anything written since.
- `NoMessageIsTwice`. The invariant `ThreadsAreApart` says of the messages still
  ahead, on the current page, on later ones and in the channels to come, that
  each comes once and that none has a document; of the lines in documents that
  there are no two alike and that they come out of the threads of the messages
  that have one; and of a thread being read that what is still to come of it is
  not in the document in hand. This is where `ThreadsAssumption` is needed: a
  channel that is given twice in `DA_SLACK_INGEST_CHANNELS` is read twice, and nothing in
  the code prevents it. The rest of it is what Slack promises of threads.
- `WhatWasThereIsRead`. The invariant `PromiseHolds` is an equation: `Expected` is
  what was yielded, then what the document in hand will say, then what the
  messages or pages ahead promise, each without what was written since. What the
  document will say is its lines and what each listing on the stack still adds,
  the innermost first, to the depth its level leaves. Every step moves a piece
  of it from right to left; when the walk is done nothing is left but what was
  yielded. `Below`, a recursive function, is proved to be what its definition
  says level by level (`BelowIsOutline`), by induction over the depth.

`ToolApiProofs`, for any settings, tools, calls and sizes of the pools:

- `QueryTruncates`, of `Warehouse` alone: a query returns the rows up to the cap
  and is marked exactly when there are more.
- `TypeCorrect`, `OnlyWhoMay`, `RightSideBlamed`, `MissingRowsTold`,
  `HeldOnlyInUse`. One invariant has them all: the types, that a process serves
  only under a safe binding, that the pools are kept to, and for each request
  where it may be and with what: it arrived as the host allows, passed
  `require_token`, is on the route of its path, has no status before its end, and
  what it holds is what its stage says.

`ModelBackendsProofs`, for any finite set of calls, any number of places and of
chunks, in either backend:

- `BackendTypesCorrect`. `Cardinality(busy) <= capacity` is inductive only for a
  finite `busy`, which the invariant `Typed` adds. `MaxChunks` bounds what all
  calls produce together; that it bounds what each does is counted
  (`RoomForOneMore`).
- `AnswersAreWhole` and `NothingIsLeft`. The invariant `IInv` says for each call
  which jobs it has in the line and on places (`JobsFit`: at most one waits, and
  where caller and producer are determines which) and what became of its text
  (`TextFits`: while the caller listens, what it received and what is queued are
  together what was produced; the end is the last thing in a queue, put there by
  a producer that is over). Neither is inductive alone: that no worker reads for
  a caller that no longer listens, or for one that was answered, is about jobs;
  that the end is read when nothing else is left is about text. Calls meet in the
  line and the places only, so every step concerns one call (`OneMoves`), given
  that a call has one job in the line (`OneEach`).

`QdrantStoreProofs` also has the theorems of `Chunks`, for texts of any length:

- `PhraseInOnePiece`, for an overlap smaller than the window, and
  `PiecesCoverText`, for any.

Model-checked only: `Terminates`, `PageSettles`, both `Ends`, `RequestsEnd`,
`PlacesComeBack` and `EveryRequestAnswered`, since liveness under fairness is
beyond the prover. Every other property of a passing run is stated by a theorem,
under the hypotheses named above. The
violations are runs.

## Where the code differs from what is said of it

1. README.md:164: a tool call "is not streamed as text". `_Turn.add` decides by
   the first visible character, `parse_tool_call` skips prose.
2. index.html:146: what is appended "is model output". `textContent +=` also
   takes in the tool line.
3. store.py:73: a crash "cannot leave a half-store on disk". It can when two runs
   overlap; and `build_store` loads before `clear`, so no rebuild repairs it.

These three are runs. The rest is what reading the code for the models showed, for
which no run was made:

4. agent.py:243, app.py:146: the stream is the same loop with the same answer.
   With tools on and `DA_MAX_TOOL_STEPS=0`, `answer` asks the model to conclude
   and reports the limit, and `answer_stream` does neither. `ToolLoop` has it.
5. security.py:85: `is_loopback` is true "for addresses that are only reachable
   from this machine". It is true for `""`, and uvicorn binds that on every
   interface, so that without a token everybody is served. `OnlyWhoMayRuns` names
   it.
6. README.md:365: a store of another embedder is refused. The two default
   embedders have the same width, which is all that is compared.
7. app.py:244: a `TypeError` is answered as the caller's wrong arguments, one an
   adapter raises for an answer of another shape included; an argument that is no
   text is answered with 500 where something calls `strip` on it, with 400 by the
   guard when it is false, and with 200 by `knowledge_search` on an empty store.
8. transformers_provider.py:65: the queue is read without a timeout; so is a
   statement run (warehouse.py:54).
9. With `max_rows` at 0 every result reads "(no rows)"; negative caps are not
   ruled out, and not modelled.
10. README.md:240: "every response" carries `X-Request-ID`. An exception that no
   handler of `/ask` catches leaves the middleware before the header is set
   (app.py:88), and the 500 is without it.

## Not modelled, and what is left

Worth doing next, in this order: the remote MCP server's own gate (`mcp/auth.py`),
which would be `ToolApi` with another host and one more way in; `ModelBackends`
composed with `Orchestrator`, so that the starvation of the executor shows in a
question; request ids through the middleware and the access log.

Left out: the tokenising of SQL and the parsing of JSON, whose outcomes are
inputs; the Slack bot, one handler over an external framework; the MCP library;
the filesystem source, the Spark and metadata stubs and the mock backend, which
keep no state; the validation of settings and request bodies; logging; the
arithmetic of embeddings, of ranking and of the evaluation. What a file system
keeps across a power loss is outside the code.
