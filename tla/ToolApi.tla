------------------------------ MODULE ToolApi ------------------------------
(***************************************************************************)
(* The process that serves the HTTP API: its start (entrypoints/run_api.py, *)
(* api/security.py), its routes (api/app.py), the tools behind them         *)
(* (mcp/tools.py) and its end (Runtime.aclose).                            *)
(*                                                                         *)
(* Coroutines share one event loop.  The routes and dependencies that are   *)
(* plain functions run on the threads of a pool; a tool that a question     *)
(* leads to runs on the event loop itself, and nothing else does meanwhile. *)
(* Every query takes a connection of the warehouse's pool.                  *)
(***************************************************************************)
EXTENDS Warehouse, FiniteSets

CONSTANTS
  Requests,     \* the requests a process receives
  Configs,      \* settings: token, host, optIn, tables, maxRows
  Calls,        \* tool calls: tool, args and, for the warehouse, statement
  Threads,      \* how many threads serve plain functions
  Connections,  \* how many connections the warehouse's pool holds
  Many,         \* bound: the most rows a statement asks for
  Limit         \* the rows to_markdown shows

None == "none"

ASSUME ToolApiAssumption ==
  /\ None \notin Requests
  /\ Threads \in Nat \ {0}
  /\ Connections \in Nat \ {0}
  /\ Limit \in Nat \ {0}
  /\ Many \in Nat
  /\ Configs \subseteq [token : BOOLEAN, host : {"loopback", "blank", "routable"},
                        optIn : BOOLEAN, tables : SUBSET Tables, maxRows : Nat]
  /\ Calls \subseteq [tool : {"unknown", "knowledge_search", "list_dags",
                              "warehouse_query"},
                      args : {"right", "misnamed", "mistyped", "falsy"},
                      statement : Statement]

VARIABLES
  config,   \* the settings of the process
  phase,    \* "starting", "refused", "serving" or "stopped"
  request,  \* request[r]: what r asks for
  stage,    \* stage[r]: how far it has come
  call,     \* call[r]: the tool call it makes, once it does
  told,     \* told[r]: what the result of a query says about its rows
  status,   \* status[r] of the response, 0 before
  loop,     \* the question whose tool has the event loop, or None
  threads,  \* the requests whose route has a thread
  pool,     \* the requests that hold a connection
  open,     \* what the process has to close: of {"client", "warehouse"}
  raised    \* history: what the adapter behind r's tool raised, or None

served == <<request, stage, call, told, status, loop, threads, pool, raised>>
vars == <<config, phase, open, served>>

Request ==
  {q \in [path : {"/health", "/ask", "/tool"}, token : BOOLEAN,
          local : BOOLEAN, blank : BOOLEAN] : q.blank => q.path = "/ask"}

NoRequest == [path |-> None]
NoCall == [tool |-> None]
Nothing == [shown |-> 0, note |-> FALSE, many |-> 0]

TypeOK ==
  /\ config \in Configs
  /\ phase \in {"starting", "refused", "serving", "stopped"}
  /\ request \in [Requests -> Request \cup {NoRequest}]
  /\ stage \in [Requests -> {"absent", "received", "admitted", "thinking",
                             "tool", "querying", "answered"}]
  /\ call \in [Requests -> Calls \cup {NoCall}]
  /\ told \in [Requests -> [shown : Nat, note : BOOLEAN, many : 0 .. Many]]
  /\ status \in [Requests -> {0, 200, 400, 401, 404, 500}]
  /\ loop \in Requests \cup {None}
  /\ threads \subseteq Requests
  /\ pool \subseteq Requests
  /\ open \subseteq {"client", "warehouse"}
  /\ raised \in [Requests -> {None, "TypeError", "other"}]

Init ==
  /\ config \in Configs
  /\ phase = "starting"
  /\ request = [r \in Requests |-> NoRequest]
  /\ stage = [r \in Requests |-> "absent"]
  /\ call = [r \in Requests |-> NoCall]
  /\ told = [r \in Requests |-> Nothing]
  /\ status = [r \in Requests |-> 0]
  /\ loop = None
  /\ threads = {}
  /\ pool = {}
  /\ open = {}
  /\ raised = [r \in Requests |-> None]

Enter(r, next) == stage' = [stage EXCEPT ![r] = next]

Respond(r, code) ==
  /\ status' = [status EXCEPT ![r] = code]
  /\ Enter(r, "answered")

ThreadFree == Cardinality(threads) < Threads

-----------------------------------------------------------------------------
(* The process. *)

(* is_loopback: a blank host passes for one.                                *)
IsLoopback(host) == host \in {"loopback", "blank"}

(* Mutant: a token is not asked for. *)
SafeBindingForgetsToken ==
  config.optIn \/ IsLoopback(config.host) \/ ~config.token

(* require_safe_binding, and require_safe_mcp_binding with its own host.     *)
SafeBinding == config.token \/ config.optIn \/ IsLoopback(config.host)

(* main: exit 2, or the application with its runtime.                       *)
Start ==
  /\ phase = "starting"
  /\ IF SafeBinding
     THEN phase' = "serving" /\ open' = {"client", "warehouse"}
     ELSE phase' = "refused" /\ UNCHANGED open
  /\ UNCHANGED <<config, served>>

(* uvicorn has no request left; lifespan awaits aclose, which closes the     *)
(* model's client and, unless that raises, the connection pools.             *)
Stop ==
  /\ phase = "serving"
  /\ \A r \in Requests : stage[r] \in {"absent", "answered"}
  /\ phase' = "stopped"
  /\ open' \in {{}, open}
  /\ UNCHANGED <<config, served>>

-----------------------------------------------------------------------------
(* A request until it is admitted. *)

(* A port on a loopback address can be reached from the machine only, one on *)
(* the empty host, which uvicorn binds on every interface, from elsewhere.   *)
Receive(r) ==
  /\ phase = "serving"
  /\ loop = None
  /\ stage[r] = "absent"
  /\ \E q \in Request :
       /\ config.host = "loopback" => q.local
       /\ request' = [request EXCEPT ![r] = q]
  /\ Enter(r, "received")
  /\ UNCHANGED <<config, phase, open, call, told, status, loop, threads, pool,
                 raised>>

(* Mutant: only questions need the token. *)
NeedsTokenAskOnly(path) == path = "/ask"

(* The routes that depend on require_token.                                 *)
NeedsToken(path) == path \in {"/ask", "/tool"}

(* require_token, or is_authenticated for /health, which only tells less to  *)
(* a caller without the token: on a thread for a moment, as all dependencies *)
(* that are plain functions.                                                *)
Authorise(r) ==
  /\ stage[r] = "received"
  /\ loop = None
  /\ ThreadFree
  /\ IF NeedsToken(request[r].path) /\ config.token /\ ~request[r].token
     THEN Respond(r, 401)
     ELSE Enter(r, "admitted") /\ UNCHANGED status
  /\ UNCHANGED <<config, phase, open, request, call, told, loop, threads, pool,
                 raised>>

(* health runs on a thread.                                                 *)
Health(r) ==
  /\ stage[r] = "admitted"
  /\ request[r].path = "/health"
  /\ loop = None
  /\ ThreadFree
  /\ Respond(r, 200)
  /\ UNCHANGED <<config, phase, open, request, call, told, loop, threads, pool,
                 raised>>

-----------------------------------------------------------------------------
(* Questions. *)

Ask(r) ==
  /\ stage[r] = "admitted"
  /\ request[r].path = "/ask"
  /\ loop = None
  /\ IF request[r].blank THEN Respond(r, 400)
     ELSE Enter(r, "thinking") /\ UNCHANGED status
  /\ UNCHANGED <<config, phase, open, request, call, told, loop, threads, pool,
                 raised>>

(* The model has answered, or raised, which no route handles; or it asks for *)
(* a tool, here at most once, and _execute calls it on the event loop.       *)
Think(r) ==
  /\ stage[r] = "thinking"
  /\ loop = None
  /\ \/ \E code \in {200, 500} :
          Respond(r, code) /\ UNCHANGED <<call, loop>>
     \/ /\ call[r] = NoCall
        /\ call' \in {[call EXCEPT ![r] = c] : c \in Calls}
        /\ loop' = r
        /\ Enter(r, "tool")
        /\ UNCHANGED status
  /\ UNCHANGED <<config, phase, open, request, told, threads, pool, raised>>

(* /tool runs on a thread until it responds.                                *)
ToolRoute(r) ==
  /\ stage[r] = "admitted"
  /\ request[r].path = "/tool"
  /\ loop = None
  /\ ThreadFree
  /\ threads' = threads \cup {r}
  /\ call' \in {[call EXCEPT ![r] = c] : c \in Calls}
  /\ Enter(r, "tool")
  /\ UNCHANGED <<config, phase, open, request, told, status, loop, pool, raised>>

-----------------------------------------------------------------------------
(* Tools, on a thread or on the event loop. *)

(* Mutant: the event loop is not given back. *)
YieldNoLoop(r) == UNCHANGED loop /\ threads' = threads \ {r}

(* The tool is over for its caller.                                         *)
Yield(r) ==
  /\ loop' = IF loop = r THEN None ELSE loop
  /\ threads' = threads \ {r}

(* Mutant: every exception is the server's. *)
CodeAllOurs(outcome) ==
  CASE outcome = "result"  -> 200
    [] outcome = "unknown" -> 404
    [] OTHER               -> 500

(* Mutant: wrong arguments are answered as FastAPI answers a wrong body. *)
CodeUnprocessable(outcome) == IF outcome = "TypeError" THEN 422 ELSE 500

(* The route /tool: UnsafeSQLError and TypeError, which a call with wrong    *)
(* argument names raises, are answered with 400, and the rest with 500.      *)
Code(outcome) ==
  CASE outcome = "result"                  -> 200
    [] outcome = "unknown"                 -> 404
    [] outcome \in {"unsafe", "TypeError"} -> 400
    [] outcome = "other"                   -> 500

(* What becomes of the outcome: a response of /tool, or an observation that  *)
(* the model is shown, whatever it is.                                      *)
Outcome(r, outcome) ==
  /\ Yield(r)
  /\ IF request[r].path = "/tool" THEN Respond(r, Code(outcome))
     ELSE Enter(r, "thinking") /\ UNCHANGED status

(* An argument that is no text, false to Python (null, 0, []) or not.        *)
NotText(c) == c.args \in {"mistyped", "falsy"}

(* What is no text has no strip: list_dags and the guard of the warehouse    *)
(* call it, the guard once it has refused what is false as empty.           *)
HasNoStrip(c) ==
  \/ c.tool = "list_dags" /\ NotText(c)
  \/ c.tool = "warehouse_query" /\ c.args = "mistyped"

(* The guard refuses the argument.                                          *)
Unsafe(c) ==
  /\ c.tool = "warehouse_query"
  /\ \/ c.args = "falsy"
     \/ c.args = "right" /\ ~Safe(c.statement, config.tables)

(* The outcomes of a call that reaches no adapter.                          *)
Rejected(r, outcome) ==
  \/ call[r].tool = "unknown" /\ outcome = "unknown"
  \/ call[r].tool # "unknown" /\ call[r].args = "misnamed"
                              /\ outcome = "TypeError"
  \/ HasNoStrip(call[r]) /\ outcome = "other"
  \/ Unsafe(call[r]) /\ outcome = "unsafe"

Reject(r) ==
  /\ stage[r] = "tool"
  /\ \E outcome \in {"unknown", "TypeError", "other", "unsafe"} :
       Rejected(r, outcome) /\ Outcome(r, outcome)
  /\ UNCHANGED <<config, phase, open, request, call, told, pool, raised>>

(* An adapter raises: a driver, a request to Airflow, the pool after 30      *)
(* seconds without a free connection; or a TypeError, for an answer of a     *)
(* shape it does not expect.                                                *)
AdapterRaises(r) ==
  \E kind \in {"TypeError", "other"} :
    raised' = [raised EXCEPT ![r] = kind] /\ Outcome(r, kind)

(* list_dags and knowledge_search: a result, or an exception.  An empty       *)
(* knowledge base looks at no query, and to others it is up to the embedder  *)
(* what is no text.                                                         *)
RunTool(r) ==
  /\ stage[r] = "tool"
  /\ \/ call[r].tool = "list_dags" /\ call[r].args = "right"
     \/ call[r].tool = "knowledge_search" /\ call[r].args # "misnamed"
  /\ \/ Outcome(r, "result") /\ UNCHANGED raised
     \/ AdapterRaises(r)
  /\ UNCHANGED <<config, phase, open, request, call, told, pool>>

RunsQuery(r) ==
  /\ call[r].tool = "warehouse_query"
  /\ call[r].args = "right"
  /\ Safe(call[r].statement, config.tables)

(* warehouse_query: a connection is taken from the pool.                    *)
Connect(r) ==
  /\ stage[r] = "tool"
  /\ RunsQuery(r)
  /\ Cardinality(pool) < Connections
  /\ pool' = pool \cup {r}
  /\ Enter(r, "querying")
  /\ UNCHANGED <<config, phase, open, request, call, told, status, loop,
                 threads, raised>>

NoConnection(r) ==
  /\ stage[r] = "tool"
  /\ RunsQuery(r)
  /\ Cardinality(pool) = Connections
  /\ AdapterRaises(r)
  /\ UNCHANGED <<config, phase, open, request, call, told, pool>>

(* Mutant: the connection is not closed. *)
DisconnectNot(r) == UNCHANGED pool

(* `with self._engine.connect()`.                                           *)
Disconnect(r) == pool' = pool \ {r}

(* The rows are fetched and rendered, or the database fails.                 *)
Fetch(r) ==
  /\ stage[r] = "querying"
  /\ Disconnect(r)
  /\ \/ \E many \in 0 .. Many :
          LET table == Markdown(Query(call[r].statement, many, config.maxRows),
                                Limit)
          IN /\ told' = [told EXCEPT ![r] = [shown |-> table.shown,
                                             note  |-> table.note,
                                             many  |-> many]]
             /\ Outcome(r, "result")
             /\ UNCHANGED raised
     \/ AdapterRaises(r) /\ UNCHANGED told
  /\ UNCHANGED <<config, phase, open, request, call>>

-----------------------------------------------------------------------------
Steps(r) ==
  \/ Authorise(r) \/ Health(r) \/ Ask(r) \/ Think(r) \/ ToolRoute(r)
  \/ Reject(r) \/ RunTool(r) \/ Connect(r) \/ NoConnection(r) \/ Fetch(r)

Next == Start \/ Stop \/ \E r \in Requests : Receive(r) \/ Steps(r)

(* The steps that the process itself brings to an end: Airflow, Qdrant and   *)
(* the wait for a free connection have timeouts.  An answer of a model, a    *)
(* new connection to the database and a query have none that holds for       *)
(* every backend.                                                           *)
Goes(r) ==
  \/ Authorise(r) \/ Health(r) \/ Ask(r) \/ ToolRoute(r)
  \/ Reject(r) \/ RunTool(r) \/ NoConnection(r)

(* What has been received goes on as far as it is with the process.  Nothing *)
(* need arrive, and nobody outside need answer.                             *)
Spec == Init /\ [][Next]_vars /\ \A r \in Requests : WF_vars(Goes(r))

-----------------------------------------------------------------------------
Works(r) == stage[r] \in {"thinking", "tool", "querying"}

(* What reaches the model or a tool came with the token or, if there is      *)
(* none, from the machine itself or to a port that was opened on purpose.    *)
(* The start of the process and require_token see to it together, but for a  *)
(* blank host, which is_loopback lets pass (security.py:87) and uvicorn      *)
(* binds for everyone.                                                      *)
OnlyWhoMayRuns ==
  \A r \in Requests :
    Works(r) =>
      IF config.token THEN request[r].token
      ELSE request[r].local \/ config.optIn \/ config.host = "blank"

(* The caller's mistakes in a call.                                         *)
Mistaken(c) ==
  \/ c.tool = "unknown"
  \/ c.args # "right"
  \/ c.tool = "warehouse_query" /\ ~Safe(c.statement, config.tables)

(* /tool blames the right side: 4xx for a mistake of the caller, 500 for a   *)
(* failure behind the tool, 200 when there was neither.  The code has three  *)
(* exceptions: a TypeError of an adapter is taken for wrong arguments        *)
(* (app.py:244), an argument on which list_dags or the guard calls strip in  *)
(* vain for a failure, and knowledge_search may answer any query.           *)
BlamesTheRightSide ==
  \A r \in Requests :
    request[r].path = "/tool" =>
      /\ status[r] \in {400, 404} => Mistaken(call[r]) \/ raised[r] = "TypeError"
      /\ status[r] = 500 => raised[r] = "other" \/ HasNoStrip(call[r])
      /\ status[r] = 200 =>
           /\ raised[r] = None
           /\ Mistaken(call[r]) =>
                call[r].tool = "knowledge_search" /\ NotText(call[r])

(* The note under a table is there exactly when rows of the result are not   *)
(* shown, be it by the cap of the warehouse or by the table's own, with or   *)
(* without a LIMIT; and a table is never longer than either.  With a cap of  *)
(* 0 rows every result reads "(no rows)".                                   *)
RowsAreTold ==
  \A r \in Requests :
    /\ told[r].shown <= Least(Limit, config.maxRows)
    /\ config.maxRows > 0 => (told[r].note <=> told[r].many > told[r].shown)

(* The event loop, threads and connections are held by nothing but the tool  *)
(* that uses them; a question holds no thread, and /tool not the loop.       *)
HeldInUseOnly ==
  /\ Cardinality(threads) <= Threads
  /\ Cardinality(pool) <= Connections
  /\ \A r \in Requests :
       /\ r \in pool <=> stage[r] = "querying"
       /\ r \in threads <=> (stage[r] \in {"tool", "querying"}
                             /\ request[r].path = "/tool")
       /\ loop = r <=> (stage[r] \in {"tool", "querying"}
                        /\ request[r].path = "/ask")

(* The tool of r waits for the database.                                    *)
AtDatabase(r) ==
  \/ stage[r] = "querying"
  \/ stage[r] = "tool" /\ RunsQuery(r) /\ Cardinality(pool) < Connections

(* What may keep r from its response for good: its own wait for the model or *)
(* the database, the wait of the question that has the event loop, or waits  *)
(* on every thread while r has none.                                        *)
KeptWaiting(r) ==
  \/ AtDatabase(r)
  \/ stage[r] = "thinking" /\ loop = None
  \/ loop \in Requests /\ AtDatabase(loop)
  \/ /\ stage[r] \in {"received", "admitted"}
     /\ ~ThreadFree
     /\ \A q \in threads : AtDatabase(q)

(* Every request is answered, unless a model or the database never answers   *)
(* somebody: the event loop, threads and connections all come back, and a    *)
(* full pool gives an error.  One endless query of a question is enough to   *)
(* keep everybody waiting, as it runs on the event loop (agent.py:158).      *)
EveryRequestAnswered ==
  \A r \in Requests :
    (stage[r] = "received" ~> stage[r] = "answered") \/ <>[]KeptWaiting(r)
=============================================================================
