--------------------------- MODULE ToolApiProofs ---------------------------
(***************************************************************************)
(* Proofs about Warehouse and ToolApi, for any settings, tool calls, sizes   *)
(* of the pools, and any number of requests and rows.                      *)
(***************************************************************************)
EXTENDS ToolApi, FiniteSetTheorems, TLAPS

(***************************************************************************)
(* What is said of a result.                                               *)
(***************************************************************************)

(* A query returns the rows asked for up to the cap, and is marked as        *)
(* truncated exactly when there are more, with a LIMIT of its own, with the  *)
(* appended one, and with one that is lost behind a comment.                *)
THEOREM QueryTruncates ==
  ASSUME NEW statement \in Statement, NEW many \in Nat, NEW maxRows \in Nat
  PROVE  /\ Query(statement, many, maxRows).rows = Least(many, maxRows)
         /\ Query(statement, many, maxRows).truncated <=> many > maxRows
<1> DEFINE limited == RowLimit(statement, many, Probe(maxRows))
           fetched == Least(limited, Probe(maxRows))
<1>1. limited = many \/ limited = Least(many, Probe(maxRows))
  BY DEF RowLimit
<1> HIDE DEF limited
<1>2. fetched = Least(many, maxRows + 1)
  BY <1>1 DEF Least, Probe
<1> HIDE DEF fetched
<1>3. Query(statement, many, maxRows) =
        [rows |-> Least(fetched, maxRows), truncated |-> fetched > maxRows]
  BY DEF Query, fetched, limited
<1>4. Least(fetched, maxRows) = Least(many, maxRows)
  BY <1>2 DEF Least
<1>5. fetched > maxRows <=> many > maxRows
  BY <1>2 DEF Least
<1> DEFINE more == fetched > maxRows
<1>6. more <=> many > maxRows
  BY <1>5
<1>7. Query(statement, many, maxRows) =
        [rows |-> Least(many, maxRows), truncated |-> more]
  BY <1>3, <1>4
<1> HIDE DEF more
<1>8. Query(statement, many, maxRows).truncated = more
  BY <1>7
<1>9. Query(statement, many, maxRows).rows = Least(many, maxRows)
  BY <1>7
<1> QED
  BY <1>6, <1>8, <1>9, Zenon

(* A table has a note exactly when it does not show every row there is, for  *)
(* every statement and number of rows and for every positive cap.           *)
THEOREM TableTells ==
  ASSUME NEW statement \in Statement, NEW many \in Nat, NEW maxRows \in Nat,
         NEW limit \in Nat \ {0}
  PROVE  LET table == Markdown(Query(statement, many, maxRows), limit) IN
         /\ table.shown \in Nat
         /\ table.note \in BOOLEAN
         /\ table.shown <= Least(limit, maxRows)
         /\ maxRows > 0 => (table.note <=> many > table.shown)
<1> DEFINE result == Query(statement, many, maxRows)
<1>1. /\ result.rows = Least(many, maxRows)
      /\ result.truncated <=> many > maxRows
  BY QueryTruncates
<1>2. result.truncated \in BOOLEAN
  BY DEF Query
<1> HIDE DEF result
<1> SUFFICES LET table == Markdown(result, limit) IN
         /\ table.shown \in Nat
         /\ table.note \in BOOLEAN
         /\ table.shown <= Least(limit, maxRows)
         /\ maxRows > 0 => (table.note <=> many > table.shown)
  BY DEF result
<1>3. result.rows \in Nat /\ result.rows <= maxRows /\ result.rows <= many
  BY <1>1 DEF Least
<1>4. CASE result.rows = 0
  <2>1. Markdown(result, limit) = [shown |-> 0, note |-> FALSE]
    BY <1>4 DEF Markdown
  <2> QED
    BY <1>1, <1>4, <2>1 DEF Least
<1>5. CASE result.rows # 0
  <2>1. Markdown(result, limit) =
          [shown |-> Least(limit, result.rows),
           note  |-> result.truncated \/ result.rows > limit]
    BY <1>5 DEF Markdown
  <2>2. /\ Least(limit, result.rows) \in Nat
        /\ Least(limit, result.rows) <= Least(limit, maxRows)
    BY <1>3 DEF Least
  <2>3. (many > maxRows \/ result.rows > limit) <=> many > Least(limit, result.rows)
    BY <1>1, <1>3 DEF Least
  <2>4. result.truncated \/ result.rows > limit
          <=> many > Least(limit, result.rows)
    BY <1>1, <2>3
  <2> DEFINE shown == Least(limit, result.rows)
             more == result.truncated \/ result.rows > limit
  <2>5. more \in BOOLEAN /\ (more <=> many > shown)
    BY <2>4
  <2>6. Markdown(result, limit) = [shown |-> shown, note |-> more]
    BY <2>1
  <2> HIDE DEF shown, more
  <2>7. /\ Markdown(result, limit).shown = shown
        /\ Markdown(result, limit).note = more
    BY <2>6
  <2>8. shown \in Nat /\ shown <= Least(limit, maxRows)
    BY <2>2 DEF shown
  <2> QED
    BY <2>5, <2>7, <2>8, Zenon
<1> QED
  BY <1>4, <1>5

(***************************************************************************)
(* The inductive invariant.  Per request:                                  *)
(***************************************************************************)

(* It came to a port that may be open, and from the machine to a loopback.   *)
Arrived(r) ==
  stage[r] # "absent" =>
    /\ request[r] \in Request
    /\ SafeBinding
    /\ config.host = "loopback" => request[r].local

(* Past require_token, it had the token.                                    *)
Passed(r) ==
  stage[r] \in {"admitted", "thinking", "tool", "querying"} =>
    (NeedsToken(request[r].path) /\ config.token => request[r].token)

Routed(r) ==
  /\ stage[r] = "thinking" => request[r].path = "/ask"
  /\ stage[r] \in {"tool", "querying"} =>
       request[r].path \in {"/ask", "/tool"} /\ call[r] \in Calls
  /\ stage[r] = "querying" => RunsQuery(r)

(* Nothing is said, and nothing was raised, ahead of the response.          *)
Unanswered(r) ==
  /\ stage[r] # "answered" => status[r] = 0
  /\ stage[r] \in {"absent", "received", "admitted"} => raised[r] = None
  /\ stage[r] \in {"tool", "querying"} /\ request[r].path = "/tool"
       => raised[r] = None

(* No mistake, or a query that knowledge_search may answer all the same.     *)
MayAnswer(c) == Mistaken(c) => c.tool = "knowledge_search" /\ NotText(c)

Blames(r) ==
  request[r].path = "/tool" =>
    /\ status[r] \in {400, 404} => Mistaken(call[r]) \/ raised[r] = "TypeError"
    /\ status[r] = 500 => raised[r] = "other" \/ HasNoStrip(call[r])
    /\ status[r] = 200 => raised[r] = None /\ MayAnswer(call[r])

Tells(r) ==
  /\ told[r].shown <= Least(Limit, config.maxRows)
  /\ config.maxRows > 0 => (told[r].note <=> told[r].many > told[r].shown)

Holds(r) ==
  /\ r \in pool <=> stage[r] = "querying"
  /\ r \in threads <=> (stage[r] \in {"tool", "querying"}
                        /\ request[r].path = "/tool")
  /\ loop = r <=> (stage[r] \in {"tool", "querying"}
                   /\ request[r].path = "/ask")

Local(r) ==
  Arrived(r) /\ Passed(r) /\ Routed(r) /\ Unanswered(r) /\ Blames(r)
    /\ Tells(r) /\ Holds(r)

Bounded ==
  /\ IsFiniteSet(threads) /\ Cardinality(threads) <= Threads
  /\ IsFiniteSet(pool) /\ Cardinality(pool) <= Connections

IInv ==
  /\ TypeOK
  /\ phase = "serving" => SafeBinding
  /\ \A r \in Requests : Local(r)
  /\ Bounded

(* A step of one request leaves the others as they are.                     *)
Same(q) ==
  /\ request'[q] = request[q]
  /\ stage'[q] = stage[q]
  /\ call'[q] = call[q]
  /\ told'[q] = told[q]
  /\ status'[q] = status[q]
  /\ raised'[q] = raised[q]
  /\ q \in pool' <=> q \in pool
  /\ q \in threads' <=> q \in threads
  /\ loop' = q <=> loop = q

LEMMA SameStaysLocal ==
  ASSUME NEW q \in Requests, Local(q), Same(q), config' = config
  PROVE  Local(q)'
<1>1. Arrived(q)' /\ Passed(q)'
  BY DEF Local, Same, Arrived, Passed, SafeBinding, NeedsToken
<1>2. Routed(q)' /\ Unanswered(q)'
  BY DEF Local, Same, Routed, Unanswered, RunsQuery
<1>3. Blames(q)'
  BY DEF Local, Same, Blames, Mistaken, MayAnswer, HasNoStrip, NotText
<1>4. Tells(q)' /\ Holds(q)'
  BY DEF Local, Same, Tells, Holds
<1> QED
  BY <1>1, <1>2, <1>3, <1>4 DEF Local

(* So only what a step does to its own request has to be looked at.          *)
LEMMA OneRequest ==
  ASSUME IInv, NEW r \in Requests,
         \A q \in Requests \ {r} : Same(q),
         config' = config, phase' = phase,
         TypeOK', Bounded', Local(r)'
  PROVE  IInv'
<1>1. \A q \in Requests : Local(q)'
  BY SameStaysLocal DEF IInv
<1>2. (phase = "serving" => SafeBinding)'
  BY DEF IInv, SafeBinding
<1> QED
  BY <1>1, <1>2 DEF IInv

LEMMA ConfigType ==
  ASSUME config \in Configs
  PROVE  /\ config.maxRows \in Nat
         /\ config.token \in BOOLEAN
         /\ config.host \in {"loopback", "blank", "routable"}
         /\ config.optIn \in BOOLEAN
  BY ToolApiAssumption

THEOREM InitHolds == Init => IInv
<1> SUFFICES ASSUME Init PROVE IInv
  OBVIOUS
<1> USE DEF Init
<1>1. TypeOK
  <2>1. 0 \in 0 .. Many
    BY ToolApiAssumption
  <2>2. told \in [Requests -> [shown : Nat, note : BOOLEAN, many : 0 .. Many]]
    BY <2>1 DEF Nothing
  <2>3. /\ request \in [Requests -> Request \cup {NoRequest}]
        /\ call \in [Requests -> Calls \cup {NoCall}]
    OBVIOUS
  <2> QED
    BY <2>2, <2>3 DEF TypeOK
<1>2. Bounded
  <2>1. IsFiniteSet({}) /\ Cardinality({}) = 0
    BY FS_EmptySet
  <2> QED
    BY <2>1, FS_EmptySet, ToolApiAssumption DEF Bounded
<1>3. ASSUME NEW r \in Requests PROVE Local(r)
  <2>1. Arrived(r) /\ Passed(r) /\ Routed(r) /\ Unanswered(r) /\ Blames(r)
    BY DEF Arrived, Passed, Routed, Unanswered, Blames, NoRequest
  <2>2. Tells(r)
    <3>1. told[r].shown = 0 /\ told[r].note = FALSE /\ told[r].many = 0
      BY DEF Nothing
    <3> QED
      BY <3>1, ConfigType, ToolApiAssumption DEF Tells, Least
  <2>3. Holds(r)
    BY ToolApiAssumption DEF Holds
  <2> QED
    BY <2>1, <2>2, <2>3 DEF Local
<1> QED
  BY <1>1, <1>2, <1>3 DEF IInv

(***************************************************************************)
(* The steps.                                                              *)
(***************************************************************************)

(* What a step of r changes of each function, it changes at r.              *)
LEMMA ElsewhereSame ==
  ASSUME NEW r \in Requests, TypeOK,
         \E next : stage' = [stage EXCEPT ![r] = next],
         status' = status \/ \E code : status' = [status EXCEPT ![r] = code],
         call' = call \/ \E c : call' = [call EXCEPT ![r] = c],
         told' = told \/ \E t : told' = [told EXCEPT ![r] = t],
         raised' = raised \/ \E k : raised' = [raised EXCEPT ![r] = k],
         request' = request \/ \E a : request' = [request EXCEPT ![r] = a],
         pool' \in {pool, pool \cup {r}, pool \ {r}},
         threads' \in {threads, threads \cup {r}, threads \ {r}},
         loop' = loop \/ loop' = r \/ (loop = r /\ loop' = None)
  PROVE  \A q \in Requests \ {r} : loop # q \/ loop' = loop => Same(q)
<1> TAKE q \in Requests \ {r}
<1> HAVE loop # q \/ loop' = loop
<1>1. /\ stage'[q] = stage[q] /\ status'[q] = status[q] /\ call'[q] = call[q]
      /\ told'[q] = told[q] /\ raised'[q] = raised[q]
      /\ request'[q] = request[q]
  BY DEF TypeOK
<1>2. (q \in pool' <=> q \in pool) /\ (q \in threads' <=> q \in threads)
  OBVIOUS
<1>3. loop' = q <=> loop = q
  BY ToolApiAssumption
<1> QED
  BY <1>1, <1>2, <1>3 DEF Same

(* The sets of a pool stay within its size.                                 *)
LEMMA PoolsStayBounded ==
  ASSUME Bounded, NEW r \in Requests,
         \/ threads' = threads
         \/ threads' = threads \cup {r} /\ ThreadFree
         \/ threads' = threads \ {r},
         \/ pool' = pool
         \/ pool' = pool \cup {r} /\ Cardinality(pool) < Connections
         \/ pool' = pool \ {r}
  PROVE  Bounded'
<1>1. ASSUME NEW S, NEW T, NEW n \in Nat, IsFiniteSet(S), Cardinality(S) <= n,
             \/ T = S
             \/ T = S \cup {r} /\ Cardinality(S) < n
             \/ T = S \ {r}
      PROVE  IsFiniteSet(T) /\ Cardinality(T) <= n
  <2>1. Cardinality(S) \in Nat
    BY <1>1, FS_CardinalityType
  <2>2. CASE T = S
    BY <1>1, <2>2
  <2>3. CASE T = S \cup {r} /\ Cardinality(S) < n
    <3>1. /\ IsFiniteSet(S \cup {r})
          /\ Cardinality(S \cup {r}) = Cardinality(S) \/
             Cardinality(S \cup {r}) = Cardinality(S) + 1
      BY <1>1, FS_AddElement
    <3> QED
      BY <2>1, <2>3, <3>1
  <2>4. CASE T = S \ {r}
    <3>1. /\ IsFiniteSet(S \ {r})
          /\ Cardinality(S \ {r}) = Cardinality(S) \/
             Cardinality(S \ {r}) = Cardinality(S) - 1
      BY <1>1, FS_RemoveElement
    <3> QED
      BY <1>1, <2>1, <2>4, <3>1
  <2> QED
    BY <1>1, <2>2, <2>3, <2>4
<1>2. IsFiniteSet(threads') /\ Cardinality(threads') <= Threads
  BY <1>1, ToolApiAssumption DEF Bounded, ThreadFree
<1>3. IsFiniteSet(pool') /\ Cardinality(pool') <= Connections
  BY <1>1, ToolApiAssumption DEF Bounded
<1> QED
  BY <1>2, <1>3 DEF Bounded

LEMMA ReceiveStep ==
  ASSUME IInv, NEW r \in Requests, Receive(r)
  PROVE  IInv'
<1>1. PICK q \in Request :
        /\ config.host = "loopback" => q.local
        /\ request' = [request EXCEPT ![r] = q]
  BY DEF Receive
<1>2. TypeOK
  BY DEF IInv
<1>3. TypeOK'
  BY <1>1, <1>2 DEF Receive, Enter, TypeOK
<1>4. \A p \in Requests \ {r} : Same(p)
  BY <1>1, <1>2, ElsewhereSame DEF Receive, Enter
<1>5. Bounded'
  BY PoolsStayBounded DEF IInv, Receive
<1>6. Local(r)'
  <2>1. request'[r] = q /\ stage'[r] = "received" /\ stage[r] = "absent"
    BY <1>1, <1>2 DEF Receive, Enter, TypeOK
  <2>2. Local(r) /\ SafeBinding
    BY DEF IInv, Receive
  <2>3. Arrived(r)' /\ Passed(r)' /\ Routed(r)'
    BY <1>1, <2>1, <2>2 DEF Arrived, Passed, Routed, Receive, SafeBinding
  <2>4. Unanswered(r)' /\ Blames(r)' /\ Tells(r)'
    BY <2>1, <2>2 DEF Local, Unanswered, Blames, Tells, Receive
  <2>5. Holds(r)'
    BY <2>1, <2>2 DEF Local, Holds, Receive
  <2> QED
    BY <2>3, <2>4, <2>5 DEF Local
<1> QED
  BY <1>3, <1>4, <1>5, <1>6, OneRequest DEF Receive

(* The steps on the way to the model, or past it to a response.             *)
LEMMA EarlySteps ==
  ASSUME IInv, NEW r \in Requests, Authorise(r) \/ Health(r) \/ Ask(r)
  PROVE  IInv'
<1>1. TypeOK /\ Local(r) /\ r \in Requests
  BY DEF IInv
<1>2. /\ \/ Enter(r, "admitted") /\ status' = status
         \/ Enter(r, "thinking") /\ status' = status
         \/ \E code \in {200, 400, 401} : Respond(r, code)
      /\ stage[r] \in {"received", "admitted"}
      /\ UNCHANGED <<config, phase, open, request, call, told, loop, threads,
                     pool, raised>>
  BY DEF Authorise, Health, Ask
<1>3. TypeOK'
  BY <1>1, <1>2 DEF Enter, Respond, TypeOK
<1>4. \A p \in Requests \ {r} : Same(p)
  <2>1. /\ \E next : stage' = [stage EXCEPT ![r] = next]
        /\ status' = status \/ \E code : status' = [status EXCEPT ![r] = code]
    BY <1>2 DEF Enter, Respond
  <2> QED
    BY <1>1, <1>2, <2>1, ElsewhereSame
<1>5. Bounded'
  BY <1>2, PoolsStayBounded DEF IInv
<1>6. Local(r)'
  <2>1. /\ stage'[r] \in {"admitted", "thinking", "answered"}
        /\ stage'[r] # "answered" => status' = status
        /\ status'[r] \in {0, 200, 400, 401}
        /\ request' = request
    BY <1>1, <1>2 DEF Enter, Respond, TypeOK, Local, Unanswered
  <2>2. Arrived(r)' /\ Tells(r)' /\ Holds(r)'
    BY <1>1, <1>2, <2>1 DEF Local, Arrived, Tells, Holds, SafeBinding
  <2>3. Unanswered(r)'
    BY <1>1, <1>2, <2>1 DEF Local, Unanswered
  <2>4. Routed(r)'
    BY <1>1, <1>2, <2>1 DEF Local, Routed, Authorise, Health, Ask, Respond,
                            Enter, TypeOK
  <2>5. Passed(r)'
    <3>1. CASE Authorise(r)
      BY <1>1, <1>2, <2>1, <3>1 DEF Passed, Authorise, Respond, Enter, TypeOK,
                                    NeedsToken
    <3>2. CASE Health(r) \/ Ask(r)
      BY <1>1, <1>2, <2>1, <3>2 DEF Local, Passed, Health, Ask, NeedsToken
    <3> QED
      BY <3>1, <3>2
  <2>6. Blames(r)'
    <3>1. request[r].path = "/tool" => status'[r] \in {0, 401}
      <4>1. CASE Authorise(r)
        BY <1>1, <4>1 DEF Authorise, Respond, TypeOK, Local, Unanswered
      <4>2. CASE Health(r) \/ Ask(r)
        BY <4>2 DEF Health, Ask
      <4> QED
        BY <4>1, <4>2
    <3> QED
      BY <1>2, <3>1 DEF Blames
  <2> QED
    BY <2>2, <2>3, <2>4, <2>5, <2>6 DEF Local
<1> QED
  BY <1>2, <1>3, <1>4, <1>5, <1>6, OneRequest

(* A response to a question.                                                *)
LEMMA ReplyStep ==
  ASSUME IInv, NEW r \in Requests, stage[r] = "thinking",
         NEW code \in {200, 500}, Respond(r, code),
         UNCHANGED <<config, phase, open, request, call, told, loop, threads,
                     pool, raised>>
  PROVE  IInv'
<1>1. TypeOK /\ Local(r)
  BY DEF IInv
<1>2. TypeOK'
  BY <1>1 DEF Respond, Enter, TypeOK
<1>3. \A p \in Requests \ {r} : Same(p)
  BY <1>1, ElsewhereSame DEF Respond, Enter
<1>4. Bounded'
  BY PoolsStayBounded DEF IInv
<1>5. Local(r)'
  <2>1. stage'[r] = "answered" /\ request[r].path = "/ask"
    BY <1>1 DEF Respond, Enter, TypeOK, Local, Routed
  <2>2. Arrived(r)' /\ Passed(r)' /\ Routed(r)' /\ Unanswered(r)'
    BY <1>1, <2>1 DEF Local, Arrived, Passed, Routed, Unanswered, SafeBinding
  <2>3. Blames(r)' /\ Tells(r)' /\ Holds(r)'
    BY <1>1, <2>1 DEF Local, Blames, Tells, Holds
  <2> QED
    BY <2>2, <2>3 DEF Local
<1> QED
  BY <1>2, <1>3, <1>4, <1>5, OneRequest

(* A tool is entered: by a question, which takes the event loop, or by the   *)
(* route, which takes a thread.                                             *)
LEMMA EnterTool ==
  ASSUME IInv, NEW r \in Requests, NEW c \in Calls,
         \/ stage[r] = "thinking" /\ loop = None /\ loop' = r /\ threads' = threads
         \/ /\ stage[r] = "admitted" /\ request[r].path = "/tool"
            /\ ThreadFree /\ threads' = threads \cup {r} /\ loop' = loop,
         call' = [call EXCEPT ![r] = c],
         Enter(r, "tool"),
         UNCHANGED <<config, phase, open, request, told, status, pool, raised>>
  PROVE  IInv'
<1>1. TypeOK /\ Local(r)
  BY DEF IInv
<1>2. TypeOK'
  BY <1>1 DEF Enter, TypeOK
<1>3. \A p \in Requests \ {r} : Same(p)
  <2>1. \A p \in Requests \ {r} : loop # p \/ loop' = loop
    BY ToolApiAssumption
  <2> QED
    BY <1>1, <2>1, ElsewhereSame DEF Enter
<1>4. Bounded'
  BY PoolsStayBounded DEF IInv
<1>5. Local(r)'
  <2>1. stage'[r] = "tool" /\ call'[r] = c
    BY <1>1 DEF Enter, TypeOK
  <2>2. request[r].path \in {"/ask", "/tool"}
    BY <1>1 DEF Local, Routed
  <2>3. Arrived(r)' /\ Passed(r)' /\ Routed(r)' /\ Tells(r)'
    BY <1>1, <2>1, <2>2 DEF Local, Arrived, Passed, Routed, SafeBinding, Tells
  <2>4. Unanswered(r)' /\ Blames(r)'
    BY <1>1, <2>1, <2>2 DEF Local, Unanswered, Blames, Routed
  <2>5. Holds(r)'
    <3>1. r \in threads' <=> request[r].path = "/tool"
      BY <1>1 DEF Local, Holds, Routed
    <3>2. loop' = r <=> request[r].path = "/ask"
      BY <1>1, ToolApiAssumption DEF Local, Holds, Routed
    <3> QED
      BY <1>1, <2>1, <2>2, <3>1, <3>2 DEF Local, Holds
  <2> QED
    BY <2>3, <2>4, <2>5 DEF Local
<1> QED
  BY <1>2, <1>3, <1>4, <1>5, OneRequest

(* A tool is left, with an outcome that is blamed as it should be.           *)
LEMMA LeaveTool ==
  ASSUME IInv, NEW r \in Requests, stage[r] \in {"tool", "querying"},
         NEW outcome \in {"result", "unknown", "TypeError", "other", "unsafe"},
         Outcome(r, outcome),
         UNCHANGED <<config, phase, open, request, call>>,
         pool' = pool \ {r},
         told' = told \/ \E t \in [shown : Nat, note : BOOLEAN, many : 0 .. Many] :
                           told' = [told EXCEPT ![r] = t],
         Tells(r)',
         raised' = raised \/ \E k \in {"TypeError", "other"} :
                               raised' = [raised EXCEPT ![r] = k],
         request[r].path = "/tool" =>
           /\ outcome \in {"unknown", "TypeError", "unsafe"}
                => Mistaken(call[r]) \/ raised'[r] = "TypeError"
           /\ outcome = "other"
                => raised'[r] = "other" \/ HasNoStrip(call[r])
           /\ outcome = "result" => raised'[r] = None /\ MayAnswer(call[r])
  PROVE  IInv'
<1>1. TypeOK /\ Local(r)
  BY DEF IInv
<1>2. Code(outcome) \in {200, 400, 404, 500}
  BY DEF Code
<1>3. /\ loop' = IF loop = r THEN None ELSE loop
      /\ threads' = threads \ {r}
      /\ request[r].path = "/tool" =>
           /\ status' = [status EXCEPT ![r] = Code(outcome)]
           /\ stage' = [stage EXCEPT ![r] = "answered"]
      /\ request[r].path # "/tool" =>
           /\ status' = status
           /\ stage' = [stage EXCEPT ![r] = "thinking"]
  BY DEF Outcome, Yield, Respond, Enter
<1>4. TypeOK'
  <2>1. /\ stage' \in [Requests -> {"absent", "received", "admitted", "thinking",
                                    "tool", "querying", "answered"}]
        /\ status' \in [Requests -> {0, 200, 400, 401, 404, 500}]
    <3> DEFINE code == Code(outcome)
    <3>1. code \in {200, 400, 404, 500}
      BY <1>2
    <3>2. \/ status' = status /\ stage' = [stage EXCEPT ![r] = "thinking"]
          \/ /\ status' = [status EXCEPT ![r] = code]
             /\ stage' = [stage EXCEPT ![r] = "answered"]
      BY <1>3
    <3> HIDE DEF code
    <3> DEFINE stages == {"absent", "received", "admitted", "thinking", "tool",
                          "querying", "answered"}
               codes == {0, 200, 400, 401, 404, 500}
    <3>3. stage \in [Requests -> stages] /\ status \in [Requests -> codes]
      BY <1>1 DEF TypeOK
    <3>4. "thinking" \in stages /\ "answered" \in stages /\ code \in codes
      BY <3>1
    <3> HIDE DEF stages, codes
    <3>5. stage' \in [Requests -> stages] /\ status' \in [Requests -> codes]
      BY <3>2, <3>3, <3>4
    <3> QED
      BY <3>5 DEF stages, codes
  <2>2. /\ told' \in [Requests -> [shown : Nat, note : BOOLEAN, many : 0 .. Many]]
        /\ raised' \in [Requests -> {None, "TypeError", "other"}]
    BY <1>1, SMTT(40) DEF TypeOK
  <2>3. /\ loop' \in Requests \cup {None}
        /\ threads' \subseteq Requests
        /\ pool' \subseteq Requests
    BY <1>1, <1>3 DEF TypeOK
  <2> QED
    BY <1>1, <2>1, <2>2, <2>3 DEF TypeOK
<1>5. \A p \in Requests \ {r} : Same(p)
  <2>1. /\ \E next : stage' = [stage EXCEPT ![r] = next]
        /\ status' = status \/ \E code : status' = [status EXCEPT ![r] = code]
    BY <1>3
  <2>2. /\ told' = told \/ \E t : told' = [told EXCEPT ![r] = t]
        /\ raised' = raised \/ \E k : raised' = [raised EXCEPT ![r] = k]
    OBVIOUS
  <2>3. loop' = loop \/ loop' = r \/ (loop = r /\ loop' = None)
    BY <1>3
  <2>4. \A p \in Requests \ {r} : loop # p \/ loop' = loop
    BY <1>3
  <2> QED
    BY <1>1, <1>3, <2>1, <2>2, <2>3, <2>4, ElsewhereSame
<1>6. Bounded'
  BY <1>3, PoolsStayBounded DEF IInv
<1>7. Local(r)'
  <2>1. /\ request[r].path \in {"/ask", "/tool"}
        /\ status[r] = 0
    BY <1>1 DEF Local, Routed, Unanswered
  <2>2. CASE request[r].path = "/tool"
    <3>1. stage'[r] = "answered" /\ status'[r] = Code(outcome)
      BY <1>1, <1>3, <2>2 DEF TypeOK
    <3>2. Arrived(r)' /\ Passed(r)' /\ Routed(r)' /\ Unanswered(r)'
      BY <1>1, <3>1 DEF Local, Arrived, Passed, Routed, Unanswered, SafeBinding
    <3>3. Blames(r)'
      <4>1. /\ Code(outcome) \in {400, 404} =>
                 outcome \in {"unknown", "TypeError", "unsafe"}
            /\ Code(outcome) = 500 => outcome = "other"
            /\ Code(outcome) = 200 => outcome = "result"
        BY DEF Code
      <4>2. /\ Mistaken(call[r])' <=> Mistaken(call[r])
            /\ HasNoStrip(call[r])' <=> HasNoStrip(call[r])
            /\ MayAnswer(call[r])' <=> MayAnswer(call[r])
        BY DEF Mistaken, MayAnswer, HasNoStrip, NotText
      <4> QED
        BY <2>2, <3>1, <4>1, <4>2 DEF Blames
    <3>4. Holds(r)'
      BY <1>1, <1>3, <2>2, <3>1, ToolApiAssumption DEF Local, Holds
    <3> QED
      BY <3>2, <3>3, <3>4 DEF Local
  <2>3. CASE request[r].path = "/ask"
    <3>1. stage'[r] = "thinking" /\ status' = status
      BY <1>1, <1>3, <2>3 DEF TypeOK
    <3>2. Arrived(r)' /\ Passed(r)' /\ Routed(r)' /\ Unanswered(r)'
      BY <1>1, <2>1, <2>3, <3>1
         DEF Local, Arrived, Passed, Routed, Unanswered, SafeBinding
    <3>3. Blames(r)'
      BY <2>3 DEF Blames
    <3>4. Holds(r)'
      BY <1>1, <1>3, <2>3, <3>1, ToolApiAssumption DEF Local, Holds
    <3> QED
      BY <3>2, <3>3, <3>4 DEF Local
  <2> QED
    BY <2>1, <2>2, <2>3
<1> QED
  BY <1>4, <1>5, <1>6, <1>7, OneRequest

LEMMA RejectStep ==
  ASSUME IInv, NEW r \in Requests, Reject(r)
  PROVE  IInv'
<1>1. TypeOK /\ Local(r) /\ stage[r] = "tool"
  BY DEF IInv, Reject
<1>2. PICK outcome \in {"unknown", "TypeError", "other", "unsafe"} :
        Rejected(r, outcome) /\ Outcome(r, outcome)
  BY DEF Reject
<1>3. /\ UNCHANGED <<config, phase, open, request, call, told, pool, raised>>
      /\ r \notin pool
  BY <1>1 DEF Reject, Local, Holds
<1>4. /\ outcome \in {"unknown", "TypeError", "unsafe"} => Mistaken(call[r])
      /\ outcome = "other" => HasNoStrip(call[r])
  BY <1>2 DEF Rejected, Mistaken, Unsafe
<1>5. Tells(r)' /\ pool' = pool \ {r}
  BY <1>1, <1>3 DEF Local, Tells
<1> QED
  BY <1>1, <1>2, <1>3, <1>4, <1>5, LeaveTool

(* A tool whose call was right, and whose adapter raises.                    *)
LEMMA RaiseStep ==
  ASSUME IInv, NEW r \in Requests, stage[r] \in {"tool", "querying"},
         AdapterRaises(r), pool' = pool \ {r},
         UNCHANGED <<config, phase, open, request, call, told>>
  PROVE  IInv'
<1>1. TypeOK /\ Local(r)
  BY DEF IInv
<1>2. PICK kind \in {"TypeError", "other"} :
        raised' = [raised EXCEPT ![r] = kind] /\ Outcome(r, kind)
  BY DEF AdapterRaises
<1>3. raised'[r] = kind
  BY <1>1, <1>2 DEF TypeOK
<1>4. Tells(r)'
  BY <1>1 DEF Local, Tells
<1> QED
  BY <1>2, <1>3, <1>4, LeaveTool

LEMMA RunToolStep ==
  ASSUME IInv, NEW r \in Requests, RunTool(r)
  PROVE  IInv'
<1>1. TypeOK /\ Local(r) /\ stage[r] = "tool"
  BY DEF IInv, RunTool
<1>2. /\ UNCHANGED <<config, phase, open, request, call, told, pool>>
      /\ r \notin pool
  BY <1>1 DEF RunTool, Local, Holds
<1>3. CASE AdapterRaises(r)
  BY <1>1, <1>2, <1>3, RaiseStep
<1>4. CASE Outcome(r, "result") /\ raised' = raised
  <2>1. MayAnswer(call[r])
    <3>1. CASE call[r].tool = "list_dags" /\ call[r].args = "right"
      BY <3>1 DEF MayAnswer, Mistaken
    <3>2. CASE call[r].tool = "knowledge_search" /\ call[r].args # "misnamed"
      <4>1. call[r] \in Calls
        BY <1>1 DEF Local, Routed
      <4>2. call[r].args \in {"right", "mistyped", "falsy"}
        BY <3>2, <4>1, ToolApiAssumption
      <4> QED
        BY <3>2, <4>2 DEF MayAnswer, Mistaken, NotText
    <3> QED
      BY <3>1, <3>2 DEF RunTool
  <2>2. request[r].path = "/tool" => raised'[r] = None
    BY <1>1, <1>4 DEF Local, Unanswered
  <2>3. Tells(r)' /\ pool' = pool \ {r}
    BY <1>1, <1>2 DEF Local, Tells
  <2> QED
    BY <1>1, <1>2, <1>4, <2>1, <2>2, <2>3, LeaveTool
<1> QED
  BY <1>3, <1>4 DEF RunTool

LEMMA ConnectStep ==
  ASSUME IInv, NEW r \in Requests, Connect(r)
  PROVE  IInv'
<1>1. TypeOK /\ Local(r)
  BY DEF IInv
<1>2. TypeOK'
  BY <1>1 DEF Connect, Enter, TypeOK
<1>3. \A p \in Requests \ {r} : Same(p)
  BY <1>1, ElsewhereSame DEF Connect, Enter
<1>4. Bounded'
  BY PoolsStayBounded DEF IInv, Connect
<1>5. Local(r)'
  <2>1. stage'[r] = "querying" /\ stage[r] = "tool"
    BY <1>1 DEF Connect, Enter, TypeOK
  <2>2. Arrived(r)' /\ Passed(r)' /\ Tells(r)'
    BY <1>1, <2>1 DEF Connect, Local, Arrived, Passed, Tells, SafeBinding
  <2>3. Routed(r)'
    BY <1>1, <2>1 DEF Connect, Local, Routed, RunsQuery
  <2>4. Unanswered(r)' /\ Blames(r)'
    BY <1>1, <2>1 DEF Connect, Local, Unanswered, Blames
  <2>5. Holds(r)'
    BY <1>1, <2>1 DEF Connect, Local, Holds
  <2> QED
    BY <2>2, <2>3, <2>4, <2>5 DEF Local
<1> QED
  BY <1>2, <1>3, <1>4, <1>5, OneRequest DEF Connect

LEMMA NoConnectionStep ==
  ASSUME IInv, NEW r \in Requests, NoConnection(r)
  PROVE  IInv'
<1>1. TypeOK /\ Local(r) /\ stage[r] = "tool"
  BY DEF IInv, NoConnection
<1>2. pool' = pool \ {r}
  BY <1>1 DEF NoConnection, Local, Holds
<1> QED
  BY <1>1, <1>2, RaiseStep DEF NoConnection

LEMMA FetchStep ==
  ASSUME IInv, NEW r \in Requests, Fetch(r)
  PROVE  IInv'
<1>1. TypeOK /\ Local(r) /\ stage[r] = "querying"
  BY DEF IInv, Fetch
<1>2. /\ UNCHANGED <<config, phase, open, request, call>>
      /\ pool' = pool \ {r}
  BY DEF Fetch, Disconnect
<1>3. CASE AdapterRaises(r) /\ told' = told
  BY <1>1, <1>2, <1>3, RaiseStep
<1>4. ASSUME NEW many \in 0 .. Many,
             LET table == Markdown(Query(call[r].statement, many, config.maxRows),
                                   Limit)
             IN told' = [told EXCEPT ![r] = [shown |-> table.shown,
                                             note  |-> table.note,
                                             many  |-> many]],
             Outcome(r, "result"), raised' = raised
      PROVE  IInv'
  <2> DEFINE table == Markdown(Query(call[r].statement, many, config.maxRows), Limit)
             t == [shown |-> table.shown, note |-> table.note, many |-> many]
  <2>1. call[r] \in Calls /\ RunsQuery(r)
    BY <1>1 DEF Local, Routed
  <2>2. /\ call[r].statement \in Statement
        /\ config.maxRows \in Nat
        /\ many \in Nat
        /\ Limit \in Nat \ {0}
    BY <1>1, <2>1, ConfigType, ToolApiAssumption DEF TypeOK
  <2>3. /\ table.shown \in Nat
        /\ table.note \in BOOLEAN
        /\ table.shown <= Least(Limit, config.maxRows)
        /\ config.maxRows > 0 => (table.note <=> many > table.shown)
    BY <2>2, TableTells
  <2> HIDE DEF table
  <2>4. t \in [shown : Nat, note : BOOLEAN, many : 0 .. Many]
    BY <2>3
  <2>5. told' = [told EXCEPT ![r] = t]
    BY <1>4 DEF table
  <2>6. told'[r] = t
    BY <1>1, <2>5 DEF TypeOK
  <2>7. t.shown = table.shown /\ t.note = table.note /\ t.many = many
    OBVIOUS
  <2> HIDE DEF t
  <2>8. Tells(r)'
    BY <1>2, <2>3, <2>6, <2>7 DEF Tells
  <2>9. MayAnswer(call[r])
    BY <2>1 DEF RunsQuery, MayAnswer, Mistaken
  <2>10. request[r].path = "/tool" => raised'[r] = None
    BY <1>1, <1>4 DEF Local, Unanswered
  <2> QED
    BY <1>1, <1>2, <1>4, <2>4, <2>5, <2>8, <2>9, <2>10, LeaveTool
<1> QED
  BY <1>3, <1>4 DEF Fetch

LEMMA ThinkStep ==
  ASSUME IInv, NEW r \in Requests, Think(r)
  PROVE  IInv'
<1>1. CASE \E code \in {200, 500} : Respond(r, code) /\ UNCHANGED <<call, loop>>
  BY <1>1, ReplyStep DEF Think
<1>2. CASE /\ call' \in {[call EXCEPT ![r] = c] : c \in Calls}
           /\ loop' = r
           /\ Enter(r, "tool")
           /\ UNCHANGED status
  <2>1. PICK c \in Calls : call' = [call EXCEPT ![r] = c]
    BY <1>2
  <2> QED
    BY <1>2, <2>1, EnterTool DEF Think
<1> QED
  BY <1>1, <1>2 DEF Think

LEMMA ToolRouteStep ==
  ASSUME IInv, NEW r \in Requests, ToolRoute(r)
  PROVE  IInv'
<1>1. PICK c \in Calls : call' = [call EXCEPT ![r] = c]
  BY DEF ToolRoute
<1> QED
  BY <1>1, EnterTool DEF ToolRoute

(* The start, the end, and a step of something else.                        *)
LEMMA ProcessStep ==
  ASSUME IInv, Start \/ Stop \/ UNCHANGED vars
  PROVE  IInv'
<1>1. UNCHANGED <<config, request, stage, call, told, status, loop, threads,
                  pool, raised>>
  BY DEF Start, Stop, vars, served
<1>2. \A r \in Requests : Same(r)
  BY <1>1 DEF Same
<1>3. \A r \in Requests : Local(r)'
  BY <1>1, <1>2, SameStaysLocal DEF IInv
<1>4. TypeOK'
  <2>1. phase' \in {"starting", "refused", "serving", "stopped"}
    BY DEF Start, Stop, vars, IInv, TypeOK
  <2>2. open' \subseteq {"client", "warehouse"}
    <3>1. open \subseteq {"client", "warehouse"}
      BY DEF IInv, TypeOK
    <3>2. open' = {"client", "warehouse"} \/ open' = open \/ open' = {}
      BY DEF Start, Stop, vars
    <3> QED
      BY <3>1, <3>2
  <2> QED
    BY <1>1, <2>1, <2>2 DEF IInv, TypeOK
<1>5. Bounded'
  BY <1>1 DEF IInv, Bounded
<1>6. (phase = "serving" => SafeBinding)'
  BY <1>1 DEF Start, Stop, vars, IInv, SafeBinding
<1> QED
  BY <1>3, <1>4, <1>5, <1>6 DEF IInv

(* The invariant is inductive.                                              *)
THEOREM StepHolds == IInv /\ [Next]_vars => IInv'
<1> SUFFICES ASSUME IInv, [Next]_vars PROVE IInv'
  OBVIOUS
<1>1. CASE Start \/ Stop \/ UNCHANGED vars
  BY <1>1, ProcessStep
<1>2. ASSUME NEW r \in Requests, Receive(r) PROVE IInv'
  BY <1>2, ReceiveStep
<1>3. ASSUME NEW r \in Requests, Steps(r) PROVE IInv'
  <2>1. CASE Authorise(r) \/ Health(r) \/ Ask(r)
    BY <2>1, EarlySteps
  <2>2. CASE Think(r) \/ ToolRoute(r)
    BY <2>2, ThinkStep, ToolRouteStep
  <2>3. CASE Reject(r) \/ RunTool(r)
    BY <2>3, RejectStep, RunToolStep
  <2>4. CASE Connect(r) \/ NoConnection(r) \/ Fetch(r)
    BY <2>4, ConnectStep, NoConnectionStep, FetchStep
  <2> QED
    BY <1>3, <2>1, <2>2, <2>3, <2>4 DEF Steps
<1> QED
  BY <1>1, <1>2, <1>3 DEF Next

LEMMA AlwaysHolds == Spec => []IInv
  BY InitHolds, StepHolds, PTL DEF Spec

(***************************************************************************)
(* What follows from it.                                                   *)
(***************************************************************************)

(* Every variable keeps its type.                                           *)
THEOREM TypeCorrect == Spec => []TypeOK
<1>1. IInv => TypeOK
  BY DEF IInv
<1> QED
  BY <1>1, AlwaysHolds, PTL

(* Neither the model nor a tool works for a request without the token or,    *)
(* when there is none, for one from elsewhere to a port that was opened      *)
(* neither on purpose nor by a blank host.                                   *)
THEOREM OnlyWhoMay == Spec => []OnlyWhoMayRuns
<1>1. ASSUME IInv PROVE OnlyWhoMayRuns
  <2> SUFFICES ASSUME NEW r \in Requests,
                      stage[r] \in {"thinking", "tool", "querying"}
               PROVE  IF config.token THEN request[r].token
                      ELSE \/ request[r].local
                           \/ config.optIn
                           \/ config.host = "blank"
    BY DEF OnlyWhoMayRuns, Works
  <2>1. Arrived(r) /\ Passed(r) /\ Routed(r)
    BY <1>1 DEF IInv, Local
  <2>2. CASE config.token
    BY <2>1, <2>2 DEF Passed, Routed, NeedsToken
  <2>3. CASE ~config.token
    BY <2>1, <2>3 DEF Arrived, SafeBinding, IsLoopback
  <2> QED
    BY <2>2, <2>3
<1> QED
  BY <1>1, AlwaysHolds, PTL

(* /tool answers 4xx for the caller's mistakes, 500 for failures behind the  *)
(* tool and 200 without either, but for the exceptions of the property.      *)
THEOREM RightSideBlamed == Spec => []BlamesTheRightSide
<1>1. IInv => BlamesTheRightSide
  BY DEF IInv, Local, Blames, MayAnswer, BlamesTheRightSide
<1> QED
  BY <1>1, AlwaysHolds, PTL

(* Whoever is shown a result is told whether rows of it are missing.         *)
THEOREM MissingRowsTold == Spec => []RowsAreTold
<1>1. IInv => RowsAreTold
  BY DEF IInv, Local, Tells, RowsAreTold
<1> QED
  BY <1>1, AlwaysHolds, PTL

(* Threads, connections and the event loop are with the tools that use them, *)
(* and the pools keep to their sizes.                                       *)
THEOREM HeldOnlyInUse == Spec => []HeldInUseOnly
<1>1. IInv => HeldInUseOnly
  BY DEF IInv, Local, Holds, Bounded, HeldInUseOnly
<1> QED
  BY <1>1, AlwaysHolds, PTL
=============================================================================
