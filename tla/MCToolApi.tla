----------------------------- MODULE MCToolApi -----------------------------
(* Two requests, one thread, one connection, and calls of every kind. *)
EXTENDS ToolApi

(* What a host and the option to do without a token decide, they decide      *)
(* where nothing earlier in SafeBinding does.                               *)
Bindings ==
  {b \in [token : BOOLEAN, host : {"loopback", "blank", "routable"},
          optIn : BOOLEAN] :
     /\ b.token => ~b.optIn /\ b.host # "blank"
     /\ b.optIn => b.host = "routable"}

(* Caps of no row, of fewer rows than a table shows, and of more.           *)
MaxRows(b) ==
  IF ~b.token THEN 3 ELSE IF b.host = "loopback" THEN 0 ELSE 1

MCConfigs ==
  {[token |-> b.token, host |-> b.host, optIn |-> b.optIn,
    tables |-> {"revenue"}, maxRows |-> MaxRows(b)] : b \in Bindings}

Select == [parts |-> 1, head |-> "select", verb |-> FALSE,
           tables |-> {"revenue"}, capped |-> FALSE, comment |-> FALSE]

Sql(statement) ==
  [tool |-> "warehouse_query", args |-> "right", statement |-> statement]

Other(tool, args) == [tool |-> tool, args |-> args, statement |-> Select]

(* Each tool with each kind of argument that it treats in its own way.       *)
MCCalls ==
  {Other("unknown", "right"),
   Other("knowledge_search", "misnamed"), Other("knowledge_search", "mistyped"),
   Other("list_dags", "right"), Other("list_dags", "falsy"),
   Other("warehouse_query", "mistyped"), Other("warehouse_query", "falsy"),
   Sql(Select), Sql([Select EXCEPT !.capped = TRUE]),
   Sql([Select EXCEPT !.tables = {"revenue", "salaries"}])}
=============================================================================
