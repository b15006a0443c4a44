----------------------------- MODULE Warehouse -----------------------------
(***************************************************************************)
(* What a query of the warehouse returns and what is said about it:         *)
(* datasources/sql_guard.py, warehouse.py and QueryResult in base.py.       *)
(*                                                                         *)
(* A statement is what the guard sees of its text with comments and quoted  *)
(* runs blanked out: how many statements it holds, its first word, whether  *)
(* a forbidden verb occurs, the tables after FROM and JOIN, whether a word   *)
(* that caps rows occurs anywhere, and whether it ends in a line comment.    *)
(***************************************************************************)
EXTENDS Naturals

CONSTANT Tables   \* the tables there are

Statement ==
  [parts : Nat, head : {"none", "select", "other"}, verb : BOOLEAN,
   tables : SUBSET Tables, capped : BOOLEAN, comment : BOOLEAN]

Least(m, n) == IF m <= n THEN m ELSE n

(* Settings.allowed_tables: an empty list does not restrict.                *)
Allowed(listed) == IF listed = {} THEN Tables ELSE listed

(* guard_select raises UnsafeSQLError otherwise.                            *)
Safe(statement, listed) ==
  /\ statement.parts = 1
  /\ statement.head = "select"
  /\ ~statement.verb
  /\ statement.tables \subseteq Allowed(listed)

(* enforce_row_limit: a LIMIT is appended to a statement without a cap, and  *)
(* has no effect behind a line comment.  The rows the database then returns, *)
(* of the many that the statement as it was written asks for.               *)
RowLimit(statement, many, rows) ==
  IF statement.capped \/ statement.comment THEN many ELSE Least(many, rows)

(* Mutant: the probe asks for no spare row. *)
ProbeWithoutSpare(maxRows) == maxRows

(* One row more than is returned, so that truncation shows.                 *)
Probe(maxRows) == maxRows + 1

(* WarehouseSource.query, a statement the guard let pass.                    *)
Query(statement, many, maxRows) ==
  LET fetched == Least(RowLimit(statement, many, Probe(maxRows)),
                       Probe(maxRows))
  IN [rows |-> Least(fetched, maxRows), truncated |-> fetched > maxRows]

(* Mutant: only the source's own truncation is told. *)
MarkdownForgetsLimit(result, limit) ==
  [shown |-> Least(limit, result.rows), note |-> result.truncated]

(* QueryResult.to_markdown: the rows it shows, and whether it says that      *)
(* there are more.                                                          *)
Markdown(result, limit) ==
  IF result.rows = 0 THEN [shown |-> 0, note |-> FALSE]
  ELSE [shown |-> Least(limit, result.rows),
        note  |-> result.truncated \/ result.rows > limit]
=============================================================================
