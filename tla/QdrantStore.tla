------------------------------ MODULE QdrantStore ------------------------------
(***************************************************************************)
(* The Qdrant vector store (knowledge/store_qdrant.py), the ingestion runs  *)
(* that fill it (knowledge/ingest.py) and the requests that search it       *)
(* (knowledge/retriever.py).                                               *)
(*                                                                         *)
(* There is no private copy: runs and requests act on one collection of a   *)
(* server, one call at a time, and what a call checked may be gone when the *)
(* next one acts on it.  An action is what a caller does up to and          *)
(* including one call of the server.  The server is external: it refuses a  *)
(* call on a collection that is missing, except to delete it, refuses to    *)
(* create one that is there, and holds vectors of one width.  A call of a   *)
(* run that was killed is taken or lost; it does not arrive later.          *)
(*                                                                         *)
(* A source is one document, cut into pieces; an edit changes how many.     *)
(* Every run reads all of Sources: a point bears its source's name, so the   *)
(* pieces of a source that some runs leave out would only lie beside.       *)
(***************************************************************************)
EXTENDS Batches, Chunks

CONSTANTS
  Length,        \* Length[n]: the characters of edition n
  Size, Overlap, \* of the windows chunk_text cuts it into
  Ingesters,     \* the places a run can be started from
  Modes,         \* "rebuild" and, with --append, "append"
  MaxRuns,       \* bound: the runs started
  MaxEdition     \* bound: the edits of a source

ASSUME QdrantStoreAssumption ==
  /\ MaxEdition \in Nat
  /\ Length \in [0..MaxEdition -> Nat]
  /\ Size \in Nat \ {0}
  /\ Overlap \in 0 .. Size - 1
  /\ Modes \subseteq {"rebuild", "append"}
  /\ MaxRuns \in Nat

VARIABLES
  edition,      \* edition[s]: how often source s has been edited
  collection,   \* the collection, or Missing
  runs,         \* how many runs were started
  run,          \* run[i]: the run at ingester i
  request,      \* request[p]: the retrieval of process p
  disturbed     \* history: a collection appeared or vanished in its course

vars == <<edition, collection, runs, run, request, disturbed>>

-----------------------------------------------------------------------------
(* point_id: a piece has the same point in every run. *)
Id == Sources \X Nat

Point == [edition : Nat, embedder : Embedders]

Missing == [there |-> FALSE]

Empty(width) ==
  [there |-> TRUE, width |-> width, points |-> [id \in {} |-> id]]

Exists == collection.there

Put(points, id, point) ==
  [k \in DOMAIN points \cup {id} |-> IF k = id THEN point ELSE points[k]]

-----------------------------------------------------------------------------
Idle == [pc |-> "idle"]

(* read: the edition of each source fetched so far, the last one current.   *)
(* alone, dropped: history, whether the run has met no other, and whether   *)
(* another one deleted the collection under it.                            *)
Run ==
  [pc : {"clear", "delete", "fetch", "ensure", "create", "upsert"},
   mode : Modes, embedder : Embedders, read : Seq(0..MaxEdition), piece : Nat,
   asOf : [Sources -> Nat], alone : BOOLEAN, dropped : BOOLEAN]

Active(i) == run[i].pc # "idle"

Current(r) == Len(r.read)

Pieces(n) == PieceCount(Length[n], Size, Overlap)

(* What a reading of the sources makes of the collection. *)
PiecesOf(read) ==
  UNION {{s} \X (0..(Pieces(read[s]) - 1)) : s \in 1..Len(read)}

Init ==
  /\ edition = Unedited
  /\ collection = Missing
  /\ runs = 0
  /\ run = [i \in Ingesters |-> Idle]
  /\ request = [p \in Processes |-> Idle]
  /\ disturbed = [p \in Processes |-> FALSE]

(* Someone edits the documents of a source. *)
Edit(s) ==
  /\ edition[s] < MaxEdition
  /\ edition' = [edition EXCEPT ![s] = @ + 1]
  /\ UNCHANGED <<collection, runs, run, request, disturbed>>

Start(i) ==
  /\ ~Active(i)
  /\ runs < MaxRuns
  /\ runs' = runs + 1
  /\ \E mode \in Modes, e \in Embedders :
       run' = [j \in Ingesters |->
                 IF j = i
                   THEN [pc |-> IF mode = "rebuild" THEN "clear" ELSE "fetch",
                         mode |-> mode, embedder |-> e, read |-> <<>>, piece |-> 0,
                         asOf |-> edition, dropped |-> FALSE,
                         alone |-> \A k \in Ingesters \ {i} : ~Active(k)]
                 ELSE IF Active(j) THEN [run[j] EXCEPT !.alone = FALSE]
                 ELSE run[j]]
  /\ UNCHANGED <<edition, collection, request, disturbed>>

(* Mutant: a store of the run's own width is thought to be its own. *)
ClearOtherWidth(i) ==
  /\ run[i].pc = "clear"
  /\ run' = [run EXCEPT ![i].pc =
       IF Exists /\ collection.width # Width[run[i].embedder]
         THEN "delete" ELSE "fetch"]
  /\ UNCHANGED <<edition, collection, runs, request, disturbed>>

Clear(i) ==
  /\ run[i].pc = "clear"
  /\ run' = [run EXCEPT ![i].pc = IF Exists THEN "delete" ELSE "fetch"]
  /\ UNCHANGED <<edition, collection, runs, request, disturbed>>

Delete(i) ==
  /\ run[i].pc = "delete"
  /\ collection' = Missing
  /\ run' = [j \in Ingesters |->
               IF j = i THEN [run[i] EXCEPT !.pc = "fetch"]
               ELSE IF Active(j) /\ run[j].pc \notin {"clear", "delete"}
                 THEN [run[j] EXCEPT !.dropped = TRUE]
               ELSE run[j]]
  /\ disturbed' = [p \in Processes |-> TRUE]
  /\ UNCHANGED <<edition, runs, request>>

(* The next document is read as a whole, then cut; a run reads no more of   *)
(* it until its last piece is stored.                                      *)
Fetch(i) ==
  /\ run[i].pc = "fetch"
  /\ Current(run[i]) < SourceCount
  /\ LET now == edition[Current(run[i]) + 1]
     IN  run' = [run EXCEPT ![i].read = Append(@, now), ![i].piece = 0,
                            ![i].pc = IF Pieces(now) = 0 THEN "fetch" ELSE "ensure"]
  /\ UNCHANGED <<edition, collection, runs, request, disturbed>>

(* _ensure_collection, in add *)
Ensure(i) ==
  /\ run[i].pc = "ensure"
  /\ run' = [run EXCEPT ![i].pc = IF Exists THEN "upsert" ELSE "create"]
  /\ UNCHANGED <<edition, collection, runs, request, disturbed>>

(* Mutant: recreate_collection, which drops what is there. *)
CreateAnew(i) ==
  /\ run[i].pc = "create"
  /\ collection' = Empty(Width[run[i].embedder])
  /\ run' = [run EXCEPT ![i].pc = "upsert"]
  /\ disturbed' = [p \in Processes |-> TRUE]
  /\ UNCHANGED <<edition, runs, request>>

(* The run ends if another one has created the collection meanwhile. *)
Create(i) ==
  /\ run[i].pc = "create"
  /\ IF Exists
       THEN /\ run' = [run EXCEPT ![i] = Idle]
            /\ UNCHANGED <<collection, disturbed>>
       ELSE /\ run' = [run EXCEPT ![i].pc = "upsert"]
            /\ collection' = Empty(Width[run[i].embedder])
            /\ disturbed' = [p \in Processes |-> TRUE]
  /\ UNCHANGED <<edition, runs, request>>

(* The run ends if the collection is gone, or has another width. *)
Accepts(r) == Exists /\ collection.width = Width[r.embedder]

Stored(r) ==
  [edition |-> r.read[Current(r)], embedder |-> r.embedder]

(* Mutant: one piece too many. *)
AfterOneMore(r) ==
  [r EXCEPT !.piece = @ + 1,
            !.pc = IF r.piece < Pieces(r.read[Current(r)])
                     THEN "ensure" ELSE "fetch"]

After(r) ==
  [r EXCEPT !.piece = @ + 1,
            !.pc = IF r.piece + 1 < Pieces(r.read[Current(r)])
                     THEN "ensure" ELSE "fetch"]

Upsert(i) ==
  /\ run[i].pc = "upsert"
  /\ IF Accepts(run[i])
       THEN /\ collection' = [collection EXCEPT !.points =
                 Put(@, <<Current(run[i]), run[i].piece>>, Stored(run[i]))]
            /\ run' = [run EXCEPT ![i] = After(@)]
       ELSE /\ run' = [run EXCEPT ![i] = Idle]
            /\ UNCHANGED collection
  /\ UNCHANGED <<edition, runs, request, disturbed>>

(* save() does nothing; the command reports success. *)
Finish(i) ==
  /\ run[i].pc = "fetch"
  /\ Current(run[i]) = SourceCount
  /\ run' = [run EXCEPT ![i] = Idle]
  /\ UNCHANGED <<edition, collection, runs, request, disturbed>>

(* A source raises, the server cannot be reached, the process is killed. *)
Abort(i) ==
  /\ Active(i)
  /\ run' = [run EXCEPT ![i] = Idle]
  /\ UNCHANGED <<edition, collection, runs, request, disturbed>>

-----------------------------------------------------------------------------
(* Retriever.retrieve: __len__, then search with its own check, that of     *)
(* _check_dim and that of dim, each a call, before the query.  It ends with *)
(* "nothing", "refused" by _check_dim, "failed" by the server, or "hits".   *)
Request ==
  {Idle}
    \cup [pc : {"count", "exists", "dim", "width", "query"}, embedder : Embedders]
    \cup [pc : {"idle"}, embedder : Embedders,
          result : {"nothing", "refused", "failed", "hits"}]

(* A process restarted with other settings asks with another embedder. *)
Ask(p) ==
  /\ request[p].pc = "idle"
  /\ \E e \in Embedders :
       request' = [request EXCEPT ![p] =
         IF Exists THEN [pc |-> "count", embedder |-> e]
         ELSE [pc |-> "idle", embedder |-> e, result |-> "nothing"]]
  /\ disturbed' = [disturbed EXCEPT ![p] = FALSE]
  /\ UNCHANGED <<edition, collection, runs, run>>

Proceed(p, pc) ==
  request' = [request EXCEPT ![p].pc = pc]

Reply(p, result) ==
  request' = [request EXCEPT ![p] =
    [pc |-> "idle", embedder |-> request[p].embedder, result |-> result]]

Count(p) ==
  /\ request[p].pc = "count"
  /\ IF ~Exists THEN Reply(p, "failed")
     ELSE IF DOMAIN collection.points = {} THEN Reply(p, "nothing")
     ELSE Proceed(p, "exists")
  /\ UNCHANGED <<edition, collection, runs, run, disturbed>>

SearchExists(p) ==
  /\ request[p].pc = "exists"
  /\ IF Exists THEN Proceed(p, "dim") ELSE Reply(p, "nothing")
  /\ UNCHANGED <<edition, collection, runs, run, disturbed>>

(* Mutant: the width is taken for granted. *)
DimUnchecked(p) ==
  /\ request[p].pc = "dim"
  /\ Proceed(p, "query")
  /\ UNCHANGED <<edition, collection, runs, run, disturbed>>

(* With no collection there is no width, and _check_dim lets the query by. *)
Dim(p) ==
  /\ request[p].pc = "dim"
  /\ Proceed(p, IF Exists THEN "width" ELSE "query")
  /\ UNCHANGED <<edition, collection, runs, run, disturbed>>

CheckDim(p) ==
  /\ request[p].pc = "width"
  /\ IF ~Exists THEN Reply(p, "failed")
     ELSE IF collection.width # Width[request[p].embedder] THEN Reply(p, "refused")
     ELSE Proceed(p, "query")
  /\ UNCHANGED <<edition, collection, runs, run, disturbed>>

(* The server refuses a query of another width. *)
Query(p) ==
  /\ request[p].pc = "query"
  /\ IF ~Exists \/ collection.width # Width[request[p].embedder]
       THEN Reply(p, "failed")
     ELSE IF DOMAIN collection.points = {} THEN Reply(p, "nothing")
     ELSE Reply(p, "hits")
  /\ UNCHANGED <<edition, collection, runs, run, disturbed>>

-----------------------------------------------------------------------------
Ingest(i) ==
  \/ Start(i) \/ Clear(i) \/ Delete(i) \/ Fetch(i) \/ Ensure(i) \/ Create(i)
  \/ Upsert(i) \/ Finish(i) \/ Abort(i)

Retrieve(p) ==
  Ask(p) \/ Count(p) \/ SearchExists(p) \/ Dim(p) \/ CheckDim(p) \/ Query(p)

Next ==
  \/ \E s \in Sources : Edit(s)
  \/ \E i \in Ingesters : Ingest(i)
  \/ \E p \in Processes : Retrieve(p)

Spec == Init /\ [][Next]_vars

-----------------------------------------------------------------------------
Contents == IF Exists THEN collection.points ELSE [id \in {} |-> id]

(* The server holds pieces of editions that were there to be read, all of   *)
(* the one width; a run stays within the sources and their pieces.          *)
TypeOK ==
  /\ edition \in [Sources -> 0..MaxEdition]
  /\ Exists => collection.width \in Nat
  /\ \A id \in DOMAIN Contents :
       /\ id \in Id
       /\ Contents[id] \in Point
       /\ Contents[id].edition <= edition[id[1]]
       /\ id[2] < Pieces(Contents[id].edition)
       /\ Width[Contents[id].embedder] = collection.width
  /\ runs \in 0..MaxRuns
  /\ run \in [Ingesters -> {Idle} \cup Run]
  /\ \A i \in Ingesters : Active(i) =>
       /\ \A s \in 1..Current(run[i]) :
            s <= SourceCount /\ run[i].read[s] \in run[i].asOf[s]..edition[s]
       /\ run[i].pc \in {"ensure", "create", "upsert"} =>
            /\ Current(run[i]) > 0
            /\ run[i].piece < Pieces(run[i].read[Current(run[i])])
  /\ request \in [Processes -> Request]
  /\ disturbed \in [Processes -> BOOLEAN]

(* A rebuild that meets no other run and ends well leaves the pieces of     *)
(* every source as it read them, all by its own embedder and none older     *)
(* than the run, and nothing else: no piece of an earlier run survives,     *)
(* however that run ended, and no tail of a document that got shorter       *)
(* (ingest: "repeated runs are idempotent").                               *)
RebuildPublishesSources ==
  [][\A i \in Ingesters :
       Finish(i) /\ run[i].mode = "rebuild" /\ run[i].alone =>
         /\ DOMAIN Contents = PiecesOf(run[i].read)
         /\ \A id \in DOMAIN Contents :
              /\ Contents[id] = [edition  |-> run[i].read[id[1]],
                                 embedder |-> run[i].embedder]
              /\ run[i].asOf[id[1]] <= Contents[id].edition]_vars

(* After such a rebuild every phrase of a document is whole in a piece that  *)
(* can be retrieved, wherever it stands, unless it is longer than the overlap *)
(* of two windows and one character.                                        *)
PhrasesAreWhole ==
  [][\A i \in Ingesters :
       Finish(i) /\ run[i].mode = "rebuild" /\ run[i].alone =>
         \A s \in 1..Len(run[i].read) :
           LET length == Length[run[i].read[s]]
               stored == {id[2] : id \in {id \in DOMAIN Contents : id[1] = s}}
           IN \A first \in 0 .. length - 1 : \A last \in first .. first + Overlap :
                last < length =>
                  WholeIn(stored, first, last, length, Size, Overlap)]_vars

(* Whatever runs overlap, one that ends well has stored every piece it read *)
(* unless another one deleted the collection after it had cleared it: two   *)
(* runs that write the same points or race to create the collection lose    *)
(* nothing (point_id: "re-ingest overwrites").                             *)
NothingLostUnlessDropped ==
  [][\A i \in Ingesters :
       Finish(i) /\ ~run[i].dropped =>
         PiecesOf(run[i].read) \subseteq DOMAIN Contents]_vars

(* A retrieval during which no collection appears or vanishes ends without  *)
(* an error of the server: its four checks hold when the query acts on      *)
(* them, and a refusal by _check_dim tells the truth.                      *)
QuietRetrievalSucceeds ==
  \A p \in Processes :
    request[p] # Idle /\ request[p].pc = "idle" /\ ~disturbed[p] =>
      CASE request[p].result = "failed"  -> FALSE
        [] request[p].result = "refused" ->
             /\ DOMAIN Contents # {}
             /\ collection.width # Width[request[p].embedder]
        [] request[p].result = "hits"    ->
             /\ DOMAIN Contents # {}
             /\ collection.width = Width[request[p].embedder]
        [] OTHER -> TRUE
=============================================================================
