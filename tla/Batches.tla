-------------------------------- MODULE Batches --------------------------------
(***************************************************************************)
(* The contents of a knowledge base, as far as ingestion and retrieval tell *)
(* them apart.  A store is a sequence of batches.  A batch is what one      *)
(* reading of one source contributes: the chunks of its documents, embedded *)
(* by one embedder.  The edition counts how often the source has been       *)
(* edited; before its first edition a source holds no document, and a batch *)
(* of it no chunk.  How a document is cut into chunks, and how the chunks   *)
(* of a query rank, is left out.                                           *)
(***************************************************************************)
EXTENDS Integers, Sequences

CONSTANTS
  SourceCount,   \* how many sources there are, in the order of build_sources
  Embedders,     \* the embedders DA_EMBEDDER_* can select
  Width,         \* Width[e]: the dimension of the vectors of e
  Processes      \* the processes that serve: API, MCP servers, Slack

ASSUME BatchesAssumption ==
  /\ SourceCount \in Nat
  /\ Width \in [Embedders -> Nat]

Sources == 1..SourceCount

Batch == [source : Sources, edition : Nat, embedder : Embedders]

Store == Seq(Batch)

Unedited == [s \in Sources |-> 0]

(* What the arguments of a run can select: some sources, in their order.    *)
Selections ==
  {list \in UNION {[1..n -> Sources] : n \in Sources} :
     \A k, m \in DOMAIN list : k < m => list[k] < list[m]}

(* The batches of a run that reads edition read[s] of each source s of list. *)
Reading(list, read, e) ==
  [k \in DOMAIN list |->
     [source |-> list[k], edition |-> read[list[k]], embedder |-> e]]

(* What can be read of each source, up to the given editions.               *)
ReadableUpTo(latest) ==
  {read \in [Sources -> UNION {0..latest[s] : s \in Sources}] :
     \A s \in Sources : read[s] <= latest[s]}

(* Nothing in the store is newer than the given editions.                   *)
NoNewerThan(read, batches) ==
  \A n \in DOMAIN batches : batches[n].edition <= read[batches[n].source]

(* A serving process: its embedder, and what its retriever searches.        *)
Process ==
  {[up |-> FALSE]} \cup [up : {TRUE}, embedder : Embedders, batches : Store]

Down == [up |-> FALSE]

Up(e, batches) == [up |-> TRUE, embedder |-> e, batches |-> batches]

(* The batches that hold a chunk.                                           *)
Chunked(batches) == {n \in DOMAIN batches : batches[n].edition > 0}
=============================================================================
