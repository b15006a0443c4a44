------------------------------- MODULE JsonStore -------------------------------
(***************************************************************************)
(* The JSON vector store on disk (knowledge/store.py), the ingestion runs   *)
(* that rebuild it (knowledge/ingest.py, entrypoints/ingest.py) and the     *)
(* processes that hold it in memory (runtime.py, knowledge/retriever.py).   *)
(*                                                                         *)
(* Runs and processes are operating system processes; they share the store, *)
(* the temporary file save() writes through, and nothing else.  A run can   *)
(* fail at a source, fail to write, or be killed, at any step.             *)
(*                                                                         *)
(* Files are inodes, numbered as they are created; two names lead to them.  *)
(* A dump is written in two parts, so that a file can be empty, half        *)
(* written, or made of parts of two dumps; json.loads takes none of these   *)
(* (that two dumps fit together byte for byte is left out).                *)
(***************************************************************************)
EXTENDS Batches

CONSTANTS
  Ingesters,     \* the places a run can be started from
  Exclusive,     \* runs never overlap: max_active_runs=1, and none by hand
  Modes,         \* "rebuild" and, with --append, "append"
  MaxRuns,       \* bound: the runs started
  MaxEdition     \* bound: the edits of a source

ASSUME JsonStoreAssumption ==
  /\ Exclusive \in BOOLEAN
  /\ Modes \subseteq {"rebuild", "append"}
  /\ MaxRuns \in Nat

VARIABLES
  edition,   \* edition[s]: how often source s has been edited
  files,     \* files[n]: the contents of inode n
  path,      \* the inode settings.vector_store_path names, or 0
  tmp,       \* the inode its .tmp sibling names, or 0
  runs,      \* how many runs were started
  run,       \* run[i]: the run at ingester i
  serving    \* serving[p]: the Runtime of process p

vars == <<edition, files, path, tmp, runs, run, serving>>

-----------------------------------------------------------------------------
(* A file: each part is nothing yet, or a part of one dump. *)

File == [1..2 -> Seq(Store)]

Blank == <<<<>>, <<>>>>

Whole(file) == file[1] # <<>> /\ file[1] = file[2]

Loadable == path # 0 => Whole(files[path])

(* VectorStore.__init__ *)
Published == IF path = 0 THEN <<>> ELSE files[path][1][1]

-----------------------------------------------------------------------------
Idle == [pc |-> "idle"]

Run ==
  [pc : {"fetch", "head", "tail", "replace"}, mode : Modes,
   sources : Selections, embedder : Embedders, batches : Store, next : Nat, file : Nat,
   asOf : [Sources -> Nat]]

Active(i) == run[i].pc # "idle"

Init ==
  /\ edition = Unedited
  /\ files = <<>>
  /\ path = 0
  /\ tmp = 0
  /\ runs = 0
  /\ run = [i \in Ingesters |-> Idle]
  /\ serving = [p \in Processes |-> Down]

(* Someone edits the documents of a source. *)
Edit(s) ==
  /\ edition[s] < MaxEdition
  /\ edition' = [edition EXCEPT ![s] = @ + 1]
  /\ UNCHANGED <<files, path, tmp, runs, run, serving>>

(* Mutant: the sources are counted from zero. *)
FreshFromZero(mode, list, e) ==
  [pc |-> "fetch", mode |-> mode, sources |-> list, embedder |-> e,
   batches |-> IF mode = "append" THEN Published ELSE <<>>,
   next |-> 0, file |-> 0, asOf |-> edition]

(* Mutant: the store is not cleared. *)
FreshKeeping(mode, list, e) ==
  [pc |-> "fetch", mode |-> mode, sources |-> list, embedder |-> e,
   batches |-> Published, next |-> 1, file |-> 0, asOf |-> edition]

Fresh(mode, list, e) ==
  [pc |-> "fetch", mode |-> mode, sources |-> list, embedder |-> e,
   batches |-> IF mode = "append" THEN Published ELSE <<>>,
   next |-> 1, file |-> 0, asOf |-> edition]

(* The arguments select sources, at least one, and whether to append.       *)
(* build_store loads what is there before clear() drops it: a store that    *)
(* cannot be loaded ends the run, a rebuild too.                           *)
Start(i) ==
  /\ ~Active(i)
  /\ Exclusive => \A j \in Ingesters : ~Active(j)
  /\ runs < MaxRuns
  /\ runs' = runs + 1
  /\ IF Loadable
       THEN \E mode \in Modes, list \in Selections, e \in Embedders :
              run' = [run EXCEPT ![i] = Fresh(mode, list, e)]
       ELSE run' = run
  /\ UNCHANGED <<edition, files, path, tmp, serving>>

Add(r) ==
  LET s == r.sources[r.next]
  IN  [r EXCEPT !.batches = Append(@, [source |-> s, edition |-> edition[s],
                                       embedder |-> r.embedder]),
                !.next = @ + 1]

MoreToRead(i) == run[i].next <= Len(run[i].sources)

(* Mutant: a source that raises is passed over. *)
FetchSkipping(i) ==
  /\ run[i].pc = "fetch"
  /\ MoreToRead(i)
  /\ \/ run' = [run EXCEPT ![i] = Add(@)]
     \/ run' = [run EXCEPT ![i].next = @ + 1]
  /\ UNCHANGED <<edition, files, path, tmp, runs, serving>>

Fetch(i) ==
  /\ run[i].pc = "fetch"
  /\ MoreToRead(i)
  /\ run' = [run EXCEPT ![i] = Add(@)]
  /\ UNCHANGED <<edition, files, path, tmp, runs, serving>>

(* Mutant: written in place. *)
OpenInPlace(i) ==
  /\ run[i].pc = "fetch"
  /\ ~MoreToRead(i)
  /\ IF path = 0
       THEN /\ files' = Append(files, Blank)
            /\ path' = Len(files')
       ELSE /\ files' = [files EXCEPT ![path] = Blank]
            /\ path' = path
  /\ run' = [run EXCEPT ![i].pc = "head", ![i].file = path']
  /\ UNCHANGED <<edition, tmp, runs, serving>>

(* save: the temporary file is created, or emptied if one is left. *)
Open(i) ==
  /\ run[i].pc = "fetch"
  /\ ~MoreToRead(i)
  /\ IF tmp = 0
       THEN /\ files' = Append(files, Blank)
            /\ tmp' = Len(files')
       ELSE /\ files' = [files EXCEPT ![tmp] = Blank]
            /\ tmp' = tmp
  /\ run' = [run EXCEPT ![i].pc = "head", ![i].file = tmp']
  /\ UNCHANGED <<edition, path, runs, serving>>

WriteHead(i) ==
  /\ run[i].pc = "head"
  /\ files' = [files EXCEPT ![run[i].file][1] = <<run[i].batches>>]
  /\ run' = [run EXCEPT ![i].pc = "tail"]
  /\ UNCHANGED <<edition, path, tmp, runs, serving>>

WriteTail(i) ==
  /\ run[i].pc = "tail"
  /\ files' = [files EXCEPT ![run[i].file][2] = <<run[i].batches>>]
  /\ run' = [run EXCEPT ![i].pc = "replace"]
  /\ UNCHANGED <<edition, path, tmp, runs, serving>>

(* tmp.replace(path) moves whatever has the name by then, and raises if     *)
(* nothing has.  Either way the run is over.                               *)
Replace(i) ==
  /\ run[i].pc = "replace"
  /\ path' = IF tmp = 0 THEN path ELSE tmp
  /\ tmp' = 0
  /\ run' = [run EXCEPT ![i] = Idle]
  /\ UNCHANGED <<edition, files, runs, serving>>

(* A source raises, the disk is full, the process is killed. *)
Abort(i) ==
  /\ Active(i)
  /\ run' = [run EXCEPT ![i] = Idle]
  /\ UNCHANGED <<edition, files, path, tmp, runs, serving>>

-----------------------------------------------------------------------------
(* Runtime.__init__ builds the retriever once; the store is not read again. *)
Serve(p) ==
  /\ serving[p] = Down
  /\ Loadable
  /\ \E e \in Embedders : serving' = [serving EXCEPT ![p] = Up(e, Published)]
  /\ UNCHANGED <<edition, files, path, tmp, runs, run>>

Stop(p) ==
  /\ serving[p] # Down
  /\ serving' = [serving EXCEPT ![p] = Down]
  /\ UNCHANGED <<edition, files, path, tmp, runs, run>>

-----------------------------------------------------------------------------
Next ==
  \/ \E s \in Sources : Edit(s)
  \/ \E i \in Ingesters :
       \/ Start(i) \/ Fetch(i) \/ Open(i) \/ WriteHead(i) \/ WriteTail(i)
       \/ Replace(i) \/ Abort(i)
  \/ \E p \in Processes : Serve(p) \/ Stop(p)

Spec == Init /\ [][Next]_vars

-----------------------------------------------------------------------------
(* Retriever.retrieve and VectorStore.search: no hit, a refusal by          *)
(* _check_dim, which looks at the first chunk only, the ValueError of       *)
(* _cosine's strict zip, or hits.                                          *)

First(S) == CHOOSE n \in S : \A m \in S : n <= m

(* Mutant: the width of the store is not checked. *)
SearchUnchecked(p) ==
  LET chunked == Chunked(p.batches)
      width(n) == Width[p.batches[n].embedder]
  IN  IF chunked = {} THEN "nothing"
      ELSE IF \E n \in chunked : width(n) # Width[p.embedder] THEN "uneven"
      ELSE "hits"

Search(p) ==
  LET chunked == Chunked(p.batches)
      width(n) == Width[p.batches[n].embedder]
  IN  IF chunked = {} THEN "nothing"
      ELSE IF width(First(chunked)) # Width[p.embedder] THEN "refused"
      ELSE IF \E n \in chunked : width(n) # Width[p.embedder] THEN "uneven"
      ELSE "hits"

-----------------------------------------------------------------------------
TypeOK ==
  /\ edition \in [Sources -> Nat]
  /\ files \in Seq(File)
  /\ path \in 0..Len(files)
  /\ tmp \in 0..Len(files)
  /\ runs \in 0..MaxRuns
  /\ run \in [Ingesters -> {Idle} \cup Run]
  /\ \A i \in Ingesters :
       Active(i) => /\ run[i].next \in 1..(Len(run[i].sources) + 1)
                    /\ run[i].file \in 0..Len(files)
                    /\ run[i].pc # "fetch" => run[i].file > 0
  /\ serving \in [Processes -> Process]

(* The file under the store's name holds a complete dump at every moment,   *)
(* whichever run is killed in the middle of save(): the store can always be *)
(* loaded, so a process can always start and a later run always rebuild.   *)
PublishedIsWhole == Loadable

(* A rebuild that succeeds publishes one batch of each of its sources and   *)
(* nothing else, all by its own embedder and none older than the run: no    *)
(* chunk of an earlier run survives, whatever became of that run (ingest:   *)
(* "repeated runs are idempotent").                                        *)
RebuildPublishesSources ==
  [][\A i \in Ingesters :
       Replace(i) /\ run[i].mode = "rebuild" =>
         /\ Len(Published') = Len(run[i].sources)
         /\ \A k \in DOMAIN run[i].sources :
              LET s == run[i].sources[k]
              IN  /\ Published'[k].source = s
                  /\ Published'[k].embedder = run[i].embedder
                  /\ run[i].asOf[s] <= Published'[k].edition]_vars

(* A search of it would come upon vectors of uneven width.                  *)
Uneven(batches) ==
  \E e \in Embedders :
    Search([embedder |-> e, batches |-> batches]) = "uneven"

(* Only a run with --append publishes a store in which some search fails on *)
(* vectors of uneven width, and only by adding to chunks of another width,  *)
(* be it a source the store holds or a new one: _check_dim, which looks at  *)
(* the first chunk, suffices for a store that was rebuilt, after whatever   *)
(* runs that failed, appended or were killed.                              *)
UnevenOnlyByAppend ==
  [][\A i \in Ingesters :
       Replace(i) /\ Uneven(Published') =>
         /\ run[i].mode = "append"
         /\ \E n \in Chunked(Published) :
              Width[Published[n].embedder] # Width[run[i].embedder]]_vars

(* The files, the temporary name and the steps of a run are one atomic      *)
(* publication to whoever starts a process.                                *)
KB == INSTANCE KnowledgeBase WITH published <- Published

ImplementsKnowledgeBase == KB!Spec

-----------------------------------------------------------------------------
(* What the documentation says and the code does not do.                   *)

(* VectorStore.save: "a crash mid-write cannot leave a half-store on disk". *)
(* It can when another run, writing through the same temporary name, has    *)
(* moved the file that is being written; and then no run can start.        *)
NoHalfStoreLeft == (\A i \in Ingesters : ~Active(i)) => Loadable
=============================================================================
