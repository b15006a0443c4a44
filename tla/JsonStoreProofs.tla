--------------------------- MODULE JsonStoreProofs ---------------------------
(***************************************************************************)
(* Proofs about JsonStore, for any sources, embedders, processes and        *)
(* places to run an ingestion from, and any number of runs and edits.       *)
(***************************************************************************)
EXTENDS JsonStore, SequenceTheorems, WellFoundedInduction, TLAPS

-----------------------------------------------------------------------------
(* Types.                                                                   *)

(* What a run is told to read is a sequence of sources in their order.       *)
LEMMA SelectedSources ==
  ASSUME NEW list \in Selections
  PROVE  /\ list \in Seq(Sources)
         /\ Len(list) \in Nat /\ Len(list) >= 1
         /\ DOMAIN list = 1..Len(list)
         /\ \A k \in 1..Len(list) : list[k] \in Sources
         /\ \A k, m \in 1..Len(list) : k < m => list[k] < list[m]
<1>1. PICK n \in Sources : list \in [1..n -> Sources]
  BY DEF Selections
<1>2. n \in Nat /\ n >= 1
  BY <1>1, BatchesAssumption DEF Sources
<1>3. list \in Seq(Sources) /\ Len(list) = n /\ DOMAIN list = 1..n
  BY <1>1, <1>2
<1>4. \A k, m \in DOMAIN list : k < m => list[k] < list[m]
  BY DEF Selections
<1> QED
  BY <1>1, <1>2, <1>3, <1>4

LEMMA BatchesAreBatches ==
  ASSUME NEW b \in Store, NEW batch \in Batch
  PROVE  /\ Append(b, batch) \in Store
         /\ Len(Append(b, batch)) = Len(b) + 1
         /\ \A n \in 1..Len(b) : Append(b, batch)[n] = b[n]
         /\ Append(b, batch)[Len(b) + 1] = batch
         /\ Len(b) \in Nat
  BY DEF Store

LEMMA EmptyStore == <<>> \in Store /\ Len(<<>>) = 0
  BY DEF Store

(* A store that can be loaded holds batches.                                *)
LEMMA PublishedIsStore ==
  ASSUME TypeOK, Loadable
  PROVE  Published \in Store
<1>1. CASE path = 0
  BY <1>1, EmptyStore DEF Published
<1>2. CASE path # 0
  <2>1. path \in 1..Len(files) /\ files \in Seq(File)
    BY <1>2 DEF TypeOK
  <2>2. files[path] \in File /\ files[path][1] # <<>>
    BY <1>2, <2>1 DEF Loadable, Whole
  <2>3. files[path][1] \in Seq(Store) /\ files[path][1] # <<>>
    BY <2>2 DEF File
  <2>4. files[path][1][1] \in Store
    BY <2>3
  <2> QED
    BY <1>2, <2>4 DEF Published
<1> QED
  BY <1>1, <1>2

LEMMA FreshIsRun ==
  ASSUME TypeOK, Loadable,
         NEW mode \in Modes, NEW list \in Selections, NEW e \in Embedders
  PROVE  /\ Fresh(mode, list, e) \in Run
         /\ Fresh(mode, list, e).pc = "fetch"
         /\ Fresh(mode, list, e).next = 1
         /\ Fresh(mode, list, e).file = 0
         /\ Fresh(mode, list, e).mode = mode
         /\ Fresh(mode, list, e).sources = list
         /\ Fresh(mode, list, e).embedder = e
         /\ Fresh(mode, list, e).asOf = edition
         /\ Fresh(mode, list, e).batches = IF mode = "append" THEN Published ELSE <<>>
<1>1. (IF mode = "append" THEN Published ELSE <<>>) \in Store
  BY PublishedIsStore, EmptyStore
<1>2. edition \in [Sources -> Nat]
  BY DEF TypeOK
<1> QED
  BY <1>1, <1>2 DEF Fresh, Run

LEMMA RunTypes ==
  ASSUME TypeOK, NEW i \in Ingesters, Active(i)
  PROVE  /\ run[i] \in Run
         /\ run[i].pc \in {"fetch", "head", "tail", "replace"}
         /\ run[i].mode \in Modes
         /\ run[i].embedder \in Embedders
         /\ run[i].batches \in Store
         /\ run[i].asOf \in [Sources -> Nat]
         /\ run[i].sources \in Selections
         /\ Len(run[i].sources) \in Nat
         /\ run[i].next \in 1..(Len(run[i].sources) + 1)
         /\ run[i].file \in 0..Len(files)
         /\ run[i].pc # "fetch" => run[i].file \in 1..Len(files)
<1>1. run[i] \in {Idle} \cup Run /\ run[i] # Idle
  BY DEF TypeOK, Active, Idle
<1>2. run[i] \in Run
  BY <1>1
<1>3. /\ run[i].next \in 1..(Len(run[i].sources) + 1)
      /\ run[i].file \in 0..Len(files)
      /\ run[i].pc # "fetch" => run[i].file > 0
  BY DEF TypeOK
<1>4. run[i].sources \in Selections
  BY <1>2 DEF Run
<1>5. Len(run[i].sources) \in Nat
  BY <1>4, SelectedSources
<1> QED
  BY <1>2, <1>3, <1>4, <1>5 DEF Run, TypeOK

LEMMA AddIsRun ==
  ASSUME TypeOK, NEW i \in Ingesters, run[i].pc = "fetch", MoreToRead(i)
  PROVE  LET r == Add(run[i])
             s == run[i].sources[run[i].next]
         IN  /\ s \in Sources
             /\ r \in Run
             /\ r.pc = "fetch"
             /\ r.next = run[i].next + 1
             /\ r.file = run[i].file
             /\ r.mode = run[i].mode
             /\ r.sources = run[i].sources
             /\ r.embedder = run[i].embedder
             /\ r.asOf = run[i].asOf
             /\ r.batches \in Store
             /\ Len(r.batches) = Len(run[i].batches) + 1
             /\ \A n \in 1..Len(run[i].batches) : r.batches[n] = run[i].batches[n]
             /\ r.batches[Len(run[i].batches) + 1] =
                  [source |-> s, edition |-> edition[s],
                   embedder |-> run[i].embedder]
<1> DEFINE s == run[i].sources[run[i].next]
<1>1. Active(i)
  BY DEF Active
<1>2. run[i] \in Run /\ run[i].batches \in Store /\ run[i].embedder \in Embedders
      /\ run[i].next \in 1..Len(run[i].sources) /\ Len(run[i].sources) \in Nat
      /\ run[i].sources \in Selections
  BY <1>1, RunTypes DEF MoreToRead
<1>2a. s \in Sources
  BY <1>2, SelectedSources
<1>3. [source |-> s, edition |-> edition[s],
       embedder |-> run[i].embedder] \in Batch
  BY <1>2, <1>2a DEF Batch, TypeOK
<1>4. Append(run[i].batches,
             [source |-> s, edition |-> edition[s],
              embedder |-> run[i].embedder]) \in Store
  BY <1>2, <1>3, BatchesAreBatches
<1>5. run[i].next + 1 \in Nat
  BY <1>2
<1> DEFINE more == Append(run[i].batches,
             [source |-> s, edition |-> edition[s],
              embedder |-> run[i].embedder])
<1>6. Add(run[i]) = [run[i] EXCEPT !.batches = more, !.next = run[i].next + 1]
  BY <1>2 DEF Add, Run
<1>7. /\ Len(more) = Len(run[i].batches) + 1
      /\ \A n \in 1..Len(run[i].batches) : more[n] = run[i].batches[n]
      /\ more[Len(run[i].batches) + 1] =
                  [source |-> s, edition |-> edition[s],
                   embedder |-> run[i].embedder]
  BY <1>2, <1>3, BatchesAreBatches
<1> HIDE DEF more
<1>8. Add(run[i]).batches = more
  BY <1>2, <1>6 DEF Run
<1>9. more \in Store
  BY <1>4 DEF more
<1>10. /\ Add(run[i]) \in Run
       /\ Add(run[i]).pc = "fetch"
       /\ Add(run[i]).next = run[i].next + 1
       /\ Add(run[i]).file = run[i].file
       /\ Add(run[i]).mode = run[i].mode
       /\ Add(run[i]).sources = run[i].sources
       /\ Add(run[i]).embedder = run[i].embedder
       /\ Add(run[i]).asOf = run[i].asOf
  BY <1>2, <1>5, <1>6, <1>9 DEF Run
<1> QED
  BY <1>2a, <1>7, <1>8, <1>9, <1>10

LEMMA BlankIsFile == Blank \in File
<1>1. Blank = [k \in 1..2 |-> <<>>]
  BY DEF Blank
<1>2. <<>> \in Seq(Store)
  OBVIOUS
<1> QED
  BY <1>1, <1>2 DEF File

(* A file in the table of inodes stays a file when it is emptied, when a     *)
(* part of it is written, and when another is created.                     *)
LEMMA EmptiedFile ==
  ASSUME TypeOK, NEW n \in 1..Len(files)
  PROVE  /\ [files EXCEPT ![n] = Blank] \in Seq(File)
         /\ Len([files EXCEPT ![n] = Blank]) = Len(files)
         /\ \A m \in 1..Len(files) : m # n => [files EXCEPT ![n] = Blank][m] = files[m]
<1>1. files \in Seq(File) /\ files[n] \in File
  BY DEF TypeOK
<1> QED
  BY <1>1, BlankIsFile, ExceptSeq

LEMMA WrittenFile ==
  ASSUME TypeOK, NEW n \in 1..Len(files), NEW b \in Store, NEW k \in 1..2,
         files' = [files EXCEPT ![n][k] = <<b>>]
  PROVE  /\ files' \in Seq(File)
         /\ Len(files') = Len(files)
         /\ files'[n][k] = <<b>>
         /\ \A j \in 1..2 : j # k => files'[n][j] = files[n][j]
         /\ \A m \in 1..Len(files) : m # n => files'[m] = files[m]
<1>1. files \in Seq(File) /\ files[n] \in File
  BY DEF TypeOK
<1>2. <<b>> \in Seq(Store)
  OBVIOUS
<1>3. [files[n] EXCEPT ![k] = <<b>>] \in File
  BY <1>1, <1>2 DEF File
<1>4. files' = [files EXCEPT ![n] = [files[n] EXCEPT ![k] = <<b>>]]
  OBVIOUS
<1>5. /\ [files[n] EXCEPT ![k] = <<b>>][k] = <<b>>
      /\ \A j \in 1..2 : j # k => [files[n] EXCEPT ![k] = <<b>>][j] = files[n][j]
  BY <1>1 DEF File
<1> QED
  BY <1>1, <1>3, <1>4, <1>5, ExceptSeq

LEMMA NewFile ==
  ASSUME TypeOK
  PROVE  /\ Append(files, Blank) \in Seq(File)
         /\ Len(Append(files, Blank)) = Len(files) + 1
         /\ Len(files) \in Nat
         /\ \A m \in 1..Len(files) : Append(files, Blank)[m] = files[m]
<1>1. files \in Seq(File)
  BY DEF TypeOK
<1>2. Blank \in File
  BY BlankIsFile
<1> QED
  BY <1>1, <1>2

LEMMA InitTypes == Init => TypeOK
<1> SUFFICES ASSUME Init PROVE TypeOK
  OBVIOUS
<1>1. edition \in [Sources -> Nat]
  BY DEF Init, Unedited
<1>2. files \in Seq(File) /\ Len(files) = 0 /\ path = 0 /\ tmp = 0
  BY DEF Init
<1>3. runs \in 0..MaxRuns
  BY JsonStoreAssumption DEF Init
<1>4. \A i \in Ingesters : run[i] = Idle /\ ~Active(i)
  BY DEF Init, Active, Idle
<1>5. run \in [Ingesters -> {Idle} \cup Run]
  BY DEF Init
<1>6. serving \in [Processes -> Process]
  BY DEF Init, Process, Down
<1> QED
  BY <1>1, <1>2, <1>3, <1>4, <1>5, <1>6 DEF TypeOK

(* A step of one run to the record r, with the files it leaves.             *)
Moves(i, r) ==
  /\ run' = [run EXCEPT ![i] = r]
  /\ r # Idle => /\ r.next \in 1..(Len(r.sources) + 1)
                 /\ r.file \in 0..Len(files')
                 /\ r.pc # "fetch" => r.file > 0
  /\ files' \in Seq(File) /\ Len(files) <= Len(files')
  /\ path' \in 0..Len(files') /\ tmp' \in 0..Len(files')
  /\ runs' \in 0..MaxRuns
  /\ UNCHANGED <<edition, serving>>

LEMMA RunStepTypes ==
  ASSUME TypeOK, NEW i \in Ingesters, NEW r \in {Idle} \cup Run, Moves(i, r)
  PROVE  TypeOK'
<1> USE DEF Moves
<1>1. run' \in [Ingesters -> {Idle} \cup Run]
  BY DEF TypeOK
<1>2. run'[i] = r /\ \A j \in Ingesters : j # i => run'[j] = run[j]
  BY DEF TypeOK
<1>3. Len(files) \in Nat /\ Len(files') \in Nat
  BY DEF TypeOK
<1>4. ASSUME NEW j \in Ingesters, Active(j)'
      PROVE  /\ run'[j].next \in 1..(Len(run'[j].sources) + 1)
             /\ run'[j].file \in 0..Len(files')
             /\ run'[j].pc # "fetch" => run'[j].file > 0
  <2>1. CASE j = i
    <3>1. r # Idle
      BY <1>2, <1>4, <2>1 DEF Active, Idle
    <3> QED
      BY <1>2, <2>1, <3>1
  <2>2. CASE j # i
    <3>1. run'[j] = run[j] /\ Active(j)
      BY <1>2, <1>4, <2>2 DEF Active
    <3> QED
      BY <1>3, <3>1, RunTypes
  <2> QED
    BY <2>1, <2>2
<1>5. edition' \in [Sources -> Nat] /\ serving' \in [Processes -> Process]
  BY DEF TypeOK
<1> QED
  BY <1>1, <1>4, <1>5 DEF TypeOK

LEMMA StepTypes == TypeOK /\ [Next]_vars => TypeOK'
<1> SUFFICES ASSUME TypeOK, [Next]_vars PROVE TypeOK'
  OBVIOUS
<1>1. /\ files \in Seq(File) /\ Len(files) \in Nat
      /\ path \in 0..Len(files) /\ tmp \in 0..Len(files) /\ runs \in 0..MaxRuns
  BY DEF TypeOK
<1>2. CASE UNCHANGED vars
  BY <1>2 DEF vars, TypeOK, Active
<1>3. ASSUME NEW s \in Sources, Edit(s) PROVE TypeOK'
  <2>1. edition' \in [Sources -> Nat]
    BY <1>3 DEF Edit, TypeOK
  <2> QED
    BY <1>3, <2>1 DEF Edit, TypeOK, Active
<1>4. ASSUME NEW i \in Ingesters, Start(i) PROVE TypeOK'
  <2>1. runs' \in 0..MaxRuns
    BY <1>1, <1>4, JsonStoreAssumption DEF Start
  <2>2. CASE ~Loadable
    BY <1>4, <2>1, <2>2 DEF Start, TypeOK, Active
  <2>3. CASE Loadable
    <3>1. PICK mode \in Modes, list \in Selections, e \in Embedders :
            run' = [run EXCEPT ![i] = Fresh(mode, list, e)]
      BY <1>4, <2>3 DEF Start
    <3>2. 1 \in 1..(Len(list) + 1)
      BY SelectedSources
    <3>3. /\ Fresh(mode, list, e) \in Run /\ Fresh(mode, list, e).pc = "fetch"
          /\ Fresh(mode, list, e).next = 1 /\ Fresh(mode, list, e).sources = list
          /\ Fresh(mode, list, e).file = 0
      BY <2>3, FreshIsRun
    <3>4. Moves(i, Fresh(mode, list, e))
      BY <1>1, <1>4, <2>1, <3>1, <3>2, <3>3 DEF Moves, Start
    <3> QED
      BY <3>3, <3>4, RunStepTypes
  <2> QED
    BY <2>2, <2>3
<1>5. ASSUME NEW i \in Ingesters, Fetch(i) PROVE TypeOK'
  <2>1. /\ Active(i) /\ run[i].pc = "fetch" /\ MoreToRead(i)
        /\ run' = [run EXCEPT ![i] = Add(run[i])]
    BY <1>5 DEF Fetch, Active
  <2>2. /\ run[i].next + 1 \in 1..(Len(run[i].sources) + 1)
        /\ run[i].file \in 0..Len(files)
    BY <2>1, RunTypes DEF MoreToRead
  <2>3. /\ Add(run[i]) \in Run /\ Add(run[i]).pc = "fetch"
        /\ Add(run[i]).next = run[i].next + 1 /\ Add(run[i]).file = run[i].file
        /\ Add(run[i]).sources = run[i].sources
    BY <2>1, AddIsRun
  <2>4. Moves(i, Add(run[i]))
    BY <1>1, <1>5, <2>1, <2>2, <2>3 DEF Moves, Fetch
  <2> QED
    BY <2>3, <2>4, RunStepTypes
<1>6. ASSUME NEW i \in Ingesters, Open(i) PROVE TypeOK'
  <2>1. Active(i) /\ run[i] \in Run
    BY <1>6, RunTypes DEF Open, Active
  <2>2. /\ files' \in Seq(File) /\ Len(files) <= Len(files')
        /\ tmp' \in 1..Len(files') /\ path' \in 0..Len(files')
    <3>1. CASE tmp = 0
      <4>1. files' = Append(files, Blank) /\ tmp' = Len(files') /\ path' = path
        BY <1>6, <3>1 DEF Open
      <4>2. files' \in Seq(File) /\ Len(files') = Len(files) + 1
        BY <4>1, NewFile
      <4> QED
        BY <1>1, <4>1, <4>2
    <3>2. CASE tmp # 0
      <4>1. tmp \in 1..Len(files) /\ files' = [files EXCEPT ![tmp] = Blank]
        BY <1>1, <1>6, <3>2 DEF Open
      <4>2. files' \in Seq(File) /\ Len(files') = Len(files)
        BY <4>1, EmptiedFile
      <4> QED
        BY <1>1, <1>6, <3>2, <4>1, <4>2 DEF Open
    <3> QED
      BY <3>1, <3>2
  <2> DEFINE r == [run[i] EXCEPT !.pc = "head", !.file = tmp']
  <2>3. run' = [run EXCEPT ![i] = r]
    BY <1>6 DEF Open
  <2>4. tmp' \in Nat
    BY <2>2
  <2>5. /\ r \in Run /\ r.pc = "head" /\ r.file = tmp' /\ r.next = run[i].next
        /\ r.sources = run[i].sources
    BY <2>1, <2>4 DEF Run
  <2>6. r.next \in 1..(Len(r.sources) + 1)
    BY <2>1, <2>5, RunTypes
  <2> HIDE DEF r
  <2>7. UNCHANGED <<edition, path, runs, serving>>
    BY <1>6 DEF Open
  <2>8. Moves(i, r)
    BY <1>1, <2>2, <2>3, <2>5, <2>6, <2>7 DEF Moves
  <2> QED
    BY <2>5, <2>8, RunStepTypes
<1>7. ASSUME NEW i \in Ingesters, WriteHead(i) \/ WriteTail(i) PROVE TypeOK'
  <2>1. Active(i) /\ run[i] \in Run /\ run[i].pc # "fetch"
    BY <1>7, RunTypes DEF WriteHead, WriteTail, Active
  <2>2. files' \in Seq(File) /\ Len(files') = Len(files)
    <3>1. PICK k \in 1..2 : files' = [files EXCEPT ![run[i].file][k] = <<run[i].batches>>]
      BY <1>7 DEF WriteHead, WriteTail
    <3>2. run[i].file \in 1..Len(files) /\ run[i].batches \in Store
      BY <2>1, RunTypes
    <3> QED
      BY <3>1, <3>2, WrittenFile
  <2>3. PICK pc \in {"tail", "replace"} : run' = [run EXCEPT ![i].pc = pc]
    BY <1>7 DEF WriteHead, WriteTail
  <2> DEFINE r == [run[i] EXCEPT !.pc = pc]
  <2>4. run' = [run EXCEPT ![i] = r]
    BY <2>3
  <2>5. /\ r \in Run /\ r.pc = pc /\ r.file = run[i].file /\ r.next = run[i].next
        /\ r.sources = run[i].sources
    BY <2>1 DEF Run
  <2>6. r.next \in 1..(Len(r.sources) + 1) /\ r.file \in 1..Len(files)
    BY <2>1, <2>5, RunTypes
  <2> HIDE DEF r
  <2>7. Moves(i, r)
    BY <1>1, <1>7, <2>2, <2>4, <2>5, <2>6 DEF Moves, WriteHead, WriteTail
  <2> QED
    BY <2>5, <2>7, RunStepTypes
<1>8. ASSUME NEW i \in Ingesters, Replace(i) \/ Abort(i) PROVE TypeOK'
  <2>1. run' = [run EXCEPT ![i] = Idle] /\ UNCHANGED <<edition, files, runs, serving>>
    BY <1>8 DEF Replace, Abort
  <2>2. path' \in 0..Len(files') /\ tmp' \in 0..Len(files')
    BY <1>1, <1>8 DEF Replace, Abort
  <2>3. Moves(i, Idle)
    BY <1>1, <2>1, <2>2 DEF Moves
  <2> QED
    BY <2>3, RunStepTypes
<1>9. ASSUME NEW p \in Processes, Serve(p) PROVE TypeOK'
  <2>1. PICK e \in Embedders : serving' = [serving EXCEPT ![p] = Up(e, Published)]
    BY <1>9 DEF Serve
  <2>2. Up(e, Published) \in Process
    BY <1>9, PublishedIsStore DEF Serve, Up, Process
  <2>3. serving' \in [Processes -> Process]
    BY <2>1, <2>2 DEF TypeOK
  <2> QED
    BY <1>9, <2>3 DEF Serve, TypeOK, Active
<1>10. ASSUME NEW p \in Processes, Stop(p) PROVE TypeOK'
  <2>1. serving' \in [Processes -> Process]
    BY <1>10 DEF Stop, TypeOK, Down, Process
  <2> QED
    BY <1>10, <2>1 DEF Stop, TypeOK, Active
<1> QED
  BY <1>2, <1>3, <1>4, <1>5, <1>6, <1>7, <1>8, <1>9, <1>10 DEF Next

(* Every variable stays in its domain; a run never reads past its sources   *)
(* and never writes to a file it has not opened.                           *)
THEOREM TypeCorrect == Spec => []TypeOK
<1>1. Init => TypeOK
  BY InitTypes
<1>2. TypeOK /\ [Next]_vars => TypeOK'
  BY StepTypes
<1> QED
  BY <1>1, <1>2, PTL DEF Spec

-----------------------------------------------------------------------------
(* The inductive invariant.                                                 *)

(* Runs do not overlap. *)
OneRun == \A i, j \in Ingesters : Active(i) /\ Active(j) => i = j

(* The file under the store's name is whole, and is never the one a run     *)
(* writes: that one has the temporary name.                                *)
Names ==
  /\ Loadable
  /\ path # 0 => tmp # path
  /\ \A i \in Ingesters :
       Active(i) /\ run[i].pc # "fetch" => run[i].file = tmp

(* What is already written of a dump. *)
Written ==
  \A i \in Ingesters :
    /\ run[i].pc \in {"tail", "replace"} => files[tmp][1] = <<run[i].batches>>
    /\ run[i].pc = "replace" => files[tmp][2] = <<run[i].batches>>

Kept(i) == IF run[i].mode = "append" THEN Published ELSE <<>>

(* A run holds what it keeps and, after that, a batch of each source read,  *)
(* no older than the run and no newer than the source.                     *)
ReadSoFar(r, kept, latest) ==
  /\ Len(r.batches) = Len(kept) + r.next - 1
  /\ \A n \in 1..Len(kept) : r.batches[n] = kept[n]
  /\ \A k \in 1..(r.next - 1) :
       /\ r.batches[Len(kept) + k].source = r.sources[k]
       /\ r.batches[Len(kept) + k].embedder = r.embedder
       /\ r.asOf[r.sources[k]] <= r.batches[Len(kept) + k].edition
       /\ r.batches[Len(kept) + k].edition <= latest[r.sources[k]]

Progress ==
  \A i \in Ingesters :
    Active(i) => /\ ReadSoFar(run[i], Kept(i), edition)
                 /\ run[i].pc # "fetch" =>
                      run[i].next = Len(run[i].sources) + 1

(* What is published is no newer than any later run. *)
Aging ==
  /\ NoNewerThan(edition, Published)
  /\ \A i \in Ingesters :
       Active(i) => /\ NoNewerThan(run[i].asOf, Published)
                    /\ \A s \in Sources : run[i].asOf[s] <= edition[s]

IInv == TypeOK /\ OneRun /\ Names /\ Written /\ Progress /\ Aging

LEMMA InitInvariant == Init => IInv
<1> SUFFICES ASSUME Init PROVE IInv
  OBVIOUS
<1>1. TypeOK
  BY InitTypes
<1>2. \A i \in Ingesters : ~Active(i) /\ run[i].pc = "idle"
  BY DEF Init, Active, Idle
<1>3. Published = <<>> /\ Loadable /\ path = 0
  BY DEF Init, Published, Loadable
<1>4. OneRun /\ Names /\ Written /\ Progress
  BY <1>2, <1>3 DEF OneRun, Names, Written, Progress
<1>5. Aging
  BY <1>2, <1>3 DEF Aging, NoNewerThan
<1> QED
  BY <1>1, <1>4, <1>5 DEF IInv

(* What no step of a run touches: the published store, while the file it    *)
(* writes is another.                                                      *)
LEMMA PublishedStays ==
  ASSUME path' = path, path # 0 => files'[path] = files[path]
  PROVE  Published' = Published /\ (Loadable <=> Loadable')
<1>1. CASE path = 0
  BY <1>1 DEF Published, Loadable
<1>2. CASE path # 0
  BY <1>2 DEF Published, Loadable
<1> QED
  BY <1>1, <1>2

(* While a run is active every other place is idle, and stays so.           *)
LEMMA OthersIdle ==
  ASSUME IInv, NEW i \in Ingesters, Active(i), NEW r, run' = [run EXCEPT ![i] = r]
  PROVE  /\ run'[i] = r
         /\ \A j \in Ingesters :
              j # i => /\ run'[j] = run[j] /\ run[j].pc = "idle"
                       /\ ~Active(j) /\ ~Active(j)'
         /\ OneRun'
<1>1. run \in [Ingesters -> {Idle} \cup Run]
  BY DEF IInv, TypeOK
<1>2. run'[i] = r /\ \A j \in Ingesters : j # i => run'[j] = run[j]
  BY <1>1
<1>3. \A j \in Ingesters : j # i => ~Active(j)
  BY DEF IInv, OneRun
<1>4. \A j \in Ingesters : j # i => run[j].pc = "idle" /\ ~Active(j)'
  BY <1>2, <1>3 DEF Active
<1>5. OneRun'
  BY <1>4 DEF OneRun
<1> QED
  BY <1>2, <1>3, <1>4, <1>5

LEMMA EditInvariant ==
  ASSUME IInv, NEW s \in Sources, Edit(s), TypeOK'
  PROVE  IInv'
<1>1. UNCHANGED <<files, path, tmp, runs, run, serving>>
  BY DEF Edit
<1>2. \A t \in Sources : edition[t] \in Nat /\ edition'[t] \in Nat /\ edition[t] <= edition'[t]
  BY DEF Edit, IInv, TypeOK
<1>3. Published' = Published /\ Loadable' /\ Published \in Store
  BY <1>1, PublishedStays, PublishedIsStore DEF IInv, Names
<1>4. \A i \in Ingesters : Active(i)' = Active(i)
  BY <1>1 DEF Active
<1>5. OneRun' /\ Names' /\ Written'
  BY <1>1, <1>3, <1>4 DEF IInv, OneRun, Names, Written
<1>6. Progress'
  <2> SUFFICES ASSUME NEW i \in Ingesters, Active(i)
               PROVE  ReadSoFar(run[i], Kept(i), edition')
    BY <1>1, <1>3, <1>4 DEF IInv, Progress, Kept
  <2>0. ReadSoFar(run[i], Kept(i), edition)
    BY DEF IInv, Progress
  <2> SUFFICES ASSUME NEW t \in 1..(run[i].next - 1)
               PROVE  run[i].batches[Len(Kept(i)) + t].edition <=
                        edition'[run[i].sources[t]]
    BY <2>0 DEF ReadSoFar
  <2>1. /\ run[i].next \in 1..(Len(run[i].sources) + 1) /\ run[i].batches \in Store
        /\ run[i].sources \in Selections /\ Len(run[i].sources) \in Nat
    BY RunTypes DEF IInv
  <2>2. t \in 1..Len(run[i].sources) /\ run[i].sources[t] \in Sources
    BY <2>1, SelectedSources
  <2>3. Kept(i) \in Store
    BY <1>3, EmptyStore DEF Kept
  <2>4. Len(Kept(i)) + t \in 1..Len(run[i].batches)
    BY <2>0, <2>1, <2>3 DEF ReadSoFar, Store
  <2>5. run[i].batches[Len(Kept(i)) + t].edition \in Nat
    <3>1. run[i].batches[Len(Kept(i)) + t] \in Batch
      BY <2>1, <2>4 DEF Store
    <3> QED
      BY <3>1 DEF Batch
  <2>6. run[i].batches[Len(Kept(i)) + t].edition <= edition[run[i].sources[t]]
    BY <2>0 DEF ReadSoFar
  <2>7. /\ edition[run[i].sources[t]] \in Nat
        /\ edition'[run[i].sources[t]] \in Nat
        /\ edition[run[i].sources[t]] <= edition'[run[i].sources[t]]
    BY <1>2, <2>2
  <2> QED
    BY <2>5, <2>6, <2>7, SMTT(40)
<1>7. Aging'
  <2>1. NoNewerThan(edition', Published)
    <3> SUFFICES ASSUME NEW n \in DOMAIN Published
                 PROVE  Published[n].edition <= edition'[Published[n].source]
      BY DEF NoNewerThan
    <3>1. Published[n] \in Batch
      BY <1>3 DEF Store
    <3>2. Published[n].edition <= edition[Published[n].source]
      BY DEF IInv, Aging, NoNewerThan
    <3> QED
      BY <1>2, <3>1, <3>2 DEF Batch
  <2>2. ASSUME NEW i \in Ingesters, Active(i), NEW t \in Sources
        PROVE  run[i].asOf[t] <= edition'[t]
    <3>1. run[i].asOf[t] \in Nat
      BY <2>2, RunTypes DEF IInv
    <3>2. run[i].asOf[t] <= edition[t]
      BY <2>2 DEF IInv, Aging
    <3> QED
      BY <1>2, <3>1, <3>2
  <2> QED
    BY <1>1, <1>3, <1>4, <2>1, <2>2 DEF IInv, Aging, NoNewerThan
<1> QED
  BY <1>5, <1>6, <1>7 DEF IInv

LEMMA StartInvariant ==
  ASSUME Exclusive, IInv, NEW i \in Ingesters, Start(i), TypeOK'
  PROVE  IInv'
<1>1. UNCHANGED <<edition, files, path, tmp, serving>>
  BY DEF Start
<1>2. PICK mode \in Modes, list \in Selections, e \in Embedders :
        run' = [run EXCEPT ![i] = Fresh(mode, list, e)]
  BY DEF Start, IInv, Names
<1>3. Published' = Published /\ Loadable' /\ Published \in Store
  BY <1>1, PublishedStays, PublishedIsStore DEF IInv, Names
<1>4. run'[i] = Fresh(mode, list, e) /\ \A j \in Ingesters : j # i => run'[j] = run[j]
  BY <1>2 DEF IInv, TypeOK
<1>5. \A j \in Ingesters : j # i => ~Active(j)' /\ run'[j].pc = "idle"
  BY <1>4 DEF Start, Active
<1>6. /\ run'[i].pc = "fetch" /\ run'[i].next = 1 /\ run'[i].mode = mode
      /\ run'[i].asOf = edition
      /\ run'[i].batches = IF mode = "append" THEN Published ELSE <<>>
  BY <1>4, FreshIsRun DEF IInv, Names
<1>7. OneRun' /\ Names' /\ Written'
  <2>1. OneRun'
    BY <1>5 DEF OneRun
  <2>2. path # 0 => tmp # path
    BY DEF IInv, Names
  <2>3. Names'
    BY <1>1, <1>3, <1>5, <1>6, <2>2 DEF Names
  <2>4. Written'
    BY <1>5, <1>6 DEF Written
  <2> QED
    BY <2>1, <2>3, <2>4
<1>8. Progress'
  <2>1. Kept(i)' = run'[i].batches /\ Len(Kept(i)') \in Nat
    BY <1>3, <1>6 DEF Kept, Store
  <2>2. ReadSoFar(run'[i], Kept(i)', edition')
    BY <1>6, <2>1 DEF ReadSoFar
  <2> QED
    BY <1>5, <1>6, <2>2 DEF Progress
<1>9. Aging'
  <2>1. NoNewerThan(edition, Published)
    BY DEF IInv, Aging
  <2>2. \A s \in Sources : edition[s] <= edition[s]
    BY DEF IInv, TypeOK
  <2> QED
    BY <1>1, <1>3, <1>5, <1>6, <2>1, <2>2 DEF Aging, NoNewerThan
<1> QED
  BY <1>7, <1>8, <1>9 DEF IInv

LEMMA FetchInvariant ==
  ASSUME IInv, NEW i \in Ingesters, Fetch(i), TypeOK'
  PROVE  IInv'
<1>1. UNCHANGED <<edition, files, path, tmp, serving>>
  BY DEF Fetch
<1>2. Active(i) /\ run[i].pc = "fetch" /\ MoreToRead(i)
  BY DEF Fetch, Active
<1> DEFINE r == Add(run[i])
           k == Len(Kept(i))
           now == run[i].sources[run[i].next]
<1>3. run' = [run EXCEPT ![i] = r]
  BY DEF Fetch
<1>4. /\ now \in Sources /\ r.sources = run[i].sources
      /\ r.pc = "fetch" /\ r.next = run[i].next + 1 /\ r.mode = run[i].mode
      /\ r.embedder = run[i].embedder /\ r.asOf = run[i].asOf
      /\ Len(r.batches) = Len(run[i].batches) + 1
      /\ \A n \in 1..Len(run[i].batches) : r.batches[n] = run[i].batches[n]
      /\ r.batches[Len(run[i].batches) + 1] =
           [source |-> now, edition |-> edition[now],
            embedder |-> run[i].embedder]
  BY <1>2, AddIsRun DEF IInv
<1>5. Published' = Published /\ Loadable' /\ Published \in Store
  BY <1>1, PublishedStays, PublishedIsStore DEF IInv, Names
<1> HIDE DEF r
<1>6. /\ run'[i] = r
      /\ \A j \in Ingesters : j # i => ~Active(j)' /\ run'[j].pc = "idle"
      /\ OneRun'
  BY <1>2, <1>3, OthersIdle
<1>7. Names' /\ Written'
  BY <1>1, <1>4, <1>5, <1>6 DEF IInv, Names, Written
<1>8. Kept(i)' = Kept(i) /\ Kept(i) \in Store /\ k \in Nat
  BY <1>4, <1>5, <1>6, EmptyStore DEF Kept, Store
<1>9a. /\ run[i].next \in 1..Len(run[i].sources) /\ Len(run[i].sources) \in Nat
       /\ ReadSoFar(run[i], Kept(i), edition)
  BY <1>2, RunTypes DEF IInv, Progress, MoreToRead
<1>9. /\ run[i].next \in Nat /\ run[i].next >= 1
      /\ Len(run[i].batches) = k + run[i].next - 1
      /\ \A n \in 1..k : run[i].batches[n] = Kept(i)[n]
      /\ \A s \in 1..(run[i].next - 1) :
           /\ run[i].batches[k + s].source = run[i].sources[s]
           /\ run[i].batches[k + s].embedder = run[i].embedder
           /\ run[i].asOf[run[i].sources[s]] <= run[i].batches[k + s].edition
           /\ run[i].batches[k + s].edition <= edition[run[i].sources[s]]
  BY <1>9a DEF ReadSoFar
<1>10. edition[now] <= edition[now] /\ run[i].asOf[now] <= edition[now]
  <2>1. now \in Sources /\ edition[now] \in Nat
    BY <1>4 DEF IInv, TypeOK
  <2>2. run[i].asOf[now] <= edition[now]
    BY <1>2, <2>1 DEF IInv, Aging
  <2> QED
    BY <2>1, <2>2
<1> HIDE DEF k
<1>11. \A n \in 1..k : r.batches[n] = Kept(i)[n]
  BY <1>4, <1>8, <1>9
<1>12. ASSUME NEW s \in 1..run[i].next
       PROVE  /\ r.batches[k + s].source = r.sources[s]
              /\ r.batches[k + s].embedder = run[i].embedder
              /\ run[i].asOf[r.sources[s]] <= r.batches[k + s].edition
              /\ r.batches[k + s].edition <= edition[r.sources[s]]
  <2>1. CASE s = run[i].next
    <3>1. k + s = Len(run[i].batches) + 1
      BY <1>8, <1>9, <2>1
    <3>2. r.batches[k + s] = [source |-> now, edition |-> edition[now],
                              embedder |-> run[i].embedder]
      BY <1>4, <2>1, <3>1
    <3>3. r.sources[s] = now
      BY <1>4, <2>1
    <3> QED
      BY <1>10, <3>2, <3>3
  <2>2. CASE s # run[i].next
    <3>1. s \in 1..(run[i].next - 1) /\ k + s \in 1..Len(run[i].batches)
      BY <1>8, <1>9, <2>2
    <3>2. r.batches[k + s] = run[i].batches[k + s]
      BY <1>4, <3>1
    <3> QED
      BY <1>4, <1>9, <3>1, <3>2
  <2> QED
    BY <2>1, <2>2
<1>13. Progress'
  <2>1. Len(r.batches) = k + r.next - 1 /\ r.next - 1 = run[i].next
    BY <1>4, <1>8, <1>9
  <2>2. Kept(i)' = Kept(i) /\ k = Len(Kept(i)) /\ edition' = edition
    BY <1>1, <1>8 DEF k
  <2>3. ReadSoFar(r, Kept(i), edition)
    BY <1>4, <1>11, <1>12, <2>1, <2>2 DEF ReadSoFar
  <2> QED
    BY <1>4, <1>6, <2>2, <2>3 DEF Progress
<1>14. Aging'
  BY <1>1, <1>2, <1>4, <1>5, <1>6 DEF IInv, Aging, NoNewerThan
<1> QED
  BY <1>6, <1>7, <1>13, <1>14 DEF IInv

LEMMA OpenInvariant ==
  ASSUME IInv, NEW i \in Ingesters, Open(i), TypeOK'
  PROVE  IInv'
<1>1. UNCHANGED <<edition, path, serving>>
  BY DEF Open
<1>2. /\ Active(i) /\ run[i] \in Run /\ run[i].pc = "fetch"
      /\ run[i].next \in 1..(Len(run[i].sources) + 1)
      /\ Len(run[i].sources) \in Nat /\ ~MoreToRead(i)
  BY RunTypes DEF Open, Active, IInv
<1> DEFINE r == [run[i] EXCEPT !.pc = "head", !.file = tmp']
<1>3. run' = [run EXCEPT ![i] = r]
  BY DEF Open
<1>4. /\ r.pc = "head" /\ r.next = run[i].next /\ r.mode = run[i].mode
      /\ r.embedder = run[i].embedder /\ r.asOf = run[i].asOf
      /\ r.batches = run[i].batches /\ r.file = tmp' /\ r.sources = run[i].sources
  BY <1>2 DEF Run
<1> HIDE DEF r
<1>5. /\ run'[i] = r
      /\ \A j \in Ingesters : j # i => ~Active(j)' /\ run'[j].pc = "idle"
      /\ OneRun'
  BY <1>2, <1>3, OthersIdle
<1>6. path # 0 => tmp' # path /\ files'[path] = files[path]
  <2>1. path \in 0..Len(files) /\ tmp \in 0..Len(files) /\ (path # 0 => tmp # path)
    BY DEF IInv, TypeOK, Names
  <2>2. CASE tmp = 0
    BY <2>1, <2>2, NewFile DEF Open, IInv
  <2>3. CASE tmp # 0
    <3>1. tmp \in 1..Len(files) /\ files' = [files EXCEPT ![tmp] = Blank] /\ tmp' = tmp
      BY <2>1, <2>3 DEF Open
    <3> QED
      BY <2>1, <3>1, EmptiedFile DEF IInv
  <2> QED
    BY <2>2, <2>3
<1>7. Published' = Published /\ Loadable'
  BY <1>1, <1>6, PublishedStays DEF IInv, Names
<1>8. Names' /\ Written'
  BY <1>1, <1>4, <1>5, <1>6, <1>7 DEF Names, Written
<1>9. Kept(i)' = Kept(i)
  BY <1>4, <1>5, <1>7 DEF Kept
<1>10. run[i].next = Len(run[i].sources) + 1
  BY <1>2 DEF MoreToRead
<1>11. Progress'
  <2>1. ReadSoFar(run[i], Kept(i), edition)
    BY <1>2 DEF IInv, Progress
  <2>2. ReadSoFar(r, Kept(i), edition)
    BY <1>4, <2>1 DEF ReadSoFar
  <2> QED
    BY <1>1, <1>4, <1>5, <1>9, <1>10, <2>2 DEF Progress
<1>12. Aging'
  BY <1>1, <1>2, <1>4, <1>5, <1>7 DEF IInv, Aging, NoNewerThan
<1> QED
  BY <1>5, <1>8, <1>11, <1>12 DEF IInv

LEMMA WriteInvariant ==
  ASSUME IInv, NEW i \in Ingesters, WriteHead(i) \/ WriteTail(i), TypeOK'
  PROVE  IInv'
<1>1. UNCHANGED <<edition, path, tmp, serving>>
  BY DEF WriteHead, WriteTail
<1>2. /\ Active(i) /\ run[i] \in Run /\ run[i].pc # "fetch"
      /\ run[i].batches \in Store /\ run[i].file \in 1..Len(files)
  BY RunTypes DEF WriteHead, WriteTail, Active, IInv
<1>3. run[i].file = tmp /\ tmp \in 1..Len(files)
  BY <1>2 DEF IInv, Names
<1> DEFINE b == run[i].batches
           k == IF run[i].pc = "head" THEN 1 ELSE 2
           next == IF run[i].pc = "head" THEN "tail" ELSE "replace"
           r == [run[i] EXCEPT !.pc = next]
<1>4. /\ run' = [run EXCEPT ![i] = r]
      /\ files' = [files EXCEPT ![tmp][k] = <<b>>]
  BY <1>3 DEF WriteHead, WriteTail
<1>5. /\ r.pc = next /\ r.next = run[i].next /\ r.mode = run[i].mode
      /\ r.embedder = run[i].embedder /\ r.asOf = run[i].asOf
      /\ r.batches = b /\ r.file = run[i].file /\ r.sources = run[i].sources
  BY <1>2 DEF Run
<1>6. k \in 1..2
  OBVIOUS
<1>7. /\ files'[tmp][k] = <<b>>
      /\ \A j \in 1..2 : j # k => files'[tmp][j] = files[tmp][j]
      /\ \A m \in 1..Len(files) : m # tmp => files'[m] = files[m]
  <2>1. TypeOK /\ run[i].batches \in Store
    BY <1>2 DEF IInv
  <2>2. PICK n \in 1..Len(files) : n = tmp
    BY <1>3
  <2>3. PICK m \in 1..2 : m = k
    BY <1>6
  <2>4. files' = [files EXCEPT ![n][m] = <<run[i].batches>>]
    BY <1>4, <2>2, <2>3
  <2>5. /\ files'[n][m] = <<run[i].batches>>
        /\ \A j \in 1..2 : j # m => files'[n][j] = files[n][j]
        /\ \A l \in 1..Len(files) : l # n => files'[l] = files[l]
    BY <2>1, <2>4, WrittenFile, ZenonT(40)
  <2> QED
    BY <2>2, <2>3, <2>5
<1> HIDE DEF r
<1>8. /\ run'[i] = r
      /\ \A j \in Ingesters : j # i => ~Active(j)' /\ run'[j].pc = "idle"
      /\ OneRun'
  BY <1>2, <1>4, OthersIdle
<1>9. path # 0 => tmp # path /\ files'[path] = files[path]
  BY <1>7 DEF IInv, TypeOK, Names
<1>10. Published' = Published /\ Loadable'
  BY <1>1, <1>9, PublishedStays DEF IInv, Names
<1>11. Names'
  BY <1>1, <1>3, <1>5, <1>8, <1>9, <1>10 DEF Names
<1>12. Written'
  <2>1. CASE run[i].pc = "head"
    BY <1>1, <1>5, <1>7, <1>8, <2>1 DEF Written
  <2>2. CASE run[i].pc = "tail"
    <3>1. files[tmp][1] = <<b>>
      BY <2>2 DEF IInv, Written
    <3> QED
      BY <1>1, <1>5, <1>7, <1>8, <2>2, <3>1 DEF Written
  <2> QED
    BY <2>1, <2>2 DEF WriteHead, WriteTail
<1>13. Kept(i)' = Kept(i)
  BY <1>5, <1>8, <1>10 DEF Kept
<1>14. Progress'
  <2>1. ReadSoFar(run[i], Kept(i), edition) /\ run[i].next = Len(run[i].sources) + 1
    BY <1>2 DEF IInv, Progress
  <2>2. ReadSoFar(r, Kept(i), edition)
    BY <1>5, <2>1 DEF ReadSoFar
  <2> QED
    BY <1>1, <1>5, <1>8, <1>13, <2>1, <2>2 DEF Progress
<1>15. Aging'
  BY <1>1, <1>2, <1>5, <1>8, <1>10 DEF IInv, Aging, NoNewerThan
<1> QED
  BY <1>8, <1>11, <1>12, <1>14, <1>15 DEF IInv

(* What a run publishes is what it holds. *)
LEMMA ReplacePublishes ==
  ASSUME IInv, NEW i \in Ingesters, Replace(i)
  PROVE  /\ Active(i)
         /\ Published' = run[i].batches
         /\ Loadable'
         /\ path' # 0 /\ tmp' = 0
<1>1. Active(i) /\ run[i].pc = "replace"
  BY DEF Replace, Active
<1>2. tmp # 0
  <2>1. run[i].file \in 1..Len(files) /\ run[i].file = tmp
    BY <1>1, RunTypes DEF IInv, Names
  <2> QED
    BY <2>1
<1>3. path' = tmp /\ files' = files /\ tmp' = 0
  BY <1>2 DEF Replace
<1>4. files[tmp][1] = <<run[i].batches>> /\ files[tmp][2] = <<run[i].batches>>
  BY <1>1 DEF IInv, Written
<1>5. Whole(files[tmp])
  BY <1>4 DEF Whole
<1>6. Published' = files[tmp][1][1] /\ Loadable'
  BY <1>2, <1>3, <1>5 DEF Published, Loadable
<1> QED
  BY <1>1, <1>2, <1>3, <1>4, <1>6

LEMMA ReplaceInvariant ==
  ASSUME IInv, NEW i \in Ingesters, Replace(i), TypeOK'
  PROVE  IInv'
<1>1. /\ UNCHANGED <<edition, files, serving>>
      /\ run' = [run EXCEPT ![i] = Idle]
  BY DEF Replace
<1>2. /\ Active(i) /\ Published' = run[i].batches
      /\ Loadable' /\ path' # 0 /\ tmp' = 0
  BY ReplacePublishes
<1>3. /\ OneRun'
      /\ \A j \in Ingesters : ~Active(j)' /\ run'[j].pc = "idle"
  <2>1. /\ OneRun' /\ run'[i] = Idle
        /\ \A j \in Ingesters : j # i => ~Active(j)' /\ run'[j] = run[j]
                                          /\ run[j].pc = "idle"
    BY <1>1, <1>2, OthersIdle
  <2>2. run'[i].pc = "idle" /\ ~Active(i)'
    BY <2>1 DEF Active, Idle
  <2> QED
    BY <2>1, <2>2
<1>4. Names' /\ Written' /\ Progress'
  BY <1>2, <1>3 DEF Names, Written, Progress
<1>5. NoNewerThan(edition, run[i].batches)
  <2>1. /\ run[i].pc = "replace" /\ run[i].batches \in Store
        /\ ReadSoFar(run[i], Kept(i), edition)
        /\ run[i].next = Len(run[i].sources) + 1 /\ Len(run[i].sources) \in Nat
    BY <1>2, RunTypes DEF IInv, Progress, Replace
  <2>2. Kept(i) \in Store /\ Len(Kept(i)) \in Nat
    BY PublishedIsStore, EmptyStore DEF Kept, IInv, Names, Store
  <2> SUFFICES ASSUME NEW n \in DOMAIN run[i].batches
               PROVE  run[i].batches[n].edition <= edition[run[i].batches[n].source]
    BY DEF NoNewerThan
  <2>3. n \in 1..(Len(Kept(i)) + Len(run[i].sources))
    BY <2>1, <2>2 DEF ReadSoFar, Store
  <2>4. CASE n <= Len(Kept(i))
    <3>1. run[i].batches[n] = Kept(i)[n] /\ n \in DOMAIN Kept(i)
      BY <2>1, <2>2, <2>3, <2>4 DEF ReadSoFar, Store
    <3>2. NoNewerThan(edition, Kept(i))
      BY DEF Kept, IInv, Aging, NoNewerThan
    <3> QED
      BY <3>1, <3>2 DEF NoNewerThan
  <2>5. CASE n > Len(Kept(i))
    <3>1. PICK k \in 1..Len(run[i].sources) : n = Len(Kept(i)) + k
      <4>1. n - Len(Kept(i)) \in 1..Len(run[i].sources)
        BY <2>1, <2>2, <2>3, <2>5
      <4> QED
        BY <2>2, <2>3, <4>1
    <3>2. /\ run[i].batches[n].source = run[i].sources[k]
          /\ run[i].batches[n].edition <= edition[run[i].sources[k]]
      BY <2>1, <3>1 DEF ReadSoFar
    <3> QED
      BY <3>2
  <2> QED
    BY <2>2, <2>3, <2>4, <2>5
<1>6. Aging'
  BY <1>1, <1>2, <1>3, <1>5 DEF Aging
<1> QED
  BY <1>3, <1>4, <1>6 DEF IInv

LEMMA AbortInvariant ==
  ASSUME IInv, NEW i \in Ingesters, Abort(i), TypeOK'
  PROVE  IInv'
<1>1. /\ UNCHANGED <<edition, files, path, tmp, serving>>
      /\ run' = [run EXCEPT ![i] = Idle] /\ Active(i)
  BY DEF Abort
<1>2. /\ OneRun'
      /\ \A j \in Ingesters : ~Active(j)' /\ run'[j].pc = "idle"
  <2>1. /\ OneRun' /\ run'[i] = Idle
        /\ \A j \in Ingesters : j # i => ~Active(j)' /\ run'[j] = run[j]
                                          /\ run[j].pc = "idle"
    BY <1>1, OthersIdle
  <2>2. run'[i].pc = "idle" /\ ~Active(i)'
    BY <2>1 DEF Active, Idle
  <2> QED
    BY <2>1, <2>2
<1>3. Published' = Published /\ Loadable'
  BY <1>1, PublishedStays DEF IInv, Names
<1> QED
  BY <1>1, <1>2, <1>3
  DEF IInv, Names, Written, Progress, Aging, NoNewerThan

LEMMA UntouchedInvariant ==
  ASSUME IInv, UNCHANGED <<edition, files, path, tmp, run>>, TypeOK'
  PROVE  IInv'
<1>1. Published' = Published /\ Loadable'
  BY PublishedStays DEF IInv, Names
<1>2. \A i \in Ingesters : Active(i)' = Active(i) /\ Kept(i)' = Kept(i)
  BY <1>1 DEF Active, Kept
<1>3. OneRun' /\ Names' /\ Written'
  BY <1>1, <1>2 DEF IInv, OneRun, Names, Written
<1>4. Progress'
  BY <1>1, <1>2 DEF IInv, Progress
<1>5. Aging'
  BY <1>1, <1>2 DEF IInv, Aging, NoNewerThan
<1> QED
  BY <1>3, <1>4, <1>5 DEF IInv

LEMMA StepInvariant ==
  ASSUME Exclusive
  PROVE  IInv /\ [Next]_vars => IInv'
<1> SUFFICES ASSUME IInv, [Next]_vars PROVE IInv'
  OBVIOUS
<1>1. TypeOK'
  BY StepTypes DEF IInv
<1>2. CASE UNCHANGED vars
  BY <1>1, <1>2, UntouchedInvariant DEF vars
<1>3. ASSUME NEW s \in Sources, Edit(s) PROVE IInv'
  BY <1>1, <1>3, EditInvariant
<1>4. ASSUME NEW i \in Ingesters, Start(i) PROVE IInv'
  BY <1>1, <1>4, StartInvariant
<1>5. ASSUME NEW i \in Ingesters, Fetch(i) PROVE IInv'
  BY <1>1, <1>5, FetchInvariant
<1>6. ASSUME NEW i \in Ingesters, Open(i) PROVE IInv'
  BY <1>1, <1>6, OpenInvariant
<1>7. ASSUME NEW i \in Ingesters, WriteHead(i) \/ WriteTail(i) PROVE IInv'
  BY <1>1, <1>7, WriteInvariant
<1>8. ASSUME NEW i \in Ingesters, Replace(i) PROVE IInv'
  BY <1>1, <1>8, ReplaceInvariant
<1>9. ASSUME NEW i \in Ingesters, Abort(i) PROVE IInv'
  BY <1>1, <1>9, AbortInvariant
<1>10. ASSUME NEW p \in Processes, Serve(p) \/ Stop(p) PROVE IInv'
  BY <1>1, <1>10, UntouchedInvariant DEF Serve, Stop
<1> QED
  BY <1>2, <1>3, <1>4, <1>5, <1>6, <1>7, <1>8, <1>9, <1>10 DEF Next

LEMMA Invariance ==
  ASSUME Exclusive
  PROVE  Spec => []IInv
<1>1. Init => IInv
  BY InitInvariant
<1>2. IInv /\ [Next]_vars => IInv'
  BY StepInvariant
<1> QED
  BY <1>1, <1>2, PTL DEF Spec

(* While runs do not overlap, the store can be loaded at every moment,      *)
(* whichever run failed or was killed before, and wherever.                *)
THEOREM AlwaysWhole ==
  ASSUME Exclusive
  PROVE  Spec => []PublishedIsWhole
<1>1. IInv => PublishedIsWhole
  BY DEF IInv, Names, PublishedIsWhole
<1> QED
  BY <1>1, Invariance, PTL

(* While runs do not overlap, a rebuild publishes exactly one batch of each  *)
(* source it was told to read, by its own embedder and no older than its    *)
(* start.                                                                  *)
THEOREM RebuildIsFresh ==
  ASSUME Exclusive
  PROVE  Spec => RebuildPublishesSources
<1> DEFINE Fresher(i) ==
             /\ Len(Published') = Len(run[i].sources)
             /\ \A k \in DOMAIN run[i].sources :
                  LET s == run[i].sources[k]
                  IN  /\ Published'[k].source = s
                      /\ Published'[k].embedder = run[i].embedder
                      /\ run[i].asOf[s] <= Published'[k].edition
<1>1. ASSUME IInv, NEW i \in Ingesters, Replace(i), run[i].mode = "rebuild"
      PROVE  Fresher(i)
  <2>1. Active(i) /\ Published' = run[i].batches
    BY <1>1, ReplacePublishes
  <2>2. Kept(i) = <<>> /\ Len(Kept(i)) = 0
    BY <1>1 DEF Kept
  <2>3. /\ ReadSoFar(run[i], Kept(i), edition)
        /\ run[i].next = Len(run[i].sources) + 1
    BY <1>1, <2>1 DEF IInv, Progress, Replace
  <2>4. /\ Len(run[i].sources) \in Nat
        /\ DOMAIN run[i].sources = 1..Len(run[i].sources)
    BY <1>1, <2>1, RunTypes, SelectedSources DEF IInv
  <2>5. /\ 0 + run[i].next - 1 = Len(run[i].sources)
        /\ \A k \in DOMAIN run[i].sources : 0 + k = k /\ k \in 1..(run[i].next - 1)
    BY <2>3, <2>4
  <2>6. \A k \in DOMAIN run[i].sources :
          /\ run[i].batches[k].source = run[i].sources[k]
          /\ run[i].batches[k].embedder = run[i].embedder
          /\ run[i].asOf[run[i].sources[k]] <= run[i].batches[k].edition
    BY <2>2, <2>3, <2>5 DEF ReadSoFar
  <2>7. Len(run[i].batches) = Len(run[i].sources)
    BY <2>2, <2>3, <2>5 DEF ReadSoFar
  <2> QED
    BY <2>1, <2>6, <2>7
<1>2. IInv =>
        \A i \in Ingesters : Replace(i) /\ run[i].mode = "rebuild" => Fresher(i)
  BY <1>1
<1> QED
  BY <1>2, Invariance, PTL DEF RebuildPublishesSources

-----------------------------------------------------------------------------
(* The refinement. *)

LEMMA InitImplements == Init => KB!Init
  BY DEF Init, KB!Init, Published, Unedited, KB!Unedited, Sources, KB!Sources, Down, KB!Down

LEMMA SameBatches ==
  /\ KB!Sources = Sources
  /\ KB!Down = Down
  /\ \A e, b : KB!Up(e, b) = Up(e, b)
  /\ KB!Selections = Selections
  /\ \A list, read, e : KB!Reading(list, read, e) = Reading(list, read, e)
  /\ \A latest : KB!ReadableUpTo(latest) = ReadableUpTo(latest)
  /\ \A read, b : KB!NoNewerThan(read, b) <=> NoNewerThan(read, b)
<1>1. KB!Sources = Sources
  BY DEF Sources, KB!Sources
<1>2. KB!Down = Down /\ \A e, b : KB!Up(e, b) = Up(e, b)
  BY DEF Down, KB!Down, Up, KB!Up
<1>3. \A list, read, e : KB!Reading(list, read, e) = Reading(list, read, e)
  BY DEF Reading, KB!Reading
<1>4. \A latest : KB!ReadableUpTo(latest) = ReadableUpTo(latest)
  BY <1>1 DEF ReadableUpTo, KB!ReadableUpTo
<1>5. \A read, b : KB!NoNewerThan(read, b) <=> NoNewerThan(read, b)
  BY DEF NoNewerThan, KB!NoNewerThan
<1>6. KB!Selections = Selections
  BY <1>1 DEF Selections, KB!Selections
<1> QED
  BY <1>1, <1>2, <1>3, <1>4, <1>5, <1>6

(* A finished run holds what it kept and a batch for each of its sources.    *)
LEMMA RunIsLong ==
  ASSUME IInv, NEW i \in Ingesters, Active(i), run[i].pc # "fetch"
  PROVE  Len(run[i].batches) = Len(Kept(i)) + Len(run[i].sources)
<1>1. /\ run[i].batches \in Store /\ run[i].sources \in Selections
      /\ ReadSoFar(run[i], Kept(i), edition)
      /\ run[i].next = Len(run[i].sources) + 1
  BY RunTypes DEF IInv, Progress
<1>2. Kept(i) \in Store /\ Len(run[i].sources) \in Nat
  BY <1>1, PublishedIsStore, EmptyStore, SelectedSources
     DEF Kept, IInv, Names, Store, TypeOK
<1> QED
  BY <1>1, <1>2 DEF ReadSoFar, Store

(* One reading of them, that is.                                            *)
LEMMA RunIsReading ==
  ASSUME IInv, NEW i \in Ingesters, Active(i), run[i].pc # "fetch"
  PROVE  \E read \in ReadableUpTo(edition) :
           /\ NoNewerThan(read, Published)
           /\ run[i].batches =
                Kept(i) \o Reading(run[i].sources, read, run[i].embedder)
<1> DEFINE k == Len(Kept(i))
           list == run[i].sources
           count == Len(list)
           place(s) == CHOOSE m \in 1..count : list[m] = s
           Listed == {list[m] : m \in 1..count}
           read == [s \in Sources |-> IF s \in Listed
                                        THEN run[i].batches[k + place(s)].edition
                                        ELSE edition[s]]
<1>1. /\ run[i].batches \in Store /\ run[i].embedder \in Embedders
      /\ run[i].asOf \in [Sources -> Nat] /\ list \in Selections
      /\ ReadSoFar(run[i], Kept(i), edition) /\ run[i].next = count + 1
  BY RunTypes DEF IInv, Progress
<1>2. /\ Published \in Store /\ Kept(i) \in Store /\ k \in Nat
      /\ edition \in [Sources -> Nat]
  BY PublishedIsStore, EmptyStore DEF Kept, IInv, Names, Store, TypeOK
<1>2a. /\ count \in Nat /\ DOMAIN list = 1..count
       /\ \A m \in 1..count : list[m] \in Sources
       /\ \A l, m \in 1..count : l < m => list[l] < list[m]
  BY <1>1, SelectedSources
<1>3. Len(run[i].batches) = k + count
  BY <1>1, <1>2, <1>2a DEF ReadSoFar
<1>4. ASSUME NEW m \in 1..count
      PROVE  /\ run[i].batches[k + m] \in Batch
             /\ run[i].batches[k + m].source = list[m]
             /\ run[i].batches[k + m].embedder = run[i].embedder
             /\ run[i].asOf[list[m]] <= run[i].batches[k + m].edition
             /\ run[i].batches[k + m].edition <= edition[list[m]]
  <2>1. m \in 1..(run[i].next - 1) /\ k + m \in 1..Len(run[i].batches)
    BY <1>1, <1>2, <1>2a, <1>3
  <2>2. run[i].batches[k + m] \in Batch
    BY <1>1, <2>1 DEF Store
  <2> QED
    BY <1>1, <2>1, <2>2 DEF ReadSoFar
<1>4a. ASSUME NEW m \in 1..count
       PROVE  list[m] \in Listed /\ read[list[m]] = run[i].batches[k + m].edition
  <2>1. \A l \in 1..count : list[l] = list[m] => l = m
    <3> SUFFICES ASSUME NEW l \in 1..count, l # m PROVE list[l] # list[m]
      OBVIOUS
    <3>1. list[l] \in Int /\ list[m] \in Int
      BY <1>2a, BatchesAssumption DEF Sources
    <3>2. l < m \/ m < l
      BY <1>2a
    <3>3. list[l] < list[m] \/ list[m] < list[l]
      BY <1>2a, <3>2
    <3> HIDE DEF list
    <3> QED
      BY <3>1, <3>3
  <2>2. place(list[m]) = m
    BY <2>1
  <2>3. list[m] \in Sources /\ list[m] \in Listed
    BY <1>2a
  <2> HIDE DEF place, Listed, list
  <2> QED
    BY <2>2, <2>3
<1>5. ASSUME NEW s \in Sources
      PROVE  /\ read[s] \in Nat
             /\ read[s] <= edition[s]
             /\ run[i].asOf[s] <= read[s]
  <2>1. edition[s] \in Nat /\ run[i].asOf[s] <= edition[s]
    BY <1>2 DEF IInv, Aging
  <2>2. CASE s \in Listed
    <3>1. PICK m \in 1..count : s = list[m]
      BY <2>2
    <3>2. read[s] = run[i].batches[k + m].edition
      BY <1>4a, <3>1
    <3>3. run[i].batches[k + m].edition \in Nat
      BY <1>4 DEF Batch
    <3> HIDE DEF read, list, k
    <3> QED
      BY <1>4, <3>1, <3>2, <3>3
  <2>3. CASE s \notin Listed
    <3>1. read[s] = edition[s]
      BY <2>3
    <3> HIDE DEF read
    <3> QED
      BY <2>1, <3>1
  <2> QED
    BY <2>2, <2>3
<1>6. read \in ReadableUpTo(edition)
  <2>2. read = [s \in Sources |-> read[s]]
    OBVIOUS
  <2> HIDE DEF read
  <2>1. \A s \in Sources : read[s] \in 0..edition[s]
    <3>1. \A s \in Sources : edition[s] \in Nat /\ read[s] \in Nat /\ read[s] <= edition[s]
      BY <1>2, <1>5
    <3> QED
      BY <3>1
  <2>3. read \in [Sources -> UNION {0..edition[t] : t \in Sources}]
    BY <2>1, <2>2
  <2> QED
    BY <1>5, <2>3 DEF ReadableUpTo
<1>7. NoNewerThan(read, Published)
  <2> SUFFICES ASSUME NEW n \in DOMAIN Published
               PROVE  Published[n].edition <= read[Published[n].source]
    BY DEF NoNewerThan
  <2>1. Published[n] \in Batch
    BY <1>2 DEF Store
  <2>2. Published[n].source \in Sources /\ Published[n].edition \in Nat
    BY <2>1 DEF Batch
  <2>3. Published[n].edition <= run[i].asOf[Published[n].source]
    BY DEF IInv, Aging, NoNewerThan
  <2>4. /\ run[i].asOf[Published[n].source] \in Nat
        /\ run[i].asOf[Published[n].source] <= read[Published[n].source]
        /\ read[Published[n].source] \in Nat
    BY <1>1, <1>5, <2>2
  <2> HIDE DEF read
  <2> QED
    BY <2>2, <2>3, <2>4
<1>8. run[i].batches = Kept(i) \o Reading(list, read, run[i].embedder)
  <2> DEFINE new == Reading(list, read, run[i].embedder)
  <2>1. new = [m \in 1..count |-> [source |-> list[m], edition |-> read[list[m]],
                                    embedder |-> run[i].embedder]]
    BY <1>2a DEF Reading
  <2> HIDE DEF read, new, list, k
  <2>2. \A m \in 1..count :
          new[m] = [source |-> list[m], edition |-> read[list[m]],
                    embedder |-> run[i].embedder]
    BY <2>1
  <2>3. \A m \in 1..count : new[m] \in Batch
    <3>1. \A m \in 1..count : list[m] \in Sources /\ read[list[m]] \in Nat
      BY <1>2a, <1>5
    <3>2. \A m \in 1..count :
            [source |-> list[m], edition |-> read[list[m]],
             embedder |-> run[i].embedder] \in Batch
      BY <1>1, <3>1 DEF Batch
    <3> HIDE DEF count
    <3> QED
      BY <2>2, <3>2
  <2>4. new \in Seq(Batch) /\ Len(new) = count
    <3>1. new \in [1..count -> Batch]
      BY <2>1, <2>3
    <3> QED
      BY <1>2a, <3>1
  <2>5. \A m \in 1..count : new[m] = run[i].batches[k + m]
    BY <1>4, <1>4a, <2>2 DEF Batch
  <2> HIDE DEF count
  <2>6. Kept(i) \o new \in Seq(Batch) /\ Len(Kept(i) \o new) = k + count
    BY <1>2, <2>4 DEF Store, k
  <2>7. ASSUME NEW n \in 1..(k + count)
        PROVE  run[i].batches[n] = (Kept(i) \o new)[n]
    <3>1. CASE n <= k
      <4>1. n \in 1..k
        BY <1>2, <1>2a, <2>7, <3>1
      <4>2. (Kept(i) \o new)[n] = Kept(i)[n]
        BY <1>2, <2>4, <4>1 DEF Store, k
      <4> QED
        BY <1>1, <4>1, <4>2 DEF ReadSoFar, k
    <3>2. CASE n > k
      <4>1. n - k \in 1..count /\ k + (n - k) = n
        BY <1>2, <1>2a, <2>7, <3>2
      <4>2. (Kept(i) \o new)[n] = new[n - k]
        BY <1>2, <1>2a, <2>4, <2>7, <3>2 DEF Store, k
      <4> QED
        BY <2>5, <4>1, <4>2
    <3>3. n <= k \/ n > k
      BY <1>2, <1>2a, <2>7
    <3> QED
      BY <3>1, <3>2, <3>3
  <2>8. run[i].batches \in Seq(Batch)
    BY <1>1 DEF Store
  <2>9. run[i].batches = Kept(i) \o new
    BY <1>3, <2>6, <2>7, <2>8, SeqEqual
  <2> QED
    BY <2>9 DEF new
<1> QED
  BY <1>6, <1>7, <1>8

LEMMA StepImplements ==
  ASSUME IInv, IInv', [Next]_vars
  PROVE  [KB!Next]_(KB!vars)
<1>1. CASE UNCHANGED vars
  <2>1. Published' = Published
    BY <1>1, PublishedStays DEF vars
  <2> QED
    BY <1>1, <2>1 DEF vars, KB!vars
<1>2. ASSUME NEW s \in Sources, Edit(s) PROVE KB!Next
  <2>1. Published' = Published
    BY <1>2, PublishedStays DEF Edit
  <2>2. KB!Edit
    BY <1>2, <2>1, SameBatches DEF Edit, KB!Edit
  <2> QED
    BY <2>2 DEF KB!Next
<1>3. ASSUME NEW i \in Ingesters, Start(i) \/ Fetch(i) \/ Abort(i)
      PROVE  UNCHANGED KB!vars
  <2>1. UNCHANGED <<edition, files, path, serving>>
    BY <1>3 DEF Start, Fetch, Abort
  <2>2. Published' = Published
    BY <2>1, PublishedStays
  <2> QED
    BY <2>1, <2>2 DEF KB!vars
<1>4. ASSUME NEW i \in Ingesters, Open(i) PROVE UNCHANGED KB!vars
  <2>1. UNCHANGED <<edition, path, serving>>
    BY <1>4 DEF Open
  <2>2. path # 0 => files'[path] = files[path]
    <3>1. path \in 0..Len(files) /\ tmp \in 0..Len(files) /\ (path # 0 => tmp # path)
      BY DEF IInv, TypeOK, Names
    <3>2. CASE tmp = 0
      BY <1>4, <3>1, <3>2, NewFile DEF Open, IInv
    <3>3. CASE tmp # 0
      <4>1. tmp \in 1..Len(files) /\ files' = [files EXCEPT ![tmp] = Blank]
        BY <1>4, <3>1, <3>3 DEF Open
      <4> QED
        BY <3>1, <4>1, EmptiedFile DEF IInv
    <3> QED
      BY <3>2, <3>3
  <2>3. Published' = Published
    BY <2>1, <2>2, PublishedStays
  <2> QED
    BY <2>1, <2>3 DEF KB!vars
<1>5. ASSUME NEW i \in Ingesters, WriteHead(i) \/ WriteTail(i) PROVE UNCHANGED KB!vars
  <2>1. UNCHANGED <<edition, path, serving>>
    BY <1>5 DEF WriteHead, WriteTail
  <2>2. run[i].file = tmp /\ tmp \in 1..Len(files) /\ run[i].batches \in Store
    <3>1. Active(i) /\ run[i].pc # "fetch"
      BY <1>5 DEF WriteHead, WriteTail, Active
    <3>2. run[i].file = tmp
      BY <3>1 DEF IInv, Names
    <3> QED
      BY <3>1, <3>2, RunTypes DEF IInv
  <2>3. PICK n \in 1..Len(files) : n = tmp
    BY <2>2
  <2>4. PICK m \in 1..2 : files' = [files EXCEPT ![n][m] = <<run[i].batches>>]
    BY <1>5, <2>2, <2>3 DEF WriteHead, WriteTail
  <2>5. \A l \in 1..Len(files) : l # n => files'[l] = files[l]
    BY <2>2, <2>4, WrittenFile DEF IInv
  <2>6. path # 0 => files'[path] = files[path]
    BY <2>3, <2>5 DEF IInv, TypeOK, Names
  <2>7. Published' = Published
    BY <2>1, <2>6, PublishedStays
  <2> QED
    BY <2>1, <2>7 DEF KB!vars
<1>6. ASSUME NEW i \in Ingesters, Replace(i) PROVE KB!Next
  <2>1. /\ Active(i) /\ run[i].pc # "fetch" /\ Published' = run[i].batches
        /\ UNCHANGED <<edition, serving>>
    BY <1>6, ReplacePublishes DEF Replace
  <2>2. PICK read \in ReadableUpTo(edition) :
           /\ NoNewerThan(read, Published)
           /\ run[i].batches =
                Kept(i) \o Reading(run[i].sources, read, run[i].embedder)
    BY <2>1, RunIsReading
  <2>3. /\ run[i].embedder \in Embedders /\ Kept(i) \in {<<>>, Published}
        /\ run[i].sources \in Selections
    BY <2>1, RunTypes DEF IInv, Kept
  <2>4. Len(run[i].batches) = Len(Kept(i)) + Len(run[i].sources)
    BY <2>1, RunIsLong
  <2>5. KB!Publish
    BY <2>1, <2>2, <2>3, <2>4, SameBatches DEF KB!Publish
  <2> QED
    BY <2>5 DEF KB!Next
<1>7. ASSUME NEW p \in Processes, Serve(p) PROVE KB!Next
  <2>1. Published' = Published
    BY <1>7, PublishedStays DEF Serve
  <2>2. KB!Serve(p)
    BY <1>7, <2>1, SameBatches DEF Serve, KB!Serve
  <2> QED
    BY <2>2 DEF KB!Next
<1>8. ASSUME NEW p \in Processes, Stop(p) PROVE KB!Next
  <2>1. Published' = Published
    BY <1>8, PublishedStays DEF Stop
  <2>2. KB!Stop(p)
    BY <1>8, <2>1, SameBatches DEF Stop, KB!Stop
  <2> QED
    BY <2>2 DEF KB!Next
<1> QED
  BY <1>1, <1>2, <1>3, <1>4, <1>5, <1>6, <1>7, <1>8 DEF Next

(* While runs do not overlap, files, renames and crashes add up to the      *)
(* knowledge base that KnowledgeBase promises: publications are atomic,     *)
(* complete and never older than the last.                                 *)
THEOREM Implementation ==
  ASSUME Exclusive
  PROVE  Spec => ImplementsKnowledgeBase
<1>1. Init => KB!Init
  BY InitImplements
<1>2. IInv /\ IInv' /\ [Next]_vars => [KB!Next]_(KB!vars)
  BY StepImplements
<1> QED
  BY <1>1, <1>2, Invariance, PTL DEF Spec, ImplementsKnowledgeBase, KB!Spec

-----------------------------------------------------------------------------
(* What a search relies on. *)

LEMMA Smallest ==
  ASSUME NEW T \in SUBSET Nat, T # {}
  PROVE  \E n \in T : \A m \in T : n <= m
<1> DEFINE less == OpToRel(<, Nat)
<1>1. ASSUME NEW m \in Nat, NEW n \in Nat, m < n PROVE <<m, n>> \in less
  <2>1. <<m, n>> \in {p \in Nat \X Nat : p[1] < p[2]}
    BY <1>1
  <2>2. <<m, n>> \in Nat \X Nat
    OBVIOUS
  <2> QED
    BY <1>1, <2>1, <2>2, Zenon DEF OpToRel
<1>2. IsWellFoundedOn(less, Nat)
  BY NatLessThanWellFounded
<1> HIDE DEF less
<1>3. PICK n \in T : \A m \in T : ~(<<m, n>> \in less)
  BY <1>2, WFMin
<1>4. \A m \in T : ~(m < n)
  BY <1>1, <1>3
<1> QED
  BY <1>4

(* A search that fails on uneven vectors has met chunks of two widths.      *)
LEMMA UnevenHasTwoWidths ==
  ASSUME NEW b \in Store, Uneven(b)
  PROVE  \E n, m \in Chunked(b) : Width[b[n].embedder] # Width[b[m].embedder]
<1> DEFINE chunked == Chunked(b)
           width(n) == Width[b[n].embedder]
<1>1. PICK e \in Embedders : Search([embedder |-> e, batches |-> b]) = "uneven"
  BY DEF Uneven
<1>2. /\ chunked # {}
      /\ width(First(chunked)) = Width[e]
      /\ \E n \in chunked : width(n) # Width[e]
  BY <1>1 DEF Search
<1>3. First(chunked) \in chunked
  <2>1. chunked \in SUBSET Nat
    BY DEF Chunked, Store
  <2>2. \E n \in chunked : \A m \in chunked : n <= m
    BY <1>2, <2>1, Smallest
  <2> QED
    BY <2>2 DEF First
<1> QED
  BY <1>2, <1>3

(* While runs do not overlap, a run publishes a store in which a search     *)
(* fails on uneven vectors only with --append, and by adding to chunks of   *)
(* another width: _check_dim, which looks at one chunk, is enough for a     *)
(* store that was rebuilt, whatever sources each run was told to read.     *)
THEOREM EvenUnlessAppended ==
  ASSUME Exclusive
  PROVE  Spec => UnevenOnlyByAppend
<1> DEFINE Widened(i) ==
             /\ run[i].mode = "append"
             /\ \E n \in Chunked(Published) :
                  Width[Published[n].embedder] # Width[run[i].embedder]
<1>1. ASSUME IInv, NEW i \in Ingesters, Replace(i), Uneven(Published')
      PROVE  Widened(i)
  <2> DEFINE b == run[i].batches
             k == Len(Kept(i))
  <2>1. Active(i) /\ Published' = b /\ b \in Store
    BY <1>1, ReplacePublishes, RunTypes DEF IInv
  <2>2. /\ ReadSoFar(run[i], Kept(i), edition)
        /\ run[i].next = Len(run[i].sources) + 1 /\ Len(run[i].sources) \in Nat
    BY <1>1, <2>1, RunTypes DEF IInv, Progress, Replace
  <2>3. Kept(i) \in Store /\ k \in Nat
    BY <1>1, PublishedIsStore, EmptyStore DEF Kept, IInv, Names, Store
  <2>4. PICK n \in Chunked(b) : Width[b[n].embedder] # Width[run[i].embedder]
    <3>1. PICK l, m \in Chunked(b) : Width[b[l].embedder] # Width[b[m].embedder]
      BY <1>1, <2>1, UnevenHasTwoWidths
    <3> QED
      BY <3>1
  <2>5. n \in 1..(k + Len(run[i].sources)) /\ b[n].edition > 0
    BY <2>1, <2>2, <2>3 DEF Chunked, ReadSoFar, Store
  <2>6. n \in 1..k
    <3> SUFFICES ASSUME n > k PROVE FALSE
      BY <2>3, <2>5
    <3>1. n - k \in 1..(run[i].next - 1) /\ k + (n - k) = n
      BY <2>2, <2>3, <2>5
    <3>2. b[n].embedder = run[i].embedder
      BY <2>2, <3>1 DEF ReadSoFar
    <3> QED
      BY <2>4, <3>2
  <2>7. run[i].mode = "append" /\ Kept(i) = Published
    BY <2>6, EmptyStore DEF Kept
  <2>8. b[n] = Published[n]
    BY <2>2, <2>6, <2>7 DEF ReadSoFar
  <2>9. n \in Chunked(Published)
    BY <2>3, <2>5, <2>6, <2>7, <2>8 DEF Chunked, Store
  <2> QED
    BY <2>4, <2>7, <2>8, <2>9
<1>2. IInv => \A i \in Ingesters : Replace(i) /\ Uneven(Published') => Widened(i)
  BY <1>1
<1> QED
  BY <1>2, Invariance, PTL DEF UnevenOnlyByAppend
=============================================================================
