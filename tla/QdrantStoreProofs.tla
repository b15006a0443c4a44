-------------------------- MODULE QdrantStoreProofs --------------------------
(***************************************************************************)
(* Proofs about QdrantStore, for any sources, embedders, texts, windows,    *)
(* processes and places to run an ingestion from, and any number of runs,   *)
(* overlapping or not.                                                     *)
(***************************************************************************)
EXTENDS QdrantStore, SequenceTheorems, TLAPS

-----------------------------------------------------------------------------
(* Chunks: what chunk_text does with a text of any length, for any size of   *)
(* its windows and any overlap.                                            *)

(* Division by a positive number. *)
LEMMA Division ==
  ASSUME NEW n \in Nat, NEW d \in Nat \ {0}
  PROVE  /\ n \div d \in Nat
         /\ (n \div d) * d <= n
         /\ n < (n \div d) * d + d
  OBVIOUS

(* The windows start at least one character apart, and no further than      *)
(* their overlap allows.                                                   *)
LEMMA StepType ==
  ASSUME NEW size \in Nat \ {0}, NEW overlap \in Nat
  PROVE  /\ Step(size, overlap) \in Nat \ {0}
         /\ Step(size, overlap) <= size
         /\ overlap < size => Step(size, overlap) + overlap = size
  BY DEF Step

(* A window starts at every multiple of the step that lies in the text, and  *)
(* nowhere else.                                                           *)
LEMMA PiecesStartInText ==
  ASSUME NEW length \in Nat, NEW size \in Nat \ {0}, NEW overlap \in Nat,
         NEW piece \in Nat
  PROVE  piece \in 0 .. PieceCount(length, size, overlap) - 1
           <=> piece * Step(size, overlap) < length
<1> DEFINE step == Step(size, overlap)
           count == (length + step - 1) \div step
<1>1. step \in Nat \ {0}
  BY StepType
<1> HIDE DEF step
<1>2. /\ count \in Nat
      /\ count * step <= length + step - 1
      /\ length + step - 1 < count * step + step
  BY <1>1, Division
<1> HIDE DEF count
<1>3. ASSUME piece < count PROVE piece * step < length
  <2>1. (piece + 1) * step <= count * step
    BY <1>1, <1>2, <1>3
  <2>2. (piece + 1) * step = piece * step + step
    BY <1>1
  <2> QED
    BY <1>1, <1>2, <2>1, <2>2
<1>4. ASSUME piece >= count PROVE piece * step >= length
  <2>1. piece * step >= count * step
    BY <1>1, <1>2, <1>4
  <2> QED
    BY <1>1, <1>2, <2>1
<1>5. piece < count <=> piece * step < length
  <2>1. piece * step \in Nat
    BY <1>1
  <2> QED
    BY <1>1, <1>2, <1>3, <1>4, <2>1
<1> QED
  BY <1>2, <1>5 DEF PieceCount, step, count

(* The window that begins at or before an offset, within a step of it,       *)
(* holds a phrase that begins there and is not longer than the overlap and   *)
(* one character.                                                           *)
LEMMA WindowHolds ==
  ASSUME NEW length \in Nat, NEW size \in Nat \ {0},
         NEW overlap \in 0 .. size - 1,
         NEW first \in 0 .. length - 1, NEW last \in first .. first + overlap,
         last < length
  PROVE  first .. last \subseteq
           Window(first \div Step(size, overlap), length, size, overlap)
<1> DEFINE step == Step(size, overlap)
           start == (first \div step) * step
<1>1. /\ step \in Nat \ {0}
      /\ step + overlap = size
  BY StepType
<1> HIDE DEF step
<1>2. /\ start \in Nat
      /\ start <= first
      /\ first < start + step
  BY <1>1, Division
<1> HIDE DEF start
<1>3. \A offset \in first .. last : offset \in start .. start + size - 1 /\ offset < length
  BY <1>1, <1>2
<1> QED
  BY <1>3 DEF Window, start, step

(* A phrase of a text, wherever it stands, is whole in one of the pieces     *)
(* chunk_text returns, unless it is longer than the overlap of two windows   *)
(* and one character.  For the defaults, 800 and 100: 101 characters.        *)
THEOREM PhraseInOnePiece ==
  ASSUME NEW length \in Nat, NEW size \in Nat \ {0},
         NEW overlap \in 0 .. size - 1,
         NEW first \in 0 .. length - 1, NEW last \in first .. first + overlap,
         last < length
  PROVE  WholeIn(0 .. PieceCount(length, size, overlap) - 1, first, last,
                 length, size, overlap)
<1> DEFINE piece == first \div Step(size, overlap)
<1>1. Step(size, overlap) \in Nat \ {0}
  BY StepType
<1>2. /\ piece \in Nat
      /\ piece * Step(size, overlap) <= first
  BY <1>1, Division
<1>3. piece * Step(size, overlap) < length
  BY <1>1, <1>2
<1>4. piece \in 0 .. PieceCount(length, size, overlap) - 1
  BY <1>2, <1>3, PiecesStartInText
<1> QED
  BY <1>4, WindowHolds DEF WholeIn

(* No character is left out: every piece but the first begins where the one  *)
(* before it has not ended yet, and the last reaches the end.                *)
THEOREM PiecesCoverText ==
  ASSUME NEW length \in Nat, NEW size \in Nat \ {0}, NEW overlap \in Nat,
         NEW offset \in 0 .. length - 1
  PROVE  \E piece \in 0 .. PieceCount(length, size, overlap) - 1 :
           offset \in Window(piece, length, size, overlap)
<1> DEFINE step == Step(size, overlap)
           piece == offset \div step
           start == piece * step
<1>1. step \in Nat \ {0} /\ step <= size
  BY StepType
<1> HIDE DEF step
<1>2. /\ piece \in Nat
      /\ start <= offset
      /\ offset < start + step
  BY <1>1, Division
<1>3. start \in Nat
  BY <1>1, <1>2
<1>4. piece \in 0 .. PieceCount(length, size, overlap) - 1
  <2>1. start < length
    BY <1>2, <1>3
  <2> QED
    BY <1>2, <2>1, PiecesStartInText DEF start, step
<1>5. offset \in start .. start + size - 1
  BY <1>1, <1>2, <1>3
<1> QED
  BY <1>4, <1>5 DEF Window, start, step

-----------------------------------------------------------------------------
(* Types.                                                                   *)

Collections ==
  {Missing} \cup [there : {TRUE}, width : Nat,
                  points : UNION {[S -> Point] : S \in SUBSET Id}]

(* What the server holds was there to be read. *)
Served(c, latest) ==
  /\ c \in Collections
  /\ c.there =>
       \A id \in DOMAIN c.points :
         /\ c.points[id].edition <= latest[id[1]]
         /\ id[2] < Pieces(c.points[id].edition)
         /\ Width[c.points[id].embedder] = c.width

(* A run stays within the sources and their pieces, and has read nothing    *)
(* before it has cleared.  What TypeOK lacks to be inductive is that no     *)
(* source is older than the run.                                           *)
Sound(r, latest) ==
  /\ r \in Run
  /\ \A s \in Sources : r.asOf[s] <= latest[s]
  /\ Current(r) \in 0..SourceCount
  /\ \A s \in 1..Current(r) : r.read[s] \in r.asOf[s]..latest[s]
  /\ r.pc \in {"clear", "delete"} => r.read = <<>>
  /\ r.pc \in {"ensure", "create", "upsert"} =>
       /\ Current(r) > 0
       /\ r.piece < Pieces(r.read[Current(r)])

Domains ==
  /\ edition \in [Sources -> 0..MaxEdition]
  /\ Served(collection, edition)
  /\ runs \in 0..MaxRuns
  /\ run \in [Ingesters -> {Idle} \cup Run]
  /\ \A i \in Ingesters : Active(i) => Sound(run[i], edition)
  /\ request \in [Processes -> Request]
  /\ disturbed \in [Processes -> BOOLEAN]

LEMMA PiecesType == ASSUME NEW n \in 0..MaxEdition PROVE Pieces(n) \in Nat
<1>1. Length[n] \in Nat /\ Size \in Nat \ {0} /\ Overlap \in Nat
  BY QdrantStoreAssumption
<1> DEFINE step == Step(Size, Overlap)
<1>2. step \in Nat \ {0}
  BY <1>1, StepType
<1> HIDE DEF step
<1>3. Length[n] + step - 1 \in Nat
  BY <1>1, <1>2
<1>4. (Length[n] + step - 1) \div step \in Nat
  BY <1>2, <1>3, Division
<1> QED
  BY <1>4 DEF Pieces, PieceCount, step

LEMMA Actives ==
  ASSUME Domains, NEW i \in Ingesters
  PROVE  /\ Active(i) <=> run[i] # Idle
         /\ Active(i) => /\ Sound(run[i], edition) /\ run[i] \in Run
                         /\ Current(run[i]) = Len(run[i].read)
                         /\ run[i].read \in Seq(0..MaxEdition)
                         /\ run[i].piece \in Nat
                         /\ run[i].embedder \in Embedders
<1>1. run[i] \in {Idle} \cup Run
  BY DEF Domains
<1>2. run[i] \in Run => run[i].pc # "idle"
  BY DEF Run
<1>3. Idle.pc = "idle"
  BY DEF Idle
<1>4. Active(i) <=> run[i] # Idle
  BY <1>1, <1>2, <1>3 DEF Active
<1>5. Active(i) => Sound(run[i], edition)
  BY DEF Domains
<1> QED
  BY <1>1, <1>4, <1>5 DEF Current, Run

(* What the server holds, and what TypeOK says of it. *)
LEMMA Holdings ==
  ASSUME NEW c \in Collections
  PROVE  /\ c.there \in BOOLEAN
         /\ c.there =>
              /\ c.width \in Nat
              /\ DOMAIN c.points \subseteq Id
              /\ \A id \in DOMAIN c.points : c.points[id] \in Point
         /\ ~c.there => c = Missing
<1>1. CASE c = Missing
  BY <1>1 DEF Missing
<1>2. CASE c # Missing
  <2>1. c \in [there : {TRUE}, width : Nat,
               points : UNION {[S -> Point] : S \in SUBSET Id}]
    BY <1>2 DEF Collections
  <2>2. PICK S \in SUBSET Id : c.points \in [S -> Point]
    BY <2>1
  <2> QED
    BY <2>1, <2>2
<1> QED
  BY <1>1, <1>2

LEMMA EmptyHoldings ==
  ASSUME NEW width \in Nat, NEW latest
  PROVE  /\ Served(Empty(width), latest) /\ Served(Missing, latest)
         /\ Empty(width).there /\ Empty(width).width = width
         /\ DOMAIN Empty(width).points = {}
         /\ ~Missing.there
<1>1. [id \in {} |-> id] \in [{} -> Point]
  OBVIOUS
<1>2. [id \in {} |-> id] \in UNION {[S -> Point] : S \in SUBSET Id}
  BY <1>1
<1>3. /\ Empty(width).there /\ Empty(width).width = width
      /\ Empty(width).points = [id \in {} |-> id]
  BY DEF Empty
<1>4. Empty(width) \in Collections
  BY <1>2 DEF Empty, Collections
<1>5. DOMAIN Empty(width).points = {}
  BY <1>3
<1>6. Missing \in Collections /\ ~Missing.there
  BY DEF Missing, Collections
<1> QED
  BY <1>3, <1>4, <1>5, <1>6 DEF Served

LEMMA DomainsType == Domains => TypeOK
<1> SUFFICES ASSUME Domains PROVE TypeOK
  OBVIOUS
<1>1. collection \in Collections /\ Served(collection, edition)
  BY DEF Domains, Served
<1>2. Exists => /\ collection.width \in Nat /\ Contents = collection.points
                /\ DOMAIN collection.points \subseteq Id
                /\ \A id \in DOMAIN collection.points : collection.points[id] \in Point
  BY <1>1, Holdings DEF Exists, Contents
<1>3. ~Exists => DOMAIN Contents = {}
  BY DEF Contents
<1>4. \A id \in DOMAIN Contents :
       /\ id \in Id
       /\ Contents[id] \in Point
       /\ Contents[id].edition <= edition[id[1]]
       /\ id[2] < Pieces(Contents[id].edition)
       /\ Width[Contents[id].embedder] = collection.width
  BY <1>1, <1>2, <1>3 DEF Served, Exists
<1>5. ASSUME NEW i \in Ingesters, Active(i)
      PROVE  /\ \A s \in 1..Current(run[i]) :
                  s <= SourceCount /\ run[i].read[s] \in run[i].asOf[s]..edition[s]
             /\ run[i].pc \in {"ensure", "create", "upsert"} =>
                  /\ Current(run[i]) > 0
                  /\ run[i].piece < Pieces(run[i].read[Current(run[i])])
  <2>1. Sound(run[i], edition)
    BY <1>5 DEF Domains
  <2>2. Current(run[i]) \in 0..SourceCount /\ SourceCount \in Nat
    BY <2>1, BatchesAssumption DEF Sound
  <2>3. \A s \in 1..Current(run[i]) : s <= SourceCount
    BY <2>2
  <2> QED
    BY <2>1, <2>3 DEF Sound
<1> QED
  BY <1>2, <1>4, <1>5 DEF Domains, TypeOK

LEMMA InitDomains == Init => Domains
<1> SUFFICES ASSUME Init PROVE Domains
  OBVIOUS
<1>1. edition \in [Sources -> 0..MaxEdition]
  BY QdrantStoreAssumption DEF Init, Unedited
<1>2. Served(collection, edition)
  BY EmptyHoldings DEF Init
<1>3. runs \in 0..MaxRuns
  BY QdrantStoreAssumption DEF Init
<1>4. \A i \in Ingesters : run[i] = Idle /\ ~Active(i)
  BY DEF Init, Active, Idle
<1>5. run \in [Ingesters -> {Idle} \cup Run]
  BY DEF Init
<1>6. request \in [Processes -> Request] /\ disturbed \in [Processes -> BOOLEAN]
  BY DEF Init, Request
<1> QED
  BY <1>1, <1>2, <1>3, <1>4, <1>5, <1>6 DEF Domains

(* A run with another place in its program. *)
LEMMA Moved ==
  ASSUME NEW r \in Run,
         NEW pc \in {"clear", "delete", "fetch", "ensure", "create", "upsert"}
  PROVE  LET m == [r EXCEPT !.pc = pc]
         IN  /\ m \in Run /\ m.pc = pc /\ m.mode = r.mode /\ m.embedder = r.embedder
             /\ m.read = r.read /\ m.piece = r.piece /\ m.asOf = r.asOf
             /\ m.alone = r.alone /\ m.dropped = r.dropped
  BY DEF Run

LEMMA MovedSound ==
  ASSUME NEW r, NEW latest, Sound(r, latest),
         NEW pc \in {"clear", "delete", "fetch", "ensure", "create", "upsert"},
         pc \in {"clear", "delete"} => r.read = <<>>,
         pc \in {"ensure", "create", "upsert"} =>
           r.pc \in {"ensure", "create", "upsert"}
  PROVE  Sound([r EXCEPT !.pc = pc], latest)
<1> DEFINE m == [r EXCEPT !.pc = pc]
<1>1. /\ m \in Run /\ m.pc = pc /\ m.read = r.read /\ m.piece = r.piece
      /\ m.asOf = r.asOf
  BY Moved, ZenonT(40) DEF Sound
<1> HIDE DEF m
<1>2. Sound(m, latest)
  BY <1>1 DEF Sound, Current
<1> QED
  BY <1>2 DEF m

(* A run about which another one has left a note. *)
LEMMA Noted ==
  ASSUME NEW r \in Run
  PROVE  LET m == [r EXCEPT !.alone = FALSE]
             d == [r EXCEPT !.dropped = TRUE]
         IN  /\ m \in Run /\ m.pc = r.pc /\ m.mode = r.mode /\ m.embedder = r.embedder
             /\ m.read = r.read /\ m.piece = r.piece /\ m.asOf = r.asOf
             /\ m.alone = FALSE /\ m.dropped = r.dropped
             /\ d \in Run /\ d.pc = r.pc /\ d.mode = r.mode /\ d.embedder = r.embedder
             /\ d.read = r.read /\ d.piece = r.piece /\ d.asOf = r.asOf
             /\ d.alone = r.alone /\ d.dropped = TRUE
  BY DEF Run

LEMMA NotedSound ==
  ASSUME NEW r, NEW latest, Sound(r, latest)
  PROVE  Sound([r EXCEPT !.alone = FALSE], latest)
         /\ Sound([r EXCEPT !.dropped = TRUE], latest)
<1> DEFINE m == [r EXCEPT !.alone = FALSE]
           d == [r EXCEPT !.dropped = TRUE]
<1>1. /\ m \in Run /\ m.pc = r.pc /\ m.read = r.read /\ m.piece = r.piece
      /\ m.asOf = r.asOf
      /\ d \in Run /\ d.pc = r.pc /\ d.read = r.read /\ d.piece = r.piece
      /\ d.asOf = r.asOf
  BY Noted DEF Sound
<1> HIDE DEF m, d
<1>2. Sound(m, latest) /\ Sound(d, latest)
  BY <1>1 DEF Sound, Current
<1> QED
  BY <1>2 DEF m, d

(* What a run is after it has read its next source. *)
Fetched(r, now) ==
  [r EXCEPT !.read = Append(@, now), !.piece = 0,
            !.pc = IF Pieces(now) = 0 THEN "fetch" ELSE "ensure"]

LEMMA FetchedIs ==
  ASSUME NEW r \in Run, NEW now \in 0..MaxEdition
  PROVE  LET m == Fetched(r, now)
         IN  /\ m \in Run /\ m.mode = r.mode /\ m.embedder = r.embedder
             /\ m.asOf = r.asOf /\ m.alone = r.alone /\ m.dropped = r.dropped
             /\ m.piece = 0
             /\ m.pc = IF Pieces(now) = 0 THEN "fetch" ELSE "ensure"
             /\ Current(r) \in Nat
             /\ Current(m) = Current(r) + 1
             /\ m.read[Current(r) + 1] = now
             /\ \A s \in 1..Current(r) : m.read[s] = r.read[s]
<1>1. r.read \in Seq(0..MaxEdition)
  BY DEF Run
<1> DEFINE more == Append(r.read, now)
<1>2. /\ more \in Seq(0..MaxEdition) /\ Len(r.read) \in Nat
      /\ Len(more) = Len(r.read) + 1 /\ more[Len(r.read) + 1] = now
      /\ \A s \in 1..Len(r.read) : more[s] = r.read[s]
  BY <1>1
<1> HIDE DEF more
<1> DEFINE pc == IF Pieces(now) = 0 THEN "fetch" ELSE "ensure"
<1>3. /\ Fetched(r, now) = [r EXCEPT !.read = more, !.piece = 0, !.pc = pc]
      /\ pc \in {"fetch", "ensure"}
  BY DEF Fetched, more, Run
<1> HIDE DEF pc
<1> DEFINE S == Seq(0..MaxEdition)
<1>4. Run = [pc : {"clear", "delete", "fetch", "ensure", "create", "upsert"},
             mode : Modes, embedder : Embedders, read : S, piece : Nat,
             asOf : [Sources -> Nat], alone : BOOLEAN, dropped : BOOLEAN]
  BY DEF Run
<1>5. more \in S
  BY <1>2
<1> HIDE DEF S
<1>6. Fetched(r, now) \in Run
  <2> DEFINE r1 == [r EXCEPT !.read = more]
             r2 == [r1 EXCEPT !.piece = 0]
  <2>1. r1 \in Run
    BY <1>4, <1>5
  <2> HIDE DEF r1
  <2>2. r2 \in Run
    BY <1>4, <2>1
  <2>3. Fetched(r, now) = [r2 EXCEPT !.pc = pc]
    BY <1>3, <1>4 DEF r1
  <2> HIDE DEF r2
  <2> QED
    BY <1>3, <1>4, <2>2, <2>3
<1>7. /\ Fetched(r, now).mode = r.mode /\ Fetched(r, now).embedder = r.embedder
      /\ Fetched(r, now).asOf = r.asOf /\ Fetched(r, now).alone = r.alone
      /\ Fetched(r, now).dropped = r.dropped
      /\ Fetched(r, now).piece = 0
      /\ Fetched(r, now).pc = pc
      /\ Fetched(r, now).read = more
  BY <1>3, <1>4
<1> QED
  BY <1>2, <1>6, <1>7 DEF Current, pc

LEMMA FetchedSound ==
  ASSUME NEW r, NEW latest \in [Sources -> 0..MaxEdition], Sound(r, latest),
         Current(r) < SourceCount
  PROVE  Sound(Fetched(r, latest[Current(r) + 1]), latest)
<1> DEFINE s1 == Current(r) + 1
           now == latest[s1]
           m == Fetched(r, now)
<1>1. Current(r) \in 0..SourceCount /\ SourceCount \in Nat /\ r \in Run
  BY BatchesAssumption DEF Sound
<1>2. s1 \in Sources /\ now \in 0..MaxEdition
  BY <1>1 DEF Sources
<1>3. /\ m \in Run /\ m.asOf = r.asOf /\ m.piece = 0
      /\ m.pc = IF Pieces(now) = 0 THEN "fetch" ELSE "ensure"
      /\ Current(m) = s1 /\ m.read[s1] = now
      /\ \A s \in 1..Current(r) : m.read[s] = r.read[s]
  BY <1>1, <1>2, FetchedIs
<1>4. Pieces(now) \in Nat
  BY <1>2, PiecesType
<1>5. r.asOf[s1] <= now /\ r.asOf[s1] \in Nat
  BY <1>1, <1>2 DEF Sound, Run
<1> HIDE DEF now, m
<1>6. \A s \in 1..Current(m) : m.read[s] \in m.asOf[s]..latest[s]
  <2> SUFFICES ASSUME NEW s \in 1..s1 PROVE m.read[s] \in m.asOf[s]..latest[s]
    BY <1>3
  <2>1. CASE s = s1
    BY <1>2, <1>3, <1>5, <2>1 DEF now
  <2>2. CASE s # s1
    <3>1. s \in 1..Current(r)
      BY <1>1, <2>2
    <3> QED
      BY <1>3, <3>1 DEF Sound
  <2> QED
    BY <2>1, <2>2
<1>7. m.pc \in {"fetch", "ensure"} /\ (m.pc = "ensure" => m.piece < Pieces(m.read[Current(m)]))
  BY <1>3, <1>4
<1>8. Current(m) \in 0..SourceCount /\ Current(m) > 0
  BY <1>1, <1>3
<1>9. \A s \in Sources : m.asOf[s] <= latest[s]
  BY <1>3 DEF Sound
<1>10. Sound(m, latest)
  BY <1>3, <1>6, <1>7, <1>8, <1>9 DEF Sound
<1> QED
  BY <1>10 DEF m, now

LEMMA AfterIs ==
  ASSUME NEW r \in Run
  PROVE  LET m == After(r)
         IN  /\ m \in Run /\ m.mode = r.mode /\ m.embedder = r.embedder
             /\ m.read = r.read /\ m.asOf = r.asOf /\ m.alone = r.alone
             /\ m.dropped = r.dropped /\ m.piece = r.piece + 1
             /\ m.pc = IF r.piece + 1 < Pieces(r.read[Current(r)])
                         THEN "ensure" ELSE "fetch"
<1> DEFINE pc == IF r.piece + 1 < Pieces(r.read[Current(r)]) THEN "ensure" ELSE "fetch"
<1>1. After(r) = [r EXCEPT !.piece = r.piece + 1, !.pc = pc]
  BY DEF After, Run
<1>2. pc \in {"ensure", "fetch"}
  OBVIOUS
<1> HIDE DEF pc
<1>3. After(r) \in Run /\ After(r).pc = pc
  <2>1. r.piece + 1 \in Nat
    BY DEF Run
  <2>2. PICK q \in Nat : q = r.piece + 1
    BY <2>1
  <2>3. After(r) = [r EXCEPT !.piece = q, !.pc = pc]
    BY <1>1, <2>2
  <2> QED
    BY <1>2, <2>3 DEF Run
<1>4. LET m == After(r)
      IN  /\ m.mode = r.mode /\ m.embedder = r.embedder
          /\ m.read = r.read /\ m.asOf = r.asOf /\ m.alone = r.alone
          /\ m.dropped = r.dropped /\ m.piece = r.piece + 1
  BY <1>1 DEF Run
<1> QED
  BY <1>3, <1>4 DEF pc

LEMMA AfterSound ==
  ASSUME NEW r, NEW latest, Sound(r, latest), r.pc = "upsert"
  PROVE  Sound(After(r), latest)
<1> DEFINE m == After(r)
<1>1. /\ m \in Run /\ m.read = r.read /\ m.asOf = r.asOf /\ m.piece = r.piece + 1
      /\ m.pc = IF r.piece + 1 < Pieces(r.read[Current(r)]) THEN "ensure" ELSE "fetch"
  BY AfterIs DEF Sound
<1> HIDE DEF m
<1>2. Sound(m, latest)
  BY <1>1 DEF Sound, Current
<1> QED
  BY <1>2 DEF m

(* The next piece of a run is a piece of a source, and its own. *)
LEMMA StoredIs ==
  ASSUME Domains, NEW i \in Ingesters, run[i].pc = "upsert"
  PROVE  LET r == run[i]
         IN  /\ Active(i) /\ Current(r) \in Sources /\ r.piece \in Nat
             /\ r.read[Current(r)] \in 0..edition[Current(r)]
             /\ r.read[Current(r)] \in 0..MaxEdition
             /\ r.piece < Pieces(r.read[Current(r)])
             /\ <<Current(r), r.piece>> \in Id
             /\ Stored(r) \in Point
             /\ Stored(r).edition = r.read[Current(r)]
             /\ Stored(r).embedder = r.embedder
<1> DEFINE r == run[i]
<1>1. Active(i)
  BY DEF Active
<1>2. Sound(r, edition) /\ r \in Run /\ r.piece \in Nat /\ r.read \in Seq(0..MaxEdition)
      /\ r.embedder \in Embedders /\ Current(r) = Len(r.read)
  BY <1>1, Actives
<1>3. Current(r) \in 0..SourceCount /\ Current(r) > 0 /\ SourceCount \in Nat
      /\ r.piece < Pieces(r.read[Current(r)])
  BY <1>2, BatchesAssumption DEF Sound
<1>4. Current(r) \in Sources
  BY <1>3 DEF Sources
<1>5. Current(r) \in 1..Len(r.read) /\ r.read[Current(r)] \in 0..MaxEdition
  <2>1. Current(r) \in 1..Len(r.read)
    BY <1>2, <1>3
  <2> QED
    BY <1>2, <2>1, ElementOfSeq
<1>6. /\ r.read[Current(r)] \in r.asOf[Current(r)]..edition[Current(r)]
      /\ r.asOf[Current(r)] \in Nat
      /\ edition[Current(r)] \in Nat
  BY <1>2, <1>3, <1>4 DEF Sound, Run, Domains
<1>7. r.read[Current(r)] \in 0..edition[Current(r)]
  BY <1>5, <1>6
<1>8. <<Current(r), r.piece>> \in Id
  BY <1>2, <1>4 DEF Id
<1>9. Stored(r) = [edition |-> r.read[Current(r)], embedder |-> r.embedder]
  BY DEF Stored
<1>10. Stored(r) \in Point
  BY <1>2, <1>5, <1>9 DEF Point
<1> QED
  BY <1>1, <1>2, <1>3, <1>4, <1>5, <1>7, <1>8, <1>9, <1>10

(* What an upsert leaves on the server. *)
With(c, r) ==
  [c EXCEPT !.points = Put(@, <<Current(r), r.piece>>, Stored(r))]

LEMMA WithServed ==
  ASSUME Domains, NEW i \in Ingesters, run[i].pc = "upsert", Accepts(run[i])
  PROVE  LET c == With(collection, run[i])
         IN  /\ Served(c, edition) /\ c.there /\ c.width = collection.width
             /\ c.points = Put(collection.points, <<Current(run[i]), run[i].piece>>,
                                Stored(run[i]))
<1> DEFINE r == run[i]
           id == <<Current(r), r.piece>>
           more == Put(collection.points, id, Stored(r))
           c == With(collection, r)
<1>1. /\ Current(r) \in Sources /\ r.piece \in Nat /\ id \in Id
      /\ r.read[Current(r)] \in 0..edition[Current(r)]
      /\ r.piece < Pieces(r.read[Current(r)])
      /\ Stored(r) \in Point /\ Stored(r).edition = r.read[Current(r)]
      /\ Stored(r).embedder = r.embedder
      /\ id[1] = Current(r) /\ id[2] = r.piece
  BY StoredIs
<1>2. collection \in Collections /\ collection.there
      /\ collection.width = Width[r.embedder]
  BY DEF Domains, Served, Accepts, Exists
<1>3. /\ collection.width \in Nat /\ DOMAIN collection.points \subseteq Id
      /\ \A k \in DOMAIN collection.points : collection.points[k] \in Point
  BY <1>2, Holdings
<1>4. \A k \in DOMAIN collection.points :
         /\ collection.points[k].edition <= edition[k[1]]
         /\ k[2] < Pieces(collection.points[k].edition)
         /\ Width[collection.points[k].embedder] = collection.width
  BY <1>2 DEF Domains, Served
<1>5. collection \in [there : {TRUE}, width : Nat,
                      points : UNION {[S -> Point] : S \in SUBSET Id}]
  <2>1. collection # Missing
    BY <1>2 DEF Missing
  <2> QED
    BY <1>2, <2>1 DEF Collections
<1>6. collection = [there |-> TRUE, width |-> collection.width,
                    points |-> collection.points]
  BY <1>5
<1> HIDE DEF r, id
<1>7. DOMAIN more = DOMAIN collection.points \cup {id} /\ more[id] = Stored(r)
      /\ \A k \in DOMAIN collection.points : k # id => more[k] = collection.points[k]
  <2> DEFINE points == collection.points
             point == Stored(r)
  <2>1. more = Put(points, id, point)
    OBVIOUS
  <2> HIDE DEF points, point, more
  <2>2. DOMAIN more = DOMAIN points \cup {id} /\ more[id] = point
        /\ \A k \in DOMAIN points : k # id => more[k] = points[k]
    BY <2>1 DEF Put
  <2> QED
    BY <2>2 DEF points, point
<1>8. more = [k \in DOMAIN more |-> more[k]]
  BY DEF Put
<1>9. c = [there |-> TRUE, width |-> collection.width, points |-> more]
  <2>1. c = [collection EXCEPT !.points = more]
    BY <1>6 DEF With, id
  <2> HIDE DEF more, c
  <2>2. PICK width, points :
           collection = [there |-> TRUE, width |-> width, points |-> points]
    BY <1>6
  <2>3. c = [there |-> TRUE, width |-> width, points |-> more]
    BY <2>1, <2>2
  <2> QED
    BY <2>2, <2>3
<1> HIDE DEF more, c
<1>10. DOMAIN more \in SUBSET Id /\ \A k \in DOMAIN more : more[k] \in Point
  BY <1>1, <1>3, <1>7
<1>11. more \in [DOMAIN more -> Point]
  BY <1>8, <1>10
<1>12. c \in Collections
  BY <1>3, <1>9, <1>10, <1>11 DEF Collections
<1>13. ASSUME NEW k \in DOMAIN more
       PROVE  /\ more[k].edition <= edition[k[1]]
              /\ k[2] < Pieces(more[k].edition)
              /\ Width[more[k].embedder] = collection.width
  <2>1. CASE k = id
    <3>1. more[k] = Stored(r)
      BY <1>7, <2>1
    <3>2. Stored(r).edition <= edition[Current(r)]
      BY <1>1
    <3> QED
      BY <1>1, <1>2, <2>1, <3>1, <3>2 DEF r
  <2>2. CASE k # id
    BY <1>4, <1>7, <2>2
  <2> QED
    BY <2>1, <2>2
<1>14. Served(c, edition)
  BY <1>9, <1>12, <1>13 DEF Served
<1> QED
  BY <1>9, <1>14 DEF c, more, id, r

(* A step of the ingestion: what it leaves of each run, and on the server.  *)
LEMMA RunsStep ==
  ASSUME Domains, DOMAIN run' = Ingesters, run' = [j \in Ingesters |-> run'[j]],
         \A j \in Ingesters : run'[j] = Idle \/ Sound(run'[j], edition),
         edition' = edition, Served(collection', edition),
         runs' \in 0..MaxRuns, request' = request,
         disturbed' \in [Processes -> BOOLEAN]
  PROVE  Domains'
<1>1. \A j \in Ingesters : run'[j] \in {Idle} \cup Run
  BY DEF Sound
<1>2. run' \in [Ingesters -> {Idle} \cup Run]
  BY <1>1
<1>3. \A j \in Ingesters : Active(j)' => Sound(run'[j], edition)
  BY DEF Active, Idle
<1> QED
  BY <1>2, <1>3 DEF Domains, Active, Served, Pieces, Collections, Sound

LEMMA RunStep ==
  ASSUME Domains, NEW i \in Ingesters, NEW r, r = Idle \/ Sound(r, edition),
         run' = [run EXCEPT ![i] = r],
         edition' = edition, Served(collection', edition),
         runs' = runs, request' = request,
         disturbed' \in [Processes -> BOOLEAN]
  PROVE  Domains'
<1>1. run \in [Ingesters -> {Idle} \cup Run]
  BY DEF Domains
<1>2. run'[i] = r /\ (\A j \in Ingesters : j # i => run'[j] = run[j])
      /\ DOMAIN run' = Ingesters /\ run' = [j \in Ingesters |-> run'[j]]
  BY <1>1
<1>3. \A j \in Ingesters : run[j] = Idle \/ Sound(run[j], edition)
  BY Actives
<1>4. \A j \in Ingesters : run'[j] = Idle \/ Sound(run'[j], edition)
  BY <1>2, <1>3
<1>5. runs' \in 0..MaxRuns
  BY DEF Domains
<1> QED
  BY <1>2, <1>4, <1>5, RunsStep

(* An edit makes what was read older. *)
LEMMA EditDomains ==
  ASSUME Domains, NEW s \in Sources, Edit(s)
  PROVE  Domains'
<1>1. /\ edition[s] < MaxEdition /\ edition' = [edition EXCEPT ![s] = @ + 1]
      /\ UNCHANGED <<collection, runs, run, request, disturbed>>
  BY DEF Edit
<1>2. edition \in [Sources -> 0..MaxEdition] /\ MaxEdition \in Nat
  BY QdrantStoreAssumption DEF Domains
<1>3. edition' \in [Sources -> 0..MaxEdition]
      /\ \A x \in Sources : edition[x] <= edition'[x]
  BY <1>1, <1>2
<1>4. ASSUME NEW i \in Ingesters, Active(i)
      PROVE  Sound(run[i], edition')
  <2>1. Sound(run[i], edition) /\ run[i] \in Run
    BY <1>4, Actives
  <2>2. Current(run[i]) \in 0..SourceCount /\ SourceCount \in Nat
    BY <2>1, BatchesAssumption DEF Sound
  <2>3. \A x \in Sources : run[i].asOf[x] <= edition'[x]
    BY <1>2, <1>3, <2>1 DEF Sound, Run
  <2>4. \A x \in 1..Current(run[i]) : run[i].read[x] \in run[i].asOf[x]..edition'[x]
    <3> SUFFICES ASSUME NEW x \in 1..Current(run[i])
                 PROVE  run[i].read[x] \in run[i].asOf[x]..edition'[x]
      OBVIOUS
    <3>1. x \in Sources
      BY <2>2 DEF Sources
    <3>2. run[i].read[x] \in run[i].asOf[x]..edition[x] /\ run[i].asOf[x] \in Nat
      BY <2>1, <3>1 DEF Sound, Run
    <3> QED
      BY <1>2, <1>3, <3>1, <3>2
  <2> QED
    BY <2>1, <2>3, <2>4 DEF Sound
<1>5. Served(collection, edition')
  <2>1. collection \in Collections
    BY DEF Domains, Served
  <2>2. ASSUME collection.there, NEW id \in DOMAIN collection.points
        PROVE  collection.points[id].edition <= edition'[id[1]]
    <3>1. id \in Id /\ collection.points[id] \in Point
      BY <2>1, <2>2, Holdings
    <3>2. id[1] \in Sources /\ collection.points[id].edition \in Nat
      BY <3>1 DEF Id, Point
    <3>3. collection.points[id].edition <= edition[id[1]]
      BY <2>2 DEF Domains, Served
    <3> QED
      BY <1>2, <1>3, <3>2, <3>3
  <2> QED
    BY <2>1, <2>2 DEF Domains, Served
<1>6. Served(collection', edition')
  BY <1>1, <1>5
<1> QED
  BY <1>1, <1>3, <1>4, <1>6 DEF Domains, Active

LEMMA StartDomains ==
  ASSUME Domains, NEW i \in Ingesters, Start(i)
  PROVE  Domains'
<1>1. PICK mode \in Modes, e \in Embedders :
       run' = [j \in Ingesters |->
                 IF j = i
                   THEN [pc |-> IF mode = "rebuild" THEN "clear" ELSE "fetch",
                         mode |-> mode, embedder |-> e, read |-> <<>>, piece |-> 0,
                         asOf |-> edition, dropped |-> FALSE,
                         alone |-> \A k \in Ingesters \ {i} : ~Active(k)]
                 ELSE IF Active(j) THEN [run[j] EXCEPT !.alone = FALSE]
                 ELSE run[j]]
  BY DEF Start
<1> DEFINE pc == IF mode = "rebuild" THEN "clear" ELSE "fetch"
           alone == \A k \in Ingesters \ {i} : ~Active(k)
           new == [pc |-> pc, mode |-> mode, embedder |-> e, read |-> <<>>,
                   piece |-> 0, asOf |-> edition, dropped |-> FALSE, alone |-> alone]
<1>2. run'[i] = new /\ DOMAIN run' = Ingesters
  BY <1>1
<1>3. \A j \in Ingesters :
        j # i => run'[j] = IF Active(j) THEN [run[j] EXCEPT !.alone = FALSE] ELSE run[j]
  BY <1>1
<1>4. pc \in {"clear", "fetch"} /\ alone \in BOOLEAN
  OBVIOUS
<1>5. <<>> \in Seq(0..MaxEdition) /\ Len(<<>>) = 0
  OBVIOUS
<1>6. edition \in [Sources -> Nat] /\ SourceCount \in Nat
  BY BatchesAssumption DEF Domains
<1> HIDE DEF pc, alone
<1>7. new \in Run /\ new.asOf = edition /\ new.read = <<>> /\ new.pc = pc
  BY <1>4, <1>5, <1>6 DEF Run
<1> HIDE DEF new
<1>8. Sound(new, edition)
  BY <1>4, <1>5, <1>6, <1>7 DEF Sound, Current
<1>9. ASSUME NEW j \in Ingesters PROVE run'[j] = Idle \/ Sound(run'[j], edition)
  <2>1. CASE j = i
    BY <1>2, <1>8, <2>1
  <2>2. CASE j # i /\ Active(j)
    BY <1>3, <2>2, Actives, NotedSound
  <2>3. CASE j # i /\ ~Active(j)
    BY <1>3, <2>3, Actives
  <2> QED
    BY <2>1, <2>2, <2>3
<1>10. runs' \in 0..MaxRuns
  BY QdrantStoreAssumption DEF Start, Domains
<1>11. run' = [j \in Ingesters |-> run'[j]]
  BY <1>1
<1>12. edition' = edition /\ request' = request /\ disturbed' \in [Processes -> BOOLEAN]
       /\ Served(collection', edition)
  BY DEF Start, Domains
<1> QED
  BY <1>2, <1>9, <1>10, <1>11, <1>12, RunsStep

LEMMA DeleteDomains ==
  ASSUME Domains, NEW i \in Ingesters, Delete(i)
  PROVE  Domains'
<1>1. /\ run[i].pc = "delete" /\ collection' = Missing
      /\ run' = [j \in Ingesters |->
                    IF j = i THEN [run[i] EXCEPT !.pc = "fetch"]
                    ELSE IF Active(j) /\ run[j].pc \notin {"clear", "delete"}
                      THEN [run[j] EXCEPT !.dropped = TRUE]
                    ELSE run[j]]
      /\ disturbed' = [p \in Processes |-> TRUE]
      /\ UNCHANGED <<edition, runs, request>>
  BY DEF Delete
<1>2. Active(i) /\ Sound(run[i], edition)
  BY <1>1, Actives DEF Active
<1>3. ASSUME NEW j \in Ingesters PROVE run'[j] = Idle \/ Sound(run'[j], edition)
  <2>1. CASE j = i
    BY <1>1, <1>2, <2>1, MovedSound
  <2>2. CASE j # i /\ Active(j)
    <3>1. Sound(run[j], edition)
      BY <2>2, Actives
    <3>2. run'[j] \in {run[j], [run[j] EXCEPT !.dropped = TRUE]}
      BY <1>1, <2>2
    <3> QED
      BY <3>1, <3>2, NotedSound
  <2>3. CASE j # i /\ ~Active(j)
    BY <1>1, <2>3, Actives
  <2> QED
    BY <2>1, <2>2, <2>3
<1>4. Served(collection', edition)
  BY <1>1, EmptyHoldings
<1>5. runs' \in 0..MaxRuns /\ disturbed' \in [Processes -> BOOLEAN]
  BY <1>1 DEF Domains
<1>6. run' = [j \in Ingesters |-> run'[j]] /\ DOMAIN run' = Ingesters
  BY <1>1
<1> QED
  BY <1>1, <1>3, <1>4, <1>5, <1>6, RunsStep

(* A step of one run and of no other. *)
Steps(i) ==
  Clear(i) \/ Fetch(i) \/ Ensure(i) \/ Create(i) \/ Upsert(i) \/ Finish(i) \/ Abort(i)

(* What such a step makes of its run and of the collection. *)
LEMMA StepsIs ==
  ASSUME Domains, NEW i \in Ingesters, Steps(i)
  PROVE  /\ Active(i)
         /\ UNCHANGED <<edition, runs, request>>
         /\ \/ /\ run' = [run EXCEPT ![i] = Idle]
               /\ UNCHANGED <<collection, disturbed>>
            \/ \E pc \in {"fetch", "delete"} :
                 /\ run[i].pc = "clear" /\ pc = (IF Exists THEN "delete" ELSE "fetch")
                 /\ run' = [run EXCEPT ![i] = [run[i] EXCEPT !.pc = pc]]
                 /\ UNCHANGED <<collection, disturbed>>
            \/ /\ run[i].pc = "fetch" /\ Current(run[i]) < SourceCount
               /\ run' = [run EXCEPT ![i] =
                            Fetched(run[i], edition[Current(run[i]) + 1])]
               /\ UNCHANGED <<collection, disturbed>>
            \/ \E pc \in {"create", "upsert"} :
                 /\ run[i].pc = "ensure"
                 /\ run' = [run EXCEPT ![i] = [run[i] EXCEPT !.pc = pc]]
                 /\ UNCHANGED <<collection, disturbed>>
            \/ /\ run[i].pc = "create" /\ ~Exists
               /\ run' = [run EXCEPT ![i] = [run[i] EXCEPT !.pc = "upsert"]]
               /\ collection' = Empty(Width[run[i].embedder])
               /\ disturbed' = [p \in Processes |-> TRUE]
            \/ /\ run[i].pc = "upsert" /\ Accepts(run[i])
               /\ run' = [run EXCEPT ![i] = After(run[i])]
               /\ collection' = With(collection, run[i])
               /\ UNCHANGED disturbed
<1>1. i \in DOMAIN run
  BY DEF Domains
<1>2. CASE Clear(i)
  BY <1>1, <1>2, Zenon DEF Clear, Active
<1>3. CASE Fetch(i)
  BY <1>1, <1>3 DEF Fetch, Active, Fetched
<1>4. CASE Ensure(i)
  BY <1>1, <1>4, Zenon DEF Ensure, Active
<1>5. CASE Create(i)
  BY <1>1, <1>5 DEF Create, Active
<1>6. CASE Upsert(i)
  BY <1>1, <1>6 DEF Upsert, Active, With
<1>7. CASE Finish(i) \/ Abort(i)
  BY <1>7 DEF Finish, Abort, Active
<1> QED
  BY <1>2, <1>3, <1>4, <1>5, <1>6, <1>7 DEF Steps

LEMMA StepsDomains ==
  ASSUME Domains, NEW i \in Ingesters, Steps(i)
  PROVE  Domains'
<1> DEFINE r == run[i]
<1>1. Active(i) /\ Sound(r, edition) /\ r \in Run /\ r.embedder \in Embedders
  BY StepsIs, Actives
<1>2. Served(collection, edition) /\ edition \in [Sources -> 0..MaxEdition]
  BY DEF Domains
<1>3. UNCHANGED <<edition, runs, request>>
  BY StepsIs
<1>4. disturbed' \in [Processes -> BOOLEAN]
  BY StepsIs DEF Domains
<1>5. Served(collection', edition)
  <2>1. CASE collection' = collection
    BY <1>2, <2>1
  <2>2. CASE collection' = Empty(Width[r.embedder])
    <3>1. Width[r.embedder] \in Nat
      BY <1>1, BatchesAssumption
    <3> QED
      BY <2>2, <3>1, EmptyHoldings
  <2>3. CASE r.pc = "upsert" /\ Accepts(r) /\ collection' = With(collection, r)
    BY <2>3, WithServed
  <2> QED
    BY <2>1, <2>2, <2>3, StepsIs
<1>6. \E n : run' = [run EXCEPT ![i] = n] /\ (n = Idle \/ Sound(n, edition))
  <2>1. CASE run' = [run EXCEPT ![i] = Idle]
    BY <2>1
  <2>2. ASSUME NEW pc \in {"fetch", "delete"}, r.pc = "clear",
               run' = [run EXCEPT ![i] = [r EXCEPT !.pc = pc]]
        PROVE  \E n : run' = [run EXCEPT ![i] = n] /\ (n = Idle \/ Sound(n, edition))
    <3>1. Sound([r EXCEPT !.pc = pc], edition)
      <4>1. r.read = <<>>
        BY <1>1, <2>2 DEF Sound
      <4> QED
        BY <1>1, <4>1, MovedSound
    <3> QED
      BY <2>2, <3>1
  <2>3. CASE /\ Current(r) < SourceCount
             /\ run' = [run EXCEPT ![i] = Fetched(r, edition[Current(r) + 1])]
    BY <1>1, <1>2, <2>3, FetchedSound
  <2>4. ASSUME NEW pc \in {"create", "upsert"}, r.pc \in {"ensure", "create"},
               run' = [run EXCEPT ![i] = [r EXCEPT !.pc = pc]]
        PROVE  \E n : run' = [run EXCEPT ![i] = n] /\ (n = Idle \/ Sound(n, edition))
    <3>1. Sound([r EXCEPT !.pc = pc], edition)
      BY <1>1, <2>4, MovedSound
    <3> QED
      BY <2>4, <3>1
  <2>5. CASE r.pc = "upsert" /\ run' = [run EXCEPT ![i] = After(r)]
    BY <1>1, <2>5, AfterSound
  <2> HIDE DEF r
  <2> QED
    BY <2>1, <2>2, <2>3, <2>4, <2>5, StepsIs DEF r
<1>7. PICK n : run' = [run EXCEPT ![i] = n] /\ (n = Idle \/ Sound(n, edition))
  BY <1>6
<1> QED
  BY <1>3, <1>4, <1>5, <1>7, RunStep

LEMMA RetrieveDomains ==
  ASSUME Domains, NEW p \in Processes, Retrieve(p)
  PROVE  Domains'
<1>1. request \in [Processes -> Request] /\ disturbed \in [Processes -> BOOLEAN]
  BY DEF Domains
<1>2. request[p].pc \in {"count", "exists", "dim", "width", "query"} =>
        /\ request[p].embedder \in Embedders
        /\ request[p] \in [pc : {"count", "exists", "dim", "width", "query"},
                           embedder : Embedders]
  <2>1. request[p] \in Request
    BY <1>1
  <2> QED
    BY <2>1 DEF Request, Idle
<1>3. request' \in [Processes -> Request]
  <2>1. CASE Ask(p)
    <3>1. PICK e \in Embedders, r \in Request : request' = [request EXCEPT ![p] = r]
      BY <2>1 DEF Ask, Request
    <3> QED
      BY <1>1, <3>1
  <2>2. ASSUME request[p].pc \in {"count", "exists", "dim", "width", "query"},
               NEW pc \in {"exists", "dim", "width", "query"}, Proceed(p, pc)
        PROVE  request' \in [Processes -> Request]
    <3>1. [request[p] EXCEPT !.pc = pc] \in Request
      BY <1>2, <2>2 DEF Request
    <3> QED
      BY <1>1, <2>2, <3>1 DEF Proceed
  <2>3. ASSUME request[p].pc \in {"count", "exists", "dim", "width", "query"},
               NEW result \in {"nothing", "refused", "failed", "hits"}, Reply(p, result)
        PROVE  request' \in [Processes -> Request]
    <3>1. [pc |-> "idle", embedder |-> request[p].embedder, result |-> result] \in Request
      BY <1>2, <2>3 DEF Request
    <3> QED
      BY <1>1, <2>3, <3>1 DEF Reply
  <2> QED
    BY <2>1, <2>2, <2>3 DEF Retrieve, Count, SearchExists, Dim, CheckDim, Query
<1>4. disturbed' \in [Processes -> BOOLEAN] /\ UNCHANGED <<edition, collection, runs, run>>
  BY <1>1 DEF Retrieve, Ask, Count, SearchExists, Dim, CheckDim, Query
<1> QED
  BY <1>3, <1>4 DEF Domains, Active

LEMMA StepDomains == Domains /\ [Next]_vars => Domains'
<1> SUFFICES ASSUME Domains, [Next]_vars PROVE Domains'
  OBVIOUS
<1>1. CASE UNCHANGED vars
  BY <1>1 DEF vars, Domains, Active
<1>2. ASSUME NEW i \in Ingesters, Ingest(i) PROVE Domains'
  BY <1>2, StartDomains, DeleteDomains, StepsDomains DEF Ingest, Steps
<1> QED
  BY <1>1, <1>2, EditDomains, RetrieveDomains DEF Next

(* Every variable stays in its domain, however runs, requests and edits     *)
(* interleave: the server holds only pieces of editions that could be read,  *)
(* of one width, and no run stores a piece its document has not.            *)
THEOREM TypeCorrect == Spec => []TypeOK
<1>1. Init => Domains
  BY InitDomains
<1>2. Domains /\ [Next]_vars => Domains'
  BY StepDomains
<1>3. Domains => TypeOK
  BY DomainsType
<1> QED
  BY <1>1, <1>2, <1>3, PTL DEF Spec

-----------------------------------------------------------------------------
(* What a run has stored so far: the pieces of the documents it has read,    *)
(* of the last one those it has got to.                                    *)
Done(r) ==
  {id \in PiecesOf(r.read) :
     id[1] < Current(r) \/ r.pc = "fetch" \/ id[2] < r.piece}

(* As long as nobody deletes the collection, what was stored is there. *)
Undropped ==
  \A i \in Ingesters :
    Active(i) /\ ~run[i].dropped => Done(run[i]) \subseteq DOMAIN Contents

Solitary ==
  \A i \in Ingesters :
    Active(i) /\ run[i].alone => \A k \in Ingesters \ {i} : ~Active(k)

(* Once a rebuild has cleared, and while it meets no other run, the server   *)
(* holds what it has stored and nothing else.                              *)
Exact(r, points) ==
  r.mode = "rebuild" /\ r.alone /\ r.pc \notin {"clear", "delete"} =>
    /\ DOMAIN points = Done(r)
    /\ \A id \in DOMAIN points :
         points[id] = [edition |-> r.read[id[1]], embedder |-> r.embedder]

Own == \A i \in Ingesters : Active(i) => Exact(run[i], Contents)

LEMMA InPiecesOf ==
  ASSUME NEW read, NEW id
  PROVE  id \in PiecesOf(read) <=>
           \E s \in 1..Len(read) : \E k \in 0..(Pieces(read[s]) - 1) : id = <<s, k>>
  BY DEF PiecesOf

LEMMA DoneNothing ==
  ASSUME NEW r, r.read = <<>>
  PROVE  Done(r) = {}
<1>1. Len(r.read) = 0
  OBVIOUS
<1>2. \A id : id \notin PiecesOf(r.read)
  BY <1>1, InPiecesOf
<1> QED
  BY <1>2 DEF Done

LEMMA DoneFetched ==
  ASSUME NEW r \in Run, NEW now \in 0..MaxEdition, r.pc = "fetch"
  PROVE  Done(Fetched(r, now)) = Done(r)
<1> DEFINE m == Fetched(r, now)
           n == Current(r)
<1>1. /\ n \in Nat /\ n = Len(r.read) /\ Len(m.read) = n + 1 /\ Current(m) = n + 1
      /\ m.read[n + 1] = now /\ m.piece = 0
      /\ m.pc = IF Pieces(now) = 0 THEN "fetch" ELSE "ensure"
      /\ \A s \in 1..n : m.read[s] = r.read[s]
  BY FetchedIs DEF Current
<1>2. Pieces(now) \in Nat
  BY PiecesType
<1> HIDE DEF m, n
<1>3. ASSUME NEW id, id \in Done(r) PROVE id \in Done(m)
  <2>1. PICK s \in 1..n : \E k \in 0..(Pieces(r.read[s]) - 1) : id = <<s, k>>
    BY <1>1, <1>3, InPiecesOf DEF Done
  <2>2. s \in 1..(n + 1) /\ m.read[s] = r.read[s] /\ s < n + 1
    BY <1>1
  <2>3. id \in PiecesOf(m.read) /\ id[1] = s
    BY <1>1, <2>1, <2>2, InPiecesOf
  <2> QED
    BY <1>1, <2>2, <2>3 DEF Done
<1>4. ASSUME NEW id, id \in Done(m) PROVE id \in Done(r)
  <2>1. PICK s \in 1..(n + 1) : \E k \in 0..(Pieces(m.read[s]) - 1) : id = <<s, k>>
    BY <1>1, <1>4, InPiecesOf DEF Done
  <2>2. PICK k \in 0..(Pieces(m.read[s]) - 1) : id = <<s, k>>
    BY <2>1
  <2>3. id[1] = s /\ id[2] = k
    BY <2>2
  <2>4. s # n + 1
    <3> SUFFICES ASSUME s = n + 1 PROVE FALSE
      OBVIOUS
    <3>1. k \in 0..(Pieces(now) - 1)
      BY <1>1
    <3>2. m.pc = "ensure"
      BY <1>1, <1>2, <3>1
    <3>3. s < n + 1 \/ k < 0
      BY <1>1, <1>4, <2>3, <3>2 DEF Done
    <3> QED
      BY <1>1, <3>1, <3>3
  <2>5. s \in 1..n /\ k \in 0..(Pieces(r.read[s]) - 1)
    BY <1>1, <2>4
  <2>6. id \in PiecesOf(r.read)
    BY <1>1, <2>2, <2>5, InPiecesOf
  <2> QED
    BY <2>6 DEF Done
<1> QED
  BY <1>3, <1>4 DEF m

LEMMA DoneAfter ==
  ASSUME NEW r \in Run, r.pc = "upsert", Current(r) > 0,
         r.piece < Pieces(r.read[Current(r)])
  PROVE  Done(After(r)) = Done(r) \cup {<<Current(r), r.piece>>}
<1> DEFINE m == After(r)
           n == Current(r)
           count == Pieces(r.read[n])
<1>1. /\ m.read = r.read /\ m.piece = r.piece + 1 /\ Current(m) = n
      /\ m.pc = IF r.piece + 1 < count THEN "ensure" ELSE "fetch"
  BY AfterIs DEF Current
<1>2. r.piece \in Nat /\ n \in Nat /\ n = Len(r.read) /\ r.read \in Seq(0..MaxEdition)
  BY DEF Run, Current
<1>3. n \in 1..Len(r.read)
  BY <1>2
<1>4. count \in Nat /\ r.piece < count
  BY <1>2, <1>3, PiecesType, ElementOfSeq
<1> HIDE DEF m, n
<1>5. ASSUME NEW id
      PROVE  id \in Done(m) <=> id \in Done(r) \/ id = <<n, r.piece>>
  <2>1. ASSUME NEW s \in 1..n, NEW k \in 0..(Pieces(r.read[s]) - 1), id = <<s, k>>
        PROVE  id \in Done(m) <=> id \in Done(r) \/ id = <<n, r.piece>>
    <3>1. id \in PiecesOf(r.read) /\ id[1] = s /\ id[2] = k
      BY <1>2, <2>1, InPiecesOf
    <3>2. id \in Done(r) <=> s < n \/ k < r.piece
      BY <3>1 DEF Done, n
    <3>3. id \in Done(m) <=> s < n \/ m.pc = "fetch" \/ k < r.piece + 1
      BY <1>1, <3>1 DEF Done
    <3>4. CASE s < n
      BY <3>2, <3>3, <3>4
    <3>5. CASE s = n
      <4>1. k \in 0..(count - 1)
        BY <3>5
      <4>2. m.pc = "fetch" <=> ~(r.piece + 1 < count)
        BY <1>1
      <4>3. (m.pc = "fetch" \/ k < r.piece + 1) <=> (k < r.piece \/ k = r.piece)
        BY <1>2, <1>4, <4>1, <4>2
      <4> QED
        BY <1>2, <2>1, <3>2, <3>3, <3>5, <4>3
    <3> QED
      BY <1>2, <3>4, <3>5
  <2>2. ASSUME id \in Done(m) \/ id \in Done(r) \/ id = <<n, r.piece>>
        PROVE  \E s \in 1..n : \E k \in 0..(Pieces(r.read[s]) - 1) : id = <<s, k>>
    <3>1. CASE id = <<n, r.piece>>
      <4>1. n \in 1..n /\ r.piece \in 0..(Pieces(r.read[n]) - 1)
        BY <1>2, <1>3, <1>4
      <4> QED
        BY <3>1, <4>1
    <3>2. CASE id # <<n, r.piece>>
      <4>1. id \in PiecesOf(r.read)
        BY <1>1, <2>2, <3>2 DEF Done
      <4> QED
        BY <1>2, <4>1, InPiecesOf
    <3> QED
      BY <3>1, <3>2
  <2> QED
    BY <2>1, <2>2
<1> QED
  BY <1>5 DEF m, n

(* What a step of one run does to what is retrieved. *)
LEMMA ContentsStep ==
  ASSUME Domains, NEW i \in Ingesters, Steps(i)
  PROVE  \/ /\ run[i].pc = "upsert" /\ Accepts(run[i])
            /\ run' = [run EXCEPT ![i] = After(run[i])]
            /\ Contents' = Put(Contents, <<Current(run[i]), run[i].piece>>, Stored(run[i]))
         \/ /\ Contents' = Contents
            /\ ~(run[i].pc = "upsert" /\ run' = [run EXCEPT ![i] = After(run[i])])
<1> USE DEF Contents, Exists
<1>1. i \in DOMAIN run /\ Active(i)
  BY StepsIs DEF Domains
<1>2. CASE run[i].pc = "upsert" /\ Accepts(run[i]) /\ collection' = With(collection, run[i])
           /\ run' = [run EXCEPT ![i] = After(run[i])]
  BY <1>2, WithServed DEF Accepts
<1>3. CASE collection' = collection /\ run' = [run EXCEPT ![i] = Idle]
  <2>1. run'[i] = Idle
    BY <1>1, <1>3
  <2>2. run[i].pc = "upsert" => After(run[i]) # Idle
    <3>1. run[i] \in Run
      BY <1>1, Actives
    <3>2. After(run[i]).pc \in {"ensure", "fetch"}
      BY <3>1, AfterIs
    <3> QED
      BY <3>2 DEF Idle
  <2> QED
    BY <1>1, <1>3, <2>1, <2>2
<1>4. CASE collection' = collection /\ run[i].pc # "upsert"
  BY <1>4
<1>5. CASE ~Exists /\ run[i].pc = "create"
           /\ collection' = Empty(Width[run[i].embedder])
  <2>1. Contents' = [id \in {} |-> id] /\ Contents = [id \in {} |-> id]
    BY <1>5 DEF Empty
  <2> QED
    BY <1>5, <2>1
<1> QED
  BY <1>2, <1>3, <1>4, <1>5, StepsIs

(* What a step of a run that goes on does to the run, beside that.           *)
LEMMA GoesOn ==
  ASSUME Domains, NEW i \in Ingesters, Steps(i), Active(i)'
  PROVE  LET r  == run[i]
             m  == run'[i]
             id == <<Current(r), r.piece>>
         IN  /\ m.mode = r.mode /\ m.embedder = r.embedder
             /\ m.alone = r.alone /\ m.dropped = r.dropped
             /\ \/ /\ Contents' = Contents /\ Done(m) = Done(r)
                   /\ r.pc \notin {"clear", "delete"}
                   /\ \A k \in Done(r) : m.read[k[1]] = r.read[k[1]]
                \/ /\ Contents' = Contents /\ Done(m) = {} /\ m.pc = "delete"
                \/ /\ Contents' = Contents /\ Done(m) = {} /\ DOMAIN Contents = {}
                \/ /\ r.pc = "upsert" /\ m.read = r.read
                   /\ Done(m) = Done(r) \cup {id}
                   /\ Contents' = Put(Contents, id, Stored(r))
<1> DEFINE r == run[i]
           m == run'[i]
           id == <<Current(r), r.piece>>
<1>1. Active(i) /\ Sound(r, edition) /\ r \in Run
  BY StepsIs, Actives
<1>2. run' # [run EXCEPT ![i] = Idle]
  BY DEF Active, Domains, Idle
<1>3. i \in DOMAIN run
  BY DEF Domains
<1>4. ASSUME NEW pc \in {"fetch", "delete"}, r.pc = "clear",
             pc = IF Exists THEN "delete" ELSE "fetch",
             run' = [run EXCEPT ![i] = [r EXCEPT !.pc = pc]]
      PROVE  /\ m.mode = r.mode /\ m.embedder = r.embedder
             /\ m.alone = r.alone /\ m.dropped = r.dropped
             /\ Contents' = Contents /\ Done(m) = {}
             /\ m.pc = "delete" \/ DOMAIN Contents = {}
  <2>1. m = [r EXCEPT !.pc = pc]
    BY <1>3, <1>4
  <2>2. /\ m.pc = pc /\ m.read = r.read /\ m.mode = r.mode /\ m.embedder = r.embedder
        /\ m.alone = r.alone /\ m.dropped = r.dropped
    BY <1>1, <2>1, Moved
  <2>3. Done(m) = {}
    BY <1>1, <1>4, <2>2, DoneNothing DEF Sound
  <2>4. Contents' = Contents
    BY <1>4, ContentsStep
  <2>5. pc = "fetch" => DOMAIN Contents = {}
    BY <1>4 DEF Contents
  <2> QED
    BY <2>2, <2>3, <2>4, <2>5
<1>5. CASE /\ r.pc = "fetch" /\ Current(r) < SourceCount
           /\ run' = [run EXCEPT ![i] = Fetched(r, edition[Current(r) + 1])]
  <2> DEFINE now == edition[Current(r) + 1]
  <2>1. m = Fetched(r, now) /\ now \in 0..MaxEdition
    <3>1. Current(r) + 1 \in Sources
      BY <1>1, <1>5, BatchesAssumption DEF Sound, Sources
    <3> QED
      BY <1>3, <1>5, <3>1 DEF Domains
  <2> HIDE DEF now
  <2>2. /\ m.mode = r.mode /\ m.embedder = r.embedder
        /\ m.alone = r.alone /\ m.dropped = r.dropped
        /\ Current(r) \in Nat
        /\ \A s \in 1..Current(r) : m.read[s] = r.read[s]
    BY <1>1, <2>1, FetchedIs
  <2>3. Done(m) = Done(r)
    BY <1>1, <1>5, <2>1, DoneFetched
  <2>4. \A k \in Done(r) : k[1] \in 1..Current(r)
    <3>1. ASSUME NEW k \in Done(r) PROVE k[1] \in 1..Current(r)
      <4>1. PICK s \in 1..Len(r.read) : \E n \in 0..(Pieces(r.read[s]) - 1) : k = <<s, n>>
        BY InPiecesOf DEF Done
      <4> QED
        BY <4>1 DEF Current
    <3> QED
      BY <3>1
  <2>5. Contents' = Contents
    BY <1>5, ContentsStep
  <2> QED
    BY <1>5, <2>2, <2>3, <2>4, <2>5
<1>6. ASSUME NEW pc \in {"create", "upsert"}, r.pc \in {"ensure", "create"},
             run' = [run EXCEPT ![i] = [r EXCEPT !.pc = pc]]
      PROVE  /\ m.mode = r.mode /\ m.embedder = r.embedder
             /\ m.alone = r.alone /\ m.dropped = r.dropped
             /\ Contents' = Contents /\ Done(m) = Done(r)
             /\ m.read = r.read
  <2>1. m = [r EXCEPT !.pc = pc]
    BY <1>3, <1>6
  <2>2. /\ m.pc = pc /\ m.read = r.read /\ m.mode = r.mode /\ m.embedder = r.embedder
        /\ m.alone = r.alone /\ m.dropped = r.dropped /\ m.piece = r.piece
    BY <1>1, <2>1, Moved
  <2>3. Contents' = Contents
    BY <1>6, ContentsStep
  <2>4. Done(m) = Done(r)
    BY <1>6, <2>2 DEF Done, Current
  <2> QED
    BY <2>2, <2>3, <2>4
<1>7. CASE r.pc = "upsert" /\ run' = [run EXCEPT ![i] = After(r)]
  <2>1. m = After(r)
    BY <1>3, <1>7
  <2>2. /\ m.mode = r.mode /\ m.embedder = r.embedder /\ m.read = r.read
        /\ m.alone = r.alone /\ m.dropped = r.dropped
    BY <1>1, <2>1, AfterIs
  <2>3. Done(m) = Done(r) \cup {id}
    BY <1>1, <1>7, <2>1, DoneAfter DEF Sound
  <2>4. Contents' = Put(Contents, id, Stored(r))
    BY <1>7, ContentsStep
  <2> QED
    BY <1>7, <2>2, <2>3, <2>4
<1> HIDE DEF r, m
<1> QED
  BY <1>2, <1>4, <1>5, <1>6, <1>7, StepsIs, Zenon DEF r, m

(* Nothing but a deletion takes a point away. *)
LEMMA PointsStay ==
  ASSUME Domains, NEW i \in Ingesters, Steps(i)
  PROVE  DOMAIN Contents \subseteq DOMAIN Contents'
<1>1. CASE Contents' = Contents
  BY <1>1
<1>2. CASE \E id, point : Contents' = Put(Contents, id, point)
  BY <1>2 DEF Put
<1> QED
  BY <1>1, <1>2, ContentsStep

(* The other runs are as they were. *)
LEMMA OthersStay ==
  ASSUME Domains, NEW i \in Ingesters, Steps(i), NEW j \in Ingesters, j # i
  PROVE  run'[j] = run[j] /\ (Active(j)' <=> Active(j))
<1>1. \E n : run' = [run EXCEPT ![i] = n]
  BY StepsIs
<1>2. run'[j] = run[j]
  BY <1>1 DEF Domains
<1> QED
  BY <1>2 DEF Active

(* What a start and a deletion do to each run. *)
LEMMA StartIs ==
  ASSUME Domains, NEW i \in Ingesters, Start(i)
  PROVE  /\ ~Active(i) /\ Active(i)' /\ run'[i].read = <<>>
         /\ run'[i].mode = "rebuild" => run'[i].pc = "clear"
         /\ run'[i].alone => \A k \in Ingesters \ {i} : ~Active(k)
         /\ \A j \in Ingesters \ {i} :
              /\ Active(j)' <=> Active(j)
              /\ Active(j) => run'[j] = [run[j] EXCEPT !.alone = FALSE]
         /\ UNCHANGED <<edition, collection>>
<1>1. PICK mode \in Modes, e \in Embedders :
       run' = [j \in Ingesters |->
                 IF j = i
                   THEN [pc |-> IF mode = "rebuild" THEN "clear" ELSE "fetch",
                         mode |-> mode, embedder |-> e, read |-> <<>>, piece |-> 0,
                         asOf |-> edition, dropped |-> FALSE,
                         alone |-> \A k \in Ingesters \ {i} : ~Active(k)]
                 ELSE IF Active(j) THEN [run[j] EXCEPT !.alone = FALSE]
                 ELSE run[j]]
  BY DEF Start
<1> DEFINE alone == \A k \in Ingesters \ {i} : ~Active(k)
<1>2. run'[i] = [pc |-> IF mode = "rebuild" THEN "clear" ELSE "fetch",
                 mode |-> mode, embedder |-> e, read |-> <<>>, piece |-> 0,
                 asOf |-> edition, dropped |-> FALSE, alone |-> alone]
  BY <1>1
<1>3. /\ run'[i].pc \in {"clear", "fetch"} /\ run'[i].read = <<>>
      /\ run'[i].mode = "rebuild" => run'[i].pc = "clear"
  BY <1>2
<1>4. run'[i].alone => alone
  <2> HIDE DEF alone
  <2> QED
    BY <1>2
<1>5. ASSUME NEW j \in Ingesters \ {i}
      PROVE  /\ Active(j)' <=> Active(j)
             /\ Active(j) => run'[j] = [run[j] EXCEPT !.alone = FALSE]
  <2>1. CASE Active(j)
    <3>1. run'[j] = [run[j] EXCEPT !.alone = FALSE]
      BY <1>1, <2>1
    <3>2. run'[j].pc = run[j].pc
      BY <2>1, <3>1, Actives, Noted
    <3> QED
      BY <2>1, <3>1, <3>2 DEF Active
  <2>2. CASE ~Active(j)
    <3>1. run'[j] = run[j]
      BY <1>1, <2>2
    <3> QED
      BY <2>2, <3>1 DEF Active
  <2> QED
    BY <2>1, <2>2
<1>6. Active(i)'
  BY <1>3 DEF Active
<1> QED
  BY <1>3, <1>4, <1>5, <1>6 DEF Start

LEMMA DeleteIs ==
  ASSUME Domains, NEW i \in Ingesters, Delete(i)
  PROVE  /\ DOMAIN Contents' = {} /\ Active(i) /\ Active(i)'
         /\ run'[i].read = <<>> /\ run'[i].alone = run[i].alone
         /\ \A j \in Ingesters \ {i} :
              /\ Active(j)' <=> Active(j)
              /\ Active(j) => /\ run'[j].alone = run[j].alone
                              /\ run'[j].dropped \/ run'[j].read = <<>>
<1>1. /\ run[i].pc = "delete" /\ collection' = Missing
      /\ run' = [j \in Ingesters |->
                    IF j = i THEN [run[i] EXCEPT !.pc = "fetch"]
                    ELSE IF Active(j) /\ run[j].pc \notin {"clear", "delete"}
                      THEN [run[j] EXCEPT !.dropped = TRUE]
                    ELSE run[j]]
  BY DEF Delete
<1>2. Active(i) /\ run[i] \in Run /\ Sound(run[i], edition)
  BY <1>1, Actives DEF Active
<1>3. run'[i] = [run[i] EXCEPT !.pc = "fetch"]
  BY <1>1
<1>4. run'[i].read = <<>> /\ run'[i].alone = run[i].alone /\ run'[i].pc = "fetch"
  BY <1>1, <1>2, <1>3, Moved DEF Sound
<1>5. DOMAIN Contents' = {}
  <2>1. ~Exists'
    BY <1>1 DEF Exists, Missing
  <2> QED
    BY <2>1 DEF Contents
<1>6. ASSUME NEW j \in Ingesters \ {i}
      PROVE  /\ Active(j)' <=> Active(j)
             /\ Active(j) => /\ run'[j].alone = run[j].alone
                             /\ run'[j].dropped \/ run'[j].read = <<>>
  <2>1. CASE Active(j) /\ run[j].pc \notin {"clear", "delete"}
    <3>1. run'[j] = [run[j] EXCEPT !.dropped = TRUE] /\ run[j] \in Run
      BY <1>1, <2>1, Actives
    <3>2. run'[j].pc = run[j].pc /\ run'[j].alone = run[j].alone /\ run'[j].dropped = TRUE
      BY <3>1, Noted
    <3> QED
      BY <2>1, <3>2 DEF Active
  <2>2. CASE ~(Active(j) /\ run[j].pc \notin {"clear", "delete"})
    <3>1. run'[j] = run[j]
      BY <1>1, <2>2
    <3>2. Active(j) => run[j].read = <<>>
      BY <2>2, Actives DEF Sound
    <3> QED
      BY <3>1, <3>2 DEF Active
  <2> QED
    BY <2>1, <2>2
<1> QED
  BY <1>2, <1>4, <1>5, <1>6 DEF Active

LEMMA UndroppedIngest ==
  ASSUME Domains, Undropped, NEW i \in Ingesters, Ingest(i)
  PROVE  Undropped'
<1> SUFFICES ASSUME NEW j \in Ingesters, Active(j)', ~run'[j].dropped
             PROVE  Done(run'[j]) \subseteq DOMAIN Contents'
  BY DEF Undropped
<1>1. CASE Start(i)
  <2>1. Contents' = Contents
    BY <1>1, StartIs DEF Contents, Exists
  <2>2. CASE j = i
    BY <1>1, <2>2, StartIs, DoneNothing
  <2>3. CASE j # i
    <3>1. Active(j) /\ run'[j] = [run[j] EXCEPT !.alone = FALSE] /\ run[j] \in Run
      BY <1>1, <2>3, StartIs, Actives
    <3>2. /\ run'[j].pc = run[j].pc /\ run'[j].read = run[j].read
          /\ run'[j].piece = run[j].piece /\ run'[j].dropped = run[j].dropped
      BY <3>1, Noted
    <3>3. Done(run'[j]) = Done(run[j])
      BY <3>2 DEF Done, Current
    <3> QED
      BY <2>1, <3>1, <3>2, <3>3 DEF Undropped
  <2> QED
    BY <2>2, <2>3
<1>2. CASE Delete(i)
  <2>1. run'[j].read = <<>>
    BY <1>2, DeleteIs
  <2> QED
    BY <2>1, DoneNothing
<1>3. CASE Steps(i)
  <2>1. DOMAIN Contents \subseteq DOMAIN Contents'
    BY <1>3, PointsStay
  <2>2. CASE j = i
    <3> DEFINE id == <<Current(run[i]), run[i].piece>>
    <3>1. Active(i) /\ run'[i].dropped = run[i].dropped
      BY <1>3, <2>2, StepsIs, GoesOn
    <3>2. Done(run[i]) \subseteq DOMAIN Contents
      BY <2>2, <3>1 DEF Undropped
    <3>3. \/ Done(run'[i]) \in {Done(run[i]), {}}
          \/ /\ Done(run'[i]) = Done(run[i]) \cup {id}
             /\ Contents' = Put(Contents, id, Stored(run[i]))
      BY <1>3, <2>2, GoesOn
    <3> HIDE DEF id
    <3>4. Contents' = Put(Contents, id, Stored(run[i])) => id \in DOMAIN Contents'
      BY DEF Put
    <3> QED
      BY <2>1, <2>2, <3>2, <3>3, <3>4
  <2>3. CASE j # i
    <3>1. run'[j] = run[j] /\ Active(j)
      BY <1>3, <2>3, OthersStay
    <3> QED
      BY <2>1, <3>1 DEF Undropped
  <2> QED
    BY <2>2, <2>3
<1> QED
  BY <1>1, <1>2, <1>3 DEF Ingest, Steps

LEMMA SolitaryIngest ==
  ASSUME Domains, Solitary, NEW i \in Ingesters, Ingest(i)
  PROVE  Solitary'
<1> SUFFICES ASSUME NEW j \in Ingesters, Active(j)', run'[j].alone,
                    NEW k \in Ingesters \ {j}
             PROVE  ~Active(k)'
  BY DEF Solitary
<1>1. CASE Start(i)
  <2>1. CASE j = i
    BY <1>1, <2>1, StartIs
  <2>2. CASE j # i
    <3>1. Active(j) /\ run'[j] = [run[j] EXCEPT !.alone = FALSE] /\ run[j] \in Run
      BY <1>1, <2>2, StartIs, Actives
    <3> QED
      BY <3>1, Noted
  <2> QED
    BY <2>1, <2>2
<1>2. CASE Delete(i)
  <2>1. \A x \in Ingesters : Active(x)' <=> Active(x)
    BY <1>2, DeleteIs
  <2>2. run[j].alone
    BY <1>2, <2>1, DeleteIs
  <2> QED
    BY <2>1, <2>2 DEF Solitary
<1>3. CASE Steps(i)
  <2>1. Active(j) /\ run[j].alone
    BY <1>3, StepsIs, GoesOn, OthersStay
  <2>2. ~Active(k)
    BY <2>1 DEF Solitary
  <2>3. k # i
    BY <1>3, <2>2, StepsIs
  <2> QED
    BY <1>3, <2>2, <2>3, OthersStay
<1> QED
  BY <1>1, <1>2, <1>3 DEF Ingest, Steps

LEMMA OwnIngest ==
  ASSUME Domains, Solitary, Own, NEW i \in Ingesters, Ingest(i)
  PROVE  Own'
<1> SUFFICES ASSUME NEW j \in Ingesters, Active(j)', run'[j].mode = "rebuild",
                    run'[j].alone, run'[j].pc \notin {"clear", "delete"}
             PROVE  /\ DOMAIN Contents' = Done(run'[j])
                    /\ \A id \in DOMAIN Contents' :
                         Contents'[id] = [edition |-> run'[j].read[id[1]],
                                          embedder |-> run'[j].embedder]
  BY DEF Own, Exact
<1>1. CASE Start(i)
  <2>1. j # i
    BY <1>1, StartIs
  <2>2. Active(j) /\ run'[j] = [run[j] EXCEPT !.alone = FALSE] /\ run[j] \in Run
    BY <1>1, <2>1, StartIs, Actives
  <2> QED
    BY <2>2, Noted
<1>2. CASE Delete(i)
  <2>1. j = i
    <3> SUFFICES ASSUME j # i PROVE FALSE
      OBVIOUS
    <3>1. Active(i) /\ Active(j) /\ run[j].alone
      BY <1>2, DeleteIs
    <3> QED
      BY <3>1 DEF Solitary
  <2>2. Done(run'[j]) = {} /\ DOMAIN Contents' = {}
    BY <1>2, <2>1, DeleteIs, DoneNothing
  <2> QED
    BY <2>2
<1>3. CASE Steps(i)
  <2>1. j = i
    <3> SUFFICES ASSUME j # i PROVE FALSE
      OBVIOUS
    <3>1. Active(i) /\ Active(j) /\ run[j].alone
      BY <1>3, StepsIs, OthersStay
    <3> QED
      BY <3>1 DEF Solitary
  <2> DEFINE r == run[i]
             m == run'[i]
             id == <<Current(r), r.piece>>
  <2>2. /\ Active(i) /\ m.mode = r.mode /\ m.embedder = r.embedder /\ m.alone = r.alone
    BY <1>3, <2>1, StepsIs, GoesOn
  <2>3. Exact(r, Contents)
    BY <2>2 DEF Own
  <2>4. CASE /\ Contents' = Contents /\ Done(m) = Done(r)
             /\ r.pc \notin {"clear", "delete"}
             /\ \A k \in Done(r) : m.read[k[1]] = r.read[k[1]]
    BY <2>1, <2>2, <2>3, <2>4 DEF Exact
  <2>5. CASE /\ Contents' = Contents /\ Done(m) = {} /\ DOMAIN Contents = {}
    BY <2>1, <2>5
  <2>6. CASE /\ r.pc = "upsert" /\ m.read = r.read
             /\ Done(m) = Done(r) \cup {id}
             /\ Contents' = Put(Contents, id, Stored(r))
    <3>1. /\ DOMAIN Contents = Done(r)
          /\ \A k \in DOMAIN Contents :
               Contents[k] = [edition |-> r.read[k[1]], embedder |-> r.embedder]
      BY <2>1, <2>2, <2>3, <2>6 DEF Exact
    <3>2. Stored(r) = [edition |-> r.read[id[1]], embedder |-> r.embedder]
      BY DEF Stored
    <3> DEFINE point == Stored(r)
    <3>3. Contents' = Put(Contents, id, point)
      BY <2>6
    <3> HIDE DEF id, point, r, m
    <3>4. /\ DOMAIN Contents' = DOMAIN Contents \cup {id}
          /\ Contents'[id] = point
          /\ \A k \in DOMAIN Contents : k # id => Contents'[k] = Contents[k]
      BY <3>3 DEF Put
    <3>5. point = [edition |-> r.read[id[1]], embedder |-> r.embedder]
      BY <3>2 DEF point
    <3>6. \A k \in DOMAIN Contents' :
            Contents'[k] = [edition |-> r.read[k[1]], embedder |-> r.embedder]
      BY <3>1, <3>4, <3>5
    <3>7. DOMAIN Contents' = Done(m) /\ m.read = r.read /\ m.embedder = r.embedder
      BY <2>2, <2>6, <3>1, <3>4
    <3> QED
      BY <2>1, <3>6, <3>7 DEF m
  <2> QED
    BY <1>3, <2>1, <2>4, <2>5, <2>6, GoesOn
<1> QED
  BY <1>1, <1>2, <1>3 DEF Ingest, Steps

RInv == Domains /\ Undropped /\ Solitary /\ Own

LEMMA InitRuns == Init => RInv
<1> SUFFICES ASSUME Init PROVE RInv
  OBVIOUS
<1>1. \A i \in Ingesters : ~Active(i)
  BY DEF Init, Active, Idle
<1> QED
  BY <1>1, InitDomains DEF RInv, Undropped, Solitary, Own

LEMMA StepRuns == RInv /\ [Next]_vars => RInv'
<1> SUFFICES ASSUME RInv, [Next]_vars PROVE RInv'
  OBVIOUS
<1>1. Domains'
  BY StepDomains DEF RInv
<1>2. ASSUME NEW i \in Ingesters, Ingest(i) PROVE RInv'
  BY <1>1, <1>2, UndroppedIngest, SolitaryIngest, OwnIngest DEF RInv
<1>3. CASE UNCHANGED <<run, collection>>
  BY <1>1, <1>3 DEF RInv, Undropped, Solitary, Own, Active, Contents, Exists
<1>4. ASSUME NEW p \in Processes, Retrieve(p) PROVE UNCHANGED <<run, collection>>
  BY <1>4 DEF Retrieve, Ask, Count, SearchExists, Dim, CheckDim, Query
<1> QED
  BY <1>2, <1>3, <1>4 DEF Next, Edit, vars

LEMMA RunsInvariant == Spec => []RInv
  BY InitRuns, StepRuns, PTL DEF Spec

(* A run that is at the end of its sources has stored all their pieces.     *)
LEMMA DoneIsAll ==
  ASSUME NEW r, r.pc = "fetch"
  PROVE  Done(r) = PiecesOf(r.read)
  BY DEF Done

(* Whatever runs overlap, and wherever others are killed: a run that ends    *)
(* well has stored every piece it read, unless another one deleted the      *)
(* collection under it.                                                    *)
THEOREM NothingIsLost == Spec => NothingLostUnlessDropped
<1>1. ASSUME RInv, NEW i \in Ingesters, Finish(i), ~run[i].dropped
      PROVE  PiecesOf(run[i].read) \subseteq DOMAIN Contents
  <2>1. Active(i) /\ run[i].pc = "fetch"
    BY <1>1 DEF Finish, Active
  <2> QED
    BY <1>1, <2>1, DoneIsAll DEF RInv, Undropped
<1>2. RInv => \A i \in Ingesters :
                 Finish(i) /\ ~run[i].dropped =>
                   PiecesOf(run[i].read) \subseteq DOMAIN Contents
  BY <1>1
<1> QED
  BY <1>2, RunsInvariant, PTL DEF NothingLostUnlessDropped

LEMMA RebuildIs ==
  ASSUME RInv, NEW i \in Ingesters, Finish(i), run[i].mode = "rebuild", run[i].alone
  PROVE  /\ run[i] \in Run /\ Sound(run[i], edition)
         /\ DOMAIN Contents = PiecesOf(run[i].read)
         /\ \A id \in DOMAIN Contents :
              /\ Contents[id] = [edition  |-> run[i].read[id[1]],
                                 embedder |-> run[i].embedder]
              /\ run[i].asOf[id[1]] <= Contents[id].edition
<1> DEFINE r == run[i]
<1>1. Active(i) /\ r.pc = "fetch" /\ Sound(r, edition) /\ r \in Run
  BY Actives DEF Finish, Active, RInv
<1>2. Exact(r, Contents)
  BY <1>1 DEF RInv, Own
<1>3. /\ DOMAIN Contents = PiecesOf(r.read)
      /\ \A id \in DOMAIN Contents :
            Contents[id] = [edition |-> r.read[id[1]], embedder |-> r.embedder]
  BY <1>1, <1>2, DoneIsAll DEF Exact
<1>4. ASSUME NEW id \in DOMAIN Contents
      PROVE  r.asOf[id[1]] <= Contents[id].edition
  <2>1. PICK s \in 1..Len(r.read) : \E k \in 0..(Pieces(r.read[s]) - 1) : id = <<s, k>>
    BY <1>3, InPiecesOf
  <2>2. id[1] = s /\ s \in 1..Current(r)
    BY <2>1 DEF Current
  <2>3. r.read[s] \in r.asOf[s]..edition[s]
    BY <1>1, <2>2 DEF Sound
  <2>4. s \in Sources
    BY <1>1, <2>2, BatchesAssumption DEF Sound, Sources
  <2>5. r.asOf[s] <= r.read[s]
    BY <1>1, <2>3, <2>4 DEF Run, RInv, Domains
  <2>6. Contents[id].edition = r.read[s]
    BY <1>3, <2>2
  <2> QED
    BY <2>2, <2>5, <2>6
<1> QED
  BY <1>1, <1>3, <1>4

(* A rebuild that meets no other run leaves the pieces of every source as    *)
(* it read them and nothing else, whatever the server held before.          *)
THEOREM RebuildIsExact == Spec => RebuildPublishesSources
<1>1. RInv => \A i \in Ingesters :
       Finish(i) /\ run[i].mode = "rebuild" /\ run[i].alone =>
         /\ DOMAIN Contents = PiecesOf(run[i].read)
         /\ \A id \in DOMAIN Contents :
              /\ Contents[id] = [edition  |-> run[i].read[id[1]],
                                 embedder |-> run[i].embedder]
              /\ run[i].asOf[id[1]] <= Contents[id].edition
  BY RebuildIs
<1> QED
  BY <1>1, RunsInvariant, PTL DEF RebuildPublishesSources

(* After such a rebuild every phrase no longer than the overlap and one      *)
(* character can be retrieved whole.                                       *)
THEOREM PhrasesAreStored == Spec => PhrasesAreWhole
<1> DEFINE Whole(i) ==
      \A s \in 1..Len(run[i].read) :
        LET length == Length[run[i].read[s]]
            stored == {id[2] : id \in {id \in DOMAIN Contents : id[1] = s}}
        IN \A first \in 0 .. length - 1 : \A last \in first .. first + Overlap :
             last < length =>
               WholeIn(stored, first, last, length, Size, Overlap)
<1>1. ASSUME RInv, NEW i \in Ingesters, Finish(i), run[i].mode = "rebuild", run[i].alone
      PROVE  Whole(i)
  <2> DEFINE read == run[i].read
  <2>1. DOMAIN Contents = PiecesOf(read) /\ read \in Seq(0..MaxEdition)
    BY <1>1, RebuildIs DEF Run
  <2> SUFFICES ASSUME NEW s \in 1..Len(read),
                      NEW first \in 0 .. Length[read[s]] - 1,
                      NEW last \in first .. first + Overlap,
                      last < Length[read[s]]
               PROVE  WholeIn({id[2] : id \in {id \in DOMAIN Contents : id[1] = s}},
                              first, last, Length[read[s]], Size, Overlap)
    OBVIOUS
  <2> DEFINE length == Length[read[s]]
             stored == {id[2] : id \in {id \in DOMAIN Contents : id[1] = s}}
             count == PieceCount(length, Size, Overlap)
  <2>2. read[s] \in 0..MaxEdition
    BY <2>1, ElementOfSeq
  <2>3. length \in Nat /\ Size \in Nat \ {0} /\ Overlap \in 0 .. Size - 1
    BY <2>2, QdrantStoreAssumption
  <2>4. WholeIn(0 .. count - 1, first, last, length, Size, Overlap)
    BY <2>3, PhraseInOnePiece
  <2>5. count = Pieces(read[s])
    BY DEF Pieces
  <2> HIDE DEF count, length
  <2>6. \A k \in 0 .. count - 1 : k \in stored
    <3> SUFFICES ASSUME NEW k \in 0 .. count - 1 PROVE k \in stored
      OBVIOUS
    <3>1. <<s, k>> \in PiecesOf(read)
      BY <2>5, InPiecesOf
    <3>2. <<s, k>> \in {id \in DOMAIN Contents : id[1] = s}
      BY <2>1, <3>1
    <3>3. k = <<s, k>>[2]
      OBVIOUS
    <3> QED
      BY <3>2, <3>3
  <2> HIDE DEF stored
  <2>7. WholeIn(stored, first, last, length, Size, Overlap)
    BY <2>4, <2>6 DEF WholeIn
  <2> QED
    BY <2>7 DEF length, stored
<1>2. RInv => \A i \in Ingesters :
                 Finish(i) /\ run[i].mode = "rebuild" /\ run[i].alone => Whole(i)
  BY <1>1
<1> QED
  BY <1>2, RunsInvariant, PTL DEF PhrasesAreWhole

-----------------------------------------------------------------------------
(* Retrievals. *)

(* What a retrieval has found out still holds when it acts on it, as long    *)
(* as no collection has appeared or vanished.                              *)
StillHolds ==
  \A p \in Processes :
    ~disturbed[p] =>
      /\ request[p].pc \in {"count", "exists", "dim", "width", "query"} => Exists
      /\ request[p].pc \in {"exists", "dim", "width", "query"} => DOMAIN Contents # {}
      /\ request[p].pc = "query" => collection.width = Width[request[p].embedder]

(* As long as nothing is deleted or created, points are only added.         *)
LEMMA QuietStep ==
  ASSUME Domains, [Next]_vars, NEW p \in Processes, ~disturbed'[p]
  PROVE  /\ Exists' = Exists
         /\ Exists => collection'.width = collection.width
         /\ DOMAIN Contents \subseteq DOMAIN Contents'
<1>1. CASE collection' = collection
  BY <1>1 DEF Exists, Contents
<1>2. ASSUME NEW i \in Ingesters, Ingest(i), collection' # collection
      PROVE  /\ Exists' = Exists
             /\ Exists => collection'.width = collection.width
             /\ DOMAIN Contents \subseteq DOMAIN Contents'
  <2>1. Steps(i)
    <3>1. ~Delete(i)
      BY DEF Delete
    <3>2. ~Start(i)
      BY <1>2 DEF Start
    <3> QED
      BY <1>2, <3>1, <3>2 DEF Ingest, Steps
  <2>2. /\ run[i].pc = "upsert" /\ Accepts(run[i])
        /\ collection' = With(collection, run[i])
    BY <1>2, <2>1, StepsIs
  <2>3. collection'.there /\ collection'.width = collection.width /\ collection.there
    BY <2>2, WithServed DEF Accepts, Exists
  <2>4. collection.there \in BOOLEAN
    BY Holdings DEF Domains, Served
  <2> QED
    BY <2>1, <2>3, <2>4, PointsStay DEF Exists
<1>3. ASSUME NEW q \in Processes, Retrieve(q) PROVE collection' = collection
  BY <1>3 DEF Retrieve, Ask, Count, SearchExists, Dim, CheckDim, Query
<1> QED
  BY <1>1, <1>2, <1>3 DEF Next, Edit, vars

(* What a retrieval that has ended says is true. *)
Answers(p) ==
  request[p] # Idle /\ request[p].pc = "idle" =>
    /\ request[p].result # "failed"
    /\ request[p].result = "refused" =>
         DOMAIN Contents # {} /\ collection.width # Width[request[p].embedder]
    /\ request[p].result = "hits" =>
         DOMAIN Contents # {} /\ collection.width = Width[request[p].embedder]

QInv ==
  /\ Domains
  /\ StillHolds
  /\ \A p \in Processes : ~disturbed[p] => Answers(p)

LEMMA AnswersSuffice == QInv => QuietRetrievalSucceeds
<1> SUFFICES ASSUME QInv PROVE QuietRetrievalSucceeds
  OBVIOUS
<1>1. ASSUME NEW p \in Processes,
             request[p] # Idle, request[p].pc = "idle", ~disturbed[p]
      PROVE  CASE request[p].result = "failed"  -> FALSE
               [] request[p].result = "refused" ->
                    /\ DOMAIN Contents # {}
                    /\ collection.width # Width[request[p].embedder]
               [] request[p].result = "hits"    ->
                    /\ DOMAIN Contents # {}
                    /\ collection.width = Width[request[p].embedder]
               [] OTHER -> TRUE
  <2> DEFINE full  == DOMAIN Contents # {}
             equal == collection.width = Width[request[p].embedder]
             result == request[p].result
  <2>1. /\ result # "failed"
        /\ result = "refused" => full /\ ~equal
        /\ result = "hits" => full /\ equal
    BY <1>1 DEF QInv, Answers
  <2>2. result = "refused" => result # "hits"
    OBVIOUS
  <2> HIDE DEF full, equal, result
  <2>3. (CASE result = "failed"  -> FALSE
           [] result = "refused" -> full /\ ~equal
           [] result = "hits"    -> full /\ equal
           [] OTHER -> TRUE)
    BY <2>1, <2>2, Zenon
  <2> QED
    BY <2>3, Zenon DEF full, equal, result
<1> QED
  BY <1>1, Zenon DEF QuietRetrievalSucceeds

LEMMA RequestStep ==
  ASSUME Domains, [Next]_vars, NEW p \in Processes
  PROVE  \/ Ask(p) \/ Count(p) \/ SearchExists(p) \/ Dim(p) \/ CheckDim(p) \/ Query(p)
         \/ /\ request'[p] = request[p]
            /\ ~disturbed'[p] => ~disturbed[p]
<1>1. request \in [Processes -> Request] /\ disturbed \in [Processes -> BOOLEAN]
  BY DEF Domains
<1>2. ASSUME NEW i \in Ingesters, Ingest(i)
      PROVE  request'[p] = request[p] /\ (~disturbed'[p] => ~disturbed[p])
  BY <1>1, <1>2
  DEF Ingest, Start, Clear, Delete, Fetch, Ensure, Create, Upsert, Finish, Abort
<1>3. ASSUME NEW q \in Processes, q # p, Retrieve(q)
      PROVE  request'[p] = request[p] /\ (~disturbed'[p] => ~disturbed[p])
  <2>1. \E r : request' = [request EXCEPT ![q] = r]
    BY <1>3 DEF Retrieve, Ask, Count, SearchExists, Dim, CheckDim, Query, Reply, Proceed
  <2>2. disturbed' \in {disturbed, [disturbed EXCEPT ![q] = FALSE]}
    BY <1>3 DEF Retrieve, Ask, Count, SearchExists, Dim, CheckDim, Query
  <2> QED
    BY <1>1, <1>3, <2>1, <2>2
<1> QED
  BY <1>2, <1>3 DEF Next, Edit, vars, Retrieve

LEMMA RetrievalStep ==
  ASSUME QInv, [Next]_vars, NEW p \in Processes, ~disturbed'[p]
  PROVE  /\ request'[p].pc \in {"count", "exists", "dim", "width", "query"} => Exists'
         /\ request'[p].pc \in {"exists", "dim", "width", "query"} => DOMAIN Contents' # {}
         /\ request'[p].pc = "query" => collection'.width = Width[request'[p].embedder]
         /\ Answers(p)'
<1> DEFINE Goal ==
      /\ request'[p].pc \in {"count", "exists", "dim", "width", "query"} => Exists'
      /\ request'[p].pc \in {"exists", "dim", "width", "query"} => DOMAIN Contents' # {}
      /\ request'[p].pc = "query" => collection'.width = Width[request'[p].embedder]
      /\ Answers(p)'
<1>1. request \in [Processes -> Request] /\ p \in DOMAIN request
  BY DEF QInv, Domains
<1>2. /\ Exists' = Exists
      /\ Exists => collection'.width = collection.width
      /\ DOMAIN Contents \subseteq DOMAIN Contents'
  BY QuietStep DEF QInv
<1>3. DOMAIN Contents # {} => Exists
  BY DEF Contents
<1>4. Exists => Contents = collection.points
  BY DEF Contents
<1>5. request[p].pc \in {"count", "exists", "dim", "width", "query"} =>
        request[p] \in [pc : {"count", "exists", "dim", "width", "query"},
                       embedder : Embedders]
  <2>1. request[p] \in Request
    BY <1>1
  <2> QED
    BY <2>1 DEF Request, Idle
<1>6. CASE request'[p] = request[p] /\ ~disturbed[p]
  BY <1>2, <1>3, <1>6 DEF QInv, StillHolds, Answers
<1>7. CASE Ask(p)
  <2>1. PICK e \in Embedders : request'[p] =
          IF Exists THEN [pc |-> "count", embedder |-> e]
          ELSE [pc |-> "idle", embedder |-> e, result |-> "nothing"]
    BY <1>1, <1>7 DEF Ask
  <2> QED
    BY <1>2, <2>1 DEF Answers
<1>8. ASSUME ~disturbed[p],
             NEW pc \in {"exists", "dim", "width", "query"}, Proceed(p, pc),
             request[p].pc \in {"count", "exists", "dim", "width"},
             Exists, DOMAIN Contents # {},
             pc = "query" => collection.width = Width[request[p].embedder]
      PROVE  Goal
  <2>1. request'[p].pc = pc /\ request'[p].embedder = request[p].embedder
    BY <1>1, <1>5, <1>8 DEF Proceed
  <2> QED
    BY <1>2, <1>8, <2>1 DEF Answers
<1>9. ASSUME NEW result \in {"nothing", "refused", "hits"}, Reply(p, result),
             result = "refused" =>
               DOMAIN Contents # {} /\ collection.width # Width[request[p].embedder],
             result = "hits" =>
               DOMAIN Contents # {} /\ collection.width = Width[request[p].embedder]
      PROVE  Goal
  <2>1. request'[p] =
          [pc |-> "idle", embedder |-> request[p].embedder, result |-> result]
    BY <1>1, <1>9 DEF Reply
  <2> QED
    BY <1>2, <1>3, <1>9, <2>1 DEF Answers
<1>10. ASSUME Count(p) \/ SearchExists(p) \/ Dim(p) \/ CheckDim(p) \/ Query(p)
       PROVE  /\ ~disturbed[p] /\ Exists
              /\ request[p].pc # "count" => DOMAIN Contents # {}
              /\ request[p].pc = "query" =>
                   collection.width = Width[request[p].embedder]
  BY <1>10 DEF QInv, StillHolds, Count, SearchExists, Dim, CheckDim, Query
<1>11. CASE Count(p)
  BY <1>4, <1>8, <1>9, <1>10, <1>11 DEF Count
<1>12. CASE SearchExists(p)
  BY <1>8, <1>10, <1>12 DEF SearchExists
<1>13. CASE Dim(p)
  BY <1>8, <1>10, <1>13 DEF Dim
<1>14. CASE CheckDim(p)
  BY <1>8, <1>9, <1>10, <1>14 DEF CheckDim
<1>15. CASE Query(p)
  BY <1>4, <1>9, <1>10, <1>15 DEF Query
<1> QED
  BY <1>6, <1>7, <1>11, <1>12, <1>13, <1>14, <1>15, RequestStep DEF QInv

LEMMA InitRetrievals == Init => QInv
<1> SUFFICES ASSUME Init PROVE QInv
  OBVIOUS
<1>1. \A p \in Processes : request[p] = Idle /\ request[p].pc = "idle"
  BY DEF Init, Idle
<1> QED
  BY <1>1, InitDomains DEF QInv, StillHolds, Answers

LEMMA StepRetrievals == QInv /\ [Next]_vars => QInv'
<1> SUFFICES ASSUME QInv, [Next]_vars PROVE QInv'
  OBVIOUS
<1>1. Domains'
  BY StepDomains DEF QInv
<1> QED
  BY <1>1, RetrievalStep DEF QInv, StillHolds

(* A retrieval in whose course no collection appears or vanishes never fails *)
(* at the server, and is refused only when the widths do differ.           *)
THEOREM RetrievalSucceeds == Spec => []QuietRetrievalSucceeds
  BY InitRetrievals, StepRetrievals, AnswersSuffice, PTL DEF Spec
=============================================================================
