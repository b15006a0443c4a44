--------------------------- MODULE GoogleDocsProofs ---------------------------
(***************************************************************************)
(* Proofs about GoogleDocs, for any folders, nested in any way, any         *)
(* documents and any number of moves.                                      *)
(***************************************************************************)
EXTENDS GoogleDocs, SequenceTheorems, TLAPS

-----------------------------------------------------------------------------
(* Types.                                                                   *)

LEMMA WiderSequence ==
  ASSUME NEW S, NEW T, S \subseteq T, NEW q \in Seq(S)
  PROVE  q \in Seq(T)
<1>1. Len(q) \in Nat /\ q \in [1..Len(q) -> S]
  OBVIOUS
<1>2. q \in [1..Len(q) -> T]
  BY <1>1
<1> QED
  BY <1>1, <1>2, SeqDef

LEMMA Pushed ==
  ASSUME NEW S, NEW q \in Seq(S), NEW c \in S
  PROVE  /\ Append(q, c) \in Seq(S)
         /\ \A n \in DOMAIN q : n \in DOMAIN Append(q, c) /\ Append(q, c)[n] = q[n]
         /\ \E n \in DOMAIN Append(q, c) : Append(q, c)[n] = c
<1>1. /\ Append(q, c) \in Seq(S) /\ Len(q) \in Nat
      /\ DOMAIN q = 1..Len(q) /\ DOMAIN Append(q, c) = 1..(Len(q) + 1)
      /\ \A n \in 1..Len(q) : Append(q, c)[n] = q[n]
      /\ Append(q, c)[Len(q) + 1] = c
  OBVIOUS
<1> QED
  BY <1>1

LEMMA Popped ==
  ASSUME NEW S, NEW q \in Seq(S), q # <<>>
  PROVE  LET rest == SubSeq(q, 1, Len(q) - 1)
         IN  /\ rest \in Seq(S)
             /\ q[Len(q)] \in S
             /\ \A n \in DOMAIN q :
                  q[n] = q[Len(q)] \/ (n \in DOMAIN rest /\ rest[n] = q[n])
<1> DEFINE rest == SubSeq(q, 1, Len(q) - 1)
<1>1. Len(q) \in Nat /\ Len(q) > 0 /\ DOMAIN q = 1..Len(q)
  OBVIOUS
<1>2. rest \in Seq(S) /\ Len(rest) = Len(q) - 1
  BY <1>1
<1>3. \A n \in 1..(Len(q) - 1) : rest[n] = q[n]
  BY <1>1
<1>4. DOMAIN rest = 1..(Len(q) - 1)
  BY <1>1, <1>2
<1> HIDE DEF rest
<1>5. \A n \in DOMAIN q : n = Len(q) \/ n \in 1..(Len(q) - 1)
  BY <1>1
<1> QED
  BY <1>1, <1>2, <1>3, <1>4, <1>5 DEF rest

LEMMA PageIsListing ==
  ASSUME NEW entries, NEW there, there \subseteq entries,
         NEW listing \in [listed : SUBSET entries, left : SUBSET entries,
                          more : BOOLEAN],
         NEW next \in Pages(listing, there)
  PROVE  next \in [listed : SUBSET entries, left : SUBSET next.listed, more : BOOLEAN]
<1>1. PICK page \in SUBSET (there \ listing.listed), more \in BOOLEAN :
        next = [listed |-> listing.listed \cup page, left |-> page, more |-> more]
  BY DEF Pages
<1> QED
  BY <1>1

LEMMA PageParts ==
  ASSUME NEW listing, NEW there, NEW next \in Pages(listing, there)
  PROVE  /\ next.listed = listing.listed \cup next.left
         /\ next.left \subseteq there \ listing.listed
  BY DEF Pages

LEMMA UnlistedIsListing ==
  ASSUME NEW entries
  PROVE  /\ Unlisted \in [listed : SUBSET entries, left : SUBSET Unlisted.listed,
                          more : BOOLEAN]
         /\ Unlisted.listed = {} /\ Unlisted.left = {} /\ Unlisted.more
  BY DEF Unlisted

LEMMA InitTypes == Init => TypeOK
<1> SUFFICES ASSUME Init PROVE TypeOK
  OBVIOUS
<1>1. <<Root>> \in Seq({Root})
  OBVIOUS
<1>2. docs \in [listed : SUBSET Docs, left : SUBSET docs.listed, more : BOOLEAN]
  BY UnlistedIsListing DEF Init
<1>3. children \in [listed : SUBSET below[parent], left : SUBSET children.listed,
                    more : BOOLEAN]
  BY DEF Init, Unlisted
<1>4. reads \in [Docs -> Nat]
  BY DEF Init
<1> QED
  BY <1>1, <1>2, <1>3, <1>4, GoogleDocsAssumption DEF Init, TypeOK

LEMMA TakenIsFolder ==
  ASSUME TypeOK, NEW c \in children.left
  PROVE  c \in below[parent] /\ c \in Folders
<1>1. below \in [Folders -> SUBSET Folders] /\ parent \in Folders
  BY GoogleDocsAssumption DEF TypeOK
<1> QED
  BY <1>1 DEF TypeOK

LEMMA StepTypes == TypeOK /\ [Next]_vars => TypeOK'
<1> SUFFICES ASSUME TypeOK, [Next]_vars PROVE TypeOK'
  OBVIOUS
<1>1. CASE ListDocuments
  <2>1. PICK next \in Pages(docs, DocsIn(folder)) : docs' = next
    BY <1>1 DEF ListDocuments
  <2>2. docs \in [listed : SUBSET Docs, left : SUBSET Docs, more : BOOLEAN]
    BY DEF TypeOK
  <2>3. next \in [listed : SUBSET Docs, left : SUBSET next.listed, more : BOOLEAN]
    BY <2>2, PageIsListing DEF DocsIn
  <2> QED
    BY <1>1, <2>1, <2>3 DEF ListDocuments, TypeOK, remote, walk
<1>2. CASE Resume
  BY <1>2 DEF Resume, TypeOK, remote, walk
<1>3. CASE ListFolders
  <2>1. PICK next \in Pages(children, below[parent]) : children' = next
    BY <1>3 DEF ListFolders
  <2>2. children \in [listed : SUBSET below[parent], left : SUBSET below[parent],
                      more : BOOLEAN]
    BY DEF TypeOK
  <2>3. next \in [listed : SUBSET below[parent], left : SUBSET next.listed,
                  more : BOOLEAN]
    BY <2>2, PageIsListing
  <2> QED
    BY <1>3, <2>1, <2>3 DEF ListFolders, TypeOK, remote
<1>4. CASE NextParent
  <2>1. pending \in Seq(seen) /\ pending # <<>>
    BY <1>4 DEF NextParent, TypeOK
  <2>2. parent' \in seen /\ pending' \in Seq(seen)
    BY <1>4, <2>1, Popped DEF NextParent
  <2>3. children' \in [listed : SUBSET below[parent'], left : SUBSET children'.listed,
                       more : BOOLEAN]
    BY <1>4 DEF NextParent, Unlisted
  <2> QED
    BY <1>4, <2>2, <2>3 DEF NextParent, TypeOK, remote
<1>5. CASE Finish
  BY <1>5 DEF Finish, TypeOK, remote, walk
<1>6. ASSUME NEW d \in Docs, Export(d) PROVE TypeOK'
  <2>1. docs' \in [listed : SUBSET Docs, left : SUBSET docs'.listed, more : BOOLEAN]
    BY <1>6 DEF Export, Consume, TypeOK
  <2>2. reads' \in [Docs -> Nat]
    BY <1>6 DEF Export, TypeOK
  <2> QED
    BY <1>6, <2>1, <2>2 DEF Export, TypeOK, remote, walk
<1>7. ASSUME NEW c \in Folders, TakeFolder(c) PROVE TypeOK'
  <2>1. children' \in [listed : SUBSET below[parent], left : SUBSET children'.listed,
                       more : BOOLEAN]
    BY <1>7 DEF TakeFolder, Consume, TypeOK
  <2>2. CASE c \in seen
    BY <1>7, <2>1, <2>2 DEF TakeFolder, TypeOK, remote
  <2>3. CASE c \notin seen
    <3>1. pending \in Seq(seen \cup {c})
      BY WiderSequence DEF TypeOK
    <3>2. Append(pending, c) \in Seq(seen \cup {c})
      BY <3>1, Pushed
    <3>3. /\ docs' = Unlisted /\ pc' = "documents" /\ folder' = c
          /\ seen' = seen \cup {c} /\ pending' = Append(pending, c)
          /\ UNCHANGED <<recursive, below, home, moves, moved, parent, reads>>
      BY <1>7, <2>3 DEF TakeFolder, remote
    <3>4. docs' \in [listed : SUBSET Docs, left : SUBSET docs'.listed, more : BOOLEAN]
      BY <3>3, UnlistedIsListing
    <3>5. pending' \in Seq(seen')
      BY <3>2, <3>3
    <3>6. /\ folder' \in seen' /\ parent' \in seen'
          /\ Root \in seen' /\ seen' \subseteq Folders
      BY <3>3 DEF TypeOK
    <3>7. below'[parent'] = below[parent]
      BY <3>3
    <3> QED
      BY <2>1, <3>3, <3>4, <3>5, <3>6, <3>7 DEF TypeOK
  <2> QED
    BY <2>2, <2>3
<1>8. CASE Fail
  BY <1>8 DEF Fail, TypeOK, remote, walk
<1>9. ASSUME NEW d \in Docs, NEW f \in Folders, Move(d, f) PROVE TypeOK'
  BY <1>9, GoogleDocsAssumption DEF Move, TypeOK, walk
<1>10. CASE UNCHANGED vars
  BY <1>10 DEF vars, TypeOK, remote, walk
<1> QED
  BY <1>1, <1>2, <1>3, <1>4, <1>5, <1>6, <1>7, <1>8, <1>9, <1>10 DEF Next, Fetch

(* Every variable stays in its domain, and every listing within what was    *)
(* listed (TypeOK).                                                        *)
THEOREM TypeCorrect == Spec => []TypeOK
<1> QED
  BY InitTypes, StepTypes, PTL DEF Spec

-----------------------------------------------------------------------------
(* The invariant. *)

InPending(f) == \E n \in DOMAIN pending : pending[n] = f

(* What has been consumed of the current listing of folders has been met,   *)
(* and the last page leaves none out.                                      *)
Covered ==
  /\ children.listed \ children.left \subseteq seen
  /\ ~children.more => below[parent] \subseteq children.listed

(* A folder that was met waits, is being listed, or has all of its folders  *)
(* met; and none is met without need.                                      *)
Explored ==
  /\ \A f \in seen :
       InPending(f) \/ below[f] \subseteq seen \/ (f = parent /\ Covered)
  /\ \A S \in SUBSET Folders : Root \in S /\ Closed(S) => seen \subseteq S
  /\ ~recursive => seen = {Root}
  /\ pc = "folders" => recursive
  /\ pc = "done" /\ recursive => Closed(seen)

(* The listing of documents has every document of the folder that stayed,   *)
(* once it is at its end, and no other that stayed.                        *)
Listed ==
  pc = "documents" =>
    \A d \in Docs \ moved :
      /\ d \in docs.listed => home[d] = folder
      /\ ~docs.more /\ home[d] = folder => d \in docs.listed

(* How often a document that stayed has been read so far. *)
Due(d) ==
  IF home[d] \notin seen THEN 0
  ELSE IF pc = "documents" /\ home[d] = folder
    THEN IF d \in docs.listed \ docs.left THEN 1 ELSE 0
  ELSE 1

Counted == pc # "failed" => \A d \in Docs \ moved : reads[d] = Due(d)

IInv == TypeOK /\ Explored /\ Listed /\ Counted

LEMMA InitInvariant == Init => IInv
<1> SUFFICES ASSUME Init PROVE IInv
  OBVIOUS
<1>1. TypeOK
  BY InitTypes
<1>2. Explored
  <2>1. InPending(Root)
    <3>1. pending = <<Root>>
      BY DEF Init
    <3>2. 1 \in DOMAIN pending /\ pending[1] = Root
      BY <3>1
    <3> QED
      BY <3>2 DEF InPending
  <2>2. seen = {Root} /\ pc = "documents"
    BY DEF Init
  <2> QED
    BY <2>1, <2>2 DEF Explored
<1>3. Listed
  BY UnlistedIsListing DEF Init, Listed
<1>4. Counted
  <2> SUFFICES ASSUME NEW d \in Docs PROVE reads[d] = Due(d)
    BY DEF Counted
  <2> QED
    BY UnlistedIsListing DEF Init, Due
<1> QED
  BY <1>1, <1>2, <1>3, <1>4 DEF IInv

(* A step that leaves the walk over the folders alone.                      *)
LEMMA WalkKept ==
  ASSUME IInv, UNCHANGED <<recursive, below, walk>>,
         pc' \in {"documents", "failed"} \/ pc' = pc \/ (pc' = "folders" /\ recursive)
           \/ (pc' = "done" /\ ~recursive)
  PROVE  Explored'
  BY DEF IInv, Explored, InPending, Covered, Closed, walk

LEMMA ListDocumentsInvariant == IInv /\ ListDocuments => IInv'
<1> SUFFICES ASSUME IInv, ListDocuments PROVE IInv'
  OBVIOUS
<1>1. TypeOK'
  BY StepTypes DEF IInv, Next, Fetch
<1>2. /\ pc = "documents" /\ docs.left = {} /\ docs.more
      /\ UNCHANGED <<recursive, below, home, moves, moved, pc, folder, reads, walk>>
  BY DEF ListDocuments, NextPage, remote
<1>3. Explored'
  BY <1>2, WalkKept
<1>4. PICK next \in Pages(docs, DocsIn(folder)) :
        docs' = next /\ (~next.more => DocsIn(folder) \subseteq next.listed)
  BY DEF ListDocuments, NextPage
<1>6. /\ docs'.listed = docs.listed \cup docs'.left
      /\ docs'.left \subseteq DocsIn(folder) \ docs.listed
      /\ ~docs'.more => DocsIn(folder) \subseteq docs'.listed
  BY <1>4, PageParts
<1>7. Listed'
  BY <1>2, <1>6 DEF IInv, Listed, DocsIn
<1>8. Counted'
  <2> SUFFICES ASSUME NEW d \in Docs \ moved PROVE reads[d] = Due(d)'
    BY <1>2 DEF Counted
  <2>1. reads[d] = Due(d)
    BY <1>2 DEF IInv, Counted
  <2>2. d \in docs'.listed \ docs'.left <=> d \in docs.listed \ docs.left
    BY <1>2, <1>6
  <2> QED
    BY <1>2, <2>1, <2>2 DEF Due, walk
<1> QED
  BY <1>1, <1>3, <1>7, <1>8 DEF IInv

LEMMA ExportInvariant == ASSUME NEW x \in Docs PROVE IInv /\ Export(x) => IInv'
<1> SUFFICES ASSUME IInv, Export(x) PROVE IInv'
  OBVIOUS
<1>1. TypeOK'
  BY StepTypes DEF IInv, Next, Fetch
<1>2. /\ pc = "documents" /\ x \in docs.left
      /\ docs' = [docs EXCEPT !.left = docs.left \ {x}]
      /\ reads' = [reads EXCEPT ![x] = reads[x] + 1]
      /\ UNCHANGED <<recursive, below, home, moves, moved, pc, folder, walk>>
  BY DEF Export, Consume, remote
<1>3. Explored'
  BY <1>2, WalkKept
<1>4. docs \in [listed : SUBSET Docs, left : SUBSET docs.listed, more : BOOLEAN]
  BY DEF IInv, TypeOK
<1>5. /\ docs'.listed = docs.listed /\ docs'.more = docs.more
      /\ docs'.left = docs.left \ {x} /\ x \in docs.listed
  BY <1>2, <1>4
<1>6. Listed'
  BY <1>2, <1>5 DEF IInv, Listed
<1>7. Counted'
  <2> SUFFICES ASSUME NEW d \in Docs \ moved PROVE reads'[d] = Due(d)'
    BY <1>2 DEF Counted
  <2>1. reads[d] = Due(d) /\ reads \in [Docs -> Nat] /\ folder \in seen
    BY <1>2 DEF IInv, Counted, TypeOK
  <2>2. CASE d = x
    <3>1. home[d] = folder
      BY <1>2, <1>5, <2>2 DEF IInv, Listed
    <3>2. Due(d) = 0
      BY <1>2, <2>1, <2>2, <3>1 DEF Due
    <3>3. Due(d)' = 1
      BY <1>2, <1>5, <2>1, <2>2, <3>1 DEF Due, walk
    <3> QED
      BY <1>2, <2>1, <2>2, <3>2, <3>3
  <2>3. CASE d # x
    <3>1. reads'[d] = reads[d]
      BY <1>2, <2>1, <2>3
    <3>2. d \in docs'.listed \ docs'.left <=> d \in docs.listed \ docs.left
      BY <1>5, <2>3
    <3> QED
      BY <1>2, <2>1, <3>1, <3>2 DEF Due, walk
  <2> QED
    BY <2>2, <2>3
<1> QED
  BY <1>1, <1>3, <1>6, <1>7 DEF IInv

LEMMA ResumeInvariant == IInv /\ Resume => IInv'
<1> SUFFICES ASSUME IInv, Resume PROVE IInv'
  OBVIOUS
<1>1. TypeOK'
  BY StepTypes DEF IInv, Next, Fetch
<1>2. /\ pc = "documents" /\ docs.left = {} /\ ~docs.more
      /\ pc' = IF recursive THEN "folders" ELSE "done"
      /\ UNCHANGED <<recursive, below, home, moves, moved, folder, docs, reads, walk>>
  BY DEF Resume, Exhausted, remote
<1>3. Explored'
  BY <1>2, WalkKept DEF IInv, TypeOK
<1>4. Listed'
  BY <1>2 DEF Listed
<1>5. Counted'
  <2> SUFFICES ASSUME NEW d \in Docs \ moved PROVE reads[d] = Due(d)'
    BY <1>2 DEF Counted
  <2>1. reads[d] = Due(d)
    BY <1>2 DEF IInv, Counted
  <2>2. home[d] = folder => d \in docs.listed
    BY <1>2 DEF IInv, Listed
  <2> QED
    BY <1>2, <2>1, <2>2 DEF Due, walk
<1> QED
  BY <1>1, <1>3, <1>4, <1>5 DEF IInv

(* Away from the documents, how often one was read depends on the folders   *)
(* met only.                                                               *)
LEMMA CountKept ==
  ASSUME IInv, pc = "folders", pc' \in {"folders", "done", "failed"},
         UNCHANGED <<home, moved, seen, reads>>
  PROVE  Listed' /\ Counted'
  BY DEF IInv, Listed, Counted, Due

LEMMA ListFoldersInvariant == IInv /\ ListFolders => IInv'
<1> SUFFICES ASSUME IInv, ListFolders PROVE IInv'
  OBVIOUS
<1>1. TypeOK'
  BY StepTypes DEF IInv, Next, Fetch
<1>2. /\ pc = "folders" /\ children.left = {} /\ children.more
      /\ UNCHANGED <<recursive, below, home, moves, moved, pc, parent, pending,
                     seen, reads>>
  BY DEF ListFolders, NextPage, remote
<1>3. PICK next \in Pages(children, below[parent]) :
        children' = next /\ (~next.more => below[parent] \subseteq next.listed)
  BY DEF ListFolders, NextPage
<1>5. /\ children'.listed = children.listed \cup children'.left
      /\ children'.left \subseteq below[parent] \ children.listed
      /\ ~children'.more => below[parent] \subseteq children'.listed
  BY <1>3, PageParts
<1>6. Covered => Covered'
  BY <1>2, <1>5 DEF Covered
<1>7. Explored'
  BY <1>2, <1>6 DEF IInv, Explored, InPending, Closed
<1>8. Listed' /\ Counted'
  BY <1>2, CountKept
<1> QED
  BY <1>1, <1>7, <1>8 DEF IInv

LEMMA TakeFolderInvariant ==
  ASSUME NEW c \in Folders PROVE IInv /\ TakeFolder(c) => IInv'
<1> SUFFICES ASSUME IInv, TakeFolder(c) PROVE IInv'
  OBVIOUS
<1>1. TypeOK'
  BY StepTypes DEF IInv, Next, Fetch
<1>2. /\ pc = "folders" /\ c \in children.left /\ recursive
      /\ children' = [children EXCEPT !.left = children.left \ {c}]
      /\ UNCHANGED <<recursive, below, home, moves, moved, parent, reads>>
  BY DEF TakeFolder, Consume, remote, IInv, Explored
<1>3. children \in [listed : SUBSET below[parent], left : SUBSET children.listed,
                    more : BOOLEAN]
  BY DEF IInv, TypeOK
<1>4. /\ children'.listed = children.listed /\ children'.more = children.more
      /\ children'.left = children.left \ {c}
  BY <1>2, <1>3
<1>5. c \in below[parent] /\ parent \in seen
  BY <1>2, TakenIsFolder DEF IInv, TypeOK
<1>6. CASE c \in seen
  <2>1. UNCHANGED <<pc, folder, docs, pending, seen>>
    BY <1>6 DEF TakeFolder
  <2>2. Covered => Covered'
    BY <1>2, <1>4, <1>6, <2>1 DEF Covered
  <2>3. Explored'
    BY <1>2, <2>1, <2>2 DEF IInv, Explored, InPending, Closed
  <2>4. Listed' /\ Counted'
    BY <1>2, <2>1, CountKept
  <2> QED
    BY <1>1, <2>3, <2>4 DEF IInv
<1>7. CASE c \notin seen
  <2>1. /\ seen' = seen \cup {c} /\ pending' = Append(pending, c)
        /\ folder' = c /\ docs' = Unlisted /\ pc' = "documents"
    BY <1>7 DEF TakeFolder
  <2>2. Covered => Covered'
    BY <1>2, <1>4, <2>1 DEF Covered
  <2>3. pending \in Seq(seen \cup {c})
    BY WiderSequence DEF IInv, TypeOK
  <2>4. InPending(c)' /\ \A f \in seen : InPending(f) => InPending(f)'
    BY <2>1, <2>3, Pushed DEF InPending
  <2>5. \A f \in seen' :
          InPending(f)' \/ below'[f] \subseteq seen' \/ (f = parent' /\ Covered')
    BY <1>2, <2>1, <2>2, <2>4 DEF IInv, Explored
  <2>6. \A S \in SUBSET Folders : Root \in S /\ Closed(S)' => seen' \subseteq S
    BY <1>2, <1>5, <2>1 DEF IInv, Explored, Closed
  <2>7. Explored'
    BY <1>2, <2>1, <2>5, <2>6 DEF Explored
  <2>8. Listed'
    BY <2>1, UnlistedIsListing DEF Listed
  <2>9. Counted'
    <3> SUFFICES ASSUME NEW d \in Docs \ moved PROVE reads[d] = Due(d)'
      BY <1>2 DEF Counted
    <3>1. reads[d] = Due(d)
      BY <1>2 DEF IInv, Counted
    <3> QED
      BY <1>2, <1>7, <2>1, <3>1, UnlistedIsListing DEF Due
  <2> QED
    BY <1>1, <2>7, <2>8, <2>9 DEF IInv
<1> QED
  BY <1>6, <1>7

(* A listing of folders at its end leaves no folder of the parent unmet.    *)
LEMMA ParentIsExplored ==
  ASSUME IInv, Exhausted(children)
  PROVE  \A f \in seen : InPending(f) \/ below[f] \subseteq seen
  BY DEF IInv, Explored, Covered, Exhausted

LEMMA NextParentInvariant == IInv /\ NextParent => IInv'
<1> SUFFICES ASSUME IInv, NextParent PROVE IInv'
  OBVIOUS
<1>1. TypeOK'
  BY StepTypes DEF IInv, Next, Fetch
<1>2. /\ pc = "folders" /\ Exhausted(children) /\ pending # <<>>
      /\ parent' = pending[Len(pending)]
      /\ pending' = SubSeq(pending, 1, Len(pending) - 1)
      /\ children' = Unlisted
      /\ UNCHANGED <<recursive, below, home, moves, moved, pc, seen, reads>>
  BY DEF NextParent, remote
<1>3. Covered'
  BY <1>2, UnlistedIsListing DEF Covered
<1>4. pending \in Seq(seen)
  BY DEF IInv, TypeOK
<1>5. \A f : InPending(f) => f = parent' \/ InPending(f)'
  BY <1>2, <1>4, Popped DEF InPending
<1>6. Explored'
  BY <1>2, <1>3, <1>5, ParentIsExplored DEF IInv, Explored, Closed
<1>7. Listed' /\ Counted'
  BY <1>2, CountKept
<1> QED
  BY <1>1, <1>6, <1>7 DEF IInv

LEMMA FinishInvariant == IInv /\ Finish => IInv'
<1> SUFFICES ASSUME IInv, Finish PROVE IInv'
  OBVIOUS
<1>1. TypeOK'
  BY StepTypes DEF IInv, Next, Fetch
<1>2. /\ pc = "folders" /\ Exhausted(children) /\ pending = <<>> /\ pc' = "done"
      /\ UNCHANGED <<recursive, below, home, moves, moved, walk, reads>>
  BY DEF Finish, remote
<1>3. \A f \in seen : ~InPending(f)
  BY <1>2 DEF InPending
<1>4. Closed(seen)
  BY <1>2, <1>3, ParentIsExplored DEF Closed
<1>5. Explored'
  BY <1>2, <1>4 DEF IInv, Explored, InPending, Covered, Closed, walk
<1>6. Listed' /\ Counted'
  BY <1>2, CountKept DEF walk
<1> QED
  BY <1>1, <1>5, <1>6 DEF IInv

LEMMA FailInvariant == IInv /\ Fail => IInv'
<1> SUFFICES ASSUME IInv, Fail PROVE IInv'
  OBVIOUS
<1>1. TypeOK'
  BY StepTypes DEF IInv, Next
<1>2. pc' = "failed" /\ UNCHANGED <<recursive, below, walk>>
  BY DEF Fail, remote
<1>3. Explored'
  BY <1>2, WalkKept
<1> QED
  BY <1>1, <1>2, <1>3 DEF IInv, Listed, Counted

LEMMA MoveInvariant ==
  ASSUME NEW x \in Docs, NEW f \in Folders PROVE IInv /\ Move(x, f) => IInv'
<1> SUFFICES ASSUME IInv, Move(x, f) PROVE IInv'
  OBVIOUS
<1>1. TypeOK'
  BY StepTypes DEF IInv, Next
<1>2. /\ moved' = moved \cup {x} /\ home' = [home EXCEPT ![x] = f]
      /\ UNCHANGED <<recursive, below, pc, folder, docs, walk, reads>>
  BY DEF Move
<1>3. Explored'
  BY <1>2, WalkKept
<1>4. \A d \in Docs \ moved' : d \in Docs \ moved /\ home'[d] = home[d]
  BY <1>2 DEF IInv, TypeOK
<1>5. Listed'
  BY <1>2, <1>4 DEF IInv, Listed
<1>6. Counted'
  BY <1>2, <1>4 DEF IInv, Counted, Due, walk
<1> QED
  BY <1>1, <1>3, <1>5, <1>6 DEF IInv

LEMMA Invariance == Spec => []IInv
<1>1. ASSUME IInv, [Next]_vars PROVE IInv'
  <2>1. CASE UNCHANGED vars
    BY <1>1, <2>1 DEF vars, remote, walk, IInv, TypeOK, Explored, InPending,
                      Covered, Closed, Listed, Counted, Due
  <2> QED
    BY <1>1, <2>1, ListDocumentsInvariant, ExportInvariant, ResumeInvariant,
       ListFoldersInvariant, TakeFolderInvariant, NextParentInvariant,
       FinishInvariant, FailInvariant, MoveInvariant DEF Next, Fetch
<1> QED
  BY InitInvariant, <1>1, PTL DEF Spec

-----------------------------------------------------------------------------
(* A walk that ends well has read every document that stayed in a wanted    *)
(* folder exactly once, and none that stayed elsewhere.                    *)
THEOREM EachDocumentOnce == Spec => []ReadsEachDocumentOnce
<1>1. IInv => ReadsEachDocumentOnce
  <2> SUFFICES ASSUME IInv, pc = "done", NEW d \in Docs \ moved
               PROVE  reads[d] = IF home[d] \in Wanted THEN 1 ELSE 0
    BY DEF ReadsEachDocumentOnce
  <2>1. reads[d] = IF home[d] \in seen THEN 1 ELSE 0
    BY DEF IInv, Counted, Due
  <2>2. CASE ~recursive
    BY <2>1, <2>2 DEF IInv, Explored, Wanted
  <2>3. CASE recursive
    <3>1. seen \in SUBSET Folders /\ Root \in seen /\ Closed(seen)
      BY <2>3 DEF IInv, TypeOK, Explored
    <3>2. \A S \in SUBSET Folders : Root \in S /\ Closed(S) => seen \subseteq S
      BY DEF IInv, Explored
    <3>3. Wanted = seen
      BY <2>3, <3>1, <3>2 DEF Wanted
    <3> QED
      BY <2>1, <3>3
  <2> QED
    BY <2>2, <2>3
<1> QED
  BY Invariance, <1>1, PTL
=============================================================================
