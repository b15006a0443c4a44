------------------------------ MODULE GoogleDocs ------------------------------
(***************************************************************************)
(* GoogleDocsSource.fetch (knowledge/sources/gdocs.py): the documents of a  *)
(* Drive folder and, when recursive, of the folders below it.               *)
(*                                                                         *)
(* Two generators are interleaved.  _folders walks the folders and hands    *)
(* each one out as soon as it meets it, in the middle of listing the        *)
(* parent; fetch then lists and exports the documents of that folder before *)
(* it lets the walk go on.  Meanwhile people move documents.  An action is  *)
(* one call of Drive, or the consumption of one entry of a page.            *)
(*                                                                         *)
(* Drive is external: a folder can be below several others, or below        *)
(* itself; a listing comes in pages, of any size and in any order; and an   *)
(* entry that is there throughout a listing is on exactly one of its pages. *)
(***************************************************************************)
EXTENDS Integers, Sequences

CONSTANTS
  Folders,
  Docs,
  Root,        \* settings.gdocs_folder_id
  Settings,    \* the values of settings.gdocs_recursive to consider
  Trees,       \* the ways folders may lie below each other
  MaxMoves     \* bound: the moves of documents

ASSUME GoogleDocsAssumption ==
  /\ Root \in Folders
  /\ Settings \subseteq BOOLEAN
  /\ Trees \subseteq [Folders -> SUBSET Folders]
  /\ MaxMoves \in Nat

VARIABLES
  recursive, \* settings.gdocs_recursive; never changes
  below,     \* below[f]: the folders in folder f; never changes
  home,      \* home[d]: the folder of document d
  moves,     \* how many moves there were
  moved,     \* history: the documents moved since the walk began
  pc,        \* "documents", "folders", "done" or "failed"
  folder,    \* the folder whose documents are being read
  docs,      \* the listing of its documents
  parent,    \* the folder whose folders are being listed
  children,  \* the listing of its folders
  pending,   \* the folders whose folders are still to be listed
  seen,      \* the folders met
  reads      \* reads[d]: how often document d was yielded

remote == <<recursive, below, home, moves, moved>>
walk == <<parent, children, pending, seen>>
vars == <<remote, pc, folder, docs, walk, reads>>

-----------------------------------------------------------------------------
(* _list: what was listed so far, what of it is still to be consumed, and   *)
(* whether there is a nextPageToken.                                       *)

Unlisted == [listed |-> {}, left |-> {}, more |-> TRUE]

Exhausted(listing) == listing.left = {} /\ ~listing.more

Pages(listing, there) ==
  {[listed |-> listing.listed \cup page, left |-> page, more |-> more] :
     page \in SUBSET (there \ listing.listed), more \in BOOLEAN}

(* The next page of a listing of what is there.  The last page is followed  *)
(* by none; a page before it can be empty.                                 *)
NextPage(listing, there, next) ==
  /\ listing.left = {} /\ listing.more
  /\ next \in Pages(listing, there)
  /\ ~next.more => there \subseteq next.listed

Consume(listing, entry) == [listing EXCEPT !.left = @ \ {entry}]

DocsIn(f) == {d \in Docs : home[d] = f}

Init ==
  /\ recursive \in Settings
  /\ below \in Trees
  /\ home \in [Docs -> Folders]
  /\ moves = 0
  /\ moved = {}
  /\ pc = "documents"
  /\ folder = Root
  /\ docs = Unlisted
  /\ parent = Root
  /\ children = [Unlisted EXCEPT !.more = FALSE]
  /\ pending = <<Root>>
  /\ seen = {Root}
  /\ reads = [d \in Docs |-> 0]

(* Someone moves a document. *)
Move(d, f) ==
  /\ moves < MaxMoves
  /\ moves' = moves + 1
  /\ home' = [home EXCEPT ![d] = f]
  /\ moved' = moved \cup {d}
  /\ UNCHANGED <<recursive, below, pc, folder, docs, walk, reads>>

-----------------------------------------------------------------------------
(* fetch and _documents_in *)

ListDocuments ==
  /\ pc = "documents"
  /\ \E next \in Pages(docs, DocsIn(folder)) :
       NextPage(docs, DocsIn(folder), next) /\ docs' = next
  /\ UNCHANGED <<remote, pc, folder, walk, reads>>

(* A document that was moved since it was listed is exported all the same. *)
Export(d) ==
  /\ pc = "documents" /\ d \in docs.left
  /\ docs' = Consume(docs, d)
  /\ reads' = [reads EXCEPT ![d] = @ + 1]
  /\ UNCHANGED <<remote, pc, folder, walk>>

(* The walk over the folders is resumed where it was left. *)
Resume ==
  /\ pc = "documents" /\ Exhausted(docs)
  /\ pc' = IF recursive THEN "folders" ELSE "done"
  /\ UNCHANGED <<remote, folder, docs, walk, reads>>

-----------------------------------------------------------------------------
(* _folders *)

ListFolders ==
  /\ pc = "folders"
  /\ \E next \in Pages(children, below[parent]) :
       NextPage(children, below[parent], next) /\ children' = next
  /\ UNCHANGED <<remote, pc, folder, docs, parent, pending, seen, reads>>

(* Mutant: a folder that was met is not looked into. *)
TakeFolderShallow(c) ==
  /\ pc = "folders" /\ c \in children.left
  /\ children' = Consume(children, c)
  /\ IF c \in seen
       THEN UNCHANGED <<pc, folder, docs, pending, seen>>
       ELSE /\ seen' = seen \cup {c}
            /\ pending' = pending
            /\ folder' = c
            /\ docs' = Unlisted
            /\ pc' = "documents"
  /\ UNCHANGED <<remote, parent, reads>>

(* Mutant: a folder is not marked as met. *)
TakeFolderUnmarked(c) ==
  /\ pc = "folders" /\ c \in children.left
  /\ children' = Consume(children, c)
  /\ IF c \in seen
       THEN UNCHANGED <<pc, folder, docs, pending, seen>>
       ELSE /\ seen' = seen
            /\ pending' = Append(pending, c)
            /\ folder' = c
            /\ docs' = Unlisted
            /\ pc' = "documents"
  /\ UNCHANGED <<remote, parent, reads>>

TakeFolder(c) ==
  /\ pc = "folders" /\ c \in children.left
  /\ children' = Consume(children, c)
  /\ IF c \in seen
       THEN UNCHANGED <<pc, folder, docs, pending, seen>>
       ELSE /\ seen' = seen \cup {c}
            /\ pending' = Append(pending, c)
            /\ folder' = c
            /\ docs' = Unlisted
            /\ pc' = "documents"
  /\ UNCHANGED <<remote, parent, reads>>

(* Mutant: the stack is looked at, not popped. *)
NextParentPeek ==
  /\ pc = "folders" /\ Exhausted(children) /\ pending # <<>>
  /\ parent' = pending[Len(pending)]
  /\ pending' = pending
  /\ children' = Unlisted
  /\ UNCHANGED <<remote, pc, folder, docs, seen, reads>>

NextParent ==
  /\ pc = "folders" /\ Exhausted(children) /\ pending # <<>>
  /\ parent' = pending[Len(pending)]
  /\ pending' = SubSeq(pending, 1, Len(pending) - 1)
  /\ children' = Unlisted
  /\ UNCHANGED <<remote, pc, folder, docs, seen, reads>>

Finish ==
  /\ pc = "folders" /\ Exhausted(children) /\ pending = <<>>
  /\ pc' = "done"
  /\ UNCHANGED <<remote, folder, docs, walk, reads>>

(* A call of Drive raises; nothing catches it. *)
Fail ==
  /\ pc \in {"documents", "folders"}
  /\ pc' = "failed"
  /\ UNCHANGED <<remote, folder, docs, walk, reads>>

-----------------------------------------------------------------------------
Fetch ==
  \/ ListDocuments \/ Resume \/ ListFolders \/ NextParent \/ Finish
  \/ \E d \in Docs : Export(d)
  \/ \E c \in Folders : TakeFolder(c)

Next ==
  \/ Fetch \/ Fail
  \/ \E d \in Docs, f \in Folders : Move(d, f)

Spec == Init /\ [][Next]_vars

(* The run goes on with the walk, and Drive ends a listing some time. *)
FairSpec == Spec /\ WF_vars(Fetch)

-----------------------------------------------------------------------------
(* A listing is consumed from what it listed, and only folders met are kept *)
(* to be looked into.                                                      *)
TypeOK ==
  /\ recursive \in Settings
  /\ below \in Trees
  /\ home \in [Docs -> Folders]
  /\ moves \in 0..MaxMoves
  /\ moved \subseteq Docs
  /\ pc \in {"documents", "folders", "done", "failed"}
  /\ folder \in seen
  /\ parent \in seen
  /\ docs \in [listed : SUBSET Docs, left : SUBSET docs.listed, more : BOOLEAN]
  /\ children \in [listed : SUBSET below[parent], left : SUBSET children.listed,
                   more : BOOLEAN]
  /\ pending \in Seq(seen)
  /\ Root \in seen /\ seen \subseteq Folders
  /\ reads \in [Docs -> Nat]

(* The folders a walk has to read: the smallest set that holds the root     *)
(* and, with any folder, the ones in it.                                   *)
Closed(S) == \A f \in S : below[f] \subseteq S

Wanted ==
  IF recursive
    THEN {f \in Folders :
            \A S \in SUBSET Folders : Root \in S /\ Closed(S) => f \in S}
    ELSE {Root}

(* A walk that ends well has yielded every document that stayed where it    *)
(* was, once if it lies in a wanted folder and not at all if it does not:   *)
(* whatever order and pages the listings come in, whichever folders lie     *)
(* below several others or below themselves, and wherever other documents   *)
(* go meanwhile (fetch: "one Document per Google Doc in a Drive folder").   *)
ReadsEachDocumentOnce ==
  pc = "done" =>
    \A d \in Docs \ moved : reads[d] = IF home[d] \in Wanted THEN 1 ELSE 0

(* The walk ends, in folders that lie below themselves too. *)
Ends == <>(pc \in {"done", "failed"})
=============================================================================
