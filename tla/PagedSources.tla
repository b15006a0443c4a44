----------------------------- MODULE PagedSources -----------------------------
(***************************************************************************)
(* NotionSource.fetch and SlackSource.fetch (knowledge/sources/notion.py,   *)
(* slack.py) over request_json (_http.py): documents out of listings that   *)
(* come in pages, nest, and are refused or throttled at any call, while     *)
(* people go on writing.                                                   *)
(*                                                                         *)
(* A root is a database or a channel; its listing is one of pages or        *)
(* messages.  The listing of a page or a block is its blocks; the listing   *)
(* of a message is its thread, in which the message itself comes first.    *)
(* Both services are external: a listing continues after the last entry it  *)
(* handed out, an entry says whether anything is nested in it as of the     *)
(* answer it is in, has an id, and Notion sends a cursor when there is more. *)
(***************************************************************************)
EXTENDS Integers, Sequences, SequencesExt

CONSTANTS
  Remotes,        \* what there is to read: see the assumptions on it
  MaxRetries,     \* MAX_RETRIES of _http.py
  MaxBlockDepth   \* MAX_BLOCK_DEPTH of notion.py

ASSUME PagedSourcesAssumption ==
  /\ MaxRetries \in Nat \ {0}
  /\ MaxBlockDepth \in Nat

(* children[n] is the listing of n, kind[n] what n is: an entry with text,  *)
(* one without, or the notice that someone joined or left a channel.       *)
(* Something is to be read (entrypoints/ingest.py:66, :74).                *)
ASSUME RemotesAssumption ==
  \A r \in Remotes :
    /\ r.service \in {"notion", "slack"}
    /\ r.kind \in [DOMAIN r.kind -> {"text", "blank", "notice"}]
    /\ r.children \in [DOMAIN r.kind -> Seq(DOMAIN r.kind)]
    /\ r.roots \in Seq(DOMAIN r.kind) \ {<<>>}

(* The pages of all databases, the messages of all channels. *)
Tops(r) == FlattenSeq([i \in DOMAIN r.roots |-> r.children[r.roots[i]]])

Threaded(r, n, m) == n # m /\ n \in Range(r.children[m])

(* Slack: no channel is given twice, a message is listed once, is in one    *)
(* thread, and starts that of its own unless it replies to another one.     *)
ASSUME ThreadsAssumption ==
  \A r \in {q \in Remotes : q.service = "slack"} :
    /\ IsInjective(Tops(r))
    /\ \A n \in Range(Tops(r)) :
         /\ IsInjective(r.children[n])
         /\ \A m \in Range(Tops(r)) \ {n} : Range(r.children[n]) \cap Range(r.children[m]) = {}
         /\ \/ r.children[n] # <<>> /\ Head(r.children[n]) = n
            \/ \E m \in Range(Tops(r)) : Threaded(r, n, m)

VARIABLES
  remote,    \* the member of Remotes that is read; never changes
  original,  \* history: what was there when the walk began; never changes
  present,   \* what is there now
  pc,        \* "reading", "done" or "failed"
  roots,     \* the databases or channels still to be read
  stack,     \* the listings being consumed, the innermost last
  attempt,   \* how often the current request was throttled
  document,  \* the document being put together
  documents  \* what fetch has yielded

given == <<remote, original>>
vars == <<given, present, pc, roots, stack, attempt, document, documents>>

-----------------------------------------------------------------------------
children == remote.children

(* has_children of a block, thread_ts of a message: there is more in its    *)
(* listing than the message itself.                                        *)
Nested(n) ==
  \E c \in Range(children[n]) \cap present : c # n \/ remote.service = "notion"

Entry(n) == [node |-> n, nested |-> Nested(n)]

(* The entries at the given places of a listing that are there now. *)
Between(n, first, last) ==
  LET part == SubSeq(children[n], first, last)
  IN  FlattenSeq([i \in DOMAIN part |->
        IF part[i] \in present THEN <<Entry(part[i])>> ELSE <<>>])

Listing(n) == [of |-> n, at |-> 0, left |-> <<>>, more |-> TRUE]

Level == Len(stack)
Top == stack[Level]

(* Everything that has text; the text of a page is its title. *)
Own(n) == IF remote.kind[n] = "blank" THEN <<>> ELSE <<n>>

(* thread_ts is another message's ts: this one is a reply to it. *)
IsReply(n) == \E m \in Range(Tops(remote)) : Threaded(remote, n, m)

(* Mutant: replies that are shown in the channel too are not left out. *)
SkippedNotices(n) == remote.kind[n] = "notice"

Skipped(n) == IsReply(n) \/ remote.kind[n] = "notice"

Emit(doc) == IF doc.lines = <<>> THEN documents ELSE Append(documents, doc)

(* What was there has something it was in. *)
Settled(S) ==
  /\ S \subseteq DOMAIN remote.kind
  /\ Range(remote.roots) \subseteq S
  /\ \A n \in S \ Range(remote.roots) :
       \E m \in S \ {n} : n \in Range(children[m])

Init ==
  /\ remote \in Remotes
  /\ original \in {S \in SUBSET DOMAIN remote.kind : Settled(S)}
  /\ present = original
  /\ pc = "reading"
  /\ roots = remote.roots
  /\ stack = <<>>
  /\ attempt = 0
  /\ document = [of |-> Head(remote.roots), lines |-> <<>>]
  /\ documents = <<>>

(* Someone writes, into something that is there. *)
Write(n) ==
  /\ n \notin present
  /\ \E m \in present : n \in Range(children[m])
  /\ Range(children[n]) \cap (present \ {n}) = {}
  /\ present' = present \cup {n}
  /\ UNCHANGED <<given, pc, roots, stack, attempt, document, documents>>

-----------------------------------------------------------------------------
(* request_json, and what is checked of its answer *)

Requesting == pc = "reading" /\ stack # <<>> /\ Top.left = <<>> /\ Top.more

(* Mutant: the attempts start over instead of ending the request. *)
ThrottledForEver ==
  /\ Requesting
  /\ attempt' = (attempt + 1) % MaxRetries
  /\ UNCHANGED <<given, present, pc, roots, stack, document, documents>>

(* Status 429. *)
Throttled ==
  /\ Requesting
  /\ attempt' = attempt + 1
  /\ pc' = IF attempt' = MaxRetries THEN "failed" ELSE pc
  /\ UNCHANGED <<given, present, roots, stack, document, documents>>

(* Any other status from 400, `ok: false` from Slack, or no answer. *)
Refused ==
  /\ Requesting
  /\ pc' = "failed"
  /\ UNCHANGED <<given, present, roots, stack, attempt, document, documents>>

(* Mutant: the cursor of the answer is not looked at. *)
AnsweredOnce ==
  /\ Requesting
  /\ \E at \in Top.at..Len(children[Top.of]) :
       stack' = [stack EXCEPT ![Level].at = at,
                              ![Level].left = Between(Top.of, Top.at + 1, at),
                              ![Level].more = FALSE]
  /\ attempt' = 0
  /\ UNCHANGED <<given, present, pc, roots, document, documents>>

(* A page of the listing.  One that is not the last gets further, even when *)
(* nothing is on it; the last one leaves nothing out.                      *)
Answered ==
  /\ Requesting
  /\ \E at \in Top.at..Len(children[Top.of]), more \in BOOLEAN :
       /\ more => at > Top.at
       /\ ~more => Between(Top.of, at + 1, Len(children[Top.of])) = <<>>
       /\ stack' = [stack EXCEPT ![Level].at = at,
                                 ![Level].left = Between(Top.of, Top.at + 1, at),
                                 ![Level].more = more]
  /\ attempt' = 0
  /\ UNCHANGED <<given, present, pc, roots, document, documents>>

-----------------------------------------------------------------------------
(* The generators that consume the listings *)

Consuming == pc = "reading" /\ stack # <<>> /\ Top.left # <<>>
entry == Head(Top.left)
Consumed == [stack EXCEPT ![Level].left = Tail(@)]

OpenRoot ==
  /\ pc = "reading" /\ stack = <<>> /\ roots # <<>>
  /\ stack' = <<Listing(Head(roots))>>
  /\ roots' = Tail(roots)
  /\ UNCHANGED <<given, present, pc, attempt, document, documents>>

(* NotionSource._document: the title, then the blocks at depth 0. *)
OpenPage ==
  /\ Consuming /\ remote.service = "notion" /\ Level = 1
  /\ stack' = Append(Consumed, Listing(entry.node))
  /\ document' = [of |-> entry.node, lines |-> Own(entry.node)]
  /\ UNCHANGED <<given, present, pc, roots, attempt, documents>>

(* Mutant: one level too deep. *)
TakeBlockDeeper ==
  /\ Consuming /\ remote.service = "notion" /\ Level > 1
  /\ document' = [document EXCEPT !.lines = @ \o Own(entry.node)]
  /\ stack' = IF entry.nested /\ Level - 1 <= MaxBlockDepth + 1
                THEN Append(Consumed, Listing(entry.node))
                ELSE Consumed
  /\ UNCHANGED <<given, present, pc, roots, attempt, documents>>

(* _block_text: a line of its own, then what is nested, to MAX_BLOCK_DEPTH. *)
TakeBlock ==
  /\ Consuming /\ remote.service = "notion" /\ Level > 1
  /\ document' = [document EXCEPT !.lines = @ \o Own(entry.node)]
  /\ stack' = IF entry.nested /\ Level - 1 <= MaxBlockDepth
                THEN Append(Consumed, Listing(entry.node))
                ELSE Consumed
  /\ UNCHANGED <<given, present, pc, roots, attempt, documents>>

(* SlackSource._history, _thread_document: a message of the channel is      *)
(* skipped, read as a thread, or a document by itself, as it was when it    *)
(* was listed.                                                             *)
TakeMessage ==
  /\ Consuming /\ remote.service = "slack" /\ Level = 1
  /\ IF Skipped(entry.node)
       THEN stack' = Consumed /\ UNCHANGED <<document, documents>>
     ELSE IF entry.nested
       THEN /\ stack' = Append(Consumed, Listing(entry.node))
            /\ document' = [of |-> entry.node, lines |-> <<>>]
            /\ UNCHANGED documents
     ELSE /\ stack' = Consumed
          /\ documents' = Emit([of |-> entry.node, lines |-> Own(entry.node)])
          /\ UNCHANGED document
  /\ UNCHANGED <<given, present, pc, roots, attempt>>

TakeReply ==
  /\ Consuming /\ remote.service = "slack" /\ Level > 1
  /\ document' = [document EXCEPT !.lines = @ \o Own(entry.node)]
  /\ stack' = Consumed
  /\ UNCHANGED <<given, present, pc, roots, attempt, documents>>

(* A listing ends; with the outermost one of a document, the document. *)
Close ==
  /\ pc = "reading" /\ stack # <<>> /\ Top.left = <<>> /\ ~Top.more
  /\ stack' = Front(stack)
  /\ documents' = IF Level = 2 THEN Emit(document) ELSE documents
  /\ UNCHANGED <<given, present, pc, roots, attempt, document>>

Finish ==
  /\ pc = "reading" /\ stack = <<>> /\ roots = <<>>
  /\ pc' = "done"
  /\ UNCHANGED <<given, present, roots, stack, attempt, document, documents>>

-----------------------------------------------------------------------------
Fetch ==
  \/ Throttled \/ Refused \/ Answered
  \/ OpenRoot \/ OpenPage \/ TakeBlock \/ TakeMessage \/ TakeReply
  \/ Close \/ Finish

Next == Fetch \/ \E n \in DOMAIN remote.kind : Write(n)

Spec == Init /\ [][Next]_vars

(* The run goes on, and a service answers, somehow. *)
FairSpec == Spec /\ WF_vars(Fetch)

-----------------------------------------------------------------------------
(* A walk is never deeper than a root, a page and the blocks allowed below  *)
(* it, or than a thread; and a request is sent MAX_RETRIES times at most.   *)
TypeOK ==
  /\ remote \in Remotes
  /\ original \subseteq present /\ present \subseteq DOMAIN remote.kind
  /\ pc \in {"reading", "done", "failed"}
  /\ \E n \in 0..Len(remote.roots) : roots = SubSeq(remote.roots, n + 1, Len(remote.roots))
  /\ Level <= 2 + (IF remote.service = "notion" THEN MaxBlockDepth ELSE 0)
  /\ \A i \in DOMAIN stack :
       /\ stack[i].of \in present
       /\ stack[i].at \in 0..Len(children[stack[i].of])
       /\ \A j \in DOMAIN stack[i].left :
            stack[i].left[j].node \in Range(children[stack[i].of]) \cap present
       /\ stack[i].more \in BOOLEAN
  /\ attempt \in 0..MaxRetries
  /\ attempt = MaxRetries => pc = "failed"
  /\ \A d \in {document} \cup Range(documents) : Range(d.lines) \subseteq present
  /\ \A d \in Range(documents) : d.lines # <<>>

(* The lines of what was there below n, in order, to as many levels as are  *)
(* given; a thread has one.                                                *)
Below[levels \in 0..MaxBlockDepth] ==
  [n \in DOMAIN remote.kind |->
    FlattenSeq([i \in DOMAIN children[n] |->
      IF children[n][i] \notin original THEN <<>>
      ELSE Own(children[n][i]) \o
             (IF levels = 0 \/ remote.service = "slack"
                THEN <<>>
                ELSE Below[levels - 1][children[n][i]])])]

Outline(n) ==
  (IF remote.service = "notion" THEN Own(n) ELSE <<>>) \o Below[MaxBlockDepth][n]

(* The document of a page or a message, if it is to have one. *)
Promised(n) ==
  IF \/ n \notin original
     \/ remote.service = "slack" /\ Skipped(n)
     \/ Outline(n) = <<>>
    THEN <<>>
    ELSE <<[of |-> n, lines |-> Outline(n)]>>

Expected ==
  FlattenSeq([i \in DOMAIN Tops(remote) |-> Promised(Tops(remote)[i])])

(* What was yielded, without what was written meanwhile. *)
Among(s, S) == FlattenSeq([i \in DOMAIN s |-> IF s[i] \in S THEN <<s[i]>> ELSE <<>>])

Remaining(doc) ==
  LET lines == Among(doc.lines, original)
  IN  IF lines = <<>> THEN <<>> ELSE <<[of |-> doc.of, lines |-> lines]>>

Observed == FlattenSeq([i \in DOMAIN documents |-> Remaining(documents[i])])

(* fetch yields, root by root, one document for each page, or each message  *)
(* that is neither a notice nor a reply, that has a line; its lines are     *)
(* those that were there when the walk began, in the order of the page, to  *)
(* the depth allowed, or of the thread.  However the listings are cut into  *)
(* pages, whatever was throttled, and whatever is written meanwhile.  What  *)
(* replies to a notice is in no document: see the README.                  *)
ReadsWhatWasThere ==
  /\ IsPrefix(Observed, Expected)
  /\ pc = "done" => Observed = Expected

(* No message is in two documents, or twice in one: neither a reply that is *)
(* shown in the channel too, nor one written while its thread is read       *)
(* (slack.py:91 "indexing it twice would double-count it").                *)
NoMessageTwice ==
  remote.service = "slack" =>
    IsInjective(FlattenSeq([i \in DOMAIN documents |-> documents[i].lines]))

(* fetch ends, with throttling and with blocks nested in themselves. *)
Ends == <>(pc \in {"done", "failed"})
=============================================================================
