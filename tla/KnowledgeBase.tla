----------------------------- MODULE KnowledgeBase -----------------------------
(***************************************************************************)
(* What the offline half of the agent promises the online half (module      *)
(* docstring of knowledge/ingest.py).  A run of the ingestion reads each of  *)
(* the sources selected for it once and publishes all of it in one step, or *)
(* publishes nothing; what is published of a source never gets older; and a *)
(* process serves, from its start to its end, what was published when it    *)
(* started.                                                                *)
(***************************************************************************)
EXTENDS Batches

VARIABLES
  edition,     \* edition[s]: how often source s has been edited
  published,   \* the batches of the published store
  serving      \* serving[p]: what process p holds in memory

vars == <<edition, published, serving>>

Init ==
  /\ edition = Unedited
  /\ published = <<>>
  /\ serving = [p \in Processes |-> Down]

Edit ==
  /\ \E s \in Sources : edition' = [edition EXCEPT ![s] = @ + 1]
  /\ UNCHANGED <<published, serving>>

(* A rebuild replaces what was published, an append extends it.  The run    *)
(* read each of its sources as it was at some time since the last           *)
(* publication.  (The lengths follow from the rest; they are compared first *)
(* to spare TLC most readings.)                                            *)
Publish ==
  /\ \E list \in Selections, kept \in {<<>>, published} :
       /\ Len(published') = Len(kept) + Len(list)
       /\ \E e \in Embedders, read \in ReadableUpTo(edition) :
            /\ NoNewerThan(read, published)
            /\ published' = kept \o Reading(list, read, e)
  /\ UNCHANGED <<edition, serving>>

Serve(p) ==
  /\ serving[p] = Down
  /\ \E e \in Embedders : serving' = [serving EXCEPT ![p] = Up(e, published)]
  /\ UNCHANGED <<edition, published>>

Stop(p) ==
  /\ serving[p] # Down
  /\ serving' = [serving EXCEPT ![p] = Down]
  /\ UNCHANGED <<edition, published>>

Next == Edit \/ Publish \/ \E p \in Processes : Serve(p) \/ Stop(p)

Spec == Init /\ [][Next]_vars
=============================================================================
