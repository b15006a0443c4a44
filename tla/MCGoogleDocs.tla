---------------------------- MODULE MCGoogleDocs ----------------------------
(* GoogleDocs with three folders, of which the root holds one, and each may *)
(* lie below any other.                                                    *)
EXTENDS GoogleDocs

MCTrees ==
  {tree \in [Folders -> SUBSET Folders] :
     /\ \A f \in Folders : f \notin tree[f]
     /\ "a" \in tree[Root]}
=============================================================================
