---------------------------- MODULE MCQdrantStore ----------------------------
(* QdrantStore with documents of two pieces that an edit empties. *)
EXTENDS QdrantStore

MCWidths == [e \in Embedders |-> IF e = "mpnet" THEN 768 ELSE 384]

MCLength == [n \in 0..MaxEdition |-> IF n = 0 THEN 4 ELSE 0]
=============================================================================
