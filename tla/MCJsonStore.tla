----------------------------- MODULE MCJsonStore -----------------------------
(* JsonStore with the embedders of the default settings. *)
EXTENDS JsonStore

MCWidths == [e \in Embedders |-> IF e = "mpnet" THEN 768 ELSE 384]
=============================================================================
