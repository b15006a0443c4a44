-------------------------- MODULE MCToolCallScan ---------------------------
(* Every text of up to six characters. *)
EXTENDS ToolCallScan
=============================================================================
