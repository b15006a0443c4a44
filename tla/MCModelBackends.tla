-------------------------- MODULE MCModelBackends --------------------------
(* Two requests that share one place, or have one each. *)
EXTENDS ModelBackends

MCCapacities == {1, 2}
=============================================================================
