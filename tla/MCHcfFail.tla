----------------------------- MODULE MCHcfFail -----------------------------
(***************************************************************************)
(* The instances of MCHcfTree with failing allocations.                    *)
(***************************************************************************)
EXTENDS MCHcfTree, HcfFail
=============================================================================
