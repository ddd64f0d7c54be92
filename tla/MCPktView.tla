----------------------------- MODULE MCPktView -----------------------------
(***************************************************************************)
(* An instance of PktView for TLC: four packets, which fit in one page and  *)
(* in one message.                                                         *)
(***************************************************************************)
EXTENDS PktView

MCTimeOf == <<49, 50, 52, 63>>

=============================================================================
