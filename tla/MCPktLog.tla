------------------------------ MODULE MCPktLog ------------------------------
(***************************************************************************)
(* An instance of PktLog for TLC.  With time deltas of 2 bits and absolute *)
(* stamps of 5 bits the times below give short and long intervals and pass  *)
(* from one value of the upper bits to the next.                           *)
(***************************************************************************)
EXTENDS PktLog

MCTimeOf == <<49, 50, 52, 63, 65, 72>>

=============================================================================
