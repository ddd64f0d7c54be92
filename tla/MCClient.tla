------------------------------ MODULE MCClient ------------------------------
(***************************************************************************)
(* An instance of Client for TLC: addresses of two bits, two to a network,  *)
(* histories of up to two rows, and files of up to three lines, of which    *)
(* two fit.                                                                *)
(***************************************************************************)
EXTENDS Client

MCPackets ==
  {[ip |-> 0, ttl |-> 64], [ip |-> 1, ttl |-> 60], [ip |-> 2, ttl |-> 64]}

\* A leaf that was freed has become that of another network.
MCGarbage == {[ttl |-> 64, hc |-> 0]}

MCFiles ==
  {<<"q", BadAddress, "p">>, <<"p", BadLength>>}

=============================================================================
