----------------------------- MODULE MCFirewall -----------------------------
(***************************************************************************)
(* A small instance of the hooks: two networks, one of them in the bogon    *)
(* list that may be loaded, and two hop counts that disagree.               *)
(***************************************************************************)
EXTENDS Firewall

MCList == { <<[ip |-> 2, len |-> 1]>>, <<[ip |-> 3, len |-> 2]>> }

MCHistory == { << [ip |-> 2, ttl |-> 60, hc |-> 4] >> }
=============================================================================
