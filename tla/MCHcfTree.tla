----------------------------- MODULE MCHcfTree -----------------------------
(***************************************************************************)
(* Small instances of the hop-count trie.  The slab objects are numbered by *)
(* the place in the trie they are used for, and the allocator hands out the *)
(* lowest free one, so a freed node is used again at the next opportunity.  *)
(* Copies objects for a place are as many as are ever needed: the first     *)
(* trie, each task and each history message allocate at most one for it.    *)
(***************************************************************************)
EXTENDS HcfTreeMap, HcfTreeInv

CONSTANT Copies

Place(ip, i) == 2^(RootLvl - i) + (ip \div 2^(i + 1))

MCNode == {10 * Place(ip, i) + k : ip \in Source, i \in Level, k \in 1..Copies}

LowestFree(S, ip, i) ==
  LET here == {n \in S : n \div 10 = Place(ip, i)}
      from == IF here = {} THEN S ELSE here
  IN  {n \in from : \A m \in from : n <= m}

\* An empty message, and one with two entries for one network.
MCHistory ==
  { <<>>,
    << [ip |-> 0, ttl |-> 64, hc |-> 0], [ip |-> 1, ttl |-> 60, hc |-> 4] >> }
=============================================================================
