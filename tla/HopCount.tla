------------------------------ MODULE HopCount ------------------------------
(***************************************************************************)
(* The arithmetic of hop-count filtering (kernel/src/hcf.c): how a packet's *)
(* TTL gives the number of hops it has travelled, when that number agrees   *)
(* with the recorded one, and how a bit of an address is read.              *)
(***************************************************************************)
EXTENDS Integers

\* The values of a u8: a TTL or a hop count.
Byte == 0..255

\* (source_ip >> i) & 1, the branch taken at a trie node of level i.
BitAt(ip, i) == IF (ip \div 2^i) % 2 = 1 THEN 1 ELSE 0

hcf_get_initial_ttl(ttl) ==
  IF ttl <= 64 THEN 64 ELSE IF ttl <= 128 THEN 128 ELSE 255

\* A plausible slip in the table of initial TTLs: 64 itself taken for 128.
MutInitialTtl(ttl) ==
  IF ttl < 64 THEN 64 ELSE IF ttl <= 128 THEN 128 ELSE 255

HopsOf(ttl) == hcf_get_initial_ttl(ttl) - ttl

\* The two hop counts are close enough for the packet to pass (1), or not (0).
HopsAgree(ttl, hc) ==
  LET diff == HopsOf(ttl) - hc
  IN  IF (IF diff < 0 THEN -diff ELSE diff) <= 2 THEN 1 ELSE 0

=============================================================================
