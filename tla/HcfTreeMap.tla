----------------------------- MODULE HcfTreeMap -----------------------------
(***************************************************************************)
(* The trie of HcfTree implements the map of HcfMap.  The hop count of a    *)
(* network is the one in the leaf that the published trie has for it; a     *)
(* lookup in progress has an answer already, the one it will find below the *)
(* node it is at.  The refinement says that neither learning nor replacing  *)
(* the trie nor freeing nodes changes that answer.                          *)
(***************************************************************************)
EXTENDS HcfTree

Nets == 0 .. 2^(AddrBits - HostBits) - 1

\* The leaf of address ip below n, a node of level i, or NULL.
LeafBelow(n, ip, i) ==
  LET L[j \in LeafLvl..i] ==
        IF j = i THEN n
        ELSE IF L[j + 1] = NULL THEN NULL
        ELSE child[L[j + 1]][BitAt(ip, j + 1)]
  IN  L[LeafLvl]

HopsIn(root) ==
  [k \in Nets |-> LET leaf == LeafBelow(root, k * 2^HostBits, RootLvl)
                  IN  IF leaf = NULL THEN NULL ELSE meta[leaf].hc]

PendOf(t) ==
  CASE tpc[t] = "none" -> [at |-> "none", ip |-> 0, ttl |-> 0]
    [] tpc[t] \in {"queued", "clone", "create"} ->
         [at |-> "asked", ip |-> tip[t], ttl |-> tttl[t]]
    [] OTHER -> [at |-> "done", ip |-> 0, ttl |-> 0]

AnswerOf(r) ==
  LET leaf == LeafBelow(rrunner[r], rip[r], rbits[r])
  IN  IF rpc[r] = "out" THEN NULL
      ELSE IF leaf = NULL THEN -1
      ELSE HopsAgree(rttl[r], meta[leaf].hc)

Map == INSTANCE HcfMap WITH
         Net  <- Nets,
         hops <- HopsIn(tree),
         pend <- [t \in Task |-> PendOf(t)],
         ans  <- [r \in Reader |-> AnswerOf(r)]

\* Each step of the trie is a step of the map or none: hcf_register_ip_work
\* changes one network, with the hop count of its packet, hcf_swap_tree
\* installs exactly the map of its message, and a lookup that began before
\* either returns what the trie it dereferenced says.
ImplementsMap == Map!Spec

\* And it makes the progress the map promises: every address queued is learned
\* in the end and every lookup returns.
ImplementsFairMap == Map!FairSpec

=============================================================================
