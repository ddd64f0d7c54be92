------------------------------- MODULE HcfMap -------------------------------
(***************************************************************************)
(* What the hop-count trie promises to the hooks that use it: it is a map   *)
(* from networks to hop counts.  Learning an address changes the hop count  *)
(* of its network in one step, some time after the packet; a history        *)
(* message replaces the whole map in one step; a lookup answers from the    *)
(* map as it was at one moment between its call and its return.  Requests   *)
(* to learn are carried out in any order: the workqueue is unbound.         *)
(***************************************************************************)
EXTENDS HopCount, Sequences

CONSTANTS
  HostBits,   \* low bits of an address that do not name its network
  Net,        \* networks
  Source, Ttl, History, Task, Reader,
  NULL

VARIABLES
  hops,       \* hops[k]: hop count recorded for network k, or NULL
  pend,       \* pend[t]: a request to learn: "none" yet, "asked" or "done"
  ans,        \* ans[r]: what the lookup in progress will return, or NULL
  result      \* result[r]: what the last lookup returned

vars == <<hops, pend, ans, result>>

Asked(ip, ttl) == [at |-> "asked", ip |-> ip, ttl |-> ttl]
NotAsked == [at |-> "none", ip |-> 0, ttl |-> 0]
Done == [at |-> "done", ip |-> 0, ttl |-> 0]

NetOf(ip) == ip \div 2^HostBits

\* The answer of hcf_lookup_tree.
Answer(m, ip, ttl) ==
  IF m[NetOf(ip)] = NULL THEN -1 ELSE HopsAgree(ttl, m[NetOf(ip)])

\* The map a history message describes: of two entries for a network the later
\* one counts.
MapOf(h) ==
  [k \in Net |->
     LET about == {i \in 1..Len(h) : NetOf(h[i].ip) = k}
     IN  IF about = {} THEN NULL
         ELSE h[CHOOSE i \in about : \A j \in about : j <= i].hc]

Init ==
  /\ hops = [k \in Net |-> NULL]
  /\ pend = [t \in Task |-> NotAsked]
  /\ ans = [r \in Reader |-> NULL]
  /\ result = [r \in Reader |-> NULL]

Request(t, ip, ttl) ==
  /\ pend[t] = NotAsked
  /\ pend' = [pend EXCEPT ![t] = Asked(ip, ttl)]
  /\ UNCHANGED <<hops, ans, result>>

Learn(t) ==
  /\ pend[t].at = "asked"
  /\ hops' = [hops EXCEPT ![NetOf(pend[t].ip)] = HopsOf(pend[t].ttl)]
  /\ pend' = [pend EXCEPT ![t] = Done]
  /\ UNCHANGED <<ans, result>>

\* The work item is freed; the memory may serve another one.
Release(t) ==
  /\ pend[t] = Done
  /\ pend' = [pend EXCEPT ![t] = NotAsked]
  /\ UNCHANGED <<hops, ans, result>>

Load(h) ==
  /\ hops' = MapOf(h)
  /\ UNCHANGED <<pend, ans, result>>

Ask(r, ip, ttl) ==
  /\ ans[r] = NULL
  /\ ans' = [ans EXCEPT ![r] = Answer(hops, ip, ttl)]
  /\ result' = [result EXCEPT ![r] = NULL]
  /\ UNCHANGED <<hops, pend>>

Reply(r) ==
  /\ ans[r] # NULL
  /\ result' = [result EXCEPT ![r] = ans[r]]
  /\ ans' = [ans EXCEPT ![r] = NULL]
  /\ UNCHANGED <<hops, pend>>

Next ==
  \/ \E t \in Task, ip \in Source, ttl \in Ttl : Request(t, ip, ttl)
  \/ \E t \in Task : Learn(t) \/ Release(t)
  \/ \E h \in History : Load(h)
  \/ \E r \in Reader, ip \in Source, ttl \in Ttl : Ask(r, ip, ttl)
  \/ \E r \in Reader : Reply(r)

Spec == Init /\ [][Next]_vars

Fairness == /\ \A t \in Task : WF_vars(Learn(t))
            /\ \A r \in Reader : WF_vars(Reply(r))

FairSpec == Spec /\ Fairness

=============================================================================
