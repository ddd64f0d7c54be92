----------------------------- MODULE HcfTreeInv -----------------------------
(***************************************************************************)
(* The inductive invariant behind the safety of lookups in the hop-count   *)
(* trie.  It describes the heap: which nodes are in which part of their     *)
(* life, that each part is closed under child pointers, and that no node is *)
(* the child of two; that the path a work item has cloned can be cut out of *)
(* the published trie without leaving a pointer to it behind; and that what *)
(* a lookup can still reach is waited for by whoever is going to free it.   *)
(***************************************************************************)
EXTENDS HcfTree

Bit == {0, 1}
Is(n, life) == n \in Node /\ st[n] = life

\* The pointers that a thread follows at a given place are not NULL there.
PointersOK ==
  /\ \A t \in Task : tpc[t] \in {"clone", "create"} =>
       runner[t] \in Node /\ newRoot[t] \in Node /\ newRunner[t] \in Node
  /\ hpc = "build" => hnew \in Node /\ hrunner \in Node
  /\ hpc \in {"swapped", "sync"} => old \in Node

TypeInv == TypeOK /\ PointersOK

\* The history variable st tells the allocated nodes and the pending callbacks.
LifeOK ==
  /\ \A n \in Node : n \in alloc <=> st[n] # "free"
  /\ \A n \in cb : st[n] = "cb"

\* The mutex is held exactly in the critical section; only there do nodes under
\* construction by a work item exist.
LockOK ==
  /\ \A t \in Task : lock = t <=> tpc[t] \in {"clone", "create"}
  /\ lock = NULL => \A n \in Node : st[n] # "new"

\* The published trie: children of live nodes are live, and none is the root.
LiveOK ==
  /\ st[tree] = "live"
  /\ \A m \in Node, b \in Bit :
       st[m] = "live" /\ child[m][b] # NULL =>
         Is(child[m][b], "live") /\ child[m][b] # tree

\* The trie under construction by the netlink handler.
HistOK ==
  /\ hpc = "build" => Is(hnew, "hist") /\ Is(hrunner, "hist")
  /\ hpc # "build" => \A n \in Node : st[n] # "hist"
  /\ \A m \in Node, b \in Bit :
       st[m] = "hist" /\ child[m][b] # NULL =>
         Is(child[m][b], "hist") /\ child[m][b] # hnew

\* The trie that was taken out: nothing in it points to a node that is next to
\* be freed.
DoomedOK ==
  /\ hpc \in {"swapped", "sync"} => Is(old, "doomed")
  /\ \A n \in walk : st[n] = "doomed"
  /\ \A m \in Node, b \in Bit :
       st[m] = "doomed" /\ child[m][b] # NULL =>
         /\ Is(child[m][b], "doomed")
         /\ child[m][b] \notin walk
         /\ hpc \in {"swapped", "sync"} => child[m][b] # old

\* No node of these three is the child of two nodes, or twice of one.
UniqueParent ==
  \A m1, m2 \in Node, b1, b2 \in Bit :
    /\ {st[m1], st[m2]} \subseteq {"live", "hist", "doomed"}
    /\ child[m1][b1] = child[m2][b2]
    /\ child[m1][b1] # NULL
    => m1 = m2 /\ b1 = b2

\* nodes_to_free after the critical section: nodes no longer in the trie, each
\* in the list of one item; the lists of the other items are empty.
ToFreeOK ==
  /\ \A t \in Task : tpc[t] \in {"none", "queued", "done"} => toFree[t] = {}
  /\ \A t \in Retiring : \A n \in toFree[t] : st[n] = "retired"
  /\ \A t, u \in Retiring : t # u => toFree[t] \cap toFree[u] = {}

\* nodes_to_free in the critical section: a path of the published trie that
\* starts at the root and ends at runner.
PathOK(t) ==
  /\ tree \in toFree[t]
  /\ runner[t] \in toFree[t]
  /\ \A n \in toFree[t] : st[n] = "live"
  /\ \A b \in Bit : child[runner[t]][b] \notin toFree[t]
  /\ \A n \in toFree[t] :
       n # tree => \E p \in toFree[t], b \in Bit : child[p][b] = n

\* The nodes under construction in the critical section: their children are
\* nodes under construction, or children of the path that are not on it.
CloneOK(t) ==
  /\ Is(newRoot[t], "new")
  /\ Is(newRunner[t], "new")
  /\ tpc[t] = "clone" => child[newRunner[t]] = child[runner[t]]
  /\ \A m \in Node, b \in Bit :
       st[m] = "new" /\ child[m][b] # NULL =>
         \/ Is(child[m][b], "new") /\ child[m][b] # newRoot[t]
         \/ /\ Is(child[m][b], "live")
            /\ child[m][b] \notin toFree[t]
            /\ \E o \in toFree[t] : child[o][b] = child[m][b]
  /\ \A m1, m2 \in Node, b1, b2 \in Bit :
       /\ st[m1] = "new" /\ st[m2] = "new"
       /\ child[m1][b1] = child[m2][b2]
       /\ child[m1][b1] # NULL
       => m1 = m2 /\ b1 = b2

WorkOK == \A t \in Task : tpc[t] \in {"clone", "create"} => PathOK(t) /\ CloneOK(t)

\* What a lookup has dereferenced is closed under child pointers and is waited
\* for by the grace period of whoever took it out of the trie.
HoldOK ==
  \A r \in Reader :
    /\ rpc[r] = "out" => hold[r] = {}
    /\ rpc[r] = "walk" => rrunner[r] \in hold[r] \cup {NULL}
    /\ \A n \in hold[r] :
         /\ st[n] \in {"live", "retired", "cb", "doomed"}
         /\ st[n] = "cb" => r \in gp[n]
         /\ st[n] = "doomed" => \/ hpc = "swapped"
                                \/ hpc = "sync" /\ r \in waits
         /\ \A b \in Bit : child[n][b] \in hold[r] \cup {NULL}

\* The inductive invariant: lookups, work items, the netlink handler and the
\* RCU callbacks keep the heap in this shape at every step.
Inv ==
  /\ TypeInv
  /\ LifeOK
  /\ LockOK
  /\ LiveOK
  /\ HistOK
  /\ DoomedOK
  /\ UniqueParent
  /\ ToFreeOK
  /\ WorkOK
  /\ HoldOK

=============================================================================
