------------------------------ MODULE HcfFail ------------------------------
(***************************************************************************)
(* The hop-count trie when a work item gets no memory for a node.           *)
(*                                                                         *)
(* hcf_register_ip_work does not test what hcf_clone_node and              *)
(* hcf_create_node return.  It stores the NULL as a child of its clone and *)
(* follows it, at the latest when it writes the metadata of the leaf, which *)
(* is before it publishes the clone: the kworker dies there, with the mutex *)
(* held and its clone lost.  The rest of the kernel goes on: lookups,       *)
(* callbacks, and threads that do not need the mutex.                      *)
(*                                                                         *)
(* The other allocations of hcf.c are either tested, and then nothing       *)
(* changes (the task of hcf_register_ip, the root of a history message), or *)
(* belong to a trie that nobody else has a pointer to yet.                 *)
(***************************************************************************)
EXTENDS HcfTree

VARIABLE dead    \* the work item that died, or NULL: its mutex is never released

failVars == <<vars, dead>>

FailInit == Init /\ dead = NULL

\* An allocation under the mutex fails.  What the item allocates between that
\* and its end is lost as well and not counted.
work_no_memory(t) ==
  /\ dead = NULL
  /\ \/ tpc[t] = "queued" /\ mutex_lock
     \/ tpc[t] \in {"clone", "create"} /\ MoreBits(bits[t])
  /\ dead' = t
  /\ UNCHANGED vars

\* Whether a work item can go on: it has not died, and what it does next does
\* not need the mutex of the one that did.
WorkGoesOn(t) == dead = NULL \/ tpc[t] \in {"announce", "retire"}

\* Whether the netlink handler can: hcf_swap_tree takes the mutex.
HistoryGoesOn == dead = NULL \/ hpc # "build" \/ htodo # <<>>

FailNext ==
  \/ \E t \in Task : work_no_memory(t)
  \/ /\ UNCHANGED dead
     /\ \/ \E t \in Task, ip \in Source, ttl \in Ttl : hcf_register_ip(t, ip, ttl)
        \/ \E t \in Task : WorkGoesOn(t) /\ WorkStep(t)
        \/ \E r \in Reader, ip \in Source, ttl \in Ttl : lookup_enter(r, ip, ttl)
        \/ \E r \in Reader : LookupStep(r)
        \/ \E h \in History : history_begin(h)
        \/ HistoryGoesOn /\ HistoryStep
        \/ \E n \in cb : hcf_free_node_rcu(n)

FailSpec == FailInit /\ [][FailNext]_failVars

=============================================================================
