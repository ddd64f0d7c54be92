------------------------------ MODULE HcfTree ------------------------------
(***************************************************************************)
(* The hop-count trie of the kernel module (kernel/src/hcf.c).              *)
(*                                                                         *)
(* The trie maps the upper bits of a source address to the hop count last  *)
(* learned for it.  Three kinds of thread meet on it:                      *)
(*  - netfilter hooks look addresses up inside an RCU read-side section    *)
(*    and never take the mutex (hcf_lookup_tree);                          *)
(*  - work items on an unbound workqueue learn one address each: under the *)
(*    mutex they clone the path to it, publish the clone as the new root   *)
(*    and, after unlocking, hand the replaced nodes to call_rcu            *)
(*    (hcf_register_ip_work);                                              *)
(*  - the netlink handler builds a whole new trie from a history message,  *)
(*    publishes it under the mutex, waits for a grace period and frees the *)
(*    old trie node by node (hcf_register_ip_history, hcf_swap_tree).      *)
(*                                                                         *)
(* Nodes are slab objects: they are allocated, freed and allocated again.  *)
(* A Task is one struct hcf_add_node_task together with the kworker that   *)
(* runs it: every packet learned from allocates its own, so a task is used *)
(* once.  There is one netlink handler because generic netlink runs the    *)
(* doit callbacks of a family without parallel_ops one at a time.          *)
(* hcf_init_state and hcf_free_state are not in this module: the trie is   *)
(* up throughout, so state->tree is never NULL here.                       *)
(***************************************************************************)
EXTENDS HopCount, FiniteSets, Sequences

CONSTANTS
  AddrBits,   \* bits of an address: 32
  HostBits,   \* low bits the trie does not branch on: 8
  Source,     \* source addresses of the packets that arrive
  Ttl,        \* TTLs of the packets that arrive
  History,    \* history messages user space may send: sequences of entries
  Node,       \* slab objects of lfw_hcf_cache
  Slab(_, _, _), \* Slab(S, ip, i): which of the free objects S the allocator
              \* may hand out for the node of ip at level i
  Task,       \* the work items allocated for lfw_hcf_wq, in all
  MaxLoads,   \* bound: history messages handled, in all
  Reader,     \* CPUs running hcf_lookup_tree
  NULL

Addr == 0 .. 2^AddrBits - 1
Entry == [ip : Addr, ttl : Byte, hc : Byte]

ASSUME BitsAssumption == /\ AddrBits \in Nat
                         /\ HostBits \in Nat
                         /\ HostBits < AddrBits
\* 2^AddrBits >= 1, which the provers do not know.
ASSUME AddrAssumption == 0 \in Addr
ASSUME InputAssumption == /\ Source \subseteq Addr
                          /\ Ttl \subseteq Byte
                          /\ \A h \in History : h \in Seq(Entry)
ASSUME LoadsAssumption == MaxLoads \in Nat
ASSUME NullAssumption == NULL \notin Node \cup Task

\* A node of level i branches on bit i; the root has RootLvl, a leaf, which
\* carries the metadata of its network, has LeafLvl.
RootLvl == AddrBits - 1
LeafLvl == HostBits - 1
Level == LeafLvl..RootLvl

VARIABLES
  (* struct hcf_state and the nodes *)
  tree,       \* state->tree
  alloc,      \* the allocated nodes
  child,      \* node->child
  meta,       \* node->hc and node->ttl
  lock,       \* the task that holds the mutex, or NULL
  (* hcf_register_ip_work, per task *)
  tpc, tip, tttl,            \* progress, task->source_ip, task->ttl
  runner, newRoot, newRunner, bits,
  toFree,     \* nodes_to_free
  created,    \* nodes_created > 0
  (* hcf_lookup_tree, per reader *)
  rpc, rip, rttl, rrunner, rbits, result,
  (* hcf_register_ip_history and hcf_swap_tree *)
  loads,      \* history messages handled so far
  hpc, htodo, hnew, hrunner, hbits,
  old,        \* old_root
  waits,      \* readers synchronize_rcu still waits for
  walk,       \* calls of hcf_free_node still to be made
  (* RCU *)
  cb,         \* nodes with a pending call_rcu callback
  gp,         \* gp[n]: readers the grace period of n's callback waits for
  (* history variables: they record what has happened, no action reads them *)
  st,         \* st[n]: where n is in its life
  hold        \* hold[r]: the nodes of the trie that r dereferenced

heapVars == <<tree, alloc, child, meta>>
taskVars == <<tpc, tip, tttl, runner, newRoot, newRunner, bits, toFree, created>>
readVars == <<rpc, rip, rttl, rrunner, rbits, result>>
histVars == <<loads, hpc, htodo, hnew, hrunner, hbits, old, waits, walk>>
rcuVars  == <<cb, gp>>
auxVars  == <<st, hold>>
vars == <<heapVars, lock, taskVars, readVars, histVars, rcuVars, auxVars>>

\* A node is free, then being built by a task ("new") or by the netlink
\* handler ("hist"), then part of the published trie ("live"); a task that
\* replaces it makes it "retired" and, with call_rcu, "cb"; a swap of the whole
\* trie makes it "doomed".
Life == {"free", "new", "hist", "live", "retired", "cb", "doomed"}

\* A mutant: the loops go one bit too far.
OneBitMore(i) == i >= HostBits - 1

\* The condition of the loops over the bits of an address.
MoreBits(i) == i >= HostBits

NoChild == [b \in {0, 1} |-> NULL]
NoMeta == [hc |-> 0, ttl |-> 0]

Live == {n \in Node : st[n] = "live"}

-----------------------------------------------------------------------------
(* The kernel's primitives, as this file uses them.                        *)

\* Readers inside rcu_read_lock ... rcu_read_unlock.
InSection == {r \in Reader : rpc[r] = "walk"}

\* A mutant: a grace period that no reader delays.
NoGracePeriod == {}

\* The readers a grace period that starts now has to wait for.
GracePeriod == InSection

\* A mutant: the mutex is not taken.
Unprotected == TRUE

\* mutex_lock returns only when the mutex is free.
mutex_lock == lock = NULL

\* A mutant: a path that returns with the mutex still held.
NoUnlock == lock' = lock

mutex_unlock == lock' = NULL

\* A mutant: a lookup that leaves its read-side section open.
NoReadUnlock(r) == UNCHANGED <<gp, waits>>

\* Every grace period that waits for r goes on without it.
rcu_read_unlock(r) ==
  /\ gp' = [n \in Node |-> gp[n] \ {r}]
  /\ waits' = waits \ {r}

\* A free object; which one is the allocator's choice, and the properties hold
\* for every choice.
kmem_cache_zalloc(ip, i) == Slab(Node \ alloc, ip, i) \cap (Node \ alloc)

\* n is taken from the slab, with metadata m.
Allocate(n, m, life) ==
  /\ alloc' = alloc \cup {n}
  /\ meta' = [meta EXCEPT ![n] = m]
  /\ st' = [st EXCEPT ![n] = life]

\* The contents of a free object are of no interest: the properties below say
\* that nobody looks at them.
kmem_cache_free(n) ==
  /\ alloc' = alloc \ {n}
  /\ child' = [child EXCEPT ![n] = NoChild]
  /\ meta' = [meta EXCEPT ![n] = NoMeta]
  /\ st' = [st EXCEPT ![n] = "free"]

-----------------------------------------------------------------------------
Init ==
  /\ \E root \in Slab(Node, 0, RootLvl) \cap Node :
       /\ tree = root
       /\ alloc = {root}
       /\ st = [n \in Node |-> IF n = root THEN "live" ELSE "free"]
  /\ child = [n \in Node |-> NoChild]
  /\ meta = [n \in Node |-> NoMeta]
  /\ lock = NULL
  /\ tpc = [t \in Task |-> "none"]
  /\ tip = [t \in Task |-> 0]
  /\ tttl = [t \in Task |-> 0]
  /\ runner = [t \in Task |-> NULL]
  /\ newRoot = [t \in Task |-> NULL]
  /\ newRunner = [t \in Task |-> NULL]
  /\ bits = [t \in Task |-> RootLvl]
  /\ toFree = [t \in Task |-> {}]
  /\ created = [t \in Task |-> FALSE]
  /\ rpc = [r \in Reader |-> "out"]
  /\ rip = [r \in Reader |-> 0]
  /\ rttl = [r \in Reader |-> 0]
  /\ rrunner = [r \in Reader |-> NULL]
  /\ rbits = [r \in Reader |-> RootLvl]
  /\ result = [r \in Reader |-> NULL]
  /\ loads = 0
  /\ hpc = "idle"
  /\ htodo = <<>>
  /\ hnew = NULL
  /\ hrunner = NULL
  /\ hbits = RootLvl
  /\ old = NULL
  /\ waits = {}
  /\ walk = {}
  /\ cb = {}
  /\ gp = [n \in Node |-> {}]
  /\ hold = [r \in Reader |-> {}]

-----------------------------------------------------------------------------
(* Learning: hcf_register_ip and hcf_register_ip_work.                     *)

\* The learn hook allocates a task and queues it.  Every task is a fresh
\* object, so queue_work never finds it already pending.
hcf_register_ip(t, ip, ttl) ==
  /\ tpc[t] = "none"
  /\ tpc' = [tpc EXCEPT ![t] = "queued"]
  /\ tip' = [tip EXCEPT ![t] = ip]
  /\ tttl' = [tttl EXCEPT ![t] = ttl]
  /\ UNCHANGED <<heapVars, lock, runner, newRoot, newRunner, bits, toFree,
                 created, readVars, histVars, rcuVars, auxVars>>

\* Takes the mutex, reads the root and clones it.
work_clone_root(t) ==
  /\ tpc[t] = "queued"
  /\ mutex_lock
  /\ tree # NULL
  /\ \E n \in kmem_cache_zalloc(tip[t], RootLvl) :
       /\ Allocate(n, meta[tree], "new")
       /\ child' = [child EXCEPT ![n] = child[tree]]
       /\ newRoot' = [newRoot EXCEPT ![t] = n]
       /\ newRunner' = [newRunner EXCEPT ![t] = n]
  /\ lock' = t
  /\ runner' = [runner EXCEPT ![t] = tree]
  /\ toFree' = [toFree EXCEPT ![t] = {tree}]
  /\ bits' = [bits EXCEPT ![t] = RootLvl]
  /\ created' = [created EXCEPT ![t] = FALSE]
  /\ tpc' = [tpc EXCEPT ![t] = "clone"]
  /\ UNCHANGED <<tree, tip, tttl, readVars, histVars, rcuVars, hold>>

\* A mutant: the bits of the address are taken in the other order.
OtherEnd(t) == BitAt(tip[t], RootLvl - bits[t])

TaskBit(t) == BitAt(tip[t], bits[t])

\* A mutant: the new node is linked into the trie that readers are in.
InPlace(t) == runner[t]

\* The node whose child pointer both loops set.
Parent(t) == newRunner[t]

\* A mutant: the parent of the cloned node is noted, not the node.
NoteParent(t, n) == toFree[t] \cup {runner[t]}

\* nodes_to_free once n, of which there is a clone now, is added.
ToFreeWith(t, n) == toFree[t] \cup {n}

\* One turn of the loop that clones the path while it exists.
work_clone(t) ==
  LET b == TaskBit(t)
      old_child == child[runner[t]][b]
  IN  /\ tpc[t] = "clone"
      /\ MoreBits(bits[t])
      /\ old_child # NULL
      /\ \E n \in kmem_cache_zalloc(tip[t], bits[t] - 1) :
           /\ Allocate(n, meta[old_child], "new")
           /\ child' = [child EXCEPT ![n] = child[old_child],
                                     ![Parent(t)][b] = n]
           /\ newRunner' = [newRunner EXCEPT ![t] = n]
      /\ toFree' = [toFree EXCEPT ![t] = ToFreeWith(t, old_child)]
      /\ runner' = [runner EXCEPT ![t] = old_child]
      /\ bits' = [bits EXCEPT ![t] = @ - 1]
      /\ UNCHANGED <<tree, lock, tpc, tip, tttl, newRoot, created, readVars,
                     histVars, rcuVars, hold>>

\* The cloning loop stops at the first missing child; from there on every turn
\* creates a node.
work_create(t) ==
  LET b == TaskBit(t)
  IN  /\ \/ tpc[t] = "create"
         \/ tpc[t] = "clone" /\ child[runner[t]][b] = NULL
      /\ MoreBits(bits[t])
      /\ \E n \in kmem_cache_zalloc(tip[t], bits[t] - 1) :
           /\ Allocate(n, NoMeta, "new")
           /\ child' = [child EXCEPT ![n] = NoChild, ![Parent(t)][b] = n]
           /\ newRunner' = [newRunner EXCEPT ![t] = n]
      /\ created' = [created EXCEPT ![t] = TRUE]
      /\ bits' = [bits EXCEPT ![t] = @ - 1]
      /\ tpc' = [tpc EXCEPT ![t] = "create"]
      /\ UNCHANGED <<tree, lock, tip, tttl, runner, newRoot, toFree, readVars,
                     histVars, rcuVars, hold>>

\* Writes the metadata of the leaf, publishes the new root and unlocks.
work_publish(t) ==
  /\ tpc[t] \in {"clone", "create"}
  /\ ~MoreBits(bits[t])
  /\ meta' = [meta EXCEPT ![newRunner[t]] =
                [hc |-> HopsOf(tttl[t]), ttl |-> tttl[t]]]
  /\ tree' = newRoot[t]
  /\ mutex_unlock
  /\ tpc' = [tpc EXCEPT ![t] = IF created[t] THEN "announce" ELSE "retire"]
  /\ st' = [n \in Node |-> IF n \in toFree[t] THEN "retired"
                           ELSE IF st[n] = "new" THEN "live"
                           ELSE st[n]]
  /\ UNCHANGED <<alloc, child, tip, tttl, runner, newRoot, newRunner, bits,
                 toFree, created, readVars, histVars, rcuVars, hold>>

\* hcf_log_new_ip reads new_runner->ttl and new_runner->hc, with the mutex
\* already released, and sends them to the hcf multicast group.
work_announce(t) ==
  /\ tpc[t] = "announce"
  /\ tpc' = [tpc EXCEPT ![t] = "retire"]
  /\ UNCHANGED <<heapVars, lock, tip, tttl, runner, newRoot, newRunner, bits,
                 toFree, created, readVars, histVars, rcuVars, auxVars>>

\* One turn of the call_rcu loop over nodes_to_free, in any order.
work_retire(t) ==
  /\ tpc[t] = "retire"
  /\ \E n \in toFree[t] :
       /\ cb' = cb \cup {n}
       /\ gp' = [gp EXCEPT ![n] = GracePeriod]
       /\ toFree' = [toFree EXCEPT ![t] = @ \ {n}]
       /\ st' = [st EXCEPT ![n] = "cb"]
  /\ UNCHANGED <<heapVars, lock, tpc, tip, tttl, runner, newRoot, newRunner,
                 bits, created, readVars, histVars, hold>>

\* kfree(task); the locals of the function go out of scope.
work_end(t) ==
  /\ tpc[t] = "retire"
  /\ toFree[t] = {}
  /\ tpc' = [tpc EXCEPT ![t] = "done"]
  /\ tip' = [tip EXCEPT ![t] = 0]
  /\ tttl' = [tttl EXCEPT ![t] = 0]
  /\ runner' = [runner EXCEPT ![t] = NULL]
  /\ newRoot' = [newRoot EXCEPT ![t] = NULL]
  /\ newRunner' = [newRunner EXCEPT ![t] = NULL]
  /\ bits' = [bits EXCEPT ![t] = RootLvl]
  /\ created' = [created EXCEPT ![t] = FALSE]
  /\ UNCHANGED <<heapVars, lock, toFree, readVars, histVars, rcuVars, auxVars>>

\* The RCU callback of a retired node, after its grace period.
hcf_free_node_rcu(n) ==
  /\ n \in cb
  /\ gp[n] = {}
  /\ cb' = cb \ {n}
  /\ kmem_cache_free(n)
  /\ UNCHANGED <<tree, lock, taskVars, readVars, histVars, gp, hold>>

-----------------------------------------------------------------------------
(* hcf_lookup_tree.                                                        *)

\* rcu_read_lock and the dereference of state->tree.
lookup_enter(r, ip, ttl) ==
  /\ rpc[r] = "out"
  /\ rpc' = [rpc EXCEPT ![r] = "walk"]
  /\ rip' = [rip EXCEPT ![r] = ip]
  /\ rttl' = [rttl EXCEPT ![r] = ttl]
  /\ rrunner' = [rrunner EXCEPT ![r] = tree]
  /\ rbits' = [rbits EXCEPT ![r] = RootLvl]
  /\ result' = [result EXCEPT ![r] = NULL]
  /\ hold' = [hold EXCEPT ![r] = Live]
  /\ UNCHANGED <<heapVars, lock, taskVars, histVars, rcuVars, st>>

\* One turn of the loop.
lookup_step(r) ==
  /\ rpc[r] = "walk"
  /\ rrunner[r] # NULL
  /\ MoreBits(rbits[r])
  /\ rrunner' = [rrunner EXCEPT ![r] = child[@][BitAt(rip[r], rbits[r])]]
  /\ rbits' = [rbits EXCEPT ![r] = @ - 1]
  /\ UNCHANGED <<heapVars, lock, taskVars, rpc, rip, rttl, result, histVars,
                 rcuVars, auxVars>>

\* rcu_read_unlock, with the value the function returns: 1 or 0 from the leaf,
\* -1 when there is none.
lookup_end(r) ==
  /\ rpc[r] = "walk"
  /\ rrunner[r] = NULL \/ ~MoreBits(rbits[r])
  /\ result' = [result EXCEPT ![r] =
                  IF rrunner[r] = NULL THEN -1
                  ELSE HopsAgree(rttl[r], meta[rrunner[r]].hc)]
  /\ rpc' = [rpc EXCEPT ![r] = "out"]
  /\ rcu_read_unlock(r)
  /\ hold' = [hold EXCEPT ![r] = {}]
  /\ rip' = [rip EXCEPT ![r] = 0]
  /\ rttl' = [rttl EXCEPT ![r] = 0]
  /\ rrunner' = [rrunner EXCEPT ![r] = NULL]
  /\ rbits' = [rbits EXCEPT ![r] = RootLvl]
  /\ UNCHANGED <<heapVars, lock, taskVars, loads, hpc, htodo, hnew, hrunner,
                 hbits, old, walk, cb, st>>

-----------------------------------------------------------------------------
(* hcf_register_ip_history, which ends in hcf_swap_tree.                   *)

\* Creates the root of the new trie and starts on the first entry.
history_begin(h) ==
  /\ hpc = "idle"
  /\ loads < MaxLoads
  /\ \E n \in kmem_cache_zalloc(0, RootLvl) :
       /\ Allocate(n, NoMeta, "hist")
       /\ child' = [child EXCEPT ![n] = NoChild]
       /\ hnew' = n
       /\ hrunner' = n
  /\ hpc' = "build"
  /\ loads' = loads + 1
  /\ htodo' = h
  /\ hbits' = RootLvl
  /\ UNCHANGED <<tree, lock, taskVars, readVars, old, waits, walk, rcuVars, hold>>

HistBit == BitAt(Head(htodo).ip, hbits)

\* One turn of the loop over the bits of an entry: the child exists ...
history_descend ==
  /\ hpc = "build"
  /\ htodo # <<>>
  /\ MoreBits(hbits)
  /\ child[hrunner][HistBit] # NULL
  /\ hrunner' = child[hrunner][HistBit]
  /\ hbits' = hbits - 1
  /\ UNCHANGED <<heapVars, lock, taskVars, readVars, loads, hpc, htodo, hnew, old,
                 waits, walk, rcuVars, auxVars>>

\* ... or is created.
history_create ==
  /\ hpc = "build"
  /\ htodo # <<>>
  /\ MoreBits(hbits)
  /\ child[hrunner][HistBit] = NULL
  /\ \E n \in kmem_cache_zalloc(Head(htodo).ip, hbits - 1) :
       /\ Allocate(n, NoMeta, "hist")
       /\ child' = [child EXCEPT ![n] = NoChild, ![hrunner][HistBit] = n]
       /\ hrunner' = n
  /\ hbits' = hbits - 1
  /\ UNCHANGED <<tree, lock, taskVars, readVars, loads, hpc, htodo, hnew, old, waits,
                 walk, rcuVars, hold>>

\* The leaf of the entry gets its metadata; the next entry starts at the root.
history_set ==
  /\ hpc = "build"
  /\ htodo # <<>>
  /\ ~MoreBits(hbits)
  /\ meta' = [meta EXCEPT ![hrunner] =
                [hc |-> Head(htodo).hc, ttl |-> Head(htodo).ttl]]
  /\ htodo' = Tail(htodo)
  /\ hrunner' = hnew
  /\ hbits' = RootLvl
  /\ UNCHANGED <<tree, alloc, child, lock, taskVars, readVars, loads, hpc, hnew, old,
                 waits, walk, rcuVars, auxVars>>

\* A mutant: the mutex is taken and not released.
SwapKeepsLock == lock' \in Task

\* The mutex is taken and released within the step.
swap_unlock == UNCHANGED lock

\* The critical section of hcf_swap_tree.
swap_tree ==
  /\ hpc = "build"
  /\ htodo = <<>>
  /\ mutex_lock
  /\ old' = tree
  /\ tree' = hnew
  /\ hpc' = "swapped"
  /\ st' = [n \in Node |-> IF st[n] = "live" THEN "doomed"
                           ELSE IF st[n] = "hist" THEN "live"
                           ELSE st[n]]
  /\ swap_unlock
  /\ UNCHANGED <<alloc, child, meta, taskVars, readVars, loads, htodo, hnew,
                 hrunner, hbits, waits, walk, rcuVars, hold>>

\* synchronize_rcu is called ...
swap_sync ==
  /\ hpc = "swapped"
  /\ waits' = GracePeriod
  /\ hpc' = "sync"
  /\ UNCHANGED <<heapVars, lock, taskVars, readVars, loads, htodo, hnew, hrunner,
                 hbits, old, walk, rcuVars, auxVars>>

\* ... and returns.
swap_synced ==
  /\ hpc = "sync"
  /\ waits = {}
  /\ walk' = {old}
  /\ hpc' = "free"
  /\ UNCHANGED <<heapVars, lock, taskVars, readVars, loads, htodo, hnew, hrunner,
                 hbits, old, waits, rcuVars, auxVars>>

\* One call of the recursive hcf_free_node: it calls itself on the children and
\* frees the node.  The recursion is a work list here, and the node is freed
\* before its descendants instead of after them; nobody else can reach either.
hcf_free_node(n) ==
  /\ hpc = "free"
  /\ n \in walk
  /\ walk' = (walk \ {n}) \cup ({child[n][0], child[n][1]} \ {NULL})
  /\ kmem_cache_free(n)
  /\ UNCHANGED <<tree, lock, taskVars, readVars, loads, hpc, htodo, hnew, hrunner,
                 hbits, old, waits, rcuVars, hold>>

history_end ==
  /\ hpc = "free"
  /\ walk = {}
  /\ hpc' = "idle"
  /\ hnew' = NULL
  /\ hrunner' = NULL
  /\ old' = NULL
  /\ UNCHANGED <<heapVars, lock, taskVars, readVars, loads, htodo, hbits, waits, walk,
                 rcuVars, auxVars>>

-----------------------------------------------------------------------------
WorkStep(t) ==
  \/ work_clone_root(t)
  \/ work_clone(t)
  \/ work_create(t)
  \/ work_publish(t)
  \/ work_announce(t)
  \/ work_retire(t)
  \/ work_end(t)

LookupStep(r) == lookup_step(r) \/ lookup_end(r)

HistoryStep ==
  \/ history_descend
  \/ history_create
  \/ history_set
  \/ swap_tree
  \/ swap_sync
  \/ swap_synced
  \/ \E n \in walk : hcf_free_node(n)
  \/ history_end

Next ==
  \/ \E t \in Task, ip \in Source, ttl \in Ttl : hcf_register_ip(t, ip, ttl)
  \/ \E t \in Task : WorkStep(t)
  \/ \E r \in Reader, ip \in Source, ttl \in Ttl : lookup_enter(r, ip, ttl)
  \/ \E r \in Reader : LookupStep(r)
  \/ \E h \in History : history_begin(h)
  \/ HistoryStep
  \/ \E n \in cb : hcf_free_node_rcu(n)

Spec == Init /\ [][Next]_vars

\* A queued work item is run and a work item, a lookup, a netlink handler and
\* an RCU callback go on once they can.  The mutex is fair enough for this: the
\* waiters of a model with finitely many tasks and messages are finitely many.
\* Nobody is obliged to send packets or history messages.
Fairness ==
  /\ \A t \in Task : WF_vars(WorkStep(t))
  /\ \A r \in Reader : WF_vars(LookupStep(r))
  /\ WF_vars(HistoryStep)
  /\ \A n \in Node : WF_vars(hcf_free_node_rcu(n))

FairSpec == Spec /\ Fairness

-----------------------------------------------------------------------------
(* Properties.                                                             *)

NodeOrNull == Node \cup {NULL}

\* Type correctness of the trie, of the three kinds of thread and of RCU: no
\* loop over the bits of an address leaves the levels of the trie, and every
\* hop count written fits its u8.
TypeOK ==
  /\ tree \in Node
  /\ alloc \subseteq Node
  /\ child \in [Node -> [{0, 1} -> NodeOrNull]]
  /\ meta \in [Node -> [hc : Byte, ttl : Byte]]
  /\ lock \in Task \cup {NULL}
  /\ tpc \in [Task -> {"none", "queued", "clone", "create", "announce",
                      "retire", "done"}]
  /\ tip \in [Task -> Addr]
  /\ tttl \in [Task -> Byte]
  /\ runner \in [Task -> NodeOrNull]
  /\ newRoot \in [Task -> NodeOrNull]
  /\ newRunner \in [Task -> NodeOrNull]
  /\ bits \in [Task -> Level]
  /\ toFree \in [Task -> SUBSET Node]
  /\ created \in [Task -> BOOLEAN]
  /\ rpc \in [Reader -> {"out", "walk"}]
  /\ rip \in [Reader -> Addr]
  /\ rttl \in [Reader -> Byte]
  /\ rrunner \in [Reader -> NodeOrNull]
  /\ rbits \in [Reader -> Level]
  /\ result \in [Reader -> {-1, 0, 1, NULL}]
  /\ loads \in 0..MaxLoads
  /\ hpc \in {"idle", "build", "swapped", "sync", "free"}
  /\ htodo \in Seq(Entry)
  /\ hnew \in NodeOrNull
  /\ hrunner \in NodeOrNull
  /\ hbits \in Level
  /\ old \in NodeOrNull
  /\ waits \subseteq Reader
  /\ walk \subseteq Node
  /\ cb \subseteq Node
  /\ gp \in [Node -> SUBSET Reader]
  /\ st \in [Node -> Life]
  /\ hold \in [Reader -> SUBSET Node]

\* The nodes that readers may be at.
Published == {n \in Node : st[n] \in {"live", "retired", "cb", "doomed"}}

\* A lookup that has not left its read-side section is at a node that is
\* allocated and was published: neither a work item's callbacks (hcf.c:182) nor
\* the free of a whole trie (hcf.c:83) takes it away or gives its memory to a
\* node under construction while the lookup is there.
ReaderSafe ==
  \A r \in Reader :
    rpc[r] = "walk" /\ rrunner[r] # NULL =>
      rrunner[r] \in alloc \cap Published

\* The nodes of S and everything below them.
Reach(S) ==
  LET depth == RootLvl - LeafLvl
      R[i \in 0..depth] ==
        IF i = 0 THEN S \ {NULL}
        ELSE R[i - 1] \cup
               ({child[n][b] : n \in R[i - 1], b \in {0, 1}} \ {NULL})
  IN  R[depth]

Working == {t \in Task : tpc[t] \in {"clone", "create"}}
Retiring == {t \in Task : tpc[t] \in {"announce", "retire"}}

\* The trie that hcf_swap_tree took out and has not freed yet.
OldTrie ==
  CASE hpc \in {"swapped", "sync"} -> Reach({old})
    [] hpc = "free" -> Reach(walk)
    [] OTHER -> {}

\* The trie under construction by the netlink handler.
NewTrie == IF hpc = "build" THEN Reach({hnew}) ELSE {}

\* No node leaks, whatever the order of learning, replacing the trie and
\* freeing: each allocated node is in the published trie, in a trie under
\* construction, in a trie about to be freed, in some nodes_to_free or has a
\* pending callback.
NoLeak ==
  alloc = UNION { Reach({tree}), NewTrie, OldTrie, cb,
                  Reach({newRoot[t] : t \in Working}),
                  UNION {toFree[t] : t \in Task} }

\* Nobody frees a node twice, or one that somebody else uses: the published
\* trie, the trie under construction, the trie being freed, the pending
\* callbacks and the nodes_to_free of the items past their critical section
\* have no node in common.
OneOwner ==
  LET part == << Reach({tree}), NewTrie, OldTrie, cb,
                 UNION {toFree[t] : t \in Retiring} >>
  IN  /\ \A i, j \in DOMAIN part : i # j => part[i] \cap part[j] = {}
      /\ \A t, u \in Retiring : t # u => toFree[t] \cap toFree[u] = {}

\* A node that readers may be at keeps its children and its hop count until it
\* is freed: learning works on clones only.
PublishedImmutable ==
  [][\A n \in Published : n \in alloc' =>
       child'[n] = child[n] /\ meta'[n] = meta[n]]_vars

\* The message for user space is made from memory the work item may still read.
AnnounceReadsAllocated ==
  \A t \in Task : tpc[t] = "announce" => newRunner[t] \in alloc

\* Every address handed to the workqueue is learned and its work item ends.
EveryTaskEnds ==
  \A t \in Task : tpc[t] = "queued" ~> tpc[t] = "done"

\* Every node taken out of the published trie is freed: readers cannot put off
\* a grace period for good.
EveryNodeFreed ==
  \A n \in Node : st[n] \in {"retired", "cb", "doomed"} ~> st[n] = "free"

\* The netlink handler of a history message returns: it gets the mutex and its
\* grace period ends.
HistoryReturns == hpc = "build" ~> hpc = "idle"

=============================================================================
