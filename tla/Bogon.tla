------------------------------- MODULE Bogon -------------------------------
(***************************************************************************)
(* The bogon list of the kernel module (kernel/src/bogon.c): a binary trie  *)
(* of address prefixes.  A netlink message brings a whole new list; its     *)
(* handler builds a new tree beside the published one, exchanges the two    *)
(* under a spinlock and leaves the old tree to call_rcu.  Hooks look up the *)
(* source of each packet inside an RCU read-side section and take no lock.  *)
(*                                                                         *)
(* A node is named by its path, the sequence of bits that lead to it from  *)
(* the root, so runner->child[bit] is Append(runner, bit) if the tree has  *)
(* that node.  Trees are objects that are allocated, freed and allocated   *)
(* again.  There is one loader: generic netlink runs the handlers of this  *)
(* family one at a time, so the spinlock is never contended.               *)
(***************************************************************************)
EXTENDS Integers, Sequences

CONSTANTS
  W,          \* bits of an address: IPV4_BITS, 32
  Source,     \* source addresses looked up
  List,       \* lists user space may send: sequences of prefixes
  Tree,       \* objects struct lfw_bg_tree is allocated from
  Choose(_),  \* Choose(S): which of the free objects S the allocator may take
  MaxLoads,   \* bound: messages handled, in all
  MayFail,    \* the allocations that may fail: "buffer", "tree", "root", "node"
  Reader,     \* CPUs running lfw_lookup_bg_tree
  NULL

Addr == 0 .. 2^W - 1
Prefix == [ip : Addr, len : 0..W]

ASSUME WAssumption == W \in Nat
\* What the provers do not know of powers of 2.
ASSUME PowAssumption == \A n \in 0..W : /\ 2^n \in Nat /\ 2^n > 0
                                       /\ 2^(n + 1) = 2 * 2^n
ASSUME InputAssumption == /\ Source \subseteq Addr
                          /\ \A l \in List : l \in Seq(Prefix)
ASSUME LoadsAssumption == MaxLoads \in Nat
ASSUME NullAssumption == NULL \notin Tree \cup Seq(Prefix) \cup Int

VARIABLES
  tree,       \* state->tree
  alloc,      \* the allocated trees
  nodes,      \* nodes[t]: the nodes of t; no node at all while t->root is NULL
  bogon,      \* bogon[t]: the nodes of t with is_bogon set
  lpc,        \* lfw_bogon_set and lfw_load_bg_tree: where the handler is
  loads,      \* messages handled so far
  msg,        \* the list of the message being handled
  ltree,      \* tree
  lnum,       \* i, the index of the prefix being inserted, from 1
  lrunner,    \* runner; its length is j
  lold,       \* old_tree
  reply,      \* what the last handler returned, or NULL before any did
  rpc,        \* lfw_lookup_bg_tree
  rip, rtree, rrunner, result,
  cb,         \* trees with a pending call_rcu callback
  gp,         \* gp[t]: readers the grace period of t's callback waits for
  leaked,     \* history variable: trees that nobody has a pointer to any more
  list,       \* history variable; list[t]: the message t was built from
  rlist       \* history variable; rlist[r]: the list behind r's answer

treeVars == <<tree, alloc, nodes, bogon, leaked, list>>
loadVars == <<lpc, loads, msg, ltree, lnum, lrunner, lold, reply>>
readVars == <<rpc, rip, rtree, rrunner, result, rlist>>
rcuVars == <<cb, gp>>
vars == <<treeVars, loadVars, readVars, rcuVars>>

EINVAL == -22
ENOMEM == -12

\* The list behind the tree that lfw_init_bg_state publishes, which has no root.
NoList == NULL

-----------------------------------------------------------------------------
\* A mutant: the bit is shifted down but not masked.
NoMask(ip, j) == ip \div 2^(W - 1 - j)

\* Bit j from the top: a shift and a mask.
in4_get_bit(ip, j) == IF (ip \div 2^(W - 1 - j)) % 2 = 1 THEN 1 ELSE 0

\* The path of the first n bits of an address.
Path(ip, n) == [k \in 1..n |-> in4_get_bit(ip, k - 1)]

\* A mutant: a grace period that no reader delays.
NoGracePeriod == {}

\* The readers a grace period that starts now has to wait for.
GracePeriod == {r \in Reader : rpc[r] = "walk"}

\* A mutant: a lookup that leaves its read-side section open.
NoReadUnlock(r) == gp' = gp

\* Every grace period that waits for r goes on without it.
rcu_read_unlock(r) == gp' = [t \in Tree |-> gp[t] \ {r}]

kzalloc == Choose(Tree \ alloc) \cap (Tree \ alloc)

Init ==
  /\ \E t \in Choose(Tree) \cap Tree :
       /\ tree = t
       /\ alloc = {t}
  /\ nodes = [t \in Tree |-> {}]
  /\ bogon = [t \in Tree |-> {}]
  /\ leaked = {}
  /\ list = [t \in Tree |-> NoList]
  /\ lpc = "idle"
  /\ loads = 0
  /\ msg = <<>>
  /\ ltree = NULL
  /\ lnum = 1
  /\ lrunner = <<>>
  /\ lold = NULL
  /\ reply = NULL
  /\ rpc = [r \in Reader |-> "out"]
  /\ rip = [r \in Reader |-> 0]
  /\ rtree = [r \in Reader |-> NULL]
  /\ rrunner = [r \in Reader |-> <<>>]
  /\ result = [r \in Reader |-> NULL]
  /\ rlist = [r \in Reader |-> NoList]
  /\ cb = {}
  /\ gp = [t \in Tree |-> {}]

-----------------------------------------------------------------------------
(* lfw_bogon_set.  The client counts the prefixes it packs, so num_prefix  *)
(* is the length of the list.                                              *)

\* No prefixes: -EINVAL.
set_empty ==
  /\ lpc = "idle"
  /\ loads < MaxLoads
  /\ <<>> \in List
  /\ loads' = loads + 1
  /\ reply' = EINVAL
  /\ UNCHANGED <<treeVars, lpc, msg, ltree, lnum, lrunner, lold, readVars, rcuVars>>

\* The buffer for the prefixes cannot be allocated: -ENOMEM.
set_no_buffer(l) ==
  /\ lpc = "idle"
  /\ loads < MaxLoads
  /\ l # <<>>
  /\ "buffer" \in MayFail
  /\ loads' = loads + 1
  /\ reply' = ENOMEM
  /\ UNCHANGED <<treeVars, lpc, msg, ltree, lnum, lrunner, lold, readVars, rcuVars>>

\* The prefixes are copied and lfw_load_bg_tree allocates the tree and its root.
load_begin(l) ==
  /\ lpc = "idle"
  /\ loads < MaxLoads
  /\ l # <<>>
  /\ loads' = loads + 1
  /\ reply' = NULL
  /\ \E t \in kzalloc :
       /\ alloc' = alloc \cup {t}
       /\ nodes' = [nodes EXCEPT ![t] = {<<>>}]
       /\ bogon' = [bogon EXCEPT ![t] = {}]
       /\ list' = [list EXCEPT ![t] = l]
       /\ ltree' = t
  /\ lpc' = "build"
  /\ msg' = l
  /\ lnum' = 1
  /\ lrunner' = <<>>
  /\ UNCHANGED <<tree, leaked, lold, readVars, rcuVars>>

\* The tree, or its root, cannot be allocated: lfw_load_bg_tree returns, in the
\* second case without freeing the tree, and lfw_bogon_set goes on to report
\* success.
load_no_memory(l) ==
  /\ lpc = "idle"
  /\ loads < MaxLoads
  /\ l # <<>>
  /\ loads' = loads + 1
  /\ reply' = 0
  /\ msg' = l
  /\ \/ /\ "tree" \in MayFail
        /\ UNCHANGED <<alloc, leaked>>
     \/ /\ "root" \in MayFail
        /\ \E t \in kzalloc : /\ alloc' = alloc \cup {t}
                              /\ leaked' = leaked \cup {t}
  /\ UNCHANGED <<tree, nodes, bogon, list, lpc, ltree, lnum, lrunner, lold,
                 readVars, rcuVars>>

Inserting == lpc = "build" /\ lnum <= Len(msg)
LoadBit == in4_get_bit(msg[lnum].ip, Len(lrunner))

\* One turn of the loop over the bits of a prefix.
load_step ==
  LET next == Append(lrunner, LoadBit)
  IN  /\ Inserting
      /\ Len(lrunner) < msg[lnum].len
      /\ nodes' = [nodes EXCEPT ![ltree] = @ \cup {next}]
      /\ lrunner' = next
      /\ UNCHANGED <<tree, alloc, bogon, leaked, list, lpc, loads, msg, ltree, lnum,
                     lold, reply, readVars, rcuVars>>

\* The child cannot be allocated.  The code tests tree->root, which is not NULL,
\* goes on with runner NULL and dereferences it: the handler dies.
load_step_no_memory ==
  /\ Inserting
  /\ Len(lrunner) < msg[lnum].len
  /\ Append(lrunner, LoadBit) \notin nodes[ltree]
  /\ "node" \in MayFail
  /\ lpc' = "oops"
  /\ UNCHANGED <<treeVars, loads, msg, ltree, lnum, lrunner, lold, reply,
                 readVars, rcuVars>>

\* A mutant: the parent of the last node of the prefix is marked.
OneBitShort == SubSeq(lrunner, 1, Len(lrunner) - 1)

\* The node that stands for the prefix once all its bits are followed.
Marked == lrunner

\* The last node of the prefix is marked; the next prefix starts at the root.
load_mark ==
  /\ Inserting
  /\ Len(lrunner) = msg[lnum].len
  /\ bogon' = [bogon EXCEPT ![ltree] = @ \cup {Marked}]
  /\ lnum' = lnum + 1
  /\ lrunner' = <<>>
  /\ UNCHANGED <<tree, alloc, nodes, leaked, list, lpc, loads, msg, ltree, lold, reply,
                 readVars, rcuVars>>

\* A mutant: the tree is published as soon as its first prefix is in.
TooEarly == lpc = "build" /\ lnum > 1

\* A mutant: the loop is left one prefix too late.
TooLate == lpc = "build" /\ lnum > Len(msg) + 1

\* All prefixes are inserted.
Complete == lpc = "build" /\ lnum > Len(msg)

\* A mutant: state->tree is read after it was assigned.
ReadTooLate == ltree

old_tree == tree

\* The exchange under the spinlock.
load_swap ==
  /\ Complete
  /\ lold' = old_tree
  /\ tree' = ltree
  /\ lpc' = "swapped"
  /\ UNCHANGED <<alloc, nodes, bogon, leaked, list, loads, msg, ltree, lnum, lrunner,
                 reply, readVars, rcuVars>>

\* call_rcu, and the return of both functions.
load_end ==
  /\ lpc = "swapped"
  /\ cb' = cb \cup {lold}
  /\ gp' = [gp EXCEPT ![lold] = GracePeriod]
  /\ reply' = 0
  /\ lpc' = "idle"
  /\ ltree' = NULL
  /\ lold' = NULL
  /\ lnum' = 1
  /\ UNCHANGED <<treeVars, loads, msg, lrunner, readVars>>

\* The callback: the nodes, then the tree, are freed.
lfw_free_bg_tree(t) ==
  /\ t \in cb
  /\ gp[t] = {}
  /\ cb' = cb \ {t}
  /\ alloc' = alloc \ {t}
  /\ nodes' = [nodes EXCEPT ![t] = {}]
  /\ bogon' = [bogon EXCEPT ![t] = {}]
  /\ list' = [list EXCEPT ![t] = NoList]
  /\ UNCHANGED <<tree, leaked, loadVars, readVars, gp>>

-----------------------------------------------------------------------------
(* lfw_lookup_bg_tree.                                                     *)

lookup_enter(r, ip) ==
  /\ rpc[r] = "out"
  /\ rpc' = [rpc EXCEPT ![r] = "walk"]
  /\ rip' = [rip EXCEPT ![r] = ip]
  /\ rtree' = [rtree EXCEPT ![r] = tree]
  /\ rrunner' = [rrunner EXCEPT ![r] = <<>>]
  /\ result' = [result EXCEPT ![r] = NULL]
  /\ rlist' = [rlist EXCEPT ![r] = list[tree]]
  /\ UNCHANGED <<treeVars, loadVars, rcuVars>>

ReadBit(r) == in4_get_bit(rip[r], Len(rrunner[r]))

\* The root is there, bits are left, the node is no bogon and has the child.
GoesOn(r) ==
  /\ <<>> \in nodes[rtree[r]]
  /\ Len(rrunner[r]) < W
  /\ rrunner[r] \notin bogon[rtree[r]]
  /\ Append(rrunner[r], ReadBit(r)) \in nodes[rtree[r]]

\* One turn of the loop that does not end it.
lookup_step(r) ==
  /\ rpc[r] = "walk"
  /\ GoesOn(r)
  /\ rrunner' = [rrunner EXCEPT ![r] = Append(@, ReadBit(r))]
  /\ UNCHANGED <<treeVars, loadVars, rpc, rip, rtree, result, rlist, rcuVars>>

\* A mutant: no test of the node that the last bit leads to.
NoLastTest(r) ==
  IF <<>> \notin nodes[rtree[r]] THEN -1
  ELSE IF Len(rrunner[r]) = W THEN 0
  ELSE IF rrunner[r] \in bogon[rtree[r]] THEN 1
  ELSE -2

\* The value returned where the walk ends: no root, a bogon, all bits used up
\* or a child that is not there.
Verdict(r) ==
  IF <<>> \notin nodes[rtree[r]] THEN -1
  ELSE IF rrunner[r] \in bogon[rtree[r]] THEN 1
  ELSE IF Len(rrunner[r]) = W THEN 0
  ELSE -2

lookup_end(r) ==
  /\ rpc[r] = "walk"
  /\ ~GoesOn(r)
  /\ result' = [result EXCEPT ![r] = Verdict(r)]
  /\ rpc' = [rpc EXCEPT ![r] = "out"]
  /\ rtree' = [rtree EXCEPT ![r] = NULL]
  /\ rrunner' = [rrunner EXCEPT ![r] = <<>>]
  /\ rcu_read_unlock(r)
  /\ UNCHANGED <<treeVars, loadVars, rip, rlist, cb>>

-----------------------------------------------------------------------------
LoadStep ==
  \/ load_step
  \/ load_step_no_memory
  \/ load_mark
  \/ load_swap
  \/ load_end

LookupStep(r) == lookup_step(r) \/ lookup_end(r)

Next ==
  \/ set_empty
  \/ \E l \in List : set_no_buffer(l) \/ load_begin(l) \/ load_no_memory(l)
  \/ LoadStep
  \/ \E t \in cb : lfw_free_bg_tree(t)
  \/ \E r \in Reader, ip \in Source : lookup_enter(r, ip)
  \/ \E r \in Reader : LookupStep(r)

Spec == Init /\ [][Next]_vars

\* A handler, a lookup and an RCU callback that have begun go on.
Fairness ==
  /\ WF_vars(LoadStep)
  /\ \A r \in Reader : WF_vars(LookupStep(r))
  /\ \A t \in Tree : WF_vars(lfw_free_bg_tree(t))

FairSpec == Spec /\ Fairness

-----------------------------------------------------------------------------
(* Properties.                                                             *)

BitPath == Seq({0, 1})
AnyList == Seq(Prefix) \cup {NoList}

\* Type correctness: in particular no index leaves the list and no reader or
\* loader is at a node outside any tree.
TypeOK ==
  /\ tree \in Tree
  /\ alloc \subseteq Tree
  /\ nodes \in [Tree -> SUBSET BitPath]
  /\ bogon \in [Tree -> SUBSET BitPath]
  /\ leaked \subseteq Tree
  /\ list \in [Tree -> AnyList]
  /\ lpc \in {"idle", "build", "swapped", "oops"}
  /\ loads \in 0..MaxLoads
  /\ msg \in Seq(Prefix)
  /\ ltree \in Tree \cup {NULL}
  /\ lnum \in 1..(Len(msg) + 1)
  /\ lrunner \in BitPath
  /\ lold \in Tree \cup {NULL}
  /\ reply \in {NULL, 0, EINVAL, ENOMEM}
  /\ rpc \in [Reader -> {"out", "walk"}]
  /\ rip \in [Reader -> Addr]
  /\ rtree \in [Reader -> Tree \cup {NULL}]
  /\ rrunner \in [Reader -> BitPath]
  /\ result \in [Reader -> {NULL, -2, -1, 0, 1}]
  /\ rlist \in [Reader -> AnyList]
  /\ cb \subseteq Tree
  /\ gp \in [Tree -> SUBSET Reader]

\* The tree a lookup is in is allocated and is still the one it dereferenced:
\* the callback of a replaced tree waits for every lookup that may be in it.
ReaderSafe ==
  \A r \in Reader :
    rpc[r] = "walk" => rtree[r] \in alloc /\ list[rtree[r]] = rlist[r]

Matches(ip, p) ==
  \A j \in 0..(p.len - 1) : in4_get_bit(ip, j) = in4_get_bit(p.ip, j)

\* The answer for an address, by the list alone: -1 before any list was loaded,
\* 1 if some prefix of the list matches, -2 otherwise.
Expected(l, ip) ==
  IF l = NoList THEN -1
  ELSE IF \E i \in DOMAIN l : Matches(ip, l[i]) THEN 1 ELSE -2

\* A lookup returns what the list that was in force at one moment of the lookup
\* says, for every prefix length from 0 to all the bits, however many times the
\* list is replaced while it runs; it never returns 0.
LookupCorrect ==
  \A r \in Reader : result[r] # NULL => result[r] = Expected(rlist[r], rip[r])

\* A list is in force as a whole or not at all.
Whole(t) ==
  /\ bogon[t] = {Path(list[t][i].ip, list[t][i].len) : i \in DOMAIN list[t]}
  /\ nodes[t] = UNION { {Path(list[t][i].ip, n) : n \in 0..list[t][i].len} :
                        i \in DOMAIN list[t] }

\* The published tree, once a list was loaded, holds the marks and the nodes of
\* its whole list, nothing less and nothing more.
PublishedWhole == list[tree] # NoList => Whole(tree)

\* No tree leaks except one whose root could not be allocated: each one is
\* published, under construction or going to be freed, and that by one callback
\* only.
NoLeak ==
  /\ alloc = {tree} \cup ({ltree, lold} \ {NULL}) \cup cb \cup leaked
  /\ tree \notin cb \cup leaked
  /\ lpc = "build" => ltree \notin {tree} \cup cb \cup leaked
  /\ lpc = "swapped" => lold \notin {tree} \cup cb \cup leaked
  /\ cb \cap leaked = {}

\* The handler never dereferences the NULL of a failed allocation, as its tests
\* of every allocation intend.
NeverOops == lpc # "oops"

\* A handler that reports success has put its list in force.
SuccessMeansLoaded ==
  lpc = "idle" /\ reply = 0 => list[tree] = msg

\* Every message is answered, unless a failed allocation kills its handler.
EveryLoadEnds == lpc = "build" ~> lpc \in {"idle", "oops"}

\* Every tree that was replaced is freed in the end.
EveryTreeFreed == \A t \in Tree : t \in cb ~> t \notin alloc

-----------------------------------------------------------------------------
\* The tree implements the list of BogonList: the list in force is the one that
\* the published tree was built from, and a lookup in progress has the answer of
\* the list in force when it dereferenced the tree.
Abstract == INSTANCE BogonList WITH
              list <- list[tree],
              ans  <- [r \in Reader |-> IF rpc[r] = "walk"
                                        THEN Expected(rlist[r], rip[r])
                                        ELSE NULL]

\* Each step of the tree is a step of the list or none: a message replaces the
\* list at once, and a lookup answers from one list.
ImplementsList == Abstract!Spec

=============================================================================
