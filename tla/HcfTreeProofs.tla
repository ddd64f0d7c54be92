--------------------------- MODULE HcfTreeProofs ---------------------------
(***************************************************************************)
(* Proofs about the hop-count trie, for every number of address bits, every *)
(* set of nodes, tasks and readers and every allocator.                     *)
(***************************************************************************)
EXTENDS HcfTreeInv, TLAPS

USE BitsAssumption, AddrAssumption, LoadsAssumption, NullAssumption
    DEF RootLvl, LeafLvl, Level, NodeOrNull

-----------------------------------------------------------------------------
(* Type correctness.                                                       *)

Meta == [hc : Byte, ttl : Byte]

\* The branch taken at a node is 0 or 1.
LEMMA BitAtType == \A ip, i : BitAt(ip, i) \in {0, 1}
  BY DEF BitAt

\* A hop count fits its byte.
LEMMA HopsOfType == \A ttl \in Byte : HopsOf(ttl) \in Byte
  BY DEF HopsOf, hcf_get_initial_ttl, Byte

\* The result of a lookup that found a leaf.
LEMMA HopsAgreeType == \A ttl, hc : HopsAgree(ttl, hc) \in {0, 1}
  BY DEF HopsAgree

\* A new node without children or hop count.
LEMMA NoneType == NoChild \in [{0, 1} -> NodeOrNull] /\ NoMeta \in Meta
  BY DEF NoChild, NoMeta, Meta, Byte

\* Allocation keeps the types of what it changes.
LEMMA AllocateType ==
  ASSUME TypeOK, NEW n \in Node, NEW m \in Meta, NEW life \in Life,
         Allocate(n, m, life)
  PROVE  /\ alloc' \subseteq Node
         /\ meta' \in [Node -> Meta]
         /\ st' \in [Node -> Life]
  BY DEF TypeOK, Allocate, Meta

\* And so does freeing.
LEMMA FreeType ==
  ASSUME TypeOK, NEW n \in Node, kmem_cache_free(n)
  PROVE  /\ alloc' \subseteq Node
         /\ child' \in [Node -> [{0, 1} -> NodeOrNull]]
         /\ meta' \in [Node -> Meta]
         /\ st' \in [Node -> Life]
  BY NoneType DEF TypeOK, kmem_cache_free, Meta, Life

\* Linking a new node n below p.
LEMMA LinkType ==
  ASSUME TypeOK, NEW n \in Node, NEW p \in Node, NEW b \in {0, 1},
         NEW c \in [{0, 1} -> NodeOrNull],
         child' = [child EXCEPT ![n] = c, ![p][b] = n]
  PROVE  child' \in [Node -> [{0, 1} -> NodeOrNull]]
<1> DEFINE d == [child EXCEPT ![n] = c]
<1>1. d \in [Node -> [{0, 1} -> NodeOrNull]]
  BY DEF TypeOK
<1>2. child' = [d EXCEPT ![p] = [d[p] EXCEPT ![b] = n]]
  OBVIOUS
<1>3. [d[p] EXCEPT ![b] = n] \in [{0, 1} -> NodeOrNull]
  BY <1>1
<1> QED
  BY <1>1, <1>2, <1>3

LEMMA InitType == Init => TypeInv
  BY DEF Init, TypeInv, TypeOK, PointersOK, NoChild, NoMeta, Byte, Life

LEMMA RegisterType ==
  ASSUME TypeInv, NEW t \in Task, NEW ip \in Source, NEW ttl \in Ttl,
         hcf_register_ip(t, ip, ttl)
  PROVE  TypeInv'
  BY InputAssumption DEF TypeInv, TypeOK, PointersOK, hcf_register_ip, heapVars,
     readVars, histVars, rcuVars, auxVars

LEMMA CloneRootType ==
  ASSUME TypeInv, NEW t \in Task, work_clone_root(t)
  PROVE  TypeInv'
<1> USE DEF TypeInv, PointersOK, work_clone_root, readVars, histVars, rcuVars
<1>1. PICK n \in Node :
        /\ Allocate(n, meta[tree], "new")
        /\ child' = [child EXCEPT ![n] = child[tree]]
        /\ newRoot' = [newRoot EXCEPT ![t] = n]
        /\ newRunner' = [newRunner EXCEPT ![t] = n]
  BY DEF kmem_cache_zalloc
<1>2. /\ alloc' \subseteq Node
      /\ meta' \in [Node -> Meta]
      /\ st' \in [Node -> Life]
  BY <1>1, AllocateType DEF TypeOK, Meta, Life
<1>3. PointersOK'
  BY <1>1 DEF TypeOK
<1>4. child' \in [Node -> [{0, 1} -> NodeOrNull]]
  BY <1>1 DEF TypeOK
<1>5. /\ lock' \in Task \cup {NULL}
      /\ tpc' \in [Task -> {"none", "queued", "clone", "create", "announce",
                            "retire", "done"}]
      /\ runner' \in [Task -> NodeOrNull]
      /\ newRoot' \in [Task -> NodeOrNull]
      /\ newRunner' \in [Task -> NodeOrNull]
      /\ bits' \in [Task -> Level]
      /\ toFree' \in [Task -> SUBSET Node]
      /\ created' \in [Task -> BOOLEAN]
  BY <1>1 DEF TypeOK
<1> QED
  BY <1>2, <1>3, <1>4, <1>5 DEF TypeOK, Meta

LEMMA CloneType ==
  ASSUME TypeInv, NEW t \in Task, work_clone(t)
  PROVE  TypeInv'
<1> USE DEF TypeInv, PointersOK
<1> DEFINE b == TaskBit(t)
           c == child[runner[t]][b]
<1>1. b \in {0, 1} /\ c \in Node /\ bits[t] >= HostBits
  BY BitAtType DEF work_clone, TaskBit, TypeOK, MoreBits
<1>2. PICK n \in Node :
        /\ Allocate(n, meta[c], "new")
        /\ child' = [child EXCEPT ![n] = child[c], ![newRunner[t]][b] = n]
        /\ newRunner' = [newRunner EXCEPT ![t] = n]
  BY DEF work_clone, kmem_cache_zalloc, Parent
<1>3. /\ alloc' \subseteq Node
      /\ meta' \in [Node -> Meta]
      /\ st' \in [Node -> Life]
  BY <1>1, <1>2, AllocateType DEF TypeOK, Meta, Life
<1>a. newRunner[t] \in Node /\ child[c] \in [{0, 1} -> NodeOrNull]
  BY <1>1 DEF TypeOK, work_clone
<1>4. child' \in [Node -> [{0, 1} -> NodeOrNull]]
  <2> HIDE DEF b, c
  <2> QED
    BY <1>1, <1>2, <1>a, LinkType
<1>5. PointersOK'
  BY <1>1, <1>2 DEF TypeOK, work_clone, histVars
<1>6. /\ toFree' \in [Task -> SUBSET Node]
      /\ runner' \in [Task -> NodeOrNull]
      /\ newRunner' \in [Task -> NodeOrNull]
      /\ bits' \in [Task -> Level]
  BY <1>1, <1>2 DEF TypeOK, work_clone, ToFreeWith
<1> QED
  BY <1>3, <1>4, <1>5, <1>6 DEF TypeOK, Meta, work_clone, readVars, histVars, rcuVars

LEMMA CreateType ==
  ASSUME TypeInv, NEW t \in Task, work_create(t)
  PROVE  TypeInv'
<1> USE DEF TypeInv, PointersOK
<1> DEFINE b == TaskBit(t)
<1>1. b \in {0, 1} /\ bits[t] >= HostBits
  BY BitAtType DEF work_create, TaskBit, MoreBits
<1>2. PICK n \in Node :
        /\ Allocate(n, NoMeta, "new")
        /\ child' = [child EXCEPT ![n] = NoChild, ![newRunner[t]][b] = n]
        /\ newRunner' = [newRunner EXCEPT ![t] = n]
  BY DEF work_create, kmem_cache_zalloc, Parent
<1>3. /\ alloc' \subseteq Node
      /\ meta' \in [Node -> Meta]
      /\ st' \in [Node -> Life]
  BY <1>2, NoneType, AllocateType DEF TypeOK, Life
<1>a. newRunner[t] \in Node
  BY DEF work_create
<1>4. child' \in [Node -> [{0, 1} -> NodeOrNull]]
  <2> HIDE DEF b
  <2> QED
    BY <1>1, <1>2, <1>a, NoneType, LinkType
<1>5. PointersOK'
  BY <1>1, <1>2 DEF TypeOK, work_create, histVars
<1>6. /\ newRunner' \in [Task -> NodeOrNull]
      /\ bits' \in [Task -> Level]
      /\ created' \in [Task -> BOOLEAN]
  BY <1>1, <1>2 DEF TypeOK, work_create
<1> QED
  BY <1>3, <1>4, <1>5, <1>6 DEF TypeOK, Meta, work_create, readVars, histVars, rcuVars

LEMMA PublishType ==
  ASSUME TypeInv, NEW t \in Task, work_publish(t)
  PROVE  TypeInv'
<1> USE DEF TypeInv, PointersOK, work_publish
<1>1. tree' \in Node
  BY DEF TypeOK
<1>2. meta' \in [Node -> Meta]
  BY HopsOfType DEF TypeOK, Meta
<1>3. st' \in [Node -> Life]
  BY DEF TypeOK, Life
<1> QED
  BY <1>1, <1>2, <1>3 DEF TypeOK, Meta, mutex_unlock, readVars, histVars, rcuVars

LEMMA AnnounceType ==
  ASSUME TypeInv, NEW t \in Task, work_announce(t)
  PROVE  TypeInv'
  BY DEF TypeInv, TypeOK, PointersOK, work_announce, heapVars, readVars, histVars,
     rcuVars, auxVars

LEMMA RetireType ==
  ASSUME TypeInv, NEW t \in Task, work_retire(t)
  PROVE  TypeInv'
  BY DEF TypeInv, TypeOK, PointersOK, work_retire, GracePeriod, InSection, Life,
     heapVars, readVars, histVars

LEMMA EndType ==
  ASSUME TypeInv, NEW t \in Task, work_end(t)
  PROVE  TypeInv'
  BY DEF TypeInv, TypeOK, PointersOK, work_end, Byte, heapVars, readVars, histVars,
     rcuVars, auxVars

LEMMA FreeRcuType ==
  ASSUME TypeInv, NEW n \in cb, hcf_free_node_rcu(n)
  PROVE  TypeInv'
<1>1. n \in Node
  BY DEF TypeInv, TypeOK
<1> QED
  BY <1>1, FreeType DEF TypeInv, TypeOK, Meta, PointersOK, hcf_free_node_rcu,
     taskVars, readVars, histVars

LEMMA LookupType ==
  ASSUME TypeInv, NEW r \in Reader
  PROVE  /\ \A ip \in Source, ttl \in Ttl : lookup_enter(r, ip, ttl) => TypeInv'
         /\ lookup_step(r) => TypeInv'
         /\ lookup_end(r) => TypeInv'
<1> USE DEF TypeInv, TypeOK, PointersOK
<1>1. ASSUME NEW ip \in Source, NEW ttl \in Ttl, lookup_enter(r, ip, ttl)
      PROVE  TypeInv'
  BY <1>1, InputAssumption DEF lookup_enter, Live, heapVars, taskVars, histVars,
     rcuVars
<1>2. ASSUME lookup_step(r) PROVE TypeInv'
  <2> DEFINE b == BitAt(rip[r], rbits[r])
  <2>a. b \in {0, 1} /\ rrunner[r] \in Node
    BY <1>2, BitAtType DEF lookup_step
  <2>b. rrunner' = [rrunner EXCEPT ![r] = child[rrunner[r]][b]]
    BY <1>2 DEF lookup_step
  <2>1. rrunner' \in [Reader -> NodeOrNull]
    <3> HIDE DEF b
    <3> QED
      BY <2>a, <2>b
  <2>2. rbits' \in [Reader -> Level]
    BY <1>2 DEF lookup_step, MoreBits
  <2> QED
    BY <1>2, <2>1, <2>2 DEF lookup_step, heapVars, taskVars, histVars, rcuVars, auxVars
<1>3. ASSUME lookup_end(r) PROVE TypeInv'
  <2>1. result' \in [Reader -> {-1, 0, 1, NULL}]
    BY <1>3, HopsAgreeType DEF lookup_end
  <2>2. gp' \in [Node -> SUBSET Reader] /\ waits' \subseteq Reader
    BY <1>3 DEF lookup_end, rcu_read_unlock
  <2>3. 0 \in Byte
    BY DEF Byte
  <2> QED
    BY <1>3, <2>1, <2>2, <2>3 DEF lookup_end, heapVars, taskVars
<1> QED
  BY <1>1, <1>2, <1>3

LEMMA HistoryBeginType ==
  ASSUME TypeInv, NEW h \in History, history_begin(h)
  PROVE  TypeInv'
<1> USE DEF TypeInv, PointersOK
<1>1. PICK n \in Node :
        /\ Allocate(n, NoMeta, "hist")
        /\ child' = [child EXCEPT ![n] = NoChild]
        /\ hnew' = n
        /\ hrunner' = n
  BY DEF history_begin, kmem_cache_zalloc
<1>2. /\ alloc' \subseteq Node
      /\ meta' \in [Node -> Meta]
      /\ st' \in [Node -> Life]
  BY <1>1, NoneType, AllocateType DEF Life
<1>3. child' \in [Node -> [{0, 1} -> NodeOrNull]]
  BY <1>1, NoneType DEF TypeOK
<1> QED
  BY <1>1, <1>2, <1>3, InputAssumption DEF TypeOK, Meta, history_begin, taskVars,
     readVars, rcuVars

LEMMA HistoryType ==
  ASSUME TypeInv
  PROVE  /\ history_descend => TypeInv'
         /\ history_set => TypeInv'
         /\ swap_tree => TypeInv'
         /\ swap_sync => TypeInv'
         /\ swap_synced => TypeInv'
         /\ history_end => TypeInv'
<1> USE DEF TypeInv, TypeOK, PointersOK
<1>1. ASSUME history_descend PROVE TypeInv'
  <2>a. HistBit \in {0, 1}
    BY BitAtType DEF HistBit
  <2>1. hrunner' \in Node
    BY <1>1, <2>a DEF history_descend
  <2>2. hbits' \in Level
    BY <1>1 DEF history_descend, MoreBits
  <2> QED
    BY <1>1, <2>1, <2>2 DEF history_descend, heapVars, taskVars, readVars, rcuVars,
       auxVars
<1>2. ASSUME history_set PROVE TypeInv'
  <2>1. Head(htodo) \in Entry /\ Tail(htodo) \in Seq(Entry)
    BY <1>2 DEF history_set
  <2>2. meta' \in [Node -> [hc : Byte, ttl : Byte]]
    BY <1>2, <2>1 DEF history_set, Entry
  <2> QED
    BY <1>2, <2>1, <2>2 DEF history_set, taskVars, readVars, rcuVars, auxVars
<1>3. ASSUME swap_tree PROVE TypeInv'
  <2>1. st' \in [Node -> Life]
    BY <1>3 DEF swap_tree, swap_unlock, Life
  <2> QED
    BY <1>3, <2>1 DEF swap_tree, swap_unlock, taskVars, readVars, rcuVars
<1>4. ASSUME swap_sync PROVE TypeInv'
  BY <1>4 DEF swap_sync, GracePeriod, InSection, heapVars, taskVars, readVars,
     rcuVars, auxVars
<1>5. ASSUME swap_synced PROVE TypeInv'
  BY <1>5 DEF swap_synced, heapVars, taskVars, readVars, rcuVars, auxVars
<1>6. ASSUME history_end PROVE TypeInv'
  BY <1>6 DEF history_end, heapVars, taskVars, readVars, rcuVars, auxVars
<1> QED
  BY <1>1, <1>2, <1>3, <1>4, <1>5, <1>6

LEMMA HistoryCreateType ==
  ASSUME TypeInv, history_create
  PROVE  TypeInv'
<1> USE DEF TypeInv, PointersOK
<1> DEFINE b == HistBit
<1>1. b \in {0, 1} /\ hrunner \in Node /\ hbits >= HostBits
  BY BitAtType DEF history_create, HistBit, MoreBits
<1>2. PICK n \in Node :
        /\ Allocate(n, NoMeta, "hist")
        /\ child' = [child EXCEPT ![n] = NoChild, ![hrunner][b] = n]
        /\ hrunner' = n
  BY DEF history_create, kmem_cache_zalloc
<1>3. /\ alloc' \subseteq Node
      /\ meta' \in [Node -> Meta]
      /\ st' \in [Node -> Life]
  BY <1>2, NoneType, AllocateType DEF Life
<1>4. child' \in [Node -> [{0, 1} -> NodeOrNull]]
  <2> HIDE DEF b
  <2> QED
    BY <1>1, <1>2, NoneType, LinkType
<1>5. hbits' \in Level
  BY <1>1 DEF TypeOK, history_create
<1>6. hrunner' \in Node
  BY <1>2
<1> QED
  BY <1>3, <1>4, <1>5, <1>6 DEF TypeOK, Meta, history_create, taskVars, readVars, rcuVars

LEMMA FreeNodeType ==
  ASSUME TypeInv, NEW n \in walk, hcf_free_node(n)
  PROVE  TypeInv'
<1>1. n \in Node
  BY DEF TypeInv, TypeOK
<1>2. walk' \subseteq Node
  BY <1>1 DEF TypeInv, TypeOK, hcf_free_node
<1>3. /\ alloc' \subseteq Node
      /\ child' \in [Node -> [{0, 1} -> NodeOrNull]]
      /\ meta' \in [Node -> Meta]
      /\ st' \in [Node -> Life]
  BY <1>1, FreeType DEF TypeInv, hcf_free_node
<1> QED
  BY <1>2, <1>3 DEF TypeInv, TypeOK, Meta, PointersOK, hcf_free_node,
     taskVars, readVars, rcuVars

LEMMA TypeStep == TypeInv /\ [Next]_vars => TypeInv'
<1> SUFFICES ASSUME TypeInv, [Next]_vars PROVE TypeInv'
  OBVIOUS
<1>1. ASSUME NEW t \in Task, WorkStep(t) PROVE TypeInv'
  BY <1>1, CloneRootType, CloneType, CreateType, PublishType, AnnounceType,
     RetireType, EndType DEF WorkStep
<1>2. CASE HistoryStep
  BY <1>2, HistoryType, HistoryCreateType, FreeNodeType DEF HistoryStep
<1>3. CASE UNCHANGED vars
  BY <1>3 DEF TypeInv, TypeOK, PointersOK, vars, heapVars, taskVars, readVars,
     histVars, rcuVars, auxVars
<1> QED
  BY <1>1, <1>2, <1>3, RegisterType, LookupType, HistoryBeginType, FreeRcuType
     DEF Next, LookupStep

\* The types of the trie, the threads and RCU hold in every reachable state: no
\* loop of hcf.c leaves the levels of the trie and every hop count fits a u8,
\* whatever the packets, the history messages and the allocator do.
THEOREM TypeCorrect == Spec => []TypeOK
<1>1. Spec => []TypeInv
  BY InitType, TypeStep, PTL DEF Spec
<1>2. TypeInv => TypeOK
  BY DEF TypeInv
<1> QED
  BY <1>1, <1>2, PTL

-----------------------------------------------------------------------------
(* Lookups are safe: the invariant of HcfTreeInv is inductive.             *)

HIDE DEF RootLvl, LeafLvl, Level

\* Inv without the types.
Shape ==
  /\ LifeOK
  /\ LockOK
  /\ LiveOK
  /\ HistOK
  /\ DoomedOK
  /\ UniqueParent
  /\ ToFreeOK
  /\ WorkOK
  /\ HoldOK

USE NullAssumption DEF Bit, Is, NodeOrNull

\* The types that the proofs below use.
LEMMA Types ==
  ASSUME TypeInv
  PROVE  /\ tree \in Node
         /\ child \in [Node -> [Bit -> Node \cup {NULL}]]
         /\ st \in [Node -> Life]
         /\ alloc \subseteq Node /\ cb \subseteq Node /\ walk \subseteq Node
         /\ tpc \in [Task -> {"none", "queued", "clone", "create", "announce",
                              "retire", "done"}]
         /\ lock \in Task \cup {NULL}
         /\ toFree \in [Task -> SUBSET Node]
         /\ hold \in [Reader -> SUBSET Node]
         /\ gp \in [Node -> SUBSET Reader]
         /\ waits \subseteq Reader
         /\ rpc \in [Reader -> {"out", "walk"}]
         /\ runner \in [Task -> Node \cup {NULL}]
         /\ newRoot \in [Task -> Node \cup {NULL}]
         /\ newRunner \in [Task -> Node \cup {NULL}]
         /\ rrunner \in [Reader -> Node \cup {NULL}]
         /\ NULL \notin Node
         /\ NULL \notin Task
  BY DEF TypeInv, TypeOK

\* The trie is empty but for its root and nobody is at work on it.
LEMMA InitShape == Init => Shape
<1> SUFFICES ASSUME Init PROVE Shape
  OBVIOUS
<1>1. PICK root \in Node :
        /\ tree = root
        /\ alloc = {root}
        /\ st = [n \in Node |-> IF n = root THEN "live" ELSE "free"]
  BY DEF Init
<1>2. \A m \in Node, b \in Bit : child[m][b] = NULL
  BY DEF Init, NoChild
<1>3. LiveOK /\ HistOK /\ DoomedOK /\ UniqueParent
  BY <1>1, <1>2 DEF Init, LiveOK, HistOK, DoomedOK, UniqueParent
<1>4. LifeOK
  BY <1>1 DEF Init, LifeOK
<1>5. LockOK
  BY <1>1 DEF Init, LockOK
<1>6. ToFreeOK /\ WorkOK /\ HoldOK
  BY <1>1 DEF Init, ToFreeOK, Retiring, WorkOK, HoldOK
<1> QED
  BY <1>3, <1>4, <1>5, <1>6 DEF Shape

LEMMA RegisterShape ==
  ASSUME TypeInv, Shape, NEW t \in Task, NEW ip \in Source, NEW ttl \in Ttl,
         hcf_register_ip(t, ip, ttl)
  PROVE  Shape'
<1> USE DEF Shape, hcf_register_ip, heapVars, readVars, histVars, rcuVars, auxVars
<1>1. LifeOK' /\ LiveOK' /\ HistOK' /\ DoomedOK' /\ UniqueParent'
  BY DEF LifeOK, LiveOK, HistOK, DoomedOK, UniqueParent
<1>2. LockOK' /\ ToFreeOK'
  BY Types DEF LockOK, ToFreeOK, Retiring
<1>3. WorkOK'
  BY Types DEF WorkOK, PathOK, CloneOK
<1>4. HoldOK'
  BY DEF HoldOK
<1> QED
  BY <1>1, <1>2, <1>3, <1>4

\* What work_clone_root does to the nodes.
LEMMA CloneRootShape ==
  ASSUME TypeInv, Shape, NEW t \in Task, work_clone_root(t)
  PROVE  Shape'
<1>1. PICK n \in Node \ alloc :
        /\ Allocate(n, meta[tree], "new")
        /\ child' = [child EXCEPT ![n] = child[tree]]
        /\ newRoot' = [newRoot EXCEPT ![t] = n]
        /\ newRunner' = [newRunner EXCEPT ![t] = n]
  BY DEF work_clone_root, kmem_cache_zalloc
<1>2. /\ st[n] = "free" /\ n # tree /\ st[tree] = "live"
      /\ st'[n] = "new"
      /\ \A m \in Node : m # n => st'[m] = st[m] /\ child'[m] = child[m]
      /\ child'[n] = child[tree]
      /\ alloc' = alloc \cup {n}
      /\ tree' = tree
  BY <1>1, Types DEF Shape, LifeOK, LiveOK, Allocate, work_clone_root
<1>3. /\ \A u \in Task : tpc[u] \notin {"clone", "create"}
      /\ \A m \in Node : st[m] # "new"
  BY Types DEF Shape, LockOK, work_clone_root, mutex_lock
<1>4. /\ \A u \in Task : u # t => tpc'[u] = tpc[u] /\ toFree'[u] = toFree[u]
      /\ tpc'[t] = "clone"
      /\ toFree'[t] = {tree}
      /\ runner'[t] = tree
      /\ newRoot'[t] = n
      /\ newRunner'[t] = n
      /\ lock' = t
  BY <1>1, Types DEF work_clone_root
<1>5. /\ rpc' = rpc /\ rrunner' = rrunner /\ hold' = hold /\ cb' = cb /\ gp' = gp
      /\ hpc' = hpc /\ hnew' = hnew /\ hrunner' = hrunner /\ old' = old
      /\ waits' = waits /\ walk' = walk
  BY DEF work_clone_root, readVars, histVars, rcuVars
<1>6. LifeOK'
  BY <1>2, <1>5, Types DEF Shape, LifeOK
<1>7. LockOK'
  BY <1>2, <1>3, <1>4, Types DEF Shape, LockOK
<1>8. LiveOK'
  BY <1>2, Types DEF Shape, LiveOK
<1>9. HistOK'
  BY <1>2, <1>5, Types DEF Shape, HistOK
<1>10. DoomedOK'
  BY <1>2, <1>5, Types DEF Shape, DoomedOK
<1>11. UniqueParent'
  BY <1>2, Types DEF Shape, UniqueParent
<1>12. ToFreeOK'
  BY <1>2, <1>3, <1>4, Types DEF Shape, ToFreeOK, Retiring
<1>13. WorkOK'
  <2>1. SUFFICES PathOK(t)' /\ CloneOK(t)'
    BY <1>3, <1>4, Types DEF WorkOK
  <2>2. PathOK(t)'
    BY <1>2, <1>4, Types DEF Shape, LiveOK, PathOK
  <2>3. CloneOK(t)'
    BY <1>2, <1>3, <1>4, Types DEF Shape, LiveOK, UniqueParent, CloneOK
  <2> QED
    BY <2>2, <2>3
<1>14. HoldOK'
  BY <1>2, <1>5, Types DEF Shape, HoldOK
<1> QED
  BY <1>6, <1>7, <1>8, <1>9, <1>10, <1>11, <1>12, <1>13, <1>14 DEF Shape

\* One turn of the cloning loop.  The child that is cloned was not on the path
\* yet, and nothing under construction but new_runner points to it.
LEMMA CloneShape ==
  ASSUME TypeInv, Shape, NEW t \in Task, work_clone(t)
  PROVE  Shape'
<1> DEFINE b == TaskBit(t)
           c == child[runner[t]][b]
           nr == newRunner[t]
<1>1. /\ tpc[t] = "clone" /\ PathOK(t) /\ CloneOK(t)
      /\ b \in Bit
      /\ c # NULL
  BY BitAtType DEF work_clone, Shape, WorkOK, TaskBit
<1>2. PICK n \in Node \ alloc :
        /\ Allocate(n, meta[c], "new")
        /\ child' = [child EXCEPT ![n] = child[c], ![nr][b] = n]
        /\ newRunner' = [newRunner EXCEPT ![t] = n]
  BY DEF work_clone, kmem_cache_zalloc, Parent
<1>3. /\ toFree' = [toFree EXCEPT ![t] = toFree[t] \cup {c}]
      /\ runner' = [runner EXCEPT ![t] = c]
      /\ tpc' = tpc /\ lock' = lock /\ newRoot' = newRoot /\ tree' = tree
      /\ rpc' = rpc /\ rrunner' = rrunner /\ hold' = hold /\ cb' = cb /\ gp' = gp
      /\ hpc' = hpc /\ hnew' = hnew /\ hrunner' = hrunner /\ old' = old
      /\ waits' = waits /\ walk' = walk
  BY DEF work_clone, ToFreeWith, readVars, histVars, rcuVars
<1> HIDE DEF b, c, nr
<1>4. /\ c \in Node /\ st[c] = "live" /\ c # tree /\ c \notin toFree[t]
      /\ runner[t] \in Node /\ st[runner[t]] = "live" /\ runner[t] \in toFree[t]
      /\ nr \in Node /\ st[nr] = "new" /\ child[nr] = child[runner[t]]
      /\ child[runner[t]][b] = c
  BY <1>1, Types DEF Shape, PathOK, CloneOK, LiveOK, c, nr
<1>5. /\ st[n] = "free" /\ st'[n] = "new" /\ n # nr
      /\ \A m \in Node : m # n => st'[m] = st[m]
      /\ \A m \in Node : m \notin {n, nr} => child'[m] = child[m]
      /\ child'[n] = child[c]
      /\ child'[nr][b] = n
      /\ \A d \in Bit : d # b => child'[nr][d] = child[nr][d]
      /\ alloc' = alloc \cup {n}
  <2>1. st[n] = "free" /\ n # nr
    BY <1>4, Types DEF Shape, LifeOK
  <2>2. st'[n] = "new" /\ alloc' = alloc \cup {n}
        /\ \A m \in Node : m # n => st'[m] = st[m]
    BY <1>2, Types DEF Allocate
  <2>3. /\ \A m \in Node : m \notin {n, nr} => child'[m] = child[m]
        /\ child'[n] = child[c]
        /\ child'[nr][b] = n
        /\ \A d \in Bit : d # b => child'[nr][d] = child[nr][d]
    BY <1>1, <1>2, <1>4, <2>1, Types
  <2> QED
    BY <2>1, <2>2, <2>3
<1>a. /\ \A m \in Node : st[m] \notin {"free", "new"} =>
                           st'[m] = st[m] /\ child'[m] = child[m]
      /\ \A m \in Node : st'[m] # "new" => st[m] = st'[m]
  BY <1>4, <1>5
<1>6. \A m \in Node, d \in Bit :
        st[m] \in {"live", "hist", "doomed", "new"} => child[m][d] # n
  BY <1>1, <1>5, Types DEF Shape, LiveOK, HistOK, DoomedOK, CloneOK
<1>7. \A u \in Task : u # t => tpc[u] \notin {"clone", "create"}
  BY <1>1, Types DEF Shape, LockOK
<1>8. LifeOK' /\ LockOK'
  BY <1>1, <1>3, <1>5, Types DEF Shape, LifeOK, LockOK
<1>9. LiveOK'
  BY <1>3, <1>a, Types DEF Shape, LiveOK
<1>10. HistOK'
  BY <1>3, <1>a, Types DEF Shape, HistOK
<1>11. DoomedOK'
  BY <1>3, <1>a, Types DEF Shape, DoomedOK
<1>12. UniqueParent'
  BY <1>a, Types DEF Shape, UniqueParent
<1>13. ToFreeOK'
  BY <1>1, <1>3, <1>5, Types DEF Shape, ToFreeOK, Retiring
<1>14. \A d \in Bit : child[c][d] \notin toFree[t] \cup {c}
  <2> SUFFICES ASSUME NEW d \in Bit, child[c][d] \in toFree[t] \cup {c} PROVE FALSE
    OBVIOUS
  <2>1. child[c][d] \in Node /\ child[c][d] # NULL
    BY <1>4, Types
  <2>2. CASE child[c][d] = c
    BY <1>1, <1>4, <2>1, <2>2 DEF Shape, UniqueParent
  <2>3. CASE child[c][d] \in toFree[t]
    <3>1. child[c][d] # tree
      BY <1>4, <2>1 DEF Shape, LiveOK
    <3>2. PICK p \in toFree[t], e \in Bit : child[p][e] = child[c][d]
      BY <1>1, <2>3, <3>1 DEF PathOK
    <3>3. p \in Node /\ st[p] = "live"
      BY <1>1, Types DEF PathOK
    <3> QED
      BY <1>4, <2>1, <3>2, <3>3 DEF Shape, UniqueParent
  <2> QED
    BY <2>2, <2>3
<1>15. PathOK(t)'
  <2>1. toFree'[t] = toFree[t] \cup {c} /\ runner'[t] = c
    BY <1>3, Types
  <2>2. \A m \in toFree'[t] : m \in Node /\ st[m] = "live" /\ st'[m] = "live"
                              /\ child'[m] = child[m]
    BY <1>1, <1>4, <1>5, <2>1, Types DEF PathOK
  <2>3. \A m \in toFree'[t] :
          m # tree => \E p \in toFree'[t], d \in Bit : child'[p][d] = m
    BY <1>1, <1>4, <2>1, <2>2 DEF PathOK
  <2> QED
    BY <1>1, <1>3, <1>14, <2>1, <2>2, <2>3 DEF PathOK
<1>16. CloneOK(t)'
  <2>1. /\ newRoot'[t] = newRoot[t] /\ newRunner'[t] = n
        /\ toFree'[t] = toFree[t] \cup {c} /\ runner'[t] = c
    BY <1>2, <1>3, Types
  <2>2. newRoot[t] \in Node /\ st[newRoot[t]] = "new" /\ newRoot[t] # n
    BY <1>1, <1>5 DEF CloneOK
  <2>3. c \notin {n, nr} /\ child'[c] = child[c]
    BY <1>4, <1>5
  <2>4. \A m \in Node, d \in Bit :
          st'[m] = "new" /\ child'[m][d] # NULL =>
            \/ /\ child'[m][d] \in Node /\ st'[child'[m][d]] = "new"
               /\ child'[m][d] # newRoot'[t]
            \/ /\ child'[m][d] \in Node /\ st'[child'[m][d]] = "live"
               /\ child'[m][d] \notin toFree'[t]
               /\ \E o \in toFree'[t] : child'[o][d] = child'[m][d]
    <3> SUFFICES ASSUME NEW m \in Node, NEW d \in Bit,
                        st'[m] = "new", child'[m][d] # NULL
                 PROVE  \/ /\ child'[m][d] \in Node /\ st'[child'[m][d]] = "new"
                           /\ child'[m][d] # newRoot'[t]
                        \/ /\ child'[m][d] \in Node /\ st'[child'[m][d]] = "live"
                           /\ child'[m][d] \notin toFree'[t]
                           /\ \E o \in toFree'[t] : child'[o][d] = child'[m][d]
      OBVIOUS
    <3>1. CASE m = n
      BY <1>4, <1>5, <1>14, <2>1, <2>3, <3>1, Types DEF Shape, LiveOK
    <3>2. CASE m = nr /\ d = b
      BY <1>5, <2>1, <2>2, <3>2
    <3>3. CASE m # n /\ ~(m = nr /\ d = b)
      <4>1. child'[m][d] = child[m][d] /\ st[m] = "new"
        BY <1>1, <1>5, <3>3
      <4>2. child[m][d] # c
        BY <1>1, <1>4, <3>3, <4>1 DEF CloneOK
      <4>3. \A o \in toFree[t] : child'[o] = child[o]
        BY <1>1, <1>4, <1>5, Types DEF PathOK
      <4> QED
        BY <1>1, <1>5, <2>1, <4>1, <4>2, <4>3 DEF CloneOK
    <3> QED
      BY <3>1, <3>2, <3>3
  <2>5. \A m1, m2 \in Node, b1, b2 \in Bit :
          /\ st'[m1] = "new" /\ st'[m2] = "new"
          /\ child'[m1][b1] = child'[m2][b2]
          /\ child'[m1][b1] # NULL
          => m1 = m2 /\ b1 = b2
    <3>1. ASSUME NEW m \in Node, NEW d \in Bit, NEW e \in Bit, st[m] = "new",
                 child[m][d] = child[c][e], child[c][e] # NULL
          PROVE  FALSE
      <4>1. Is(child[c][e], "live")
        BY <1>4, <3>1 DEF Shape, LiveOK
      <4>2. PICK o \in toFree[t] : child[o][d] = child[c][e]
        BY <1>1, <3>1, <4>1 DEF CloneOK
      <4>3. o \in Node /\ st[o] = "live"
        BY <1>1, Types DEF PathOK
      <4> QED
        BY <1>4, <3>1, <4>2, <4>3 DEF Shape, UniqueParent
    <3>2. \A d, e \in Bit : child[c][d] = child[c][e] /\ child[c][d] # NULL => d = e
      BY <1>4 DEF Shape, UniqueParent
    <3>3. \A d \in Bit : child[c][d] # n
      BY <1>4, <1>6
    <3>4. \A m \in Node, d \in Bit :
            st'[m] = "new" =>
              \/ m = n /\ child'[m][d] = child[c][d]
              \/ m = nr /\ d = b /\ child'[m][d] = n
              \/ m # n /\ st[m] = "new" /\ child'[m][d] = child[m][d]
                 /\ child[m][d] # n
      BY <1>5, <1>6
    <3> QED
      BY <1>1, <3>1, <3>2, <3>3, <3>4 DEF CloneOK
  <2>6. st'[newRoot[t]] = "new" /\ st'[n] = "new" /\ child'[n] = child'[c]
    BY <1>5, <2>2, <2>3
  <2> QED
    BY <2>1, <2>2, <2>4, <2>5, <2>6 DEF CloneOK
<1>17. WorkOK'
  BY <1>3, <1>7, <1>15, <1>16 DEF WorkOK
<1>18. HoldOK'
  BY <1>3, <1>a, Types DEF Shape, HoldOK
<1> QED
  BY <1>8, <1>9, <1>10, <1>11, <1>12, <1>13, <1>17, <1>18 DEF Shape

\* One turn of the loop that creates the rest of the path.
LEMMA CreateShape ==
  ASSUME TypeInv, Shape, NEW t \in Task, work_create(t)
  PROVE  Shape'
<1> DEFINE b == TaskBit(t)
           nr == newRunner[t]
<1>1. /\ tpc[t] \in {"clone", "create"} /\ PathOK(t) /\ CloneOK(t)
      /\ b \in Bit
  BY BitAtType DEF work_create, Shape, WorkOK, TaskBit
<1>2. PICK n \in Node \ alloc :
        /\ Allocate(n, NoMeta, "new")
        /\ child' = [child EXCEPT ![n] = NoChild, ![nr][b] = n]
        /\ newRunner' = [newRunner EXCEPT ![t] = n]
  BY DEF work_create, kmem_cache_zalloc, Parent
<1>3. /\ tpc' = [tpc EXCEPT ![t] = "create"]
      /\ toFree' = toFree /\ runner' = runner
      /\ lock' = lock /\ newRoot' = newRoot /\ tree' = tree
      /\ rpc' = rpc /\ rrunner' = rrunner /\ hold' = hold /\ cb' = cb /\ gp' = gp
      /\ hpc' = hpc /\ hnew' = hnew /\ hrunner' = hrunner /\ old' = old
      /\ waits' = waits /\ walk' = walk
  BY DEF work_create, readVars, histVars, rcuVars
<1> HIDE DEF b, nr
<1>4. nr \in Node /\ st[nr] = "new" /\ st[n] = "free" /\ n # nr
  BY <1>1, Types DEF Shape, LifeOK, CloneOK, nr
<1>5. /\ st'[n] = "new"
      /\ \A m \in Node : m # n => st'[m] = st[m]
      /\ \A m \in Node : m \notin {n, nr} => child'[m] = child[m]
      /\ \A d \in Bit : child'[n][d] = NULL
      /\ child'[nr][b] = n
      /\ \A d \in Bit : d # b => child'[nr][d] = child[nr][d]
      /\ alloc' = alloc \cup {n}
  <2>1. st'[n] = "new" /\ alloc' = alloc \cup {n}
        /\ \A m \in Node : m # n => st'[m] = st[m]
    BY <1>2, Types DEF Allocate
  <2>2. /\ \A m \in Node : m \notin {n, nr} => child'[m] = child[m]
        /\ child'[n] = NoChild
        /\ child'[nr][b] = n
        /\ \A d \in Bit : d # b => child'[nr][d] = child[nr][d]
    BY <1>1, <1>2, <1>4, Types
  <2> QED
    BY <2>1, <2>2 DEF NoChild
<1>6. /\ \A m \in Node : st[m] \notin {"free", "new"} =>
                           st'[m] = st[m] /\ child'[m] = child[m]
      /\ \A m \in Node : st'[m] # "new" => st[m] = st'[m]
  BY <1>4, <1>5
<1>7. \A m \in Node, d \in Bit : st[m] = "new" => child[m][d] # n
  BY <1>1, <1>4, Types DEF CloneOK
<1>8. /\ \A u \in Task : u # t => tpc[u] \notin {"clone", "create"}
                                  /\ tpc'[u] = tpc[u]
      /\ tpc'[t] = "create"
  BY <1>1, <1>3, Types DEF Shape, LockOK
<1>9. LifeOK' /\ LockOK'
  BY <1>1, <1>3, <1>4, <1>5, <1>8, Types DEF Shape, LifeOK, LockOK
<1>a. LiveOK'
  BY <1>3, <1>6, Types DEF Shape, LiveOK
<1>10. UniqueParent'
  BY <1>6, Types DEF Shape, UniqueParent
<1>11. HistOK'
  BY <1>3, <1>6, Types DEF Shape, HistOK
<1>b. DoomedOK'
  BY <1>3, <1>6, Types DEF Shape, DoomedOK
<1>12. ToFreeOK'
  BY <1>1, <1>3, <1>6, <1>8, Types DEF Shape, ToFreeOK, Retiring
<1>13. PathOK(t)'
  BY <1>1, <1>3, <1>6, Types DEF PathOK
<1>14. CloneOK(t)'
  <2>1. newRoot'[t] = newRoot[t] /\ newRunner'[t] = n
    BY <1>2, <1>3, Types
  <2>2. newRoot[t] \in Node /\ st[newRoot[t]] = "new" /\ newRoot[t] # n
    BY <1>1, <1>4 DEF CloneOK
  <2>3. \A m \in Node, d \in Bit :
          st'[m] = "new" /\ child'[m][d] # NULL =>
            \/ m = nr /\ d = b /\ child'[m][d] = n
            \/ m # n /\ st[m] = "new" /\ child'[m][d] = child[m][d]
               /\ child[m][d] # n
    BY <1>5, <1>7
  <2>4. \A o \in toFree[t] : child'[o] = child[o]
    BY <1>1, <1>6, Types DEF PathOK
  <2>5. \A m \in Node, d \in Bit :
          st'[m] = "new" /\ child'[m][d] # NULL =>
            \/ /\ child'[m][d] \in Node /\ st'[child'[m][d]] = "new"
               /\ child'[m][d] # newRoot'[t]
            \/ /\ child'[m][d] \in Node /\ st'[child'[m][d]] = "live"
               /\ child'[m][d] \notin toFree'[t]
               /\ \E o \in toFree'[t] : child'[o][d] = child'[m][d]
    BY <1>1, <1>3, <1>5, <2>1, <2>2, <2>3, <2>4 DEF CloneOK
  <2>6. \A m1, m2 \in Node, b1, b2 \in Bit :
          /\ st'[m1] = "new" /\ st'[m2] = "new"
          /\ child'[m1][b1] = child'[m2][b2]
          /\ child'[m1][b1] # NULL
          => m1 = m2 /\ b1 = b2
    BY <1>1, <2>3 DEF CloneOK
  <2> QED
    BY <1>5, <1>8, <2>1, <2>2, <2>5, <2>6 DEF CloneOK
<1>15. WorkOK'
  BY <1>8, <1>13, <1>14 DEF WorkOK
<1>16. HoldOK'
  BY <1>3, <1>6, Types DEF Shape, HoldOK
<1> QED
  BY <1>9, <1>a, <1>10, <1>11, <1>b, <1>12, <1>15, <1>16 DEF Shape

\* The clone becomes the trie.  No live node off the path points to the path,
\* because each node of the path but the root has its one parent there; and no
\* such node shares a child with a clone, because that child has its one parent
\* on the path.
LEMMA PublishShape ==
  ASSUME TypeInv, Shape, NEW t \in Task, work_publish(t)
  PROVE  Shape'
<1>1. tpc[t] \in {"clone", "create"} /\ PathOK(t) /\ CloneOK(t)
  BY DEF work_publish, Shape, WorkOK
<1>2. /\ tpc'[t] \in {"announce", "retire"}
      /\ \A u \in Task : u # t => tpc'[u] = tpc[u]
      /\ tree' = newRoot[t] /\ lock' = NULL
      /\ toFree' = toFree /\ child' = child /\ alloc' = alloc
      /\ rpc' = rpc /\ rrunner' = rrunner /\ hold' = hold /\ cb' = cb /\ gp' = gp
      /\ hpc' = hpc /\ hnew' = hnew /\ hrunner' = hrunner /\ old' = old
      /\ waits' = waits /\ walk' = walk
  BY Types DEF work_publish, mutex_unlock, readVars, histVars, rcuVars
<1>3. /\ \A m \in toFree[t] : m \in Node /\ st[m] = "live" /\ st'[m] = "retired"
      /\ \A m \in Node : st[m] = "new" => st'[m] = "live"
      /\ \A m \in Node : st[m] # "new" /\ m \notin toFree[t] => st'[m] = st[m]
  BY <1>1, Types DEF work_publish, PathOK
<1>4. \A u \in Task : u # t => tpc[u] \notin {"clone", "create"}
  BY <1>1, Types DEF Shape, LockOK
<1>5. newRoot[t] \in Node /\ st[newRoot[t]] = "new" /\ st'[newRoot[t]] = "live"
  BY <1>1, <1>3 DEF CloneOK
<1>6. ASSUME NEW m \in Node, NEW d \in Bit, st[m] = "live", m \notin toFree[t],
             child[m][d] # NULL
      PROVE  child[m][d] \notin toFree[t]
  <2> SUFFICES ASSUME child[m][d] \in toFree[t] PROVE FALSE
    OBVIOUS
  <2>1. child[m][d] # tree
    BY <1>6 DEF Shape, LiveOK
  <2>2. PICK p \in toFree[t], e \in Bit : child[p][e] = child[m][d]
    BY <1>1, <2>1 DEF PathOK
  <2> QED
    BY <1>3, <1>6, <2>2 DEF Shape, UniqueParent
<1>7. ASSUME NEW m \in Node, NEW d \in Bit, st[m] = "live", m \notin toFree[t],
             child[m][d] # NULL,
             NEW k \in Node, NEW e \in Bit, st[k] = "new"
      PROVE  child[k][e] # child[m][d]
  <2> SUFFICES ASSUME child[k][e] = child[m][d] PROVE FALSE
    OBVIOUS
  <2>1. Is(child[m][d], "live")
    BY <1>7 DEF Shape, LiveOK
  <2>2. PICK o \in toFree[t] : child[o][e] = child[m][d]
    BY <1>1, <1>7, <2>1 DEF CloneOK
  <2> QED
    BY <1>3, <1>7, <2>2 DEF Shape, UniqueParent
<1>8. LifeOK'
  BY <1>2, <1>3, Types DEF Shape, LifeOK
<1>9. LockOK'
  BY <1>2, <1>3, <1>4, Types DEF Shape, LockOK
<1>10. LiveOK'
  <2>1. ASSUME NEW m \in Node, NEW d \in Bit, st'[m] = "live", child[m][d] # NULL
        PROVE  child[m][d] \in Node /\ st'[child[m][d]] = "live"
               /\ child[m][d] # newRoot[t]
    <3>1. CASE st[m] = "new"
      BY <1>1, <1>3, <2>1, <3>1 DEF CloneOK
    <3>2. CASE st[m] # "new"
      <4>1. st[m] = "live" /\ m \notin toFree[t]
        BY <1>3, <2>1, <3>2
      <4>2. Is(child[m][d], "live") /\ child[m][d] \notin toFree[t]
        BY <1>6, <2>1, <4>1 DEF Shape, LiveOK
      <4> QED
        BY <1>3, <1>5, <4>2
    <3> QED
      BY <3>1, <3>2
  <2> QED
    BY <1>2, <1>5, <2>1 DEF LiveOK
<1>11. HistOK' /\ DoomedOK'
  <2>1. \A m \in Node : /\ st[m] \in {"hist", "doomed"} => st'[m] = st[m]
                        /\ st'[m] \in {"hist", "doomed"} => st'[m] = st[m]
    BY <1>3
  <2> QED
    BY <1>2, <2>1, Types DEF Shape, HistOK, DoomedOK
<1>12. UniqueParent'
  <2>1. ASSUME NEW m1 \in Node, NEW m2 \in Node, NEW b1 \in Bit, NEW b2 \in Bit,
               st'[m1] \in {"live", "hist", "doomed"},
               st'[m2] \in {"live", "hist", "doomed"},
               child[m1][b1] = child[m2][b2], child[m1][b1] # NULL
        PROVE  m1 = m2 /\ b1 = b2
    <3>1. \A m \in Node :
            st'[m] \in {"live", "hist", "doomed"} =>
              \/ st[m] = "new"
              \/ st[m] = "live" /\ m \notin toFree[t]
              \/ st[m] \in {"hist", "doomed"}
      BY <1>3
    <3>2. \A m \in Node, d \in Bit :
            /\ st[m] = "new" /\ child[m][d] # NULL =>
                 child[m][d] \in Node /\ st[child[m][d]] \in {"new", "live"}
            /\ st[m] \in {"hist", "doomed"} /\ child[m][d] # NULL =>
                 child[m][d] \in Node /\ st[child[m][d]] \in {"hist", "doomed"}
      BY <1>1 DEF CloneOK, Shape, HistOK, DoomedOK
    <3>3. CASE st[m1] = "new" /\ st[m2] = "new"
      BY <1>1, <2>1, <3>3 DEF CloneOK
    <3>4. CASE st[m1] # "new" /\ st[m2] # "new"
      BY <2>1, <3>1, <3>4 DEF Shape, UniqueParent
    <3>5. CASE st[m1] = "new" /\ st[m2] # "new"
      BY <1>7, <2>1, <3>1, <3>2, <3>5
    <3>6. CASE st[m1] # "new" /\ st[m2] = "new"
      BY <1>7, <2>1, <3>1, <3>2, <3>6
    <3> QED
      BY <3>3, <3>4, <3>5, <3>6
  <2> QED
    BY <1>2, <2>1 DEF UniqueParent
<1>13. ToFreeOK'
  <2>1. \A u \in Task : u \in Retiring' <=> u = t \/ u \in Retiring
    BY <1>2 DEF Retiring
  <2>2. \A u \in Retiring : \A m \in toFree[u] : m \in Node /\ st[m] = "retired"
    BY Types DEF Shape, ToFreeOK, Retiring
  <2>3. \A u \in Retiring' : \A m \in toFree[u] : st'[m] = "retired"
    BY <1>3, <2>1, <2>2 DEF Retiring
  <2>4. \A u, v \in Retiring' : u # v => toFree[u] \cap toFree[v] = {}
    <3>1. \A u \in Retiring : u # t => toFree[u] \cap toFree[t] = {}
      BY <1>3, <2>2
    <3> QED
      BY <2>1, <3>1 DEF Shape, ToFreeOK, Retiring
  <2>5. \A u \in Task : tpc'[u] \in {"none", "queued", "done"} => toFree[u] = {}
    BY <1>2 DEF Shape, ToFreeOK
  <2> QED
    BY <1>2, <2>3, <2>4, <2>5 DEF ToFreeOK
<1>14. WorkOK'
  BY <1>2, <1>4 DEF WorkOK
<1>15. HoldOK'
  <2>1. \A r \in Reader : \A m \in hold[r] :
          /\ st'[m] \in {"live", "retired", "cb", "doomed"}
          /\ st'[m] \in {"cb", "doomed"} => st'[m] = st[m]
    BY <1>3, Types DEF Shape, HoldOK
  <2> QED
    BY <1>2, <2>1 DEF Shape, HoldOK
<1> QED
  BY <1>8, <1>9, <1>10, <1>11, <1>12, <1>13, <1>14, <1>15 DEF Shape

LEMMA AnnounceShape ==
  ASSUME TypeInv, Shape, NEW t \in Task, work_announce(t)
  PROVE  Shape'
<1> USE DEF Shape, work_announce, heapVars, readVars, histVars, rcuVars, auxVars
<1>1. LifeOK' /\ LiveOK' /\ HistOK' /\ DoomedOK' /\ UniqueParent'
  BY DEF LifeOK, LiveOK, HistOK, DoomedOK, UniqueParent
<1>2. LockOK' /\ ToFreeOK'
  BY Types DEF LockOK, ToFreeOK, Retiring
<1>3. WorkOK'
  BY Types DEF WorkOK, PathOK, CloneOK
<1>4. HoldOK'
  BY DEF HoldOK
<1> QED
  BY <1>1, <1>2, <1>3, <1>4

\* call_rcu for one node: whoever holds it is in a read-side section.
LEMMA RetireShape ==
  ASSUME TypeInv, Shape, NEW t \in Task, work_retire(t)
  PROVE  Shape'
<1>1. PICK n \in toFree[t] :
        /\ cb' = cb \cup {n}
        /\ gp' = [gp EXCEPT ![n] = GracePeriod]
        /\ toFree' = [toFree EXCEPT ![t] = toFree[t] \ {n}]
        /\ st' = [st EXCEPT ![n] = "cb"]
  BY DEF work_retire
<1>2. t \in Retiring /\ tpc[t] = "retire"
  BY DEF work_retire, Retiring
<1>3. n \in Node /\ st[n] = "retired"
  BY <1>2, Types DEF Shape, ToFreeOK
<1>4. /\ tree' = tree /\ alloc' = alloc /\ child' = child /\ lock' = lock
      /\ tpc' = tpc /\ runner' = runner /\ newRoot' = newRoot
      /\ newRunner' = newRunner /\ rpc' = rpc /\ rrunner' = rrunner /\ hold' = hold
      /\ hpc' = hpc /\ hnew' = hnew /\ hrunner' = hrunner /\ old' = old
      /\ waits' = waits /\ walk' = walk
  BY DEF work_retire, heapVars, readVars, histVars
<1>5. /\ st'[n] = "cb"
      /\ \A m \in Node : m # n => st'[m] = st[m] /\ gp'[m] = gp[m]
      /\ gp'[n] = GracePeriod
      /\ \A u \in Task : u # t => toFree'[u] = toFree[u]
      /\ toFree'[t] = toFree[t] \ {n}
  BY <1>1, <1>3, Types
<1>6. LifeOK' /\ LockOK'
  BY <1>1, <1>3, <1>4, <1>5, Types DEF Shape, LifeOK, LockOK
<1>7. LiveOK'
  BY <1>3, <1>4, <1>5, Types DEF Shape, LiveOK
<1>8. HistOK'
  BY <1>3, <1>4, <1>5, Types DEF Shape, HistOK
<1>9. DoomedOK'
  BY <1>3, <1>4, <1>5, Types DEF Shape, DoomedOK
<1>10. UniqueParent'
  BY <1>3, <1>4, <1>5, Types DEF Shape, UniqueParent
<1>11. ToFreeOK'
  <2>1. Retiring' = Retiring
    BY <1>4 DEF Retiring
  <2>2. \A u \in Retiring : u # t => n \notin toFree[u]
    BY <1>2 DEF Shape, ToFreeOK
  <2>3. \A u \in Retiring : toFree'[u] \subseteq toFree[u] /\ n \notin toFree'[u]
    BY <1>5, <2>2 DEF Retiring
  <2>4. \A u \in Retiring : \A m \in toFree'[u] : st'[m] = "retired"
    BY <1>5, <2>3, Types DEF Shape, ToFreeOK, Retiring
  <2>5. \A u, v \in Retiring : u # v => toFree'[u] \cap toFree'[v] = {}
    BY <2>3 DEF Shape, ToFreeOK
  <2>6. \A u \in Task : tpc'[u] \in {"none", "queued", "done"} => toFree'[u] = {}
    BY <1>2, <1>4, <1>5 DEF Shape, ToFreeOK
  <2> QED
    BY <2>1, <2>4, <2>5, <2>6 DEF ToFreeOK
<1>12. WorkOK'
  <2> SUFFICES ASSUME NEW u \in Task, tpc[u] \in {"clone", "create"}
               PROVE  PathOK(u)' /\ CloneOK(u)'
    BY <1>4 DEF WorkOK
  <2>1. u # t /\ PathOK(u) /\ CloneOK(u) /\ toFree'[u] = toFree[u]
    BY <1>2, <1>5 DEF Shape, WorkOK
  <2>2. PathOK(u)'
    BY <1>3, <1>4, <1>5, <2>1, Types DEF PathOK
  <2>3. CloneOK(u)'
    BY <1>3, <1>4, <1>5, <2>1, Types DEF CloneOK
  <2> QED
    BY <2>2, <2>3
<1>13. HoldOK'
  <2>1. \A r \in Reader : n \in hold[r] => r \in gp'[n]
    BY <1>5, Types DEF Shape, HoldOK, GracePeriod, InSection
  <2> QED
    BY <1>3, <1>4, <1>5, <2>1, Types DEF Shape, HoldOK
<1> QED
  BY <1>6, <1>7, <1>8, <1>9, <1>10, <1>11, <1>12, <1>13 DEF Shape

LEMMA EndShape ==
  ASSUME TypeInv, Shape, NEW t \in Task, work_end(t)
  PROVE  Shape'
<1> USE DEF Shape, heapVars, readVars, histVars, rcuVars, auxVars
<1>1. LifeOK' /\ LiveOK' /\ HistOK' /\ DoomedOK' /\ UniqueParent'
  BY DEF LifeOK, LiveOK, HistOK, DoomedOK, UniqueParent, work_end
<1>2. LockOK' /\ ToFreeOK'
  BY Types DEF LockOK, ToFreeOK, Retiring, work_end
<1>3. WorkOK'
  <2> SUFFICES ASSUME NEW u \in Task, tpc'[u] \in {"clone", "create"}
               PROVE  PathOK(u)' /\ CloneOK(u)'
    BY DEF WorkOK
  <2>1. /\ u # t /\ tpc'[u] = tpc[u] /\ runner'[u] = runner[u]
        /\ newRoot'[u] = newRoot[u] /\ newRunner'[u] = newRunner[u]
        /\ tree' = tree /\ child' = child /\ st' = st /\ toFree' = toFree
    BY Types DEF work_end
  <2>2. PathOK(u) /\ CloneOK(u)
    BY <2>1 DEF WorkOK
  <2> QED
    BY <2>1, <2>2 DEF PathOK, CloneOK
<1>4. HoldOK'
  BY DEF HoldOK, work_end
<1> QED
  BY <1>1, <1>2, <1>3, <1>4

\* A path whose nodes are left alone is still one.
LEMMA PathKept ==
  ASSUME NEW u \in Task, PathOK(u), tree' = tree, toFree' = toFree, runner' = runner,
         \A o \in toFree[u] : st'[o] = st[o] /\ child'[o] = child[o]
  PROVE  PathOK(u)'
  BY DEF PathOK

\* A callback frees a node that no lookup holds any more.
LEMMA FreeRcuShape ==
  ASSUME TypeInv, Shape, NEW n \in cb, hcf_free_node_rcu(n)
  PROVE  Shape'
<1>1. n \in Node /\ st[n] = "cb"
  BY Types DEF Shape, LifeOK
<1>2. /\ tree' = tree /\ lock' = lock /\ toFree' = toFree
      /\ tpc' = tpc /\ runner' = runner /\ newRoot' = newRoot
      /\ newRunner' = newRunner /\ rpc' = rpc /\ rrunner' = rrunner /\ hold' = hold
      /\ hpc' = hpc /\ hnew' = hnew /\ hrunner' = hrunner /\ old' = old
      /\ waits' = waits /\ walk' = walk /\ gp' = gp /\ cb' = cb \ {n}
  BY DEF hcf_free_node_rcu, taskVars, readVars, histVars
<1>3. /\ st'[n] = "free"
      /\ \A m \in Node : m # n => st'[m] = st[m] /\ child'[m] = child[m]
      /\ alloc' = alloc \ {n}
  BY <1>1, Types DEF hcf_free_node_rcu, kmem_cache_free
<1>4. \A r \in Reader : n \notin hold[r]
  BY <1>1 DEF Shape, HoldOK, hcf_free_node_rcu
<1>5. LifeOK' /\ LockOK'
  BY <1>1, <1>2, <1>3, Types DEF Shape, LifeOK, LockOK
<1>6. LiveOK'
  BY <1>1, <1>2, <1>3, Types DEF Shape, LiveOK
<1>7. HistOK'
  BY <1>1, <1>2, <1>3, Types DEF Shape, HistOK
<1>8. DoomedOK'
  BY <1>1, <1>2, <1>3, Types DEF Shape, DoomedOK
<1>9. UniqueParent'
  BY <1>1, <1>2, <1>3, Types DEF Shape, UniqueParent
<1>10. ToFreeOK'
  BY <1>1, <1>2, <1>3, Types DEF Shape, ToFreeOK, Retiring
<1>11. WorkOK'
  <2> SUFFICES ASSUME NEW u \in Task, tpc[u] \in {"clone", "create"}
               PROVE  PathOK(u)' /\ CloneOK(u)'
    BY <1>2 DEF WorkOK
  <2>1. PathOK(u) /\ CloneOK(u)
    BY DEF Shape, WorkOK
  <2>2. PathOK(u)'
    <3>1. \A o \in toFree[u] : o # n /\ st'[o] = st[o] /\ child'[o] = child[o]
      BY <1>1, <1>3, <2>1, Types DEF PathOK
    <3> QED
      BY <1>2, <2>1, <3>1, PathKept
  <2>3. CloneOK(u)'
    <3>1. \A o \in toFree[u] : o # n /\ child'[o] = child[o]
      BY <1>1, <1>3, <2>1, Types DEF PathOK
    <3>2. runner[u] # n /\ child'[runner[u]] = child[runner[u]]
      BY <2>1, <3>1 DEF PathOK
    <3>3. \A m \in Node : (st'[m] = "new" <=> st[m] = "new")
                          /\ (st'[m] = "live" <=> st[m] = "live")
                          /\ (st[m] = "new" => child'[m] = child[m])
      BY <1>1, <1>3
    <3> QED
      BY <1>2, <2>1, <3>1, <3>2, <3>3 DEF CloneOK
  <2> QED
    BY <2>2, <2>3
<1>12. HoldOK'
  BY <1>2, <1>3, <1>4, Types DEF Shape, HoldOK
<1> QED
  BY <1>5, <1>6, <1>7, <1>8, <1>9, <1>10, <1>11, <1>12 DEF Shape

\* A lookup changes nothing but its own position and what is waited for.
LEMMA LookupFrame ==
  ASSUME TypeInv, Shape,
         UNCHANGED <<heapVars, lock, taskVars, cb, st, hpc, hnew, hrunner, old, walk>>
  PROVE  /\ LifeOK' /\ LockOK' /\ LiveOK' /\ HistOK' /\ DoomedOK' /\ UniqueParent'
         /\ ToFreeOK' /\ WorkOK'
<1> USE DEF Shape, heapVars, taskVars
<1>1. LifeOK' /\ LockOK' /\ LiveOK' /\ HistOK' /\ DoomedOK' /\ UniqueParent'
  BY DEF LifeOK, LockOK, LiveOK, HistOK, DoomedOK, UniqueParent
<1>2. ToFreeOK' /\ WorkOK'
  BY DEF ToFreeOK, Retiring, WorkOK, PathOK, CloneOK
<1> QED
  BY <1>1, <1>2

\* A lookup that starts holds the published trie; one that goes on stays in what
\* it holds; one that ends holds nothing.
LEMMA LookupShape ==
  ASSUME TypeInv, Shape, NEW r \in Reader
  PROVE  /\ \A ip \in Source, ttl \in Ttl : lookup_enter(r, ip, ttl) => Shape'
         /\ lookup_step(r) => Shape'
         /\ lookup_end(r) => Shape'
<1>1. ASSUME NEW ip \in Source, NEW ttl \in Ttl, lookup_enter(r, ip, ttl)
      PROVE  Shape'
  <2>1. /\ rpc'[r] = "walk" /\ rrunner'[r] = tree /\ hold'[r] = Live
        /\ \A q \in Reader : q # r => /\ rpc'[q] = rpc[q]
                                      /\ rrunner'[q] = rrunner[q]
                                      /\ hold'[q] = hold[q]
        /\ st' = st /\ child' = child /\ gp' = gp /\ hpc' = hpc /\ waits' = waits
    BY <1>1, Types DEF lookup_enter, heapVars, histVars, rcuVars
  <2>2. HoldOK'
    BY <2>1, Types DEF Shape, HoldOK, LiveOK, Live
  <2> QED
    BY <1>1, <2>2, LookupFrame DEF lookup_enter, histVars, rcuVars, Shape
<1>2. ASSUME lookup_step(r) PROVE Shape'
  <2> DEFINE b == BitAt(rip[r], rbits[r])
  <2>1. /\ b \in Bit /\ rpc[r] = "walk" /\ rrunner[r] # NULL
        /\ rrunner' = [rrunner EXCEPT ![r] = child[rrunner[r]][b]]
    BY <1>2, BitAtType DEF lookup_step
  <2> HIDE DEF b
  <2>2. /\ rrunner'[r] = child[rrunner[r]][b]
        /\ \A q \in Reader : q # r => rrunner'[q] = rrunner[q]
        /\ rpc' = rpc /\ hold' = hold
        /\ st' = st /\ child' = child /\ gp' = gp /\ hpc' = hpc /\ waits' = waits
    BY <1>2, <2>1, Types DEF lookup_step, heapVars, histVars, rcuVars, auxVars
  <2>3. rrunner'[r] \in hold[r] \cup {NULL}
    BY <2>1, <2>2 DEF Shape, HoldOK
  <2>4. HoldOK'
    BY <2>2, <2>3, Types DEF Shape, HoldOK
  <2> QED
    BY <1>2, <2>4, LookupFrame DEF lookup_step, histVars, rcuVars, auxVars, Shape
<1>3. ASSUME lookup_end(r) PROVE Shape'
  <2>1. /\ rpc'[r] = "out" /\ hold'[r] = {}
        /\ \A q \in Reader : q # r => /\ rpc'[q] = rpc[q]
                                      /\ rrunner'[q] = rrunner[q]
                                      /\ hold'[q] = hold[q]
        /\ \A n \in Node : gp'[n] = gp[n] \ {r}
        /\ waits' = waits \ {r}
        /\ st' = st /\ child' = child /\ hpc' = hpc
    BY <1>3, Types DEF lookup_end, rcu_read_unlock, heapVars
  <2>2. HoldOK'
    BY <2>1, Types DEF Shape, HoldOK
  <2> QED
    BY <1>3, <2>2, LookupFrame DEF lookup_end, Shape
<1> QED
  BY <1>1, <1>2, <1>3

\* The netlink handler allocates a node n, with no children, for its trie.
LEMMA HistoryBeginShape ==
  ASSUME TypeInv, Shape, NEW h \in History, history_begin(h)
  PROVE  Shape'
<1>1. PICK n \in Node \ alloc :
        /\ Allocate(n, NoMeta, "hist")
        /\ child' = [child EXCEPT ![n] = NoChild]
        /\ hnew' = n
        /\ hrunner' = n
  BY DEF history_begin, kmem_cache_zalloc
<1>2. /\ st[n] = "free" /\ st'[n] = "hist"
      /\ \A m \in Node : m # n => st'[m] = st[m] /\ child'[m] = child[m]
      /\ \A d \in Bit : child'[n][d] = NULL
      /\ alloc' = alloc \cup {n}
  BY <1>1, Types DEF Shape, LifeOK, Allocate, NoChild
<1>3. /\ hpc = "idle" /\ hpc' = "build"
      /\ tree' = tree /\ lock' = lock /\ toFree' = toFree
      /\ tpc' = tpc /\ runner' = runner /\ newRoot' = newRoot
      /\ newRunner' = newRunner /\ rpc' = rpc /\ rrunner' = rrunner /\ hold' = hold
      /\ waits' = waits /\ walk' = walk /\ gp' = gp /\ cb' = cb /\ old' = old
  BY DEF history_begin, taskVars, readVars, rcuVars
<1>4. LifeOK' /\ LockOK'
  BY <1>2, <1>3, Types DEF Shape, LifeOK, LockOK
<1>5. LiveOK'
  BY <1>2, <1>3, Types DEF Shape, LiveOK
<1>6. HistOK'
  BY <1>1, <1>2, <1>3, Types DEF Shape, HistOK
<1>7. DoomedOK'
  BY <1>2, <1>3, Types DEF Shape, DoomedOK
<1>8. UniqueParent'
  BY <1>2, Types DEF Shape, UniqueParent
<1>9. ToFreeOK'
  BY <1>2, <1>3, Types DEF Shape, ToFreeOK, Retiring
<1>10. WorkOK'
  <2> SUFFICES ASSUME NEW u \in Task, tpc[u] \in {"clone", "create"}
               PROVE  PathOK(u)' /\ CloneOK(u)'
    BY <1>3 DEF WorkOK
  <2>1. PathOK(u) /\ CloneOK(u)
    BY DEF Shape, WorkOK
  <2>2. PathOK(u)'
    <3>1. \A o \in toFree[u] : st'[o] = st[o] /\ child'[o] = child[o]
      BY <1>2, <2>1, Types DEF PathOK
    <3> QED
      BY <1>3, <2>1, <3>1, PathKept
  <2>3. CloneOK(u)'
    <3>1. \A o \in toFree[u] : child'[o] = child[o]
      BY <1>2, <2>1, Types DEF PathOK
    <3>2. child'[runner[u]] = child[runner[u]]
      BY <2>1, <3>1 DEF PathOK
    <3>3. \A m \in Node : (st'[m] = "new" <=> st[m] = "new")
                          /\ (st'[m] = "live" <=> st[m] = "live")
                          /\ (st[m] = "new" => child'[m] = child[m])
      BY <1>2
    <3> QED
      BY <1>3, <2>1, <3>1, <3>2, <3>3 DEF CloneOK
  <2> QED
    BY <2>2, <2>3
<1>11. HoldOK'
  BY <1>2, <1>3, Types DEF Shape, HoldOK
<1> QED
  BY <1>4, <1>5, <1>6, <1>7, <1>8, <1>9, <1>10, <1>11 DEF Shape

LEMMA HistoryCreateShape ==
  ASSUME TypeInv, Shape, history_create
  PROVE  Shape'
<1> DEFINE b == HistBit
<1>1. b \in Bit /\ hpc = "build" /\ hrunner \in Node /\ st[hrunner] = "hist"
      /\ hnew \in Node /\ st[hnew] = "hist"
  BY BitAtType DEF history_create, HistBit, Shape, HistOK
<1>2. PICK n \in Node \ alloc :
        /\ Allocate(n, NoMeta, "hist")
        /\ child' = [child EXCEPT ![n] = NoChild, ![hrunner][b] = n]
        /\ hrunner' = n
  BY DEF history_create, kmem_cache_zalloc
<1> HIDE DEF b
<1>3. st[n] = "free" /\ n # hrunner
  BY <1>1, Types DEF Shape, LifeOK
<1>4. /\ st'[n] = "hist" /\ alloc' = alloc \cup {n}
      /\ \A m \in Node : m # n => st'[m] = st[m]
      /\ \A m \in Node : m \notin {n, hrunner} => child'[m] = child[m]
      /\ \A d \in Bit : child'[n][d] = NULL
      /\ child'[hrunner][b] = n
      /\ \A d \in Bit : d # b => child'[hrunner][d] = child[hrunner][d]
  <2>1. st'[n] = "hist" /\ alloc' = alloc \cup {n}
        /\ \A m \in Node : m # n => st'[m] = st[m]
    BY <1>2, Types DEF Allocate
  <2>2. /\ \A m \in Node : m \notin {n, hrunner} => child'[m] = child[m]
        /\ child'[n] = NoChild
        /\ child'[hrunner][b] = n
        /\ \A d \in Bit : d # b => child'[hrunner][d] = child[hrunner][d]
    BY <1>1, <1>2, <1>3, Types
  <2> QED
    BY <2>1, <2>2 DEF NoChild
<1>5. /\ hpc' = hpc /\ hnew' = hnew
      /\ tree' = tree /\ lock' = lock /\ toFree' = toFree
      /\ tpc' = tpc /\ runner' = runner /\ newRoot' = newRoot
      /\ newRunner' = newRunner /\ rpc' = rpc /\ rrunner' = rrunner /\ hold' = hold
      /\ waits' = waits /\ walk' = walk /\ gp' = gp /\ cb' = cb /\ old' = old
  BY DEF history_create, taskVars, readVars, rcuVars
<1>6. /\ \A m \in Node : st[m] \notin {"free", "hist"} =>
                           st'[m] = st[m] /\ child'[m] = child[m]
      /\ \A m \in Node : st'[m] # "hist" => st[m] = st'[m]
  BY <1>1, <1>3, <1>4
<1>7. \A m \in Node, d \in Bit :
        st[m] \in {"live", "hist", "doomed"} => child[m][d] # n
  BY <1>3, Types DEF Shape, LiveOK, HistOK, DoomedOK
<1>8. LifeOK' /\ LockOK'
  BY <1>3, <1>4, <1>5, Types DEF Shape, LifeOK, LockOK
<1>9. LiveOK'
  BY <1>5, <1>6, Types DEF Shape, LiveOK
<1>10. HistOK'
  <2>1. \A m \in Node, d \in Bit :
          st'[m] = "hist" /\ child'[m][d] # NULL =>
            \/ m = hrunner /\ d = b /\ child'[m][d] = n
            \/ m # n /\ st[m] = "hist" /\ child'[m][d] = child[m][d]
    BY <1>4
  <2>2. st'[hnew] = "hist" /\ hnew # n
    BY <1>1, <1>3, <1>4
  <2>3. \A m \in Node, d \in Bit :
          st[m] = "hist" /\ child[m][d] # NULL =>
            /\ child[m][d] \in Node /\ st[child[m][d]] = "hist"
            /\ child[m][d] # hnew /\ child[m][d] # n
    BY <1>3 DEF Shape, HistOK
  <2>4. \A m \in Node, d \in Bit :
          st'[m] = "hist" /\ child'[m][d] # NULL =>
            /\ child'[m][d] \in Node /\ st'[child'[m][d]] = "hist"
            /\ child'[m][d] # hnew
    BY <1>4, <2>1, <2>2, <2>3
  <2> QED
    BY <1>1, <1>2, <1>4, <1>5, <2>2, <2>4 DEF HistOK
<1>11. DoomedOK'
  BY <1>5, <1>6, Types DEF Shape, DoomedOK
<1>12. UniqueParent'
  <2>1. \A m \in Node, d \in Bit :
          st'[m] \in {"live", "hist", "doomed"} /\ child'[m][d] # NULL =>
            \/ m = hrunner /\ d = b /\ child'[m][d] = n
            \/ /\ st[m] \in {"live", "hist", "doomed"}
               /\ child'[m][d] = child[m][d]
               /\ child[m][d] # n
    BY <1>4, <1>7
  <2>2. ASSUME NEW m1 \in Node, NEW m2 \in Node, NEW b1 \in Bit, NEW b2 \in Bit,
               st'[m1] \in {"live", "hist", "doomed"},
               st'[m2] \in {"live", "hist", "doomed"},
               child'[m1][b1] = child'[m2][b2], child'[m1][b1] # NULL
        PROVE  m1 = m2 /\ b1 = b2
    BY <2>1, <2>2 DEF Shape, UniqueParent
  <2> QED
    BY <2>2 DEF UniqueParent
<1>13. ToFreeOK'
  BY <1>5, <1>6, Types DEF Shape, ToFreeOK, Retiring
<1>14. WorkOK'
  <2> SUFFICES ASSUME NEW u \in Task, tpc[u] \in {"clone", "create"}
               PROVE  PathOK(u)' /\ CloneOK(u)'
    BY <1>5 DEF WorkOK
  <2>1. PathOK(u) /\ CloneOK(u)
    BY DEF Shape, WorkOK
  <2>2. PathOK(u)'
    BY <1>5, <1>6, <2>1, Types DEF PathOK
  <2>3. CloneOK(u)'
    <3>1. \A o \in toFree[u] : child'[o] = child[o]
      BY <1>6, <2>1, Types DEF PathOK
    <3>2. child'[runner[u]] = child[runner[u]]
      BY <2>1, <3>1 DEF PathOK
    <3>3. \A m \in Node : (st'[m] = "new" <=> st[m] = "new")
                          /\ (st'[m] = "live" <=> st[m] = "live")
                          /\ (st[m] = "new" => child'[m] = child[m])
      BY <1>6
    <3> QED
      BY <1>5, <2>1, <3>1, <3>2, <3>3 DEF CloneOK
  <2> QED
    BY <2>2, <2>3
<1>15. HoldOK'
  BY <1>5, <1>6, Types DEF Shape, HoldOK
<1> QED
  BY <1>8, <1>9, <1>10, <1>11, <1>12, <1>13, <1>14, <1>15 DEF Shape

\* The steps of the netlink handler that move hrunner only.
LEMMA HistoryMoveShape ==
  ASSUME TypeInv, Shape, history_descend \/ history_set
  PROVE  Shape'
<1>1. /\ tree' = tree /\ alloc' = alloc /\ child' = child /\ st' = st
      /\ lock' = lock /\ toFree' = toFree
      /\ tpc' = tpc /\ runner' = runner /\ newRoot' = newRoot
      /\ newRunner' = newRunner /\ rpc' = rpc /\ rrunner' = rrunner /\ hold' = hold
      /\ waits' = waits /\ walk' = walk /\ gp' = gp /\ cb' = cb /\ old' = old
      /\ hpc = "build" /\ hpc' = hpc /\ hnew' = hnew
  BY DEF history_descend, history_set, heapVars, taskVars, readVars, rcuVars, auxVars
<1>2. hrunner' \in Node /\ st[hrunner'] = "hist"
  <2>1. CASE history_descend
    <3>1. HistBit \in Bit
      BY BitAtType DEF HistBit
    <3>2. hrunner \in Node /\ st[hrunner] = "hist"
      BY <1>1 DEF Shape, HistOK
    <3> QED
      BY <2>1, <3>1, <3>2 DEF history_descend, Shape, HistOK
  <2>2. CASE history_set
    BY <1>1, <2>2 DEF history_set, Shape, HistOK
  <2> QED
    BY <2>1, <2>2
<1>3. LifeOK' /\ LockOK' /\ LiveOK' /\ DoomedOK' /\ UniqueParent' /\ ToFreeOK'
  BY <1>1 DEF Shape, LifeOK, LockOK, LiveOK, DoomedOK, UniqueParent, ToFreeOK,
     Retiring
<1>4. HistOK'
  BY <1>1, <1>2 DEF Shape, HistOK
<1>5. WorkOK' /\ HoldOK'
  BY <1>1 DEF Shape, WorkOK, PathOK, CloneOK, HoldOK
<1> QED
  BY <1>3, <1>4, <1>5 DEF Shape

\* The whole trie is taken out and the new one put in its place.
LEMMA SwapShape ==
  ASSUME TypeInv, Shape, swap_tree
  PROVE  Shape'
<1>1. /\ alloc' = alloc /\ child' = child /\ lock' = lock /\ toFree' = toFree
      /\ tpc' = tpc /\ rpc' = rpc /\ rrunner' = rrunner /\ hold' = hold
      /\ waits' = waits /\ walk' = walk /\ gp' = gp /\ cb' = cb
      /\ hpc = "build" /\ hpc' = "swapped" /\ old' = tree /\ tree' = hnew
      /\ lock = NULL
  BY DEF swap_tree, swap_unlock, mutex_lock, taskVars, readVars, rcuVars
<1>2. /\ \A m \in Node : st[m] = "live" => st'[m] = "doomed"
      /\ \A m \in Node : st[m] = "hist" => st'[m] = "live"
      /\ \A m \in Node : st[m] \notin {"live", "hist"} => st'[m] = st[m]
  BY DEF swap_tree, swap_unlock
<1>3. /\ \A u \in Task : tpc[u] \notin {"clone", "create"}
      /\ \A m \in Node : st[m] # "new"
  BY <1>1, Types DEF Shape, LockOK
<1>4. LifeOK'
  BY <1>1, <1>2, Types DEF Shape, LifeOK
<1>5. LockOK'
  BY <1>1, <1>2, <1>3, Types DEF Shape, LockOK
<1>6. LiveOK'
  <2>1. \A m \in Node : st'[m] = "live" => st[m] = "hist"
    BY <1>2
  <2> QED
    BY <1>1, <1>2, <2>1 DEF Shape, HistOK, LiveOK
<1>7. HistOK'
  <2>1. \A m \in Node : st'[m] # "hist"
    BY <1>2
  <2> QED
    BY <1>1, <2>1 DEF HistOK
<1>8. DoomedOK'
  <2>1. \A m \in Node : st'[m] = "doomed" => st[m] \in {"live", "doomed"}
    BY <1>2
  <2>2. tree \in Node /\ st[tree] = "live" /\ st'[tree] = "doomed"
    BY <1>2, Types DEF Shape, LiveOK
  <2>3. \A m \in walk : m \in Node /\ st[m] = "doomed" /\ st'[m] = "doomed"
    BY <1>2, Types DEF Shape, DoomedOK
  <2>4. ASSUME NEW m \in Node, NEW d \in Bit, st'[m] = "doomed", child[m][d] # NULL
        PROVE  /\ child[m][d] \in Node /\ st'[child[m][d]] = "doomed"
               /\ child[m][d] \notin walk /\ child[m][d] # tree
    <3>1. CASE st[m] = "live"
      BY <1>2, <2>3, <2>4, <3>1 DEF Shape, LiveOK
    <3>2. CASE st[m] = "doomed"
      BY <1>2, <2>2, <2>4, <3>2 DEF Shape, DoomedOK
    <3> QED
      BY <2>1, <2>4, <3>1, <3>2
  <2> QED
    BY <1>1, <2>2, <2>3, <2>4 DEF DoomedOK
<1>9. UniqueParent'
  <2>1. \A m \in Node : st'[m] \in {"live", "hist", "doomed"} =>
                          st[m] \in {"live", "hist", "doomed"}
    BY <1>2
  <2> QED
    BY <1>1, <2>1 DEF Shape, UniqueParent
<1>10. ToFreeOK'
  BY <1>1, <1>2, Types DEF Shape, ToFreeOK, Retiring
<1>11. WorkOK'
  BY <1>1, <1>3 DEF WorkOK
<1>12. HoldOK'
  <2>1. \A r \in Reader : \A m \in hold[r] :
          /\ st'[m] \in {"retired", "cb", "doomed"}
          /\ st'[m] = "cb" => st[m] = "cb"
    BY <1>2, Types DEF Shape, HoldOK
  <2> QED
    BY <1>1, <2>1 DEF Shape, HoldOK
<1> QED
  BY <1>4, <1>5, <1>6, <1>7, <1>8, <1>9, <1>10, <1>11, <1>12 DEF Shape

\* synchronize_rcu starts, ends, and the handler ends: the heap does not change.
LEMMA SyncShape ==
  ASSUME TypeInv, Shape, swap_sync \/ swap_synced \/ history_end
  PROVE  Shape'
<1>1. /\ tree' = tree /\ alloc' = alloc /\ child' = child /\ st' = st
      /\ lock' = lock /\ toFree' = toFree
      /\ tpc' = tpc /\ runner' = runner /\ newRoot' = newRoot
      /\ newRunner' = newRunner /\ rpc' = rpc /\ rrunner' = rrunner /\ hold' = hold
      /\ gp' = gp /\ cb' = cb
      /\ hpc # "build" /\ hpc' # "build"
  BY DEF swap_sync, swap_synced, history_end, heapVars, taskVars, readVars, rcuVars,
     auxVars
<1>2. LifeOK' /\ LockOK' /\ LiveOK' /\ UniqueParent' /\ ToFreeOK' /\ WorkOK'
  BY <1>1 DEF Shape, LifeOK, LockOK, LiveOK, UniqueParent, ToFreeOK, Retiring,
     WorkOK, PathOK, CloneOK
<1>3. HistOK'
  <2>1. \A n \in Node : st[n] # "hist"
    BY <1>1 DEF Shape, HistOK
  <2> QED
    BY <1>1, <2>1 DEF HistOK
<1>4. CASE swap_sync
  <2>1. hpc = "swapped" /\ hpc' = "sync" /\ waits' = InSection
        /\ old' = old /\ walk' = walk
    BY <1>4 DEF swap_sync, GracePeriod
  <2>2. DoomedOK'
    BY <1>1, <2>1 DEF Shape, DoomedOK
  <2>3. \A r \in Reader : hold[r] # {} => r \in waits'
    BY <2>1, Types DEF Shape, HoldOK, InSection
  <2>4. HoldOK'
    BY <1>1, <2>1, <2>3 DEF Shape, HoldOK
  <2> QED
    BY <1>2, <1>3, <2>2, <2>4 DEF Shape
<1>5. CASE swap_synced
  <2>1. hpc = "sync" /\ hpc' = "free" /\ waits = {} /\ waits' = {}
        /\ walk' = {old} /\ old' = old
    BY <1>5 DEF swap_synced
  <2>2. DoomedOK'
    BY <1>1, <2>1 DEF Shape, DoomedOK
  <2>3. HoldOK'
    BY <1>1, <2>1 DEF Shape, HoldOK
  <2> QED
    BY <1>2, <1>3, <2>2, <2>3 DEF Shape
<1>6. CASE history_end
  <2>1. hpc = "free" /\ hpc' = "idle" /\ waits' = waits /\ walk' = walk
    BY <1>6 DEF history_end
  <2>2. DoomedOK'
    BY <1>1, <2>1 DEF Shape, DoomedOK
  <2>3. HoldOK'
    BY <1>1, <2>1 DEF Shape, HoldOK
  <2> QED
    BY <1>2, <1>3, <2>2, <2>3 DEF Shape
<1> QED
  BY <1>4, <1>5, <1>6

\* One call of the recursive free.  The children of the freed node have no other
\* parent, so nothing that is still to be freed points to them.
LEMMA FreeNodeShape ==
  ASSUME TypeInv, Shape, NEW n \in walk, hcf_free_node(n)
  PROVE  Shape'
<1>1. n \in Node /\ st[n] = "doomed" /\ hpc = "free"
  BY Types DEF Shape, DoomedOK, hcf_free_node
<1>2. /\ tree' = tree /\ lock' = lock /\ toFree' = toFree
      /\ tpc' = tpc /\ runner' = runner /\ newRoot' = newRoot
      /\ newRunner' = newRunner /\ rpc' = rpc /\ rrunner' = rrunner /\ hold' = hold
      /\ hpc' = hpc /\ hnew' = hnew /\ hrunner' = hrunner /\ old' = old
      /\ waits' = waits /\ gp' = gp /\ cb' = cb
      /\ walk' = (walk \ {n}) \cup ({child[n][0], child[n][1]} \ {NULL})
  BY DEF hcf_free_node, taskVars, readVars, rcuVars
<1>3. /\ st'[n] = "free"
      /\ \A m \in Node : m # n => st'[m] = st[m] /\ child'[m] = child[m]
      /\ alloc' = alloc \ {n}
  BY <1>1, Types DEF hcf_free_node, kmem_cache_free
<1>4. \A r \in Reader : n \notin hold[r]
  BY <1>1 DEF Shape, HoldOK
<1>5. LifeOK' /\ LockOK'
  BY <1>1, <1>2, <1>3, Types DEF Shape, LifeOK, LockOK
<1>6. LiveOK'
  BY <1>1, <1>2, <1>3, Types DEF Shape, LiveOK
<1>7. HistOK'
  BY <1>1, <1>2, <1>3, Types DEF Shape, HistOK
<1>8. DoomedOK'
  <2>1. \A m \in walk' : m \in Node /\ m # n /\ st[m] = "doomed"
    <3>1. \A m \in walk : m \in Node /\ st[m] = "doomed"
      BY Types DEF Shape, DoomedOK
    <3>2. \A d \in Bit : child[n][d] # NULL =>
            child[n][d] \in Node /\ child[n][d] # n /\ st[child[n][d]] = "doomed"
      BY <1>1 DEF Shape, DoomedOK
    <3> QED
      BY <1>2, <3>1, <3>2
  <2>2. ASSUME NEW m \in Node, NEW d \in Bit, m # n, st[m] = "doomed",
               child[m][d] # NULL
        PROVE  /\ child[m][d] \in Node /\ st[child[m][d]] = "doomed"
               /\ child[m][d] # n /\ child[m][d] \notin walk'
    <3>1. child[m][d] \in Node /\ st[child[m][d]] = "doomed" /\ child[m][d] \notin walk
      BY <2>2 DEF Shape, DoomedOK
    <3>2. \A e \in Bit : child[m][d] # child[n][e]
      BY <1>1, <2>2 DEF Shape, UniqueParent
    <3> QED
      BY <1>2, <3>1, <3>2
  <2> QED
    BY <1>1, <1>2, <1>3, <2>1, <2>2 DEF DoomedOK
<1>9. UniqueParent'
  BY <1>1, <1>2, <1>3, Types DEF Shape, UniqueParent
<1>10. ToFreeOK'
  BY <1>1, <1>2, <1>3, Types DEF Shape, ToFreeOK, Retiring
<1>11. WorkOK'
  <2> SUFFICES ASSUME NEW u \in Task, tpc[u] \in {"clone", "create"}
               PROVE  PathOK(u)' /\ CloneOK(u)'
    BY <1>2 DEF WorkOK
  <2>1. PathOK(u) /\ CloneOK(u)
    BY DEF Shape, WorkOK
  <2>2. PathOK(u)'
    <3>1. \A o \in toFree[u] : o # n /\ st'[o] = st[o] /\ child'[o] = child[o]
      BY <1>1, <1>3, <2>1, Types DEF PathOK
    <3> QED
      BY <1>2, <2>1, <3>1, PathKept
  <2>3. CloneOK(u)'
    <3>1. \A o \in toFree[u] : o # n /\ child'[o] = child[o]
      BY <1>1, <1>3, <2>1, Types DEF PathOK
    <3>2. runner[u] # n /\ child'[runner[u]] = child[runner[u]]
      BY <2>1, <3>1 DEF PathOK
    <3>3. \A m \in Node : (st'[m] = "new" <=> st[m] = "new")
                          /\ (st'[m] = "live" <=> st[m] = "live")
                          /\ (st[m] = "new" => child'[m] = child[m])
      BY <1>1, <1>3
    <3> QED
      BY <1>2, <2>1, <3>1, <3>2, <3>3 DEF CloneOK
  <2> QED
    BY <2>2, <2>3
<1>12. HoldOK'
  BY <1>2, <1>3, <1>4, Types DEF Shape, HoldOK
<1> QED
  BY <1>5, <1>6, <1>7, <1>8, <1>9, <1>10, <1>11, <1>12 DEF Shape

LEMMA StutterShape ==
  ASSUME Shape, UNCHANGED vars
  PROVE  Shape'
<1> USE DEF Shape, vars, heapVars, taskVars, readVars, histVars, rcuVars, auxVars
<1>1. LifeOK' /\ LockOK' /\ LiveOK' /\ HistOK' /\ DoomedOK' /\ UniqueParent'
  BY DEF LifeOK, LockOK, LiveOK, HistOK, DoomedOK, UniqueParent
<1>2. ToFreeOK' /\ WorkOK' /\ HoldOK'
  BY DEF ToFreeOK, Retiring, WorkOK, PathOK, CloneOK, HoldOK
<1> QED
  BY <1>1, <1>2

LEMMA InvStep == Inv /\ [Next]_vars => Inv'
<1> SUFFICES ASSUME Inv, [Next]_vars PROVE Inv'
  OBVIOUS
<1>0. TypeInv /\ Shape
  BY DEF Inv, Shape
<1>1. ASSUME NEW t \in Task, WorkStep(t) PROVE Shape'
  BY <1>0, <1>1, CloneRootShape, CloneShape, CreateShape, PublishShape,
     AnnounceShape, RetireShape, EndShape DEF WorkStep
<1>2. ASSUME HistoryStep PROVE Shape'
  <2>1. CASE history_descend \/ history_set
    BY <1>0, <2>1, HistoryMoveShape
  <2>2. CASE swap_sync \/ swap_synced \/ history_end
    BY <1>0, <2>2, SyncShape
  <2>3. CASE history_create
    BY <1>0, <2>3, HistoryCreateShape
  <2>4. CASE swap_tree
    BY <1>0, <2>4, SwapShape
  <2>5. CASE \E n \in walk : hcf_free_node(n)
    BY <1>0, <2>5, FreeNodeShape
  <2> QED
    BY <1>2, <2>1, <2>2, <2>3, <2>4, <2>5 DEF HistoryStep
<1>a. ASSUME NEW r \in Reader, LookupStep(r) PROVE Shape'
  BY <1>0, <1>a, LookupShape DEF LookupStep
<1>b. ASSUME NEW r \in Reader, NEW ip \in Source, NEW ttl \in Ttl,
             lookup_enter(r, ip, ttl)
      PROVE  Shape'
  BY <1>0, <1>b, LookupShape
<1>c. ASSUME NEW t \in Task, NEW ip \in Source, NEW ttl \in Ttl,
             hcf_register_ip(t, ip, ttl)
      PROVE  Shape'
  BY <1>0, <1>c, RegisterShape
<1>d. ASSUME NEW h \in History, history_begin(h) PROVE Shape'
  BY <1>0, <1>d, HistoryBeginShape
<1>e. ASSUME NEW n \in cb, hcf_free_node_rcu(n) PROVE Shape'
  BY <1>0, <1>e, FreeRcuShape
<1>f. ASSUME UNCHANGED vars PROVE Shape'
  BY <1>0, <1>f, StutterShape
<1>3. Shape'
  BY <1>1, <1>2, <1>a, <1>b, <1>c, <1>d, <1>e, <1>f DEF Next
<1>4. TypeInv'
  BY <1>0, TypeStep
<1> QED
  BY <1>3, <1>4 DEF Inv, Shape

\* The heap keeps its shape in every reachable state: lookups, work items, the
\* netlink handler and the RCU callbacks of hcf.c never break what the others
\* rely on.
THEOREM Inductive == Spec => []Inv
<1>1. Init => Inv
  BY InitType, InitShape DEF Inv, Shape
<1> QED
  BY <1>1, InvStep, PTL DEF Spec

\* No lookup of hcf_lookup_tree is ever at a node that was freed or is being
\* built, however learning, replacing the trie and freeing interleave.
THEOREM LookupsAreSafe == Spec => []ReaderSafe
<1>1. Inv => ReaderSafe
  BY Types DEF Inv, HoldOK, LifeOK, ReaderSafe, Published
<1> QED
  BY <1>1, Inductive, PTL

\* What a step may do to node m.
Untouched(m) == m \in alloc' => child'[m] = child[m] /\ meta'[m] = meta[m]

\* No step writes to a node that lookups may be at: those that write do it to a
\* node under construction.
LEMMA StepWrites ==
  ASSUME Inv, [Next]_vars, NEW m \in Published
  PROVE  Untouched(m)
<1>0. /\ m \in Node /\ st[m] \notin {"free", "new", "hist"} /\ m \in alloc
      /\ TypeInv /\ Shape /\ meta \in [Node -> Meta]
  BY DEF Inv, Shape, LifeOK, Published, TypeInv, TypeOK, Meta
<1>1. ASSUME NEW t \in Task, WorkStep(t) PROVE Untouched(m)
  <2>1. CASE work_clone_root(t)
    <3>1. PICK n \in Node \ alloc :
            Allocate(n, meta[tree], "new") /\ child' = [child EXCEPT ![n] = child[tree]]
      BY <2>1 DEF work_clone_root, kmem_cache_zalloc
    <3> QED
      BY <1>0, <3>1, Types DEF Allocate, Untouched
  <2>2. CASE work_clone(t)
    <3> DEFINE b == TaskBit(t)
               c == child[runner[t]][b]
    <3>1. newRunner[t] \in Node /\ st[newRunner[t]] = "new"
      BY <1>0, <2>2 DEF work_clone, Shape, WorkOK, CloneOK
    <3>2. PICK n \in Node \ alloc :
            /\ Allocate(n, meta[c], "new")
            /\ child' = [child EXCEPT ![n] = child[c], ![newRunner[t]][b] = n]
      BY <2>2 DEF work_clone, kmem_cache_zalloc, Parent
    <3> HIDE DEF b, c
    <3>3. m # n /\ m # newRunner[t]
      BY <1>0, <3>1
    <3> QED
      BY <1>0, <3>2, <3>3, Types DEF Allocate, Untouched
  <2>3. CASE work_create(t)
    <3> DEFINE b == TaskBit(t)
    <3>1. newRunner[t] \in Node /\ st[newRunner[t]] = "new"
      BY <1>0, <2>3 DEF work_create, Shape, WorkOK, CloneOK
    <3>2. PICK n \in Node \ alloc :
            /\ Allocate(n, NoMeta, "new")
            /\ child' = [child EXCEPT ![n] = NoChild, ![newRunner[t]][b] = n]
      BY <2>3 DEF work_create, kmem_cache_zalloc, Parent
    <3> HIDE DEF b
    <3>3. m # n /\ m # newRunner[t]
      BY <1>0, <3>1
    <3> QED
      BY <1>0, <3>2, <3>3, Types DEF Allocate, Untouched
  <2>4. CASE work_publish(t)
    <3>1. newRunner[t] \in Node /\ st[newRunner[t]] = "new"
      BY <1>0, <2>4 DEF work_publish, Shape, WorkOK, CloneOK
    <3> QED
      BY <1>0, <2>4, <3>1 DEF work_publish, Untouched
  <2>5. CASE work_announce(t) \/ work_retire(t) \/ work_end(t)
    BY <2>5 DEF work_announce, work_retire, work_end, heapVars, Untouched
  <2> QED
    BY <1>1, <2>1, <2>2, <2>3, <2>4, <2>5 DEF WorkStep
<1>2. ASSUME HistoryStep PROVE Untouched(m)
  <2>1. CASE history_create
    <3> DEFINE b == HistBit
    <3>1. hrunner \in Node /\ st[hrunner] = "hist"
      BY <1>0, <2>1 DEF history_create, Shape, HistOK
    <3>2. PICK n \in Node \ alloc :
            /\ Allocate(n, NoMeta, "hist")
            /\ child' = [child EXCEPT ![n] = NoChild, ![hrunner][b] = n]
      BY <2>1 DEF history_create, kmem_cache_zalloc
    <3> HIDE DEF b
    <3>3. m # n /\ m # hrunner
      BY <1>0, <3>1
    <3> QED
      BY <1>0, <3>2, <3>3, Types DEF Allocate, Untouched
  <2>2. CASE history_set
    BY <1>0, <2>2 DEF history_set, Shape, HistOK, Untouched
  <2>3. CASE history_descend \/ swap_tree \/ swap_sync \/ swap_synced \/ history_end
    BY <2>3 DEF history_descend, swap_tree, swap_unlock, swap_sync, swap_synced, history_end,
       heapVars, Untouched
  <2>4. CASE \E n \in walk : hcf_free_node(n)
    BY <1>0, <2>4, Types DEF hcf_free_node, kmem_cache_free, Untouched
  <2> QED
    BY <1>2, <2>1, <2>2, <2>3, <2>4 DEF HistoryStep
<1>3. ASSUME NEW h \in History, history_begin(h) PROVE Untouched(m)
  <2>1. PICK n \in Node \ alloc :
          Allocate(n, NoMeta, "hist") /\ child' = [child EXCEPT ![n] = NoChild]
    BY <1>3 DEF history_begin, kmem_cache_zalloc
  <2> QED
    BY <1>0, <2>1, Types DEF Allocate, Untouched
<1>4. ASSUME NEW n \in cb, hcf_free_node_rcu(n) PROVE Untouched(m)
  BY <1>0, <1>4, Types DEF hcf_free_node_rcu, kmem_cache_free, Untouched
<1>5. ASSUME NEW r \in Reader, LookupStep(r) PROVE Untouched(m)
  BY <1>5 DEF LookupStep, lookup_step, lookup_end, heapVars, Untouched
<1>6. ASSUME NEW r \in Reader, NEW ip \in Source, NEW ttl \in Ttl,
             lookup_enter(r, ip, ttl)
      PROVE  Untouched(m)
  BY <1>6 DEF lookup_enter, heapVars, Untouched
<1>7. ASSUME NEW t \in Task, NEW ip \in Source, NEW ttl \in Ttl,
             hcf_register_ip(t, ip, ttl)
      PROVE  Untouched(m)
  BY <1>7 DEF hcf_register_ip, heapVars, Untouched
<1>8. ASSUME UNCHANGED vars PROVE Untouched(m)
  BY <1>8 DEF vars, heapVars, Untouched
<1> QED
  BY <1>1, <1>2, <1>3, <1>4, <1>5, <1>6, <1>7, <1>8 DEF Next

\* A node that lookups may be at keeps its children and its hop count until it
\* is freed: every write of hcf_register_ip_work and of
\* hcf_register_ip_history goes to a node that is not published yet.
THEOREM NoWritesToPublished == Spec => PublishedImmutable
<1> DEFINE Step == \A n \in Published : n \in alloc' =>
                     child'[n] = child[n] /\ meta'[n] = meta[n]
<1>1. Inv /\ [Next]_vars => Step
  BY StepWrites DEF Untouched
<1>2. Inv /\ [Next]_vars => [Step]_vars
  BY <1>1
<1> QED
  BY <1>2, Inductive, PTL DEF Spec, PublishedImmutable

=============================================================================
