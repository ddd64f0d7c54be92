--------------------------- MODULE HcfTreeOwners ---------------------------
(***************************************************************************)
(* Who owns a node of the hop-count trie, for every number of address bits, *)
(* every set of nodes, tasks and readers and every allocator: nobody frees  *)
(* a node twice or one that another thread uses, and none is lost.          *)
(***************************************************************************)
EXTENDS HcfTreeProofs, WellFoundedInduction

USE BitsAssumption, NullAssumption DEF RootLvl, LeafLvl, NodeOrNull, Bit, Is

-----------------------------------------------------------------------------
(* Iteration.                                                              *)

\* A set of natural numbers has a smallest element: what the provers need for
\* induction.
LEMMA Smallest ==
  ASSUME NEW T, T \subseteq Nat, T # {}
  PROVE  \E x \in T : \A y \in T : x <= y
<1>1. PICK x \in T : \A y \in T : ~(<<y, x>> \in OpToRel(<, Nat))
  BY NatLessThanWellFounded, WFMin, Zenon
<1>2. \A y \in T : ~(y < x)
  BY <1>1, Zenon DEF OpToRel
<1>. QED
  BY <1>2

\* g[i] is what i turns of F make of s.
IsIteration(g, S, s, F, N) ==
  /\ g \in [0..N -> S]
  /\ g[0] = s
  /\ \A i \in 1..N : g[i] = F[g[i - 1]]

\* A function can be iterated any number of times.
LEMMA Iterates ==
  ASSUME NEW S, NEW s \in S, NEW F \in [S -> S], NEW N \in Nat
  PROVE  \E g : IsIteration(g, S, s, F, N)
<1>. DEFINE Upto(n) == \E g : IsIteration(g, S, s, F, n)
            Bad == {n \in Nat : ~Upto(n)}
<1>1. SUFFICES ASSUME Bad # {} PROVE FALSE
  OBVIOUS
<1>2. PICK n \in Bad : \A m \in Bad : n <= m
  <2>1. Bad \subseteq Nat
    OBVIOUS
  <2>. HIDE DEF Bad
  <2>. QED
    BY <1>1, <2>1, Smallest
<1>3. n # 0
  <2>1. Upto(0)
    <3>. DEFINE g == [i \in 0..0 |-> s]
    <3>1. IsIteration(g, S, s, F, 0)
      BY DEF IsIteration
    <3>. QED
      BY <3>1
  <2>. QED
    BY <2>1
<1>4. Upto(n - 1) /\ n - 1 \in Nat
  <2>1. n - 1 \in Nat /\ ~(n <= n - 1)
    BY <1>3
  <2>2. n - 1 \notin Bad
    BY <1>2, <2>1
  <2>. QED
    BY <2>1, <2>2
<1>5. PICK g : IsIteration(g, S, s, F, n - 1)
  BY <1>4
<1>. DEFINE h == [i \in 0..n |-> IF i = n THEN F[g[n - 1]] ELSE g[i]]
<1>6. h \in [0..n -> S] /\ h[0] = s
  BY <1>3, <1>4, <1>5 DEF IsIteration
<1>7. ASSUME NEW i \in 1..n PROVE h[i] = F[h[i - 1]]
  BY <1>4, <1>5 DEF IsIteration
<1>8. Upto(n)
  BY <1>6, <1>7 DEF IsIteration
<1>. QED
  BY <1>8

-----------------------------------------------------------------------------
(* Reach.                                                                  *)

Depth == RootLvl - LeafLvl

\* The children of a set of nodes.
Below(X) == {child[n][b] : n \in X, b \in {0, 1}} \ {NULL}

\* Reach is what Depth turns of the recursion give.
LEMMA ReachIterates ==
  ASSUME TypeOK, NEW S \in SUBSET NodeOrNull
  PROVE  \E g \in [0..Depth -> SUBSET Node] :
           /\ g[0] = S \ {NULL}
           /\ \A i \in 1..Depth : g[i] = g[i - 1] \cup Below(g[i - 1])
           /\ Reach(S) = g[Depth]
<1>. DEFINE F == [X \in SUBSET Node |-> X \cup Below(X)]
            Def(R) == [i \in 0..Depth |->
                         IF i = 0 THEN S \ {NULL}
                         ELSE R[i - 1] \cup
                                ({child[n][b] : n \in R[i - 1], b \in {0, 1}} \ {NULL})]
<1>1. Depth \in Nat
  BY DEF Depth
<1>2. F \in [SUBSET Node -> SUBSET Node]
  <2>1. child \in [Node -> [{0, 1} -> NodeOrNull]]
    BY DEF TypeOK
  <2>. QED
    BY <2>1 DEF Below
<1>3. S \ {NULL} \in SUBSET Node
  OBVIOUS
<1>4. PICK g \in [0..Depth -> SUBSET Node] :
         g[0] = S \ {NULL} /\ \A i \in 1..Depth : g[i] = F[g[i - 1]]
  <2>. DEFINE P == SUBSET Node
              s == S \ {NULL}
  <2>1. s \in P /\ F \in [P -> P]
    BY <1>2, <1>3
  <2>. HIDE DEF P, F, s
  <2>2. \E g : IsIteration(g, P, s, F, Depth)
    BY <1>1, <2>1, Iterates
  <2>. QED
    BY <2>2 DEF IsIteration, P, s
<1>5. ASSUME NEW i \in 1..Depth PROVE g[i] = g[i - 1] \cup Below(g[i - 1])
  <2>1. i - 1 \in 0..Depth
    BY <1>1
  <2>2. g[i - 1] \in SUBSET Node /\ g[i] = F[g[i - 1]]
    BY <2>1, <1>4, <1>5
  <2>. QED
    BY <2>2
<1>6. g = Def(g)
  <2>1. ASSUME NEW i \in 0..Depth PROVE g[i] = Def(g)[i]
    BY <2>1, <1>1, <1>4, <1>5 DEF Below
  <2>. QED
    BY <2>1, <1>4
<1>. DEFINE f == CHOOSE R : R = Def(R)
<1>7. f = Def(f)
  <2>. HIDE DEF Def
  <2>. QED
    BY <1>6
<1>8. Reach(S) = f[Depth]
  BY DEF Reach, Depth
<1>. HIDE DEF f
<1>9. /\ f[0] = S \ {NULL}
      /\ \A i \in 1..Depth : f[i] = f[i - 1] \cup Below(f[i - 1])
  BY <1>1, <1>7 DEF Below
<1>10. \A i \in 0..Depth : f[i] = g[i]
  <2>. DEFINE Bad == {i \in 0..Depth : f[i] # g[i]}
  <2>1. SUFFICES ASSUME Bad # {} PROVE FALSE
    OBVIOUS
  <2>2. PICK i \in Bad : \A j \in Bad : i <= j
    <3>1. Bad \subseteq Nat
      BY <1>1
    <3>. HIDE DEF Bad
    <3>. QED
      BY <2>1, <3>1, Smallest
  <2>3. i \in 1..Depth
    <3>1. i \in 0..Depth /\ f[i] # g[i] /\ f[0] = g[0]
      BY <1>4, <1>9
    <3>. QED
      BY <3>1, <1>1
  <2>4. i - 1 \in 0..Depth /\ i - 1 \notin Bad
    BY <1>1, <2>2, <2>3
  <2>5. f[i] = g[i]
    BY <2>3, <2>4, <1>5, <1>9
  <2>. QED
    BY <2>5
<1>11. Reach(S) = g[Depth]
  BY <1>1, <1>8, <1>10
<1>. QED
  BY <1>4, <1>5, <1>11

\* Reach does not leave a set that is closed under child pointers.
LEMMA ReachWithin ==
  ASSUME TypeOK, NEW S \in SUBSET NodeOrNull, NEW X, S \ {NULL} \subseteq X,
         \A n \in X, b \in Bit : child[n][b] \in X \cup {NULL}
  PROVE  Reach(S) \subseteq X
<1>1. PICK g \in [0..Depth -> SUBSET Node] :
        /\ g[0] = S \ {NULL}
        /\ \A i \in 1..Depth : g[i] = g[i - 1] \cup Below(g[i - 1])
        /\ Reach(S) = g[Depth]
  BY ReachIterates
<1>2. Depth \in Nat
  BY DEF Depth
<1>. DEFINE Bad == {i \in 0..Depth : ~(g[i] \subseteq X)}
<1>3. SUFFICES ASSUME Bad # {} PROVE FALSE
  BY <1>1, <1>2
<1>4. PICK i \in Bad : \A j \in Bad : i <= j
  <2>1. Bad \subseteq Nat
    BY <1>2
  <2>. HIDE DEF Bad
  <2>. QED
    BY <1>3, <2>1, Smallest
<1>5. i \in 1..Depth
  <2>1. i \in 0..Depth /\ i # 0
    BY <1>1
  <2>. QED
    BY <1>2, <2>1
<1>6. i - 1 \in 0..Depth /\ i - 1 \notin Bad
  BY <1>2, <1>4, <1>5
<1>7. g[i - 1] \subseteq X
  BY <1>6
<1>8. Below(g[i - 1]) \subseteq X
  BY <1>7 DEF Below, Bit
<1>9. g[i] \subseteq X
  <2>1. g[i] = g[i - 1] \cup Below(g[i - 1])
    BY <1>1, <1>5
  <2>. QED
    BY <2>1, <1>7, <1>8
<1>. QED
  BY <1>9

\* The parts of the heap, told apart by where their nodes are in their life.
LEMMA Parts ==
  ASSUME Inv
  PROVE  /\ \A n \in Reach({tree}) : Is(n, "live")
         /\ \A n \in NewTrie : Is(n, "hist")
         /\ \A n \in OldTrie : Is(n, "doomed")
         /\ \A n \in Reach({newRoot[t] : t \in Working}) :
              Is(n, "new") \/ Is(n, "live")
<1>1. TypeOK /\ TypeInv
  BY DEF Inv, TypeInv
<1>. DEFINE Part(life) == {n \in Node : st[n] = life}
<1>2. Reach({tree}) \subseteq Part("live")
  <2>1. {tree} \in SUBSET NodeOrNull /\ {tree} \ {NULL} \subseteq Part("live")
    BY <1>1, Types DEF Inv, LiveOK
  <2>2. \A n \in Part("live"), b \in Bit : child[n][b] \in Part("live") \cup {NULL}
    BY DEF Inv, LiveOK
  <2>. QED
    BY <1>1, <2>1, <2>2, ReachWithin
<1>3. NewTrie \subseteq Part("hist")
  <2>1. SUFFICES ASSUME hpc = "build" PROVE Reach({hnew}) \subseteq Part("hist")
    BY DEF NewTrie
  <2>2. {hnew} \in SUBSET NodeOrNull /\ {hnew} \ {NULL} \subseteq Part("hist")
    BY <2>1 DEF Inv, HistOK
  <2>3. \A n \in Part("hist"), b \in Bit : child[n][b] \in Part("hist") \cup {NULL}
    BY DEF Inv, HistOK
  <2>. QED
    BY <1>1, <2>2, <2>3, ReachWithin
<1>4. OldTrie \subseteq Part("doomed")
  <2>1. \A n \in Part("doomed"), b \in Bit : child[n][b] \in Part("doomed") \cup {NULL}
    BY DEF Inv, DoomedOK
  <2>2. CASE hpc \in {"swapped", "sync"}
    <3>1. {old} \in SUBSET NodeOrNull /\ {old} \ {NULL} \subseteq Part("doomed")
      BY <2>2 DEF Inv, DoomedOK
    <3>. QED
      BY <1>1, <2>1, <2>2, <3>1, ReachWithin DEF OldTrie
  <2>3. CASE hpc = "free"
    <3>1. walk \in SUBSET NodeOrNull /\ walk \ {NULL} \subseteq Part("doomed")
      BY <1>1, Types DEF Inv, DoomedOK
    <3>. QED
      BY <1>1, <2>1, <2>3, <3>1, ReachWithin DEF OldTrie
  <2>. QED
    BY <2>2, <2>3 DEF OldTrie
<1>5. Reach({newRoot[t] : t \in Working}) \subseteq Part("new") \cup Part("live")
  <2>. DEFINE S == {newRoot[t] : t \in Working}
  <2>1. \A t \in Working : Is(newRoot[t], "new")
    BY DEF Inv, WorkOK, CloneOK, Working
  <2>2. S \in SUBSET NodeOrNull /\ S \ {NULL} \subseteq Part("new") \cup Part("live")
    BY <2>1
  <2>3. ASSUME NEW n \in Part("new") \cup Part("live"), NEW b \in Bit
        PROVE  child[n][b] \in (Part("new") \cup Part("live")) \cup {NULL}
    <3>1. CASE st[n] = "live"
      BY <3>1 DEF Inv, LiveOK
    <3>2. CASE st[n] = "new"
      <4>1. lock # NULL
        BY <3>2 DEF Inv, LockOK
      <4>2. lock \in Task /\ tpc[lock] \in {"clone", "create"}
        BY <1>1, <4>1 DEF TypeOK, Inv, LockOK
      <4>3. CloneOK(lock)
        BY <4>2 DEF Inv, WorkOK
      <4>. QED
        BY <3>2, <4>3 DEF CloneOK
    <3>. QED
      BY <3>1, <3>2
  <2>. DEFINE X == Part("new") \cup Part("live")
  <2>4. S \ {NULL} \subseteq X /\ \A n \in X, b \in Bit : child[n][b] \in X \cup {NULL}
    BY <2>2, <2>3
  <2>. HIDE DEF S, X
  <2>5. Reach(S) \subseteq X
    BY <1>1, <2>2, <2>4, ReachWithin
  <2>. QED
    BY <2>5 DEF S, X
<1>. QED
  BY <1>2, <1>3, <1>4, <1>5

\* hcf_free_node, the callbacks of hcf_free_node_rcu and the work items that
\* are about to call call_rcu never meet on a node, nor on one that lookups or
\* the next history message will find.
THEOREM NodesHaveOneOwner == Spec => []OneOwner
<1>1. ASSUME Inv PROVE OneOwner
  <2>. DEFINE p1 == Reach({tree})
              p2 == NewTrie
              p3 == OldTrie
              p4 == cb
              p5 == UNION {toFree[t] : t \in Retiring}
              part == << p1, p2, p3, p4, p5 >>
  <2>1. /\ \A n \in p1 : st[n] = "live"
        /\ \A n \in p2 : st[n] = "hist"
        /\ \A n \in p3 : st[n] = "doomed"
    BY <1>1, Parts
  <2>2. \A n \in p4 : st[n] = "cb"
    BY <1>1 DEF Inv, LifeOK
  <2>3. \A n \in p5 : st[n] = "retired"
    BY <1>1 DEF Inv, ToFreeOK
  <2>4. \A t, u \in Retiring : t # u => toFree[t] \cap toFree[u] = {}
    BY <1>1 DEF Inv, ToFreeOK
  <2>. HIDE DEF p1, p2, p3, p4, p5
  <2>5. ASSUME NEW i \in DOMAIN part, NEW j \in DOMAIN part, i # j
        PROVE  part[i] \cap part[j] = {}
    <3>1. i \in 1..5 /\ j \in 1..5
      OBVIOUS
    <3>. DEFINE life == <<"live", "hist", "doomed", "cb", "retired">>
    <3>2. \A k \in 1..5 : \A n \in part[k] : st[n] = life[k]
      BY <2>1, <2>2, <2>3
    <3>3. life[i] # life[j]
      BY <3>1, <2>5
    <3>. HIDE DEF part, life
    <3>. QED
      BY <3>1, <3>2, <3>3
  <2>. QED
    BY <2>4, <2>5 DEF OneOwner, p1, p2, p3, p4, p5
<1>. QED
  BY <1>1, Inductive, PTL

-----------------------------------------------------------------------------
(* Nothing is lost.                                                        *)

\* Some node in this part of its life has n as a child.
HasParent(n, life) == \E p \in Node, b \in Bit : st[p] = life /\ child[p][b] = n

\* Each node is the root of the part it is in, or hangs below another one; one
\* that was taken out of the trie is in somebody's list.
Hangs(n) ==
  /\ st[n] = "live" => n = tree \/ HasParent(n, "live")
  /\ st[n] = "hist" => n = hnew \/ HasParent(n, "hist")
  /\ st[n] = "new" => (\E t \in Working : n = newRoot[t]) \/ HasParent(n, "new")
  /\ st[n] = "doomed" =>
       \/ HasParent(n, "doomed")
       \/ hpc \in {"swapped", "sync"} /\ n = old
       \/ hpc = "free" /\ n \in walk
  /\ st[n] = "retired" => \E t \in Retiring : n \in toFree[t]
  /\ st[n] = "cb" => n \in cb

\* The clone of the path has taken over the children of the path that are not
\* on it, and where it goes on with new nodes there is nothing to lose.
TakesOver(t) ==
  /\ \A o \in toFree[t], b \in Bit :
       child[o][b] \notin toFree[t] \cup {NULL} =>
         \E m \in Node : st[m] = "new" /\ child[m][b] = child[o][b]
  /\ tpc[t] = "create" => \A b \in Bit : child[newRunner[t]][b] = NULL

OwnOK ==
  /\ \A n \in Node : Hangs(n)
  /\ \A t \in Working : TakesOver(t)
  /\ hpc \in {"idle", "build"} => \A n \in Node : st[n] # "doomed"

\* lv[n] is the level of n: a child is one level below its parent, and the
\* threads that build something know the level they are at.
Leveled(lv) ==
  /\ lv \in [Node -> Level]
  /\ lv[tree] = RootLvl
  /\ hpc = "build" => lv[hnew] = RootLvl /\ lv[hrunner] = hbits
  /\ \A t \in Working : lv[newRoot[t]] = RootLvl /\ lv[newRunner[t]] = bits[t]
  /\ \A n \in Node, b \in Bit :
       st[n] \in {"live", "hist", "new", "doomed"} /\ child[n][b] # NULL =>
         lv[child[n][b]] = lv[n] - 1

LevelOK == \E lv : Leveled(lv)

-----------------------------------------------------------------------------
(* The steps, and where nodes hang.                                        *)

LEMMA OwnInit == Init => OwnOK /\ LevelOK
<1>. SUFFICES ASSUME Init PROVE OwnOK /\ LevelOK
  OBVIOUS
<1>1. /\ tree \in Node
      /\ st = [n \in Node |-> IF n = tree THEN "live" ELSE "free"]
      /\ \A n \in Node, b \in Bit : child[n][b] = NULL
      /\ hpc = "idle"
      /\ \A t \in Task : tpc[t] = "none"
  BY DEF Init, NoChild
<1>2. OwnOK
  BY <1>1 DEF OwnOK, Hangs, TakesOver, Working, Retiring
<1>3. LevelOK
  <2>. DEFINE lv == [n \in Node |-> RootLvl]
  <2>1. Leveled(lv)
    BY <1>1 DEF Leveled, Level, Working
  <2>. QED
    BY <2>1 DEF LevelOK
<1>. QED
  BY <1>2, <1>3

\* Steps that leave the nodes and the lists of nodes alone.
LEMMA OwnFrame ==
  ASSUME OwnOK,
         UNCHANGED <<tree, child, st, hnew, old, walk, cb, toFree, newRoot, newRunner>>,
         Working' = Working, Retiring' = Retiring,
         \A t \in Working : tpc'[t] = tpc[t],
         \/ hpc' = hpc
         \/ hpc = "swapped" /\ hpc' = "sync"
  PROVE  OwnOK'
<1>1. ASSUME NEW n \in Node PROVE Hangs(n)'
  <2>1. Hangs(n)
    BY DEF OwnOK
  <2>2. \A life : HasParent(n, life)' <=> HasParent(n, life)
    BY DEF HasParent
  <2>. QED
    BY <2>1, <2>2 DEF Hangs
<1>2. ASSUME NEW t \in Working' PROVE TakesOver(t)'
  <2>1. TakesOver(t)
    BY <1>2 DEF OwnOK
  <2>. QED
    BY <1>2, <2>1 DEF TakesOver
<1>. QED
  BY <1>1, <1>2 DEF OwnOK

LEMMA OwnRegister ==
  ASSUME Inv, OwnOK, NEW t \in Task, NEW ip \in Source, NEW ttl \in Ttl,
         hcf_register_ip(t, ip, ttl)
  PROVE  OwnOK'
<1>1. /\ UNCHANGED <<tree, child, st, hnew, old, walk, cb, toFree, newRoot, newRunner, hpc>>
      /\ tpc[t] = "none" /\ tpc'[t] = "queued"
      /\ \A u \in Task : u # t => tpc'[u] = tpc[u]
  BY Types DEF Inv, hcf_register_ip, heapVars, histVars, rcuVars, auxVars
<1>2. Working' = Working /\ Retiring' = Retiring /\ \A u \in Working : tpc'[u] = tpc[u]
  BY <1>1 DEF Working, Retiring
<1>. QED
  BY <1>1, <1>2, OwnFrame

LEMMA OwnAnnounce ==
  ASSUME Inv, OwnOK, NEW t \in Task, work_announce(t)
  PROVE  OwnOK'
<1>1. /\ UNCHANGED <<tree, child, st, hnew, old, walk, cb, toFree, newRoot, newRunner, hpc>>
      /\ tpc[t] = "announce" /\ tpc'[t] = "retire"
      /\ \A u \in Task : u # t => tpc'[u] = tpc[u]
  BY Types DEF Inv, work_announce, heapVars, histVars, rcuVars, auxVars
<1>2. Working' = Working /\ Retiring' = Retiring /\ \A u \in Working : tpc'[u] = tpc[u]
  BY <1>1 DEF Working, Retiring
<1>. QED
  BY <1>1, <1>2, OwnFrame

LEMMA OwnLookup ==
  ASSUME OwnOK,
         \/ \E r \in Reader, ip \in Source, ttl \in Ttl : lookup_enter(r, ip, ttl)
         \/ \E r \in Reader : LookupStep(r)
         \/ history_descend \/ history_set \/ swap_sync
         \/ UNCHANGED vars
  PROVE  OwnOK'
<1>1. /\ UNCHANGED <<tree, child, st, hnew, old, walk, cb, toFree, newRoot, newRunner, tpc>>
      /\ hpc' = hpc \/ (hpc = "swapped" /\ hpc' = "sync")
  BY DEF lookup_enter, LookupStep, lookup_step, lookup_end, rcu_read_unlock,
         history_descend, history_set, swap_sync,
         vars, heapVars, taskVars, readVars, histVars, rcuVars, auxVars
<1>2. Working' = Working /\ Retiring' = Retiring /\ \A u \in Working : tpc'[u] = tpc[u]
  BY <1>1 DEF Working, Retiring
<1>. QED
  BY <1>1, <1>2, OwnFrame

LEMMA OwnCloneRoot ==
  ASSUME Inv, OwnOK, NEW t \in Task, work_clone_root(t)
  PROVE  OwnOK'
<1>1. PICK n \in Node \ alloc :
        /\ Allocate(n, meta[tree], "new")
        /\ child' = [child EXCEPT ![n] = child[tree]]
        /\ newRoot' = [newRoot EXCEPT ![t] = n]
        /\ newRunner' = [newRunner EXCEPT ![t] = n]
  BY DEF work_clone_root, kmem_cache_zalloc
<1>2. /\ st[n] = "free" /\ st'[n] = "new" /\ child'[n] = child[tree]
      /\ \A m \in Node : m # n => st'[m] = st[m] /\ child'[m] = child[m]
      /\ tree # n
  BY <1>1, Types DEF Inv, LifeOK, LiveOK, Allocate
<1>3. /\ UNCHANGED <<tree, hnew, old, walk, cb, hpc>>
      /\ tpc[t] = "queued" /\ tpc'[t] = "clone" /\ lock = NULL
      /\ \A u \in Task : u # t => tpc'[u] = tpc[u] /\ toFree'[u] = toFree[u]
      /\ toFree'[t] = {tree} /\ newRoot'[t] = n /\ tree \in Node
  BY <1>1, Types DEF Inv, work_clone_root, mutex_lock, histVars, rcuVars
<1>4. Working = {} /\ Working' = {t} /\ Retiring' = Retiring
  BY <1>3 DEF Working, Retiring, Inv, LockOK
<1>5. ASSUME NEW m \in Node PROVE Hangs(m)'
  <2>1. CASE m = n
    BY <2>1, <1>2, <1>3, <1>4 DEF Hangs
  <2>2. CASE m # n
    <3>1. \A life : life # "free" /\ HasParent(m, life) => HasParent(m, life)'
      BY <1>2 DEF HasParent
    <3>2. st'[m] = st[m] /\ Hangs(m) /\ st[m] # "new"
      BY <2>2, <1>2, <1>3 DEF OwnOK, Inv, LockOK
    <3>. QED
      BY <3>1, <3>2, <1>3, <1>4 DEF Hangs, Retiring
  <2>. QED
    BY <2>1, <2>2
<1>6. TakesOver(t)'
  BY <1>2, <1>3 DEF TakesOver
<1>. QED
  BY <1>2, <1>3, <1>4, <1>5, <1>6 DEF OwnOK

\* n was free and is now in another part of its life; no other node moves.
Adds(n, life) ==
  /\ n \in Node /\ st[n] = "free" /\ st'[n] = life
  /\ \A m \in Node : m # n => st'[m] = st[m]

\* n becomes child b of p, which keeps its other child.
Links(n, p, b) ==
  /\ p \in Node /\ p # n
  /\ child'[p][b] = n
  /\ \A d \in Bit : d # b => child'[p][d] = child[p][d]
  /\ \A m \in Node : m \notin {n, p} => child'[m] = child[m]

OldChild(t) == child[runner[t]][TaskBit(t)]

\* One turn of the loop of hcf_register_ip_work that clones.
LEMMA CloneEffect ==
  ASSUME Inv, NEW t \in Task, work_clone(t)
  PROVE  /\ tpc[t] = "clone" /\ t \in Working /\ TaskBit(t) \in Bit
         /\ OldChild(t) \in Node /\ st[OldChild(t)] = "live"
         /\ OldChild(t) \notin toFree[t]
         /\ runner[t] \in toFree[t] /\ st[newRunner[t]] = "new"
         /\ child[newRunner[t]] = child[runner[t]]
         /\ \E n \in Node : /\ Adds(n, "new")
                            /\ Links(n, newRunner[t], TaskBit(t))
                            /\ child'[n] = child[OldChild(t)]
                            /\ newRunner' = [newRunner EXCEPT ![t] = n]
<1>. DEFINE b == TaskBit(t)
            c == child[runner[t]][b]
            nr == newRunner[t]
<1>1. /\ tpc[t] = "clone" /\ PathOK(t) /\ CloneOK(t)
      /\ b \in Bit
      /\ c # NULL
  BY BitAtType DEF work_clone, Inv, WorkOK, TaskBit
<1>2. PICK n \in Node \ alloc :
        /\ Allocate(n, meta[c], "new")
        /\ child' = [child EXCEPT ![n] = child[c], ![nr][b] = n]
        /\ newRunner' = [newRunner EXCEPT ![t] = n]
  BY DEF work_clone, kmem_cache_zalloc, Parent
<1>. HIDE DEF b, c, nr
<1>3. /\ c \in Node /\ st[c] = "live" /\ c \notin toFree[t]
      /\ runner[t] \in Node /\ runner[t] \in toFree[t]
      /\ nr \in Node /\ st[nr] = "new" /\ child[nr] = child[runner[t]]
      /\ child[runner[t]][b] = c
  BY <1>1, Types DEF Inv, PathOK, CloneOK, LiveOK, c, nr
<1>4. st[n] = "free" /\ n # nr
  BY <1>3, Types DEF Inv, LifeOK
<1>5. Adds(n, "new")
  BY <1>2, <1>4, Types DEF Inv, Allocate, Adds
<1>6. Links(n, nr, b) /\ child'[n] = child[c]
  BY <1>1, <1>2, <1>3, <1>4, Types DEF Inv, Links
<1>. QED
  BY <1>1, <1>2, <1>3, <1>5, <1>6 DEF OldChild, b, c, nr, Working

\* One turn of the loop that creates.
LEMMA CreateEffect ==
  ASSUME Inv, NEW t \in Task, work_create(t)
  PROVE  /\ tpc[t] \in {"clone", "create"} /\ t \in Working /\ TaskBit(t) \in Bit
         /\ st[newRunner[t]] = "new"
         /\ tpc[t] = "clone" => child[newRunner[t]][TaskBit(t)] = NULL
         /\ \E n \in Node : /\ Adds(n, "new")
                            /\ Links(n, newRunner[t], TaskBit(t))
                            /\ \A d \in Bit : child'[n][d] = NULL
                            /\ newRunner' = [newRunner EXCEPT ![t] = n]
<1>. DEFINE b == TaskBit(t)
            nr == newRunner[t]
<1>1. /\ tpc[t] \in {"clone", "create"} /\ PathOK(t) /\ CloneOK(t)
      /\ b \in Bit
      /\ tpc[t] = "clone" => child[runner[t]][b] = NULL
  BY BitAtType DEF work_create, Inv, WorkOK, TaskBit
<1>2. PICK n \in Node \ alloc :
        /\ Allocate(n, NoMeta, "new")
        /\ child' = [child EXCEPT ![n] = NoChild, ![nr][b] = n]
        /\ newRunner' = [newRunner EXCEPT ![t] = n]
  BY DEF work_create, kmem_cache_zalloc, Parent
<1>. HIDE DEF b, nr
<1>3. /\ nr \in Node /\ st[nr] = "new"
      /\ tpc[t] = "clone" => child[nr][b] = NULL
  BY <1>1 DEF CloneOK, nr
<1>4. st[n] = "free" /\ n # nr
  BY <1>3, Types DEF Inv, LifeOK
<1>5. Adds(n, "new")
  BY <1>2, <1>4, Types DEF Inv, Allocate, Adds
<1>6. Links(n, nr, b) /\ child'[n] = NoChild
  BY <1>1, <1>2, <1>3, <1>4, Types DEF Inv, Links
<1>7. \A d \in Bit : child'[n][d] = NULL
  BY <1>6 DEF NoChild
<1>. QED
  BY <1>1, <1>2, <1>3, <1>5, <1>6, <1>7 DEF b, nr, Working

\* A node the netlink handler creates.
LEMMA HistoryCreateEffect ==
  ASSUME Inv, history_create
  PROVE  /\ hpc = "build" /\ HistBit \in Bit
         /\ st[hrunner] = "hist" /\ child[hrunner][HistBit] = NULL
         /\ \E n \in Node : /\ Adds(n, "hist")
                            /\ Links(n, hrunner, HistBit)
                            /\ \A d \in Bit : child'[n][d] = NULL
                            /\ hrunner' = n
<1>. DEFINE b == HistBit
<1>1. b \in Bit /\ hpc = "build" /\ hrunner \in Node /\ st[hrunner] = "hist"
      /\ child[hrunner][b] = NULL
  BY BitAtType DEF history_create, HistBit, Inv, HistOK
<1>2. PICK n \in Node \ alloc :
        /\ Allocate(n, NoMeta, "hist")
        /\ child' = [child EXCEPT ![n] = NoChild, ![hrunner][b] = n]
        /\ hrunner' = n
  BY DEF history_create, kmem_cache_zalloc
<1>. HIDE DEF b
<1>3. st[n] = "free" /\ n # hrunner
  BY <1>1, Types DEF Inv, LifeOK
<1>4. Adds(n, "hist")
  BY <1>2, <1>3, Types DEF Inv, Allocate, Adds
<1>5. Links(n, hrunner, b) /\ child'[n] = NoChild
  BY <1>1, <1>2, <1>3, Types DEF Inv, Links
<1>6. \A d \in Bit : child'[n][d] = NULL
  BY <1>5 DEF NoChild
<1>. QED
  BY <1>1, <1>2, <1>4, <1>5, <1>6 DEF b

LEMMA HistoryBeginEffect ==
  ASSUME Inv, NEW h \in History, history_begin(h)
  PROVE  \E n \in Node :
           /\ Adds(n, "hist")
           /\ \A m \in Node : m # n => child'[m] = child[m]
           /\ \A d \in Bit : child'[n][d] = NULL
           /\ hnew' = n /\ hrunner' = n
<1>1. PICK n \in Node \ alloc :
        /\ Allocate(n, NoMeta, "hist")
        /\ child' = [child EXCEPT ![n] = NoChild]
        /\ hnew' = n /\ hrunner' = n
  BY DEF history_begin, kmem_cache_zalloc
<1>2. st[n] = "free"
  BY Types DEF Inv, LifeOK
<1>3. Adds(n, "hist")
  BY <1>1, <1>2, Types DEF Inv, Allocate, Adds
<1>4. \A d \in Bit : child'[n][d] = NULL
  BY <1>1, Types DEF Inv, NoChild
<1>. QED
  BY <1>1, <1>3, <1>4, Types DEF Inv

\* Nobody who is not going to be freed points to a free node.
LEMMA NoneToFree ==
  ASSUME Inv, NEW n \in Node, st[n] = "free"
  PROVE  \A m \in Node, d \in Bit :
           st[m] \in {"live", "hist", "doomed", "new"} => child[m][d] # n
<1>. SUFFICES ASSUME NEW m \in Node, NEW d \in Bit,
                     st[m] \in {"live", "hist", "doomed", "new"}, child[m][d] = n
              PROVE  FALSE
  OBVIOUS
<1>1. CASE st[m] = "new"
  <2>1. lock \in Task /\ tpc[lock] \in {"clone", "create"}
    BY <1>1 DEF TypeInv, TypeOK, Inv, LockOK
  <2>2. CloneOK(lock)
    BY <2>1 DEF Inv, WorkOK
  <2>. QED
    BY <1>1, <2>2 DEF CloneOK
<1>2. CASE st[m] # "new"
  BY <1>2 DEF Inv, LiveOK, HistOK, DoomedOK
<1>. QED
  BY <1>1, <1>2

\* Only the holder of the mutex is in its critical section.
LEMMA OneWorker == ASSUME Inv, NEW t \in Working PROVE Working = {t}
<1>1. \A u \in Task : lock = u <=> u \in Working
  BY DEF Inv, LockOK, Working
<1>. QED
  BY <1>1 DEF Working

LEMMA OwnClone ==
  ASSUME Inv, OwnOK, NEW t \in Task, work_clone(t)
  PROVE  OwnOK'
<1>. DEFINE b == TaskBit(t)
            c == OldChild(t)
            nr == newRunner[t]
<1>1. /\ tpc[t] = "clone" /\ t \in Working /\ b \in Bit
      /\ c \in Node /\ st[c] = "live" /\ c \notin toFree[t]
      /\ st[nr] = "new" /\ child[nr][b] = c
  BY CloneEffect DEF OldChild
<1>2. PICK n \in Node : /\ Adds(n, "new") /\ Links(n, nr, b)
                        /\ child'[n] = child[c]
  BY CloneEffect
<1>3. /\ UNCHANGED <<tree, hnew, old, walk, cb, hpc, newRoot, tpc>>
      /\ toFree' = [toFree EXCEPT ![t] = toFree[t] \cup {c}]
  BY DEF work_clone, ToFreeWith, OldChild, histVars, rcuVars
<1>4. /\ Working = {t} /\ Working' = Working /\ Retiring' = Retiring
      /\ t \notin Retiring
  BY <1>1, <1>3, OneWorker DEF Working, Retiring
<1>5. toFree'[t] = toFree[t] \cup {c} /\ \A u \in Task : u # t => toFree'[u] = toFree[u]
  BY <1>3, Types DEF Inv
<1>. HIDE DEF b, c, nr
<1>6. ASSUME NEW m \in Node PROVE Hangs(m)'
  <2>1. CASE m = n
    BY <2>1, <1>1, <1>2 DEF Hangs, Adds, Links, HasParent
  <2>2. CASE m # n
    <3>1. st'[m] = st[m] /\ Hangs(m)
      BY <2>2, <1>2 DEF OwnOK, Adds
    <3>2. \A life \in {"live", "hist", "doomed"} :
            HasParent(m, life) => HasParent(m, life)'
      BY <1>1, <1>2 DEF HasParent, Adds, Links
    <3>3. st[m] = "new" /\ HasParent(m, "new") => HasParent(m, "new")'
      BY <1>1, <1>2 DEF HasParent, Adds, Links
    <3>4. \A u \in Retiring : toFree'[u] = toFree[u]
      BY <1>4, <1>5 DEF Retiring
    <3>. QED
      BY <3>1, <3>2, <3>3, <3>4, <1>3, <1>4 DEF Hangs
  <2>. QED
    BY <2>1, <2>2
<1>7. TakesOver(t)'
  <2>1. TakesOver(t) /\ \A o \in toFree[t] : o \in Node /\ st[o] = "live"
    BY <1>1, Types DEF OwnOK, Inv, WorkOK, PathOK, Working
  <2>2. \A o \in toFree[t] \cup {c} : child'[o] = child[o]
    BY <1>1, <1>2, <2>1 DEF Adds, Links
  <2>3. ASSUME NEW o \in toFree[t] \cup {c}, NEW d \in Bit,
               child[o][d] \notin toFree[t] \cup {c, NULL}
        PROVE  \E m \in Node : st'[m] = "new" /\ child'[m][d] = child[o][d]
    <3>1. CASE o = c
      BY <3>1, <1>2 DEF Adds
    <3>2. CASE o \in toFree[t]
      <4>1. PICK m \in Node : st[m] = "new" /\ child[m][d] = child[o][d]
        BY <3>2, <2>1, <2>3 DEF TakesOver
      <4>2. child'[m][d] = child[m][d] /\ st'[m] = "new"
        BY <4>1, <2>3, <1>1, <1>2 DEF Adds, Links
      <4>. QED
        BY <4>1, <4>2
    <3>. QED
      BY <3>1, <3>2
  <2>. QED
    BY <1>1, <1>3, <1>5, <2>2, <2>3 DEF TakesOver
<1>8. hpc' \in {"idle", "build"} => \A m \in Node : st'[m] # "doomed"
  BY <1>2, <1>3 DEF OwnOK, Adds
<1>. QED
  BY <1>4, <1>6, <1>7, <1>8 DEF OwnOK

LEMMA OwnCreate ==
  ASSUME Inv, OwnOK, NEW t \in Task, work_create(t)
  PROVE  OwnOK'
<1>. DEFINE b == TaskBit(t)
            nr == newRunner[t]
<1>1. /\ tpc[t] \in {"clone", "create"} /\ t \in Working /\ b \in Bit
      /\ st[nr] = "new" /\ child[nr][b] = NULL
  BY CreateEffect DEF OwnOK, TakesOver
<1>2. PICK n \in Node : /\ Adds(n, "new") /\ Links(n, nr, b)
                        /\ \A d \in Bit : child'[n][d] = NULL
                        /\ newRunner' = [newRunner EXCEPT ![t] = n]
  BY CreateEffect
<1>3. /\ UNCHANGED <<tree, hnew, old, walk, cb, hpc, newRoot, toFree>>
      /\ \A u \in Task : u # t => tpc'[u] = tpc[u]
      /\ tpc'[t] = "create" /\ newRunner'[t] = n
  BY <1>2, Types DEF Inv, work_create, histVars, rcuVars
<1>4. Working = {t} /\ Working' = Working /\ Retiring' = Retiring
  BY <1>1, <1>3, OneWorker DEF Working, Retiring
<1>. HIDE DEF b, nr
<1>5. ASSUME NEW m \in Node PROVE Hangs(m)'
  <2>1. CASE m = n
    BY <2>1, <1>1, <1>2 DEF Hangs, Adds, Links, HasParent
  <2>2. CASE m # n
    <3>1. st'[m] = st[m] /\ Hangs(m)
      BY <2>2, <1>2 DEF OwnOK, Adds
    <3>2. m # NULL
      OBVIOUS
    <3>3. \A life \in {"live", "hist", "doomed", "new"} :
            HasParent(m, life) => HasParent(m, life)'
      BY <1>1, <1>2, <3>2 DEF HasParent, Adds, Links
    <3>. QED
      BY <3>1, <3>3, <1>3, <1>4 DEF Hangs
  <2>. QED
    BY <2>1, <2>2
<1>6. TakesOver(t)'
  <2>1. TakesOver(t) /\ \A o \in toFree[t] : o \in Node /\ st[o] = "live"
    BY <1>1, Types DEF OwnOK, Inv, WorkOK, PathOK, Working
  <2>2. \A o \in toFree[t] : child'[o] = child[o]
    BY <1>1, <1>2, <2>1 DEF Adds, Links
  <2>3. ASSUME NEW o \in toFree[t], NEW d \in Bit,
               child[o][d] \notin toFree[t] \cup {NULL}
        PROVE  \E m \in Node : st'[m] = "new" /\ child'[m][d] = child[o][d]
    <3>1. PICK m \in Node : st[m] = "new" /\ child[m][d] = child[o][d]
      BY <2>1, <2>3 DEF TakesOver
    <3>2. child'[m][d] = child[m][d] /\ st'[m] = "new"
      BY <3>1, <2>3, <1>1, <1>2 DEF Adds, Links
    <3>. QED
      BY <3>1, <3>2
  <2>. QED
    BY <1>2, <1>3, <2>2, <2>3 DEF TakesOver
<1>7. hpc' \in {"idle", "build"} => \A m \in Node : st'[m] # "doomed"
  BY <1>2, <1>3 DEF OwnOK, Adds
<1>. QED
  BY <1>4, <1>5, <1>6, <1>7 DEF OwnOK

LEMMA OwnPublish ==
  ASSUME Inv, OwnOK, NEW t \in Task, work_publish(t)
  PROVE  OwnOK'
<1>1. t \in Working /\ PathOK(t) /\ CloneOK(t) /\ TakesOver(t)
  BY DEF work_publish, Inv, WorkOK, Working, OwnOK
<1>2. /\ tpc'[t] \in {"announce", "retire"}
      /\ \A u \in Task : u # t => tpc'[u] = tpc[u]
      /\ tree' = newRoot[t]
      /\ UNCHANGED <<toFree, child, cb, hpc, hnew, old, walk, newRoot>>
  BY Types DEF Inv, work_publish, histVars, rcuVars
<1>3. /\ \A m \in toFree[t] : m \in Node /\ st[m] = "live" /\ st'[m] = "retired"
      /\ \A m \in Node : st[m] = "new" => st'[m] = "live"
      /\ \A m \in Node : st[m] # "new" /\ m \notin toFree[t] => st'[m] = st[m]
  BY <1>1, Types DEF Inv, work_publish, PathOK
<1>4. Working = {t} /\ Working' = {} /\ Retiring' = Retiring \cup {t}
  BY <1>1, <1>2, OneWorker DEF Working, Retiring
<1>5. ASSUME NEW m \in Node PROVE Hangs(m)'
  <2>1. Hangs(m)
    BY DEF OwnOK
  <2>2. CASE m \in toFree[t]
    BY <2>2, <1>2, <1>3, <1>4 DEF Hangs
  <2>3. CASE st[m] = "new"
    <3>1. HasParent(m, "new") => HasParent(m, "live")'
      BY <1>2, <1>3 DEF HasParent
    <3>. QED
      BY <2>1, <2>3, <3>1, <1>2, <1>3, <1>4 DEF Hangs
  <2>4. CASE st[m] = "live" /\ m \notin toFree[t]
    <3>1. m # tree /\ m # NULL
      BY <2>4, <1>1 DEF PathOK
    <3>2. PICK p \in Node, b \in Bit : st[p] = "live" /\ child[p][b] = m
      BY <2>1, <2>4, <3>1 DEF Hangs, HasParent
    <3>3. CASE p \notin toFree[t]
      BY <2>4, <3>2, <3>3, <1>2, <1>3 DEF Hangs, HasParent
    <3>4. CASE p \in toFree[t]
      <4>1. PICK q \in Node : st[q] = "new" /\ child[q][b] = m
        BY <2>4, <3>1, <3>2, <3>4, <1>1 DEF TakesOver
      <4>. QED
        BY <2>4, <4>1, <1>2, <1>3 DEF Hangs, HasParent
    <3>. QED
      BY <3>3, <3>4
  <2>5. CASE st[m] \notin {"new", "live"}
    <3>1. st'[m] = st[m]
      BY <2>5, <1>3
    <3>2. \A life \in {"hist", "doomed"} : HasParent(m, life) => HasParent(m, life)'
      BY <1>2, <1>3 DEF HasParent
    <3>. QED
      BY <2>1, <2>5, <3>1, <3>2, <1>2, <1>4 DEF Hangs
  <2>. QED
    BY <2>2, <2>3, <2>4, <2>5
<1>6. hpc' \in {"idle", "build"} => \A m \in Node : st'[m] # "doomed"
  BY <1>2, <1>3 DEF OwnOK
<1>. QED
  BY <1>4, <1>5, <1>6 DEF OwnOK

LEMMA OwnRetire ==
  ASSUME Inv, OwnOK, NEW t \in Task, work_retire(t)
  PROVE  OwnOK'
<1>1. PICK n \in toFree[t] :
        /\ cb' = cb \cup {n}
        /\ toFree' = [toFree EXCEPT ![t] = toFree[t] \ {n}]
        /\ st' = [st EXCEPT ![n] = "cb"]
  BY DEF work_retire
<1>2. /\ tpc[t] = "retire" /\ t \in Retiring
      /\ UNCHANGED <<tree, child, hnew, old, walk, hpc, newRoot, newRunner, tpc>>
  BY DEF work_retire, Retiring, heapVars, histVars
<1>3. /\ n \in Node /\ st[n] = "retired" /\ st'[n] = "cb"
      /\ \A m \in Node : m # n => st'[m] = st[m]
      /\ toFree'[t] = toFree[t] \ {n}
      /\ \A u \in Task : u # t => toFree'[u] = toFree[u]
  BY <1>1, <1>2, Types DEF Inv, ToFreeOK
<1>4. Working' = Working /\ Retiring' = Retiring /\ t \notin Working
  BY <1>2 DEF Working, Retiring
<1>5. ASSUME NEW m \in Node PROVE Hangs(m)'
  <2>1. CASE m = n
    BY <2>1, <1>1, <1>3 DEF Hangs
  <2>2. CASE m # n
    <3>1. st'[m] = st[m] /\ Hangs(m)
      BY <2>2, <1>3 DEF OwnOK
    <3>2. \A life \in {"live", "hist", "new", "doomed"} :
            HasParent(m, life) => HasParent(m, life)'
      BY <1>2, <1>3 DEF HasParent
    <3>3. \A u \in Retiring : m \in toFree[u] => m \in toFree'[u]
      BY <2>2, <1>3 DEF Retiring
    <3>. QED
      BY <3>1, <3>2, <3>3, <1>1, <1>2, <1>4 DEF Hangs
  <2>. QED
    BY <2>1, <2>2
<1>6. ASSUME NEW u \in Working PROVE TakesOver(u)'
  <2>1. TakesOver(u) /\ toFree'[u] = toFree[u]
    BY <1>3, <1>4 DEF OwnOK, Working
  <2>2. \A m \in Node : st[m] = "new" => st'[m] = "new"
    BY <1>3
  <2>. QED
    BY <1>2, <2>1, <2>2 DEF TakesOver
<1>7. hpc' \in {"idle", "build"} => \A m \in Node : st'[m] # "doomed"
  BY <1>2, <1>3 DEF OwnOK
<1>. QED
  BY <1>4, <1>5, <1>6, <1>7 DEF OwnOK

LEMMA OwnEnd ==
  ASSUME Inv, OwnOK, NEW t \in Task, work_end(t)
  PROVE  OwnOK'
<1>1. /\ UNCHANGED <<tree, child, st, hnew, old, walk, cb, toFree, hpc>>
      /\ tpc[t] = "retire" /\ tpc'[t] = "done" /\ toFree[t] = {}
      /\ \A u \in Task : u # t => /\ tpc'[u] = tpc[u] /\ newRoot'[u] = newRoot[u]
                                   /\ newRunner'[u] = newRunner[u]
  BY Types DEF Inv, work_end, heapVars, histVars, rcuVars, auxVars
<1>2. Working' = Working /\ Retiring' = Retiring \ {t} /\ t \notin Working
  BY <1>1 DEF Working, Retiring
<1>3. ASSUME NEW m \in Node PROVE Hangs(m)'
  <2>1. Hangs(m) /\ \A life : HasParent(m, life)' <=> HasParent(m, life)
    BY <1>1 DEF OwnOK, HasParent
  <2>2. \A u \in Working : newRoot'[u] = newRoot[u]
    BY <1>1, <1>2 DEF Working
  <2>. QED
    BY <2>1, <2>2, <1>1, <1>2 DEF Hangs
<1>4. ASSUME NEW u \in Working PROVE TakesOver(u)'
  <2>1. TakesOver(u) /\ newRunner'[u] = newRunner[u] /\ tpc'[u] = tpc[u]
    BY <1>1, <1>2 DEF OwnOK, Working
  <2>. QED
    BY <2>1, <1>1 DEF TakesOver
<1>. QED
  BY <1>1, <1>2, <1>3, <1>4 DEF OwnOK

LEMMA OwnFreeRcu ==
  ASSUME Inv, OwnOK, NEW n \in cb, hcf_free_node_rcu(n)
  PROVE  OwnOK'
<1>1. n \in Node /\ st[n] = "cb"
  BY Types DEF Inv, LifeOK
<1>2. UNCHANGED <<tree, toFree, tpc, newRoot, newRunner, hpc, hnew, old, walk>>
      /\ cb' = cb \ {n}
  BY DEF hcf_free_node_rcu, taskVars, histVars
<1>3. /\ st'[n] = "free"
      /\ \A m \in Node : m # n => st'[m] = st[m] /\ child'[m] = child[m]
  BY <1>1, Types DEF Inv, hcf_free_node_rcu, kmem_cache_free
<1>4. Working' = Working /\ Retiring' = Retiring
  BY <1>2 DEF Working, Retiring
<1>5. ASSUME NEW m \in Node PROVE Hangs(m)'
  <2>1. CASE m = n
    BY <2>1, <1>3 DEF Hangs
  <2>2. CASE m # n
    <3>1. st'[m] = st[m] /\ Hangs(m)
      BY <2>2, <1>3 DEF OwnOK
    <3>2. \A life \in {"live", "hist", "new", "doomed"} :
            HasParent(m, life) => HasParent(m, life)'
      BY <1>1, <1>3 DEF HasParent
    <3>. QED
      BY <2>2, <3>1, <3>2, <1>2, <1>4 DEF Hangs
  <2>. QED
    BY <2>1, <2>2
<1>6. ASSUME NEW u \in Working PROVE TakesOver(u)'
  <2>1. TakesOver(u) /\ \A o \in toFree[u] : o \in Node /\ st[o] = "live"
    BY Types DEF OwnOK, Inv, WorkOK, PathOK, Working
  <2>2. \A o \in toFree[u] : child'[o] = child[o]
    BY <1>1, <1>3, <2>1
  <2>3. \A m \in Node : st[m] = "new" => st'[m] = "new" /\ child'[m] = child[m]
    BY <1>1, <1>3
  <2>4. newRunner[u] \in Node /\ st[newRunner[u]] = "new"
    BY DEF Inv, WorkOK, CloneOK, Working
  <2>. QED
    BY <1>2, <2>1, <2>2, <2>3, <2>4 DEF TakesOver
<1>7. hpc' \in {"idle", "build"} => \A m \in Node : st'[m] # "doomed"
  BY <1>2, <1>3 DEF OwnOK
<1>. QED
  BY <1>4, <1>5, <1>6, <1>7 DEF OwnOK

\* A node that is added to the trie of the netlink handler and changes no other
\* link takes nothing from anybody.
LEMMA OwnHistory ==
  ASSUME Inv, OwnOK,
         (\E h \in History : history_begin(h)) \/ history_create
  PROVE  OwnOK'
<1>1. /\ UNCHANGED <<tree, toFree, tpc, newRoot, newRunner, old, walk, cb>>
      /\ hpc \in {"idle", "build"} /\ hpc' = "build"
  BY DEF history_begin, history_create, taskVars, rcuVars
<1>2. PICK n \in Node :
        /\ Adds(n, "hist")
        /\ n = hnew' \/ (hnew' = hnew /\ HasParent(n, "hist")')
        /\ \A m \in Node, d \in Bit :
             m # n /\ child[m][d] # NULL => child'[m][d] = child[m][d]
        /\ \A m \in Node : m # n /\ st[m] # "hist" => child'[m] = child[m]
        /\ hpc = "idle" \/ hnew' = hnew
  <2>1. CASE \E h \in History : history_begin(h)
    <3>1. hpc = "idle"
      BY <2>1 DEF history_begin
    <3>2. PICK n \in Node : /\ Adds(n, "hist")
                            /\ \A m \in Node : m # n => child'[m] = child[m]
                            /\ hnew' = n
      <4>1. PICK h \in History : history_begin(h)
        BY <2>1
      <4>. QED
        BY <4>1, HistoryBeginEffect
    <3>. QED
      BY <3>1, <3>2
  <2>2. CASE history_create
    <3>1. HistBit \in Bit /\ st[hrunner] = "hist" /\ child[hrunner][HistBit] = NULL
      BY <2>2, HistoryCreateEffect
    <3>2. PICK n \in Node : Adds(n, "hist") /\ Links(n, hrunner, HistBit)
      BY <2>2, HistoryCreateEffect
    <3>3. hnew' = hnew
      BY <2>2 DEF history_create
    <3>4. HasParent(n, "hist")'
      BY <3>1, <3>2 DEF HasParent, Adds, Links
    <3>. QED
      BY <3>1, <3>2, <3>3, <3>4 DEF Links
  <2>. QED
    BY <2>1, <2>2
<1>3. Working' = Working /\ Retiring' = Retiring
  BY <1>1 DEF Working, Retiring
<1>4. ASSUME NEW m \in Node PROVE Hangs(m)'
  <2>1. CASE m = n
    BY <2>1, <1>2 DEF Hangs, Adds
  <2>2. CASE m # n
    <3>1. st'[m] = st[m] /\ Hangs(m) /\ m # NULL
      BY <2>2, <1>2 DEF OwnOK, Adds
    <3>2. \A life \in {"live", "hist", "new", "doomed"} :
            HasParent(m, life) => HasParent(m, life)'
      BY <3>1, <1>2 DEF HasParent, Adds
    <3>3. st[m] = "hist" => hnew' = hnew
      BY <1>2 DEF Inv, HistOK
    <3>. QED
      BY <3>1, <3>2, <3>3, <1>1, <1>3 DEF Hangs, OwnOK
  <2>. QED
    BY <2>1, <2>2
<1>5. ASSUME NEW u \in Working PROVE TakesOver(u)'
  <2>1. TakesOver(u) /\ \A o \in toFree[u] : o \in Node /\ st[o] = "live"
    BY Types DEF OwnOK, Inv, WorkOK, PathOK, Working
  <2>2. \A o \in toFree[u] : child'[o] = child[o]
    BY <1>2, <2>1 DEF Adds
  <2>3. \A m \in Node : st[m] = "new" => st'[m] = "new" /\ child'[m] = child[m]
    BY <1>2 DEF Adds
  <2>4. newRunner[u] \in Node /\ st[newRunner[u]] = "new"
    BY DEF Inv, WorkOK, CloneOK, Working
  <2>. QED
    BY <1>1, <2>1, <2>2, <2>3, <2>4 DEF TakesOver
<1>6. \A m \in Node : st'[m] # "doomed"
  BY <1>1, <1>2 DEF OwnOK, Adds
<1>. QED
  BY <1>3, <1>4, <1>5, <1>6 DEF OwnOK

LEMMA OwnSwap ==
  ASSUME Inv, OwnOK, swap_tree
  PROVE  OwnOK'
<1>1. /\ UNCHANGED <<child, toFree, tpc, newRoot, walk, cb>>
      /\ hpc = "build" /\ hpc' = "swapped" /\ old' = tree /\ tree' = hnew
      /\ lock = NULL
  BY DEF swap_tree, mutex_lock, taskVars, rcuVars
<1>2. /\ \A m \in Node : st[m] = "live" => st'[m] = "doomed"
      /\ \A m \in Node : st[m] = "hist" => st'[m] = "live"
      /\ \A m \in Node : st[m] \notin {"live", "hist"} => st'[m] = st[m]
  BY DEF swap_tree
<1>3. /\ Working = {} /\ Working' = {} /\ Retiring' = Retiring
      /\ \A m \in Node : st[m] \notin {"new", "doomed"}
  BY <1>1, Types DEF Inv, LockOK, OwnOK, Working, Retiring
<1>4. ASSUME NEW m \in Node PROVE Hangs(m)'
  <2>1. Hangs(m)
    BY DEF OwnOK
  <2>2. /\ HasParent(m, "live") => HasParent(m, "doomed")'
        /\ HasParent(m, "hist") => HasParent(m, "live")'
    BY <1>1, <1>2 DEF HasParent
  <2>. QED
    BY <2>1, <2>2, <1>1, <1>2, <1>3 DEF Hangs
<1>. QED
  BY <1>1, <1>3, <1>4 DEF OwnOK

LEMMA OwnSynced ==
  ASSUME Inv, OwnOK, swap_synced
  PROVE  OwnOK'
<1>1. /\ UNCHANGED <<tree, child, st, hnew, cb, toFree, newRoot, newRunner, tpc>>
      /\ hpc = "sync" /\ hpc' = "free" /\ walk' = {old}
  BY DEF swap_synced, heapVars, taskVars, rcuVars, auxVars
<1>2. Working' = Working /\ Retiring' = Retiring
  BY <1>1 DEF Working, Retiring
<1>3. ASSUME NEW n \in Node PROVE Hangs(n)'
  <2>1. Hangs(n) /\ \A life : HasParent(n, life)' <=> HasParent(n, life)
    BY <1>1 DEF OwnOK, HasParent
  <2>2. st[n] = "hist" => FALSE
    BY <1>1 DEF Inv, HistOK
  <2>. QED
    BY <2>1, <2>2, <1>1, <1>2 DEF Hangs
<1>4. ASSUME NEW t \in Working PROVE TakesOver(t)'
  <2>1. TakesOver(t)
    BY DEF OwnOK
  <2>. QED
    BY <1>1, <2>1 DEF TakesOver
<1>. QED
  BY <1>1, <1>2, <1>3, <1>4 DEF OwnOK

LEMMA OwnFreeNode ==
  ASSUME Inv, OwnOK, NEW n \in walk, hcf_free_node(n)
  PROVE  OwnOK'
<1>1. n \in Node /\ st[n] = "doomed" /\ hpc = "free"
  BY Types DEF Inv, DoomedOK, hcf_free_node
<1>2. /\ UNCHANGED <<tree, toFree, tpc, newRoot, newRunner, hpc, hnew, old, cb>>
      /\ walk' = (walk \ {n}) \cup ({child[n][0], child[n][1]} \ {NULL})
  BY DEF hcf_free_node, taskVars, rcuVars
<1>3. /\ st'[n] = "free"
      /\ \A m \in Node : m # n => st'[m] = st[m] /\ child'[m] = child[m]
  BY <1>1, Types DEF Inv, hcf_free_node, kmem_cache_free
<1>4. Working' = Working /\ Retiring' = Retiring
  BY <1>2 DEF Working, Retiring
<1>5. ASSUME NEW m \in Node PROVE Hangs(m)'
  <2>1. CASE m = n
    BY <2>1, <1>3 DEF Hangs
  <2>2. CASE m # n
    <3>1. st'[m] = st[m] /\ Hangs(m) /\ m # NULL
      BY <2>2, <1>3 DEF OwnOK
    <3>2. \A life \in {"live", "hist", "new"} :
            HasParent(m, life) => HasParent(m, life)'
      BY <1>1, <1>3 DEF HasParent
    <3>3. HasParent(m, "doomed") => HasParent(m, "doomed")' \/ m \in walk'
      BY <3>1, <1>1, <1>2, <1>3 DEF HasParent
    <3>. QED
      BY <2>2, <3>1, <3>2, <3>3, <1>1, <1>2, <1>4 DEF Hangs
  <2>. QED
    BY <2>1, <2>2
<1>6. ASSUME NEW u \in Working PROVE TakesOver(u)'
  <2>1. TakesOver(u) /\ \A o \in toFree[u] : o \in Node /\ st[o] = "live"
    BY Types DEF OwnOK, Inv, WorkOK, PathOK, Working
  <2>2. \A o \in toFree[u] : child'[o] = child[o]
    BY <1>1, <1>3, <2>1
  <2>3. \A m \in Node : st[m] = "new" => st'[m] = "new" /\ child'[m] = child[m]
    BY <1>1, <1>3
  <2>4. newRunner[u] \in Node /\ st[newRunner[u]] = "new"
    BY DEF Inv, WorkOK, CloneOK, Working
  <2>. QED
    BY <1>2, <2>1, <2>2, <2>3, <2>4 DEF TakesOver
<1>. QED
  BY <1>1, <1>2, <1>4, <1>5, <1>6 DEF OwnOK

-----------------------------------------------------------------------------
(* The steps, and the levels of the nodes.                                 *)

\* Steps that leave the nodes alone.
LEMMA LevelFrame ==
  ASSUME NEW lv, Leveled(lv), UNCHANGED child,
         lv[tree'] = RootLvl,
         hpc' = "build" => lv[hnew'] = RootLvl /\ lv[hrunner'] = hbits',
         \A t \in Working' :
           t \in Working /\ UNCHANGED <<newRoot[t], newRunner[t], bits[t]>>,
         \A n \in Node :
           st'[n] \in {"live", "hist", "new", "doomed"} =>
             st[n] \in {"live", "hist", "new", "doomed"}
  PROVE  LevelOK'
<1>1. Leveled(lv)'
  BY DEF Leveled
<1>. QED
  BY <1>1 DEF LevelOK

\* Level k is right for n, a node that the step adds.
Fits(lv, n, k) ==
  /\ UNCHANGED tree
  /\ child' \in [Node -> [{0, 1} -> NodeOrNull]]
  /\ \A m \in Node, d \in Bit :
       m # n => \/ child'[m][d] = child[m][d]
                \/ child'[m][d] = n /\ lv[m] = k + 1
  /\ \A d \in Bit :
       child'[n][d] # NULL => child'[n][d] # n /\ lv[child'[n][d]] = k - 1
  /\ hpc' = "build" =>
       /\ {hnew', hrunner'} \subseteq Node
       /\ \/ hnew' = n /\ k = RootLvl
          \/ hnew' # n /\ lv[hnew'] = RootLvl
       /\ \/ hrunner' = n /\ k = hbits'
          \/ hrunner' # n /\ lv[hrunner'] = hbits'
  /\ \A t \in Working' :
       /\ {newRoot'[t], newRunner'[t]} \subseteq Node
       /\ \/ newRoot'[t] = n /\ k = RootLvl
          \/ newRoot'[t] # n /\ lv[newRoot'[t]] = RootLvl
       /\ \/ newRunner'[t] = n /\ k = bits'[t]
          \/ newRunner'[t] # n /\ lv[newRunner'[t]] = bits'[t]

LEMMA LevelAdd ==
  ASSUME Inv, NEW lv, Leveled(lv), NEW n \in Node, NEW k \in Level,
         NEW life, Adds(n, life), Fits(lv, n, k)
  PROVE  LevelOK'
<1>. DEFINE w == [lv EXCEPT ![n] = k]
<1>1. /\ w \in [Node -> Level] /\ w[n] = k
      /\ \A m \in Node : m # n => w[m] = lv[m]
  BY DEF Leveled
<1>2. tree \in Node /\ tree # n
  BY Types DEF Inv, LiveOK, Adds
<1>. USE DEF Fits
<1>3. ASSUME NEW m \in Node, NEW b \in Bit,
             st'[m] \in {"live", "hist", "new", "doomed"}, child'[m][b] # NULL
      PROVE  w[child'[m][b]] = w[m] - 1
  <2>1. child'[m][b] \in Node
    BY <1>3
  <2>2. CASE m = n
    BY <2>1, <2>2, <1>1, <1>3
  <2>3. CASE m # n /\ child'[m][b] = n /\ lv[m] = k + 1
    <3>1. k \in Int /\ w[m] = k + 1 /\ w[child'[m][b]] = k
      BY <2>3, <1>1 DEF Level
    <3>. HIDE DEF w
    <3>. QED
      BY <3>1
  <2>4. CASE m # n /\ child'[m][b] = child[m][b]
    <3>1. st[m] \in {"live", "hist", "new", "doomed"}
      BY <1>3, <2>4 DEF Adds
    <3>2. st[n] = "free"
      BY DEF Adds
    <3>3. child[m][b] # n
      BY <3>1, <3>2, NoneToFree
    <3>4. lv[child[m][b]] = lv[m] - 1
      BY <1>3, <2>4, <3>1 DEF Leveled
    <3>. QED
      BY <1>1, <2>1, <2>4, <3>3, <3>4
  <2>. QED
    BY <2>2, <2>3, <2>4
<1>4. w[tree'] = RootLvl
  BY <1>1, <1>2 DEF Leveled
<1>. HIDE DEF w
<1>5. hpc' = "build" => w[hnew'] = RootLvl /\ w[hrunner'] = hbits'
  BY <1>1
<1>6. \A t \in Working' : w[newRoot'[t]] = RootLvl /\ w[newRunner'[t]] = bits'[t]
  BY <1>1
<1>7. Leveled(w)'
  BY <1>1, <1>3, <1>4, <1>5, <1>6 DEF Leveled
<1>. QED
  BY <1>7 DEF LevelOK

LEMMA LevelCloneRoot ==
  ASSUME Inv, Inv', NEW lv, Leveled(lv), NEW t \in Task, work_clone_root(t)
  PROVE  LevelOK'
<1>1. PICK n \in Node \ alloc :
        /\ Allocate(n, meta[tree], "new")
        /\ child' = [child EXCEPT ![n] = child[tree]]
        /\ newRoot' = [newRoot EXCEPT ![t] = n]
        /\ newRunner' = [newRunner EXCEPT ![t] = n]
  BY DEF work_clone_root, kmem_cache_zalloc
<1>2. /\ st[n] = "free" /\ child'[n] = child[tree]
      /\ \A m \in Node : m # n => child'[m] = child[m]
      /\ Adds(n, "new")
  BY <1>1, Types DEF Inv, LifeOK, Allocate, Adds
<1>3. /\ UNCHANGED <<tree, hnew, hrunner, hbits, hpc>>
      /\ tpc[t] = "queued" /\ tpc'[t] = "clone" /\ lock = NULL
      /\ \A u \in Task : u # t => tpc'[u] = tpc[u]
      /\ newRoot'[t] = n /\ newRunner'[t] = n /\ bits'[t] = RootLvl /\ tree \in Node
  <2>1. bits \in [Task -> Level]
    BY DEF Inv, TypeInv, TypeOK
  <2>. QED
    BY <1>1, <2>1, Types DEF Inv, work_clone_root, mutex_lock, histVars
<1>4. Working' = {t}
  BY <1>3 DEF Working, Inv, LockOK
<1>5. \A d \in Bit : child'[n][d] # NULL => child'[n][d] # n /\ lv[child'[n][d]] = RootLvl - 1
  BY <1>2, <1>3, NoneToFree DEF Leveled, Inv, LiveOK
<1>6. hpc' = "build" => /\ hnew' # n /\ hrunner' # n /\ {hnew', hrunner'} \subseteq Node
                        /\ lv[hnew'] = RootLvl /\ lv[hrunner'] = hbits'
  BY <1>2, <1>3 DEF Inv, HistOK, Leveled
<1>7. RootLvl \in Level
  BY DEF Level
<1>8. child' \in [Node -> [{0, 1} -> NodeOrNull]]
  BY DEF Inv, TypeInv, TypeOK
<1>. QED
  BY <1>2, <1>3, <1>4, <1>5, <1>6, <1>7, <1>8, LevelAdd DEF Fits

\* The level of the node that a turn of one of the loops adds.
LEMMA LevelTurn ==
  ASSUME Inv, Inv', NEW lv, Leveled(lv), NEW t \in Task, work_clone(t) \/ work_create(t)
  PROVE  LevelOK'
<1>1. /\ UNCHANGED <<tree, hnew, hrunner, hbits, hpc, newRoot>>
      /\ tpc[t] \in {"clone", "create"} /\ tpc'[t] \in {"clone", "create"}
      /\ \A u \in Task : u # t => tpc'[u] = tpc[u]
      /\ bits'[t] = bits[t] - 1
  <2>1. bits \in [Task -> Level]
    BY DEF Inv, TypeInv, TypeOK
  <2>. QED
    BY <2>1, Types DEF Inv, work_clone, work_create, histVars
<1>2. TaskBit(t) \in Bit /\ st[newRunner[t]] = "new" /\ t \in Working
  BY CloneEffect, CreateEffect
<1>3. PICK n \in Node :
        /\ Adds(n, "new") /\ Links(n, newRunner[t], TaskBit(t))
        /\ newRunner' = [newRunner EXCEPT ![t] = n]
        /\ \A d \in Bit : child'[n][d] # NULL => lv[child'[n][d]] = bits[t] - 2
                                                /\ child'[n][d] # n
  <2>1. CASE work_clone(t)
    <3>1. PICK n \in Node : /\ Adds(n, "new")
                            /\ Links(n, newRunner[t], TaskBit(t))
                            /\ child'[n] = child[OldChild(t)]
                            /\ newRunner' = [newRunner EXCEPT ![t] = n]
      BY <2>1, CloneEffect
    <3>2. /\ OldChild(t) \in Node /\ st[OldChild(t)] = "live"
          /\ child[newRunner[t]] = child[runner[t]]
      BY <2>1, CloneEffect
    <3>3. lv[OldChild(t)] = bits[t] - 1
      <4>1. OldChild(t) = child[newRunner[t]][TaskBit(t)] /\ OldChild(t) # NULL
        BY <3>2 DEF OldChild
      <4>2. lv[newRunner[t]] = bits[t] /\ newRunner[t] \in Node
        BY <1>2, <3>1 DEF Leveled, Links
      <4>. QED
        BY <1>2, <4>1, <4>2 DEF Leveled
    <3>4. \A d \in Bit : child'[n][d] # n
      BY <3>1, <3>2, NoneToFree DEF Adds
    <3>5. bits[t] \in Int
      BY Types DEF Inv, TypeInv, TypeOK, Level
    <3>6. \A d \in Bit : child'[n][d] # NULL => lv[child'[n][d]] = bits[t] - 2
      BY <3>1, <3>2, <3>3, <3>5 DEF Leveled
    <3>. QED
      BY <3>1, <3>4, <3>6
  <2>2. CASE work_create(t)
    BY <2>2, CreateEffect
  <2>. QED
    BY <2>1, <2>2
<1>4. Working' = {t} /\ Working = {t}
  BY <1>1 DEF Working, Inv, LockOK
<1>5. bits'[t] \in Level /\ bits[t] \in Level /\ bits[t] \in Int
  BY DEF Inv, TypeInv, TypeOK, Level
<1>6. hpc' = "build" => /\ hnew' # n /\ hrunner' # n /\ {hnew', hrunner'} \subseteq Node
                        /\ lv[hnew'] = RootLvl /\ lv[hrunner'] = hbits'
  BY <1>1, <1>3 DEF Inv, HistOK, Leveled, Adds
<1>7. /\ newRunner'[t] = n
      /\ newRoot'[t] # n /\ newRoot'[t] \in Node /\ lv[newRoot'[t]] = RootLvl
  <2>1. Is(newRoot[t], "new")
    BY <1>1 DEF Inv, WorkOK, CloneOK
  <2>. QED
    BY <1>1, <1>3, <1>4, <2>1, Types DEF Inv, Leveled, Adds
<1>8. ASSUME NEW m \in Node, NEW d \in Bit, m # n
      PROVE  \/ child'[m][d] = child[m][d]
             \/ child'[m][d] = n /\ lv[m] = bits'[t] + 1
  <2>1. lv[newRunner[t]] = bits[t]
    BY <1>4 DEF Leveled
  <2>. QED
    BY <1>1, <1>3, <1>5, <1>8, <2>1 DEF Links
<1>9. child' \in [Node -> [{0, 1} -> NodeOrNull]]
  BY DEF Inv, TypeInv, TypeOK
<1>10. PICK k \in Level : k = bits'[t]
  BY <1>5
<1>11. \A d \in Bit : child'[n][d] # NULL => child'[n][d] # n /\ lv[child'[n][d]] = k - 1
  BY <1>1, <1>3, <1>5, <1>10
<1>. QED
  BY <1>1, <1>3, <1>4, <1>6, <1>7, <1>8, <1>9, <1>10, <1>11, LevelAdd DEF Fits

LEMMA LevelHistory ==
  ASSUME Inv, Inv', NEW lv, Leveled(lv),
         (\E h \in History : history_begin(h)) \/ history_create
  PROVE  LevelOK'
<1>1. UNCHANGED <<tree, tpc, newRoot, newRunner, bits>> /\ hpc' = "build"
  BY DEF history_begin, history_create, taskVars
<1>2. Working' = Working
  BY <1>1 DEF Working
<1>3. \A t \in Working : /\ lv[newRoot[t]] = RootLvl /\ lv[newRunner[t]] = bits[t]
                         /\ Is(newRoot[t], "new") /\ Is(newRunner[t], "new")
  BY DEF Leveled, Inv, WorkOK, CloneOK, Working
<1>4. child' \in [Node -> [{0, 1} -> NodeOrNull]]
  BY DEF Inv, TypeInv, TypeOK
<1>5. hbits' \in Level /\ hbits \in Level /\ hbits \in Int
  BY DEF Inv, TypeInv, TypeOK, Level
<1>6. CASE \E h \in History : history_begin(h)
  <2>1. PICK n \in Node : /\ Adds(n, "hist")
                          /\ \A m \in Node : m # n => child'[m] = child[m]
                          /\ \A d \in Bit : child'[n][d] = NULL
                          /\ hnew' = n /\ hrunner' = n
    <3>1. PICK h \in History : history_begin(h)
      BY <1>6
    <3>. QED
      BY <3>1, HistoryBeginEffect
  <2>2. hbits' = RootLvl
    BY <1>6 DEF history_begin
  <2>3. \A t \in Working' : /\ newRoot'[t] # n /\ lv[newRoot'[t]] = RootLvl
                            /\ newRunner'[t] # n /\ lv[newRunner'[t]] = bits'[t]
                            /\ {newRoot'[t], newRunner'[t]} \subseteq Node
    BY <1>1, <1>2, <1>3, <2>1 DEF Adds
  <2>4. RootLvl \in Level
    BY DEF Level
  <2>. QED
    <3>1. \A d \in Bit :
            child'[n][d] # NULL => child'[n][d] # n /\ lv[child'[n][d]] = RootLvl - 1
      BY <2>1
    <3>2. \A m \in Node, d \in Bit :
            m # n => \/ child'[m][d] = child[m][d]
                     \/ child'[m][d] = n /\ lv[m] = RootLvl + 1
      BY <2>1
    <3>3. \A t \in Working' :
            /\ \/ newRoot'[t] = n /\ RootLvl = RootLvl
               \/ newRoot'[t] # n /\ lv[newRoot'[t]] = RootLvl
            /\ \/ newRunner'[t] = n /\ RootLvl = bits'[t]
               \/ newRunner'[t] # n /\ lv[newRunner'[t]] = bits'[t]
      BY <2>3
    <3>4. \A t \in Working' : {newRoot'[t], newRunner'[t]} \subseteq Node
      BY <2>3
    <3>5. /\ hnew' = n /\ hrunner' = n /\ hbits' = RootLvl
          /\ {hnew', hrunner'} \subseteq Node
          /\ Adds(n, "hist") /\ UNCHANGED tree
      BY <1>1, <2>1, <2>2
    <3>. QED
      <4>1. Fits(lv, n, RootLvl)
        BY <1>4, <3>1, <3>2, <3>3, <3>4, <3>5 DEF Fits
      <4>. QED
        BY <2>4, <3>5, <4>1, LevelAdd
<1>7. CASE history_create
  <2>1. PICK n \in Node : /\ Adds(n, "hist")
                          /\ Links(n, hrunner, HistBit)
                          /\ \A d \in Bit : child'[n][d] = NULL
                          /\ hrunner' = n
    BY <1>7, HistoryCreateEffect
  <2>2. hbits' = hbits - 1 /\ hnew' = hnew /\ hpc = "build"
    BY <1>7 DEF history_create
  <2>3. \A t \in Working' : /\ newRoot'[t] # n /\ lv[newRoot'[t]] = RootLvl
                            /\ newRunner'[t] # n /\ lv[newRunner'[t]] = bits'[t]
                            /\ {newRoot'[t], newRunner'[t]} \subseteq Node
    BY <1>1, <1>2, <1>3, <2>1 DEF Adds
  <2>4. PICK k \in Level : k = hbits'
    BY <1>5
  <2>5. /\ hnew' # n /\ hnew' \in Node /\ lv[hnew'] = RootLvl
        /\ lv[hrunner] = k + 1
    BY <1>5, <2>1, <2>2, <2>4 DEF Leveled, Inv, HistOK, Adds
  <2>6. \A m \in Node, d \in Bit :
          m # n => \/ child'[m][d] = child[m][d]
                   \/ child'[m][d] = n /\ lv[m] = k + 1
    BY <2>1, <2>5 DEF Links
  <2>. QED
    <3>1. \A d \in Bit :
            child'[n][d] # NULL => child'[n][d] # n /\ lv[child'[n][d]] = k - 1
      BY <2>1
    <3>2. /\ hnew' # n /\ lv[hnew'] = RootLvl /\ hrunner' = n /\ k = hbits'
          /\ {hnew', hrunner'} \subseteq Node
      BY <2>1, <2>4, <2>5
    <3>3. Adds(n, "hist") /\ UNCHANGED tree
      BY <1>1, <2>1
    <3>4. \A t \in Working' :
            /\ \/ newRoot'[t] = n /\ k = RootLvl
               \/ newRoot'[t] # n /\ lv[newRoot'[t]] = RootLvl
            /\ \/ newRunner'[t] = n /\ k = bits'[t]
               \/ newRunner'[t] # n /\ lv[newRunner'[t]] = bits'[t]
      BY <2>3
    <3>5. \A t \in Working' : {newRoot'[t], newRunner'[t]} \subseteq Node
      BY <2>3
    <3>. QED
      <4>1. Fits(lv, n, k)
        BY <1>4, <2>6, <3>1, <3>2, <3>3, <3>4, <3>5 DEF Fits
      <4>. QED
        BY <3>3, <4>1, LevelAdd
<1>. QED
  BY <1>6, <1>7

\* The steps that add no node.
LEMMA LevelOther ==
  ASSUME Inv, NEW lv, Leveled(lv),
         \/ \E t \in Task, ip \in Source, ttl \in Ttl : hcf_register_ip(t, ip, ttl)
         \/ \E t \in Task : \/ work_publish(t) \/ work_announce(t)
                            \/ work_retire(t) \/ work_end(t)
         \/ \E r \in Reader, ip \in Source, ttl \in Ttl : lookup_enter(r, ip, ttl)
         \/ \E r \in Reader : LookupStep(r)
         \/ history_descend \/ history_set \/ swap_tree \/ swap_sync \/ swap_synced
         \/ history_end
         \/ UNCHANGED vars
  PROVE  LevelOK'
<1>1. ASSUME NEW t \in Task,
             \/ \E ip \in Source, ttl \in Ttl : hcf_register_ip(t, ip, ttl)
             \/ work_publish(t) \/ work_announce(t) \/ work_retire(t) \/ work_end(t)
      PROVE  LevelOK'
  <2>1. /\ UNCHANGED <<child, hpc, hnew, hrunner, hbits>>
        /\ tpc'[t] \notin {"clone", "create"}
        /\ \A u \in Task : u # t => /\ tpc'[u] = tpc[u]
                                     /\ newRoot'[u] = newRoot[u]
                                     /\ newRunner'[u] = newRunner[u]
                                     /\ bits'[u] = bits[u]
    <3>1. bits \in [Task -> Level]
      BY DEF Inv, TypeInv, TypeOK
    <3>. QED
      BY <1>1, <3>1, Types DEF Inv, hcf_register_ip, work_publish, work_announce,
         work_retire, work_end, heapVars, histVars
  <2>2. \A u \in Working' : u \in Working /\ UNCHANGED <<newRoot[u], newRunner[u], bits[u]>>
    BY <2>1 DEF Working
  <2>3. lv[tree'] = RootLvl
    <3>1. CASE work_publish(t)
      BY <3>1 DEF Leveled, work_publish, Working
    <3>2. CASE ~work_publish(t)
      BY <3>2, <1>1 DEF Leveled, hcf_register_ip, work_announce, work_retire,
         work_end, heapVars
    <3>. QED
      BY <3>1, <3>2
  <2>4. \A n \in Node : st'[n] \in {"live", "hist", "new", "doomed"} =>
                          st[n] \in {"live", "hist", "new", "doomed"}
    BY <1>1, Types DEF Inv, hcf_register_ip, work_publish, work_announce, work_retire,
       work_end, auxVars
  <2>. QED
    BY <2>1, <2>2, <2>3, <2>4, LevelFrame DEF Leveled
<1>2. CASE \/ \E r \in Reader, ip \in Source, ttl \in Ttl : lookup_enter(r, ip, ttl)
           \/ \E r \in Reader : LookupStep(r)
           \/ swap_sync \/ swap_synced \/ history_end
           \/ UNCHANGED vars
  <2>1. /\ UNCHANGED <<tree, child, st, tpc, newRoot, newRunner, bits>>
        /\ hpc' = "build" => UNCHANGED <<hpc, hnew, hrunner, hbits>>
    BY <1>2 DEF lookup_enter, LookupStep, lookup_step, lookup_end, rcu_read_unlock,
       swap_sync, swap_synced, history_end, vars, heapVars, taskVars, histVars, auxVars
  <2>2. Working' = Working
    BY <2>1 DEF Working
  <2>. QED
    BY <2>1, <2>2, LevelFrame DEF Leveled
<1>3. CASE history_descend
  <2>1. /\ UNCHANGED <<tree, child, st, tpc, newRoot, newRunner, bits, hnew, hpc>>
        /\ hpc = "build" /\ hrunner' = child[hrunner][HistBit] /\ hrunner' # NULL
        /\ hbits' = hbits - 1
    BY <1>3 DEF history_descend, heapVars, taskVars, auxVars
  <2>2. Working' = Working
    BY <2>1 DEF Working
  <2>3. lv[hrunner'] = hbits'
    <3>1. HistBit \in Bit /\ Is(hrunner, "hist")
      BY <2>1, BitAtType DEF Inv, HistOK, HistBit
    <3>. QED
      BY <2>1, <3>1 DEF Leveled
  <2>. QED
    BY <2>1, <2>2, <2>3, LevelFrame DEF Leveled
<1>4. CASE history_set
  <2>1. /\ UNCHANGED <<tree, child, st, tpc, newRoot, newRunner, bits, hnew, hpc>>
        /\ hpc = "build" /\ hrunner' = hnew /\ hbits' = RootLvl
    BY <1>4 DEF history_set, taskVars, auxVars
  <2>2. Working' = Working
    BY <2>1 DEF Working
  <2>. QED
    BY <2>1, <2>2, LevelFrame DEF Leveled
<1>5. CASE swap_tree
  <2>1. /\ UNCHANGED <<child, tpc, newRoot, newRunner, bits>>
        /\ hpc = "build" /\ hpc' = "swapped" /\ tree' = hnew
        /\ \A n \in Node : st'[n] \in {"live", "hist", "new", "doomed"} =>
                             st[n] \in {"live", "hist", "new", "doomed"}
    BY <1>5 DEF swap_tree, taskVars
  <2>2. Working' = Working
    BY <2>1 DEF Working
  <2>. QED
    BY <2>1, <2>2, LevelFrame DEF Leveled
<1>. QED
  BY <1>1, <1>2, <1>3, <1>4, <1>5

\* Nodes that are freed take no level with them.
LEMMA LevelFree ==
  ASSUME Inv, NEW lv, Leveled(lv), NEW n \in Node,
         hcf_free_node_rcu(n) \/ hcf_free_node(n)
  PROVE  LevelOK'
<1>1. /\ UNCHANGED <<tree, tpc, newRoot, newRunner, bits, hpc, hnew, hrunner, hbits>>
      /\ st'[n] = "free"
      /\ \A m \in Node : m # n => st'[m] = st[m] /\ child'[m] = child[m]
  BY Types DEF Inv, hcf_free_node_rcu, hcf_free_node, kmem_cache_free, taskVars, histVars
<1>2. Working' = Working
  BY <1>1 DEF Working
<1>3. Leveled(lv)'
  BY <1>1, <1>2 DEF Leveled
<1>. QED
  BY <1>3 DEF LevelOK

LEMMA LevelStep ==
  ASSUME Inv, Inv', LevelOK, [Next]_vars
  PROVE  LevelOK'
<1>1. PICK lv : Leveled(lv)
  BY DEF LevelOK
<1>2. ASSUME NEW t \in Task, WorkStep(t) PROVE LevelOK'
  BY <1>1, <1>2, LevelCloneRoot, LevelTurn, LevelOther DEF WorkStep
<1>3. ASSUME HistoryStep PROVE LevelOK'
  <2>1. ASSUME NEW n \in walk, hcf_free_node(n) PROVE LevelOK'
    BY <1>1, <2>1, LevelFree, Types DEF Inv
  <2>2. ASSUME history_create PROVE LevelOK'
    BY <1>1, <2>2, LevelHistory
  <2>. QED
    BY <1>1, <1>3, <2>1, <2>2, LevelOther DEF HistoryStep
<1>4. ASSUME NEW n \in cb, hcf_free_node_rcu(n) PROVE LevelOK'
  BY <1>1, <1>4, LevelFree, Types DEF Inv
<1>5. ASSUME NEW h \in History, history_begin(h) PROVE LevelOK'
  BY <1>1, <1>5, LevelHistory
<1>6. ASSUME \/ \E t \in Task, ip \in Source, ttl \in Ttl : hcf_register_ip(t, ip, ttl)
             \/ \E r \in Reader, ip \in Source, ttl \in Ttl : lookup_enter(r, ip, ttl)
             \/ \E r \in Reader : LookupStep(r)
             \/ UNCHANGED vars
      PROVE  LevelOK'
  BY <1>1, <1>6, LevelOther
<1>. QED
  BY <1>2, <1>3, <1>4, <1>5, <1>6 DEF Next

-----------------------------------------------------------------------------
(* What hangs below a root is reached from it.                             *)

LEMMA ReachAll ==
  ASSUME TypeOK, NEW S \in SUBSET NodeOrNull, NEW X \in SUBSET Node,
         NEW lv \in [Node -> Level],
         \A n \in X :
           \/ n \in S
           \/ \E p \in X, b \in Bit : child[p][b] = n /\ lv[n] = lv[p] - 1
  PROVE  X \subseteq Reach(S)
<1>1. PICK g \in [0..Depth -> SUBSET Node] :
        /\ g[0] = S \ {NULL}
        /\ \A i \in 1..Depth : g[i] = g[i - 1] \cup Below(g[i - 1])
        /\ Reach(S) = g[Depth]
  BY ReachIterates
<1>2. Depth \in Nat
  BY DEF Depth
\* After i turns the nodes of the upper i levels are there.
<1>. DEFINE Upper(i) == /\ S \ {NULL} \subseteq g[i]
                        /\ \A n \in X : lv[n] >= RootLvl - i => n \in g[i]
            Bad == {i \in 0..Depth : ~Upper(i)}
<1>3. Upper(0)
  <2>1. ASSUME NEW n \in X, lv[n] >= RootLvl, NEW p \in X, lv[n] = lv[p] - 1
        PROVE  FALSE
    <3>1. lv[p] \in Level /\ lv[n] \in Level
      OBVIOUS
    <3>. QED
      BY <2>1, <3>1 DEF Level
  <2>2. ASSUME NEW n \in X, lv[n] >= RootLvl - 0 PROVE n \in g[0]
    <3>1. lv[n] >= RootLvl
      BY <2>2
    <3>2. n \in S /\ n # NULL
      BY <2>1, <3>1
    <3>. QED
      BY <1>1, <3>2
  <2>. QED
    BY <1>1, <2>2
<1>4. ASSUME NEW i \in 1..Depth, Upper(i - 1) PROVE Upper(i)
  <2>1. g[i] = g[i - 1] \cup Below(g[i - 1])
    BY <1>1
  <2>2. S \ {NULL} \subseteq g[i]
    BY <1>4, <2>1
  <2>3. ASSUME NEW n \in X, lv[n] >= RootLvl - i PROVE n \in g[i]
    <3>1. CASE n \in S
      BY <2>2, <3>1
    <3>2. ASSUME NEW p \in X, NEW b \in Bit, child[p][b] = n, lv[n] = lv[p] - 1
          PROVE  n \in g[i]
      <4>1. lv[p] \in Level /\ lv[n] \in Level /\ i \in Int
        BY <1>2
      <4>2. lv[p] >= RootLvl - (i - 1)
        BY <2>3, <3>2, <4>1 DEF Level
      <4>3. p \in g[i - 1]
        BY <1>4, <4>2
      <4>. QED
        BY <2>1, <3>2, <4>3 DEF Below
    <3>. QED
      BY <3>1, <3>2
  <2>. QED
    BY <2>2, <2>3
<1>5. Bad = {}
  <2>1. SUFFICES ASSUME Bad # {} PROVE FALSE
    OBVIOUS
  <2>2. PICK i \in Bad : \A j \in Bad : i <= j
    <3>1. Bad \subseteq Nat
      BY <1>2
    <3>. HIDE DEF Bad
    <3>. QED
      BY <2>1, <3>1, Smallest
  <2>3. i \in 0..Depth /\ ~Upper(i) /\ i # 0
    BY <1>3
  <2>. HIDE DEF Upper
  <2>4. i \in 1..Depth /\ i - 1 \in 0..Depth /\ ~(i <= i - 1)
    BY <1>2, <2>3
  <2>5. Upper(i - 1)
    BY <2>2, <2>4
  <2>. QED
    BY <1>4, <2>3, <2>4, <2>5
<1>6. Upper(Depth)
  <2>1. Depth \in 0..Depth
    BY <1>2
  <2>. HIDE DEF Upper
  <2>. QED
    BY <1>5, <2>1
<1>7. ASSUME NEW n \in X PROVE n \in g[Depth]
  <2>1. lv[n] \in Level
    OBVIOUS
  <2>2. lv[n] >= RootLvl - Depth
    BY <2>1 DEF Level, Depth
  <2>. QED
    BY <1>6, <2>2
<1>. QED
  BY <1>1, <1>7

\* The nodes of one part that are not below another one of it are its roots.
LEMMA PartReached ==
  ASSUME TypeOK, NEW lv, Leveled(lv), NEW S \in SUBSET NodeOrNull,
         NEW life \in {"live", "hist", "new", "doomed"},
         \A n \in Node : st[n] = life => n \in S \/ HasParent(n, life)
  PROVE  \A n \in Node : st[n] = life => n \in Reach(S)
<1>. DEFINE X == {n \in Node : st[n] = life}
<1>1. ASSUME NEW n \in X, n \notin S
      PROVE  \E p \in X, b \in Bit : child[p][b] = n /\ lv[n] = lv[p] - 1
  <2>1. PICK p \in Node, b \in Bit : st[p] = life /\ child[p][b] = n
    BY <1>1 DEF HasParent
  <2>2. lv[n] = lv[p] - 1
    BY <2>1 DEF Leveled
  <2>. QED
    BY <2>1, <2>2
<1>2. lv \in [Node -> Level] /\ X \in SUBSET Node
  BY DEF Leveled
<1>. HIDE DEF X
<1>3. X \subseteq Reach(S)
  BY <1>1, <1>2, ReachAll
<1>. QED
  BY <1>3 DEF X

\* hcf_free_node has freed the whole trie when it returns.
LEMMA WalkComplete ==
  ASSUME Inv, OwnOK, LevelOK, hpc = "free"
  PROVE  \A n \in Node : st[n] = "doomed" => n \in Reach(walk)
<1>1. PICK lv : Leveled(lv)
  BY DEF LevelOK
<1>2. \A n \in Node : st[n] = "doomed" => n \in walk \/ HasParent(n, "doomed")
  BY DEF OwnOK, Hangs
<1>3. TypeOK /\ walk \in SUBSET NodeOrNull
  BY Types DEF Inv, TypeInv
<1>. QED
  BY <1>1, <1>2, <1>3, PartReached

LEMMA OwnHistoryEnd ==
  ASSUME Inv, OwnOK, LevelOK, history_end
  PROVE  OwnOK'
<1>1. /\ UNCHANGED <<tree, child, st, cb, toFree, newRoot, newRunner, tpc, walk>>
      /\ hpc = "free" /\ hpc' = "idle" /\ walk = {}
  BY DEF history_end, heapVars, taskVars, rcuVars, auxVars
<1>2. \A n \in Node : st[n] # "doomed"
  <2>1. Reach({}) \subseteq {}
    <3>1. TypeOK /\ {} \in SUBSET NodeOrNull
      BY DEF Inv, TypeInv
    <3>. QED
      BY <3>1, ReachWithin
  <2>. QED
    BY <1>1, <2>1, WalkComplete
<1>3. Working' = Working /\ Retiring' = Retiring
  BY <1>1 DEF Working, Retiring
<1>4. ASSUME NEW n \in Node PROVE Hangs(n)'
  <2>1. Hangs(n) /\ \A life : HasParent(n, life)' <=> HasParent(n, life)
    BY <1>1 DEF OwnOK, HasParent
  <2>2. st[n] # "hist" /\ st[n] # "doomed"
    BY <1>1, <1>2 DEF Inv, HistOK
  <2>. QED
    BY <2>1, <2>2, <1>1, <1>3 DEF Hangs
<1>5. ASSUME NEW t \in Working PROVE TakesOver(t)'
  <2>1. TakesOver(t)
    BY DEF OwnOK
  <2>. QED
    BY <1>1, <2>1 DEF TakesOver
<1>. QED
  BY <1>1, <1>2, <1>3, <1>4, <1>5 DEF OwnOK

LEMMA OwnStep ==
  ASSUME Inv, OwnOK, LevelOK, [Next]_vars
  PROVE  OwnOK'
<1>1. ASSUME NEW t \in Task, WorkStep(t) PROVE OwnOK'
  BY <1>1, OwnCloneRoot, OwnClone, OwnCreate, OwnPublish, OwnAnnounce, OwnRetire,
     OwnEnd DEF WorkStep
<1>2. ASSUME HistoryStep PROVE OwnOK'
  <2>1. ASSUME NEW n \in walk, hcf_free_node(n) PROVE OwnOK'
    BY <2>1, OwnFreeNode
  <2>. QED
    BY <1>2, <2>1, OwnLookup, OwnHistory, OwnSwap, OwnSynced, OwnHistoryEnd DEF HistoryStep
<1>3. ASSUME NEW n \in cb, hcf_free_node_rcu(n) PROVE OwnOK'
  BY <1>3, OwnFreeRcu
<1>4. ASSUME NEW h \in History, history_begin(h) PROVE OwnOK'
  BY <1>4, OwnHistory
<1>5. ASSUME NEW t \in Task, NEW ip \in Source, NEW ttl \in Ttl, hcf_register_ip(t, ip, ttl)
      PROVE  OwnOK'
  BY <1>5, OwnRegister
<1>6. ASSUME \/ \E r \in Reader, ip \in Source, ttl \in Ttl : lookup_enter(r, ip, ttl)
             \/ \E r \in Reader : LookupStep(r)
             \/ UNCHANGED vars
      PROVE  OwnOK'
  BY <1>6, OwnLookup
<1>. QED
  BY <1>1, <1>2, <1>3, <1>4, <1>5, <1>6 DEF Next

\* The shape of the heap that the leak freedom rests on: every node in use
\* hangs below a root that somebody still has, at its level.
THEOREM Owned == Spec => [](Inv /\ OwnOK /\ LevelOK)
<1>1. Init => OwnOK /\ LevelOK
  BY OwnInit
<1>2. Inv /\ Inv' /\ (OwnOK /\ LevelOK) /\ [Next]_vars => (OwnOK /\ LevelOK)'
  BY OwnStep, LevelStep
<1>. QED
  BY <1>1, <1>2, Inductive, PTL DEF Spec

-----------------------------------------------------------------------------
\* Every allocated node is where one of the threads will find it.
LEMMA AllFound ==
  ASSUME Inv, OwnOK, LevelOK
  PROVE  NoLeak
<1>. DEFINE NewRoots == {newRoot[t] : t \in Working}
            Listed == UNION {toFree[t] : t \in Task}
            All == UNION {Reach({tree}), NewTrie, OldTrie, cb, Reach(NewRoots), Listed}
<1>1. PICK lv : Leveled(lv)
  BY DEF LevelOK
<1>2. TypeOK /\ \A n \in Node : n \in alloc <=> st[n] # "free"
  BY DEF Inv, TypeInv, LifeOK
<1>3. ASSUME NEW n \in All PROVE n \in Node /\ st[n] # "free"
  <2>1. CASE n \in Reach({tree}) \cup NewTrie \cup OldTrie \cup Reach(NewRoots)
    BY <2>1, Parts
  <2>2. CASE n \in cb
    BY <2>2, Types DEF Inv, LifeOK
  <2>3. CASE n \in Listed
    <3>1. PICK t \in Task : n \in toFree[t]
      BY <2>3
    <3>2. n \in Node /\ tpc[t] \notin {"none", "queued", "done"}
      BY <3>1, Types DEF Inv, ToFreeOK
    <3>3. CASE t \in Working
      BY <3>1, <3>2, <3>3 DEF Inv, WorkOK, PathOK, Working
    <3>4. CASE t \in Retiring
      BY <3>1, <3>2, <3>4 DEF Inv, ToFreeOK
    <3>. QED
      BY <3>2, <3>3, <3>4, Types DEF Inv, Working, Retiring
  <2>. QED
    BY <1>3, <2>1, <2>2, <2>3
<1>4. ASSUME NEW n \in Node, st[n] # "free" PROVE n \in All
  <2>1. Hangs(n)
    BY DEF OwnOK
  <2>2. CASE st[n] = "live"
    <3>1. \A m \in Node : st[m] = "live" => m \in {tree} \/ HasParent(m, "live")
      BY DEF OwnOK, Hangs
    <3>2. {tree} \in SUBSET NodeOrNull
      BY <1>2, Types DEF Inv
    <3>3. n \in Reach({tree})
      BY <1>1, <1>2, <2>2, <3>1, <3>2, PartReached
    <3>. QED
      BY <3>3
  <2>3. CASE st[n] = "hist"
    <3>1. hpc = "build"
      BY <2>3 DEF Inv, HistOK
    <3>2. \A m \in Node : st[m] = "hist" => m \in {hnew} \/ HasParent(m, "hist")
      BY DEF OwnOK, Hangs
    <3>3. {hnew} \in SUBSET NodeOrNull
      BY <3>1 DEF Inv, HistOK
    <3>4. n \in Reach({hnew})
      BY <1>1, <1>2, <2>3, <3>2, <3>3, PartReached
    <3>. QED
      BY <3>1, <3>4 DEF NewTrie
  <2>4. CASE st[n] = "new"
    <3>1. \A m \in Node : st[m] = "new" => m \in NewRoots \/ HasParent(m, "new")
      BY DEF OwnOK, Hangs
    <3>2. NewRoots \in SUBSET NodeOrNull
      BY Types DEF Inv, Working
    <3>. HIDE DEF NewRoots
    <3>3. n \in Reach(NewRoots)
      BY <1>1, <1>2, <2>4, <3>1, <3>2, PartReached
    <3>. QED
      BY <3>3
  <2>5. CASE st[n] = "doomed"
    <3>1. hpc \in {"swapped", "sync", "free"}
      BY <1>2, <2>5 DEF OwnOK, TypeOK
    <3>2. CASE hpc = "free"
      <4>1. n \in Reach(walk)
        BY <2>5, <3>2, WalkComplete
      <4>. QED
        BY <3>2, <4>1 DEF OldTrie
    <3>3. CASE hpc \in {"swapped", "sync"}
      <4>1. \A m \in Node : st[m] = "doomed" => m \in {old} \/ HasParent(m, "doomed")
        BY <3>3 DEF OwnOK, Hangs
      <4>2. {old} \in SUBSET NodeOrNull
        BY <3>3 DEF Inv, DoomedOK
      <4>3. n \in Reach({old})
        BY <1>1, <1>2, <2>5, <4>1, <4>2, PartReached
      <4>. QED
        BY <3>3, <4>3 DEF OldTrie
    <3>. QED
      BY <3>1, <3>2, <3>3
  <2>6. CASE st[n] = "retired"
    BY <2>1, <2>6 DEF Hangs, Retiring
  <2>7. CASE st[n] = "cb"
    BY <2>1, <2>7 DEF Hangs
  <2>. QED
    BY <1>4, <2>2, <2>3, <2>4, <2>5, <2>6, <2>7, Types DEF Inv, Life
<1>5. alloc \subseteq Node
  BY <1>2 DEF TypeOK
<1>. HIDE DEF All
<1>6. alloc = All
  BY <1>2, <1>3, <1>4, <1>5
<1>. QED
  BY <1>6 DEF NoLeak, All

\* No node is lost: whatever learning, replacing the trie, lookups and
\* callbacks do to each other, each allocated node is in a trie or a list of
\* which some thread will free it.
THEOREM NothingLeaks == Spec => []NoLeak
  BY Owned, AllFound, PTL

=============================================================================
