---------------------------- MODULE BogonProofs ----------------------------
(***************************************************************************)
(* Proofs about the bogon list: for every address width, every set of lists *)
(* and every number of trees and lookups, a lookup stays in allocated       *)
(* memory and answers what one list in force says.                          *)
(***************************************************************************)
EXTENDS BogonInv, SequenceTheorems, WellFoundedInduction, TLAPS

USE WAssumption, NullAssumption

-----------------------------------------------------------------------------
(* Bits and paths.                                                         *)

\* in4_get_bit masks: it returns one bit, whatever is shifted.
LEMMA BitType == \A ip, j : in4_get_bit(ip, j) \in {0, 1}
BY DEF in4_get_bit

\* The path of n bits is a sequence of n bits.
LEMMA PathType ==
  ASSUME NEW ip, NEW n \in Nat
  PROVE  /\ Path(ip, n) \in BitPath
         /\ Len(Path(ip, n)) = n
         /\ \A k \in 1..n : Path(ip, n)[k] = in4_get_bit(ip, k - 1)
<1>1. Path(ip, n) \in [1..n -> {0, 1}]
  BY BitType DEF Path
<1>2. Path(ip, n) \in BitPath
  BY <1>1, SeqDef DEF BitPath
<1>3. Len(Path(ip, n)) = n
  BY <1>1, <1>2, LenProperties DEF BitPath
<1>4. QED
  BY <1>2, <1>3 DEF Path

\* A node at depth 0 is the root.
LEMMA PathZero == \A ip : Path(ip, 0) = <<>>
<1>1. SUFFICES ASSUME NEW ip PROVE Path(ip, 0) = <<>>
  OBVIOUS
<1>2. Path(ip, 0) \in Seq({0, 1}) /\ Len(Path(ip, 0)) = 0
  BY PathType DEF BitPath
<1>3. QED
  BY <1>2, EmptySeq

\* runner->child[bit]: the path of one bit more.
LEMMA PathAppend ==
  ASSUME NEW ip, NEW n \in Nat
  PROVE  Append(Path(ip, n), in4_get_bit(ip, n)) = Path(ip, n + 1)
<1> DEFINE a == Append(Path(ip, n), in4_get_bit(ip, n))
           b == Path(ip, n + 1)
<1>1. /\ Path(ip, n) \in Seq({0, 1})
      /\ Len(Path(ip, n)) = n
      /\ in4_get_bit(ip, n) \in {0, 1}
  BY PathType, BitType DEF BitPath
<1>2. a \in Seq({0, 1}) /\ Len(a) = n + 1
  BY <1>1, AppendProperties
<1>3. b \in Seq({0, 1}) /\ Len(b) = n + 1
  BY PathType DEF BitPath
<1>4. ASSUME NEW k \in 1..(n + 1) PROVE a[k] = b[k]
  <2>1. b[k] = in4_get_bit(ip, k - 1)
    BY PathType
  <2>2. CASE k = n + 1
    BY <2>1, <2>2, <1>1, AppendProperties
  <2>3. CASE k # n + 1
    <3>1. k \in 1..n
      BY <2>3
    <3>2. a[k] = Path(ip, n)[k]
      BY <3>1, <1>1, AppendProperties
    <3>3. QED
      BY <3>1, <3>2, <2>1, PathType
  <2>4. QED
    BY <2>2, <2>3
<1> HIDE DEF a, b
<1>5. a = b
  BY <1>2, <1>3, <1>4, SeqEqual
<1>6. QED
  BY <1>5 DEF a, b

\* Two paths are equal when their bits are.
LEMMA PathEqual ==
  ASSUME NEW ip, NEW jp, NEW n \in Nat
  PROVE  Path(ip, n) = Path(jp, n) <=>
           \A j \in 0..(n - 1) : in4_get_bit(ip, j) = in4_get_bit(jp, j)
<1>1. ASSUME Path(ip, n) = Path(jp, n), NEW j \in 0..(n - 1)
      PROVE  in4_get_bit(ip, j) = in4_get_bit(jp, j)
  <2>1. j + 1 \in 1..n /\ (j + 1) - 1 = j
    OBVIOUS
  <2>2. QED
    BY <1>1, <2>1, PathType
<1>2. ASSUME \A j \in 0..(n - 1) : in4_get_bit(ip, j) = in4_get_bit(jp, j)
      PROVE  Path(ip, n) = Path(jp, n)
  <2>1. \A k \in 1..n : k - 1 \in 0..(n - 1)
    OBVIOUS
  <2>2. \A k \in 1..n : in4_get_bit(ip, k - 1) = in4_get_bit(jp, k - 1)
    BY <2>1, <1>2
  <2>3. QED
    BY <2>2 DEF Path
<1>3. QED
  BY <1>1, <1>2

\* Equal paths have equal lengths and equal beginnings.
LEMMA PathPrefix ==
  ASSUME NEW ip, NEW jp, NEW n \in Nat, NEW m \in Nat, Path(ip, n) = Path(jp, m)
  PROVE  /\ n = m
         /\ \A k \in 0..n : Path(ip, k) = Path(jp, k)
<1>1. n = m
  BY PathType
<1>2. ASSUME NEW k \in 0..n PROVE Path(ip, k) = Path(jp, k)
  <2>1. \A j \in 0..(n - 1) : in4_get_bit(ip, j) = in4_get_bit(jp, j)
    BY <1>1, PathEqual
  <2>2. \A j \in 0..(k - 1) : j \in 0..(n - 1)
    OBVIOUS
  <2>3. QED
    BY <2>1, <2>2, PathEqual
<1>3. QED
  BY <1>1, <1>2

\* A prefix matches an address if the address leads to the node of the prefix.
LEMMA MatchesPath ==
  ASSUME NEW ip, NEW p \in Prefix
  PROVE  Matches(ip, p) <=> Path(ip, p.len) = Path(p.ip, p.len)
BY PathEqual DEF Matches, Prefix

-----------------------------------------------------------------------------
(* What a complete tree says of an address.                                *)

\* A list is not NULL and its elements are prefixes.
LEMMA ListElements ==
  ASSUME NEW l \in Seq(Prefix)
  PROVE  /\ l # NoList
         /\ DOMAIN l = 1..Len(l)
         /\ Len(l) \in Nat
         /\ \A i \in 1..Len(l) : /\ l[i] \in Prefix
                                 /\ l[i].ip \in Addr
                                 /\ l[i].len \in 0..W
                                 /\ l[i].len \in Nat
<1>1. l # NoList
  BY DEF NoList
<1>2. DOMAIN l = 1..Len(l) /\ Len(l) \in Nat
  BY LenProperties
<1>3. \A i \in 1..Len(l) : l[i] \in Prefix
  BY ElementOfSeq
<1>4. QED
  BY <1>1, <1>2, <1>3 DEF Prefix

\* A tree is whole when it holds the marks and the paths of all the prefixes.
LEMMA WholeIsAll ==
  ASSUME NEW t, list[t] \in Seq(Prefix)
  PROVE  Whole(t) <=> /\ bogon[t] = Marks(list[t], Len(list[t]))
                      /\ nodes[t] = Paths(list[t], Len(list[t]))
<1>1. DOMAIN list[t] = 1..Len(list[t])
  BY LenProperties
<1>2. QED
  BY <1>1 DEF Whole, Marks, Paths

\* The root of a tree with a list in it is there.
LEMMA WholeRoot ==
  ASSUME NEW t, list[t] \in Seq(Prefix), list[t] # <<>>, Whole(t)
  PROVE  <<>> \in nodes[t]
<1>1. Len(list[t]) # 0
  BY EmptySeq
<1>2. 1 \in DOMAIN list[t] /\ list[t][1].len \in Nat
  BY <1>1, ListElements
<1>3. Path(list[t][1].ip, 0) \in nodes[t]
  BY <1>2 DEF Whole
<1>4. QED
  BY <1>3, PathZero

\* A marked node on the path of an address is that of a matching prefix.
LEMMA WholeMark ==
  ASSUME NEW t, list[t] \in Seq(Prefix), Whole(t),
         NEW ip, NEW n \in Nat, Path(ip, n) \in bogon[t]
  PROVE  \E i \in DOMAIN list[t] : Matches(ip, list[t][i])
<1>1. PICK i \in DOMAIN list[t] : Path(ip, n) = Path(list[t][i].ip, list[t][i].len)
  BY DEF Whole
<1>2. list[t][i] \in Prefix /\ list[t][i].len \in Nat
  BY ListElements
<1>3. n = list[t][i].len
  BY <1>1, <1>2, PathPrefix
<1>4. QED
  BY <1>1, <1>2, <1>3, MatchesPath

\* If a prefix matches, its node is marked and the address leads down to it.
LEMMA WholeMatch ==
  ASSUME NEW t, list[t] \in Seq(Prefix), Whole(t),
         NEW ip, NEW i \in DOMAIN list[t], Matches(ip, list[t][i])
  PROVE  /\ list[t][i].len \in 0..W
         /\ Path(ip, list[t][i].len) \in bogon[t]
         /\ \A k \in 0..list[t][i].len : Path(ip, k) \in nodes[t]
<1> DEFINE p == list[t][i]
<1>1. p \in Prefix /\ p.len \in 0..W /\ p.len \in Nat
  BY ListElements
<1>2. Path(ip, p.len) = Path(p.ip, p.len)
  BY <1>1, MatchesPath
<1>3. Path(p.ip, p.len) \in bogon[t]
  BY DEF Whole
<1>4. \A k \in 0..p.len : Path(p.ip, k) \in nodes[t]
  BY DEF Whole
<1>5. \A k \in 0..p.len : Path(ip, k) = Path(p.ip, k)
  BY <1>1, <1>2, PathPrefix
<1>6. QED
  BY <1>1, <1>2, <1>3, <1>4, <1>5

\* A node at the last level is always marked: only a prefix of all the bits
\* leads there.
LEMMA WholeLeaf ==
  ASSUME NEW t, list[t] \in Seq(Prefix), Whole(t), NEW ip, Path(ip, W) \in nodes[t]
  PROVE  Path(ip, W) \in bogon[t]
<1>1. PICK i \in DOMAIN list[t] :
        \E n \in 0..list[t][i].len : Path(ip, W) = Path(list[t][i].ip, n)
  BY DEF Whole
<1>2. list[t][i].len \in 0..W
  BY ListElements
<1>3. PICK n \in 0..list[t][i].len : Path(ip, W) = Path(list[t][i].ip, n)
  BY <1>1
<1>4. n \in Nat /\ n <= list[t][i].len
  BY <1>2
<1>5. n = W
  BY <1>3, <1>4, PathPrefix
<1>6. n = list[t][i].len
  BY <1>2, <1>4, <1>5
<1>7. QED
  BY <1>3, <1>6 DEF Whole

-----------------------------------------------------------------------------
(* Initial states.                                                         *)

\* There is an address, and 0 is one.
LEMMA AddrZero == 0 \in Addr
BY PowAssumption DEF Addr

LEMMA EmptyList == <<>> \in Seq(Prefix) /\ Len(<<>>) = 0 /\ <<>> \in BitPath
BY DEF BitPath

\* The tree of lfw_init_bg_state is published, empty and alone.
LEMMA InitInv == Init => Inv
<1> SUFFICES ASSUME Init PROVE Inv
  OBVIOUS
<1>1. PICK t \in Tree : tree = t /\ alloc = {t}
  BY DEF Init
<1>2. TypeOK
  BY <1>1, EmptyList, AddrZero, LoadsAssumption DEF Init, TypeOK, AnyList
<1>3. NoLeak
  BY <1>1 DEF Init, NoLeak
<1>4. LoadOK
  BY <1>1 DEF Init, LoadOK
<1>5. SettledOK
  BY <1>1 DEF Init, SettledOK, Settled
<1>6. ReadOK /\ LookupCorrect
  BY DEF Init, ReadOK, LookupCorrect
<1> QED
  BY <1>2, <1>3, <1>4, <1>5, <1>6 DEF Inv

-----------------------------------------------------------------------------
(* What leaves parts of the invariant alone.                               *)

\* A tree that stays as it is.
Same(t) == nodes'[t] = nodes[t] /\ bogon'[t] = bogon[t] /\ list'[t] = list[t]

LEMMA SameWhole ==
  ASSUME NEW t, Same(t)
  PROVE  Whole(t)' <=> Whole(t)
BY DEF Same, Whole

\* Handlers do not touch the trees that lookups can be in.
LEMMA SettledFrame ==
  ASSUME Inv, Settled' \subseteq Settled, \A t \in Settled' : Same(t)
  PROVE  SettledOK'
<1> SUFFICES ASSUME NEW t \in Settled'
             PROVE  IF list'[t] = NoList THEN nodes'[t] = {}
                    ELSE list'[t] # <<>> /\ Whole(t)'
  BY DEF SettledOK, NoList
<1>1. t \in Settled /\ Same(t)
  OBVIOUS
<1>2. IF list[t] = NoList THEN nodes[t] = {} ELSE list[t] # <<>> /\ Whole(t)
  BY <1>1 DEF Inv, SettledOK
<1> QED
  BY <1>1, <1>2, SameWhole DEF Same

\* A lookup keeps what it knows as long as its tree does and is waited for.
LEMMA ReadMoves ==
  ASSUME Inv, UNCHANGED readVars,
         \A r \in Reader : rpc[r] = "walk" =>
           /\ rtree[r] \in Settled'
           /\ Same(rtree[r])
           /\ rtree[r] \in cb' => r \in gp'[rtree[r]]
  PROVE  ReadOK' /\ LookupCorrect'
<1>1. LookupCorrect'
  BY DEF Inv, LookupCorrect, readVars, Expected, Matches, NoList
<1>2. ASSUME NEW r \in Reader, rpc[r] = "walk"
      PROVE  /\ rtree[r] \in Settled'
             /\ rtree[r] \in cb' => r \in gp'[rtree[r]]
             /\ rlist[r] = list'[rtree[r]]
             /\ result[r] = NULL
             /\ Len(rrunner[r]) <= W
             /\ rrunner[r] = Path(rip[r], Len(rrunner[r]))
             /\ rrunner[r] # <<>> => rrunner[r] \in nodes'[rtree[r]]
             /\ \A k \in 0..(Len(rrunner[r]) - 1) :
                  Path(rip[r], k) \notin bogon'[rtree[r]]
  BY <1>2 DEF Inv, ReadOK, Same
<1> QED
  BY <1>1, <1>2 DEF ReadOK, readVars

\* In particular when the trees that lookups can be in stay as they are.
LEMMA ReadFrame ==
  ASSUME Inv, UNCHANGED readVars, Settled \subseteq Settled',
         \A t \in Settled : Same(t), UNCHANGED rcuVars
  PROVE  ReadOK' /\ LookupCorrect'
<1>1. ASSUME NEW r \in Reader, rpc[r] = "walk"
      PROVE  /\ rtree[r] \in Settled'
             /\ Same(rtree[r])
             /\ rtree[r] \in cb' => r \in gp'[rtree[r]]
  BY <1>1 DEF Inv, ReadOK, rcuVars
<1> QED
  BY <1>1, ReadMoves

-----------------------------------------------------------------------------
(* The handler.                                                            *)

\* -EINVAL changes nothing but the count and the reply.
LEMMA SetEmpty == Inv /\ set_empty => Inv'
<1> SUFFICES ASSUME Inv, set_empty PROVE Inv'
  OBVIOUS
<1> USE DEF set_empty, treeVars, rcuVars
<1>1. TypeOK'
  BY LoadsAssumption DEF Inv, TypeOK, readVars
<1>2. NoLeak' /\ LoadOK'
  BY DEF Inv, NoLeak, LoadOK
<1>3. Settled' = Settled /\ \A t : Same(t)
  BY DEF Settled, Same
<1>4. SettledOK' /\ ReadOK' /\ LookupCorrect'
  BY <1>3, SettledFrame, ReadFrame
<1> QED
  BY <1>1, <1>2, <1>4 DEF Inv

\* Nor does -ENOMEM.
LEMMA SetNoBuffer == ASSUME NEW l \in List, Inv, set_no_buffer(l) PROVE Inv'
<1> USE DEF set_no_buffer, treeVars, rcuVars
<1>1. TypeOK'
  BY LoadsAssumption DEF Inv, TypeOK, readVars
<1>2. NoLeak' /\ LoadOK'
  BY DEF Inv, NoLeak, LoadOK
<1>3. Settled' = Settled /\ \A t : Same(t)
  BY DEF Settled, Same
<1>4. SettledOK' /\ ReadOK' /\ LookupCorrect'
  BY <1>3, SettledFrame, ReadFrame
<1> QED
  BY <1>1, <1>2, <1>4 DEF Inv

\* The new tree is none that a lookup can be in: those are all allocated.
LEMMA SettledAllocated ==
  ASSUME Inv
  PROVE  /\ Settled \subseteq alloc
         /\ Settled \subseteq Tree
         /\ lpc \in {"build", "oops"} => ltree \notin Settled /\ ltree \in alloc
BY DEF Inv, TypeOK, NoLeak, LoadOK, Settled

\* No prefixes are inserted in a tree that is only a root.
LEMMA NothingYet == \A l : Marks(l, 0) = {} /\ Paths(l, 0) = {}
BY DEF Marks, Paths

LEMMA LoadBegin == ASSUME NEW l \in List, Inv, load_begin(l) PROVE Inv'
<1> USE DEF load_begin, rcuVars
<1>1. PICK t \in Tree \ alloc :
        /\ alloc' = alloc \cup {t}
        /\ nodes' = [nodes EXCEPT ![t] = {<<>>}]
        /\ bogon' = [bogon EXCEPT ![t] = {}]
        /\ list' = [list EXCEPT ![t] = l]
        /\ ltree' = t
  BY DEF kzalloc
<1>2. l \in Seq(Prefix) /\ l # <<>> /\ Len(l) \in Nat /\ Len(l) # 0
  BY InputAssumption, ListElements, EmptySeq
<1>3. ltree = NULL /\ lold = NULL
  BY DEF Inv, LoadOK
<1>4. TypeOK'
  BY <1>1, <1>2, EmptyList, LoadsAssumption DEF Inv, TypeOK, AnyList, readVars
<1>5. NoLeak'
  BY <1>1, <1>3 DEF Inv, TypeOK, NoLeak
<1>6. LoadOK'
  <2>0. lnum' = 1 /\ lnum' - 1 = 0
    OBVIOUS
  <2>1. list'[t] = l /\ bogon'[t] = {} /\ nodes'[t] = {<<>>}
    BY <1>1 DEF Inv, TypeOK
  <2>2. {Path(l[1].ip, k) : k \in 0..0} = {<<>>}
    BY PathZero
  <2>3. <<>> = Path(l[1].ip, 0) /\ Len(<<>>) = 0 /\ l[1].len \in Nat
    BY PathZero, <1>2, ListElements
  <2>4. bogon'[ltree'] = Marks(l, lnum' - 1)
    <3>1. Marks(l, lnum' - 1) = Marks(l, 0)
      BY ONLY <2>0
    <3> QED
      BY <2>1, <1>1, <3>1, NothingYet
  <2>5. nodes'[ltree'] = Paths(l, lnum' - 1) \cup
                           {Path(l[lnum'].ip, k) : k \in 0..Len(lrunner')}
    BY <2>1, <2>2, <2>3, <1>1, NothingYet
  <2>6. lnum' <= Len(msg') /\ Len(lrunner') <= msg'[lnum'].len
    BY <2>3, <1>2
  <2>7. lrunner' = Path(msg'[lnum'].ip, Len(lrunner'))
    BY <2>3
  <2>8. ltree' \in Tree /\ list'[ltree'] = msg' /\ msg' # <<>>
    BY <1>1, <1>2, <2>1
  <2> QED
    BY <1>3, <2>4, <2>5, <2>6, <2>7, <2>8 DEF LoadOK
<1>7. Settled' = Settled
  BY DEF Settled
<1>8. \A u \in Settled : Same(u)
  BY <1>1, SettledAllocated DEF Inv, TypeOK, Same
<1>9. SettledOK' /\ ReadOK' /\ LookupCorrect'
  BY <1>7, <1>8, SettledFrame, ReadFrame
<1> QED
  BY <1>4, <1>5, <1>6, <1>9 DEF Inv

\* The list stays in force if the tree or its root cannot be allocated.
LEMMA LoadNoMemory == ASSUME NEW l \in List, Inv, load_no_memory(l) PROVE Inv'
<1> USE DEF load_no_memory, rcuVars
<1>1. \/ UNCHANGED <<alloc, leaked>>
      \/ \E t \in Tree \ alloc : alloc' = alloc \cup {t} /\ leaked' = leaked \cup {t}
  BY DEF kzalloc
<1>2. l \in Seq(Prefix) /\ Len(l) \in Nat
  BY InputAssumption, ListElements
<1>3. ltree = NULL /\ lold = NULL /\ lnum = 1
  BY DEF Inv, LoadOK
<1>4. TypeOK'
  BY <1>1, <1>2, <1>3, LoadsAssumption DEF Inv, TypeOK, readVars
<1>5. NoLeak'
  BY <1>1, <1>3 DEF Inv, TypeOK, NoLeak
<1>6. LoadOK'
  BY <1>3 DEF Inv, LoadOK
<1>7. Settled' = Settled /\ \A u : Same(u)
  BY DEF Settled, Same
<1>9. SettledOK' /\ ReadOK' /\ LookupCorrect'
  BY <1>7, SettledFrame, ReadFrame
<1> QED
  BY <1>4, <1>5, <1>6, <1>9 DEF Inv

\* Where the handler is while it inserts.
LEMMA Insertion ==
  ASSUME Inv, Inserting
  PROVE  /\ msg \in Seq(Prefix)
         /\ lnum \in 1..Len(msg)
         /\ lnum \in Nat
         /\ lrunner \in BitPath
         /\ Len(lrunner) \in Nat
         /\ msg[lnum].len \in Nat
         /\ ltree \in Tree
         /\ ltree \notin Settled
         /\ lold = NULL
         /\ lrunner = Path(msg[lnum].ip, Len(lrunner))
         /\ LoadBit \in {0, 1}
         /\ Append(lrunner, LoadBit) = Path(msg[lnum].ip, Len(lrunner) + 1)
<1>1. msg \in Seq(Prefix) /\ lnum \in 1..Len(msg) /\ lrunner \in BitPath
  BY ListElements DEF Inv, TypeOK, Inserting
<1>2. lnum \in Nat /\ msg[lnum].len \in Nat
  BY <1>1, ListElements
<1>3. Len(lrunner) \in Nat
  BY <1>1, LenProperties DEF BitPath
<1>4. ltree \in Tree /\ ltree \notin Settled /\ lold = NULL
  BY SettledAllocated DEF Inv, LoadOK, Inserting
<1>5. lrunner = Path(msg[lnum].ip, Len(lrunner))
  BY <1>1 DEF Inv, LoadOK, Inserting
<1>6. LoadBit \in {0, 1}
  BY BitType DEF LoadBit
<1>7. Append(lrunner, LoadBit) = Path(msg[lnum].ip, Len(lrunner) + 1)
  BY <1>3, <1>5, PathAppend DEF LoadBit
<1> QED
  BY <1>1, <1>2, <1>3, <1>4, <1>5, <1>6, <1>7

\* One bit of a prefix: the nodes of its path grow by one.
LEMMA LoadStepInv == Inv /\ load_step => Inv'
<1> SUFFICES ASSUME Inv, load_step PROVE Inv'
  OBVIOUS
<1> DEFINE next == Append(lrunner, LoadBit)
           n == Len(lrunner)
           p == msg[lnum]
<1>1. /\ Inserting
      /\ n < p.len
      /\ nodes' = [nodes EXCEPT ![ltree] = @ \cup {next}]
      /\ lrunner' = next
      /\ UNCHANGED <<tree, alloc, bogon, leaked, list, lpc, loads, msg, ltree, lnum,
                     lold, reply, readVars, rcuVars>>
  BY DEF load_step
<1>2. /\ n \in Nat
      /\ p.len \in Nat
      /\ next = Path(p.ip, n + 1)
      /\ ltree \in Tree
      /\ ltree \notin Settled
  BY <1>1, Insertion
<1>3. Len(next) = n + 1 /\ next \in BitPath
  BY <1>2, PathType
<1> HIDE DEF next, n, p
<1>4. TypeOK'
  BY <1>1, <1>3 DEF Inv, TypeOK, readVars, rcuVars
<1>5. NoLeak'
  BY <1>1 DEF Inv, NoLeak, rcuVars
<1>6. LoadOK'
  <2>1. nodes[ltree] = Paths(msg, lnum - 1) \cup {Path(p.ip, k) : k \in 0..n}
    BY <1>1, Insertion DEF Inv, LoadOK, Inserting, n, p
  <2>2. {Path(p.ip, k) : k \in 0..(n + 1)} = {Path(p.ip, k) : k \in 0..n} \cup {next}
    <3>1. 0..(n + 1) = 0..n \cup {n + 1}
      BY <1>2
    <3> QED
      BY <3>1, <1>2
  <2>3. nodes'[ltree] = Paths(msg, lnum - 1) \cup {Path(p.ip, k) : k \in 0..(n + 1)}
    BY <1>1, <1>2, <2>1, <2>2 DEF Inv, TypeOK
  <2>4. Len(lrunner') = n + 1 /\ n + 1 <= p.len /\ lrunner' = Path(p.ip, n + 1)
    BY <1>1, <1>2, <1>3
  <2>5. lpc = "build" /\ lnum <= Len(msg)
    BY <1>1 DEF Inserting
  <2>6. list[ltree] = msg /\ bogon[ltree] = Marks(msg, lnum - 1) /\ ltree \in Tree
        /\ msg # <<>> /\ lold = NULL
    BY <2>5 DEF Inv, LoadOK
  <2> QED
    BY <1>1, <2>3, <2>4, <2>5, <2>6 DEF LoadOK, p
<1>7. Settled' = Settled
  BY <1>1 DEF Settled, rcuVars
<1>8. \A u \in Settled : Same(u)
  BY <1>1, <1>2, SettledAllocated DEF Inv, TypeOK, Same
<1>9. SettledOK' /\ ReadOK' /\ LookupCorrect'
  BY <1>1, <1>7, <1>8, SettledFrame, ReadFrame
<1> QED
  BY <1>4, <1>5, <1>6, <1>9 DEF Inv

\* The handler that dies keeps its tree to itself.
LEMMA LoadStepNoMemory == Inv /\ load_step_no_memory => Inv'
<1> SUFFICES ASSUME Inv, load_step_no_memory PROVE Inv'
  OBVIOUS
<1> USE DEF load_step_no_memory, Inserting, treeVars, rcuVars
<1>1. TypeOK'
  BY DEF Inv, TypeOK, readVars
<1>2. NoLeak' /\ LoadOK'
  BY DEF Inv, NoLeak, LoadOK
<1>3. Settled' = Settled /\ \A t : Same(t)
  BY DEF Settled, Same
<1>4. SettledOK' /\ ReadOK' /\ LookupCorrect'
  BY <1>3, SettledFrame, ReadFrame
<1> QED
  BY <1>1, <1>2, <1>4 DEF Inv

\* One prefix more.
LEMMA OneMore ==
  ASSUME NEW l, NEW n \in Nat, n >= 1
  PROVE  /\ Marks(l, n) = Marks(l, n - 1) \cup {Path(l[n].ip, l[n].len)}
         /\ Paths(l, n) = Paths(l, n - 1) \cup {Path(l[n].ip, k) : k \in 0..l[n].len}
<1>1. 1..n = 1..(n - 1) \cup {n}
  OBVIOUS
<1>2. Marks(l, n) = Marks(l, n - 1) \cup {Path(l[n].ip, l[n].len)}
  BY <1>1 DEF Marks
<1>3. Paths(l, n) = Paths(l, n - 1) \cup {Path(l[n].ip, k) : k \in 0..l[n].len}
  BY <1>1 DEF Paths
<1> QED
  BY <1>2, <1>3

\* A prefix is complete: its node is marked and the next one starts at the root.
LEMMA LoadMark == Inv /\ load_mark => Inv'
<1> SUFFICES ASSUME Inv, load_mark PROVE Inv'
  OBVIOUS
<1> DEFINE p == msg[lnum]
<1>1. /\ Inserting
      /\ Len(lrunner) = p.len
      /\ bogon' = [bogon EXCEPT ![ltree] = @ \cup {lrunner}]
      /\ lnum' = lnum + 1
      /\ lrunner' = <<>>
      /\ UNCHANGED <<tree, alloc, nodes, leaked, list, lpc, loads, msg, ltree, lold,
                     reply, readVars, rcuVars>>
  BY DEF load_mark, Marked
<1>2. /\ msg \in Seq(Prefix)
      /\ lnum \in 1..Len(msg)
      /\ Len(msg) \in Nat
      /\ lnum \in Nat
      /\ p.len \in Nat
      /\ ltree \in Tree
      /\ ltree \notin Settled
      /\ lrunner = Path(p.ip, p.len)
      /\ lrunner \in BitPath
  BY <1>1, Insertion, ListElements
<1> HIDE DEF p
<1>4. TypeOK'
  BY <1>1, <1>2, EmptyList DEF Inv, TypeOK, readVars, rcuVars
<1>5. NoLeak'
  BY <1>1 DEF Inv, NoLeak, rcuVars
<1>6. LoadOK'
  <2>1. lpc = "build" /\ lnum <= Len(msg) /\ lnum >= 1
    BY <1>1, <1>2 DEF Inserting
  <2>2. /\ list[ltree] = msg
        /\ bogon[ltree] = Marks(msg, lnum - 1)
        /\ nodes[ltree] = Paths(msg, lnum - 1) \cup {Path(p.ip, k) : k \in 0..p.len}
        /\ msg # <<>>
        /\ lold = NULL
    BY <2>1, <1>1 DEF Inv, LoadOK, p
  <2>3. bogon'[ltree] = Marks(msg, lnum) /\ nodes'[ltree] = Paths(msg, lnum)
    BY <1>1, <1>2, <2>1, <2>2, OneMore DEF Inv, TypeOK, p
  <2>4. lnum' - 1 = lnum
    BY <1>1, <1>2
  <2>5. bogon'[ltree] = Marks(msg, lnum' - 1) /\ nodes'[ltree] = Paths(msg, lnum' - 1)
    BY <2>3, <2>4
  <2>6. <<>> \in Paths(msg, lnum)
    <3>1. Path(p.ip, 0) \in {Path(p.ip, k) : k \in 0..p.len}
      BY <1>2
    <3>2. Path(p.ip, 0) \in nodes[ltree]
      BY <3>1, <2>2
    <3> QED
      BY <1>1, <2>3, <3>2, PathZero
  <2>7. CASE lnum' <= Len(msg)
    <3> DEFINE q == msg[lnum']
    <3>1. q.len \in Nat
      BY <1>1, <1>2, <2>7, ListElements
    <3> HIDE DEF q
    <3>2. {Path(q.ip, k) : k \in 0..0} = {<<>>}
      BY PathZero
    <3>3. nodes'[ltree] = Paths(msg, lnum' - 1) \cup
                            {Path(q.ip, k) : k \in 0..Len(lrunner')}
      BY <1>1, <2>3, <2>5, <2>6, <3>2, EmptyList
    <3>4. Len(lrunner') <= q.len /\ lrunner' = Path(q.ip, Len(lrunner'))
      BY <1>1, <3>1, EmptyList, PathZero
    <3> QED
      BY <1>1, <1>2, <2>1, <2>2, <2>5, <2>7, <3>3, <3>4 DEF LoadOK, q
  <2>8. CASE ~(lnum' <= Len(msg))
    BY <1>1, <1>2, <2>1, <2>2, <2>5, <2>8 DEF LoadOK
  <2> QED
    BY <2>7, <2>8
<1>7. Settled' = Settled
  BY <1>1 DEF Settled, rcuVars
<1>8. \A u \in Settled : Same(u)
  BY <1>1, <1>2, SettledAllocated DEF Inv, TypeOK, Same
<1>9. SettledOK' /\ ReadOK' /\ LookupCorrect'
  BY <1>1, <1>7, <1>8, SettledFrame, ReadFrame
<1> QED
  BY <1>4, <1>5, <1>6, <1>9 DEF Inv

\* The exchange publishes a tree that holds the whole of its list.
LEMMA LoadSwap == Inv /\ load_swap => Inv'
<1> SUFFICES ASSUME Inv, load_swap PROVE Inv'
  OBVIOUS
<1> USE DEF load_swap, old_tree, Complete, rcuVars
<1>1. /\ msg \in Seq(Prefix)
      /\ Len(msg) \in Nat
      /\ lnum - 1 = Len(msg)
      /\ ltree \in Tree
      /\ msg # <<>>
      /\ lold = NULL
      /\ list[ltree] = msg
      /\ bogon[ltree] = Marks(msg, lnum - 1)
      /\ nodes[ltree] = Paths(msg, lnum - 1)
  BY ListElements DEF Inv, TypeOK, LoadOK
<1>2. Whole(ltree)
  BY <1>1, WholeIsAll
<1>3. TypeOK'
  BY <1>1 DEF Inv, TypeOK, readVars
<1>4. NoLeak'
  BY <1>1 DEF Inv, TypeOK, NoLeak
<1>5. LoadOK'
  BY <1>1 DEF Inv, TypeOK, LoadOK
<1>6. Settled' = Settled \cup {ltree}
  BY <1>1 DEF Inv, TypeOK, Settled
<1>7. \A u : Same(u)
  BY DEF Same
<1>8. SettledOK'
  <2> SUFFICES ASSUME NEW t \in Settled'
               PROVE  IF list'[t] = NoList THEN nodes'[t] = {}
                      ELSE list'[t] # <<>> /\ Whole(t)'
    BY DEF SettledOK, NoList
  <2>1. CASE t \in Settled
    <3>1. IF list[t] = NoList THEN nodes[t] = {} ELSE list[t] # <<>> /\ Whole(t)
      BY <2>1 DEF Inv, SettledOK
    <3> QED
      BY <3>1, <1>7, SameWhole DEF Same
  <2>2. CASE t = ltree
    <3>1. list[t] # NoList /\ list[t] # <<>>
      BY <2>2, <1>1, ListElements
    <3> QED
      BY <3>1, <2>2, <1>2, <1>7, SameWhole DEF Same
  <2> QED
    BY <2>1, <2>2, <1>6
<1>9. ReadOK' /\ LookupCorrect'
  BY <1>6, <1>7, ReadFrame
<1> QED
  BY <1>3, <1>4, <1>5, <1>8, <1>9 DEF Inv

\* call_rcu: the callback waits for every lookup that may be in the old tree.
LEMMA LoadEnd == Inv /\ load_end => Inv'
<1> SUFFICES ASSUME Inv, load_end PROVE Inv'
  OBVIOUS
<1> USE DEF load_end, treeVars
<1>1. lold \in Tree /\ lold \notin cb /\ ltree = tree
  BY DEF Inv, TypeOK, LoadOK, NoLeak
<1>2. GracePeriod \subseteq Reader
  BY DEF GracePeriod
<1>3. TypeOK'
  <2>1. lnum' \in 1..(Len(msg') + 1)
    BY ListElements DEF Inv, TypeOK
  <2> QED
    BY <1>1, <1>2, <2>1 DEF Inv, TypeOK, readVars
<1>4. NoLeak'
  BY <1>1 DEF Inv, TypeOK, NoLeak, LoadOK
<1>5. LoadOK'
  BY DEF LoadOK
<1>6. Settled' = Settled
  BY <1>1 DEF Inv, TypeOK, Settled
<1>7. \A u : Same(u)
  BY DEF Same
<1>8. SettledOK'
  BY <1>6, <1>7, SettledFrame
<1>9. ASSUME NEW r \in Reader, rpc[r] = "walk"
      PROVE  /\ rtree[r] \in Settled'
             /\ rtree[r] \in cb' => r \in gp'[rtree[r]]
  <2>1. rtree[r] \in Settled /\ (rtree[r] \in cb => r \in gp[rtree[r]])
    BY <1>9 DEF Inv, ReadOK
  <2>2. r \in GracePeriod
    BY <1>9 DEF GracePeriod
  <2> QED
    BY <1>1, <1>6, <2>1, <2>2 DEF Inv, TypeOK
<1>10. ReadOK' /\ LookupCorrect'
  BY <1>7, <1>9, ReadMoves
<1> QED
  BY <1>3, <1>4, <1>5, <1>8, <1>10 DEF Inv

\* The callback runs when no lookup is in its tree.
LEMMA FreeTree == ASSUME NEW t \in cb, Inv, lfw_free_bg_tree(t) PROVE Inv'
<1> USE DEF lfw_free_bg_tree, loadVars
<1>1. t \in Tree /\ t \notin {tree, ltree, lold} /\ t \notin leaked
  BY DEF Inv, TypeOK, NoLeak, LoadOK
<1>2. TypeOK'
  BY <1>1 DEF Inv, TypeOK, AnyList, readVars
<1>3. NoLeak'
  BY <1>1 DEF Inv, NoLeak
<1>4. \A u \in Tree : u # t => Same(u)
  BY DEF Inv, TypeOK, Same
<1>5. LoadOK'
  <2>1. lpc = "build" => Same(ltree)
    BY <1>1, <1>4 DEF Inv, LoadOK
  <2> QED
    BY <2>1 DEF Inv, LoadOK, Same
<1>6. Settled' = Settled \ {t}
  BY <1>1 DEF Settled
<1>7. SettledOK'
  BY <1>4, <1>6, SettledAllocated, SettledFrame
<1>8. ASSUME NEW r \in Reader, rpc[r] = "walk"
      PROVE  /\ rtree[r] \in Settled'
             /\ Same(rtree[r])
             /\ rtree[r] \in cb' => r \in gp'[rtree[r]]
  <2>1. rtree[r] \in Settled /\ (rtree[r] \in cb => r \in gp[rtree[r]])
    BY <1>8 DEF Inv, ReadOK
  <2>2. rtree[r] # t
    BY <2>1
  <2> QED
    BY <1>4, <1>6, <2>1, <2>2, SettledAllocated
<1>9. ReadOK' /\ LookupCorrect'
  BY <1>8, ReadMoves
<1> QED
  BY <1>2, <1>3, <1>5, <1>7, <1>9 DEF Inv

-----------------------------------------------------------------------------
(* Lookups.                                                                *)

\* What a lookup does not touch.
LEMMA LookupFrame ==
  ASSUME Inv, UNCHANGED <<treeVars, loadVars, cb>>
  PROVE  NoLeak' /\ LoadOK' /\ SettledOK' /\ Settled' = Settled
<1> USE DEF treeVars, loadVars
<1>1. NoLeak' /\ LoadOK'
  BY DEF Inv, NoLeak, LoadOK
<1>2. Settled' = Settled /\ \A t : Same(t)
  BY DEF Settled, Same
<1> QED
  BY <1>1, <1>2, SettledFrame

\* A lookup begins at the root of the published tree, which is not retired.
LEMMA LookupEnter ==
  ASSUME NEW r \in Reader, NEW ip \in Source, Inv, lookup_enter(r, ip)
  PROVE  Inv'
<1> USE DEF lookup_enter, rcuVars
<1>1. TypeOK'
  BY InputAssumption, EmptyList DEF Inv, TypeOK, treeVars, loadVars
<1>2. NoLeak' /\ LoadOK' /\ SettledOK' /\ Settled' = Settled
  BY LookupFrame
<1>3. LookupCorrect'
  BY DEF Inv, TypeOK, LookupCorrect, Expected, Matches
<1>4. ReadOK'
  <2>1. tree \in Settled /\ tree \notin cb
    BY DEF Inv, TypeOK, NoLeak, Settled
  <2>2. <<>> = Path(ip, 0) /\ Len(<<>>) = 0
    BY PathZero
  <2>3. 0..(0 - 1) = {}
    OBVIOUS
  <2>4. ASSUME NEW q \in Reader, rpc'[q] = "walk"
        PROVE  /\ rtree'[q] \in Settled
               /\ rtree'[q] \in cb => q \in gp[rtree'[q]]
               /\ rlist'[q] = list[rtree'[q]]
               /\ result'[q] = NULL
               /\ Len(rrunner'[q]) <= W
               /\ rrunner'[q] = Path(rip'[q], Len(rrunner'[q]))
               /\ rrunner'[q] # <<>> => rrunner'[q] \in nodes[rtree'[q]]
               /\ \A k \in 0..(Len(rrunner'[q]) - 1) :
                    Path(rip'[q], k) \notin bogon[rtree'[q]]
    <3>1. CASE q = r
      BY <3>1, <2>1, <2>2, <2>3 DEF Inv, TypeOK
    <3>2. CASE q # r
      <4>1. rpc[q] = "walk"
        BY <2>4, <3>2 DEF Inv, TypeOK
      <4>2. /\ rtree'[q] = rtree[q] /\ rlist'[q] = rlist[q] /\ result'[q] = result[q]
            /\ rrunner'[q] = rrunner[q] /\ rip'[q] = rip[q]
        BY <3>2 DEF Inv, TypeOK
      <4> QED
        BY <4>1, <4>2 DEF Inv, ReadOK
    <3> QED
      BY <3>1, <3>2
  <2> QED
    BY <1>2, <2>4 DEF ReadOK, treeVars
<1> QED
  BY <1>1, <1>2, <1>3, <1>4 DEF Inv

\* Where a lookup is.
LEMMA Walking ==
  ASSUME NEW r \in Reader, Inv, rpc[r] = "walk"
  PROVE  /\ rtree[r] \in Tree
         /\ rtree[r] \in Settled
         /\ Len(rrunner[r]) \in Nat
         /\ rrunner[r] \in BitPath
         /\ rrunner[r] = Path(rip[r], Len(rrunner[r]))
         /\ Append(rrunner[r], ReadBit(r)) = Path(rip[r], Len(rrunner[r]) + 1)
         /\ list[rtree[r]] \in AnyList
<1>1. rtree[r] \in Settled /\ rrunner[r] = Path(rip[r], Len(rrunner[r]))
  BY DEF Inv, ReadOK
<1>2. rrunner[r] \in BitPath /\ Len(rrunner[r]) \in Nat
  BY LenProperties DEF Inv, TypeOK, BitPath
<1>3. rtree[r] \in Tree /\ list[rtree[r]] \in AnyList
  BY <1>1, SettledAllocated DEF Inv, TypeOK
<1>4. Append(rrunner[r], ReadBit(r)) = Path(rip[r], Len(rrunner[r]) + 1)
  BY <1>1, <1>2, PathAppend DEF ReadBit
<1> QED
  BY <1>1, <1>2, <1>3, <1>4

\* One bit further down, past a node without a mark.
LEMMA LookupStepInv == ASSUME NEW r \in Reader, Inv, lookup_step(r) PROVE Inv'
<1> DEFINE n == Len(rrunner[r])
           next == Append(rrunner[r], ReadBit(r))
           t == rtree[r]
<1>1. /\ n \in Nat /\ n < W
      /\ t \in Tree
      /\ rrunner[r] = Path(rip[r], n)
      /\ next = Path(rip[r], n + 1)
      /\ next \in nodes[t]
      /\ rrunner[r] \notin bogon[t]
  BY Walking DEF lookup_step, GoesOn
<1>2. next \in BitPath /\ Len(next) = n + 1
  BY <1>1, PathType
<1>3. /\ rrunner' = [rrunner EXCEPT ![r] = next]
      /\ UNCHANGED <<treeVars, loadVars, rpc, rip, rtree, result, rlist, rcuVars>>
  BY DEF lookup_step
<1> HIDE DEF n, next, t
<1>4. TypeOK'
  BY <1>2, <1>3 DEF Inv, TypeOK, treeVars, loadVars, rcuVars
<1>5. NoLeak' /\ LoadOK' /\ SettledOK' /\ Settled' = Settled
  BY <1>3, LookupFrame DEF rcuVars
<1>6. LookupCorrect'
  BY <1>3 DEF Inv, LookupCorrect, Expected, Matches, NoList
<1>7. ReadOK'
  <2>1. ASSUME NEW q \in Reader, rpc[q] = "walk"
        PROVE  /\ rtree[q] \in Settled
               /\ rtree[q] \in cb => q \in gp[rtree[q]]
               /\ rlist[q] = list[rtree[q]]
               /\ result[q] = NULL
               /\ Len(rrunner'[q]) <= W
               /\ rrunner'[q] = Path(rip[q], Len(rrunner'[q]))
               /\ rrunner'[q] # <<>> => rrunner'[q] \in nodes[rtree[q]]
               /\ \A k \in 0..(Len(rrunner'[q]) - 1) :
                    Path(rip[q], k) \notin bogon[rtree[q]]
    <3>1. CASE q = r
      <4>1. rrunner'[r] = next
        BY <1>3 DEF Inv, TypeOK
      <4>2. \A k \in 0..n : Path(rip[r], k) \notin bogon[t]
        <5>1. \A k \in 0..(n - 1) : Path(rip[r], k) \notin bogon[t]
          BY <2>1, <3>1 DEF Inv, ReadOK, n, t
        <5> QED
          BY <5>1, <1>1
      <4>3. (n + 1) - 1 = n /\ n + 1 <= W
        BY <1>1
      <4>4. Len(rrunner'[r]) = n + 1 /\ Len(rrunner'[r]) - 1 = n
        BY <1>1, <1>2, <4>1
      <4>5. /\ rrunner'[r] = Path(rip[r], Len(rrunner'[r]))
            /\ rrunner'[r] \in nodes[t]
            /\ \A k \in 0..(Len(rrunner'[r]) - 1) : Path(rip[r], k) \notin bogon[t]
        BY <1>1, <4>1, <4>2, <4>4
      <4>6. /\ t \in Settled
            /\ t \in cb => r \in gp[t]
            /\ rlist[r] = list[t]
            /\ result[r] = NULL
        BY <2>1, <3>1 DEF Inv, ReadOK, t
      <4> QED
        BY <3>1, <4>3, <4>4, <4>5, <4>6 DEF t
    <3>2. CASE q # r
      BY <2>1, <3>2, <1>3 DEF Inv, TypeOK, ReadOK
    <3> QED
      BY <3>1, <3>2
  <2> QED
    BY <1>3, <1>5, <2>1 DEF ReadOK, treeVars, rcuVars
<1> QED
  BY <1>4, <1>5, <1>6, <1>7 DEF Inv

\* Where a walk ends, the value returned is what the list says: the root is
\* missing only in the tree of the start, a mark on the path is that of a
\* matching prefix, the last bit always leads to a mark, and without the next
\* node no longer prefix matches.
LEMMA VerdictCorrect ==
  ASSUME NEW r \in Reader, Inv, rpc[r] = "walk", ~GoesOn(r)
  PROVE  /\ Verdict(r) = Expected(rlist[r], rip[r])
         /\ Verdict(r) \in {-2, -1, 0, 1}
<1> DEFINE n == Len(rrunner[r])
           t == rtree[r]
           ip == rip[r]
<1>1. /\ n \in Nat /\ n <= W
      /\ rrunner[r] = Path(ip, n)
      /\ Append(rrunner[r], ReadBit(r)) = Path(ip, n + 1)
      /\ rlist[r] = list[t]
      /\ rrunner[r] # <<>> => rrunner[r] \in nodes[t]
      /\ \A k \in 0..(n - 1) : Path(ip, k) \notin bogon[t]
      /\ t \in Settled
      /\ list[t] \in AnyList
  BY Walking DEF Inv, ReadOK
<1>2. IF list[t] = NoList THEN nodes[t] = {} ELSE list[t] # <<>> /\ Whole(t)
  BY <1>1 DEF Inv, SettledOK
<1>3. Verdict(r) = IF <<>> \notin nodes[t] THEN -1
                   ELSE IF rrunner[r] \in bogon[t] THEN 1
                   ELSE IF n = W THEN 0 ELSE -2
  BY DEF Verdict
<1>4. ~(/\ <<>> \in nodes[t]
        /\ n < W
        /\ rrunner[r] \notin bogon[t]
        /\ Path(ip, n + 1) \in nodes[t])
  BY <1>1 DEF GoesOn
<1>5. Expected(rlist[r], ip) =
        IF list[t] = NoList THEN -1
        ELSE IF \E i \in DOMAIN list[t] : Matches(ip, list[t][i]) THEN 1 ELSE -2
  BY <1>1 DEF Expected
<1> HIDE DEF n, t, ip
<1>6. CASE list[t] = NoList
  BY <1>2, <1>3, <1>5, <1>6 DEF ip
<1>7. CASE list[t] # NoList
  <2>1. list[t] \in Seq(Prefix) /\ list[t] # <<>> /\ Whole(t)
    BY <1>1, <1>2, <1>7 DEF AnyList
  <2>2. <<>> \in nodes[t]
    BY <2>1, WholeRoot
  <2>3. CASE rrunner[r] \in bogon[t]
    <3>1. \E i \in DOMAIN list[t] : Matches(ip, list[t][i])
      BY <1>1, <2>1, <2>3, WholeMark
    <3> QED
      BY <1>3, <1>5, <1>7, <2>2, <2>3, <3>1 DEF ip
  <2>4. CASE rrunner[r] \notin bogon[t]
    <3>1. n # W
      <4>1. ASSUME n = W PROVE FALSE
        <5>1. Path(ip, W) \in nodes[t]
          BY <1>1, <2>2, <4>1
        <5>2. Path(ip, W) \in bogon[t]
          BY <2>1, <5>1, WholeLeaf
        <5> QED
          BY <1>1, <2>4, <4>1, <5>2
      <4> QED
        BY <4>1
    <3>2. n < W /\ Path(ip, n + 1) \notin nodes[t]
      BY <1>1, <1>4, <2>2, <2>4, <3>1
    <3>3. ASSUME NEW i \in DOMAIN list[t], Matches(ip, list[t][i]) PROVE FALSE
      <4> DEFINE m == list[t][i].len
      <4>1. /\ m \in 0..W
            /\ Path(ip, m) \in bogon[t]
            /\ \A k \in 0..m : Path(ip, k) \in nodes[t]
        BY <2>1, <3>3, WholeMatch
      <4> HIDE DEF m
      <4>2. CASE m < n
        BY <4>1, <4>2, <1>1
      <4>3. CASE m = n
        BY <4>1, <4>3, <1>1, <2>4
      <4>4. CASE m > n
        <5>1. n + 1 \in 0..m
          BY <4>1, <4>4, <1>1
        <5> QED
          BY <5>1, <4>1, <3>2
      <4> QED
        BY <4>1, <4>2, <4>3, <4>4, <1>1
    <3> QED
      BY <1>3, <1>5, <1>7, <2>2, <2>4, <3>1, <3>3 DEF ip
  <2> QED
    BY <2>3, <2>4
<1> QED
  BY <1>6, <1>7

\* The answer is returned and the grace periods go on without the lookup.
LEMMA LookupEnd == ASSUME NEW r \in Reader, Inv, lookup_end(r) PROVE Inv'
<1>1. /\ rpc[r] = "walk"
      /\ ~GoesOn(r)
      /\ result' = [result EXCEPT ![r] = Verdict(r)]
      /\ rpc' = [rpc EXCEPT ![r] = "out"]
      /\ rtree' = [rtree EXCEPT ![r] = NULL]
      /\ rrunner' = [rrunner EXCEPT ![r] = <<>>]
      /\ gp' = [t \in Tree |-> gp[t] \ {r}]
      /\ UNCHANGED <<treeVars, loadVars, rip, rlist, cb>>
  BY DEF lookup_end, rcu_read_unlock
<1>2. Verdict(r) = Expected(rlist[r], rip[r]) /\ Verdict(r) \in {-2, -1, 0, 1}
  BY <1>1, VerdictCorrect
<1>3. TypeOK'
  BY <1>1, <1>2, EmptyList DEF Inv, TypeOK, treeVars, loadVars
<1>4. NoLeak' /\ LoadOK' /\ SettledOK' /\ Settled' = Settled
  BY <1>1, LookupFrame
<1>5. LookupCorrect'
  <2>1. ASSUME NEW q \in Reader, result'[q] # NULL
        PROVE  result'[q] = Expected(rlist[q], rip[q])
    BY <2>1, <1>1, <1>2 DEF Inv, TypeOK, LookupCorrect
  <2> QED
    BY <2>1, <1>1 DEF LookupCorrect, Expected, Matches, NoList
<1>6. ReadOK'
  <2>1. ASSUME NEW q \in Reader, rpc'[q] = "walk"
        PROVE  /\ rtree'[q] \in Settled
               /\ rtree'[q] \in cb => q \in gp'[rtree'[q]]
               /\ rlist[q] = list[rtree'[q]]
               /\ result'[q] = NULL
               /\ Len(rrunner'[q]) <= W
               /\ rrunner'[q] = Path(rip[q], Len(rrunner'[q]))
               /\ rrunner'[q] # <<>> => rrunner'[q] \in nodes[rtree'[q]]
               /\ \A k \in 0..(Len(rrunner'[q]) - 1) :
                    Path(rip[q], k) \notin bogon[rtree'[q]]
    <3>1. q # r /\ rpc[q] = "walk"
      BY <2>1, <1>1 DEF Inv, TypeOK
    <3>2. rtree'[q] = rtree[q] /\ result'[q] = result[q] /\ rrunner'[q] = rrunner[q]
      BY <3>1, <1>1 DEF Inv, TypeOK
    <3>3. rtree[q] \in cb => q \in gp'[rtree[q]]
      BY <3>1, <1>1 DEF Inv, TypeOK, ReadOK
    <3> QED
      BY <3>1, <3>2, <3>3 DEF Inv, ReadOK
  <2> QED
    BY <1>1, <1>4, <2>1 DEF ReadOK, treeVars
<1> QED
  BY <1>3, <1>4, <1>5, <1>6 DEF Inv

-----------------------------------------------------------------------------
(* The invariant, and what follows from it.                                *)

LEMMA Stutter == Inv /\ UNCHANGED vars => Inv'
<1> SUFFICES ASSUME Inv, UNCHANGED vars PROVE Inv'
  OBVIOUS
<1> USE DEF vars, treeVars, loadVars, readVars, rcuVars
<1>1. NoLeak' /\ LoadOK' /\ SettledOK' /\ Settled' = Settled
  BY LookupFrame
<1>2. TypeOK'
  BY DEF Inv, TypeOK
<1>3. ReadOK' /\ LookupCorrect'
  BY <1>1, ReadFrame DEF Same
<1> QED
  BY <1>1, <1>2, <1>3 DEF Inv

\* The handler of lfw_bogon_set, the RCU callbacks and the lookups preserve the
\* invariant, whatever their order: trees are complete before they are
\* published and stay until no lookup is in them.
THEOREM Inductive == Spec => []Inv
<1>1. Inv /\ [Next]_vars => Inv'
  BY SetEmpty, SetNoBuffer, LoadBegin, LoadNoMemory, LoadStepInv, LoadStepNoMemory,
     LoadMark, LoadSwap, LoadEnd, FreeTree, LookupEnter, LookupStepInv, LookupEnd, Stutter
     DEF Next, LoadStep, LookupStep
<1> QED
  BY <1>1, InitInv, PTL DEF Spec

\* Type correctness of the list: in particular no index of lfw_load_bg_tree
\* leaves the message and no thread is at a node outside any tree.
THEOREM TypeCorrect == Spec => []TypeOK
<1>1. Inv => TypeOK
  BY DEF Inv
<1> QED
  BY <1>1, Inductive, PTL

\* lfw_lookup_bg_tree never reads a freed tree, nor one that was reused for
\* another list.
THEOREM LookupsAreSafe == Spec => []ReaderSafe
<1>1. Inv => ReaderSafe
  BY SettledAllocated DEF Inv, ReadOK, ReaderSafe
<1> QED
  BY <1>1, Inductive, PTL

\* Every value returned by lfw_lookup_bg_tree is the one that a list in force
\* during the lookup gives to the address.
THEOREM LookupsAreCorrect == Spec => []LookupCorrect
<1>1. Inv => LookupCorrect
  BY DEF Inv
<1> QED
  BY <1>1, Inductive, PTL

\* lfw_load_bg_tree publishes no tree before all its prefixes are inserted.
THEOREM ListsAreWhole == Spec => []PublishedWhole
<1>1. Inv => PublishedWhole
  BY DEF Inv, TypeOK, SettledOK, Settled, PublishedWhole
<1> QED
  BY <1>1, Inductive, PTL

\* Every tree is published, under construction, waiting for its one callback or
\* left behind by a failed allocation of its root.
THEOREM NoTreeLeaks == Spec => []NoLeak
<1>1. Inv => NoLeak
  BY DEF Inv
<1> QED
  BY <1>1, Inductive, PTL

-----------------------------------------------------------------------------
(* Division by powers of 2.                                                *)

LEMMA NextMultiple ==
  ASSUME NEW d \in Nat, NEW x \in Int, NEW y \in Int, x < y
  PROVE  d * (x + 1) <= d * y
<1>1. PICK z \in Nat : y = x + 1 + z
  <2>1. y - x - 1 \in Nat /\ y = x + 1 + (y - x - 1)
    OBVIOUS
  <2> QED
    BY <2>1
<1>2. d * z >= 0
  OBVIOUS
<1>3. d * y = d * (x + 1) + d * z
  BY <1>1
<1> QED
  BY <1>2, <1>3

LEMMA Quotient ==
  ASSUME NEW a \in Nat, NEW d \in Nat, d > 0
  PROVE  /\ a \div d \in Nat
         /\ d * (a \div d) <= a
         /\ a < d * (a \div d + 1)
OBVIOUS

LEMMA QuotientUnique ==
  ASSUME NEW a \in Nat, NEW d \in Nat, d > 0, NEW q \in Nat,
         d * q <= a, a < d * (q + 1)
  PROVE  a \div d = q
<1> DEFINE p == a \div d
<1>1. p \in Nat /\ d * p <= a /\ a < d * (p + 1)
  BY Quotient
<1> HIDE DEF p
<1>2. ASSUME p < q PROVE FALSE
  <2>1. d * (p + 1) <= d * q
    BY <1>1, <1>2, NextMultiple
  <2> QED
    BY <2>1, <1>1
<1>3. ASSUME q < p PROVE FALSE
  <2>1. d * (q + 1) <= d * p
    BY <1>1, <1>3, NextMultiple
  <2> QED
    BY <2>1, <1>1
<1>4. p = q
  BY <1>1, <1>2, <1>3
<1> QED
  BY <1>4 DEF p

\* A shift by one more bit.
LEMMA Halve ==
  ASSUME NEW a \in Nat, NEW p \in Nat, p > 0
  PROVE  a \div (2 * p) = (a \div p) \div 2
<1> DEFINE q == a \div p
           h == q \div 2
<1>1. q \in Nat /\ p * q <= a /\ a < p * (q + 1)
  BY Quotient
<1> HIDE DEF q
<1>2. h \in Nat /\ (q = 2 * h \/ q = 2 * h + 1)
  BY <1>1
<1> HIDE DEF h
<1>3. (2 * p) * (h + 1) = (2 * p) * h + p + p
  BY <1>2
<1>4. (2 * p) * h <= a /\ a < (2 * p) * (h + 1)
  <2>1. CASE q = 2 * h
    <3>1. p * q = (2 * p) * h /\ p * (q + 1) = (2 * p) * h + p
      BY <2>1, <1>2
    <3> QED
      BY <3>1, <1>1, <1>2, <1>3
  <2>2. CASE q = 2 * h + 1
    <3>1. p * q = (2 * p) * h + p /\ p * (q + 1) = (2 * p) * h + p + p
      BY <2>2, <1>2
    <3> QED
      BY <3>1, <1>1, <1>2, <1>3
  <2> QED
    BY <2>1, <2>2, <1>2
<1>5. 2 * p \in Nat /\ 2 * p > 0
  OBVIOUS
<1>6. a \div (2 * p) = h
  BY <1>2, <1>4, <1>5, QuotientUnique
<1> QED
  BY <1>6 DEF h, q

\* The first n + 1 bits of an address are its first n bits and bit n.
LEMMA TopNext ==
  ASSUME NEW a \in Addr, NEW n \in 0..(W - 1)
  PROVE  /\ Abstract!Top(a, n) = Abstract!Top(a, n + 1) \div 2
         /\ Abstract!Top(a, n + 1) \in Nat
         /\ in4_get_bit(a, n) = Abstract!Top(a, n + 1) % 2
<1> DEFINE k == W - 1 - n
<1>1. k \in 0..W /\ W - n = k + 1 /\ W - (n + 1) = k
  OBVIOUS
<1>2. a \in Nat
  BY PowAssumption DEF Addr
<1>3. 2^k \in Nat /\ 2^k > 0 /\ 2^(W - n) = 2 * 2^k
  BY <1>1, PowAssumption
<1>4. /\ Abstract!Top(a, n) = a \div (2 * 2^k)
      /\ Abstract!Top(a, n + 1) = a \div 2^k
      /\ in4_get_bit(a, n) = IF (a \div 2^k) % 2 = 1 THEN 1 ELSE 0
  BY <1>1, <1>3 DEF Abstract!Top, in4_get_bit
<1> DEFINE p == 2^k
<1> HIDE DEF k, p
<1>5. p \in Nat /\ p > 0
  BY <1>3 DEF p
<1>6. a \div (2 * p) = (a \div p) \div 2
  BY <1>2, <1>5, Halve
<1>7. a \div p \in Nat
  BY <1>2, <1>5, Quotient
<1> QED
  BY <1>4, <1>6, <1>7 DEF p

\* A set of natural numbers has a smallest element: what the provers need for
\* induction.
LEMMA Smallest ==
  ASSUME NEW T, T \subseteq Nat, T # {}
  PROVE  \E x \in T : \A y \in T : x <= y
<1>1. PICK x \in T : \A y \in T : ~(<<y, x>> \in OpToRel(<, Nat))
  BY NatLessThanWellFounded, WFMin, Zenon
<1>2. \A y \in T : ~(y < x)
  BY <1>1, Zenon DEF OpToRel
<1> QED
  BY <1>2

\* Two addresses agree in their first n bits exactly when they are in the same
\* network of n bits: the walk of lfw_lookup_bg_tree, bit by bit, decides what
\* a comparison of the masked addresses would.
LEMMA BitsAreTop ==
  ASSUME NEW a \in Addr, NEW b \in Addr
  PROVE  \A n \in 0..W :
           (\A j \in 0..(n - 1) : in4_get_bit(a, j) = in4_get_bit(b, j))
             <=> Abstract!Top(a, n) = Abstract!Top(b, n)
<1> DEFINE Agree(n) == \A j \in 0..(n - 1) : in4_get_bit(a, j) = in4_get_bit(b, j)
           Good(n) == Agree(n) <=> Abstract!Top(a, n) = Abstract!Top(b, n)
           Bad == {n \in 0..W : ~Good(n)}
<1>1. SUFFICES ASSUME Bad # {} PROVE FALSE
  OBVIOUS
<1>2. PICK n \in Bad : \A m \in Bad : n <= m
  <2>1. Bad \subseteq Nat
    OBVIOUS
  <2> HIDE DEF Bad
  <2> QED
    BY <1>1, <2>1, Smallest
<1>3. CASE n = 0
  <2>1. a \div 2^W = 0 /\ b \div 2^W = 0
    <3> DEFINE p == 2^W
    <3>1. p \in Nat /\ p > 0 /\ a \in 0..(p - 1) /\ b \in 0..(p - 1)
      BY PowAssumption DEF Addr
    <3> HIDE DEF p
    <3>2. a \div p = 0 /\ b \div p = 0
      BY <3>1
    <3> QED
      BY <3>2 DEF p
  <2>2. Good(0)
    BY <2>1 DEF Abstract!Top
  <2> QED
    BY <2>2, <1>2, <1>3
<1>4. CASE n # 0
  <2> DEFINE m == n - 1
             x == Abstract!Top(a, n)
             y == Abstract!Top(b, n)
  <2>1. m \in 0..(W - 1) /\ n = m + 1 /\ m \notin Bad
    BY <1>2, <1>4
  <2>2. Good(m)
    BY <2>1
  <2>3. /\ Abstract!Top(a, m) = x \div 2 /\ in4_get_bit(a, m) = x % 2 /\ x \in Nat
        /\ Abstract!Top(b, m) = y \div 2 /\ in4_get_bit(b, m) = y % 2 /\ y \in Nat
    BY <2>1, TopNext
  <2>4. Agree(n) <=> Agree(m) /\ in4_get_bit(a, m) = in4_get_bit(b, m)
    BY <2>1
  <2> HIDE DEF x, y
  <2>5. x = y <=> x \div 2 = y \div 2 /\ x % 2 = y % 2
    BY <2>3
  <2>6. Good(n)
    BY <2>2, <2>3, <2>4, <2>5 DEF x, y
  <2> QED
    BY <2>6, <1>2
<1> QED
  BY <1>3, <1>4

-----------------------------------------------------------------------------
(* The tree implements the list.                                           *)

\* The answer that the walk gives is the answer that the list gives.
LEMMA ExpectedIsAnswer ==
  ASSUME NEW l \in AnyList, NEW ip \in Addr
  PROVE  Expected(l, ip) = Abstract!Answer(l, ip)
<1>1. CASE l = NoList
  BY <1>1 DEF Expected, Abstract!Answer, NoList
<1>2. CASE l # NoList
  <2>1. l \in Seq(Prefix)
    BY <1>2 DEF AnyList
  <2>2. ASSUME NEW i \in DOMAIN l
        PROVE  Matches(ip, l[i]) <=>
                 Abstract!Top(ip, l[i].len) = Abstract!Top(l[i].ip, l[i].len)
    <3>1. l[i] \in Prefix
      BY <2>1, <2>2, ElementOfSeq
    <3>2. l[i].ip \in Addr /\ l[i].len \in 0..W
      BY <3>1 DEF Prefix
    <3> QED
      BY <3>2, BitsAreTop DEF Matches
  <2> QED
    BY <1>2, <2>2 DEF Expected, Abstract!Answer, NoList
<1> QED
  BY <1>1, <1>2

\* The message being handled is one that user space sent.
Sent == lpc # "idle" => msg \in List

LEMMA SentInvariant == Spec => []Sent
<1>1. Init => Sent
  BY DEF Init, Sent
<1>2. Sent /\ [Next]_vars => Sent'
  <2> SUFFICES ASSUME Sent, [Next]_vars PROVE Sent'
    OBVIOUS
  <2> USE DEF Sent
  <2>1. CASE \E l \in List : load_begin(l)
    BY <2>1 DEF load_begin
  <2>2. CASE \E l \in List : set_no_buffer(l) \/ load_no_memory(l)
    BY <2>2 DEF set_no_buffer, load_no_memory
  <2>3. CASE set_empty \/ LoadStep
    BY <2>3 DEF set_empty, LoadStep, load_step, load_step_no_memory, load_mark,
                load_swap, load_end, Inserting, Complete
  <2>4. CASE \/ \E t \in cb : lfw_free_bg_tree(t)
             \/ \E r \in Reader, ip \in Source : lookup_enter(r, ip)
             \/ \E r \in Reader : LookupStep(r)
             \/ UNCHANGED vars
    BY <2>4 DEF lfw_free_bg_tree, lookup_enter, LookupStep, lookup_step,
                lookup_end, loadVars, vars
  <2> QED
    BY <2>1, <2>2, <2>3, <2>4 DEF Next
<1> QED
  BY <1>1, <1>2, PTL DEF Spec

\* The answers in progress, as BogonList has them.
Answers == [r \in Reader |-> IF rpc[r] = "walk" THEN Expected(rlist[r], rip[r])
                             ELSE NULL]

\* Steps that leave the lookups and the list in force alone.
LEMMA ListStutter ==
  ASSUME list'[tree'] = list[tree], UNCHANGED <<rpc, rip, result, rlist>>
  PROVE  UNCHANGED Abstract!vars
<1>1. Answers' = Answers
  BY DEF Answers, Expected, Matches, NoList
<1> QED
  BY <1>1 DEF Abstract!vars, Answers

\* The steps of the handler: only the exchange of the trees is one of the list.
LEMMA LoadRefines ==
  ASSUME Inv, Sent,
         \/ set_empty
         \/ \E l \in List : set_no_buffer(l) \/ load_begin(l) \/ load_no_memory(l)
         \/ LoadStep
  PROVE  [Abstract!Next]_(Abstract!vars)
<1>1. UNCHANGED <<rpc, rip, result, rlist>>
  BY DEF set_empty, set_no_buffer, load_begin, load_no_memory, LoadStep, load_step,
         load_step_no_memory, load_mark, load_swap, load_end, readVars
<1>2. CASE load_swap
  <2>1. list'[tree'] = msg /\ msg # <<>> /\ msg \in List
    BY <1>2 DEF load_swap, Complete, Inv, LoadOK, Sent
  <2>2. Answers' = Answers
    BY <1>1 DEF Answers, Expected, Matches, NoList
  <2>3. Abstract!Replace(msg)
    BY <1>1, <2>1, <2>2 DEF Abstract!Replace, Answers
  <2> QED
    BY <2>1, <2>3 DEF Abstract!Next
<1>3. CASE ~load_swap
  <2>1. tree' = tree /\ (list' = list \/ \E l \in List : load_begin(l))
    BY <1>3 DEF set_empty, set_no_buffer, load_begin, load_no_memory, LoadStep,
                load_step, load_step_no_memory, load_mark, load_end, treeVars
  <2>2. ASSUME NEW l \in List, load_begin(l) PROVE list'[tree] = list[tree]
    BY <2>2 DEF load_begin, kzalloc, Inv, NoLeak, TypeOK
  <2>3. list'[tree'] = list[tree]
    BY <2>1, <2>2
  <2> QED
    BY <1>1, <2>3, ListStutter
<1> QED
  BY <1>2, <1>3

\* A tree that is freed is not the one in force.
LEMMA FreeRefines ==
  ASSUME Inv, NEW t \in cb, lfw_free_bg_tree(t)
  PROVE  UNCHANGED Abstract!vars
<1>1. list'[tree'] = list[tree]
  BY DEF lfw_free_bg_tree, Inv, NoLeak, TypeOK
<1>2. UNCHANGED <<rpc, rip, result, rlist>>
  BY DEF lfw_free_bg_tree, readVars
<1> QED
  BY <1>1, <1>2, ListStutter

\* A lookup has its answer from the moment it dereferences the tree ...
LEMMA EnterRefines ==
  ASSUME Inv, NEW r \in Reader, NEW ip \in Source, lookup_enter(r, ip)
  PROVE  Abstract!Next
<1>1. list[tree] \in AnyList /\ ip \in Addr
  BY InputAssumption DEF Inv, TypeOK
<1>2. /\ rpc[r] = "out"
      /\ rpc' = [rpc EXCEPT ![r] = "walk"]
      /\ rip' = [rip EXCEPT ![r] = ip]
      /\ rlist' = [rlist EXCEPT ![r] = list[tree]]
      /\ result' = [result EXCEPT ![r] = NULL]
      /\ UNCHANGED <<tree, list>>
  BY DEF lookup_enter, treeVars
<1>3. Answers' = [Answers EXCEPT ![r] = Expected(list[tree], ip)]
  <2>1. \A q \in Reader : rpc'[q] = (IF q = r THEN "walk" ELSE rpc[q]) /\
                           rip'[q] = (IF q = r THEN ip ELSE rip[q]) /\
                           rlist'[q] = (IF q = r THEN list[tree] ELSE rlist[q])
    BY <1>2 DEF Inv, TypeOK
  <2>2. Answers' = [q \in Reader |-> IF rpc'[q] = "walk"
                                     THEN Expected(rlist'[q], rip'[q]) ELSE NULL]
    BY DEF Answers, Expected, Matches, NoList
  <2> QED
    BY <2>1, <2>2 DEF Answers
<1>4. Answers[r] = NULL
  BY <1>2 DEF Answers
<1>5. Abstract!Ask(r, ip)
  BY <1>1, <1>2, <1>3, <1>4, ExpectedIsAnswer DEF Abstract!Ask, Answers
<1> QED
  BY <1>5 DEF Abstract!Next

\* ... and returns it.
LEMMA EndRefines ==
  ASSUME Inv, NEW r \in Reader, lookup_end(r)
  PROVE  Abstract!Next
<1>1. /\ rpc[r] = "walk" /\ ~GoesOn(r)
      /\ rpc' = [rpc EXCEPT ![r] = "out"]
      /\ result' = [result EXCEPT ![r] = Verdict(r)]
      /\ UNCHANGED <<tree, list, rip, rlist>>
  BY DEF lookup_end, treeVars
<1>2. Verdict(r) = Answers[r] /\ Answers[r] \in Int
  BY <1>1, VerdictCorrect DEF Answers
<1>3. Answers' = [Answers EXCEPT ![r] = NULL]
  <2>1. \A q \in Reader : rpc'[q] = (IF q = r THEN "out" ELSE rpc[q])
    BY <1>1 DEF Inv, TypeOK
  <2>2. Answers' = [q \in Reader |-> IF rpc'[q] = "walk"
                                     THEN Expected(rlist[q], rip[q]) ELSE NULL]
    BY <1>1 DEF Answers, Expected, Matches, NoList
  <2> QED
    BY <2>1, <2>2 DEF Answers
<1>4. Abstract!Reply(r)
  BY <1>1, <1>2, <1>3 DEF Abstract!Reply, Answers
<1> QED
  BY <1>4 DEF Abstract!Next

\* The tree of bogon.c, rebuilt beside the one in use and exchanged under RCU,
\* is to the filter hook one list that a message replaces in one step and that
\* every lookup consults at one moment.
THEOREM TreeImplementsList == Spec => ImplementsList
<1>1. Init => Abstract!Init
  <2> SUFFICES ASSUME Init PROVE Abstract!Init
    OBVIOUS
  <2>1. list[tree] = NULL
    BY DEF Init, NoList
  <2>2. Answers = [r \in Reader |-> NULL]
    BY DEF Init, Answers
  <2> QED
    BY <2>1, <2>2 DEF Init, Abstract!Init, Answers
<1>2. Inv /\ Sent /\ [Next]_vars => [Abstract!Next]_(Abstract!vars)
  <2> SUFFICES ASSUME Inv, Sent, [Next]_vars
               PROVE  [Abstract!Next]_(Abstract!vars)
    OBVIOUS
  <2>1. CASE \/ set_empty
             \/ \E l \in List : set_no_buffer(l) \/ load_begin(l) \/ load_no_memory(l)
             \/ LoadStep
    BY <2>1, LoadRefines
  <2>2. CASE \E t \in cb : lfw_free_bg_tree(t)
    BY <2>2, FreeRefines
  <2>3. CASE \E r \in Reader, ip \in Source : lookup_enter(r, ip)
    BY <2>3, EnterRefines
  <2>4. CASE \E r \in Reader : lookup_end(r)
    BY <2>4, EndRefines
  <2>5. CASE (\E r \in Reader : lookup_step(r)) \/ UNCHANGED vars
    <3>1. list'[tree'] = list[tree] /\ UNCHANGED <<rpc, rip, result, rlist>>
      BY <2>5 DEF lookup_step, treeVars, vars, readVars
    <3> QED
      BY <3>1, ListStutter
  <2> QED
    BY <2>1, <2>2, <2>3, <2>4, <2>5 DEF Next, LookupStep
<1> QED
  BY <1>1, <1>2, Inductive, SentInvariant, PTL DEF Spec, ImplementsList, Abstract!Spec

=============================================================================
