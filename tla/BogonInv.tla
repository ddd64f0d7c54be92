------------------------------ MODULE BogonInv ------------------------------
(***************************************************************************)
(* The inductive invariant behind the answers of the bogon list: what the   *)
(* tree under construction holds already, that every tree a lookup can be   *)
(* in is complete and is waited for, and how far a lookup has come.         *)
(***************************************************************************)
EXTENDS Bogon

\* The marks and the nodes of the first n prefixes of a list.
Marks(l, n) == {Path(l[i].ip, l[i].len) : i \in 1..n}
Paths(l, n) == UNION { {Path(l[i].ip, k) : k \in 0..l[i].len} : i \in 1..n }

\* The handler's pointers, and what it has inserted so far: all prefixes before
\* lnum and the path to lrunner.
LoadOK ==
  /\ lpc = "idle" => ltree = NULL /\ lnum = 1
  /\ lpc # "idle" => ltree \in Tree /\ msg # <<>>
  /\ lpc = "swapped" <=> lold # NULL
  /\ lpc = "swapped" => ltree = tree
  /\ lpc = "oops" => ltree \notin {tree} \cup cb \cup leaked
  /\ lpc = "build" =>
       /\ list[ltree] = msg
       /\ bogon[ltree] = Marks(msg, lnum - 1)
       /\ IF lnum <= Len(msg)
          THEN /\ Len(lrunner) <= msg[lnum].len
               /\ lrunner = Path(msg[lnum].ip, Len(lrunner))
               /\ nodes[ltree] = Paths(msg, lnum - 1) \cup
                                   {Path(msg[lnum].ip, k) : k \in 0..Len(lrunner)}
          ELSE nodes[ltree] = Paths(msg, lnum - 1)

\* The trees that lookups can be in.
Settled == ({tree, lold} \ {NULL}) \cup cb

\* Each of them is the empty tree of the start or holds the whole of a list.
SettledOK ==
  \A t \in Settled :
    IF list[t] = NoList THEN nodes[t] = {}
    ELSE list[t] # <<>> /\ Whole(t)

\* A lookup is in such a tree, which is not freed before it ends, and has come
\* down the path of its address past nodes without a mark.
ReadOK ==
  \A r \in Reader : rpc[r] = "walk" =>
    /\ rtree[r] \in Settled
    /\ rtree[r] \in cb => r \in gp[rtree[r]]
    /\ rlist[r] = list[rtree[r]]
    /\ result[r] = NULL
    /\ Len(rrunner[r]) <= W
    /\ rrunner[r] = Path(rip[r], Len(rrunner[r]))
    /\ rrunner[r] # <<>> => rrunner[r] \in nodes[rtree[r]]
    /\ \A k \in 0..(Len(rrunner[r]) - 1) : Path(rip[r], k) \notin bogon[rtree[r]]

\* The inductive invariant: the handler, the callbacks and the lookups keep the
\* trees complete and in place for each other at every step.
Inv ==
  /\ TypeOK
  /\ NoLeak
  /\ LoadOK
  /\ SettledOK
  /\ ReadOK
  /\ LookupCorrect
=============================================================================
