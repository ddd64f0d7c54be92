----------------------------- MODULE BogonList -----------------------------
(***************************************************************************)
(* What the bogon tree promises to the filter hook: there is one list of    *)
(* prefixes in force, a message replaces it in one step, and a lookup       *)
(* answers whether the list in force at one moment of the lookup has a      *)
(* prefix that matches.                                                     *)
(***************************************************************************)
EXTENDS Integers, Sequences

CONSTANTS W, Source, List, Reader, NULL

VARIABLES
  list,       \* the list in force, or NULL before the first one
  ans,        \* ans[r]: what the lookup in progress will return, or NULL
  result      \* result[r]: what the last lookup returned

vars == <<list, ans, result>>

\* The first len bits of an address, as a number.
Top(ip, len) == ip \div 2^(W - len)

Answer(l, ip) ==
  IF l = NULL THEN -1
  ELSE IF \E i \in DOMAIN l : Top(ip, l[i].len) = Top(l[i].ip, l[i].len) THEN 1
  ELSE -2

Init ==
  /\ list = NULL
  /\ ans = [r \in Reader |-> NULL]
  /\ result = [r \in Reader |-> NULL]

Replace(l) ==
  /\ l # <<>>
  /\ list' = l
  /\ UNCHANGED <<ans, result>>

Ask(r, ip) ==
  /\ ans[r] = NULL
  /\ ans' = [ans EXCEPT ![r] = Answer(list, ip)]
  /\ result' = [result EXCEPT ![r] = NULL]
  /\ UNCHANGED list

Reply(r) ==
  /\ ans[r] # NULL
  /\ result' = [result EXCEPT ![r] = ans[r]]
  /\ ans' = [ans EXCEPT ![r] = NULL]
  /\ UNCHANGED list

Next ==
  \/ \E l \in List : Replace(l)
  \/ \E r \in Reader, ip \in Source : Ask(r, ip)
  \/ \E r \in Reader : Reply(r)

Spec == Init /\ [][Next]_vars

=============================================================================
