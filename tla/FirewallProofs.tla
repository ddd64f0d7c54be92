--------------------------- MODULE FirewallProofs ---------------------------
(***************************************************************************)
(* Proofs about the two hooks: for every number of CPUs and work items and  *)
(* whatever lists, histories and packets there are, a verdict is one that   *)
(* the configuration allowed while the packet was being filtered.           *)
(***************************************************************************)
EXTENDS Firewall, TLAPS

-----------------------------------------------------------------------------
(* The inductive invariant.                                                *)

\* The two answers in progress.  A lookup that has begun has an answer.
AnswersOK ==
  /\ bans \in [Cpu -> {NULL, -2, -1, 1}]
  /\ hans \in [Cpu -> {NULL, -1, 0, 1}]
  /\ \A c \in Cpu : pc[c] = "bogon" => bans[c] \in {-2, -1, 1}
  /\ \A c \in Cpu : pc[c] = "hops" => hans[c] \in {-1, 0, 1}

\* What the hook has learned so far was true since the packet arrived: an
\* answer it holds, and each answer that brought it to where it is.
Remembered(c) ==
  /\ pc[c] = "bogon" => (IF bans[c] = 1 THEN "bogon" ELSE "clean") \in seen[c]
  /\ pc[c] \in {"flag", "hcf", "hops", "accepted"} => "clean" \in seen[c]
  /\ pc[c] \in {"hcf", "hops"} => "attack" \in seen[c]
  /\ pc[c] = "hops" => (IF hans[c] = 1 THEN "known" ELSE "stranger") \in seen[c]
  /\ pc[c] = "accepted" => {"calm", "known"} \cap seen[c] # {}
  /\ pc[c] = "dropped" =>
       "bogon" \in seen[c] \/ {"attack", "stranger"} \subseteq seen[c]

\* A packet under way is one that arrived.
PacketsOK ==
  \A c \in Cpu : pc[c] # "idle" => pip[c] \in Source /\ pttl[c] \in Ttl

Inv ==
  /\ TypeOK
  /\ AnswersOK
  /\ PacketsOK
  /\ \A c \in Cpu : Remembered(c)

-----------------------------------------------------------------------------
(* Answers and observations.                                               *)

\* lfw_lookup_bg_tree answers -2, -1 or 1.
LEMMA BogonAnswerType == \A l, ip : Bogons!Answer(l, ip) \in {-2, -1, 1}
BY DEF Bogons!Answer

\* hcf_lookup_tree answers -1, 0 or 1.
LEMMA HcfAnswerType == \A m, ip, ttl : Hcf!Answer(m, ip, ttl) \in {-1, 0, 1}
BY DEF Hcf!Answer, Hcf!HopsAgree

\* While a packet is under way nothing that was seen is forgotten, and what is
\* true now is seen.
LEMMA Seen ==
  ASSUME Observe, NEW c \in Cpu, pc'[c] # "idle"
  PROVE  seen[c] \subseteq seen'[c] /\ Facts(c)' \subseteq seen'[c]
BY DEF Observe

\* The facts about the packet on c after a step.
LEMMA FactsNext ==
  ASSUME NEW c \in Cpu
  PROVE  /\ (IF Bogons!Answer(list', pip'[c]) = 1 THEN "bogon" ELSE "clean")
              \in Facts(c)'
         /\ (IF attack' THEN "attack" ELSE "calm") \in Facts(c)'
         /\ (IF Hcf!Answer(hops', pip'[c], pttl'[c]) = 1
               THEN "known" ELSE "stranger") \in Facts(c)'
BY DEF Facts

\* A step that leaves a CPU where it was, with the answers it holds, leaves
\* what it remembers true.
LEMMA OtherCpu ==
  ASSUME Inv, Observe, NEW c \in Cpu,
         pc'[c] = pc[c],
         pc[c] = "bogon" => bans'[c] = bans[c],
         pc[c] = "hops" => hans'[c] = hans[c]
  PROVE  Remembered(c)'
<1>1. CASE pc[c] = "idle"
  BY <1>1 DEF Remembered
<1>2. CASE pc[c] # "idle"
  <2>1. seen[c] \subseteq seen'[c]
    BY <1>2, Seen
  <2>2. Remembered(c)
    BY DEF Inv
  <2>3. QED
    BY <2>1, <2>2 DEF Remembered
<1>3. QED
  BY <1>1, <1>2


-----------------------------------------------------------------------------
(* One lemma per step.                                                     *)

\* The lookup in the bogon list holds what the list says now, which is seen.
LEMMA BeginKeeps ==
  ASSUME Inv, NEW c \in Cpu, NEW ip \in Source, NEW ttl \in Ttl,
         filter_begin(c, ip, ttl)
  PROVE  Inv'
<1> USE DEF filter_begin, ReadHeader, Bogons!Ask, Goto, hcfVars
<1>1. TypeOK' /\ AnswersOK' /\ PacketsOK'
  BY BogonAnswerType DEF Inv, TypeOK, AnswersOK, PacketsOK, PacketsOK
<1>2. Remembered(c)'
  <2>1. pc'[c] = "bogon" /\ pip'[c] = ip /\ list' = list
    BY DEF Inv, TypeOK
  <2>2. bans'[c] = Bogons!Answer(list, ip)
    BY DEF Inv, AnswersOK
  <2>3. (IF bans'[c] = 1 THEN "bogon" ELSE "clean") \in seen'[c]
    BY <2>1, <2>2, Seen, FactsNext
  <2>4. QED
    BY <2>1, <2>3 DEF Remembered
<1>3. ASSUME NEW d \in Cpu, d # c PROVE Remembered(d)'
  BY <1>3, OtherCpu DEF Inv, TypeOK, AnswersOK, PacketsOK, PacketsOK
<1>4. QED
  BY <1>1, <1>2, <1>3 DEF Inv

\* The answer of the bogon list, seen when it was given, decides.
LEMMA BogonKeeps ==
  ASSUME Inv, NEW c \in Cpu, filter_bogon(c)
  PROVE  Inv'
<1> USE DEF filter_bogon, Bogons!Reply, Goto, hcfVars, packet, IsBogon
<1>1. TypeOK' /\ AnswersOK' /\ PacketsOK'
  BY DEF Inv, TypeOK, AnswersOK, PacketsOK, PacketsOK
<1>2. Remembered(c)'
  <2>1. pc[c] = "bogon" /\ bans[c] \in {-2, -1, 1}
    BY DEF Inv, AnswersOK
  <2>2. pc'[c] = IF bans[c] = 1 THEN "dropped" ELSE "flag"
    BY <2>1 DEF Inv, TypeOK
  <2>3. seen[c] \subseteq seen'[c]
    BY <2>2, Seen
  <2>4. (IF bans[c] = 1 THEN "bogon" ELSE "clean") \in seen[c]
    BY <2>1 DEF Inv, Remembered
  <2>5. QED
    BY <2>2, <2>3, <2>4 DEF Remembered
<1>3. ASSUME NEW d \in Cpu, d # c PROVE Remembered(d)'
  BY <1>3, OtherCpu DEF Inv, TypeOK, AnswersOK, PacketsOK, PacketsOK
<1>4. QED
  BY <1>1, <1>2, <1>3 DEF Inv

\* The flag that is read is the flag of the moment.
LEMMA FlagKeeps ==
  ASSUME Inv, NEW c \in Cpu, filter_flag(c)
  PROVE  Inv'
<1> USE DEF filter_flag, Goto, bogonVars, hcfVars, packet
<1>1. TypeOK' /\ AnswersOK' /\ PacketsOK'
  BY DEF Inv, TypeOK, AnswersOK, PacketsOK, PacketsOK
<1>2. Remembered(c)'
  <2>1. pc'[c] = (IF attack THEN "hcf" ELSE "accepted") /\ attack' = attack
    BY DEF Inv, TypeOK
  <2>2. seen[c] \subseteq seen'[c]
    BY <2>1, Seen
  <2>3. (IF attack THEN "attack" ELSE "calm") \in seen'[c]
    BY <2>1, Seen, FactsNext
  <2>4. "clean" \in seen[c]
    BY DEF Inv, Remembered
  <2>5. QED
    BY <2>1, <2>2, <2>3, <2>4 DEF Remembered
<1>3. ASSUME NEW d \in Cpu, d # c PROVE Remembered(d)'
  BY <1>3, OtherCpu DEF Inv, TypeOK, AnswersOK, PacketsOK, PacketsOK
<1>4. QED
  BY <1>1, <1>2, <1>3 DEF Inv

\* The lookup in the trie holds what the map says now, which is seen.
LEMMA HcfBeginKeeps ==
  ASSUME Inv, NEW c \in Cpu, filter_hcf_begin(c)
  PROVE  Inv'
<1> USE DEF filter_hcf_begin, Hcf!Ask, Goto, bogonVars, packet
<1>1. TypeOK' /\ AnswersOK' /\ PacketsOK'
  BY HcfAnswerType DEF Inv, TypeOK, AnswersOK, PacketsOK, PacketsOK
<1>2. Remembered(c)'
  <2>1. pc'[c] = "hops" /\ hops' = hops /\ pip' = pip /\ pttl' = pttl
    BY DEF Inv, TypeOK
  <2>2. hans'[c] = Hcf!Answer(hops, pip[c], pttl[c])
    BY DEF Inv, AnswersOK
  <2>3. (IF hans'[c] = 1 THEN "known" ELSE "stranger") \in seen'[c]
    BY <2>1, <2>2, Seen, FactsNext
  <2>4. "clean" \in seen'[c] /\ "attack" \in seen'[c]
    BY <2>1, Seen DEF Inv, Remembered
  <2>5. QED
    BY <2>1, <2>3, <2>4 DEF Remembered
<1>3. ASSUME NEW d \in Cpu, d # c PROVE Remembered(d)'
  BY <1>3, OtherCpu DEF Inv, TypeOK, AnswersOK, PacketsOK, PacketsOK
<1>4. QED
  BY <1>1, <1>2, <1>3 DEF Inv

\* The answer of the trie, seen when it was given, decides.
LEMMA HcfKeeps ==
  ASSUME Inv, NEW c \in Cpu, filter_hcf(c)
  PROVE  Inv'
<1> USE DEF filter_hcf, Hcf!Reply, Goto, bogonVars, packet, Suspicious
<1>1. TypeOK' /\ AnswersOK' /\ PacketsOK'
  BY DEF Inv, TypeOK, AnswersOK, PacketsOK, PacketsOK
<1>2. Remembered(c)'
  <2>1. pc[c] = "hops" /\ hans[c] \in {-1, 0, 1}
    BY DEF Inv, AnswersOK
  <2>2. pc'[c] = IF hans[c] = 1 THEN "accepted" ELSE "dropped"
    BY <2>1 DEF Inv, TypeOK
  <2>3. seen[c] \subseteq seen'[c]
    BY <2>2, Seen
  <2>4. /\ "clean" \in seen[c] /\ "attack" \in seen[c]
        /\ (IF hans[c] = 1 THEN "known" ELSE "stranger") \in seen[c]
    BY <2>1 DEF Inv, Remembered
  <2>5. QED
    BY <2>2, <2>3, <2>4 DEF Remembered
<1>3. ASSUME NEW d \in Cpu, d # c PROVE Remembered(d)'
  BY <1>3, OtherCpu DEF Inv, TypeOK, AnswersOK, PacketsOK, PacketsOK
<1>4. QED
  BY <1>1, <1>2, <1>3 DEF Inv

\* A packet that is gone, or that the learn hook looks at, needs no verdict.
LEMMA LeaveKeeps ==
  ASSUME Inv, NEW c \in Cpu, packet_end(c) \/ learn_flag(c) \/ learn_queue(c)
  PROVE  Inv'
<1> USE DEF packet_end, learn_flag, learn_queue, Goto, bogonVars, hcfVars,
            packet, Hcf!Request
<1>1. /\ pc' = [pc EXCEPT ![c] = "idle"] \/ pc' = [pc EXCEPT ![c] = "learn"]
      /\ UNCHANGED <<attack, bans, bres, hans, hres, pip, pttl>>
      /\ Observe
  OBVIOUS
<1>2. TypeOK' /\ AnswersOK' /\ PacketsOK'
  BY <1>1 DEF Inv, TypeOK, AnswersOK, PacketsOK, PacketsOK
<1>3. Remembered(c)'
  BY <1>1 DEF Remembered, Inv, TypeOK
<1>4. ASSUME NEW d \in Cpu, d # c PROVE Remembered(d)'
  BY <1>1, <1>4, OtherCpu DEF Inv, TypeOK, AnswersOK, PacketsOK, PacketsOK
<1>5. QED
  BY <1>2, <1>3, <1>4 DEF Inv

\* A packet that meets the learn hook only has no verdict.
LEMMA LocalKeeps ==
  ASSUME Inv, NEW c \in Cpu, NEW ip \in Source, NEW ttl \in Ttl,
         local_in(c, ip, ttl)
  PROVE  Inv'
<1> USE DEF local_in, ReadHeader, Goto, bogonVars, hcfVars
<1>1. TypeOK' /\ AnswersOK' /\ PacketsOK'
  BY DEF Inv, TypeOK, AnswersOK, PacketsOK
<1>2. Remembered(c)'
  BY DEF Remembered, Inv, TypeOK
<1>3. ASSUME NEW d \in Cpu, d # c PROVE Remembered(d)'
  BY <1>3, OtherCpu DEF Inv, TypeOK, AnswersOK, PacketsOK
<1>4. QED
  BY <1>1, <1>2, <1>3 DEF Inv

\* A command, or a work item, moves no packet.
LEMMA CommandKeeps ==
  ASSUME Inv,
         \/ \E v \in BOOLEAN : lfw_state_set_under_attack(v)
         \/ \E l \in List : bogon_set(l)
         \/ \E h \in History : hcf_history(h)
         \/ \E t \in Task : work(t)
  PROVE  Inv'
<1>1. /\ attack' \in BOOLEAN
      /\ UNCHANGED <<bans, bres, hans, hres, pc, pip, pttl>>
      /\ Observe
  BY DEF lfw_state_set_under_attack, bogon_set, hcf_history, work, bogonVars,
         hcfVars, packet, Bogons!Replace, Hcf!Load, Hcf!Learn, Hcf!Release,
         Inv, TypeOK
<1>2. TypeOK' /\ AnswersOK' /\ PacketsOK'
  BY <1>1 DEF Inv, TypeOK, AnswersOK, PacketsOK, PacketsOK
<1>3. ASSUME NEW d \in Cpu PROVE Remembered(d)'
  BY <1>1, <1>3, OtherCpu
<1>4. QED
  BY <1>2, <1>3 DEF Inv

-----------------------------------------------------------------------------
(* The theorems.                                                           *)

\* The invariant of the hooks.
THEOREM Invariance == Spec => []Inv
<1>1. Init => Inv
  BY DEF Init, Bogons!Init, Hcf!Init, Inv, TypeOK, AnswersOK, PacketsOK, Remembered
<1>2. Inv /\ [Next]_vars => Inv'
  <2> SUFFICES ASSUME Inv, [Next]_vars PROVE Inv'
    OBVIOUS
  <2>1. CASE \E c \in Cpu, ip \in Source, ttl \in Ttl : filter_begin(c, ip, ttl)
    BY <2>1, BeginKeeps
  <2>2. CASE \E c \in Cpu : HookStep(c)
    BY <2>2, BogonKeeps, FlagKeeps, HcfBeginKeeps, HcfKeeps, LeaveKeeps
       DEF HookStep
  <2>3. CASE \/ \E v \in BOOLEAN : lfw_state_set_under_attack(v)
             \/ \E l \in List : bogon_set(l)
             \/ \E h \in History : hcf_history(h)
             \/ \E t \in Task : work(t)
    BY <2>3, CommandKeeps
  <2>4. CASE UNCHANGED vars
    BY <2>4 DEF vars, bogonVars, hcfVars, packet, Inv, TypeOK, AnswersOK, PacketsOK,
                Remembered
  <2>5. CASE \E c \in Cpu, ip \in Source, ttl \in Ttl : local_in(c, ip, ttl)
    BY <2>5, LocalKeeps
  <2>6. QED
    BY <2>1, <2>2, <2>3, <2>4, <2>5 DEF Next
<1>3. QED
  BY <1>1, <1>2, PTL DEF Spec

\* Type correctness of the hooks' state, the recorded answers of the two
\* lookups included.
THEOREM TypeCorrect == Spec => []TypeOK
<1>1. Inv => TypeOK
  BY DEF Inv
<1>2. QED
  BY <1>1, Invariance, PTL

\* Whatever netlink commands and work items come between the three reads of
\* lfw_filter_ipv4_hook_fn, a packet that passed had a clean source and either
\* no attack was declared or its hop count was known.
THEOREM PassIsJustified == Spec => []PassJustified
<1>1. Inv => PassJustified
  BY DEF Inv, Remembered, PassJustified
<1>2. QED
  BY <1>1, Invariance, PTL

\* Likewise a packet that was dropped had a bogon source, or an attack was
\* declared and its hop count was unknown or wrong.
THEOREM DropIsJustified == Spec => []DropJustified
<1>1. Inv => DropJustified
  BY DEF Inv, Remembered, DropJustified
<1>2. QED
  BY <1>1, Invariance, PTL

-----------------------------------------------------------------------------
(* The hooks and the two components.                                       *)

\* The hooks and the handlers use the bogon list only in the ways BogonList
\* describes, so what is shown of Bogon holds for the list they see.
THEOREM UsesBogonList == Spec => Bogons!Spec
<1>1. Init => Bogons!Init
  BY DEF Init
<1>2. Inv /\ [Next]_vars => [Bogons!Next]_(Bogons!vars)
  <2> SUFFICES ASSUME Inv, [Next]_vars
               PROVE  Bogons!Next \/ UNCHANGED bogonVars
    BY DEF Bogons!vars, bogonVars
  <2>1. CASE \E c \in Cpu, ip \in Source, ttl \in Ttl : filter_begin(c, ip, ttl)
    BY <2>1 DEF filter_begin, Bogons!Next
  <2>2. CASE \E c \in Cpu : HookStep(c)
    BY <2>2 DEF HookStep, filter_bogon, filter_flag, filter_hcf_begin, filter_hcf,
                packet_end, learn_flag, learn_queue, Bogons!Next
  <2>3. CASE \E l \in List : bogon_set(l)
    BY <2>3 DEF bogon_set, Bogons!Next
  <2>4. CASE \/ \E v \in BOOLEAN : lfw_state_set_under_attack(v)
             \/ \E h \in History : hcf_history(h)
             \/ \E t \in Task : work(t)
             \/ \E c \in Cpu, ip \in Source, ttl \in Ttl : local_in(c, ip, ttl)
             \/ UNCHANGED vars
    BY <2>4 DEF local_in, lfw_state_set_under_attack, hcf_history, work, vars
  <2>5. QED
    BY <2>1, <2>2, <2>3, <2>4 DEF Next
<1>3. QED
  BY <1>1, <1>2, Invariance, PTL DEF Spec, Bogons!Spec

\* They use the hop-count map only in the ways HcfMap describes, with sources
\* and TTLs that some packet had: hcf_register_ip takes both from the packet
\* that is still on its CPU.
THEOREM UsesHcfMap == Spec => Hcf!Spec
<1>1. Init => Hcf!Init
  BY DEF Init
<1>2. Inv /\ [Next]_vars => [Hcf!Next]_(Hcf!vars)
  <2> SUFFICES ASSUME Inv, [Next]_vars
               PROVE  Hcf!Next \/ UNCHANGED hcfVars
    BY DEF Hcf!vars, hcfVars
  <2>1. CASE \E c \in Cpu : filter_hcf_begin(c)
    BY <2>1 DEF filter_hcf_begin, Hcf!Next, Inv, PacketsOK
  <2>2. CASE \E c \in Cpu : learn_queue(c)
    BY <2>2 DEF learn_queue, Hcf!Next, Inv, PacketsOK
  <2>3. CASE \E c \in Cpu : filter_hcf(c)
    BY <2>3 DEF filter_hcf, Hcf!Next
  <2>4. CASE \E h \in History : hcf_history(h)
    BY <2>4 DEF hcf_history, Hcf!Next
  <2>5. CASE \E t \in Task : work(t)
    BY <2>5 DEF work, Hcf!Next
  <2>6. CASE \/ \E c \in Cpu, ip \in Source, ttl \in Ttl : filter_begin(c, ip, ttl)
             \/ \E c \in Cpu, ip \in Source, ttl \in Ttl : local_in(c, ip, ttl)
             \/ \E c \in Cpu : \/ filter_bogon(c) \/ filter_flag(c)
                               \/ packet_end(c) \/ learn_flag(c)
             \/ \E v \in BOOLEAN : lfw_state_set_under_attack(v)
             \/ \E l \in List : bogon_set(l)
             \/ UNCHANGED vars
    BY <2>6 DEF filter_begin, local_in, filter_bogon, filter_flag, packet_end, learn_flag,
                lfw_state_set_under_attack, bogon_set, vars
  <2>7. QED
    BY <2>1, <2>2, <2>3, <2>4, <2>5, <2>6 DEF Next, HookStep
<1>3. QED
  BY <1>1, <1>2, Invariance, PTL DEF Spec, Hcf!Spec

=============================================================================
