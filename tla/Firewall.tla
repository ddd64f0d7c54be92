------------------------------ MODULE Firewall ------------------------------
(***************************************************************************)
(* The two netfilter hooks (kernel/src/hooks.c) and the under-attack flag   *)
(* (kernel/src/state.c), over the bogon list and the hop-count map that     *)
(* bogon.c and hcf.c provide (BogonList, HcfMap).                           *)
(*                                                                         *)
(* A packet meets the filter hook at ingress, which consults the bogon     *)
(* list, the flag and the hop-count map one after the other, with no lock  *)
(* around the three; if it passes and is for this host it meets the learn  *)
(* hook, which reads the flag again and queues a work item.  The filter    *)
(* hook is on one device; packets for this host that come over any other   *)
(* meet the learn hook only.  Meanwhile netlink handlers replace the list, *)
(* the flag and the map and a workqueue carries out what was queued.       *)
(* Packets that are not TCP over IPv4 pass both hooks untouched and are    *)
(* left out.                                                               *)
(***************************************************************************)
EXTENDS Integers, Sequences

CONSTANTS
  AddrBits, HostBits,
  Source, Ttl,
  List,       \* bogon lists user space may send
  History,    \* history messages user space may send
  Cpu,        \* CPUs that receive packets
  Task,       \* work items that may be queued at a time
  NULL

VARIABLES
  attack,     \* state->under_attack
  list, bans, bres,        \* BogonList
  hops, pend, hans, hres,  \* HcfMap
  pc,         \* pc[c]: how far the packet on c has come
  pip, pttl,  \* its source and its TTL
  seen        \* history variable; seen[c]: what was true at some moment since
              \* the packet on c arrived

bogonVars == <<list, bans, bres>>
hcfVars == <<hops, pend, hans, hres>>
packet == <<pip, pttl>>
vars == <<attack, bogonVars, hcfVars, pc, packet, seen>>

Nets == 0 .. 2^(AddrBits - HostBits) - 1

Bogons == INSTANCE BogonList WITH
            W <- AddrBits, Reader <- Cpu, ans <- bans, result <- bres

Hcf == INSTANCE HcfMap WITH
         Net <- Nets, Reader <- Cpu, ans <- hans, result <- hres

\* What the three sources of the verdict say at this moment about the packet
\* on c.
Facts(c) ==
  { IF Bogons!Answer(list, pip[c]) = 1 THEN "bogon" ELSE "clean",
    IF attack THEN "attack" ELSE "calm",
    IF Hcf!Answer(hops, pip[c], pttl[c]) = 1 THEN "known" ELSE "stranger" }

Init ==
  /\ attack = FALSE
  /\ Bogons!Init
  /\ Hcf!Init
  /\ pc = [c \in Cpu |-> "idle"]
  /\ pip = [c \in Cpu |-> 0]
  /\ pttl = [c \in Cpu |-> 0]
  /\ seen = [c \in Cpu |-> {}]

\* Every action ends with it.
Observe ==
  seen' = [c \in Cpu |-> IF pc'[c] = "idle" THEN {}
                         ELSE seen[c] \cup Facts(c)']

Goto(c, l) == pc' = [pc EXCEPT ![c] = l]

-----------------------------------------------------------------------------
(* lfw_filter_ipv4_hook_fn.                                                *)

\* A mutant: the TTL is that of the packet after one more hop.
OneHopMore(c, ip, ttl) ==
  /\ pip' = [pip EXCEPT ![c] = ip]
  /\ pttl' = [pttl EXCEPT ![c] = ttl - 1]

\* What the hooks read from the IP header.
ReadHeader(c, ip, ttl) ==
  /\ pip' = [pip EXCEPT ![c] = ip]
  /\ pttl' = [pttl EXCEPT ![c] = ttl]

\* A packet arrives and its source is looked up in the bogon list.
filter_begin(c, ip, ttl) ==
  /\ pc[c] = "idle"
  /\ ReadHeader(c, ip, ttl)
  /\ Bogons!Ask(c, ip)
  /\ Goto(c, "bogon")
  /\ UNCHANGED <<attack, hcfVars>>
  /\ Observe

\* A mutant: every answer but 0 counts as a bogon.
NotZero(answer) == answer # 0

\* lfw_lookup_bg_tree(saddr) > 0
IsBogon(answer) == answer > 0

filter_bogon(c) ==
  /\ pc[c] = "bogon"
  /\ Bogons!Reply(c)
  /\ Goto(c, IF IsBogon(bans[c]) THEN "dropped" ELSE "flag")
  /\ UNCHANGED <<attack, hcfVars, packet>>
  /\ Observe

\* lfw_state_is_under_attack, whose read-side section covers one load.
filter_flag(c) ==
  /\ pc[c] = "flag"
  /\ Goto(c, IF attack THEN "hcf" ELSE "accepted")
  /\ UNCHANGED <<attack, bogonVars, hcfVars, packet>>
  /\ Observe

filter_hcf_begin(c) ==
  /\ pc[c] = "hcf"
  /\ Hcf!Ask(c, pip[c], pttl[c])
  /\ Goto(c, "hops")
  /\ UNCHANGED <<attack, bogonVars, packet>>
  /\ Observe

\* A mutant: a packet whose hop count disagrees is let through.
OnlyUnknown(answer) == answer < 0

\* hcf_lookup_tree(saddr, iph->ttl) < 1
Suspicious(answer) == answer < 1

filter_hcf(c) ==
  /\ pc[c] = "hops"
  /\ Hcf!Reply(c)
  /\ Goto(c, IF Suspicious(hans[c]) THEN "dropped" ELSE "accepted")
  /\ UNCHANGED <<attack, bogonVars, packet>>
  /\ Observe

\* The packet is gone: it was dropped, or it passed and is not for this host.
packet_end(c) ==
  /\ pc[c] \in {"dropped", "accepted"}
  /\ Goto(c, "idle")
  /\ UNCHANGED <<attack, bogonVars, hcfVars, packet>>
  /\ Observe

-----------------------------------------------------------------------------
(* lfw_hc_learn_ipv4_hook_fn.                                              *)

\* A mutant: the learn hook does not look at the flag.
AlwaysLearn == TRUE

MayLearn == ~attack

\* A packet for this host comes over a device that the filter hook is not on.
local_in(c, ip, ttl) ==
  /\ pc[c] = "idle"
  /\ ReadHeader(c, ip, ttl)
  /\ Goto(c, "local")
  /\ UNCHANGED <<attack, bogonVars, hcfVars>>
  /\ Observe

learn_flag(c) ==
  /\ pc[c] \in {"accepted", "local"}
  /\ Goto(c, IF MayLearn THEN "learn" ELSE "idle")
  /\ UNCHANGED <<attack, bogonVars, hcfVars, packet>>
  /\ Observe

\* hcf_register_ip queues a work item, or returns when it cannot allocate one.
\* The call of log_pkt_filter_event that follows is an action of PktLog: it
\* shares no state with the verdicts.
learn_queue(c) ==
  /\ pc[c] = "learn"
  /\ \/ \E t \in Task : Hcf!Request(t, pip[c], pttl[c])
     \/ UNCHANGED hcfVars
  /\ Goto(c, "idle")
  /\ UNCHANGED <<attack, bogonVars, packet>>
  /\ Observe

-----------------------------------------------------------------------------
\* The netlink handler; when it cannot allocate a new state it returns -ENOMEM
\* and nothing changes.
lfw_state_set_under_attack(v) ==
  /\ attack' = v
  /\ UNCHANGED <<bogonVars, hcfVars, pc, packet>>
  /\ Observe

bogon_set(l) ==
  /\ Bogons!Replace(l)
  /\ UNCHANGED <<attack, hcfVars, pc, packet>>
  /\ Observe

hcf_history(h) ==
  /\ Hcf!Load(h)
  /\ UNCHANGED <<attack, bogonVars, pc, packet>>
  /\ Observe

\* A work item is carried out, and freed.
work(t) ==
  /\ Hcf!Learn(t) \/ Hcf!Release(t)
  /\ UNCHANGED <<attack, bogonVars, pc, packet>>
  /\ Observe

HookStep(c) ==
  \/ filter_bogon(c)
  \/ filter_flag(c)
  \/ filter_hcf_begin(c)
  \/ filter_hcf(c)
  \/ packet_end(c)
  \/ learn_flag(c)
  \/ learn_queue(c)

Next ==
  \/ \E c \in Cpu, ip \in Source, ttl \in Ttl : filter_begin(c, ip, ttl)
  \/ \E c \in Cpu, ip \in Source, ttl \in Ttl : local_in(c, ip, ttl)
  \/ \E c \in Cpu : HookStep(c)
  \/ \E v \in BOOLEAN : lfw_state_set_under_attack(v)
  \/ \E l \in List : bogon_set(l)
  \/ \E h \in History : hcf_history(h)
  \/ \E t \in Task : work(t)

Spec == Init /\ [][Next]_vars

\* A hook runs to its end and the workqueue carries out what is queued; nobody
\* has to send packets or commands.
Fairness ==
  /\ \A c \in Cpu : WF_vars(HookStep(c))
  /\ \A t \in Task : WF_vars(work(t))

FairSpec == Spec /\ Fairness

-----------------------------------------------------------------------------
(* Properties.                                                             *)

\* Type correctness of the hooks' state.
TypeOK ==
  /\ attack \in BOOLEAN
  /\ pc \in [Cpu -> {"idle", "bogon", "flag", "hcf", "hops", "accepted",
                     "dropped", "local", "learn"}]
  /\ pip \in [Cpu -> Source \cup {0}]
  /\ pttl \in [Cpu -> Ttl \cup {0}]
  /\ bres \in [Cpu -> {NULL, -2, -1, 1}]
  /\ hres \in [Cpu -> {NULL, -1, 0, 1}]

\* A packet that passed had a clean source, and either no attack was declared
\* or its hop count was known, each at some moment while it was being filtered:
\* the three unsynchronised reads of the hook add up to a verdict that the
\* configuration of the time allows.
PassJustified ==
  \A c \in Cpu : pc[c] = "accepted" =>
    "clean" \in seen[c] /\ {"calm", "known"} \cap seen[c] # {}

\* A packet that was dropped had a bogon source, or an attack was declared and
\* its hop count was unknown or wrong, each at some moment while it was being
\* filtered.
DropJustified ==
  \A c \in Cpu : pc[c] = "dropped" =>
    "bogon" \in seen[c] \/ {"attack", "stranger"} \subseteq seen[c]

\* Once an attack is declared for good, learning comes to an end: the work
\* queued before runs out and no CPU that had already read the flag adds to it
\* for ever.
LearningEnds ==
  <>[]attack => <>[](\A t \in Task : pend[t].at # "asked")

=============================================================================
