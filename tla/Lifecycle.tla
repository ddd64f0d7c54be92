----------------------------- MODULE Lifecycle -----------------------------
(***************************************************************************)
(* Loading and unloading of the kernel module (kernel/src/mod.c, state.c):  *)
(* the order in which lfw_mod_init acquires the structures, caches, queues, *)
(* timers and registrations of all components, the way each failure undoes  *)
(* it, the order in which lfw_mod_exit releases them, and everything that   *)
(* may run meanwhile: hooks, netlink commands, work items, the timer and    *)
(* RCU callbacks.                                                          *)
(*                                                                         *)
(* What a component does with its structures is in the other modules; here *)
(* each actor only has a list of what it needs.  Using something that has  *)
(* not been acquired yet or has been released is recorded in bad, and the   *)
(* behaviour ends there: how the kernel goes on is undefined.  There is one *)
(* CPU's timer and flush work; the others have their own.                  *)
(***************************************************************************)
EXTENDS Integers, Sequences

CONSTANTS
  MayFail,          \* the acquisitions that may fail
  UnregisterWaits,  \* whether nf_unregister_net_hooks may wait, and may not wait,
                    \* for hooks that are running
  MaxQueued         \* bound: work items for learned addresses queued at a time

\* timer_setup has nothing to fail on.
ASSUME LifecycleAssumption ==
  /\ UnregisterWaits \subseteq BOOLEAN
  /\ MaxQueued \in Nat
  /\ "timer" \notin MayFail

VARIABLES
  waits,    \* whether nf_unregister_net_hooks waits for running hooks
  phase,    \* where lfw_mod_init or lfw_mod_exit is
  todo,     \* what it still has to acquire or to release, in order
  held,     \* what is acquired
  hooks,    \* the hooks that are running
  cmd,      \* the netlink command being handled, or "none"
  queued,   \* learn work items in the queue
  learning, \* a learn work item is running
  flushq,   \* the flush work is pending
  flushing, \* the flush work is running
  cb,       \* components with pending call_rcu callbacks: "hcf", "bg"
  bad,      \* history variable: uses of what was not held: who, what, when
  gaps      \* history variable: a command ran outside "loaded", a failed
            \* allocation of the read page went unnoticed

seqVars == <<waits, phase, todo>>
workVars == <<queued, learning, flushq, flushing>>
vars == <<seqVars, held, hooks, cmd, workVars, cb, bad, gaps>>

-----------------------------------------------------------------------------
(* What is acquired and in which order.  "text" is the code of the module. *)

init_bg == <<"bg", "bg_mem", "bg_tree">>
init_hcf == <<"hcf", "hcf_mem", "hcf_wq", "hcf_tree">>
init_log == <<"log", "ring", "log_wq", "rpage", "timer">>

\* nf_register_net_hooks registers the filter hook, then the learn hook.
register_hooks == <<"dev", "filter_ops", "learn_ops">>

lfw_mod_init ==
  <<"state", "family">> \o init_bg \o init_hcf \o init_log \o register_hooks

Resource == {"text"} \cup {lfw_mod_init[i] : i \in DOMAIN lfw_mod_init}

(* What is released, in order.  A step that only waits has a name of its    *)
(* own: "hooks_done", "hcf_sync" and "bg_sync".                             *)

unregister_hooks == <<"filter_ops", "learn_ops", "hooks_done", "dev">>

\* A mutant: the workqueue is destroyed before the timer is shut down.
QueueFirst == <<"log_wq", "timer", "rpage", "ring", "log">>

free_pkt_filter_log_state == <<"timer", "rpage", "log_wq", "ring", "log">>

hcf_free_state == <<"hcf_wq", "hcf_tree", "hcf_sync", "hcf_mem", "hcf">>

lfw_free_bg_state == <<"bg_tree", "bg_sync", "bg_mem", "bg">>

lfw_free_state ==
  free_pkt_filter_log_state \o hcf_free_state \o lfw_free_bg_state
    \o <<"family", "state">>

\* A mutant: the hooks go last.
HooksLast == lfw_free_state \o unregister_hooks

lfw_mod_exit == unregister_hooks \o lfw_free_state

\* The goto chains of lfw_init_state, from the label named.
err_free_state == <<"state">>
err_nl_destroy == <<"family">> \o err_free_state

\* A mutant: the node cache is destroyed before its component does it again.
FreesTwice == <<"bg_mem">> \o lfw_free_bg_state \o err_nl_destroy

err_free_bg == lfw_free_bg_state \o err_nl_destroy

\* A mutant: the label falls through to the wrong one.
SkipsBogon == hcf_free_state \o err_nl_destroy

err_free_hcf == hcf_free_state \o err_free_bg

\* What is undone when r cannot be acquired: the labels inside the component,
\* then those of lfw_init_state, or lfw_free_state when the hooks fail.  When the
\* second hook cannot be registered nf_register_net_hooks removes the first.
OnError(r) ==
  CASE r = "state"    -> <<>>
    [] r = "family"   -> err_free_state
    [] r = "bg"       -> err_nl_destroy
    [] r = "bg_mem"   -> <<"bg">> \o err_nl_destroy
    [] r = "bg_tree"  -> <<"bg_mem", "bg">> \o err_nl_destroy
    [] r = "hcf"      -> err_free_bg
    [] r = "hcf_mem"  -> <<"hcf">> \o err_free_bg
    [] r = "hcf_wq"   -> <<"hcf_mem", "hcf">> \o err_free_bg
    [] r = "hcf_tree" -> <<"hcf_wq", "hcf_mem", "hcf">> \o err_free_bg
    [] r = "log"      -> err_free_hcf
    [] r = "ring"     -> <<"log">> \o err_free_hcf
    [] r = "log_wq"   -> <<"ring", "log">> \o err_free_hcf
    [] r = "dev"      -> lfw_free_state
    [] r = "filter_ops" -> <<"dev">> \o lfw_free_state
    [] r = "learn_ops"  -> <<"filter_ops", "hooks_done", "dev">> \o lfw_free_state

-----------------------------------------------------------------------------
Hook == {"filter", "learn"}
Command == {"set_bogon", "set_history", "set_flag"}

\* a uses what is in R.
Uses(a, R) ==
  bad' = bad \cup {[who |-> a, what |-> r, when |-> phase] : r \in R \ held}

Init ==
  /\ waits \in UnregisterWaits
  /\ phase = "loading"
  /\ todo = lfw_mod_init
  /\ held = {"text"}
  /\ hooks = {}
  /\ cmd = "none"
  /\ queued = 0
  /\ learning = FALSE
  /\ flushq = FALSE
  /\ flushing = FALSE
  /\ cb = {}
  /\ bad = {}
  /\ gaps = {}

-----------------------------------------------------------------------------
(* lfw_mod_init.                                                           *)

acquire ==
  /\ phase = "loading"
  /\ held' = held \cup {Head(todo)}
  /\ todo' = Tail(todo)
  /\ phase' = IF Tail(todo) = <<>> THEN "loaded" ELSE "loading"
  /\ UNCHANGED <<waits, hooks, cmd, workVars, cb, bad, gaps>>

\* Of the acquisitions only that of the read page is not tested.
acquire_fails ==
  /\ phase = "loading"
  /\ Head(todo) \in MayFail
  /\ IF Head(todo) = "rpage"
     THEN /\ todo' = Tail(todo)
          /\ gaps' = gaps \cup {"rpage"}
          /\ UNCHANGED phase
     ELSE /\ phase' = "failing"
          /\ todo' = OnError(Head(todo))
          /\ UNCHANGED gaps
  /\ UNCHANGED <<waits, held, hooks, cmd, workVars, cb, bad>>

-----------------------------------------------------------------------------
(* lfw_mod_exit, and the error paths of lfw_mod_init.                      *)

\* A command that may collide with the release of what it works on.
Collides == IF cmd \in {"set_bogon", "set_history"} THEN {"command"} ELSE {}

exit_begin ==
  /\ phase = "loaded"
  /\ phase' = "unloading"
  /\ todo' = lfw_mod_exit
  /\ gaps' = gaps \cup Collides
  /\ UNCHANGED <<waits, held, hooks, cmd, workVars, cb, bad>>

Releasing(r) == phase \in {"failing", "unloading"} /\ todo # <<>> /\ Head(todo) = r

\* A mutant: the workqueue is destroyed with items in it.
NoDrain(r) ==
  CASE r = "hooks_done" -> waits => hooks = {}
    [] r \in {"hcf_sync", "bg_sync"} -> hooks = {}
    [] r = "family" -> cmd = "none"
    [] OTHER -> TRUE

\* When the step r returns: hooks that were running have ended, a workqueue is
\* drained, readers have left (synchronize_rcu), the command being handled has
\* returned (genl_unregister_family).
Returns(r) ==
  CASE r = "hooks_done" -> waits => hooks = {}
    [] r = "log_wq" -> ~flushq /\ ~flushing
    [] r = "hcf_wq" -> queued = 0 /\ ~learning
    [] r \in {"hcf_sync", "bg_sync"} -> hooks = {}
    [] r = "family" -> cmd = "none"
    [] OTHER -> TRUE

\* What the step needs besides what it releases: hcf_swap_tree frees the nodes
\* of the trie into their cache.
Frees(r) == IF r = "hcf_sync" THEN {"hcf_mem"} ELSE {r} \cap Resource

\* The tree of the bogon list is left to call_rcu.
release ==
  /\ phase \in {"failing", "unloading"}
  /\ todo # <<>>
  /\ Returns(Head(todo))
  /\ Uses("exit", Frees(Head(todo)))
  /\ held' = held \ {Head(todo)}
  /\ todo' = Tail(todo)
  /\ cb' = IF Head(todo) = "bg_tree" THEN cb \cup {"bg"} ELSE cb
  /\ UNCHANGED <<waits, phase, hooks, cmd, workVars, gaps>>

\* The code of the module goes when hooks that are running have returned.
exit_end ==
  /\ phase \in {"failing", "unloading"}
  /\ todo = <<>>
  /\ hooks = {}
  /\ phase' = IF phase = "failing" THEN "failed" ELSE "gone"
  /\ held' = held \ {"text"}
  /\ UNCHANGED <<waits, todo, hooks, cmd, workVars, cb, bad, gaps>>

-----------------------------------------------------------------------------
(* The hooks.                                                              *)

\* The registration that lets h run.
Ops(h) == IF h = "filter" THEN "filter_ops" ELSE "learn_ops"

hook_begin(h) ==
  /\ Ops(h) \in held
  /\ h \notin hooks
  /\ hooks' = hooks \cup {h}
  /\ UNCHANGED <<seqVars, held, cmd, workVars, cb, bad, gaps>>

\* A lookup copes with hop counts whose trie is NULL.
filter_hook ==
  /\ "filter" \in hooks
  /\ hooks' = hooks \ {"filter"}
  /\ Uses("filter", {"text", "bg", "bg_tree", "state", "hcf"})
  /\ UNCHANGED <<seqVars, held, cmd, workVars, cb, gaps>>

\* The address may be queued for learning and the flush work for its packet.
learn_hook ==
  /\ "learn" \in hooks
  /\ hooks' = hooks \ {"learn"}
  /\ Uses("learn", {"text", "state", "hcf", "hcf_wq", "log", "log_wq", "ring"})
  /\ queued' \in {queued, queued + 1} \cap 0..MaxQueued
  /\ flushq' \in {flushq, TRUE}
  /\ UNCHANGED <<seqVars, held, cmd, learning, flushing, cb, gaps>>

-----------------------------------------------------------------------------
(* Netlink commands, one at a time.                                        *)

\* genl_unregister_family keeps new commands out while it waits for the last.
cmd_begin(c) ==
  /\ "family" \in held
  /\ ~Releasing("family")
  /\ cmd = "none"
  /\ cmd' = c
  /\ Uses(c, CASE c = "set_bogon" -> {"bg", "bg_mem"}
               [] c = "set_history" -> {"hcf", "hcf_mem"}
               [] c = "set_flag" -> {})
  /\ gaps' = IF phase # "loaded" /\ c # "set_flag" THEN gaps \cup {"command"} ELSE gaps
  /\ UNCHANGED <<seqVars, held, hooks, workVars, cb>>

\* The new tree or trie replaces the old one, which is left to call_rcu in the
\* one case and freed after a grace period in the other.
cmd_end ==
  /\ cmd # "none"
  /\ cmd' = "none"
  /\ Uses(cmd, CASE cmd = "set_bogon" -> {"bg", "bg_tree"}
                 [] cmd = "set_history" -> {"hcf", "hcf_mem"}
                 [] cmd = "set_flag" -> {"state"})
  /\ held' = held \cup (CASE cmd = "set_bogon" /\ "bg" \in held -> {"bg_tree"}
                          [] cmd = "set_history" /\ "hcf" \in held -> {"hcf_tree"}
                          [] OTHER -> {})
  /\ cb' = IF cmd = "set_bogon" THEN cb \cup {"bg"} ELSE cb
  /\ UNCHANGED <<seqVars, hooks, workVars, gaps>>

-----------------------------------------------------------------------------
(* Work items, the timer and RCU callbacks.                                *)

\* With no trie the item ends at once.
learn_begin ==
  /\ queued > 0
  /\ ~learning
  /\ queued' = queued - 1
  /\ learning' = ("hcf_tree" \in held)
  /\ Uses("work", {"text", "hcf"})
  /\ UNCHANGED <<seqVars, held, hooks, cmd, flushq, flushing, cb, gaps>>

\* Nodes are allocated, the network is announced, the old path is retired.
learn_end ==
  /\ learning
  /\ learning' = FALSE
  /\ Uses("work", {"text", "hcf", "hcf_mem", "hcf_tree", "family"})
  /\ cb' = cb \cup {"hcf"}
  /\ UNCHANGED <<seqVars, held, hooks, cmd, queued, flushq, flushing, gaps>>

timer_fires ==
  /\ "timer" \in held
  /\ flushq' = TRUE
  /\ Uses("timer", {"text", "log", "log_wq"})
  /\ UNCHANGED <<seqVars, held, hooks, cmd, queued, learning, flushing, cb, gaps>>

flush_begin ==
  /\ flushq
  /\ ~flushing
  /\ flushq' = FALSE
  /\ flushing' = TRUE
  /\ Uses("flush", {"text", "log", "ring"})
  /\ UNCHANGED <<seqVars, held, hooks, cmd, queued, learning, cb, gaps>>

flush_end ==
  /\ flushing
  /\ flushing' = FALSE
  /\ Uses("flush", {"text", "log", "ring", "rpage", "family"})
  /\ UNCHANGED <<seqVars, held, hooks, cmd, queued, learning, flushq, cb, gaps>>

\* The callbacks return their nodes to the cache of their component.
rcu_callback(c) ==
  /\ c \in cb
  /\ cb' = cb \ {c}
  /\ Uses("callback", {"text", IF c = "hcf" THEN "hcf_mem" ELSE "bg_mem"})
  /\ UNCHANGED <<seqVars, held, hooks, cmd, workVars, gaps>>

-----------------------------------------------------------------------------
EntryPoint == acquire \/ acquire_fails \/ release \/ exit_end
LearnStep == learn_begin \/ learn_end
FlushStep == flush_begin \/ flush_end

\* What happens next is defined.
Defined == bad = {}

Next ==
  /\ Defined
  /\ \/ EntryPoint
     \/ exit_begin
     \/ \E h \in Hook : hook_begin(h)
     \/ filter_hook
     \/ learn_hook
     \/ \E c \in Command : cmd_begin(c)
     \/ cmd_end
     \/ LearnStep
     \/ timer_fires
     \/ FlushStep
     \/ \E c \in {"hcf", "bg"} : rcu_callback(c)

Spec == Init /\ [][Next]_vars

\* What has begun goes on: insmod and rmmod, a hook, a command, queued work.
Fairness ==
  /\ WF_vars(Defined /\ EntryPoint)
  /\ WF_vars(Defined /\ filter_hook)
  /\ WF_vars(Defined /\ learn_hook)
  /\ WF_vars(Defined /\ cmd_end)
  /\ WF_vars(Defined /\ LearnStep)
  /\ WF_vars(Defined /\ FlushStep)

FairSpec == Spec /\ Fairness

-----------------------------------------------------------------------------
(* Properties.                                                             *)

Phase == {"loading", "loaded", "failing", "failed", "unloading", "gone"}
Actor == Hook \cup Command \cup {"exit", "work", "timer", "flush", "callback"}

\* Type correctness; no release is on the list twice.
TypeOK ==
  /\ phase \in Phase
  /\ \A i \in DOMAIN todo :
       todo[i] \in Resource \cup {"hooks_done", "hcf_sync", "bg_sync"}
  /\ \A i, j \in DOMAIN todo : i # j => todo[i] # todo[j]
  /\ held \subseteq Resource
  /\ hooks \subseteq Hook
  /\ cmd \in Command \cup {"none"}
  /\ queued \in 0..MaxQueued
  /\ {learning, flushq, flushing} \subseteq BOOLEAN
  /\ cb \subseteq {"hcf", "bg"}
  /\ bad \subseteq [who : Actor, what : Resource, when : Phase]
  /\ gaps \subseteq {"command", "rpage"}

\* The read page is missing because its allocation failed and was not tested.
NoPage(u) == u.what = "rpage" /\ "rpage" \in gaps

\* Hooks, the learn work, the timer and the flag command never use what is not
\* acquired yet or already released, and the exit path releases nothing twice
\* and nothing it does not hold: whatever fails while loading (the registration
\* of the second hook, too, while the first already runs), and whatever is
\* still running when lfw_mod_exit begins.  Between the end of lfw_mod_init and
\* the beginning of lfw_mod_exit this holds for every actor, the other commands,
\* the flush work and the callbacks among them.  It rests on the hooks being
\* registered last and removed first, on draining the queue before the trie
\* goes.  Hooks that are still running when lfw_mod_exit frees what they use are
\* the exception: it does not wait for them, nf_unregister_net_hooks may.
OrderIsSafe ==
  \A u \in bad :
    \/ u.when = "loaded"
    \/ u.who \in {"work", "timer", "set_flag", "exit"}
    \/ u.who \in Hook /\ (waits \/ u.when # "unloading")
    => NoPage(u)

\* The flush work may find its read page freed (packet_filter.c frees it before
\* it drains the queue), but never the ring buffer, its log state or the netlink
\* family.
FlushKeepsRing == \A u \in bad : u.who = "flush" => u.what = "rpage"

\* When lfw_mod_init has failed or lfw_mod_exit has returned nothing is held and
\* no work is left, unless a command that replaces a tree ran at the same time:
\* every goto chain releases exactly what had been acquired.
CleanEnd ==
  phase \in {"failed", "gone"} /\ "command" \notin gaps =>
    held = {} /\ hooks = {} /\ queued = 0 /\ ~learning /\ ~flushq /\ ~flushing

\* Loading and unloading end: no drain, no grace period and no wait for a
\* command lasts for ever, as long as nobody has used freed memory.
EntryPointsReturn ==
  phase \in {"loading", "failing", "unloading"} ~>
    phase \in {"loaded", "failed", "gone"} \/ ~Defined

\* After "terminated, good bye" nothing of the module is left to run.
NothingLeft == phase = "gone" => cb = {}

=============================================================================
