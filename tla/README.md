# A TLA+ model of librefw

librefw is a Linux kernel module that filters incoming TCP/IPv4 packets, and a
user-space program that configures it and keeps its history. This directory
models the kernel module, its life from load to unload and the user-space
program at the other end of its messages, checks them with TLC on small
instances and proves their safety with TLAPS for every instance. Paths below are
relative to the repository; line numbers are those of the commit under `src/`.

## The system

| Part | State | Operations | Shared with |
|---|---|---|---|
| Hop-count trie, `kernel/src/hcf.c` | `state->tree`, an RCU-protected binary trie over the upper 24 bits of an address, each leaf with a TTL and a hop count; a mutex; an unbound workqueue | `hcf_register_ip` (queue a work item), `hcf_register_ip_work` (clone the path, publish, announce, `call_rcu`), `hcf_lookup_tree`, `hcf_register_ip_history` + `hcf_swap_tree` (replace the whole trie) | learn hook, filter hook, netlink |
| Bogon list, `kernel/src/bogon.c` | `state->tree`, an RCU-protected trie of prefixes; a spinlock | `lfw_bogon_set` + `lfw_load_bg_tree`, `lfw_free_bg_tree` (callback), `lfw_lookup_bg_tree` | filter hook, netlink |
| Under-attack flag, `kernel/src/state.c` | one flag in an RCU-protected struct | set by netlink, read by both hooks | hooks, netlink |
| Netfilter hooks, `kernel/src/hooks.c` | none | filter hook at ingress: bogon list, then flag, then hop counts; learn hook at local-in: flag, queue, log | all of the above |
| Packet log, `kernel/src/log/packet_filter.c` | per CPU: a counter, a timer, a flush work, a part of a ring buffer | log an event, timer, flush | learn hook, netlink |
| Ring-buffer decoding, `kernel/src/util/ring_buffer.c` | none | lengths and time stamps of records | packet log |
| Netlink family, `kernel/src/nl.c` | the registered family | dispatches three commands, multicasts messages | everything |
| Text log, `kernel/src/log.c` | none | formats and multicasts a line | |
| Load and unload, `kernel/src/mod.c`, `state.c` | | order of initialisation and release | everything |
| Client, `src/nl`, `src/main.cpp` | sockets | sends lists, history, flag; stores announcements | database |
| Database, `src/db` | one SQLite table of hop counts | insert-or-ignore, read all | client |

Packets, work items, RCU callbacks, the timer and netlink handlers all run
concurrently. What is hard:

- readers walk both tries without a lock while others replace and free nodes,
  and the slab hands freed nodes out again;
- a learned address replaces a path of up to 25 nodes, a history message the
  whole trie, and the two overlap;
- the filter hook makes one verdict out of three separate reads;
- the flag is tested before learning is queued, not when it is carried out;
- allocations fail half way through a list;
- hook, timer and flush work share a flag and a counter without a lock;
- hooks, commands, work, timers and callbacks may run while the module is being
  loaded, fails to load or is unloaded;
- announcements are multicast and may be lost, either side may be restarted, and
  the history that is sent back may be older than what was learned since.

The properties that make each part correct:

- both tries: no reader at freed or reused memory; what is published never
  changes; nothing leaks or is freed twice; the trie is an atomic map; every
  work item, handler and callback ends;
- hooks: each verdict is supported by what the three sources said while the
  packet was filtered; learning ends under attack;
- packet log: events arrive in order and once, every event that can be decoded
  and that the message has room for is in it, none stays in the buffer; the time decoded for each is the time it was logged at;
- load and unload: nobody uses what is not acquired yet or already released,
  every error path releases what was acquired, both end;
- client and database: what is restored was learned (but for networks announced
  from a leaf already replaced), a history and a list arrive as the sender had them, what is missing was lost for a known reason.

## Modules

| Module | Models | How |
|---|---|---|
| `HopCount` | TTL arithmetic of `hcf.c` | operators |
| `HcfTree` | `hcf.c` node by node | one action per critical section, loop turn or callback |
| `HcfMap` | what `hcf.c` promises: a map changed atomically | abstract specification |
| `HcfTreeMap` | the refinement from `HcfTree` to `HcfMap` | `INSTANCE ... WITH` |
| `HcfTreeInv` | the inductive invariant of `HcfTree` | named conjuncts |
| `HcfTreeProofs` | theorems about `HcfTree`: types, lookups, what is published | TLAPS |
| `HcfTreeOwners` | theorems about `HcfTree`: who owns each node, no leak | TLAPS |
| `Bogon` | `bogon.c` | a node is its path of bits |
| `BogonInv` | the inductive invariant of `Bogon` | named conjuncts |
| `BogonProofs` | theorems about `Bogon`, and that it implements `BogonList` | TLAPS |
| `BogonList` | what `bogon.c` promises: one list in force | abstract specification |
| `Firewall` | `hooks.c` and the flag of `state.c` over `BogonList` and `HcfMap` | composition |
| `FirewallProofs` | theorems about `Firewall` | TLAPS |
| `RingBuffer` | `ring_buffer.c`: lengths and times of records | operators |
| `PktLog` | `packet_filter.c` on one CPU | pages of records; extends `RingBuffer` |
| `PktLogProofs` | theorems about `PktLog` | TLAPS |
| `PktView` | `packet_filter_log.cpp` at the other end of `PktLog`'s messages | composition with `PktLog` |
| `HcfFail` | `HcfTree` with failing allocations of work items | extends `HcfTree` by one action |
| `HcfFailProofs` | `HcfFail` implements `HcfTree` | TLAPS |
| `Lifecycle` | `mod.c`, `state.c` and the `init`/`free` functions of all components | each actor is a list of what it needs |
| `LifecycleProofs` | theorems about `Lifecycle` | TLAPS |
| `Client` | `hcf.cpp`, `command.cpp`, `base.cpp`, the database, against the kernel side | composition over the abstract map and list |
| `ClientProofs` | theorems about `Client` | TLAPS |
| `MCHcfTree`, `MCHcfFail`, `MCBogon`, `MCFirewall`, `MCPktLog`, `MCPktView`, `MCClient` | instances for TLC | |

`Firewall` uses the abstract specifications, which the runs of `HcfTree` and
`Bogon` show to be implemented: the hooks are checked against what the tries
promise, not against their nodes.

### HcfTree

`tree`, `child`, `meta`, `lock` are the pointers, fields and mutex of `hcf.c`;
`alloc` is what the slab has handed out. A `Task` is one
`struct hcf_add_node_task` with the kworker that runs it. Its locals are
`runner`, `newRoot`, `newRunner`, `bits`, `toFree` (`nodes_to_free`) and
`created` (`nodes_created > 0`). The actions follow `hcf_register_ip_work`:
`work_clone_root` (lock, read the root, clone it), `work_clone` and
`work_create` (one turn of each loop), `work_publish` (metadata, new root,
unlock), `work_announce`, `work_retire` (one `call_rcu`), `work_end`. A reader
is a CPU in `hcf_lookup_tree`, one action per turn of its loop. The netlink
handler's actions are `history_begin`, `history_descend`, `history_create`,
`history_set`, `swap_tree`, `swap_sync`, `swap_synced`, `hcf_free_node` and
`history_end`.

RCU is external. A read-side section is the interval in which `rpc[r] = "walk"`.
A grace period starts with the set of readers then in a section
(`GracePeriod`), each of which is removed by its `rcu_read_unlock`; the callback
or `synchronize_rcu` goes on when the set is empty. Which free object the slab
hands out is a parameter (`Slab`).

Two variables record history and are read by no action: `st[n]`, the stage of a
node's life, and `hold[r]`, the nodes of the trie when `r` dereferenced it.

Not in this module: `hcf_init_state` beyond the state it leaves and
`hcf_free_state` (see `Lifecycle`). The recursive `hcf_free_node` is a work
list that frees a node before its descendants.

`HcfFail` adds `work_no_memory`: `hcf_register_ip_work` does not test what
`hcf_clone_node` and `hcf_create_node` return (`hcf.c:139, 151, 162`) and follows
the NULL before it publishes anything, so the kworker dies with the mutex held.
From then on no other item and no history message gets past the mutex
(`WorkGoesOn`, `HistoryGoesOn`); lookups and callbacks go on.

### Bogon

A node is the sequence of bits that leads to it, so a tree is a set of paths
(`nodes`) and a set of marked ones (`bogon`). `load_begin`, `load_step`,
`load_mark`, `load_swap`, `load_end` follow `lfw_load_bg_tree`; `set_empty` and
`set_no_buffer` are the early returns of `lfw_bogon_set`; `load_no_memory` and `load_step_no_memory` are its allocation failures, the
latter ending in the NULL dereference the code makes. The client counts the
prefixes it packs, so `num_prefix` is the length of the list; a prefix has at
most as many bits as an address, which the client takes from its input file and
the kernel does not test.

### Firewall

`pc[c]` follows the packet on CPU `c` through both hooks; each read of a shared
source is an action of its own. `seen[c]` is a history variable: what the three
sources said at some moment since the packet arrived. Tasks are reused here, so
any number of packets can be learned. The filter hook is registered on one device,
the learn hook at LOCAL_IN for all (`hooks.c:28-38`): a packet of another device
begins at `local_in` and is learned without having been filtered.

### RingBuffer and PktLog

The kernel's ring buffer is external, modelled as `packet_filter.c` uses it: a
sequence of pages, written at the end, read at the front, the oldest overwritten
when full. A page holds records at byte offsets: data, time extensions, absolute
time stamps and padding, as the kernel writes them for the times of the packets.
`Decoded` walks them as `process_rb_page` does, by the lengths and times of
`ring_buffer.c`. A page after a gap has a negative `commit`, so the loop does not
run (`packet_filter.c:199`). `Fitting` packs the events into a message of limited
room. Everything is per CPU, so one CPU is modelled.

Which events a flush may lose, `LeftOut`, is said without the decoder: from the
events written on the page and the room in the message. All of a page with the
flag; all of a page whose message is given up; otherwise the youngest, for which
there is no room. `EachEventOnce` compares this with what `process_rb_page`
really sent, so a record that the decoder skips, reads twice or makes up is in no
place or in two.

### PktView

Of a message only the places and lengths of its attributes matter. `Visited` is
the set of offsets that the viewer's `nla_for_each_attr` gets to; `seen` are the
events in the messages it was handed, `shown` the ones it printed.

### Lifecycle

`todo` is what `lfw_mod_init` has still to acquire, or `lfw_mod_exit` or an error
path to release; each sequence is named after its function or label. `held` is
what exists. Every other actor (the two hooks, the three commands, learn work,
flush work, timer, RCU callbacks) checks, when it runs, that what it needs is
held; if not, `bad` records who needed what and when, and the behaviour ends
there. The two hooks are registered one after the other, so the filter hook may
run while the registration of the learn hook fails and all is undone. `Returns` says when a step that waits returns: a workqueue is drained,
readers have left, a command has returned. `waits` is whether
`nf_unregister_net_hooks` waits for running hooks, which current kernels do not;
both are explored. `gaps` notes a command outside the loaded phase, and the one
acquisition whose failure nobody tests (`packet_filter.c:80`).

### Client

`hops` and `bogons` are what the abstract specifications of the two tries
promise. `learn` is a work item up to its unlock (`hcf.c:173`); if the network is
new it is left in `ann`, about to be announced. `hcf_log_new_ip` reads the leaf
without the mutex (`hcf.c:175`): if `learn` or a history has replaced the leaf
since (`stale`), it may have been freed and used again, so that the pair read is
the old one or any in `Garbage` (`LeafOf`). It is multicast or lost, `on_message_received` inserts a row unless the address
has one, `set_ip_history` reads the rows and `send_history` replaces the map by
them. `Blob` and `nla_get_in_addr` are the conversions of an address to the bytes
in the database and back. `send_bogon_list` packs lines up to the size of a
message, with its untested `inet_pton` and `nla_put_u32`. `reload` loads the
kernel module again, `kill` and `listen` restart the listener; a listener that
outlives a reload is deaf. `taught`, `overtaken` (networks announced from a
replaced leaf), `lost`, `file` and `setter.read` record history.

## Runs

| Run | Checks | Result |
|---|---|---|
| `hcf_learn` | two work items whose allocations may fail, and a reader: `TypeOK`, `OneOwner`, `PublishedImmutable`, `ImplementsMap` | holds |
| `hcf_swap` | a work item, a history message and a reader: `ReaderSafe`, `NoLeak`, the inductive invariant `Inv`, `ImplementsFairMap`, `EveryTaskEnds`, `EveryNodeFreed`, `HistoryReturns` | holds |
| `hcf_announce` | `AnnounceReadsAllocated` | violated: `hcf.c:175` reads the leaf after the mutex is released |
| `bogon` | lists replaced under two readers with failing allocations: `TypeOK`, `ReaderSafe`, `LookupCorrect`, `PublishedWhole`, `NoLeak`, the inductive invariant `Inv`, `ImplementsList`, `EveryLoadEnds`, `EveryTreeFreed` | holds |
| `bogon_oops` | `NeverOops` | violated: `bogon.c:128` tests the wrong pointer |
| `bogon_success` | `SuccessMeansLoaded` | violated: `bogon.c:225` reports success for a list that was not loaded |
| `firewall` | `TypeOK`, `PassJustified`, `DropJustified`, `LearningEnds` | holds |
| `lifecycle` | load with every failure, unload, everybody else running: `TypeOK`, `OrderIsSafe`, `FlushKeepsRing`, `CleanEnd`, `EntryPointsReturn` | holds |
| `lifecycle_exit` | `NothingLeft` | violated: callbacks are pending when the module is gone |
| `pkt_log` | `TypeOK`, `SentInOrder`, `StampsRight`, `EachEventOnce`, `EventuallyFlushed` | holds |
| `pkt_view` | `EveryEventShown` | violated: the viewer takes the generic header for an attribute |
| `client` | announcements, database, history, lists, restarts: `TypeOK`, `KnownOrLost`, `RestoredWasLearned`, `BogonExact`, `HistoryWhole`, `EveryAnnouncementEnds` | holds |

What holds with an exception says so in its definition: `RestoredWasLearned`
leaves out the networks that were announced from a leaf already replaced (finding
1), `BogonExact` the prefix that a line without a valid address becomes;
`KnownOrLost` accepts the announcements lost for the reasons the code ignores;
`OrderIsSafe` leaves out
the two commands that replace a tree while the module is loaded or unloaded, the
flush work and the callbacks during unload, hooks that nobody waits for, and the
read page whose allocation failed; `FlushKeepsRing` the read page
(`packet_filter.c:117` frees it before the queue is drained); `CleanEnd` the tree
that such a command leaves. These are what the code does, listed as hazards.

### Bounds, and why they are enough

- *Address bits.* `hcf_learn` and `hcf_swap` use addresses of 3 bits of which
  the lowest is not branched on: a root, an inner level and leaves, so a path
  can be cloned in full, in part (shared root, diverging at the first bit) or
  created. Sources 0 and 6 differ in the first bit; 0 and 1, in the history, are
  one network. `bogon` uses 2 bits: prefixes of lengths 0, 1 and 2, nested ones
  and siblings.
- *Nodes.* `Copies` objects per place in the trie: the first trie, each task and
  each history message allocate at most one each, so 3 never run out with two
  tasks or with a task and a load. The lowest free one is taken first, so freed
  memory is reused at once, which is the hard case for readers.
- *Tasks, readers.* Two tasks are the least that overlap; the trie has no state
  per reader beyond the grace periods, where a second reader adds nothing that
  waiting longer for the first does not. `bogon` has two readers.
- *Hop counts.* TTLs 64 and 60 give hop counts 0 and 4, which disagree.
- *Loads.* `MaxLoads` 1 or 2 messages. In `firewall` messages are unbounded.
- *Failures.* In `hcf_learn` each allocation of each item may fail, in
  `lifecycle` each acquisition, in `bogon`, `pkt_log` and `client` each
  allocation and message.
- *PktLog.* A threshold of 3, pages of 2 or 3 events, 2
  pages, and 6 packets at times chosen so that short and long intervals, an
  absolute stamp and its wrap occur; messages with room for one event, for one
  and the header of another, and for all. The threshold is met twice, the buffer
  overflows, and a page does not fit in a message.
- *PktView.* Four events, the first number for which the walk passes the generic
  header.
- *Lifecycle.* One work item in the queue at a time: the drain waits for none or
  for some.
- *Client.* Addresses of 2 bytes of one bit, so that the order of bytes matters;
  two networks, one with two addresses; three packets, one reload; a history of
  two rows fits, one of three does not; a file of three lines of which two
  fit, with and without room for their number, its second line without a valid
  address, and a file whose second line has no length. `Garbage` is a pair of
  another network; that an overtaken network is restored with it is reached.

Deadlock is checked except in the two lifecycle runs: there the module may be
gone for good, and a behaviour ends where memory was misused.

### Fairness

Weak fairness of each work item, lookup, handler, callback, timer and flush
once it can go on. Workqueues and RCU guarantee it for theirs; a hook and a
handler run until they return. The mutex is not fair, but only finitely many
items contend for it in a bounded model. `insmod` and `rmmod` go on once begun,
and the listener is scheduled while it has messages. Nobody has to send packets,
lists, history or the flag, to load or unload the module, or to start a program.

### Findings

1. `hcf.c:175-178` reads `new_runner` after `mutex_unlock` and outside a
   read-side section; a second work item for the network may have freed it. What
   it reads then is announced, stored and restored, which is the exception of
   `RestoredWasLearned`.
2. `bogon.c:128` tests `tree->root` instead of the child just allocated.
3. `bogon.c:225` ignores that `lfw_load_bg_tree` gave up; the reply is 0.
4. `hcf.c:67` and `bogon.c:64-67` destroy their caches, and `mod.c:39` says good
   bye, while callbacks queued with `call_rcu` are pending.
5. `packet_filter_log.cpp:48` starts its loop at `nlmsg_data`, where the generic
   header is, and skips events.

Each is the counterexample of a run; `PROJECT.json` quotes the lines.

## Proofs

All theorems hold for every address width, every set of nodes, trees, tasks,
readers, packets and messages, every size of page, buffer and message, and every
allocator. Each module with theorems proves one inductive invariant, and its
other theorems from that one.

Where an argument goes by induction (along the bits of an address, the bytes of
a row, the levels of the trie, the records of a page), it takes the least
element of the set of counterexamples, which exists by `WFMin`, and shows that
there is a smaller one: the induction rules of the library have operators for
parameters, which the provers do not instantiate.

### HcfTree

- `HcfTreeProofs!TypeCorrect`: `Spec => []TypeOK`. `TypeOK` alone is not
  inductive: a thread that clones or builds must be at a node and not at NULL,
  which `PointersOK` adds.
- `HcfTreeProofs!LookupsAreSafe`: `Spec => []ReaderSafe`.
- `HcfTreeProofs!NoWritesToPublished`: `Spec => PublishedImmutable`, an action
  property, from the same invariant.
- `HcfTreeProofs!Inductive`: `Spec => []Inv`, on which both rest.

`Inv` (module `HcfTreeInv`) avoids reachability, which would need induction: it
says of each *single* pointer where it may lead.

| Part | Says | Needed because |
|---|---|---|
| `TypeInv` | `TypeOK`, and no NULL where a thread follows a pointer | |
| `LifeOK` | allocation and pending callbacks are as the stage `st` of each node says | freeing is decided by them, the other parts speak of stages |
| `LockOK` | the mutex is held exactly between cloning the root and publishing; nodes under construction by a work item exist only then | two tasks never change the trie at once |
| `LiveOK`, `HistOK`, `DoomedOK` | the published trie, the one under construction from a history message and the one it replaced are each closed under child pointers, and none of their pointers leads to the root | a step that moves one trie to the next stage leaves no pointer into it behind |
| `UniqueParent` | in these three no node is the child of two | when a path is cut out no live node still points into it, and the recursive release frees each node once |
| `ToFreeOK` | after publication, the nodes to be retired are out of the trie and in the list of one item only | each gets one callback |
| `WorkOK` (`PathOK`, `CloneOK`) | before it, they are a path from the root to `runner`, each but the root with its parent on the path; a clone's children are other clones, or children of the path that are not on it | publication keeps `LiveOK` and `UniqueParent` |
| `HoldOK` | what a lookup has dereferenced is closed under child pointers, none of it is free, and the callback or `synchronize_rcu` that precedes its release waits for the lookup | freeing takes nothing that a lookup can reach |

The step that carries the argument is `work_publish`: the nodes in `toFree` stop
being live, the clones become live, and by `PathOK` and `UniqueParent` no
pointer from the new trie leads to the old path.

`HcfTreeOwners` goes from single pointers to what can be reached:

- `HcfTreeOwners!NodesHaveOneOwner`: `Spec => []OneOwner`. `Inv` says that each
  part of the heap is closed under child pointers; `ReachWithin` concludes that what
  is reachable from its root is in it, and the parts are told apart by `st`.
- `HcfTreeOwners!NothingLeaks`: `Spec => []NoLeak`, the other direction: every
  node of a part is reached. `Inv` does not imply it, since a node may be live
  with nothing leading to it. `Owned` adds `OwnOK` (each node hangs from a node of
  its part or from what a thread holds; the clone of a path has taken over all
  children of the path that are not on it, so that publication loses none) and
  `LevelOK` (there are levels, one less for each child). A node that is not
  reached has a parent that is not reached, one level higher, and the levels are
  bounded.

### HcfFail

- `HcfFailProofs!FailImplements`: `FailSpec => Spec`. A failing allocation
  changes nothing that `HcfTree` has, and the other actions are those of
  `HcfTree` with stronger guards.
- `FailLookupsAreSafe`, `FailNoWritesToPublished`, `FailNodesHaveOneOwner` and
  `FailNothingLeaks` carry `ReaderSafe`, `PublishedImmutable`, `OneOwner` and
  `NoLeak` over.

### Bogon

- `BogonProofs!LookupsAreCorrect`: `Spec => []LookupCorrect`.
- `BogonProofs!LookupsAreSafe`: `Spec => []ReaderSafe`.
- `BogonProofs!ListsAreWhole`: `Spec => []PublishedWhole`.
- `BogonProofs!NoTreeLeaks`: `Spec => []NoLeak`.
- `BogonProofs!Inductive`: `Spec => []Inv`, on which they rest.

`Inv` (module `BogonInv`) adds three things to the properties. `LoadOK`: the
tree under construction holds the first `lnum - 1` prefixes and the path to
`lrunner`, so the exchange publishes a whole list. `SettledOK`: every tree a
lookup can be in (published, replaced, waiting for its callback) is the empty
one of the start or whole. `ReadOK`: a lookup is in such a tree, is waited for
if the tree has a callback, and has come down the path of its address past
nodes without a mark. `VerdictCorrect` then goes through the four ways a walk
can end; that 0 is never returned follows because the nodes at the last level
are all marked.

- `BogonProofs!TypeCorrect`: `Spec => []TypeOK`, part of `Inv`.
- `BogonProofs!TreeImplementsList`: `Spec => ImplementsList`. Loading, freeing and
  walking are stutters, the exchange of the pointer replaces the list, and a lookup
  has its answer from the moment it dereferences the tree. The abstract
  specification compares the number `ip \div 2^(W - len)`, the tree goes bit by
  bit: `BitsAreTop` shows by induction over the length that both agree.

### Firewall

- `FirewallProofs!PassIsJustified` and `DropIsJustified`:
  `Spec => []PassJustified`, `Spec => []DropJustified`.
- `FirewallProofs!TypeCorrect`: `Spec => []TypeOK`.
- `FirewallProofs!UsesBogonList` and `UsesHcfMap`: `Spec => Bogons!Spec` and
  `Spec => Hcf!Spec`. The composition changes the list and the map only as their
  own specifications allow, so the hooks get from them what `Bogon` is proved and
  `HcfTree` is checked to provide.

The verdict is made of three reads, so neither property is inductive: `Remembered`
keeps, at every place in the hook, what each read so far contributed, and
`AnswersOK` that a lookup under way has an answer that was true meanwhile, while
commands and learning change the sources.

### PktLog

- `PktLogProofs!NothingOutOfOrder`: `Spec => []SentInOrder`.
- `PktLogProofs!TimesAreRight`: `Spec => []StampsRight`.
- `PktLogProofs!NothingUnaccountedFor`: `Spec => []EachEventOnce`.
- `PktLogProofs!TypeCorrect`: `Spec => []TypeOK`.

What is sent is decoded from pages, so the invariant is about pages: `PageOK`
(records lie one after another in the page, decoding them from its time stamp
gives the time of each event, events ascend), `SeqOK` (only the first page can be
partly read, the events of a page precede those of later ones), `LastOK` (the page
being written leads to the time of the last packet, which the next delta is
counted from). `SentOK` adds that what was sent is older than what is buffered,
`PlacesOK` where each event is. `DecodedOK` shows that `process_rb_page` finds the
events and times of a page, over data, extensions, absolute stamps and padding;
`FixAbs` that `rb_fix_abs_ts` restores the bits that an absolute stamp lacks.
`LeftOutOK` is what `NothingUnaccountedFor` rests on: the events that
`process_rb_page` packs and those of `LeftOut`, which knows nothing of decoding,
are together the events of the page and have none in common. It needs the decoded
list to have every event of the page at the position of its rank.

### Lifecycle

- `LifecycleProofs!OrderOfUseIsSafe`: `Spec => []OrderIsSafe`.
- `LifecycleProofs!FlushHasItsRing`: `Spec => []FlushKeepsRing`.
- `LifecycleProofs!EndsAreClean`: `Spec => []CleanEnd`.
- `LifecycleProofs!TypeCorrect`: `Spec => []TypeOK`.

`bad` only records what went wrong, so the invariant says why nothing does.
`TodoOK`: what is left of a load is a final part of the order of initialisation
(`Up`, `Rest`), what is left of a failed load or an unload is in the order of
release (`Down`), and with a step has those that must follow it (`Closed`).
`HeldOK`: what is held is what that list says, but for a tree that a command
brought and a page nobody missed. `ActorsOK`: whoever runs has a foothold, such
as a queue that is drained before anything it needs is released; while the
failed registration of the learn hook is undone, what the filter hook uses is
behind the grace period of `hcf_swap_tree` (`hcf_sync`). `ErrorUndoes`
goes through every label of every error path: its list undoes what had been
acquired before the failure, and nothing else.

### Client

- `ClientProofs!NothingForgotten`: `Spec => []KnownOrLost`.
- `ClientProofs!NothingInvented`: `Spec => []RestoredWasLearned`.
- `ClientProofs!ListIsTheFile`: `Spec => []BogonExact`.
- `ClientProofs!HistoryAllOrNothing`: `Spec => HistoryWhole`, an action property.
- `ClientProofs!TypeCorrect`: `Spec => []TypeOK`.

What is restored has been through an announcement, the receive buffer, the table
and a history message, so `Inv` says of each of these that some packet taught
what is in it, and of the sender that its rows are in the table (`SetterOK`). A
work item about to announce left in its leaf what its packet taught (`Told`);
from the moment it has read the leaf back this holds only of networks that are
not overtaken (`Credible`, `IsRow`). `RoundTrip` is the conversion: the bytes of an address, stored and
read back, are the address.

### Assumptions

Addresses have finitely many bits, in the trie more than the host bits
(`BitsAssumption`, `WAssumption`); packets and messages carry addresses, bytes and
prefixes, files lines, freed leaves bytes (`InputAssumption`, `ClientAssumption`); `NULL` is nothing
else (`NullAssumption`); bounds and sizes are numbers (`LoadsAssumption`,
`SizeAssumption`, `LifecycleAssumption`).

What the provers lack about powers: those that occur are positive, and each is the
one before times the base (`AddrAssumption`, `PowAssumption` of `Bogon` and of
`Client`, `WidthAssumption`). TLC evaluates these for the values of its runs.

About the system: a page has room for one event with a time record
(`SizeAssumption`: 28 bytes, of 4096); times ascend; packets are less than the
range of an absolute time stamp apart and the clock does not reach that range for
the first time (`ClockAssumption`, 18 years); a message that is too small for a
row has room for its header, as pages of 4, 16 and 64 KiB do (`RowsAssumption`);
`timer_setup` does not fail (`LifecycleAssumption`). In `PktView` the port that
the viewer reads as a length is longer than a message.

### Only model-checked

- Liveness (`EveryTaskEnds`, `EveryNodeFreed`, `HistoryReturns`,
  `ImplementsFairMap`, `EveryLoadEnds`, `EveryTreeFreed`, `LearningEnds`,
  `EntryPointsReturn`, `EventuallyFlushed`, `EveryAnnouncementEnds`): it needs
  fairness and `ENABLED`, which the prover does not handle.
- `ImplementsMap`, that the trie is an atomic map. The mapping recurses over the
  levels of the trie; a proof has to follow, for every network, which leaf a clone
  of a path and a trie under construction lead to, which `Inv` does not say.
- `PktView`, whose one property is violated, and the other violations, which are
  counterexamples and need no proof.

## Not modelled

- A failing allocation inside a history message (`hcf.c:318`): the handler holds
  no lock there and nobody else has a pointer to its trie, but generic netlink
  commands wait for it from then on.
- The attribute policies of `nl.c` and malformed messages: commands come from the
  client that is modelled.
- The text log (`log.c`, `log.cpp`): it formats a line, multicasts and prints it,
  and keeps no state.
- The printing of addresses and events, and the command line.
- CPUs that go online or offline while the module is loaded.
- IPv6: the database has a table for it that no code uses.

## Plan

1. `ImplementsMap`: that `HcfTree` implements `HcfMap`, from `Inv`, `LevelOK`
   and what a clone and a trie under construction hold for each network.
   It completes the chain from the nodes of both tries to the verdicts of the
   hooks, of which the bogon half is proved.
2. One module for the arithmetic and least-element lemmas that several of the
   proof modules state for themselves.
3. A failing allocation inside a history message.
