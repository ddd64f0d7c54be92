------------------------------- MODULE Client -------------------------------
(***************************************************************************)
(* The user-space program and its database (src/nl, src/db, src/main.cpp)  *)
(* against the kernel module: announcements of new networks are stored by   *)
(* view_hcf, set_hcf sends the stored history back, set_bogon sends a file  *)
(* of prefixes, under_attack sends the flag.                               *)
(*                                                                         *)
(* The tries are what their abstract specifications promise: hop counts by  *)
(* network, a list of prefixes.  A netlink command is handled within the    *)
(* send; a multicast message waits in the receive buffer of the listener.  *)
(* Each side may be restarted at any time.                                 *)
(***************************************************************************)
EXTENDS HopCount, Sequences, Functions

CONSTANTS
  Base,       \* values of a byte of an address: 256
  Bytes,      \* bytes of an address: 4
  HostAddrs,  \* addresses of one network: 2^8
  Packets,    \* source address and TTL of packets that are learned
  Garbage,    \* what the memory of a leaf may hold once it was freed
  QueueCap,   \* announcements that the listener's receive buffer holds
  RowsSize,   \* bytes of a message for a history
  ListSizes,  \* bytes that a message for a list of prefixes may have
  Prefix,     \* prefixes
  Files,      \* the files given to set_bogon: sets of sequences of lines
  MaxLearn,   \* bound: packets learned
  MaxReload   \* bound: times the kernel module is loaded again

Addr == 0..(Base^Bytes - 1)
Net == {a \div HostAddrs : a \in Addr}
NetOf(a) == a \div HostAddrs

\* Lines of a file other than a prefix: its length is no number; its address is
\* none, or there is no slash.
BadLength == "bad length"
BadAddress == "bad address"

\* What the kernel reads when it is told of more prefixes than there are.
ZeroPrefix == "0.0.0.0/0"

\* Bytes of a message: its two headers, an entry of a history, an entry of a
\* list, the number of entries of a list.
GenlHeader == 20
HistoryEntry == 28
PrefixEntry == 20
CountAttr == 8

ASSUME ClientAssumption ==
  /\ {Base, Bytes, HostAddrs, MaxLearn} \subseteq Nat \ {0}
  /\ {RowsSize, QueueCap, MaxReload} \cup ListSizes \subseteq Nat
  /\ Packets \subseteq [ip : Addr, ttl : Byte]
  /\ Garbage \subseteq [ttl : Byte, hc : Byte]
  /\ \A f \in Files : f \in Seq(Prefix \cup {BadLength, BadAddress})
  /\ Range(<<BadLength, BadAddress, ZeroPrefix>>) \cap Prefix = {}

\* What the provers do not know of powers.
ASSUME PowAssumption ==
  /\ Base^0 = 1
  /\ \A i \in 0..Bytes : Base^i \in Nat \ {0} /\ Base^(i + 1) = Base * Base^i

\* Rows that do not fit leave room for the header of a nest, as they do in
\* pages of 4, 16 and 64 KiB.
ASSUME RowsAssumption == (RowsSize - GenlHeader) % HistoryEntry >= 4

VARIABLES
  hops,      \* kernel: what is known of each network; NoHops if nothing
  ann,       \* kernel: work items that have released the mutex and are about to
             \* announce a network: the address, the pair they left in the leaf,
             \* whether the leaf was replaced since; two equal ones count as one
  bogons,    \* kernel: the list of prefixes
  attack,    \* kernel: the under-attack flag
  listener,  \* view_hcf: "off", "on", "deaf" (it has lost its membership)
  queue,     \* its receive buffer
  db,        \* the rows of hcf_ipv4_history
  setter,    \* set_hcf: whether it runs, the rows it has packed, and (history)
             \* the table when it read it
  taught,    \* history variable: what packets have taught of each network
  overtaken, \* history variable: networks announced from a replaced leaf
  lost,      \* history variable: addresses whose announcement was lost
  file,      \* history variable: the file that the list came from
  learned,   \* packets learned so far
  reloads    \* loads of the module so far

kernelVars == <<hops, ann, bogons, attack>>
userVars == <<listener, queue, db, setter>>
boundVars == <<learned, reloads>>
histVars == <<taught, overtaken, lost>>
vars == <<kernelVars, userVars, histVars, file, boundVars>>

Meta(t) == [ttl |-> t, hc |-> HopsOf(t)]
NoHops == [ttl |-> 0, hc |-> -1]
Announcement == [ip : Addr, ttl : Byte, hc : Byte]
Pending == [ip : Addr, ttl : Byte, hc : Byte, stale : BOOLEAN]

Idle == [busy |-> FALSE, rows |-> <<>>, read |-> <<>>]

Init ==
  /\ hops = [n \in Net |-> NoHops]
  /\ ann = {}
  /\ bogons = <<>>
  /\ attack = FALSE
  /\ listener = "off"
  /\ queue = <<>>
  /\ db = <<>>
  /\ setter = Idle
  /\ taught = {}
  /\ overtaken = {}
  /\ lost = {}
  /\ file = <<>>
  /\ learned = 0
  /\ reloads = 0

-----------------------------------------------------------------------------
(* The kernel module.                                                      *)

\* A mutant: a network that shares its path with another is not announced.
NewPath(n) == \A k \in Net : hops[k] = NoHops

\* nodes_created > 0.
IsNew(n) == hops[n] = NoHops

\* The pending announcements once the leaves of some networks were replaced.
Replaced(nets) ==
  {[a EXCEPT !.stale = @ \/ NetOf(a.ip) \in nets] : a \in ann}

\* hcf_register_ip_work up to the unlock: the leaf of the network is replaced by
\* one with the new pair, and a network that is new will be announced.
learn(ip, t) ==
  /\ learned < MaxLearn
  /\ learned' = learned + 1
  /\ hops' = [hops EXCEPT ![NetOf(ip)] = Meta(t)]
  /\ taught' = taught \cup {<<NetOf(ip), Meta(t)>>}
  /\ ann' = Replaced({NetOf(ip)}) \cup
             {a \in {[ip |-> ip, ttl |-> t, hc |-> HopsOf(t), stale |-> FALSE]} :
                IsNew(NetOf(ip))}
  /\ UNCHANGED <<bogons, attack, userVars, overtaken, lost, file, reloads>>

\* What the item reads from its leaf (new_runner->ttl, ->hc) without the mutex.  A
\* leaf that was replaced is freed after a grace period, and its memory used
\* again: it may hold the pair still, or anything.
LeafOf(a) ==
  {[ttl |-> a.ttl, hc |-> a.hc]} \cup {g \in Garbage : a.stale}

\* Whether the message gets to the listener; there may be no memory for it.
Delivered == {FALSE, listener = "on" /\ Len(queue) < QueueCap}

\* The item announces what it reads (hcf_log_new_ip): the result of
\* lfw_make_multicast_msg is not looked at.
hcf_log_new_ip(a) ==
  /\ a \in ann
  /\ ann' = ann \ {a}
  /\ overtaken' = overtaken \cup {n \in {NetOf(a.ip)} : a.stale}
  /\ \E d \in Delivered, leaf \in LeafOf(a) :
       IF d THEN /\ queue' = Append(queue, [ip |-> a.ip, ttl |-> leaf.ttl, hc |-> leaf.hc])
                 /\ UNCHANGED lost
       ELSE lost' = lost \cup {a.ip} /\ UNCHANGED queue
  /\ UNCHANGED <<hops, bogons, attack, listener, db, setter, taught, file, boundVars>>

\* The module is removed, its work done, and loaded again: it knows nothing.  The
\* netlink family has a new number, so what a program sends to the old one is
\* dropped, and the listener's membership went with the old family.
reload ==
  /\ reloads < MaxReload
  /\ ann = {}
  /\ reloads' = reloads + 1
  /\ hops' = [n \in Net |-> NoHops]
  /\ bogons' = <<>>
  /\ file' = <<>>
  /\ attack' = FALSE
  /\ listener' = IF listener = "on" THEN "deaf" ELSE listener
  /\ setter' = Idle
  /\ UNCHANGED <<ann, queue, db, histVars, learned>>

-----------------------------------------------------------------------------
(* view_hcf.                                                               *)

\* NetlinkMulticastBase: connect, resolve the family and the group, join it.
listen ==
  /\ listener = "off"
  /\ listener' = "on"
  /\ UNCHANGED <<kernelVars, queue, db, setter, histVars, file, boundVars>>

\* It is stopped, and its receive buffer goes with it.
kill ==
  /\ listener # "off"
  /\ listener' = "off"
  /\ queue' = <<>>
  /\ lost' = lost \cup {a.ip : a \in Range(queue)}
  /\ UNCHANGED <<kernelVars, db, setter, taught, overtaken, file, boundVars>>

\* The 4 bytes of an address in the memory of the machine, lowest first, as they
\* are stored in the database.
Blob(ip) == [i \in 1..Bytes |-> (ip \div Base^(i - 1)) % Base]

\* A mutant: the bytes in network order.
BigEndian(blob) ==
  LET sum[i \in 0..Bytes] == IF i = 0 THEN 0 ELSE sum[i - 1] * Base + blob[i]
  IN  sum[Bytes]

\* nla_get_in_addr on the same machine.
nla_get_in_addr(blob) ==
  LET sum[i \in 0..Bytes] ==
        IF i = 0 THEN 0 ELSE sum[i - 1] + blob[i] * Base^(i - 1)
  IN  sum[Bytes]

Row(a) == [ip_addr |-> Blob(a.ip), ttl |-> a.ttl, hc |-> a.hc]

\* A mutant: addresses are not unique.
insert(row) == Append(db, row)

insert_or_ignore(row) ==
  IF \E r \in Range(db) : r.ip_addr = row.ip_addr THEN db ELSE Append(db, row)

\* A mutant: the message is looked at and left in the buffer.
Peeked == queue

Consumed == Tail(queue)

\* HcfListener::on_message_received: an exception of the database, which another
\* process may have locked, is reported and the message is gone.
on_message_received ==
  /\ listener # "off"
  /\ queue # <<>>
  /\ \/ db' = insert_or_ignore(Row(Head(queue))) /\ UNCHANGED lost
     \/ lost' = lost \cup {Head(queue).ip} /\ UNCHANGED db
  /\ queue' = Consumed
  /\ UNCHANGED <<kernelVars, listener, setter, taught, overtaken, file, boundVars>>

-----------------------------------------------------------------------------
(* set_hcf.                                                                *)

\* A mutant: what fits is sent.
CutRows(rows) ==
  {SubSeq(rows, 1, k) : k \in {i \in 0..Len(rows) : i * HistoryEntry <= RowsSize - GenlHeader}}

\* HcfListener::set_ip_history packs all rows or gives up.
PackRows(rows) ==
  {r \in {rows} : Len(r) * HistoryEntry <= RowsSize - GenlHeader}

\* The rows are read; the program ends here if they do not fit.
set_ip_history ==
  /\ ~setter.busy
  /\ \E rows \in PackRows(db) : setter' = [busy |-> TRUE, rows |-> rows, read |-> db]
  /\ UNCHANGED <<kernelVars, listener, queue, db, histVars, file, boundVars>>

\* hcf_register_ip_history, called by the send: the trie is replaced by one that
\* has the rows only; the last row of a network counts.
MapOf(rows) ==
  LET At(n) == {i \in DOMAIN rows : NetOf(nla_get_in_addr(rows[i].ip_addr)) = n}
      Last(n) == rows[CHOOSE i \in At(n) : \A j \in At(n) : j <= i]
  IN  [n \in Net |-> IF At(n) = {} THEN NoHops ELSE [ttl |-> Last(n).ttl, hc |-> Last(n).hc]]

send_history ==
  /\ setter.busy
  /\ hops' = MapOf(setter.rows)
  /\ ann' = Replaced(Net)
  /\ setter' = Idle
  /\ UNCHANGED <<bogons, attack, listener, queue, db, histVars, file, boundVars>>

\* The program is stopped, or there is no memory for the new trie.
send_fails ==
  /\ setter.busy
  /\ setter' = Idle
  /\ UNCHANGED <<kernelVars, listener, queue, db, histVars, file, boundVars>>

-----------------------------------------------------------------------------
(* set_bogon and under_attack.                                             *)

\* The lines packed into a message of a size: up to the one that does not fit.
PackedLines(f, size) ==
  LET room == (size - GenlHeader) \div PrefixEntry
  IN  SubSeq(f, 1, IF Len(f) < room THEN Len(f) ELSE room)

\* A mutant: the line that did not fit is counted.
CountsLine(f, size) ==
  LET n == Len(PackedLines(f, size)) IN IF n < Len(f) THEN n + 1 ELSE n

\* LFW_NLA_NUM_IP_PREFIX, 0 when there was no room for it.
NumPrefix(f, size) ==
  LET n == Len(PackedLines(f, size))
  IN  IF size - GenlHeader - n * PrefixEntry >= CountAttr THEN n ELSE 0

\* The prefix that a line becomes.  inet_pton fails on a bad address and leaves
\* the variable as it was; without a slash the length is read from the address.
Parsed(line) == IF line = BadAddress THEN Prefix ELSE {line}

\* CommandDispatcher::send_bogon_list, with lfw_bogon_set: a length that is no
\* number ends the program before anything is sent, if the line is read at all;
\* without a number of prefixes, or memory, the list stays.
send_bogon_list(f, size) ==
  LET lines == PackedLines(f, size)
      num == NumPrefix(f, size)
      read == SubSeq(f, 1, IF Len(lines) < Len(f) THEN Len(lines) + 1 ELSE Len(f))
  IN  /\ BadLength \notin Range(read)
      /\ num > 0
      /\ file' = f
      /\ bogons' \in {b \in [1..num -> Prefix \cup {ZeroPrefix}] :
                       \A i \in 1..num :
                         b[i] \in IF i <= Len(lines) THEN Parsed(lines[i]) ELSE {ZeroPrefix}}
      /\ UNCHANGED <<hops, ann, attack, userVars, histVars, boundVars>>

\* CommandDispatcher::set_under_attack.
set_under_attack(under_attack) ==
  /\ attack' = under_attack
  /\ UNCHANGED <<hops, ann, bogons, userVars, histVars, file, boundVars>>

-----------------------------------------------------------------------------
Next ==
  \/ \E p \in Packets : learn(p.ip, p.ttl)
  \/ \E a \in ann : hcf_log_new_ip(a)
  \/ reload
  \/ listen
  \/ kill
  \/ on_message_received
  \/ set_ip_history
  \/ send_history
  \/ send_fails
  \/ \E f \in Files, size \in ListSizes : send_bogon_list(f, size)
  \/ \E b \in BOOLEAN : set_under_attack(b)

Spec == Init /\ [][Next]_vars

\* A work item goes on to its announcement, and the listener is scheduled.
Fairness ==
  /\ WF_vars(\E a \in ann : hcf_log_new_ip(a))
  /\ WF_vars(on_message_received)

FairSpec == Spec /\ Fairness

-----------------------------------------------------------------------------
(* Properties.                                                             *)

\* Type correctness; no address has two rows.
TypeOK ==
  /\ hops \in [Net -> [ttl : Byte, hc : Byte] \cup {NoHops}]
  /\ ann \subseteq Pending
  /\ bogons \in Seq(Prefix \cup {ZeroPrefix})
  /\ attack \in BOOLEAN
  /\ listener \in {"off", "on", "deaf"}
  /\ queue \in Seq(Announcement) /\ Len(queue) <= QueueCap
  /\ db \in Seq([ip_addr : [1..Bytes -> 0..(Base - 1)], ttl : Byte, hc : Byte])
  /\ \A i, j \in DOMAIN db : i # j => db[i].ip_addr # db[j].ip_addr
  /\ setter.busy \in BOOLEAN
  /\ lost \subseteq Addr

StoredAddrs == {nla_get_in_addr(r.ip_addr) : r \in Range(db)}
InFlight == {a.ip : a \in ann \cup Range(queue)}

\* Whatever was ever learned of a network, and whatever the kernel knows of one,
\* will outlive the module: an address of the network is in the database, on its
\* way there, or its announcement was lost for one of the reasons the code ignores
\* (no listener, no room, no memory, a failed insertion).  Neither loading the
\* module again nor replacing the trie by an old history breaks this.
KnownOrLost ==
  \A n \in {m \in Net : hops[m] # NoHops} \cup {p[1] : p \in taught} :
    \E ip \in StoredAddrs \cup InFlight \cup lost : NetOf(ip) = n

\* Whatever is restored, in whatever order announcements, insertions, loads of
\* the module and histories came, is what some packet of that very network once
\* taught: but for the networks whose leaf was replaced between the unlock and
\* the announcement, which may be stored with the contents of freed memory.
RestoredWasLearned ==
  \A n \in Net \ overtaken : hops[n] # NoHops => <<n, hops[n]>> \in taught

\* A history is restored as a whole: after the send the kernel knows exactly the
\* networks that were in the database at an earlier moment, all of them.
HistoryWhole ==
  [][ setter.busy /\ ~setter'.busy /\ reloads' = reloads =>
        \/ hops' = hops
        \/ {n \in Net : hops'[n] # NoHops} =
             {NetOf(nla_get_in_addr(r.ip_addr)) : r \in Range(setter.read)} ]_vars

\* The list in force is that of the file from its first line on, cut at most at
\* the size of a message: none is skipped, and none is there for which the file has
\* no line (it would be 0.0.0.0/0, which every address matches).  A line that is a
\* prefix becomes that prefix; one with a bad address may become any.
BogonExact ==
  /\ Len(bogons) <= Len(file)
  /\ \A i \in DOMAIN bogons : bogons[i] \in Parsed(file[i])
  /\ Len(bogons) < Len(file) =>
       \E size \in ListSizes : GenlHeader + (Len(bogons) + 1) * PrefixEntry > size

\* Every announcement ends in the database or is lost; none waits for ever.
EveryAnnouncementEnds ==
  \A ip \in Addr : ip \in InFlight ~> ip \in (StoredAddrs \cup lost) \ InFlight

=============================================================================
