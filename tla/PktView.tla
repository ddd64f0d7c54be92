------------------------------ MODULE PktView ------------------------------
(***************************************************************************)
(* The viewer of the packet log (src/nl/packet_filter_log.cpp, base.cpp)    *)
(* at the other end of the messages that PktLog broadcasts.                *)
(*                                                                         *)
(* Of a message only the places and lengths of its attributes matter: four  *)
(* bytes of generic netlink header, then one nest of NestSize bytes for     *)
(* each event.                                                             *)
(***************************************************************************)
EXTENDS PktLog

CONSTANTS
  QueueCap,  \* messages that the socket's receive buffer holds
  Port       \* a packet's destination port, its two bytes read as a host number:
             \* longer than a message of 8 KiB, as port 80 is, which reads as 20480

VARIABLES
  view,   \* "off", "on", "failed"
  queue,  \* messages in the receive buffer: sequences of events
  seen,   \* history variable: events of the messages that the viewer was handed
  shown   \* events printed

viewVars == <<view, queue, seen, shown>>
allVars == <<vars, viewVars>>

ViewInit ==
  /\ Init
  /\ view = "off"
  /\ queue = <<>>
  /\ seen = {}
  /\ shown = {}

-----------------------------------------------------------------------------
(* The layout of a message with n events, in bytes.                        *)

GENL_HDRLEN == 4
LFW_NL_CMD_PKT_FILTER_LOG == 6
LFW_NL_FAMILY_VER == 1

nlmsg_datalen(n) == GENL_HDRLEN + n * NestSize

\* Where the i-th nest begins.
NestAt(i) == GENL_HDRLEN + (i - 1) * NestSize

\* What the two bytes at an offset are when read as the length of an attribute:
\* of the generic header its command and version, of a nest its length.  The only
\* other place that the walk below gets to is the destination port of the fourth
\* nest, 264 bytes from the start.
nla_len(n, off) ==
  IF off = 0 THEN LFW_NL_CMD_PKT_FILTER_LOG + 256 * LFW_NL_FAMILY_VER
  ELSE IF \E i \in 1..n : off = NestAt(i) THEN NestSize
  ELSE Port

nla_ok(n, off) ==
  /\ off + 4 <= nlmsg_datalen(n)
  /\ nla_len(n, off) >= 4
  /\ off + nla_len(n, off) <= nlmsg_datalen(n)

NLA_ALIGN(len) == ((len + 3) \div 4) * 4

\* The offsets that nla_for_each_attr visits from an offset on: at most one for
\* every four bytes.
VisitedFrom(n, first) ==
  LET at[k \in 0..(nlmsg_datalen(n) \div 4)] ==
        IF k = 0 THEN first
        ELSE IF nla_ok(n, at[k - 1]) THEN at[k - 1] + NLA_ALIGN(nla_len(n, at[k - 1]))
        ELSE nlmsg_datalen(n)
  IN  {off \in {at[k] : k \in DOMAIN at} : nla_ok(n, off)}

\* wait_for_messages_callback hands nlmsg_data to the loop: it starts at the
\* generic header.
Visited(n) == VisitedFrom(n, 0)

-----------------------------------------------------------------------------
\* PacketFilterListener: connect, resolve the family and the group, join it;
\* each may fail and ends the program.
listen ==
  /\ view = "off"
  /\ view' \in {"on", "failed"}
  /\ UNCHANGED <<vars, queue, seen, shown>>

\* The flush work's message reaches the socket if it has joined the group and
\* has room.
broadcast ==
  /\ flush_page
  /\ LET out == SubSeq(sent', Len(sent) + 1, Len(sent'))
     IN  queue' = IF view = "on" /\ Len(queue) < QueueCap /\ out # <<>>
                  THEN Append(queue, out) ELSE queue
  /\ UNCHANGED <<view, seen, shown>>

\* wait_for_messages_callback.
wait_for_messages_callback ==
  /\ view = "on"
  /\ queue # <<>>
  /\ LET m == Head(queue)
     IN  /\ seen' = seen \cup {m[i].e : i \in DOMAIN m}
         /\ shown' = shown \cup {m[i].e : i \in {j \in DOMAIN m : NestAt(j) \in Visited(Len(m))}}
  /\ queue' = Tail(queue)
  /\ UNCHANGED <<vars, view>>

ViewNext ==
  \/ listen
  \/ broadcast
  \/ wait_for_messages_callback
  \/ (log_pkt_filter_event \/ sched_flush_pkt_filter_events \/ flush_begin
        \/ flush_flag \/ flush_end) /\ UNCHANGED viewVars

ViewSpec == ViewInit /\ [][ViewNext]_allVars

-----------------------------------------------------------------------------
\* "receive packet filter logs": an event in a message that the viewer was handed
\* is printed.
EveryEventShown == seen = shown

=============================================================================
