------------------------------- MODULE PktLog -------------------------------
(***************************************************************************)
(* The log of accepted packets (kernel/src/log/packet_filter.c) on one CPU: *)
(* its counter, its timer, its flush work and its part of the ring buffer   *)
(* are all per CPU, so the CPUs do not meet.                                *)
(*                                                                         *)
(* The learn hook writes one event per packet into the ring buffer.  Every *)
(* Threshold packets it queues the flush work, which decodes the pages     *)
(* that are full and broadcasts their events; a timer queues it for the    *)
(* page being written as well.  The hook and the timer run in soft-irq     *)
(* context on this CPU, so neither is interrupted by the other or by the   *)
(* work, and both may run between any two steps of the work.               *)
(***************************************************************************)
EXTENDS RingBuffer, Sequences, FiniteSets

CONSTANTS
  Threshold,  \* packets between two wake-ups: 200
  PageSize,   \* bytes of a page of the ring buffer: 4080
  RingPages,  \* pages of the ring buffer
  MsgRooms,   \* bytes that a netlink message may have for attributes
  MayFail,    \* whether reserving an event and making a message may fail
  TimeOf,     \* the time of each packet: a sequence of as many times as packets
  Forced      \* packets that the ring buffer gives an absolute time stamp

ASSUME SizeAssumption ==
  /\ {Threshold, PageSize, RingPages} \subseteq Nat \ {0}
  /\ PageSize >= 28  \* one event, with a record of its own for its time
  /\ MsgRooms \subseteq Nat
  /\ MayFail \in BOOLEAN
  /\ TimeOf \in Seq(Nat)
  /\ \A i, j \in DOMAIN TimeOf : i < j => TimeOf[i] < TimeOf[j]

\* An absolute stamp has 59 bits, 18 years of nanoseconds: two packets are less
\* than that apart, and the clock does not reach that value for the first time
\* (rb_fix_abs_ts adds back the upper bits only once they are set).
ASSUME ClockAssumption ==
  /\ \A i, j \in DOMAIN TimeOf : TimeOf[j] - TimeOf[i] < 2^AbsBits
  /\ \A i, j \in DOMAIN TimeOf : TimeOf[i] < 2^AbsBits => TimeOf[j] < 2^AbsBits

\* Bound: packets logged, in all.
MaxEvents == Len(TimeOf)

VARIABLES
  count,      \* packet_counter
  full,       \* task->full_pages_only
  armed,      \* the timer is armed
  pending,    \* the work is queued and has not started
  wpc,        \* flush_pkt_filter_events: where the worker is
  wfull,      \* the flag as the worker read it for its next read
  pages,      \* the ring buffer: the unread pages, the last one being written
  stamp,      \* the time of the last event written
  logged,     \* packets logged so far; their events are numbered from 1
  sent,       \* events broadcast and their time stamps, in order
  lost        \* history: events that a cause named below keeps from being broadcast

bufVars == <<pages, stamp, logged>>
outVars == <<sent, lost>>
vars == <<count, full, armed, pending, wpc, wfull, bufVars, outVars>>

\* A page: how many bytes are written, the time its unread records start from,
\* whether events before it were overwritten, whether the reader has it (it is
\* not in the ring any more), and its unread records.
EmptyPage == [used |-> 0, ts |-> 0, gap |-> FALSE, out |-> FALSE, rec |-> <<>>]

Init ==
  /\ count = 0
  /\ full = TRUE
  /\ armed = TRUE
  /\ pending = FALSE
  /\ wpc = "idle"
  /\ wfull = TRUE
  /\ pages = <<EmptyPage>>
  /\ stamp = 0
  /\ logged = 0
  /\ sent = <<>>
  /\ lost = {}

\* Records that are no event have the number 0.
Events(p) == {p.rec[i].e : i \in DOMAIN p.rec} \ {0}

-----------------------------------------------------------------------------
(* The kernel's ring buffer and workqueue, as this file uses them.         *)

\* sizeof(struct pkt_filter_event), with its alignment.
EventSize == 16

Record(type, delta, word, at, e) ==
  [type_len |-> type, time_delta |-> delta, array |-> word, at |-> at, e |-> e]

\* The records of event e at the byte at of a page, d after the event before it:
\* an event that is forced, or too late for time_delta, has a record of its own
\* for its time.
Records(e, d, at) ==
  LET Data(delta, pos) == Record(EventSize \div RB_ALIGNMENT, delta, 0, pos, e)
      abs == TimeOf[e] % 2^AbsBits
  IN  IF e \in Forced
      THEN << Record(RINGBUF_TYPE_TIME_STAMP, abs % 2^TS_SHIFT, abs \div 2^TS_SHIFT, at, 0),
              Data(0, at + 8) >>
      ELSE IF TimeOf[e] - stamp >= 2^TS_SHIFT
      THEN << Record(RINGBUF_TYPE_TIME_EXTEND, d % 2^TS_SHIFT, d \div 2^TS_SHIFT, at, 0),
              Data(0, at + 8) >>
      ELSE << Data(d, at) >>

\* The rest of a page is one padding record, if there is room for its header
\* and one word.
Padded(p) ==
  IF PageSize - p.used < 8 THEN p
  ELSE [p EXCEPT !.used = PageSize,
                 !.rec = Append(@, Record(RINGBUF_TYPE_PADDING, 1,
                                          PageSize - p.used - RB_EVNT_HDR_SIZE, p.used, 0))]

\* ring_buffer_lock_reserve and ring_buffer_unlock_commit: the event goes to the
\* page being written or to a new one; if all pages of the ring are in use the
\* oldest is overwritten (RB_FL_OVERWRITE), and the next one tells.
Write(e) ==
  LET last == pages[Len(pages)]
      rec == Records(e, IF last.used = 0 THEN 0 ELSE TimeOf[e] - stamp, last.used)
      size == EventSize + RB_EVNT_HDR_SIZE + 8 * (Len(rec) - 1)
      done == SubSeq(pages, 1, Len(pages) - 1)
                \o (IF Padded(last).rec = <<>> THEN <<>> ELSE <<Padded(last)>>)
      new == [EmptyPage EXCEPT !.used = size, !.ts = TimeOf[e], !.rec = Records(e, 0, 0)]
      first == IF done # <<>> /\ done[1].out THEN 2 ELSE 1
      kept == SubSeq(done, 1, first - 1) \o SubSeq(done, first + 1, Len(done)) \o <<new>>
  IN  /\ stamp' = TimeOf[e]
      /\ IF last.used + size <= PageSize
         THEN /\ pages' = [pages EXCEPT ![Len(pages)] =
                             [last EXCEPT !.used = @ + size,
                                          !.ts = IF last.used = 0 THEN TimeOf[e] ELSE @,
                                          !.rec = @ \o rec]]
              /\ UNCHANGED lost
         ELSE IF Len(done) - first + 1 < RingPages
         THEN /\ pages' = Append(done, new)
              /\ UNCHANGED lost
         ELSE /\ pages' = [kept EXCEPT ![first].gap = TRUE]
              /\ lost' = lost \cup Events(done[first])

\* ring_buffer_read_page: a page that the writer has left is taken as a whole;
\* of the page being written the unread records are copied, but not if only full
\* pages are asked for.
Readable(onlyFull) ==
  \/ Len(pages) > 1
  \/ ~onlyFull /\ Head(pages).rec # <<>>

Remaining ==
  IF Len(pages) > 1 THEN Tail(pages)
  ELSE <<[pages[1] EXCEPT !.rec = <<>>, !.ts = stamp, !.gap = FALSE, !.out = TRUE]>>

\* The reader takes the page being written out of the ring although it then
\* finds that it is not full.
Taken == [pages EXCEPT ![1].out = @ \/ pages[1].rec # <<>>]

\* The commit field of the page read: its bytes, and a flag in the sign bit when
\* events before it were overwritten.
Commit(p) ==
  IF p.rec = <<>> THEN 0
  ELSE (p.used - p.rec[1].at) - (IF p.gap THEN 2 * PageSize ELSE 0)

-----------------------------------------------------------------------------
\* A mutant: the counter is lowered by the threshold and not set to 0.
Lowered(n) ==
  /\ pending' = TRUE
  /\ count' = IF pending THEN n ELSE n - Threshold

\* queue_work succeeds unless the work is pending already; then the counter
\* starts again.
QueueFlush(n) ==
  /\ pending' = TRUE
  /\ count' = IF pending THEN n ELSE 0

\* log_pkt_filter_event.
log_pkt_filter_event ==
  /\ logged < MaxEvents
  /\ IF count + 1 >= Threshold
     THEN /\ full' = TRUE
          /\ QueueFlush(count + 1)
     ELSE /\ count' = count + 1
          /\ UNCHANGED <<full, pending>>
  /\ logged' = logged + 1
  /\ \/ Write(logged + 1)
     \/ /\ MayFail
        /\ lost' = lost \cup {logged + 1}
        /\ UNCHANGED <<pages, stamp>>
  /\ UNCHANGED <<armed, wpc, wfull, sent>>

\* A mutant: the timer is not started again.
NoRearm == armed' = FALSE

mod_timer == armed' = TRUE

\* sched_flush_pkt_filter_events, the timer's function.
sched_flush_pkt_filter_events ==
  /\ armed
  /\ full' = FALSE
  /\ QueueFlush(count)
  /\ mod_timer
  /\ UNCHANGED <<wpc, wfull, bufVars, outVars>>

-----------------------------------------------------------------------------
(* flush_pkt_filter_events, the work.                                      *)

\* The worker takes the work; from here on it can be queued again.
flush_begin ==
  /\ wpc = "idle"
  /\ pending
  /\ pending' = FALSE
  /\ wpc' = "loop"
  /\ UNCHANGED <<count, full, armed, wfull, bufVars, outVars>>

\* The flag is loaded for the call of ring_buffer_read_page.
flush_flag ==
  /\ wpc = "loop"
  /\ wfull' = full
  /\ wpc' = "read"
  /\ UNCHANGED <<count, full, armed, pending, bufVars, outVars>>

\* The offset of the i-th record, as the loop of process_rb_page reaches it.
Offset(rec) ==
  LET at[i \in DOMAIN rec] == IF i = 1 THEN 0 ELSE at[i - 1] + rb_event_length(rec[i - 1])
  IN  at

\* The time after a record, ts being the time before it.
Advance(ts, event) ==
  CASE event.type_len = RINGBUF_TYPE_TIME_EXTEND -> ts + rb_event_time_stamp(event)
    [] event.type_len = RINGBUF_TYPE_TIME_STAMP ->
         rb_fix_abs_ts(rb_event_time_stamp(event), ts)
    [] OTHER -> ts + event.time_delta

\* The events of a page and their times: ts[i] and out[i] are the time and the
\* events after i turns of the loop.
Decoded(p) ==
  LET rec == p.rec
      Reached(i) == /\ Offset(rec)[i] = rec[i].at - rec[1].at
                    /\ Offset(rec)[i] < Commit(p)
      IsEvent(i) == rec[i].type_len \in RINGBUF_TYPE_DATA /\ Reached(i)
      ts[i \in 0..Len(rec)] == IF i = 0 THEN p.ts ELSE Advance(ts[i - 1], rec[i])
      out[i \in 0..Len(rec)] ==
        IF i = 0 THEN <<>>
        ELSE IF IsEvent(i) THEN Append(out[i - 1], [e |-> rec[i].e, ts |-> ts[i]])
        ELSE out[i - 1]
  IN  out[Len(rec)]

\* The attributes of an event, in a nest.
NestHeader == 4
NestSize == 72

\* A mutant: the newest event comes first.
NewestFirst(ev, room) == [i \in DOMAIN ev |-> ev[Len(ev) + 1 - i]]

\* The events that get into the message.  When the next one does not fit, it and
\* all after it are left out one by one; when not even its nest header fits,
\* there is no message.
Fitting(ev, room) ==
  IF Len(ev) * NestSize <= room THEN ev
  ELSE IF room % NestSize >= NestHeader THEN SubSeq(ev, 1, room \div NestSize)
  ELSE <<>>

process_rb_page(p, room) == Fitting(Decoded(p), room)

\* History: the events of a page that its message has no place for.  A page in
\* front of which events were overwritten has a negative commit, so nothing of it
\* is read.  Of any other page the oldest events have their place, as many as the
\* message has room for; if the room left over is too small for the header of
\* one more nest, the message as a whole is given up.
LeftOut(p, room) ==
  LET Rank(e) == Cardinality({f \in Events(p) : f <= e})
      TooMany == Cardinality(Events(p)) * NestSize > room
  IN  IF p.gap \/ (TooMany /\ room % NestSize < NestHeader) THEN Events(p)
      ELSE {e \in Events(p) : Rank(e) * NestSize > room}

\* A page is read and broadcast.
flush_page ==
  LET p == Head(pages)
  IN  /\ wpc = "read"
      /\ Readable(wfull)
      /\ \/ \E room \in MsgRooms :
              /\ sent' = sent \o process_rb_page(p, room)
              /\ lost' = lost \cup LeftOut(p, room)
         \/ /\ MayFail  \* no memory for the message: reported, and the loop goes on
            /\ lost' = lost \cup Events(p)
            /\ UNCHANGED sent
      /\ pages' = Remaining
      /\ wpc' = "loop"
      /\ UNCHANGED <<count, full, armed, pending, wfull, stamp, logged>>

\* Nothing to read.
flush_end ==
  /\ wpc = "read"
  /\ ~Readable(wfull)
  /\ pages' = Taken
  /\ wpc' = "idle"
  /\ UNCHANGED <<count, full, armed, pending, wfull, stamp, logged, outVars>>

-----------------------------------------------------------------------------
FlushStep == flush_begin \/ flush_flag \/ flush_page \/ flush_end

Next ==
  \/ log_pkt_filter_event
  \/ sched_flush_pkt_filter_events
  \/ FlushStep

Spec == Init /\ [][Next]_vars

\* An armed timer expires and queued work is carried out.
Fairness ==
  /\ WF_vars(sched_flush_pkt_filter_events)
  /\ WF_vars(FlushStep)

FairSpec == Spec /\ Fairness

-----------------------------------------------------------------------------
(* Properties.                                                             *)

\* Type correctness: the ring buffer keeps to its pages and their size, and the
\* counter is never negative.
TypeOK ==
  /\ count \in Nat
  /\ {full, armed, pending, wfull} \subseteq BOOLEAN
  /\ wpc \in {"idle", "loop", "read"}
  /\ Len(pages) \in 1..(RingPages + 1)
  /\ \A i \in DOMAIN pages :
       /\ pages[i].used \in 0..PageSize
       /\ pages[i].ts \in 0..stamp
       /\ pages[i].out => i = 1
  /\ logged \in 0..MaxEvents
  /\ sent \in Seq([e : 1..MaxEvents, ts : Nat])
  /\ lost \subseteq 1..MaxEvents

Buffered == UNION {Events(pages[i]) : i \in DOMAIN pages}
Sent == {sent[i].e : i \in DOMAIN sent}

\* User space gets the events in the order in which the packets were logged and
\* none of them twice, whatever the timer, the hook and the worker do to each
\* other's flags.
SentInOrder == \A i, j \in DOMAIN sent : i < j => sent[i].e < sent[j].e

\* Every event broadcast carries the time at which its packet was logged: after
\* any mix of short and long intervals and absolute stamps, of pages read as a
\* whole and in parts, and of events that did not fit in the message.
StampsRight == \A i \in DOMAIN sent : sent[i].ts = TimeOf[sent[i].e]

\* Every event is in one place: still in the buffer, broadcast, or lost for one of
\* the causes known: it was not written, it or one right before its page was
\* overwritten, its message failed or had no room for it.  So decoding finds
\* every event of a page whose message has room for it, over time extensions,
\* absolute stamps and padding, and makes up none.
EachEventOnce ==
  LET part == <<Buffered, Sent, lost>>
  IN  /\ 1..logged = UNION {part[i] : i \in DOMAIN part}
      /\ \A i, j \in DOMAIN part : i # j => part[i] \cap part[j] = {}

\* An event stays in the buffer for a limited time only: the timer flushes what
\* the threshold does not, even though a packet can turn its flush of a partly
\* written page back into one of full pages.
EventuallyFlushed ==
  \A e \in 1..MaxEvents : e \in Buffered ~> e \notin Buffered

=============================================================================
