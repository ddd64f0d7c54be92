----------------------------- MODULE RingBuffer -----------------------------
(***************************************************************************)
(* Decoding of ring buffer records (kernel/src/util/ring_buffer.c): how     *)
(* long a record is and which time it stands for.                          *)
(*                                                                         *)
(* A record is its header fields type_len and time_delta, the word array[0] *)
(* after the header, and its payload.  The widths of time_delta (27 bits)   *)
(* and of absolute time stamps (59 bits) are parameters.                   *)
(***************************************************************************)
EXTENDS Integers

CONSTANTS
  TS_SHIFT,  \* bits of time_delta
  AbsBits    \* bits of an absolute time stamp

\* The provers do not know that a power of 2 is positive.
ASSUME WidthAssumption ==
  /\ TS_SHIFT \in Nat
  /\ AbsBits \in Nat
  /\ {2^TS_SHIFT, 2^AbsBits} \subseteq Nat \ {0}

\* enum ring_buffer_type: smaller values are the length of a data record.
RINGBUF_TYPE_DATA == 0..28
RINGBUF_TYPE_PADDING == 29
RINGBUF_TYPE_TIME_EXTEND == 30
RINGBUF_TYPE_TIME_STAMP == 31

RB_ALIGNMENT == 4
RB_EVNT_HDR_SIZE == 4
RB_LEN_TIME_EXTEND == 8
RB_LEN_TIME_STAMP == 8

rb_null_event(event) ==
  event.type_len = RINGBUF_TYPE_PADDING /\ event.time_delta = 0

rb_event_time_stamp(event) == event.array * 2^TS_SHIFT + event.time_delta

\* The bits of save_ts & TS_MSB.
MSB(ts) == ts - (ts % 2^AbsBits)

\* A mutant: what overflowed the absolute stamp is not added back.
NoOverflow(abs, save_ts) == abs + MSB(save_ts)

rb_fix_abs_ts(abs, save_ts) ==
  IF MSB(save_ts) = 0 THEN abs
  ELSE LET fixed == abs + MSB(save_ts)
       IN  IF fixed < save_ts THEN fixed + 2^AbsBits ELSE fixed

\* A mutant: the header of a data record is not counted.
PayloadOnly(event) ==
  IF event.type_len # 0 THEN event.type_len * RB_ALIGNMENT ELSE event.array

rb_event_data_length(event) ==
  (IF event.type_len # 0 THEN event.type_len * RB_ALIGNMENT ELSE event.array)
    + RB_EVNT_HDR_SIZE

\* The -1 of a null event is unsigned, hence more than any page.
Undefined == 2^30

rb_event_length(event) ==
  CASE rb_null_event(event) -> Undefined
    [] event.type_len = RINGBUF_TYPE_PADDING /\ ~rb_null_event(event) ->
         event.array + RB_EVNT_HDR_SIZE
    [] event.type_len = RINGBUF_TYPE_TIME_EXTEND -> RB_LEN_TIME_EXTEND
    [] event.type_len = RINGBUF_TYPE_TIME_STAMP -> RB_LEN_TIME_STAMP
    [] event.type_len \in RINGBUF_TYPE_DATA -> rb_event_data_length(event)

=============================================================================
