---------------------------- MODULE PktLogProofs ----------------------------
(***************************************************************************)
(* Proofs about the log of accepted packets, for every clock, every size of *)
(* the ring buffer and of its pages and messages, and every number of       *)
(* packets: each event is broadcast once, in order and with its time, or    *)
(* accounted for as lost.                                                   *)
(***************************************************************************)
EXTENDS PktLog, SequenceTheorems, FiniteSetTheorems, WellFoundedInduction, TLAPS

-----------------------------------------------------------------------------
(* The inductive invariant.                                                *)

Rec == [type_len : 0..31, time_delta : Nat, array : Nat, at : Nat, e : 0..MaxEvents]

Page == [used : 0..PageSize, ts : Nat, gap : BOOLEAN, out : BOOLEAN, rec : Seq(Rec)]

\* T[i] is the time after i records, where ts is the time before the first: the
\* times of the packets at the records that are events.
IsTimes(T, rec, ts) ==
  /\ T \in [0..Len(rec) -> Nat]
  /\ T[0] = ts
  /\ \A i \in 1..Len(rec) : T[i] = Advance(T[i - 1], rec[i])
  /\ \A i \in 1..Len(rec) : rec[i].e # 0 => T[i] = TimeOf[rec[i].e]

\* The records lead from one time to another.
Timed(rec, ts, end) == \E T : IsTimes(T, rec, ts) /\ T[Len(rec)] = end

\* The records that are events are in order.
Ordered(rec) ==
  \A i, j \in DOMAIN rec : i < j /\ rec[i].e # 0 /\ rec[j].e # 0 => rec[i].e < rec[j].e

DataOnly(rec) ==
  \A i \in DOMAIN rec : rec[i].e # 0 <=> rec[i].type_len \in RINGBUF_TYPE_DATA

\* Each record starts where the one before it ends, and the last ends at the byte
\* end.
Placed(rec, end) ==
  \A i \in 1..Len(rec) :
    /\ rec[1].at <= rec[i].at /\ rec[i].at < end
    /\ rec[i].at + rb_event_length(rec[i]) = IF i = Len(rec) THEN end ELSE rec[i + 1].at

PageOK(p) ==
  /\ p \in Page
  /\ Placed(p.rec, p.used)
  /\ DataOnly(p.rec)
  /\ Ordered(p.rec)
  /\ \E end \in Nat : Timed(p.rec, p.ts, end)

BufOf(ps) == UNION {Events(ps[i]) : i \in DOMAIN ps}

\* Pages that start before the time st, with their events in order.
SeqOK(ps, st) ==
  /\ ps \in Seq(Page)
  /\ \A i \in 1..Len(ps) : PageOK(ps[i]) /\ ps[i].ts <= st /\ (ps[i].out => i = 1)
  /\ \A i, j \in 1..Len(ps) : i < j => \A x \in Events(ps[i]), y \in Events(ps[j]) : x < y

\* The page being written is empty or leads up to st, the time of one of the first
\* n packets.
LastOK(p, st, n) ==
  \/ p.used = 0 /\ p.rec = <<>>
  \/ p.used # 0 /\ st \in {TimeOf[j] : j \in 1..n} /\ Timed(p.rec, p.ts, st)

PagesOK(ps, st, n) ==
  /\ SeqOK(ps, st)
  /\ Len(ps) \in 1..(RingPages + 1)
  /\ LastOK(ps[Len(ps)], st, n)

TypeInv ==
  /\ count \in Nat
  /\ {full, armed, pending, wfull} \subseteq BOOLEAN
  /\ wpc \in {"idle", "loop", "read"}
  /\ logged \in 0..MaxEvents
  /\ stamp \in {0} \cup {TimeOf[j] : j \in 1..logged}
  /\ sent \in Seq([e : 1..MaxEvents, ts : Nat])
  /\ lost \subseteq 1..logged

\* The events broadcast are in order, with their times, and older than those still
\* in the buffer.
SentOK ==
  /\ SentInOrder
  /\ StampsRight
  /\ \A x \in Sent, y \in Buffered : x < y

\* Where the events are.
PlacesOK ==
  /\ Buffered \cup Sent \cup lost = 1..logged
  /\ lost \cap (Buffered \cup Sent) = {}

Inv == TypeInv /\ PagesOK(pages, stamp, logged) /\ SentOK /\ PlacesOK

-----------------------------------------------------------------------------
(* Arithmetic, induction and iteration.                                    *)

\* What the provers need for induction.
LEMMA Smallest ==
  ASSUME NEW T, T \subseteq Nat, T # {}
  PROVE  \E x \in T : \A y \in T : x <= y
<1>1. PICK x \in T : \A y \in T : ~(<<y, x>> \in OpToRel(<, Nat))
  BY NatLessThanWellFounded, WFMin, Zenon
<1>2. \A y \in T : ~(y < x)
  BY <1>1, Zenon DEF OpToRel
<1>. QED
  BY <1>2

LEMMA Remainder ==
  ASSUME NEW a \in Nat, NEW d \in Nat, d > 0
  PROVE  /\ a \div d \in Nat
         /\ a % d \in 0..(d - 1)
         /\ a = d * (a \div d) + (a % d)
<1>1. a \div d \in Nat
  OBVIOUS
<1>2. a % d \in 0..(d - 1)
  OBVIOUS
<1>3. a = d * (a \div d) + (a % d)
  OBVIOUS
<1>. QED
  BY <1>1, <1>2, <1>3

\* g[i] is what the first i of N turns make of s.
IsIteration(g, S, s, F, N) ==
  /\ g \in [0..N -> S]
  /\ g[0] = s
  /\ \A i \in 1..N : g[i] = F[i][g[i - 1]]

LEMMA Iterates ==
  ASSUME NEW S, NEW s \in S, NEW N \in Nat, NEW F \in [1..N -> [S -> S]]
  PROVE  \E g : IsIteration(g, S, s, F, N)
<1>. DEFINE Upto(n) == \E g : IsIteration(g, S, s, F, n)
            Bad == {n \in 0..N : ~Upto(n)}
<1>1. SUFFICES ASSUME Bad # {} PROVE FALSE
  <2>1. N \in 0..N
    OBVIOUS
  <2>. HIDE DEF Upto
  <2>2. Bad = {} => Upto(N)
    BY <2>1
  <2>. QED
    BY <2>2 DEF Upto
<1>2. PICK n \in Bad : \A m \in Bad : n <= m
  <2>1. Bad \subseteq Nat
    OBVIOUS
  <2>. HIDE DEF Bad
  <2>. QED
    BY <1>1, <2>1, Smallest
<1>3. n # 0
  <2>1. Upto(0)
    <3>. DEFINE g == [i \in 0..0 |-> s]
    <3>1. IsIteration(g, S, s, F, 0)
      BY DEF IsIteration
    <3>. QED
      BY <3>1
  <2>. QED
    BY <2>1
<1>4. Upto(n - 1) /\ n - 1 \in Nat /\ n \in 1..N
  <2>1. n \in 0..N /\ n - 1 \in 0..N /\ ~(n <= n - 1)
    BY <1>3
  <2>2. n - 1 \notin Bad
    BY <1>2, <2>1
  <2>. QED
    BY <1>3, <2>1, <2>2
<1>5. PICK g : IsIteration(g, S, s, F, n - 1)
  BY <1>4
<1>. DEFINE h == [i \in 0..n |-> IF i = n THEN F[n][g[n - 1]] ELSE g[i]]
<1>6. h \in [0..n -> S] /\ h[0] = s
  BY <1>3, <1>4, <1>5 DEF IsIteration
<1>7. ASSUME NEW i \in 1..n PROVE h[i] = F[i][h[i - 1]]
  BY <1>4, <1>5 DEF IsIteration
<1>8. Upto(n)
  BY <1>6, <1>7 DEF IsIteration
<1>. QED
  BY <1>8

-----------------------------------------------------------------------------
(* Times.                                                                  *)

\* rb_fix_abs_ts gives back the bits that an absolute stamp lacks, if the time
\* before it is less than 2^AbsBits earlier.
LEMMA FixAbs ==
  ASSUME NEW s \in Nat, NEW t \in Nat, s <= t, t - s < 2^AbsBits,
         s < 2^AbsBits => t < 2^AbsBits
  PROVE  rb_fix_abs_ts(t % 2^AbsBits, s) = t
<1>1. PICK M \in Nat : M = 2^AbsBits /\ M > 0
  BY WidthAssumption
<1>. DEFINE qs == s \div M
            rs == s % M
            qt == t \div M
            rt == t % M
<1>2. qs \in Nat /\ rs \in 0..(M - 1) /\ s = M * qs + rs
  BY <1>1, Remainder
<1>3. qt \in Nat /\ rt \in 0..(M - 1) /\ t = M * qt + rt
  BY <1>1, Remainder
<1>4. MSB(s) = s - rs
  BY <1>1 DEF MSB
<1>. HIDE DEF qs, rs, qt, rt
<1>5. qt = qs \/ qt = qs + 1
  <2>1. ASSUME qt < qs PROVE FALSE
    <3>1. PICK k \in Nat : qs = qt + 1 + k
      BY <1>2, <1>3, <2>1
    <3>2. M * qs = M * qt + M + M * k /\ M * k \in Nat /\ M * qt \in Nat
      BY <1>1, <1>3, <3>1
    <3>. QED
      BY <1>1, <1>2, <1>3, <3>2
  <2>2. ASSUME qt > qs + 1 PROVE FALSE
    <3>1. PICK k \in Nat : qt = qs + 2 + k
      BY <1>2, <1>3, <2>2
    <3>2. M * qt = M * qs + M + M + M * k /\ M * k \in Nat /\ M * qs \in Nat
      BY <1>1, <1>2, <3>1
    <3>. QED
      BY <1>1, <1>2, <1>3, <3>2
  <2>. QED
    BY <1>2, <1>3, <2>1, <2>2
<1>6. PICK c \in Nat : c = M * qs
  BY <1>1, <1>2
<1>7. M * qt = c \/ M * qt = c + M
  BY <1>1, <1>2, <1>5, <1>6
<1>8. MSB(s) = c
  BY <1>1, <1>2, <1>4, <1>6
<1>9. c = 0 \/ c >= M
  <2>1. CASE qs = 0
    BY <1>1, <1>6, <2>1
  <2>2. CASE qs # 0
    <3>1. PICK k \in Nat : qs = k + 1
      BY <1>2, <2>2
    <3>2. M * qs = M * k + M /\ M * k \in Nat
      BY <1>1, <3>1
    <3>. QED
      BY <1>1, <1>6, <3>2
  <2>. QED
    BY <2>1, <2>2
<1>10. rb_fix_abs_ts(rt, s) = t
  <2>1. CASE c = 0
    <3>1. s < M
      BY <1>1, <1>2, <1>6, <2>1
    <3>2. t < M
      BY <1>1, <3>1
    <3>3. M * qt = 0
      BY <1>1, <1>3, <1>7, <2>1, <3>2
    <3>. QED
      BY <1>1, <1>3, <1>8, <2>1, <3>3 DEF rb_fix_abs_ts
  <2>2. CASE c # 0 /\ M * qt = c
    <3>1. t = c + rt /\ ~(rt + c < s)
      BY <1>2, <1>3, <1>6, <2>2
    <3>. QED
      BY <1>3, <1>6, <1>8, <2>2, <3>1 DEF rb_fix_abs_ts
  <2>3. CASE c # 0 /\ M * qt = c + M
    <3>1. t = c + M + rt /\ rt + c < s
      BY <1>1, <1>2, <1>3, <1>6, <2>3
    <3>. QED
      BY <1>1, <1>3, <1>6, <1>8, <2>3, <3>1 DEF rb_fix_abs_ts
  <2>. QED
    BY <1>7, <2>1, <2>2, <2>3
<1>. QED
  BY <1>1, <1>10 DEF rt

\* One more record.
LEMMA TimedAppend ==
  ASSUME NEW rec \in Seq(Rec), NEW ts \in Nat, NEW t, Timed(rec, ts, t),
         NEW r \in Rec, Advance(t, r) \in Nat,
         r.e # 0 => Advance(t, r) = TimeOf[r.e]
  PROVE  Timed(Append(rec, r), ts, Advance(t, r))
<1>1. PICK T : IsTimes(T, rec, ts) /\ T[Len(rec)] = t
  BY DEF Timed
<1>. DEFINE n == Len(rec)
            a == Advance(t, r)
            U == [i \in 0..(n + 1) |-> IF i = n + 1 THEN a ELSE T[i]]
            new == Append(rec, r)
<1>2. n \in Nat /\ Len(new) = n + 1 /\ new[n + 1] = r /\ \A i \in 1..n : new[i] = rec[i]
  OBVIOUS
<1>3. a \in Nat /\ (r.e # 0 => a = TimeOf[r.e]) /\ a = Advance(T[n], r)
  BY <1>1
<1>. HIDE DEF n, a, new
<1>4. U \in [0..(n + 1) -> Nat] /\ U[0] = ts
  BY <1>1, <1>2, <1>3 DEF IsTimes, n
<1>5. ASSUME NEW i \in 1..(n + 1)
      PROVE  U[i] = Advance(U[i - 1], new[i]) /\ (new[i].e # 0 => U[i] = TimeOf[new[i].e])
  <2>1. CASE i = n + 1
    <3>1. U[i] = a /\ U[i - 1] = T[n] /\ new[i] = r
      BY <1>2, <2>1
    <3>. QED
      BY <1>3, <3>1
  <2>2. CASE i # n + 1
    <3>1. i \in 1..n /\ U[i] = T[i] /\ U[i - 1] = T[i - 1] /\ new[i] = rec[i]
      BY <1>2, <2>2
    <3>. QED
      BY <1>1, <3>1 DEF IsTimes, n
  <2>. QED
    BY <2>1, <2>2
<1>. HIDE DEF U
<1>6. IsTimes(U, new, ts)
  BY <1>2, <1>4, <1>5 DEF IsTimes
<1>7. U[Len(new)] = a
  BY <1>2 DEF U
<1>8. Timed(new, ts, a)
  BY <1>6, <1>7 DEF Timed
<1>. QED
  BY <1>8 DEF new, a

\* No records, no time.
LEMMA TimedEmpty ==
  ASSUME NEW ts \in Nat
  PROVE  Timed(<<>>, ts, ts)
<1>. DEFINE T == [i \in 0..0 |-> ts]
<1>1. IsTimes(T, <<>>, ts) /\ T[Len(<<>>)] = ts
  BY DEF IsTimes
<1>. QED
  BY <1>1 DEF Timed

-----------------------------------------------------------------------------
(* Records.                                                                *)

\* What is assumed of the clock and of the sizes.
LEMMA Clock ==
  /\ MaxEvents \in Nat
  /\ PageSize \in Nat /\ PageSize >= 28 /\ RingPages \in Nat /\ RingPages > 0
  /\ \A i \in 1..MaxEvents : TimeOf[i] \in Nat
  /\ \A i, j \in 1..MaxEvents : i < j =>
       /\ TimeOf[i] < TimeOf[j]
       /\ TimeOf[j] - TimeOf[i] < 2^AbsBits
       /\ TimeOf[i] < 2^AbsBits => TimeOf[j] < 2^AbsBits
<1>1. TimeOf \in Seq(Nat)
  BY SizeAssumption
<1>2. MaxEvents \in Nat /\ DOMAIN TimeOf = 1..MaxEvents
  BY <1>1 DEF MaxEvents
<1>3. \A i \in 1..MaxEvents : TimeOf[i] \in Nat
  BY <1>1, <1>2
<1>4. \A i, j \in 1..MaxEvents : i < j => TimeOf[i] < TimeOf[j]
  BY <1>2, SizeAssumption
<1>5. \A i, j \in 1..MaxEvents :
        /\ TimeOf[j] - TimeOf[i] < 2^AbsBits
        /\ TimeOf[i] < 2^AbsBits => TimeOf[j] < 2^AbsBits
  BY <1>2, ClockAssumption
<1>6. PageSize \in Nat /\ PageSize >= 28 /\ RingPages \in Nat /\ RingPages > 0
  BY SizeAssumption
<1>. QED
  BY <1>2, <1>3, <1>4, <1>5, <1>6

\* The time that a pair of header and word stands for.
LEMMA StampSplit ==
  ASSUME NEW d \in Nat
  PROVE  /\ d % 2^TS_SHIFT \in Nat /\ d \div 2^TS_SHIFT \in Nat
         /\ (d \div 2^TS_SHIFT) * 2^TS_SHIFT + (d % 2^TS_SHIFT) = d
<1>1. PICK M \in Nat : M = 2^TS_SHIFT /\ M > 0
  BY WidthAssumption
<1>2. d \div M \in Nat /\ d % M \in 0..(M - 1) /\ d = M * (d \div M) + (d % M)
  BY <1>1, Remainder
<1>3. M * (d \div M) = (d \div M) * M
  BY <1>1, <1>2
<1>. QED
  BY <1>1, <1>2, <1>3

LEMMA RecordType ==
  ASSUME NEW type \in 0..31, NEW delta \in Nat, NEW word \in Nat, NEW at \in Nat,
         NEW e \in 0..MaxEvents
  PROVE  /\ Record(type, delta, word, at, e) \in Rec
         /\ Record(type, delta, word, at, e).type_len = type
         /\ Record(type, delta, word, at, e).time_delta = delta
         /\ Record(type, delta, word, at, e).array = word
         /\ Record(type, delta, word, at, e).at = at
         /\ Record(type, delta, word, at, e).e = e
  BY DEF Record, Rec

EventsIn(rec) == {rec[i].e : i \in DOMAIN rec} \ {0}

\* One more record at the end.
LEMMA AppendOK ==
  ASSUME NEW rec \in Seq(Rec), DataOnly(rec), Ordered(rec), NEW r \in Rec,
         r.e # 0 <=> r.type_len \in RINGBUF_TYPE_DATA,
         \A x \in EventsIn(rec) : r.e # 0 => x < r.e
  PROVE  /\ Append(rec, r) \in Seq(Rec)
         /\ DataOnly(Append(rec, r))
         /\ Ordered(Append(rec, r))
         /\ EventsIn(Append(rec, r)) = EventsIn(rec) \cup ({r.e} \ {0})
<1>. DEFINE n == Len(rec)
            new == Append(rec, r)
<1>1. /\ n \in Nat /\ DOMAIN rec = 1..n /\ DOMAIN new = 1..(n + 1)
      /\ new \in Seq(Rec) /\ new[n + 1] = r /\ \A i \in 1..n : new[i] = rec[i]
  OBVIOUS
<1>2. \A i \in 1..n : rec[i].e # 0 => rec[i].e \in EventsIn(rec)
  BY <1>1 DEF EventsIn
<1>. HIDE DEF n, new
<1>3. DataOnly(new)
  BY <1>1 DEF DataOnly
<1>4. Ordered(new)
  <2>. SUFFICES ASSUME NEW i \in 1..(n + 1), NEW j \in 1..(n + 1), i < j,
                       new[i].e # 0, new[j].e # 0
                PROVE  new[i].e < new[j].e
    BY <1>1 DEF Ordered
  <2>1. i \in 1..n
    BY <1>1
  <2>2. CASE j = n + 1
    BY <1>1, <1>2, <2>1, <2>2
  <2>3. CASE j # n + 1
    <3>1. j \in 1..n
      BY <1>1, <2>3
    <3>. QED
      BY <1>1, <2>1, <3>1 DEF Ordered
  <2>. QED
    BY <2>2, <2>3
<1>5. EventsIn(new) = EventsIn(rec) \cup ({r.e} \ {0})
  BY <1>1 DEF EventsIn
<1>. QED
  BY <1>1, <1>3, <1>4, <1>5 DEF new

\* The lengths of the records that the ring buffer makes.
LEMMA Lengths ==
  ASSUME NEW r \in Rec
  PROVE  /\ r.type_len = 4 => rb_event_length(r) = 20
         /\ r.type_len \in {30, 31} => rb_event_length(r) = 8
         /\ r.type_len = 29 /\ r.time_delta = 1 => rb_event_length(r) = r.array + 4
<1>. USE DEF RINGBUF_TYPE_PADDING, RINGBUF_TYPE_TIME_EXTEND, RINGBUF_TYPE_TIME_STAMP,
             RINGBUF_TYPE_DATA, RB_EVNT_HDR_SIZE, RB_LEN_TIME_EXTEND, RB_LEN_TIME_STAMP,
             RB_ALIGNMENT
<1>1. r.type_len = 4 => rb_event_length(r) = 20
  BY DEF rb_event_length, rb_null_event, rb_event_data_length
<1>2. r.type_len \in {30, 31} => rb_event_length(r) = 8
  BY DEF rb_event_length, rb_null_event
<1>3. r.type_len = 29 /\ r.time_delta = 1 => rb_event_length(r) = r.array + 4
  BY DEF rb_event_length, rb_null_event
<1>. QED
  BY <1>1, <1>2, <1>3

\* One more record, where the last one ends.
LEMMA PlacedAppend ==
  ASSUME NEW rec \in Seq(Rec), NEW end \in Nat, Placed(rec, end),
         NEW r \in Rec, r.at = end,
         NEW n \in Nat, n > 0, rb_event_length(r) = n
  PROVE  Placed(Append(rec, r), end + n)
<1>. DEFINE m == Len(rec)
            new == Append(rec, r)
<1>1. /\ m \in Nat /\ Len(new) = m + 1 /\ new[m + 1] = r /\ \A i \in 1..m : new[i] = rec[i]
      /\ \A i \in 1..m : rec[i] \in Rec
  OBVIOUS
<1>2. \A i \in 1..m : rec[i].at \in Nat
  BY <1>1 DEF Rec
<1>. HIDE DEF m, new
<1>3. ASSUME NEW i \in 1..(m + 1)
      PROVE  /\ new[1].at <= new[i].at /\ new[i].at < end + n
             /\ new[i].at + rb_event_length(new[i]) =
                  IF i = m + 1 THEN end + n ELSE new[i + 1].at
  <2>1. CASE i = m + 1
    <3>1. new[1].at <= end
      <4>1. CASE m = 0
        BY <1>1, <4>1
      <4>2. CASE m # 0
        <5>1. 1 \in 1..m
          BY <1>1, <4>2
        <5>. QED
          BY <1>1, <1>2, <5>1 DEF Placed, m
      <4>. QED
        BY <4>1, <4>2
    <3>. QED
      BY <1>1, <2>1, <3>1
  <2>2. CASE i # m + 1
    <3>1. i \in 1..m /\ 1 \in 1..m
      BY <1>1, <2>2
    <3>2. new[i] = rec[i] /\ new[1] = rec[1]
      BY <1>1, <3>1
    <3>3. /\ rec[1].at <= rec[i].at /\ rec[i].at < end
          /\ rec[i].at + rb_event_length(rec[i]) = IF i = m THEN end ELSE rec[i + 1].at
      BY <3>1 DEF Placed, m
    <3>4. new[i + 1].at = IF i = m THEN end ELSE rec[i + 1].at
      <4>1. CASE i = m
        BY <1>1, <4>1
      <4>2. CASE i # m
        <5>1. i + 1 \in 1..m
          BY <1>1, <3>1, <4>2
        <5>. QED
          BY <1>1, <4>2, <5>1
      <4>. QED
        BY <4>1, <4>2
    <3>5. rec[i].at < end + n
      BY <1>2, <3>1, <3>3
    <3>. QED
      BY <2>2, <3>2, <3>3, <3>4, <3>5
  <2>. QED
    BY <2>1, <2>2
<1>4. Placed(new, end + n)
  BY <1>1, <1>3 DEF Placed
<1>. QED
  BY <1>4 DEF new

LEMMA PlacedEmpty == \A end : Placed(<<>>, end)
<1>1. \A i \in 1..Len(<<>>) : FALSE
  OBVIOUS
<1>. QED
  BY <1>1 DEF Placed

LEMMA LengthType ==
  ASSUME NEW r \in Rec
  PROVE  rb_event_length(r) \in Int
<1>1. r.type_len \in 0..31 /\ r.array \in Nat
  BY DEF Rec
<1>2. 2^30 \in Int
  OBVIOUS
<1>. QED
  BY <1>1, <1>2 DEF rb_event_length, rb_null_event, rb_event_data_length, Undefined,
     RINGBUF_TYPE_PADDING, RINGBUF_TYPE_TIME_EXTEND, RINGBUF_TYPE_TIME_STAMP,
     RINGBUF_TYPE_DATA, RB_EVNT_HDR_SIZE, RB_LEN_TIME_EXTEND, RB_LEN_TIME_STAMP,
     RB_ALIGNMENT

LEMMA ConcatOne ==
  ASSUME NEW rec \in Seq(Rec), NEW x \in Rec
  PROVE  rec \o <<x>> = Append(rec, x)
  OBVIOUS

LEMMA ConcatTwo ==
  ASSUME NEW rec \in Seq(Rec), NEW x \in Rec, NEW y \in Rec
  PROVE  rec \o <<x, y>> = Append(Append(rec, x), y)
<1>. DEFINE n == Len(rec)
            one == Append(rec, x)
            a == rec \o <<x, y>>
            b == Append(one, y)
<1>1. one \in Seq(Rec) /\ Len(one) = n + 1 /\ one[n + 1] = x /\ n \in Nat
      /\ \A i \in 1..n : one[i] = rec[i]
  OBVIOUS
<1>2. <<x, y>> \in Seq(Rec) /\ Len(<<x, y>>) = 2 /\ <<x, y>>[1] = x /\ <<x, y>>[2] = y
  OBVIOUS
<1>3. /\ a \in Seq(Rec) /\ Len(a) = n + 2 /\ a[n + 1] = x /\ a[n + 2] = y
      /\ \A i \in 1..n : a[i] = rec[i]
  BY <1>2
<1>. HIDE DEF one
<1>4. /\ b \in Seq(Rec) /\ Len(b) = n + 2 /\ b[n + 2] = y
      /\ \A i \in 1..(n + 1) : b[i] = one[i]
  BY <1>1
<1>. HIDE DEF a, b, n
<1>5. \A i \in 1..Len(a) : a[i] = b[i]
  BY <1>1, <1>3, <1>4
<1>6. a = b
  BY <1>1, <1>3, <1>4, <1>5, SeqEqual
<1>. QED
  BY <1>6 DEF a, b, one

-----------------------------------------------------------------------------
(* Pages.                                                                  *)

\* t is the time before the records of event e: the time of the event itself,
\* when a page starts with it, or that of an earlier one.
Precedes(t, e, d) ==
  /\ t \in Nat /\ d \in Nat
  /\ t + d = TimeOf[e]
  /\ \/ t = TimeOf[e]
     \/ \E j \in 1..(e - 1) : t = TimeOf[j]

\* An absolute stamp.
LEMMA AbsoluteStamp ==
  ASSUME NEW t, NEW e \in 1..MaxEvents, NEW d, Precedes(t, e, d)
  PROVE  rb_fix_abs_ts(TimeOf[e] % 2^AbsBits, t) = TimeOf[e]
<1>1. t \in Nat /\ TimeOf[e] \in Nat /\ 2^AbsBits > 0 /\ 2^AbsBits \in Nat
  BY Clock, WidthAssumption DEF Precedes
<1>2. CASE t = TimeOf[e]
  <2>1. t - t < 2^AbsBits /\ t <= t
    BY <1>1
  <2>. QED
    BY <1>1, <1>2, <2>1, FixAbs
<1>3. ASSUME NEW j \in 1..(e - 1), t = TimeOf[j]
      PROVE  rb_fix_abs_ts(TimeOf[e] % 2^AbsBits, t) = TimeOf[e]
  <2>1. j \in 1..MaxEvents /\ j < e
    BY Clock
  <2>2. /\ TimeOf[j] < TimeOf[e] /\ TimeOf[e] - TimeOf[j] < 2^AbsBits
        /\ TimeOf[j] < 2^AbsBits => TimeOf[e] < 2^AbsBits
    BY <2>1, Clock
  <2>3. t <= TimeOf[e]
    BY <1>1, <1>3, <2>2
  <2>. QED
    BY <1>1, <1>3, <2>2, <2>3, FixAbs
<1>. QED
  BY <1>2, <1>3 DEF Precedes

\* A record for the time of event e only, at the byte at.
IsTimeOf(x, t, e, at) ==
  /\ x \in Rec /\ x.e = 0 /\ x.type_len \in {30, 31} /\ x.at = at
  /\ Advance(t, x) = TimeOf[e]

\* The record of event e.
IsDataOf(y, t, e, at) ==
  /\ y \in Rec /\ y.e = e /\ y.type_len = 4 /\ y.at = at
  /\ Advance(t, y) = TimeOf[e]

OneRecord(r, t, e, at) == \E y : r = <<y>> /\ IsDataOf(y, t, e, at)

TwoRecords(r, t, e, at) ==
  \E x, y : r = <<x, y>> /\ IsTimeOf(x, t, e, at) /\ IsDataOf(y, TimeOf[e], e, at + 8)

\* An event is one record, or two of which the first is for its time.
LEMMA RecordsAre ==
  ASSUME NEW t, NEW e \in 1..MaxEvents, NEW d, NEW at \in Nat, Precedes(t, e, d)
  PROVE  OneRecord(Records(e, d, at), t, e, at) \/ TwoRecords(Records(e, d, at), t, e, at)
<1>. DEFINE abs == TimeOf[e] % 2^AbsBits
            Abs == Record(31, abs % 2^TS_SHIFT, abs \div 2^TS_SHIFT, at, 0)
            Ext == Record(30, d % 2^TS_SHIFT, d \div 2^TS_SHIFT, at, 0)
            Late == Record(4, 0, 0, at + 8, e)
            Data == Record(4, d, 0, at, e)
<1>1. TimeOf[e] \in Nat /\ d \in Nat /\ t \in Nat /\ t + d = TimeOf[e] /\ e \in 0..MaxEvents
  BY Clock DEF Precedes
<1>2. abs \in Nat
  <2>1. PICK M \in Nat : M = 2^AbsBits /\ M > 0
    BY WidthAssumption
  <2>. QED
    BY <1>1, <2>1, Remainder
<1>3. Records(e, d, at) \in { <<Abs, Late>>, <<Ext, Late>>, <<Data>> }
  <2>1. EventSize \div RB_ALIGNMENT = 4
    BY DEF EventSize, RB_ALIGNMENT
  <2>. QED
    BY <2>1 DEF Records, RINGBUF_TYPE_TIME_STAMP, RINGBUF_TYPE_TIME_EXTEND
<1>4. IsTimeOf(Abs, t, e, at)
  <2>1. abs % 2^TS_SHIFT \in Nat /\ abs \div 2^TS_SHIFT \in Nat
        /\ (abs \div 2^TS_SHIFT) * 2^TS_SHIFT + (abs % 2^TS_SHIFT) = abs
    BY <1>2, StampSplit
  <2>2. /\ Abs \in Rec /\ Abs.e = 0 /\ Abs.type_len = 31 /\ Abs.at = at
        /\ Abs.array = abs \div 2^TS_SHIFT /\ Abs.time_delta = abs % 2^TS_SHIFT
    <3>1. 0 \in 0..MaxEvents /\ 31 \in 0..31
      BY Clock
    <3>2. PICK lo \in Nat, hi \in Nat : lo = abs % 2^TS_SHIFT /\ hi = abs \div 2^TS_SHIFT
      BY <2>1
    <3>3. Abs = Record(31, lo, hi, at, 0)
      BY <3>2
    <3>. HIDE DEF abs, Abs
    <3>4. /\ Abs \in Rec /\ Abs.e = 0 /\ Abs.type_len = 31 /\ Abs.at = at
          /\ Abs.array = hi /\ Abs.time_delta = lo
      BY <3>1, <3>3 DEF Record, Rec
    <3>. QED
      BY <3>2, <3>4
  <2>3. rb_event_time_stamp(Abs) = abs
    BY <2>1, <2>2 DEF rb_event_time_stamp
  <2>4. rb_fix_abs_ts(abs, t) = TimeOf[e]
    BY AbsoluteStamp
  <2>. HIDE DEF Abs, abs
  <2>5. Advance(t, Abs) = rb_fix_abs_ts(abs, t)
    BY <2>2, <2>3 DEF Advance, RINGBUF_TYPE_TIME_EXTEND, RINGBUF_TYPE_TIME_STAMP
  <2>. QED
    BY <2>2, <2>4, <2>5 DEF IsTimeOf
<1>5. IsTimeOf(Ext, t, e, at)
  <2>1. d % 2^TS_SHIFT \in Nat /\ d \div 2^TS_SHIFT \in Nat
        /\ (d \div 2^TS_SHIFT) * 2^TS_SHIFT + (d % 2^TS_SHIFT) = d
    BY <1>1, StampSplit
  <2>2. /\ Ext \in Rec /\ Ext.e = 0 /\ Ext.type_len = 30 /\ Ext.at = at
        /\ Ext.array = d \div 2^TS_SHIFT /\ Ext.time_delta = d % 2^TS_SHIFT
    <3>1. 0 \in 0..MaxEvents /\ 30 \in 0..31
      BY Clock
    <3>2. PICK lo \in Nat, hi \in Nat : lo = d % 2^TS_SHIFT /\ hi = d \div 2^TS_SHIFT
      BY <2>1
    <3>3. Ext = Record(30, lo, hi, at, 0)
      BY <3>2
    <3>. HIDE DEF Ext
    <3>4. /\ Ext \in Rec /\ Ext.e = 0 /\ Ext.type_len = 30 /\ Ext.at = at
          /\ Ext.array = hi /\ Ext.time_delta = lo
      BY <3>1, <3>3 DEF Record, Rec
    <3>. QED
      BY <3>2, <3>4
  <2>3. rb_event_time_stamp(Ext) = d
    BY <2>1, <2>2 DEF rb_event_time_stamp
  <2>. HIDE DEF Ext
  <2>4. Advance(t, Ext) = t + d
    BY <2>2, <2>3 DEF Advance, RINGBUF_TYPE_TIME_EXTEND, RINGBUF_TYPE_TIME_STAMP
  <2>. QED
    BY <1>1, <2>2, <2>4 DEF IsTimeOf
<1>6. IsDataOf(Late, TimeOf[e], e, at + 8) /\ IsDataOf(Data, t, e, at)
  <2>1. /\ Late \in Rec /\ Late.e = e /\ Late.type_len = 4 /\ Late.time_delta = 0
        /\ Data \in Rec /\ Data.e = e /\ Data.type_len = 4 /\ Data.time_delta = d
        /\ Late.at = at + 8 /\ Data.at = at
    <3>1. 4 \in 0..31 /\ 0 \in Nat /\ at + 8 \in Nat
      OBVIOUS
    <3>2. /\ Late \in Rec /\ Late.e = e /\ Late.type_len = 4 /\ Late.time_delta = 0
          /\ Late.at = at + 8
      BY <1>1, <3>1 DEF Record, Rec
    <3>3. /\ Data \in Rec /\ Data.e = e /\ Data.type_len = 4 /\ Data.time_delta = d
          /\ Data.at = at
      BY <1>1, <3>1 DEF Record, Rec
    <3>. QED
      BY <3>2, <3>3
  <2>. HIDE DEF Late, Data
  <2>2. Advance(TimeOf[e], Late) = TimeOf[e] + 0 /\ Advance(t, Data) = t + d
    BY <2>1 DEF Advance, RINGBUF_TYPE_TIME_EXTEND, RINGBUF_TYPE_TIME_STAMP
  <2>. QED
    BY <1>1, <2>1, <2>2 DEF IsDataOf
<1>. HIDE DEF Abs, Ext, Late, Data
<1>. QED
  BY <1>3, <1>4, <1>5, <1>6 DEF OneRecord, TwoRecords

\* The bytes that an event takes.
SizeOf(rec) == EventSize + RB_EVNT_HDR_SIZE + 8 * (Len(rec) - 1)

\* The records of an event follow those before, add the event and lead to its time.
LEMMA RecordsOK ==
  ASSUME NEW rec \in Seq(Rec), NEW ts \in Nat, NEW t, Timed(rec, ts, t),
         DataOnly(rec), Ordered(rec),
         NEW e \in 1..MaxEvents, NEW d, NEW at \in Nat, Precedes(t, e, d),
         Placed(rec, at),
         \A x \in EventsIn(rec) : x < e
  PROVE  /\ Records(e, d, at) \in Seq(Rec)
         /\ Len(Records(e, d, at)) \in {1, 2}
         /\ rec \o Records(e, d, at) \in Seq(Rec)
         /\ DataOnly(rec \o Records(e, d, at))
         /\ Ordered(rec \o Records(e, d, at))
         /\ Timed(rec \o Records(e, d, at), ts, TimeOf[e])
         /\ EventsIn(rec \o Records(e, d, at)) = EventsIn(rec) \cup {e}
         /\ Placed(rec \o Records(e, d, at), at + SizeOf(Records(e, d, at)))
<1>1. TimeOf[e] \in Nat /\ e # 0
  BY Clock
<1>2. ASSUME NEW s, NEW r \in Seq(Rec), NEW y, DataOnly(r), Ordered(r), Timed(r, ts, s),
             EventsIn(r) = EventsIn(rec), NEW pos \in Nat, Placed(r, pos), IsDataOf(y, s, e, pos)
      PROVE  /\ Append(r, y) \in Seq(Rec)
             /\ DataOnly(Append(r, y)) /\ Ordered(Append(r, y))
             /\ Timed(Append(r, y), ts, TimeOf[e])
             /\ EventsIn(Append(r, y)) = EventsIn(rec) \cup {e}
             /\ Placed(Append(r, y), pos + 20)
  <2>1. /\ y \in Rec /\ y.e = e /\ Advance(s, y) = TimeOf[e]
        /\ y.type_len \in RINGBUF_TYPE_DATA
    BY <1>2 DEF IsDataOf, RINGBUF_TYPE_DATA
  <2>2. Timed(Append(r, y), ts, TimeOf[e])
    BY <1>1, <1>2, <2>1, TimedAppend
  <2>3. /\ Append(r, y) \in Seq(Rec)
        /\ DataOnly(Append(r, y)) /\ Ordered(Append(r, y))
        /\ EventsIn(Append(r, y)) = EventsIn(r) \cup ({y.e} \ {0})
    BY <1>1, <1>2, <2>1, AppendOK
  <2>4. y.at = pos /\ rb_event_length(y) = 20
    BY <1>2, <2>1, Lengths DEF IsDataOf
  <2>5. Placed(Append(r, y), pos + 20)
    BY <1>2, <2>1, <2>4, PlacedAppend
  <2>. QED
    BY <1>1, <1>2, <2>1, <2>2, <2>3, <2>5
<1>3. CASE OneRecord(Records(e, d, at), t, e, at)
  <2>1. PICK y : Records(e, d, at) = <<y>> /\ IsDataOf(y, t, e, at)
    BY <1>3 DEF OneRecord
  <2>2. y \in Rec
    BY <2>1 DEF IsDataOf
  <2>3. rec \o <<y>> = Append(rec, y) /\ <<y>> \in Seq(Rec) /\ Len(<<y>>) = 1
    BY <2>2, ConcatOne
  <2>4. at + SizeOf(<<y>>) = at + 20
    BY <2>3 DEF SizeOf, EventSize, RB_EVNT_HDR_SIZE
  <2>. QED
    BY <1>2, <2>1, <2>3, <2>4
<1>4. CASE TwoRecords(Records(e, d, at), t, e, at)
  <2>1. PICK x, y : /\ Records(e, d, at) = <<x, y>>
                    /\ IsTimeOf(x, t, e, at) /\ IsDataOf(y, TimeOf[e], e, at + 8)
    BY <1>4 DEF TwoRecords
  <2>2. /\ y \in Rec /\ x \in Rec /\ x.e = 0 /\ x.type_len \notin RINGBUF_TYPE_DATA
        /\ Advance(t, x) = TimeOf[e] /\ x.at = at
    <3>1. IsTimeOf(x, t, e, at) /\ IsDataOf(y, TimeOf[e], e, at + 8)
      BY <2>1
    <3>2. \A n \in {30, 31} : n \notin RINGBUF_TYPE_DATA
      BY DEF RINGBUF_TYPE_DATA
    <3>. QED
      BY <3>1, <3>2, Zenon DEF IsDataOf, IsTimeOf
  <2>3. rec \o <<x, y>> = Append(Append(rec, x), y) /\ <<x, y>> \in Seq(Rec) /\ Len(<<x, y>>) = 2
    BY <2>2, ConcatTwo
  <2>4. Timed(Append(rec, x), ts, TimeOf[e])
    BY <1>1, <2>2, TimedAppend
  <2>5. /\ Append(rec, x) \in Seq(Rec)
        /\ DataOnly(Append(rec, x)) /\ Ordered(Append(rec, x))
        /\ EventsIn(Append(rec, x)) = EventsIn(rec) \cup ({x.e} \ {0})
    BY <2>2, AppendOK
  <2>6. EventsIn(Append(rec, x)) = EventsIn(rec)
    BY <2>2, <2>5
  <2>7. PICK one : one = Append(rec, x)
    OBVIOUS
  <2>9. Placed(one, at + 8) /\ at + 8 \in Nat
    <3>1. rb_event_length(x) = 8
      BY <2>1, <2>2, Lengths DEF IsTimeOf
    <3>2. 8 \in Nat /\ 8 > 0
      OBVIOUS
    <3>. QED
      BY <2>2, <2>7, <3>1, <3>2, PlacedAppend
  <2>10. at + SizeOf(<<x, y>>) = (at + 8) + 20
    BY <2>3 DEF SizeOf, EventSize, RB_EVNT_HDR_SIZE
  <2>8. /\ Append(one, y) \in Seq(Rec)
        /\ DataOnly(Append(one, y)) /\ Ordered(Append(one, y))
        /\ Timed(Append(one, y), ts, TimeOf[e])
        /\ EventsIn(Append(one, y)) = EventsIn(rec) \cup {e}
        /\ Placed(Append(one, y), (at + 8) + 20)
    BY <1>2, <2>1, <2>4, <2>5, <2>6, <2>7, <2>9
  <2>. QED
    BY <2>1, <2>3, <2>7, <2>8, <2>10
<1>. QED
  BY <1>3, <1>4, RecordsAre

LEMMA EventsOfPage == \A p : Events(p) = EventsIn(p.rec)
  BY DEF Events, EventsIn

LEMMA PageFields ==
  ASSUME NEW p, PageOK(p)
  PROVE  /\ p \in Page
         /\ p.used \in Nat /\ p.used <= PageSize
         /\ p.ts \in Nat /\ p.rec \in Seq(Rec)
         /\ p.gap \in BOOLEAN /\ p.out \in BOOLEAN
         /\ DataOnly(p.rec) /\ Ordered(p.rec) /\ Placed(p.rec, p.used)
  BY Clock DEF PageOK, Page

\* The rest of a page is filled.
LEMMA PaddedOK ==
  ASSUME NEW p, PageOK(p)
  PROVE  /\ PageOK(Padded(p))
         /\ Padded(p).ts = p.ts /\ Padded(p).out = p.out
         /\ EventsIn(Padded(p).rec) = EventsIn(p.rec)
<1>1. CASE PageSize - p.used < 8
  BY <1>1 DEF Padded
<1>2. CASE ~(PageSize - p.used < 8)
  <2>. DEFINE r == Record(29, 1, PageSize - p.used - 4, p.used, 0)
              new == Append(p.rec, r)
  <2>1. /\ p.used \in Nat /\ p.used <= PageSize /\ PageSize \in Nat /\ MaxEvents \in Nat
        /\ p.rec \in Seq(Rec) /\ p.ts \in Nat /\ p.gap \in BOOLEAN /\ p.out \in BOOLEAN
        /\ DataOnly(p.rec) /\ Ordered(p.rec) /\ Placed(p.rec, p.used)
    BY PageFields, Clock DEF PageOK
  <2>2. PICK word \in Nat : word = PageSize - p.used - 4
    BY <1>2, <2>1
  <2>3. /\ r \in Rec /\ r.e = 0 /\ r.type_len = 29 /\ r.time_delta = 1
        /\ r.at = p.used /\ r.array = PageSize - p.used - 4
    BY <2>1, <2>2 DEF Record, Rec
  <2>4. PICK end \in Nat : Timed(p.rec, p.ts, end)
    BY DEF PageOK
  <2>5. Padded(p) = [p EXCEPT !.used = PageSize, !.rec = new]
    BY <1>2 DEF Padded, RINGBUF_TYPE_PADDING, RB_EVNT_HDR_SIZE
  <2>. HIDE DEF r
  <2>6. Advance(end, r) = end + 1
    BY <2>3 DEF Advance, RINGBUF_TYPE_TIME_EXTEND, RINGBUF_TYPE_TIME_STAMP
  <2>7. Timed(new, p.ts, end + 1) /\ end + 1 \in Nat
    <3>1. Advance(end, r) \in Nat /\ (r.e # 0 => Advance(end, r) = TimeOf[r.e])
      BY <2>3, <2>6
    <3>2. Timed(new, p.ts, Advance(end, r))
      BY <2>1, <2>3, <2>4, <3>1, TimedAppend
    <3>. QED
      BY <2>6, <3>2
  <2>8. r.type_len \notin RINGBUF_TYPE_DATA
    BY <2>3 DEF RINGBUF_TYPE_DATA
  <2>9. /\ new \in Seq(Rec) /\ DataOnly(new) /\ Ordered(new)
        /\ EventsIn(new) = EventsIn(p.rec) \cup ({r.e} \ {0})
    BY <2>1, <2>3, <2>8, AppendOK
  <2>10. EventsIn(new) = EventsIn(p.rec)
    BY <2>3, <2>9
  <2>11. PageSize \in 0..PageSize
    BY <2>1
  <2>15. Placed(new, PageSize)
    <3>1. PICK k \in Nat : k = PageSize - p.used
      BY <1>2, <2>1
    <3>2. rb_event_length(r) = k /\ k > 0 /\ p.used + k = PageSize
      BY <1>2, <2>1, <2>3, <3>1, Lengths
    <3>3. Placed(new, p.used + k)
      BY <2>1, <2>3, <3>2, PlacedAppend
    <3>. QED
      BY <3>2, <3>3
  <2>. HIDE DEF new
  <2>12. PICK q : q = Padded(p)
    OBVIOUS
  <2>13. q \in Page /\ q.ts = p.ts /\ q.out = p.out /\ q.rec = new /\ q.used = PageSize
    <3>1. p \in Page
      BY PageFields
    <3>. QED
      BY <2>5, <2>9, <2>11, <2>12, <3>1 DEF Page
  <2>14. PageOK(q)
    BY <2>7, <2>9, <2>13, <2>15 DEF PageOK
  <2>. QED
    BY <2>10, <2>12, <2>13, <2>14
<1>. QED
  BY <1>1, <1>2

LEMMA SizeBound ==
  ASSUME NEW rec, Len(rec) \in {1, 2}
  PROVE  SizeOf(rec) \in Nat /\ SizeOf(rec) > 0 /\ SizeOf(rec) <= PageSize
<1>1. PageSize \in Nat /\ PageSize >= 28
  BY Clock
<1>2. SizeOf(rec) \in {20, 28}
  <2>1. CASE Len(rec) = 1
    BY <2>1 DEF SizeOf, EventSize, RB_EVNT_HDR_SIZE
  <2>2. CASE Len(rec) = 2
    BY <2>2 DEF SizeOf, EventSize, RB_EVNT_HDR_SIZE
  <2>. QED
    BY <2>1, <2>2
<1>. QED
  BY <1>1, <1>2

\* A new page, with event e only.
Started(new, e, size) ==
  /\ size = SizeOf(Records(e, 0, 0))
  /\ new = [EmptyPage EXCEPT !.used = size, !.ts = TimeOf[e], !.rec = Records(e, 0, 0)]

\* What is known of it.
StartedOK(new, e, size) ==
  /\ PageOK(new) /\ Timed(new.rec, new.ts, TimeOf[e])
  /\ new.used = size /\ new.ts = TimeOf[e] /\ new.out = FALSE
  /\ EventsIn(new.rec) = {e}

LEMMA NewPageOK ==
  ASSUME NEW e \in 1..MaxEvents, NEW size \in 1..PageSize, NEW new, Started(new, e, size)
  PROVE  StartedOK(new, e, size)
<1>. DEFINE rec == Records(e, 0, 0)
<1>0. size = SizeOf(rec) /\ new = [EmptyPage EXCEPT !.used = size, !.ts = TimeOf[e], !.rec = rec]
  BY DEF Started
<1>1. TimeOf[e] \in Nat /\ PageSize \in Nat /\ size \in 0..PageSize
  BY Clock
<1>2. Precedes(TimeOf[e], e, 0)
  BY <1>1 DEF Precedes
<1>3. Timed(<<>>, TimeOf[e], TimeOf[e])
  BY <1>1, TimedEmpty
<1>4. <<>> \in Seq(Rec) /\ DataOnly(<<>>) /\ Ordered(<<>>) /\ EventsIn(<<>>) = {}
  BY DEF DataOnly, Ordered, EventsIn
<1>5. /\ rec \in Seq(Rec) /\ DataOnly(rec) /\ Ordered(rec) /\ Timed(rec, TimeOf[e], TimeOf[e])
      /\ EventsIn(rec) = {e} /\ Placed(rec, size)
  <2>1. PICK none \in Seq(Rec), zero \in Nat : none = <<>> /\ zero = 0
    BY <1>4
  <2>2. /\ Timed(none, TimeOf[e], TimeOf[e]) /\ DataOnly(none) /\ Ordered(none)
        /\ EventsIn(none) = {} /\ Precedes(TimeOf[e], e, zero) /\ Placed(none, zero)
    BY <1>2, <1>3, <1>4, <2>1, PlacedEmpty
  <2>3. \A x \in EventsIn(none) : x < e
    BY <2>2
  <2>4. PICK r : r = Records(e, zero, zero)
    OBVIOUS
  <2>5. /\ r \in Seq(Rec) /\ DataOnly(none \o r) /\ Ordered(none \o r)
        /\ Timed(none \o r, TimeOf[e], TimeOf[e])
        /\ EventsIn(none \o r) = EventsIn(none) \cup {e}
        /\ Placed(none \o r, zero + SizeOf(r))
    BY <1>1, <2>2, <2>3, <2>4, RecordsOK
  <2>6. none \o r = r
    BY <2>1, <2>5, ConcatEmptySeq
  <2>7. r = rec
    BY <2>1, <2>4
  <2>8. zero + SizeOf(r) = size
    BY <1>0, <1>1, <2>1, <2>7
  <2>. QED
    BY <2>2, <2>5, <2>6, <2>7, <2>8
<1>. HIDE DEF rec
<1>6. new \in Page /\ new.used = size /\ new.ts = TimeOf[e] /\ new.out = FALSE /\ new.rec = rec
  BY <1>0, <1>1, <1>5 DEF EmptyPage, Page
<1>8. PageOK(new)
  BY <1>1, <1>5, <1>6 DEF PageOK
<1>. QED
  BY <1>5, <1>6, <1>8 DEF StartedOK, rec

\* q is the page p with event e, written after time s.
Extended(q, p, e, size, s) ==
  LET rec == Records(e, IF p.used = 0 THEN 0 ELSE TimeOf[e] - s, p.used)
  IN  /\ size = SizeOf(rec)
      /\ q = [p EXCEPT !.used = p.used + size,
                       !.ts = IF p.used = 0 THEN TimeOf[e] ELSE p.ts,
                       !.rec = p.rec \o rec]

\* The event e can follow those of page p, which were written up to time s.
Extendable(p, e, s) ==
  /\ PageOK(p)
  /\ \A x \in EventsIn(p.rec) : x < e
  /\ p.used = 0 => p.rec = <<>>
  /\ p.used # 0 => Timed(p.rec, p.ts, s) /\ s \in {TimeOf[j] : j \in 1..(e - 1)}

\* What is known of the page with the event.
ExtendedOK(q, p, e, size) ==
  /\ PageOK(q) /\ Timed(q.rec, q.ts, TimeOf[e])
  /\ q.ts \in {TimeOf[e], p.ts} /\ q.out = p.out
  /\ q.used = p.used + size
  /\ EventsIn(q.rec) = EventsIn(p.rec) \cup {e}

\* The page being written, with event e.
LEMMA ExtendOK ==
  ASSUME NEW p, NEW e \in 1..MaxEvents, NEW size \in Nat, NEW s \in Nat,
         Extendable(p, e, s), p.used + size <= PageSize,
         NEW q, Extended(q, p, e, size, s)
  PROVE  ExtendedOK(q, p, e, size)
<1>. DEFINE ts == IF p.used = 0 THEN TimeOf[e] ELSE p.ts
            t == IF p.used = 0 THEN TimeOf[e] ELSE s
<1>. USE DEF Extendable
<1>0. PICK d, rec : /\ d = IF p.used = 0 THEN 0 ELSE TimeOf[e] - s
                    /\ rec = Records(e, d, p.used) /\ size = SizeOf(rec)
                    /\ q = [p EXCEPT !.used = p.used + size,
                                     !.ts = IF p.used = 0 THEN TimeOf[e] ELSE p.ts,
                                     !.rec = p.rec \o rec]
  BY Zenon DEF Extended
<1>1. TimeOf[e] \in Nat /\ PageSize \in Nat
  BY Clock
<1>2. /\ p.used \in Nat /\ p.rec \in Seq(Rec) /\ p.ts \in Nat
      /\ p.gap \in BOOLEAN /\ p.out \in BOOLEAN
      /\ DataOnly(p.rec) /\ Ordered(p.rec) /\ Placed(p.rec, p.used)
  BY PageFields DEF PageOK
<1>3. Timed(p.rec, ts, t) /\ ts \in Nat /\ Precedes(t, e, d)
  <2>1. CASE p.used = 0
    BY <1>0, <1>1, <2>1, TimedEmpty DEF Precedes
  <2>2. CASE p.used # 0
    <3>1. PICK j \in 1..(e - 1) : s = TimeOf[j]
      BY <2>2
    <3>2. j \in 1..MaxEvents /\ j < e
      BY Clock
    <3>3. s < TimeOf[e]
      BY <3>1, <3>2, Clock
    <3>4. d \in Nat /\ s + d = TimeOf[e] /\ t = s /\ ts = p.ts
      BY <1>0, <1>1, <2>2, <3>3
    <3>. HIDE DEF t, ts
    <3>. QED
      BY <1>2, <2>2, <3>1, <3>4 DEF Precedes
  <2>. QED
    BY <2>1, <2>2
<1>4. q = [p EXCEPT !.used = p.used + size, !.ts = ts, !.rec = p.rec \o rec] /\ p \in Page
  BY <1>0, PageFields
<1>. HIDE DEF ts, t
<1>5. /\ p.rec \o rec \in Seq(Rec)
      /\ DataOnly(p.rec \o rec) /\ Ordered(p.rec \o rec)
      /\ Timed(p.rec \o rec, ts, TimeOf[e])
      /\ EventsIn(p.rec \o rec) = EventsIn(p.rec) \cup {e}
      /\ Placed(p.rec \o rec, p.used + size)
  BY <1>0, <1>2, <1>3, RecordsOK
<1>6. p.used + size \in 0..PageSize
  BY <1>1, <1>2
<1>7. /\ q \in Page
      /\ q.used = p.used + size /\ q.ts = ts /\ q.out = p.out /\ q.rec = p.rec \o rec
  <2>1. PICK u \in 0..PageSize, r \in Seq(Rec) : u = p.used + size /\ r = p.rec \o rec
    BY <1>5, <1>6
  <2>2. q = [p EXCEPT !.used = u, !.ts = ts, !.rec = r]
    BY <1>4, <2>1
  <2>3. q \in Page /\ q.used = u /\ q.ts = ts /\ q.out = p.out /\ q.rec = r
    <3>1. ts \in Nat /\ p \in Page
      BY <1>3, <1>4
    <3>. QED
      BY <2>2, <3>1 DEF Page
  <2>. QED
    BY <2>1, <2>3
<1>8. PageOK(q)
  BY <1>1, <1>5, <1>7 DEF PageOK
<1>. QED
  BY <1>5, <1>7, <1>8 DEF ts, ExtendedOK

-----------------------------------------------------------------------------
(* Decoding.                                                               *)

Event == [e : 1..MaxEvents, ts : Nat]

EventsOf(o) == {o[k].e : k \in DOMAIN o}

\* Events out of S, in order and with their times.
GoodOut(o, S) ==
  /\ o \in Seq(Event)
  /\ \A k \in 1..Len(o) : o[k].e \in S /\ o[k].ts = TimeOf[o[k].e]
  /\ \A k, l \in 1..Len(o) : k < l => o[k].e < o[l].e

LEMMA GoodMore ==
  ASSUME NEW o, NEW S, NEW R, GoodOut(o, S), S \subseteq R
  PROVE  GoodOut(o, R)
  BY DEF GoodOut

LEMMA GoodAppend ==
  ASSUME NEW o, NEW S, GoodOut(o, S), NEW x \in Event,
         x.ts = TimeOf[x.e], \A y \in S : y < x.e
  PROVE  GoodOut(Append(o, x), S \cup {x.e}) /\ EventsOf(Append(o, x)) = EventsOf(o) \cup {x.e}
<1>. DEFINE n == Len(o)
            new == Append(o, x)
<1>1. /\ n \in Nat /\ new \in Seq(Event) /\ Len(new) = n + 1 /\ new[n + 1] = x
      /\ \A k \in 1..n : new[k] = o[k]
  BY DEF GoodOut
<1>2. \A k \in 1..n : o[k].e \in S /\ o[k].ts = TimeOf[o[k].e]
  BY DEF GoodOut
<1>3. \A k, l \in 1..n : k < l => o[k].e < o[l].e
  BY DEF GoodOut
<1>. HIDE DEF n, new
<1>4. ASSUME NEW k \in 1..(n + 1) PROVE new[k].e \in S \cup {x.e} /\ new[k].ts = TimeOf[new[k].e]
  BY <1>1, <1>2
<1>5. ASSUME NEW k \in 1..(n + 1), NEW l \in 1..(n + 1), k < l PROVE new[k].e < new[l].e
  <2>1. k \in 1..n
    BY <1>1, <1>5
  <2>2. CASE l = n + 1
    BY <1>1, <1>2, <2>1, <2>2
  <2>3. CASE l # n + 1
    <3>1. l \in 1..n
      BY <1>1, <2>3
    <3>. QED
      BY <1>1, <1>3, <1>5, <2>1, <3>1
  <2>. QED
    BY <2>2, <2>3
<1>6. GoodOut(new, S \cup {x.e})
  BY <1>1, <1>4, <1>5 DEF GoodOut
<1>7. DOMAIN o = 1..n /\ DOMAIN new = 1..(n + 1)
  BY <1>1 DEF GoodOut, n
<1>8. EventsOf(new) = EventsOf(o) \cup {x.e}
  BY <1>1, <1>7 DEF EventsOf
<1>. QED
  BY <1>6, <1>8 DEF new

\* o[i] is what i turns of the loop append, if K are the turns that append.
IsLoop(o, rec, T, K) ==
  /\ o[0] = <<>>
  /\ \A i \in 1..Len(rec) :
       o[i] = IF i \in K THEN Append(o[i - 1], [e |-> rec[i].e, ts |-> T[i]]) ELSE o[i - 1]

\* The turns that append are at records of events.
Turns(K, rec) == K \subseteq {i \in 1..Len(rec) : rec[i].type_len \in RINGBUF_TYPE_DATA}

LEMMA TurnEvent ==
  ASSUME NEW rec \in Seq(Rec), DataOnly(rec), NEW ts, NEW T, IsTimes(T, rec, ts),
         NEW K, Turns(K, rec), NEW i \in 1..Len(rec), i \in K
  PROVE  /\ [e |-> rec[i].e, ts |-> T[i]] \in Event
         /\ rec[i].e # 0
         /\ T[i] = TimeOf[rec[i].e]
<1>1. rec[i] \in Rec /\ i \in DOMAIN rec /\ Len(rec) \in Nat
  OBVIOUS
<1>2. rec[i].e # 0
  BY <1>1 DEF Turns, DataOnly
<1>3. rec[i].e \in 1..MaxEvents
  BY <1>1, <1>2, Clock DEF Rec
<1>4. T[i] \in Nat /\ T[i] = TimeOf[rec[i].e]
  BY <1>1, <1>2 DEF IsTimes
<1>. QED
  BY <1>2, <1>3, <1>4 DEF Event

LEMMA LoopGood ==
  ASSUME NEW rec \in Seq(Rec), DataOnly(rec), Ordered(rec),
         NEW ts, NEW T, IsTimes(T, rec, ts),
         NEW K, Turns(K, rec), NEW o, IsLoop(o, rec, T, K)
  PROVE  /\ GoodOut(o[Len(rec)], EventsIn(rec))
         /\ EventsOf(o[Len(rec)]) = {rec[i].e : i \in K}
<1>. DEFINE n == Len(rec)
            Upto(i) == {rec[j].e : j \in 1..i} \ {0}
            Done(i) == {rec[j].e : j \in K \cap (1..i)}
            Good(i) == GoodOut(o[i], Upto(i)) /\ EventsOf(o[i]) = Done(i)
            Bad == {i \in 0..n : ~Good(i)}
<1>1. n \in Nat /\ DOMAIN rec = 1..n /\ Upto(n) = EventsIn(rec)
  BY DEF EventsIn
<1>2. SUFFICES ASSUME Bad # {} PROVE FALSE
  <2>1. n \in 0..n
    BY <1>1
  <2>2. K \cap (1..n) = K
    BY DEF Turns
  <2>. HIDE DEF Upto
  <2>. QED
    BY <1>1, <2>1, <2>2
<1>3. PICK i \in Bad : \A m \in Bad : i <= m
  <2>1. Bad \subseteq Nat
    BY <1>1
  <2>. HIDE DEF Bad
  <2>. QED
    BY <1>2, <2>1, Smallest
<1>4. i # 0
  <2>1. <<>> \in Seq(Event) /\ Len(<<>>) = 0
    OBVIOUS
  <2>2. GoodOut(<<>>, Upto(0))
    BY <2>1 DEF GoodOut
  <2>3. GoodOut(o[0], Upto(0))
    BY <2>2 DEF IsLoop
  <2>4. EventsOf(o[0]) = Done(0)
    BY DEF IsLoop, EventsOf
  <2>. QED
    BY <2>3, <2>4
<1>5. i \in 1..n /\ i - 1 \in 0..n /\ i - 1 \notin Bad
  <2>1. i \in 1..n /\ i - 1 \in 0..n /\ ~(i <= i - 1)
    BY <1>1, <1>4
  <2>. QED
    BY <1>3, <2>1
<1>6. GoodOut(o[i - 1], Upto(i - 1)) /\ EventsOf(o[i - 1]) = Done(i - 1)
  BY <1>5
<1>7. Upto(i - 1) \subseteq Upto(i) /\ Upto(i) = Upto(i - 1) \cup ({rec[i].e} \ {0})
  <2>1. 1..i = (1..(i - 1)) \cup {i}
    BY <1>1, <1>5
  <2>. QED
    BY <2>1
<1>8. o[i] = IF i \in K THEN Append(o[i - 1], [e |-> rec[i].e, ts |-> T[i]]) ELSE o[i - 1]
  BY <1>5 DEF IsLoop
<1>10. Done(i) = Done(i - 1) \cup (IF i \in K THEN {rec[i].e} ELSE {})
  <2>1. 1..i = (1..(i - 1)) \cup {i}
    BY <1>1, <1>5
  <2>. QED
    BY <2>1
<1>9. Good(i)
  <2>1. CASE i \in K
    <3>1. PICK x : x = [e |-> rec[i].e, ts |-> T[i]]
      OBVIOUS
    <3>2. x \in Event /\ rec[i].e # 0 /\ T[i] = TimeOf[rec[i].e]
      BY <1>5, <2>1, <3>1, TurnEvent
    <3>3. x.e = rec[i].e /\ x.ts = T[i]
      BY <3>1
    <3>4. \A y \in Upto(i - 1) : y < x.e
      <4>1. \A j \in 1..(i - 1) : j \in 1..n /\ j < i
        BY <1>1, <1>5
      <4>2. \A j \in 1..(i - 1) : rec[j].e # 0 => rec[j].e < rec[i].e
        BY <1>1, <1>5, <3>2, <4>1 DEF Ordered
      <4>. QED
        BY <3>3, <4>2
    <3>. HIDE DEF Upto, Done, Bad
    <3>5. /\ GoodOut(Append(o[i - 1], x), Upto(i - 1) \cup {x.e})
          /\ EventsOf(Append(o[i - 1], x)) = EventsOf(o[i - 1]) \cup {x.e}
      BY <1>6, <3>2, <3>3, <3>4, GoodAppend
    <3>6. Upto(i - 1) \cup {x.e} = Upto(i)
      BY <1>7, <3>2, <3>3
    <3>7. Done(i) = Done(i - 1) \cup {x.e}
      BY <1>10, <2>1, <3>3
    <3>. QED
      BY <1>6, <1>8, <2>1, <3>1, <3>5, <3>6, <3>7
  <2>2. CASE i \notin K
    <3>. HIDE DEF Upto, Done, Bad
    <3>1. Done(i) = Done(i - 1)
      BY <1>10, <2>2
    <3>. QED
      BY <1>6, <1>7, <1>8, <2>2, <3>1, GoodMore
  <2>. QED
    BY <2>1, <2>2
<1>. QED
  BY <1>9

LEMMA LoopExists ==
  ASSUME NEW rec \in Seq(Rec), DataOnly(rec), NEW ts, NEW T, IsTimes(T, rec, ts),
         NEW K, Turns(K, rec)
  PROVE  \E o : IsLoop(o, rec, T, K) /\ o \in [0..Len(rec) -> Seq(Event)]
<1>. DEFINE n == Len(rec)
            X(i) == [e |-> rec[i].e, ts |-> T[i]]
            F == [i \in 1..n |-> [s \in Seq(Event) |-> IF i \in K THEN Append(s, X(i)) ELSE s]]
<1>1. n \in Nat
  OBVIOUS
<1>2. ASSUME NEW i \in 1..n, i \in K PROVE X(i) \in Event
  BY <1>2, TurnEvent
<1>. HIDE DEF X
<1>3. F \in [1..n -> [Seq(Event) -> Seq(Event)]]
  BY <1>2
<1>4. PICK S, none : S = Seq(Event) /\ none = <<>> /\ none \in S
  <2>1. <<>> \in Seq(Event)
    OBVIOUS
  <2>. QED
    BY <2>1, Zenon
<1>. HIDE DEF F
<1>5. PICK o : IsIteration(o, S, none, F, n)
  BY <1>1, <1>3, <1>4, Iterates
<1>6. o \in [0..n -> Seq(Event)] /\ o[0] = <<>>
  BY <1>4, <1>5 DEF IsIteration
<1>7. ASSUME NEW i \in 1..n
      PROVE  o[i] = IF i \in K THEN Append(o[i - 1], X(i)) ELSE o[i - 1]
  <2>1. o[i - 1] \in Seq(Event)
    <3>1. i - 1 \in 0..n
      BY <1>1
    <3>. QED
      BY <1>6, <3>1
  <2>2. o[i] = F[i][o[i - 1]]
    BY <1>5 DEF IsIteration
  <2>. QED
    BY <2>1, <2>2 DEF F
<1>8. IsLoop(o, rec, T, K)
  BY <1>6, <1>7 DEF IsLoop, X
<1>. QED
  BY <1>6, <1>8

\* The loop reaches each record where it starts.
LEMMA Offsets ==
  ASSUME NEW rec \in Seq(Rec), NEW end \in Nat, Placed(rec, end), NEW k \in 1..Len(rec)
  PROVE  Offset(rec)[k] = rec[k].at - rec[1].at
<1>. DEFINE n == Len(rec)
            AtDef(f) == [i \in DOMAIN rec |->
                           IF i = 1 THEN 0 ELSE f[i - 1] + rb_event_length(rec[i - 1])]
            at == CHOOSE f : f = AtDef(f)
            h == [i \in DOMAIN rec |-> rec[i].at - rec[1].at]
<1>1. n \in Nat /\ DOMAIN rec = 1..n /\ \A i \in 1..n : rec[i] \in Rec
  OBVIOUS
<1>2. \A i \in 1..n : rec[i].at \in Nat
  BY <1>1 DEF Rec
<1>. HIDE DEF n
<1>3. \A i \in 1..n : i # 1 =>
        /\ i - 1 \in 1..n
        /\ rec[i].at = rec[i - 1].at + rb_event_length(rec[i - 1])
  <2>. SUFFICES ASSUME NEW i \in 1..n, i # 1
                PROVE  /\ i - 1 \in 1..n
                       /\ rec[i].at = rec[i - 1].at + rb_event_length(rec[i - 1])
    OBVIOUS
  <2>1. i - 1 \in 1..n /\ i - 1 # n /\ (i - 1) + 1 = i
    BY <1>1
  <2>. QED
    BY <2>1 DEF Placed, n
<1>4. \A i \in 1..n : i # 1 =>
        rb_event_length(rec[i - 1]) \in Int
  <2>. SUFFICES ASSUME NEW i \in 1..n, i # 1 PROVE rb_event_length(rec[i - 1]) \in Int
    OBVIOUS
  <2>1. i - 1 \in 1..n /\ rec[i - 1] \in Rec
    BY <1>1, <1>3
  <2>. QED
    BY <2>1, LengthType
<1>5. h = AtDef(h)
  <2>1. ASSUME NEW i \in 1..n PROVE h[i] = AtDef(h)[i]
    <3>1. CASE i = 1
      BY <1>1, <1>2, <3>1
    <3>2. CASE i # 1
      <4>1. i - 1 \in 1..n /\ 1 \in 1..n
        BY <1>1, <1>3, <3>2
      <4>2. h[i - 1] = rec[i - 1].at - rec[1].at /\ h[i] = rec[i].at - rec[1].at
        BY <1>1, <4>1
      <4>3. h[i] = h[i - 1] + rb_event_length(rec[i - 1])
        BY <1>2, <1>3, <1>4, <3>2, <4>1, <4>2
      <4>. QED
        BY <1>1, <3>2, <4>3
    <3>. QED
      BY <3>1, <3>2
  <2>. QED
    BY <1>1, <2>1
<1>6. at = AtDef(at)
  <2>. HIDE DEF AtDef, h
  <2>. QED
    BY <1>5
<1>. HIDE DEF at, h
<1>7. \A i \in 1..n : at[i] = IF i = 1 THEN 0 ELSE at[i - 1] + rb_event_length(rec[i - 1])
  BY <1>1, <1>6
<1>8. \A i \in 1..n : at[i] = rec[i].at - rec[1].at
  <2>. DEFINE Bad == {i \in 1..n : at[i] # rec[i].at - rec[1].at}
  <2>1. SUFFICES ASSUME Bad # {} PROVE FALSE
    OBVIOUS
  <2>2. PICK i \in Bad : \A j \in Bad : i <= j
    <3>1. Bad \subseteq Nat
      BY <1>1
    <3>. HIDE DEF Bad
    <3>. QED
      BY <2>1, <3>1, Smallest
  <2>3. i \in 1..n /\ i # 1
    BY <1>1, <1>2, <1>7
  <2>4. i - 1 \in 1..n /\ i - 1 \notin Bad /\ 1 \in 1..n
    <3>1. i - 1 \in 1..n /\ ~(i <= i - 1) /\ 1 \in 1..n
      BY <1>1, <2>3
    <3>. QED
      BY <2>2, <3>1
  <2>5. at[i - 1] = rec[i - 1].at - rec[1].at
    BY <2>4
  <2>6. at[i] = rec[i].at - rec[1].at
    BY <1>2, <1>3, <1>4, <1>7, <2>3, <2>4, <2>5
  <2>. QED
    BY <2>6
<1>9. Offset(rec) = at
  BY DEF Offset, at
<1>. QED
  BY <1>8, <1>9 DEF n

\* The loop reaches all records of a page, but none if the commit is negative.
LEMMA AllReached ==
  ASSUME NEW p, PageOK(p), NEW i \in 1..Len(p.rec)
  PROVE  /\ Offset(p.rec)[i] = p.rec[i].at - p.rec[1].at
         /\ Offset(p.rec)[i] < Commit(p) <=> ~p.gap
<1>. DEFINE rec == p.rec
<1>1. /\ rec \in Seq(Rec) /\ p.used \in Nat /\ p.used <= PageSize /\ Placed(rec, p.used)
      /\ p.gap \in BOOLEAN /\ PageSize \in Nat /\ PageSize >= 28
  BY PageFields, Clock
<1>2. Len(rec) \in Nat /\ 1 \in 1..Len(rec) /\ rec # <<>> /\ rec[1] \in Rec /\ rec[i] \in Rec
  BY <1>1
<1>3. rec[1].at \in Nat /\ rec[i].at \in Nat
  BY <1>2 DEF Rec
<1>4. rec[1].at <= rec[i].at /\ rec[i].at < p.used
  BY <1>1 DEF Placed
<1>5. Offset(rec)[i] = rec[i].at - rec[1].at
  BY <1>1, Offsets
<1>6. Commit(p) = (p.used - rec[1].at) - (IF p.gap THEN 2 * PageSize ELSE 0)
  BY <1>2 DEF Commit
<1>. HIDE DEF rec
<1>7. Offset(rec)[i] < Commit(p) <=> ~p.gap
  BY <1>1, <1>3, <1>4, <1>5, <1>6
<1>. QED
  BY <1>5, <1>7 DEF rec

\* Decoding a page gives its events, in order and with their times; it gives none
\* if the commit is negative.
LEMMA DecodedOK ==
  ASSUME NEW p, PageOK(p)
  PROVE  /\ GoodOut(Decoded(p), EventsIn(p.rec))
         /\ EventsOf(Decoded(p)) = IF p.gap THEN {} ELSE EventsIn(p.rec)
<1>. DEFINE rec == p.rec
            n == Len(rec)
            Reached(i) == /\ Offset(rec)[i] = rec[i].at - rec[1].at
                          /\ Offset(rec)[i] < Commit(p)
            K == {i \in 1..n : rec[i].type_len \in RINGBUF_TYPE_DATA /\ Reached(i)}
            TsDef(f) == [i \in 0..n |-> IF i = 0 THEN p.ts ELSE Advance(f[i - 1], rec[i])]
            ts == CHOOSE f : f = TsDef(f)
            OutDef(f) == [i \in 0..n |->
                            IF i = 0 THEN <<>>
                            ELSE IF rec[i].type_len \in RINGBUF_TYPE_DATA /\ Reached(i)
                            THEN Append(f[i - 1], [e |-> rec[i].e, ts |-> ts[i]])
                            ELSE f[i - 1]]
            out == CHOOSE f : f = OutDef(f)
<1>1. rec \in Seq(Rec) /\ DataOnly(rec) /\ Ordered(rec) /\ n \in Nat
  BY PageFields
<1>2. PICK T : IsTimes(T, rec, p.ts)
  BY DEF PageOK, Timed
<1>3. Decoded(p) = out[n]
  BY DEF Decoded
<1>. HIDE DEF Reached, rec, n
<1>4. T = TsDef(T)
  <2>1. T \in [0..n -> Nat]
    BY <1>2 DEF IsTimes, n
  <2>2. ASSUME NEW i \in 0..n PROVE T[i] = TsDef(T)[i]
    <3>1. CASE i = 0
      BY <1>2, <3>1 DEF IsTimes
    <3>2. CASE i # 0
      <4>1. i \in 1..n
        BY <1>1, <3>2
      <4>. QED
        BY <1>2, <3>2, <4>1 DEF IsTimes, n
    <3>. QED
      BY <3>1, <3>2
  <2>. QED
    BY <2>1, <2>2
<1>5. ts = TsDef(ts)
  <2>. HIDE DEF TsDef
  <2>. QED
    BY <1>4
<1>. HIDE DEF ts
<1>6. ts[0] = p.ts /\ \A i \in 1..n : ts[i] = Advance(ts[i - 1], rec[i])
  BY <1>1, <1>5
<1>7. \A i \in 0..n : ts[i] = T[i]
  <2>. DEFINE Bad == {i \in 0..n : ts[i] # T[i]}
  <2>1. SUFFICES ASSUME Bad # {} PROVE FALSE
    OBVIOUS
  <2>2. PICK i \in Bad : \A j \in Bad : i <= j
    <3>1. Bad \subseteq Nat
      BY <1>1
    <3>. HIDE DEF Bad
    <3>. QED
      BY <2>1, <3>1, Smallest
  <2>3. i \in 1..n
    <3>1. i \in 0..n /\ ts[i] # T[i] /\ ts[0] = T[0]
      BY <1>2, <1>6 DEF IsTimes
    <3>. QED
      BY <3>1, <1>1
  <2>4. i - 1 \in 0..n /\ i - 1 \notin Bad
    <3>1. i - 1 \in 0..n /\ ~(i <= i - 1)
      BY <1>1, <2>3
    <3>. QED
      BY <2>2, <3>1
  <2>5. ts[i] = T[i]
    <3>1. ts[i - 1] = T[i - 1]
      BY <2>4
    <3>2. T[i] = Advance(T[i - 1], rec[i])
      BY <1>2, <2>3 DEF IsTimes, n
    <3>. QED
      BY <1>6, <2>3, <3>1, <3>2
  <2>. QED
    BY <2>5
<1>8. Turns(K, rec)
  BY DEF Turns, n
<1>9. PICK o : IsLoop(o, rec, T, K) /\ o \in [0..n -> Seq(Event)]
  <2>. HIDE DEF K
  <2>. QED
    BY <1>1, <1>2, <1>8, LoopExists DEF n
<1>10. o = OutDef(o)
  <2>1. ASSUME NEW i \in 0..n PROVE o[i] = OutDef(o)[i]
    <3>1. CASE i = 0
      BY <1>9, <3>1 DEF IsLoop
    <3>2. CASE i # 0
      <4>1. i \in 1..n /\ ts[i] = T[i]
        BY <1>1, <1>7, <3>2
      <4>2. o[i] = IF i \in K THEN Append(o[i - 1], [e |-> rec[i].e, ts |-> T[i]])
                   ELSE o[i - 1]
        BY <1>9, <4>1 DEF IsLoop, n
      <4>3. i \in K <=> rec[i].type_len \in RINGBUF_TYPE_DATA /\ Reached(i)
        BY <4>1
      <4>. HIDE DEF K
      <4>. QED
        BY <3>2, <4>1, <4>2, <4>3
    <3>. QED
      BY <3>1, <3>2
  <2>. QED
    BY <1>9, <2>1
<1>11. out = OutDef(out)
  <2>. HIDE DEF OutDef
  <2>. QED
    BY <1>10
<1>. HIDE DEF out
<1>12. IsLoop(out, rec, T, K)
  <2>1. out[0] = <<>>
    BY <1>1, <1>11
  <2>2. ASSUME NEW i \in 1..n
        PROVE  out[i] = IF i \in K THEN Append(out[i - 1], [e |-> rec[i].e, ts |-> T[i]])
                        ELSE out[i - 1]
    <3>1. i \in 0..n /\ i # 0 /\ ts[i] = T[i]
      BY <1>1, <1>7
    <3>2. i \in K <=> rec[i].type_len \in RINGBUF_TYPE_DATA /\ Reached(i)
      OBVIOUS
    <3>3. out[i] = IF rec[i].type_len \in RINGBUF_TYPE_DATA /\ Reached(i)
                   THEN Append(out[i - 1], [e |-> rec[i].e, ts |-> ts[i]]) ELSE out[i - 1]
      BY <1>11, <3>1
    <3>. HIDE DEF K
    <3>. QED
      BY <3>1, <3>2, <3>3
  <2>. HIDE DEF K
  <2>. QED
    BY <2>1, <2>2 DEF IsLoop, n
<1>14. {rec[i].e : i \in K} = IF p.gap THEN {} ELSE EventsIn(rec)
  <2>1. K = IF p.gap THEN {} ELSE {i \in 1..n : rec[i].type_len \in RINGBUF_TYPE_DATA}
    BY AllReached DEF Reached, rec, n
  <2>2. DOMAIN rec = 1..n /\ \A i \in 1..n : rec[i].e # 0 <=> rec[i].type_len \in RINGBUF_TYPE_DATA
    BY <1>1 DEF DataOnly, n
  <2>. HIDE DEF K
  <2>. QED
    BY <2>1, <2>2 DEF EventsIn
<1>. HIDE DEF K
<1>13. GoodOut(out[n], EventsIn(rec)) /\ EventsOf(out[n]) = {rec[i].e : i \in K}
  BY <1>1, <1>2, <1>8, <1>12, LoopGood DEF n
<1>. QED
  BY <1>3, <1>13, <1>14 DEF rec

\* So does leaving out those that do not fit.
LEMMA FittingOK ==
  ASSUME NEW o, NEW S, GoodOut(o, S), NEW room \in Nat
  PROVE  GoodOut(Fitting(o, room), S)
<1>1. PICK m \in Nat : m = room \div NestSize
  BY DEF NestSize
<1>2. GoodOut(<<>>, S)
  BY DEF GoodOut
<1>3. o \in Seq(Event) /\ Len(o) \in Nat
  BY DEF GoodOut
<1>4. ASSUME Len(o) * NestSize > room PROVE GoodOut(SubSeq(o, 1, m), S)
  <2>1. m <= Len(o)
    <3>1. room = 72 * m + (room % 72) /\ room % 72 \in 0..71
      BY <1>1, Remainder DEF NestSize
    <3>. QED
      BY <1>1, <1>3, <1>4, <3>1 DEF NestSize
  <2>. DEFINE s == SubSeq(o, 1, m)
  <2>2. s \in Seq(Event) /\ Len(s) = m /\ \A k \in 1..m : s[k] = o[k] /\ k \in 1..Len(o)
    BY <1>1, <1>3, <2>1
  <2>. HIDE DEF s
  <2>3. GoodOut(s, S)
    BY <2>2 DEF GoodOut
  <2>. QED
    BY <2>3 DEF s
<1>5. Len(o) * NestSize <= room \/ Len(o) * NestSize > room
  BY <1>3 DEF NestSize
<1>. QED
  BY <1>1, <1>2, <1>4, <1>5 DEF Fitting

\* The first k events of a page are k.
LEMMA Counting ==
  ASSUME NEW o, NEW S, GoodOut(o, S), NEW k \in 0..Len(o)
  PROVE  Cardinality({o[j].e : j \in 1..k}) = k
<1>. DEFINE T == {o[j].e : j \in 1..k}
            f == [j \in 1..k |-> o[j].e]
<1>1. o \in Seq(Event) /\ Len(o) \in Nat /\ \A i \in 1..Len(o) : o[i] \in Event
  BY DEF GoodOut
<1>2. \A j \in 1..k : j \in 1..Len(o) /\ o[j].e \in Nat
  BY <1>1, Clock DEF Event
<1>3. \A i, j \in 1..k : o[i].e = o[j].e => i = j
  <2>. SUFFICES ASSUME NEW i \in 1..k, NEW j \in 1..k, i < j PROVE o[i].e # o[j].e
    BY <1>1
  <2>1. o[i].e < o[j].e
    BY <1>2 DEF GoodOut
  <2>. QED
    BY <1>2, <2>1
<1>4. f \in Bijection(1..k, T)
  BY <1>3 DEF Bijection, Injection, Surjection, IsInjective
<1>5. ExistsBijection(1..k, T)
  BY <1>4 DEF ExistsBijection
<1>6. k \in Int /\ 1 \in Int /\ k >= 0
  BY <1>1
<1>7. IsFiniteSet(1..k) /\ Cardinality(1..k) = k
  BY <1>6, FS_Interval
<1>. HIDE DEF T, f
<1>8. Cardinality(T) = k
  BY <1>5, <1>7, FS_Bijection
<1>. QED
  BY <1>8 DEF T

\* A page's message has each event of the page for which it has a place, and no other.
LEMMA LeftOutOK ==
  ASSUME NEW p, PageOK(p), NEW room \in Nat
  PROVE  /\ GoodOut(process_rb_page(p, room), Events(p))
         /\ EventsOf(process_rb_page(p, room)) = Events(p) \ LeftOut(p, room)
         /\ LeftOut(p, room) \subseteq Events(p)
<1>. DEFINE E == Events(p)
            Rank(e) == Cardinality({f \in E : f <= e})
            TooMany == Cardinality(E) * NestSize > room
<1>1. PICK o : o = Decoded(p)
  OBVIOUS
<1>2. GoodOut(o, E) /\ EventsOf(o) = (IF p.gap THEN {} ELSE E) /\ p.gap \in BOOLEAN
  BY <1>1, DecodedOK, EventsOfPage, PageFields
<1>3. PICK out : out = Fitting(o, room)
  OBVIOUS
<1>4. process_rb_page(p, room) = out /\ GoodOut(out, E)
  BY <1>1, <1>2, <1>3, FittingOK DEF process_rb_page
<1>5. PICK n \in Nat : n = Len(o) /\ DOMAIN o = 1..n
  BY <1>2 DEF GoodOut
<1>6. /\ \A k \in 1..n : o[k].e \in Nat
      /\ \A k, l \in 1..n : k < l => o[k].e < o[l].e
  <2>1. \A k \in 1..n : o[k] \in Event
    BY <1>2, <1>5 DEF GoodOut
  <2>2. \A k \in 1..n : o[k].e \in Nat
    BY <2>1, Clock DEF Event
  <2>. QED
    BY <1>2, <1>5, <2>2 DEF GoodOut
<1>7. LeftOut(p, room) = IF p.gap \/ (TooMany /\ room % NestSize < NestHeader) THEN E
                         ELSE {e \in E : Rank(e) * NestSize > room}
  BY DEF LeftOut
<1>8. PICK m \in Nat : m = room \div 72 /\ room = 72 * m + (room % 72) /\ room % 72 \in 0..71
  BY Remainder
<1>. HIDE DEF E
<1>9. CASE p.gap
  <2>1. n = 0
    <3>1. ASSUME n # 0 PROVE FALSE
      <4>1. 1 \in 1..n
        BY <1>5, <3>1
      <4>2. o[1].e \in EventsOf(o)
        BY <1>5, <4>1 DEF EventsOf
      <4>. QED
        BY <1>2, <1>9, <4>2
    <3>. QED
      BY <3>1
  <2>2. out = o
    BY <1>3, <1>5, <2>1 DEF Fitting, NestSize
  <2>. QED
    BY <1>2, <1>4, <1>7, <1>9, <2>2 DEF E
<1>10. CASE ~p.gap
  <2>1. E = {o[k].e : k \in 1..n}
    BY <1>2, <1>5, <1>10 DEF EventsOf
  <2>2. Cardinality(E) = n
    <3>1. n \in 0..Len(o)
      BY <1>5
    <3>. QED
      BY <1>2, <2>1, <3>1, Counting
  <2>3. ASSUME NEW k \in 1..n PROVE Rank(o[k].e) = k
    <3>1. {f \in E : f <= o[k].e} = {o[j].e : j \in 1..k}
      <4>1. ASSUME NEW j \in 1..n PROVE o[j].e <= o[k].e <=> j \in 1..k
        <5>1. CASE j <= k
          <6>1. j \in 1..k
            BY <1>5, <5>1
          <6>2. j = k \/ j < k
            BY <1>5, <5>1
          <6>. QED
            BY <1>6, <6>1, <6>2
        <5>2. CASE k < j
          <6>1. j \notin 1..k /\ o[k].e < o[j].e
            BY <1>5, <1>6, <5>2
          <6>. QED
            BY <1>6, <6>1
        <5>. QED
          BY <1>5, <5>1, <5>2
      <4>2. \A j \in 1..k : j \in 1..n
        BY <1>5
      <4>. QED
        BY <2>1, <4>1, <4>2
    <3>2. k \in 0..Len(o)
      BY <1>5
    <3>. QED
      BY <1>2, <3>1, <3>2, Counting
  <2>. HIDE DEF Rank
  <2>4. CASE n * 72 <= room
    <3>1. out = o
      BY <1>3, <1>5, <2>4 DEF Fitting, NestSize
    <3>2. ~TooMany
      BY <1>5, <2>2, <2>4 DEF NestSize
    <3>3. ASSUME NEW e \in E PROVE ~(Rank(e) * NestSize > room)
      <4>1. PICK k \in 1..n : e = o[k].e
        BY <2>1
      <4>2. k * 72 <= room
        BY <1>5, <2>4
      <4>. QED
        BY <2>3, <4>1, <4>2 DEF NestSize
    <3>4. LeftOut(p, room) = {}
      BY <1>7, <1>10, <3>2, <3>3
    <3>. QED
      BY <1>2, <1>4, <1>10, <3>1, <3>4 DEF E
  <2>5. CASE ~(n * 72 <= room) /\ room % 72 < 4
    <3>1. out = <<>>
      BY <1>3, <1>5, <2>5 DEF Fitting, NestSize, NestHeader
    <3>2. TooMany
      BY <1>5, <2>2, <2>5 DEF NestSize
    <3>3. LeftOut(p, room) = E
      BY <1>7, <2>5, <3>2 DEF NestSize, NestHeader
    <3>4. EventsOf(out) = {}
      BY <3>1 DEF EventsOf
    <3>. QED
      BY <1>4, <3>3, <3>4 DEF E
  <2>6. CASE ~(n * 72 <= room) /\ ~(room % 72 < 4)
    <3>1. out = SubSeq(o, 1, m)
      BY <1>3, <1>5, <1>8, <2>6 DEF Fitting, NestSize, NestHeader
    <3>2. m < n
      BY <1>5, <1>8, <2>6
    <3>3. o \in Seq(Event)
      BY <1>2 DEF GoodOut
    <3>4. DOMAIN out = 1..m /\ \A k \in 1..m : out[k] = o[k]
      <4>1. m <= Len(o) /\ Len(o) \in Nat
        BY <1>5, <3>2
      <4>. QED
        BY <3>1, <3>3, <4>1
    <3>5. EventsOf(out) = {o[k].e : k \in 1..m}
      BY <3>4 DEF EventsOf
    <3>6. LeftOut(p, room) = {e \in E : Rank(e) * NestSize > room}
      BY <1>7, <1>8, <1>10, <2>6 DEF NestSize, NestHeader
    <3>7. ASSUME NEW k \in 1..n PROVE o[k].e \in LeftOut(p, room) <=> k > m
      <4>1. k * 72 > room <=> k > m
        BY <1>5, <1>8
      <4>2. o[k].e \in E
        BY <2>1
      <4>. QED
        BY <2>3, <3>6, <4>1, <4>2 DEF NestSize
    <3>8. \A k \in 1..n : k \in 1..m \/ k > m
      BY <1>5
    <3>9. \A k \in 1..m : k \in 1..n /\ ~(k > m)
      BY <1>5, <3>2
    <3>10. ASSUME NEW x \in EventsOf(out) PROVE x \in E \ LeftOut(p, room)
      <4>1. PICK k \in 1..m : x = o[k].e
        BY <3>5
      <4>. QED
        BY <2>1, <3>7, <3>9, <4>1
    <3>11. ASSUME NEW x \in E \ LeftOut(p, room) PROVE x \in EventsOf(out)
      <4>1. PICK k \in 1..n : x = o[k].e
        BY <2>1
      <4>. QED
        BY <3>5, <3>7, <3>8, <3>11, <4>1
    <3>. QED
      BY <1>4, <3>6, <3>10, <3>11 DEF E
  <2>. QED
    BY <2>4, <2>5, <2>6
<1>. QED
  BY <1>2, <1>9, <1>10

-----------------------------------------------------------------------------
(* Sequences of pages.                                                     *)

LEMMA EventsType ==
  ASSUME NEW p, PageOK(p)
  PROVE  Events(p) \subseteq 1..MaxEvents
<1>1. p.rec \in Seq(Rec)
  BY PageFields
<1>2. \A i \in DOMAIN p.rec : p.rec[i] \in Rec
  BY <1>1
<1>3. \A i \in DOMAIN p.rec : p.rec[i].e \in 0..MaxEvents
  BY <1>2 DEF Rec
<1>. QED
  BY <1>3, Clock DEF Events

LEMMA BufOfType ==
  ASSUME NEW ps, NEW st, SeqOK(ps, st)
  PROVE  BufOf(ps) \subseteq 1..MaxEvents
<1>1. DOMAIN ps = 1..Len(ps)
  BY DEF SeqOK
<1>2. \A i \in 1..Len(ps) : Events(ps[i]) \subseteq 1..MaxEvents
  BY EventsType DEF SeqOK
<1>. QED
  BY <1>1, <1>2 DEF BufOf

\* One more page, with younger events.
LEMMA SeqAppend ==
  ASSUME NEW ps, NEW st \in Nat, SeqOK(ps, st), NEW now \in Nat, st <= now,
         NEW q, PageOK(q), q.ts <= now, q.out => ps = <<>>,
         \A x \in BufOf(ps), y \in Events(q) : x < y
  PROVE  /\ SeqOK(Append(ps, q), now)
         /\ BufOf(Append(ps, q)) = BufOf(ps) \cup Events(q)
<1>. DEFINE n == Len(ps)
            new == Append(ps, q)
<1>1. q \in Page /\ ps \in Seq(Page)
  BY PageFields DEF SeqOK
<1>2. /\ n \in Nat /\ DOMAIN ps = 1..n /\ DOMAIN new = 1..(n + 1) /\ new \in Seq(Page)
      /\ Len(new) = n + 1 /\ new[n + 1] = q /\ \A i \in 1..n : new[i] = ps[i]
  BY <1>1
<1>3. ps = <<>> => n = 0
  OBVIOUS
<1>4. \A i \in 1..n : PageOK(ps[i]) /\ ps[i].ts \in Nat /\ ps[i].ts <= st /\ (ps[i].out => i = 1)
  BY PageFields DEF SeqOK
<1>. HIDE DEF n, new
<1>5. ASSUME NEW i \in 1..(n + 1)
      PROVE  PageOK(new[i]) /\ new[i].ts <= now /\ (new[i].out => i = 1)
  <2>1. CASE i = n + 1
    BY <1>2, <1>3, <2>1
  <2>2. CASE i # n + 1
    <3>1. i \in 1..n
      BY <1>2, <2>2
    <3>. QED
      BY <1>2, <1>4, <3>1
  <2>. QED
    BY <2>1, <2>2
<1>6. \A i \in 1..n : Events(ps[i]) \subseteq BufOf(ps)
  BY <1>2 DEF BufOf
<1>7. ASSUME NEW i \in 1..(n + 1), NEW j \in 1..(n + 1), i < j,
             NEW x \in Events(new[i]), NEW y \in Events(new[j])
      PROVE  x < y
  <2>1. i \in 1..n /\ new[i] = ps[i]
    BY <1>2, <1>7
  <2>2. CASE j = n + 1
    BY <1>2, <1>6, <1>7, <2>1, <2>2
  <2>3. CASE j # n + 1
    <3>1. j \in 1..n /\ new[j] = ps[j]
      BY <1>2, <2>3
    <3>. QED
      BY <1>7, <2>1, <3>1 DEF SeqOK, n
  <2>. QED
    BY <2>2, <2>3
<1>8. SeqOK(new, now)
  BY <1>2, <1>5, <1>7 DEF SeqOK
<1>9. BufOf(new) = BufOf(ps) \cup Events(q)
  BY <1>2 DEF BufOf
<1>. QED
  BY <1>8, <1>9 DEF new

\* All but the last page.
LEMMA SeqFront ==
  ASSUME NEW ps, NEW st, SeqOK(ps, st), Len(ps) > 0
  PROVE  LET front == SubSeq(ps, 1, Len(ps) - 1)
             last == ps[Len(ps)]
         IN  /\ SeqOK(front, st) /\ Len(front) = Len(ps) - 1
             /\ PageOK(last) /\ last.ts <= st /\ (last.out => front = <<>>)
             /\ BufOf(ps) = BufOf(front) \cup Events(last)
             /\ \A x \in BufOf(front), y \in Events(last) : x < y
             /\ \A q \in Page : [ps EXCEPT ![Len(ps)] = q] = Append(front, q)
<1>. DEFINE n == Len(ps)
            front == SubSeq(ps, 1, n - 1)
            last == ps[n]
<1>1. ps \in Seq(Page) /\ n \in Nat /\ n > 0 /\ DOMAIN ps = 1..n
  BY DEF SeqOK
<1>2. /\ front \in Seq(Page) /\ Len(front) = n - 1 /\ DOMAIN front = 1..(n - 1)
      /\ \A i \in 1..(n - 1) : front[i] = ps[i]
  BY <1>1
<1>. HIDE DEF front, n
<1>3. n - 1 = 0 => front = <<>>
  BY <1>2, EmptySeq
<1>4. \A i \in 1..(n - 1) : i \in 1..n /\ i < n /\ front[i] = ps[i]
  BY <1>1, <1>2
<1>5. n \in 1..n
  BY <1>1
<1>6. \A i \in 1..n : PageOK(ps[i]) /\ ps[i].ts <= st /\ (ps[i].out => i = 1)
  BY DEF SeqOK, n
<1>7. \A i, j \in 1..n : i < j => \A x \in Events(ps[i]), y \in Events(ps[j]) : x < y
  BY DEF SeqOK, n
<1>8. SeqOK(front, st)
  BY <1>2, <1>4, <1>6, <1>7 DEF SeqOK
<1>9. PageOK(last) /\ last.ts <= st /\ (last.out => front = <<>>)
  BY <1>1, <1>3, <1>5, <1>6
<1>10. 1..n = (1..(n - 1)) \cup {n}
  BY <1>1
<1>11. BufOf(ps) = BufOf(front) \cup Events(last)
  <2>1. BufOf(ps) = UNION {Events(ps[i]) : i \in 1..n}
    BY <1>1 DEF BufOf
  <2>2. BufOf(front) = UNION {Events(ps[i]) : i \in 1..(n - 1)}
    BY <1>2 DEF BufOf
  <2>. QED
    BY <1>10, <2>1, <2>2
<1>12. \A x \in BufOf(front), y \in Events(last) : x < y
  BY <1>2, <1>4, <1>5, <1>7 DEF BufOf
<1>13. ASSUME NEW q \in Page PROVE [ps EXCEPT ![n] = q] = Append(front, q)
  <2>. DEFINE a == [ps EXCEPT ![n] = q]
              b == Append(front, q)
  <2>1. a \in Seq(Page) /\ Len(a) = n /\ a[n] = q /\ \A i \in 1..(n - 1) : a[i] = ps[i]
    BY <1>1 DEF n
  <2>2. b \in Seq(Page) /\ Len(b) = n /\ b[n] = q /\ \A i \in 1..(n - 1) : b[i] = front[i]
    BY <1>1, <1>2
  <2>. HIDE DEF a, b
  <2>3. \A i \in 1..Len(a) : a[i] = b[i]
    BY <1>2, <1>10, <2>1, <2>2
  <2>4. a = b
    BY <2>1, <2>2, <2>3, SeqEqual
  <2>. QED
    BY <2>4 DEF a, b
<1>. QED
  BY <1>2, <1>8, <1>9, <1>11, <1>12, <1>13 DEF front, n

\* One page less.
LEMMA SeqRemove ==
  ASSUME NEW ps, NEW st, SeqOK(ps, st), NEW k \in 1..Len(ps),
         NEW rs \in Seq(Page), Len(rs) = Len(ps) - 1,
         \A i \in 1..(Len(ps) - 1) : rs[i] = IF i < k THEN ps[i] ELSE ps[i + 1]
  PROVE  /\ SeqOK(rs, st)
         /\ BufOf(rs) = BufOf(ps) \ Events(ps[k])
         /\ Events(ps[k]) \subseteq BufOf(ps)
         /\ k = 1 => \A x \in Events(ps[k]), y \in BufOf(rs) : x < y
<1>. DEFINE n == Len(ps)
            At(i) == IF i < k THEN i ELSE i + 1
<1>1. ps \in Seq(Page) /\ n \in Nat /\ DOMAIN ps = 1..n /\ DOMAIN rs = 1..(n - 1) /\ k \in 1..n
  BY DEF SeqOK
<1>2. \A i \in 1..(n - 1) : /\ At(i) \in 1..n /\ At(i) # k /\ rs[i] = ps[At(i)]
                            /\ At(i) = 1 => i = 1
                            /\ k = 1 => k < At(i)
  BY <1>1
<1>3. \A i, j \in 1..(n - 1) : i < j => At(i) < At(j)
  BY <1>1
<1>4. \A j \in 1..n : j # k => \E i \in 1..(n - 1) : j = At(i)
  <2>. SUFFICES ASSUME NEW j \in 1..n, j # k PROVE \E i \in 1..(n - 1) : j = At(i)
    OBVIOUS
  <2>1. CASE j < k
    <3>1. j \in 1..(n - 1) /\ j = At(j)
      BY <1>1, <2>1
    <3>. QED
      BY <3>1
  <2>2. CASE j > k
    <3>1. j - 1 \in 1..(n - 1) /\ j = At(j - 1)
      BY <1>1, <2>2
    <3>. QED
      BY <3>1
  <2>. QED
    BY <1>1, <2>1, <2>2
<1>. HIDE DEF At, n
<1>5. \A i \in 1..n : PageOK(ps[i]) /\ ps[i].ts <= st /\ (ps[i].out => i = 1)
  BY DEF SeqOK, n
<1>6. \A i, j \in 1..n : i < j => \A x \in Events(ps[i]), y \in Events(ps[j]) : x < y
  BY DEF SeqOK, n
<1>7. SeqOK(rs, st)
  <2>1. ASSUME NEW i \in 1..(n - 1) PROVE PageOK(rs[i]) /\ rs[i].ts <= st /\ (rs[i].out => i = 1)
    BY <1>2, <1>5
  <2>2. ASSUME NEW i \in 1..(n - 1), NEW j \in 1..(n - 1), i < j,
               NEW x \in Events(rs[i]), NEW y \in Events(rs[j])
        PROVE  x < y
    <3>1. At(i) \in 1..n /\ At(j) \in 1..n /\ At(i) < At(j)
      BY <1>2, <1>3, <2>2
    <3>2. x \in Events(ps[At(i)]) /\ y \in Events(ps[At(j)])
      BY <1>2, <2>2
    <3>. QED
      BY <1>6, <3>1, <3>2
  <2>3. Len(rs) = n - 1
    BY DEF n
  <2>. QED
    BY <2>1, <2>2, <2>3 DEF SeqOK
<1>8. \A i, j \in 1..n : i # j => Events(ps[i]) \cap Events(ps[j]) = {}
  <2>. SUFFICES ASSUME NEW i \in 1..n, NEW j \in 1..n, i # j,
                       NEW x, x \in Events(ps[i]), x \in Events(ps[j])
                PROVE  FALSE
    OBVIOUS
  <2>1. x \in 1..MaxEvents
    BY <1>5, EventsType
  <2>2. i < j \/ j < i
    BY <1>1
  <2>3. x < x
    BY <1>6, <2>2
  <2>. QED
    BY <2>1, <2>3, Clock
<1>9. BufOf(rs) = BufOf(ps) \ Events(ps[k]) /\ Events(ps[k]) \subseteq BufOf(ps)
  <2>1. BufOf(rs) = UNION {Events(ps[At(i)]) : i \in 1..(n - 1)}
    BY <1>1, <1>2 DEF BufOf
  <2>2. BufOf(ps) = UNION {Events(ps[i]) : i \in 1..n}
    BY <1>1 DEF BufOf
  <2>3. ASSUME NEW x \in BufOf(rs) PROVE x \in BufOf(ps) \ Events(ps[k])
    <3>1. PICK i \in 1..(n - 1) : x \in Events(ps[At(i)])
      BY <2>1
    <3>2. At(i) \in 1..n /\ At(i) # k
      BY <1>2
    <3>. QED
      BY <1>1, <1>8, <2>2, <3>1, <3>2
  <2>4. ASSUME NEW x \in BufOf(ps), x \notin Events(ps[k]) PROVE x \in BufOf(rs)
    <3>1. PICK j \in 1..n : x \in Events(ps[j])
      BY <2>2
    <3>2. PICK i \in 1..(n - 1) : j = At(i)
      BY <1>4, <2>4, <3>1
    <3>. QED
      BY <2>1, <3>1, <3>2
  <2>. QED
    BY <1>1, <2>2, <2>3, <2>4
<1>10. ASSUME k = 1, NEW x \in Events(ps[k]), NEW y \in BufOf(rs) PROVE x < y
  <2>1. PICK i \in 1..(n - 1) : y \in Events(ps[At(i)])
    BY <1>1, <1>2 DEF BufOf
  <2>2. k < At(i) /\ At(i) \in 1..n
    BY <1>2, <1>10
  <2>. QED
    BY <1>1, <1>6, <1>10, <2>1, <2>2
<1>. QED
  BY <1>7, <1>9, <1>10

\* A page whose flags alone have changed.
LEMMA SeqReplace ==
  ASSUME NEW ps, NEW st, SeqOK(ps, st), NEW k \in 1..Len(ps),
         NEW q \in Page, q.rec = ps[k].rec, q.ts = ps[k].ts, q.used = ps[k].used,
         q.out => k = 1
  PROVE  LET rs == [ps EXCEPT ![k] = q]
         IN  /\ SeqOK(rs, st) /\ Len(rs) = Len(ps) /\ BufOf(rs) = BufOf(ps)
             /\ \A i \in 1..Len(ps) : /\ rs[i].rec = ps[i].rec /\ rs[i].ts = ps[i].ts
                                      /\ rs[i].used = ps[i].used
<1>. DEFINE n == Len(ps)
            rs == [ps EXCEPT ![k] = q]
<1>1. /\ ps \in Seq(Page) /\ n \in Nat /\ DOMAIN ps = 1..n
      /\ rs \in Seq(Page) /\ Len(rs) = n /\ DOMAIN rs = 1..n
      /\ rs[k] = q /\ \A i \in 1..n : i # k => rs[i] = ps[i]
  BY DEF SeqOK
<1>. HIDE DEF rs, n
<1>2. \A i \in 1..n : PageOK(ps[i]) /\ ps[i].ts <= st /\ (ps[i].out => i = 1)
  BY DEF SeqOK, n
<1>3. PageOK(q)
  <2>1. PageOK(ps[k])
    BY <1>2 DEF n
  <2>. QED
    BY <2>1 DEF PageOK
<1>4. \A i \in 1..n : Events(rs[i]) = Events(ps[i])
  <2>1. Events(q) = Events(ps[k])
    BY EventsOfPage
  <2>. QED
    BY <1>1, <2>1
<1>5. \A i \in 1..n : PageOK(rs[i]) /\ rs[i].ts <= st /\ (rs[i].out => i = 1)
  BY <1>1, <1>2, <1>3 DEF n
<1>6. SeqOK(rs, st)
  BY <1>1, <1>4, <1>5 DEF SeqOK, n
<1>7. BufOf(rs) = BufOf(ps)
  BY <1>1, <1>4 DEF BufOf
<1>8. \A i \in 1..n : rs[i].rec = ps[i].rec /\ rs[i].ts = ps[i].ts /\ rs[i].used = ps[i].used
  BY <1>1
<1>. QED
  BY <1>1, <1>6, <1>7, <1>8 DEF rs, n

-----------------------------------------------------------------------------
(* Writing an event.                                                       *)

\* The pages without the k-th one, and then one more.
LEMMA SeqOverwrite ==
  ASSUME NEW ps \in Seq(Page), NEW k \in 1..Len(ps), NEW q \in Page
  PROVE  LET rs == SubSeq(ps, 1, k - 1) \o SubSeq(ps, k + 1, Len(ps))
         IN  /\ rs \in Seq(Page) /\ Len(rs) = Len(ps) - 1
             /\ \A i \in 1..(Len(ps) - 1) : rs[i] = IF i < k THEN ps[i] ELSE ps[i + 1]
             /\ rs \o <<q>> = Append(rs, q)
<1>. DEFINE n == Len(ps)
            a == SubSeq(ps, 1, k - 1)
            b == SubSeq(ps, k + 1, n)
            rs == a \o b
<1>1. n \in Nat /\ k \in 1..n
  OBVIOUS
<1>2. a \in Seq(Page) /\ Len(a) = k - 1 /\ \A i \in 1..(k - 1) : a[i] = ps[i]
  BY <1>1
<1>3. b \in Seq(Page) /\ Len(b) = n - k /\ \A i \in 1..(n - k) : b[i] = ps[k + i]
  BY <1>1
<1>. HIDE DEF a, b, n
<1>4. /\ rs \in Seq(Page) /\ Len(rs) = n - 1
      /\ \A i \in 1..(n - 1) : rs[i] = IF i <= Len(a) THEN a[i] ELSE b[i - Len(a)]
  <2>1. /\ rs \in Seq(Page) /\ Len(rs) = Len(a) + Len(b)
        /\ \A i \in 1..(Len(a) + Len(b)) : rs[i] = IF i <= Len(a) THEN a[i] ELSE b[i - Len(a)]
    BY <1>2, <1>3, ConcatProperties
  <2>2. Len(a) + Len(b) = n - 1
    BY <1>1, <1>2, <1>3
  <2>. QED
    BY <2>1, <2>2
<1>5. ASSUME NEW i \in 1..(n - 1) PROVE rs[i] = IF i < k THEN ps[i] ELSE ps[i + 1]
  <2>1. CASE i < k
    BY <1>1, <1>2, <1>4, <2>1
  <2>2. CASE ~(i < k)
    <3>1. i - (k - 1) \in 1..(n - k) /\ k + (i - (k - 1)) = i + 1
      BY <1>1, <2>2
    <3>2. rs[i] = b[i - (k - 1)]
      BY <1>1, <1>2, <1>4, <2>2
    <3>. QED
      BY <1>3, <2>2, <3>1, <3>2
  <2>. QED
    BY <2>1, <2>2
<1>. HIDE DEF rs
<1>6. rs \o <<q>> = Append(rs, q)
  BY <1>4
<1>. QED
  BY <1>4, <1>5, <1>6 DEF rs, a, b, n

\* The full pages, once the writer leaves the last one.
Left(ps) ==
  SubSeq(ps, 1, Len(ps) - 1)
    \o (IF Padded(ps[Len(ps)]).rec = <<>> THEN <<>> ELSE <<Padded(ps[Len(ps)])>>)

LEMMA LeftOK ==
  ASSUME NEW ps, NEW st \in Nat, SeqOK(ps, st), Len(ps) > 0
  PROVE  /\ SeqOK(Left(ps), st) /\ BufOf(Left(ps)) = BufOf(ps)
         /\ Len(Left(ps)) \in Nat /\ Len(Left(ps)) <= Len(ps)
<1>. DEFINE front == SubSeq(ps, 1, Len(ps) - 1)
            last == ps[Len(ps)]
<1>1. /\ SeqOK(front, st) /\ Len(front) = Len(ps) - 1
      /\ PageOK(last) /\ last.ts <= st /\ (last.out => front = <<>>)
      /\ BufOf(ps) = BufOf(front) \cup Events(last)
      /\ \A x \in BufOf(front), y \in Events(last) : x < y
  BY SeqFront
<1>2. Len(ps) \in Nat /\ front \in Seq(Page)
  BY <1>1 DEF SeqOK
<1>3. PICK q : q = Padded(last)
  OBVIOUS
<1>4. PageOK(q) /\ q.ts = last.ts /\ q.out = last.out /\ Events(q) = Events(last) /\ q \in Page
  BY <1>1, <1>3, PaddedOK, EventsOfPage, PageFields
<1>5. Left(ps) = front \o (IF q.rec = <<>> THEN <<>> ELSE <<q>>)
  BY <1>3 DEF Left
<1>. HIDE DEF front, last
<1>6. CASE q.rec = <<>>
  <2>1. Left(ps) = front
    BY <1>2, <1>5, <1>6, ConcatEmptySeq
  <2>2. Events(q) = {}
    BY <1>6 DEF Events
  <2>. QED
    BY <1>1, <1>2, <1>4, <2>1, <2>2
<1>7. CASE q.rec # <<>>
  <2>1. Left(ps) = Append(front, q) /\ Len(Append(front, q)) = Len(front) + 1
    BY <1>2, <1>4, <1>5, <1>7
  <2>2. st <= st
    OBVIOUS
  <2>3. SeqOK(Append(front, q), st) /\ BufOf(Append(front, q)) = BufOf(front) \cup Events(q)
    BY <1>1, <1>4, <2>2, SeqAppend
  <2>. QED
    BY <1>1, <1>2, <1>4, <2>1, <2>3
<1>. QED
  BY <1>6, <1>7

\* A page that ends with event e, after the others.
LEMMA AddPage ==
  ASSUME NEW ps, NEW st \in Nat, SeqOK(ps, st), NEW e \in 1..MaxEvents, st <= TimeOf[e],
         NEW q, PageOK(q), q.ts <= TimeOf[e], q.out => ps = <<>>, q.used # 0,
         Timed(q.rec, q.ts, TimeOf[e]), Len(ps) <= RingPages,
         \A x \in BufOf(ps), y \in Events(q) : x < y
  PROVE  /\ PagesOK(Append(ps, q), TimeOf[e], e)
         /\ BufOf(Append(ps, q)) = BufOf(ps) \cup Events(q)
<1>1. TimeOf[e] \in Nat /\ RingPages \in Nat
  BY Clock
<1>2. SeqOK(Append(ps, q), TimeOf[e]) /\ BufOf(Append(ps, q)) = BufOf(ps) \cup Events(q)
  BY <1>1, SeqAppend
<1>3. ps \in Seq(Page) /\ q \in Page
  BY PageFields DEF SeqOK
<1>4. /\ Len(Append(ps, q)) = Len(ps) + 1 /\ Append(ps, q)[Len(ps) + 1] = q
      /\ Len(ps) \in Nat
  BY <1>3
<1>5. TimeOf[e] \in {TimeOf[j] : j \in 1..e}
  OBVIOUS
<1>6. LastOK(q, TimeOf[e], e)
  BY <1>5 DEF LastOK
<1>7. Len(ps) + 1 \in 1..(RingPages + 1)
  BY <1>1, <1>4
<1>. QED
  BY <1>2, <1>4, <1>6, <1>7 DEF PagesOK

\* The flags of a page alone have changed.
LEMMA PagesReplace ==
  ASSUME NEW ps, NEW st, NEW m, PagesOK(ps, st, m), NEW k \in 1..Len(ps),
         NEW q \in Page, q.rec = ps[k].rec, q.ts = ps[k].ts, q.used = ps[k].used,
         q.out => k = 1
  PROVE  /\ PagesOK([ps EXCEPT ![k] = q], st, m)
         /\ BufOf([ps EXCEPT ![k] = q]) = BufOf(ps)
<1>1. SeqOK(ps, st) /\ Len(ps) \in 1..(RingPages + 1) /\ LastOK(ps[Len(ps)], st, m)
  BY DEF PagesOK
<1>. DEFINE rs == [ps EXCEPT ![k] = q]
<1>3. /\ SeqOK(rs, st) /\ Len(rs) = Len(ps) /\ BufOf(rs) = BufOf(ps)
      /\ \A i \in 1..Len(ps) : /\ rs[i].rec = ps[i].rec /\ rs[i].ts = ps[i].ts
                               /\ rs[i].used = ps[i].used
  BY <1>1, SeqReplace
<1>. HIDE DEF rs
<1>4. Len(ps) \in 1..Len(ps)
  BY <1>1, Clock
<1>5. LastOK(rs[Len(rs)], st, m)
  BY <1>1, <1>3, <1>4 DEF LastOK
<1>. QED
  BY <1>1, <1>3, <1>5 DEF PagesOK, rs

\* Writing an event keeps the pages in order and loses at most the oldest page.
LEMMA WriteOK ==
  ASSUME TypeInv, PagesOK(pages, stamp, logged), BufOf(pages) \subseteq 1..logged,
         NEW e, e = logged + 1, logged < MaxEvents, Write(e)
  PROVE  /\ stamp' = TimeOf[e] /\ PagesOK(pages', TimeOf[e], e)
         /\ \E L \in SUBSET BufOf(pages) :
              lost' = lost \cup L /\ BufOf(pages') = (BufOf(pages) \ L) \cup {e}
<1>. DEFINE n == Len(pages)
            last == pages[n]
            d == IF last.used = 0 THEN 0 ELSE TimeOf[e] - stamp
            rec == Records(e, d, last.used)
            size == SizeOf(rec)
            front == SubSeq(pages, 1, n - 1)
            q == [last EXCEPT !.used = @ + size,
                              !.ts = IF last.used = 0 THEN TimeOf[e] ELSE @,
                              !.rec = @ \o rec]
            done == Left(pages)
            new == [EmptyPage EXCEPT !.used = size, !.ts = TimeOf[e], !.rec = Records(e, 0, 0)]
            first == IF done # <<>> /\ done[1].out THEN 2 ELSE 1
            rest == SubSeq(done, 1, first - 1) \o SubSeq(done, first + 1, Len(done))
            kept == rest \o <<new>>
<1>1. /\ e \in 1..MaxEvents /\ logged \in Nat /\ e - 1 = logged
      /\ TimeOf[e] \in Nat /\ RingPages \in Nat /\ RingPages > 0 /\ PageSize \in Nat
  BY Clock DEF TypeInv
<1>2. stamp \in Nat /\ stamp <= TimeOf[e]
  <2>1. CASE stamp = 0
    BY <1>1, <2>1
  <2>2. ASSUME NEW j \in 1..logged, stamp = TimeOf[j] PROVE stamp \in Nat /\ stamp <= TimeOf[e]
    <3>1. j \in 1..MaxEvents /\ j < e
      BY <1>1, Clock
    <3>2. TimeOf[j] \in Nat /\ TimeOf[j] < TimeOf[e]
      BY <1>1, <3>1, Clock
    <3>. QED
      BY <1>1, <2>2, <3>2
  <2>. QED
    BY <2>1, <2>2 DEF TypeInv
<1>3. /\ SeqOK(pages, stamp) /\ n \in 1..(RingPages + 1) /\ n \in Nat /\ n > 0
      /\ LastOK(last, stamp, logged)
  BY <1>1 DEF PagesOK
<1>4. /\ SeqOK(front, stamp) /\ Len(front) = n - 1
      /\ PageOK(last) /\ last.ts <= stamp /\ (last.out => front = <<>>)
      /\ BufOf(pages) = BufOf(front) \cup Events(last)
      /\ \A x \in BufOf(front), y \in Events(last) : x < y
      /\ \A p \in Page : [pages EXCEPT ![n] = p] = Append(front, p)
  BY <1>3, SeqFront
<1>5. last.used \in Nat /\ last.ts \in Nat /\ last.out \in BOOLEAN
  BY <1>4, PageFields
<1>6. \A x \in BufOf(pages) : x < e
  BY <1>1
<1>7. \A x \in EventsIn(last.rec) : x < e
  BY <1>4, <1>6, EventsOfPage
<1>8. /\ last.used = 0 => last.rec = <<>>
      /\ last.used # 0 => /\ Timed(last.rec, last.ts, stamp)
                          /\ stamp \in {TimeOf[j] : j \in 1..(e - 1)}
  <2>1. CASE last.used # 0
    BY <1>1, <1>3, <2>1 DEF LastOK
  <2>2. CASE last.used = 0
    BY <1>3, <2>2 DEF LastOK
  <2>. QED
    BY <2>1, <2>2
<1>9. TimeOf[e] - stamp \in Nat /\ d \in Nat
  BY <1>1, <1>2
<1>10. Len(rec) \in {1, 2} /\ size \in 1..PageSize
  <2>1. PICK s : s = d
    OBVIOUS
  <2>2. \E t : Precedes(t, e, d)
    <3>1. CASE last.used = 0
      BY <1>1, <3>1 DEF Precedes
    <3>2. CASE last.used # 0
      <4>1. d = TimeOf[e] - stamp /\ stamp \in {TimeOf[j] : j \in 1..(e - 1)}
        BY <1>8, <3>2
      <4>2. Precedes(stamp, e, TimeOf[e] - stamp)
        BY <1>1, <1>2, <1>9, <4>1 DEF Precedes
      <4>. QED
        BY <4>1, <4>2
    <3>. QED
      BY <3>1, <3>2
  <2>. HIDE DEF d, last
  <2>3. PICK t : Precedes(t, e, d)
    BY <2>2
  <2>4. OneRecord(rec, t, e, last.used) \/ TwoRecords(rec, t, e, last.used)
    BY <1>1, <1>5, <2>3, RecordsAre
  <2>. HIDE DEF rec
  <2>5. Len(rec) \in {1, 2}
    BY <2>4 DEF OneRecord, TwoRecords
  <2>6. size \in Nat /\ size > 0 /\ size <= PageSize
    BY <2>5, SizeBound
  <2>. QED
    BY <1>1, <2>5, <2>6
<1>11. /\ stamp' = TimeOf[e]
       /\ IF last.used + size <= PageSize
          THEN pages' = [pages EXCEPT ![n] = q] /\ lost' = lost
          ELSE IF Len(done) - first + 1 < RingPages
          THEN pages' = Append(done, new) /\ lost' = lost
          ELSE pages' = [kept EXCEPT ![first].gap = TRUE] /\ lost' = lost \cup Events(done[first])
  BY Zenon DEF Write, Left, SizeOf
<1>12. CASE last.used + size <= PageSize
  <2>1. /\ PageOK(q) /\ Timed(q.rec, q.ts, TimeOf[e])
        /\ q.ts \in {TimeOf[e], last.ts} /\ q.out = last.out
        /\ q.used = last.used + size
        /\ EventsIn(q.rec) = EventsIn(last.rec) \cup {e}
    <3>1. Extended(q, last, e, size, stamp)
      BY Zenon DEF Extended
    <3>. HIDE DEF q, last, size
    <3>2. Extendable(last, e, stamp)
      BY <1>4, <1>7, <1>8 DEF Extendable
    <3>3. size \in Nat
      BY <1>1, <1>10
    <3>. QED
      <4>1. stamp \in Nat /\ e \in 1..MaxEvents
        BY <1>1, <1>2
      <4>. HIDE DEF n, front, done, new, first, rest, kept, d, rec
      <4>. QED
        <5>1. ExtendedOK(q, last, e, size)
          BY <1>12, <3>1, <3>2, <3>3, <4>1, ExtendOK
        <5>. QED
          BY <5>1 DEF ExtendedOK
  <2>2. pages' = [pages EXCEPT ![n] = q] /\ lost' = lost
    <3>. HIDE DEF d, rec, size, done, new, first, rest, kept, q
    <3>. QED
      BY <1>11, <1>12
  <2>. HIDE DEF q, last, size, front
  <2>3. pages' = Append(front, q)
    BY <1>4, <2>1, <2>2, PageFields
  <2>4. Events(q) = Events(last) \cup {e}
    BY <2>1, EventsOfPage
  <2>5. \A x \in BufOf(front), y \in Events(q) : x < y
    BY <1>4, <1>6, <2>4
  <2>6. q.ts <= TimeOf[e] /\ q.used # 0
    BY <1>1, <1>2, <1>4, <1>5, <1>10, <2>1
  <2>7. PagesOK(Append(front, q), TimeOf[e], e) /\ BufOf(Append(front, q)) = BufOf(front) \cup Events(q)
    <3>1. Len(front) <= RingPages
      BY <1>1, <1>3, <1>4
    <3>. QED
      BY <1>1, <1>2, <1>4, <2>1, <2>5, <2>6, <3>1, AddPage
  <2>8. lost' = lost \cup {} /\ BufOf(pages') = (BufOf(pages) \ {}) \cup {e}
    BY <1>4, <2>2, <2>3, <2>4, <2>7
  <2>. QED
    BY <1>11, <2>3, <2>7, <2>8
<1>13. /\ SeqOK(done, stamp) /\ BufOf(done) = BufOf(pages)
       /\ Len(done) \in Nat /\ Len(done) <= n /\ done \in Seq(Page)
  BY <1>2, <1>3, LeftOK DEF SeqOK
<1>14. /\ PageOK(new) /\ Timed(new.rec, new.ts, TimeOf[e])
       /\ new.used = size /\ new.ts = TimeOf[e] /\ new.out = FALSE
       /\ Events(new) = {e} /\ new \in Page
  <2>1. /\ PageOK(new) /\ Timed(new.rec, new.ts, TimeOf[e])
        /\ new.used = size /\ new.ts = TimeOf[e] /\ new.out = FALSE
        /\ EventsIn(new.rec) = {e}
    <3>1. Len(Records(e, 0, 0)) = Len(rec)
      BY DEF Records
    <3>2. size = SizeOf(Records(e, 0, 0))
      BY <3>1 DEF SizeOf
    <3>3. e \in 1..MaxEvents /\ size \in 1..PageSize
      BY <1>1, <1>10
    <3>4. Started(new, e, size)
      BY <3>2 DEF Started
    <3>5. StartedOK(new, e, size)
      <4>. HIDE DEF size, new
      <4>. QED
        BY <3>3, <3>4, NewPageOK
    <3>. QED
      BY <3>5 DEF StartedOK
  <2>. HIDE DEF new
  <2>. QED
    BY <2>1, EventsOfPage, PageFields
<1>15. new.used # 0 /\ new.ts <= TimeOf[e] /\ first \in {1, 2}
  <2>. HIDE DEF new, done
  <2>. QED
    BY <1>1, <1>10, <1>14
<1>16. CASE ~(last.used + size <= PageSize) /\ Len(done) - first + 1 < RingPages
  <2>1. pages' = Append(done, new) /\ lost' = lost
    BY <1>11, <1>16
  <2>. HIDE DEF new, done, last, first, size
  <2>2. Len(done) <= RingPages
    BY <1>1, <1>13, <1>15, <1>16
  <2>3. \A x \in BufOf(done), y \in Events(new) : x < y
    BY <1>6, <1>13, <1>14
  <2>4. /\ PagesOK(Append(done, new), TimeOf[e], e)
        /\ BufOf(Append(done, new)) = BufOf(done) \cup Events(new)
    BY <1>1, <1>2, <1>13, <1>14, <1>15, <2>2, <2>3, AddPage
  <2>5. lost' = lost \cup {} /\ BufOf(pages') = (BufOf(pages) \ {}) \cup {e}
    BY <1>13, <1>14, <2>1, <2>4
  <2>. QED
    BY <1>11, <2>1, <2>4, <2>5
<1>17. CASE ~(last.used + size <= PageSize) /\ ~(Len(done) - first + 1 < RingPages)
  <2>1. pages' = [kept EXCEPT ![first].gap = TRUE] /\ lost' = lost \cup Events(done[first])
    BY <1>11, <1>17
  <2>2. first \in 1..Len(done)
    <3>. HIDE DEF new, done, last, first, size
    <3>. QED
      BY <1>1, <1>13, <1>15, <1>17
  <2>. HIDE DEF new, done, last, size
  <2>3. /\ rest \in Seq(Page) /\ Len(rest) = Len(done) - 1
        /\ \A i \in 1..(Len(done) - 1) : rest[i] = IF i < first THEN done[i] ELSE done[i + 1]
        /\ rest \o <<new>> = Append(rest, new)
    <3>. HIDE DEF first
    <3>. QED
      BY <1>13, <1>14, <2>2, SeqOverwrite
  <2>. HIDE DEF rest, first
  <2>4. /\ SeqOK(rest, stamp) /\ BufOf(rest) = BufOf(done) \ Events(done[first])
        /\ Events(done[first]) \subseteq BufOf(done)
    BY <1>13, <2>2, <2>3, SeqRemove
  <2>5. Len(rest) <= RingPages
    BY <1>1, <1>3, <1>13, <2>3
  <2>6. \A x \in BufOf(rest), y \in Events(new) : x < y
    BY <1>6, <1>13, <1>14, <2>4
  <2>7. PagesOK(kept, TimeOf[e], e) /\ BufOf(kept) = BufOf(rest) \cup Events(new)
    <3>1. kept = Append(rest, new) /\ (new.out => rest = <<>>)
      BY <1>14, <2>3
    <3>. HIDE DEF kept
    <3>. QED
      BY <1>1, <1>2, <1>14, <1>15, <2>4, <2>5, <2>6, <3>1, AddPage
  <2>8. Len(kept) = Len(done)
    BY <1>13, <1>14, <2>3
  <2>. HIDE DEF kept
  <2>9. SeqOK(kept, TimeOf[e]) /\ first \in 1..Len(kept) /\ kept \in Seq(Page)
    BY <2>2, <2>7, <2>8 DEF PagesOK, SeqOK
  <2>10. PICK g : g = [kept[first] EXCEPT !.gap = TRUE]
    OBVIOUS
  <2>11. /\ g \in Page /\ g.rec = kept[first].rec /\ g.ts = kept[first].ts
         /\ g.used = kept[first].used /\ (g.out => first = 1)
    <3>1. kept[first] \in Page /\ (kept[first].out => first = 1)
      BY <2>9 DEF SeqOK
    <3>. QED
      BY <2>10, <3>1 DEF Page
  <2>12. pages' = [kept EXCEPT ![first] = g]
    BY <2>1, <2>10
  <2>13. PagesOK(pages', TimeOf[e], e) /\ BufOf(pages') = BufOf(kept)
    BY <2>7, <2>9, <2>11, <2>12, PagesReplace
  <2>14. BufOf(pages') = (BufOf(pages) \ Events(done[first])) \cup {e}
    BY <1>13, <1>14, <2>4, <2>7, <2>13
  <2>. QED
    BY <1>11, <1>13, <2>1, <2>4, <2>13, <2>14
<1>. QED
  BY <1>12, <1>16, <1>17

-----------------------------------------------------------------------------
(* Reading a page.                                                         *)

\* More events, all of them younger.
LEMMA GoodConcat ==
  ASSUME NEW a, NEW b, NEW S, NEW R, GoodOut(a, S), GoodOut(b, R),
         \A x \in S, y \in R : x < y
  PROVE  GoodOut(a \o b, S \cup R) /\ EventsOf(a \o b) = EventsOf(a) \cup EventsOf(b)
<1>. DEFINE m == Len(a)
            n == Len(b)
            c == a \o b
<1>1. /\ a \in Seq(Event) /\ b \in Seq(Event) /\ m \in Nat /\ n \in Nat
      /\ DOMAIN a = 1..m /\ DOMAIN b = 1..n
  BY DEF GoodOut
<1>2. /\ c \in Seq(Event) /\ Len(c) = m + n /\ DOMAIN c = 1..(m + n)
      /\ \A i \in 1..(m + n) : c[i] = IF i <= m THEN a[i] ELSE b[i - m]
  BY <1>1, ConcatProperties
<1>3. /\ \A k \in 1..m : a[k].e \in S /\ a[k].ts = TimeOf[a[k].e]
      /\ \A k, l \in 1..m : k < l => a[k].e < a[l].e
  BY DEF GoodOut
<1>4. /\ \A k \in 1..n : b[k].e \in R /\ b[k].ts = TimeOf[b[k].e]
      /\ \A k, l \in 1..n : k < l => b[k].e < b[l].e
  BY DEF GoodOut
<1>. HIDE DEF m, n, c
<1>5. \A i \in 1..(m + n) : \/ i \in 1..m /\ c[i] = a[i]
                            \/ i > m /\ i - m \in 1..n /\ c[i] = b[i - m]
  BY <1>1, <1>2
<1>6. ASSUME NEW i \in 1..(m + n) PROVE c[i].e \in S \cup R /\ c[i].ts = TimeOf[c[i].e]
  BY <1>3, <1>4, <1>5
<1>7. ASSUME NEW i \in 1..(m + n), NEW j \in 1..(m + n), i < j PROVE c[i].e < c[j].e
  <2>1. CASE j \in 1..m
    <3>1. i \in 1..m /\ c[i] = a[i] /\ c[j] = a[j]
      BY <1>1, <1>2, <1>7, <2>1
    <3>. QED
      BY <1>3, <1>7, <2>1, <3>1
  <2>2. CASE j > m /\ i \in 1..m
    <3>1. j - m \in 1..n /\ c[i] = a[i] /\ c[j] = b[j - m]
      BY <1>1, <1>2, <2>2
    <3>. QED
      BY <1>3, <1>4, <2>2, <3>1
  <2>3. CASE i > m
    <3>1. /\ i - m \in 1..n /\ j - m \in 1..n /\ i - m < j - m
          /\ c[i] = b[i - m] /\ c[j] = b[j - m]
      BY <1>1, <1>2, <1>7, <2>3
    <3>. QED
      BY <1>4, <3>1
  <2>. QED
    BY <1>1, <1>7, <2>1, <2>2, <2>3
<1>8. GoodOut(c, S \cup R)
  BY <1>2, <1>6, <1>7 DEF GoodOut
<1>9. EventsOf(c) = EventsOf(a) \cup EventsOf(b)
  <2>1. ASSUME NEW x \in EventsOf(c) PROVE x \in EventsOf(a) \cup EventsOf(b)
    <3>1. PICK i \in 1..(m + n) : x = c[i].e
      BY <1>2 DEF EventsOf
    <3>. QED
      BY <1>1, <1>5, <3>1 DEF EventsOf
  <2>2. ASSUME NEW x \in EventsOf(a) PROVE x \in EventsOf(c)
    <3>1. PICK i \in 1..m : x = a[i].e
      BY <1>1 DEF EventsOf
    <3>2. i \in 1..(m + n) /\ c[i] = a[i]
      BY <1>1, <1>2
    <3>. QED
      BY <1>2, <3>1, <3>2 DEF EventsOf
  <2>3. ASSUME NEW x \in EventsOf(b) PROVE x \in EventsOf(c)
    <3>1. PICK i \in 1..n : x = b[i].e
      BY <1>1 DEF EventsOf
    <3>2. PICK j : j = m + i
      OBVIOUS
    <3>3. j \in 1..(m + n) /\ j > m /\ j - m = i /\ m \in Nat
      BY <1>1, <3>2
    <3>4. c[j] = b[i]
      <4>1. c[j] = IF j <= m THEN a[j] ELSE b[j - m]
        BY <1>2, <3>3
      <4>2. ~(j <= m)
        BY <3>3
      <4>. QED
        BY <3>3, <4>1, <4>2
    <3>. QED
      BY <1>2, <3>1, <3>3, <3>4 DEF EventsOf
  <2>. QED
    BY <2>1, <2>2, <2>3
<1>. QED
  BY <1>8, <1>9 DEF c

LEMMA GoodEvents ==
  ASSUME NEW o, NEW S, GoodOut(o, S)
  PROVE  EventsOf(o) \subseteq S
<1>1. DOMAIN o = 1..Len(o)
  BY DEF GoodOut
<1>. QED
  BY <1>1 DEF GoodOut, EventsOf

\* What is left when the first page is read.
RestOK(ps, p, rs, st, m) ==
  /\ PagesOK(rs, st, m)
  /\ BufOf(rs) = BufOf(ps) \ Events(p)
  /\ Events(p) \subseteq BufOf(ps)
  /\ \A x \in Events(p), y \in BufOf(rs) : x < y

LEMMA RemainingOK ==
  ASSUME PagesOK(pages, stamp, logged), stamp \in Nat
  PROVE  RestOK(pages, pages[1], Remaining, stamp, logged)
<1>. DEFINE n == Len(pages)
<1>1. /\ SeqOK(pages, stamp) /\ pages \in Seq(Page) /\ n \in 1..(RingPages + 1)
      /\ n \in Nat /\ n > 0 /\ RingPages \in Nat
      /\ LastOK(pages[n], stamp, logged) /\ DOMAIN pages = 1..n
  BY Clock DEF PagesOK, SeqOK
<1>2. CASE n > 1
  <2>1. PICK rs : rs = Tail(pages)
    OBVIOUS
  <2>2. /\ rs \in Seq(Page) /\ Len(rs) = n - 1
        /\ \A i \in 1..(n - 1) : rs[i] = pages[i + 1]
    <3>1. pages # <<>>
      BY <1>1
    <3>. QED
      BY <1>1, <2>1, <3>1, HeadTailProperties
  <2>3. /\ \A i \in 1..(n - 1) : rs[i] = IF i < 1 THEN pages[i] ELSE pages[i + 1]
        /\ 1 \in 1..n
    BY <1>1, <2>2
  <2>4. /\ SeqOK(rs, stamp) /\ BufOf(rs) = BufOf(pages) \ Events(pages[1])
        /\ Events(pages[1]) \subseteq BufOf(pages)
        /\ \A x \in Events(pages[1]), y \in BufOf(rs) : x < y
    BY <1>1, <2>2, <2>3, SeqRemove
  <2>5. n - 1 \in 1..(RingPages + 1) /\ rs[n - 1] = pages[n]
    BY <1>1, <1>2, <2>2
  <2>6. PagesOK(rs, stamp, logged)
    BY <1>1, <2>2, <2>4, <2>5 DEF PagesOK
  <2>7. Remaining = rs
    BY <1>2, <2>1 DEF Remaining
  <2>. QED
    BY <2>4, <2>6, <2>7 DEF RestOK
<1>3. CASE n = 1
  <2>1. PICK p : p = pages[1]
    OBVIOUS
  <2>2. p \in Page /\ LastOK(p, stamp, logged)
    BY <1>1, <1>3, <2>1
  <2>3. PICK r : r = [p EXCEPT !.rec = <<>>, !.ts = stamp, !.gap = FALSE, !.out = TRUE]
    OBVIOUS
  <2>4. r \in Page /\ r.rec = <<>> /\ r.ts = stamp /\ r.used = p.used
    <3>1. PICK none \in Seq(Rec), now \in Nat : none = <<>> /\ now = stamp
      <4>1. <<>> \in Seq(Rec)
        OBVIOUS
      <4>. QED
        BY <4>1, Zenon
    <3>2. r = [p EXCEPT !.rec = none, !.ts = now, !.gap = FALSE, !.out = TRUE]
      BY <2>3, <3>1
    <3>3. r \in Page /\ r.rec = none /\ r.ts = now /\ r.used = p.used
      BY <2>2, <3>2 DEF Page
    <3>. QED
      BY <3>1, <3>3
  <2>5. /\ Timed(r.rec, r.ts, stamp) /\ DataOnly(r.rec) /\ Ordered(r.rec)
        /\ Placed(r.rec, r.used)
    BY <2>4, TimedEmpty, PlacedEmpty DEF DataOnly, Ordered
  <2>6. PageOK(r)
    BY <2>4, <2>5 DEF PageOK
  <2>7. LastOK(r, stamp, logged)
    BY <2>2, <2>4, <2>5 DEF LastOK
  <2>8. Events(r) = {}
    BY <2>4 DEF Events
  <2>9. PICK rs : rs = <<r>>
    OBVIOUS
  <2>10. rs \in Seq(Page) /\ Len(rs) = 1 /\ rs[1] = r /\ DOMAIN rs = 1..1
    BY <2>4, <2>9
  <2>11. \A i \in 1..1 : i = 1
    OBVIOUS
  <2>12. SeqOK(rs, stamp)
    <3>1. r.ts <= stamp
      BY <2>4
    <3>. QED
      BY <2>6, <2>10, <2>11, <3>1 DEF SeqOK
  <2>13. 1 \in 1..(RingPages + 1)
    BY <1>1
  <2>14. PagesOK(rs, stamp, logged)
    BY <2>7, <2>10, <2>12, <2>13 DEF PagesOK
  <2>15. BufOf(rs) = {} /\ BufOf(pages) = Events(pages[1])
    BY <1>1, <1>3, <2>8, <2>10, <2>11 DEF BufOf
  <2>16. Remaining = rs
    BY <1>3, <2>1, <2>3, <2>9 DEF Remaining
  <2>. QED
    BY <2>14, <2>15, <2>16 DEF RestOK
<1>. QED
  BY <1>1, <1>2, <1>3

\* Taking a page out of the ring changes none of its events.
LEMMA TakenOK ==
  ASSUME PagesOK(pages, stamp, logged)
  PROVE  PagesOK(Taken, stamp, logged) /\ BufOf(Taken) = BufOf(pages)
<1>1. pages \in Seq(Page) /\ 1 \in 1..Len(pages)
  BY Clock DEF PagesOK, SeqOK
<1>2. PICK p : p = pages[1] /\ p \in Page
  BY <1>1
<1>3. PICK b \in BOOLEAN : b = (p.out \/ p.rec # <<>>)
  OBVIOUS
<1>4. PICK q : q = [p EXCEPT !.out = b]
  OBVIOUS
<1>5. q \in Page /\ q.rec = p.rec /\ q.ts = p.ts /\ q.used = p.used
  BY <1>2, <1>3, <1>4 DEF Page
<1>6. Taken = [pages EXCEPT ![1] = q]
  BY <1>2, <1>3, <1>4 DEF Taken
<1>. QED
  BY <1>1, <1>2, <1>5, <1>6, PagesReplace

-----------------------------------------------------------------------------
(* The invariant.                                                          *)

LEMMA Places ==
  /\ Buffered = BufOf(pages) /\ Buffered' = BufOf(pages')
  /\ Sent = EventsOf(sent) /\ Sent' = EventsOf(sent')
  BY DEF Buffered, BufOf, Sent, EventsOf

LEMMA StampType ==
  ASSUME TypeInv
  PROVE  stamp \in Nat
<1>1. \A j \in 1..logged : TimeOf[j] \in Nat
  BY Clock DEF TypeInv
<1>. QED
  BY <1>1 DEF TypeInv

\* The events broadcast, as a sequence.
LEMMA SentGood ==
  ASSUME Inv
  PROVE  GoodOut(sent, Sent) /\ Sent \subseteq 1..logged /\ Buffered \subseteq 1..logged
<1>1. sent \in Seq(Event) /\ DOMAIN sent = 1..Len(sent)
  BY DEF Inv, TypeInv, Event
<1>2. GoodOut(sent, Sent)
  BY <1>1 DEF GoodOut, Sent, Inv, SentOK, SentInOrder, StampsRight
<1>. QED
  BY <1>2 DEF Inv, PlacesOK

LEMMA InvInit ==
  ASSUME Init
  PROVE  Inv
<1>1. MaxEvents \in Nat /\ PageSize \in Nat /\ RingPages \in Nat
  BY Clock
<1>2. PICK p : p = EmptyPage
  OBVIOUS
<1>3. PICK none \in Seq(Rec) : none = <<>>
  <2>1. <<>> \in Seq(Rec)
    OBVIOUS
  <2>. QED
    BY <2>1, Zenon
<1>4. p \in Page /\ p.used = 0 /\ p.rec = <<>> /\ p.ts = 0 /\ p.out = FALSE
  <2>1. p = [used |-> 0, ts |-> 0, gap |-> FALSE, out |-> FALSE, rec |-> none]
    BY <1>2, <1>3 DEF EmptyPage
  <2>2. p \in Page /\ p.used = 0 /\ p.rec = none /\ p.ts = 0 /\ p.out = FALSE
    BY <1>1, <2>1 DEF Page
  <2>. QED
    BY <1>3, <2>2
<1>5. PageOK(p)
  <2>1. DataOnly(p.rec) /\ Ordered(p.rec) /\ Placed(p.rec, p.used)
    BY <1>4, PlacedEmpty DEF DataOnly, Ordered
  <2>2. PICK z \in Nat : z = 0
    OBVIOUS
  <2>3. Timed(p.rec, p.ts, z)
    BY <1>4, <2>2, TimedEmpty
  <2>. QED
    BY <1>4, <2>1, <2>3 DEF PageOK
<1>6. /\ pages \in Seq(Page) /\ Len(pages) = 1 /\ pages[1] = p /\ DOMAIN pages = 1..1
      /\ \A i \in 1..1 : i = 1
  BY <1>2, <1>4 DEF Init
<1>7. stamp = 0 /\ p.ts <= 0
  BY <1>4 DEF Init
<1>8. SeqOK(pages, stamp)
  BY <1>4, <1>5, <1>6, <1>7 DEF SeqOK
<1>9. PagesOK(pages, stamp, logged)
  <2>1. 1 \in 1..(RingPages + 1)
    BY <1>1
  <2>. QED
    BY <1>4, <1>6, <1>8, <2>1 DEF PagesOK, LastOK
<1>10. Buffered = {} /\ Sent = {}
  <2>1. Events(p) = {}
    BY <1>4 DEF Events
  <2>. QED
    BY <1>6, <2>1 DEF Buffered, Sent, Init
<1>11. TypeInv
  <2>1. count \in Nat /\ {full, armed, pending, wfull} \subseteq BOOLEAN /\ wpc = "idle"
    BY DEF Init
  <2>2. logged \in 0..MaxEvents /\ stamp = 0
    BY <1>1 DEF Init
  <2>3. sent \in Seq([e : 1..MaxEvents, ts : Nat]) /\ lost \subseteq 1..logged
    BY DEF Init
  <2>. QED
    BY <2>1, <2>2, <2>3 DEF TypeInv
<1>12. SentOK
  BY <1>10 DEF SentOK, SentInOrder, StampsRight, Init
<1>13. PlacesOK
  BY <1>10 DEF PlacesOK, Init
<1>. QED
  BY <1>9, <1>11, <1>12, <1>13 DEF Inv

\* Steps that leave the buffer and the messages alone.
LEMMA OtherStep ==
  ASSUME Inv, TypeInv', UNCHANGED <<pages, stamp, logged, sent, lost>>
  PROVE  Inv'
<1>1. Buffered' = Buffered /\ Sent' = Sent
  BY DEF Buffered, Sent, Events
<1>2. PagesOK(pages', stamp', logged')
  BY DEF Inv
<1>3. SentOK'
  BY <1>1 DEF Inv, SentOK, SentInOrder, StampsRight
<1>4. PlacesOK'
  BY <1>1 DEF Inv, PlacesOK
<1>. QED
  BY <1>2, <1>3, <1>4 DEF Inv

LEMMA QueueType ==
  ASSUME NEW n \in Nat, QueueFlush(n)
  PROVE  count' \in Nat /\ pending' \in BOOLEAN
  BY DEF QueueFlush

\* log_pkt_filter_event.
LEMMA LogStep ==
  ASSUME Inv, log_pkt_filter_event
  PROVE  Inv'
<1>1. PICK e : e = logged + 1
  OBVIOUS
<1>2. /\ logged \in Nat /\ logged < MaxEvents /\ logged' = e /\ e \in 1..MaxEvents
      /\ MaxEvents \in Nat /\ sent' = sent
      /\ lost \subseteq 1..logged
  BY <1>1, Clock DEF Inv, TypeInv, log_pkt_filter_event
<1>3. /\ count' \in Nat
      /\ {full', armed', pending', wfull'} \subseteq BOOLEAN
      /\ wpc' \in {"idle", "loop", "read"}
  <2>1. count \in Nat /\ count + 1 \in Nat /\ {full, armed, pending, wfull} \subseteq BOOLEAN
        /\ wpc \in {"idle", "loop", "read"}
    BY DEF Inv, TypeInv
  <2>2. armed' = armed /\ wpc' = wpc /\ wfull' = wfull
    BY DEF log_pkt_filter_event
  <2>3. CASE count + 1 >= Threshold
    <3>1. full' = TRUE /\ QueueFlush(count + 1)
      BY <2>3 DEF log_pkt_filter_event
    <3>2. count' \in Nat /\ pending' \in BOOLEAN
      BY <2>1, <3>1, QueueType
    <3>. QED
      BY <2>1, <2>2, <3>1, <3>2
  <2>4. CASE ~(count + 1 >= Threshold)
    <3>1. full' = full /\ pending' = pending /\ count' = count + 1
      BY <2>4 DEF log_pkt_filter_event
    <3>. QED
      BY <2>1, <2>2, <3>1
  <2>. QED
    BY <2>3, <2>4
<1>4. /\ GoodOut(sent, Sent) /\ Sent \subseteq 1..logged /\ Buffered \subseteq 1..logged
      /\ \A x \in Sent, y \in Buffered : x < y
      /\ Buffered \cup Sent \cup lost = 1..logged /\ lost \cap (Buffered \cup Sent) = {}
  BY SentGood DEF Inv, SentOK, PlacesOK
<1>5. 1..e = (1..logged) \cup {e} /\ \A x \in 1..logged : x \in Nat /\ x < e
  BY <1>1, <1>2
<1>6. Sent' = Sent /\ (SentInOrder /\ StampsRight)'
  BY <1>2 DEF Sent, SentInOrder, StampsRight, Inv, SentOK
<1>7. \A x \in Sent : x \notin Buffered
  BY <1>4, <1>5
<1>8. CASE Write(e)
  <2>1. TypeInv /\ PagesOK(pages, stamp, logged) /\ BufOf(pages) \subseteq 1..logged
    BY <1>4, Places DEF Inv
  <2>2. /\ stamp' = TimeOf[e] /\ PagesOK(pages', TimeOf[e], e)
        /\ \E L \in SUBSET BufOf(pages) :
             lost' = lost \cup L /\ BufOf(pages') = (BufOf(pages) \ L) \cup {e}
    BY <1>1, <1>2, <1>8, <2>1, WriteOK
  <2>3. PICK L \in SUBSET Buffered : /\ lost' = lost \cup L
                                     /\ Buffered' = (Buffered \ L) \cup {e}
    BY <2>2, Places
  <2>4. PagesOK(pages', stamp', logged')
    BY <1>2, <2>2
  <2>5. lost' \subseteq 1..logged'
    BY <1>2, <1>4, <1>5, <2>3
  <2>6. TypeInv'
    <3>1. stamp' \in {TimeOf[j] : j \in 1..logged'}
      BY <1>2, <2>2
    <3>2. sent' \in Seq([e : 1..MaxEvents, ts : Nat]) /\ logged' \in 0..MaxEvents
      BY <1>2 DEF Inv, TypeInv
    <3>. QED
      BY <1>3, <2>5, <3>1, <3>2 DEF TypeInv
  <2>7. \A x \in Sent', y \in Buffered' : x < y
    BY <1>4, <1>5, <1>6, <2>3
  <2>8. PlacesOK'
    <3>1. Buffered' \cup Sent' \cup lost' = 1..logged'
      BY <1>2, <1>4, <1>5, <1>6, <2>3
    <3>2. e \notin 1..logged
      BY <1>5
    <3>3. lost' \cap (Buffered' \cup Sent') = {}
      BY <1>2, <1>4, <1>6, <1>7, <2>3, <3>2
    <3>. QED
      BY <3>1, <3>3 DEF PlacesOK
  <2>. QED
    BY <1>6, <2>4, <2>6, <2>7, <2>8 DEF Inv, SentOK
<1>9. CASE lost' = lost \cup {e} /\ UNCHANGED <<pages, stamp>>
  <2>1. Buffered' = Buffered
    BY <1>9 DEF Buffered, Events
  <2>2. \A j \in 1..logged : j \in 1..logged'
    BY <1>2, <1>5
  <2>3. PagesOK(pages', stamp', logged')
    <3>1. PagesOK(pages, stamp, logged)
      BY DEF Inv
    <3>2. LastOK(pages[Len(pages)], stamp, logged')
      BY <2>2, <3>1 DEF PagesOK, LastOK
    <3>. QED
      BY <1>9, <3>1, <3>2 DEF PagesOK
  <2>4. TypeInv'
    <3>1. stamp' \in {0} \cup {TimeOf[j] : j \in 1..logged'}
      BY <1>9, <2>2 DEF Inv, TypeInv
    <3>2. sent' \in Seq([e : 1..MaxEvents, ts : Nat]) /\ logged' \in 0..MaxEvents
      BY <1>2 DEF Inv, TypeInv
    <3>3. lost' \subseteq 1..logged'
      BY <1>2, <1>5, <1>9
    <3>. QED
      BY <1>3, <3>1, <3>2, <3>3 DEF TypeInv
  <2>5. PlacesOK'
    <3>1. e \notin 1..logged
      BY <1>5
    <3>2. Buffered' \cup Sent' \cup lost' = 1..logged'
      BY <1>2, <1>4, <1>5, <1>6, <1>9, <2>1
    <3>3. lost' \cap (Buffered' \cup Sent') = {}
      BY <1>4, <1>6, <1>9, <2>1, <3>1
    <3>. QED
      BY <3>2, <3>3 DEF PlacesOK
  <2>. QED
    BY <1>4, <1>6, <2>1, <2>3, <2>4, <2>5 DEF Inv, SentOK
<1>. QED
  BY <1>1, <1>8, <1>9 DEF log_pkt_filter_event

\* flush_page.
LEMMA PageStep ==
  ASSUME Inv, flush_page
  PROVE  Inv'
<1>1. PICK p : p = pages[1]
  OBVIOUS
<1>2. pages \in Seq(Page) /\ Len(pages) > 0 /\ PageOK(p) /\ Head(pages) = p
  <2>1. PagesOK(pages, stamp, logged) /\ RingPages \in Nat
    BY Clock DEF Inv
  <2>2. pages \in Seq(Page) /\ Len(pages) > 0 /\ 1 \in 1..Len(pages)
    BY <2>1 DEF PagesOK, SeqOK
  <2>. QED
    BY <1>1, <2>1, <2>2 DEF PagesOK, SeqOK
<1>3. PICK out, left : /\ GoodOut(out, Events(p))
                       /\ EventsOf(out) = Events(p) \ left /\ left \subseteq Events(p)
                       /\ sent' = sent \o out
                       /\ lost' = lost \cup left
  <2>1. ASSUME NEW room \in MsgRooms,
               sent' = sent \o process_rb_page(p, room), lost' = lost \cup LeftOut(p, room)
        PROVE  \E out, left : /\ GoodOut(out, Events(p))
                              /\ EventsOf(out) = Events(p) \ left /\ left \subseteq Events(p)
                              /\ sent' = sent \o out
                              /\ lost' = lost \cup left
    <3>1. room \in Nat
      BY SizeAssumption
    <3>2. /\ GoodOut(process_rb_page(p, room), Events(p))
          /\ EventsOf(process_rb_page(p, room)) = Events(p) \ LeftOut(p, room)
          /\ LeftOut(p, room) \subseteq Events(p)
      BY <1>2, <3>1, LeftOutOK
    <3>. QED
      BY <2>1, <3>2
  <2>2. ASSUME sent' = sent, lost' = lost \cup Events(p)
        PROVE  \E out, left : /\ GoodOut(out, Events(p))
                              /\ EventsOf(out) = Events(p) \ left /\ left \subseteq Events(p)
                              /\ sent' = sent \o out
                              /\ lost' = lost \cup left
    <3>1. PICK none : none = <<>>
      OBVIOUS
    <3>2. GoodOut(none, Events(p)) /\ EventsOf(none) = {}
      BY <3>1 DEF GoodOut, EventsOf
    <3>3. sent \in Seq(Event)
      BY DEF Inv, TypeInv, Event
    <3>4. sent \o none = sent
      BY <3>1, <3>3, ConcatEmptySeq
    <3>5. EventsOf(none) = Events(p) \ Events(p)
      BY <3>2
    <3>. QED
      BY <2>2, <3>2, <3>4, <3>5
  <2>. QED
    BY <1>2, <2>1, <2>2 DEF flush_page
<1>4. /\ pages' = Remaining /\ stamp' = stamp /\ logged' = logged
      /\ count' = count /\ full' = full /\ armed' = armed /\ pending' = pending
      /\ wfull' = wfull /\ wpc' = "loop"
  BY DEF flush_page
<1>5. GoodOut(out, Events(p))
  BY <1>3
<1>6. RestOK(pages, p, pages', stamp, logged)
  <2>1. PagesOK(pages, stamp, logged) /\ stamp \in Nat
    BY StampType DEF Inv
  <2>. QED
    BY <1>1, <1>4, <2>1, RemainingOK
<1>7. /\ GoodOut(sent, Sent) /\ Sent \subseteq 1..logged /\ Buffered \subseteq 1..logged
      /\ \A x \in Sent, y \in Buffered : x < y
      /\ Buffered \cup Sent \cup lost = 1..logged /\ lost \cap (Buffered \cup Sent) = {}
  BY SentGood DEF Inv, SentOK, PlacesOK
<1>8. /\ Buffered' = Buffered \ Events(p) /\ Events(p) \subseteq Buffered
      /\ \A x \in Events(p), y \in Buffered' : x < y
      /\ PagesOK(pages', stamp', logged')
  BY <1>4, <1>6, Places DEF RestOK
<1>9. EventsOf(out) \subseteq Events(p)
  BY <1>5, GoodEvents
<1>10. GoodOut(sent \o out, Sent \cup Events(p)) /\ EventsOf(sent \o out) = Sent \cup EventsOf(out)
  <2>1. \A x \in Sent, y \in Events(p) : x < y
    BY <1>7, <1>8
  <2>. QED
    BY <1>5, <1>7, <2>1, GoodConcat, Places
<1>11. Sent' = Sent \cup EventsOf(out) /\ GoodOut(sent', Sent \cup Events(p))
  BY <1>3, <1>10, Places
<1>12. (SentInOrder /\ StampsRight)'
  <2>1. DOMAIN sent' = 1..Len(sent')
    BY <1>11 DEF GoodOut
  <2>. QED
    BY <1>11, <2>1 DEF GoodOut, SentInOrder, StampsRight
<1>13. \A x \in Sent', y \in Buffered' : x < y
  BY <1>7, <1>8, <1>9, <1>11
<1>14. \A x \in Sent : x \notin Buffered
  <2>1. \A x \in 1..logged : ~(x < x)
    OBVIOUS
  <2>. QED
    BY <1>7, <2>1
<1>15. PlacesOK'
  <2>1. Buffered' \cup Sent' \cup lost' = 1..logged'
    BY <1>3, <1>4, <1>7, <1>8, <1>9, <1>11
  <2>2. lost' \cap (Buffered' \cup Sent') = {}
    BY <1>3, <1>7, <1>8, <1>9, <1>11, <1>14
  <2>. QED
    BY <2>1, <2>2 DEF PlacesOK
<1>16. TypeInv'
  <2>1. lost' \subseteq 1..logged'
    BY <1>15 DEF PlacesOK
  <2>2. sent' \in Seq([e : 1..MaxEvents, ts : Nat])
    BY <1>11 DEF GoodOut, Event
  <2>. QED
    BY <1>4, <2>1, <2>2 DEF Inv, TypeInv
<1>. QED
  BY <1>8, <1>12, <1>13, <1>15, <1>16 DEF Inv, SentOK

\* flush_end.
LEMMA EndStep ==
  ASSUME Inv, flush_end
  PROVE  Inv'
<1>1. /\ pages' = Taken /\ stamp' = stamp /\ logged' = logged
      /\ sent' = sent /\ lost' = lost /\ TypeInv'
  BY DEF flush_end, outVars, Inv, TypeInv
<1>2. PagesOK(pages', stamp', logged') /\ BufOf(pages') = BufOf(pages)
  BY <1>1, TakenOK DEF Inv
<1>3. Buffered' = Buffered /\ Sent' = Sent
  BY <1>1, <1>2, Places
<1>4. SentOK'
  BY <1>1, <1>3 DEF Inv, SentOK, SentInOrder, StampsRight
<1>5. PlacesOK'
  BY <1>1, <1>3 DEF Inv, PlacesOK
<1>. QED
  BY <1>1, <1>2, <1>4, <1>5 DEF Inv

LEMMA InvNext ==
  ASSUME Inv, [Next]_vars
  PROVE  Inv'
<1>1. CASE log_pkt_filter_event
  BY <1>1, LogStep
<1>2. CASE sched_flush_pkt_filter_events
  <2>1. TypeInv' /\ UNCHANGED <<pages, stamp, logged, sent, lost>>
    <3>1. count \in Nat /\ QueueFlush(count)
      BY <1>2 DEF sched_flush_pkt_filter_events, Inv, TypeInv
    <3>2. count' \in Nat /\ pending' \in BOOLEAN
      BY <3>1, QueueType
    <3>. QED
      BY <1>2, <3>2 DEF sched_flush_pkt_filter_events, mod_timer, bufVars, outVars, Inv, TypeInv
  <2>. QED
    BY <2>1, OtherStep
<1>3. CASE flush_begin
  <2>1. TypeInv' /\ UNCHANGED <<pages, stamp, logged, sent, lost>>
    BY <1>3 DEF flush_begin, bufVars, outVars, Inv, TypeInv
  <2>. QED
    BY <2>1, OtherStep
<1>4. CASE flush_flag
  <2>1. TypeInv' /\ UNCHANGED <<pages, stamp, logged, sent, lost>>
    BY <1>4 DEF flush_flag, bufVars, outVars, Inv, TypeInv
  <2>. QED
    BY <2>1, OtherStep
<1>5. CASE flush_page
  BY <1>5, PageStep
<1>6. CASE flush_end
  BY <1>6, EndStep
<1>7. CASE UNCHANGED vars
  <2>1. TypeInv' /\ UNCHANGED <<pages, stamp, logged, sent, lost>>
    BY <1>7 DEF vars, bufVars, outVars, Inv, TypeInv
  <2>. QED
    BY <2>1, OtherStep
<1>. QED
  BY <1>1, <1>2, <1>3, <1>4, <1>5, <1>6, <1>7 DEF Next, FlushStep

\* The inductive invariant: a page leads from its time to the time of its last
\* event, the page being written to the last time stamp, and events that are
\* broadcast are older than those in the buffer.
THEOREM Invariance == Spec => []Inv
<1>1. Init => Inv
  BY InvInit
<1>2. Inv /\ [Next]_vars => Inv'
  BY InvNext
<1>. QED
  BY <1>1, <1>2, PTL DEF Spec

\* The ring buffer keeps to its pages and their size, for every number of pages,
\* every page size that holds an event, and every number of packets.
THEOREM TypeCorrect == Spec => []TypeOK
<1>1. ASSUME Inv PROVE TypeOK
  <2>1. TypeInv /\ SeqOK(pages, stamp) /\ Len(pages) \in 1..(RingPages + 1)
    BY <1>1 DEF Inv, PagesOK
  <2>2. stamp \in Nat /\ MaxEvents \in Nat /\ logged \in Nat
    BY <2>1, StampType, Clock DEF TypeInv
  <2>3. DOMAIN pages = 1..Len(pages)
    BY <2>1 DEF SeqOK
  <2>4. ASSUME NEW i \in DOMAIN pages
        PROVE  /\ pages[i].used \in 0..PageSize
               /\ pages[i].ts \in 0..stamp
               /\ pages[i].out => i = 1
    <3>1. PageOK(pages[i]) /\ pages[i].ts <= stamp /\ (pages[i].out => i = 1)
      BY <2>1, <2>3 DEF SeqOK
    <3>2. pages[i].used \in Nat /\ pages[i].used <= PageSize /\ pages[i].ts \in Nat
      BY <3>1, PageFields
    <3>. QED
      BY <2>2, <3>1, <3>2, Clock
  <2>5. lost \subseteq 1..MaxEvents
    BY <2>1, <2>2 DEF TypeInv
  <2>. QED
    BY <2>1, <2>4, <2>5 DEF TypeOK, TypeInv
<1>. QED
  BY <1>1, Invariance, PTL

\* User space gets the events in the order in which the packets were logged, none
\* of them twice.
THEOREM NothingOutOfOrder == Spec => []SentInOrder
<1>1. Inv => SentInOrder
  BY DEF Inv, SentOK
<1>. QED
  BY <1>1, Invariance, PTL

\* Every event broadcast carries the time at which its packet was logged, for every
\* clock that keeps to ClockAssumption, every choice of absolute stamps, and every
\* width of the two kinds of stamps.
THEOREM TimesAreRight == Spec => []StampsRight
<1>1. Inv => StampsRight
  BY DEF Inv, SentOK
<1>. QED
  BY <1>1, Invariance, PTL

\* Every event logged is in the buffer, broadcast, or lost for one of the causes known,
\* and in one of these places only: decoding finds each event of a page, whatever
\* records lie before it, and the message holds as many as it has room for.
THEOREM NothingUnaccountedFor == Spec => []EachEventOnce
<1>1. ASSUME Inv PROVE EachEventOnce
  <2>. DEFINE part == <<Buffered, Sent, lost>>
  <2>1. Buffered \cup Sent \cup lost = 1..logged /\ lost \cap (Buffered \cup Sent) = {}
    BY <1>1 DEF Inv, PlacesOK
  <2>2. Buffered \cap Sent = {}
    <3>1. Sent \subseteq 1..logged /\ logged \in Nat /\ \A x \in Sent, y \in Buffered : x < y
      BY <1>1, SentGood DEF Inv, SentOK, TypeInv
    <3>2. \A x \in 1..logged : ~(x < x)
      BY <3>1
    <3>. QED
      BY <3>1, <3>2
  <2>3. DOMAIN part = {1, 2, 3} /\ part[1] = Buffered /\ part[2] = Sent /\ part[3] = lost
    OBVIOUS
  <2>. HIDE DEF part
  <2>4. UNION {part[i] : i \in DOMAIN part} = Buffered \cup Sent \cup lost
    BY <2>3
  <2>5. \A i, j \in DOMAIN part : i # j => part[i] \cap part[j] = {}
    BY <2>1, <2>2, <2>3
  <2>. QED
    BY <2>1, <2>4, <2>5 DEF EachEventOnce, part
<1>. QED
  BY <1>1, Invariance, PTL

=============================================================================
