---------------------------- MODULE ClientProofs ----------------------------
(***************************************************************************)
(* Proofs about the user-space program, its database and the kernel module: *)
(* for every address width, every set of packets and files, every size of   *)
(* the messages and of the receive buffer, and any number of restarts.      *)
(***************************************************************************)
EXTENDS Client, SequenceTheorems, WellFoundedInduction, TLAPS

-----------------------------------------------------------------------------
(* The inductive invariant.                                                *)

BlobType == [1..Bytes -> 0..(Base - 1)]
RowType == [ip_addr : BlobType, ttl : Byte, hc : Byte]
HopsType == [ttl : Byte, hc : Byte]

\* A packet taught what announcement a says.
Told(a) == <<NetOf(a.ip), [ttl |-> a.ttl, hc |-> a.hc]>> \in taught

\* What a message or a row says was taught, unless its network was announced from a
\* leaf that had been replaced.
Credible(a) == Told(a) \/ NetOf(a.ip) \in overtaken

\* A row is an announcement, put away.
IsRow(r) == \E a \in Announcement : r = Row(a) /\ Credible(a)

SetterOK ==
  /\ setter \in [busy : BOOLEAN, rows : Seq(RowType), read : Seq(RowType)]
  /\ setter.rows = setter.read
  /\ Range(setter.rows) \subseteq Range(db)

Inv ==
  /\ TypeOK
  /\ SetterOK
  /\ \A a \in ann : Told(a)
  /\ \A a \in Range(queue) : Credible(a)
  /\ \A r \in Range(db) : IsRow(r)
  /\ KnownOrLost
  /\ RestoredWasLearned
  /\ BogonExact

-----------------------------------------------------------------------------
(* Arithmetic.                                                             *)

LEMMA Smallest ==
  ASSUME NEW T, T \subseteq Nat, T # {}
  PROVE  \E x \in T : \A y \in T : x <= y
<1>1. PICK x \in T : \A y \in T : ~(<<y, x>> \in OpToRel(<, Nat))
  BY NatLessThanWellFounded, WFMin, Zenon
<1>2. \A y \in T : ~(y < x)
  BY <1>1, Zenon DEF OpToRel
<1>. QED
  BY <1>2

\* A set of indices has a largest element.
LEMMA Largest ==
  ASSUME NEW N \in Nat, NEW T, T \subseteq 1..N, T # {}
  PROVE  \E x \in T : \A y \in T : y <= x
<1>. DEFINE D == {N - i : i \in T}
<1>1. D \subseteq Nat /\ D # {}
  <2>1. \A i \in T : N - i \in Nat
    OBVIOUS
  <2>2. PICK i \in T : TRUE
    OBVIOUS
  <2>3. N - i \in D
    OBVIOUS
  <2>. QED
    BY <2>1, <2>3
<1>2. PICK d \in D : \A e \in D : d <= e
  <2>. HIDE DEF D
  <2>. QED
    BY <1>1, Smallest
<1>3. PICK x \in T : d = N - x
  OBVIOUS
<1>4. ASSUME NEW y \in T PROVE y <= x
  <2>1. d <= N - y
    BY <1>2
  <2>. QED
    BY <1>3, <2>1
<1>. QED
  BY <1>4

LEMMA NextMultiple ==
  ASSUME NEW d \in Nat, NEW x \in Int, NEW y \in Int, x < y
  PROVE  d * (x + 1) <= d * y
<1>1. PICK z \in Nat : y = x + 1 + z
  <2>1. y - x - 1 \in Nat /\ y = x + 1 + (y - x - 1)
    OBVIOUS
  <2>. QED
    BY <2>1
<1>2. d * z >= 0
  OBVIOUS
<1>3. d * y = d * (x + 1) + d * z
  BY <1>1
<1>. QED
  BY <1>2, <1>3

LEMMA Division ==
  ASSUME NEW a \in Nat, NEW d \in Nat, d > 0
  PROVE  /\ a \div d \in Nat
         /\ a % d \in 0..(d - 1)
         /\ a = d * (a \div d) + (a % d)
<1>1. a \div d \in Nat
  OBVIOUS
<1>2. a % d \in 0..(d - 1)
  OBVIOUS
<1>3. a = d * (a \div d) + (a % d)
  OBVIOUS
<1>. QED
  BY <1>1, <1>2, <1>3

LEMMA QuotientUnique ==
  ASSUME NEW a \in Nat, NEW d \in Nat, d > 0, NEW q \in Nat,
         d * q <= a, a < d * q + d
  PROVE  a \div d = q
<1>. DEFINE p == a \div d
<1>1. p \in Nat /\ d * p <= a /\ a < d * (p + 1) /\ d * (q + 1) = d * q + d
  BY Division
<1>. HIDE DEF p
<1>2. ASSUME p < q PROVE FALSE
  <2>1. d * (p + 1) <= d * q
    BY <1>1, <1>2, NextMultiple
  <2>. QED
    BY <2>1, <1>1
<1>3. ASSUME q < p PROVE FALSE
  <2>1. d * (q + 1) <= d * p
    BY <1>1, <1>3, NextMultiple
  <2>. QED
    BY <2>1, <1>1
<1>4. p = q
  BY <1>1, <1>2, <1>3
<1>. QED
  BY <1>4 DEF p

\* One more digit.
LEMMA NextDigit ==
  ASSUME NEW a \in Nat, NEW p \in Nat, p > 0, NEW b \in Nat, b > 0
  PROVE  /\ a \div (b * p) \in Nat
         /\ (a \div p) % b \in 0..(b - 1)
         /\ p * (a \div p) = (b * p) * (a \div (b * p)) + ((a \div p) % b) * p
<1>. DEFINE q == a \div p
            r == a % p
            h == q \div b
            d == q % b
<1>1. q \in Nat /\ r \in 0..(p - 1) /\ a = p * q + r
  BY Division
<1>. HIDE DEF q, r
<1>2. h \in Nat /\ d \in 0..(b - 1) /\ q = b * h + d
  BY <1>1, Division
<1>. HIDE DEF h, d
<1>3. p * q = (b * p) * h + d * p
  <2>1. p * q = p * (b * h) + p * d
    BY <1>1, <1>2
  <2>2. p * (b * h) = (b * p) * h /\ p * d = d * p
    BY <1>2
  <2>. QED
    BY <2>1, <2>2
<1>4. b * p \in Nat /\ b * p > 0 /\ (b * p) * h \in Nat
  <2>1. b * p \in Nat /\ b * p > 0
    OBVIOUS
  <2>. QED
    BY <1>2, <2>1
<1>5. d * p <= (b - 1) * p /\ (b - 1) * p = b * p - p /\ d * p >= 0 /\ d * p \in Int
  <2>1. PICK z \in Nat : b - 1 = d + z
    BY <1>2
  <2>2. (b - 1) * p = d * p + z * p /\ z * p >= 0 /\ d * p >= 0
    BY <1>2, <2>1
  <2>. QED
    BY <1>2, <2>2
<1>6. (b * p) * h <= a /\ a < (b * p) * h + b * p
  BY <1>1, <1>3, <1>4, <1>5
<1>7. a \div (b * p) = h
  BY <1>2, <1>4, <1>6, QuotientUnique
<1>. QED
  BY <1>2, <1>3, <1>7 DEF h, d, q

-----------------------------------------------------------------------------
(* Addresses and rows.                                                     *)

LEMMA Sizes ==
  /\ Base \in Nat /\ Base > 0 /\ Bytes \in Nat /\ HostAddrs \in Nat /\ HostAddrs > 0
  /\ Base^0 = 1
  /\ \A i \in 0..Bytes : Base^i \in Nat /\ Base^i > 0 /\ Base^(i + 1) = Base * Base^i
  /\ Addr \subseteq Nat
<1>1. Base \in Nat /\ Base > 0 /\ Bytes \in Nat /\ HostAddrs \in Nat /\ HostAddrs > 0
  BY ClientAssumption
<1>2. /\ Base^0 = 1
      /\ \A i \in 0..Bytes : Base^i \in Nat /\ Base^i > 0 /\ Base^(i + 1) = Base * Base^i
  BY PowAssumption
<1>3. Addr \subseteq Nat
  BY <1>1, <1>2 DEF Addr
<1>. QED
  BY <1>1, <1>2, <1>3

LEMMA BlobIs ==
  ASSUME NEW ip \in Addr
  PROVE  /\ Blob(ip) \in BlobType
         /\ \A i \in 1..Bytes : Blob(ip)[i] = (ip \div Base^(i - 1)) % Base
<1>1. ip \in Nat /\ Base \in Nat /\ Base > 0 /\ Bytes \in Nat
  BY Sizes
<1>2. ASSUME NEW i \in 1..Bytes PROVE (ip \div Base^(i - 1)) % Base \in 0..(Base - 1)
  <2>1. i - 1 \in 0..Bytes
    BY <1>1
  <2>2. PICK p \in Nat : p = Base^(i - 1) /\ p > 0
    BY <2>1, Sizes
  <2>3. ip \div p \in Nat
    BY <1>1, <2>2, Division
  <2>4. (ip \div p) % Base \in 0..(Base - 1)
    BY <1>1, <2>3, Division
  <2>. QED
    BY <2>2, <2>4
<1>. QED
  BY <1>2 DEF Blob, BlobType

\* The bytes of an address, stored and read back, are the address.
LEMMA RoundTrip ==
  ASSUME NEW ip \in Addr
  PROVE  nla_get_in_addr(Blob(ip)) = ip
<1>. DEFINE blob == Blob(ip)
            Def(f) == [i \in 0..Bytes |->
                         IF i = 0 THEN 0 ELSE f[i - 1] + blob[i] * Base^(i - 1)]
            sum == CHOOSE f : f = Def(f)
            \* What the digits above the first i leave.
            low == [i \in 0..Bytes |-> ip - Base^i * (ip \div Base^i)]
<1>1. ip \in Nat /\ Base \in Nat /\ Base > 0 /\ Bytes \in Nat
  BY Sizes
<1>2. nla_get_in_addr(blob) = sum[Bytes]
  BY DEF nla_get_in_addr
<1>3. \A i \in 1..Bytes : blob[i] = (ip \div Base^(i - 1)) % Base
  BY BlobIs
<1>. HIDE DEF blob
<1>4. low[0] = 0
  <2>1. ip \div 1 = ip /\ 1 * ip = ip
    BY <1>1
  <2>. QED
    BY <1>1, <2>1, Sizes
<1>5. ASSUME NEW i \in 1..Bytes PROVE low[i] = low[i - 1] + blob[i] * Base^(i - 1)
  <2>1. i - 1 \in 0..Bytes /\ (i - 1) + 1 = i /\ i \in 0..Bytes
    BY <1>1
  <2>2. PICK p \in Nat : p = Base^(i - 1) /\ p > 0 /\ Base^i = Base * p
    BY <2>1, Sizes
  <2>3. /\ ip \div (Base * p) \in Nat /\ (ip \div p) % Base \in 0..(Base - 1)
        /\ p * (ip \div p) = (Base * p) * (ip \div (Base * p)) + ((ip \div p) % Base) * p
    BY <1>1, <2>2, NextDigit
  <2>4. low[i] = ip - (Base * p) * (ip \div (Base * p)) /\ low[i - 1] = ip - p * (ip \div p)
    BY <2>1, <2>2
  <2>5. blob[i] * Base^(i - 1) = ((ip \div p) % Base) * p
    BY <1>3, <2>2
  <2>6. PICK a \in Int, b \in Int, c \in Int :
          /\ a = p * (ip \div p) /\ b = (Base * p) * (ip \div (Base * p))
          /\ c = ((ip \div p) % Base) * p
    <3>1. p * (ip \div p) \in Int
      BY <1>1, <2>2
    <3>2. (Base * p) * (ip \div (Base * p)) \in Int
      BY <1>1, <2>2, <2>3
    <3>3. ((ip \div p) % Base) * p \in Int
      BY <1>1, <2>2, <2>3
    <3>. QED
      BY <3>1, <3>2, <3>3
  <2>. HIDE DEF low
  <2>7. a = b + c /\ low[i] = ip - b /\ low[i - 1] = ip - a /\ blob[i] * Base^(i - 1) = c
    BY <2>3, <2>4, <2>5, <2>6
  <2>. QED
    BY <1>1, <2>7
<1>6. low[Bytes] = ip
  <2>1. PICK M \in Nat : M = Base^Bytes /\ M > 0
    <3>1. Bytes \in 0..Bytes
      BY <1>1
    <3>. QED
      BY <3>1, Sizes
  <2>2. ip < M
    BY <2>1 DEF Addr
  <2>3. M * 0 = 0 /\ 0 <= ip
    BY <1>1, <2>1
  <2>4. ip \div M = 0
    BY <1>1, <2>1, <2>2, <2>3, QuotientUnique
  <2>5. Bytes \in 0..Bytes
    BY <1>1
  <2>. QED
    BY <1>1, <2>1, <2>3, <2>4, <2>5
<1>7. low = Def(low)
  <2>1. ASSUME NEW i \in 0..Bytes PROVE low[i] = Def(low)[i]
    <3>. HIDE DEF low
    <3>1. CASE i = 0
      BY <1>4, <3>1
    <3>2. CASE i # 0
      <4>1. i \in 1..Bytes
        BY <1>1, <3>2
      <4>. QED
        BY <1>5, <3>2, <4>1
    <3>. QED
      BY <3>1, <3>2
  <2>2. DOMAIN low = 0..Bytes /\ DOMAIN Def(low) = 0..Bytes
    OBVIOUS
  <2>. QED
    BY <2>1, <2>2
<1>. HIDE DEF low
<1>8. sum = Def(sum)
  <2>. HIDE DEF Def
  <2>. QED
    BY <1>7
<1>. HIDE DEF sum
<1>9. sum[0] = 0 /\ \A i \in 1..Bytes : sum[i] = sum[i - 1] + blob[i] * Base^(i - 1)
  BY <1>1, <1>8
<1>10. \A i \in 0..Bytes : sum[i] = low[i]
  <2>. DEFINE Bad == {i \in 0..Bytes : sum[i] # low[i]}
  <2>1. SUFFICES ASSUME Bad # {} PROVE FALSE
    OBVIOUS
  <2>2. PICK i \in Bad : \A j \in Bad : i <= j
    <3>1. Bad \subseteq Nat
      BY <1>1
    <3>. HIDE DEF Bad
    <3>. QED
      BY <2>1, <3>1, Smallest
  <2>3. i \in 1..Bytes
    <3>1. i \in 0..Bytes /\ sum[i] # low[i] /\ sum[0] = low[0]
      BY <1>4, <1>9
    <3>. QED
      BY <3>1, <1>1
  <2>4. i - 1 \in 0..Bytes /\ i - 1 \notin Bad
    <3>1. i - 1 \in 0..Bytes /\ ~(i <= i - 1)
      BY <1>1, <2>3
    <3>. QED
      BY <2>2, <3>1
  <2>5. sum[i - 1] = low[i - 1]
    BY <2>4
  <2>6. sum[i] = low[i]
    BY <1>5, <1>9, <2>3, <2>5
  <2>. QED
    BY <2>6
<1>11. Bytes \in 0..Bytes
  BY <1>1
<1>. QED
  BY <1>2, <1>6, <1>10, <1>11 DEF blob

\* What is known of a row that was an announcement.
LEMMA RowIs ==
  ASSUME NEW a \in Announcement
  PROVE  /\ Row(a) \in RowType
         /\ nla_get_in_addr(Row(a).ip_addr) = a.ip
         /\ Row(a).ttl = a.ttl /\ Row(a).hc = a.hc
         /\ NetOf(a.ip) \in Net /\ a.ip \in Addr
<1>1. a.ip \in Addr /\ a.ttl \in Byte /\ a.hc \in Byte
  BY DEF Announcement
<1>2. PICK b \in BlobType : b = Blob(a.ip)
  BY <1>1, BlobIs
<1>3. Row(a) = [ip_addr |-> b, ttl |-> a.ttl, hc |-> a.hc]
  BY <1>2 DEF Row
<1>4. /\ Row(a) \in RowType /\ Row(a).ip_addr = b
      /\ Row(a).ttl = a.ttl /\ Row(a).hc = a.hc
  BY <1>1, <1>3 DEF RowType
<1>5. nla_get_in_addr(b) = a.ip
  BY <1>1, <1>2, RoundTrip
<1>6. NetOf(a.ip) \in Net
  BY <1>1 DEF NetOf, Net
<1>. QED
  BY <1>1, <1>4, <1>5, <1>6

LEMMA HopsOfType == \A t \in Byte : HopsOf(t) \in Byte
  BY DEF HopsOf, hcf_get_initial_ttl, Byte

LEMMA NotNoHops == \A h \in HopsType : h # NoHops
<1>1. \A h \in HopsType : h.hc \in Byte
  BY DEF HopsType
<1>2. NoHops.hc = -1 /\ -1 \notin Byte
  BY DEF NoHops, Byte
<1>. QED
  BY <1>1, <1>2

NetOfRow(r) == NetOf(nla_get_in_addr(r.ip_addr))

\* The trie made of a history has the networks of its rows, each with what one of
\* its rows says.
MapIs(rows) ==
  /\ MapOf(rows) \in [Net -> HopsType \cup {NoHops}]
  /\ \A r \in Range(rows) : NetOfRow(r) \in Net => MapOf(rows)[NetOfRow(r)] # NoHops
  /\ \A n \in Net : MapOf(rows)[n] # NoHops =>
       \E r \in Range(rows) : NetOfRow(r) = n /\ MapOf(rows)[n] = [ttl |-> r.ttl, hc |-> r.hc]

LEMMA MapOfRows ==
  ASSUME NEW rows \in Seq(RowType)
  PROVE  MapIs(rows)
<1>. DEFINE At(n) == {i \in DOMAIN rows : NetOf(nla_get_in_addr(rows[i].ip_addr)) = n}
            Top(n) == CHOOSE i \in At(n) : \A j \in At(n) : j <= i
            Said(r) == [ttl |-> r.ttl, hc |-> r.hc]
<1>1. DOMAIN rows = 1..Len(rows) /\ Len(rows) \in Nat
  OBVIOUS
<1>2. ASSUME NEW n, At(n) # {} PROVE Top(n) \in At(n)
  <2>1. At(n) \subseteq 1..Len(rows)
    BY <1>1
  <2>. HIDE DEF At
  <2>2. \E i \in At(n) : \A j \in At(n) : j <= i
    BY <1>1, <1>2, <2>1, Largest
  <2>. QED
    BY <2>2
<1>3. MapOf(rows) = [n \in Net |-> IF At(n) = {} THEN NoHops ELSE Said(rows[Top(n)])]
  BY DEF MapOf
<1>4. \A i \in DOMAIN rows : rows[i] \in RowType /\ Said(rows[i]) \in HopsType
                             /\ Said(rows[i]) # NoHops
  <2>1. \A i \in DOMAIN rows : rows[i] \in RowType
    OBVIOUS
  <2>2. \A r \in RowType : Said(r) \in HopsType
    BY DEF RowType, HopsType
  <2>. QED
    BY <2>1, <2>2, NotNoHops
<1>5. \A n : Top(n) \in At(n) => Top(n) \in DOMAIN rows /\ NetOfRow(rows[Top(n)]) = n
  BY DEF NetOfRow
<1>6. ASSUME NEW i \in DOMAIN rows PROVE At(NetOfRow(rows[i])) # {}
  BY DEF NetOfRow
<1>. HIDE DEF At, Top, Said
<1>7. MapOf(rows) \in [Net -> HopsType \cup {NoHops}]
  BY <1>2, <1>3, <1>4, <1>5
<1>8. ASSUME NEW r \in Range(rows), NetOfRow(r) \in Net PROVE MapOf(rows)[NetOfRow(r)] # NoHops
  <2>1. PICK i \in DOMAIN rows : r = rows[i]
    BY DEF Range
  <2>2. At(NetOfRow(r)) # {}
    BY <1>6, <2>1
  <2>. QED
    BY <1>2, <1>3, <1>4, <1>5, <1>8, <2>2
<1>9. ASSUME NEW n \in Net, MapOf(rows)[n] # NoHops
      PROVE  \E r \in Range(rows) : NetOfRow(r) = n /\ MapOf(rows)[n] = Said(r)
  <2>1. At(n) # {} /\ MapOf(rows)[n] = Said(rows[Top(n)])
    BY <1>3, <1>9
  <2>2. Top(n) \in DOMAIN rows /\ NetOfRow(rows[Top(n)]) = n
    BY <1>2, <1>5, <2>1
  <2>3. rows[Top(n)] \in Range(rows)
    BY <2>2 DEF Range
  <2>. QED
    BY <2>1, <2>2, <2>3
<1>. QED
  BY <1>7, <1>8, <1>9 DEF MapIs, Said

-----------------------------------------------------------------------------
(* The list of prefixes.                                                   *)

\* A list that is sent has the first lines of the file, as many as fit.
LEMMA ListExact ==
  ASSUME NEW f \in Files, NEW size \in ListSizes, send_bogon_list(f, size)
  PROVE  BogonExact' /\ bogons' \in Seq(Prefix \cup {ZeroPrefix})
<1>. DEFINE room == (size - GenlHeader) \div PrefixEntry
            lines == PackedLines(f, size)
            num == NumPrefix(f, size)
            len == IF Len(f) < room THEN Len(f) ELSE room
<1>1. size \in Nat /\ Len(f) \in Nat /\ DOMAIN f = 1..Len(f)
  <2>1. f \in Seq(Prefix \cup {BadLength, BadAddress})
    BY ClientAssumption
  <2>. QED
    BY <2>1, ClientAssumption
<1>2. room \in Int /\ 20 * room <= size - 20 /\ size - 20 < 20 * (room + 1)
  BY <1>1 DEF GenlHeader, PrefixEntry
<1>3. lines = SubSeq(f, 1, len)
  BY DEF PackedLines
<1>. HIDE DEF room
<1>4. len \in Int /\ len <= Len(f)
  BY <1>1, <1>2
<1>5. Len(lines) = (IF 1 <= len THEN len ELSE 0) /\ \A i \in 1..len : lines[i] = f[i]
  <2>1. f \in Seq(Prefix \cup {BadLength, BadAddress})
    BY ClientAssumption
  <2>. HIDE DEF len, lines
  <2>2. CASE 1 <= len
    BY <1>1, <1>3, <1>4, <2>1, <2>2, SubSeqProperties
  <2>3. CASE ~(1 <= len)
    <3>1. SubSeq(f, 1, len) = <<>>
      BY <1>4, <2>1, <2>3, SubSeqProperties
    <3>. QED
      BY <1>3, <1>4, <2>3, <3>1
  <2>. QED
    BY <2>2, <2>3
<1>6. num > 0 /\ num = Len(lines) /\ num = len /\ len >= 1
  <2>1. num > 0
    BY DEF send_bogon_list
  <2>. HIDE DEF len, lines
  <2>2. num = Len(lines) \/ num = 0
    BY DEF NumPrefix, lines
  <2>. HIDE DEF num
  <2>. QED
    BY <1>4, <1>5, <2>1, <2>2
<1>7. file' = f /\ bogons' \in [1..num -> Prefix \cup {ZeroPrefix}]
      /\ \A i \in 1..num : bogons'[i] \in IF i <= Len(lines) THEN Parsed(lines[i]) ELSE {ZeroPrefix}
  BY Zenon DEF send_bogon_list
<1>. HIDE DEF len, lines, num
<1>8. \A i \in 1..num : i <= Len(lines) /\ lines[i] = f[i]
  BY <1>4, <1>5, <1>6
<1>9. \A i \in 1..num : bogons'[i] \in Parsed(f[i])
  BY <1>7, <1>8
<1>10. /\ bogons' \in Seq(Prefix \cup {ZeroPrefix}) /\ Len(bogons') = num
       /\ DOMAIN bogons' = 1..num
  <2>1. num \in Nat
    BY <1>4, <1>6
  <2>2. bogons' \in Seq(Prefix \cup {ZeroPrefix})
    BY <1>7, <2>1
  <2>3. DOMAIN bogons' = 1..num
    BY <1>7
  <2>. QED
    BY <2>1, <2>2, <2>3
<1>11. num < Len(f) => GenlHeader + (num + 1) * PrefixEntry > size
  <2>1. ASSUME num < Len(f) PROVE num = room
    <3>1. len = Len(f) \/ len = room
      BY DEF len
    <3>. QED
      BY <1>1, <1>2, <1>6, <2>1, <3>1
  <2>. QED
    BY <1>1, <1>2, <2>1 DEF GenlHeader, PrefixEntry
<1>. QED
  BY <1>4, <1>6, <1>7, <1>9, <1>10, <1>11 DEF BogonExact

-----------------------------------------------------------------------------
(* The invariant.                                                          *)

\* Addresses that are on their way to the database, in it, or lost.
Somewhere == StoredAddrs \cup InFlight \cup lost

\* Steps that leave the trie alone and lose sight of no address.
LEMMA StillKnown ==
  ASSUME KnownOrLost, RestoredWasLearned, hops' = hops, Somewhere \subseteq Somewhere',
         taught' = taught, overtaken \subseteq overtaken'
  PROVE  KnownOrLost' /\ RestoredWasLearned'
  BY DEF KnownOrLost, RestoredWasLearned, Somewhere

\* A packet's lesson is not forgotten.
LEMMA StillTold ==
  ASSUME taught \subseteq taught', overtaken \subseteq overtaken'
  PROVE  /\ \A a : Told(a) => Told(a)'
         /\ \A a : Credible(a) => Credible(a)'
         /\ \A r : IsRow(r) => IsRow(r)'
<1>1. \A a : Told(a) => Told(a)'
  BY DEF Told
<1>2. \A a : Credible(a) => Credible(a)'
  BY <1>1 DEF Credible
<1>. QED
  BY <1>1, <1>2 DEF IsRow

\* The entries of a pending announcement.
LEMMA PendingIs ==
  ASSUME NEW a \in Pending
  PROVE  /\ a = [ip |-> a.ip, ttl |-> a.ttl, hc |-> a.hc, stale |-> a.stale]
         /\ a.ip \in Addr /\ a.ttl \in Byte /\ a.hc \in Byte /\ a.stale \in BOOLEAN
  BY DEF Pending

\* Replacing leaves changes nothing but whether they are stale.
LEMMA ReplacedIs ==
  ASSUME ann \subseteq Pending, NEW nets
  PROVE  /\ Replaced(nets) \subseteq Pending
         /\ \A b \in Replaced(nets) : \E a \in ann : b.ip = a.ip /\ b.ttl = a.ttl /\ b.hc = a.hc
         /\ \A a \in ann : \E b \in Replaced(nets) : b.ip = a.ip
<1>. DEFINE Mark(a) == [a EXCEPT !.stale = @ \/ NetOf(a.ip) \in nets]
<1>1. ASSUME NEW a \in ann
      PROVE  /\ Mark(a) \in Pending
             /\ Mark(a).ip = a.ip /\ Mark(a).ttl = a.ttl /\ Mark(a).hc = a.hc
  <2>1. PICK i \in Addr, t \in Byte, h \in Byte, o \in BOOLEAN :
          a = [ip |-> i, ttl |-> t, hc |-> h, stale |-> o]
    BY PendingIs
  <2>2. PICK q \in BOOLEAN : q = (o \/ NetOf(a.ip) \in nets)
    OBVIOUS
  <2>3. a.stale = o
    BY <2>1
  <2>4. Mark(a) = [ip |-> i, ttl |-> t, hc |-> h, stale |-> q]
    BY <2>1, <2>2, <2>3
  <2>. QED
    BY <2>1, <2>4 DEF Pending
<1>2. Replaced(nets) = {Mark(a) : a \in ann}
  BY DEF Replaced
<1>. HIDE DEF Mark
<1>. QED
  BY <1>1, <1>2

\* ... so what they say stays what was taught, and their addresses stay in flight.
LEMMA ReplacedOK ==
  ASSUME Inv, NEW nets, Replaced(nets) \subseteq ann', queue' = queue, taught \subseteq taught'
  PROVE  /\ Replaced(nets) \subseteq Pending
         /\ \A b \in Replaced(nets) : Told(b)'
         /\ InFlight \subseteq InFlight'
<1>1. /\ Replaced(nets) \subseteq Pending
      /\ \A b \in Replaced(nets) : \E a \in ann : b.ip = a.ip /\ b.ttl = a.ttl /\ b.hc = a.hc
      /\ \A a \in ann : \E b \in Replaced(nets) : b.ip = a.ip
  BY ReplacedIs DEF Inv, TypeOK
<1>2. ASSUME NEW b \in Replaced(nets) PROVE Told(b)'
  <2>1. PICK a \in ann : b.ip = a.ip /\ b.ttl = a.ttl /\ b.hc = a.hc
    BY <1>1
  <2>2. Told(a)
    BY DEF Inv
  <2>. QED
    BY <2>1, <2>2 DEF Told
<1>3. ASSUME NEW x \in InFlight PROVE x \in InFlight'
  <2>1. PICK a \in ann \cup Range(queue) : x = a.ip
    BY DEF InFlight
  <2>2. \E b \in ann' \cup Range(queue') : b.ip = x
    BY <1>1, <2>1
  <2>. QED
    BY <2>2 DEF InFlight
<1>. QED
  BY <1>1, <1>2, <1>3

\* The list and its file stay.
LEMMA SameList ==
  ASSUME BogonExact, bogons' = bogons, file' = file
  PROVE  BogonExact'
  BY DEF BogonExact

LEMMA RangeEmpty == Range(<<>>) = {}
  BY DEF Range

LEMMA RangeAppend ==
  ASSUME NEW S, NEW s \in Seq(S), NEW x \in S
  PROVE  Range(Append(s, x)) = Range(s) \cup {x}
<1>. DEFINE t == Append(s, x)
<1>1. /\ Len(s) \in Nat /\ DOMAIN s = 1..Len(s) /\ DOMAIN t = 1..(Len(s) + 1)
      /\ t[Len(s) + 1] = x /\ \A i \in 1..Len(s) : t[i] = s[i]
  OBVIOUS
<1>. HIDE DEF t
<1>2. Range(t) = Range(s) \cup {x}
  BY <1>1 DEF Range
<1>. QED
  BY <1>2 DEF t

LEMMA RangeTail ==
  ASSUME NEW S, NEW s \in Seq(S), s # <<>>
  PROVE  Range(s) = Range(Tail(s)) \cup {Head(s)} /\ Head(s) \in S
         /\ Tail(s) \in Seq(S) /\ Len(Tail(s)) = Len(s) - 1
<1>. DEFINE t == Tail(s)
            n == Len(s)
<1>1. /\ n \in Nat /\ n > 0 /\ DOMAIN s = 1..n /\ DOMAIN t = 1..(n - 1) /\ t \in Seq(S)
      /\ Len(t) = n - 1 /\ Head(s) = s[1] /\ \A i \in 1..(n - 1) : t[i] = s[i + 1]
  OBVIOUS
<1>. HIDE DEF t, n
<1>2. ASSUME NEW x \in Range(s) PROVE x \in Range(t) \cup {Head(s)}
  <2>1. PICK i \in 1..n : x = s[i]
    BY <1>1 DEF Range
  <2>2. CASE i = 1
    BY <1>1, <2>1, <2>2
  <2>3. CASE i # 1
    <3>1. PICK j : j = i - 1
      OBVIOUS
    <3>2. j \in 1..(n - 1) /\ j + 1 = i
      BY <1>1, <2>3, <3>1
    <3>3. x = t[j]
      BY <1>1, <2>1, <3>2
    <3>. QED
      BY <1>1, <3>2, <3>3 DEF Range
  <2>. QED
    BY <2>2, <2>3
<1>3. ASSUME NEW x \in Range(t) PROVE x \in Range(s)
  <2>1. PICK i \in 1..(n - 1) : x = t[i]
    BY <1>1 DEF Range
  <2>2. i + 1 \in 1..n /\ x = s[i + 1]
    BY <1>1, <2>1
  <2>. QED
    BY <1>1, <2>2 DEF Range
<1>4. Head(s) \in Range(s) /\ Head(s) \in S
  <2>1. 1 \in 1..n
    BY <1>1
  <2>. QED
    BY <1>1, <2>1 DEF Range
<1>. QED
  BY <1>1, <1>2, <1>3, <1>4 DEF t, n

LEMMA InvInit ==
  ASSUME Init
  PROVE  Inv
<1>1. ann = {} /\ queue = <<>> /\ db = <<>> /\ setter = Idle /\ bogons = <<>> /\ file = <<>>
      /\ hops = [n \in Net |-> NoHops] /\ lost = {} /\ taught = {}
  BY DEF Init
<1>2. Range(queue) = {} /\ Range(db) = {} /\ QueueCap \in Nat
  BY <1>1, RangeEmpty, ClientAssumption
<1>3. TypeOK
  <2>1. hops \in [Net -> [ttl : Byte, hc : Byte] \cup {NoHops}]
    BY <1>1
  <2>2. bogons \in Seq(Prefix \cup {ZeroPrefix}) /\ queue \in Seq(Announcement)
        /\ Len(queue) <= QueueCap
    BY <1>1, <1>2
  <2>3. db \in Seq([ip_addr : [1..Bytes -> 0..(Base - 1)], ttl : Byte, hc : Byte])
        /\ \A i, j \in DOMAIN db : i # j => db[i].ip_addr # db[j].ip_addr
    BY <1>1
  <2>4. setter.busy \in BOOLEAN
    BY <1>1 DEF Idle
  <2>. QED
    BY <1>1, <2>1, <2>2, <2>3, <2>4 DEF TypeOK, Init
<1>4. SetterOK
  <2>1. PICK none \in Seq(RowType) : none = <<>>
    <3>1. <<>> \in Seq(RowType)
      OBVIOUS
    <3>. QED
      BY <3>1, Zenon
  <2>2. setter = [busy |-> FALSE, rows |-> none, read |-> none]
    BY <1>1, <2>1 DEF Idle
  <2>3. /\ setter \in [busy : BOOLEAN, rows : Seq(RowType), read : Seq(RowType)]
        /\ setter.rows = none /\ setter.read = none
    BY <2>2
  <2>. QED
    BY <2>1, <2>3, RangeEmpty DEF SetterOK
<1>5. KnownOrLost /\ RestoredWasLearned
  BY <1>1 DEF KnownOrLost, RestoredWasLearned
<1>6. BogonExact
  BY <1>1 DEF BogonExact
<1>. QED
  BY <1>1, <1>2, <1>3, <1>4, <1>5, <1>6 DEF Inv

\* hcf_register_ip_work.
LEMMA LearnStep ==
  ASSUME Inv, NEW p \in Packets, learn(p.ip, p.ttl)
  PROVE  Inv'
<1>1. PICK ip \in Addr, t \in Byte : ip = p.ip /\ t = p.ttl
  BY ClientAssumption
<1>2. PICK n \in Net, m \in HopsType : n = NetOf(ip) /\ m = Meta(t) /\ m.ttl = t /\ m.hc = HopsOf(t)
  <2>1. NetOf(ip) \in Net
    BY DEF NetOf, Net
  <2>2. Meta(t) \in HopsType /\ Meta(t).ttl = t /\ Meta(t).hc = HopsOf(t)
    BY HopsOfType DEF Meta, HopsType
  <2>. QED
    BY <2>1, <2>2
<1>3. PICK a : a = [ip |-> ip, ttl |-> t, hc |-> HopsOf(t), stale |-> FALSE]
  OBVIOUS
<1>4. a \in Pending /\ a.ip = ip /\ [ttl |-> a.ttl, hc |-> a.hc] = m
  <2>1. a \in Pending /\ a.ip = ip /\ a.ttl = t /\ a.hc = HopsOf(t)
    BY <1>3, HopsOfType DEF Pending
  <2>. QED
    BY <1>2, <2>1 DEF Meta
<1>5. /\ hops' = [hops EXCEPT ![n] = m]
      /\ taught' = taught \cup {<<n, m>>}
      /\ ann' = Replaced({n}) \cup {x \in {a} : hops[n] = NoHops}
      /\ bogons' = bogons /\ attack' = attack /\ listener' = listener /\ queue' = queue
      /\ db' = db /\ setter' = setter /\ lost' = lost /\ overtaken' = overtaken /\ file' = file
  BY <1>1, <1>2, <1>3 DEF learn, IsNew, userVars
<1>6. hops \in [Net -> HopsType \cup {NoHops}]
  BY DEF Inv, TypeOK, HopsType
<1>7. hops'[n] = m /\ \A k \in Net : k # n => hops'[k] = hops[k]
  BY <1>5, <1>6
<1>8. hops' \in [Net -> HopsType \cup {NoHops}]
  BY <1>5, <1>6
<1>9. /\ Replaced({n}) \subseteq Pending
      /\ \A b \in Replaced({n}) : Told(b)'
      /\ InFlight \subseteq InFlight'
  BY <1>5, ReplacedOK
<1>10. TypeOK'
  <2>1. ann' \subseteq Pending
    BY <1>4, <1>5, <1>9
  <2>. QED
    BY <1>5, <1>8, <2>1 DEF Inv, TypeOK, HopsType
<1>11. (\A x \in ann : Told(x))'
  <2>1. Told(a)'
    BY <1>2, <1>4, <1>5 DEF Told
  <2>2. \A x \in ann' : x = a \/ x \in Replaced({n})
    BY <1>5
  <2>. QED
    BY <1>9, <2>1, <2>2
<1>12. (\A x \in Range(queue) : Credible(x))' /\ (\A r \in Range(db) : IsRow(r))'
  BY <1>5, StillTold DEF Inv
<1>13. KnownOrLost'
  <2>. DEFINE Networks == {k \in Net : hops[k] # NoHops} \cup {q[1] : q \in taught}
  <2>. SUFFICES ASSUME NEW k \in Networks'
                PROVE  \E x \in Somewhere' : NetOf(x) = k
    BY DEF KnownOrLost, Somewhere
  <2>1. Somewhere \subseteq Somewhere'
    BY <1>5, <1>9 DEF Somewhere, StoredAddrs
  <2>2. CASE k \in Networks
    BY <2>1, <2>2 DEF Inv, KnownOrLost, Somewhere
  <2>3. CASE k \notin Networks
    <3>1. k = n /\ hops[n] = NoHops
      <4>1. k \in {q[1] : q \in taught'} => k \in {q[1] : q \in taught} \/ k = n
        BY <1>5
      <4>2. k \in {l \in Net : hops'[l] # NoHops} => k \in {l \in Net : hops[l] # NoHops} \/ k = n
        BY <1>7
      <4>. QED
        BY <2>3, <4>1, <4>2
    <3>2. a \in ann'
      BY <1>5, <3>1
    <3>3. a.ip \in InFlight'
      BY <3>2 DEF InFlight
    <3>. QED
      BY <1>2, <1>4, <3>1, <3>3 DEF Somewhere
  <2>. QED
    BY <2>2, <2>3
<1>14. RestoredWasLearned'
  BY <1>5, <1>7 DEF Inv, RestoredWasLearned
<1>15. SetterOK' /\ BogonExact'
  BY <1>5, SameList DEF Inv, SetterOK
<1>. QED
  BY <1>10, <1>11, <1>12, <1>13, <1>14, <1>15 DEF Inv

\* hcf_log_new_ip: what is sent is a pair of bytes, and the one that was taught
\* unless the leaf was replaced.
LEMMA LeafIs ==
  ASSUME Inv, NEW a \in ann, NEW leaf \in LeafOf(a), NEW m,
         m = [ip |-> a.ip, ttl |-> leaf.ttl, hc |-> leaf.hc]
  PROVE  m \in Announcement /\ m.ip = a.ip /\ (Told(m) \/ a.stale)
<1>1. a \in Pending /\ Told(a)
  BY DEF Inv, TypeOK
<1>2. a.ip \in Addr /\ a.ttl \in Byte /\ a.hc \in Byte
  BY <1>1, PendingIs
<1>3. CASE leaf = [ttl |-> a.ttl, hc |-> a.hc]
  <2>1. m.ip = a.ip /\ m.ttl = a.ttl /\ m.hc = a.hc /\ m \in Announcement
    BY <1>2, <1>3 DEF Announcement
  <2>. QED
    BY <1>1, <2>1 DEF Told
<1>4. CASE leaf \in Garbage /\ a.stale
  <2>1. leaf.ttl \in Byte /\ leaf.hc \in Byte
    BY <1>4, ClientAssumption
  <2>. QED
    BY <1>2, <1>4, <2>1 DEF Announcement
<1>. QED
  BY <1>3, <1>4 DEF LeafOf

LEMMA AnnounceStep ==
  ASSUME Inv, NEW a \in ann, hcf_log_new_ip(a)
  PROVE  Inv'
<1>1. /\ ann' = ann \ {a} /\ hops' = hops /\ bogons' = bogons /\ attack' = attack
      /\ listener' = listener /\ db' = db /\ setter' = setter /\ taught' = taught /\ file' = file
      /\ overtaken' = overtaken \cup {n \in {NetOf(a.ip)} : a.stale}
  BY DEF hcf_log_new_ip
<1>2. a.ip \in Addr /\ queue \in Seq(Announcement)
      /\ Len(queue) <= QueueCap /\ QueueCap \in Nat
  BY ClientAssumption, PendingIs DEF Inv, TypeOK
<1>3. PICK leaf \in LeafOf(a) :
        \/ /\ Len(queue) < QueueCap /\ lost' = lost
           /\ queue' = Append(queue, [ip |-> a.ip, ttl |-> leaf.ttl, hc |-> leaf.hc])
        \/ lost' = lost \cup {a.ip} /\ queue' = queue
  BY DEF hcf_log_new_ip, Delivered
<1>4. PICK m : m = [ip |-> a.ip, ttl |-> leaf.ttl, hc |-> leaf.hc]
  OBVIOUS
<1>5. m \in Announcement /\ m.ip = a.ip /\ (Told(m) \/ a.stale)
  BY <1>4, LeafIs
<1>6. \/ Len(queue) < QueueCap /\ queue' = Append(queue, m) /\ lost' = lost
      \/ lost' = lost \cup {a.ip} /\ queue' = queue
  BY <1>3, <1>4
<1>7. /\ queue' \in Seq(Announcement) /\ Len(queue') <= QueueCap
      /\ Range(queue') \subseteq Range(queue) \cup {m}
      /\ lost' \subseteq Addr
  <2>1. CASE Len(queue) < QueueCap /\ queue' = Append(queue, m) /\ lost' = lost
    BY <1>2, <1>5, <2>1, RangeAppend DEF Inv, TypeOK
  <2>2. CASE lost' = lost \cup {a.ip} /\ queue' = queue
    BY <1>2, <2>2 DEF Inv, TypeOK
  <2>. QED
    BY <1>6, <2>1, <2>2
<1>8. Somewhere \subseteq Somewhere'
  <2>1. StoredAddrs' = StoredAddrs
    BY <1>1 DEF StoredAddrs
  <2>2. CASE queue' = Append(queue, m) /\ lost' = lost
    <3>1. Range(queue') = Range(queue) \cup {m}
      BY <1>2, <1>5, <2>2, RangeAppend
    <3>2. ASSUME NEW x \in InFlight PROVE x \in InFlight'
      <4>1. PICK b \in ann \cup Range(queue) : x = b.ip
        BY DEF InFlight
      <4>2. \E c \in ann' \cup Range(queue') : c.ip = x
        BY <1>1, <1>5, <3>1, <4>1
      <4>. QED
        BY <4>2 DEF InFlight
    <3>. QED
      BY <2>1, <2>2, <3>2 DEF Somewhere
  <2>3. CASE lost' = lost \cup {a.ip} /\ queue' = queue
    <3>1. InFlight \subseteq InFlight' \cup {a.ip}
      BY <1>1, <2>3 DEF InFlight
    <3>. QED
      BY <2>1, <2>3, <3>1 DEF Somewhere
  <2>. QED
    BY <1>6, <2>2, <2>3
<1>9. KnownOrLost' /\ RestoredWasLearned'
  BY <1>1, <1>8, StillKnown DEF Inv
<1>10. TypeOK'
  BY <1>1, <1>7 DEF Inv, TypeOK
<1>11. (\A x \in ann : Told(x))' /\ (\A r \in Range(db) : IsRow(r))'
  BY <1>1, StillTold DEF Inv
<1>12. (\A x \in Range(queue) : Credible(x))'
  <2>1. Credible(m)'
    <3>1. CASE a.stale
      BY <1>1, <1>5, <3>1 DEF Credible
    <3>2. CASE Told(m)
      BY <1>1, <3>2, StillTold DEF Credible
    <3>. QED
      BY <1>5, <3>1, <3>2
  <2>2. \A x \in Range(queue) : Credible(x)'
    BY <1>1, StillTold DEF Inv
  <2>. QED
    BY <1>7, <2>1, <2>2
<1>13. SetterOK' /\ BogonExact'
  BY <1>1, SameList DEF Inv, SetterOK
<1>. QED
  BY <1>9, <1>10, <1>11, <1>12, <1>13 DEF Inv

\* What is left to show of a step that leaves the trie alone and loses sight of
\* no address: the parts that it changes.
LEMMA QuietStep ==
  ASSUME Inv, hops' = hops, taught' = taught, overtaken' = overtaken, ann' = ann,
         bogons' = bogons, file' = file, Somewhere \subseteq Somewhere', TypeOK', SetterOK',
         Range(queue') \subseteq Range(queue), \A r \in Range(db') : IsRow(r)
  PROVE  Inv'
<1>1. KnownOrLost' /\ RestoredWasLearned'
  BY StillKnown DEF Inv
<1>2. (\A x \in ann : Told(x))' /\ (\A x \in Range(queue) : Credible(x))'
  <2>1. (\A x \in ann' : Told(x)) /\ \A x \in Range(queue') : Credible(x)
    BY DEF Inv
  <2>. QED
    BY <2>1, StillTold
<1>3. (\A r \in Range(db) : IsRow(r))'
  BY StillTold
<1>4. BogonExact'
  BY SameList DEF Inv
<1>. QED
  BY <1>1, <1>2, <1>3, <1>4 DEF Inv

\* set_hcf does not run.
LEMMA IdleOK ==
  ASSUME setter' = Idle
  PROVE  SetterOK'
<1>1. PICK none \in Seq(RowType) : none = <<>>
  <2>1. <<>> \in Seq(RowType)
    OBVIOUS
  <2>. QED
    BY <2>1, Zenon
<1>2. setter' = [busy |-> FALSE, rows |-> none, read |-> none]
  BY <1>1 DEF Idle
<1>3. /\ setter' \in [busy : BOOLEAN, rows : Seq(RowType), read : Seq(RowType)]
      /\ setter'.rows = none /\ setter'.read = none
  BY <1>2
<1>. QED
  BY <1>1, <1>3, RangeEmpty DEF SetterOK

\* The module is loaded again.
LEMMA ReloadStep ==
  ASSUME Inv, reload
  PROVE  Inv'
<1>1. /\ hops' = [n \in Net |-> NoHops] /\ bogons' = <<>> /\ file' = <<>> /\ attack' = FALSE
      /\ listener' \in {"on", "off", "deaf"} /\ setter' = Idle /\ ann' = ann /\ queue' = queue
      /\ db' = db /\ taught' = taught /\ overtaken' = overtaken /\ lost' = lost
  BY DEF reload, histVars, Inv, TypeOK
<1>2. SetterOK'
  BY <1>1, IdleOK
<1>3. TypeOK'
  <2>1. setter'.busy \in BOOLEAN
    BY <1>1 DEF Idle
  <2>2. bogons' \in Seq(Prefix \cup {ZeroPrefix})
    BY <1>1
  <2>3. hops' \in [Net -> [ttl : Byte, hc : Byte] \cup {NoHops}]
    BY <1>1
  <2>. QED
    BY <1>1, <2>1, <2>2, <2>3 DEF Inv, TypeOK
<1>4. KnownOrLost'
  <2>1. {m \in Net : hops'[m] # NoHops} = {}
    BY <1>1
  <2>2. Somewhere' = Somewhere
    BY <1>1 DEF Somewhere, StoredAddrs, InFlight
  <2>. QED
    BY <1>1, <2>1, <2>2 DEF Inv, KnownOrLost, Somewhere
<1>5. RestoredWasLearned' /\ BogonExact'
  BY <1>1 DEF RestoredWasLearned, BogonExact
<1>6. (\A x \in ann : Told(x))' /\ (\A x \in Range(queue) : Credible(x))'
      /\ (\A r \in Range(db) : IsRow(r))'
  BY <1>1, StillTold DEF Inv
<1>. QED
  BY <1>2, <1>3, <1>4, <1>5, <1>6 DEF Inv

\* view_hcf starts.
LEMMA ListenStep ==
  ASSUME Inv, listen
  PROVE  Inv'
<1>1. /\ hops' = hops /\ ann' = ann /\ bogons' = bogons /\ attack' = attack /\ listener' = "on"
      /\ queue' = queue /\ db' = db /\ setter' = setter
      /\ taught' = taught /\ overtaken' = overtaken /\ lost' = lost
      /\ file' = file
  BY DEF listen, kernelVars, histVars
<1>2. TypeOK' /\ SetterOK'
  BY <1>1 DEF Inv, TypeOK, SetterOK
<1>3. Somewhere \subseteq Somewhere'
  BY <1>1 DEF Somewhere, StoredAddrs, InFlight
<1>. QED
  BY <1>1, <1>2, <1>3, QuietStep DEF Inv

\* view_hcf is stopped.
LEMMA KillStep ==
  ASSUME Inv, kill
  PROVE  Inv'
<1>1. /\ hops' = hops /\ ann' = ann /\ bogons' = bogons /\ attack' = attack /\ listener' = "off"
      /\ queue' = <<>> /\ db' = db /\ setter' = setter
      /\ taught' = taught /\ overtaken' = overtaken
      /\ lost' = lost \cup {a.ip : a \in Range(queue)} /\ file' = file
  BY DEF kill, kernelVars
<1>2. Range(queue) \subseteq Announcement
  <2>1. queue \in Seq(Announcement)
    BY DEF Inv, TypeOK
  <2>. QED
    BY <2>1 DEF Range
<1>3. lost' \subseteq Addr
  BY <1>1, <1>2 DEF Inv, TypeOK, Announcement
<1>4. queue' \in Seq(Announcement) /\ Len(queue') <= QueueCap /\ Range(queue') = {}
  BY <1>1, RangeEmpty, ClientAssumption
<1>5. TypeOK' /\ SetterOK'
  BY <1>1, <1>3, <1>4 DEF Inv, TypeOK, SetterOK
<1>6. Somewhere \subseteq Somewhere'
  BY <1>1, <1>4 DEF Somewhere, StoredAddrs, InFlight
<1>. QED
  BY <1>1, <1>4, <1>5, <1>6, QuietStep DEF Inv

\* INSERT OR IGNORE: the address of the row is in the table afterwards, and in it
\* once.
Inserted(row) ==
  LET new == insert_or_ignore(row)
  IN  /\ new \in Seq(RowType)
      /\ \A i, j \in DOMAIN new : i # j => new[i].ip_addr # new[j].ip_addr
      /\ Range(db) \subseteq Range(new)
      /\ Range(new) \subseteq Range(db) \cup {row}
      /\ \E r \in Range(new) : r.ip_addr = row.ip_addr

LEMMA InsertIs ==
  ASSUME db \in Seq(RowType), \A i, j \in DOMAIN db : i # j => db[i].ip_addr # db[j].ip_addr,
         NEW row \in RowType
  PROVE  Inserted(row)
<1>1. CASE \E r \in Range(db) : r.ip_addr = row.ip_addr
  <2>1. insert_or_ignore(row) = db
    BY <1>1 DEF insert_or_ignore
  <2>. QED
    BY <1>1, <2>1, Zenon DEF Inserted
<1>2. CASE ~ \E r \in Range(db) : r.ip_addr = row.ip_addr
  <2>1. PICK new : new = Append(db, row)
    OBVIOUS
  <2>2. insert_or_ignore(row) = new
    BY <1>2, <2>1 DEF insert_or_ignore
  <2>3. /\ new \in Seq(RowType) /\ DOMAIN db = 1..Len(db) /\ Len(db) \in Nat
        /\ DOMAIN new = 1..(Len(db) + 1)
        /\ new[Len(db) + 1] = row /\ \A i \in 1..Len(db) : new[i] = db[i]
    BY <2>1
  <2>4. Range(new) = Range(db) \cup {row}
    BY <2>1, RangeAppend
  <2>5. \A i \in 1..Len(db) : db[i].ip_addr # row.ip_addr
    BY <1>2, <2>3 DEF Range
  <2>6. ASSUME NEW i \in DOMAIN new, NEW j \in DOMAIN new, i # j
        PROVE  new[i].ip_addr # new[j].ip_addr
    <3>1. i \in 1..Len(db) \/ i = Len(db) + 1
      BY <2>3
    <3>2. j \in 1..Len(db) \/ j = Len(db) + 1
      BY <2>3
    <3>3. CASE i \in 1..Len(db) /\ j \in 1..Len(db)
      BY <2>3, <2>6, <3>3
    <3>4. CASE i = Len(db) + 1 /\ j \in 1..Len(db)
      BY <2>3, <2>5, <3>4
    <3>5. CASE i \in 1..Len(db) /\ j = Len(db) + 1
      BY <2>3, <2>5, <3>5
    <3>. QED
      BY <2>6, <3>1, <3>2, <3>3, <3>4, <3>5
  <2>7. /\ insert_or_ignore(row) \in Seq(RowType)
        /\ Range(db) \subseteq Range(insert_or_ignore(row))
        /\ Range(insert_or_ignore(row)) \subseteq Range(db) \cup {row}
        /\ row \in Range(insert_or_ignore(row))
    BY <2>2, <2>3, <2>4
  <2>. QED
    BY <2>2, <2>6, <2>7, Zenon DEF Inserted
<1>. QED
  BY <1>1, <1>2

\* HcfListener::on_message_received.
LEMMA ReceiveStep ==
  ASSUME Inv, on_message_received
  PROVE  Inv'
<1>1. PICK a : a = Head(queue)
  OBVIOUS
<1>2. /\ hops' = hops /\ ann' = ann /\ bogons' = bogons /\ attack' = attack
      /\ listener' = listener /\ queue' = Tail(queue) /\ setter' = setter
      /\ taught' = taught /\ overtaken' = overtaken
      /\ file' = file /\ queue # <<>>
  BY DEF on_message_received, Consumed, kernelVars
<1>3. \/ db' = insert_or_ignore(Row(a)) /\ lost' = lost
      \/ lost' = lost \cup {a.ip} /\ db' = db
  BY <1>1 DEF on_message_received
<1>4. queue \in Seq(Announcement) /\ Len(queue) \in Nat /\ Len(queue) <= QueueCap
      /\ QueueCap \in Nat
  BY ClientAssumption DEF Inv, TypeOK
<1>5. /\ Range(queue) = Range(queue') \cup {a} /\ a \in Announcement
      /\ queue' \in Seq(Announcement) /\ Len(queue') = Len(queue) - 1
  BY <1>1, <1>2, <1>4, RangeTail
<1>6. Credible(a)
  BY <1>5 DEF Inv
<1>7. PICK row \in RowType : /\ row = Row(a) /\ nla_get_in_addr(row.ip_addr) = a.ip
                            /\ a.ip \in Addr
  BY <1>5, RowIs
<1>8. IsRow(row)
  BY <1>5, <1>6, <1>7 DEF IsRow
<1>9. /\ db \in Seq(RowType)
      /\ \A i, j \in DOMAIN db : i # j => db[i].ip_addr # db[j].ip_addr
  BY DEF Inv, TypeOK, RowType, BlobType
<1>10. Inserted(row)
  BY <1>9, InsertIs
<1>11. /\ db' \in Seq(RowType)
       /\ \A i, j \in DOMAIN db' : i # j => db'[i].ip_addr # db'[j].ip_addr
       /\ Range(db) \subseteq Range(db') /\ Range(db') \subseteq Range(db) \cup {row}
  <2>1. CASE db' = insert_or_ignore(Row(a))
    BY <1>7, <1>10, <2>1, Zenon DEF Inserted
  <2>2. CASE db' = db
    BY <1>9, <2>2, Zenon
  <2>. QED
    BY <1>3, <2>1, <2>2
<1>12. lost' \subseteq Addr /\ Len(queue') <= QueueCap
  BY <1>3, <1>4, <1>5, <1>7 DEF Inv, TypeOK
<1>13. TypeOK'
  BY <1>2, <1>5, <1>11, <1>12, Zenon DEF Inv, TypeOK, RowType, BlobType
<1>14. SetterOK'
  BY <1>2, <1>11 DEF Inv, SetterOK
<1>15. \A r \in Range(db') : IsRow(r)
  BY <1>8, <1>11 DEF Inv
<1>16. Somewhere \subseteq Somewhere'
  <2>1. StoredAddrs \subseteq StoredAddrs'
    BY <1>11 DEF StoredAddrs
  <2>2. InFlight = InFlight' \cup {a.ip}
    BY <1>2, <1>5 DEF InFlight
  <2>3. a.ip \in StoredAddrs' \cup lost'
    <3>1. CASE db' = insert_or_ignore(Row(a))
      <4>1. PICK r \in Range(db') : r.ip_addr = row.ip_addr
        BY <1>7, <1>10, <3>1, Zenon DEF Inserted
      <4>2. nla_get_in_addr(r.ip_addr) = a.ip
        BY <1>7, <4>1
      <4>. QED
        BY <4>1, <4>2 DEF StoredAddrs
    <3>2. CASE lost' = lost \cup {a.ip}
      BY <3>2
    <3>. QED
      BY <1>3, <3>1, <3>2
  <2>4. lost \subseteq lost'
    BY <1>3
  <2>. QED
    BY <2>1, <2>2, <2>3, <2>4 DEF Somewhere
<1>. QED
  BY <1>2, <1>5, <1>13, <1>14, <1>15, <1>16, QuietStep

\* HcfListener::set_ip_history.
LEMMA PackStep ==
  ASSUME Inv, set_ip_history
  PROVE  Inv'
<1>1. /\ hops' = hops /\ ann' = ann /\ bogons' = bogons /\ attack' = attack
      /\ listener' = listener /\ queue' = queue /\ db' = db
      /\ taught' = taught /\ overtaken' = overtaken
      /\ lost' = lost /\ file' = file
  BY DEF set_ip_history, kernelVars, histVars
<1>2. setter' = [busy |-> TRUE, rows |-> db, read |-> db]
  BY DEF set_ip_history, PackRows
<1>3. db \in Seq(RowType)
  BY DEF Inv, TypeOK, RowType, BlobType
<1>4. /\ setter' \in [busy : BOOLEAN, rows : Seq(RowType), read : Seq(RowType)]
      /\ setter'.rows = db /\ setter'.read = db /\ setter'.busy = TRUE
  BY <1>2, <1>3
<1>5. SetterOK'
  BY <1>1, <1>4 DEF SetterOK
<1>6. TypeOK'
  BY <1>1, <1>4 DEF Inv, TypeOK
<1>7. Somewhere \subseteq Somewhere'
  BY <1>1 DEF Somewhere, StoredAddrs, InFlight
<1>. QED
  BY <1>1, <1>5, <1>6, <1>7, QuietStep DEF Inv

\* A row of the table, as the kernel reads it: its address is stored, and what it
\* says of its network can be relied on as a message can.
LEMMA RowOfDb ==
  ASSUME Inv, NEW r \in Range(db)
  PROVE  /\ nla_get_in_addr(r.ip_addr) \in StoredAddrs
         /\ NetOfRow(r) \in Net
         /\ \/ <<NetOfRow(r), [ttl |-> r.ttl, hc |-> r.hc]>> \in taught
            \/ NetOfRow(r) \in overtaken
<1>1. PICK a \in Announcement : r = Row(a) /\ Credible(a)
  BY DEF Inv, IsRow
<1>2. nla_get_in_addr(r.ip_addr) = a.ip /\ r.ttl = a.ttl /\ r.hc = a.hc /\ NetOf(a.ip) \in Net
  BY <1>1, RowIs
<1>3. NetOfRow(r) = NetOf(a.ip)
  BY <1>2 DEF NetOfRow
<1>4. nla_get_in_addr(r.ip_addr) \in StoredAddrs
  BY DEF StoredAddrs
<1>. QED
  BY <1>1, <1>2, <1>3, <1>4 DEF Credible, Told

\* hcf_register_ip_history.
LEMMA HistoryStep ==
  ASSUME Inv, send_history
  PROVE  Inv'
<1>1. /\ hops' = MapOf(setter.rows) /\ ann' = Replaced(Net) /\ bogons' = bogons
      /\ attack' = attack /\ listener' = listener /\ queue' = queue /\ db' = db
      /\ taught' = taught /\ overtaken' = overtaken /\ lost' = lost /\ file' = file
      /\ setter' = Idle
  BY DEF send_history, histVars
<1>2. setter.rows \in Seq(RowType) /\ Range(setter.rows) \subseteq Range(db)
  BY DEF Inv, SetterOK
<1>3. MapIs(setter.rows)
  BY <1>2, MapOfRows
<1>4. hops' \in [Net -> HopsType \cup {NoHops}]
  BY <1>1, <1>3 DEF MapIs
<1>5. ASSUME NEW n \in Net, hops'[n] # NoHops
      PROVE  /\ \E x \in StoredAddrs : NetOf(x) = n
             /\ <<n, hops'[n]>> \in taught \/ n \in overtaken
  <2>1. PICK r \in Range(setter.rows) :
          NetOfRow(r) = n /\ hops'[n] = [ttl |-> r.ttl, hc |-> r.hc]
    BY <1>1, <1>3, <1>5 DEF MapIs
  <2>2. r \in Range(db)
    BY <1>2, <2>1
  <2>3. /\ nla_get_in_addr(r.ip_addr) \in StoredAddrs
        /\ \/ <<NetOfRow(r), [ttl |-> r.ttl, hc |-> r.hc]>> \in taught
           \/ NetOfRow(r) \in overtaken
    BY <2>2, RowOfDb
  <2>. QED
    BY <2>1, <2>3 DEF NetOfRow
<1>6. /\ Replaced(Net) \subseteq Pending
      /\ \A b \in Replaced(Net) : Told(b)'
      /\ InFlight \subseteq InFlight'
  BY <1>1, ReplacedOK
<1>7. KnownOrLost' /\ RestoredWasLearned'
  <2>1. StoredAddrs' = StoredAddrs
    BY <1>1 DEF StoredAddrs
  <2>2. Somewhere \subseteq Somewhere' /\ StoredAddrs \subseteq Somewhere'
    BY <1>1, <1>6, <2>1 DEF Somewhere
  <2>3. ASSUME NEW n \in {m \in Net : hops'[m] # NoHops} \cup {p[1] : p \in taught}
        PROVE  \E x \in Somewhere' : NetOf(x) = n
    <3>1. CASE n \in {p[1] : p \in taught}
      BY <2>2, <3>1 DEF Inv, KnownOrLost, Somewhere
    <3>2. CASE n \in Net /\ hops'[n] # NoHops
      BY <1>5, <2>2, <3>2
    <3>. QED
      BY <3>1, <3>2
  <2>4. KnownOrLost'
    BY <1>1, <2>3 DEF KnownOrLost, Somewhere
  <2>5. RestoredWasLearned'
    BY <1>1, <1>5 DEF RestoredWasLearned
  <2>. QED
    BY <2>4, <2>5
<1>8. SetterOK' /\ BogonExact'
  BY <1>1, IdleOK, SameList DEF Inv
<1>9. TypeOK'
  <2>1. setter'.busy \in BOOLEAN
    BY <1>1 DEF Idle
  <2>2. ann' \subseteq Pending
    BY <1>1, <1>6
  <2>. QED
    BY <1>1, <1>4, <2>1, <2>2 DEF Inv, TypeOK, HopsType
<1>10. (\A x \in ann : Told(x))'
  BY <1>1, <1>6
<1>11. (\A x \in Range(queue) : Credible(x))' /\ (\A r \in Range(db) : IsRow(r))'
  BY <1>1, StillTold DEF Inv
<1>. QED
  BY <1>7, <1>8, <1>9, <1>10, <1>11 DEF Inv

\* set_hcf ends without effect.
LEMMA FailStep ==
  ASSUME Inv, send_fails
  PROVE  Inv'
<1>1. /\ hops' = hops /\ ann' = ann /\ bogons' = bogons /\ attack' = attack
      /\ listener' = listener /\ queue' = queue /\ db' = db
      /\ taught' = taught /\ overtaken' = overtaken
      /\ lost' = lost /\ file' = file /\ setter' = Idle
  BY DEF send_fails, kernelVars, histVars
<1>2. setter'.busy \in BOOLEAN
  BY <1>1 DEF Idle
<1>3. TypeOK' /\ SetterOK'
  BY <1>1, <1>2, IdleOK DEF Inv, TypeOK
<1>4. Somewhere \subseteq Somewhere'
  BY <1>1 DEF Somewhere, StoredAddrs, InFlight
<1>. QED
  BY <1>1, <1>3, <1>4, QuietStep DEF Inv

\* CommandDispatcher::send_bogon_list and set_under_attack: nothing is said of the
\* trie.
LEMMA CommandStep ==
  ASSUME Inv, hops' = hops, ann' = ann, listener' = listener, queue' = queue, db' = db,
         setter' = setter, taught' = taught, overtaken' = overtaken, lost' = lost,
         attack' \in BOOLEAN,
         bogons' \in Seq(Prefix \cup {ZeroPrefix}), BogonExact'
  PROVE  Inv'
<1>1. TypeOK' /\ SetterOK'
  BY DEF Inv, TypeOK, SetterOK
<1>2. Somewhere \subseteq Somewhere'
  BY DEF Somewhere, StoredAddrs, InFlight
<1>3. KnownOrLost' /\ RestoredWasLearned'
  BY <1>2, StillKnown DEF Inv
<1>4. (\A x \in ann : Told(x))' /\ (\A x \in Range(queue) : Credible(x))'
      /\ (\A r \in Range(db) : IsRow(r))'
  BY StillTold DEF Inv
<1>. QED
  BY <1>1, <1>3, <1>4 DEF Inv

LEMMA InvNext ==
  ASSUME Inv, [Next]_vars
  PROVE  Inv'
<1>1. ASSUME NEW p \in Packets, learn(p.ip, p.ttl) PROVE Inv'
  BY <1>1, LearnStep
<1>2. ASSUME NEW a \in ann, hcf_log_new_ip(a) PROVE Inv'
  BY <1>2, AnnounceStep
<1>3. ASSUME NEW f \in Files, NEW size \in ListSizes, send_bogon_list(f, size) PROVE Inv'
  <2>1. BogonExact' /\ bogons' \in Seq(Prefix \cup {ZeroPrefix})
    BY <1>3, ListExact
  <2>2. /\ hops' = hops /\ ann' = ann /\ listener' = listener /\ queue' = queue /\ db' = db
        /\ setter' = setter
        /\ taught' = taught /\ overtaken' = overtaken /\ lost' = lost /\ attack' = attack
    BY <1>3 DEF send_bogon_list, userVars, histVars
  <2>3. attack' \in BOOLEAN
    BY <2>2 DEF Inv, TypeOK
  <2>. QED
    BY <2>1, <2>2, <2>3, CommandStep
<1>4. ASSUME NEW b \in BOOLEAN, set_under_attack(b) PROVE Inv'
  <2>1. /\ hops' = hops /\ ann' = ann /\ listener' = listener /\ queue' = queue /\ db' = db
        /\ setter' = setter
        /\ taught' = taught /\ overtaken' = overtaken /\ lost' = lost /\ attack' \in BOOLEAN
        /\ bogons' = bogons /\ file' = file
    BY <1>4 DEF set_under_attack, userVars, histVars
  <2>2. BogonExact' /\ bogons' \in Seq(Prefix \cup {ZeroPrefix})
    BY <2>1, SameList DEF Inv, TypeOK
  <2>. QED
    BY <2>1, <2>2, CommandStep
<1>5. CASE UNCHANGED vars
  <2>1. /\ hops' = hops /\ ann' = ann /\ listener' = listener /\ queue' = queue /\ db' = db
        /\ setter' = setter
        /\ taught' = taught /\ overtaken' = overtaken /\ lost' = lost /\ attack' = attack
        /\ bogons' = bogons /\ file' = file
    BY <1>5 DEF vars, kernelVars, userVars, histVars
  <2>2. BogonExact' /\ bogons' \in Seq(Prefix \cup {ZeroPrefix}) /\ attack' \in BOOLEAN
    BY <2>1, SameList DEF Inv, TypeOK
  <2>. QED
    BY <2>1, <2>2, CommandStep
<1>. QED
  BY <1>1, <1>2, <1>3, <1>4, <1>5, ReloadStep, ListenStep, KillStep, ReceiveStep, PackStep,
     HistoryStep, FailStep DEF Next

-----------------------------------------------------------------------------
(* The theorems.                                                           *)

\* Every reachable state of the program, its database and the module satisfies
\* the inductive invariant.
THEOREM Invariance == Spec => []Inv
<1>1. Init => Inv
  BY InvInit
<1>2. Inv /\ [Next]_vars => Inv'
  BY InvNext
<1>. QED
  BY <1>1, <1>2, PTL DEF Spec

\* Type correctness; the unique index of hcf_ipv4_history holds.
THEOREM TypeCorrect == Spec => []TypeOK
<1>1. Inv => TypeOK
  BY DEF Inv
<1>. QED
  BY <1>1, Invariance, PTL

\* Whatever was learned, and whatever the trie knows, is in the database, on its way
\* there, or was lost for one of the reasons that hcf_log_new_ip and
\* on_message_received ignore.
THEOREM NothingForgotten == Spec => []KnownOrLost
<1>1. Inv => KnownOrLost
  BY DEF Inv
<1>. QED
  BY <1>1, Invariance, PTL

\* Whatever set_hcf restores was taught by a packet of the same network, unless the
\* leaf of the network was replaced before the work item read what it announced.
THEOREM NothingInvented == Spec => []RestoredWasLearned
<1>1. Inv => RestoredWasLearned
  BY DEF Inv
<1>. QED
  BY <1>1, Invariance, PTL

\* The list in force has the first lines of the file that set_bogon was given, as
\* many as fit a message.
THEOREM ListIsTheFile == Spec => []BogonExact
<1>1. Inv => BogonExact
  BY DEF Inv
<1>. QED
  BY <1>1, Invariance, PTL

\* The networks of a history that was sent are those of the trie.
LEMMA SentWhole ==
  ASSUME Inv, send_history
  PROVE  {n \in Net : hops'[n] # NoHops} =
           {NetOf(nla_get_in_addr(r.ip_addr)) : r \in Range(setter.read)}
<1>1. /\ hops' = MapOf(setter.rows) /\ setter.rows \in Seq(RowType)
      /\ setter.rows = setter.read /\ Range(setter.rows) \subseteq Range(db)
  BY DEF Inv, SetterOK, send_history
<1>2. MapIs(setter.rows)
  BY <1>1, MapOfRows
<1>3. \A r \in Range(setter.rows) : NetOfRow(r) \in Net
  BY <1>1, RowOfDb
<1>4. \A r \in Range(setter.rows) : hops'[NetOfRow(r)] # NoHops
  BY <1>1, <1>2, <1>3 DEF MapIs
<1>5. \A n \in Net : hops'[n] # NoHops => \E r \in Range(setter.rows) : NetOfRow(r) = n
  BY <1>1, <1>2 DEF MapIs
<1>6. {n \in Net : hops'[n] # NoHops} = {NetOfRow(r) : r \in Range(setter.rows)}
  BY <1>3, <1>4, <1>5
<1>. QED
  BY <1>1, <1>6 DEF NetOfRow

\* What a step of set_hcf leaves of the trie.
HistoryKept ==
  setter.busy /\ ~setter'.busy /\ reloads' = reloads =>
    \/ hops' = hops
    \/ {n \in Net : hops'[n] # NoHops} =
         {NetOf(nla_get_in_addr(r.ip_addr)) : r \in Range(setter.read)}

Counted == reloads \in Nat

LEMMA HistoryKeptByStep ==
  ASSUME Inv, Counted, Next
  PROVE  HistoryKept
<1>1. CASE send_history
  BY <1>1, SentWhole DEF HistoryKept
<1>2. CASE reload
  <2>1. reloads' = reloads + 1 /\ reloads \in Nat
    BY <1>2 DEF reload, Counted
  <2>. QED
    BY <2>1 DEF HistoryKept
<1>3. ASSUME setter' = setter PROVE HistoryKept
  BY <1>3 DEF HistoryKept
<1>4. ASSUME hops' = hops PROVE HistoryKept
  BY <1>4 DEF HistoryKept
<1>5. ASSUME NEW p \in Packets, learn(p.ip, p.ttl) PROVE HistoryKept
  BY <1>3, <1>5 DEF learn, userVars
<1>6. ASSUME NEW a \in ann, hcf_log_new_ip(a) PROVE HistoryKept
  BY <1>3, <1>6 DEF hcf_log_new_ip
<1>7. CASE listen \/ kill \/ on_message_received
  BY <1>3, <1>7 DEF listen, kill, on_message_received
<1>8. CASE set_ip_history \/ send_fails
  BY <1>4, <1>8 DEF set_ip_history, send_fails, kernelVars
<1>9. ASSUME NEW f \in Files, NEW size \in ListSizes, send_bogon_list(f, size) PROVE HistoryKept
  BY <1>3, <1>9 DEF send_bogon_list, userVars
<1>10. ASSUME NEW b \in BOOLEAN, set_under_attack(b) PROVE HistoryKept
  BY <1>3, <1>10 DEF set_under_attack, userVars
<1>. QED
  BY <1>1, <1>2, <1>5, <1>6, <1>7, <1>8, <1>9, <1>10 DEF Next

\* set_hcf restores the table as a whole, as it was at one moment, or nothing.
THEOREM HistoryAllOrNothing == Spec => HistoryWhole
<1>1. Inv /\ Counted /\ [Next]_vars => [HistoryKept]_vars
  BY HistoryKeptByStep
<1>2. Counted /\ [Next]_vars => Counted'
  <2>1. CASE reload
    BY <2>1 DEF reload, Counted
  <2>2. CASE UNCHANGED vars
    BY <2>2 DEF vars, boundVars, Counted
  <2>. QED
    BY <2>1, <2>2 DEF Counted, boundVars, Next, learn, hcf_log_new_ip, listen, kill,
       on_message_received, set_ip_history, send_history, send_fails, send_bogon_list,
       set_under_attack
<1>3. Init => Counted
  BY DEF Init, Counted
<1>. QED
  BY <1>1, <1>2, <1>3, Invariance, PTL DEF Spec, HistoryWhole, HistoryKept

=============================================================================
